-------------------------------- MODULE Lease --------------------------------
(***************************************************************************)
(* What the coordinator promises about turns at the robot, abstractly: a   *)
(* transaction asks for its turn, waits behind those who asked before it,  *)
(* has the robot to itself from its first publish to its last suspension,  *)
(* and gives the turn up.  It may be over without ever suspending (Pass),  *)
(* and a cancelled task may leave the queue (GiveUp).                      *)
(***************************************************************************)
EXTENDS Naturals, Sequences, SequencesExt

CONSTANTS Procs,   \* those who take turns
          NoOne    \* the owner while nobody has the turn

VARIABLES owner,   \* whose turn it is
          queue,   \* who waits for a turn, in order
          phase    \* where each process is: outside, waiting or inside

vars == <<owner, queue, phase>>

TypeOK == /\ owner \in Procs \cup {NoOne}
          /\ queue \in Seq(Procs)
          /\ phase \in [Procs -> {"outside", "waiting", "inside"}]

Init == owner = NoOne /\ queue = <<>> /\ phase = [p \in Procs |-> "outside"]

First(p) == phase[p] = "waiting" /\ owner = NoOne /\ queue # <<>> /\ Head(queue) = p

Ask(p) == /\ phase[p] = "outside"
          /\ phase' = [phase EXCEPT ![p] = "waiting"]
          /\ queue' = Append(queue, p) /\ UNCHANGED owner

Enter(p) == /\ First(p)
            /\ phase' = [phase EXCEPT ![p] = "inside"]
            /\ queue' = Tail(queue) /\ owner' = p

Pass(p) == /\ First(p)
           /\ phase' = [phase EXCEPT ![p] = "outside"]
           /\ queue' = Tail(queue) /\ UNCHANGED owner

Leave(p) == /\ phase[p] = "inside"
            /\ phase' = [phase EXCEPT ![p] = "outside"]
            /\ owner' = NoOne /\ UNCHANGED queue

GiveUp(p) == /\ phase[p] = "waiting"
             /\ phase' = [phase EXCEPT ![p] = "outside"]
             /\ \E i \in 1 .. Len(queue) : queue[i] = p /\ queue' = RemoveAt(queue, i)
             /\ UNCHANGED owner

Next == \E p \in Procs : Ask(p) \/ Enter(p) \/ Pass(p) \/ Leave(p) \/ GiveUp(p)

Spec == Init /\ [][Next]_vars

(* The owner and the queue agree with where the processes are: one process *)
(* inside at most, and each waiting process in the queue exactly once.     *)
Agreement ==
  /\ \A p \in Procs : phase[p] = "inside" <=> owner = p
  /\ \A p \in Procs : phase[p] = "waiting" <=> \E i \in 1 .. Len(queue) : queue[i] = p
  /\ \A i, j \in 1 .. Len(queue) : queue[i] = queue[j] => i = j
=============================================================================
