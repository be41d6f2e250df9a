---------------------------- MODULE ProfileStore ----------------------------
(***************************************************************************)
(* The robot profiles of one machine (robot_profiles.py) under several     *)
(* commands at once, each a process of its own: what every one reads,      *)
(* asks a person, locks and writes (cli.py), and what is left when one of  *)
(* them dies.  The reads, the unlinks and the atomic replacements of files *)
(* are the steps; at `asked' a command waits for a person or for the robot *)
(* and at `naming' for the name of a new robot, both outside the lock.     *)
(***************************************************************************)
EXTENDS Integers, FiniteSets

CONSTANTS
  Commands,        \* processes, each running one command at a time
  OpsOf,           \* the kinds of command each process runs
  Robots,          \* serials
  Names,           \* display names; one may read like a serial
  Distances,       \* litter distances a reading can give
  Plausible,       \* LITTER_PLAUSIBLE_MM: those a bed of litter can physically give
  MinSpan,         \* LITTER_MIN_SPAN_MM: empty lies this much behind full, or more
  MaxSpan,         \* LITTER_MAX_SPAN_MM: and at most this much
  StartProfiles,   \* contents a profile may have when the model starts
  MaxCalls,        \* bound: commands run
  None, Damaged    \* no file; a file that does not parse

Ops == {"rename", "calibrate", "use", "forget", "provision", "rotate"}
Points == {"full", "empty"}
Profiles == [name : Names \cup {None}, full : Distances \cup {None},
             empty : Distances \cup {None}, cert : Nat]
Fields == {"name", "full", "empty", "cert"}
Pairs == {"cert", "key"}
Inside == {"load", "write", "check", "unlink_profile", "unlink_cert", "unlink_key", "rmdir",
           "vacate"}

ASSUME ProfileStoreAssumption ==
  /\ OpsOf \in [Commands -> SUBSET Ops]
  /\ Distances \subseteq Int /\ MinSpan \in Int /\ MaxSpan \in Int /\ MaxCalls \in Nat
  /\ StartProfiles \subseteq Profiles \cup {None, Damaged}
  /\ None \notin Robots \cup Names \cup Commands \cup Distances \cup Profiles
  /\ None \notin Ops \cup Inside /\ Damaged \notin Profiles /\ Damaged # None

VARIABLES
  profile,   \* robots/<serial>/profile.json
  cert, key, \* robots/<serial>/client/: the number of the identity each file is of, 0 for no file
  dirs,      \* the robots that have a directory
  default,   \* the file `default'
  lock,      \* who holds the flock on .lock
  pc, job,   \* where each command is, and its locals
  calls,     \* commands run so far; a provision's number names the identity it may mint
  torn       \* history: robots whose forget died under way

files == <<profile, cert, key, dirs, default>>
vars == <<files, lock, pc, job, calls, torn>>

Stages == Inside \cup {"idle", "asked", "save_cert", "save_key", "prior", "naming", "queued",
                       "appoint", "wipe", "list", "next"}
Waiting == {"asked", "naming"}   \* for a person, or for the robot

(* The locals of a command: what it is and of which robot, what it was given,  *)
(* where the lock lets it go, the profile it is about to write, and what a     *)
(* replacement of the authority has still to do.                               *)
Job(op, r, arg) ==
  [op |-> op, robot |-> r, arg |-> arg, then |-> None, new |-> None, left |-> {}]
NoJob == Job(None, None, None)

TypeOK ==
  /\ profile \in [Robots -> Profiles \cup {None, Damaged}]
  /\ cert \in [Robots -> 0 .. MaxCalls] /\ key \in [Robots -> 0 .. MaxCalls]
  /\ dirs \in SUBSET Robots /\ default \in Robots \cup {None}
  /\ \A r \in Robots : profile[r] # None \/ cert[r] # 0 \/ key[r] # 0 => r \in dirs
  /\ pc \in [Commands -> Stages] /\ lock \in Commands \cup {None}
  /\ \A p \in Commands : /\ lock = p <=> pc[p] \in Inside
                         /\ job[p].op \in Ops \cup {None} /\ job[p].robot \in Robots \cup {None}
                         /\ job[p].then \in Inside \cup {None}
                         /\ job[p].new \in Profiles \cup {None}
  /\ calls \in 0 .. MaxCalls /\ torn \in SUBSET Robots

Init ==
  /\ profile \in [Robots -> StartProfiles]
  /\ cert = [r \in Robots |-> 0] /\ key = [r \in Robots |-> 0]
  /\ dirs = {r \in Robots : profile[r] # None}
  /\ default \in {None} \cup dirs
  /\ lock = None /\ pc = [p \in Commands |-> "idle"] /\ job = [p \in Commands |-> NoJob]
  /\ calls = 0 /\ torn = {}

-----------------------------------------------------------------------------
(* Reading the store, which takes no lock. *)

Loads(r) == profile[r] \notin {None, Damaged}
Known == {r \in Robots : Loads(r)}
Display(r) == IF profile[r].name = None THEN r ELSE profile[r].name

(* resolve: a serial before a name, a damaged robot before a healthy one named like it. *)
ByName(arg) == {r \in Known : Display(r) = arg}
Resolve(arg) ==
  IF arg = None
  THEN IF default # None THEN Known \cap {default}
       ELSE IF Cardinality(Known) = 1 THEN Known ELSE {}
  ELSE IF arg \in Robots /\ (Loads(arg) \/ arg \in dirs) THEN Known \cap {arg}
       ELSE IF Cardinality(ByName(arg)) = 1 THEN ByName(arg) ELSE {}

(* What forget falls back to: a serial that has a directory, however damaged. *)
Doomed(arg) == IF Resolve(arg) # {} THEN Resolve(arg) ELSE {arg} \cap dirs

(* _calibration_problem: each end plausible; both in order, not too near, not too far apart. *)
Usable(pair) ==
  /\ {pair.full, pair.empty} \subseteq Plausible \cup {None}
  /\ pair.full # None /\ pair.empty # None => pair.empty - pair.full \in MinSpan .. MaxSpan

(* What a calibration makes of a profile: it starts over behind an unusable pair. *)
Calibrated(current, point, reading) ==
  LET kept == IF Usable(current) THEN current ELSE [current EXCEPT !.full = None, !.empty = None]
  IN  [kept EXCEPT ![point] = reading]

-----------------------------------------------------------------------------
Becomes(p, j) == job' = [job EXCEPT ![p] = j]
Goto(p, stage) == pc' = [pc EXCEPT ![p] = stage]
Queue(p, j, then) == Goto(p, "queued") /\ Becomes(p, [j EXCEPT !.then = then])
Release(p) == lock' = IF lock = p THEN None ELSE lock
Ends(p) == Goto(p, "idle") /\ Becomes(p, NoJob) /\ Release(p)

(* A command starts: it resolves its robot and turns to the person or the robot. *)
Begin(p, j) ==
  /\ pc[p] = "idle" /\ j.op \in OpsOf[p] /\ calls < MaxCalls
  /\ calls' = calls + 1
  /\ Goto(p, "asked") /\ Becomes(p, j)
  /\ UNCHANGED <<files, lock, torn>>

StartRename(p) == \E arg \in Robots \cup Names : \E r \in Resolve(arg), n \in Names :
  Begin(p, Job("rename", r, n))

(* Where the robot is not clear a person may pick it from the list; a name of two is refused. *)
StartCalibrate(p) == \E arg \in Robots \cup Names \cup {None} :
  \E r \in IF Resolve(arg) = {} /\ Cardinality(ByName(arg)) < 2 THEN Known ELSE Resolve(arg) :
  \E point \in Points, d \in Distances :
    Begin(p, Job("calibrate", r, [point |-> point, reading |-> d]))

StartUse(p) == \E arg \in Robots \cup Names : \E r \in Resolve(arg) :
  Begin(p, Job("use", r, None))

StartForget(p) == \E arg \in Robots \cup Names : \E r \in Doomed(arg) :
  Begin(p, Job("forget", r, None))

(* One laptop at a robot: in pairing mode it serves one link.  The identity is the one on   *)
(* file or, for want of it or with --reissue, one minted now and written later.             *)
StartProvision(p) == \E r \in Robots, n \in Names \cup {None}, reissue \in BOOLEAN :
  /\ \A q \in Commands : ~(job[q].op = "provision" /\ job[q].robot = r)
  /\ cert[r] = key[r] \/ cert[r] = 0 \/ key[r] = 0
  /\ Begin(p, Job("provision", r,
       [name |-> n,
        cert |-> IF cert[r] # 0 /\ key[r] # 0 /\ ~reissue THEN cert[r] ELSE calls + 1]))

(* The confirmed replacement of the authority, as far as it touches the robots. *)
StartRotate(p) == Begin(p, Job("rotate", None, None))

(* The person answers, or the robot has: what was read before may be stale now. *)
Answered(p) ==
  /\ pc[p] = "asked"
  /\ LET j == job[p]
         stored == profile[j.robot]
     IN  \/ j.op = "rename" /\ Queue(p, j, "load")
         \/ j.op = "use" /\ Queue(p, j, "check")
         \/ j.op = "forget" /\ Queue(p, j, "unlink_profile")
         \/ j.op = "provision" /\ Goto(p, "save_cert") /\ UNCHANGED job
         \/ j.op = "rotate" /\ Goto(p, "wipe") /\ Becomes(p, [j EXCEPT !.left = dirs \X Pairs])
         \/ /\ j.op = "calibrate" /\ Loads(j.robot)
            /\ Usable(Calibrated(stored, j.arg.point, j.arg.reading))
            /\ Queue(p, j, "load")
  /\ UNCHANGED <<files, lock, calls, torn>>

(* Declined, refused by the robot, not saved any more, or no scale with the other point. *)
Declined(p) == pc[p] = "asked" /\ Ends(p) /\ UNCHANGED <<files, calls, torn>>

-----------------------------------------------------------------------------
(* The lock: polled until a deadline, released with the process that held it. *)
Acquire(p) ==
  /\ pc[p] = "queued" /\ lock = None
  /\ lock' = p /\ Goto(p, job[p].then)
  /\ UNCHANGED <<files, job, calls, torn>>

LockTimeout(p) ==
  /\ pc[p] = "queued" /\ lock # None
  /\ Ends(p) /\ UNCHANGED <<files, calls, torn>>

(* What update's callers make of the profile as it is under the lock. *)
Transform(j, current) ==
  CASE j.op = "rename" -> [current EXCEPT !.name = j.arg]
    [] j.op = "calibrate" -> Calibrated(current, j.arg.point, j.arg.reading)
    [] j.op = "provision" ->
         [current EXCEPT !.name = IF j.arg.name = None THEN @ ELSE j.arg.name, !.cert = j.arg.cert]

Load_Unlocks(p) == \* mutant: update as a load and then a save, the lock held for the save only
  /\ pc[p] = "load" /\ UNCHANGED <<files, calls, torn>>
  /\ LET j == job[p] IN
     IF Loads(j.robot) /\ (j.op = "calibrate" => Usable(Transform(j, profile[j.robot])))
     THEN Queue(p, [j EXCEPT !.new = Transform(j, profile[j.robot])], "write") /\ Release(p)
     ELSE Ends(p)

Load_Unjudged(p) == \* mutant: the pair is not judged again under the lock
  /\ pc[p] = "load" /\ UNCHANGED <<files, calls, torn>>
  /\ LET j == job[p] IN
     IF Loads(j.robot)
     THEN /\ Goto(p, "write") /\ UNCHANGED lock
          /\ Becomes(p, [j EXCEPT !.new = Transform(j, profile[j.robot])])
     ELSE Ends(p)

(* update: the profile is read and changed; gone, damaged or no scale, it is left alone. *)
Load(p) ==
  /\ pc[p] = "load"
  /\ LET j == job[p]
         new == Transform(j, profile[j.robot])
     IN  IF Loads(j.robot) /\ (j.op = "calibrate" => Usable(new))
         THEN Goto(p, "write") /\ Becomes(p, [j EXCEPT !.new = new]) /\ UNCHANGED lock
         ELSE Ends(p)
  /\ UNCHANGED <<files, calls, torn>>

(* _save_unlocked: the file is replaced whole. *)
Write(p) ==
  /\ pc[p] = "write"
  /\ LET j == job[p] IN
     /\ profile' = [profile EXCEPT ![j.robot] = j.new]
     /\ dirs' = dirs \cup {j.robot}
     /\ \/ j.op \in {"rename", "calibrate"} /\ Ends(p)
        \/ j.op = "provision" /\ Goto(p, "appoint") /\ UNCHANGED job /\ Release(p)
        \/ j.op = "rotate" /\ Goto(p, "next") /\ UNCHANGED job /\ Release(p)
  /\ UNCHANGED <<cert, key, default, calls, torn>>

SetDefault_Unchecked(p) == \* mutant: any serial may be the default
  /\ pc[p] = "check" /\ default' = job[p].robot
  /\ Ends(p)
  /\ UNCHANGED <<profile, cert, key, dirs, calls, torn>>

(* set_default: only a robot with a profile. *)
SetDefault(p) ==
  /\ pc[p] = "check"
  /\ default' = IF profile[job[p].robot] # None THEN job[p].robot ELSE default
  /\ Ends(p)
  /\ UNCHANGED <<profile, cert, key, dirs, calls, torn>>

(* forget: one file after the other, then the directory, then the default. *)
Forget(p) ==
  LET r == job[p].robot
      To(stage) == Goto(p, stage) /\ UNCHANGED <<job, lock>>
  IN
  /\ \/ /\ pc[p] = "unlink_profile" /\ r \in dirs /\ To("unlink_cert")
        /\ profile' = [profile EXCEPT ![r] = None] /\ UNCHANGED <<cert, key, dirs, default>>
     \/ /\ pc[p] = "unlink_profile" /\ r \notin dirs /\ Ends(p) /\ UNCHANGED files
     \/ /\ pc[p] = "unlink_cert" /\ To("unlink_key")
        /\ cert' = [cert EXCEPT ![r] = 0] /\ UNCHANGED <<profile, key, dirs, default>>
     \/ /\ pc[p] = "unlink_key" /\ To("rmdir")
        /\ key' = [key EXCEPT ![r] = 0] /\ UNCHANGED <<profile, cert, dirs, default>>
     \/ /\ pc[p] = "rmdir" /\ To("vacate")
        /\ dirs' = IF cert[r] = 0 /\ key[r] = 0 THEN dirs \ {r} ELSE dirs
        /\ UNCHANGED <<profile, cert, key, default>>
     \/ /\ pc[p] = "vacate" /\ Ends(p)
        /\ default' = IF default = r THEN None ELSE default
        /\ UNCHANGED <<profile, cert, key, dirs>>
  /\ torn' = IF pc[p] = "vacate" THEN torn \ {r} ELSE torn
  /\ UNCHANGED calls

-----------------------------------------------------------------------------
(* Behind a robot that accepted: the identity, then the profile, then the default. *)
SaveIdentity(p) ==
  LET r == job[p].robot IN
  /\ \/ /\ pc[p] = "save_cert" /\ Goto(p, "save_key")
        /\ cert' = [cert EXCEPT ![r] = job[p].arg.cert] /\ UNCHANGED key
     \/ /\ pc[p] = "save_key" /\ Goto(p, "prior")
        /\ key' = [key EXCEPT ![r] = job[p].arg.cert] /\ UNCHANGED cert
  /\ dirs' = dirs \cup {r}
  /\ UNCHANGED <<profile, default, lock, job, calls, torn>>

FirstProfile(p, n) ==
  Queue(p, [job[p] EXCEPT !.new = [name |-> n, full |-> None, empty |-> None,
                                   cert |-> job[p].arg.cert]], "write")

(* _save_profile: a known robot is updated; a new one takes the name given, stays without one *)
(* where there is no terminal, or has its person asked.                                       *)
Prior(p) ==
  /\ pc[p] = "prior"
  /\ LET j == job[p] IN
     \/ Loads(j.robot) /\ Queue(p, j, "load")
     \/ ~Loads(j.robot) /\ FirstProfile(p, j.arg.name)
     \/ ~Loads(j.robot) /\ j.arg.name = None /\ Goto(p, "naming") /\ UNCHANGED job
  /\ UNCHANGED <<files, lock, calls, torn>>

(* _ask_name: the person types a name, or skips it. *)
Named(p) ==
  /\ pc[p] = "naming" /\ \E n \in Names \cup {None} : FirstProfile(p, n)
  /\ UNCHANGED <<files, lock, calls, torn>>

Appoint(p) ==
  /\ pc[p] = "appoint"
  /\ IF default = None THEN Queue(p, job[p], "check") /\ UNCHANGED lock ELSE Ends(p)
  /\ UNCHANGED <<files, calls, torn>>

(* forget_issued_certificates: every identity, a certificate before its key, then every *)
(* profile as it was listed.                                                             *)
Unlinks(p, r, file) ==
  /\ cert' = IF file = "cert" THEN [cert EXCEPT ![r] = 0] ELSE cert
  /\ key' = IF file = "key" THEN [key EXCEPT ![r] = 0] ELSE key
  /\ Becomes(p, [job[p] EXCEPT !.left = @ \ {<<r, file>>}]) /\ UNCHANGED pc

Wipe(p) ==
  /\ pc[p] = "wipe"
  /\ \/ \E r \in Robots, file \in Pairs :
          /\ <<r, file>> \in job[p].left /\ (file = "key" => <<r, "cert">> \notin job[p].left)
          /\ Unlinks(p, r, file)
     \/ job[p].left = {} /\ Goto(p, "list") /\ UNCHANGED <<cert, key, job>>
  /\ UNCHANGED <<profile, dirs, default, lock, calls, torn>>

ListProfiles(p) ==
  /\ pc[p] = "list" /\ Goto(p, "next")
  /\ Becomes(p, [job[p] EXCEPT !.left =
       {[robot |-> r, was |-> profile[r]] : r \in {s \in Known : profile[s].cert # 0}}])
  /\ UNCHANGED <<files, lock, calls, torn>>

NextProfile_Again(p) == \* mutant: a profile written is not struck off the list
  /\ pc[p] = "next"
  /\ \/ \E listed \in job[p].left :
          Queue(p, [job[p] EXCEPT !.robot = listed.robot, !.new = [listed.was EXCEPT !.cert = 0]],
                "write")
          /\ UNCHANGED lock
     \/ job[p].left = {} /\ Ends(p)
  /\ UNCHANGED <<files, calls, torn>>

NextProfile(p) ==
  /\ pc[p] = "next"
  /\ \/ \E listed \in job[p].left :
          Queue(p, [job[p] EXCEPT !.robot = listed.robot, !.left = @ \ {listed},
                                  !.new = [listed.was EXCEPT !.cert = 0]], "write")
          /\ UNCHANGED lock
     \/ job[p].left = {} /\ Ends(p)
  /\ UNCHANGED <<files, calls, torn>>

(* A kill, or a file system that refuses: the flock goes with the process. *)
Dies(p) ==
  /\ pc[p] \notin {"idle", "asked"}
  /\ torn' = IF job[p].op = "forget" /\ pc[p] \in Inside THEN torn \cup {job[p].robot} ELSE torn
  /\ Ends(p) /\ UNCHANGED <<files, calls>>

Step(p) == \/ Acquire(p) \/ LockTimeout(p) \/ Load(p) \/ Write(p) \/ SetDefault(p) \/ Forget(p)
           \/ SaveIdentity(p) \/ Prior(p) \/ Appoint(p)
           \/ Wipe(p) \/ ListProfiles(p) \/ NextProfile(p)
Start(p) == \/ StartRename(p) \/ StartCalibrate(p) \/ StartUse(p) \/ StartForget(p)
            \/ StartProvision(p) \/ StartRotate(p)
Person(p) == Answered(p) \/ Declined(p) \/ Named(p)
Next == \E p \in Commands : Start(p) \/ Person(p) \/ Step(p) \/ Dies(p)

Spec == Init /\ [][Next]_vars
FairSpec == Spec /\ \A p \in Commands : WF_vars(Step(p))

-----------------------------------------------------------------------------
(* What a command was asked to change; a calibration behind an unusable pair starts it over. *)
Asked(j, current) ==
  CASE j.op = "rename" -> {"name"}
    [] j.op = "calibrate" -> IF Usable(current) THEN {j.arg.point} ELSE Points
    [] j.op = "provision" -> {"cert"} \cup (IF j.arg.name = None THEN {} ELSE {"name"})
    [] j.op = "rotate" -> {"cert"}

(* p's step writes a profile. *)
Writes(p) == pc[p] = "write" /\ pc'[p] # "write" /\ profile'[job[p].robot] = job[p].new
(* The robot has a profile, of which all stays that p was not asked to change. *)
Keeps(p) ==
  LET r == job[p].robot IN
  Loads(r) /\ \A f \in Fields \ Asked(job[p], profile[r]) : profile'[r][f] = profile[r][f]
(* A provision that found no profile writes its first one. *)
First(p) == job[p].op = "provision" /\ job[p].then = "write"

(***************************************************************************)
(* No lost update (update, robot_profiles.py): whatever else ran since a   *)
(* rename, a calibration or a provision was started, its write changes     *)
(* what it was asked to change, carries no older value of anything, and    *)
(* brings no robot back that was forgotten meanwhile.                      *)
(***************************************************************************)
NoLostUpdate ==
  [][\A p \in Commands : Writes(p) /\ ~First(p) /\ job[p].op # "rotate" => Keeps(p)]_vars

(***************************************************************************)
(* Two calibrations of one robot, one of each end, leave a pair that is a  *)
(* scale or refuse the second, whatever each of them read beforehand.      *)
(***************************************************************************)
CalibrationLeavesAScale ==
  [][\A p \in Commands :
       Writes(p) /\ job[p].op = "calibrate" => Usable(profile'[job[p].robot])]_vars

(***************************************************************************)
(* Whenever nobody is inside the lock, the default names a robot that has  *)
(* a profile, unless a forget of it died: use and forget exclude each      *)
(* other, and a provision appoints no robot that was forgotten meanwhile.  *)
(***************************************************************************)
DefaultHasAProfile ==
  lock = None /\ default # None /\ default \notin torn => profile[default] # None

(***************************************************************************)
(* A command that waits neither for its person nor for its robot ends, or  *)
(* comes to ask again: the lock is given up in time, dies with its holder, *)
(* or the wait for it times out.  Nobody who holds the lock, or waits for  *)
(* it, depends on a person (_exclusive, robot_profiles.py).                *)
(***************************************************************************)
EveryMutationEnds ==
  \A p \in Commands : pc[p] \notin {"idle"} \cup Waiting ~> pc[p] \in {"idle"} \cup Waiting
=============================================================================
