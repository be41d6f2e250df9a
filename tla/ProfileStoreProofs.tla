------------------------- MODULE ProfileStoreProofs -------------------------
(***************************************************************************)
(* The profile store under any number of commands on any number of robots: *)
(* its types, the default, and what the lock protects.                     *)
(***************************************************************************)
EXTENDS ProfileStore, TLAPS

-----------------------------------------------------------------------------
(* The inductive invariant *)

Calibrations == [point : Points, reading : Distances]
Provisions == [name : Names \cup {None}, cert : 0 .. MaxCalls]
Listed == [robot : Robots, was : Profiles]
Held == Robots \X Pairs

JobType ==
  [op : Ops \cup {None}, robot : Robots \cup {None},
   arg : {None} \cup Names \cup Calibrations \cup Provisions,
   then : Inside \cup {None}, new : Profiles \cup {None},
   left : (SUBSET Held) \cup (SUBSET Listed)]

(* Where a forget is once the profile is gone. *)
Emptied == {"unlink_cert", "unlink_key", "rmdir", "vacate"}

(* A command was given what its kind takes. *)
Given(j) ==
  /\ j.op \in Ops \ {"rotate"} => j.robot \in Robots
  /\ j.op = "rename" => j.arg \in Names
  /\ j.op = "calibrate" => j.arg \in Calibrations
  /\ j.op = "provision" => j.arg \in Provisions

(* The kinds of command that reach a stage, and what they bring there. *)
Fits(stage, j) ==
  /\ stage # "idle" => j.op \in Ops
  /\ stage = "load" => j.op \in {"rename", "calibrate", "provision"}
  /\ stage = "write" => /\ j.op \in {"rename", "calibrate", "provision", "rotate"}
                        /\ j.robot \in Robots /\ j.new \in Profiles
  /\ stage = "check" => j.op \in {"use", "provision"}
  /\ stage \in Emptied \cup {"unlink_profile"} => j.op = "forget"
  /\ stage \in {"save_cert", "save_key", "prior", "naming", "appoint"} => j.op = "provision"
  /\ stage \in {"wipe", "list", "next"} => j.op = "rotate"
  /\ stage = "wipe" => j.left \subseteq Held
  /\ j.op = "rotate" /\ stage \in {"next", "queued", "write"} => j.left \subseteq Listed

Local(stage, j) ==
  /\ j \in JobType /\ Given(j) /\ Fits(stage, j)
  /\ j.then = "write" => j.op \in {"provision", "rotate"}
  /\ stage = "queued" => /\ j.then \in {"load", "write", "check", "unlink_profile"}
                         /\ Fits(j.then, j)

(* What a command inside the lock knows of the file as it is: the profile it is about to    *)
(* write is the stored one, changed; the profile it unlinked is gone.                       *)
Sees(stage, j, stored) ==
  /\ stage = "write" /\ j.op # "rotate" /\ j.then # "write" =>
       /\ stored[j.robot] \in Profiles
       /\ j.new = Transform(j, stored[j.robot])
       /\ j.op = "calibrate" => Usable(j.new)
  /\ stage \in Emptied => stored[j.robot] = None

FilesOK ==
  /\ profile \in [Robots -> Profiles \cup {None, Damaged}]
  /\ cert \in [Robots -> 0 .. MaxCalls] /\ key \in [Robots -> 0 .. MaxCalls]
  /\ dirs \in SUBSET Robots /\ default \in Robots \cup {None}
  /\ \A r \in Robots : profile[r] # None \/ cert[r] # 0 \/ key[r] # 0 => r \in dirs
  /\ calls \in 0 .. MaxCalls /\ torn \in SUBSET Robots

CommandOK(p) == /\ Local(pc[p], job[p])
                /\ lock = p <=> pc[p] \in Inside
                /\ Sees(pc[p], job[p], profile)

CommandsOK ==
  /\ pc \in [Commands -> Stages] /\ job \in [Commands -> JobType]
  /\ lock \in Commands \cup {None}
  /\ \A p \in Commands : CommandOK(p)

(* The default names a robot without a profile only while a forget of that robot is under   *)
(* way, or once one has died.                                                               *)
DefaultOK ==
  default # None /\ default \notin torn /\ profile[default] = None =>
    /\ lock # None /\ pc[lock] \in Emptied /\ job[lock].robot = default

StoreInv == FilesOK /\ CommandsOK /\ DefaultOK

-----------------------------------------------------------------------------
(* One command moves to a stage; the others, and what they know, stay as they are: if the   *)
(* profiles changed, the lock was the mover's.                                              *)
LEMMA Moves ==
  ASSUME CommandsOK, NEW p \in Commands, NEW stage \in Stages, NEW j,
         Goto(p, stage), Becomes(p, j), Local(stage, j), Sees(stage, j, profile'),
         profile' = profile \/ lock = p,
         stage \in Inside => lock \in {p, None},
         lock' = IF stage \in Inside THEN p ELSE IF lock = p THEN None ELSE lock
  PROVE  CommandsOK'
<1>1. j \in JobType
  BY DEF Local
<1>2. /\ pc' \in [Commands -> Stages] /\ job' \in [Commands -> JobType]
      /\ pc'[p] = stage /\ job'[p] = j
      /\ \A q \in Commands \ {p} : pc'[q] = pc[q] /\ job'[q] = job[q]
  BY <1>1 DEF CommandsOK, Goto, Becomes
<1>3. None \notin Commands
  BY ProfileStoreAssumption
<1>4. lock' \in Commands \cup {None} /\ (lock' = p <=> stage \in Inside)
  BY <1>3 DEF CommandsOK
<1>5. ASSUME NEW q \in Commands, q # p PROVE CommandOK(q)'
  <2>1. CommandOK(q) /\ pc'[q] = pc[q] /\ job'[q] = job[q]
    BY <1>2, <1>5 DEF CommandsOK
  <2>2. lock' = q <=> lock = q
    BY <1>3, <1>5
  <2>3. Sees(pc[q], job[q], profile')
    <3>1. CASE profile' = profile
      BY <2>1, <3>1 DEF CommandOK
    <3>2. CASE lock = p
      BY <1>5, <2>1, <3>2 DEF CommandOK, Sees, Inside, Emptied
    <3> QED BY <3>1, <3>2
  <2> QED BY <2>1, <2>2, <2>3 DEF CommandOK
<1>6. CommandOK(p)'
  BY <1>2, <1>4 DEF CommandOK
<1> QED BY <1>2, <1>4, <1>5, <1>6 DEF CommandsOK

(* A command's record that stays is the record it has. *)
LEMMA JobStays ==
  ASSUME CommandsOK, NEW p \in Commands, job' = job
  PROVE  Becomes(p, job[p])
BY DEF CommandsOK, Becomes

(* The command ends, and the lock with it if it holds it. *)
LEMMA Leaves ==
  ASSUME CommandsOK, NEW p \in Commands, Ends(p), profile' = profile \/ lock = p
  PROVE  CommandsOK' /\ pc' = [pc EXCEPT ![p] = "idle"]
<1>1. None \notin Ops \cup Inside
  BY ProfileStoreAssumption
<1>2. NoJob \in JobType /\ NoJob.op = None /\ NoJob.then = None
  BY DEF NoJob, Job, JobType
<1>3. NoJob.op \notin Ops
  BY <1>1, <1>2
<1>4. Given(NoJob) /\ Fits("idle", NoJob)
  BY <1>3 DEF Given, Fits, Emptied, Ops
<1>5. NoJob.then # "write"
  BY <1>1, <1>2 DEF Inside
<1>6. Local("idle", NoJob) /\ Sees("idle", NoJob, profile')
  BY <1>2, <1>4, <1>5 DEF Local, Sees, Emptied
<1>7. "idle" \in Stages /\ "idle" \notin Inside
  BY DEF Stages, Inside
<1>8. Goto(p, "idle") /\ Becomes(p, NoJob) /\ lock' = IF lock = p THEN None ELSE lock
  BY DEF Ends, Release
<1> QED BY <1>6, <1>7, <1>8, Moves DEF Goto

(* Outside the lock a command gets in line for it. *)
LEMMA Queues ==
  ASSUME CommandsOK, NEW p \in Commands, NEW j, NEW then, Queue(p, j, then),
         pc[p] \notin Inside, lock' = lock, profile' = profile,
         j \in JobType, Given(j), j.op \in Ops,
         then \in {"load", "write", "check", "unlink_profile"}, Fits(then, j),
         then = "write" => j.op \in {"provision", "rotate"},
         j.op = "rotate" => j.left \subseteq Listed
  PROVE  CommandsOK'
<1> DEFINE k == [j EXCEPT !.then = then]
<1>1. /\ k \in JobType /\ k.then = then /\ k.op = j.op /\ k.robot = j.robot /\ k.arg = j.arg
      /\ k.new = j.new /\ k.left = j.left
  BY DEF JobType, Inside
<1>2. Given(k)
  BY <1>1 DEF Given
<1>3. Fits(then, k)
  BY <1>1 DEF Fits
<1>4. Fits("queued", k)
  BY <1>1 DEF Fits, Emptied
<1>5. Local("queued", k) /\ Sees("queued", k, profile')
  BY <1>1, <1>2, <1>3, <1>4 DEF Local, Sees, Emptied
<1>6. lock # p
  BY DEF CommandsOK, CommandOK
<1>7. "queued" \in Stages /\ "queued" \notin Inside
  BY DEF Stages, Inside
<1>8. Goto(p, "queued") /\ Becomes(p, k)
  BY DEF Queue
<1> QED BY <1>5, <1>6, <1>7, <1>8, Moves

(* A command goes on, as it is, to a stage of its kind. *)
LEMMA GoesOn ==
  ASSUME CommandsOK, NEW p \in Commands, NEW stage \in Stages, Goto(p, stage), job' = job,
         stage # "queued", Fits(stage, job[p]), Sees(stage, job[p], profile'),
         profile' = profile \/ lock = p,
         stage \in Inside => lock \in {p, None},
         lock' = IF stage \in Inside THEN p ELSE IF lock = p THEN None ELSE lock
  PROVE  CommandsOK'
<1>1. Becomes(p, job[p])
  BY JobStays
<1>2. Local(stage, job[p])
  BY DEF CommandsOK, CommandOK, Local
<1> QED BY <1>1, <1>2, Moves

-----------------------------------------------------------------------------
(* Commands start, and their person or robot answers *)

LEMMA Starts ==
  ASSUME CommandsOK, NEW p \in Commands, NEW j, Begin(p, j),
         j \in JobType, Given(j), j.op \in Ops, j.then = None
  PROVE  CommandsOK'
<1>1. None \notin Ops \cup Inside
  BY ProfileStoreAssumption
<1>2. Fits("asked", j)
  BY DEF Fits, Emptied
<1>3. Local("asked", j) /\ Sees("asked", j, profile')
  BY <1>1, <1>2 DEF Local, Sees, Emptied, Inside
<1>4. lock # p
  BY DEF Begin, CommandsOK, CommandOK, Inside
<1>5. "asked" \in Stages /\ "asked" \notin Inside
  BY DEF Stages, Inside
<1> QED BY <1>3, <1>4, <1>5, Moves DEF Begin, files

LEMMA Resolves ==
  ASSUME NEW arg
  PROVE  Resolve(arg) \subseteq Robots /\ ByName(arg) \subseteq Robots
BY DEF Resolve, ByName, Known

LEMMA StartNext ==
  ASSUME StoreInv, NEW p \in Commands, Start(p)
  PROVE  StoreInv'
<1>1. \E j : Begin(p, j) /\ j \in JobType /\ Given(j) /\ j.op \in Ops /\ j.then = None
  <2> DEFINE Good(j) == j \in JobType /\ Given(j) /\ j.op \in Ops /\ j.then = None
  <2>1. ASSUME NEW op \in Ops, NEW r \in Robots \cup {None},
               NEW arg \in {None} \cup Names \cup Calibrations \cup Provisions,
               op # "rotate" => r \in Robots,
               op = "rename" => arg \in Names,
               op = "calibrate" => arg \in Calibrations,
               op = "provision" => arg \in Provisions
        PROVE  Good(Job(op, r, arg))
    BY <2>1 DEF Job, JobType, Given
  <2>2. CASE StartRename(p)
    <3>1. PICK arg \in Robots \cup Names : \E r \in Resolve(arg), n \in Names :
            Begin(p, Job("rename", r, n))
      BY <2>2 DEF StartRename
    <3>2. PICK r \in Robots, n \in Names : Begin(p, Job("rename", r, n))
      BY <3>1, Resolves
    <3>3. Good(Job("rename", r, n))
      BY <2>1 DEF Ops
    <3> QED BY <3>2, <3>3
  <2>3. CASE StartCalibrate(p)
    <3>1. PICK r \in Robots, point \in Points, d \in Distances :
            Begin(p, Job("calibrate", r, [point |-> point, reading |-> d]))
      BY <2>3, Resolves DEF StartCalibrate, Known
    <3>2. Good(Job("calibrate", r, [point |-> point, reading |-> d]))
      BY <2>1 DEF Ops, Calibrations
    <3> QED BY <3>1, <3>2
  <2>4. CASE StartUse(p)
    <3>1. PICK r \in Robots : Begin(p, Job("use", r, None))
      BY <2>4, Resolves DEF StartUse
    <3>2. Good(Job("use", r, None))
      BY <2>1 DEF Ops
    <3> QED BY <3>1, <3>2
  <2>5. CASE StartForget(p)
    <3>1. \A arg : Doomed(arg) \subseteq Robots
      BY Resolves DEF Doomed, StoreInv, FilesOK
    <3>2. PICK r \in Robots : Begin(p, Job("forget", r, None))
      BY <2>5, <3>1 DEF StartForget
    <3>3. Good(Job("forget", r, None))
      BY <2>1 DEF Ops
    <3> QED BY <3>2, <3>3
  <2>6. CASE StartProvision(p)
    <3> DEFINE Id(r, reissue) == IF cert[r] # 0 /\ key[r] # 0 /\ ~reissue THEN cert[r]
                                 ELSE calls + 1
    <3>1. PICK r \in Robots, n \in Names \cup {None}, reissue \in BOOLEAN :
            Begin(p, Job("provision", r, [name |-> n, cert |-> Id(r, reissue)]))
      BY <2>6 DEF StartProvision
    <3>2. calls < MaxCalls
      BY <3>1 DEF Begin
    <3>3. Id(r, reissue) \in 0 .. MaxCalls
      BY <3>2, ProfileStoreAssumption DEF StoreInv, FilesOK
    <3>4. [name |-> n, cert |-> Id(r, reissue)] \in Provisions
      BY <3>3 DEF Provisions
    <3>5. Good(Job("provision", r, [name |-> n, cert |-> Id(r, reissue)]))
      BY <2>1, <3>4 DEF Ops
    <3> QED BY <3>1, <3>5
  <2>7. CASE StartRotate(p)
    <3>1. Good(Job("rotate", None, None))
      BY <2>1 DEF Ops
    <3> QED BY <2>7, <3>1 DEF StartRotate
  <2> QED BY <2>2, <2>3, <2>4, <2>5, <2>6, <2>7 DEF Start
<1>2. PICK j : Begin(p, j) /\ j \in JobType /\ Given(j) /\ j.op \in Ops /\ j.then = None
  BY <1>1
<1>3. CommandsOK'
  BY <1>2, Starts DEF StoreInv
<1>4. FilesOK'
  BY <1>2, ProfileStoreAssumption DEF StoreInv, FilesOK, Begin, files
<1>5. DefaultOK'
  <2>1. lock # None /\ pc[lock] \in Emptied => lock # p
    BY <1>2 DEF Begin, Emptied
  <2> QED BY <1>2, <2>1 DEF StoreInv, DefaultOK, CommandsOK, Begin, files, Goto, Becomes
<1> QED BY <1>3, <1>4, <1>5 DEF StoreInv
(* The default stays good while a command that is not emptying a robot moves: no profile is *)
(* lost.                                                                                    *)
LEMMA DefaultStays ==
  ASSUME StoreInv, NEW p \in Commands, pc[p] \notin Emptied, default' = default, torn' = torn,
         \A r \in Robots : profile'[r] = None => profile[r] = None,
         \A q \in Commands \ {p} : pc'[q] = pc[q] /\ job'[q] = job[q],
         lock \notin {None, p} => lock' = lock
  PROVE  DefaultOK'
BY DEF StoreInv, FilesOK, CommandsOK, DefaultOK

(* The other commands stay where they are. *)
LEMMA OthersStay ==
  ASSUME CommandsOK, NEW p \in Commands, NEW stage, Goto(p, stage),
         job' = job \/ \E j : Becomes(p, j)
  PROVE  \A q \in Commands \ {p} : pc'[q] = pc[q] /\ job'[q] = job[q]
BY DEF CommandsOK, Goto, Becomes

(* A step that changes no file, by a command that is not emptying a robot. *)
LEMMA FilesStay ==
  ASSUME StoreInv, NEW p \in Commands, pc[p] \notin Emptied,
         UNCHANGED <<files, calls, torn>>, CommandsOK', NEW stage, Goto(p, stage),
         job' = job \/ \E j : Becomes(p, j),
         lock \notin {None, p} => lock' = lock
  PROVE  StoreInv'
<1>1. FilesOK'
  BY DEF StoreInv, FilesOK, files
<1>2. \A q \in Commands \ {p} : pc'[q] = pc[q] /\ job'[q] = job[q]
  BY OthersStay DEF StoreInv
<1>3. DefaultOK'
  BY <1>2, DefaultStays DEF files
<1> QED BY <1>1, <1>3 DEF StoreInv

LEMMA AnsweredNext ==
  ASSUME StoreInv, NEW p \in Commands, Answered(p) \/ Declined(p)
  PROVE  StoreInv'
<1>1. pc[p] = "asked" /\ pc[p] \notin Inside /\ pc[p] \notin Emptied /\ lock # p
  BY DEF Answered, Declined, StoreInv, CommandsOK, CommandOK, Inside, Emptied
<1>2. CommandsOK /\ job[p] \in JobType /\ Given(job[p]) /\ job[p].op \in Ops
  BY <1>1 DEF StoreInv, CommandsOK, CommandOK, Local, Fits
<1>3. CASE Declined(p)
  <2>1. Ends(p) /\ UNCHANGED <<files, calls, torn>>
    BY <1>3 DEF Declined
  <2>2. CommandsOK'
    BY <1>2, <2>1, Leaves DEF files
  <2> QED BY <1>1, <2>1, <2>2, FilesStay DEF Ends, Release
<1>4. CASE Answered(p)
  <2>1. UNCHANGED <<files, lock, calls, torn>> /\ profile' = profile
    BY <1>4 DEF Answered, files
  <2>2. \/ job[p].op = "rename" /\ Queue(p, job[p], "load")
        \/ job[p].op = "use" /\ Queue(p, job[p], "check")
        \/ job[p].op = "forget" /\ Queue(p, job[p], "unlink_profile")
        \/ job[p].op = "provision" /\ Goto(p, "save_cert") /\ UNCHANGED job
        \/ /\ job[p].op = "rotate" /\ Goto(p, "wipe")
           /\ Becomes(p, [job[p] EXCEPT !.left = dirs \X Pairs])
        \/ job[p].op = "calibrate" /\ Queue(p, job[p], "load")
    BY <1>4 DEF Answered
  <2>3. CASE job[p].op \in {"rename", "calibrate"} /\ Queue(p, job[p], "load")
    <3>1. Fits("load", job[p])
      BY <1>2, <2>3 DEF Fits, Emptied
    <3>2. CommandsOK'
      BY <1>1, <1>2, <2>1, <2>3, <3>1, Queues
    <3> QED BY <1>1, <2>1, <2>3, <3>2, FilesStay DEF Queue
  <2>4. CASE job[p].op = "use" /\ Queue(p, job[p], "check")
    <3>1. Fits("check", job[p])
      BY <1>2, <2>4 DEF Fits, Emptied
    <3>2. CommandsOK'
      BY <1>1, <1>2, <2>1, <2>4, <3>1, Queues
    <3> QED BY <1>1, <2>1, <2>4, <3>2, FilesStay DEF Queue
  <2>5. CASE job[p].op = "forget" /\ Queue(p, job[p], "unlink_profile")
    <3>1. Fits("unlink_profile", job[p])
      BY <1>2, <2>5 DEF Fits, Emptied
    <3>2. CommandsOK'
      BY <1>1, <1>2, <2>1, <2>5, <3>1, Queues
    <3> QED BY <1>1, <2>1, <2>5, <3>2, FilesStay DEF Queue
  <2>6. CASE job[p].op = "provision" /\ Goto(p, "save_cert") /\ UNCHANGED job
    <3>1. "save_cert" \in Stages \ Inside
      BY DEF Stages, Inside
    <3>2. Fits("save_cert", job[p]) /\ Sees("save_cert", job[p], profile')
      BY <2>6 DEF Fits, Sees, Emptied, Ops
    <3>3. CommandsOK'
      BY <1>1, <1>2, <2>1, <2>6, <3>1, <3>2, GoesOn
    <3> QED BY <1>1, <2>1, <2>6, <3>3, FilesStay
  <2>7. CASE /\ job[p].op = "rotate" /\ Goto(p, "wipe")
             /\ Becomes(p, [job[p] EXCEPT !.left = dirs \X Pairs])
    <3> DEFINE j == [job[p] EXCEPT !.left = dirs \X Pairs]
    <3>1. /\ j \in JobType /\ j.op = "rotate" /\ j.left \subseteq Held
          /\ j.then = job[p].then
      BY <1>2, <2>7 DEF JobType, StoreInv, FilesOK, Held
    <3>2. Local("wipe", j) /\ Sees("wipe", j, profile')
      BY <3>1 DEF Local, Given, Fits, Sees, Emptied, Ops
    <3>3. "wipe" \in Stages /\ "wipe" \notin Inside
      BY DEF Stages, Inside
    <3>4. CommandsOK'
      BY <1>1, <1>2, <2>1, <2>7, <3>2, <3>3, Moves
    <3> QED BY <1>1, <2>1, <2>7, <3>4, FilesStay
  <2> QED BY <2>2, <2>3, <2>4, <2>5, <2>6, <2>7
<1> QED BY <1>3, <1>4

-----------------------------------------------------------------------------
(* The lock *)

LEMMA LockNext ==
  ASSUME StoreInv, NEW p \in Commands, Acquire(p) \/ LockTimeout(p)
  PROVE  StoreInv'
<1>1. pc[p] = "queued" /\ pc[p] \notin Inside /\ pc[p] \notin Emptied /\ lock # p
  BY DEF Acquire, LockTimeout, StoreInv, CommandsOK, CommandOK, Inside, Emptied
<1>2. CommandsOK
  BY DEF StoreInv
<1>3. CASE Acquire(p)
  <2>1. /\ Local("queued", job[p]) /\ job[p].then \in {"load", "write", "check", "unlink_profile"}
        /\ Fits(job[p].then, job[p])
    BY <1>1 DEF StoreInv, CommandsOK, CommandOK, Local
  <2>2. job[p].then \in Stages /\ job[p].then \in Inside /\ job[p].then # "queued"
    BY <2>1 DEF Stages, Inside
  <2>3. Sees(job[p].then, job[p], profile')
    BY <2>1 DEF Sees, Emptied
  <2>4. /\ lock = None /\ lock' = p /\ Goto(p, job[p].then) /\ job' = job
        /\ UNCHANGED <<files, calls, torn>> /\ profile' = profile
    BY <1>3 DEF Acquire, files
  <2>5. CommandsOK'
    BY <1>2, <2>1, <2>2, <2>3, <2>4, GoesOn
  <2> QED BY <1>1, <2>4, <2>5, FilesStay
<1>4. CASE LockTimeout(p)
  <2>1. Ends(p) /\ UNCHANGED <<files, calls, torn>> /\ profile' = profile
    BY <1>4 DEF LockTimeout, files
  <2>2. CommandsOK'
    BY <1>2, <2>1, Leaves
  <2> QED BY <1>1, <2>1, <2>2, FilesStay DEF Ends, Release
<1> QED BY <1>3, <1>4
(* What Transform makes of a profile, and that it is one. *)
LEMMA CalibratedSays ==
  ASSUME NEW current \in Profiles, NEW point \in Points, NEW reading \in Distances
  PROVE  /\ Calibrated(current, point, reading) \in Profiles
         /\ \A f \in Fields \ (IF Usable(current) THEN {point} ELSE Points) :
              Calibrated(current, point, reading)[f] = current[f]
<1> DEFINE kept == IF Usable(current) THEN current
                   ELSE [current EXCEPT !.full = None, !.empty = None]
<1>1. kept \in Profiles /\ kept.name = current.name /\ kept.cert = current.cert
  BY DEF Profiles
<1>2. Usable(current) => kept = current
  OBVIOUS
<1>3. Calibrated(current, point, reading) = [kept EXCEPT ![point] = reading]
  BY DEF Calibrated
<1>4. CASE point = "full"
  <2>1. Calibrated(current, point, reading) = [kept EXCEPT !.full = reading]
    BY <1>3, <1>4
  <2> QED BY <1>1, <1>2, <1>4, <2>1 DEF Profiles, Fields, Points
<1>5. CASE point = "empty"
  <2>1. Calibrated(current, point, reading) = [kept EXCEPT !.empty = reading]
    BY <1>3, <1>5
  <2> QED BY <1>1, <1>2, <1>5, <2>1 DEF Profiles, Fields, Points
<1> QED BY <1>4, <1>5 DEF Points

LEMMA TransformCases ==
  ASSUME NEW j, NEW current
  PROVE  /\ j.op = "rename" => Transform(j, current) = [current EXCEPT !.name = j.arg]
         /\ j.op = "calibrate" =>
              Transform(j, current) = Calibrated(current, j.arg.point, j.arg.reading)
         /\ j.op = "provision" =>
              Transform(j, current) =
                [current EXCEPT !.name = IF j.arg.name = None THEN @ ELSE j.arg.name,
                                !.cert = j.arg.cert]
         /\ j.op = "rename" => Asked(j, current) = {"name"}
         /\ j.op = "calibrate" =>
              Asked(j, current) = IF Usable(current) THEN {j.arg.point} ELSE Points
         /\ j.op = "provision" =>
              Asked(j, current) = {"cert"} \cup (IF j.arg.name = None THEN {} ELSE {"name"})
BY Zenon DEF Transform, Asked

LEMMA TransformSays ==
  ASSUME NEW j \in JobType, Given(j), j.op \in {"rename", "calibrate", "provision"},
         NEW current \in Profiles
  PROVE  /\ Transform(j, current) \in Profiles
         /\ \A f \in Fields \ Asked(j, current) : Transform(j, current)[f] = current[f]
<1>1. CASE j.op = "rename"
  <2>1. j.arg \in Names
    BY <1>1 DEF Given
  <2>2. /\ Transform(j, current) = [current EXCEPT !.name = j.arg]
        /\ Asked(j, current) = {"name"}
    BY <1>1, TransformCases
  <2> QED BY <2>1, <2>2 DEF Profiles, Fields
<1>2. CASE j.op = "calibrate"
  <2>1. j.arg.point \in Points /\ j.arg.reading \in Distances
    BY <1>2 DEF Given, Calibrations
  <2>2. /\ Transform(j, current) = Calibrated(current, j.arg.point, j.arg.reading)
        /\ Asked(j, current) = IF Usable(current) THEN {j.arg.point} ELSE Points
    BY <1>2, TransformCases
  <2> QED BY <2>1, <2>2, CalibratedSays
<1>3. CASE j.op = "provision"
  <2>1. j.arg.name \in Names \cup {None} /\ j.arg.cert \in Nat
    BY <1>3, ProfileStoreAssumption DEF Given, Provisions
  <2>2. /\ Transform(j, current) =
             [current EXCEPT !.name = IF j.arg.name = None THEN @ ELSE j.arg.name,
                             !.cert = j.arg.cert]
        /\ Asked(j, current) = {"cert"} \cup (IF j.arg.name = None THEN {} ELSE {"name"})
    BY <1>3, TransformCases
  <2> QED BY <2>1, <2>2 DEF Profiles, Fields
<1> QED BY <1>1, <1>2, <1>3

(* It looks at the kind of the command and at what it was given, and at nothing else. *)
LEMMA TransformSame ==
  ASSUME NEW j, NEW k, NEW current, k.op = j.op, k.arg = j.arg,
         j.op \in {"rename", "calibrate", "provision"}
  PROVE  Transform(k, current) = Transform(j, current)
<1>1. CASE j.op = "rename"
  <2>1. Transform(k, current) = [current EXCEPT !.name = k.arg]
    BY <1>1, Zenon DEF Transform
  <2>2. Transform(j, current) = [current EXCEPT !.name = j.arg]
    BY <1>1, Zenon DEF Transform
  <2> QED BY <2>1, <2>2
<1>2. CASE j.op = "calibrate"
  <2>1. Transform(k, current) = Calibrated(current, k.arg.point, k.arg.reading)
    BY <1>2, Zenon DEF Transform
  <2>2. Transform(j, current) = Calibrated(current, j.arg.point, j.arg.reading)
    BY <1>2, Zenon DEF Transform
  <2> QED BY <2>1, <2>2
<1>3. CASE j.op = "provision"
  <2>1. Transform(k, current) =
          [current EXCEPT !.name = IF k.arg.name = None THEN @ ELSE k.arg.name,
                          !.cert = k.arg.cert]
    BY <1>3, Zenon DEF Transform
  <2>2. Transform(j, current) =
          [current EXCEPT !.name = IF j.arg.name = None THEN @ ELSE j.arg.name,
                          !.cert = j.arg.cert]
    BY <1>3, Zenon DEF Transform
  <2> QED BY <2>1, <2>2
<1> QED BY <1>1, <1>2, <1>3

LEMMA LoadNext ==
  ASSUME StoreInv, NEW p \in Commands, Load(p)
  PROVE  StoreInv'
<1>1. pc[p] = "load" /\ pc[p] \notin Emptied /\ lock = p
  BY DEF Load, StoreInv, CommandsOK, CommandOK, Inside, Emptied
<1>2. /\ CommandsOK /\ job[p] \in JobType /\ Local(pc[p], job[p]) /\ Given(job[p])
      /\ job[p].op \in {"rename", "calibrate", "provision"} /\ job[p].robot \in Robots
  BY <1>1 DEF StoreInv, CommandsOK, CommandOK, Local, Given, Fits, Ops
<1>3. UNCHANGED <<files, calls, torn>> /\ profile' = profile
  BY DEF Load, files
<1> DEFINE new == Transform(job[p], profile[job[p].robot])
           j == [job[p] EXCEPT !.new = new]
<1>4. CASE Ends(p)
  <2>1. CommandsOK'
    BY <1>2, <1>3, <1>4, Leaves
  <2> QED BY <1>1, <1>3, <1>4, <2>1, FilesStay DEF Ends, Release
<1>5. CASE /\ Loads(job[p].robot) /\ (job[p].op = "calibrate" => Usable(new))
           /\ Goto(p, "write") /\ Becomes(p, j) /\ UNCHANGED lock
  <2>1. profile[job[p].robot] \in Profiles
    BY <1>2, <1>5 DEF Loads, StoreInv, FilesOK
  <2>2. new \in Profiles
    BY <1>2, <2>1, TransformSays
  <2>3. /\ j \in JobType /\ j.new = new /\ j.op = job[p].op /\ j.robot = job[p].robot
        /\ j.arg = job[p].arg /\ j.then = job[p].then
    BY <1>2, <2>2 DEF JobType
  <2>4. Transform(j, profile[j.robot]) = new
    <3>1. j.op = job[p].op /\ j.arg = job[p].arg /\ j.robot = job[p].robot
      BY <2>3
    <3> HIDE DEF j
    <3> QED BY <1>2, <3>1, TransformSame
  <2>5. Local("write", j)
    BY <1>2, <2>2, <2>3 DEF Local, Given, Fits, Emptied, Ops
  <2>6. Sees("write", j, profile')
    BY <1>3, <1>5, <2>1, <2>3, <2>4 DEF Sees, Emptied
  <2>7. "write" \in Stages /\ "write" \in Inside
    BY DEF Stages, Inside
  <2>8. CommandsOK'
    BY <1>1, <1>2, <1>3, <1>5, <2>5, <2>6, <2>7, Moves
  <2> QED BY <1>1, <1>3, <1>5, <2>8, FilesStay
<1> QED BY <1>4, <1>5 DEF Load

LEMMA WriteNext ==
  ASSUME StoreInv, NEW p \in Commands, Write(p)
  PROVE  StoreInv'
<1>1. pc[p] = "write" /\ pc[p] \notin Emptied /\ lock = p
  BY DEF Write, StoreInv, CommandsOK, CommandOK, Inside, Emptied
<1>2. CommandsOK /\ Fits("write", job[p]) /\ job[p].robot \in Robots /\ job[p].new \in Profiles
  BY <1>1 DEF StoreInv, CommandsOK, CommandOK, Local, Fits
<1>3. /\ profile' = [profile EXCEPT ![job[p].robot] = job[p].new]
      /\ dirs' = dirs \cup {job[p].robot}
      /\ UNCHANGED <<cert, key, default, calls, torn>>
  BY DEF Write
<1>4. FilesOK'
  BY <1>2, <1>3 DEF StoreInv, FilesOK
<1>5. \A r \in Robots : profile'[r] = None => profile[r] = None
  BY <1>2, <1>3, ProfileStoreAssumption DEF StoreInv, FilesOK
<1>6. /\ CommandsOK' /\ \E stage : Goto(p, stage)
      /\ job' = job \/ \E j : Becomes(p, j)
  <2>1. CASE Ends(p)
    BY <1>1, <1>2, <2>1, Leaves DEF Ends
  <2>2. CASE job[p].op = "provision" /\ Goto(p, "appoint") /\ UNCHANGED job /\ Release(p)
    <3>1. "appoint" \in Stages \ Inside
      BY DEF Stages, Inside
    <3>2. Fits("appoint", job[p]) /\ Sees("appoint", job[p], profile')
      BY <2>2 DEF Fits, Sees, Emptied, Ops
    <3> QED BY <1>1, <1>2, <2>2, <3>1, <3>2, GoesOn DEF Release
  <2>3. CASE job[p].op = "rotate" /\ Goto(p, "next") /\ UNCHANGED job /\ Release(p)
    <3>1. "next" \in Stages \ Inside
      BY DEF Stages, Inside
    <3>2. Fits("next", job[p]) /\ Sees("next", job[p], profile')
      BY <1>2, <2>3 DEF Fits, Sees, Emptied, Ops
    <3> QED BY <1>1, <1>2, <2>3, <3>1, <3>2, GoesOn DEF Release
  <2> QED BY <2>1, <2>2, <2>3 DEF Write
<1>7. DefaultOK'
  BY <1>1, <1>2, <1>3, <1>5, <1>6, DefaultStays, OthersStay
<1> QED BY <1>4, <1>6, <1>7 DEF StoreInv

LEMMA SetDefaultNext ==
  ASSUME StoreInv, NEW p \in Commands, SetDefault(p)
  PROVE  StoreInv'
<1>1. /\ pc[p] = "check" /\ pc[p] \notin Emptied /\ lock = p /\ Ends(p) /\ profile' = profile
      /\ UNCHANGED <<cert, key, dirs, calls, torn>>
  BY DEF SetDefault, StoreInv, CommandsOK, CommandOK, Inside, Emptied
<1>2. CommandsOK /\ job[p].robot \in Robots
  BY <1>1 DEF StoreInv, CommandsOK, CommandOK, Local, Given, Fits, Ops
<1>3. CommandsOK'
  BY <1>1, <1>2, Leaves
<1>4. FilesOK'
  BY <1>1, <1>2 DEF SetDefault, StoreInv, FilesOK
<1>5. DefaultOK'
  BY <1>1 DEF SetDefault, StoreInv, DefaultOK
<1> QED BY <1>3, <1>4, <1>5 DEF StoreInv
LEMMA ForgetNext ==
  ASSUME StoreInv, NEW p \in Commands, Forget(p)
  PROVE  StoreInv'
<1>1. pc[p] \in Emptied \cup {"unlink_profile"}
  BY DEF Forget, Emptied
<1>2. /\ lock = p /\ CommandsOK /\ job[p].op = "forget" /\ job[p].robot \in Robots
      /\ Sees(pc[p], job[p], profile)
  BY <1>1 DEF StoreInv, CommandsOK, CommandOK, Local, Given, Fits, Inside, Emptied, Ops
<1> DEFINE r == job[p].robot
<1>3. UNCHANGED calls /\ torn' = IF pc[p] = "vacate" THEN torn \ {r} ELSE torn
  BY DEF Forget
<1>4. ASSUME NEW stage \in Emptied, Goto(p, stage), UNCHANGED <<job, lock>>, profile'[r] = None,
             FilesOK', default' = default, torn' = torn,
             \A d \in Robots \ {r} : profile'[d] = profile[d],
             pc[p] \in Emptied \cup {"unlink_profile"}
      PROVE  StoreInv'
  <2>1. stage \in Stages /\ stage \in Inside /\ stage # "queued"
    BY <1>4 DEF Stages, Inside, Emptied
  <2>2. Fits(stage, job[p]) /\ Sees(stage, job[p], profile')
    BY <1>2, <1>4 DEF Fits, Sees, Emptied, Ops
  <2>3. CommandsOK'
    BY <1>2, <1>4, <2>1, <2>2, GoesOn
  <2>4. DefaultOK'
    <3>1. pc'[p] = stage /\ lock' = p /\ job'[p] = job[p]
      BY <1>2, <1>4, <2>1 DEF CommandsOK, Goto
    <3>2. None \notin Commands
      BY ProfileStoreAssumption
    <3>3. CASE default = r
      BY <1>4, <3>1, <3>2, <3>3 DEF DefaultOK
    <3>4. CASE default # r
      BY <1>2, <1>4, <3>1, <3>4 DEF DefaultOK, StoreInv, FilesOK
    <3> QED BY <3>3, <3>4
  <2> QED BY <1>4, <2>3, <2>4 DEF StoreInv
<1>5. CASE /\ pc[p] = "unlink_profile" /\ Goto(p, "unlink_cert") /\ UNCHANGED <<job, lock>>
           /\ profile' = [profile EXCEPT ![r] = None] /\ UNCHANGED <<cert, key, dirs, default>>
  <2>1. torn' = torn
    BY <1>3, <1>5
  <2>2. FilesOK' /\ profile'[r] = None /\ \A d \in Robots \ {r} : profile'[d] = profile[d]
    BY <1>2, <1>3, <1>5, <2>1 DEF StoreInv, FilesOK
  <2>3. "unlink_cert" \in Emptied
    BY DEF Emptied
  <2> QED BY <1>4, <1>5, <2>1, <2>2, <2>3
<1>6. CASE pc[p] = "unlink_profile" /\ Ends(p) /\ UNCHANGED files
  <2>1. profile' = profile /\ UNCHANGED <<files, calls, torn>> /\ pc[p] \notin Emptied
    BY <1>3, <1>6 DEF files, Emptied
  <2>2. CommandsOK'
    BY <1>2, <1>6, <2>1, Leaves
  <2> QED BY <1>2, <1>6, <2>1, <2>2, FilesStay DEF Ends
<1>7. CASE /\ pc[p] = "unlink_cert" /\ Goto(p, "unlink_key") /\ UNCHANGED <<job, lock>>
           /\ cert' = [cert EXCEPT ![r] = 0] /\ UNCHANGED <<profile, key, dirs, default>>
  <2>1. torn' = torn /\ profile[r] = None
    BY <1>2, <1>3, <1>7 DEF Sees, Emptied
  <2>2. FilesOK'
    BY <1>2, <1>3, <1>7, <2>1, ProfileStoreAssumption DEF StoreInv, FilesOK
  <2>3. "unlink_key" \in Emptied /\ profile' = profile /\ default' = default
    BY <1>7 DEF Emptied
  <2> QED BY <1>1, <1>4, <1>7, <2>1, <2>2, <2>3
<1>8. CASE /\ pc[p] = "unlink_key" /\ Goto(p, "rmdir") /\ UNCHANGED <<job, lock>>
           /\ key' = [key EXCEPT ![r] = 0] /\ UNCHANGED <<profile, cert, dirs, default>>
  <2>1. torn' = torn /\ profile[r] = None
    BY <1>2, <1>3, <1>8 DEF Sees, Emptied
  <2>2. FilesOK'
    BY <1>2, <1>3, <1>8, <2>1, ProfileStoreAssumption DEF StoreInv, FilesOK
  <2>3. "rmdir" \in Emptied /\ profile' = profile /\ default' = default
    BY <1>8 DEF Emptied
  <2> QED BY <1>1, <1>4, <1>8, <2>1, <2>2, <2>3
<1>9. CASE /\ pc[p] = "rmdir" /\ Goto(p, "vacate") /\ UNCHANGED <<job, lock>>
           /\ dirs' = IF cert[r] = 0 /\ key[r] = 0 THEN dirs \ {r} ELSE dirs
           /\ UNCHANGED <<profile, cert, key, default>>
  <2>1. torn' = torn /\ profile[r] = None
    BY <1>2, <1>3, <1>9 DEF Sees, Emptied
  <2>2. FilesOK'
    BY <1>2, <1>3, <1>9, <2>1 DEF StoreInv, FilesOK
  <2>3. "vacate" \in Emptied /\ profile' = profile /\ default' = default
    BY <1>9 DEF Emptied
  <2> QED BY <1>1, <1>4, <1>9, <2>1, <2>2, <2>3
<1>10. CASE /\ pc[p] = "vacate" /\ Ends(p)
            /\ default' = IF default = r THEN None ELSE default
            /\ UNCHANGED <<profile, cert, key, dirs>>
  <2>1. CommandsOK'
    BY <1>2, <1>10, Leaves
  <2>2. FilesOK'
    BY <1>3, <1>10 DEF StoreInv, FilesOK
  <2>3. DefaultOK'
    BY <1>2, <1>3, <1>10 DEF StoreInv, DefaultOK
  <2> QED BY <2>1, <2>2, <2>3 DEF StoreInv
<1>11. \/ /\ pc[p] = "unlink_profile" /\ Goto(p, "unlink_cert") /\ UNCHANGED <<job, lock>>
          /\ profile' = [profile EXCEPT ![r] = None] /\ UNCHANGED <<cert, key, dirs, default>>
       \/ /\ pc[p] = "unlink_profile" /\ Ends(p) /\ UNCHANGED files
       \/ pc[p] \in {"unlink_cert", "unlink_key", "rmdir", "vacate"}
  BY DEF Forget
<1>12. CASE pc[p] = "unlink_cert"
  BY <1>7, <1>12 DEF Forget
<1>13. CASE pc[p] = "unlink_key"
  BY <1>8, <1>13 DEF Forget
<1>14. CASE pc[p] = "rmdir"
  BY <1>9, <1>14 DEF Forget
<1>15. CASE pc[p] = "vacate"
  BY <1>10, <1>15 DEF Forget
<1> QED BY <1>5, <1>6, <1>11, <1>12, <1>13, <1>14, <1>15

-----------------------------------------------------------------------------
(* A provision, and a replacement of the authority *)

(* A command outside the lock moves, and changes no profile and no default. *)
LEMMA OutsideStays ==
  ASSUME StoreInv, NEW p \in Commands, pc[p] \notin Inside, lock' = lock,
         UNCHANGED <<profile, default, calls, torn>>, NEW stage, Goto(p, stage),
         job' = job \/ \E j : Becomes(p, j)
  PROVE  DefaultOK'
<1>1. pc[p] \notin Emptied
  BY DEF Emptied, Inside
<1>2. \A q \in Commands \ {p} : pc'[q] = pc[q] /\ job'[q] = job[q]
  BY OthersStay DEF StoreInv
<1> QED BY <1>1, <1>2, DefaultStays

LEMMA SaveIdentityNext ==
  ASSUME StoreInv, NEW p \in Commands, SaveIdentity(p)
  PROVE  StoreInv'
<1>1. /\ pc[p] \in {"save_cert", "save_key"} /\ pc[p] \notin Inside /\ lock # p
      /\ UNCHANGED <<profile, default, lock, job, calls, torn>>
  BY DEF SaveIdentity, StoreInv, CommandsOK, CommandOK, Inside
<1>2. /\ CommandsOK /\ job[p].op = "provision" /\ job[p].robot \in Robots
      /\ job[p].arg.cert \in 0 .. MaxCalls
  BY <1>1 DEF StoreInv, CommandsOK, CommandOK, Local, Given, Fits, Provisions, Ops
<1>3. PICK stage \in {"save_key", "prior"} : Goto(p, stage)
  BY DEF SaveIdentity
<1>4. stage \in Stages /\ stage \notin Inside /\ stage # "queued"
  BY <1>3 DEF Stages, Inside
<1>5. Fits(stage, job[p]) /\ Sees(stage, job[p], profile')
  BY <1>2, <1>3 DEF Fits, Sees, Emptied, Ops
<1>6. CommandsOK'
  BY <1>1, <1>2, <1>3, <1>4, <1>5, GoesOn
<1>7. FilesOK'
  <2>1. /\ cert' = [cert EXCEPT ![job[p].robot] = job[p].arg.cert] \/ cert' = cert
        /\ key' = [key EXCEPT ![job[p].robot] = job[p].arg.cert] \/ key' = key
        /\ dirs' = dirs \cup {job[p].robot}
    BY DEF SaveIdentity
  <2>2. cert' \in [Robots -> 0 .. MaxCalls] /\ key' \in [Robots -> 0 .. MaxCalls]
    BY <1>2, <2>1 DEF StoreInv, FilesOK
  <2>3. \A d \in Robots \ {job[p].robot} : cert'[d] = cert[d] /\ key'[d] = key[d]
    BY <2>1 DEF StoreInv, FilesOK
  <2> QED BY <1>1, <1>2, <2>1, <2>2, <2>3 DEF StoreInv, FilesOK
<1>8. DefaultOK'
  BY <1>1, <1>3, OutsideStays
<1> QED BY <1>6, <1>7, <1>8 DEF StoreInv

(* The first profile of a robot, with any name, is one that may be written. *)
LEMMA FirstProfileQueues ==
  ASSUME StoreInv, NEW p \in Commands, pc[p] \in {"prior", "naming"},
         UNCHANGED <<files, lock, calls, torn>>,
         NEW n \in Names \cup {None}, FirstProfile(p, n)
  PROVE  StoreInv'
<1> DEFINE first == [name |-> n, full |-> None, empty |-> None, cert |-> job[p].arg.cert]
           j == [job[p] EXCEPT !.new = first]
<1>1. /\ pc[p] \notin Inside /\ pc[p] \notin Emptied /\ lock # p /\ profile' = profile
      /\ Queue(p, j, "write")
  BY DEF FirstProfile, StoreInv, CommandsOK, CommandOK, Inside, Emptied, files
<1>2. /\ CommandsOK /\ job[p] \in JobType /\ Given(job[p]) /\ job[p].op = "provision"
      /\ job[p].robot \in Robots /\ job[p].arg \in Provisions
  BY DEF StoreInv, CommandsOK, CommandOK, Local, Given, Fits, Ops
<1>3. first \in Profiles
  BY <1>2, ProfileStoreAssumption DEF Provisions, Profiles
<1>4. /\ j \in JobType /\ j.new = first /\ j.op = job[p].op /\ j.robot = job[p].robot
      /\ j.arg = job[p].arg
  BY <1>2, <1>3 DEF JobType
<1>5. Given(j) /\ Fits("write", j)
  BY <1>2, <1>3, <1>4 DEF Given, Fits, Emptied, Ops
<1>6. CommandsOK'
  BY <1>1, <1>2, <1>4, <1>5, Queues DEF Ops
<1> QED BY <1>1, <1>6, FilesStay DEF Queue

LEMMA PriorNext ==
  ASSUME StoreInv, NEW p \in Commands, Prior(p)
  PROVE  StoreInv'
<1>1. /\ pc[p] = "prior" /\ pc[p] \notin Inside /\ pc[p] \notin Emptied /\ lock # p
      /\ UNCHANGED <<files, lock, calls, torn>> /\ profile' = profile
  BY DEF Prior, StoreInv, CommandsOK, CommandOK, Inside, Emptied, files
<1>2. /\ CommandsOK /\ job[p] \in JobType /\ Given(job[p]) /\ job[p].op = "provision"
      /\ job[p].robot \in Robots /\ job[p].arg \in Provisions
  BY <1>1 DEF StoreInv, CommandsOK, CommandOK, Local, Given, Fits, Ops
<1>3. CASE Queue(p, job[p], "load")
  <2>1. Fits("load", job[p])
    BY <1>2 DEF Fits, Emptied, Ops
  <2>2. CommandsOK'
    BY <1>1, <1>2, <1>3, <2>1, Queues DEF Ops
  <2> QED BY <1>1, <1>3, <2>2, FilesStay DEF Queue
<1>4. CASE FirstProfile(p, job[p].arg.name)
  <2>1. job[p].arg.name \in Names \cup {None}
    BY <1>2 DEF Provisions
  <2> QED BY <1>1, <1>4, <2>1, FirstProfileQueues
<1>5. CASE Goto(p, "naming") /\ UNCHANGED job
  <2>1. "naming" \in Stages /\ "naming" \notin Inside /\ "naming" # "queued"
    BY DEF Stages, Inside
  <2>2. Fits("naming", job[p]) /\ Sees("naming", job[p], profile')
    BY <1>2 DEF Fits, Sees, Emptied, Ops
  <2>3. CommandsOK'
    BY <1>1, <1>2, <1>5, <2>1, <2>2, GoesOn
  <2> QED BY <1>1, <1>5, <2>3, FilesStay
<1> QED BY <1>3, <1>4, <1>5 DEF Prior

LEMMA NamedNext ==
  ASSUME StoreInv, NEW p \in Commands, Named(p)
  PROVE  StoreInv'
BY FirstProfileQueues DEF Named

LEMMA AppointNext ==
  ASSUME StoreInv, NEW p \in Commands, Appoint(p)
  PROVE  StoreInv'
<1>1. /\ pc[p] = "appoint" /\ pc[p] \notin Inside /\ pc[p] \notin Emptied /\ lock # p
      /\ UNCHANGED <<files, calls, torn>> /\ profile' = profile
  BY DEF Appoint, StoreInv, CommandsOK, CommandOK, Inside, Emptied, files
<1>2. /\ CommandsOK /\ job[p] \in JobType /\ Given(job[p]) /\ job[p].op = "provision"
      /\ job[p].op \in Ops
  BY <1>1 DEF StoreInv, CommandsOK, CommandOK, Local, Fits, Ops
<1>3. CASE Ends(p)
  <2>1. CommandsOK'
    BY <1>1, <1>2, <1>3, Leaves
  <2> QED BY <1>1, <1>3, <2>1, FilesStay DEF Ends, Release
<1>4. CASE Queue(p, job[p], "check") /\ UNCHANGED lock
  <2>1. Fits("check", job[p])
    BY <1>2 DEF Fits, Emptied
  <2>2. CommandsOK'
    BY <1>1, <1>2, <1>4, <2>1, Queues
  <2> QED BY <1>1, <1>4, <2>2, FilesStay DEF Queue
<1> QED BY <1>3, <1>4 DEF Appoint

LEMMA WipeNext ==
  ASSUME StoreInv, NEW p \in Commands, Wipe(p)
  PROVE  StoreInv'
<1>1. /\ pc[p] = "wipe" /\ pc[p] \notin Inside /\ lock # p
      /\ UNCHANGED <<profile, dirs, default, lock, calls, torn>>
  BY DEF Wipe, StoreInv, CommandsOK, CommandOK, Inside
<1>2. /\ CommandsOK /\ job[p] \in JobType /\ Local("wipe", job[p]) /\ job[p].op = "rotate"
      /\ job[p].left \subseteq Held
  BY <1>1 DEF StoreInv, CommandsOK, CommandOK, Local, Fits
<1>3. "wipe" \in Stages \ Inside /\ "list" \in Stages \ Inside
  BY DEF Stages, Inside
<1>4. ASSUME NEW r \in Robots, NEW file \in Pairs, Unlinks(p, r, file)
      PROVE  StoreInv'
  <2> DEFINE j == [job[p] EXCEPT !.left = @ \ {<<r, file>>}]
  <2>0. /\ cert' = [cert EXCEPT ![r] = 0] \/ cert' = cert
        /\ key' = [key EXCEPT ![r] = 0] \/ key' = key
        /\ Becomes(p, j) /\ pc' = pc
    BY <1>4 DEF Unlinks
  <2>1. /\ j \in JobType /\ j.op = "rotate" /\ j.left \subseteq Held /\ j.then = job[p].then
    BY <1>2 DEF JobType
  <2>2. Local("wipe", j) /\ Sees("wipe", j, profile')
    BY <2>1 DEF Local, Given, Fits, Sees, Emptied, Ops
  <2>3. Goto(p, "wipe")
    BY <1>1, <2>0 DEF Goto, StoreInv, CommandsOK
  <2>4. CommandsOK'
    BY <1>1, <1>2, <1>3, <2>2, <2>3, <2>0, Moves
  <2>5. FilesOK'
    BY <1>1, <1>2, <2>0, ProfileStoreAssumption DEF StoreInv, FilesOK
  <2>6. DefaultOK'
    BY <1>1, <2>3, <2>0, OutsideStays
  <2> QED BY <2>4, <2>5, <2>6 DEF StoreInv
<1>5. CASE Goto(p, "list") /\ UNCHANGED <<cert, key, job>>
  <2>1. Fits("list", job[p]) /\ Sees("list", job[p], profile')
    BY <1>2 DEF Fits, Sees, Emptied, Ops
  <2>2. CommandsOK'
    BY <1>1, <1>2, <1>3, <1>5, <2>1, GoesOn
  <2>3. FilesOK'
    BY <1>1, <1>5 DEF StoreInv, FilesOK
  <2>4. DefaultOK'
    BY <1>1, <1>5, OutsideStays
  <2> QED BY <2>2, <2>3, <2>4 DEF StoreInv
<1> QED BY <1>4, <1>5 DEF Wipe

LEMMA ListProfilesNext ==
  ASSUME StoreInv, NEW p \in Commands, ListProfiles(p)
  PROVE  StoreInv'
<1> DEFINE listed == {[robot |-> r, was |-> profile[r]] :
                        r \in {s \in Known : profile[s].cert # 0}}
           j == [job[p] EXCEPT !.left = listed]
<1>1. /\ pc[p] = "list" /\ pc[p] \notin Inside /\ pc[p] \notin Emptied /\ lock # p
      /\ UNCHANGED <<files, lock, calls, torn>> /\ profile' = profile
      /\ Goto(p, "next") /\ Becomes(p, j)
  BY DEF ListProfiles, StoreInv, CommandsOK, CommandOK, Inside, Emptied, files
<1>2. CommandsOK /\ job[p] \in JobType /\ job[p].op = "rotate" /\ Local("list", job[p])
  BY <1>1 DEF StoreInv, CommandsOK, CommandOK, Local, Fits
<1>3. listed \subseteq Listed
  BY DEF Listed, Known, Loads, StoreInv, FilesOK
<1>4. j \in JobType /\ j.op = "rotate" /\ j.left = listed /\ j.then = job[p].then
  BY <1>2, <1>3 DEF JobType
<1>5. Local("next", j) /\ Sees("next", j, profile')
  BY <1>3, <1>4 DEF Local, Given, Fits, Sees, Emptied, Ops
<1>6. "next" \in Stages /\ "next" \notin Inside
  BY DEF Stages, Inside
<1>7. CommandsOK'
  BY <1>1, <1>2, <1>5, <1>6, Moves
<1> QED BY <1>1, <1>7, FilesStay

LEMMA NextProfileNext ==
  ASSUME StoreInv, NEW p \in Commands, NextProfile(p)
  PROVE  StoreInv'
<1>1. /\ pc[p] = "next" /\ pc[p] \notin Inside /\ pc[p] \notin Emptied /\ lock # p
      /\ UNCHANGED <<files, calls, torn>> /\ profile' = profile
  BY DEF NextProfile, StoreInv, CommandsOK, CommandOK, Inside, Emptied, files
<1>2. CommandsOK /\ job[p] \in JobType /\ job[p].op = "rotate" /\ job[p].left \subseteq Listed
  BY <1>1 DEF StoreInv, CommandsOK, CommandOK, Local, Fits
<1>3. ASSUME NEW listed \in job[p].left, UNCHANGED lock,
             Queue(p, [job[p] EXCEPT !.robot = listed.robot, !.left = @ \ {listed},
                                     !.new = [listed.was EXCEPT !.cert = 0]], "write")
      PROVE  StoreInv'
  <2> DEFINE new == [listed.was EXCEPT !.cert = 0]
             j == [job[p] EXCEPT !.robot = listed.robot, !.left = @ \ {listed}, !.new = new]
  <2>1. listed.robot \in Robots /\ listed.was \in Profiles
    BY <1>2 DEF Listed
  <2>2. new \in Profiles
    BY <2>1 DEF Profiles
  <2>3. /\ j \in JobType /\ j.op = "rotate" /\ j.robot \in Robots /\ j.new \in Profiles
        /\ j.left \subseteq Listed
    BY <1>2, <2>1, <2>2 DEF JobType
  <2>4. Given(j) /\ Fits("write", j)
    BY <2>3 DEF Given, Fits, Emptied, Ops
  <2>5. CommandsOK'
    BY <1>1, <1>2, <1>3, <2>3, <2>4, Queues DEF Ops
  <2> QED BY <1>1, <1>3, <2>5, FilesStay DEF Queue
<1>4. CASE Ends(p)
  <2>1. CommandsOK'
    BY <1>1, <1>2, <1>4, Leaves
  <2> QED BY <1>1, <1>4, <2>1, FilesStay DEF Ends, Release
<1> QED BY <1>3, <1>4 DEF NextProfile

LEMMA DiesNext ==
  ASSUME StoreInv, NEW p \in Commands, Dies(p)
  PROVE  StoreInv'
<1>1. /\ pc[p] # "idle" /\ Ends(p) /\ UNCHANGED <<files, calls>> /\ profile' = profile
      /\ torn' = IF job[p].op = "forget" /\ pc[p] \in Inside THEN torn \cup {job[p].robot}
                 ELSE torn
  BY DEF Dies, files
<1>2. CommandsOK /\ (job[p].op = "forget" => job[p].robot \in Robots)
  BY DEF StoreInv, CommandsOK, CommandOK, Local, Given, Ops
<1>3. CommandsOK' /\ \A q \in Commands \ {p} : pc'[q] = pc[q] /\ job'[q] = job[q]
  BY <1>1, <1>2, Leaves, OthersStay DEF Ends
<1>4. FilesOK'
  BY <1>1, <1>2 DEF StoreInv, FilesOK, files
<1>5. DefaultOK'
  <2>1. CASE lock = p /\ pc[p] \in Emptied
    <3>1. job[p].op = "forget" /\ pc[p] \in Inside
      BY <2>1 DEF StoreInv, CommandsOK, CommandOK, Local, Fits, Emptied, Inside
    <3> QED BY <1>1, <2>1, <3>1 DEF StoreInv, DefaultOK, files
  <2>2. CASE lock = p /\ pc[p] \notin Emptied
    BY <1>1, <2>2 DEF StoreInv, DefaultOK, files
  <2>3. CASE lock # p
    <3>1. lock' = lock /\ lock \in Commands \cup {None}
      BY <1>1, <2>3 DEF Ends, Release, StoreInv, CommandsOK
    <3> QED BY <1>1, <1>3, <2>3, <3>1 DEF StoreInv, DefaultOK, files
  <2> QED BY <2>1, <2>2, <2>3
<1> QED BY <1>3, <1>4, <1>5 DEF StoreInv

-----------------------------------------------------------------------------
(* The theorems *)

LEMMA InitStoreInv ==
  ASSUME Init
  PROVE  StoreInv
<1>1. FilesOK
  BY ProfileStoreAssumption DEF Init, FilesOK
<1>2. /\ NoJob \in JobType /\ NoJob.op = None /\ NoJob.then = None
  BY DEF NoJob, Job, JobType
<1>3. NoJob.op \notin Ops /\ NoJob.then # "write"
  BY <1>2, ProfileStoreAssumption DEF Inside
<1>4. Local("idle", NoJob) /\ Sees("idle", NoJob, profile)
  BY <1>2, <1>3 DEF Local, Given, Fits, Sees, Emptied, Ops
<1>5. "idle" \in Stages /\ "idle" \notin Inside /\ None \notin Commands
  BY ProfileStoreAssumption DEF Stages, Inside
<1>6. CommandsOK
  BY <1>2, <1>4, <1>5 DEF Init, CommandsOK, CommandOK
<1>7. DefaultOK
  BY DEF Init, DefaultOK
<1> QED BY <1>1, <1>6, <1>7 DEF StoreInv

LEMMA StoreInvNext ==
  ASSUME StoreInv, [Next]_vars
  PROVE  StoreInv'
<1>1. CASE UNCHANGED vars
  BY <1>1 DEF vars, files, StoreInv, FilesOK, CommandsOK, CommandOK, DefaultOK
<1>2. ASSUME NEW p \in Commands,
             Start(p) \/ Person(p) \/ Step(p) \/ Dies(p)
      PROVE  StoreInv'
  <2>1. CASE Step(p)
    BY <2>1, LockNext, LoadNext, WriteNext, SetDefaultNext, ForgetNext, SaveIdentityNext,
       PriorNext, AppointNext, WipeNext, ListProfilesNext, NextProfileNext DEF Step
  <2>2. CASE Person(p)
    BY <2>2, AnsweredNext, NamedNext DEF Person
  <2> QED BY <1>2, <2>1, <2>2, StartNext, DiesNext
<1> QED BY <1>1, <1>2 DEF Next

LEMMA StoreInvHolds == Spec => []StoreInv
<1>1. Init => StoreInv
  BY InitStoreInv
<1>2. StoreInv /\ [Next]_vars => StoreInv'
  BY StoreInvNext
<1> QED BY <1>1, <1>2, PTL DEF Spec

(* The variables of the store keep their types: one command holds the lock exactly while it *)
(* is inside, and a robot with a file has a directory.                                      *)
THEOREM StoreTyped == Spec => []TypeOK
<1>1. StoreInv => TypeOK
  BY DEF StoreInv, FilesOK, CommandsOK, CommandOK, Local, JobType, TypeOK
<1> QED BY <1>1, StoreInvHolds, PTL

(* Whenever the lock is free the default names a robot that has a profile, unless a forget  *)
(* of it died: set_default and forget (robot_profiles.py) exclude each other for any number *)
(* of commands and robots.                                                                  *)
THEOREM DefaultKeepsAProfile == Spec => []DefaultHasAProfile
<1>1. StoreInv => DefaultHasAProfile
  BY DEF StoreInv, DefaultOK, DefaultHasAProfile
<1> QED BY <1>1, StoreInvHolds, PTL

(* Nothing a command did not ask for is lost when update writes (robot_profiles.py): what   *)
(* it writes is the profile as it is at that moment, changed where it was asked to.         *)
THEOREM UpdatesLoseNothing == Spec => NoLostUpdate
<1>1. ASSUME StoreInv, NEW p \in Commands, Writes(p), ~First(p), job[p].op # "rotate"
      PROVE  Keeps(p)
  <2>1. /\ pc[p] = "write" /\ CommandOK(p) /\ profile'[job[p].robot] = job[p].new
    BY <1>1 DEF Writes, StoreInv, CommandsOK
  <2>2. /\ job[p] \in JobType /\ Given(job[p])
        /\ job[p].op \in {"rename", "calibrate", "provision"} /\ job[p].then # "write"
    BY <1>1, <2>1 DEF CommandOK, Local, Fits, First
  <2>3. /\ profile[job[p].robot] \in Profiles
        /\ job[p].new = Transform(job[p], profile[job[p].robot])
    BY <2>1, <2>2 DEF CommandOK, Sees
  <2>4. Loads(job[p].robot)
    BY <2>3, ProfileStoreAssumption DEF Loads
  <2>5. \A f \in Fields \ Asked(job[p], profile[job[p].robot]) :
          job[p].new[f] = profile[job[p].robot][f]
    BY <2>2, <2>3, TransformSays
  <2> QED BY <2>1, <2>4, <2>5 DEF Keeps
<1>2. StoreInv /\ [Next]_vars =>
        [\A p \in Commands : Writes(p) /\ ~First(p) /\ job[p].op # "rotate" => Keeps(p)]_vars
  BY <1>1
<1> QED BY <1>2, StoreInvHolds, PTL DEF Spec, NoLostUpdate

(* A calibration that writes leaves a pair that is a scale: the pair it judges is the one   *)
(* on the file, whatever it read before it had the lock (cli.py, update).                   *)
THEOREM CalibrationsLeaveAScale == Spec => CalibrationLeavesAScale
<1>1. ASSUME StoreInv, NEW p \in Commands, Writes(p), job[p].op = "calibrate"
      PROVE  Usable(profile'[job[p].robot])
  <2>1. pc[p] = "write" /\ CommandOK(p) /\ profile'[job[p].robot] = job[p].new
    BY <1>1 DEF Writes, StoreInv, CommandsOK
  <2>2. job[p].then # "write"
    BY <1>1, <2>1 DEF CommandOK, Local
  <2> QED BY <1>1, <2>1, <2>2 DEF CommandOK, Sees
<1>2. StoreInv /\ [Next]_vars =>
        [\A p \in Commands :
           Writes(p) /\ job[p].op = "calibrate" => Usable(profile'[job[p].robot])]_vars
  BY <1>1
<1> QED BY <1>2, StoreInvHolds, PTL DEF Spec, CalibrationLeavesAScale
=============================================================================
