-------------------------- MODULE CoordinatorProofs --------------------------
(***************************************************************************)
(* Proofs about Coordinator, for every set of callers and refresh tasks,   *)
(* every number of days and attempts and every bound: its types, its lock  *)
(* as an implementation of Lease, and from these two what it publishes,    *)
(* presses, reports as done and leaves running.                            *)
(***************************************************************************)
EXTENDS Coordinator, SequenceTheorems, TLAPS

-----------------------------------------------------------------------------
(* Lease removes a process from the queue with the operator used here. *)
LEMMA SameRemoveAt == \A s, i : RemoveAt(s, i) = Turns!RemoveAt(s, i)
BY DEF RemoveAt, Turns!RemoveAt

(* What removing one element leaves of a sequence: the same elements in    *)
(* the same order, without it.                                             *)
LEMMA RemoveAtType ==
  ASSUME NEW S, NEW s \in Seq(S), NEW i \in 1 .. Len(s)
  PROVE  /\ RemoveAt(s, i) \in Seq(S)
         /\ Len(RemoveAt(s, i)) = Len(s) - 1
         /\ \A k \in 1 .. Len(s) - 1 : RemoveAt(s, i)[k] = IF k < i THEN s[k] ELSE s[k + 1]
<1> DEFINE a == SubSeq(s, 1, i - 1)
           b == SubSeq(s, i + 1, Len(s))
<1>1. Len(s) \in Nat /\ \A k \in 1 .. Len(s) : s[k] \in S
  BY ElementOfSeq, LenProperties
<1>2. a \in Seq(S) /\ Len(a) = i - 1 /\ \A k \in 1 .. i - 1 : a[k] = s[k]
  <2>1. \A k \in 1 .. i - 1 : s[k] \in S
    BY <1>1
  <2>2. /\ a \in Seq(S)
        /\ Len(a) = IF 1 <= i - 1 THEN i - 1 - 1 + 1 ELSE 0
        /\ \A k \in 1 .. i - 1 - 1 + 1 : a[k] = s[1 + k - 1]
    BY <1>1, <2>1, SubSeqProperties
  <2> QED BY <1>1, <2>2
<1>3. b \in Seq(S) /\ Len(b) = Len(s) - i /\ \A k \in 1 .. Len(s) - i : b[k] = s[i + k]
  <2>1. \A k \in i + 1 .. Len(s) : s[k] \in S
    BY <1>1
  <2>2. /\ b \in Seq(S)
        /\ Len(b) = IF i + 1 <= Len(s) THEN Len(s) - (i + 1) + 1 ELSE 0
        /\ \A k \in 1 .. Len(s) - (i + 1) + 1 : b[k] = s[i + 1 + k - 1]
    BY <1>1, <2>1, SubSeqProperties
  <2> QED BY <1>1, <2>2
<1>4. /\ a \o b \in Seq(S)
      /\ Len(a \o b) = Len(a) + Len(b)
      /\ \A k \in 1 .. Len(a) + Len(b) : (a \o b)[k] = IF k <= Len(a) THEN a[k] ELSE b[k - Len(a)]
  BY <1>2, <1>3, ConcatProperties
<1>5. RemoveAt(s, i) = a \o b
  BY DEF RemoveAt
<1> HIDE DEF a, b
<1>6. Len(a) + Len(b) = Len(s) - 1
  BY <1>1, <1>2, <1>3
<1>7. ASSUME NEW k \in 1 .. Len(s) - 1
      PROVE  (a \o b)[k] = IF k < i THEN s[k] ELSE s[k + 1]
  <2>1. CASE k < i
    BY <1>1, <1>2, <1>4, <1>6, <2>1
  <2>2. CASE k >= i
    <3>1. (a \o b)[k] = b[k - (i - 1)]
      BY <1>1, <1>2, <1>4, <1>6, <2>2
    <3>2. k - (i - 1) \in 1 .. Len(s) - i /\ i + (k - (i - 1)) = k + 1
      BY <1>1, <2>2
    <3> QED BY <1>3, <2>2, <3>1, <3>2
  <2>3. k < i \/ k >= i
    BY <1>1, <1>7
  <2> QED BY <2>1, <2>2, <2>3
<1> QED BY <1>4, <1>5, <1>6, <1>7

-----------------------------------------------------------------------------
(* Type correctness. *)

(* What is not touched keeps its type. *)
LEMMA Untouched ==
  ASSUME TypeOK
  PROVE  /\ UNCHANGED <<holder, pc, frame, outcome>> => SuspensionsOK'
         /\ UNCHANGED <<waiters, op, calls, entry>> => CallsOK'
         /\ UNCHANGED <<op, calls, entry>> /\ waiters' \in Seq(Procs) => CallsOK'
         /\ UNCHANGED <<stateEvent, doc, pressEcho, awaited, throttled, reference>> => EventsOK'
         /\ UNCHANGED <<cmds, events>> => SentOK'
         /\ UNCHANGED <<robot, msgs, acted, evidence>> => OutsideOK'
<1>1. UNCHANGED <<holder, pc, frame, outcome>> => SuspensionsOK'
  BY DEF TypeOK, SuspensionsOK
<1>2. UNCHANGED <<op, calls, entry>> /\ waiters' \in Seq(Procs) => CallsOK'
  BY DEF TypeOK, CallsOK
<1>3. UNCHANGED <<waiters, op, calls, entry>> => CallsOK'
  BY DEF TypeOK, CallsOK
<1>4. UNCHANGED <<stateEvent, doc, pressEcho, awaited, throttled, reference>> => EventsOK'
  BY DEF TypeOK, EventsOK
<1>5. UNCHANGED <<cmds, events>> => SentOK'
  BY DEF TypeOK, SentOK
<1>6. UNCHANGED <<robot, msgs, acted, evidence>> => OutsideOK'
  BY DEF TypeOK, OutsideOK
<1> QED BY <1>1, <1>2, <1>3, <1>4, <1>5, <1>6

(* A suspension, a return and a publish keep the types of what they change. *)
LEMMA SuspendType ==
  ASSUME TypeOK, NEW p \in Procs, NEW where \in Points, NEW f \in Frame, Suspend(p, where, f)
  PROVE  SuspensionsOK'
BY DEF TypeOK, SuspensionsOK, Suspend

(* A return gives the process an idle point and an outcome. *)
LEMMA ReturnType ==
  ASSUME TypeOK, NEW p \in Procs, NEW result \in Outcomes, Return(p, result)
  PROVE  SuspensionsOK'
BY DEF TypeOK, SuspensionsOK, Return, Points, Frame, NoFrame

(* A publish appends a command, or none when the channel is full. *)
LEMMA PublishType ==
  ASSUME TypeOK, NEW c \in Command, Publish(c)
  PROVE  SentOK'
<1>1. cmds' \in Seq(Command)
  BY AppendProperties DEF TypeOK, SentOK, Publish
<1> QED BY <1>1 DEF TypeOK, SentOK, Publish

(* A publish that raises, or none, ends the transaction or goes on without. *)
LEMMA QuietType ==
  ASSUME TypeOK, PublishRaises \/ UNCHANGED <<events, cmds>>
  PROVE  SentOK'
BY DEF TypeOK, SentOK, PublishRaises

(* The first waiter leaves the queue. *)
LEMMA TakeType ==
  ASSUME TypeOK, NEW p \in Procs, Granted(p), Take, UNCHANGED <<op, calls, entry>>
  PROVE  CallsOK'
BY DEF TypeOK, CallsOK, Granted, Take

(* The commands a process publishes and the frames it suspends with. *)
LEMMA LocalTypes ==
  ASSUME TypeOK, NEW p \in Procs
  PROVE  /\ Request(p) \in Command /\ Press(p) \in Command
         /\ Write(p, 1) \in Command /\ Write(p, frame[p].item) \in Command
         /\ frame[p] \in Frame /\ At(1, 2) \in Frame
         /\ At(frame[p].attempt, frame[p].item + 1) \in Frame
         /\ At(frame[p].attempt + 1, 2) \in Frame
<1>1. op[p] \in Ops /\ calls[p] \in Nat /\ frame[p] \in Frame
  BY DEF TypeOK, CallsOK, SuspensionsOK
<1>2. frame[p].item \in Nat /\ frame[p].attempt \in Nat
  BY <1>1 DEF Frame
<1>3. Request(p) \in Command /\ Press(p) \in Command /\ \A i \in Nat : Write(p, i) \in Command
  BY <1>1 DEF Command, Request, Press, Write
<1>4. \A a, i \in Nat : At(a, i) \in Frame
  BY DEF At, Frame
<1> QED BY <1>1, <1>2, <1>3, <1>4

(* One step of a call that publishes or not, and suspends or returns. *)
LEMMA StepType ==
  ASSUME TypeOK, NEW p \in Procs,
         \/ /\ \/ Publish(Request(p)) \/ Publish(Press(p))
               \/ Publish(Write(p, 1)) \/ Publish(Write(p, frame[p].item))
            /\ \/ \E where \in Points : Suspend(p, where, frame[p])
               \/ Suspend(p, "send", At(1, 2))
               \/ Suspend(p, "send", At(frame[p].attempt, frame[p].item + 1))
               \/ Suspend(p, "send", At(frame[p].attempt + 1, 2))
         \/ /\ PublishRaises \/ UNCHANGED <<events, cmds>>
            /\ \E result \in Outcomes : Return(p, result)
  PROVE  SuspensionsOK' /\ SentOK'
<1>1. "send" \in Points
  BY DEF Points
<1>2. CASE /\ \/ Publish(Request(p)) \/ Publish(Press(p))
              \/ Publish(Write(p, 1)) \/ Publish(Write(p, frame[p].item))
           /\ \/ \E where \in Points : Suspend(p, where, frame[p])
              \/ Suspend(p, "send", At(1, 2))
              \/ Suspend(p, "send", At(frame[p].attempt, frame[p].item + 1))
              \/ Suspend(p, "send", At(frame[p].attempt + 1, 2))
  <2>1. SentOK'
    BY <1>2, LocalTypes, PublishType
  <2>2. SuspensionsOK'
    BY <1>1, <1>2, LocalTypes, SuspendType
  <2> QED BY <2>1, <2>2
<1>3. CASE /\ PublishRaises \/ UNCHANGED <<events, cmds>>
           /\ \E result \in Outcomes : Return(p, result)
  BY <1>3, ReturnType, QuietType
<1> QED BY <1>2, <1>3

(* The heartbeat and the calibration keep the types. *)
LEMMA UpdateTypes ==
  ASSUME TypeOK, NEW p \in Procs, BeginUpdate(p) \/ UpdateReply(p) \/ UpdateTimeout(p)
  PROVE  TypeOK'
<1> USE DEF eventVars, storeVars, robotVars, witnessVars
<1>1. CASE BeginUpdate(p)
  <2>1. SuspensionsOK' /\ SentOK'
    BY <1>1, StepType DEF BeginUpdate, Points, Outcomes
  <2>2. CallsOK' /\ OutsideOK'
    BY <1>1, TakeType, Untouched DEF BeginUpdate
  <2>3. EventsOK'
    BY <1>1 DEF BeginUpdate, TypeOK, EventsOK
  <2> QED BY <2>1, <2>2, <2>3 DEF TypeOK
<1>2. CASE UpdateReply(p)
  <2>1. SuspensionsOK' /\ SentOK'
    BY <1>2, StepType DEF UpdateReply, Outcomes
  <2>2. CallsOK' /\ OutsideOK'
    BY <1>2, Untouched DEF UpdateReply
  <2>3. Reading(doc) \in Nat \cup {NoOne}
    BY DEF Reading, Doc, TypeOK, EventsOK
  <2>4. EventsOK'
    BY <1>2, <2>3 DEF UpdateReply, TypeOK, EventsOK
  <2> QED BY <2>1, <2>2, <2>4 DEF TypeOK
<1>3. CASE UpdateTimeout(p)
  <2>1. SuspensionsOK' /\ SentOK'
    BY <1>3, StepType DEF UpdateTimeout, Outcomes
  <2>2. CallsOK' /\ EventsOK' /\ OutsideOK'
    BY <1>3, Untouched DEF UpdateTimeout
  <2> QED BY <2>1, <2>2 DEF TypeOK
<1> QED BY <1>1, <1>2, <1>3

(* The register writes keep the types. *)
LEMMA WriteTypes ==
  ASSUME TypeOK, NEW p \in Procs,
         BeginWrite(p) \/ SendNext(p) \/ VerifyDoc(p) \/ VerifyTimeout(p)
  PROVE  TypeOK'
<1> USE DEF eventVars, storeVars, robotVars, witnessVars
<1>1. CASE BeginWrite(p)
  <2>1. SuspensionsOK' /\ SentOK'
    BY <1>1, StepType DEF BeginWrite, Outcomes
  <2>2. CallsOK' /\ OutsideOK'
    BY <1>1, TakeType, Untouched DEF BeginWrite
  <2>3. EventsOK'
    BY <1>1 DEF BeginWrite, TypeOK, EventsOK
  <2> QED BY <2>1, <2>2, <2>3 DEF TypeOK
<1>2. CASE SendNext(p)
  <2>1. SuspensionsOK' /\ SentOK'
    BY <1>2, StepType DEF SendNext, Points, Outcomes
  <2>2. CallsOK' /\ EventsOK' /\ OutsideOK'
    BY <1>2, Untouched DEF SendNext
  <2> QED BY <2>1, <2>2 DEF TypeOK
<1>3. CASE VerifyDoc(p)
  <2>1. SuspensionsOK' /\ SentOK'
    BY <1>3, StepType, Untouched DEF VerifyDoc, Outcomes
  <2>2. CallsOK' /\ OutsideOK'
    BY <1>3, Untouched DEF VerifyDoc
  <2>3. EventsOK'
    BY <1>3 DEF VerifyDoc, TypeOK, EventsOK
  <2> QED BY <2>1, <2>2, <2>3 DEF TypeOK
<1>4. CASE VerifyTimeout(p)
  <2>1. SuspensionsOK' /\ SentOK'
    BY <1>4, StepType DEF VerifyTimeout, Outcomes
  <2>2. CallsOK' /\ OutsideOK'
    BY <1>4, Untouched DEF VerifyTimeout
  <2>3. EventsOK'
    BY <1>4 DEF VerifyTimeout, TypeOK, EventsOK
  <2> QED BY <2>1, <2>2, <2>3 DEF TypeOK
<1> QED BY <1>1, <1>2, <1>3, <1>4

(* The presses keep the types. *)
LEMMA PressTypes ==
  ASSUME TypeOK, NEW p \in Procs,
         \/ BeginPress(p) \/ EchoSeen(p) \/ Courtesy(p) \/ EchoTimeout(p)
         \/ ConfirmDoc(p) \/ ConfirmTimeout(p) \/ BeginWifi(p) \/ Finish(p)
  PROVE  TypeOK'
<1> USE DEF eventVars, storeVars, robotVars, witnessVars
<1>1. CASE BeginPress(p)
  <2>1. SuspensionsOK' /\ SentOK'
    BY <1>1, StepType DEF BeginPress, Points, Outcomes
  <2>2. CallsOK' /\ OutsideOK'
    BY <1>1, TakeType, Untouched DEF BeginPress
  <2>3. EventsOK'
    BY <1>1 DEF BeginPress, TypeOK, EventsOK
  <2> QED BY <2>1, <2>2, <2>3 DEF TypeOK
<1>2. CASE EchoSeen(p)
  <2>1. SuspensionsOK'
    BY <1>2, SuspendType, LocalTypes DEF EchoSeen, Points
  <2>2. CallsOK' /\ EventsOK' /\ SentOK' /\ OutsideOK'
    BY <1>2, Untouched DEF EchoSeen
  <2> QED BY <2>1, <2>2 DEF TypeOK
<1>3. CASE Courtesy(p)
  <2>1. SuspensionsOK' /\ SentOK'
    BY <1>3, StepType DEF Courtesy, Points, Outcomes
  <2>2. CallsOK' /\ OutsideOK'
    BY <1>3, Untouched DEF Courtesy
  <2>3. EventsOK'
    BY <1>3 DEF Courtesy, TypeOK, EventsOK
  <2> QED BY <2>1, <2>2, <2>3 DEF TypeOK
<1>4. CASE EchoTimeout(p)
  <2>1. SuspensionsOK' /\ SentOK'
    BY <1>4, StepType DEF EchoTimeout, Points, Outcomes
  <2>2. CallsOK' /\ OutsideOK'
    BY <1>4, Untouched DEF EchoTimeout
  <2>3. EventsOK'
    BY <1>4 DEF EchoTimeout, TypeOK, EventsOK
  <2> QED BY <2>1, <2>2, <2>3 DEF TypeOK
<1>5. CASE ConfirmDoc(p) \/ ConfirmTimeout(p)
  <2>1. SuspensionsOK' /\ SentOK'
    BY <1>5, StepType DEF ConfirmDoc, ConfirmTimeout, Outcomes
  <2>2. CallsOK' /\ EventsOK' /\ OutsideOK'
    BY <1>5, Untouched DEF ConfirmDoc, ConfirmTimeout
  <2> QED BY <2>1, <2>2 DEF TypeOK
<1>6. CASE BeginWifi(p)
  <2>1. SuspensionsOK' /\ SentOK'
    BY <1>6, StepType DEF BeginWifi, Points, Outcomes
  <2>2. CallsOK' /\ EventsOK' /\ OutsideOK'
    BY <1>6, TakeType, Untouched DEF BeginWifi
  <2> QED BY <2>1, <2>2 DEF TypeOK
<1>7. CASE Finish(p)
  <2>1. SuspensionsOK' /\ SentOK'
    BY <1>7, StepType DEF Finish, Outcomes
  <2>2. CallsOK' /\ OutsideOK'
    BY <1>7, Untouched DEF Finish
  <2>3. EventsOK'
    BY <1>7 DEF Finish, TypeOK, EventsOK
  <2> QED BY <2>1, <2>2, <2>3 DEF TypeOK
<1> QED BY <1>1, <1>2, <1>3, <1>4, <1>5, <1>6, <1>7

(* The refresh tasks keep the types. *)
LEMMA TaskTypes ==
  ASSUME TypeOK, NEW r \in Refreshers, StartRefresh(r) \/ SendRefresh(r) \/ CancelTask(r)
  PROVE  TypeOK'
<1> USE DEF lockVars, procVars, eventVars, storeVars, robotVars, witnessVars
<1>1. r \in Procs
  BY DEF Procs
<1>2. CASE StartRefresh(r)
  <2>1. SuspensionsOK'
    BY <1>2 DEF StartRefresh, TypeOK, SuspensionsOK, Points
  <2>2. waiters' \in Seq(Procs)
    BY <1>1, <1>2, AppendProperties DEF StartRefresh, TypeOK, CallsOK
  <2>3. CallsOK' /\ EventsOK' /\ SentOK' /\ OutsideOK'
    BY <1>2, <2>2, Untouched DEF StartRefresh
  <2> QED BY <2>1, <2>3 DEF TypeOK
<1>3. CASE SendRefresh(r)
  <2>1. SuspensionsOK' /\ SentOK'
    BY <1>1, <1>3, StepType DEF SendRefresh, Points, Outcomes
  <2>2. CallsOK' /\ EventsOK' /\ OutsideOK'
    BY <1>1, <1>3, TakeType, Untouched DEF SendRefresh
  <2> QED BY <2>1, <2>2 DEF TypeOK
<1>4. CASE CancelTask(r)
  <2>1. SuspensionsOK'
    BY <1>4 DEF CancelTask, TypeOK, SuspensionsOK, Points
  <2>2. waiters' \in Seq(Procs)
    BY <1>4, RemoveAtType DEF CancelTask, TypeOK, CallsOK
  <2>4. SentOK'
    BY <1>4, QuietType DEF CancelTask
  <2>5. CallsOK' /\ EventsOK' /\ OutsideOK'
    BY <1>4, <2>2, Untouched DEF CancelTask
  <2> QED BY <2>1, <2>4, <2>5 DEF TypeOK
<1> QED BY <1>2, <1>3, <1>4

(* A call keeps the types. *)
LEMMA CallTypes ==
  ASSUME TypeOK, NEW p \in Callers, NEW o \in OpsOf[p], Call(p, o)
  PROVE  TypeOK'
<1> USE DEF eventVars, storeVars, robotVars
<1>1. p \in Procs /\ o \in Ops
  BY CoordinatorAssumption DEF Procs, Ops
<1>2. Odometer(doc) \in Nat \cup {NoOne}
  BY DEF Odometer, TypeOK, EventsOK, Doc
<1>3. frame' \in [Procs -> Frame]
  <2>1. frame \in [Procs -> Frame]
    BY DEF TypeOK, SuspensionsOK
  <2> QED BY <1>1, <1>2, <2>1 DEF Call, Frame
<1>4. SuspensionsOK'
  BY <1>1, <1>3 DEF Call, TypeOK, SuspensionsOK, Points, Outcomes
<1>5. waiters' \in Seq(Procs)
  BY <1>1, AppendProperties DEF Call, TypeOK, CallsOK
<1>6. CallsOK'
  BY <1>1, <1>5 DEF Call, TypeOK, CallsOK
<1>7. EventsOK' /\ SentOK'
  BY Untouched DEF Call
<1>8. robot.level \in Nat
  BY DEF TypeOK, OutsideOK, Doc
<1>9. OutsideOK'
  BY <1>1, <1>8 DEF Call, TypeOK, OutsideOK
<1> QED BY <1>4, <1>6, <1>7, <1>9 DEF TypeOK

(* Decoding a message keeps the types. *)
LEMMA DeliverTypes ==
  ASSUME TypeOK, Deliver
  PROVE  TypeOK'
<1> USE DEF lockVars, storeVars, robotVars
<1> DEFINE m == Head(msgs)
<1>1. m \in Message /\ msgs' \in Seq(Message)
  BY HeadTailProperties DEF Deliver, TypeOK, OutsideOK
<1> HIDE DEF m
<1>2. Witnessed(m) => evidence' \in [Procs -> {"none", "shown"}]
  BY DEF Witnessed, TypeOK, OutsideOK
<1>3. CASE DecodeState(m)
  <2>1. m.doc \in Doc
    BY <1>1, <1>3 DEF Message, DecodeState
  <2>2. SuspensionsOK' /\ CallsOK' /\ SentOK'
    BY <1>3, Untouched DEF DecodeState, Deliver
  <2>3. EventsOK'
    BY <1>3, <2>1 DEF DecodeState, Deliver, TypeOK, EventsOK
  <2>4. OutsideOK'
    BY <1>1, <1>2, <1>3 DEF DecodeState, Deliver, TypeOK, OutsideOK
  <2> QED BY <2>2, <2>3, <2>4 DEF TypeOK
<1>4. CASE DecodeActivity(m)
  <2>1. pc' \in [Procs -> Points] /\ op' \in [Procs -> Ops]
    <3>1. pc \in [Procs -> Points] /\ op \in [Procs -> Ops]
      BY DEF TypeOK, SuspensionsOK, CallsOK
    <3>2. "created" \in Points /\ "refresh" \in Ops
      BY DEF Points, Ops
    <3> QED BY <1>4, <3>1, <3>2 DEF DecodeActivity, ScheduleRefresh
  <2>2. throttled' \in BOOLEAN
    BY <1>4 DEF DecodeActivity, ScheduleRefresh, TypeOK, EventsOK
  <2>3. SuspensionsOK' /\ CallsOK'
    BY <2>1 DEF Deliver, TypeOK, SuspensionsOK, CallsOK
  <2>4. EventsOK' /\ SentOK'
    BY <1>4, <2>2 DEF DecodeActivity, Deliver, TypeOK, EventsOK, SentOK
  <2>5. OutsideOK'
    BY <1>1, <1>2, <1>4 DEF DecodeActivity, Deliver, TypeOK, OutsideOK
  <2> QED BY <2>3, <2>4, <2>5 DEF TypeOK
<1>5. CASE UNCHANGED <<pc, op, doc, stateEvent, pressEcho, throttled, evidence>>
  <2>1. SuspensionsOK' /\ CallsOK' /\ EventsOK' /\ SentOK'
    BY <1>5, Untouched DEF Deliver
  <2>2. OutsideOK'
    BY <1>1, <1>5 DEF Deliver, TypeOK, OutsideOK
  <2> QED BY <2>1, <2>2 DEF TypeOK
<1> QED BY <1>3, <1>4, <1>5 DEF Deliver, Handled, m

(* The unload and the passing of time keep the types. *)
LEMMA UnloadTypes ==
  ASSUME TypeOK, Unload \/ ThrottleElapses
  PROVE  TypeOK'
<1> USE DEF lockVars, procVars, eventVars, storeVars, robotVars, witnessVars
<1>1. CASE ThrottleElapses
  <2>1. SuspensionsOK' /\ CallsOK' /\ SentOK' /\ OutsideOK'
    BY <1>1, Untouched DEF ThrottleElapses
  <2>2. EventsOK'
    BY <1>1 DEF ThrottleElapses, TypeOK, EventsOK
  <2> QED BY <2>1, <2>2 DEF TypeOK
<1>2. ASSUME NEW from, NEW to \in {"unloading", "cancelling", "shutdown", "unloaded"},
             EntryStep(from, to), events' \in {events, events + 1}
      PROVE  TypeOK'
  <2>1. SuspensionsOK' /\ EventsOK' /\ OutsideOK'
    BY <1>2, Untouched DEF EntryStep
  <2>2. CallsOK'
    BY <1>2 DEF EntryStep, TypeOK, CallsOK
  <2>3. SentOK'
    BY <1>2 DEF EntryStep, TypeOK, SentOK
  <2> QED BY <2>1, <2>2, <2>3 DEF TypeOK
<1> QED BY <1>1, <1>2 DEF Unload, BeginUnload, BeginShutdown, EndShutdown, Unsubscribe

(* The robot's edits of its own state. *)
LEMMA DocEdits ==
  ASSUME NEW d \in Doc
  PROVE  /\ [d EXCEPT !.status = "ready"] \in Doc /\ [d EXCEPT !.status = "clean_cycle"] \in Doc
         /\ [d EXCEPT !.empties = @ + 1] \in Doc
         /\ [d EXCEPT !.level = @ + 1] \in Doc
         /\ \A r, b : b \in BOOLEAN => [d EXCEPT !.regs[r] = b] \in Doc
<1>1. [d EXCEPT !.status = "ready"] \in Doc
  BY DEF Doc
<1>2. [d EXCEPT !.status = "clean_cycle"] \in Doc
  BY DEF Doc
<1>3. [d EXCEPT !.empties = @ + 1] \in Doc
  BY DEF Doc
<1>4. [d EXCEPT !.level = @ + 1] \in Doc
  BY DEF Doc
<1>5. \A r, b : b \in BOOLEAN => [d EXCEPT !.regs[r] = b] \in Doc
  BY DEF Doc
<1> QED BY <1>1, <1>2, <1>3, <1>4, <1>5

(* What the robot does with a command keeps the types. *)
LEMMA CarriesTypes ==
  ASSUME TypeOK, NEW c \in Command, Carries(c)
  PROVE  robot' \in Doc /\ msgs' \in Seq(Message) /\ acted' \in [Procs -> Nat]
<1>1. /\ robot \in Doc /\ msgs \in Seq(Message) /\ acted \in [Procs -> Nat]
      /\ c.by \in Procs /\ c.op \in Ops
  BY DEF TypeOK, OutsideOK, Command
<1>2. \A m \in Message : Say(m) => msgs' \in Seq(Message)
  BY <1>1, AppendProperties DEF Say
<1>3. /\ State(robot) \in Message /\ Activity(NoOne) \in Message
      /\ Activity(c.op) \in Message
  BY <1>1 DEF State, Activity, Message
<1>4. Ran(robot, c.op) \in Doc
  <2>1. \/ Ran(robot, c.op) = [robot EXCEPT !.status = "clean_cycle"]
        \/ Ran(robot, c.op) = [robot EXCEPT !.empties = @ + 1]
        \/ Ran(robot, c.op) = robot
    BY DEF Ran
  <2> QED BY <1>1, <2>1, DocEdits
<1>5. CASE c.kind = "request"
  BY <1>1, <1>2, <1>3, <1>5 DEF Carries
<1>6. CASE c.kind = "write"
  <2>1. robot' \in Doc
    <3>1. Wanted(c.op) \in BOOLEAN
      BY DEF Wanted
    <3>2. robot' = [robot EXCEPT !.regs[RegAt(c.op, c.item)] = Wanted(c.op)]
      BY <1>6 DEF Carries
    <3> QED BY <1>1, <3>1, <3>2, DocEdits
  <2> QED BY <1>1, <1>2, <1>3, <1>6, <2>1 DEF Carries
<1>7. CASE c.kind = "press"
  <2>1. acted' \in [Procs -> Nat]
    <3>1. \/ acted' = acted
          \/ acted' = [acted EXCEPT ![c.by] = IF c.call = calls[c.by] THEN @ + 1 ELSE @]
      BY <1>7 DEF Carries
    <3> QED BY <1>1, <3>1
  <2> QED BY <1>1, <1>2, <1>3, <1>4, <1>7, <2>1 DEF Carries
<1> QED BY <1>5, <1>6, <1>7 DEF Command

(* The robot and the broker keep the types. *)
LEMMA RobotTypes ==
  ASSUME TypeOK, Robot
  PROVE  TypeOK'
<1> USE DEF lockVars, procVars, eventVars, storeVars, robotVars, witnessVars
<1>1. /\ robot \in Doc /\ msgs \in Seq(Message)
      /\ acted \in [Procs -> Nat] /\ evidence \in [Procs -> {"none", "shown"}]
      /\ cmds \in Seq(Command) /\ events \in Nat
  BY DEF TypeOK, OutsideOK, SentOK
<1>2. External => SuspensionsOK' /\ CallsOK' /\ EventsOK'
  BY Untouched DEF External
<1>3. ASSUME NEW i \in 1 .. Len(cmds), RobotTakes(i)
      PROVE  TypeOK'
  <2>1. cmds[i] \in Command /\ cmds' \in Seq(Command)
    BY <1>1, <1>3, ElementOfSeq, RemoveAtType DEF RobotTakes
  <2>2. robot' \in Doc /\ msgs' \in Seq(Message) /\ acted' \in [Procs -> Nat]
    BY <1>3, <2>1, CarriesTypes DEF RobotTakes
  <2>3. SentOK' /\ OutsideOK'
    BY <1>1, <1>3, <2>1, <2>2 DEF RobotTakes, SentOK, OutsideOK
  <2> QED BY <1>2, <1>3, <2>3 DEF RobotTakes, TypeOK
<1>4. CASE Redelivery
  <2>1. Head(cmds) \in Command
    BY <1>1, <1>4, HeadTailProperties DEF Redelivery
  <2>2. robot' \in Doc /\ msgs' \in Seq(Message) /\ acted' \in [Procs -> Nat]
    BY <1>4, <2>1, CarriesTypes DEF Redelivery
  <2>3. SentOK' /\ OutsideOK'
    BY <1>1, <1>4, <2>2 DEF Redelivery, SentOK, OutsideOK
  <2> QED BY <1>2, <1>4, <2>3 DEF Redelivery, TypeOK
<1>5. CASE RobotDrops
  <2>1. SentOK'
    BY <1>1, <1>5, HeadTailProperties DEF RobotDrops, SentOK
  <2> QED BY <1>2, <1>5, <2>1, Untouched DEF RobotDrops, TypeOK
<1>6. CASE LoseMessage
  <2>1. OutsideOK'
    BY <1>1, <1>6, HeadTailProperties DEF LoseMessage, OutsideOK
  <2> QED BY <1>2, <1>6, <2>1, Untouched DEF LoseMessage, TypeOK
<1>7. \A m \in Message : Say(m) => msgs' \in Seq(Message)
  BY <1>1, AppendProperties DEF Say
<1>8. /\ \A d \in Doc : State(d) \in Message
      /\ Activity(NoOne) \in Message /\ Activity("clean") \in Message
  BY DEF State, Activity, Message, Ops, CallOps, PressOps
<1>9. CASE RobotEvent
  <2>1. robot.level + 1 \in Nat /\ Ran(robot, "clean") \in Doc
    BY <1>1, DocEdits DEF Doc, Ran
  <2>2. robot' \in Doc
    <3>1. CASE PanelClean \/ AutoCycle
      BY <1>1, <2>1, <3>1 DEF PanelClean, AutoCycle
    <3>2. CASE PanelLock
      <4>1. PICK b \in BOOLEAN : robot' = [robot EXCEPT !.regs[Lockout] = b]
        BY <3>2 DEF PanelLock
      <4> QED BY <1>1, <3>2, <4>1, DocEdits DEF PanelLock
    <3>3. CASE Refill
      BY <1>1, <2>1, <3>3, DocEdits DEF Refill
    <3>4. CASE Telemetry \/ Announce
      BY <1>1, <3>4 DEF Telemetry, Announce
    <3> QED BY <1>9, <3>1, <3>2, <3>3, <3>4 DEF RobotEvent
  <2>3. msgs' \in Seq(Message)
    BY <1>1, <1>7, <1>8, <1>9, <2>2
    DEF RobotEvent, PanelClean, PanelLock, AutoCycle, Refill, Telemetry, Announce
  <2>4. SentOK' /\ OutsideOK'
    BY <1>1, <1>9, <2>2, <2>3 DEF RobotEvent, SentOK, OutsideOK
  <2> QED BY <1>2, <1>9, <2>4 DEF RobotEvent, TypeOK
<1>10. CASE CycleEnds
  <2>1. robot' \in Doc
    BY <1>1, <1>10, DocEdits DEF CycleEnds
  <2>2. OutsideOK'
    BY <1>1, <1>7, <1>8, <1>10, <2>1 DEF CycleEnds, OutsideOK
  <2> QED BY <1>2, <1>10, <2>2, Untouched DEF CycleEnds, TypeOK
<1> QED BY <1>3, <1>4, <1>5, <1>6, <1>9, <1>10 DEF Robot

(* The loaded entry has the types. *)
LEMMA TypeInit == Init => TypeOK
<1> SUFFICES ASSUME Init PROVE TypeOK
  OBVIOUS
<1>1. robot \in Doc
  BY CoordinatorAssumption DEF Init, Doc, Regs
<1>2. doc \in Doc
  BY <1>1 DEF Init
<1>3. SuspensionsOK
  BY DEF Init, SuspensionsOK, Points, Outcomes, Frame, NoFrame
<1>4. CallsOK
  BY DEF Init, CallsOK, Ops
<1>5. EventsOK
  BY <1>2 DEF Init, EventsOK
<1>6. SentOK
  BY DEF Init, SentOK
<1>7. OutsideOK
  BY <1>1 DEF Init, OutsideOK
<1> QED BY <1>3, <1>4, <1>5, <1>6, <1>7 DEF TypeOK

(* Every step keeps the types. *)
LEMMA TypeNext ==
  ASSUME TypeOK, [Next]_vars
  PROVE  TypeOK'
<1>1. ASSUME NEW p \in Callers, NEW o \in OpsOf[p], Call(p, o)
      PROVE  TypeOK'
  BY <1>1, CallTypes
<1>2. ASSUME NEW p \in Callers, Transaction(p)
      PROVE  TypeOK'
  BY <1>2, UpdateTypes, WriteTypes, PressTypes DEF Transaction, Procs
<1>3. ASSUME NEW r \in Refreshers, Task(r)
      PROVE  TypeOK'
  BY <1>3, TaskTypes, PressTypes DEF Task, Procs
<1>4. CASE UNCHANGED vars
  BY <1>4, Untouched
  DEF TypeOK, vars, lockVars, procVars, eventVars, storeVars, robotVars, witnessVars
<1> QED BY <1>1, <1>2, <1>3, <1>4, DeliverTypes, UnloadTypes, RobotTypes DEF Next

(* Every variable keeps its type, whatever the bounds: each process stays  *)
(* at one of the suspension points of the transactions of the coordinator. *)
THEOREM TypeCorrect == Spec => []TypeOK
BY TypeInit, TypeNext, PTL DEF Spec

-----------------------------------------------------------------------------
(* Turns: the transactions implement Lease.                                *)

(* The phase of a process follows the point it is suspended at. *)
LEMMA PhaseMoves ==
  ASSUME TypeOK, NEW p \in Procs, NEW where \in Points, pc' = [pc EXCEPT ![p] = where]
  PROVE  /\ Phase' = [Phase EXCEPT ![p] = IF where = "queued" THEN "waiting"
                                          ELSE IF where \in HoldsLock THEN "inside" ELSE "outside"]
         /\ Phase[p] = IF pc[p] = "queued" THEN "waiting"
                       ELSE IF pc[p] \in HoldsLock THEN "inside" ELSE "outside"
BY DEF TypeOK, SuspensionsOK, Phase

(* A transaction that suspends in its first step takes its turn. *)
LEMMA EnterMaps ==
  ASSUME TypeOK, NEW p \in Procs, NEW where \in HoldsLock, NEW f,
         Granted(p), Take, Suspend(p, where, f)
  PROVE  Turns!Next
<1>1. where \in Points /\ where # "queued"
  BY DEF HoldsLock, Points
<1>2. pc' = [pc EXCEPT ![p] = where] /\ holder' = p /\ pc[p] = "queued"
  BY DEF Suspend, Granted
<1>3. Phase' = [Phase EXCEPT ![p] = "inside"] /\ Phase[p] = "waiting"
  BY <1>1, <1>2, PhaseMoves
<1>4. Turns!Enter(p)
  BY <1>2, <1>3 DEF Turns!Enter, Turns!First, Granted, Take
<1> QED BY <1>4 DEF Turns!Next

(* One that is over in its first step passes its turn on. *)
LEMMA PassMaps ==
  ASSUME TypeOK, NEW p \in Procs, NEW result, Granted(p), Take, Return(p, result)
  PROVE  Turns!Next
<1>1. pc' = [pc EXCEPT ![p] = "idle"] /\ holder' = holder /\ pc[p] = "queued"
  BY DEF Return, Granted
<1>2. Phase' = [Phase EXCEPT ![p] = "outside"] /\ Phase[p] = "waiting"
  BY <1>1, PhaseMoves DEF Points, HoldsLock
<1>3. Turns!Pass(p)
  BY <1>1, <1>2 DEF Turns!Pass, Turns!First, Granted, Take
<1> QED BY <1>3 DEF Turns!Next

(* A suspension inside a turn changes nothing the others can see. *)
LEMMA StayMaps ==
  ASSUME TypeOK, LockDiscipline, NEW p \in Procs, NEW where \in HoldsLock, NEW f,
         pc[p] \in HoldsLock, Suspend(p, where, f), UNCHANGED waiters
  PROVE  UNCHANGED Turns!vars
<1>1. where \in Points /\ where # "queued" /\ pc[p] # "queued" /\ holder = p
  BY DEF HoldsLock, Points, LockDiscipline
<1>2. pc' = [pc EXCEPT ![p] = where] /\ holder' = p
  BY DEF Suspend
<1>3. Phase' = [Phase EXCEPT ![p] = "inside"] /\ Phase[p] = "inside"
  BY <1>1, <1>2, PhaseMoves
<1>4. Phase' = Phase
  BY <1>3 DEF Phase
<1> QED BY <1>1, <1>2, <1>4 DEF Turns!vars

(* A return from inside gives the turn up. *)
LEMMA LeaveMaps ==
  ASSUME TypeOK, NEW p \in Procs, NEW result,
         pc[p] \in HoldsLock, Return(p, result), UNCHANGED waiters
  PROVE  Turns!Next
<1>1. pc' = [pc EXCEPT ![p] = "idle"] /\ holder' = NoOne /\ pc[p] # "queued"
  BY DEF Return, HoldsLock
<1>2. Phase' = [Phase EXCEPT ![p] = "outside"] /\ Phase[p] = "inside"
  BY <1>1, PhaseMoves DEF Points, HoldsLock
<1>3. Turns!Leave(p)
  BY <1>1, <1>2 DEF Turns!Leave
<1> QED BY <1>3 DEF Turns!Next

(* A call, and a task that starts, ask for a turn. *)
LEMMA AskMaps ==
  ASSUME TypeOK, NEW p \in Procs, pc[p] \in {"idle", "created"},
         pc' = [pc EXCEPT ![p] = "queued"], waiters' = Append(waiters, p), UNCHANGED holder
  PROVE  Turns!Next
<1>1. Phase' = [Phase EXCEPT ![p] = "waiting"] /\ Phase[p] = "outside"
  BY PhaseMoves DEF Points, HoldsLock
<1>2. Turns!Ask(p)
  BY <1>1 DEF Turns!Ask
<1> QED BY <1>2 DEF Turns!Next

(* A step that keeps every process's point and the lock is no step of Lease. *)
LEMMA IdleMaps ==
  ASSUME UNCHANGED <<holder, waiters, pc>>
  PROVE  UNCHANGED Turns!vars
BY DEF Turns!vars, Phase

(* A task that is created, or cancelled before it starts, has no turn to give up. *)
LEMMA OutsideMaps ==
  ASSUME TypeOK, NEW p \in Procs, pc[p] \in {"idle", "created"}, NEW where \in {"idle", "created"},
         pc' = [pc EXCEPT ![p] = where], UNCHANGED <<holder, waiters>>
  PROVE  UNCHANGED Turns!vars
<1>1. Phase' = [Phase EXCEPT ![p] = "outside"] /\ Phase[p] = "outside"
  BY PhaseMoves DEF Points, HoldsLock
<1>2. Phase' = Phase
  BY <1>1 DEF Phase
<1> QED BY <1>2 DEF Turns!vars

(* The steps of a transaction map to steps of Lease or to none. *)
LEMMA TransactionMaps ==
  ASSUME TypeOK, LockDiscipline, NEW p \in Procs, Transaction(p) \/ SendRefresh(p)
  PROVE  [Turns!Next]_(Turns!vars)
<1> USE DEF lockVars
<1>1. {"reply", "send", "verify", "echo", "courtesy", "confirm", "sent"} = HoldsLock
  BY DEF HoldsLock
<1> DEFINE Begins(w, f) == Granted(p) /\ Take /\ Suspend(p, w, f)
           Passes(r)    == Granted(p) /\ Take /\ Return(p, r)
           Stays(w, f)  == pc[p] \in HoldsLock /\ Suspend(p, w, f) /\ UNCHANGED waiters
           Leaves(r)    == pc[p] \in HoldsLock /\ Return(p, r) /\ UNCHANGED waiters
           Maps == \/ \E w \in HoldsLock : \E f \in {frame[p], At(1, 2), At(frame[p].attempt + 1, 2),
                                                     At(frame[p].attempt, frame[p].item + 1)} :
                        Begins(w, f) \/ Stays(w, f)
                   \/ \E r \in Outcomes : Passes(r) \/ Leaves(r)
                   \/ UNCHANGED <<holder, waiters, pc>>
<1>2. Maps => [Turns!Next]_(Turns!vars)
  BY EnterMaps, PassMaps, StayMaps, LeaveMaps, IdleMaps
<1>3. CASE BeginUpdate(p) \/ BeginWrite(p) \/ BeginWifi(p) \/ BeginPress(p)
  <2>1. BeginUpdate(p) => Maps
    BY <1>1 DEF BeginUpdate, Outcomes
  <2>2. BeginWrite(p) => Maps
    BY <1>1 DEF BeginWrite, Outcomes
  <2>3. BeginWifi(p) => Maps
    BY <1>1 DEF BeginWifi, Outcomes
  <2>4. BeginPress(p) => Maps
    BY <1>1 DEF BeginPress, Outcomes
  <2> QED BY <1>2, <1>3, <2>1, <2>2, <2>3, <2>4
<1>4. CASE UpdateReply(p) \/ UpdateTimeout(p) \/ ConfirmDoc(p) \/ ConfirmTimeout(p) \/ Finish(p)
  <2>1. Maps
    BY <1>1, <1>4 DEF UpdateReply, UpdateTimeout, ConfirmDoc, ConfirmTimeout, Finish, Outcomes
  <2> QED BY <1>2, <2>1
<1>5. CASE SendNext(p) \/ VerifyDoc(p) \/ VerifyTimeout(p)
  <2>1. SendNext(p) => Maps
    BY <1>1 DEF SendNext, Outcomes
  <2>2. VerifyDoc(p) => Maps
    BY <1>1 DEF VerifyDoc, Outcomes
  <2>3. VerifyTimeout(p) => Maps
    BY <1>1 DEF VerifyTimeout, Outcomes
  <2> QED BY <1>2, <1>5, <2>1, <2>2, <2>3
<1>6. CASE EchoSeen(p) \/ Courtesy(p) \/ EchoTimeout(p)
  <2>1. EchoSeen(p) => Maps
    BY <1>1 DEF EchoSeen, Outcomes
  <2>2. Courtesy(p) => Maps
    BY <1>1 DEF Courtesy, Outcomes
  <2>3. EchoTimeout(p) => Maps
    BY <1>1 DEF EchoTimeout, Outcomes
  <2> QED BY <1>2, <1>6, <2>1, <2>2, <2>3
<1>7. CASE SendRefresh(p)
  <2>1. Maps
    BY <1>1, <1>7 DEF SendRefresh, Outcomes
  <2> QED BY <1>2, <2>1
<1> QED BY <1>3, <1>4, <1>5, <1>6, <1>7 DEF Transaction

(* A refresh task asks for its turn when it starts; a cancelled one that   *)
(* queues or publishes gives its place or its turn up.                     *)
LEMMA TaskMaps ==
  ASSUME TypeOK, LockDiscipline, NEW r \in Refreshers, Task(r)
  PROVE  [Turns!Next]_(Turns!vars)
<1>1. r \in Procs
  BY DEF Procs
<1>2. CASE StartRefresh(r)
  BY <1>1, <1>2, AskMaps DEF StartRefresh
<1>3. CASE SendRefresh(r)
  BY <1>1, <1>3, TransactionMaps
<1>4. CASE Finish(r)
  BY <1>1, <1>4, TransactionMaps DEF Transaction
<1>5. CASE CancelTask(r)
  <2>1. pc' = [pc EXCEPT ![r] = "idle"]
    BY <1>5 DEF CancelTask
  <2>2. Phase' = [Phase EXCEPT ![r] = "outside"]
    BY <1>1, <2>1, PhaseMoves DEF Points, HoldsLock
  <2>3. CASE pc[r] = "queued"
    <3>1. Phase[r] = "waiting" /\ UNCHANGED holder
      BY <1>1, <1>5, <2>1, <2>3, PhaseMoves DEF CancelTask, Points
    <3>2. PICK i \in 1 .. Len(waiters) : waiters[i] = r /\ waiters' = RemoveAt(waiters, i)
      BY <1>5, <2>3 DEF CancelTask
    <3>3. Turns!GiveUp(r)
      BY <2>2, <3>1, <3>2, SameRemoveAt DEF Turns!GiveUp
    <3> QED BY <1>1, <3>3 DEF Turns!Next
  <2>4. CASE pc[r] = "sent"
    <3>1. Phase[r] = "inside"
      BY <1>1, <2>1, <2>4, PhaseMoves DEF Points, HoldsLock
    <3>2. Turns!Leave(r)
      BY <1>5, <2>2, <2>4, <3>1 DEF Turns!Leave, CancelTask
    <3> QED BY <1>1, <3>2 DEF Turns!Next
  <2>5. CASE pc[r] = "created"
    BY <1>1, <1>5, <2>5, OutsideMaps DEF CancelTask
  <2> QED BY <1>5, <2>3, <2>4, <2>5 DEF CancelTask
<1> QED BY <1>2, <1>3, <1>4, <1>5 DEF Task

(* Decoding a message takes no turn: at most it creates a refresh task. *)
LEMMA DeliverMaps ==
  ASSUME TypeOK, Deliver
  PROVE  UNCHANGED Turns!vars
<1>1. UNCHANGED <<holder, waiters>>
  BY DEF Deliver, lockVars
<1>2. CASE UNCHANGED pc
  BY <1>1, <1>2, IdleMaps
<1>3. CASE \E r \in Refreshers : pc[r] = "idle" /\ pc' = [pc EXCEPT ![r] = "created"]
  BY <1>1, <1>3, OutsideMaps DEF Procs
<1> QED BY <1>2, <1>3 DEF Deliver, Handled, DecodeState, DecodeActivity, ScheduleRefresh

(* Every step of the coordinator and of the outside is a step of Lease or none. *)
LEMMA StepMaps ==
  ASSUME TypeOK, LockDiscipline, [Next]_vars
  PROVE  [Turns!Next]_(Turns!vars)
<1>1. ASSUME NEW p \in Callers, NEW o \in OpsOf[p], Call(p, o)
      PROVE  [Turns!Next]_(Turns!vars)
  BY <1>1, AskMaps DEF Call, Procs
<1>2. ASSUME NEW p \in Callers, Transaction(p)
      PROVE  [Turns!Next]_(Turns!vars)
  BY <1>2, TransactionMaps DEF Procs
<1>3. CASE ThrottleElapses \/ Unload
  BY <1>3, IdleMaps DEF ThrottleElapses, Unload, BeginUnload, BeginShutdown, EndShutdown,
                        Unsubscribe, EntryStep, lockVars, procVars
<1>4. CASE Robot
  BY <1>4, IdleMaps DEF Robot, RobotTakes, Redelivery, RobotDrops, LoseMessage, RobotEvent,
                        CycleEnds, External, lockVars, procVars
<1>5. CASE UNCHANGED vars
  BY <1>5, IdleMaps DEF vars, lockVars, procVars
<1> QED BY <1>1, <1>2, <1>3, <1>4, <1>5, TaskMaps, DeliverMaps DEF Next

-----------------------------------------------------------------------------
(* What Lease promises, of the lock's holder and queue. *)

(* A newcomer joins the end of the queue. *)
LEMMA AskAgrees ==
  ASSUME NoOne \notin Procs, Turns!TypeOK, Turns!Agreement, NEW p \in Procs,
         Turns!Ask(p)
  PROVE  Turns!TypeOK' /\ Turns!Agreement'
<1>1. /\ waiters' \in Seq(Procs) /\ Len(waiters') = Len(waiters) + 1 /\ Len(waiters) \in Nat
      /\ waiters'[Len(waiters) + 1] = p
      /\ \A i \in 1 .. Len(waiters) : waiters'[i] = waiters[i]
  BY AppendProperties, LenProperties DEF Turns!TypeOK, Turns!Ask
<1>2. Turns!TypeOK'
  BY <1>1 DEF Turns!TypeOK, Turns!Ask
<1>3. \A q \in Procs : Phase'[q] = IF q = p THEN "waiting" ELSE Phase[q]
  BY DEF Turns!TypeOK, Turns!Ask
<1>4. \A i \in 1 .. Len(waiters) : waiters[i] # p
  BY DEF Turns!Agreement, Turns!Ask
<1>5. \A q \in Procs : Phase'[q] = "inside" <=> holder' = q
  BY <1>3 DEF Turns!Agreement, Turns!Ask
<1>6. \A q \in Procs : Phase'[q] = "waiting" <=> \E i \in 1 .. Len(waiters') : waiters'[i] = q
  <2>1. 1 .. Len(waiters') = (1 .. Len(waiters)) \cup {Len(waiters) + 1}
    BY <1>1
  <2> QED BY <1>1, <1>3, <2>1 DEF Turns!Agreement
<1>7. \A i, j \in 1 .. Len(waiters') : waiters'[i] = waiters'[j] => i = j
  <2>1. \A i \in 1 .. Len(waiters') : i \in 1 .. Len(waiters) \/ i = Len(waiters) + 1
    BY <1>1
  <2> QED BY <1>1, <1>4, <2>1 DEF Turns!Agreement
<1> QED BY <1>2, <1>5, <1>6, <1>7 DEF Turns!Agreement

(* The first in the queue leaves it, to have its turn or to have had it. *)
LEMMA TurnAgrees ==
  ASSUME NoOne \notin Procs, Turns!TypeOK, Turns!Agreement, NEW p \in Procs,
         Turns!Enter(p) \/ Turns!Pass(p)
  PROVE  Turns!TypeOK' /\ Turns!Agreement'
<1>1. /\ Len(waiters) \in Nat /\ Len(waiters) >= 1 /\ waiters[1] = p
      /\ waiters' \in Seq(Procs) /\ Len(waiters') = Len(waiters) - 1
      /\ \A i \in 1 .. Len(waiters) - 1 : waiters'[i] = waiters[i + 1]
  BY HeadTailProperties, LenProperties, EmptySeq
  DEF Turns!TypeOK, Turns!Enter, Turns!Pass, Turns!First
<1>2. Turns!TypeOK'
  BY <1>1 DEF Turns!TypeOK, Turns!Enter, Turns!Pass
<1>3. /\ \A q \in Procs \ {p} : Phase'[q] = Phase[q]
      /\ Phase'[p] \in {"inside", "outside"} /\ (Phase'[p] = "inside" <=> holder' = p)
      /\ holder = NoOne /\ holder' \in {NoOne, p}
  BY DEF Turns!TypeOK, Turns!Enter, Turns!Pass, Turns!First
<1>4. \A i \in 1 .. Len(waiters) - 1 : waiters[i + 1] # p
  BY <1>1 DEF Turns!Agreement
<1>5. \A q \in Procs : Phase'[q] = "inside" <=> holder' = q
  BY <1>3 DEF Turns!Agreement
<1>6. ASSUME NEW q \in Procs
      PROVE  Phase'[q] = "waiting" <=> \E i \in 1 .. Len(waiters') : waiters'[i] = q
  <2>1. CASE q = p
    BY <1>1, <1>3, <1>4, <2>1
  <2>2. ASSUME q # p, NEW i \in 1 .. Len(waiters), waiters[i] = q
        PROVE  \E k \in 1 .. Len(waiters') : waiters'[k] = q
    <3>1. i - 1 \in 1 .. Len(waiters') /\ waiters'[i - 1] = waiters[(i - 1) + 1] /\ (i - 1) + 1 = i
      BY <1>1, <2>2
    <3> QED BY <2>2, <3>1
  <2>3. ASSUME q # p, NEW i \in 1 .. Len(waiters'), waiters'[i] = q
        PROVE  \E k \in 1 .. Len(waiters) : waiters[k] = q
    BY <1>1, <2>3
  <2> QED BY <1>3, <2>1, <2>2, <2>3 DEF Turns!Agreement
<1>7. ASSUME NEW i \in 1 .. Len(waiters'), NEW j \in 1 .. Len(waiters'), waiters'[i] = waiters'[j]
      PROVE  i = j
  <2>1. i + 1 \in 1 .. Len(waiters) /\ j + 1 \in 1 .. Len(waiters) /\ waiters[i + 1] = waiters[j + 1]
    BY <1>1, <1>7
  <2>2. i + 1 = j + 1
    BY <2>1 DEF Turns!Agreement
  <2> QED BY <1>1, <2>2
<1> QED BY <1>2, <1>5, <1>6, <1>7 DEF Turns!Agreement

(* The owner gives its turn up; the queue stands. *)
LEMMA LeaveAgrees ==
  ASSUME NoOne \notin Procs, Turns!TypeOK, Turns!Agreement, NEW p \in Procs,
         Turns!Leave(p)
  PROVE  Turns!TypeOK' /\ Turns!Agreement'
<1>1. Turns!TypeOK'
  BY DEF Turns!TypeOK, Turns!Leave
<1>2. \A q \in Procs : Phase'[q] = IF q = p THEN "outside" ELSE Phase[q]
  BY DEF Turns!TypeOK, Turns!Leave
<1>3. holder = p /\ Phase[p] = "inside"
  BY DEF Turns!Agreement, Turns!Leave
<1>4. \A q \in Procs : Phase'[q] = "inside" <=> holder' = q
  BY <1>2, <1>3 DEF Turns!Agreement, Turns!Leave
<1>5. \A q \in Procs : Phase'[q] = "waiting" <=> Phase[q] = "waiting"
  BY <1>2, <1>3
<1> QED BY <1>1, <1>4, <1>5 DEF Turns!Agreement, Turns!Leave

(* A cancelled process leaves the queue wherever it stands in it. *)
LEMMA GiveUpAgrees ==
  ASSUME NoOne \notin Procs, Turns!TypeOK, Turns!Agreement, NEW p \in Procs,
         Turns!GiveUp(p)
  PROVE  Turns!TypeOK' /\ Turns!Agreement'
<1>1. PICK n \in 1 .. Len(waiters) : waiters[n] = p /\ waiters' = RemoveAt(waiters, n)
  BY SameRemoveAt DEF Turns!GiveUp
<1>2. /\ Len(waiters) \in Nat /\ waiters' \in Seq(Procs) /\ Len(waiters') = Len(waiters) - 1
      /\ \A k \in 1 .. Len(waiters) - 1 : waiters'[k] = IF k < n THEN waiters[k] ELSE waiters[k + 1]
  BY <1>1, RemoveAtType, LenProperties DEF Turns!TypeOK
<1>3. Turns!TypeOK'
  BY <1>2 DEF Turns!TypeOK, Turns!GiveUp
<1>4. \A q \in Procs : Phase'[q] = IF q = p THEN "outside" ELSE Phase[q]
  BY DEF Turns!TypeOK, Turns!GiveUp
<1>5. \A q \in Procs : Phase'[q] = "inside" <=> holder' = q
  BY <1>4 DEF Turns!Agreement, Turns!GiveUp
<1> DEFINE old(k) == IF k < n THEN k ELSE k + 1
<1>6. \A k \in 1 .. Len(waiters') :
         /\ old(k) \in 1 .. Len(waiters) /\ old(k) # n /\ waiters'[k] = waiters[old(k)]
  BY <1>2
<1>7. \A i \in 1 .. Len(waiters) : i # n => \E k \in 1 .. Len(waiters') : old(k) = i
  <2> SUFFICES ASSUME NEW i \in 1 .. Len(waiters), i # n
               PROVE  \E k \in 1 .. Len(waiters') : old(k) = i
    OBVIOUS
  <2>1. CASE i < n
    BY <1>1, <1>2, <2>1
  <2>2. CASE i > n
    <3>1. i - 1 \in 1 .. Len(waiters') /\ old(i - 1) = i
      BY <1>1, <1>2, <2>2
    <3> QED BY <3>1
  <2> QED BY <1>1, <1>2, <2>1, <2>2
<1>8. \A i \in 1 .. Len(waiters) : waiters[i] = p <=> i = n
  BY <1>1 DEF Turns!Agreement
<1>9. \A i, j \in 1 .. Len(waiters') : old(i) = old(j) => i = j
  BY <1>1, <1>2
<1> HIDE DEF old
<1>10. ASSUME NEW q \in Procs
       PROVE  Phase'[q] = "waiting" <=> \E i \in 1 .. Len(waiters') : waiters'[i] = q
  <2>1. CASE q = p
    BY <1>4, <1>6, <1>8, <2>1
  <2>2. CASE q # p
    <3>1. Phase'[q] = "waiting" <=> \E i \in 1 .. Len(waiters) : waiters[i] = q
      BY <1>4, <2>2 DEF Turns!Agreement
    <3>2. (\E i \in 1 .. Len(waiters') : waiters'[i] = q) => \E i \in 1 .. Len(waiters) : waiters[i] = q
      BY <1>6
    <3>3. (\E i \in 1 .. Len(waiters) : waiters[i] = q) => \E i \in 1 .. Len(waiters') : waiters'[i] = q
      BY <1>6, <1>7, <1>8, <2>2
    <3> QED BY <3>1, <3>2, <3>3
  <2> QED BY <2>1, <2>2
<1>11. \A i, j \in 1 .. Len(waiters') : waiters'[i] = waiters'[j] => i = j
  BY <1>6, <1>9 DEF Turns!Agreement
<1> QED BY <1>3, <1>5, <1>10, <1>11 DEF Turns!Agreement

(* At first nobody has asked. *)
LEMMA InitAgrees ==
  ASSUME NoOne \notin Procs, Turns!Init
  PROVE  Turns!TypeOK /\ Turns!Agreement
BY EmptySeq DEF Turns!Init, Turns!TypeOK, Turns!Agreement

(* Every step keeps the owner and the queue in agreement with the phases. *)
LEMMA NextAgrees ==
  ASSUME NoOne \notin Procs, Turns!TypeOK, Turns!Agreement, [Turns!Next]_(Turns!vars)
  PROVE  Turns!TypeOK' /\ Turns!Agreement'
<1>1. CASE UNCHANGED Turns!vars
  BY <1>1 DEF Turns!vars, Turns!TypeOK, Turns!Agreement
<1>2. CASE Turns!Next
  BY <1>2, AskAgrees, TurnAgrees, LeaveAgrees, GiveUpAgrees DEF Turns!Next
<1> QED BY <1>1, <1>2

(* Turns are exclusive and the queue is honest, whoever takes part. *)
THEOREM TurnsAgree == Turns!Spec => [](Turns!TypeOK /\ Turns!Agreement)
<1>0. NoOne \notin Procs
  BY CoordinatorAssumption DEF Procs
<1>1. Turns!Init => Turns!TypeOK /\ Turns!Agreement
  BY <1>0, InitAgrees
<1>2. /\ Turns!TypeOK /\ Turns!Agreement /\ [Turns!Next]_(Turns!vars)
      => Turns!TypeOK' /\ Turns!Agreement'
  BY <1>0, NextAgrees
<1> QED BY <1>1, <1>2, PTL DEF Turns!Spec

-----------------------------------------------------------------------------
(* LockDiscipline is Lease's agreement, seen through the suspension points. *)
LEMMA DisciplineIsAgreement ==
  ASSUME TypeOK
  PROVE  Turns!TypeOK /\ (LockDiscipline <=> Turns!Agreement)
<1>1. \A p \in Procs : /\ Phase[p] = "inside" <=> pc[p] \in HoldsLock
                       /\ Phase[p] = "waiting" <=> pc[p] = "queued"
                       /\ Phase[p] \in {"outside", "waiting", "inside"}
  BY DEF Phase, HoldsLock
<1>2. Turns!TypeOK
  BY <1>1 DEF TypeOK, SuspensionsOK, CallsOK, Turns!TypeOK, Phase
<1>3. LockDiscipline <=> Turns!Agreement
  BY <1>1 DEF LockDiscipline, Turns!Agreement
<1> QED BY <1>2, <1>3

(* The loaded entry starts with nobody at the lock. *)
LEMMA InitMaps == Init => Turns!Init
BY DEF Init, Turns!Init, Phase, HoldsLock

(* What holds in every state: the types, and the agreement of lock and points. *)
LEMMA Agreed == Spec => [](TypeOK /\ Turns!Agreement)
<1>1. NoOne \notin Procs
  BY CoordinatorAssumption DEF Procs
<1>2. Init => TypeOK /\ Turns!Agreement
  BY <1>1, TypeInit, InitMaps, InitAgrees
<1>3. ASSUME TypeOK, Turns!Agreement, [Next]_vars
      PROVE  TypeOK' /\ Turns!Agreement'
  <2>1. TypeOK'
    BY <1>3, TypeNext
  <2>2. [Turns!Next]_(Turns!vars) /\ Turns!TypeOK
    BY <1>3, DisciplineIsAgreement, StepMaps
  <2>3. Turns!Agreement'
    BY <1>1, <1>3, <2>2, NextAgrees
  <2> QED BY <2>1, <2>3
<1>4. TypeOK /\ Turns!Agreement /\ [Next]_vars => TypeOK' /\ Turns!Agreement'
  BY <1>3
<1> QED BY <1>2, <1>4, PTL DEF Spec

(* The lock is held exactly by the one process suspended inside it, and    *)
(* its queue holds exactly the processes suspended in acquire, each once.  *)
THEOREM LockIsDisciplined == Spec => []LockDiscipline
<1>1. TypeOK /\ Turns!Agreement => LockDiscipline
  BY DisciplineIsAgreement
<1> QED BY <1>1, Agreed, PTL

(* The coordinator implements Lease: turns at the robot are exclusive and  *)
(* are taken in the order they were asked for.                             *)
THEOREM CoordinatorTakesTurns == Spec => TakesTurns
<1>1. TypeOK /\ Turns!Agreement /\ [Next]_vars => [Turns!Next]_(Turns!vars)
  BY DisciplineIsAgreement, StepMaps
<1> QED BY <1>1, Agreed, InitMaps, PTL DEF Spec, TakesTurns, Turns!Spec

-----------------------------------------------------------------------------
(* What every reachable state has: the types and the discipline of the lock. *)
Sound == TypeOK /\ LockDiscipline

(* The types and the discipline of the lock hold in every state. *)
LEMMA Soundness == Spec => []Sound
BY TypeCorrect, LockIsDisciplined, PTL DEF Sound

(* Nobody is not a process, and a task is not a platform. *)
LEMMA NoOneIsNoProcess == NoOne \notin Procs /\ Callers \cap Refreshers = {}
BY CoordinatorAssumption DEF Procs

-----------------------------------------------------------------------------
(* Publishing. *)

(* A publish that adds to the channel adds its own command. *)
LEMMA NewestPublished ==
  ASSUME TypeOK, NEW c \in Command, Publish(c), Published
  PROVE  Newest = c
<1>1. cmds \in Seq(Command) /\ cmds' = Append(cmds, c)
  BY DEF TypeOK, SentOK, Publish, Published
<1> QED BY <1>1, AppendProperties DEF Newest

(* What a transaction publishes is its own, inside its turn, and a press   *)
(* only with the panel unlocked.                                           *)
LEMMA TransactionPublishes ==
  ASSUME TypeOK, NEW p \in Procs, Transaction(p) \/ SendRefresh(p), Published
  PROVE  /\ Newest.by = p
         /\ Granted(p) \/ pc[p] \in HoldsLock
         /\ Newest.kind = "press" => ~doc.regs[Lockout]
<1>1. cmds' # cmds
  BY DEF Published
<1>2. /\ Granted(p) \/ pc[p] \in HoldsLock
      /\ \/ \E c \in {Request(p), Write(p, 1), Write(p, frame[p].item)} : Publish(c)
         \/ Publish(Press(p)) /\ ~doc.regs[Lockout]
  <2>1. CASE BeginUpdate(p) \/ BeginWrite(p) \/ SendRefresh(p)
    BY <1>1, <2>1 DEF BeginUpdate, BeginWrite, SendRefresh, PublishRaises
  <2>2. CASE BeginPress(p) \/ BeginWifi(p)
    BY <1>1, <2>2 DEF BeginPress, BeginWifi, PublishRaises, PanelLocked
  <2>3. CASE SendNext(p) \/ VerifyTimeout(p) \/ Courtesy(p) \/ EchoTimeout(p)
    BY <1>1, <2>3 DEF SendNext, VerifyTimeout, Courtesy, EchoTimeout, PublishRaises, HoldsLock
  <2>4. CASE \/ UpdateReply(p) \/ UpdateTimeout(p) \/ VerifyDoc(p) \/ EchoSeen(p)
             \/ ConfirmDoc(p) \/ ConfirmTimeout(p) \/ Finish(p)
    BY <1>1, <2>4 DEF UpdateReply, UpdateTimeout, VerifyDoc, EchoSeen, ConfirmDoc, ConfirmTimeout, Finish
  <2> QED BY <2>1, <2>2, <2>3, <2>4 DEF Transaction
<1>3. /\ Request(p) \in Command /\ Write(p, 1) \in Command /\ Write(p, frame[p].item) \in Command
      /\ Press(p) \in Command
  BY LocalTypes
<1>4. \/ Newest \in {Request(p), Write(p, 1), Write(p, frame[p].item)}
      \/ Newest = Press(p) /\ ~doc.regs[Lockout]
  BY <1>2, <1>3, NewestPublished
<1> QED BY <1>2, <1>4 DEF Request, Write, Press

(* Nobody else publishes: the other steps leave the channel or shorten it. *)
LEMMA OnlyTransactionsPublish ==
  ASSUME TypeOK, [Next]_vars, Published
  PROVE  \E p \in Procs : Transaction(p) \/ SendRefresh(p)
<1> USE DEF lockVars, procVars, eventVars, storeVars, robotVars, witnessVars
<1>1. cmds \in Seq(Command) /\ cmds' # cmds
  BY DEF TypeOK, SentOK, Published
<1>2. ASSUME NEW p \in Callers, \/ \E o \in OpsOf[p] : Call(p, o)
                                \/ Transaction(p)
      PROVE  \E q \in Procs : Transaction(q) \/ SendRefresh(q)
  BY <1>1, <1>2 DEF Call, Procs
<1>3. ASSUME NEW r \in Refreshers, Task(r)
      PROVE  \E q \in Procs : Transaction(q) \/ SendRefresh(q)
  BY <1>1, <1>3 DEF Task, StartRefresh, Finish, CancelTask, Procs
<1>4. ~(Deliver \/ ThrottleElapses \/ UNCHANGED vars)
  BY <1>1 DEF Deliver, ThrottleElapses, vars
<1>5. ~Unload
  BY <1>1 DEF Unload, BeginUnload, BeginShutdown, EndShutdown, Unsubscribe, EntryStep
<1>6. ASSUME Robot PROVE FALSE
  <2>1. ASSUME NEW i \in 1 .. Len(cmds), cmds' = RemoveAt(cmds, i)
        PROVE  FALSE
    BY <1>1, <2>1, LenProperties, RemoveAtType DEF Published
  <2>2. ASSUME cmds # <<>>, cmds' = Tail(cmds)
        PROVE  FALSE
    BY <1>1, <2>2, HeadTailProperties, LenProperties DEF Published
  <2> QED BY <1>1, <1>6, <2>1, <2>2
      DEF Robot, RobotTakes, Redelivery, RobotDrops, LoseMessage, RobotEvent, CycleEnds
<1> QED BY <1>2, <1>3, <1>4, <1>5, <1>6 DEF Next

(* Nothing is published inside somebody else's transaction: not a refresh, *)
(* a heartbeat or another platform's command in the pauses of a batch.     *)
THEOREM PublishingIsExclusive == Spec => ExclusivePublishing
<1>1. ASSUME Sound, [Next]_vars, Published
      PROVE  /\ holder \in {NoOne, Newest.by}
             /\ \A p \in Procs \ {Newest.by} : pc[p] \notin HoldsLock
  <2>1. PICK p \in Procs : Transaction(p) \/ SendRefresh(p)
    BY <1>1, OnlyTransactionsPublish DEF Sound
  <2>2. Newest.by = p /\ (Granted(p) \/ pc[p] \in HoldsLock)
    BY <1>1, <2>1, TransactionPublishes DEF Sound
  <2> QED BY <1>1, <2>2, NoOneIsNoProcess DEF Sound, LockDiscipline, Granted
<1>2. Sound /\ [Next]_vars =>
        [Published => /\ holder \in {NoOne, Newest.by}
                      /\ \A p \in Procs \ {Newest.by} : pc[p] \notin HoldsLock]_vars
  BY <1>1
<1> QED BY <1>2, Soundness, PTL DEF Spec, ExclusivePublishing

(* A press goes out only when the newest document shows the panel unlocked, *)
(* however long it queued.                                                  *)
THEOREM PressesRespectTheLock == Spec => PressRespectsLock
<1>1. ASSUME Sound, [Next]_vars, Published, Newest.kind = "press"
      PROVE  ~doc.regs[Lockout]
  BY <1>1, OnlyTransactionsPublish, TransactionPublishes DEF Sound
<1>2. Sound /\ [Next]_vars => [Published /\ Newest.kind = "press" => ~doc.regs[Lockout]]_vars
  BY <1>1
<1> QED BY <1>2, Soundness, PTL DEF Spec, PressRespectsLock

-----------------------------------------------------------------------------
(* Presses. *)

(* A step of one process leaves the others where they are. *)
LEMMA OthersStand ==
  ASSUME TypeOK, NEW q \in Procs, NEW p \in Procs \ {q},
         (\E o \in Ops : Call(q, o)) \/ Transaction(q) \/ Task(q)
  PROVE  /\ pc'[p] = pc[p] /\ op'[p] = op[p] /\ frame'[p] = frame[p]
         /\ outcome'[p] = outcome[p] /\ calls'[p] = calls[p]
         /\ acted'[p] = acted[p] /\ evidence'[p] = evidence[p]
<1> USE DEF procVars, witnessVars, robotVars
<1>1. /\ pc \in [Procs -> Points] /\ op \in [Procs -> Ops] /\ frame \in [Procs -> Frame]
      /\ outcome \in [Procs -> Outcomes] /\ calls \in [Procs -> Nat]
      /\ acted \in [Procs -> Nat] /\ evidence \in [Procs -> {"none", "shown"}]
  BY DEF TypeOK, SuspensionsOK, CallsOK, OutsideOK
<1>2. /\ \A where, f : Suspend(q, where, f) =>
            pc'[p] = pc[p] /\ frame'[p] = frame[p] /\ outcome'[p] = outcome[p]
      /\ \A result : Return(q, result) =>
            pc'[p] = pc[p] /\ frame'[p] = frame[p] /\ outcome'[p] = outcome[p]
  BY <1>1 DEF Suspend, Return
<1>3. CASE \E o \in Ops : Call(q, o)
  BY <1>1, <1>3 DEF Call
<1>4. CASE BeginUpdate(q) \/ BeginWrite(q) \/ BeginPress(q) \/ BeginWifi(q)
  <2>1. pc'[p] = pc[p] /\ frame'[p] = frame[p] /\ outcome'[p] = outcome[p]
    BY <1>2, <1>4 DEF BeginUpdate, BeginWrite, BeginPress, BeginWifi
  <2> QED BY <1>4, <2>1 DEF BeginUpdate, BeginWrite, BeginPress, BeginWifi
<1>5. CASE SendNext(q) \/ VerifyDoc(q) \/ VerifyTimeout(q) \/ UpdateReply(q) \/ UpdateTimeout(q)
  <2>1. pc'[p] = pc[p] /\ frame'[p] = frame[p] /\ outcome'[p] = outcome[p]
    BY <1>2, <1>5 DEF SendNext, VerifyDoc, VerifyTimeout, UpdateReply, UpdateTimeout
  <2> QED BY <1>5, <2>1 DEF SendNext, VerifyDoc, VerifyTimeout, UpdateReply, UpdateTimeout
<1>6. CASE \/ EchoSeen(q) \/ Courtesy(q) \/ EchoTimeout(q) \/ ConfirmDoc(q)
           \/ ConfirmTimeout(q) \/ Finish(q)
  <2>1. pc'[p] = pc[p] /\ frame'[p] = frame[p] /\ outcome'[p] = outcome[p]
    BY <1>2, <1>6 DEF EchoSeen, Courtesy, EchoTimeout, ConfirmDoc, ConfirmTimeout, Finish
  <2> QED BY <1>6, <2>1 DEF EchoSeen, Courtesy, EchoTimeout, ConfirmDoc, ConfirmTimeout, Finish
<1>7. CASE SendRefresh(q) \/ StartRefresh(q) \/ CancelTask(q)
  <2>1. pc'[p] = pc[p] /\ frame'[p] = frame[p] /\ outcome'[p] = outcome[p]
    BY <1>1, <1>2, <1>7 DEF SendRefresh, StartRefresh, CancelTask
  <2> QED BY <1>7, <2>1 DEF SendRefresh, StartRefresh, CancelTask
<1> QED BY <1>3, <1>4, <1>5, <1>6, <1>7 DEF Transaction, Task

(* The other steps leave every call where it is; decoding a message may    *)
(* create a refresh task and add to the evidence.                          *)
LEMMA OutsideStands ==
  ASSUME TypeOK, Deliver \/ ThrottleElapses \/ Unload \/ Robot \/ UNCHANGED vars, NEW p \in Callers
  PROVE  /\ pc'[p] = pc[p] /\ op'[p] = op[p] /\ frame'[p] = frame[p]
         /\ outcome'[p] = outcome[p] /\ calls'[p] = calls[p]
<1> USE DEF procVars
<1>1. p \in Procs /\ p \notin Refreshers
  BY NoOneIsNoProcess DEF Procs
<1>2. pc \in [Procs -> Points] /\ op \in [Procs -> Ops]
  BY DEF TypeOK, SuspensionsOK, CallsOK
<1>3. CASE Deliver
  BY <1>1, <1>2, <1>3
  DEF Deliver, Handled, DecodeState, DecodeActivity, ScheduleRefresh
<1>4. CASE ThrottleElapses \/ Unload \/ UNCHANGED vars
  BY <1>4 DEF ThrottleElapses, Unload, BeginUnload, BeginShutdown, EndShutdown, Unsubscribe,
              EntryStep, vars
<1>5. CASE Robot
  BY <1>5 DEF Robot, RobotTakes, Redelivery, RobotDrops, LoseMessage, RobotEvent, CycleEnds, External
<1> QED BY <1>3, <1>4, <1>5

(* A press that was heard in time is not reported failed, though the       *)
(* courtesy refresh behind it may raise.                                   *)
THEOREM EchoedPressesSucceed == Spec => EchoedPressSucceeds
<1>1. ASSUME TypeOK, Next, NEW p \in Callers, pc[p] = "courtesy", pc'[p] = "idle"
      PROVE  outcome'[p] = "ok"
  <2>1. p \in Procs /\ p \notin Refreshers
    BY NoOneIsNoProcess DEF Procs
  <2>2. Transaction(p)
    <3>1. ASSUME NEW q \in Callers, NEW o \in OpsOf[q], Call(q, o)
          PROVE  FALSE
      <4>1. o \in Ops /\ q \in Procs
        BY CoordinatorAssumption DEF Ops, Procs
      <4>2. q # p
        BY <1>1, <3>1 DEF Call
      <4> QED BY <1>1, <2>1, <3>1, <4>1, <4>2, OthersStand
    <3>2. ASSUME NEW q \in Procs, q # p, Transaction(q) \/ Task(q)
          PROVE  FALSE
      BY <1>1, <2>1, <3>2, OthersStand
    <3>3. ~(Deliver \/ ThrottleElapses \/ Unload \/ Robot)
      BY <1>1, OutsideStands
    <3> QED BY <1>1, <2>1, <3>1, <3>2, <3>3 DEF Next, Procs
  <2>3. pc \in [Procs -> Points] /\ outcome \in [Procs -> Outcomes]
    BY <1>1 DEF TypeOK, SuspensionsOK
  <2>4. Courtesy(p)
    BY <1>1, <2>2 DEF Transaction, Granted, BeginUpdate, UpdateReply, UpdateTimeout, BeginWrite,
         SendNext, VerifyDoc, VerifyTimeout, BeginPress, EchoSeen, EchoTimeout, ConfirmDoc,
         ConfirmTimeout, BeginWifi, Finish, Suspend
  <2> QED BY <1>1, <2>1, <2>3, <2>4 DEF Courtesy, Suspend, Return
<1>2. TypeOK /\ [Next]_vars =>
        [\A p \in Callers : pc[p] = "courtesy" /\ pc'[p] = "idle" => outcome'[p] = "ok"]_vars
  BY <1>1
<1> QED BY <1>2, TypeCorrect, PTL DEF Spec, EchoedPressSucceeds

(* The two promises of a press, together. *)
THEOREM PressesKeepTheirPromises == Spec => PressPromises
BY PressesRespectTheLock, EchoedPressesSucceed DEF PressPromises

(* Refresh tasks run nothing but refreshes. *)
TasksRefresh == \A r \in Refreshers : op[r] = "refresh"

(* A refresh task runs a refresh, and is never at a platform's suspension point. *)
LEMMA TasksRefreshNext ==
  ASSUME TypeOK, TasksRefresh, [Next]_vars
  PROVE  TasksRefresh'
<1> USE DEF TasksRefresh, procVars
<1>1. op \in [Procs -> Ops] /\ Refreshers \subseteq Procs /\ Callers \cap Refreshers = {}
  BY NoOneIsNoProcess DEF TypeOK, CallsOK, Procs
<1>2. ASSUME NEW p \in Callers, NEW o \in OpsOf[p], Call(p, o)
      PROVE  TasksRefresh'
  BY <1>1, <1>2 DEF Call
<1>3. ASSUME NEW p \in Procs, Transaction(p) \/ Task(p)
      PROVE  UNCHANGED op
  BY <1>3 DEF Transaction, Task, BeginUpdate, UpdateReply, UpdateTimeout, BeginWrite, SendNext,
     VerifyDoc, VerifyTimeout, BeginPress, EchoSeen, Courtesy, EchoTimeout, ConfirmDoc,
     ConfirmTimeout, BeginWifi, Finish, StartRefresh, SendRefresh, CancelTask
<1>4. CASE Deliver
  BY <1>1, <1>4 DEF Deliver, Handled, DecodeState, DecodeActivity, ScheduleRefresh
<1>5. CASE ThrottleElapses \/ Unload \/ Robot \/ UNCHANGED vars
  BY <1>5 DEF ThrottleElapses, Unload, BeginUnload, BeginShutdown, EndShutdown, Unsubscribe,
     EntryStep, Robot, RobotTakes, Redelivery, RobotDrops, LoseMessage, RobotEvent, CycleEnds,
     External, vars
<1> QED BY <1>1, <1>2, <1>3, <1>4, <1>5 DEF Next, Procs

(* A transaction hands the awaited press on or drops it, and takes nobody  *)
(* else's.                                                                 *)
LEMMA TransactionAwaits ==
  ASSUME Sound, AwaitedBelongsToHolder, NEW p \in Procs, Transaction(p) \/ SendRefresh(p)
  PROVE  AwaitedBelongsToHolder'
<1> USE DEF eventVars
<1>1. /\ pc \in [Procs -> Points] /\ awaited \in PressOps \cup {NoOne}
      /\ p # NoOne /\ NoOne \notin PressOps
  BY NoOneIsNoProcess, CoordinatorAssumption
  DEF Sound, TypeOK, SuspensionsOK, EventsOK, Ops, CallOps
<1>2. pc[p] \in HoldsLock => holder = p
  BY DEF Sound, LockDiscipline
<1>3. \A where, f : Suspend(p, where, f) => holder' = p /\ pc'[p] = where
  BY <1>1 DEF Suspend
<1>4. CASE BeginUpdate(p) \/ BeginWrite(p) \/ BeginWifi(p) \/ SendRefresh(p)
  BY <1>4 DEF BeginUpdate, BeginWrite, BeginWifi, SendRefresh, Granted, AwaitedBelongsToHolder
<1>5. CASE BeginPress(p)
  BY <1>1, <1>3, <1>5 DEF BeginPress, Granted, AwaitedBelongsToHolder
<1>6. CASE \/ UpdateReply(p) \/ UpdateTimeout(p) \/ SendNext(p) \/ VerifyDoc(p)
           \/ VerifyTimeout(p) \/ ConfirmDoc(p) \/ ConfirmTimeout(p)
  <2>1. pc[p] \in {"reply", "send", "verify", "confirm"} /\ UNCHANGED awaited
    BY <1>6 DEF UpdateReply, UpdateTimeout, SendNext, VerifyDoc, VerifyTimeout, ConfirmDoc,
                ConfirmTimeout
  <2>2. awaited = NoOne
    BY <1>2, <2>1 DEF AwaitedBelongsToHolder, HoldsLock
  <2> QED BY <2>1, <2>2 DEF AwaitedBelongsToHolder
<1>7. CASE EchoSeen(p) \/ Courtesy(p) \/ EchoTimeout(p)
  <2>1. pc[p] \in HoldsLock /\ UNCHANGED op
    BY <1>7 DEF EchoSeen, Courtesy, EchoTimeout, HoldsLock
  <2>2. awaited' = NoOne \/ (UNCHANGED awaited /\ holder' = p /\ pc'[p] \in {"courtesy", "sent"})
    BY <1>3, <1>7 DEF EchoSeen, Courtesy, EchoTimeout
  <2> QED BY <1>1, <1>2, <2>1, <2>2 DEF AwaitedBelongsToHolder
<1>8. CASE Finish(p)
  <2>1. holder = p
    BY <1>2, <1>8 DEF Finish, HoldsLock
  <2>2. awaited' = NoOne
    BY <1>1, <1>8, <2>1 DEF Finish, AwaitedBelongsToHolder
  <2> QED BY <2>2 DEF AwaitedBelongsToHolder
<1> QED BY <1>4, <1>5, <1>6, <1>7, <1>8 DEF Transaction

(* The awaited press is that of the transaction which waits for it, and is *)
(* gone when the transaction is.                                           *)
THEOREM AwaitedIsTheHolders == Spec => []AwaitedBelongsToHolder
<1> USE DEF lockVars, procVars, eventVars
<1>1. Init => TasksRefresh /\ AwaitedBelongsToHolder
  BY DEF Init, TasksRefresh, AwaitedBelongsToHolder, Procs
<1>2. ASSUME Sound, TasksRefresh, AwaitedBelongsToHolder, [Next]_vars
      PROVE  AwaitedBelongsToHolder'
  <2>1. /\ pc \in [Procs -> Points] /\ op \in [Procs -> Ops] /\ awaited \in PressOps \cup {NoOne}
        /\ Callers \subseteq Procs /\ Refreshers \subseteq Procs
        /\ "refresh" \notin PressOps /\ NoOne \notin Procs
    BY <1>2, NoOneIsNoProcess DEF Sound, TypeOK, SuspensionsOK, CallsOK, EventsOK, Procs, PressOps
  <2>2. \A p \in Procs : pc[p] \in {"idle", "created", "queued"} => holder # p
    BY <1>2 DEF Sound, LockDiscipline, HoldsLock
  <2>3. ASSUME NEW p \in Callers, NEW o \in OpsOf[p], Call(p, o)
        PROVE  AwaitedBelongsToHolder'
    BY <1>2, <2>1, <2>2, <2>3 DEF Call, AwaitedBelongsToHolder
  <2>4. ASSUME NEW r \in Refreshers, StartRefresh(r)
        PROVE  AwaitedBelongsToHolder'
    BY <1>2, <2>1, <2>2, <2>4 DEF StartRefresh, AwaitedBelongsToHolder
  <2>5. ASSUME NEW r \in Refreshers, CancelTask(r)
        PROVE  AwaitedBelongsToHolder'
    <3>1. UNCHANGED <<awaited, op>>
      BY <2>5 DEF CancelTask
    <3>2. CASE pc[r] = "sent"
      <4>1. holder = r
        BY <1>2, <2>1, <3>2 DEF Sound, LockDiscipline, HoldsLock
      <4>2. awaited = NoOne
        BY <1>2, <2>1, <4>1 DEF AwaitedBelongsToHolder, TasksRefresh
      <4> QED BY <3>1, <4>2 DEF AwaitedBelongsToHolder
    <3>3. CASE pc[r] \in {"queued", "created"}
      BY <1>2, <2>1, <2>2, <2>5, <3>1, <3>3 DEF CancelTask, AwaitedBelongsToHolder
    <3> QED BY <2>5, <3>2, <3>3 DEF CancelTask
  <2>6. CASE Deliver
    BY <1>2, <2>1, <2>2, <2>6
    DEF Deliver, Handled, DecodeState, DecodeActivity, ScheduleRefresh, AwaitedBelongsToHolder
  <2>7. CASE ThrottleElapses \/ Unload \/ Robot \/ UNCHANGED vars
    <3>1. UNCHANGED <<awaited, holder, op, pc>>
      BY <2>7 DEF ThrottleElapses, Unload, BeginUnload, BeginShutdown, EndShutdown, Unsubscribe,
         EntryStep, Robot, RobotTakes, Redelivery, RobotDrops, LoseMessage, RobotEvent, CycleEnds,
         External, vars
    <3> QED BY <1>2, <3>1 DEF AwaitedBelongsToHolder
  <2>8. ASSUME NEW p \in Procs, Transaction(p) \/ SendRefresh(p)
        PROVE  AwaitedBelongsToHolder'
    BY <1>2, <2>8, TransactionAwaits
  <2>9. \A r \in Refreshers : Finish(r) => Transaction(r)
    BY DEF Transaction
  <2> QED BY <1>2, <2>1, <2>3, <2>4, <2>5, <2>6, <2>7, <2>8, <2>9 DEF Next, Task
<1>3. /\ Sound /\ TasksRefresh /\ AwaitedBelongsToHolder /\ [Next]_vars
         => TasksRefresh' /\ AwaitedBelongsToHolder'
  BY <1>2, TasksRefreshNext DEF Sound
<1> QED BY <1>1, <1>3, Soundness, PTL DEF Spec

-----------------------------------------------------------------------------
(* Shutdown. *)

(* No refresh task is alive once the shutdown has gathered them, although  *)
(* messages keep arriving until the subscription is dropped.               *)
THEOREM TasksEndWithShutdown == Spec => []NoTaskOutlivesShutdown
<1>1. Init => NoTaskOutlivesShutdown
  BY DEF Init, NoTaskOutlivesShutdown
<1>2. ASSUME TypeOK, NoTaskOutlivesShutdown, [Next]_vars
      PROVE  NoTaskOutlivesShutdown'
  <2>1. pc \in [Procs -> Points] /\ Callers \cap Refreshers = {} /\ Procs = Callers \cup Refreshers
    BY <1>2, NoOneIsNoProcess DEF TypeOK, SuspensionsOK, Procs
  <2>2. ASSUME NEW p \in Callers, (\E o \in OpsOf[p] : Call(p, o)) \/ Transaction(p)
        PROVE  NoTaskOutlivesShutdown'
    <3>1. (\E o \in Ops : Call(p, o)) \/ Transaction(p)
      BY <2>1, <2>2, CoordinatorAssumption DEF Ops
    <3>2. \A r \in Refreshers : pc'[r] = pc[r]
      BY <1>2, <2>1, <3>1, OthersStand
    <3>3. entry' = entry
      BY <2>2 DEF Call, Transaction, BeginUpdate, UpdateReply, UpdateTimeout, BeginWrite, SendNext,
         VerifyDoc, VerifyTimeout, BeginPress, EchoSeen, Courtesy, EchoTimeout, ConfirmDoc,
         ConfirmTimeout, BeginWifi, Finish, storeVars
    <3> QED BY <1>2, <3>2, <3>3 DEF NoTaskOutlivesShutdown
  <2>3. ASSUME NEW q \in Refreshers, Task(q)
        PROVE  NoTaskOutlivesShutdown'
    <3>1. pc[q] # "idle" /\ UNCHANGED entry
      BY <2>3 DEF Task, StartRefresh, SendRefresh, Finish, CancelTask, Granted, storeVars
    <3> QED BY <1>2, <3>1 DEF NoTaskOutlivesShutdown
  <2>4. CASE Deliver
    <3>1. UNCHANGED entry /\ (entry # "loaded" => UNCHANGED pc)
      BY <2>4 DEF Deliver, Handled, storeVars
    <3> QED BY <1>2, <3>1 DEF NoTaskOutlivesShutdown
  <2>5. CASE Unload
    BY <1>2, <2>5 DEF Unload, BeginUnload, BeginShutdown, EndShutdown, Unsubscribe, EntryStep,
                      procVars, NoTaskOutlivesShutdown
  <2>6. CASE ThrottleElapses \/ Robot \/ UNCHANGED vars
    <3>1. UNCHANGED <<pc, entry>>
      BY <2>6 DEF ThrottleElapses, Robot, RobotTakes, Redelivery, RobotDrops, LoseMessage,
         RobotEvent, CycleEnds, External, procVars, storeVars, vars
    <3> QED BY <1>2, <3>1 DEF NoTaskOutlivesShutdown
  <2> QED BY <1>2, <2>2, <2>3, <2>4, <2>5, <2>6 DEF Next
<1>3. TypeOK /\ NoTaskOutlivesShutdown /\ [Next]_vars => NoTaskOutlivesShutdown'
  BY <1>2
<1> QED BY <1>1, <1>3, TypeCorrect, PTL DEF Spec

-----------------------------------------------------------------------------
(* Evidence. *)

(* Where each call stands with its evidence: whatever is there for the     *)
(* call to read next (an event with the document behind it, an echo) was   *)
(* decoded while the call was waiting for it, and so was what it has read. *)
Grounded(p) ==
  /\ outcome[p] = "ok" /\ op[p] # "wifi" => evidence[p] = "shown"
  /\ pc[p] = "reply" /\ stateEvent => evidence[p] = "shown"
  /\ pc[p] \in {"send", "verify"} /\ stateEvent /\ Verified(op[p], doc) => evidence[p] = "shown"
  /\ pc[p] = "echo" => awaited = op[p] /\ (pressEcho => evidence[p] = "shown")
  /\ pc[p] = "courtesy" => evidence[p] = "shown"
  /\ pc[p] = "sent" /\ op[p] # "wifi" => evidence[p] = "shown"
  /\ pc[p] = "confirm" /\ stateEvent /\ Confirms(op[p], frame[p].before, doc) => evidence[p] = "shown"

(* A step of a process leaves the evidence alone, and the events another   *)
(* call waits for: it may clear them, and it replaces no document.         *)
LEMMA OwnEventsOnly ==
  ASSUME Sound, NEW q \in Procs, NEW p \in Procs \ {q},
         (\E o \in Ops : Call(q, o)) \/ Transaction(q) \/ Task(q)
  PROVE  /\ doc' = doc
         /\ stateEvent' => stateEvent
         /\ pressEcho' => pressEcho
         /\ pc[p] = "echo" => awaited' = awaited
<1> USE DEF eventVars
<1>1. pc[p] = "echo" => pc[q] \notin HoldsLock /\ ~Granted(q)
  BY NoOneIsNoProcess DEF Sound, LockDiscipline, HoldsLock, Granted
<1>2. CASE \E o \in Ops : Call(q, o)
  BY <1>2 DEF Call
<1>3. CASE BeginUpdate(q) \/ BeginWrite(q) \/ BeginPress(q) \/ BeginWifi(q) \/ SendRefresh(q)
  BY <1>1, <1>3 DEF BeginUpdate, BeginWrite, BeginPress, BeginWifi, SendRefresh
<1>4. CASE \/ UpdateReply(q) \/ UpdateTimeout(q) \/ SendNext(q) \/ VerifyDoc(q) \/ VerifyTimeout(q)
           \/ EchoSeen(q) \/ ConfirmDoc(q) \/ ConfirmTimeout(q)
  BY <1>4 DEF UpdateReply, UpdateTimeout, SendNext, VerifyDoc, VerifyTimeout, EchoSeen,
              ConfirmDoc, ConfirmTimeout
<1>5. CASE Courtesy(q) \/ EchoTimeout(q) \/ Finish(q)
  BY <1>1, <1>5 DEF Courtesy, EchoTimeout, Finish, HoldsLock
<1>6. CASE StartRefresh(q) \/ CancelTask(q)
  BY <1>6 DEF StartRefresh, CancelTask
<1> QED BY <1>2, <1>3, <1>4, <1>5, <1>6 DEF Transaction, Task

(* A call's own step: it returns "ok" only on what was shown to it, and    *)
(* what it starts to wait for has been cleared first.                      *)
LEMMA OwnStepGrounded ==
  ASSUME TypeOK, NEW p \in Callers, Grounded(p), (\E o \in OpsOf[p] : Call(p, o)) \/ Transaction(p)
  PROVE  Grounded(p)'
<1> USE DEF eventVars, witnessVars, robotVars, storeVars
<1>1. /\ p \in Procs
      /\ pc \in [Procs -> Points] /\ op \in [Procs -> Ops] /\ frame \in [Procs -> Frame]
      /\ outcome \in [Procs -> Outcomes] /\ evidence \in [Procs -> {"none", "shown"}]
  BY DEF TypeOK, SuspensionsOK, CallsOK, OutsideOK, Procs
<1>2. \A where, f : Suspend(p, where, f) =>
         pc'[p] = where /\ frame'[p] = f /\ outcome'[p] = outcome[p]
  BY <1>1 DEF Suspend
<1>3. \A result : Return(p, result) => pc'[p] = "idle" /\ outcome'[p] = result
  BY <1>1 DEF Return
<1>4. CASE \E o \in OpsOf[p] : Call(p, o)
  BY <1>1, <1>4 DEF Call, Grounded
<1>5. ASSUME UNCHANGED <<op, evidence>>,
             \/ \E result \in {"failed", "refused"} : Return(p, result)
             \/ \E result : Return(p, result) /\ (op[p] # "wifi" => evidence[p] = "shown")
      PROVE  Grounded(p)'
  BY <1>3, <1>5 DEF Grounded
<1>6. CASE BeginUpdate(p) \/ BeginWrite(p)
  BY <1>2, <1>3, <1>5, <1>6 DEF BeginUpdate, BeginWrite, Grounded
<1>7. CASE BeginPress(p)
  BY <1>2, <1>3, <1>5, <1>7 DEF BeginPress, Grounded
<1>8. CASE BeginWifi(p)
  BY <1>2, <1>3, <1>5, <1>8 DEF BeginWifi, Grounded
<1>9. CASE UpdateReply(p) \/ UpdateTimeout(p)
  BY <1>5, <1>9 DEF UpdateReply, UpdateTimeout, Grounded
<1>10. CASE SendNext(p)
  BY <1>2, <1>5, <1>10 DEF SendNext, Grounded
<1>11. CASE VerifyDoc(p)
  BY <1>5, <1>11 DEF VerifyDoc, Grounded
<1>12. CASE VerifyTimeout(p)
  BY <1>2, <1>5, <1>12 DEF VerifyTimeout, Grounded
<1>13. CASE EchoSeen(p)
  BY <1>2, <1>13 DEF EchoSeen, Grounded
<1>14. CASE Courtesy(p)
  BY <1>2, <1>5, <1>14 DEF Courtesy, Grounded
<1>15. CASE EchoTimeout(p)
  BY <1>2, <1>5, <1>15 DEF EchoTimeout, Grounded
<1>16. CASE ConfirmDoc(p) \/ ConfirmTimeout(p)
  BY <1>5, <1>16 DEF ConfirmDoc, ConfirmTimeout, Grounded
<1>17. CASE Finish(p)
  BY <1>5, <1>17 DEF Finish, Grounded
<1> QED BY <1>4, <1>6, <1>7, <1>8, <1>9, <1>10, <1>11, <1>12, <1>13, <1>14, <1>15, <1>16, <1>17
        DEF Transaction

(* A decoded message that a waiting call will read is evidence for it.     *)
LEMMA DeliveryGrounded ==
  ASSUME TypeOK, NEW p \in Callers, Grounded(p), Deliver
  PROVE  Grounded(p)'
<1> DEFINE m == Head(msgs)
<1>1. p \in Procs /\ evidence \in [Procs -> {"none", "shown"}] /\ awaited \in PressOps \cup {NoOne}
  BY DEF TypeOK, EventsOK, OutsideOK, Procs
<1>2. /\ pc'[p] = pc[p] /\ op'[p] = op[p] /\ frame'[p] = frame[p] /\ outcome'[p] = outcome[p]
      /\ awaited' = awaited
  BY OutsideStands DEF Deliver
<1>3. m.kind \in {"state", "activity"}
  BY HeadTailProperties DEF Deliver, TypeOK, OutsideOK, Message
<1> HIDE DEF m
<1>4. Witnessed(m) => evidence'[p] = IF Shows(p, m) THEN "shown" ELSE evidence[p]
  BY <1>1 DEF Witnessed
<1>5. CASE DecodeState(m)
  <2>1. /\ doc' = m.doc /\ stateEvent' = TRUE /\ pressEcho' = pressEcho
        /\ evidence'[p] = IF Shows(p, m) THEN "shown" ELSE evidence[p]
    BY <1>4, <1>5 DEF DecodeState
  <2>2. Shows(p, m) <=> \/ pc[p] = "reply"
                        \/ pc[p] \in {"send", "verify"} /\ Verified(op[p], m.doc)
                        \/ pc[p] = "confirm" /\ Confirms(op[p], frame[p].before, m.doc)
    BY <1>5 DEF DecodeState, Shows
  <2> QED BY <1>2, <2>1, <2>2 DEF Grounded
<1>6. CASE DecodeActivity(m)
  <2>1. /\ doc' = doc /\ stateEvent' = stateEvent
        /\ pressEcho' => pressEcho \/ m.press = awaited
        /\ evidence'[p] = IF Shows(p, m) THEN "shown" ELSE evidence[p]
    BY <1>4, <1>6 DEF DecodeActivity, Echoes
  <2>2. Shows(p, m) <=> pc[p] = "echo" /\ m.press = op[p]
    BY <1>6 DEF DecodeActivity, Shows
  <2> QED BY <1>2, <2>1, <2>2 DEF Grounded
<1>7. CASE UNCHANGED <<pc, op, doc, stateEvent, pressEcho, throttled, evidence>>
  BY <1>2, <1>7 DEF Grounded
<1> QED BY <1>5, <1>6, <1>7 DEF Deliver, Handled, m

(* A call that returned normally rests on a message decoded after its own  *)
(* publish; an event or a document left over from before never counts.     *)
THEOREM SuccessIsGrounded == Spec => []SuccessRestsOnNewEvidence
<1> DEFINE AllGrounded == \A p \in Callers : Grounded(p)
<1>1. Init => AllGrounded
  BY DEF Init, Grounded, Procs
<1>2. ASSUME Sound, AllGrounded, [Next]_vars
      PROVE  AllGrounded'
  <2> SUFFICES ASSUME NEW p \in Callers PROVE Grounded(p)'
    OBVIOUS
  <2>1. p \in Procs /\ Grounded(p) /\ TypeOK
    BY <1>2 DEF Sound, Procs
  <2>2. ASSUME NEW q \in Procs, q # p, (\E o \in Ops : Call(q, o)) \/ Transaction(q) \/ Task(q)
        PROVE  Grounded(p)'
    <3>1. /\ pc'[p] = pc[p] /\ op'[p] = op[p] /\ frame'[p] = frame[p]
          /\ outcome'[p] = outcome[p] /\ evidence'[p] = evidence[p]
      BY <2>1, <2>2, OthersStand
    <3>2. /\ doc' = doc /\ (stateEvent' => stateEvent) /\ (pressEcho' => pressEcho)
          /\ pc[p] = "echo" => awaited' = awaited
      BY <1>2, <2>1, <2>2, OwnEventsOnly
    <3> QED BY <2>1, <3>1, <3>2 DEF Grounded
  <2>3. CASE ThrottleElapses \/ Unload \/ Robot \/ UNCHANGED vars
    <3>1. UNCHANGED <<stateEvent, doc, pressEcho, awaited, evidence>>
      BY <2>3 DEF ThrottleElapses, Unload, BeginUnload, BeginShutdown, EndShutdown, Unsubscribe,
         EntryStep, Robot, RobotTakes, Redelivery, RobotDrops, LoseMessage, RobotEvent, CycleEnds,
         External, vars, eventVars, witnessVars
    <3>2. /\ pc'[p] = pc[p] /\ op'[p] = op[p] /\ frame'[p] = frame[p] /\ outcome'[p] = outcome[p]
      BY <2>1, <2>3, OutsideStands
    <3> QED BY <2>1, <3>1, <3>2 DEF Grounded
  <2>4. \A q \in Callers : q \in Procs /\ OpsOf[q] \subseteq Ops
    BY CoordinatorAssumption DEF Procs, Ops
  <2>5. \A r \in Refreshers : r \in Procs /\ r # p
    BY NoOneIsNoProcess DEF Procs
  <2> QED BY <1>2, <2>1, <2>2, <2>3, <2>4, <2>5, OwnStepGrounded, DeliveryGrounded DEF Next
<1>3. Sound /\ AllGrounded /\ [Next]_vars => AllGrounded'
  BY <1>2
<1>4. AllGrounded => SuccessRestsOnNewEvidence
  BY DEF Grounded, SuccessRestsOnNewEvidence
<1> QED BY <1>1, <1>3, <1>4, Soundness, PTL DEF Spec

-----------------------------------------------------------------------------
(* One press. *)

(* The i-th command in flight is the press of the call p has in hand. *)
OnItsWay(p, i) == cmds[i].kind = "press" /\ cmds[i].by = p /\ cmds[i].call = calls[p]

(* The press of a call is in flight at most once, only after the call's    *)
(* turn came and until the robot acts on it, and none is of a later call.  *)
OncePerCall(p) ==
  /\ acted[p] <= 1
  /\ pc[p] = "queued" => acted[p] = 0
  /\ \A i \in 1 .. Len(cmds) : cmds[i].by = p => cmds[i].call <= calls[p]
  /\ \A i \in 1 .. Len(cmds) : OnItsWay(p, i) => pc[p] # "queued" /\ acted[p] = 0
  /\ \A i, j \in 1 .. Len(cmds) : OnItsWay(p, i) /\ OnItsWay(p, j) => i = j

(* What a process adds to the channel: nothing, a request or a write, or   *)
(* its press, with the step that ends its wait for the lock.               *)
LEMMA AddsToChannel ==
  ASSUME TypeOK, NEW q \in Procs, Transaction(q) \/ Task(q)
  PROVE  \/ cmds' = cmds
         \/ \E c \in Command : /\ cmds' = Append(cmds, c) /\ c.by = q /\ c.call = 0 /\ c.kind # "press"
         \/ cmds' = Append(cmds, Press(q)) /\ pc[q] = "queued" /\ pc'[q] # "queued"
<1>1. /\ Request(q) \in Command /\ Request(q).by = q /\ Request(q).call = 0 /\ Request(q).kind # "press"
      /\ \A i \in {1, frame[q].item} : /\ Write(q, i) \in Command /\ Write(q, i).by = q
                                       /\ Write(q, i).call = 0 /\ Write(q, i).kind # "press"
  BY LocalTypes DEF Request, Write
<1>2. pc \in [Procs -> Points]
  BY DEF TypeOK, SuspensionsOK
<1>3. CASE BeginUpdate(q) \/ BeginWrite(q) \/ SendRefresh(q)
  BY <1>1, <1>3 DEF BeginUpdate, BeginWrite, SendRefresh, Publish, PublishRaises
<1>4. CASE BeginPress(q) \/ BeginWifi(q)
  BY <1>2, <1>4 DEF BeginPress, BeginWifi, Granted, Publish, PublishRaises, Suspend
<1>5. CASE SendNext(q) \/ VerifyTimeout(q) \/ Courtesy(q) \/ EchoTimeout(q)
  BY <1>1, <1>5 DEF SendNext, VerifyTimeout, Courtesy, EchoTimeout, Publish, PublishRaises
<1>6. CASE \/ UpdateReply(q) \/ UpdateTimeout(q) \/ VerifyDoc(q) \/ EchoSeen(q)
           \/ ConfirmDoc(q) \/ ConfirmTimeout(q) \/ Finish(q) \/ StartRefresh(q) \/ CancelTask(q)
  BY <1>6 DEF UpdateReply, UpdateTimeout, VerifyDoc, EchoSeen, ConfirmDoc, ConfirmTimeout, Finish,
              StartRefresh, CancelTask
<1> QED BY <1>3, <1>4, <1>5, <1>6 DEF Transaction, Task

(* A transaction does not queue its own process again, and counts no act.  *)
LEMMA NeverQueuesAgain ==
  ASSUME TypeOK, NEW p \in Callers, Transaction(p)
  PROVE  /\ pc'[p] = "queued" => pc[p] = "queued"
         /\ acted' = acted /\ calls' = calls
<1> USE DEF procVars, witnessVars
<1>1. pc \in [Procs -> Points] /\ p \in Procs
  BY DEF TypeOK, SuspensionsOK, Procs
<1>2. /\ \A where, f : Suspend(p, where, f) => pc'[p] = where
      /\ \A result : Return(p, result) => pc'[p] = "idle"
  BY <1>1 DEF Suspend, Return
<1>3. CASE BeginUpdate(p) \/ BeginWrite(p) \/ BeginPress(p) \/ BeginWifi(p)
  BY <1>2, <1>3 DEF BeginUpdate, BeginWrite, BeginPress, BeginWifi
<1>4. CASE \/ UpdateReply(p) \/ UpdateTimeout(p) \/ SendNext(p) \/ VerifyDoc(p) \/ VerifyTimeout(p)
  BY <1>2, <1>4 DEF UpdateReply, UpdateTimeout, SendNext, VerifyDoc, VerifyTimeout
<1>5. CASE \/ EchoSeen(p) \/ Courtesy(p) \/ EchoTimeout(p) \/ ConfirmDoc(p) \/ ConfirmTimeout(p)
           \/ Finish(p)
  BY <1>2, <1>5 DEF EchoSeen, Courtesy, EchoTimeout, ConfirmDoc, ConfirmTimeout, Finish
<1> QED BY <1>3, <1>4, <1>5 DEF Transaction

(* A longer channel: the command added is somebody else's, no press, or    *)
(* the one press of the call.                                              *)
LEMMA OnceWhenPublished ==
  ASSUME TypeOK, NEW p \in Callers, OncePerCall(p), NEW c \in Command, cmds' = Append(cmds, c),
         calls'[p] = calls[p], acted'[p] = acted[p], pc'[p] = "queued" => pc[p] = "queued",
         \/ c.by # p
         \/ c.kind # "press" /\ c.call = 0
         \/ c = Press(p) /\ pc[p] = "queued" /\ pc'[p] # "queued"
  PROVE  OncePerCall(p)'
<1>1. cmds \in Seq(Command) /\ calls[p] \in Nat
  BY DEF TypeOK, SentOK, CallsOK, Procs
<1>2. /\ Len(cmds') = Len(cmds) + 1 /\ Len(cmds) \in Nat
      /\ cmds'[Len(cmds) + 1] = c
      /\ \A i \in 1 .. Len(cmds) : cmds'[i] = cmds[i]
  BY <1>1, AppendProperties, LenProperties
<1>3. c.by = p => c.call <= calls[p]
  BY <1>1 DEF Press
<1>4. \A i \in 1 .. Len(cmds') : i \in 1 .. Len(cmds) \/ (i = Len(cmds) + 1 /\ cmds'[i] = c)
  BY <1>2
<1>5. c.kind = "press" /\ c.by = p /\ c.call = calls[p] =>
        pc[p] = "queued" /\ pc'[p] # "queued"
  OBVIOUS
<1> QED BY <1>1, <1>2, <1>3, <1>4, <1>5 DEF OncePerCall, OnItsWay

(* A shorter channel: the robot acted on the press that left it, or not.   *)
LEMMA OnceWhenTaken ==
  ASSUME TypeOK, NEW p \in Callers, OncePerCall(p), NEW i \in 1 .. Len(cmds),
         Len(cmds') = Len(cmds) - 1,
         \A k \in 1 .. Len(cmds) - 1 : cmds'[k] = IF k < i THEN cmds[k] ELSE cmds[k + 1],
         calls'[p] = calls[p], pc'[p] = pc[p],
         acted'[p] = acted[p] \/ (OnItsWay(p, i) /\ acted'[p] = acted[p] + 1)
  PROVE  OncePerCall(p)'
<1>1. Len(cmds) \in Nat /\ acted[p] \in Nat
  BY LenProperties DEF TypeOK, SentOK, OutsideOK, Procs
<1>2. \A k \in 1 .. Len(cmds') : \E n \in 1 .. Len(cmds) :
         n # i /\ cmds'[k] = cmds[n] /\ n = IF k < i THEN k ELSE k + 1
  BY <1>1
<1>3. \A k \in 1 .. Len(cmds') : OnItsWay(p, k)' => ~OnItsWay(p, i)
  BY <1>2 DEF OncePerCall, OnItsWay
<1>4. /\ acted'[p] <= 1
      /\ pc'[p] = "queued" => acted'[p] = 0
      /\ \A k \in 1 .. Len(cmds') : cmds'[k].by = p => cmds'[k].call <= calls'[p]
      /\ \A k \in 1 .. Len(cmds') : OnItsWay(p, k)' => pc'[p] # "queued" /\ acted'[p] = 0
  BY <1>1, <1>2, <1>3 DEF OncePerCall, OnItsWay
<1>5. \A j, k \in 1 .. Len(cmds') : OnItsWay(p, j)' /\ OnItsWay(p, k)' => j = k
  BY <1>1, <1>2 DEF OncePerCall, OnItsWay
<1> QED BY <1>4, <1>5 DEF OncePerCall

(* What the robot and the broker do with the commands in flight. *)
LEMMA OnceAtRobot ==
  ASSUME TypeOK, NEW p \in Callers, OncePerCall(p), Robot
  PROVE  OncePerCall(p)'
<1> USE DEF External, lockVars, procVars, robotVars, witnessVars
<1>1. /\ cmds \in Seq(Command) /\ acted \in [Procs -> Nat] /\ p \in Procs
  BY DEF TypeOK, SentOK, OutsideOK, Procs
<1>2. UNCHANGED <<pc, calls>>
  BY DEF Robot, RobotTakes, Redelivery, RobotDrops, LoseMessage, RobotEvent, CycleEnds
<1>3. ASSUME NEW c \in Command, Carries(c)
      PROVE  \/ acted'[p] = acted[p]
             \/ c.kind = "press" /\ c.by = p /\ c.call = calls[p] /\ acted'[p] = acted[p] + 1
  BY <1>1, <1>3 DEF Carries, Command
<1>4. ASSUME NEW i \in 1 .. Len(cmds), RobotTakes(i)
      PROVE  OncePerCall(p)'
  <2>1. cmds[i] \in Command /\ Carries(cmds[i]) /\ cmds' = RemoveAt(cmds, i)
    BY <1>1, <1>4, ElementOfSeq DEF RobotTakes
  <2>2. acted'[p] = acted[p] \/ (OnItsWay(p, i) /\ acted'[p] = acted[p] + 1)
    BY <1>3, <2>1 DEF OnItsWay
  <2>3. /\ Len(cmds') = Len(cmds) - 1
        /\ \A k \in 1 .. Len(cmds) - 1 : cmds'[k] = IF k < i THEN cmds[k] ELSE cmds[k + 1]
    BY <1>1, <2>1, RemoveAtType
  <2> QED BY <1>2, <2>2, <2>3, OnceWhenTaken
<1>5. CASE RobotDrops
  <2>1. /\ Len(cmds') = Len(cmds) - 1 /\ 1 \in 1 .. Len(cmds)
        /\ \A k \in 1 .. Len(cmds) - 1 : cmds'[k] = IF k < 1 THEN cmds[k] ELSE cmds[k + 1]
    BY <1>1, <1>5, HeadTailProperties, LenProperties DEF RobotDrops
  <2>2. acted' = acted
    BY <1>5 DEF RobotDrops
  <2> QED BY <1>2, <2>1, <2>2, OnceWhenTaken
<1>6. CASE Redelivery
  <2>1. Head(cmds) \in Command /\ Carries(Head(cmds)) /\ Head(cmds).kind # "press" /\ cmds' = cmds
    BY <1>1, <1>6, HeadTailProperties DEF Redelivery, AtMostOnce
  <2>2. acted'[p] = acted[p]
    BY <1>3, <2>1
  <2> QED BY <1>2, <2>1, <2>2 DEF OncePerCall, OnItsWay
<1>7. CASE LoseMessage \/ RobotEvent \/ CycleEnds
  BY <1>2, <1>7 DEF LoseMessage, RobotEvent, CycleEnds, OncePerCall, OnItsWay
<1> QED BY <1>4, <1>5, <1>6, <1>7 DEF Robot

(* One call makes the robot act on at most one press, whatever is lost,    *)
(* repeated or delayed: a doubled cycle is worse than a press repeated by  *)
(* the user.                                                               *)
THEOREM PressesActOnce == Spec => []PressActsAtMostOnce
<1> DEFINE EachOnce == \A p \in Callers : OncePerCall(p)
<1>1. Init => EachOnce
  BY DEF Init, OncePerCall, OnItsWay, Procs
<1>2. ASSUME Sound, EachOnce, [Next]_vars
      PROVE  EachOnce'
  <2> SUFFICES ASSUME NEW p \in Callers PROVE OncePerCall(p)'
    OBVIOUS
  <2>1. p \in Procs /\ OncePerCall(p) /\ TypeOK
    BY <1>2 DEF Sound, Procs
  <2>2. CASE \E o \in OpsOf[p] : Call(p, o)
    <3>1. /\ pc'[p] = "queued" /\ acted'[p] = 0 /\ calls'[p] = calls[p] + 1 /\ cmds' = cmds
      BY <2>1, <2>2 DEF Call, TypeOK, SuspensionsOK, CallsOK, OutsideOK
    <3>2. cmds \in Seq(Command) /\ calls[p] \in Nat
      BY <2>1 DEF TypeOK, CallsOK, SentOK
    <3>3. \A i \in 1 .. Len(cmds) : cmds[i] \in Command
      BY <3>2, ElementOfSeq
    <3>4. \A i \in 1 .. Len(cmds) : cmds[i].call \in Nat
      BY <3>3 DEF Command
    <3> QED BY <2>1, <3>1, <3>2, <3>4 DEF OncePerCall, OnItsWay
  <2>3. ASSUME NEW q \in Callers \ {p}, \E o \in OpsOf[q] : Call(q, o)
        PROVE  OncePerCall(p)'
    <3>1. q \in Procs /\ \E o \in Ops : Call(q, o)
      BY <2>3, CoordinatorAssumption DEF Procs, Ops
    <3>2. cmds' = cmds /\ pc'[p] = pc[p] /\ calls'[p] = calls[p] /\ acted'[p] = acted[p]
      BY <2>1, <2>3, <3>1, OthersStand DEF Call
    <3> QED BY <2>1, <3>2 DEF OncePerCall, OnItsWay
  <2>4. ASSUME NEW q \in Procs, Transaction(q) \/ (Task(q) /\ q # p)
        PROVE  OncePerCall(p)'
    <3>1. /\ pc'[p] = "queued" => pc[p] = "queued"
          /\ calls'[p] = calls[p] /\ acted'[p] = acted[p]
      <4>1. CASE q = p
        BY <2>1, <2>4, <4>1, NeverQueuesAgain
      <4>2. CASE q # p
        BY <2>1, <2>4, <4>2, OthersStand
      <4> QED BY <4>1, <4>2
    <3>2. CASE cmds' = cmds
      <4>1. pc'[p] = "queued" => pc[p] = "queued"
        BY <3>1
      <4> QED BY <2>1, <3>1, <3>2, <4>1 DEF OncePerCall, OnItsWay
    <3>3. ASSUME NEW c \in Command, cmds' = Append(cmds, c), c.by = q, c.call = 0, c.kind # "press"
          PROVE  OncePerCall(p)'
      BY <2>1, <3>1, <3>3, OnceWhenPublished
    <3>4. CASE cmds' = Append(cmds, Press(q)) /\ pc[q] = "queued" /\ pc'[q] # "queued"
      <4>1. Press(q) \in Command /\ Press(q).by = q
        BY <2>1, LocalTypes DEF Press
      <4> QED BY <2>1, <3>1, <3>4, <4>1, OnceWhenPublished
    <3> QED BY <2>1, <2>4, <3>2, <3>3, <3>4, AddsToChannel
  <2>5. CASE Deliver \/ ThrottleElapses \/ Unload \/ UNCHANGED vars
    <3>1. /\ pc'[p] = pc[p] /\ calls'[p] = calls[p]
      BY <2>1, <2>5, OutsideStands
    <3>2. UNCHANGED <<cmds, acted>>
      BY <2>5 DEF Deliver, ThrottleElapses, Unload, BeginUnload, BeginShutdown, EndShutdown,
                  Unsubscribe, EntryStep, witnessVars, vars
    <3> QED BY <2>1, <3>1, <3>2 DEF OncePerCall, OnItsWay
  <2>6. \A r \in Refreshers : r \in Procs /\ r # p
    BY NoOneIsNoProcess DEF Procs
  <2>7. \A q \in Callers : q \in Procs
    BY DEF Procs
  <2> QED BY <1>2, <2>1, <2>2, <2>3, <2>4, <2>5, <2>6, <2>7, OnceAtRobot DEF Next
<1>3. Sound /\ EachOnce /\ [Next]_vars => EachOnce'
  BY <1>2
<1>4. EachOnce => PressActsAtMostOnce
  BY DEF OncePerCall, PressActsAtMostOnce
<1> QED BY <1>1, <1>3, <1>4, Soundness, PTL DEF Spec

-----------------------------------------------------------------------------
(* Schedules. *)

(* No document, decoded or on its way, shows a wake time the robot lacks.  *)
NoneAhead(r) ==
  ~robot.regs[r] => /\ ~doc.regs[r]
                    /\ \A i \in 1 .. Len(msgs) : msgs[i].kind = "state" => ~msgs[i].doc.regs[r]

(* The robot never loses a wake time: only schedule writes touch it, and   *)
(* a write dropped, delayed or repeated puts the same time there.          *)
LEMMA TimesStay ==
  ASSUME TypeOK, NEW r \in 1 .. Days, [Next]_vars
  PROVE  robot.regs[r] => robot'.regs[r]
<1> USE DEF lockVars, procVars, eventVars, storeVars, robotVars, witnessVars
<1>1. /\ robot \in Doc /\ cmds \in Seq(Command) /\ r \in Regs /\ r # Lockout
  BY CoordinatorAssumption DEF TypeOK, SentOK, OutsideOK, Regs, Lockout
<1>2. \A o : Ran(robot, o).regs = robot.regs
  BY <1>1 DEF Ran, Doc
<1>3. ASSUME NEW c \in Command, Carries(c)
      PROVE  robot.regs[r] => robot'.regs[r]
  <2>1. CASE c.kind = "request" \/ UNCHANGED robot
    BY <1>3, <2>1 DEF Carries
  <2>2. CASE c.kind = "press"
    BY <1>2, <1>3, <2>2 DEF Carries
  <2>3. CASE robot' = [robot EXCEPT !.regs[RegAt(c.op, c.item)] = Wanted(c.op)]
    <3>1. RegAt(c.op, c.item) = r => Wanted(c.op) = TRUE
      BY <1>1 DEF RegAt, Wanted, Lockout
    <3>2. robot'.regs[r] = robot.regs[r] \/ (RegAt(c.op, c.item) = r /\ robot'.regs[r] = Wanted(c.op))
      BY <1>1, <2>3 DEF Doc
    <3> QED BY <3>1, <3>2
  <2> QED BY <1>3, <2>1, <2>2, <2>3 DEF Carries
<1>4. ASSUME NEW i \in 1 .. Len(cmds), RobotTakes(i)
      PROVE  robot.regs[r] => robot'.regs[r]
  BY <1>1, <1>3, <1>4, ElementOfSeq DEF RobotTakes
<1>5. CASE Redelivery
  BY <1>1, <1>3, <1>5, HeadTailProperties DEF Redelivery
<1>6. CASE RobotEvent
  <2>1. CASE PanelClean \/ AutoCycle
    BY <1>2, <2>1 DEF PanelClean, AutoCycle
  <2>2. CASE PanelLock
    <3>1. PICK b \in BOOLEAN : robot' = [robot EXCEPT !.regs[Lockout] = b]
      BY <2>2 DEF PanelLock
    <3> QED BY <1>1, <3>1 DEF Doc
  <2>3. CASE Refill \/ Telemetry \/ Announce
    BY <1>1, <2>3 DEF Refill, Telemetry, Announce, Doc
  <2> QED BY <1>6, <2>1, <2>2, <2>3 DEF RobotEvent
<1>7. CASE RobotDrops \/ LoseMessage \/ CycleEnds
  BY <1>1, <1>7 DEF RobotDrops, LoseMessage, CycleEnds, Doc
<1>8. CASE \E p \in Callers : (\E o \in OpsOf[p] : Call(p, o)) \/ Transaction(p)
  BY <1>8 DEF Call, Transaction, BeginUpdate, UpdateReply, UpdateTimeout, BeginWrite, SendNext,
     VerifyDoc, VerifyTimeout, BeginPress, EchoSeen, Courtesy, EchoTimeout, ConfirmDoc,
     ConfirmTimeout, BeginWifi, Finish
<1>9. CASE \E q \in Refreshers : Task(q)
  BY <1>9 DEF Task, StartRefresh, SendRefresh, CancelTask, Finish
<1>10. CASE Deliver \/ ThrottleElapses \/ Unload \/ UNCHANGED vars
  BY <1>10 DEF Deliver, ThrottleElapses, Unload, BeginUnload, BeginShutdown, EndShutdown,
               Unsubscribe, EntryStep, vars
<1> QED BY <1>4, <1>5, <1>6, <1>7, <1>8, <1>9, <1>10 DEF Next, Robot

(* A message the robot sends shows the robot as it is after the step.      *)
LEMMA SentNow ==
  ASSUME TypeOK, [Next]_vars
  PROVE  \/ msgs' = msgs
         \/ msgs # <<>> /\ msgs' = Tail(msgs)
         \/ \E m \in Message : /\ msgs' = Append(msgs, m)
                               /\ m.kind = "state" => m.doc = robot'
<1> USE DEF lockVars, procVars, eventVars, storeVars, robotVars, witnessVars
<1>1. TypeOK'
  BY TypeNext
<1>2. robot \in Doc /\ robot' \in Doc /\ cmds \in Seq(Command)
  BY <1>1 DEF TypeOK, OutsideOK, SentOK
<1> DEFINE Sent == \E m \in Message : msgs' = Append(msgs, m) /\ (m.kind = "state" => m.doc = robot')
<1>3. /\ Say(State(robot')) => Sent
      /\ UNCHANGED robot /\ Say(State(robot)) => Sent
      /\ \A o \in Ops \cup {NoOne} : Say(Activity(o)) => Sent
  BY <1>2 DEF Say, State, Activity, Message
<1>4. ASSUME NEW c \in Command, Carries(c)
      PROVE  msgs' = msgs \/ Sent
  BY <1>3, <1>4 DEF Carries, Command
<1>5. ASSUME NEW i \in 1 .. Len(cmds), RobotTakes(i)
      PROVE  msgs' = msgs \/ Sent
  BY <1>2, <1>4, <1>5, ElementOfSeq DEF RobotTakes
<1>6. CASE Redelivery
  BY <1>2, <1>4, <1>6, HeadTailProperties DEF Redelivery
<1>7. CASE RobotEvent
  BY <1>3, <1>7 DEF RobotEvent, PanelClean, PanelLock, AutoCycle, Refill, Telemetry, Announce,
                    Ops, CallOps, PressOps
<1>8. CASE RobotDrops \/ LoseMessage \/ CycleEnds
  BY <1>3, <1>8 DEF RobotDrops, LoseMessage, CycleEnds
<1>9. CASE \E p \in Callers : (\E o \in OpsOf[p] : Call(p, o)) \/ Transaction(p)
  BY <1>9 DEF Call, Transaction, BeginUpdate, UpdateReply, UpdateTimeout, BeginWrite, SendNext,
     VerifyDoc, VerifyTimeout, BeginPress, EchoSeen, Courtesy, EchoTimeout, ConfirmDoc,
     ConfirmTimeout, BeginWifi, Finish
<1>10. CASE \E q \in Refreshers : Task(q)
  BY <1>10 DEF Task, StartRefresh, SendRefresh, CancelTask, Finish
<1>11. CASE Deliver \/ ThrottleElapses \/ Unload \/ UNCHANGED vars
  BY <1>11 DEF Deliver, ThrottleElapses, Unload, BeginUnload, BeginShutdown, EndShutdown,
               Unsubscribe, EntryStep, vars
<1> QED BY <1>5, <1>6, <1>7, <1>8, <1>9, <1>10, <1>11 DEF Next, Robot

(* A document decoded is the message at the head of the channel.           *)
LEMMA DecodedFromHead ==
  ASSUME TypeOK, [Next]_vars
  PROVE  \/ doc' = doc
         \/ msgs # <<>> /\ Head(msgs).kind = "state" /\ doc' = Head(msgs).doc
<1> USE DEF lockVars, procVars, eventVars, storeVars, robotVars, witnessVars
<1>1. CASE \E p \in Callers : (\E o \in OpsOf[p] : Call(p, o)) \/ Transaction(p)
  BY <1>1 DEF Call, Transaction, BeginUpdate, UpdateReply, UpdateTimeout, BeginWrite, SendNext,
     VerifyDoc, VerifyTimeout, BeginPress, EchoSeen, Courtesy, EchoTimeout, ConfirmDoc,
     ConfirmTimeout, BeginWifi, Finish
<1>2. CASE \E q \in Refreshers : Task(q)
  BY <1>2 DEF Task, StartRefresh, SendRefresh, CancelTask, Finish
<1>3. CASE Deliver
  BY <1>3 DEF Deliver, Handled, DecodeState, DecodeActivity
<1>4. CASE ThrottleElapses \/ Unload \/ Robot \/ UNCHANGED vars
  BY <1>4 DEF ThrottleElapses, Unload, BeginUnload, BeginShutdown, EndShutdown, Unsubscribe,
     EntryStep, Robot, RobotTakes, Redelivery, RobotDrops, LoseMessage, RobotEvent, CycleEnds,
     External, vars
<1> QED BY <1>1, <1>2, <1>3, <1>4 DEF Next

(* Documents stay behind the robot.                                        *)
LEMMA NoneAheadNext ==
  ASSUME TypeOK, NEW r \in 1 .. Days, NoneAhead(r), [Next]_vars
  PROVE  NoneAhead(r)'
<1>1. robot.regs[r] => robot'.regs[r]
  BY TimesStay
<1>2. msgs \in Seq(Message)
  BY DEF TypeOK, OutsideOK
<1>3. Len(msgs) \in Nat
  BY <1>2, LenProperties
<1> SUFFICES ASSUME ~robot'.regs[r]
             PROVE  /\ ~doc'.regs[r]
                    /\ \A i \in 1 .. Len(msgs') : msgs'[i].kind = "state" => ~msgs'[i].doc.regs[r]
  BY DEF NoneAhead
<1>4. /\ ~doc.regs[r]
      /\ \A i \in 1 .. Len(msgs) : msgs[i].kind = "state" => ~msgs[i].doc.regs[r]
  BY <1>1 DEF NoneAhead
<1>5. ~doc'.regs[r]
  <2>1. CASE msgs # <<>> /\ Head(msgs).kind = "state" /\ doc' = Head(msgs).doc
    <3>1. Head(msgs) = msgs[1] /\ 1 \in 1 .. Len(msgs)
      BY <1>2, <1>3, <2>1
    <3> QED BY <1>4, <2>1, <3>1
  <2> QED BY <1>4, <2>1, DecodedFromHead
<1>6. \A i \in 1 .. Len(msgs') : msgs'[i].kind = "state" => ~msgs'[i].doc.regs[r]
  <2>1. CASE msgs # <<>> /\ msgs' = Tail(msgs)
    BY <1>2, <1>3, <1>4, <2>1, HeadTailProperties
  <2>2. ASSUME NEW m \in Message, msgs' = Append(msgs, m), m.kind = "state" => m.doc = robot'
        PROVE  \A i \in 1 .. Len(msgs') : msgs'[i].kind = "state" => ~msgs'[i].doc.regs[r]
    <3>1. /\ Len(msgs') = Len(msgs) + 1 /\ msgs'[Len(msgs) + 1] = m
          /\ \A i \in 1 .. Len(msgs) : msgs'[i] = msgs[i]
      BY <1>2, <2>2, AppendProperties
    <3>2. \A i \in 1 .. Len(msgs') : i \in 1 .. Len(msgs) \/ i = Len(msgs) + 1
      BY <1>3, <3>1
    <3> QED BY <1>4, <2>2, <3>1, <3>2
  <2> QED BY <1>4, <2>1, <2>2, SentNow
<1> QED BY <1>5, <1>6

(* A schedule write is suspended in its batch or its wait only, and what   *)
(* it has reported is the robot's schedule.                                *)
Scheduled(p) ==
  op[p] = "wake_time" => /\ pc[p] \in {"idle", "queued", "send", "verify"}
                         /\ outcome[p] = "ok" => \A r \in 1 .. Days : robot.regs[r]

(* A call's own step: a schedule write reports "ok" on a document that     *)
(* shows every day.                                                        *)
LEMMA OwnStepScheduled ==
  ASSUME TypeOK, NEW p \in Callers, Scheduled(p), \A r \in 1 .. Days : NoneAhead(r),
         (\E o \in OpsOf[p] : Call(p, o)) \/ Transaction(p)
  PROVE  Scheduled(p)'
<1> USE DEF robotVars
<1>1. /\ p \in Procs
      /\ pc \in [Procs -> Points] /\ op \in [Procs -> Ops] /\ outcome \in [Procs -> Outcomes]
  BY DEF TypeOK, SuspensionsOK, CallsOK, Procs
<1>2. \A where, f : Suspend(p, where, f) => pc'[p] = where /\ outcome'[p] = outcome[p]
  BY <1>1 DEF Suspend
<1>3. \A result : Return(p, result) => pc'[p] = "idle" /\ outcome'[p] = result
  BY <1>1 DEF Return
<1>4. CASE \E o \in OpsOf[p] : Call(p, o)
  BY <1>1, <1>4 DEF Call, Scheduled
<1>5. CASE BeginUpdate(p) \/ BeginPress(p) \/ BeginWifi(p)
  BY <1>5 DEF BeginUpdate, BeginPress, BeginWifi, UpdateOps, PressOps, Scheduled
<1>6. CASE BeginWrite(p) \/ SendNext(p) \/ VerifyTimeout(p)
  BY <1>2, <1>3, <1>6 DEF BeginWrite, SendNext, VerifyTimeout, Scheduled
<1>7. CASE VerifyDoc(p)
  <2>1. op[p] = "wake_time" /\ Verified(op[p], doc) => \A r \in 1 .. Days : robot.regs[r]
    BY DEF Verified, RegAt, BatchLen, Wanted, NoneAhead
  <2> QED BY <1>1, <1>3, <1>7, <2>1 DEF VerifyDoc, Scheduled
<1>8. CASE \/ UpdateReply(p) \/ UpdateTimeout(p) \/ EchoSeen(p) \/ Courtesy(p) \/ EchoTimeout(p)
           \/ ConfirmDoc(p) \/ ConfirmTimeout(p) \/ Finish(p)
  BY <1>8 DEF UpdateReply, UpdateTimeout, EchoSeen, Courtesy, EchoTimeout, ConfirmDoc,
              ConfirmTimeout, Finish, Scheduled
<1> QED BY <1>4, <1>5, <1>6, <1>7, <1>8 DEF Transaction

(* A schedule reported as written is the robot's schedule: every day's     *)
(* register holds the requested time, though any of the writes may have    *)
(* been dropped, delayed or repeated.                                      *)
THEOREM SchedulesAreTheRobots == Spec => []ReportedScheduleIsTheRobots
<1> DEFINE Kept == /\ \A r \in 1 .. Days : NoneAhead(r)
                   /\ \A p \in Callers : Scheduled(p)
<1>1. ASSUME Init PROVE Kept
  <2>1. \A r \in 1 .. Days : NoneAhead(r)
    BY <1>1 DEF Init, NoneAhead, Regs
  <2>2. \A p \in Callers : Scheduled(p)
    BY <1>1 DEF Init, Scheduled, Procs
  <2> QED BY <2>1, <2>2
<1>2. ASSUME Sound, Kept, [Next]_vars
      PROVE  Kept'
  <2>1. TypeOK /\ \A r \in 1 .. Days : (robot.regs[r] => robot'.regs[r]) /\ NoneAhead(r)'
    BY <1>2, TimesStay, NoneAheadNext DEF Sound
  <2> SUFFICES ASSUME NEW p \in Callers PROVE Scheduled(p)'
    BY <2>1
  <2>2. p \in Procs /\ Scheduled(p)
    BY <1>2 DEF Procs
  <2>3. CASE (\E o \in OpsOf[p] : Call(p, o)) \/ Transaction(p)
    BY <1>2, <2>1, <2>3, OwnStepScheduled
  <2>4. ASSUME pc'[p] = pc[p] /\ op'[p] = op[p] /\ outcome'[p] = outcome[p]
        PROVE  Scheduled(p)'
    BY <2>1, <2>2, <2>4 DEF Scheduled
  <2>5. ASSUME NEW q \in Procs, q # p, (\E o \in Ops : Call(q, o)) \/ Transaction(q) \/ Task(q)
        PROVE  Scheduled(p)'
    BY <2>1, <2>2, <2>4, <2>5, OthersStand
  <2>6. CASE Deliver \/ ThrottleElapses \/ Unload \/ Robot \/ UNCHANGED vars
    BY <2>1, <2>4, <2>6, OutsideStands
  <2>7. \A q \in Callers : q \in Procs /\ OpsOf[q] \subseteq Ops
    BY CoordinatorAssumption DEF Procs, Ops
  <2>8. \A r \in Refreshers : r \in Procs /\ r # p
    BY NoOneIsNoProcess DEF Procs
  <2> QED BY <1>2, <2>3, <2>5, <2>6, <2>7, <2>8 DEF Next
<1>3. Sound /\ Kept /\ [Next]_vars => Kept'
  BY <1>2
<1>4. Kept => ReportedScheduleIsTheRobots
  BY DEF Scheduled, ReportedScheduleIsTheRobots
<1> QED BY <1>1, <1>3, <1>4, Soundness, PTL DEF Spec
=============================================================================
