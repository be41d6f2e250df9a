---------------------------- MODULE Coordinator ----------------------------
(***************************************************************************)
(* The Home Assistant coordinator of one robot                             *)
(* (custom_components/whiskerless/coordinator.py): the transactions it     *)
(* runs against the robot under `_io_lock`, the refresh tasks an activity  *)
(* message schedules, and the messages it decodes.                         *)
(*                                                                         *)
(* A process is a platform's call (a button press, a register write, the   *)
(* heartbeat, a calibration) or a refresh task.  A step of a process is    *)
(* the code between two awaits, which asyncio runs without interruption.   *)
(* The broker and the robot are external: commands and messages travel in  *)
(* FIFO channels that lose, delay and (QoS 1) repeat.                      *)
(***************************************************************************)
EXTENDS Naturals, Sequences, SequencesExt

CONSTANTS
  Callers,         \* one per platform and one for the heartbeat: each runs one call at a time
  Refreshers,      \* refresh tasks that may exist at once
  OpsOf,           \* the operations each caller performs
  NoOne,           \* nobody holds the lock, nothing is awaited, nothing is stored
  Days,            \* registers of one schedule write (seven in the code)
  Retries,         \* attempts of a write
  ReportsOdometer, \* whether the firmware reports odometerEmptyCycles
  MaxCalls,        \* bound: calls of each caller
  MaxEvents,       \* bound: events the robot, its panel and the broker originate
  MaxCmds,         \* bound: commands in flight (a further one is lost)
  MaxMsgs          \* bound: robot messages in flight

WriteOps  == {"lockout_on", "lockout_off", "wake_time"}
PressOps  == {"clean", "empty", "reset", "power"}
UpdateOps == {"heartbeat", "calibrate"}
CallOps   == WriteOps \cup PressOps \cup UpdateOps \cup {"wifi"}
Ops       == CallOps \cup {"refresh"}

ASSUME CoordinatorAssumption ==
  /\ Callers \cap Refreshers = {}
  /\ NoOne \notin Callers \cup Refreshers \cup Ops \cup Nat
  /\ OpsOf \in [Callers -> SUBSET CallOps]
  /\ Days \in Nat \ {0}
  /\ Retries \in Nat \ {0}
  /\ ReportsOdometer \in BOOLEAN
  /\ MaxCalls \in [Callers -> Nat]
  /\ MaxEvents \in Nat /\ MaxCmds \in Nat /\ MaxMsgs \in Nat

Procs == Callers \cup Refreshers

VARIABLES
  (* the coordinator *)
  holder,      \* who holds _io_lock
  waiters,     \* who waits for it, in order
  pc,          \* where each process is suspended
  op,          \* what it runs
  frame,       \* the locals of the call: attempt and next item of a write, `before` of a press
  outcome,     \* how its last call ended
  stateEvent,  \* _state_event
  doc,         \* _robot, the newest decoded state document
  pressEcho,   \* _press_echo
  awaited,     \* _awaited_press
  throttled,   \* the last activity refresh is under _ACTIVITY_THROTTLE old
  reference,   \* the litter level a calibration stored
  entry,       \* the config entry: loaded, unloading, shut down or unsubscribed
  (* external: the robot and the broker *)
  robot,       \* the robot's own state
  cmds,        \* commands on their way to the robot
  msgs,        \* messages on their way to Home Assistant
  (* history *)
  calls,       \* calls each caller has made
  events,      \* events the outside has originated
  acted,       \* how often the robot carried out the press of the current call
  evidence     \* what has been decoded in support of the current call

lockVars    == <<holder, waiters>>
procVars    == <<pc, op, frame, outcome, calls>>
eventVars   == <<stateEvent, doc, pressEcho, awaited, throttled>>
storeVars   == <<reference, entry>>
robotVars   == <<robot, events>>
witnessVars == <<acted, evidence>>
vars == <<lockVars, procVars, eventVars, storeVars, robotVars, cmds, msgs, witnessVars>>

(***************************************************************************)
(* Registers.  Register 0 is the keypad lockout, 1..Days the wake times;   *)
(* TRUE in a time register stands for the requested time.                  *)
(***************************************************************************)
Lockout == 0
Regs    == 0 .. Days

BatchLen(o)    == IF o = "wake_time" THEN Days ELSE 1
RegAt(o, i)    == IF o = "wake_time" THEN i ELSE Lockout
Wanted(o)      == o # "lockout_off"
Verified_First(o, d) == d.regs[RegAt(o, 1)] = Wanted(o) \* mutant: one day checked
Verified(o, d) == \A i \in 1 .. BatchLen(o) : d.regs[RegAt(o, i)] = Wanted(o)

(* The documents; the time-of-flight reading is suppressed while the globe turns. *)
Doc == [regs : [Regs -> BOOLEAN], status : {"ready", "clean_cycle"}, empties : Nat, level : Nat]
Reading(d)  == IF d.status = "ready" THEN d.level ELSE NoOne
Odometer(d) == IF ReportsOdometer THEN d.empties ELSE NoOne

(* Which presses a fresh state document can confirm, and when it does. *)
Confirmable(o, b) == o = "clean" \/ (o = "empty" /\ b # NoOne)
Confirms(o, b, d) ==
  \/ o = "clean" /\ d.status = "clean_cycle"
  \/ o = "empty" /\ Odometer(d) # NoOne /\ Odometer(d) # b

(* Commands and messages. *)
Command    == [kind : {"request", "write", "press"}, by : Procs, op : Ops, item : Nat, call : Nat]
Request(p) == [kind |-> "request", by |-> p, op |-> op[p], item |-> 0, call |-> 0]
Write(p, i) == [kind |-> "write", by |-> p, op |-> op[p], item |-> i, call |-> 0]
Press(p)   == [kind |-> "press", by |-> p, op |-> op[p], item |-> 0, call |-> calls[p]]
AtMostOnce_Never(c) == FALSE \* mutant: presses at QoS 1
AtMostOnce(c) == c.kind = "press"

Message == [kind : {"state"}, doc : Doc] \cup [kind : {"activity"}, press : Ops \cup {NoOne}]
State(r)    == [kind |-> "state", doc |-> r]
Activity(b) == [kind |-> "activity", press |-> b]

Frame   == [attempt : Nat, item : Nat, before : Nat \cup {NoOne}]
At(a, i) == [attempt |-> a, item |-> i, before |-> NoOne]
NoFrame == [attempt |-> 0, item |-> 0, before |-> NoOne]

Points   == {"idle", "created", "queued", "send", "verify", "reply",
             "echo", "courtesy", "confirm", "sent"}
Outcomes == {"none", "ok", "failed", "refused"}

SuspensionsOK == /\ holder \in Procs \cup {NoOne}
                 /\ pc \in [Procs -> Points]
                 /\ frame \in [Procs -> Frame]
                 /\ outcome \in [Procs -> Outcomes]
CallsOK       == /\ waiters \in Seq(Procs)
                 /\ op \in [Procs -> Ops]
                 /\ calls \in [Procs -> Nat]
                 /\ entry \in {"loaded", "unloading", "cancelling", "shutdown", "unloaded"}
EventsOK      == /\ stateEvent \in BOOLEAN
                 /\ doc \in Doc
                 /\ pressEcho \in BOOLEAN
                 /\ awaited \in PressOps \cup {NoOne}
                 /\ throttled \in BOOLEAN
                 /\ reference \in Nat \cup {NoOne}
SentOK        == /\ cmds \in Seq(Command)
                 /\ events \in Nat
OutsideOK     == /\ robot \in Doc
                 /\ msgs \in Seq(Message)
                 /\ acted \in [Procs -> Nat]
                 /\ evidence \in [Procs -> {"none", "shown"}]

TypeOK == SuspensionsOK /\ CallsOK /\ EventsOK /\ SentOK /\ OutsideOK

(* The entry has just loaded: its first refresh left the robot's state in `doc`. *)
Init ==
  /\ holder = NoOne /\ waiters = <<>>
  /\ pc = [p \in Procs |-> "idle"]
  /\ op = [p \in Procs |-> "refresh"]
  /\ frame = [p \in Procs |-> NoFrame]
  /\ outcome = [p \in Procs |-> "none"]
  /\ robot = [regs |-> [r \in Regs |-> FALSE], status |-> "ready", empties |-> 0, level |-> 0]
  /\ doc = robot
  /\ stateEvent = TRUE
  /\ pressEcho = FALSE /\ awaited = NoOne /\ throttled = FALSE
  /\ reference = NoOne /\ entry = "loaded"
  /\ cmds = <<>> /\ msgs = <<>>
  /\ calls = [p \in Procs |-> 0] /\ events = 0
  /\ acted = [p \in Procs |-> 0] /\ evidence = [p \in Procs |-> "none"]

-----------------------------------------------------------------------------
(***************************************************************************)
(* The lock.  asyncio.Lock is fair: a newcomer queues behind the waiters   *)
(* even while it is momentarily free.  A transaction that ends without     *)
(* suspending never shows as the holder.                                   *)
(***************************************************************************)
Granted(p) == pc[p] = "queued" /\ holder = NoOne /\ waiters # <<>> /\ Head(waiters) = p

Take == waiters' = Tail(waiters)

Suspend(p, where, locals) == /\ holder' = p
                             /\ pc' = [pc EXCEPT ![p] = where]
                             /\ frame' = [frame EXCEPT ![p] = locals]
                             /\ UNCHANGED outcome

Return(p, result) == /\ holder' = NoOne
                     /\ pc' = [pc EXCEPT ![p] = "idle"]
                     /\ frame' = [frame EXCEPT ![p] = NoFrame]
                     /\ outcome' = [outcome EXCEPT ![p] = result]

(* A publish the broker connection accepts, and one that raises. *)
Publish(c) == /\ cmds' = IF Len(cmds) < MaxCmds THEN Append(cmds, c) ELSE cmds
              /\ UNCHANGED events
PublishRaises == events < MaxEvents /\ events' = events + 1 /\ UNCHANGED cmds

(* A platform calls an operation; an empty cycle reads its baseline now. *)
Call(p, o) ==
  /\ entry = "loaded" /\ pc[p] = "idle" /\ calls[p] < MaxCalls[p]
  /\ pc' = [pc EXCEPT ![p] = "queued"] /\ op' = [op EXCEPT ![p] = o]
  /\ waiters' = Append(waiters, p)
  /\ frame' = [frame EXCEPT ![p].before = IF o = "empty" THEN Odometer(doc) ELSE NoOne]
  /\ outcome' = [outcome EXCEPT ![p] = "none"] /\ calls' = [calls EXCEPT ![p] = @ + 1]
  /\ evidence' = [evidence EXCEPT ![p] = "none"] /\ acted' = [acted EXCEPT ![p] = 0]
  /\ UNCHANGED <<holder, eventVars, storeVars, robotVars, cmds, msgs>>

(***************************************************************************)
(* _async_update_data: the heartbeat, and the reading a calibration takes. *)
(***************************************************************************)
BeginUpdate(p) ==
  /\ Granted(p) /\ op[p] \in UpdateOps /\ Take
  /\ stateEvent' = FALSE
  /\ \/ Publish(Request(p)) /\ Suspend(p, "reply", frame[p])
     \/ PublishRaises /\ Return(p, "failed")
  /\ UNCHANGED <<op, calls, doc, pressEcho, awaited, throttled,
                 storeVars, robot, msgs, witnessVars>>

(* The state event woke it: serve _robot; a calibration stores its reading. *)
UpdateReply(p) ==
  /\ pc[p] = "reply" /\ stateEvent
  /\ IF op[p] = "calibrate"
     THEN IF Reading(doc) = NoOne
          THEN Return(p, "failed") /\ UNCHANGED reference
          ELSE Return(p, "ok") /\ reference' = Reading(doc)
     ELSE Return(p, "ok") /\ UNCHANGED reference
  /\ UNCHANGED <<waiters, op, calls, eventVars, entry,
                 robotVars, cmds, msgs, witnessVars>>

(* No document within the timeout: UpdateFailed. *)
UpdateTimeout(p) ==
  /\ pc[p] = "reply"
  /\ Return(p, "failed")
  /\ UNCHANGED <<waiters, op, calls, eventVars, storeVars,
                 robotVars, cmds, msgs, witnessVars>>

(***************************************************************************)
(* _write_and_verify: each attempt clears the event, publishes the batch   *)
(* and a state request with a pause before each but the first, and waits   *)
(* for a document that shows the values.                                   *)
(***************************************************************************)
BeginWrite(p) ==
  /\ Granted(p) /\ op[p] \in WriteOps /\ Take
  /\ stateEvent' = FALSE
  /\ \/ Publish(Write(p, 1)) /\ Suspend(p, "send", At(1, 2))
     \/ PublishRaises /\ Return(p, "failed")
  /\ UNCHANGED <<op, calls, doc, pressEcho, awaited, throttled,
                 storeVars, robot, msgs, witnessVars>>

(* After the pause: the next item, or the state request that ends the batch. *)
SendNext(p) ==
  /\ pc[p] = "send"
  /\ \/ /\ frame[p].item <= BatchLen(op[p])
        /\ Publish(Write(p, frame[p].item))
        /\ Suspend(p, "send", At(frame[p].attempt, frame[p].item + 1))
     \/ /\ frame[p].item > BatchLen(op[p])
        /\ Publish(Request(p))
        /\ Suspend(p, "verify", frame[p])
     \/ PublishRaises /\ Return(p, "failed")
  /\ UNCHANGED <<waiters, op, calls, eventVars, storeVars, robot, msgs,
                 witnessVars>>

(* A document arrived: it shows every value, or the wait goes on. *)
VerifyDoc(p) ==
  /\ pc[p] = "verify" /\ stateEvent
  /\ stateEvent' = FALSE
  /\ IF Verified(op[p], doc) THEN Return(p, "ok") ELSE UNCHANGED <<holder, pc, frame, outcome>>
  /\ UNCHANGED <<waiters, op, calls, doc, pressEcho, awaited, throttled,
                 storeVars, robotVars, cmds, msgs, witnessVars>>

(* The attempt timed out: the next one starts, or "did not commit". *)
VerifyTimeout(p) ==
  /\ pc[p] = "verify"
  /\ \/ /\ frame[p].attempt = Retries
        /\ Return(p, "failed")
        /\ UNCHANGED <<stateEvent, events, cmds>>
     \/ /\ frame[p].attempt < Retries
        /\ stateEvent' = FALSE
        /\ \/ /\ Publish(Write(p, 1))
              /\ Suspend(p, "send", At(frame[p].attempt + 1, 2))
           \/ PublishRaises /\ Return(p, "failed")
  /\ UNCHANGED <<waiters, op, calls, doc, pressEcho, awaited, throttled,
                 storeVars, robot, msgs, witnessVars>>

(* _refuse_if_panel_locked, on the newest decoded document. *)
PanelLocked_Unchecked == FALSE \* mutant: the press goes out anyway
PanelLocked == doc.regs[Lockout]

(***************************************************************************)
(* _press_and_confirm: refused under the panel lock; published once; the   *)
(* echo confirms it, and without one a fresh document may.                 *)
(***************************************************************************)
BeginPress(p) ==
  /\ Granted(p) /\ op[p] \in PressOps /\ Take
  /\ \/ /\ PanelLocked
        /\ Return(p, "refused")
        /\ UNCHANGED <<pressEcho, awaited, events, cmds>>
     \/ /\ ~PanelLocked
        /\ pressEcho' = FALSE
        /\ \/ Publish(Press(p)) /\ Suspend(p, "echo", frame[p]) /\ awaited' = op[p]
           \/ PublishRaises /\ Return(p, "failed") /\ awaited' = NoOne
  /\ UNCHANGED <<op, calls, stateEvent, doc, throttled,
                 storeVars, robot, msgs, witnessVars>>

EchoSeen(p) ==
  /\ pc[p] = "echo" /\ pressEcho
  /\ Suspend(p, "courtesy", frame[p])
  /\ UNCHANGED <<waiters, op, calls, eventVars, storeVars,
                 robotVars, cmds, msgs, witnessVars>>

(* The courtesy refresh after the pause: its failure is suppressed. *)
Courtesy(p) ==
  /\ pc[p] = "courtesy"
  /\ \/ Publish(Request(p)) /\ Suspend(p, "sent", frame[p]) /\ UNCHANGED awaited
     \/ PublishRaises /\ Return(p, "ok") /\ awaited' = NoOne
  /\ UNCHANGED <<waiters, op, calls, stateEvent, doc, pressEcho, throttled,
                 storeVars, robot, msgs, witnessVars>>

(* No echo: ask the robot, when a document could tell. *)
EchoTimeout(p) ==
  /\ pc[p] = "echo"
  /\ awaited' = NoOne
  /\ \/ /\ ~Confirmable(op[p], frame[p].before)
        /\ Return(p, "failed")
        /\ UNCHANGED <<stateEvent, events, cmds>>
     \/ /\ Confirmable(op[p], frame[p].before)
        /\ stateEvent' = FALSE
        /\ \/ Publish(Request(p)) /\ Suspend(p, "confirm", frame[p])
           \/ PublishRaises /\ Return(p, "failed")
  /\ UNCHANGED <<waiters, op, calls, doc, pressEcho, throttled,
                 storeVars, robot, msgs, witnessVars>>

ConfirmDoc(p) ==
  /\ pc[p] = "confirm" /\ stateEvent
  /\ Return(p, IF Confirms(op[p], frame[p].before, doc) THEN "ok" ELSE "failed")
  /\ UNCHANGED <<waiters, op, calls, eventVars, storeVars,
                 robotVars, cmds, msgs, witnessVars>>

ConfirmTimeout_Never(p) == FALSE \* mutant: a wait without a timeout
ConfirmTimeout(p) ==
  /\ pc[p] = "confirm"
  /\ Return(p, "failed")
  /\ UNCHANGED <<waiters, op, calls, eventVars, storeVars,
                 robotVars, cmds, msgs, witnessVars>>

(* async_wifi_toggle: the publish is the whole operation. *)
BeginWifi(p) ==
  /\ Granted(p) /\ op[p] = "wifi" /\ Take
  /\ \/ /\ PanelLocked
        /\ Return(p, "refused")
        /\ UNCHANGED <<events, cmds>>
     \/ /\ ~PanelLocked
        /\ \/ Publish(Press(p)) /\ Suspend(p, "sent", frame[p])
           \/ PublishRaises /\ Return(p, "failed")
  /\ UNCHANGED <<op, calls, eventVars, storeVars, robot, msgs,
                 witnessVars>>

(* The last publish of a transaction returned: it is over. *)
Finish(p) ==
  /\ pc[p] = "sent"
  /\ Return(p, "ok")
  /\ awaited' = IF op[p] \in PressOps THEN NoOne ELSE awaited
  /\ UNCHANGED <<waiters, op, calls, stateEvent, doc, pressEcho, throttled,
                 storeVars, robotVars, cmds, msgs, witnessVars>>

(***************************************************************************)
(* _safe_request_state: the task queues for the lock, then publishes.      *)
(***************************************************************************)
StartRefresh(r) ==
  /\ pc[r] = "created" /\ entry # "cancelling"
  /\ pc' = [pc EXCEPT ![r] = "queued"] /\ waiters' = Append(waiters, r)
  /\ UNCHANGED <<holder, op, frame, outcome, calls, eventVars, storeVars,
                 robotVars, cmds, msgs, witnessVars>>

SendRefresh_NoLock(r) == \* mutant: checked when scheduled, not taken when sent
  /\ pc[r] = "queued" /\ entry # "cancelling"
  /\ \E i \in 1 .. Len(waiters) : waiters[i] = r /\ waiters' = RemoveAt(waiters, i)
  /\ pc' = [pc EXCEPT ![r] = "sent"] /\ Publish(Request(r))
  /\ UNCHANGED <<holder, frame, outcome, op, calls, eventVars, storeVars, robot, msgs, witnessVars>>
SendRefresh(r) ==
  /\ Granted(r) /\ op[r] = "refresh" /\ entry # "cancelling" /\ Take
  /\ \/ Publish(Request(r)) /\ Suspend(r, "sent", frame[r])
     \/ PublishRaises /\ Return(r, "failed")
  /\ UNCHANGED <<op, calls, eventVars, storeVars, robot, msgs,
                 witnessVars>>

-----------------------------------------------------------------------------
(***************************************************************************)
(* _handle_message.  Nothing is decoded once the entry is unloading.       *)
(***************************************************************************)
Shows(p, m) == \* message m, decoded now, supports the call p has in hand
  CASE m.kind = "activity" -> pc[p] = "echo" /\ m.press = op[p]
    [] m.kind = "state"    -> \/ pc[p] = "reply"
                              \/ pc[p] \in {"send", "verify"} /\ Verified(op[p], m.doc)
                              \/ pc[p] = "confirm" /\ Confirms(op[p], frame[p].before, m.doc)
Witnessed(m) == evidence' = [p \in Procs |-> IF Shows(p, m) THEN "shown" ELSE evidence[p]]

DecodeState(m) ==
  /\ m.kind = "state"
  /\ doc' = m.doc /\ stateEvent' = TRUE
  /\ Witnessed(m)
  /\ UNCHANGED <<pressEcho, throttled, pc, op>>

(* _schedule_activity_refresh: not under the lock, not within the throttle. *)
ScheduleRefresh ==
  \/ /\ holder # NoOne \/ throttled
     /\ UNCHANGED <<throttled, pc, op>>
  \/ /\ holder = NoOne /\ ~throttled
     /\ throttled' = TRUE
     /\ \E r \in Refreshers : /\ pc[r] = "idle"
                              /\ pc' = [pc EXCEPT ![r] = "created"]
                              /\ op' = [op EXCEPT ![r] = "refresh"]

(* _watch_press_echo *)
Echoes_Anything(m) == awaited # NoOne \* mutant: any activity counts as the echo
Echoes(m) == awaited # NoOne /\ m.press = awaited

DecodeActivity(m) ==
  /\ m.kind = "activity"
  /\ pressEcho' = (pressEcho \/ Echoes(m))
  /\ Witnessed(m)
  /\ ScheduleRefresh
  /\ UNCHANGED <<doc, stateEvent>>

Handled_WhileUnloading(m) == DecodeState(m) \/ DecodeActivity(m) \* mutant: no check of the entry
Handled(m) ==
  \/ entry = "loaded" /\ (DecodeState(m) \/ DecodeActivity(m))
  \/ entry # "loaded" /\ UNCHANGED <<pc, op, doc, stateEvent, pressEcho, throttled, evidence>>

Deliver ==
  /\ msgs # <<>> /\ msgs' = Tail(msgs)
  /\ Handled(Head(msgs))
  /\ UNCHANGED <<lockVars, frame, outcome, calls, awaited, storeVars, robotVars,
                 cmds, acted>>

ThrottleElapses ==
  /\ throttled /\ throttled' = FALSE
  /\ UNCHANGED <<lockVars, procVars, stateEvent, doc, pressEcho, awaited, storeVars, robotVars,
                 cmds, msgs, witnessVars>>

(***************************************************************************)
(* Unloading: the platforms unload, async_shutdown cancels the tasks and   *)
(* waits for them, and only then is the subscription dropped.              *)
(***************************************************************************)
EntryStep(from, to) ==
  /\ entry = from /\ entry' = to
  /\ UNCHANGED <<lockVars, procVars, eventVars, reference, robot, cmds, msgs, witnessVars>>

BeginUnload == events < MaxEvents /\ events' = events + 1 /\ EntryStep("loaded", "unloading")
BeginShutdown == EntryStep("unloading", "cancelling") /\ UNCHANGED events
EndShutdown == /\ \A r \in Refreshers : pc[r] = "idle"
               /\ EntryStep("cancelling", "shutdown") /\ UNCHANGED events
Unsubscribe == EntryStep("shutdown", "unloaded") /\ UNCHANGED events

(* A cancelled task leaves the waiters, or gives the lock back. *)
CancelTask_KeepsPlace(r) == \* mutant: a cancelled waiter stays in the queue
  /\ entry = "cancelling" /\ pc[r] \in {"queued", "created"}
  /\ pc' = [pc EXCEPT ![r] = "idle"]
  /\ UNCHANGED <<lockVars, op, frame, outcome, calls, eventVars, storeVars, robotVars,
                 cmds, msgs, witnessVars>>
CancelTask(r) ==
  /\ entry = "cancelling" /\ pc[r] # "idle"
  /\ pc' = [pc EXCEPT ![r] = "idle"]
  /\ \/ /\ pc[r] = "queued"
        /\ \E i \in 1 .. Len(waiters) : waiters[i] = r /\ waiters' = RemoveAt(waiters, i)
        /\ UNCHANGED holder
     \/ pc[r] = "sent" /\ holder' = NoOne /\ UNCHANGED waiters
     \/ pc[r] = "created" /\ UNCHANGED <<holder, waiters>>
  /\ UNCHANGED <<op, frame, outcome, calls, eventVars, storeVars, robotVars,
                 cmds, msgs, witnessVars>>

-----------------------------------------------------------------------------
(***************************************************************************)
(* External: the robot and the broker, as the code under src/ relies on    *)
(* them.  A write may be committed after the commands behind it.           *)
(***************************************************************************)
External == UNCHANGED <<lockVars, procVars, eventVars, storeVars>>

Say(m) == Len(msgs) < MaxMsgs /\ msgs' = Append(msgs, m)

Ran(r, o) == \* the robot after it carried out press o
  CASE o = "clean" -> [r EXCEPT !.status = "clean_cycle"]
    [] o = "empty" -> [r EXCEPT !.empties = @ + 1]
    [] OTHER       -> r

Carries(c) ==
  \/ /\ c.kind = "request"
     /\ Say(State(robot))
     /\ UNCHANGED <<robot, acted>>
  \/ /\ c.kind = "write"
     /\ robot' = [robot EXCEPT !.regs[RegAt(c.op, c.item)] = Wanted(c.op)]
     /\ Say(Activity(NoOne))
     /\ UNCHANGED acted
  \/ /\ c.kind = "press" /\ robot.regs[Lockout]
     /\ UNCHANGED <<robot, msgs, acted>>
  \/ /\ c.kind = "press" /\ ~robot.regs[Lockout]
     /\ robot' = Ran(robot, c.op)
     /\ acted' = [acted EXCEPT ![c.by] = IF c.call = calls[c.by] THEN @ + 1 ELSE @]
     /\ IF c.op = "wifi" THEN UNCHANGED msgs ELSE Say(Activity(c.op))

RobotTakes(i) ==
  /\ \A j \in 1 .. (i - 1) : cmds[j].kind = "write"
  /\ Carries(cmds[i])
  /\ cmds' = RemoveAt(cmds, i)
  /\ External /\ UNCHANGED <<events, evidence>>

(* QoS 1 delivers at least once. *)
Redelivery ==
  /\ events < MaxEvents /\ events' = events + 1
  /\ cmds # <<>> /\ ~AtMostOnce(Head(cmds)) /\ Carries(Head(cmds))
  /\ External /\ UNCHANGED <<cmds, evidence>>

RobotDrops ==
  /\ cmds # <<>> /\ cmds' = Tail(cmds)
  /\ External /\ UNCHANGED <<robotVars, msgs, witnessVars>>

LoseMessage ==
  /\ msgs # <<>> /\ msgs' = Tail(msgs)
  /\ External /\ UNCHANGED <<robotVars, cmds, witnessVars>>

(* What happens at the robot of its own accord. *)
PanelClean == /\ ~robot.regs[Lockout] /\ robot' = Ran(robot, "clean")
              /\ Say(Activity("clean"))
PanelLock  == /\ \E on \in BOOLEAN : /\ on # robot.regs[Lockout]
                                    /\ robot' = [robot EXCEPT !.regs[Lockout] = on]
              /\ Say(Activity(NoOne))
AutoCycle  == /\ robot' = Ran(robot, "clean")
              /\ Say(State(robot'))
Refill     == /\ robot' = [robot EXCEPT !.level = @ + 1]
              /\ UNCHANGED msgs
Telemetry  == Say(Activity(NoOne)) /\ UNCHANGED robot
Announce   == Say(State(robot)) /\ UNCHANGED robot

RobotEvent ==
  /\ events < MaxEvents /\ events' = events + 1
  /\ PanelClean \/ PanelLock \/ AutoCycle \/ Refill \/ Telemetry \/ Announce
  /\ External /\ UNCHANGED <<cmds, acted, evidence>>

CycleEnds ==
  /\ robot.status = "clean_cycle" /\ robot' = [robot EXCEPT !.status = "ready"]
  /\ Say(State(robot'))
  /\ External /\ UNCHANGED <<events, cmds, witnessVars>>

-----------------------------------------------------------------------------
Transaction(p) ==
  \/ BeginUpdate(p) \/ UpdateReply(p) \/ UpdateTimeout(p)
  \/ BeginWrite(p) \/ SendNext(p) \/ VerifyDoc(p) \/ VerifyTimeout(p)
  \/ BeginPress(p) \/ EchoSeen(p) \/ Courtesy(p) \/ EchoTimeout(p)
  \/ ConfirmDoc(p) \/ ConfirmTimeout(p)
  \/ BeginWifi(p) \/ Finish(p)

Task(r) == StartRefresh(r) \/ SendRefresh(r) \/ Finish(r) \/ CancelTask(r)

Unload == BeginUnload \/ BeginShutdown \/ EndShutdown \/ Unsubscribe

Robot == \/ \E i \in 1 .. Len(cmds) : RobotTakes(i)
         \/ Redelivery \/ RobotDrops \/ LoseMessage \/ RobotEvent \/ CycleEnds

Next ==
  \/ \E p \in Callers : (\E o \in OpsOf[p] : Call(p, o)) \/ Transaction(p)
  \/ \E r \in Refreshers : Task(r)
  \/ Deliver \/ ThrottleElapses \/ Unload \/ Robot

Spec == Init /\ [][Next]_vars

(***************************************************************************)
(* asyncio runs a ready callback and fires a timeout eventually, and       *)
(* async_shutdown runs to its end; nothing is asked of robot or broker.    *)
(***************************************************************************)
Fairness ==
  /\ \A p \in Callers : WF_vars(Transaction(p))
  /\ \A r \in Refreshers : WF_vars(Task(r))
  /\ WF_vars(BeginShutdown) /\ WF_vars(EndShutdown) /\ WF_vars(Unsubscribe)

FairSpec == Spec /\ Fairness

-----------------------------------------------------------------------------
Published == Len(cmds') > Len(cmds)
Newest    == cmds'[Len(cmds')]
HoldsLock == {"send", "verify", "reply", "echo", "courtesy", "confirm", "sent"}

(***************************************************************************)
(* The lock and the suspension points agree: whoever is suspended inside   *)
(* `async with self._io_lock` is the holder and nobody else is, and the    *)
(* waiters are exactly the processes suspended in acquire, each once.      *)
(***************************************************************************)
LockDiscipline ==
  /\ \A p \in Procs : pc[p] \in HoldsLock <=> holder = p
  /\ \A p \in Procs : pc[p] = "queued" <=> \E i \in 1 .. Len(waiters) : waiters[i] = p
  /\ \A i, j \in 1 .. Len(waiters) : waiters[i] = waiters[j] => i = j

(***************************************************************************)
(* The transactions, the refresh tasks and their cancellation implement    *)
(* Lease: turns at the robot are exclusive and are taken in the order they *)
(* were asked for, and only a process inside its turn gives it up.         *)
(***************************************************************************)
Phase == [p \in Procs |-> IF pc[p] = "queued" THEN "waiting"
                          ELSE IF pc[p] \in HoldsLock THEN "inside" ELSE "outside"]
Turns == INSTANCE Lease WITH owner <- holder, queue <- waiters, phase <- Phase
TakesTurns == Turns!Spec

(***************************************************************************)
(* Nothing else is published between the first and the last publish of a   *)
(* transaction: not a refresh, a heartbeat or another platform's command   *)
(* in the pauses of a batch (the comment on _WRITE_GAP, and the one in     *)
(* _schedule_activity_refresh on a requestState in the gap).               *)
(***************************************************************************)
ExclusivePublishing ==
  [][Published => /\ holder \in {NoOne, Newest.by}
                  /\ \A p \in Procs \ {Newest.by} : pc[p] \notin HoldsLock]_vars

(***************************************************************************)
(* A schedule reported as written is the robot's schedule: every day's     *)
(* register holds the requested time, though any of the writes may have    *)
(* been dropped, delayed or repeated (_write_and_verify, and the comment   *)
(* on checking every day in async_set_panel_sleep_time).                   *)
(***************************************************************************)
ReportedScheduleIsTheRobots ==
  \A p \in Callers : outcome[p] = "ok" /\ op[p] = "wake_time" => \A r \in 1 .. Days : robot.regs[r]

(***************************************************************************)
(* A press goes out only when the newest decoded document shows the panel  *)
(* unlocked, also a press that queued behind the write that locked it      *)
(* (_refuse_if_panel_locked).                                              *)
(***************************************************************************)
PressRespectsLock == [][Published /\ Newest.kind = "press" => ~doc.regs[Lockout]]_vars

(***************************************************************************)
(* One call makes the robot act on at most one press, whatever is lost,    *)
(* repeated or delayed ("a doubled cycle is worse than a press the user    *)
(* simply repeats": _press_and_confirm).                                   *)
(***************************************************************************)
PressActsAtMostOnce == \A p \in Callers : acted[p] <= 1

(***************************************************************************)
(* A call that returned normally rests on a message decoded after the      *)
(* call's own publish: an echo of its press while it waited, a document    *)
(* that confirms the press after the echo failed to come, a document with  *)
(* every value it wrote, or any document at all for an update.  An event   *)
(* or a document left over from before never counts.                       *)
(***************************************************************************)
SuccessRestsOnNewEvidence ==
  \A p \in Callers : outcome[p] = "ok" /\ op[p] # "wifi" => evidence[p] = "shown"

(***************************************************************************)
(* A press the robot was heard to act on in time is not reported failed,   *)
(* though the courtesy refresh behind it may raise (_press_and_confirm:    *)
(* reporting it would invite a second press).                              *)
(***************************************************************************)
EchoedPressSucceeds ==
  [][\A p \in Callers : pc[p] = "courtesy" /\ pc'[p] = "idle" => outcome'[p] = "ok"]_vars

(***************************************************************************)
(* What a person who presses a button is promised: an unlocked panel       *)
(* first, and no failure reported for a press the robot acted on in time.  *)
(***************************************************************************)
PressPromises == PressRespectsLock /\ EchoedPressSucceeds

(***************************************************************************)
(* _awaited_press names the press of the transaction that waits for it and *)
(* is gone when that transaction is, however it ends: an activity message  *)
(* can never confirm somebody else's press.                                *)
(***************************************************************************)
AwaitedBelongsToHolder ==
  awaited # NoOne => holder # NoOne /\ op[holder] = awaited /\ pc[holder] \in {"echo", "courtesy", "sent"}

(***************************************************************************)
(* No refresh task outlives async_shutdown: none is alive, and so none     *)
(* publishes, once the shutdown has gathered them, although messages keep  *)
(* arriving until the subscription is dropped.                             *)
(***************************************************************************)
NoTaskOutlivesShutdown ==
  entry \in {"shutdown", "unloaded"} => \A r \in Refreshers : pc[r] = "idle"

(***************************************************************************)
(* Every call returns and every refresh task ends, with the robot silent,  *)
(* the broker down or the entry unloading: the lock is handed on in order  *)
(* and every wait under it has a timeout.                                  *)
(***************************************************************************)
EveryCallReturns == \A p \in Procs : pc[p] # "idle" ~> pc[p] = "idle"
=============================================================================
