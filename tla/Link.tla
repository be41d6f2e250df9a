-------------------------------- MODULE Link --------------------------------
(***************************************************************************)
(* One command of the command line at a time, over MQTT, against one robot *)
(* (link.py, and the handlers of cli.py that use it): a setting written,   *)
(* read back and retried; a panel button pressed after the lock was asked  *)
(* for; a raw code; a register read.  Home Assistant and a finger on the   *)
(* panel work on the same robot meanwhile.  The robot and the broker are   *)
(* external.                                                               *)
(***************************************************************************)
EXTENDS Commands, FiniteSets

CONSTANTS
  Invocations,   \* what a person may type: a kind, a setting's or a button's name, an argument,
                 \* and whether --yes and --allow-dangerous are given
  Theirs,        \* codes Home Assistant may send the robot meanwhile
  DaysWritten,   \* the days a schedule setting writes, in order (a week in the code)
  Registers,     \* the registers the robot holds
  Retries,       \* --retries
  MaxCommands,   \* bound: commands run
  MaxEvents,     \* bound: losses, repetitions, other writers' commands, panel and robot events
  MaxQueue       \* bound: commands and messages on their way, and writes it has not committed

Kinds == {"set", "press", "send", "read"}

ASSUME LinkAssumption ==
  /\ \A i \in Invocations :
       /\ i.kind \in Kinds /\ i.arg \in Int
       /\ i.kind = "set" => i.name \in SettingNames
       /\ i.kind = "press" => i.name \in DOMAIN Buttons
       /\ i.yes \in BOOLEAN /\ i.dangerous \in BOOLEAN
  /\ Theirs \subseteq Codes
  /\ DaysWritten \in Seq(Days) /\ DaysWritten # <<>>
  /\ Registers \subseteq Bytes /\ KeypadLockout \in Registers
  /\ Retries \in Int /\ MaxCommands \in Nat /\ MaxEvents \in Nat /\ MaxQueue \in Nat

VARIABLES
  reg,       \* the robot's registers
  pend,      \* writes the robot accepted and has not committed yet
  ran,       \* presses the robot carried out that came over MQTT
  toRobot,   \* commands the broker holds for the robot
  fromRobot, \* messages the robot has published and nobody has had yet
  inbox,     \* messages on this connection not yet read
  connected, \* the connection of the command is up
  stage, job,\* where the command is, and its locals
  result,    \* what the last command reported
  counts,    \* commands run, and events of the world so far
  asked,     \* history: presses published, by the command line or by Home Assistant
  touched,   \* history: registers somebody else, or an earlier command, may still change
  steady,    \* history: the panel has been locked ever since the lock was asked for
  early      \* history: a document that says it was not was still on its way when it was asked for

robot == <<reg, pend, ran>>
wire == <<toRobot, fromRobot, inbox, connected>>
cli == <<stage, job, result>>
history == <<asked, touched, steady, early>>
vars == <<robot, wire, cli, counts, history>>

Results == {"none", "verified", "failed", "refused", "aborted", "requested", "sent", "read",
            "error"}
Stages == {"idle", "write", "read", "await", "asking", "lockcheck", "confirm", "press", "send"}

-----------------------------------------------------------------------------
(* Messages *)

Message(topic, c) == [topic |-> topic, register |-> c.register, value |-> c.value]

(* The subscription takes everything under the serial, the commands published on it too; *)
(* parse_message knows them by their topic.                                              *)
Readings_TopicIgnored(m) ==
  IF m.topic = "state" THEN {} ELSE {[register |-> m.register, value |-> m.value]}
Readings(m) == IF m.topic = "activity" THEN {[register |-> m.register, value |-> m.value]} ELSE {}
IsState(m) == m.topic = "state"

Hear(m) == IF connected THEN Append(inbox, m) ELSE inbox

(* Link.publish: the command leaves for the robot, and comes back on the subscription. *)
AtMostOnce_Never(c) == FALSE
AtMostOnce(c) == c.atMostOnce
Publish(c) ==
  /\ Len(toRobot) < MaxQueue /\ toRobot' = Append(toRobot, c)
  /\ inbox' = Append(inbox, Message("command", c.code))
  /\ asked' = IF IsEdgeTriggered(c.code) THEN asked + 1 ELSE asked

-----------------------------------------------------------------------------
(* The command *)

NoJob == [kind |-> "none", batch |-> <<>>, at |-> 1, tries |-> 1, prompt |-> FALSE,
          dangerous |-> FALSE]

(* Power and Connect are never pressed without a person's yes, Reset never needs one. *)
Prompts(i) == i.name \in {"power", "connect"} \/ (i.name # "reset" /\ ~i.yes)

(* A bare code: it goes at most once if it presses a button. *)
Raw(c) == Command(c, IsEdgeTriggered(c))
CodeTyped(n) ==
  LET nibble == (n \div 16777216) % 16 IN
  [type |-> IF nibble = 1 THEN "read" ELSE IF nibble = 2 THEN "write" ELSE "noop",
   register |-> (n \div 65536) % 256, value |-> n % 65536]

Batch(i) ==
  CASE i.kind = "set" -> BuildSetting(i.name, i.arg, DaysWritten)
    [] i.kind = "press" -> <<Press(Buttons[i.name])>>
    [] i.kind = "read" -> <<Command(EncodeRead(i.arg), FALSE)>>
    [] i.kind = "send" -> <<Raw(CodeTyped(i.arg))>>

Jobs(i) == [kind |-> i.kind, batch |-> Batch(i), at |-> 1, tries |-> 1,
            prompt |-> i.kind = "press" /\ Prompts(i), dangerous |-> i.dangerous]

Entrance == [set |-> "write", press |-> "asking", send |-> "send", read |-> "read"]

Current == job.batch[job.at]
(* Writes on their way or not committed, and readings taken before the command. *)
OnTheWay ==
  {toRobot[i].code.register : i \in {j \in 1 .. Len(toRobot) : toRobot[j].code.type = "write"}}
  \cup {pend[i].register : i \in 1 .. Len(pend)}
  \cup {fromRobot[i].register : i \in {j \in 1 .. Len(fromRobot) : fromRobot[j].topic = "activity"}}

Run(i) ==
  /\ stage = "idle" /\ counts.commands < MaxCommands
  /\ counts' = [counts EXCEPT !.commands = @ + 1]
  /\ job' = Jobs(i) /\ stage' = Entrance[i.kind] /\ result' = "none"
  /\ connected' = TRUE /\ inbox' = <<>>
  /\ touched' = OnTheWay /\ steady' = FALSE /\ early' = FALSE
  /\ UNCHANGED <<robot, toRobot, fromRobot, asked>>

Finish(r) == /\ stage' = "idle" /\ result' = r /\ connected' = FALSE /\ inbox' = <<>>
             /\ UNCHANGED <<job, toRobot, fromRobot>>

(* The broker is unreachable, drops the connection, or gives it to another session under *)
(* the same client-id.                                                                   *)
ConnectionLost ==
  /\ stage \notin {"idle", "confirm"} /\ counts.events < MaxEvents
  /\ counts' = [counts EXCEPT !.events = @ + 1]
  /\ Finish("error")
  /\ UNCHANGED <<robot, history>>

(* apply_setting and read_register; a message that has arrived is read before a wait ends. *)
Stays(s) == stage' = s /\ UNCHANGED <<result, connected, fromRobot>>

WriteSetting ==
  /\ stage = "write" /\ Publish(Current) /\ Stays("read")
  /\ UNCHANGED <<robot, job, counts, touched, steady, early>>

RequestReading ==
  /\ stage = "read"
  /\ Publish(Command(EncodeRead(Current.code.register), FALSE)) /\ Stays("await")
  /\ UNCHANGED <<robot, job, counts, touched, steady, early>>

Tries == IF Retries < 1 THEN 1 ELSE Retries

(* One try of the current write ended unconfirmed. *)
TryAgain ==
  IF job.kind = "set" /\ job.tries < Tries
  THEN /\ job' = [job EXCEPT !.tries = @ + 1] /\ Stays("write") /\ UNCHANGED toRobot
  ELSE Finish("failed")

Confirmed ==
  IF job.at < Len(job.batch)
  THEN /\ job' = [job EXCEPT !.at = @ + 1, !.tries = 1] /\ Stays("write")
       /\ inbox' = Tail(inbox) /\ UNCHANGED toRobot
  ELSE Finish("verified")

Confirms(r) == r.value = Current.code.value

HearReading ==
  /\ stage = "await" /\ inbox # <<>>
  /\ LET answers == {r \in Readings(Head(inbox)) : r.register = Current.code.register}
     IN \/ /\ answers = {} /\ inbox' = Tail(inbox) /\ Stays("await")
           /\ UNCHANGED <<job, toRobot>>
        \/ answers # {} /\ job.kind = "read" /\ Finish("read")
        \/ job.kind = "set" /\ (\E r \in answers : Confirms(r)) /\ Confirmed
        \/ /\ job.kind = "set" /\ answers # {} /\ ~\E r \in answers : Confirms(r)
           /\ TryAgain
           /\ stage' # "idle" => inbox' = Tail(inbox)
  /\ UNCHANGED <<robot, counts, history>>

ReadingTimeout ==
  /\ stage = "await" /\ inbox = <<>> /\ TryAgain
  /\ stage' # "idle" => UNCHANGED inbox
  /\ UNCHANGED <<robot, counts, history>>

(* _refuse_if_panel_locked, on a connection of its own: what arrived before the question   *)
(* is drained.  What was said before it and arrives after it is taken for its answer.      *)
Drained_Kept == inbox
Drained == <<>>

AskForState ==
  /\ stage = "asking" /\ Len(toRobot) < MaxQueue
  /\ toRobot' = Append(toRobot, Command(EncodeWrite(RequestState, 0), FALSE))
  /\ inbox' = Append(Drained, Message("command", EncodeWrite(RequestState, 0)))
  /\ steady' = (reg[KeypadLockout] = 1)
  /\ early' = \E i \in 1 .. Len(fromRobot) : IsState(fromRobot[i]) /\ fromRobot[i].value # 1
  /\ Stays("lockcheck")
  /\ UNCHANGED <<robot, job, counts, asked, touched>>

GoOn == /\ stage' = IF job.prompt THEN "confirm" ELSE "press"
        /\ connected' = FALSE /\ inbox' = <<>>
        /\ UNCHANGED <<job, result, toRobot, fromRobot>>

HearState ==
  /\ stage = "lockcheck" /\ inbox # <<>>
  /\ CASE ~IsState(Head(inbox)) -> /\ inbox' = Tail(inbox) /\ Stays("lockcheck")
                                   /\ UNCHANGED <<job, toRobot>>
       [] IsState(Head(inbox)) /\ Head(inbox).value = 1 -> Finish("refused")
       [] IsState(Head(inbox)) /\ Head(inbox).value # 1 -> GoOn
  /\ UNCHANGED <<robot, counts, history>>

StateTimeout ==
  /\ stage = "lockcheck" /\ inbox = <<>> /\ GoOn
  /\ UNCHANGED <<robot, counts, history>>

Answer(yes) ==
  /\ stage = "confirm"
  /\ IF yes THEN stage' = "press" /\ UNCHANGED <<job, result, wire>> ELSE Finish("aborted")
  /\ UNCHANGED <<robot, counts, history>>

(* The connection of the press is opened, used and closed. *)
Deliver(c, r) ==
  /\ Len(toRobot) < MaxQueue /\ toRobot' = Append(toRobot, c)
  /\ asked' = IF IsEdgeTriggered(c.code) THEN asked + 1 ELSE asked
  /\ stage' = "idle" /\ result' = r /\ connected' = FALSE /\ inbox' = <<>>
  /\ UNCHANGED <<robot, fromRobot, job, counts, touched, steady, early>>

SendPress == stage = "press" /\ Deliver(Current, "requested")

SendRaw == stage = "send" /\ Sendable(Current.code, job.dangerous) /\ Deliver(Current, "sent")
SendRefused ==
  /\ stage = "send" /\ ~Sendable(Current.code, job.dangerous) /\ Finish("refused")
  /\ UNCHANGED <<robot, counts, history>>

-----------------------------------------------------------------------------
(* The robot, the broker and everybody else *)

ReadOnly == 26 .. 28   \* 0x1A-0x1C: a write is acknowledged and discarded

Says(m) == Len(fromRobot) < MaxQueue /\ fromRobot' = Append(fromRobot, m)
Activity(r, v) == Says([topic |-> "activity", register |-> r, value |-> v])
StateDocument == Says([topic |-> "state", register |-> KeypadLockout, value |-> reg[KeypadLockout]])

CarryOut(c) ==
  CASE c.type = "read" /\ c.register \in Registers ->
         Activity(c.register, reg[c.register]) /\ UNCHANGED <<pend, ran>>
    [] c.type = "write" /\ c.register = PanelButton ->
         IF reg[KeypadLockout] = 0
         THEN ran' = ran + 1 /\ Activity(PanelButton, c.value) /\ UNCHANGED pend
         ELSE UNCHANGED <<pend, ran, fromRobot>>
    [] c.type = "write" /\ c.register = RequestState ->
         StateDocument /\ UNCHANGED <<pend, ran>>
    [] c.type = "write" /\ c.register \in Registers \cap ReadOnly ->
         Activity(c.register, reg[c.register]) /\ UNCHANGED <<pend, ran>>
    [] c.type = "write" /\ c.register \in Registers \ ReadOnly ->
         Len(pend) < MaxQueue /\ pend' = Append(pend, c) /\ UNCHANGED <<ran, fromRobot>>
    [] OTHER -> UNCHANGED <<pend, ran, fromRobot>>

Event == counts.events < MaxEvents /\ counts' = [counts EXCEPT !.events = @ + 1]

RobotTakes ==
  /\ toRobot # <<>> /\ CarryOut(Head(toRobot).code) /\ toRobot' = Tail(toRobot)
  /\ UNCHANGED <<reg, inbox, connected, cli, counts, history>>

(* However long ago it was said, a message reaches the connection there is now, if any. *)
Arrive ==
  /\ fromRobot # <<>> /\ fromRobot' = Tail(fromRobot) /\ inbox' = Hear(Head(fromRobot))
  /\ UNCHANGED <<robot, toRobot, connected, cli, counts, history>>

(* At QoS 1 a command whose acknowledgement was lost arrives again. *)
Redelivery ==
  /\ toRobot # <<>> /\ ~AtMostOnce(Head(toRobot)) /\ Event
  /\ CarryOut(Head(toRobot).code)
  /\ UNCHANGED <<reg, toRobot, inbox, connected, cli, history>>

LoseCommand ==
  /\ toRobot # <<>> /\ Event /\ toRobot' = Tail(toRobot)
  /\ UNCHANGED <<robot, fromRobot, inbox, connected, cli, history>>

SetRegister(r, v) ==
  /\ reg' = [reg EXCEPT ![r] = v]
  /\ steady' = (steady /\ reg'[KeypadLockout] = 1)

Commit ==
  /\ pend # <<>> /\ pend' = Tail(pend)
  /\ SetRegister(Head(pend).register, Head(pend).value)
  /\ UNCHANGED <<ran, wire, cli, counts, asked, touched, early>>

(* A finger turns the control lock on or off. *)
PanelLock ==
  /\ Event /\ SetRegister(KeypadLockout, 1 - reg[KeypadLockout])
  /\ touched' = touched \cup {KeypadLockout}
  /\ UNCHANGED <<pend, ran, wire, cli, asked, early>>

SpeakState == Event /\ StateDocument /\ UNCHANGED <<robot, toRobot, inbox, connected, cli, history>>

(* Home Assistant writes or reads a register of the same robot, or presses a button of it, *)
(* which it too sends at QoS 0.                                                            *)
OtherCommands(c) ==
  /\ Event /\ Len(toRobot) < MaxQueue /\ toRobot' = Append(toRobot, Raw(c))
  /\ inbox' = Hear(Message("command", c))
  /\ asked' = IF IsEdgeTriggered(c) THEN asked + 1 ELSE asked
  /\ touched' = IF c.type = "write" THEN touched \cup {c.register} ELSE touched
  /\ UNCHANGED <<robot, fromRobot, connected, cli, steady, early>>

World == \/ RobotTakes \/ Arrive \/ Redelivery \/ LoseCommand \/ Commit \/ PanelLock \/ SpeakState
         \/ \E c \in Theirs : OtherCommands(c)

Cli == \/ \E i \in Invocations : Run(i)
       \/ ConnectionLost
       \/ WriteSetting \/ RequestReading \/ HearReading \/ ReadingTimeout
       \/ AskForState \/ HearState \/ StateTimeout
       \/ \E yes \in BOOLEAN : Answer(yes)
       \/ SendPress \/ SendRaw \/ SendRefused

Init ==
  /\ reg \in {f \in [Registers -> {0, 1}] : \A r \in Registers \ {KeypadLockout} : f[r] = 0}
  /\ pend = <<>> /\ ran = 0 /\ toRobot = <<>> /\ fromRobot = <<>> /\ inbox = <<>>
  /\ connected = FALSE
  /\ stage = "idle" /\ job = NoJob /\ result = "none"
  /\ counts = [commands |-> 0, events |-> 0]
  /\ asked = 0 /\ touched = {} /\ steady = FALSE /\ early = FALSE

Next == Cli \/ World
Spec == Init /\ [][Next]_vars

-----------------------------------------------------------------------------
(* A set that reports "(verified)" leaves every register of its batch at the value written,  *)
(* unless somebody else, or an earlier command not yet carried out, writes that register too,  *)
(* or a reading of it taken before the command was still on its way:                           *)
(* neither the command's own echo, nor a reading of another register or of another try, nor  *)
(* the register the robot refuses to change can pass for the value (link.py apply_setting).  *)
VerifiedIsTheRobots ==
  result = "verified" =>
    \A i \in 1 .. Len(job.batch) :
      LET c == job.batch[i].code IN c.register \notin touched => reg[c.register] = c.value

(* The robot carries out no more presses than were published, by the command line or by Home  *)
(* Assistant, whatever the broker repeats: a press, typed as a code or by its name, goes at   *)
(* QoS 0 (commands.py at_most_once).                                                          *)
RunsWhatWasPressed == ran <= asked

(* A robot that is locked from the moment the lock is asked for goes on to its press in      *)
(* silence, or if a document that says it was not was still on its way then: what arrived     *)
(* before the question does not count, what was only said before it does                     *)
(* (cli.py _refuse_if_panel_locked, _fresh_state).                                            *)
LockedRobotIsSpared ==
  [][stage = "lockcheck" /\ stage' \in {"confirm", "press"} /\ steady => inbox = <<>> \/ early]_vars
=============================================================================
