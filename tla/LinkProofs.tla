----------------------------- MODULE LinkProofs -----------------------------
(***************************************************************************)
(* The catalogue of commands, for every argument; and the command line's   *)
(* lock check, presses and verified settings, for every instance of Link:  *)
(* whatever is typed, however many commands, losses and other writers.     *)
(***************************************************************************)
EXTENDS Link, FunctionTheorems, FiniteSetTheorems, TLAPS

-----------------------------------------------------------------------------
(* The catalogue.  The leaves name SMT: the codes are large numbers, which *)
(* Zenon counts out.                                                       *)

LEMMA Packing ==
  ASSUME NEW r \in Int, NEW v \in Int, 0 <= v, v < 65536
  PROVE  (r * 65536 + v) \div 65536 = r /\ (r * 65536 + v) % 65536 = v
BY SMT

(* An element of the activity stream gives back the register and the value the robot read. *)
THEOREM ElementsDecode ==
  ASSUME NEW r \in Bytes, NEW v \in Words
  PROVE  DecodeActivityCode(Element(r, v)) = [register |-> r, value |-> v]
<1>1. r \in Int /\ 0 <= r /\ r < 256 /\ v \in Int /\ 0 <= v /\ v < 65536
  BY SMT DEF Bytes, Words, MaxWord
<1>2. Element(r, v) \div 65536 = r /\ Element(r, v) % 65536 = v
  BY <1>1, Packing, SMT DEF Element
<1>3. r % 256 = r
  BY <1>1, SMT
<1> QED BY <1>2, <1>3, SMT DEF DecodeActivityCode

LEMMA ClampRange ==
  ASSUME NEW n \in Int, NEW low \in Int, NEW high \in Int, low <= high
  PROVE  /\ Clamp(n, low, high) \in Int
         /\ low <= Clamp(n, low, high) /\ Clamp(n, low, high) <= high
BY SMT DEF Clamp

(* The commands a setting may be: a safe register, and a value of 16 bits. *)
IsSetting(s) == \E r \in SafeSettingsRegisters, v \in Words : s = Setting(r, v)

LEMMA SettingFits ==
  ASSUME NEW r \in Int, NEW v \in Int, r \in SafeSettingsRegisters, 0 <= v, v < 65536
  PROVE  IsSetting(Setting(r, v))
<1>1. MaxWord \in Int /\ v <= MaxWord
  BY SMT DEF MaxWord
<1>2. v \in Words
  BY <1>1, SMT DEF Words
<1> QED BY <1>2, SMT DEF IsSetting

LEMMA CatalogueFits ==
  ASSUME NEW s \in Settings
  PROVE  IsSetting(s)
<1>1. ASSUME NEW n \in Int, s = SetNightLightMode(n) PROVE IsSetting(s)
  <2>1. Clamp(n, 0, 2) \in Int /\ 0 <= Clamp(n, 0, 2) /\ Clamp(n, 0, 2) <= 2
    BY ClampRange, SMT
  <2>2. NightLightMode \in SafeSettingsRegisters /\ NightLightMode \in Int
    BY SMT DEF SafeSettingsRegisters, NightLightMode
  <2> QED BY <1>1, <2>1, <2>2, SettingFits, SMT DEF SetNightLightMode
<1>2. ASSUME NEW n \in Int, s = SetNightLightBrightness(n) PROVE IsSetting(s)
  <2>1. Clamp(n, 0, 100) \in Int /\ 0 <= Clamp(n, 0, 100) /\ Clamp(n, 0, 100) <= 100
    BY ClampRange, SMT
  <2>2. NightLightBrightness \in SafeSettingsRegisters /\ NightLightBrightness \in Int
    BY SMT DEF SafeSettingsRegisters, NightLightBrightness
  <2> QED BY <1>2, <2>1, <2>2, SettingFits, SMT DEF SetNightLightBrightness
<1>3. ASSUME NEW n \in Int, s = SetCleanCycleWait(n) PROVE IsSetting(s)
  <2>1. Clamp(n, 0, 255) \in Int /\ 0 <= Clamp(n, 0, 255) /\ Clamp(n, 0, 255) <= 255
    BY ClampRange, SMT
  <2>2. CleanCycleWait \in SafeSettingsRegisters /\ CleanCycleWait \in Int
    BY SMT DEF SafeSettingsRegisters, CleanCycleWait
  <2> QED BY <1>3, <2>1, <2>2, SettingFits, SMT DEF SetCleanCycleWait
<1>4. ASSUME NEW b \in BOOLEAN, NEW r \in {KeypadLockout, PanelSleepMode}, s = Setting(r, Bit(b))
      PROVE  IsSetting(s)
  <2>1. Bit(b) \in Int /\ 0 <= Bit(b) /\ Bit(b) < 65536
    BY SMT DEF Bit
  <2>2. r \in SafeSettingsRegisters /\ r \in Int
    BY SMT DEF SafeSettingsRegisters, KeypadLockout, PanelSleepMode
  <2> QED BY <1>4, <2>1, <2>2, SettingFits, SMT
<1>5. ASSUME NEW b \in BOOLEAN, s = SetWeekdaySleepEnabled(b) PROVE IsSetting(s)
  <2>1. WeekdaySleepEnabled \in SafeSettingsRegisters /\ WeekdaySleepEnabled \in Int
    BY SMT DEF SafeSettingsRegisters, WeekdaySleepEnabled
  <2> QED BY <1>5, <2>1, SettingFits, SMT DEF SetWeekdaySleepEnabled, AllDays
<1>6. ASSUME NEW h \in Int, NEW l \in Int, s = SetPanelBrightness(h, l) PROVE IsSetting(s)
  <2>1. /\ Clamp(h, 0, 255) \in Int /\ 0 <= Clamp(h, 0, 255) /\ Clamp(h, 0, 255) <= 255
        /\ Clamp(l, 0, 255) \in Int /\ 0 <= Clamp(l, 0, 255) /\ Clamp(l, 0, 255) <= 255
    BY ClampRange, SMT
  <2>2. PanelBrightness \in SafeSettingsRegisters /\ PanelBrightness \in Int
    BY SMT DEF SafeSettingsRegisters, PanelBrightness
  <2> QED BY <1>6, <2>1, <2>2, SettingFits, SMT DEF SetPanelBrightness
<1>7. ASSUME NEW d \in Days, NEW n \in Int, NEW r \in {SleepTime(d), WakeTime(d)},
             s = Setting(r, Clamp(n, 0, 1439))
      PROVE  IsSetting(s)
  <2>1. Clamp(n, 0, 1439) \in Int /\ 0 <= Clamp(n, 0, 1439) /\ Clamp(n, 0, 1439) <= 1439
    BY ClampRange, SMT
  <2>2. r \in SafeSettingsRegisters /\ r \in Int
    BY SMT DEF SafeSettingsRegisters, SleepTime, WakeTime, Days
  <2> QED BY <1>7, <2>1, <2>2, SettingFits, SMT
<1> QED BY <1>1, <1>2, <1>3, <1>4, <1>5, <1>6, <1>7, SMT
        DEF Settings, SetKeypadLockout, SetPanelSleepMode, SetSleepTime, SetWakeTime

(* Whatever number a person types, a setting's command fits the wire, is safe, and may be   *)
(* delivered more than once: no setting needs --allow-dangerous, and none is a press.       *)
THEOREM SettingsAreSendable ==
  ASSUME NEW s \in Settings
  PROVE  s.code \in Codes /\ Sendable(s.code, FALSE) /\ ~s.atMostOnce
<1>1. PICK r \in SafeSettingsRegisters, v \in Words : s = Setting(r, v)
  BY CatalogueFits, SMT DEF IsSetting
<1>2. r \in Int /\ r \in Bytes /\ r \notin NeverSendOpcodes \cup NeverSendRegisters
  BY SMT DEF SafeSettingsRegisters, Bytes, NeverSendOpcodes, NeverSendRegisters
<1>3. r # PanelButton
  BY SMT DEF SafeSettingsRegisters, PanelButton
<1>4. s = [code |-> [type |-> "write", register |-> r, value |-> v], atMostOnce |-> FALSE]
  BY <1>1, SMT DEF Setting, Command, EncodeWrite
<1>5. s.code.type = "write" /\ s.code.register = r
  BY <1>4, SMT
<1>6. ~Never(s.code) /\ Safe(s.code)
  BY <1>2, <1>3, <1>5, SMT DEF Never, Safe
<1>7. s.code \in Codes
  BY <1>2, <1>4, SMT DEF Codes
<1>8. ~s.atMostOnce
  BY <1>4, SMT
<1> QED BY <1>5, <1>6, <1>7, <1>8, SMT DEF Sendable, Classify

(* Every button goes at most once, none is refused outright, and exactly the two that can    *)
(* take the robot off the network need --allow-dangerous.                                    *)
THEOREM ButtonsAreGuarded ==
  ASSUME NEW b \in DOMAIN Buttons
  PROVE  /\ Press(Buttons[b]).atMostOnce
         /\ IsEdgeTriggered(Press(Buttons[b]).code)
         /\ Sendable(Press(Buttons[b]).code, TRUE)
         /\ Sendable(Press(Buttons[b]).code, FALSE) <=> b \notin {"power", "connect"}
<1>1. b \in {"clean", "reset", "empty", "power", "connect"}
  BY SMT DEF Buttons
<1> DEFINE c == Press(Buttons[b]).code
<1>2. /\ Press(Buttons[b]).atMostOnce
      /\ c = [type |-> "write", register |-> PanelButton, value |-> Buttons[b]]
  BY SMT DEF Press, Command, EncodeWrite
<1>3. c.type = "write" /\ c.register = PanelButton /\ c.value = Buttons[b]
  BY <1>2, SMT
<1>4. Buttons[b] \notin PanelButtonNever
  BY <1>1, SMT DEF Buttons, PanelButtonNever
<1>5. Buttons[b] \in PanelButtonSafe <=> b \notin {"power", "connect"}
  BY <1>1, SMT DEF Buttons, PanelButtonSafe
<1>6. /\ PanelButton \notin NeverSendOpcodes \cup NeverSendRegisters
      /\ PanelButton \notin SafeReportMacros /\ PanelButton \notin SafeSettingsRegisters
  BY SMT DEF PanelButton, NeverSendOpcodes, NeverSendRegisters, SafeReportMacros,
             SafeSettingsRegisters
<1> HIDE DEF c
<1>7. ~Never(c)
  BY <1>3, <1>4, <1>6, SMT DEF Never
<1>8. Safe(c) <=> b \notin {"power", "connect"}
  BY <1>3, <1>5, <1>6, <1>7, SMT DEF Safe
<1>9. Classify(c) = IF b \in {"power", "connect"} THEN "dangerous" ELSE "safe"
  BY <1>3, <1>7, <1>8, SMT DEF Classify
<1> QED BY <1>2, <1>3, <1>9, SMT DEF c, Sendable, IsEdgeTriggered

-----------------------------------------------------------------------------
(* The lock check. *)

IsSeq(s) == \E S : s \in Seq(S)

(* No state document in s says that the panel is unlocked. *)
SaysLocked(s) == \A i \in 1 .. Len(s) : IsState(s[i]) => s[i].value = 1

(* What the lock check rests on: while it waits, as long as the panel has been locked, and  *)
(* unless a document that says otherwise was on its way when it asked, the panel is locked  *)
(* and every document that has arrived or is on its way says so.                            *)
LockInv ==
  /\ IsSeq(inbox) /\ IsSeq(fromRobot)
  /\ stage = "lockcheck" /\ steady /\ ~early
       => reg[KeypadLockout] = 1 /\ SaysLocked(inbox) /\ SaysLocked(fromRobot)

-----------------------------------------------------------------------------

LEMMA EmptyIsSeq == IsSeq(<<>>) /\ SaysLocked(<<>>)
<1>1. <<>> \in Seq({})
  OBVIOUS
<1> QED BY <1>1 DEF IsSeq, SaysLocked

LEMMA AppendSays ==
  ASSUME NEW s, IsSeq(s), NEW m
  PROVE  /\ IsSeq(Append(s, m))
         /\ SaysLocked(s) /\ (IsState(m) => m.value = 1) => SaysLocked(Append(s, m))
<1>1. PICK S : s \in Seq(S)
  BY DEF IsSeq
<1>2. s \in Seq(S \cup {m}) /\ m \in S \cup {m}
  BY <1>1
<1>3. Append(s, m) \in Seq(S \cup {m}) /\ Len(Append(s, m)) = Len(s) + 1
  BY <1>2
<1>4. \A i \in 1 .. Len(s) + 1 : Append(s, m)[i] = IF i <= Len(s) THEN s[i] ELSE m
  BY <1>2
<1>5. Len(s) \in Nat
  BY <1>1
<1> HIDE DEF IsState
<1> QED BY <1>3, <1>4, <1>5 DEF IsSeq, SaysLocked

LEMMA TailSays ==
  ASSUME NEW s, IsSeq(s), s # <<>>
  PROVE  /\ IsSeq(Tail(s))
         /\ SaysLocked(s) => SaysLocked(Tail(s)) /\ (IsState(Head(s)) => Head(s).value = 1)
<1>1. PICK S : s \in Seq(S)
  BY DEF IsSeq
<1>2. Tail(s) \in Seq(S) /\ Len(Tail(s)) = Len(s) - 1 /\ Len(s) \in Nat
  BY <1>1
<1>3. /\ \A i \in 1 .. Len(s) - 1 : Tail(s)[i] = s[i + 1]
      /\ Head(s) = s[1] /\ 1 \in 1 .. Len(s)
  BY <1>1
<1> QED BY <1>2, <1>3 DEF IsSeq, SaysLocked

(* What is heard of a command or of a register is no state document. *)
LEMMA HearSays ==
  ASSUME IsSeq(inbox), NEW m
  PROVE  /\ IsSeq(Hear(m))
         /\ SaysLocked(inbox) /\ (IsState(m) => m.value = 1) => SaysLocked(Hear(m))
BY AppendSays DEF Hear

LEMMA EchoesAreNotStates ==
  /\ \A c : ~IsState(Message("command", c))
  /\ \A r, v : ~IsState([topic |-> "activity", register |-> r, value |-> v])
BY DEF IsState, Message

(* What the robot says keeps the invariant's second half. *)
LEMMA SaysKeeps ==
  ASSUME LockInv, UNCHANGED <<reg, inbox, stage, steady, early>>,
         \/ UNCHANGED fromRobot
         \/ \E r, v : Activity(r, v)
         \/ StateDocument
  PROVE  LockInv'
<1>1. IsSeq(fromRobot)
  BY DEF LockInv
<1>2. CASE UNCHANGED fromRobot
  BY <1>2 DEF LockInv, SaysLocked, IsSeq
<1>3. CASE \E r, v : Activity(r, v)
  <2>1. PICK m : fromRobot' = Append(fromRobot, m) /\ ~IsState(m)
    BY <1>3, EchoesAreNotStates DEF Activity, Says
  <2>2. IsSeq(fromRobot') /\ (SaysLocked(fromRobot) => SaysLocked(fromRobot'))
    BY <1>1, <2>1, AppendSays
  <2> QED BY <2>2 DEF LockInv, SaysLocked, IsSeq
<1>4. CASE StateDocument
  <2> DEFINE m == [topic |-> "state", register |-> KeypadLockout, value |-> reg[KeypadLockout]]
  <2>1. fromRobot' = Append(fromRobot, m) /\ m.value = reg[KeypadLockout]
    BY <1>4 DEF StateDocument, Says
  <2> HIDE DEF m
  <2>2. /\ IsSeq(fromRobot')
        /\ SaysLocked(fromRobot) /\ reg[KeypadLockout] = 1 => SaysLocked(fromRobot')
    BY <1>1, <2>1, AppendSays
  <2> QED BY <2>2 DEF LockInv, SaysLocked, IsSeq
<1> QED BY <1>2, <1>3, <1>4

LEMMA AnswersSay ==
  ASSUME LockInv, NEW c, CarryOut(c), UNCHANGED <<reg, inbox, stage, steady, early>>
  PROVE  LockInv'
<1>1. \/ UNCHANGED fromRobot
      \/ \E r, v : Activity(r, v)
      \/ StateDocument
  BY Zenon DEF CarryOut
<1> QED BY <1>1, SaysKeeps

LEMMA LockInvInit == Init => LockInv
BY EmptyIsSeq DEF Init, LockInv

LEMMA FinishKeeps ==
  ASSUME LockInv, NEW r, Finish(r)
  PROVE  LockInv' /\ stage' = "idle"
BY EmptyIsSeq DEF Finish, LockInv

LEMMA TryAgainKeeps ==
  ASSUME LockInv, TryAgain, IsSeq(inbox')
  PROVE  LockInv' /\ stage' \notin {"lockcheck", "confirm", "press"}
BY FinishKeeps DEF TryAgain, Stays, LockInv

LEMMA LockInvNext ==
  ASSUME LockInv, [Next]_vars
  PROVE  LockInv'
<1>1. IsSeq(inbox)
  BY DEF LockInv
<1>2. ASSUME NEW i \in Invocations, Run(i)
      PROVE  LockInv'
  <2>1. i.kind \in Kinds
    BY LinkAssumption, Zenon
  <2>2. Entrance[i.kind] # "lockcheck"
    BY <2>1 DEF Entrance, Kinds
  <2>3. stage' # "lockcheck" /\ inbox' = <<>> /\ fromRobot' = fromRobot
    BY <1>2, <2>2 DEF Run
  <2> QED BY <2>3, EmptyIsSeq DEF LockInv
<1>3. CASE ConnectionLost
  BY <1>3, FinishKeeps DEF ConnectionLost
<1>4. CASE WriteSetting
  BY <1>1, <1>4, AppendSays DEF WriteSetting, Publish, Stays, LockInv
<1>5. CASE RequestReading
  BY <1>1, <1>5, AppendSays DEF RequestReading, Publish, Stays, LockInv
<1>6. CASE HearReading
  <2>1. inbox # <<>> /\ IsSeq(Tail(inbox))
    BY <1>1, <1>6, TailSays DEF HearReading
  <2>2. \/ inbox' = Tail(inbox) /\ Stays("await")
        \/ Finish("read")
        \/ Confirmed
        \/ TryAgain /\ (stage' # "idle" => inbox' = Tail(inbox))
    BY <1>6 DEF HearReading
  <2>3. CASE inbox' = Tail(inbox) /\ Stays("await")
    BY <2>1, <2>3 DEF Stays, LockInv
  <2>4. CASE Confirmed
    BY <2>1, <2>4, FinishKeeps DEF Confirmed, Stays, LockInv
  <2>5. CASE TryAgain /\ (stage' # "idle" => inbox' = Tail(inbox))
    BY <2>1, <2>5, FinishKeeps DEF TryAgain, Stays, LockInv
  <2> QED BY <2>2, <2>3, <2>4, <2>5, FinishKeeps
<1>7. CASE ReadingTimeout
  BY <1>1, <1>7, FinishKeeps DEF ReadingTimeout, TryAgain, Stays, LockInv
<1>8. CASE AskForState
  <2>1. inbox' = Append(<<>>, Message("command", EncodeWrite(RequestState, 0)))
    BY <1>8 DEF AskForState, Drained
  <2>2. IsSeq(inbox') /\ SaysLocked(inbox')
    BY <2>1, EmptyIsSeq, AppendSays, EchoesAreNotStates
  <2>3. /\ steady' => reg'[KeypadLockout] = 1
        /\ ~early' => SaysLocked(fromRobot') /\ IsSeq(fromRobot')
        /\ IsSeq(fromRobot')
    BY <1>8 DEF AskForState, robot, Stays, SaysLocked, LockInv, IsSeq
  <2> QED BY <2>2, <2>3 DEF LockInv
<1>9. CASE HearState
  <2>1. inbox # <<>> /\ IsSeq(Tail(inbox)) /\ (SaysLocked(inbox) => SaysLocked(Tail(inbox)))
    BY <1>1, <1>9, TailSays DEF HearState
  <2>2. UNCHANGED <<reg, steady, early>> /\ stage = "lockcheck"
    BY <1>9 DEF HearState, robot, history
  <2>3. \/ inbox' = Tail(inbox) /\ Stays("lockcheck")
        \/ Finish("refused")
        \/ GoOn
    BY <1>9 DEF HearState
  <2>4. CASE inbox' = Tail(inbox) /\ Stays("lockcheck")
    BY <2>1, <2>2, <2>4 DEF LockInv, Stays
  <2>5. CASE GoOn
    BY <2>5, EmptyIsSeq DEF GoOn, LockInv
  <2> QED BY <2>3, <2>4, <2>5, FinishKeeps
<1>10. CASE StateTimeout
  BY <1>10, EmptyIsSeq DEF StateTimeout, GoOn, LockInv
<1>11. ASSUME NEW yes \in BOOLEAN, Answer(yes)
       PROVE  LockInv'
  BY <1>1, <1>11, FinishKeeps DEF Answer, wire, LockInv
<1>12. CASE SendPress \/ SendRaw \/ SendRefused
  BY <1>12, EmptyIsSeq, FinishKeeps DEF SendPress, SendRaw, SendRefused, Deliver, LockInv
<1>13. CASE RobotTakes
  BY <1>13, AnswersSay DEF RobotTakes, cli, history
<1>14. CASE Redelivery
  BY <1>14, AnswersSay DEF Redelivery, cli, history
<1>15. CASE LoseCommand
  BY <1>15, SaysKeeps DEF LoseCommand, robot, cli, history
<1>16. CASE Commit \/ PanelLock
  <2>1. /\ UNCHANGED <<inbox, fromRobot, stage, early>>
        /\ steady' => steady /\ reg'[KeypadLockout] = 1
    BY <1>16 DEF Commit, PanelLock, SetRegister, wire, cli
  <2> QED BY <2>1 DEF LockInv, SaysLocked, IsSeq
<1>17. CASE Arrive
  <2> DEFINE m == Head(fromRobot)
  <2>1. /\ fromRobot # <<>> /\ fromRobot' = Tail(fromRobot) /\ inbox' = Hear(m)
        /\ UNCHANGED <<reg, stage, steady, early>> /\ IsSeq(fromRobot)
    BY <1>17 DEF Arrive, robot, cli, history, LockInv
  <2>2. /\ IsSeq(fromRobot')
        /\ SaysLocked(fromRobot) => SaysLocked(fromRobot') /\ (IsState(m) => m.value = 1)
    BY <2>1, TailSays
  <2> HIDE DEF m
  <2>3. /\ IsSeq(inbox')
        /\ SaysLocked(inbox) /\ (IsState(m) => m.value = 1) => SaysLocked(inbox')
    BY <1>1, <2>1, HearSays
  <2> QED BY <2>1, <2>2, <2>3 DEF LockInv
<1>18. CASE SpeakState
  BY <1>18, SaysKeeps DEF SpeakState, robot, cli, history
<1>19. ASSUME NEW c \in Theirs, OtherCommands(c)
       PROVE  LockInv'
  <2>1. inbox' = Hear(Message("command", c)) /\ UNCHANGED <<reg, fromRobot, stage, steady, early>>
    BY <1>19 DEF OtherCommands, robot, cli
  <2>2. IsSeq(inbox') /\ (SaysLocked(inbox) => SaysLocked(inbox'))
    BY <1>1, <2>1, HearSays, EchoesAreNotStates
  <2> QED BY <2>1, <2>2 DEF LockInv, SaysLocked, IsSeq
<1>20. CASE UNCHANGED vars
  BY <1>20 DEF vars, robot, wire, cli, history, LockInv, SaysLocked, IsSeq
<1> QED BY <1>2, <1>3, <1>4, <1>5, <1>6, <1>7, <1>8, <1>9, <1>10, <1>11, <1>12, <1>13, <1>14,
           <1>15, <1>16, <1>17, <1>18, <1>19, <1>20 DEF Next, Cli, World

(* Only the two ends of the lock check lead on from it. *)
LEMMA OnlyTheLockCheckGoesOn ==
  ASSUME LockInv, [Next]_vars, stage = "lockcheck", stage' \in {"confirm", "press"}, steady
  PROVE  inbox = <<>> \/ early
<1>1. HearState \/ StateTimeout
  BY DEF Next, Cli, World, vars, Run, ConnectionLost, Finish, WriteSetting, RequestReading,
         HearReading, ReadingTimeout, AskForState, Answer, SendPress, SendRaw, SendRefused,
         Deliver, RobotTakes, Arrive, Redelivery, LoseCommand, Commit, PanelLock, SpeakState,
         OtherCommands, cli, Stays
<1>2. CASE HearState
  <2>1. IsState(Head(inbox)) /\ Head(inbox).value # 1 /\ inbox # <<>>
    BY <1>2 DEF HearState, Stays, Finish
  <2>2. PICK S : inbox \in Seq(S)
    BY DEF LockInv, IsSeq
  <2>3. Head(inbox) = inbox[1] /\ 1 \in 1 .. Len(inbox)
    BY <2>1, <2>2
  <2> QED BY <2>1, <2>3 DEF LockInv, SaysLocked
<1>3. CASE StateTimeout
  BY <1>3 DEF StateTimeout
<1> QED BY <1>1, <1>2, <1>3

(* A robot that is locked from the moment the lock is asked for goes on to its press only when *)
(* nothing was heard, or when a document that says it was not locked was still on its way when *)
(* the question left (_refuse_if_panel_locked, _fresh_state).                                  *)
THEOREM PressFindsNoLock == Spec => LockedRobotIsSpared
<1>1. LockInv /\ [Next]_vars
      => [stage = "lockcheck" /\ stage' \in {"confirm", "press"} /\ steady
          => inbox = <<>> \/ early]_vars
  BY OnlyTheLockCheckGoesOn
<1> QED BY <1>1, LockInvInit, LockInvNext, PTL DEF Spec, LockedRobotIsSpared

-----------------------------------------------------------------------------
(* Presses. *)

(* A command that presses a button is one that goes at most once. *)
GoesOnce(c) == IsEdgeTriggered(c.code) => c.atMostOnce
AllOnce(s) == IsSeq(s) /\ \A i \in 1 .. Len(s) : GoesOnce(s[i])

(* The presses in s. *)
Edged(s) == {i \in 1 .. Len(s) : IsEdgeTriggered(s[i].code)}

(* The command has a next code to send, and sends its presses once. *)
JobOnce ==
  /\ {"batch", "at"} \subseteq DOMAIN job
  /\ stage # "idle" => AllOnce(job.batch) /\ job.at \in 1 .. Len(job.batch)

(* Presses carried out and presses on their way are presses published. *)
Counted == /\ ran \in Nat /\ asked \in Nat
           /\ ran + Cardinality(Edged(toRobot)) <= asked

(* What RunsWhatWasPressed rests on: no press in flight, or still to be sent, can arrive    *)
(* twice, and each in flight was published.                                                 *)
PressInv == AllOnce(toRobot) /\ JobOnce /\ Counted

(* A sequence has finitely many presses. *)
LEMMA EdgedFinite ==
  ASSUME NEW s, IsSeq(s)
  PROVE  IsFiniteSet(Edged(s)) /\ Cardinality(Edged(s)) \in Nat
<1>1. PICK S : s \in Seq(S)
  BY DEF IsSeq
<1>2. Len(s) \in Nat /\ Edged(s) \subseteq 1 .. Len(s)
  BY <1>1 DEF Edged
<1>3. IsFiniteSet(1 .. Len(s))
  BY <1>2, FS_Interval
<1> QED BY <1>2, <1>3, FS_Subset, FS_CardinalityType

(* A command put behind the others counts if it presses. *)
LEMMA AppendEdged ==
  ASSUME NEW s, IsSeq(s), NEW c
  PROVE  /\ Cardinality(Edged(Append(s, c)))
              = Cardinality(Edged(s)) + (IF IsEdgeTriggered(c.code) THEN 1 ELSE 0)
         /\ AllOnce(s) /\ GoesOnce(c) => AllOnce(Append(s, c))
<1>1. PICK S : s \in Seq(S)
  BY DEF IsSeq
<1>2. s \in Seq(S \cup {c}) /\ c \in S \cup {c} /\ Len(s) \in Nat
  BY <1>1
<1>3. /\ Append(s, c) \in Seq(S \cup {c}) /\ Len(Append(s, c)) = Len(s) + 1
      /\ \A i \in 1 .. Len(s) + 1 : Append(s, c)[i] = IF i <= Len(s) THEN s[i] ELSE c
  BY <1>2
<1>4. Edged(Append(s, c)) = IF IsEdgeTriggered(c.code) THEN Edged(s) \cup {Len(s) + 1} ELSE Edged(s)
  <2> HIDE DEF IsEdgeTriggered
  <2> QED BY <1>2, <1>3 DEF Edged
<1>5. Len(s) + 1 \notin Edged(s)
  BY <1>2 DEF Edged
<1>6. IsFiniteSet(Edged(s)) /\ Cardinality(Edged(s)) \in Nat
  BY EdgedFinite
<1>7. Cardinality(Edged(s) \cup {Len(s) + 1}) = Cardinality(Edged(s)) + 1
  BY <1>5, <1>6, FS_AddElement
<1>8. AllOnce(s) /\ GoesOnce(c) => AllOnce(Append(s, c))
  BY <1>2, <1>3 DEF AllOnce, IsSeq
<1> QED BY <1>4, <1>6, <1>7, <1>8

(* Without its first command the sequence has one press fewer, if that was one. *)
LEMMA TailEdged ==
  ASSUME NEW s, IsSeq(s), s # <<>>
  PROVE  /\ Cardinality(Edged(s))
              = Cardinality(Edged(Tail(s))) + (IF IsEdgeTriggered(Head(s).code) THEN 1 ELSE 0)
         /\ AllOnce(s) => AllOnce(Tail(s)) /\ GoesOnce(Head(s))
<1>1. PICK S : s \in Seq(S)
  BY DEF IsSeq
<1>2. /\ Tail(s) \in Seq(S) /\ Len(Tail(s)) = Len(s) - 1 /\ Len(s) \in Nat /\ Len(s) # 0
      /\ \A i \in 1 .. Len(s) - 1 : Tail(s)[i] = s[i + 1]
      /\ Head(s) = s[1]
  BY <1>1
<1> DEFINE rest == Edged(s) \ {1}
           shift == [i \in rest |-> i - 1]
<1>3. \A i \in 1 .. Len(s) - 1 : i \in Edged(Tail(s)) <=> i + 1 \in rest
  <2> HIDE DEF IsEdgeTriggered
  <2> QED BY <1>2 DEF Edged
<1>4. /\ \A i \in rest : i \in Int /\ i - 1 \in 1 .. Len(s) - 1 /\ (i - 1) + 1 = i
      /\ Edged(Tail(s)) \subseteq 1 .. Len(s) - 1
  BY <1>2 DEF Edged
<1>5. shift \in Bijection(rest, Edged(Tail(s)))
  <2> HIDE DEF rest
  <2>1. \A i \in rest : i - 1 \in Edged(Tail(s))
    BY <1>3, <1>4
  <2>2. \A j \in Edged(Tail(s)) : j + 1 \in rest /\ (j + 1) - 1 = j
    BY <1>2, <1>3, <1>4
  <2>3. shift \in [rest -> Edged(Tail(s))]
    BY <2>1
  <2>4. \A a, b \in rest : shift[a] = shift[b] => a = b
    BY <1>4
  <2>5. \A j \in Edged(Tail(s)) : \E i \in rest : shift[i] = j
    BY <2>2
  <2> QED BY <2>3, <2>4, <2>5, Fun_IsBij
<1>6. IsFiniteSet(Edged(s)) /\ Cardinality(Edged(s)) \in Nat
  BY EdgedFinite
<1>7. IsFiniteSet(rest) /\ Cardinality(rest) = IF 1 \in Edged(s) THEN Cardinality(Edged(s)) - 1
                                               ELSE Cardinality(Edged(s))
  BY <1>6, FS_RemoveElement
<1>8. Cardinality(Edged(Tail(s))) = Cardinality(rest)
  BY <1>5, <1>7, FS_Bijection DEF ExistsBijection
<1>9. 1 \in Edged(s) <=> IsEdgeTriggered(Head(s).code)
  <2> HIDE DEF IsEdgeTriggered
  <2> QED BY <1>2 DEF Edged
<1>10. AllOnce(s) => AllOnce(Tail(s)) /\ GoesOnce(Head(s))
  BY <1>2 DEF AllOnce, IsSeq
<1> QED BY <1>6, <1>7, <1>8, <1>9, <1>10

(* Neither a setting nor a reading is a press, and what is one goes at most once. *)
LEMMA CommandsGoOnce ==
  /\ \A r, v : r # PanelButton => GoesOnce(Setting(r, v))
  /\ \A v : GoesOnce(Press(v))
  /\ \A r : GoesOnce(Command(EncodeRead(r), FALSE))
  /\ \A c : GoesOnce(Raw(c))
<1>1. \A r, v : r # PanelButton => GoesOnce(Setting(r, v))
  BY DEF GoesOnce, Setting, Command, EncodeWrite, IsEdgeTriggered
<1>2. \A v : GoesOnce(Press(v))
  BY Zenon DEF GoesOnce, Press, Command
<1>3. \A r : GoesOnce(Command(EncodeRead(r), FALSE))
  BY DEF GoesOnce, Command, EncodeRead, IsEdgeTriggered
<1>4. \A c : GoesOnce(Raw(c))
  BY Zenon DEF GoesOnce, Raw, Command
<1> QED BY <1>1, <1>2, <1>3, <1>4

(* A sequence of one command, or of one for each day. *)
LEMMA Sequences ==
  /\ \A c : GoesOnce(c) => AllOnce(<<c>>) /\ 1 \in 1 .. Len(<<c>>)
  /\ \A f : (\A k \in 1 .. Len(DaysWritten) : GoesOnce(f[k])) /\ f = [k \in 1 .. Len(DaysWritten) |-> f[k]]
            => AllOnce(f) /\ 1 \in 1 .. Len(f)
<1>1. ASSUME NEW c, GoesOnce(c)
      PROVE  AllOnce(<<c>>) /\ 1 \in 1 .. Len(<<c>>)
  <2>1. <<c>> \in Seq({c}) /\ Len(<<c>>) = 1 /\ <<c>>[1] = c
    OBVIOUS
  <2>2. 1 \in 1 .. Len(<<c>>) /\ \A i \in 1 .. Len(<<c>>) : <<c>>[i] = c
    BY <2>1
  <2> QED BY <1>1, <2>1, <2>2, Zenon DEF AllOnce, IsSeq
<1>2. ASSUME NEW f, \A k \in 1 .. Len(DaysWritten) : GoesOnce(f[k]),
             f = [k \in 1 .. Len(DaysWritten) |-> f[k]]
      PROVE  AllOnce(f) /\ 1 \in 1 .. Len(f)
  <2>1. Len(DaysWritten) \in Nat /\ Len(DaysWritten) # 0
    BY LinkAssumption
  <2> DEFINE S == {f[k] : k \in 1 .. Len(DaysWritten)}
  <2>2. f \in [1 .. Len(DaysWritten) -> S]
    BY <1>2
  <2>3. f \in Seq(S) /\ Len(f) = Len(DaysWritten)
    BY <2>1, <2>2
  <2>4. 1 \in 1 .. Len(f)
    BY <2>1, <2>3
  <2> QED BY <1>2, <2>3, <2>4, Zenon DEF AllOnce, IsSeq
<1> QED BY <1>1, <1>2

(* The commands of a setting write its register, or one register for each day. *)
LEMMA BuildsSettings ==
  ASSUME NEW name \in SettingNames, NEW n
  PROVE  LET b == BuildSetting(name, n, DaysWritten)
         IN AllOnce(b) /\ 1 \in 1 .. Len(b)
<1> DEFINE b == BuildSetting(name, n, DaysWritten)
<1>1. /\ \A m : SetNightLightMode(m) = Setting(NightLightMode, Clamp(m, 0, 2))
      /\ \A m : SetNightLightBrightness(m) = Setting(NightLightBrightness, Clamp(m, 0, 100))
      /\ \A m : SetCleanCycleWait(m) = Setting(CleanCycleWait, Clamp(m, 0, 255))
      /\ \A on : SetKeypadLockout(on) = Setting(KeypadLockout, Bit(on))
      /\ \A on : SetPanelSleepMode(on) = Setting(PanelSleepMode, Bit(on))
      /\ \A on : SetWeekdaySleepEnabled(on) = Setting(WeekdaySleepEnabled, IF on THEN AllDays ELSE 0)
      /\ \A h, l : SetPanelBrightness(h, l)
                     = Setting(PanelBrightness, Clamp(h, 0, 255) * 256 + Clamp(l, 0, 255))
  BY Zenon DEF SetNightLightMode, SetNightLightBrightness, SetCleanCycleWait, SetKeypadLockout,
               SetPanelSleepMode, SetWeekdaySleepEnabled, SetPanelBrightness
<1>2. /\ \A r \in {NightLightMode, NightLightBrightness, CleanCycleWait, KeypadLockout,
                   PanelSleepMode, WeekdaySleepEnabled, PanelBrightness} : r # PanelButton
      /\ \A d \in Days : SleepTime(d) # PanelButton /\ WakeTime(d) # PanelButton
  BY SMT DEF NightLightMode, NightLightBrightness, CleanCycleWait, KeypadLockout, PanelSleepMode,
             WeekdaySleepEnabled, PanelBrightness, PanelButton, SleepTime, WakeTime, Days
<1>3. \A k \in 1 .. Len(DaysWritten) : DaysWritten[k] \in Days
  BY LinkAssumption
<1>4. CASE name \in {"night-light-mode", "night-light-brightness", "clean-cycle-wait",
                     "keypad-lockout", "panel-sleep-mode", "weekday-sleep-enabled",
                     "panel-brightness"}
  <2>1. \/ b = <<SetNightLightMode(n)>> \/ b = <<SetNightLightBrightness(n)>>
        \/ b = <<SetCleanCycleWait(n)>> \/ b = <<SetKeypadLockout(n = 1)>>
        \/ b = <<SetPanelSleepMode(n = 1)>> \/ b = <<SetWeekdaySleepEnabled(n = 1)>>
        \/ b = <<SetPanelBrightness(n, n)>>
    BY <1>4, Zenon DEF BuildSetting
  <2>2. \E r, v : r # PanelButton /\ b = <<Setting(r, v)>>
    BY <1>1, <1>2, <2>1, Zenon
  <2> QED BY <2>2, CommandsGoOnce, Sequences, Zenon
<1>5. ASSUME NEW r, NEW v, b = [k \in 1 .. Len(DaysWritten) |-> Setting(r[k], v)],
             \A k \in 1 .. Len(DaysWritten) : r[k] # PanelButton
      PROVE  AllOnce(b) /\ 1 \in 1 .. Len(b)
  <2>1. \A k \in 1 .. Len(DaysWritten) : b[k] = Setting(r[k], v)
    BY <1>5, Zenon
  <2>2. b = [k \in 1 .. Len(DaysWritten) |-> b[k]]
    BY <1>5, <2>1, Zenon
  <2>3. \A k \in 1 .. Len(DaysWritten) : GoesOnce(b[k])
    BY <1>5, <2>1, CommandsGoOnce, Zenon
  <2> QED BY <2>2, <2>3, Sequences, Zenon
<1>6. PICK v : \A d : /\ SetSleepTime(d, n) = Setting(SleepTime(d), v)
                      /\ SetWakeTime(d, n) = Setting(WakeTime(d), v)
  BY SMT DEF SetSleepTime, SetWakeTime
<1>7. CASE name = "panel-sleep-time"
  <2> DEFINE r == [k \in 1 .. Len(DaysWritten) |-> SleepTime(DaysWritten[k])]
  <2>1. b = [k \in 1 .. Len(DaysWritten) |-> SetSleepTime(DaysWritten[k], n)]
    BY <1>7, Zenon DEF BuildSetting
  <2>2. \A k \in 1 .. Len(DaysWritten) : r[k] = SleepTime(DaysWritten[k]) /\ r[k] # PanelButton
    BY <1>2, <1>3, Zenon
  <2>3. b = [k \in 1 .. Len(DaysWritten) |-> Setting(r[k], v)]
    BY <1>6, <2>1, <2>2, Zenon
  <2> QED BY <1>5, <2>2, <2>3, Zenon
<1>8. CASE name = "panel-wake-time"
  <2> DEFINE r == [k \in 1 .. Len(DaysWritten) |-> WakeTime(DaysWritten[k])]
  <2>1. b = [k \in 1 .. Len(DaysWritten) |-> SetWakeTime(DaysWritten[k], n)]
    BY <1>8, Zenon DEF BuildSetting
  <2>2. \A k \in 1 .. Len(DaysWritten) : r[k] = WakeTime(DaysWritten[k]) /\ r[k] # PanelButton
    BY <1>2, <1>3, Zenon
  <2>3. b = [k \in 1 .. Len(DaysWritten) |-> Setting(r[k], v)]
    BY <1>6, <2>1, <2>2, Zenon
  <2> QED BY <1>5, <2>2, <2>3, Zenon
<1> QED BY <1>4, <1>7, <1>8, Zenon DEF SettingNames

(* Whatever is typed, the command has a code to send and sends its presses once. *)
LEMMA BatchOnce ==
  ASSUME NEW i \in Invocations
  PROVE  AllOnce(Batch(i)) /\ 1 \in 1 .. Len(Batch(i))
<1>1. /\ i.kind \in Kinds /\ i.arg \in Int
      /\ i.kind = "set" => i.name \in SettingNames
      /\ i.kind = "press" => i.name \in DOMAIN Buttons
  BY LinkAssumption, Zenon
<1>2. CASE i.kind = "set"
  <2>1. Batch(i) = BuildSetting(i.name, i.arg, DaysWritten)
    BY <1>2, Zenon DEF Batch
  <2> QED BY <1>1, <1>2, <2>1, BuildsSettings, Zenon
<1>3. CASE i.kind # "set"
  <2>1. \/ \E v : Batch(i) = <<Press(v)>>
        \/ Batch(i) = <<Command(EncodeRead(i.arg), FALSE)>>
        \/ \E c : Batch(i) = <<Raw(c)>>
    BY <1>1, <1>3, Zenon DEF Batch, Kinds
  <2> QED BY <2>1, CommandsGoOnce, Sequences, Zenon
<1> QED BY <1>2, <1>3

(* A command published joins those in flight, and is counted if it presses. *)
LEMMA PublishedCounts ==
  ASSUME AllOnce(toRobot), Counted, NEW c, GoesOnce(c), toRobot' = Append(toRobot, c),
         asked' = IF IsEdgeTriggered(c.code) THEN asked + 1 ELSE asked, ran' = ran
  PROVE  AllOnce(toRobot') /\ Counted'
<1>1. IsSeq(toRobot) /\ IsSeq(toRobot')
  BY AppendSays DEF AllOnce
<1>2. /\ Cardinality(Edged(toRobot')) = Cardinality(Edged(toRobot))
                                          + (IF IsEdgeTriggered(c.code) THEN 1 ELSE 0)
      /\ AllOnce(toRobot')
  BY <1>1, AppendEdged
<1>3. Cardinality(Edged(toRobot)) \in Nat
  BY <1>1, EdgedFinite
<1> HIDE DEF IsEdgeTriggered
<1> QED BY <1>2, <1>3 DEF Counted

(* The robot's count of presses goes up by a press it carries out, and by nothing else. *)
LEMMA RunsPresses ==
  ASSUME NEW c, CarryOut(c)
  PROVE  ran' = ran \/ (IsEdgeTriggered(c) /\ ran' = ran + 1)
BY Zenon DEF CarryOut, IsEdgeTriggered

(* A command leaves the broker, carried out or lost. *)
LEMMA TakenCounts ==
  ASSUME AllOnce(toRobot), Counted, toRobot # <<>>, toRobot' = Tail(toRobot), asked' = asked,
         ran' = ran \/ (IsEdgeTriggered(Head(toRobot).code) /\ ran' = ran + 1)
  PROVE  AllOnce(toRobot') /\ Counted'
<1>1. IsSeq(toRobot) /\ IsSeq(toRobot')
  BY TailSays DEF AllOnce
<1>2. /\ Cardinality(Edged(toRobot))
           = Cardinality(Edged(toRobot')) + (IF IsEdgeTriggered(Head(toRobot).code) THEN 1 ELSE 0)
      /\ AllOnce(toRobot')
  BY <1>1, TailEdged
<1>3. Cardinality(Edged(toRobot')) \in Nat
  BY <1>1, EdgedFinite
<1> HIDE DEF IsEdgeTriggered
<1> QED BY <1>2, <1>3 DEF Counted

(* The command in hand moves on through its batch, or ends. *)
LEMMA JobMoves ==
  ASSUME JobOnce, stage # "idle"
  PROVE  /\ \A r : Finish(r) => JobOnce'
         /\ UNCHANGED job => JobOnce'
         /\ TryAgain => JobOnce'
         /\ Confirmed => JobOnce'
<1>1. PICK S : job.batch \in Seq(S)
  BY DEF JobOnce, AllOnce, IsSeq
<1>2. Len(job.batch) \in Nat /\ job.at \in 1 .. Len(job.batch)
  BY <1>1 DEF JobOnce
<1>3. \A r : Finish(r) => JobOnce'
  BY DEF Finish, JobOnce
<1>4. UNCHANGED job => JobOnce'
  BY DEF JobOnce
<1>5. TryAgain => JobOnce'
  <2>1. CASE job' = [job EXCEPT !.tries = @ + 1]
    <3>1. job'.batch = job.batch /\ job'.at = job.at /\ DOMAIN job' = DOMAIN job
      BY <2>1 DEF JobOnce
    <3> QED BY <3>1 DEF JobOnce
  <2> QED BY <1>3, <2>1 DEF TryAgain
<1>6. Confirmed => JobOnce'
  <2>1. CASE job.at < Len(job.batch) /\ job' = [job EXCEPT !.at = @ + 1, !.tries = 1]
    <3>1. job'.batch = job.batch /\ job'.at = job.at + 1 /\ DOMAIN job' = DOMAIN job
      BY <2>1 DEF JobOnce
    <3>2. job'.at \in 1 .. Len(job.batch)
      BY <1>2, <2>1, <3>1
    <3> QED BY <3>1, <3>2 DEF JobOnce
  <2> QED BY <1>3, <2>1 DEF Confirmed
<1> QED BY <1>3, <1>4, <1>5, <1>6

(* Every step keeps the count. *)
LEMMA PressInvNext ==
  ASSUME PressInv, [Next]_vars
  PROVE  PressInv'
<1> USE DEF PressInv, robot, wire, cli, history
<1>1. stage # "idle" => GoesOnce(Current)
  BY DEF JobOnce, AllOnce, Current
<1>2. UNCHANGED <<toRobot, asked, ran>> => AllOnce(toRobot') /\ Counted'
  BY DEF Counted
<1>3. UNCHANGED <<stage, job>> => JobOnce'
  BY DEF JobOnce
<1>4. ASSUME NEW i \in Invocations, Run(i)
      PROVE  PressInv'
  <2>1. job'.batch = Batch(i) /\ job'.at = 1 /\ {"batch", "at"} \subseteq DOMAIN job'
    BY <1>4 DEF Run, Jobs
  <2>2. JobOnce'
    BY <2>1, BatchOnce DEF JobOnce
  <2> QED BY <1>2, <1>4, <2>2 DEF Run
<1>5. CASE ConnectionLost
  BY <1>2, <1>5, JobMoves DEF ConnectionLost, Finish
<1>6. CASE WriteSetting
  <2>1. AllOnce(toRobot') /\ Counted'
    BY <1>1, <1>6, PublishedCounts DEF WriteSetting, Publish
  <2> QED BY <1>6, <2>1, JobMoves DEF WriteSetting
<1>7. CASE RequestReading
  <2>1. AllOnce(toRobot') /\ Counted'
    BY <1>7, CommandsGoOnce, PublishedCounts DEF RequestReading, Publish
  <2> QED BY <1>7, <2>1, JobMoves DEF RequestReading
<1>8. CASE HearReading \/ ReadingTimeout
  <2>1. UNCHANGED <<toRobot, asked, ran>>
    BY <1>8 DEF HearReading, ReadingTimeout, TryAgain, Confirmed, Finish
  <2>2. JobOnce'
    BY <1>8, JobMoves DEF HearReading, ReadingTimeout
  <2> QED BY <1>2, <2>1, <2>2
<1>9. CASE AskForState
  <2> DEFINE c == Command(EncodeWrite(RequestState, 0), FALSE)
  <2>1. ~IsEdgeTriggered(c.code) /\ GoesOnce(c)
    BY SMT DEF GoesOnce, Command, EncodeWrite, IsEdgeTriggered, RequestState, PanelButton
  <2> HIDE DEF c
  <2>2. AllOnce(toRobot') /\ Counted'
    BY <1>9, <2>1, PublishedCounts DEF AskForState, c
  <2> QED BY <1>9, <2>2, JobMoves DEF AskForState
<1>10. CASE HearState \/ StateTimeout
  <2>1. UNCHANGED <<toRobot, asked, ran>>
    BY <1>10 DEF HearState, StateTimeout, GoOn, Finish
  <2>2. UNCHANGED job /\ stage # "idle"
    BY <1>10 DEF HearState, StateTimeout, GoOn, Finish
  <2> QED BY <1>2, <2>1, <2>2, JobMoves
<1>11. ASSUME NEW yes \in BOOLEAN, Answer(yes)
       PROVE  PressInv'
  BY <1>2, <1>11, JobMoves DEF Answer, Finish
<1>12. CASE SendPress \/ SendRaw
  <2>1. UNCHANGED <<job, ran>> /\ stage # "idle"
    BY <1>12 DEF SendPress, SendRaw, Deliver
  <2>2. AllOnce(toRobot') /\ Counted'
    BY <1>1, <1>12, <2>1, PublishedCounts DEF SendPress, SendRaw, Deliver
  <2> QED BY <2>1, <2>2, JobMoves
<1>13. CASE SendRefused
  BY <1>2, <1>13, JobMoves DEF SendRefused, Finish
<1>14. CASE RobotTakes
  BY <1>3, <1>14, RunsPresses, TakenCounts DEF RobotTakes
<1>15. CASE Redelivery
  <2>1. GoesOnce(Head(toRobot))
    BY <1>15, TailEdged DEF Redelivery, AllOnce
  <2>2. ran' = ran
    BY <1>15, <2>1, RunsPresses DEF Redelivery, AtMostOnce, GoesOnce
  <2> QED BY <1>2, <1>3, <1>15, <2>2 DEF Redelivery
<1>16. CASE LoseCommand
  BY <1>3, <1>16, TakenCounts DEF LoseCommand
<1>17. CASE Commit \/ PanelLock \/ SpeakState \/ Arrive \/ UNCHANGED vars
  BY <1>2, <1>3, <1>17 DEF Commit, PanelLock, SpeakState, Arrive, SetRegister, vars
<1>18. ASSUME NEW c \in Theirs, OtherCommands(c)
       PROVE  PressInv'
  <2>1. Raw(c).code = c
    BY DEF Raw, Command
  <2> QED BY <1>3, <1>18, <2>1, CommandsGoOnce, PublishedCounts DEF OtherCommands
<1> QED BY <1>4, <1>5, <1>6, <1>7, <1>8, <1>9, <1>10, <1>11, <1>12, <1>13, <1>14, <1>15, <1>16,
           <1>17, <1>18 DEF Next, Cli, World

(* Nothing is on its way, or in hand, at the start. *)
LEMMA PressInvInit == Init => PressInv
<1> SUFFICES ASSUME Init PROVE PressInv
  OBVIOUS
<1>1. <<>> \in Seq({}) /\ Len(<<>>) = 0 /\ Edged(<<>>) = {}
  BY DEF Edged
<1>2. toRobot = <<>>
  BY DEF Init
<1>3. IsSeq(toRobot)
  BY <1>1, <1>2 DEF IsSeq
<1>4. AllOnce(toRobot)
  <2>1. \A i \in 1..Len(toRobot) : GoesOnce(toRobot[i])
    BY <1>1, <1>2
  <2> QED BY <1>3, <2>1 DEF AllOnce
<1>5. Cardinality(Edged(toRobot)) = 0
  BY <1>1, <1>2, FS_EmptySet
<1> QED BY <1>4, <1>5 DEF Init, NoJob, PressInv, JobOnce, Counted

(* The robot carries out no more presses than were published, by the command line or by Home  *)
(* Assistant, whatever the broker repeats and whatever is typed.                              *)
THEOREM PressesRunOnce == Spec => []RunsWhatWasPressed
<1>1. Init => PressInv
  BY PressInvInit
<1>2. PressInv /\ [Next]_vars => PressInv'
  BY PressInvNext
<1>3. PressInv => RunsWhatWasPressed
  <2>1. AllOnce(toRobot) => Cardinality(Edged(toRobot)) \in Nat
    BY EdgedFinite DEF AllOnce
  <2> QED BY <2>1 DEF PressInv, Counted, RunsWhatWasPressed
<1> QED BY <1>1, <1>2, <1>3, PTL DEF Spec

-----------------------------------------------------------------------------
(* Verified settings. *)

(* What is in a sequence, and the codes the command writes. *)
Within(s) == {s[i] : i \in 1 .. Len(s)}
Writes == {k.code : k \in Within(job.batch)}

(* The register has the value written, unless somebody else may change it. *)
Holds(w) == w.register \notin touched => w.register \in Registers /\ reg[w.register] = w.value

(* Carrying out code c leaves every register of the command at the value it writes. *)
Meant(c) == \A w \in Writes : c.register = w.register /\ w.register \notin touched => c.value = w.value

(* What a message says that would confirm a write is true of the robot. *)
Tells(m) ==
  m.topic = "activity" =>
    \A w \in Writes : m.register = w.register /\ m.value = w.value => Holds(w)

(* A setting writes one value, to registers that only hold it. *)
Uniform == \A v, w \in Writes : v.value = w.value /\ v.register \notin {PanelButton, RequestState}

(* What is on its way to the robot, or not committed yet, says what the command says. *)
Flying == /\ \A k \in Within(toRobot) : k.code.type = "write" => Meant(k.code)
          /\ \A c \in Within(pend) : Meant(c)

(* What the command has confirmed holds. *)
Done == \A i \in 1 .. Len(job.batch) : i < job.at \/ result = "verified" => Holds(job.batch[i].code)

(* What the robot has said to this connection, arrived or on its way. *)
Messages == Within(inbox) \cup Within(fromRobot)

(* What VerifiedIsTheRobots rests on: from the moment a setting starts, nothing but its own *)
(* value can reach a register that nobody else touches, so that a register that has shown   *)
(* the value keeps it.                                                                      *)
SettingInv ==
  job.kind = "set" => Uniform /\ Flying /\ Done /\ \A m \in Messages : Tells(m)

(* The shapes the setting's invariant is about. *)
Shapes ==
  /\ IsSeq(pend) /\ DOMAIN reg = Registers
  /\ {"kind", "batch", "at"} \subseteq DOMAIN job
  /\ \A c \in Within(pend) : c.register \in Registers
  /\ result = "verified" => job.kind = "set"

VerifyInv == LockInv /\ PressInv /\ Shapes /\ SettingInv

(* What a queue holds after something joined or left it. *)
LEMMA WithinSays ==
  ASSUME NEW s, IsSeq(s)
  PROVE  /\ \A c : IsSeq(Append(s, c)) /\ Within(Append(s, c)) = Within(s) \cup {c}
         /\ s # <<>> => IsSeq(Tail(s)) /\ Within(Tail(s)) \subseteq Within(s) /\ Head(s) \in Within(s)
<1>1. PICK S : s \in Seq(S)
  BY DEF IsSeq
<1>2. ASSUME NEW c
      PROVE  IsSeq(Append(s, c)) /\ Within(Append(s, c)) = Within(s) \cup {c}
  <2>1. s \in Seq(S \cup {c}) /\ c \in S \cup {c} /\ Len(s) \in Nat
    BY <1>1
  <2>2. /\ Append(s, c) \in Seq(S \cup {c}) /\ Len(Append(s, c)) = Len(s) + 1
        /\ \A i \in 1 .. Len(s) + 1 : Append(s, c)[i] = IF i <= Len(s) THEN s[i] ELSE c
    BY <2>1
  <2> QED BY <2>1, <2>2 DEF Within, IsSeq
<1>3. ASSUME s # <<>>
      PROVE  IsSeq(Tail(s)) /\ Within(Tail(s)) \subseteq Within(s) /\ Head(s) \in Within(s)
  <2>1. /\ Tail(s) \in Seq(S) /\ Len(Tail(s)) = Len(s) - 1 /\ Len(s) \in Nat /\ Len(s) # 0
        /\ \A i \in 1 .. Len(s) - 1 : Tail(s)[i] = s[i + 1]
        /\ Head(s) = s[1]
    BY <1>1, <1>3
  <2> QED BY <2>1 DEF Within, IsSeq
<1> QED BY <1>2, <1>3

LEMMA NothingWithin == Within(<<>>) = {} /\ IsSeq(<<>>)
<1>1. <<>> \in Seq({}) /\ Len(<<>>) = 0
  OBVIOUS
<1> QED BY <1>1 DEF Within, IsSeq

(* The step goes on with the same command, and leaves registers that hold as they are. *)
Continues ==
  /\ job'.kind = job.kind /\ job'.batch = job.batch /\ touched \subseteq touched'
  /\ job.kind = "set" => \A w \in Writes : Holds(w) => Holds(w)'

(* What was meant, told and confirmed stays so. *)
LEMMA MeaningStays ==
  ASSUME Continues, job.kind = "set"
  PROVE  /\ Writes' = Writes
         /\ \A c : Meant(c) => Meant(c)'
         /\ \A m : Tells(m) => Tells(m)'
         /\ Uniform => Uniform'
<1>1. Writes' = Writes
  BY DEF Continues, Writes
<1>2. \A c : Meant(c) => Meant(c)'
  BY <1>1 DEF Continues, Meant
<1>3. \A m : Tells(m) => Tells(m)'
  BY <1>1 DEF Continues, Tells
<1>4. Uniform => Uniform'
  BY <1>1 DEF Uniform
<1> QED BY <1>1, <1>2, <1>3, <1>4

LEMMA DoneStays ==
  ASSUME Continues, Done, job.kind = "set", job'.at = job.at, result' = "verified" => result = "verified"
  PROVE  Done'
<1>1. \A i \in 1 .. Len(job.batch) : job.batch[i].code \in Writes
  BY DEF Writes, Within
<1> HIDE DEF Holds
<1> QED BY <1>1 DEF Done, Continues

(* What a step has to show for the setting's invariant. *)
LEMMA SettingStays ==
  ASSUME SettingInv, Continues, job.kind = "set" => Done',
         job.kind = "set" =>
           /\ \A k \in Within(toRobot') : k \in Within(toRobot) \/ (k.code.type = "write" => Meant(k.code)')
           /\ \A c \in Within(pend') : c \in Within(pend) \/ Meant(c)'
           /\ \A m \in Messages' : m \in Messages \/ Tells(m)'
  PROVE  SettingInv'
<1> SUFFICES ASSUME job.kind = "set"
             PROVE  Uniform' /\ Flying' /\ Done' /\ \A m \in Messages' : Tells(m)'
  BY DEF SettingInv, Continues
<1>1. /\ \A c : Meant(c) => Meant(c)'
      /\ \A m : Tells(m) => Tells(m)'
      /\ Uniform'
  BY MeaningStays DEF SettingInv
<1> HIDE DEF Meant, Tells
<1>2. Flying'
  BY <1>1 DEF SettingInv, Flying
<1>3. \A m \in Messages' : Tells(m)'
  BY <1>1 DEF SettingInv
<1> QED BY <1>1, <1>2, <1>3

(* Registers that nobody writes stay as they are. *)
LEMMA StillContinues ==
  ASSUME job'.kind = job.kind, job'.batch = job.batch, UNCHANGED reg, touched \subseteq touched'
  PROVE  Continues
BY DEF Continues, Writes, Holds

(* Echoes and states confirm nothing. *)
LEMMA EchoesTellNothing ==
  /\ \A c : Tells(Message("command", c))'
  /\ \A r, v : Tells([topic |-> "state", register |-> r, value |-> v])'
BY DEF Tells, Message

(* A setting's commands write one value, none to the panel's buttons or for a report. *)
LEMMA BatchUniform ==
  ASSUME NEW i \in Invocations, i.kind = "set", NEW k \in Within(Batch(i)), NEW j \in Within(Batch(i))
  PROVE  k.code.value = j.code.value /\ k.code.register \notin {PanelButton, RequestState}
<1> DEFINE n == i.arg
           b == BuildSetting(i.name, n, DaysWritten)
           Plain(r) == r \notin {PanelButton, RequestState}
<1>1. Batch(i) = b /\ i.name \in SettingNames
  BY LinkAssumption, Zenon DEF Batch
<1>2. /\ \A m : SetNightLightMode(m) = Setting(NightLightMode, Clamp(m, 0, 2))
      /\ \A m : SetNightLightBrightness(m) = Setting(NightLightBrightness, Clamp(m, 0, 100))
      /\ \A m : SetCleanCycleWait(m) = Setting(CleanCycleWait, Clamp(m, 0, 255))
      /\ \A on : SetKeypadLockout(on) = Setting(KeypadLockout, Bit(on))
      /\ \A on : SetPanelSleepMode(on) = Setting(PanelSleepMode, Bit(on))
      /\ \A on : SetWeekdaySleepEnabled(on) = Setting(WeekdaySleepEnabled, IF on THEN AllDays ELSE 0)
      /\ \A h, l : SetPanelBrightness(h, l)
                     = Setting(PanelBrightness, Clamp(h, 0, 255) * 256 + Clamp(l, 0, 255))
  BY Zenon DEF SetNightLightMode, SetNightLightBrightness, SetCleanCycleWait, SetKeypadLockout,
               SetPanelSleepMode, SetWeekdaySleepEnabled, SetPanelBrightness
<1>3. /\ \A r \in {NightLightMode, NightLightBrightness, CleanCycleWait, KeypadLockout,
                   PanelSleepMode, WeekdaySleepEnabled, PanelBrightness} : Plain(r)
      /\ \A d \in Days : Plain(SleepTime(d)) /\ Plain(WakeTime(d))
  BY SMT DEF NightLightMode, NightLightBrightness, CleanCycleWait, KeypadLockout, PanelSleepMode,
             WeekdaySleepEnabled, PanelBrightness, PanelButton, RequestState, SleepTime, WakeTime, Days
<1>4. \A x \in 1 .. Len(DaysWritten) : DaysWritten[x] \in Days
  BY LinkAssumption
<1>5. PICK v : \A d : /\ SetSleepTime(d, n) = Setting(SleepTime(d), v)
                      /\ SetWakeTime(d, n) = Setting(WakeTime(d), v)
  BY SMT DEF SetSleepTime, SetWakeTime
<1>6. \A q, u : Setting(q, u).code.register = q /\ Setting(q, u).code.value = u
  BY Zenon DEF Setting, Command, EncodeWrite
<1> HIDE DEF Plain, n
<1>7. CASE i.name \in {"night-light-mode", "night-light-brightness", "clean-cycle-wait",
                       "keypad-lockout", "panel-sleep-mode", "weekday-sleep-enabled",
                       "panel-brightness"}
  <2>1. \/ b = <<SetNightLightMode(n)>> \/ b = <<SetNightLightBrightness(n)>>
        \/ b = <<SetCleanCycleWait(n)>> \/ b = <<SetKeypadLockout(n = 1)>>
        \/ b = <<SetPanelSleepMode(n = 1)>> \/ b = <<SetWeekdaySleepEnabled(n = 1)>>
        \/ b = <<SetPanelBrightness(n, n)>>
    BY <1>7, Zenon DEF BuildSetting
  <2>2. PICK r, u : Plain(r) /\ b = <<Setting(r, u)>>
    BY <1>2, <1>3, <2>1, Zenon
  <2>3. \A c : Within(<<c>>) = {c}
    BY DEF Within
  <2>4. k = Setting(r, u) /\ j = Setting(r, u)
    BY <1>1, <2>2, <2>3
  <2>5. k.code.value = j.code.value /\ Plain(k.code.register)
    BY <1>6, <2>2, <2>4, Zenon
  <2> QED BY <2>5 DEF Plain
<1>8. ASSUME NEW r, b = [x \in 1 .. Len(DaysWritten) |-> Setting(r[x], v)],
             \A x \in 1 .. Len(DaysWritten) : Plain(r[x])
      PROVE  k.code.value = j.code.value /\ Plain(k.code.register)
  <2>1. Len(b) = Len(DaysWritten)
    BY <1>8, LinkAssumption, SMT
  <2>2. PICK x \in 1 .. Len(DaysWritten) : k = b[x]
    BY <1>1, <2>1 DEF Within
  <2>3. PICK y \in 1 .. Len(DaysWritten) : j = b[y]
    BY <1>1, <2>1 DEF Within
  <2>4. k = Setting(r[x], v) /\ j = Setting(r[y], v)
    BY <1>8, <2>2, <2>3, Zenon
  <2>5. k.code.value = v /\ j.code.value = v /\ k.code.register = r[x]
    BY <1>6, <2>4, Zenon
  <2> QED BY <1>8, <2>5, Zenon
<1>9. CASE i.name = "panel-sleep-time"
  <2> DEFINE r == [x \in 1 .. Len(DaysWritten) |-> SleepTime(DaysWritten[x])]
  <2>1. b = [x \in 1 .. Len(DaysWritten) |-> SetSleepTime(DaysWritten[x], n)]
    BY <1>9, Zenon DEF BuildSetting
  <2>2. \A x \in 1 .. Len(DaysWritten) : r[x] = SleepTime(DaysWritten[x]) /\ Plain(r[x])
    BY <1>3, <1>4, Zenon
  <2>3. b = [x \in 1 .. Len(DaysWritten) |-> Setting(r[x], v)]
    BY <1>5, <2>1, <2>2, Zenon
  <2> QED BY <1>8, <2>2, <2>3, Zenon DEF Plain
<1>10. CASE i.name = "panel-wake-time"
  <2> DEFINE r == [x \in 1 .. Len(DaysWritten) |-> WakeTime(DaysWritten[x])]
  <2>1. b = [x \in 1 .. Len(DaysWritten) |-> SetWakeTime(DaysWritten[x], n)]
    BY <1>10, Zenon DEF BuildSetting
  <2>2. \A x \in 1 .. Len(DaysWritten) : r[x] = WakeTime(DaysWritten[x]) /\ Plain(r[x])
    BY <1>3, <1>4, Zenon
  <2>3. b = [x \in 1 .. Len(DaysWritten) |-> Setting(r[x], v)]
    BY <1>5, <2>1, <2>2, Zenon
  <2> QED BY <1>8, <2>2, <2>3, Zenon DEF Plain
<1> QED BY <1>1, <1>7, <1>9, <1>10, Zenon DEF SettingNames

(* What carrying out a command adds to the writes to commit and to the messages. *)
LEMMA CarriedSays ==
  ASSUME NEW c, CarryOut(c)
  PROVE  /\ \/ pend' = pend
            \/ pend' = Append(pend, c) /\ c.type = "write" /\ c.register \in Registers
         /\ \/ fromRobot' = fromRobot \/ StateDocument
            \/ \E r \in Registers : Activity(r, reg[r])
            \/ \E v : Activity(PanelButton, v)
BY Zenon DEF CarryOut

LEMMA HeardWithin ==
  ASSUME IsSeq(inbox), IsSeq(fromRobot), NEW m
  PROVE  /\ Within(Hear(m)) \subseteq Within(inbox) \cup {m}
         /\ Says(m) => Within(fromRobot') = Within(fromRobot) \cup {m}
BY WithinSays DEF Hear, Says

(* A command in flight that is carried out keeps the setting's invariant. *)
LEMMA CarriedKeeps ==
  ASSUME VerifyInv, NEW k \in Within(toRobot), CarryOut(k.code),
         UNCHANGED <<reg, inbox, job, touched, result>>, Within(toRobot') \subseteq Within(toRobot)
  PROVE  Shapes' /\ SettingInv'
<1>1. /\ IsSeq(pend) /\ IsSeq(inbox) /\ IsSeq(fromRobot) /\ Continues
      /\ \A c \in Within(pend) : c.register \in Registers
  BY StillContinues DEF VerifyInv, Shapes, LockInv
<1>2. \/ pend' = pend
      \/ pend' = Append(pend, k.code) /\ k.code.type = "write" /\ k.code.register \in Registers
  BY CarriedSays
<1>3. /\ IsSeq(pend')
      /\ \A c \in Within(pend') : c \in Within(pend) \/ (c = k.code /\ c.type = "write" /\ c.register \in Registers)
  <2>1. CASE pend' = pend
    BY <1>1, <2>1
  <2>2. CASE pend' = Append(pend, k.code) /\ k.code.type = "write" /\ k.code.register \in Registers
    <3>1. IsSeq(pend') /\ Within(pend') = Within(pend) \cup {k.code}
      BY <1>1, <2>2, WithinSays
    <3> QED BY <2>2, <3>1
  <2> QED BY <1>2, <2>1, <2>2
<1>4. Shapes'
  BY <1>1, <1>3 DEF VerifyInv, Shapes
<1>5. ASSUME job.kind = "set"
      PROVE  /\ \A c \in Within(pend') : c \in Within(pend) \/ Meant(c)'
             /\ \A m \in Messages' : m \in Messages \/ Tells(m)'
             /\ Done'
  <2>1. Writes' = Writes /\ Uniform /\ Flying /\ Done /\ Uniform' /\ \A c : Meant(c) => Meant(c)'
    BY <1>1, <1>5, MeaningStays DEF VerifyInv, SettingInv
  <2>2. \A c \in Within(pend') : c \in Within(pend) \/ Meant(c)'
    <3> HIDE DEF Meant
    <3> QED BY <1>3, <2>1 DEF Flying
  <2>3. ASSUME NEW r \in Registers PROVE Tells([topic |-> "activity", register |-> r, value |-> reg[r]])'
    BY <2>3 DEF Tells, Holds
  <2>4. ASSUME NEW v PROVE Tells([topic |-> "activity", register |-> PanelButton, value |-> v])'
    BY <2>1 DEF Tells, Uniform
  <2>5. \A m \in Messages' : m \in Messages \/ Tells(m)'
    <3> HIDE DEF Tells
    <3>1. \A m \in Within(fromRobot') : m \in Within(fromRobot) \/ Tells(m)'
      <4>1. CASE fromRobot' = fromRobot
        BY <4>1
      <4>2. CASE StateDocument
        BY <1>1, <4>2, HeardWithin, EchoesTellNothing DEF StateDocument
      <4>3. CASE \E r \in Registers : Activity(r, reg[r])
        BY <1>1, <2>3, <4>3, HeardWithin DEF Activity
      <4>4. CASE \E v : Activity(PanelButton, v)
        BY <1>1, <2>4, <4>4, HeardWithin DEF Activity
      <4> QED BY <4>1, <4>2, <4>3, <4>4, CarriedSays
    <3> QED BY <3>1 DEF Messages
  <2>6. Done'
    BY <1>1, <1>5, <2>1, DoneStays
  <2> QED BY <2>2, <2>5, <2>6
<1>6. SettingInv'
  BY <1>1, <1>5, SettingStays DEF VerifyInv
<1> QED BY <1>4, <1>6

(* A command published for the robot keeps it, if it writes what is meant. *)
LEMMA PublishedKeeps ==
  ASSUME VerifyInv, NEW k, toRobot' = Append(toRobot, k), UNCHANGED <<reg, pend, job>>,
         touched \subseteq touched',
         result' = "verified" => result = "verified",
         job.kind = "set" /\ k.code.type = "write" => Meant(k.code)',
         \A m \in Messages' : m \in Messages \/ Tells(m)'
  PROVE  Shapes' /\ SettingInv'
<1>1. IsSeq(toRobot) /\ Continues
  BY StillContinues DEF VerifyInv, PressInv, AllOnce
<1>2. Shapes'
  BY DEF VerifyInv, Shapes
<1>3. Within(toRobot') = Within(toRobot) \cup {k}
  BY <1>1, WithinSays
<1>4. job.kind = "set" => Done'
  BY <1>1, DoneStays DEF VerifyInv, SettingInv
<1>5. job.kind = "set" => \A j \in Within(toRobot') : j \in Within(toRobot) \/ (j.code.type = "write" => Meant(j.code)')
  BY <1>3
<1>6. \A c \in Within(pend') : c \in Within(pend)
  OBVIOUS
<1>7. SettingInv'
  BY <1>1, <1>4, <1>5, <1>6, SettingStays DEF VerifyInv
<1> QED BY <1>2, <1>7

(* The command in hand writes what it means. *)
LEMMA CurrentMeant ==
  ASSUME VerifyInv, stage # "idle", UNCHANGED <<job, touched>>, NEW k, k = Current
  PROVE  k.code \in Writes /\ (job.kind = "set" => Meant(k.code)')
<1>1. k.code \in Writes
  BY DEF VerifyInv, PressInv, JobOnce, Current, Writes, Within
<1>2. Writes' = Writes
  BY DEF Writes
<1>3. ASSUME job.kind = "set" PROVE \A w \in Writes : k.code.value = w.value
  BY <1>1, <1>3 DEF VerifyInv, SettingInv, Uniform
<1>4. job.kind = "set" => Meant(k.code)'
  BY <1>2, <1>3 DEF Meant
<1> QED BY <1>1, <1>4

(* A step that only reads, or ends the command unverified, keeps it. *)
LEMMA QuietKeeps ==
  ASSUME VerifyInv, UNCHANGED <<reg, pend, toRobot, touched>>,
         job'.kind = job.kind, job'.batch = job.batch, DOMAIN job' = DOMAIN job,
         result' = "verified" => job.kind = "set",
         job.kind = "set" => Done',
         Messages' \subseteq Messages
  PROVE  Shapes' /\ SettingInv'
<1>1. Continues
  BY StillContinues
<1>2. Shapes'
  BY DEF VerifyInv, Shapes
<1>3. SettingInv'
  BY <1>1, SettingStays DEF VerifyInv
<1> QED BY <1>2, <1>3

(* The job in hand after a try, and after a confirmation. *)
LEMMA JobSays ==
  ASSUME Shapes
  PROVE  /\ TryAgain => /\ job'.kind = job.kind /\ job'.batch = job.batch /\ job'.at = job.at
                        /\ DOMAIN job' = DOMAIN job /\ result' \in {result, "failed"}
         /\ Confirmed => /\ job'.kind = job.kind /\ job'.batch = job.batch /\ DOMAIN job' = DOMAIN job
                         /\ \/ job'.at = job.at + 1 /\ result' = result
                            \/ job'.at = job.at /\ result' = "verified" /\ ~(job.at < Len(job.batch))
BY DEF Shapes, TryAgain, Confirmed, Finish, Stays

(* A setting that starts writes one value to its registers, and what is on its way from     *)
(* before does not count for it.                                                            *)
LEMMA RunVerifies ==
  ASSUME VerifyInv, NEW i \in Invocations, Run(i)
  PROVE  Shapes' /\ SettingInv'
<1>1. /\ job' = Jobs(i) /\ inbox' = <<>> /\ touched' = OnTheWay /\ result' = "none"
      /\ UNCHANGED <<reg, pend, toRobot, fromRobot>>
  BY DEF Run, robot
<1>2. /\ job'.kind = i.kind /\ job'.batch = Batch(i) /\ job'.at = 1
      /\ {"kind", "batch", "at"} \subseteq DOMAIN job'
  BY <1>1 DEF Jobs
<1>3. Shapes'
  BY <1>1, <1>2 DEF VerifyInv, Shapes
<1>4. ASSUME i.kind = "set"
      PROVE  Uniform' /\ Flying' /\ Done' /\ \A m \in Messages' : Tells(m)'
  <2>1. Uniform'
    BY <1>2, <1>4, BatchUniform DEF Uniform, Writes
  <2>2. \A k \in Within(toRobot) : k.code.type = "write" => k.code.register \in touched'
    BY <1>1 DEF OnTheWay, Within
  <2>3. \A c \in Within(pend) : c.register \in touched'
    BY <1>1 DEF OnTheWay, Within
  <2>4. Flying'
    BY <1>1, <2>2, <2>3 DEF Flying, Meant
  <2>5. Done'
    BY <1>1, <1>2, BatchOnce DEF Done
  <2>6. \A m \in Messages' : Tells(m)'
    <3>1. \A m \in Within(fromRobot) : m.topic = "activity" => m.register \in touched'
      BY <1>1 DEF OnTheWay, Within
    <3>2. \A m \in Within(fromRobot) : Tells(m)'
      BY <3>1 DEF Tells, Holds
    <3> QED BY <1>1, <3>2, NothingWithin DEF Messages
  <2> QED BY <2>1, <2>4, <2>5, <2>6
<1> QED BY <1>2, <1>3, <1>4 DEF SettingInv

(* A reading that confirms the write shows what the robot has. *)
LEMMA HearingVerifies ==
  ASSUME VerifyInv, HearReading
  PROVE  Shapes' /\ SettingInv'
<1> DEFINE m == Head(inbox)
           answers == {r \in Readings(m) : r.register = Current.code.register}
<1>1. /\ UNCHANGED <<reg, pend, touched>> /\ stage # "idle" /\ IsSeq(inbox) /\ inbox # <<>>
      /\ Shapes /\ fromRobot' = fromRobot
  BY DEF HearReading, TryAgain, Confirmed, Finish, Stays, robot, history, VerifyInv, LockInv
<1>2. /\ Within(Tail(inbox)) \subseteq Within(inbox) /\ m \in Messages /\ Within(<<>>) = {}
  BY <1>1, WithinSays, NothingWithin DEF Messages
<1>3. CASE \/ job' = job /\ result' = result /\ inbox' = Tail(inbox) /\ UNCHANGED toRobot
           \/ Finish("read")
  <2>1. /\ UNCHANGED <<toRobot, job>> /\ result' \in {result, "read"}
        /\ Messages' \subseteq Messages
    BY <1>1, <1>2, <1>3 DEF Finish, Messages
  <2>2. job.kind = "set" => Done'
    BY <1>1, <2>1, StillContinues, DoneStays DEF VerifyInv, SettingInv
  <2> QED BY <1>1, <2>1, <2>2, QuietKeeps DEF Shapes
<1>4. CASE TryAgain /\ (stage' # "idle" => inbox' = Tail(inbox))
  <2>1. UNCHANGED toRobot /\ Messages' \subseteq Messages
    BY <1>1, <1>2, <1>4 DEF TryAgain, Finish, Stays, Messages
  <2>2. /\ job'.kind = job.kind /\ job'.batch = job.batch /\ job'.at = job.at
        /\ DOMAIN job' = DOMAIN job /\ result' \in {result, "failed"}
    BY <1>1, <1>4, JobSays
  <2>3. job.kind = "set" => Done'
    BY <1>1, <2>2, StillContinues, DoneStays DEF VerifyInv, SettingInv
  <2> QED BY <1>1, <2>1, <2>2, <2>3, QuietKeeps DEF Shapes
<1>5. CASE job.kind = "set" /\ (\E r \in answers : Confirms(r)) /\ Confirmed
  <2>1. UNCHANGED toRobot /\ Messages' \subseteq Messages
    BY <1>1, <1>2, <1>5 DEF Confirmed, Finish, Messages
  <2>2. /\ job'.kind = job.kind /\ job'.batch = job.batch /\ DOMAIN job' = DOMAIN job
        /\ \/ job'.at = job.at + 1 /\ result' = result
           \/ job'.at = job.at /\ result' = "verified" /\ ~(job.at < Len(job.batch))
    BY <1>1, <1>5, JobSays
  <2>3. m.topic = "activity" /\ m.register = Current.code.register /\ m.value = Current.code.value
    BY <1>5 DEF Readings, Confirms
  <2>4. Holds(Current.code)
    <3>1. Tells(m) /\ Current.code \in Writes
      BY <1>1, <1>2, <1>5 DEF VerifyInv, SettingInv, PressInv, JobOnce, Current, Writes, Within
    <3> QED BY <2>3, <3>1 DEF Tells
  <2>5. Done'
    <3>1. job.at \in Int /\ job.at <= Len(job.batch) /\ Len(job.batch) \in Nat
      BY <1>1 DEF VerifyInv, PressInv, JobOnce, AllOnce, IsSeq
    <3>2. \A j \in 1 .. Len(job.batch) : Holds(job.batch[j].code)' <=> Holds(job.batch[j].code)
      BY <1>1, <2>2 DEF Holds
    <3>3. Done
      BY <1>5 DEF VerifyInv, SettingInv
    <3> HIDE DEF Holds
    <3>4. ASSUME NEW j \in 1 .. Len(job.batch), j < job'.at \/ result' = "verified"
          PROVE  Holds(job.batch[j].code)
      <4>1. CASE j = job.at
        BY <2>4, <4>1 DEF Current
      <4>2. CASE j # job.at
        BY <2>2, <3>1, <3>3, <3>4, <4>2 DEF Done
      <4> QED BY <4>1, <4>2
    <3> QED BY <2>2, <3>2, <3>4 DEF Done
  <2> QED BY <1>1, <1>5, <2>1, <2>2, <2>5, QuietKeeps
<1> QED BY <1>3, <1>4, <1>5 DEF HearReading, Stays

(* A register that changes changes to what was meant, or was touched. *)
LEMMA RegisterContinues ==
  ASSUME Shapes, NEW r \in Registers, NEW v, SetRegister(r, v), UNCHANGED job,
         touched \subseteq touched',
         job.kind = "set" => r \in touched' \/ \A w \in Writes : r = w.register /\ r \notin touched => v = w.value
  PROVE  Continues /\ DOMAIN reg' = Registers
<1>1. /\ DOMAIN reg = Registers /\ reg' = [reg EXCEPT ![r] = v]
  BY DEF Shapes, SetRegister
<1>2. DOMAIN reg' = Registers /\ \A q \in Registers : reg'[q] = IF q = r THEN v ELSE reg[q]
  BY <1>1
<1> QED BY <1>2 DEF Continues, Holds, Writes

(* While the robot says nothing, what is told is told by what arrives. *)
LEMMA HeardOnly ==
  ASSUME fromRobot' = fromRobot, \A m \in Within(inbox') : m \in Within(inbox) \/ Tells(m)'
  PROVE  \A m \in Messages' : m \in Messages \/ Tells(m)'
<1> HIDE DEF Tells
<1> QED BY DEF Messages

(* Every step keeps what is verified. *)
LEMMA VerifyInvNext ==
  ASSUME VerifyInv, [Next]_vars
  PROVE  VerifyInv'
<1> USE DEF robot, wire, cli, history
<1>1. LockInv' /\ PressInv'
  BY LockInvNext, PressInvNext DEF VerifyInv
<1> SUFFICES Shapes' /\ SettingInv'
  BY <1>1 DEF VerifyInv
<1>2. IsSeq(toRobot) /\ IsSeq(inbox) /\ IsSeq(fromRobot) /\ IsSeq(pend) /\ Shapes /\ SettingInv
  BY DEF VerifyInv, LockInv, PressInv, AllOnce, Shapes
<1>3. /\ Within(<<>>) = {}
      /\ inbox # <<>> => Within(Tail(inbox)) \subseteq Within(inbox)
      /\ toRobot # <<>> => Within(Tail(toRobot)) \subseteq Within(toRobot) /\ Head(toRobot) \in Within(toRobot)
      /\ \A m : Within(Append(inbox, m)) = Within(inbox) \cup {m}
  BY <1>2, NothingWithin, WithinSays
<1>4. UNCHANGED <<reg, job, touched>> /\ (result' = "verified" => result = "verified") =>
        (job.kind = "set" => Done')
  BY <1>2, StillContinues, DoneStays DEF SettingInv
<1>5. ASSUME NEW i \in Invocations, Run(i) PROVE Shapes' /\ SettingInv'
  BY <1>5, RunVerifies
<1>6. ASSUME UNCHANGED <<reg, pend, toRobot, fromRobot, touched, job>>,
             result' = "verified" => result = "verified", Within(inbox') \subseteq Within(inbox)
      PROVE  Shapes' /\ SettingInv'
  <2>1. Messages' \subseteq Messages
    BY <1>6 DEF Messages
  <2> QED BY <1>2, <1>4, <1>6, <2>1, QuietKeeps DEF Shapes
<1>7. CASE ConnectionLost \/ SendRefused \/ (\E yes \in BOOLEAN : Answer(yes))
  BY <1>3, <1>6, <1>7 DEF ConnectionLost, SendRefused, Answer, Finish
<1>8. CASE HearState \/ StateTimeout
  <2>1. /\ UNCHANGED <<reg, pend, toRobot, fromRobot, touched, job>>
        /\ result' \in {result, "refused"}
        /\ inbox' = <<>> \/ (inbox # <<>> /\ inbox' = Tail(inbox))
    BY <1>8 DEF HearState, StateTimeout, GoOn, Finish, Stays
  <2> QED BY <1>3, <1>6, <2>1
<1>9. CASE HearReading
  BY <1>9, HearingVerifies
<1>10. CASE ReadingTimeout
  <2>1. /\ UNCHANGED <<reg, pend, toRobot, touched>> /\ Messages' \subseteq Messages
    BY <1>3, <1>10 DEF ReadingTimeout, TryAgain, Finish, Stays, Messages
  <2>2. /\ job'.kind = job.kind /\ job'.batch = job.batch /\ job'.at = job.at
        /\ DOMAIN job' = DOMAIN job /\ result' \in {result, "failed"}
    BY <1>2, <1>10, JobSays DEF ReadingTimeout
  <2>3. job.kind = "set" => Done'
    BY <1>2, <2>1, <2>2, StillContinues, DoneStays DEF SettingInv
  <2> QED BY <1>2, <1>3, <2>1, <2>2, <2>3, QuietKeeps DEF Shapes
<1>11. CASE WriteSetting
  <2> SUFFICES ASSUME NEW k, k = Current PROVE Shapes' /\ SettingInv'
    OBVIOUS
  <2>1. /\ toRobot' = Append(toRobot, k) /\ inbox' = Append(inbox, Message("command", k.code))
        /\ UNCHANGED <<reg, pend, fromRobot, job, touched, result>> /\ stage # "idle"
    BY <1>11 DEF WriteSetting, Publish, Stays
  <2>2. job.kind = "set" => Meant(k.code)'
    BY <2>1, CurrentMeant
  <2>3. \A m \in Messages' : m \in Messages \/ Tells(m)'
    BY <1>3, <2>1, EchoesTellNothing, HeardOnly
  <2> QED BY <2>1, <2>2, <2>3, PublishedKeeps
<1>12. CASE RequestReading
  <2> SUFFICES ASSUME NEW k, k = Command(EncodeRead(Current.code.register), FALSE)
               PROVE  Shapes' /\ SettingInv'
    OBVIOUS
  <2>1. /\ toRobot' = Append(toRobot, k) /\ inbox' = Append(inbox, Message("command", k.code))
        /\ UNCHANGED <<reg, pend, fromRobot, job, touched, result>>
    BY <1>12 DEF RequestReading, Publish, Stays
  <2>2. k.code.type # "write"
    BY DEF Command, EncodeRead
  <2> HIDE DEF Message
  <2>3. \A m \in Messages' : m \in Messages \/ Tells(m)'
    <3>1. Within(inbox') = Within(inbox) \cup {Message("command", k.code)}
      BY <1>3, <2>1
    <3>2. Tells(Message("command", k.code))'
      BY EchoesTellNothing, Zenon
    <3> HIDE DEF Tells
    <3> QED BY <2>1, <3>1, <3>2, HeardOnly
  <2> QED BY <2>1, <2>2, <2>3, PublishedKeeps
<1>13. CASE AskForState
  <2> SUFFICES ASSUME NEW k, k = Command(EncodeWrite(RequestState, 0), FALSE)
               PROVE  Shapes' /\ SettingInv'
    OBVIOUS
  <2>1. /\ toRobot' = Append(toRobot, k)
        /\ inbox' = Append(<<>>, Message("command", k.code))
        /\ UNCHANGED <<reg, pend, fromRobot, job, touched, result>>
    BY <1>13 DEF AskForState, Drained, Stays, Command
  <2>2. Within(inbox') = {Message("command", k.code)}
    <3>1. \A c : Within(Append(<<>>, c)) = Within(<<>>) \cup {c}
      BY NothingWithin, WithinSays, Zenon
    <3> QED BY <2>1, <3>1, NothingWithin
  <2>3. job.kind = "set" => Meant(k.code)'
    <3>1. k.code.register = RequestState
      BY Zenon DEF Command, EncodeWrite
    <3>2. Writes' = Writes
      BY <2>1 DEF Writes
    <3> QED BY <1>2, <3>1, <3>2 DEF SettingInv, Uniform, Meant
  <2>4. \A m \in Messages' : m \in Messages \/ Tells(m)'
    BY <2>1, <2>2, EchoesTellNothing, HeardOnly
  <2> QED BY <2>1, <2>3, <2>4, PublishedKeeps
<1>14. CASE SendPress \/ SendRaw
  <2> SUFFICES ASSUME NEW k, k = Current PROVE Shapes' /\ SettingInv'
    OBVIOUS
  <2>1. /\ toRobot' = Append(toRobot, k) /\ inbox' = <<>> /\ result' \in {"requested", "sent"}
        /\ UNCHANGED <<reg, pend, fromRobot, job, touched>> /\ stage # "idle"
    BY <1>14 DEF SendPress, SendRaw, Deliver
  <2>2. job.kind = "set" => Meant(k.code)'
    BY <2>1, CurrentMeant
  <2>3. Messages' \subseteq Messages
    BY <1>3, <2>1 DEF Messages
  <2> QED BY <2>1, <2>2, <2>3, PublishedKeeps
<1>15. CASE RobotTakes \/ Redelivery
  <2>1. /\ toRobot # <<>> /\ CarryOut(Head(toRobot).code)
        /\ UNCHANGED <<reg, inbox, job, touched, result>>
        /\ toRobot' \in {toRobot, Tail(toRobot)}
    BY <1>15 DEF RobotTakes, Redelivery
  <2> QED BY <1>3, <2>1, CarriedKeeps
<1>16. CASE LoseCommand
  <2>1. /\ UNCHANGED <<reg, pend, fromRobot, inbox, job, touched, result>>
        /\ toRobot # <<>> /\ toRobot' = Tail(toRobot)
    BY <1>16 DEF LoseCommand
  <2>2. Continues /\ Shapes'
    BY <1>2, <2>1, StillContinues DEF Shapes
  <2>3. Messages' = Messages
    BY <2>1 DEF Messages
  <2> QED BY <1>2, <1>3, <1>4, <2>1, <2>2, <2>3, SettingStays
<1>17. CASE Commit
  <2> DEFINE c == Head(pend)
  <2>1. /\ pend # <<>> /\ pend' = Tail(pend) /\ SetRegister(c.register, c.value)
        /\ UNCHANGED <<toRobot, inbox, job, touched, result>> /\ Messages' = Messages
    BY <1>17 DEF Commit, Messages
  <2>2. c \in Within(pend) /\ Within(pend') \subseteq Within(pend) /\ IsSeq(pend')
    BY <1>2, <2>1, WithinSays
  <2>3. c.register \in Registers
    BY <1>2, <2>2 DEF Shapes
  <2>4. job.kind = "set" => Meant(c)
    BY <1>2, <2>2 DEF SettingInv, Flying
  <2> HIDE DEF c
  <2>5. Continues /\ DOMAIN reg' = Registers
    BY <1>2, <2>1, <2>3, <2>4, RegisterContinues DEF Meant
  <2>6. Shapes'
    BY <1>2, <2>1, <2>2, <2>5 DEF Shapes
  <2>7. job.kind = "set" => Done'
    BY <1>2, <2>1, <2>5, DoneStays DEF SettingInv
  <2> QED BY <1>2, <2>1, <2>2, <2>5, <2>6, <2>7, SettingStays
<1>18. CASE PanelLock
  <2>1. /\ SetRegister(KeypadLockout, 1 - reg[KeypadLockout]) /\ touched' = touched \cup {KeypadLockout}
        /\ UNCHANGED <<pend, toRobot, inbox, job, result>> /\ Messages' = Messages
    BY <1>18 DEF PanelLock, Messages
  <2>2. Continues /\ DOMAIN reg' = Registers
    BY <1>2, <2>1, LinkAssumption, RegisterContinues
  <2>3. Shapes'
    BY <1>2, <2>1, <2>2 DEF Shapes
  <2>4. job.kind = "set" => Done'
    BY <1>2, <2>1, <2>2, DoneStays DEF SettingInv
  <2> QED BY <1>2, <2>1, <2>2, <2>3, <2>4, SettingStays
<1>19. CASE SpeakState \/ Arrive
  <2>1. /\ UNCHANGED <<reg, pend, toRobot, job, touched, result>>
        /\ \/ StateDocument /\ inbox' = inbox
           \/ fromRobot # <<>> /\ fromRobot' = Tail(fromRobot) /\ inbox' = Hear(Head(fromRobot))
    BY <1>19 DEF SpeakState, Arrive
  <2>2. Continues /\ Shapes'
    BY <1>2, <2>1, StillContinues DEF Shapes
  <2>3. \A m \in Messages' : m \in Messages \/ Tells(m)'
    <3> HIDE DEF Tells
    <3>1. CASE StateDocument /\ inbox' = inbox
      BY <1>2, <3>1, HeardWithin, EchoesTellNothing DEF StateDocument, Messages
    <3>2. CASE fromRobot # <<>> /\ fromRobot' = Tail(fromRobot) /\ inbox' = Hear(Head(fromRobot))
      <4>1. Within(Tail(fromRobot)) \subseteq Within(fromRobot) /\ Head(fromRobot) \in Within(fromRobot)
        BY <1>2, <3>2, WithinSays
      <4>2. Within(Hear(Head(fromRobot))) \subseteq Within(inbox) \cup {Head(fromRobot)}
        BY <1>2, HeardWithin
      <4> QED BY <3>2, <4>1, <4>2 DEF Messages
    <3> QED BY <2>1, <3>1, <3>2
  <2> QED BY <1>2, <1>4, <2>1, <2>2, <2>3, SettingStays
<1>20. ASSUME NEW c \in Theirs, OtherCommands(c) PROVE Shapes' /\ SettingInv'
  <2> SUFFICES ASSUME NEW k, k = Raw(c) PROVE Shapes' /\ SettingInv'
    OBVIOUS
  <2>1. /\ toRobot' = Append(toRobot, k) /\ inbox' = Hear(Message("command", c))
        /\ UNCHANGED <<reg, pend, fromRobot, job, result>> /\ touched \subseteq touched'
        /\ c.type = "write" => c.register \in touched'
    BY <1>20 DEF OtherCommands
  <2>2. k.code = c
    BY DEF Raw, Command
  <2>3. k.code.type = "write" => Meant(k.code)'
    BY <2>1, <2>2 DEF Meant
  <2>4. \A m \in Messages' : m \in Messages \/ Tells(m)'
    BY <1>2, <2>1, HeardWithin, EchoesTellNothing, HeardOnly
  <2> QED BY <2>1, <2>3, <2>4, PublishedKeeps
<1>21. CASE UNCHANGED vars
  <2>1. UNCHANGED <<reg, pend, toRobot, fromRobot, touched, job, result, inbox>>
    BY <1>21 DEF vars
  <2> QED BY <1>6, <2>1
<1> QED BY <1>5, <1>7, <1>8, <1>9, <1>10, <1>11, <1>12, <1>13, <1>14, <1>15, <1>16, <1>17, <1>18,
           <1>19, <1>20, <1>21 DEF Next, Cli, World

(* A set that reports "(verified)" leaves every register of its batch at the value written, *)
(* unless somebody else, or an earlier command not yet carried out, writes it too, whatever  *)
(* is typed, lost, repeated or retried (link.py apply_setting).                              *)
THEOREM VerifiedHolds == Spec => []VerifiedIsTheRobots
<1>1. Init => VerifyInv
  <2> SUFFICES ASSUME Init PROVE VerifyInv
    OBVIOUS
  <2>1. LockInv /\ PressInv
    BY LockInvInit, PressInvInit
  <2>2. Shapes
    BY NothingWithin DEF Init, Shapes, NoJob
  <2>3. SettingInv
    BY DEF Init, NoJob, SettingInv
  <2> QED BY <2>1, <2>2, <2>3 DEF VerifyInv
<1>2. VerifyInv => VerifiedIsTheRobots
  BY DEF VerifyInv, Shapes, SettingInv, Done, Holds, VerifiedIsTheRobots
<1> QED BY <1>1, <1>2, VerifyInvNext, PTL DEF Spec
=============================================================================
