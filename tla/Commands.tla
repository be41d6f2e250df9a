------------------------------ MODULE Commands ------------------------------
(***************************************************************************)
(* The command catalogue of a Litter-Robot 4 (commands.py, codec.py) and   *)
(* the guard every send passes (safety.py), as operators on codes.  A code *)
(* of the wire, "0xTTRRVVVV", is a record of its type, register and value. *)
(***************************************************************************)
EXTENDS Integers, Sequences

Bytes == 0 .. 255
MaxWord == 65535
Words == 0 .. MaxWord

PanelButton == 1          \* 0x01, where writing a button's code presses it
PanelBrightness == 14     \* 0x0E
CleanCycleWait == 22      \* 0x16
KeypadLockout == 23       \* 0x17
NightLightMode == 24      \* 0x18
NightLightBrightness == 25 \* 0x19
PanelSleepMode == 26      \* 0x1A
WeekdaySleepEnabled == 29 \* 0x1D
SleepTime(day) == 30 + 2 * day  \* 0x1E for Sunday, two registers for each day
WakeTime(day) == 31 + 2 * day
RequestState == 160       \* 0xA0

AllDays == 127            \* WEEKDAY_SLEEP_ALL_DAYS
Days == 0 .. 6

-----------------------------------------------------------------------------
(* The codec *)

Codes == [type : {"read", "write", "noop"}, register : Bytes, value : Words]

EncodeRead(r) == [type |-> "read", register |-> r, value |-> 0]
EncodeWrite(r, v) == [type |-> "write", register |-> r, value |-> v]

(* An element of the activity stream is one number, the register above a 16-bit value. *)
Element(r, v) == r * 65536 + v
DecodeActivityCode(n) == [register |-> (n \div 65536) % 256, value |-> n % 65536]

-----------------------------------------------------------------------------
(* The guard *)

NeverSendOpcodes == {163, 164, 172, 173}     \* 0xA3, 0xA4, 0xAC, 0xAD
NeverSendRegisters == {45}                   \* 0x2D, factory reset
PanelButtonNever == {3074, 4098, 5122}       \* 0x0C02, 0x1002, 0x1402
PanelButtonSafe == {513, 1025, 2049}         \* 0x0201, 0x0401, 0x0801
SafeReportMacros == {160, 161, 167, 169, 174}
SafeSettingsRegisters == {5, 14} \cup (22 .. 43)

Never(c) ==
  /\ c.type = "write"
  /\ \/ c.register \in NeverSendOpcodes \cup NeverSendRegisters
     \/ c.register = PanelButton /\ c.value \in PanelButtonNever

Safe(c) ==
  \/ c.type = "read"
  \/ /\ c.type = "write" /\ ~Never(c)
     /\ \/ c.register = PanelButton /\ c.value \in PanelButtonSafe
        \/ c.register \in SafeReportMacros /\ c.value = 0
        \/ c.register \in SafeSettingsRegisters

Classify(c) == IF c.type = "noop" THEN "noop"
               ELSE IF Never(c) THEN "never"
               ELSE IF Safe(c) THEN "safe" ELSE "dangerous"

(* assert_sendable lets code c pass. *)
Sendable(c, allowDangerous) ==
  /\ Classify(c) # "never"
  /\ Classify(c) = "dangerous" => allowDangerous

-----------------------------------------------------------------------------
(* The catalogue *)

IsEdgeTriggered(c) == c.type = "write" /\ c.register = PanelButton

Command(c, once) == [code |-> c, atMostOnce |-> once]

Clamp(n, low, high) == IF n < low THEN low ELSE IF n > high THEN high ELSE n

Bit(on) == IF on THEN 1 ELSE 0

(* A write of setting register r, read back afterwards. *)
Setting(r, v) == Command(EncodeWrite(r, v), FALSE)
Press(v) == Command(EncodeWrite(PanelButton, v), TRUE)

Buttons == [clean |-> 513, reset |-> 1025, empty |-> 2049, power |-> 257, connect |-> 4097]

SetNightLightMode(n) == Setting(NightLightMode, Clamp(n, 0, 2))
SetNightLightBrightness(n) == Setting(NightLightBrightness, Clamp(n, 0, 100))
SetCleanCycleWait(n) == Setting(CleanCycleWait, Clamp(n, 0, 255))
SetKeypadLockout(on) == Setting(KeypadLockout, Bit(on))
SetPanelSleepMode(on) == Setting(PanelSleepMode, Bit(on))
SetWeekdaySleepEnabled(on) == Setting(WeekdaySleepEnabled, IF on THEN AllDays ELSE 0)
SetPanelBrightness(high, low) ==
  Setting(PanelBrightness, Clamp(high, 0, 255) * 256 + Clamp(low, 0, 255))
SetSleepTime(day, n) == Setting(SleepTime(day), Clamp(n, 0, 1439))
SetWakeTime(day, n) == Setting(WakeTime(day), Clamp(n, 0, 1439))

(* The settings `set` offers. *)
SettingNames ==
  {"night-light-mode", "night-light-brightness", "clean-cycle-wait", "keypad-lockout",
   "panel-sleep-mode", "weekday-sleep-enabled", "panel-brightness", "panel-sleep-time",
   "panel-wake-time"}

(* _build_setting: the commands a named setting takes, one for each day in a schedule. *)
BuildSetting(name, n, days) ==
  CASE name = "night-light-mode" -> <<SetNightLightMode(n)>>
    [] name = "night-light-brightness" -> <<SetNightLightBrightness(n)>>
    [] name = "clean-cycle-wait" -> <<SetCleanCycleWait(n)>>
    [] name = "keypad-lockout" -> <<SetKeypadLockout(n = 1)>>
    [] name = "panel-sleep-mode" -> <<SetPanelSleepMode(n = 1)>>
    [] name = "weekday-sleep-enabled" -> <<SetWeekdaySleepEnabled(n = 1)>>
    [] name = "panel-brightness" -> <<SetPanelBrightness(n, n)>>
    [] name = "panel-sleep-time" -> [i \in 1 .. Len(days) |-> SetSleepTime(days[i], n)]
    [] name = "panel-wake-time" -> [i \in 1 .. Len(days) |-> SetWakeTime(days[i], n)]

(* Every command a setting or a button can send. *)
Settings ==
  {SetNightLightMode(n) : n \in Int} \cup {SetNightLightBrightness(n) : n \in Int}
  \cup {SetCleanCycleWait(n) : n \in Int} \cup {SetKeypadLockout(b) : b \in BOOLEAN}
  \cup {SetPanelSleepMode(b) : b \in BOOLEAN}
  \cup {SetWeekdaySleepEnabled(b) : b \in BOOLEAN}
  \cup {SetPanelBrightness(h, l) : h \in Int, l \in Int}
  \cup {SetSleepTime(d, n) : d \in Days, n \in Int}
  \cup {SetWakeTime(d, n) : d \in Days, n \in Int}
=============================================================================
