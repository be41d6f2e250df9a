------------------------------- MODULE MCEntry -------------------------------
(***************************************************************************)
(* An instance of Entry for TLC: a robot with a hopper and a pan.  A unit   *)
(* of time is the 30 seconds of STATE_DEDUPE; ExcessAfter is scaled down.   *)
(***************************************************************************)
EXTENDS Entry

Document(status, beam, loaded, level) ==
  [status |-> status, beam |-> beam, loaded |-> loaded, level |-> level,
   cycles |-> None, fault |-> None]
MCDocuments == {Document("ready", FALSE, FALSE, None), Document("ready", FALSE, TRUE, None)}

Reading(register, value) == [register |-> register, value |-> value]
MCActivities ==
  {<<Reading("dispense", 266)>>,        \* phase 0, a step marker
   <<Reading("dispense", 4096 + 90)>>}  \* phase 1, the gauge
MCTracked == {"hopper"}

Options(seen, fill, swept, pref) ==
  [seen |-> [c \in Capabilities |-> IF c = "hopper" THEN seen ELSE None], snapshot |-> None,
   learned |-> None, fill |-> fill, stale |-> None, swept |-> swept, pref |-> pref]
MCStored == {Options(None, None, 3, FALSE), Options("flag", None, 0, FALSE)}
MCGauges == {None, 80}
=============================================================================
