--------------------------- MODULE MCCoordinator ---------------------------
(***************************************************************************)
(* Instances of Coordinator for TLC.  Each gives a few platforms the       *)
(* operations whose interleavings its run is about, and how often they     *)
(* call.                                                                   *)
(***************************************************************************)
EXTENDS Coordinator

CONSTANTS button, switch, timer

(* Every kind of press, and a calibration, with one fault or event at any point. *)
FaultOps    == (button :> {"clean", "empty", "power", "wifi", "calibrate"}) @@ (switch :> {"lockout_on"})
FaultTimes  == (button :> 1) @@ (switch :> 1)

(* A batch of registers, or one, the heartbeat and the refreshes the echoes ask for. *)
BatchOps   == (switch :> {"wake_time", "lockout_off"}) @@ (timer :> {"heartbeat"})
BatchTimes  == (switch :> 1) @@ (timer :> 1)

(* Two calls in a row, presses or writes, for what the first leaves behind. *)
TwiceOps   == (button :> {"clean", "wake_time"})
TwiceTimes == (button :> 2)
=============================================================================
