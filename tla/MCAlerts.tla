------------------------------- MODULE MCAlerts -------------------------------
(***************************************************************************)
(* Instances of Alerts for TLC: holds and urgency for a fault, for a gauge *)
(* and for the offline alert, in units of time that keep the order of the  *)
(* code's durations (hold < interval, minimum age < time between slots).   *)
(***************************************************************************)
EXTENDS Alerts, TLC

CONSTANTS bonnet, drawer

FaultHolds == (bonnet :> 1) @@ (Offline :> 2)
GaugeHolds == (drawer :> 0) @@ (Offline :> 2)
FaultUrgent == {bonnet, Offline}
GaugeUrgent == {Offline}
=============================================================================
