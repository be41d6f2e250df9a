----------------------------- MODULE Onboarding -----------------------------
(***************************************************************************)
(* What provisioning promises (ble/provision.py, cli.py): an attempt       *)
(* either leaves the robot on the broker configuration it had or commits   *)
(* the attempt's own, whole, and reports success only after it has.        *)
(***************************************************************************)
EXTENDS Naturals

VARIABLES
  attempt,   \* the attempts begun
  committed, \* the attempt whose configuration the robot holds, 0 its factory's
  reported   \* whether the newest attempt reported success

vars == <<attempt, committed, reported>>

Init == attempt = 0 /\ committed = 0 /\ reported = FALSE

Begin   == attempt' = attempt + 1 /\ reported' = FALSE /\ UNCHANGED committed
Commit  == ~reported /\ committed' = attempt /\ UNCHANGED <<attempt, reported>>
Succeed == committed = attempt /\ reported' = TRUE /\ UNCHANGED <<attempt, committed>>

Next == Begin \/ Commit \/ Succeed

Spec == Init /\ [][Next]_vars
=============================================================================
