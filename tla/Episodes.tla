------------------------------ MODULE Episodes ------------------------------
(***************************************************************************)
(* What the alerts promise their listeners (docs/setup/notifications.md):  *)
(* "A condition is raised once and cleared once, with reminders between    *)
(* while it lasts", over reloads and restarts.                             *)
(***************************************************************************)
CONSTANT Alerts

VARIABLES
  announced, \* the alerts listeners take to be active
  notices    \* the events of the newest step: raised, cleared, reminded

vars == <<announced, notices>>

Notices == [raised : SUBSET Alerts, cleared : SUBSET Alerts, reminded : SUBSET Alerts]
Nothing == [raised |-> {}, cleared |-> {}, reminded |-> {}]

TypeOK == announced \in SUBSET Alerts /\ notices \in Notices

Init == announced = {} /\ notices = Nothing

(* One evaluation: an active alert may clear or be reminded of, another be raised. *)
Announce(n) ==
  /\ n.raised \cap announced = {}
  /\ n.cleared \subseteq announced
  /\ n.reminded \subseteq announced \ n.cleared
  /\ notices' = n
  /\ announced' = (announced \ n.cleared) \cup n.raised

Next == \E n \in Notices : Announce(n)

Spec == Init /\ [][Next]_vars
=============================================================================
