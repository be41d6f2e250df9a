--------------------------- MODULE MCProfileStore ---------------------------
(***************************************************************************)
(* An instance of ProfileStore for TLC: two terminals over one robot,      *)
(* which has a whole pair, half of one, a file nobody can read, or none.   *)
(***************************************************************************)
EXTENDS ProfileStore, TLC

CONSTANTS c1, c2, r1, box

Plain(n, f, e, c) == [name |-> n, full |-> f, empty |-> e, cert |-> c]

TwoTerminals == (c1 :> {"rename", "calibrate", "use", "forget", "provision"})
             @@ (c2 :> {"rename", "calibrate", "use", "forget", "rotate"})
OneRobot == {Plain(None, 3, 1, 0), Plain(None, None, 3, 1), Damaged, None}
=============================================================================
