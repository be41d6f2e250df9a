--------------------------- MODULE MCProvisioning ---------------------------
(***************************************************************************)
(* Instances of Provisioning for TLC: credentials of two or three          *)
(* characters sent two at a time, and one with a character of two bytes.   *)
(***************************************************************************)
EXTENDS Provisioning, TLC

Short == ("ca" :> 3) @@ ("cert" :> 2) @@ ("key" :> 1)
Wide  == [Short EXCEPT !["ca"] = 4]
=============================================================================
