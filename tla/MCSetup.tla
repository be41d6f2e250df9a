------------------------------ MODULE MCSetup ------------------------------
(***************************************************************************)
(* Instances of Setup for TLC: one robot, two hosts, one authority of a    *)
(* person's own, and every combination of flags and answers.               *)
(***************************************************************************)
EXTENDS Setup

CONSTANTS own, here, there, robot

(* Flags that change the outcome, one or two at a time: a moved broker, a mode with what it *)
(* needs or with nothing, files named by flags where nobody answers.                        *)
AllOffered == {v \in Invocations :
  /\ v.key => v.ca # None /\ v.auth \in {None, "supplied"}
  /\ v.ca # None => v.answer = "nobody"
  /\ v.typed # None => v.answer = "file"
  /\ v.client # None => v.auth # "anonymous"
  /\ v.host = there => v.auth = None /\ v.client = None /\ v.ca = None /\ v.answer = "nobody"
  /\ v.host = None => v.answer = "nobody" /\ v.client = None /\ v.ca = None /\ v.auth = None}
=============================================================================
