------------------------------- MODULE MCLink -------------------------------
(***************************************************************************)
(* An instance of Link for TLC: a lock, two days of the schedule and the   *)
(* read-only panel sleep register.                                         *)
(***************************************************************************)
EXTENDS Link

Type(kind, name, arg, yes, dangerous) ==
  [kind |-> kind, name |-> name, arg |-> arg, yes |-> yes, dangerous |-> dangerous]

(* 0x0TRRVVVV, as a number *)
Raw32(t, r, v) == (t * 256 + r) * 65536 + v

TwoDays == <<0, 1>>

(* Settings of one register, of two, and of one that is refused; a press that asks first; a   *)
(* raw press, a code that needs --allow-dangerous without it, and one that reads.             *)
Typed == {Type("set", "keypad-lockout", 1, TRUE, FALSE),
          Type("set", "panel-sleep-time", 1, TRUE, FALSE), Type("set", "panel-sleep-mode", 1, TRUE, FALSE),
          Type("press", "clean", 0, FALSE, FALSE),
          Type("read", "register", 30, TRUE, FALSE),
          Type("send", "code", Raw32(2, 1, 513), TRUE, FALSE),
          Type("send", "code", Raw32(2, 1, 257), TRUE, FALSE),
          Type("send", "code", Raw32(1, 30, 0), TRUE, FALSE)}

HomeAssistants == {EncodeWrite(30, 0), EncodeWrite(30, 1), EncodeRead(30), EncodeWrite(26, 1),
                   EncodeWrite(PanelButton, 513)}
=============================================================================
