----------------------------- MODULE SetupProofs -----------------------------
(***************************************************************************)
(* Setup, for any number of runs, robots, hosts and authorities a person   *)
(* may bring: the signing key on file is that of the certificate on file,  *)
(* no provisioned robot is left with an authority the store has not,       *)
(* behind a setup that succeeds everything on file is of the authority on  *)
(* file, and such a setup run again changes nothing.                       *)
(***************************************************************************)
EXTENDS Setup, WellFoundedInduction, TLAPS

-----------------------------------------------------------------------------
(* Sequences of writes *)

IsSeq(s) == \E S : s \in Seq(S)

(* Behind the first n writes, none is of the authority or of its key. *)
Quiet(ws, n) == \A i \in 1 .. Len(ws) : i > n => ws[i].file \notin {"ca", "caKey"}

LEMMA EmptySays == IsSeq(<<>>) /\ Len(<<>>) = 0 /\ Quiet(<<>>, 0)
<1>1. <<>> \in Seq({}) /\ Len(<<>>) = 0
  OBVIOUS
<1> QED BY <1>1 DEF IsSeq, Quiet

LEMMA OneSays ==
  ASSUME NEW a
  PROVE  IsSeq(<<a>>) /\ Len(<<a>>) = 1 /\ <<a>>[1] = a
<1>1. <<a>> \in Seq({a})
  OBVIOUS
<1> QED BY <1>1 DEF IsSeq

LEMMA PairSays ==
  ASSUME NEW a, NEW b
  PROVE  IsSeq(<<a, b>>) /\ Len(<<a, b>>) = 2 /\ <<a, b>>[1] = a /\ <<a, b>>[2] = b
<1>1. <<a, b>> \in Seq({a, b})
  OBVIOUS
<1> QED BY <1>1 DEF IsSeq

LEMMA ConcatSays ==
  ASSUME NEW s, NEW t, IsSeq(s), IsSeq(t)
  PROVE  /\ IsSeq(s \o t) /\ Len(s) \in Nat /\ Len(t) \in Nat
         /\ Len(s \o t) = Len(s) + Len(t)
         /\ \A i \in 1 .. Len(s) : (s \o t)[i] = s[i]
         /\ \A i \in 1 .. Len(t) : (s \o t)[Len(s) + i] = t[i]
<1>1. PICK S : s \in Seq(S)
  BY DEF IsSeq
<1>2. PICK T : t \in Seq(T)
  BY DEF IsSeq
<1>3. s \in Seq(S \cup T) /\ t \in Seq(S \cup T)
  BY <1>1, <1>2
<1>4. s \o t \in Seq(S \cup T)
  BY <1>3
<1> QED BY <1>3, <1>4 DEF IsSeq

LEMMA TailSays ==
  ASSUME NEW s, IsSeq(s), s # <<>>
  PROVE  /\ IsSeq(Tail(s)) /\ Len(s) \in Nat \ {0} /\ Len(Tail(s)) = Len(s) - 1
         /\ Head(s) = s[1]
         /\ \A i \in 1 .. Len(s) - 1 : Tail(s)[i] = s[i + 1]
<1>1. PICK S : s \in Seq(S)
  BY DEF IsSeq
<1>2. Tail(s) \in Seq(S)
  BY <1>1
<1> QED BY <1>1, <1>2 DEF IsSeq

-----------------------------------------------------------------------------
(* Stages *)

(* A run opens on the key: it keeps the key of the authority on file, or drops it. *)
OpensOnKey(s, ws) ==
  /\ ws # <<>> /\ ws[1].file = "caKey" /\ ws[1].value \in {None, s.ca} /\ Quiet(ws, 1)

(* Or on an authority and its key: the key on file, which the first of the two writes leaves, *)
(* is not another authority's.                                                              *)
OpensOnCa(s, ws) ==
  /\ Len(ws) > 1 /\ ws[1].file = "ca" /\ ws[2].file = "caKey"
  /\ ws[1].value # None /\ ws[2].value \in {None, ws[1].value}
  /\ s.caKey \in {None, ws[1].value}
  /\ Quiet(ws, 2)

(* The authority is on file already or is the first, or a person had it replaced. *)
Agreed(s, v, ws) == s.ca \in {None, ws[1].value} \/ v.answer = "generate"

Safe(s, v, ws) == Quiet(ws, 0) \/ OpensOnKey(s, ws) \/ (OpensOnCa(s, ws) /\ Agreed(s, v, ws))

QuietStage(st) == st.ok \in BOOLEAN /\ IsSeq(st.writes) /\ Quiet(st.writes, 0)
SafeStage(s, v, st) == st.ok \in BOOLEAN /\ IsSeq(st.writes) /\ Safe(s, v, st.writes)

LEMMA QuietConcat ==
  ASSUME NEW s, NEW t, IsSeq(s), IsSeq(t), NEW n \in Nat, Quiet(s, n), Quiet(t, 0)
  PROVE  Quiet(s \o t, n)
<1> SUFFICES ASSUME NEW i \in 1 .. Len(s \o t), i > n
             PROVE  (s \o t)[i].file \notin {"ca", "caKey"}
  BY DEF Quiet
<1>1. CASE i <= Len(s)
  BY <1>1, ConcatSays DEF Quiet
<1>2. CASE ~(i <= Len(s))
  <2>1. i - Len(s) \in 1 .. Len(t) /\ i - Len(s) > 0 /\ i = Len(s) + (i - Len(s))
    BY <1>2, ConcatSays
  <2>2. (s \o t)[i] = t[i - Len(s)]
    BY <2>1, ConcatSays
  <2> QED BY <2>1, <2>2 DEF Quiet
<1> QED BY <1>1, <1>2

(* A safe stage stays safe with a quiet one behind it, which is run only if the first did   *)
(* not raise.                                                                               *)
LEMMA Follows ==
  ASSUME NEW s, NEW v, NEW first, NEW second, SafeStage(s, v, first), QuietStage(second)
  PROVE  SafeStage(s, v, IF first.ok THEN [writes |-> first.writes \o second.writes,
                                           ok |-> second.ok] ELSE first)
<1> DEFINE ws == first.writes
           both == ws \o second.writes
<1>1. IsSeq(ws) /\ IsSeq(second.writes) /\ Quiet(second.writes, 0)
  BY DEF SafeStage, QuietStage
<1>2. /\ IsSeq(both) /\ Len(ws) \in Nat /\ Len(second.writes) \in Nat
      /\ Len(both) = Len(ws) + Len(second.writes)
      /\ \A i \in 1 .. Len(ws) : both[i] = ws[i]
  BY <1>1, ConcatSays
<1>3. \A n \in Nat : Quiet(ws, n) => Quiet(both, n)
  BY <1>1, QuietConcat
<1> HIDE DEF ws, both
<1>4. Safe(s, v, both)
  <2>1. CASE Quiet(ws, 0)
    BY <1>3, <2>1 DEF Safe
  <2>2. CASE OpensOnKey(s, ws)
    <3>1. Len(ws) > 0
      BY <1>1, <2>2, TailSays DEF OpensOnKey
    <3>2. both[1] = ws[1] /\ Len(both) > 0
      BY <1>2, <3>1
    <3>3. both # <<>>
      BY <3>2, EmptySays
    <3> QED BY <1>3, <2>2, <3>2, <3>3 DEF Safe, OpensOnKey
  <2>3. CASE OpensOnCa(s, ws) /\ Agreed(s, v, ws)
    <3>1. Len(ws) > 1
      BY <2>3 DEF OpensOnCa
    <3>2. both[1] = ws[1] /\ both[2] = ws[2] /\ Len(both) > 1
      BY <1>2, <3>1
    <3> QED BY <1>3, <2>3, <3>2 DEF Safe, OpensOnCa, Agreed
  <2> QED BY <2>1, <2>2, <2>3 DEF SafeStage, Safe, ws
<1> QED BY <1>2, <1>4 DEF SafeStage, QuietStage, ws, both

LEMMA QuietIsSafe ==
  ASSUME NEW s, NEW v, NEW st, QuietStage(st)
  PROVE  SafeStage(s, v, st)
BY DEF QuietStage, SafeStage, Safe

LEMMA QuietWrites ==
  ASSUME NEW ws, IsSeq(ws), Quiet(ws, 0)
  PROVE  QuietStage(Writes(ws))
BY DEF QuietStage, Writes

LEMMA RaisesIsQuiet == QuietStage(Raises) /\ QuietStage(Nothing)
BY EmptySays, QuietWrites DEF QuietStage, Raises, Nothing

LEMMA QuietPair ==
  ASSUME NEW f, NEW g, NEW x, NEW y, f \notin {"ca", "caKey"}, g \notin {"ca", "caKey"}
  PROVE  IsSeq(<<Put(f, x), Put(g, y)>>) /\ Quiet(<<Put(f, x), Put(g, y)>>, 0)
BY PairSays DEF Quiet, Put
-----------------------------------------------------------------------------
(* The stages that write neither the authority nor its key *)

LEMMA SaveClientQuiet ==
  ASSUME NEW i
  PROVE  QuietStage(Writes(SaveClient(i))) /\ IsSeq(SaveClient(i)) /\ Quiet(SaveClient(i), 0)
BY QuietPair, QuietWrites DEF SaveClient

LEMMA ServerQuiet ==
  ASSUME NEW s, NEW host, NEW k
  PROVE  QuietStage(Writes(IssueServer(s, host, k)))
BY QuietPair, QuietWrites DEF IssueServer, SaveServer

LEMMA ClientIdentityQuiet ==
  ASSUME NEW s, NEW k
  PROVE  QuietStage(ClientIdentity(s, k))
BY RaisesIsQuiet, SaveClientQuiet DEF ClientIdentity

LEMMA ForgetIssuedQuiet == QuietStage(Writes(ForgetIssued))
<1> DEFINE w == Put("idents", [r \in Robots |-> None])
<1>1. IsSeq(<<w>>) /\ Len(<<w>>) = 1 /\ <<w>>[1] = w
  BY OneSays
<1>2. w.file = "idents"
  BY DEF Put
<1> HIDE DEF w
<1>3. Quiet(<<w>>, 0)
  BY <1>1, <1>2 DEF Quiet
<1> QED BY <1>1, <1>3, QuietWrites DEF ForgetIssued, w

LEMMA FileClientQuiet ==
  ASSUME NEW s, NEW v
  PROVE  QuietStage(FileClient(s, v))
BY RaisesIsQuiet, SaveClientQuiet DEF FileClient

LEMMA RefreshServerQuiet ==
  ASSUME NEW s, NEW host, NEW k
  PROVE  QuietStage(RefreshServer(s, host, k))
BY RaisesIsQuiet, ServerQuiet DEF RefreshServer

LEMMA BrokerQuiet ==
  ASSUME NEW b
  PROVE  QuietStage(Writes(<<Put("broker", b)>>))
<1> DEFINE w == Put("broker", b)
<1>1. IsSeq(<<w>>) /\ Len(<<w>>) = 1 /\ <<w>>[1] = w
  BY OneSays
<1>2. w.file = "broker"
  BY DEF Put
<1> HIDE DEF w
<1>3. Quiet(<<w>>, 0)
  BY <1>1, <1>2 DEF Quiet
<1> QED BY <1>1, <1>3, QuietWrites DEF w

-----------------------------------------------------------------------------
(* The stage that may write them *)

LEMMA CaWritesSafe ==
  ASSUME NEW s, NEW v, NEW a, NEW b, s.caKey \in {None, a}, a # None, b \in {None, a},
         s.ca \in {None, a} \/ v.answer = "generate"
  PROVE  SafeStage(s, v, Writes(<<Put("ca", a), Put("caKey", b)>>))
<1> DEFINE ws == <<Put("ca", a), Put("caKey", b)>>
<1>1. IsSeq(ws) /\ Len(ws) = 2 /\ ws[1] = Put("ca", a) /\ ws[2] = Put("caKey", b)
  BY PairSays
<1> HIDE DEF ws
<1>2. /\ ws[1].file = "ca" /\ ws[1].value = a /\ ws[2].file = "caKey" /\ ws[2].value = b
      /\ Quiet(ws, 2)
  BY <1>1 DEF Put, Quiet
<1>3. OpensOnCa(s, ws) /\ Agreed(s, v, ws)
  BY <1>1, <1>2 DEF OpensOnCa, Agreed
<1>4. Writes(ws).ok = TRUE /\ Writes(ws).writes = ws
  BY DEF Writes
<1> QED BY <1>1, <1>3, <1>4 DEF SafeStage, Safe, ws

(* A stage starts from a store whose key belongs to its authority. *)
KeyFits(s) == s.caKey \in {None, s.ca}

LEMMA BringSafe ==
  ASSUME NEW s, NEW v, KeyFits(s), NEW a, a # None
  PROVE  SafeStage(s, v, Bring(s, a, SaveCa(a))) /\ SafeStage(s, v, Bring(s, a, SaveCaCertOnly(a)))
<1>1. CASE s.ca \in {None, a}
  <2>1. SafeStage(s, v, Writes(SaveCa(a))) /\ SafeStage(s, v, Writes(SaveCaCertOnly(a)))
    BY <1>1, CaWritesSafe DEF KeyFits, SaveCa, SaveCaCertOnly
  <2> QED BY <1>1, <2>1 DEF Bring
<1>2. CASE s.ca \notin {None, a}
  BY <1>2, RaisesIsQuiet, QuietIsSafe DEF Bring
<1> QED BY <1>1, <1>2

LEMMA TrustAnchorSafe ==
  ASSUME NEW s, NEW v, NEW mode, KeyFits(s)
  PROVE  SafeStage(s, v, EnsureTrustAnchor(s, v, mode))
<1> DEFINE given == IF v.ca # None THEN v.ca ELSE IF v.answer = "file" THEN v.typed ELSE None
           anchor == IF v.ca = None /\ s.ca # None THEN Nothing
                     ELSE IF given \in Foreign THEN Bring(s, given, SaveCaCertOnly(given))
                     ELSE Raises
           Needs(t) == IF mode = "supplied" /\ v.client = None /\ ~HasClient(t) THEN Raises
                       ELSE Nothing
<1>1. given \in Foreign => given # None
  BY SetupAssumption
<1>2. SafeStage(s, v, anchor)
  BY <1>1, BringSafe, RaisesIsQuiet, QuietIsSafe
<1>3. \A t : QuietStage(Needs(t))
  BY RaisesIsQuiet
<1>4. SafeStage(s, v, Then(s, anchor, Needs))
  <2> HIDE DEF anchor, Needs
  <2> QED BY <1>2, <1>3, Follows DEF Then
<1> QED BY <1>4, RaisesIsQuiet, QuietIsSafe DEF EnsureTrustAnchor

LEMMA ReplaceSafe ==
  ASSUME NEW s, NEW v, NEW host, NEW k \in Nat, s.caKey = None, v.answer = "generate"
  PROVE  SafeStage(s, v, ReplaceAuthority(s, host, k))
<1> DEFINE Mints(t) == ClientIdentity(t, k)
           Forgets(t) == Writes(ForgetIssued)
           Serves(t) == IF s.server = None \/ s.server.by = s.ca
                        THEN Writes(IssueServer(t, host, k)) ELSE Nothing
           Forged == Writes(SaveCa(k) \o ForgetClient)
           Minted == Then(s, Forged, Mints)
           Forgot == Then(s, Minted, Forgets)
<1>1. SafeStage(s, v, Forged)
  <2>1. k # None
    BY SetupAssumption
  <2>2. SafeStage(s, v, Writes(SaveCa(k))) /\ QuietStage(Writes(ForgetClient))
    BY <2>1, CaWritesSafe, SaveClientQuiet DEF SaveCa, ForgetClient
  <2>3. Forged = IF Writes(SaveCa(k)).ok
                 THEN [writes |-> Writes(SaveCa(k)).writes \o Writes(ForgetClient).writes,
                       ok |-> Writes(ForgetClient).ok]
                 ELSE Writes(SaveCa(k))
    BY DEF Writes
  <2> QED BY <2>2, <2>3, Follows
<1>2. \A t : QuietStage(Mints(t)) /\ QuietStage(Forgets(t)) /\ QuietStage(Serves(t))
  BY ClientIdentityQuiet, ForgetIssuedQuiet, ServerQuiet, RaisesIsQuiet
<1> HIDE DEF Forged, Mints, Forgets, Serves
<1>3. SafeStage(s, v, Minted)
  BY <1>1, <1>2, Follows DEF Then
<1> HIDE DEF Minted
<1>4. SafeStage(s, v, Forgot)
  BY <1>2, <1>3, Follows DEF Then
<1> HIDE DEF Forgot
<1>5. SafeStage(s, v, Then(s, Forgot, Serves))
  BY <1>2, <1>4, Follows DEF Then
<1> QED BY <1>5 DEF ReplaceAuthority, Then, Forgot, Minted, Forged, Serves, Forgets, Mints

LEMMA TrustOnlySafe ==
  ASSUME NEW s, NEW v, NEW host, NEW k \in Nat, s.caKey = None, s.ca # None
  PROVE  SafeStage(s, v, ResolveTrustOnly(s, v, host, k))
<1> DEFINE Mints(t) == ClientIdentity(t, k)
<1>1. SafeStage(s, v, Writes(SaveCa(s.ca)))
  BY CaWritesSafe DEF SaveCa
<1>2. \A t : QuietStage(Mints(t))
  BY ClientIdentityQuiet
<1>3. SafeStage(s, v, Then(s, Writes(SaveCa(s.ca)), Mints))
  BY <1>1, <1>2, Follows DEF Then
<1>4. v.answer = "generate" => SafeStage(s, v, ReplaceAuthority(s, host, k))
  BY ReplaceSafe
<1> QED BY <1>3, <1>4, RaisesIsQuiet, QuietIsSafe DEF ResolveTrustOnly, Then
LEMMA MintQuiet ==
  ASSUME NEW s, NEW v, NEW k
  PROVE  QuietStage(MintUnlessBrought(s, v, k))
BY ClientIdentityQuiet, RaisesIsQuiet DEF MintUnlessBrought

LEMMA BringAuthoritySafe ==
  ASSUME NEW s, NEW v, NEW k, KeyFits(s)
  PROVE  SafeStage(s, v, BringAuthority(s, v, k))
<1> DEFINE Mints(t) == MintUnlessBrought(t, v, k)
<1>1. v.ca # None => SafeStage(s, v, Then(s, Bring(s, v.ca, SaveCa(v.ca)), Mints))
  BY BringSafe, MintQuiet, Follows DEF Then
<1> QED BY <1>1, RaisesIsQuiet, QuietIsSafe DEF BringAuthority, Then

LEMMA FirstAuthoritySafe ==
  ASSUME NEW s, NEW v, NEW host, NEW k \in Nat, s.ca = None, s.caKey = None
  PROVE  SafeStage(s, v, FirstAuthority(s, v, host, k))
<1> DEFINE Identity(t) == ClientIdentity(t, k)
           Serves(t) == Writes(IssueServer(t, host, k))
           Mints(t) == MintUnlessBrought(t, v, k)
           Served == Then(s, Writes(SaveCa(k)), Serves)
<1>1. \A a : a # None => SafeStage(s, v, Writes(SaveCa(a)))
  BY CaWritesSafe DEF SaveCa
<1>2. k # None
  BY SetupAssumption
<1>3. \A t : QuietStage(Identity(t)) /\ QuietStage(Serves(t)) /\ QuietStage(Mints(t))
  BY ClientIdentityQuiet, ServerQuiet, MintQuiet
<1> HIDE DEF Identity, Serves, Mints
<1>4. v.typed # None => SafeStage(s, v, Then(s, Writes(SaveCa(v.typed)), Identity))
  BY <1>1, <1>3, Follows DEF Then
<1>5. SafeStage(s, v, Served)
  BY <1>1, <1>2, <1>3, Follows DEF Then
<1> HIDE DEF Served
<1>6. SafeStage(s, v, Then(s, Served, Mints))
  BY <1>3, <1>5, Follows DEF Then
<1> QED BY <1>4, <1>6, RaisesIsQuiet, QuietIsSafe
        DEF FirstAuthority, Then, Served, Identity, Serves, Mints

LEMMA EnsurePkiSafe ==
  ASSUME NEW s, NEW v, NEW mode, NEW host, NEW k \in Nat, KeyFits(s)
  PROVE  SafeStage(s, v, EnsurePki(s, v, mode, host, k))
<1>1. CASE mode # "mutual"
  <2>1. EnsurePki(s, v, mode, host, k) = EnsureTrustAnchor(s, v, mode)
    BY <1>1, Zenon DEF EnsurePki
  <2> QED BY <2>1, TrustAnchorSafe
<1>2. CASE mode = "mutual" /\ v.key
  <2>1. EnsurePki(s, v, mode, host, k) = BringAuthority(s, v, k)
    BY <1>2, Zenon DEF EnsurePki
  <2> QED BY <2>1, BringAuthoritySafe
<1>3. CASE mode = "mutual" /\ ~v.key /\ v.ca # None
  <2>1. EnsurePki(s, v, mode, host, k) = Raises
    BY <1>3, Zenon DEF EnsurePki
  <2> QED BY <2>1, RaisesIsQuiet, QuietIsSafe
<1>4. CASE mode = "mutual" /\ ~v.key /\ v.ca = None /\ HasCa(s)
  <2>1. s.ca # None
    BY <1>4 DEF HasCa
  <2>2. EnsurePki(s, v, mode, host, k) = Nothing
    BY <1>4, <2>1, Zenon DEF EnsurePki
  <2> QED BY <2>2, RaisesIsQuiet, QuietIsSafe
<1>5. CASE mode = "mutual" /\ ~v.key /\ v.ca = None /\ s.ca # None /\ ~HasCa(s)
  <2>1. EnsurePki(s, v, mode, host, k) = ResolveTrustOnly(s, v, host, k)
    BY <1>5, Zenon DEF EnsurePki
  <2>2. s.caKey = None
    BY <1>5 DEF HasCa, KeyFits
  <2> QED BY <1>5, <2>1, <2>2, TrustOnlySafe
<1>6. CASE mode = "mutual" /\ ~v.key /\ v.ca = None /\ s.ca = None
  <2>1. ~HasCa(s)
    BY <1>6 DEF HasCa
  <2>2. EnsurePki(s, v, mode, host, k) = FirstAuthority(s, v, host, k)
    BY <1>6, <2>1, Zenon DEF EnsurePki
  <2>3. s.caKey = None
    BY <1>6 DEF KeyFits
  <2> QED BY <1>6, <2>2, <2>3, FirstAuthoritySafe
<1> QED BY <1>1, <1>2, <1>3, <1>4, <1>5, <1>6

(* Whatever is asked of it, a setup's writes are safe on the files it finds. *)
LEMMA SetupSafe ==
  ASSUME NEW s, NEW v, NEW k \in Nat, KeyFits(s)
  PROVE  SafeStage(s, v, SetupOf(s, v, k))
<1> DEFINE mode == IF v.auth # None THEN v.auth ELSE Mode(s)
           host == IF v.host # None THEN v.host ELSE s.broker.host
           Client(t) == FileClient(t, v)
           Server(t) == IF mode = "mutual" THEN RefreshServer(t, host, k) ELSE Nothing
           Broker(t) == Writes(<<Put("broker", [host |-> host, auth |-> mode])>>)
           AssertUsable(t) == IF (mode = "mutual" /\ ~HasCa(t)) \/ t.ca = None THEN Raises
                              ELSE Nothing
           Trusted == EnsurePki(s, v, mode, host, k)
           Filed == Then(s, Trusted, Client)
           Served == Then(s, Filed, Server)
           Saved == Then(s, Served, Broker)
<1>1. SafeStage(s, v, Trusted)
  BY EnsurePkiSafe
<1>2. \A t : /\ QuietStage(Client(t)) /\ QuietStage(Server(t)) /\ QuietStage(Broker(t))
             /\ QuietStage(AssertUsable(t))
  BY FileClientQuiet, RefreshServerQuiet, BrokerQuiet, RaisesIsQuiet
<1> HIDE DEF Trusted, Client, Server, Broker, AssertUsable
<1>3. SafeStage(s, v, Filed)
  BY <1>1, <1>2, Follows DEF Then
<1> HIDE DEF Filed
<1>4. SafeStage(s, v, Served)
  BY <1>2, <1>3, Follows DEF Then
<1> HIDE DEF Served
<1>5. SafeStage(s, v, Saved)
  BY <1>2, <1>4, Follows DEF Then
<1> HIDE DEF Saved
<1>6. SafeStage(s, v, Then(s, Saved, AssertUsable))
  BY <1>2, <1>5, Follows DEF Then
<1> QED BY <1>6, RaisesIsQuiet, QuietIsSafe
        DEF SetupOf, Then, Trusted, Client, Server, Broker, AssertUsable, Filed, Served, Saved

-----------------------------------------------------------------------------
(* The inductive invariant *)

Files == {"ca", "caKey", "clientCert", "clientKey", "server", "serverKey", "broker", "idents"}
IsStore(s) == Files \subseteq DOMAIN s

(* What a run under way has still to write is safe on the files as they are. *)
RunOK == running # None =>
  IsSeq(left) /\ Safe(store, running.invocation, left)

(* Whatever a provision carries was an authority of the store, and is, or a person had it   *)
(* replaced since.                                                                          *)
Trusts(r, carried) ==
  carried # None => carried.trust # None /\ (carried.trust # store.ca => r \in released)

TrustsOK ==
  /\ visit # None => visit.robot \in Robots /\ Trusts(visit.robot, visit)
  /\ DOMAIN installed = Robots
  /\ \A r \in Robots : Trusts(r, installed[r])

SetupInv == runs \in Nat /\ IsStore(store) /\ KeyFits(store) /\ RunOK /\ TrustsOK

(* A step that writes neither the authority nor its key. *)
LEMMA AuthorityStays ==
  ASSUME SetupInv, IsStore(store'), store'.ca = store.ca, store'.caKey = store.caKey,
         (running' = running /\ left' = left) \/ running' = None
  PROVE  KeyFits(store)' /\ RunOK'
BY DEF SetupInv, KeyFits, RunOK, Safe, OpensOnKey, OpensOnCa, Agreed
LEMMA StartSetupKeeps ==
  ASSUME SetupInv, NEW v, StartSetup(v)
  PROVE  SetupInv'
<1> DEFINE plan == SetupOf(store, v, runs + 1)
<1>1. runs + 1 \in Nat /\ KeyFits(store)
  BY DEF SetupInv
<1>2. SafeStage(store, v, plan)
  BY <1>1, SetupSafe
<1> HIDE DEF plan
<1>3. /\ running' = [invocation |-> v, ok |-> plan.ok, found |-> store.ca,
                     broker |-> After(store, plan.writes).broker]
      /\ left' = plan.writes
      /\ runs' = runs + 1 /\ UNCHANGED <<store, visit, installed, released>>
  BY DEF StartSetup, plan
<1>4. running'.invocation = v
  BY <1>3
<1>5. RunOK'
  BY <1>2, <1>3, <1>4 DEF RunOK, SafeStage, Safe, OpensOnKey, OpensOnCa, Agreed
<1> QED BY <1>1, <1>3, <1>5 DEF SetupInv, IsStore, Files, KeyFits, TrustsOK, Trusts

LEMMA QuietTail ==
  ASSUME NEW ws, IsSeq(ws), ws # <<>>, NEW n \in Nat, Quiet(ws, n + 1)
  PROVE  Quiet(Tail(ws), n)
BY TailSays DEF Quiet

LEMMA WriteNextKeeps ==
  ASSUME SetupInv, WriteNext
  PROVE  SetupInv'
<1> DEFINE ws == left
           w == ws[1]
<1>1. /\ running # None /\ ws # <<>> /\ IsSeq(ws) /\ Head(ws) = w /\ IsSeq(Tail(ws))
      /\ Len(ws) \in Nat \ {0} /\ Safe(store, running.invocation, ws)
  BY TailSays DEF WriteNext, SetupInv, RunOK
<1>2. /\ store' = [store EXCEPT ![w.file] = w.value]
      /\ left' = Tail(ws)
      /\ UNCHANGED <<running, visit, installed, runs>>
  BY <1>1 DEF WriteNext, Apply
<1>3. IsStore(store') /\ runs' \in Nat
  BY <1>1, <1>2 DEF SetupInv, IsStore, Files, RunOK
<1>4. /\ "ca" \in DOMAIN store /\ "caKey" \in DOMAIN store
      /\ w.file # "ca" => store'.ca = store.ca
      /\ w.file = "ca" => store'.ca = w.value
      /\ w.file # "caKey" => store'.caKey = store.caKey
      /\ w.file = "caKey" => store'.caKey = w.value
  BY <1>2 DEF SetupInv, IsStore, Files
<1>5. ASSUME w.file # "ca" PROVE released' = released /\ TrustsOK'
  <2>1. released' = released
    BY <1>1, <1>5 DEF WriteNext
  <2> QED BY <1>2, <1>4, <1>5, <2>1 DEF SetupInv, TrustsOK, Trusts
<1> HIDE DEF ws, w
<1>6. ASSUME KeyFits(store)', Safe(store', running.invocation, Tail(ws)), TrustsOK'
      PROVE  SetupInv'
  BY <1>1, <1>2, <1>3, <1>6 DEF SetupInv, RunOK
<1>7. CASE Quiet(ws, 0)
  <2>1. w.file \notin {"ca", "caKey"}
    BY <1>1, <1>7 DEF Quiet, w
  <2>2. Quiet(Tail(ws), 0)
    BY <1>1, <1>7, TailSays DEF Quiet
  <2>3. KeyFits(store)'
    BY <1>4, <2>1 DEF SetupInv, KeyFits
  <2> QED BY <1>5, <1>6, <2>1, <2>2, <2>3 DEF Safe
<1>8. CASE OpensOnKey(store, ws)
  <2>1. w.file = "caKey" /\ w.value \in {None, store.ca} /\ Quiet(ws, 0 + 1)
    BY <1>8 DEF OpensOnKey, w
  <2>2. Quiet(Tail(ws), 0)
    BY <1>1, <2>1, QuietTail
  <2>3. KeyFits(store)'
    BY <1>4, <2>1 DEF KeyFits
  <2> QED BY <1>5, <1>6, <2>1, <2>2, <2>3 DEF Safe
<1>9. CASE OpensOnCa(store, ws) /\ Agreed(store, running.invocation, ws)
  <2>1. /\ w.file = "ca" /\ w.value # None /\ store.caKey \in {None, w.value}
        /\ Len(ws) > 1 /\ ws[2].file = "caKey" /\ ws[2].value \in {None, w.value}
        /\ Quiet(ws, 1 + 1)
        /\ store.ca \in {None, w.value} \/ running.invocation.answer = "generate"
    BY <1>9 DEF OpensOnCa, Agreed, w
  <2>2. store'.ca = w.value /\ store'.caKey = store.caKey
    BY <1>4, <2>1
  <2>3. KeyFits(store)'
    BY <2>1, <2>2 DEF KeyFits
  <2>4. Tail(ws)[1] = ws[2] /\ Tail(ws) # <<>>
    <3>1. 1 \in 1 .. Len(ws) - 1 /\ Len(Tail(ws)) = Len(ws) - 1
      BY <1>1, <2>1, TailSays
    <3>2. Tail(ws)[1] = ws[1 + 1]
      BY <1>1, <3>1, TailSays
    <3>3. Len(Tail(ws)) # 0
      BY <1>1, <3>1
    <3>4. Tail(ws) # <<>>
      BY <3>3, EmptySays, Zenon
    <3>5. 1 + 1 = 2
      OBVIOUS
    <3> QED BY <3>2, <3>4, <3>5, Zenon
  <2>5. Quiet(Tail(ws), 1)
    BY <1>1, <2>1, QuietTail
  <2>6. OpensOnKey(store', Tail(ws))
    BY <2>1, <2>2, <2>4, <2>5 DEF OpensOnKey
  <2>7. TrustsOK'
    <3> DEFINE reached == {r \in Robots : installed[r] # None
                                          \/ (visit # None /\ visit.robot = r)}
    <3>1. CASE store.ca \notin {None, w.value}
      <4>1. released' = reached
        BY <1>1, <2>1, <3>1 DEF WriteNext, ws, w
      <4> QED BY <1>2, <4>1 DEF SetupInv, TrustsOK, Trusts
    <3>2. CASE store.ca \in {None, w.value}
      <4>1. released' = released
        BY <1>1, <3>2 DEF WriteNext, ws, w
      <4>2. \A r, c : c # None /\ Trusts(r, c) /\ c.trust # w.value => r \in released
        BY <3>2 DEF Trusts
      <4> QED BY <1>2, <2>2, <4>1, <4>2 DEF SetupInv, TrustsOK, Trusts
    <3> QED BY <3>1, <3>2
  <2> QED BY <1>6, <2>3, <2>6, <2>7 DEF Safe
<1> QED BY <1>1, <1>7, <1>8, <1>9 DEF Safe

LEMMA VisitKeeps ==
  ASSUME SetupInv,
         StartVisit \/ Accept \/ SaveBroker \/ SaveIdentity \/ AbandonVisit
  PROVE  SetupInv'
<1>1. CASE StartVisit
  <2>1. /\ UNCHANGED <<store, running, left, installed, released>> /\ runs' = runs + 1
        /\ store.ca # None
        /\ \E i : \E r \in Robots :
             visit' = [robot |-> r, trust |-> store.ca, presents |-> i, broker |-> store.broker]
    BY <1>1 DEF StartVisit
  <2>2. visit'.robot \in Robots /\ visit'.trust = store.ca
    BY <2>1
  <2> QED BY <2>1, <2>2 DEF SetupInv, IsStore, Files, KeyFits, RunOK, TrustsOK, Trusts
<1>2. CASE Accept
  <2>1. /\ visit # None /\ installed' = [installed EXCEPT ![visit.robot] = visit]
        /\ released' = IF visit.trust = store.ca THEN released \ {visit.robot} ELSE released
        /\ UNCHANGED <<store, running, left, visit, runs>>
    BY <1>2 DEF Accept
  <2>2. /\ DOMAIN installed' = Robots /\ visit.robot \in Robots
        /\ installed'[visit.robot] = visit
        /\ \A r \in Robots \ {visit.robot} : installed'[r] = installed[r]
    BY <2>1 DEF SetupInv, TrustsOK
  <2> QED BY <2>1, <2>2 DEF SetupInv, IsStore, Files, KeyFits, RunOK, TrustsOK, Trusts
<1>3. CASE SaveBroker \/ SaveIdentity
  <2>1. /\ visit' \in {visit, None} /\ UNCHANGED <<running, left, installed, runs, released>>
        /\ \/ store' = [store EXCEPT !.broker = visit.broker]
           \/ store' = [store EXCEPT !.idents[visit.robot] = IF visit.presents = None THEN @
                                                            ELSE visit.presents]
    BY <1>3 DEF SaveBroker, SaveIdentity
  <2>2. IsStore(store') /\ store'.ca = store.ca /\ store'.caKey = store.caKey
    BY <2>1 DEF SetupInv, IsStore, Files
  <2>3. KeyFits(store)' /\ RunOK'
    BY <2>1, <2>2, AuthorityStays
  <2> QED BY <2>1, <2>2, <2>3 DEF SetupInv, TrustsOK, Trusts
<1>4. CASE AbandonVisit
  BY <1>4 DEF AbandonVisit, SetupInv, IsStore, Files, KeyFits, RunOK, TrustsOK, Trusts
<1> QED BY <1>1, <1>2, <1>3, <1>4

LEMMA OthersKeep ==
  ASSUME SetupInv, EndSetup \/ KillSetup \/ MoveKeyAway \/ InstallServer \/ UNCHANGED vars
  PROVE  SetupInv'
<1>1. CASE EndSetup \/ KillSetup
  BY <1>1 DEF EndSetup, KillSetup, SetupInv, IsStore, Files, KeyFits, RunOK, TrustsOK, Trusts
<1>2. CASE MoveKeyAway
  <2>1. /\ running = None /\ store' = [store EXCEPT !.caKey = None]
        /\ UNCHANGED <<running, left, visit, installed, runs, released>>
    BY <1>2 DEF MoveKeyAway
  <2>2. IsStore(store') /\ store'.ca = store.ca /\ store'.caKey = None
    BY <2>1 DEF SetupInv, IsStore, Files
  <2> QED BY <2>1, <2>2 DEF SetupInv, KeyFits, RunOK, TrustsOK, Trusts
<1>3. CASE InstallServer
  <2>1. PICK a, h :
          /\ store' = [store EXCEPT !.server = [by |-> a, n |-> 0, host |-> h], !.serverKey = 0]
          /\ UNCHANGED <<running, left, visit, installed, runs, released>>
    BY <1>3 DEF InstallServer
  <2>2. IsStore(store') /\ store'.ca = store.ca /\ store'.caKey = store.caKey
    BY <2>1 DEF SetupInv, IsStore, Files
  <2>3. KeyFits(store)' /\ RunOK'
    BY <2>1, <2>2, AuthorityStays
  <2> QED BY <2>1, <2>2, <2>3 DEF SetupInv, TrustsOK, Trusts
<1>4. CASE UNCHANGED vars
  BY <1>4 DEF vars, SetupInv, IsStore, Files, KeyFits, RunOK, TrustsOK, Trusts
<1> QED BY <1>1, <1>2, <1>3, <1>4

LEMMA SetupInvHolds == Spec => []SetupInv
<1>1. Init => SetupInv
  <2> SUFFICES ASSUME Init PROVE SetupInv
    OBVIOUS
  <2>1. /\ IsStore(store) /\ store.caKey = None /\ running = None /\ visit = None /\ runs = 0
        /\ DOMAIN installed = Robots /\ \A r \in Robots : installed[r] = None
    BY DEF Init, IsStore, Files
  <2> QED BY <2>1 DEF SetupInv, KeyFits, RunOK, TrustsOK, Trusts
<1>2. SetupInv /\ [Next]_vars => SetupInv'
  BY StartSetupKeeps, WriteNextKeeps, VisitKeeps, OthersKeep DEF Next
<1> QED BY <1>1, <1>2, PTL DEF Spec

(* Between any two writes of any runs, in whatever modes, refused or killed, the signing    *)
(* key on file is that of the certificate on file (robot_profiles.py save_ca).              *)
THEOREM KeysBelong == Spec => []KeyBelongsToAuthority
<1>1. SetupInv => KeyBelongsToAuthority
  BY DEF SetupInv, KeyFits, KeyBelongsToAuthority
<1> QED BY <1>1, SetupInvHolds, PTL

(* Whatever is run, refused or killed, the store keeps the authority each provisioned robot *)
(* trusts, unless a person has had it replaced since (cli.py _refuse_a_different_ca).       *)
THEOREM RobotsStayReachable == Spec => []NoRobotIsStranded
<1>1. SetupInv => NoRobotIsStranded
  BY DEF SetupInv, TrustsOK, Trusts, NoRobotIsStranded
<1> QED BY <1>1, SetupInvHolds, PTL

-----------------------------------------------------------------------------
(* The last write to a file is what it holds *)

(* The last of some places of a sequence. *)
LEMMA LatestExists ==
  ASSUME NEW n \in Nat, NEW S, S \subseteq 1 .. n, S # {}
  PROVE  \E m \in S : \A j \in S : m >= j
<1> DEFINE T == {n - i : i \in S}
<1>1. \A i \in S : n - i \in Nat
  OBVIOUS
<1>2. T \subseteq Nat /\ T # {}
  BY <1>1
<1>3. \E x \in T : \A y \in T : ~(<<y, x>> \in OpToRel(<, Nat))
  <2> HIDE DEF T
  <2> QED BY <1>2, NatLessThanWellFounded, WFMin, Zenon
<1>4. PICK x \in T : \A y \in T : ~(y < x)
  BY <1>2, <1>3 DEF OpToRel
<1>5. PICK m \in S : x = n - m
  BY <1>4
<1>6. ASSUME NEW j \in S PROVE m >= j
  <2>1. ~(n - j < n - m) /\ j \in Nat /\ m \in Nat
    BY <1>4, <1>5
  <2> QED BY <2>1
<1> QED BY <1>5, <1>6

To(ws, f) == {i \in DOMAIN ws : ws[i].file = f}

(* A file holds what the last write to it says, or what it held if there is none. *)
LEMMA AfterSays ==
  ASSUME NEW s, NEW ws, IsSeq(ws)
  PROVE  /\ DOMAIN After(s, ws) = DOMAIN s /\ DOMAIN ws = 1 .. Len(ws) /\ Len(ws) \in Nat
         /\ \A f \in DOMAIN s : To(ws, f) = {} => After(s, ws)[f] = s[f]
         /\ \A f \in DOMAIN s : \A i \in 1 .. Len(ws) :
              ws[i].file = f /\ (\A j \in 1 .. Len(ws) : j > i => ws[j].file # f)
                => After(s, ws)[f] = ws[i].value
         /\ \A f : To(ws, f) # {} =>
              \E i \in 1 .. Len(ws) : /\ ws[i].file = f
                                      /\ \A j \in 1 .. Len(ws) : j > i => ws[j].file # f
<1>1. DOMAIN ws = 1 .. Len(ws) /\ Len(ws) \in Nat
  BY DEF IsSeq
<1>2. DOMAIN After(s, ws) = DOMAIN s
  BY DEF After
<1>3. \A f \in DOMAIN s : After(s, ws)[f] = IF To(ws, f) = {} THEN s[f]
                                            ELSE ws[Max(To(ws, f))].value
  BY DEF After, To
<1>4. ASSUME NEW f, NEW i \in 1 .. Len(ws), ws[i].file = f,
             \A j \in 1 .. Len(ws) : j > i => ws[j].file # f
      PROVE  Max(To(ws, f)) = i /\ To(ws, f) # {}
  <2>1. i \in To(ws, f) /\ \A j \in To(ws, f) : i >= j
    BY <1>1, <1>4 DEF To
  <2>2. \A m \in To(ws, f) : (\A j \in To(ws, f) : m >= j) => m = i
    BY <1>1, <2>1 DEF To
  <2> QED BY <2>1, <2>2 DEF Max
<1>5. ASSUME NEW f, To(ws, f) # {}
      PROVE  \E i \in 1 .. Len(ws) : /\ ws[i].file = f
                                     /\ \A j \in 1 .. Len(ws) : j > i => ws[j].file # f
  <2>1. To(ws, f) \subseteq 1 .. Len(ws)
    BY <1>1 DEF To
  <2>2. PICK m \in To(ws, f) : \A j \in To(ws, f) : m >= j
    BY <1>1, <1>5, <2>1, LatestExists
  <2>3. \A j \in 1 .. Len(ws) : j > m => ws[j].file # f
    BY <1>1, <2>1, <2>2 DEF To
  <2> QED BY <1>1, <2>2, <2>3 DEF To
<1> QED BY <1>1, <1>2, <1>3, <1>4, <1>5

LEMMA LastStands ==
  ASSUME NEW s, NEW ws, IsSeq(ws), NEW f \in DOMAIN s, NEW i \in 1 .. Len(ws), ws[i].file = f,
         \A j \in 1 .. Len(ws) : j > i => ws[j].file # f
  PROVE  After(s, ws)[f] = ws[i].value
BY AfterSays

LEMMA AfterConcat ==
  ASSUME NEW s, NEW a, NEW b, IsSeq(a), IsSeq(b)
  PROVE  After(s, a \o b) = After(After(s, a), b)
<1> DEFINE both == a \o b
<1>1. /\ IsSeq(both) /\ Len(a) \in Nat /\ Len(b) \in Nat /\ Len(both) = Len(a) + Len(b)
      /\ \A i \in 1 .. Len(a) : both[i] = a[i]
      /\ \A i \in 1 .. Len(b) : both[Len(a) + i] = b[i]
  BY ConcatSays
<1>2. ASSUME NEW i \in 1 .. Len(both), i > Len(a)
      PROVE  i - Len(a) \in 1 .. Len(b) /\ both[i] = b[i - Len(a)]
  <2>1. i - Len(a) \in 1 .. Len(b) /\ i = Len(a) + (i - Len(a))
    BY <1>1, <1>2
  <2> QED BY <1>1, <2>1
<1> HIDE DEF both
<1>3. ASSUME NEW f \in DOMAIN s
      PROVE  After(s, both)[f] = After(After(s, a), b)[f]
  <2>0. f \in DOMAIN After(s, a)
    BY AfterSays
  <2>1. CASE To(b, f) # {}
    <3>1. PICK i \in 1 .. Len(b) : /\ b[i].file = f
                                   /\ \A j \in 1 .. Len(b) : j > i => b[j].file # f
      BY <2>1, AfterSays
    <3>2. After(After(s, a), b)[f] = b[i].value
      BY <2>0, <3>1, AfterSays
    <3> DEFINE k == Len(a) + i
    <3>3. k \in 1 .. Len(both) /\ both[k] = b[i]
      BY <1>1
    <3>4. ASSUME NEW j \in 1 .. Len(both), j > k PROVE both[j].file # f
      <4>1. j > Len(a) /\ j - Len(a) > i
        BY <1>1, <3>4
      <4> QED BY <1>2, <3>1, <4>1
    <3> HIDE DEF k
    <3>5. both[k].file = f
      BY <3>1, <3>3
    <3>6. After(s, both)[f] = both[k].value
      <4>1. IsSeq(both) /\ k \in 1 .. Len(both)
        BY <1>1, <3>3
      <4> QED BY <3>4, <3>5, <4>1, LastStands
    <3> QED BY <3>2, <3>3, <3>6, Zenon
  <2>2. CASE To(b, f) = {}
    <3>1. \A j \in 1 .. Len(b) : b[j].file # f
      BY <2>2, AfterSays DEF To
    <3>2. After(After(s, a), b)[f] = After(s, a)[f]
      BY <2>0, <2>2, AfterSays
    <3>3. CASE To(a, f) # {}
      <4>1. PICK i \in 1 .. Len(a) : /\ a[i].file = f
                                     /\ \A j \in 1 .. Len(a) : j > i => a[j].file # f
        BY <3>3, AfterSays
      <4>2. After(s, a)[f] = a[i].value
        BY <4>1, AfterSays
      <4>3. i \in 1 .. Len(both) /\ both[i] = a[i]
        BY <1>1
      <4>4. ASSUME NEW j \in 1 .. Len(both), j > i PROVE both[j].file # f
        <5>1. CASE j <= Len(a)
          BY <1>1, <4>1, <4>4, <5>1
        <5>2. CASE ~(j <= Len(a))
          BY <1>1, <1>2, <3>1, <5>2
        <5> QED BY <5>1, <5>2
      <4>5. After(s, both)[f] = both[i].value
        BY <1>1, <4>1, <4>3, <4>4, LastStands
      <4> QED BY <3>2, <4>2, <4>3, <4>5
    <3>4. CASE To(a, f) = {}
      <4>1. \A j \in 1 .. Len(a) : a[j].file # f
        BY <3>4, AfterSays DEF To
      <4>2. ASSUME NEW j \in 1 .. Len(both) PROVE both[j].file # f
        <5>1. CASE j <= Len(a)
          BY <1>1, <4>1, <5>1
        <5>2. CASE ~(j <= Len(a))
          BY <1>1, <1>2, <3>1, <5>2
        <5> QED BY <5>1, <5>2
      <4>3. To(both, f) = {}
        BY <1>1, <4>2, AfterSays DEF To
      <4>4. After(s, both)[f] = s[f] /\ After(s, a)[f] = s[f]
        BY <1>1, <3>4, <4>3, AfterSays
      <4> QED BY <3>2, <4>4
    <3> QED BY <3>3, <3>4
  <2> QED BY <2>1, <2>2
<1>4. /\ DOMAIN After(s, both) = DOMAIN s /\ DOMAIN After(After(s, a), b) = DOMAIN s
      /\ After(s, both) = [f \in DOMAIN s |-> After(s, both)[f]]
      /\ After(After(s, a), b) = [f \in DOMAIN s |-> After(After(s, a), b)[f]]
  <2>1. DOMAIN After(s, both) = DOMAIN s /\ DOMAIN After(After(s, a), b) = DOMAIN s
    BY <1>1, AfterSays
  <2> QED BY <2>1 DEF After
<1> QED BY <1>3, <1>4 DEF both

LEMMA AfterOne ==
  ASSUME NEW s, NEW w
  PROVE  After(s, <<w>>) = Apply(s, w)
<1>1. IsSeq(<<w>>) /\ Len(<<w>>) = 1 /\ <<w>>[1] = w
  BY OneSays
<1>2. DOMAIN After(s, <<w>>) = DOMAIN s /\ To(<<w>>, w.file) # {}
      /\ \A f : f # w.file => To(<<w>>, f) = {}
  BY <1>1, AfterSays DEF To
<1>3. \A f \in DOMAIN s : f # w.file => After(s, <<w>>)[f] = s[f]
  BY <1>1, <1>2, AfterSays
<1>4. w.file \in DOMAIN s => After(s, <<w>>)[w.file] = w.value
  BY <1>1, LastStands
<1>5. After(s, <<w>>) = [f \in DOMAIN s |-> After(s, <<w>>)[f]]
  BY DEF After
<1>6. After(s, <<w>>) = [f \in DOMAIN s |-> IF f = w.file THEN w.value ELSE s[f]]
  BY <1>3, <1>4, <1>5
<1>7. Apply(s, w) = [f \in DOMAIN s |-> IF f = w.file THEN w.value ELSE s[f]]
  BY DEF Apply
<1> QED BY <1>6, <1>7

(* The files behind a run's writes are those behind the rest, once the first is made. *)
LEMMA AfterTail ==
  ASSUME NEW s, NEW ws, IsSeq(ws), ws # <<>>
  PROVE  After(s, ws) = After(Apply(s, ws[1]), Tail(ws))
<1>1. ws = <<ws[1]>> \o Tail(ws)
  BY DEF IsSeq
<1>2. IsSeq(<<ws[1]>>) /\ IsSeq(Tail(ws))
  BY OneSays, TailSays
<1>3. After(s, <<ws[1]>> \o Tail(ws)) = After(After(s, <<ws[1]>>), Tail(ws))
  BY <1>2, AfterConcat
<1> QED BY <1>1, <1>3, AfterOne

LEMMA AfterPair ==
  ASSUME NEW s, NEW f, NEW g, NEW x, NEW y, f # g
  PROVE  After(s, <<Put(f, x), Put(g, y)>>) = [s EXCEPT ![f] = x, ![g] = y]
<1> DEFINE ws == <<Put(f, x), Put(g, y)>>
           t == After(s, ws)
<1>1. /\ IsSeq(ws) /\ Len(ws) = 2 /\ ws[1].file = f /\ ws[1].value = x
      /\ ws[2].file = g /\ ws[2].value = y
  BY PairSays DEF Put
<1> HIDE DEF ws, t
<1>2. f \in DOMAIN s => t[f] = x
  BY <1>1, LastStands DEF t
<1>3. g \in DOMAIN s => t[g] = y
  BY <1>1, LastStands DEF t
<1>4. ASSUME NEW h \in DOMAIN s, h # f, h # g PROVE t[h] = s[h]
  BY <1>1, <1>4, AfterSays DEF To, t
<1>5. t = [h \in DOMAIN s |-> t[h]]
  BY DEF After, t
<1>6. t = [h \in DOMAIN s |-> IF h = g THEN y ELSE IF h = f THEN x ELSE s[h]]
  BY <1>2, <1>3, <1>4, <1>5
<1>7. [s EXCEPT ![f] = x, ![g] = y]
        = [h \in DOMAIN s |-> IF h = g THEN y ELSE IF h = f THEN x ELSE s[h]]
  OBVIOUS
<1> QED BY <1>6, <1>7 DEF t, ws

LEMMA AfterEmpty ==
  ASSUME NEW s
  PROVE  \A f \in DOMAIN s : After(s, <<>>)[f] = s[f]
BY EmptySays, AfterSays DEF To

(* Writes that say what the files hold already change nothing. *)
Repeats(s, ws) == \A i \in 1 .. Len(ws) : ws[i].value = s[ws[i].file]

LEMMA RepeatsChangeNothing ==
  ASSUME NEW s, s = [f \in DOMAIN s |-> s[f]], NEW ws, IsSeq(ws), Repeats(s, ws)
  PROVE  After(s, ws) = s
<1>1. ASSUME NEW f \in DOMAIN s PROVE After(s, ws)[f] = s[f]
  <2>1. CASE To(ws, f) = {}
    BY <2>1, AfterSays
  <2>2. CASE To(ws, f) # {}
    <3>1. PICK i \in 1 .. Len(ws) : /\ ws[i].file = f
                                    /\ \A j \in 1 .. Len(ws) : j > i => ws[j].file # f
      BY <2>2, AfterSays
    <3>2. After(s, ws)[f] = ws[i].value
      BY <3>1, LastStands
    <3> QED BY <3>1, <3>2 DEF Repeats
  <2> QED BY <2>1, <2>2
<1>2. After(s, ws) = [f \in DOMAIN s |-> After(s, ws)[f]]
  BY DEF After
<1> QED BY <1>1, <1>2

-----------------------------------------------------------------------------
(* What a setup must leave *)

(* A sound store: whole pairs, and identities of the authority on file. *)
Mine(s, i) == i # None => s.ca # None /\ i.by = s.ca
Paired(s) == s.clientCert = s.clientKey /\ (s.server # None => s.serverKey = s.server.n)
Own(s) == Mine(s, s.clientCert)
AllOwn(s) == \A r \in Robots : Mine(s, s.idents[r])
Sound(s) == Paired(s) /\ Own(s) /\ AllOwn(s)

Typed(ws) == \A i \in 1 .. Len(ws) :
  /\ ws[i].file \in Files
  /\ ws[i].file = "ca" => ws[i].value \in Authorities
  /\ ws[i].file = "broker" => ws[i].value \in Brokers

(* A run writes one authority at most, and this machine's identities are that one's. *)
Orderly(s, ws) ==
  /\ IsSeq(ws) /\ Typed(ws)
  /\ \A i \in 1 .. Len(ws) :
       /\ ws[i].file = "ca" => ws[i].value = After(s, ws).ca
       /\ ws[i].file = "clientCert" => Mine(After(s, ws), ws[i].value)
       /\ ws[i].file = "idents" => ws[i].value = [r \in Robots |-> None]

(* The robots' are forgotten behind an authority that gives way. *)
Forgets(s, ws) == \A i \in 1 .. Len(ws) :
  ws[i].file = "ca" /\ s.ca \notin {None, ws[i].value}
    => \E j \in 1 .. Len(ws) : j > i /\ ws[j].file = "idents"

(* From a sound store a run ends in whole pairs and an identity of the machine's own, and   *)
(* with the robots' all of its authority.                                                   *)
Forges(s, ws) == Orderly(s, ws) /\ (Sound(s) => Paired(After(s, ws)) /\ Own(After(s, ws)))
Keeps(s, ws) == Forgets(s, ws) /\ (Sound(s) => AllOwn(After(s, ws)))

(* Writes that concern neither the authority nor the robots. *)
Plain(s, ws) ==
  /\ IsSeq(ws)
  /\ \A i \in 1 .. Len(ws) :
       /\ ws[i].file \in {"clientCert", "clientKey", "server", "serverKey", "broker"}
       /\ ws[i].file = "clientCert" => Mine(s, ws[i].value)
       /\ ws[i].file = "broker" => ws[i].value \in Brokers
  /\ Paired(s) => Paired(After(s, ws))

LEMMA PlainAfter ==
  ASSUME NEW s, NEW ws, IsStore(s), Plain(s, ws)
  PROVE  /\ IsStore(After(s, ws)) /\ After(s, ws).ca = s.ca /\ After(s, ws).caKey = s.caKey
         /\ After(s, ws).idents = s.idents
         /\ Own(s) => Own(After(s, ws))
<1> DEFINE t == After(s, ws)
<1>1. DOMAIN t = DOMAIN s /\ DOMAIN ws = 1 .. Len(ws) /\ IsSeq(ws)
  BY AfterSays DEF Plain
<1>2. {"ca", "caKey", "idents", "clientCert"} \subseteq DOMAIN s
  BY DEF IsStore, Files
<1>3. To(ws, "ca") = {} /\ To(ws, "caKey") = {} /\ To(ws, "idents") = {}
  BY <1>1 DEF To, Plain
<1>4. t.ca = s.ca /\ t.caKey = s.caKey /\ t.idents = s.idents
  BY <1>1, <1>2, <1>3, AfterSays
<1> HIDE DEF t
<1>5. ASSUME Own(s) PROVE Own(t)
  <2>1. CASE To(ws, "clientCert") = {}
    <3>1. t.clientCert = s.clientCert
      BY <1>1, <1>2, <2>1, AfterSays DEF t
    <3> QED BY <1>4, <1>5, <3>1 DEF Own, Mine
  <2>2. CASE To(ws, "clientCert") # {}
    <3>1. PICK i \in 1 .. Len(ws) : /\ ws[i].file = "clientCert"
                                    /\ \A j \in 1 .. Len(ws) : j > i => ws[j].file # "clientCert"
      BY <1>1, <2>2, AfterSays
    <3>2. t.clientCert = ws[i].value
      BY <1>1, <1>2, <3>1, LastStands DEF t
    <3>3. Mine(s, ws[i].value)
      BY <3>1 DEF Plain
    <3> QED BY <1>4, <3>2, <3>3 DEF Own, Mine
  <2> QED BY <2>1, <2>2
<1> QED BY <1>1, <1>4, <1>5 DEF IsStore, t

LEMMA EitherPart ==
  ASSUME NEW a, NEW b, IsSeq(a), IsSeq(b)
  PROVE  \A i \in 1 .. Len(a \o b) :
           \/ i \in 1 .. Len(a) /\ (a \o b)[i] = a[i]
           \/ i - Len(a) \in 1 .. Len(b) /\ (a \o b)[i] = b[i - Len(a)]
<1> SUFFICES ASSUME NEW i \in 1 .. Len(a \o b)
             PROVE  \/ i \in 1 .. Len(a) /\ (a \o b)[i] = a[i]
                    \/ i - Len(a) \in 1 .. Len(b) /\ (a \o b)[i] = b[i - Len(a)]
  OBVIOUS
<1>1. CASE i <= Len(a)
  BY <1>1, ConcatSays
<1>2. CASE ~(i <= Len(a))
  <2>1. i - Len(a) \in 1 .. Len(b) /\ i = Len(a) + (i - Len(a))
    BY <1>2, ConcatSays
  <2> QED BY <2>1, ConcatSays
<1> QED BY <1>1, <1>2

LEMMA PlainFollows ==
  ASSUME NEW s, NEW a, NEW b, IsStore(s), Forges(s, a), Plain(After(s, a), b)
  PROVE  Forges(s, a \o b) /\ (Keeps(s, a) => Keeps(s, a \o b))
<1> DEFINE both == a \o b
           t == After(s, a)
           u == After(s, both)
<1>1. IsSeq(a) /\ IsSeq(b) /\ IsStore(t)
  BY AfterSays DEF Forges, Orderly, Plain, IsStore
<1>2. u = After(t, b) /\ IsSeq(both) /\ Len(a) \in Nat /\ Len(both) = Len(a) + Len(b)
      /\ Len(b) \in Nat
  BY <1>1, AfterConcat, ConcatSays
<1>3. \A i \in 1 .. Len(both) : \/ i \in 1 .. Len(a) /\ both[i] = a[i]
                                \/ i - Len(a) \in 1 .. Len(b) /\ both[i] = b[i - Len(a)]
  BY <1>1, EitherPart
<1>4. Plain(t, b) /\ (Sound(s) => Paired(t) /\ Own(t))
  BY DEF Forges
<1>5. \A i \in 1 .. Len(a) : i \in 1 .. Len(both) /\ both[i] = a[i]
  BY <1>1, <1>2, ConcatSays
<1> HIDE DEF both, t, u
<1>6. u.ca = t.ca /\ u.idents = t.idents /\ (Sound(s) => Own(u) /\ Paired(u))
  <2>1. Sound(s) => Paired(u)
    BY <1>2, <1>4 DEF Plain
  <2> QED BY <1>1, <1>2, <1>4, <2>1, PlainAfter
<1>7. \A x : Mine(u, x) <=> Mine(t, x)
  BY <1>6 DEF Mine
<1>8. ASSUME NEW i \in 1 .. Len(both)
      PROVE  /\ both[i].file \in Files
             /\ both[i].file = "ca" => both[i].value \in Authorities /\ both[i].value = u.ca
             /\ both[i].file = "broker" => both[i].value \in Brokers
             /\ both[i].file = "clientCert" => Mine(u, both[i].value)
             /\ both[i].file = "idents" => both[i].value = [r \in Robots |-> None]
  <2>1. CASE i \in 1 .. Len(a) /\ both[i] = a[i]
    BY <1>6, <1>7, <2>1 DEF Forges, Orderly, Typed, t
  <2>2. CASE i - Len(a) \in 1 .. Len(b) /\ both[i] = b[i - Len(a)]
    BY <1>4, <1>7, <2>2 DEF Plain, Files
  <2> QED BY <1>3, <2>1, <2>2
<1>9. Forges(s, both)
  BY <1>2, <1>6, <1>8 DEF Forges, Orderly, Typed, u
<1>10. ASSUME Keeps(s, a) PROVE Keeps(s, both)
  <2>1. Sound(s) => AllOwn(u)
    BY <1>6, <1>7, <1>10 DEF Keeps, AllOwn, t
  <2>2. ASSUME NEW i \in 1 .. Len(both), both[i].file = "ca", s.ca \notin {None, both[i].value}
        PROVE  \E j \in 1 .. Len(both) : j > i /\ both[j].file = "idents"
    <3>1. i \in 1 .. Len(a) /\ both[i] = a[i]
      BY <1>3, <1>4, <2>2 DEF Plain
    <3>2. PICK j \in 1 .. Len(a) : j > i /\ a[j].file = "idents"
      BY <1>10, <2>2, <3>1 DEF Keeps, Forgets
    <3> QED BY <1>5, <3>2
  <2> QED BY <2>1, <2>2 DEF Keeps, Forgets, u
<1> QED BY <1>9, <1>10 DEF both

(* A stage behind which a store that was sound is sound; `ok' is whether it went through. *)
SoundStage(s, st) == st.ok \in BOOLEAN /\ Forges(s, st.writes) /\ Keeps(s, st.writes)
PlainStage(s, st) == st.ok \in BOOLEAN /\ Plain(s, st.writes)

LEMMA SoundFollows ==
  ASSUME NEW s, NEW first, NEW second, IsStore(s), SoundStage(s, first),
         first.ok => PlainStage(After(s, first.writes), second)
  PROVE  SoundStage(s, IF first.ok THEN [writes |-> first.writes \o second.writes,
                                         ok |-> second.ok] ELSE first)
BY PlainFollows DEF SoundStage, PlainStage

LEMMA NothingSays ==
  ASSUME NEW s, IsStore(s)
  PROVE  /\ PlainStage(s, Raises) /\ PlainStage(s, Nothing)
         /\ SoundStage(s, Raises) /\ SoundStage(s, Nothing)
<1> DEFINE t == After(s, <<>>)
<1>1. /\ t.ca = s.ca /\ t.clientCert = s.clientCert /\ t.clientKey = s.clientKey
      /\ t.server = s.server /\ t.serverKey = s.serverKey /\ t.idents = s.idents
  BY AfterEmpty DEF IsStore, Files
<1>2. IsSeq(<<>>) /\ Len(<<>>) = 0
  BY EmptySays
<1> HIDE DEF t
<1>3. Plain(s, <<>>)
  BY <1>1, <1>2 DEF Plain, Paired, t
<1>4. Forges(s, <<>>) /\ Keeps(s, <<>>)
  BY <1>1, <1>2 DEF Sound, Forges, Orderly, Keeps, Forgets, Typed, Paired, Own, AllOwn, Mine, t
<1> QED BY <1>3, <1>4 DEF PlainStage, SoundStage, Raises, Nothing, Writes

-----------------------------------------------------------------------------
(* Sound stages that write neither the authority nor its key *)

LEMMA SaveClientAfter ==
  ASSUME NEW s, NEW i
  PROVE  After(s, SaveClient(i)) = [s EXCEPT !["clientCert"] = i, !["clientKey"] = i]
BY AfterPair DEF SaveClient

LEMMA SaveClientPlain ==
  ASSUME NEW s, NEW i, IsStore(s), Mine(s, i)
  PROVE  PlainStage(s, Writes(SaveClient(i)))
<1> DEFINE ws == SaveClient(i)
           t == After(s, ws)
<1>1. {"clientCert", "clientKey", "server", "serverKey"} \subseteq DOMAIN s
  BY DEF IsStore, Files
<1>2. /\ t.clientCert = i /\ t.clientKey = i /\ t.server = s.server /\ t.serverKey = s.serverKey
  <2>1. t = [s EXCEPT !["clientCert"] = i, !["clientKey"] = i]
    BY SaveClientAfter
  <2> HIDE DEF t
  <2> QED BY <1>1, <2>1
<1>3. /\ IsSeq(ws) /\ Len(ws) = 2 /\ ws[1] = Put("clientCert", i) /\ ws[2] = Put("clientKey", i)
  BY PairSays DEF SaveClient
<1> HIDE DEF ws, t
<1>4. /\ ws[1].file = "clientCert" /\ ws[1].value = i /\ ws[2].file = "clientKey"
  BY <1>3 DEF Put
<1>5. Paired(s) => Paired(t)
  BY <1>2 DEF Paired
<1>6. Plain(s, ws)
  BY <1>3, <1>4, <1>5 DEF Plain, t
<1> QED BY <1>6 DEF PlainStage, Writes, ws

LEMMA IssuePlain ==
  ASSUME NEW s, NEW a, NEW host, NEW k, IsStore(s)
  PROVE  PlainStage(s, Writes(IssueServer(a, host, k)))
<1> DEFINE c == [by |-> a.ca, n |-> k, host |-> host]
           ws == <<Put("server", c), Put("serverKey", c.n)>>
           t == After(s, ws)
<1>1. {"clientCert", "clientKey", "server", "serverKey"} \subseteq DOMAIN s
  BY DEF IsStore, Files
<1>2. /\ t.server = c /\ t.serverKey = c.n /\ t.clientCert = s.clientCert
      /\ t.clientKey = s.clientKey
  <2> HIDE DEF c
  <2>1. t = [s EXCEPT !["server"] = c, !["serverKey"] = c.n]
    BY AfterPair
  <2> HIDE DEF t
  <2> QED BY <1>1, <2>1
<1>3. IsSeq(ws) /\ Len(ws) = 2 /\ ws[1] = Put("server", c) /\ ws[2] = Put("serverKey", c.n)
  <2> HIDE DEF c
  <2> QED BY PairSays
<1>0. IssueServer(a, host, k) = ws
  BY DEF IssueServer, SaveServer
<1> HIDE DEF ws, t, c
<1>4. ws[1].file = "server" /\ ws[2].file = "serverKey"
  BY <1>3 DEF Put
<1>5. Paired(s) => Paired(t)
  BY <1>2 DEF Paired
<1>6. Plain(s, ws)
  BY <1>3, <1>4, <1>5 DEF Plain, t
<1> QED BY <1>0, <1>6 DEF PlainStage, Writes

LEMMA ClientIdentityPlain ==
  ASSUME NEW s, NEW k, IsStore(s), s.ca # None
  PROVE  PlainStage(s, ClientIdentity(s, k))
<1>1. Mine(s, [by |-> s.ca, n |-> k])
  BY DEF Mine
<1> QED BY <1>1, NothingSays, SaveClientPlain DEF ClientIdentity

LEMMA MintPlain ==
  ASSUME NEW s, NEW v, NEW k, IsStore(s), s.ca # None
  PROVE  PlainStage(s, MintUnlessBrought(s, v, k))
BY ClientIdentityPlain, NothingSays DEF MintUnlessBrought

LEMMA FileClientPlain ==
  ASSUME NEW s, NEW v, IsStore(s)
  PROVE  PlainStage(s, FileClient(s, v))
<1>1. v.client # None /\ v.client = s.ca => Mine(s, [by |-> v.client, n |-> 0])
  BY DEF Mine
<1> QED BY <1>1, NothingSays, SaveClientPlain DEF FileClient

LEMMA RefreshPlain ==
  ASSUME NEW s, NEW host, NEW k, IsStore(s)
  PROVE  PlainStage(s, RefreshServer(s, host, k))
BY NothingSays, IssuePlain DEF RefreshServer

LEMMA BrokerPlain ==
  ASSUME NEW s, NEW b \in Brokers, IsStore(s)
  PROVE  PlainStage(s, Writes(<<Put("broker", b)>>))
<1> DEFINE w == Put("broker", b)
           ws == <<w>>
           t == After(s, ws)
<1>1. IsSeq(ws) /\ Len(ws) = 1 /\ ws[1] = w /\ w.file = "broker" /\ w.value = b
  <2>1. w.file = "broker" /\ w.value = b
    BY DEF Put
  <2> HIDE DEF w
  <2> QED BY <2>1, OneSays
<1>2. t = Apply(s, w)
  <2> HIDE DEF w
  <2> QED BY AfterOne
<1> HIDE DEF ws, t, w
<1>3. /\ t.clientCert = s.clientCert /\ t.clientKey = s.clientKey
      /\ t.server = s.server /\ t.serverKey = s.serverKey
  BY <1>1, <1>2 DEF Apply, IsStore, Files
<1>4. Paired(s) => Paired(t)
  BY <1>3 DEF Paired
<1>5. Plain(s, ws)
  BY <1>1, <1>4 DEF Plain, t
<1> QED BY <1>5 DEF PlainStage, Writes, ws, w

-----------------------------------------------------------------------------
(* Sound stages that may write the authority *)

LEMMA CaAfter ==
  ASSUME NEW s, NEW a, NEW b
  PROVE  After(s, <<Put("ca", a), Put("caKey", b)>>) = [s EXCEPT !["ca"] = a, !["caKey"] = b]
BY AfterPair

LEMMA CaWritesSound ==
  ASSUME NEW s, NEW a \in Authorities, NEW b, IsStore(s), s.ca \in {None, a}
  PROVE  SoundStage(s, Writes(<<Put("ca", a), Put("caKey", b)>>))
<1> DEFINE ws == <<Put("ca", a), Put("caKey", b)>>
           t == After(s, ws)
<1>1. /\ t.ca = a /\ t.clientCert = s.clientCert /\ t.clientKey = s.clientKey
      /\ t.server = s.server /\ t.serverKey = s.serverKey /\ t.idents = s.idents
  <2>1. t = [s EXCEPT !["ca"] = a, !["caKey"] = b]
    BY CaAfter
  <2> HIDE DEF t
  <2> QED BY <2>1 DEF IsStore, Files
<1>2. IsSeq(ws) /\ Len(ws) = 2 /\ ws[1] = Put("ca", a) /\ ws[2] = Put("caKey", b)
  BY PairSays
<1> HIDE DEF ws, t
<1>3. ws[1].file = "ca" /\ ws[1].value = a /\ ws[2].file = "caKey"
  BY <1>2 DEF Put
<1>4. a # None
  BY SetupAssumption DEF Authorities
<1>5. \A x : Mine(s, x) => Mine(t, x)
  BY <1>1, <1>4 DEF Mine
<1>6. Sound(s) => Paired(t) /\ Own(t) /\ AllOwn(t)
  BY <1>1, <1>5 DEF Sound, Paired, Own, AllOwn
<1>7. Typed(ws)
  BY <1>2, <1>3 DEF Typed, Files
<1>8. Forges(s, ws)
  BY <1>1, <1>2, <1>3, <1>6, <1>7 DEF Forges, Orderly, t
<1>9. Keeps(s, ws)
  BY <1>2, <1>3, <1>6 DEF Keeps, Forgets, t
<1> QED BY <1>8, <1>9 DEF SoundStage, Writes, ws

LEMMA CaWritesAfter ==
  ASSUME NEW s, NEW a, NEW b, IsStore(s)
  PROVE  LET t == After(s, <<Put("ca", a), Put("caKey", b)>>) IN
         IsStore(t) /\ t.ca = a /\ t.caKey = b
<1> DEFINE t == After(s, <<Put("ca", a), Put("caKey", b)>>)
<1>1. "ca" \in DOMAIN s /\ "caKey" \in DOMAIN s
  BY DEF IsStore, Files
<1>2. t = [s EXCEPT !["ca"] = a, !["caKey"] = b]
  BY CaAfter
<1> HIDE DEF t
<1>3. IsStore(t) /\ t.ca = a /\ t.caKey = b
  BY <1>1, <1>2 DEF IsStore
<1> QED BY <1>3 DEF t

LEMMA BringSound ==
  ASSUME NEW s, NEW a \in Foreign, IsStore(s), NEW b
  PROVE  LET st == Bring(s, a, <<Put("ca", a), Put("caKey", b)>>)
             t == After(s, st.writes)
         IN  SoundStage(s, st) /\ (st.ok => IsStore(t) /\ t.ca = a /\ t.caKey = b)
<1> DEFINE ws == <<Put("ca", a), Put("caKey", b)>>
<1>1. a \in Authorities
  BY DEF Authorities
<1>2. CASE s.ca \in {None, a}
  <2>1. Bring(s, a, ws) = Writes(ws)
    BY <1>2 DEF Bring
  <2>2. Writes(ws).writes = ws
    BY DEF Writes
  <2> QED BY <1>1, <1>2, <2>1, <2>2, CaWritesSound, CaWritesAfter
<1>3. CASE s.ca \notin {None, a}
  <2>1. Bring(s, a, ws) = Raises
    BY <1>3 DEF Bring
  <2> QED BY <2>1, NothingSays DEF Raises
<1> QED BY <1>2, <1>3

(* A stage behind another one leaves the files as the second leaves them. *)
Joined(first, second) ==
  IF first.ok THEN [writes |-> first.writes \o second.writes, ok |-> second.ok] ELSE first

LEMMA JoinedAfter ==
  ASSUME NEW s, NEW first, NEW second, IsSeq(first.writes), IsSeq(second.writes),
         Joined(first, second).ok
  PROVE  /\ first.ok /\ second.ok
         /\ After(s, Joined(first, second).writes) = After(After(s, first.writes), second.writes)
<1> DEFINE st == Joined(first, second)
<1>1. CASE first.ok
  <2>1. st.writes = first.writes \o second.writes /\ (st.ok <=> second.ok)
    BY <1>1 DEF Joined
  <2>2. After(s, first.writes \o second.writes) = After(After(s, first.writes), second.writes)
    BY <1>1, AfterConcat
  <2> QED BY <1>1, <2>1, <2>2, Zenon
<1>2. CASE ~first.ok
  BY <1>2 DEF Joined
<1> QED BY <1>1, <1>2

LEMMA JoinedSound ==
  ASSUME NEW s, NEW first, NEW second, IsStore(s), SoundStage(s, first),
         first.ok => PlainStage(After(s, first.writes), second)
  PROVE  SoundStage(s, Joined(first, second))
BY SoundFollows DEF Joined

LEMMA AfterStore ==
  ASSUME NEW s, NEW ws, IsStore(s), IsSeq(ws)
  PROVE  IsStore(After(s, ws))
BY AfterSays DEF IsStore

LEMMA ClientUntouched ==
  ASSUME NEW s, NEW ws, IsStore(s), IsSeq(ws),
         \A i \in 1 .. Len(ws) : ws[i].file \notin {"clientCert", "clientKey"}
  PROVE  HasClient(s) => HasClient(After(s, ws))
<1>1. {"clientCert", "clientKey"} \subseteq DOMAIN s
  BY DEF IsStore, Files
<1>2. To(ws, "clientCert") = {} /\ To(ws, "clientKey") = {}
  BY AfterSays DEF To
<1>3. After(s, ws).clientCert = s.clientCert /\ After(s, ws).clientKey = s.clientKey
  BY <1>1, <1>2, AfterSays
<1> QED BY <1>3 DEF HasClient

LEMMA ServingLeavesClient ==
  ASSUME NEW s, IsStore(s), NEW a, NEW host, NEW k,
         NEW st \in {Writes(IssueServer(a, host, k)), Nothing}
  PROVE  st.ok = TRUE /\ IsSeq(st.writes) /\ (HasClient(s) => HasClient(After(s, st.writes)))
<1> DEFINE c == [by |-> a.ca, n |-> k, host |-> host]
           ws == <<Put("server", c), Put("serverKey", c.n)>>
<1>1. st.ok = TRUE /\ (st.writes = ws \/ st.writes = <<>>)
  BY DEF Writes, Nothing, IssueServer, SaveServer
<1>2. IsSeq(ws) /\ Len(ws) = 2 /\ ws[1].file = "server" /\ ws[2].file = "serverKey"
  <2> HIDE DEF c
  <2> QED BY PairSays DEF Put
<1> HIDE DEF ws
<1>3. \A i \in 1 .. Len(ws) : ws[i].file \notin {"clientCert", "clientKey"}
  BY <1>2
<1>4. HasClient(s) => HasClient(After(s, ws)) /\ HasClient(After(s, <<>>))
  BY <1>2, <1>3, EmptySays, ClientUntouched
<1> QED BY <1>1, <1>2, <1>4, EmptySays

LEMMA ClientIdentityGives ==
  ASSUME NEW s, NEW k \in 1 .. MaxRuns, IsStore(s), s.ca \in Authorities,
         ClientIdentity(s, k).ok
  PROVE  LET t == After(s, ClientIdentity(s, k).writes) IN
         HasClient(t) /\ t.clientCert = t.clientKey
<1> DEFINE i == [by |-> s.ca, n |-> k]
           st == ClientIdentity(s, k)
           t == After(s, st.writes)
<1>1. {"clientCert", "clientKey"} \subseteq DOMAIN s
  BY DEF IsStore, Files
<1>2. i # None
  BY SetupAssumption DEF Identities
<1>3. CASE HasClient(s)
  <2>1. s.clientCert = s.clientKey /\ st = Nothing
    BY <1>3 DEF ClientIdentity, Raises
  <2>2. st.writes = <<>>
    BY <2>1 DEF Nothing, Writes
  <2>3. t.clientCert = s.clientCert /\ t.clientKey = s.clientKey
    <3> HIDE DEF st
    <3> QED BY <1>1, <2>2, AfterEmpty
  <2> HIDE DEF t
  <2> QED BY <1>3, <2>1, <2>3 DEF HasClient, t, st
<1>4. CASE ~HasClient(s)
  <2>1. st = Writes(SaveClient(i))
    BY <1>4 DEF ClientIdentity, Raises
  <2>2. st.writes = SaveClient(i)
    BY <2>1 DEF Writes
  <2>3. t.clientCert = i /\ t.clientKey = i
    <3> HIDE DEF st, i
    <3> QED BY <1>1, <2>2, SaveClientAfter
  <2> HIDE DEF t, i
  <2> QED BY <1>2, <2>3 DEF HasClient, t, st
<1> QED BY <1>3, <1>4

(* What the flags of a setup that went through call for. *)
Ready(v, mode, t) ==
  /\ mode = "supplied" => t.caKey = None /\ (v.client = None => HasClient(t))
  /\ mode # "mutual" => ~v.key /\ (v.ca # None => t.ca = v.ca /\ t.caKey = None)
  /\ mode = "mutual" =>
       IF v.key THEN /\ v.ca # None /\ t.ca = v.ca /\ t.caKey = v.ca
                     /\ v.client = None => HasClient(t) /\ t.clientCert = t.clientKey
       ELSE v.ca = None

(* A run that ends well behind an authority that may sign has an identity, or found none to *)
(* begin with beside such an authority, or is still to file the one it was brought.          *)
Arms(s, v, t) == Armed(s) /\ HasCa(t) /\ v.client = None => HasClient(t)

LEMMA TrustAnchorSound ==
  ASSUME NEW s, NEW v \in Invocations, NEW mode, mode # "mutual", IsStore(s)
  PROVE  LET st == EnsureTrustAnchor(s, v, mode) IN
         /\ SoundStage(s, st)
         /\ st.ok => Ready(v, mode, After(s, st.writes)) /\ Arms(s, v, After(s, st.writes))
<1> DEFINE given == IF v.ca # None THEN v.ca ELSE IF v.answer = "file" THEN v.typed ELSE None
           anchor == IF v.ca = None /\ s.ca # None THEN Nothing
                     ELSE IF given \in Foreign THEN Bring(s, given, SaveCaCertOnly(given))
                     ELSE Raises
           Needs(t) == IF mode = "supplied" /\ v.client = None /\ ~HasClient(t) THEN Raises
                       ELSE Nothing
           st == Then(s, anchor, Needs)
           t == After(s, anchor.writes)
           u == After(s, st.writes)
<1>1. v.ca \in Foreign \cup {None}
  BY DEF Invocations
<1>2. SoundStage(s, anchor)
  BY BringSound, NothingSays DEF SaveCaCertOnly
<1>3. IsStore(t) /\ IsSeq(anchor.writes)
  <2> HIDE DEF anchor
  <2> QED BY <1>2, AfterStore DEF SoundStage, Forges, Orderly
<1>4. PlainStage(t, Needs(t)) /\ IsSeq(Needs(t).writes) /\ Needs(t).writes = <<>>
  <2> HIDE DEF t
  <2> QED BY <1>3, NothingSays, EmptySays DEF Raises, Nothing, Writes
<1>5. SoundStage(s, st)
  <2> HIDE DEF anchor, Needs
  <2> QED BY <1>2, <1>4, SoundFollows DEF Then
<1>6. st.ok => anchor.ok /\ Needs(t).ok /\ u = After(t, <<>>)
  <2> HIDE DEF anchor, Needs
  <2> DEFINE second == Needs(After(s, anchor.writes))
  <2>1. st = Joined(anchor, second)
    BY DEF Then, Joined
  <2>2. IsSeq(second.writes) /\ IsSeq(anchor.writes)
    BY <1>3, <1>4
  <2>0. second.writes = <<>>
    BY <1>4
  <2> HIDE DEF second, st
  <2>3. ASSUME Joined(anchor, second).ok
        PROVE  /\ anchor.ok /\ second.ok
               /\ After(s, Joined(anchor, second).writes)
                    = After(After(s, anchor.writes), second.writes)
    BY <2>2, <2>3, JoinedAfter
  <2>4. st.ok => /\ anchor.ok /\ second.ok
                 /\ After(s, st.writes) = After(After(s, anchor.writes), <<>>)
    BY <2>0, <2>1, <2>3
  <2> QED BY <2>4 DEF second
<1>7. ASSUME st.ok, ~(v.key \/ (mode = "supplied" /\ HasCa(s)))
      PROVE  Ready(v, mode, u) /\ Arms(s, v, u)
  <2>1. u.ca = t.ca /\ u.caKey = t.caKey /\ u.clientCert = t.clientCert
        /\ u.clientKey = t.clientKey
    <3> HIDE DEF st, t, u
    <3> QED BY <1>3, <1>6, <1>7, AfterEmpty DEF IsStore, Files
  <2>2. anchor.ok /\ Needs(t).ok
    <3> HIDE DEF st, t, anchor, Needs
    <3> QED BY <1>6, <1>7
  <2>3. mode = "supplied" /\ v.client = None => HasClient(t)
    <3> HIDE DEF t, anchor, st, u
    <3>1. mode = "supplied" /\ v.client = None /\ ~HasClient(t) => Needs(t) = Raises
      OBVIOUS
    <3>2. ~Raises.ok
      BY DEF Raises
    <3> HIDE DEF Needs
    <3> QED BY <2>2, <3>1, <3>2
  <2>4. /\ v.ca # None => t.ca = v.ca /\ t.caKey = None
        /\ mode = "supplied" => t.caKey = None
        /\ \/ t.caKey = None
           \/ /\ t.ca = s.ca /\ t.caKey = s.caKey
              /\ t.clientCert = s.clientCert /\ t.clientKey = s.clientKey
    <3>1. CASE v.ca = None /\ s.ca # None
      <4>1. anchor.writes = <<>>
        BY <3>1 DEF Nothing, Writes
      <4>2. /\ t.ca = s.ca /\ t.caKey = s.caKey
            /\ t.clientCert = s.clientCert /\ t.clientKey = s.clientKey
        <5> HIDE DEF anchor
        <5> QED BY <4>1, AfterEmpty DEF IsStore, Files
      <4> HIDE DEF t, anchor
      <4> QED BY <1>7, <3>1, <4>2 DEF HasCa
    <3>2. CASE ~(v.ca = None /\ s.ca # None)
      <4>1. given \in Foreign
        BY <2>2, <3>2 DEF Raises
      <4>2. anchor = Bring(s, given, SaveCaCertOnly(given))
        BY <3>2, <4>1
      <4> HIDE DEF given, anchor
      <4>3. t.ca = given /\ t.caKey = None
        BY <2>2, <4>1, <4>2, BringSound DEF SaveCaCertOnly
      <4> QED BY <4>3 DEF given
    <3> QED BY <3>1, <3>2
  <2> HIDE DEF t, u, st, anchor, Needs
  <2>5. HasClient(t) <=> HasClient(u)
    BY <2>1 DEF HasClient
  <2>6. Ready(v, mode, u)
    BY <1>7, <2>1, <2>3, <2>4, <2>5 DEF Ready
  <2>7. Arms(s, v, u)
    BY <2>1, <2>4 DEF Arms, Armed, HasCa, HasClient
  <2> QED BY <2>6, <2>7
<1>8. CASE v.key \/ (mode = "supplied" /\ HasCa(s))
  <2>1. EnsureTrustAnchor(s, v, mode) = Raises
    BY <1>8 DEF EnsureTrustAnchor
  <2> QED BY <2>1, NothingSays DEF Raises
<1>9. CASE ~(v.key \/ (mode = "supplied" /\ HasCa(s)))
  <2>1. EnsureTrustAnchor(s, v, mode) = st
    BY <1>9 DEF EnsureTrustAnchor
  <2> HIDE DEF st
  <2> QED BY <1>5, <1>7, <1>9, <2>1 DEF u
<1> QED BY <1>8, <1>9

LEMMA ForgetFollows ==
  ASSUME NEW s, NEW a, IsStore(s), Forges(s, a)
  PROVE  Forges(s, a \o ForgetIssued) /\ Keeps(s, a \o ForgetIssued)
<1> DEFINE w == Put("idents", [r \in Robots |-> None])
           f == <<w>>
           both == a \o f
           t == After(s, a)
           u == After(s, both)
<1>1. IsSeq(a) /\ IsSeq(f) /\ Len(f) = 1 /\ f[1] = w
  <2> HIDE DEF w
  <2> QED BY OneSays DEF Forges, Orderly
<1>2. w.file = "idents" /\ w.value = [r \in Robots |-> None]
  BY DEF Put
<1>3. /\ u = Apply(t, w)
      /\ IsSeq(both) /\ Len(a) \in Nat /\ Len(both) = Len(a) + 1
      /\ both[Len(a) + 1] = w
  <2> HIDE DEF w
  <2>1. u = After(t, f)
    <3> HIDE DEF f
    <3> QED BY <1>1, AfterConcat
  <2>2. After(t, f) = Apply(t, w)
    BY AfterOne
  <2> HIDE DEF f
  <2>3. /\ IsSeq(both) /\ Len(a) \in Nat /\ Len(both) = Len(a) + Len(f)
        /\ \A i \in 1 .. Len(f) : both[Len(a) + i] = f[i]
    BY <1>1, ConcatSays
  <2> HIDE DEF both
  <2>4. both[Len(a) + 1] = f[1]
    BY <1>1, <2>3
  <2> QED BY <1>1, <2>1, <2>2, <2>3, <2>4
<1>4. \A i \in 1 .. Len(both) : \/ i \in 1 .. Len(a) /\ both[i] = a[i]
                                \/ i = Len(a) + 1 /\ both[i] = w
  <2> HIDE DEF f, w
  <2>1. \A i \in 1 .. Len(both) : i \in 1 .. Len(a) => both[i] = a[i]
    BY <1>1, ConcatSays
  <2> HIDE DEF both
  <2> QED BY <1>3, <2>1
<1>5. ForgetIssued = f
  BY DEF ForgetIssued
<1> HIDE DEF u, both, f, w
<1>6. /\ u.ca = t.ca /\ u.clientCert = t.clientCert /\ u.clientKey = t.clientKey
      /\ u.server = t.server /\ u.serverKey = t.serverKey
      /\ u.idents = [r \in Robots |-> None]
  <2>1. IsStore(t)
    BY <1>1, AfterStore
  <2> HIDE DEF t
  <2> QED BY <1>2, <1>3, <2>1 DEF Apply, IsStore, Files
<1>7. \A x : Mine(u, x) <=> Mine(t, x)
  BY <1>6 DEF Mine
<1>8. AllOwn(u) /\ (Sound(s) => Paired(u) /\ Own(u))
  BY <1>6, <1>7 DEF Forges, Paired, Own, AllOwn, Mine
<1>9. ASSUME NEW i \in 1 .. Len(both)
      PROVE  /\ both[i].file \in Files
             /\ both[i].file = "ca" => both[i].value \in Authorities /\ both[i].value = u.ca
             /\ both[i].file = "broker" => both[i].value \in Brokers
             /\ both[i].file = "clientCert" => Mine(u, both[i].value)
             /\ both[i].file = "idents" => both[i].value = [r \in Robots |-> None]
  <2>1. CASE i \in 1 .. Len(a) /\ both[i] = a[i]
    BY <1>6, <1>7, <2>1 DEF Forges, Orderly, Typed, t
  <2>2. CASE both[i] = w
    BY <1>2, <2>2 DEF Files
  <2> QED BY <1>4, <2>1, <2>2
<1>10. Forges(s, both)
  BY <1>3, <1>8, <1>9 DEF Forges, Orderly, Typed, u
<1>11. ASSUME NEW i \in 1 .. Len(both), both[i].file = "ca"
       PROVE  \E j \in 1 .. Len(both) : j > i /\ both[j].file = "idents"
  <2>1. i \in 1 .. Len(a)
    BY <1>2, <1>4, <1>11
  <2>2. Len(a) + 1 \in 1 .. Len(both) /\ Len(a) + 1 > i /\ both[Len(a) + 1].file = "idents"
    BY <1>2, <1>3, <2>1
  <2> QED BY <2>2
<1>12. Keeps(s, both)
  BY <1>8, <1>11 DEF Keeps, Forgets, u
<1> QED BY <1>5, <1>10, <1>12 DEF both

LEMMA ForgedForges ==
  ASSUME NEW s, NEW k \in 1 .. MaxRuns, IsStore(s)
  PROVE  LET ws == SaveCa(k) \o ForgetClient
             t == After(s, ws)
         IN  /\ Forges(s, ws) /\ IsStore(t) /\ t.ca = k /\ t.caKey = k
             /\ t.clientCert = None
<1> DEFINE c == SaveCa(k)
           d == ForgetClient
           ws == c \o d
           t == After(s, ws)
<1>1. /\ IsSeq(c) /\ Len(c) = 2 /\ c[1] = Put("ca", k) /\ c[2] = Put("caKey", k)
      /\ IsSeq(d) /\ Len(d) = 2 /\ d[1] = Put("clientCert", None) /\ d[2] = Put("clientKey", None)
  BY PairSays DEF SaveCa, ForgetClient, SaveClient
<1>2. /\ After(s, c) = [s EXCEPT !["ca"] = k, !["caKey"] = k]
      /\ \A x : After(x, d) = [x EXCEPT !["clientCert"] = None, !["clientKey"] = None]
  BY CaAfter, SaveClientAfter DEF SaveCa, ForgetClient
<1> HIDE DEF c, d
<1>3. t = After(After(s, c), d)
  BY <1>1, AfterConcat
<1>4. IsSeq(ws) /\ \A i \in 1 .. Len(ws) : \E j \in 1 .. 2 : ws[i] = c[j] \/ ws[i] = d[j]
  <2>1. IsSeq(ws)
    BY <1>1, ConcatSays
  <2>2. \A i \in 1 .. Len(ws) : \/ i \in 1 .. Len(c) /\ ws[i] = c[i]
                                \/ i - Len(c) \in 1 .. Len(d) /\ ws[i] = d[i - Len(c)]
    BY <1>1, EitherPart
  <2> HIDE DEF ws
  <2>3. ASSUME NEW i \in 1 .. Len(ws) PROVE \E j \in 1 .. 2 : ws[i] = c[j] \/ ws[i] = d[j]
    <3>1. CASE i \in 1 .. Len(c) /\ ws[i] = c[i]
      BY <1>1, <3>1
    <3>2. CASE i - Len(c) \in 1 .. Len(d) /\ ws[i] = d[i - Len(c)]
      BY <1>1, <3>2
    <3> QED BY <2>2, <3>1, <3>2
  <2> QED BY <2>1, <2>3
<1>5. /\ IsStore(t) /\ t.ca = k /\ t.caKey = k /\ t.clientCert = None /\ t.clientKey = None
      /\ t.server = s.server /\ t.serverKey = s.serverKey
  <2> DEFINE x == [s EXCEPT !["ca"] = k, !["caKey"] = k]
  <2>1. t = [x EXCEPT !["clientCert"] = None, !["clientKey"] = None]
    BY <1>2, <1>3
  <2>2. /\ IsStore(x) /\ x.ca = k /\ x.caKey = k /\ x.server = s.server
        /\ x.serverKey = s.serverKey
    BY DEF IsStore, Files
  <2> HIDE DEF t, x
  <2> QED BY <2>1, <2>2 DEF IsStore, Files
<1> HIDE DEF t, ws
<1>6. /\ c[1].file = "ca" /\ c[1].value = k /\ c[2].file = "caKey"
      /\ d[1].file = "clientCert" /\ d[1].value = None /\ d[2].file = "clientKey"
  BY <1>1 DEF Put
<1>7. ASSUME NEW i \in 1 .. Len(ws)
      PROVE  \/ ws[i].file = "ca" /\ ws[i].value = k
             \/ ws[i].file = "caKey" \/ ws[i].file = "clientKey"
             \/ ws[i].file = "clientCert" /\ ws[i].value = None
  <2>1. PICK j \in 1 .. 2 : ws[i] = c[j] \/ ws[i] = d[j]
    BY <1>4
  <2>2. j = 1 \/ j = 2
    BY <2>1
  <2> QED BY <1>6, <2>1, <2>2
<1>8. k \in Authorities
  BY DEF Authorities
<1>9. Forges(s, ws)
  <2>1. Typed(ws)
    BY <1>7, <1>8 DEF Typed, Files
  <2>2. Sound(s) => Paired(t) /\ Own(t)
    BY <1>5 DEF Sound, Paired, Own, Mine
  <2> QED BY <1>4, <1>5, <1>7, <2>1, <2>2 DEF Forges, Orderly, Mine, t
<1> QED BY <1>5, <1>9 DEF t, ws, c, d

LEMMA ReplaceSound ==
  ASSUME NEW s, NEW host, NEW k \in 1 .. MaxRuns, IsStore(s)
  PROVE  LET st == ReplaceAuthority(s, host, k) IN
         SoundStage(s, st) /\ HasClient(After(s, st.writes))
<1> DEFINE fs == SaveCa(k) \o ForgetClient
           t == After(s, fs)
           m == ClientIdentity(t, k)
           ms == fs \o m.writes
           gs == ms \o ForgetIssued
           x == After(s, gs)
           served == IF s.server = None \/ s.server.by = s.ca
                     THEN Writes(IssueServer(x, host, k)) ELSE Nothing
           forgot == [writes |-> gs, ok |-> TRUE]
<1>1. Forges(s, fs) /\ IsStore(t) /\ t.ca = k /\ t.caKey = k /\ t.clientCert = None
  BY ForgedForges
<1> HIDE DEF t, fs
<1>2. k # None
  BY SetupAssumption
<1>3. PlainStage(t, m) /\ m.ok = TRUE
  <2>1. PlainStage(t, m)
    BY <1>1, <1>2, ClientIdentityPlain
  <2>2. ~HasClient(t)
    BY <1>1 DEF HasClient
  <2> QED BY <1>1, <2>1, <2>2 DEF ClientIdentity, Writes
<1>11. HasClient(After(t, m.writes))
  <2>1. t.ca \in Authorities
    BY <1>1 DEF Authorities
  <2> QED BY <1>1, <1>3, <2>1, ClientIdentityGives
<1> HIDE DEF m
<1>12. After(s, ms) = After(t, m.writes) /\ IsSeq(ms) /\ IsStore(After(s, ms))
  <2>1. IsSeq(fs) /\ IsSeq(m.writes)
    BY <1>1, <1>3 DEF Forges, Orderly, PlainStage, Plain
  <2>2. After(s, ms) = After(t, m.writes) /\ IsSeq(ms)
    BY <2>1, AfterConcat, ConcatSays DEF t
  <2> QED BY <1>1, <2>1, <2>2, AfterStore
<1>13. HasClient(x)
  <2> DEFINE y == After(s, ms)
             f == ForgetIssued
  <2>1. IsSeq(f) /\ Len(f) = 1 /\ f[1].file = "idents"
    BY OneSays DEF ForgetIssued, Put
  <2> HIDE DEF f, ms
  <2>2. x = After(y, f)
    BY <1>12, <2>1, AfterConcat DEF f
  <2> HIDE DEF x
  <2>3. \A i \in 1 .. Len(f) : f[i].file \notin {"clientCert", "clientKey"}
    BY <2>1
  <2> QED BY <1>11, <1>12, <2>1, <2>2, <2>3, ClientUntouched
<1>4. Forges(s, ms)
  BY <1>1, <1>3, PlainFollows DEF PlainStage, t
<1>5. Forges(s, gs) /\ Keeps(s, gs)
  BY <1>4, ForgetFollows
<1>6. IsStore(x)
  <2> HIDE DEF gs
  <2> QED BY <1>5, AfterStore DEF Forges, Orderly
<1> HIDE DEF x, gs, ms
<1>7. PlainStage(x, served)
  BY <1>6, IssuePlain, NothingSays
<1>14. served.ok = TRUE /\ IsSeq(served.writes) /\ HasClient(After(x, served.writes))
  BY <1>6, <1>13, ServingLeavesClient
<1> HIDE DEF served
<1>8. forgot.writes = gs /\ forgot.ok = TRUE
  OBVIOUS
<1> HIDE DEF forgot
<1>9. SoundStage(s, Joined(forgot, served))
  <2>1. SoundStage(s, forgot)
    BY <1>5, <1>8 DEF SoundStage
  <2> QED BY <1>7, <1>8, <2>1, JoinedSound DEF x
<1>10. ReplaceAuthority(s, host, k) = Joined(forgot, served)
  <2> DEFINE Mints(y) == ClientIdentity(y, k)
             Drops(y) == Writes(ForgetIssued)
             Serves(y) == IF s.server = None \/ s.server.by = s.ca
                          THEN Writes(IssueServer(y, host, k)) ELSE Nothing
             Forged == Writes(SaveCa(k) \o ForgetClient)
             Minted == Then(s, Forged, Mints)
             Forgot == Then(s, Minted, Drops)
  <2>1. Forged.writes = fs /\ Forged.ok = TRUE
    BY DEF Writes, fs
  <2>2. Minted = [writes |-> ms, ok |-> m.ok]
    <3> HIDE DEF Forged
    <3> QED BY <2>1 DEF Then, ms, m, t
  <2> HIDE DEF Forged
  <2>3. Minted.writes = ms /\ Minted.ok = TRUE
    BY <1>3, <2>2
  <2> HIDE DEF Minted
  <2>4. Forgot = [writes |-> ms \o Writes(ForgetIssued).writes, ok |-> Writes(ForgetIssued).ok]
    BY <2>3 DEF Then
  <2>5. Writes(ForgetIssued).writes = ForgetIssued /\ Writes(ForgetIssued).ok = TRUE
    BY DEF Writes
  <2>6. Forgot = forgot
    BY <2>4, <2>5 DEF forgot, gs
  <2> HIDE DEF Forgot
  <2>7. Then(s, Forgot, Serves) = Joined(forgot, served)
    BY <1>8, <2>6 DEF Then, Joined, served, x
  <2>8. ReplaceAuthority(s, host, k) = Then(s, Forgot, Serves)
    BY DEF ReplaceAuthority, Then, Forgot, Minted, Forged
  <2> QED BY <2>7, <2>8
<1>15. After(s, Joined(forgot, served).writes) = After(x, served.writes)
  <2>1. Joined(forgot, served).ok
    BY <1>8, <1>14 DEF Joined
  <2>2. IsSeq(forgot.writes)
    BY <1>5, <1>8 DEF Forges, Orderly
  <2> QED BY <1>8, <1>14, <2>1, <2>2, JoinedAfter DEF x
<1> QED BY <1>9, <1>10, <1>14, <1>15

LEMMA TrustOnlySound ==
  ASSUME NEW s, NEW v, NEW host, NEW k \in 1 .. MaxRuns, IsStore(s), s.ca \in Authorities
  PROVE  LET st == ResolveTrustOnly(s, v, host, k) IN
         SoundStage(s, st) /\ (st.ok => HasClient(After(s, st.writes)))
<1> DEFINE kept == Writes(SaveCa(s.ca))
           t == After(s, kept.writes)
           mint == ClientIdentity(t, k)
           Mints(y) == ClientIdentity(y, k)
<1>1. SoundStage(s, kept)
  BY CaWritesSound DEF SaveCa
<1>2. IsStore(t) /\ t.ca = s.ca
  <2>1. kept.writes = <<Put("ca", s.ca), Put("caKey", s.ca)>>
    BY DEF Writes, SaveCa
  <2> HIDE DEF kept
  <2> QED BY <2>1, CaWritesAfter
<1>3. s.ca # None
  BY SetupAssumption DEF Authorities
<1>4. PlainStage(t, mint)
  BY <1>2, <1>3, ClientIdentityPlain
<1>5. Then(s, kept, Mints) = Joined(kept, mint)
  BY DEF Then, Joined
<1>9. mint.ok => HasClient(After(t, mint.writes))
  <2> HIDE DEF t
  <2> QED BY <1>2, ClientIdentityGives
<1> HIDE DEF kept, mint
<1>10. Joined(kept, mint).ok => HasClient(After(s, Joined(kept, mint).writes))
  <2>1. IsSeq(kept.writes) /\ IsSeq(mint.writes)
    BY <1>1, <1>4 DEF SoundStage, Forges, Orderly, PlainStage, Plain
  <2> QED BY <1>9, <2>1, JoinedAfter DEF t
<1>6. SoundStage(s, Joined(kept, mint))
  BY <1>1, <1>4, JoinedSound DEF t
<1>7. /\ SoundStage(s, ReplaceAuthority(s, host, k))
      /\ HasClient(After(s, ReplaceAuthority(s, host, k).writes))
  BY ReplaceSound
<1>8. ResolveTrustOnly(s, v, host, k) \in {ReplaceAuthority(s, host, k), Joined(kept, mint), Raises}
      /\ (ResolveTrustOnly(s, v, host, k) = ReplaceAuthority(s, host, k)
           \/ ResolveTrustOnly(s, v, host, k) \in {Joined(kept, mint), Raises})
  BY <1>5 DEF ResolveTrustOnly, kept, mint, Then
<1>11. ~Raises.ok
  BY DEF Raises
<1> QED BY <1>6, <1>7, <1>8, <1>10, <1>11, NothingSays

LEMMA BringAuthoritySound ==
  ASSUME NEW s, NEW v \in Invocations, NEW k \in 1 .. MaxRuns, v.key, IsStore(s)
  PROVE  LET st == BringAuthority(s, v, k) IN
         /\ SoundStage(s, st)
         /\ st.ok => Ready(v, "mutual", After(s, st.writes)) /\ Arms(s, v, After(s, st.writes))
<1>1. CASE v.ca = None
  <2>1. BringAuthority(s, v, k) = Raises
    BY <1>1 DEF BringAuthority
  <2> QED BY <2>1, NothingSays DEF Raises
<1>2. CASE v.ca # None
  <2> DEFINE first == Bring(s, v.ca, SaveCa(v.ca))
             t == After(s, first.writes)
             mint == MintUnlessBrought(t, v, k)
             u == After(t, mint.writes)
             Mints(y) == MintUnlessBrought(y, v, k)
  <2>1. v.ca \in Foreign /\ v.ca # None /\ v.ca \in Authorities
    BY <1>2 DEF Invocations, Authorities
  <2>2. SoundStage(s, first) /\ (first.ok => IsStore(t) /\ t.ca = v.ca /\ t.caKey = v.ca)
    BY <2>1, BringSound DEF SaveCa
  <2>3. first.ok => PlainStage(t, mint)
    <3> HIDE DEF first, t
    <3> QED BY <2>1, <2>2, MintPlain
  <2>4. IsSeq(first.writes) /\ (first.ok => IsSeq(mint.writes))
    <3> HIDE DEF first, mint
    <3> QED BY <2>2, <2>3 DEF SoundStage, Forges, Orderly, PlainStage, Plain
  <2>5. BringAuthority(s, v, k) = Joined(first, mint)
    BY <1>2 DEF BringAuthority, Then, Joined
  <2>6. ASSUME first.ok, mint.ok
        PROVE  Ready(v, "mutual", u) /\ Arms(s, v, u)
    <3>1. u.ca = v.ca /\ u.caKey = v.ca
      <4> HIDE DEF mint, t, first
      <4> QED BY <2>2, <2>3, <2>6, PlainAfter DEF PlainStage
    <3>2. v.client = None => HasClient(u) /\ u.clientCert = u.clientKey
      <4>1. v.client = None => mint = ClientIdentity(t, k)
        BY DEF MintUnlessBrought
      <4> HIDE DEF mint, t, first
      <4> QED BY <2>1, <2>2, <2>6, <4>1, ClientIdentityGives
    <3> HIDE DEF u
    <3> QED BY <2>1, <3>1, <3>2 DEF Ready, Arms
  <2> HIDE DEF first, mint
  <2>7. SoundStage(s, Joined(first, mint))
    BY <2>2, <2>3, JoinedSound
  <2>8. ASSUME Joined(first, mint).ok
        PROVE  first.ok /\ mint.ok /\ After(s, Joined(first, mint).writes) = u
    <3>1. first.ok
      BY <2>8 DEF Joined
    <3>2. IsSeq(mint.writes)
      BY <2>4, <3>1
    <3> QED BY <2>4, <2>8, <3>2, JoinedAfter
  <2> HIDE DEF u
  <2> QED BY <2>5, <2>6, <2>7, <2>8
<1> QED BY <1>1, <1>2

LEMMA FirstAuthoritySound ==
  ASSUME NEW s, NEW v \in Invocations, NEW host, NEW k \in 1 .. MaxRuns, IsStore(s),
         s.ca = None
  PROVE  LET st == FirstAuthority(s, v, host, k) IN
         /\ SoundStage(s, st)
         /\ st.ok /\ v.client = None => HasClient(After(s, st.writes))
<1> DEFINE whole == FirstAuthority(s, v, host, k)
           Hands(st) == st.ok /\ v.client = None => HasClient(After(s, st.writes))
<1>1. ASSUME NEW a \in Authorities
      PROVE  /\ SoundStage(s, Writes(SaveCa(a))) /\ a # None
             /\ LET t == After(s, SaveCa(a)) IN IsStore(t) /\ t.ca = a
  <2>1. SoundStage(s, Writes(SaveCa(a))) /\ a # None
    BY CaWritesSound, SetupAssumption DEF SaveCa, Authorities
  <2> QED BY <2>1, CaWritesAfter DEF SaveCa
<1>2. k \in Authorities
  BY DEF Authorities
<1>3. ASSUME v.answer = "file", v.typed # None PROVE SoundStage(s, whole) /\ Hands(whole)
  <2> DEFINE first == Writes(SaveCa(v.typed))
             t == After(s, SaveCa(v.typed))
             mint == ClientIdentity(t, k)
  <2>1. v.typed \in Authorities
    BY <1>3 DEF Invocations, Authorities
  <2>2. PlainStage(t, mint) /\ SoundStage(s, first)
    BY <1>1, <2>1, ClientIdentityPlain
  <2>3. first.writes = SaveCa(v.typed)
    BY DEF Writes
  <2>4. FirstAuthority(s, v, host, k) = Joined(first, mint)
    BY <1>3 DEF FirstAuthority, Then, Joined, Writes
  <2>5. mint.ok => HasClient(After(t, mint.writes))
    <3>1. IsStore(t) /\ t.ca \in Authorities
      BY <1>1, <2>1
    <3> HIDE DEF t
    <3> QED BY <3>1, ClientIdentityGives
  <2> HIDE DEF first, mint
  <2>6. Joined(first, mint).ok => HasClient(After(s, Joined(first, mint).writes))
    <3>1. IsSeq(first.writes) /\ IsSeq(mint.writes)
      BY <2>2 DEF SoundStage, Forges, Orderly, PlainStage, Plain
    <3> QED BY <2>3, <2>5, <3>1, JoinedAfter
  <2> QED BY <2>2, <2>3, <2>4, <2>6, JoinedSound
<1>4. ASSUME v.answer = "generate" PROVE SoundStage(s, whole) /\ Hands(whole)
  <2> DEFINE first == Writes(SaveCa(k))
             t == After(s, first.writes)
             serve == Writes(IssueServer(t, host, k))
             served == Joined(first, serve)
             u == After(s, served.writes)
             mint == MintUnlessBrought(u, v, k)
             Serves(y) == Writes(IssueServer(y, host, k))
             Mints(y) == MintUnlessBrought(y, v, k)
  <2>1. first.writes = SaveCa(k) /\ first.ok = TRUE /\ serve.ok = TRUE
    BY DEF Writes
  <2>2. FirstAuthority(s, v, host, k) = Joined(served, mint)
    <3>1. FirstAuthority(s, v, host, k) = Then(s, Then(s, first, Serves), Mints)
      BY <1>4 DEF FirstAuthority, Then
    <3>2. Then(s, first, Serves) = served
      BY DEF Then, Joined
    <3> HIDE DEF served
    <3> QED BY <3>1, <3>2 DEF Then, Joined
  <2>3. IsStore(t) /\ t.ca = k /\ k # None /\ SoundStage(s, first)
    <3> HIDE DEF t, first
    <3>1. t = After(s, SaveCa(k)) /\ first = Writes(SaveCa(k))
      BY <2>1 DEF t, first
    <3> QED BY <1>1, <1>2, <3>1
  <2> HIDE DEF first, t
  <2>4. PlainStage(t, serve)
    BY <2>3, IssuePlain
  <2> HIDE DEF serve
  <2>5. SoundStage(s, served)
    BY <2>3, <2>4, JoinedSound DEF t
  <2>6. u = After(t, serve.writes)
    <3>1. served.ok
      BY <2>1 DEF Joined
    <3>2. IsSeq(first.writes) /\ IsSeq(serve.writes)
      BY <2>3, <2>4 DEF SoundStage, Forges, Orderly, PlainStage, Plain
    <3> QED BY <3>1, <3>2, JoinedAfter DEF t
  <2>7. IsStore(u) /\ u.ca = k
    <3> HIDE DEF u
    <3> QED BY <2>3, <2>4, <2>6, PlainAfter DEF PlainStage
  <2>8. PlainStage(u, mint)
    <3> HIDE DEF u
    <3> QED BY <2>3, <2>7, MintPlain
  <2>9. mint.ok /\ v.client = None => HasClient(After(u, mint.writes))
    <3>1. v.client = None => mint = ClientIdentity(u, k)
      BY DEF MintUnlessBrought
    <3> HIDE DEF u, mint
    <3> QED BY <1>2, <2>7, <3>1, ClientIdentityGives
  <2> HIDE DEF served, mint
  <2>10. SoundStage(s, Joined(served, mint))
    BY <2>5, <2>8, JoinedSound DEF u
  <2>11. Hands(Joined(served, mint))
    <3>1. IsSeq(served.writes) /\ IsSeq(mint.writes)
      BY <2>5, <2>8 DEF SoundStage, Forges, Orderly, PlainStage, Plain
    <3> QED BY <2>9, <3>1, JoinedAfter DEF u
  <2> QED BY <2>2, <2>10, <2>11
<1>5. ASSUME v.answer # "generate", ~(v.answer = "file" /\ v.typed # None)
      PROVE  SoundStage(s, whole) /\ Hands(whole)
  BY <1>5, NothingSays DEF FirstAuthority, Raises
<1> QED BY <1>3, <1>4, <1>5

LEMMA EnsurePkiSound ==
  ASSUME NEW s, NEW v \in Invocations, NEW mode, NEW host, NEW k \in 1 .. MaxRuns, IsStore(s),
         s.ca \in Authorities \cup {None}
  PROVE  LET st == EnsurePki(s, v, mode, host, k) IN
         /\ SoundStage(s, st)
         /\ st.ok => Ready(v, mode, After(s, st.writes)) /\ Arms(s, v, After(s, st.writes))
<1> DEFINE st == EnsurePki(s, v, mode, host, k)
<1>0. v.key \in BOOLEAN
  BY DEF Invocations
<1>1. CASE mode # "mutual"
  <2>1. st = EnsureTrustAnchor(s, v, mode)
    BY <1>1, Zenon DEF EnsurePki
  <2> QED BY <1>1, <2>1, TrustAnchorSound
<1>2. CASE mode = "mutual" /\ v.key
  <2>1. st = BringAuthority(s, v, k)
    BY <1>2, Zenon DEF EnsurePki
  <2> QED BY <1>2, <2>1, BringAuthoritySound
<1>3. CASE mode = "mutual" /\ ~v.key
  <2>0. v.ca = None => \A t : Ready(v, mode, t)
    BY <1>3 DEF Ready
  <2>1. CASE v.ca # None
    <3>1. st = Raises
      BY <1>3, <2>1, Zenon DEF EnsurePki
    <3> QED BY <3>1, NothingSays DEF Raises
  <2>2. CASE v.ca = None /\ HasCa(s)
    <3>1. st = Nothing
      <4>1. s.ca # None
        BY <2>2 DEF HasCa
      <4> QED BY <1>3, <2>2, <4>1, Zenon DEF EnsurePki
    <3>2. Arms(s, v, After(s, <<>>))
      BY <2>2, EmptySays, ClientUntouched DEF Arms, Armed
    <3>3. st.writes = <<>>
      BY <3>1 DEF Nothing, Writes
    <3> QED BY <2>0, <2>2, <3>1, <3>2, <3>3, NothingSays
  <2>3. CASE v.ca = None /\ s.ca # None /\ ~HasCa(s)
    <3>1. st = ResolveTrustOnly(s, v, host, k)
      BY <1>3, <2>3, Zenon DEF EnsurePki
    <3> HIDE DEF st
    <3> QED BY <2>0, <2>3, <3>1, TrustOnlySound DEF st, Arms
  <2>4. CASE v.ca = None /\ s.ca = None
    <3>1. st = FirstAuthority(s, v, host, k)
      <4>1. ~HasCa(s)
        BY <2>4 DEF HasCa
      <4> QED BY <1>3, <2>4, <4>1, Zenon DEF EnsurePki
    <3> HIDE DEF st
    <3> QED BY <2>0, <2>4, <3>1, FirstAuthoritySound DEF st, Arms
  <2> QED BY <2>1, <2>2, <2>3, <2>4
<1> QED BY <1>1, <1>2, <1>3

LEMMA JoinedStage ==
  ASSUME NEW s, NEW first, NEW second, IsStore(s), SoundStage(s, first),
         PlainStage(After(s, first.writes), second)
  PROVE  /\ SoundStage(s, Joined(first, second))
         /\ IsStore(After(s, Joined(first, second).writes))
         /\ Joined(first, second).ok =>
              /\ first.ok /\ second.ok
              /\ After(s, Joined(first, second).writes)
                   = After(After(s, first.writes), second.writes)
<1>1. SoundStage(s, Joined(first, second))
  BY JoinedSound
<1>2. IsSeq(Joined(first, second).writes) /\ IsSeq(first.writes) /\ IsSeq(second.writes)
  BY <1>1 DEF SoundStage, Forges, Orderly, PlainStage, Plain
<1> QED BY <1>1, <1>2, AfterStore, JoinedAfter

(* The authority and the broker on file stay of their types. *)
Named(s) == s.ca \in Authorities \cup {None} /\ s.broker \in Brokers \cup {None}

LEMMA TypedAfter ==
  ASSUME NEW s, NEW ws, IsStore(s), Named(s), IsSeq(ws), Typed(ws)
  PROVE  Named(After(s, ws))
<1> DEFINE t == After(s, ws)
<1>1. "ca" \in DOMAIN s /\ "broker" \in DOMAIN s
  BY DEF IsStore, Files
<1>2. ASSUME NEW f \in {"ca", "broker"}
      PROVE  t[f] = s[f] \/ \E i \in 1 .. Len(ws) : ws[i].file = f /\ t[f] = ws[i].value
  <2>1. CASE To(ws, f) = {}
    BY <1>1, <2>1, AfterSays
  <2>2. CASE To(ws, f) # {}
    <3>1. PICK i \in 1 .. Len(ws) : /\ ws[i].file = f
                                    /\ \A j \in 1 .. Len(ws) : j > i => ws[j].file # f
      BY <2>2, AfterSays
    <3>2. f \in DOMAIN s
      BY <1>1
    <3>3. t[f] = ws[i].value
      BY <3>1, <3>2, LastStands
    <3> QED BY <3>1, <3>3
  <2> QED BY <2>1, <2>2
<1> HIDE DEF t
<1>3. t["ca"] = s["ca"] \/ \E i \in 1 .. Len(ws) : ws[i].file = "ca" /\ t["ca"] = ws[i].value
  BY <1>2
<1>4. t["broker"] = s["broker"]
      \/ \E i \in 1 .. Len(ws) : ws[i].file = "broker" /\ t["broker"] = ws[i].value
  BY <1>2
<1> QED BY <1>3, <1>4 DEF Named, Typed, t

LEMMA FileClientGives ==
  ASSUME NEW s, NEW v, IsStore(s), FileClient(s, v).ok
  PROVE  LET t == After(s, FileClient(s, v).writes)
             i == [by |-> v.client, n |-> 0]
         IN  IF v.client = None THEN t.clientCert = s.clientCert /\ t.clientKey = s.clientKey
             ELSE v.client = s.ca /\ t.clientCert = i /\ t.clientKey = i
<1> DEFINE i == [by |-> v.client, n |-> 0]
           st == FileClient(s, v)
           t == After(s, st.writes)
<1>1. {"clientCert", "clientKey"} \subseteq DOMAIN s
  BY DEF IsStore, Files
<1>2. CASE v.client = None
  <2>1. st.writes = <<>>
    BY <1>2 DEF FileClient, Nothing, Writes
  <2> HIDE DEF st
  <2>2. t.clientCert = s.clientCert /\ t.clientKey = s.clientKey
    BY <1>1, <2>1, AfterEmpty
  <2> HIDE DEF t
  <2> QED BY <1>2, <2>2 DEF t, st
<1>3. CASE v.client # None
  <2>1. v.client = s.ca /\ st.writes = SaveClient(i)
    BY <1>3 DEF FileClient, Raises, Writes
  <2> HIDE DEF st, i
  <2>2. t.clientCert = i /\ t.clientKey = i
    BY <1>1, <2>1, SaveClientAfter
  <2> HIDE DEF t
  <2> QED BY <1>3, <2>1, <2>2 DEF t, st, i
<1> QED BY <1>2, <1>3

(* The broker's certificate, if the stored authority signed it, is for the broker's host. *)
Serving(s, host) == s.server # None /\ (s.server.by = s.ca => s.server.host = host)

LEMMA RefreshGives ==
  ASSUME NEW s, NEW host \in Hosts, NEW k \in 1 .. MaxRuns, IsStore(s), s.ca \in Authorities,
         RefreshServer(s, host, k).ok
  PROVE  LET t == After(s, RefreshServer(s, host, k).writes) IN
         Serving(t, host) /\ t.clientCert = s.clientCert /\ t.clientKey = s.clientKey
<1> DEFINE c == [by |-> s.ca, n |-> k, host |-> host]
           st == RefreshServer(s, host, k)
           t == After(s, st.writes)
           stale == s.server # None /\ s.server.by = s.ca /\ s.server.host # host
<1>1. {"ca", "clientCert", "clientKey", "server", "serverKey"} \subseteq DOMAIN s
  BY DEF IsStore, Files
<1>2. CASE s.server = None \/ stale
  <2>1. st.writes = <<Put("server", c), Put("serverKey", c.n)>>
    BY <1>2 DEF RefreshServer, Raises, Writes, IssueServer, SaveServer
  <2>2. c # None /\ c.host = host
    BY SetupAssumption DEF Certificates
  <2> HIDE DEF st, c
  <2>3. t = [s EXCEPT !["server"] = c, !["serverKey"] = c.n]
    <3>1. \A x, y : After(s, <<Put("server", x), Put("serverKey", y)>>)
                      = [s EXCEPT !["server"] = x, !["serverKey"] = y]
      BY AfterPair
    <3> QED BY <2>1, <3>1
  <2> HIDE DEF t
  <2>4. t.server = c /\ t.clientCert = s.clientCert /\ t.clientKey = s.clientKey
    BY <1>1, <2>3
  <2> QED BY <2>2, <2>4 DEF t, st, Serving
<1>3. CASE ~(s.server = None \/ stale)
  <2>1. st.writes = <<>>
    BY <1>3 DEF RefreshServer, Nothing, Writes
  <2> HIDE DEF st
  <2>2. /\ t.server = s.server /\ t.ca = s.ca /\ t.clientCert = s.clientCert
        /\ t.clientKey = s.clientKey
    BY <1>1, <2>1, AfterEmpty
  <2> HIDE DEF t
  <2> QED BY <1>3, <2>2 DEF t, st, Serving
<1> QED BY <1>2, <1>3

(* What the files say behind a setup that went through, for a broker and for its flags. *)
Filed(v, t) == v.client # None =>
  /\ v.client = t.ca
  /\ t.clientCert = [by |-> v.client, n |-> 0] /\ t.clientKey = [by |-> v.client, n |-> 0]

Settled(v, b, t) ==
  /\ v \in Invocations /\ b \in Brokers
  /\ v.auth \in {None, b.auth} /\ v.host \in {None, b.host}
  /\ t.ca # None /\ Ready(v, b.auth, t) /\ Filed(v, t)
  /\ b.auth = "mutual" => HasCa(t) /\ Serving(t, b.host)

LEMMA SetupSound ==
  ASSUME NEW s, NEW v \in Invocations, NEW k \in 1 .. MaxRuns, IsStore(s), Named(s)
  PROVE  LET st == SetupOf(s, v, k)
             u == After(s, st.writes)
         IN  SoundStage(s, st) /\ (st.ok => Settled(v, u.broker, u) /\ (Armed(s) => Armed(u)))
<1> DEFINE mode == IF v.auth # None THEN v.auth ELSE Mode(s)
           host == IF v.host # None THEN v.host ELSE s.broker.host
           trusted == EnsurePki(s, v, mode, host, k)
           client == FileClient(After(s, trusted.writes), v)
           filed == Joined(trusted, client)
           server == IF mode = "mutual" THEN RefreshServer(After(s, filed.writes), host, k)
                     ELSE Nothing
           served == Joined(filed, server)
           b == [host |-> host, auth |-> mode]
           broker == Writes(<<Put("broker", b)>>)
           kept == Joined(served, broker)
           t == After(s, kept.writes)
           usable == IF (mode = "mutual" /\ ~HasCa(t)) \/ t.ca = None THEN Raises ELSE Nothing
<1>1. CASE v.host = None /\ s.broker = None
  <2>1. SetupOf(s, v, k) = Raises
    BY <1>1 DEF SetupOf
  <2> QED BY <2>1, NothingSays DEF Raises
<1>2. CASE ~(v.host = None /\ s.broker = None)
  <2>1. b \in Brokers
    BY <1>2 DEF Invocations, Brokers, Named, Mode, Modes
  <2>2. SetupOf(s, v, k) = Joined(kept, usable)
    <3> DEFINE Client(y) == FileClient(y, v)
               Server(y) == IF mode = "mutual" THEN RefreshServer(y, host, k) ELSE Nothing
               Broker(y) == Writes(<<Put("broker", b)>>)
               AssertUsable(y) == IF (mode = "mutual" /\ ~HasCa(y)) \/ y.ca = None THEN Raises
                                  ELSE Nothing
               F == Then(s, trusted, Client)
               S == Then(s, F, Server)
               W == Then(s, S, Broker)
    <3>1. SetupOf(s, v, k) = Then(s, W, AssertUsable)
      BY <1>2 DEF SetupOf, Then
    <3>2. F = filed
      BY DEF Then, Joined
    <3> HIDE DEF F
    <3>3. S = served
      BY <3>2 DEF Then, Joined
    <3> HIDE DEF S
    <3>4. W = kept
      BY <3>3 DEF Then, Joined
    <3> HIDE DEF W
    <3>5. Then(s, W, AssertUsable) = Joined(kept, usable)
      <4> HIDE DEF kept, mode
      <4>1. AssertUsable(After(s, W.writes)) = usable
        BY <3>4
      <4> HIDE DEF AssertUsable, usable
      <4> QED BY <3>4, <4>1 DEF Then, Joined
    <3> QED BY <3>1, <3>5
  <2>12. /\ v.auth \in {None, mode} /\ v.host \in {None, host} /\ mode \in Modes /\ host \in Hosts
         /\ b.host = host /\ b.auth = mode
    BY <1>2 DEF Invocations, Brokers, Named, Mode, Modes
  <2> DEFINE u1 == After(s, trusted.writes)
             u2 == After(s, filed.writes)
             u3 == After(s, served.writes)
             final == Joined(kept, usable)
             u == After(s, final.writes)
  <2> HIDE DEF mode, host, b
  <2>3. SoundStage(s, trusted) /\ (trusted.ok => Ready(v, mode, u1) /\ Arms(s, v, u1))
    BY EnsurePkiSound DEF Named
  <2> HIDE DEF trusted
  <2>4. IsStore(u1)
    BY <2>3, AfterStore DEF SoundStage, Forges, Orderly
  <2>5. PlainStage(u1, client)
    <3> HIDE DEF u1
    <3> QED BY <2>4, FileClientPlain DEF u1
  <2>20. client = FileClient(u1, v)
    OBVIOUS
  <2> HIDE DEF client
  <2>6. /\ SoundStage(s, filed) /\ IsStore(u2)
        /\ filed.ok => trusted.ok /\ client.ok /\ u2 = After(u1, client.writes)
    BY <2>3, <2>5, JoinedStage
  <2> HIDE DEF filed
  <2>7. PlainStage(u2, server)
    <3> HIDE DEF u2
    <3> QED BY <2>6, RefreshPlain, NothingSays DEF u2
  <2>21. server = IF mode = "mutual" THEN RefreshServer(u2, host, k) ELSE Nothing
    OBVIOUS
  <2> HIDE DEF server
  <2>8. /\ SoundStage(s, served) /\ IsStore(u3)
        /\ served.ok => filed.ok /\ server.ok /\ u3 = After(u2, server.writes)
    BY <2>6, <2>7, JoinedStage
  <2> HIDE DEF served
  <2>9. PlainStage(u3, broker)
    <3> HIDE DEF u3
    <3> QED BY <2>1, <2>8, BrokerPlain
  <2>22. broker.writes = <<Put("broker", b)>>
    BY DEF Writes
  <2> HIDE DEF broker
  <2>10. /\ SoundStage(s, kept) /\ IsStore(t)
         /\ kept.ok => served.ok /\ broker.ok /\ t = After(u3, broker.writes)
    BY <2>8, <2>9, JoinedStage
  <2> HIDE DEF kept
  <2>11. PlainStage(t, usable)
    <3> HIDE DEF t
    <3> QED BY <2>10, NothingSays
  <2>23. /\ usable.writes = <<>>
         /\ usable.ok => t.ca # None /\ (mode = "mutual" => HasCa(t))
    <3> HIDE DEF t
    <3> QED BY DEF Raises, Nothing, Writes
  <2> HIDE DEF usable
  <2>13. /\ SoundStage(s, final) /\ IsStore(u)
         /\ final.ok => kept.ok /\ usable.ok /\ u = After(t, usable.writes)
    BY <2>10, <2>11, JoinedStage
  <2> HIDE DEF final, u1, u2, u3, t
  <2>14. ASSUME final.ok PROVE Settled(v, u.broker, u) /\ (Armed(s) => Armed(u))
    <3>1. /\ trusted.ok /\ client.ok /\ server.ok /\ usable.ok
          /\ u2 = After(u1, client.writes) /\ u3 = After(u2, server.writes)
          /\ t = After(u3, broker.writes) /\ u = After(t, usable.writes)
      BY <2>6, <2>8, <2>10, <2>13, <2>14
    <3> HIDE DEF u
    <3>2. /\ u.ca = t.ca /\ u.caKey = t.caKey /\ u.clientCert = t.clientCert
          /\ u.clientKey = t.clientKey /\ u.server = t.server /\ u.broker = t.broker
      BY <2>10, <2>23, <3>1, AfterEmpty DEF IsStore, Files
    <3>3. /\ t.ca = u3.ca /\ t.caKey = u3.caKey /\ t.clientCert = u3.clientCert
          /\ t.clientKey = u3.clientKey /\ t.server = u3.server /\ t.broker = b
      <4>1. t = Apply(u3, Put("broker", b))
        BY <2>22, <3>1, AfterOne
      <4>2. t = [u3 EXCEPT !["broker"] = b]
        BY <4>1 DEF Apply, Put
      <4> QED BY <2>8, <4>2 DEF IsStore, Files
    <3>4. u3.ca = u2.ca /\ u3.caKey = u2.caKey
      BY <2>6, <2>7, <3>1, PlainAfter DEF PlainStage
    <3>5. u2.ca = u1.ca /\ u2.caKey = u1.caKey
      BY <2>4, <2>5, <3>1, PlainAfter DEF PlainStage
    <3>6. t.ca # None /\ (mode = "mutual" => HasCa(t))
      BY <2>23, <3>1
    <3>7. u2.ca \in Authorities
      <4>1. Named(u2)
        BY <2>6, TypedAfter DEF SoundStage, Forges, Orderly, u2
      <4> QED BY <3>3, <3>4, <3>6, <4>1 DEF Named
    <3>8. /\ u3.clientCert = u2.clientCert /\ u3.clientKey = u2.clientKey
          /\ mode = "mutual" => Serving(u3, host)
      <4>1. CASE mode = "mutual"
        <5>1. server = RefreshServer(u2, host, k)
          BY <2>21, <4>1
        <5> QED BY <2>6, <2>12, <3>1, <3>7, <5>1, RefreshGives
      <4>2. CASE mode # "mutual"
        <5>1. server.writes = <<>>
          BY <2>21, <4>2 DEF Nothing, Writes
        <5> QED BY <2>6, <3>1, <4>2, <5>1, AfterEmpty DEF IsStore, Files
      <4> QED BY <4>1, <4>2
    <3>9. IF v.client = None THEN u2.clientCert = u1.clientCert /\ u2.clientKey = u1.clientKey
          ELSE /\ v.client = u1.ca
               /\ u2.clientCert = [by |-> v.client, n |-> 0]
               /\ u2.clientKey = [by |-> v.client, n |-> 0]
      BY <2>4, <2>20, <3>1, FileClientGives
    <3>10. /\ u.ca = u1.ca /\ u.caKey = u1.caKey /\ u.clientCert = u2.clientCert
           /\ u.clientKey = u2.clientKey /\ u.server = u3.server /\ u.broker = b
      BY <3>2, <3>3, <3>4, <3>5, <3>8
    <3>11. Ready(v, mode, u)
      BY <2>3, <3>1, <3>9, <3>10 DEF Ready, HasClient
    <3>12. Filed(v, u)
      BY <3>9, <3>10 DEF Filed
    <3>13. mode = "mutual" => HasCa(u) /\ Serving(u, host)
      BY <3>2, <3>3, <3>4, <3>6, <3>8 DEF HasCa, Serving
    <3>14. Armed(s) => Armed(u)
      <4>1. CASE v.client = None
        BY <2>3, <3>1, <3>9, <3>10, <4>1 DEF Arms, Armed, HasCa, HasClient
      <4>2. CASE v.client # None
        <5>1. [by |-> v.client, n |-> 0] # None
          BY <4>2, SetupAssumption DEF Identities, Invocations, Authorities
        <5> QED BY <3>9, <3>10, <4>2, <5>1 DEF Armed, HasClient
      <4> QED BY <4>1, <4>2
    <3> QED BY <2>1, <2>12, <3>2, <3>6, <3>10, <3>11, <3>12, <3>13, <3>14 DEF Settled
  <2> QED BY <2>2, <2>13, <2>14 DEF u, final
<1> QED BY <1>1, <1>2

-----------------------------------------------------------------------------
(* A store is settled, or sound, by its fields. *)
Alike(s, t) ==
  /\ s.ca = t.ca /\ s.caKey = t.caKey /\ s.clientCert = t.clientCert /\ s.clientKey = t.clientKey
  /\ s.server = t.server /\ s.serverKey = t.serverKey

LEMMA AlikeSettled ==
  ASSUME NEW s, NEW t, Alike(s, t), NEW v, NEW b
  PROVE  /\ Settled(v, b, s) => Settled(v, b, t)
         /\ Paired(s) /\ Own(s) => Paired(t) /\ Own(t)
         /\ \A x : Mine(s, x) <=> Mine(t, x)
BY DEF Alike, Settled, Ready, Filed, Serving, HasCa, HasClient, Paired, Own, Mine

LEMMA AfterAlike ==
  ASSUME NEW s, NEW t, IsStore(s), DOMAIN t = DOMAIN s, Alike(s, t), NEW ws, IsSeq(ws)
  PROVE  Alike(After(s, ws), After(t, ws))
<1> DEFINE x == After(s, ws)
           y == After(t, ws)
<1>1. ASSUME NEW f \in DOMAIN s, s[f] = t[f] PROVE x[f] = y[f]
  <2>1. CASE To(ws, f) = {}
    BY <1>1, <2>1, AfterSays
  <2>2. CASE To(ws, f) # {}
    <3>1. PICK i \in 1 .. Len(ws) : /\ ws[i].file = f
                                    /\ \A j \in 1 .. Len(ws) : j > i => ws[j].file # f
      BY <2>2, AfterSays
    <3>2. x[f] = ws[i].value
      BY <3>1, LastStands
    <3>3. y[f] = ws[i].value
      BY <3>1, LastStands
    <3> QED BY <3>2, <3>3
  <2> QED BY <2>1, <2>2
<1> HIDE DEF x, y
<1>2. \A f \in DOMAIN s : s[f] = t[f] => x[f] = y[f]
  BY <1>1
<1>3. Files \subseteq DOMAIN s
  BY DEF IsStore
<1>4. Alike(x, y)
  BY <1>2, <1>3 DEF Alike, Files
<1> QED BY <1>4 DEF x, y

-----------------------------------------------------------------------------
(* The second inductive invariant: what a run still has to write, and what a store is while *)
(* no replacement has been cut short or come into the middle of a provision.                *)

StoreOK ==
  /\ IsStore(store) /\ store = [f \in DOMAIN store |-> store[f]]
  /\ Named(store) /\ DOMAIN store.idents = Robots
  /\ visit # None => visit.broker \in Brokers

PlanOK == running # None =>
  /\ Orderly(store, left) /\ Forgets(store, left)
  /\ running.ok => Settled(running.invocation, running.broker, After(store, left))
  /\ \A i \in 1 .. Len(left) :
       left[i].file = "ca" => running.found = store.ca

DoneOK == running = None /\ done # None =>
  /\ Settled(done.invocation, done.broker, store)
  /\ done.advertised => store.server # None

SoundOK == ~cut =>
  /\ running = None => Sound(store)
  /\ running # None =>
       /\ Sound(After(store, left))
       /\ Replacing => visit = None
       /\ ~Replacing => Own(store) /\ AllOwn(store)
  /\ visit # None => Mine(store, visit.presents)

ChainInv == SetupInv /\ StoreOK /\ PlanOK /\ DoneOK /\ SoundOK

LEMMA StartSetupChains ==
  ASSUME ChainInv, NEW v \in Offered, StartSetup(v)
  PROVE  (StoreOK /\ PlanOK /\ DoneOK /\ SoundOK)'
<1> DEFINE plan == SetupOf(store, v, runs + 1)
           u == After(store, plan.writes)
<1>1. v \in Invocations /\ runs + 1 \in 1 .. MaxRuns
  BY SetupAssumption DEF StartSetup, ChainInv, SetupInv
<1>2. SoundStage(store, plan) /\ (plan.ok => Settled(v, u.broker, u))
  BY <1>1, SetupSound DEF ChainInv, StoreOK
<1>3. /\ running = None
      /\ running' = [invocation |-> v, ok |-> plan.ok, found |-> store.ca, broker |-> u.broker]
      /\ left' = plan.writes
      /\ UNCHANGED <<store, done, visit, cut>>
  BY DEF StartSetup
<1> HIDE DEF plan
<1>4. /\ running'.invocation = v /\ running'.ok = plan.ok
      /\ running'.found = store.ca /\ running'.broker = u.broker
  BY <1>3
<1> HIDE DEF u
<1>5. CASE running' = None
  BY <1>3, <1>5 DEF ChainInv, StoreOK, PlanOK, DoneOK, SoundOK
<1>6. CASE running' # None
  <2>1. StoreOK' /\ DoneOK'
    BY <1>3, <1>6 DEF ChainInv, StoreOK, DoneOK
  <2>2. PlanOK'
    BY <1>2, <1>3, <1>4 DEF PlanOK, SoundStage, Forges, Keeps, u
  <2>3. SoundOK'
    <3> SUFFICES ASSUME ~cut PROVE SoundOK'
      BY <1>3 DEF SoundOK
    <3>1. Sound(store)
      BY <1>3 DEF ChainInv, SoundOK
    <3>2. Sound(u)
      BY <1>2, <3>1 DEF SoundStage, Forges, Keeps, Sound, u
    <3>3. ~Replacing'
      BY <1>3, <1>4 DEF Replacing
    <3> QED BY <1>3, <1>4, <3>1, <3>2, <3>3 DEF ChainInv, SoundOK, Sound, u
  <2> QED BY <2>1, <2>2, <2>3
<1> QED BY <1>5, <1>6

LEMMA OrderlyTail ==
  ASSUME NEW s, NEW ws, IsSeq(ws), ws # <<>>, Orderly(s, ws), Forgets(s, ws)
  PROVE  LET t == Apply(s, ws[1]) IN
         "ca" \in DOMAIN s => Orderly(t, Tail(ws)) /\ Forgets(t, Tail(ws))
<1> SUFFICES ASSUME "ca" \in DOMAIN s
             PROVE  Orderly(Apply(s, ws[1]), Tail(ws)) /\ Forgets(Apply(s, ws[1]), Tail(ws))
  OBVIOUS
<1> DEFINE w == ws[1]
           t == Apply(s, w)
           rest == Tail(ws)
           u == After(s, ws)
<1>1. /\ IsSeq(rest) /\ Len(ws) \in Nat \ {0} /\ Len(rest) = Len(ws) - 1
      /\ \A i \in 1 .. Len(ws) - 1 : rest[i] = ws[i + 1]
  BY TailSays
<1>2. After(t, rest) = u
  BY AfterTail
<1>3. /\ w.file = "ca" => t.ca = w.value
      /\ w.file # "ca" => t.ca = s.ca
  <2> HIDE DEF w
  <2> QED BY DEF Apply
<1> HIDE DEF t, rest, u
<1>4. \A i \in 1 .. Len(rest) : i + 1 \in 1 .. Len(ws) /\ rest[i] = ws[i + 1]
  BY <1>1
<1>5. Orderly(t, rest)
  BY <1>1, <1>2, <1>4 DEF Orderly, Typed, u
<1>6. ASSUME NEW i \in 1 .. Len(rest), rest[i].file = "ca", t.ca \notin {None, rest[i].value}
      PROVE  \E j \in 1 .. Len(rest) : j > i /\ rest[j].file = "idents"
  <2>1. i + 1 \in 1 .. Len(ws) /\ ws[i + 1].file = "ca" /\ ws[i + 1].value = u.ca
    BY <1>4, <1>6 DEF Orderly, u
  <2>2. w.file # "ca"
    <3> SUFFICES ASSUME w.file = "ca" PROVE FALSE
      OBVIOUS
    <3>1. 1 \in 1 .. Len(ws)
      BY <1>1
    <3>2. w.value = u.ca
      BY <3>1 DEF Orderly, u
    <3> QED BY <1>3, <1>4, <1>6, <2>1, <3>2
  <2>3. s.ca \notin {None, ws[i + 1].value}
    BY <1>3, <1>4, <1>6, <2>2
  <2>4. PICK j \in 1 .. Len(ws) : j > i + 1 /\ ws[j].file = "idents"
    BY <2>1, <2>3 DEF Forgets
  <2>5. j - 1 \in 1 .. Len(rest) /\ j - 1 > i /\ (j - 1) + 1 = j
    BY <1>1, <2>4
  <2>6. rest[j - 1] = ws[j]
    BY <1>4, <2>5
  <2> QED BY <2>4, <2>5, <2>6
<1>7. Forgets(t, rest)
  BY <1>6 DEF Forgets
<1> QED BY <1>5, <1>7 DEF t, rest

(* The authority is written first, by a run that was agreed to, or not at all. *)
LEMMA CaComesFirst ==
  ASSUME NEW s, NEW v, NEW ws, IsSeq(ws), Safe(s, v, ws)
  PROVE  /\ \A i \in 1 .. Len(ws) : ws[i].file = "ca" => i = 1 /\ Agreed(s, v, ws)
         /\ ws # <<>> /\ ws[1].file \notin {"ca", "caKey"}
              => \A i \in 1 .. Len(ws) : ws[i].file # "ca"
<1>1. CASE Quiet(ws, 0)
  BY <1>1 DEF Quiet
<1>2. CASE OpensOnKey(s, ws)
  <2>1. \A i \in 1 .. Len(ws) : i # 1 => ws[i].file \notin {"ca", "caKey"}
    BY <1>2 DEF OpensOnKey, Quiet
  <2> QED BY <1>2, <2>1 DEF OpensOnKey
<1>3. CASE OpensOnCa(s, ws) /\ Agreed(s, v, ws)
  <2>1. \A i \in 1 .. Len(ws) : i \notin {1, 2} => ws[i].file \notin {"ca", "caKey"}
    BY <1>3 DEF OpensOnCa, Quiet
  <2> QED BY <1>3, <2>1 DEF OpensOnCa
<1> QED BY <1>1, <1>2, <1>3 DEF Safe

LEMMA WriteNextChains ==
  ASSUME ChainInv, WriteNext
  PROVE  (StoreOK /\ PlanOK /\ DoneOK /\ SoundOK)'
<1> DEFINE ws == left
           w == ws[1]
           u == After(store, ws)
<1>1. /\ running # None /\ ws # <<>> /\ IsSeq(ws) /\ Head(ws) = w /\ IsSeq(Tail(ws))
      /\ Len(ws) \in Nat \ {0} /\ Len(Tail(ws)) = Len(ws) - 1
      /\ \A i \in 1 .. Len(ws) - 1 : Tail(ws)[i] = ws[i + 1]
      /\ Safe(store, running.invocation, ws)
  BY TailSays DEF WriteNext, ChainInv, SetupInv, RunOK
<1>2. /\ store' = Apply(store, w)
      /\ left' = Tail(ws)
      /\ UNCHANGED <<running, done, visit>>
  BY <1>1 DEF WriteNext
<1>3. /\ Orderly(store, ws) /\ Forgets(store, ws)
      /\ running.ok => Settled(running.invocation, running.broker, u)
      /\ \A i \in 1 .. Len(ws) : ws[i].file = "ca" => running.found = store.ca
  BY <1>1 DEF ChainInv, PlanOK
<1>4. running' # None
  BY <1>1, <1>2
<1>5. After(store', Tail(ws)) = u
  BY <1>1, <1>2, AfterTail
<1>6. /\ IsStore(store) /\ "ca" \in DOMAIN store /\ DOMAIN store' = DOMAIN store
      /\ w.file \in DOMAIN store /\ w.file \in Files
  <2>1. w.file \in Files
    BY <1>1, <1>3 DEF Orderly, Typed
  <2> QED BY <1>2, <2>1 DEF ChainInv, StoreOK, IsStore, Files, Apply
<1>7. /\ w.file = "ca" => w.value \in Authorities /\ w.value = u.ca
      /\ w.file = "broker" => w.value \in Brokers
      /\ w.file = "clientCert" => Mine(u, w.value)
      /\ w.file = "idents" => w.value = [r \in Robots |-> None]
  BY <1>1, <1>3 DEF Orderly, Typed
<1>8. store' = [f \in DOMAIN store |-> IF f = w.file THEN w.value ELSE store[f]]
  BY <1>2 DEF Apply
<1>9. /\ w.file = "ca" => store'.ca = w.value
      /\ w.file # "ca" => store'.ca = store.ca
      /\ store'.broker = IF w.file = "broker" THEN w.value ELSE store.broker
      /\ store'.idents = IF w.file = "idents" THEN w.value ELSE store.idents
      /\ store'.clientCert = IF w.file = "clientCert" THEN w.value ELSE store.clientCert
  <2>1. Files \subseteq DOMAIN store
    BY <1>6 DEF IsStore
  <2> HIDE DEF w
  <2> QED BY <1>8, <2>1 DEF Files
<1>10. StoreOK'
  <2>1. IsStore(store')
    BY <1>6 DEF IsStore
  <2>2. store' = [f \in DOMAIN store' |-> store'[f]]
    BY <1>8
  <2>3. Named(store')
    <3> HIDE DEF w
    <3> QED BY <1>7, <1>9 DEF ChainInv, StoreOK, Named
  <2>4. DOMAIN store'.idents = Robots
    <3> HIDE DEF w
    <3> QED BY <1>7, <1>9 DEF ChainInv, StoreOK
  <2> QED BY <1>2, <2>1, <2>2, <2>3, <2>4 DEF ChainInv, StoreOK
<1>11. Orderly(store', Tail(ws)) /\ Forgets(store', Tail(ws))
  BY <1>1, <1>2, <1>3, <1>6, OrderlyTail
<1>12. \A i \in 1 .. Len(Tail(ws)) : Tail(ws)[i].file # "ca"
  <2> SUFFICES ASSUME NEW i \in 1 .. Len(Tail(ws)), Tail(ws)[i].file = "ca" PROVE FALSE
    OBVIOUS
  <2>1. i + 1 \in 1 .. Len(ws) /\ Tail(ws)[i] = ws[i + 1] /\ i + 1 # 1
    BY <1>1
  <2> QED BY <1>1, <2>1, CaComesFirst
<1>13. PlanOK' /\ DoneOK'
  BY <1>2, <1>3, <1>4, <1>5, <1>11, <1>12 DEF PlanOK, DoneOK
<1>15. SoundOK'
  <2> SUFFICES ASSUME ~cut' PROVE SoundOK'
    BY DEF SoundOK
  <2>1. ~cut /\ Sound(u) /\ (Replacing => visit = None)
        /\ (~Replacing => Own(store) /\ AllOwn(store))
        /\ (visit # None => Mine(store, visit.presents))
    BY <1>1 DEF WriteNext, ChainInv, SoundOK
  <2>2. Replacing <=> running.found \notin {None, store.ca}
    BY <1>1 DEF Replacing
  <2>3. Replacing' <=> running.found \notin {None, store'.ca}
    BY <1>2, <1>4 DEF Replacing
  <2>4. CASE w.file = "ca"
    <3>1. running.found = store.ca /\ ~Replacing /\ Own(store) /\ AllOwn(store)
      <4>1. 1 \in 1 .. Len(ws)
        BY <1>1
      <4>2. running.found = store.ca
        BY <1>3, <2>4, <4>1
      <4> QED BY <2>1, <2>2, <4>2
    <3>2. store'.ca = w.value
      BY <1>9, <2>4
    <3>3. ASSUME store.ca \notin {None, w.value} PROVE visit = None
      <4>1. running.invocation.answer = "generate"
        <5>1. 1 \in 1 .. Len(ws)
          BY <1>1
        <5>2. Agreed(store, running.invocation, ws)
          BY <1>1, <2>4, <5>1, CaComesFirst
        <5> QED BY <3>3, <5>2 DEF Agreed
      <4> QED BY <1>1, <2>4, <3>3, <4>1 DEF WriteNext
    <3>4. store.ca \in {None, w.value} => \A x : Mine(store, x) => Mine(store', x)
      BY <3>2 DEF Mine
    <3>5. store'.clientCert = store.clientCert /\ store'.idents = store.idents
      BY <1>9, <2>4
    <3>6. ~Replacing' => Own(store') /\ AllOwn(store')
      <4> HIDE DEF w
      <4> QED BY <2>3, <3>1, <3>2, <3>4, <3>5 DEF Own, AllOwn
    <3>7. Replacing' => visit' = None
      BY <1>2, <2>3, <3>1, <3>2, <3>3
    <3>8. visit' # None => Mine(store', visit'.presents)
      BY <1>2, <2>1, <3>3, <3>4
    <3> QED BY <1>2, <1>4, <1>5, <2>1, <3>6, <3>7, <3>8 DEF SoundOK
  <2>5. CASE w.file # "ca"
    <3>1. store'.ca = store.ca /\ (Replacing' <=> Replacing)
      BY <1>9, <2>2, <2>3, <2>5
    <3>2. \A x : Mine(store', x) <=> Mine(store, x)
      BY <3>1 DEF Mine
    <3>3. ASSUME ~Replacing PROVE Own(store')
      <4>1. CASE w.file = "clientCert"
        <5>1. u.ca = store.ca
          <6>1. \A i \in 1 .. Len(ws) : ws[i].file # "ca"
            BY <1>1, <4>1, CaComesFirst
          <6>2. To(ws, "ca") = {}
            BY <1>1, <6>1, AfterSays DEF To
          <6> QED BY <1>1, <1>6, <6>2, AfterSays
        <5> HIDE DEF u, w
        <5> QED BY <1>7, <1>9, <3>1, <4>1, <5>1 DEF Own, Mine
      <4>2. CASE w.file # "clientCert"
        <5> HIDE DEF w
        <5> QED BY <1>9, <2>1, <3>2, <3>3, <4>2 DEF Own
      <4> QED BY <4>1, <4>2
    <3>4. ASSUME ~Replacing PROVE AllOwn(store')
      <4>1. CASE w.file = "idents"
        <5> HIDE DEF w
        <5> QED BY <1>7, <1>9, <4>1 DEF AllOwn, Mine
      <4>2. CASE w.file # "idents"
        <5> HIDE DEF w
        <5> QED BY <1>9, <2>1, <3>2, <3>4, <4>2 DEF AllOwn
      <4> QED BY <4>1, <4>2
    <3> QED BY <1>2, <1>4, <1>5, <2>1, <3>1, <3>2, <3>3, <3>4 DEF SoundOK
  <2> QED BY <2>4, <2>5
<1> QED BY <1>10, <1>13, <1>15

LEMMA AfterNothing ==
  ASSUME StoreOK
  PROVE  After(store, <<>>) = store
BY EmptySays, RepeatsChangeNothing DEF StoreOK, Repeats

LEMMA EndSetupChains ==
  ASSUME ChainInv, EndSetup
  PROVE  (StoreOK /\ PlanOK /\ DoneOK /\ SoundOK)'
<1>1. /\ running # None /\ running' = None /\ UNCHANGED <<store, visit, cut>>
      /\ After(store, left) = store
  BY AfterNothing DEF EndSetup, ChainInv
<1>2. StoreOK' /\ PlanOK'
  BY <1>1 DEF ChainInv, StoreOK, PlanOK
<1>3. ASSUME done' # None
      PROVE  /\ Settled(done'.invocation, done'.broker, store)
             /\ done'.advertised => store.server # None
  <2>1. /\ running.ok
        /\ done' = [invocation |-> running.invocation, broker |-> running.broker,
                    advertised |-> Recommends(store)]
    BY <1>3 DEF EndSetup
  <2>2. Settled(running.invocation, running.broker, store)
    BY <1>1, <2>1 DEF ChainInv, PlanOK
  <2>3. Recommends(store) => store.server # None
    BY DEF Recommends
  <2> QED BY <2>1, <2>2, <2>3
<1>4. SoundOK'
  BY <1>1 DEF ChainInv, SoundOK
<1> QED BY <1>1, <1>2, <1>3, <1>4 DEF DoneOK

LEMMA KillSetupChains ==
  ASSUME ChainInv, KillSetup
  PROVE  (StoreOK /\ PlanOK /\ DoneOK /\ SoundOK)'
<1>1. /\ running # None /\ running' = None /\ done' = None /\ UNCHANGED <<store, visit>>
      /\ cut' = (cut \/ Replacing \/ Halved)
  BY DEF KillSetup
<1>2. StoreOK' /\ PlanOK' /\ DoneOK'
  BY <1>1 DEF ChainInv, StoreOK, PlanOK, DoneOK
<1>3. ASSUME ~cut' PROVE Sound(store) /\ (visit # None => Mine(store, visit.presents))
  <2>1. ~cut /\ ~Replacing /\ ~Halved
    BY <1>1, <1>3
  <2>2. Paired(store)
    BY <2>1 DEF Halved, Paired
  <2> QED BY <1>1, <2>1, <2>2 DEF ChainInv, SoundOK, Sound
<1> QED BY <1>1, <1>2, <1>3 DEF SoundOK

(* A step that only moves a file no identity rests on, while no setup is under way. *)
LEMMA MoveKeyAwayChains ==
  ASSUME ChainInv, MoveKeyAway
  PROVE  (StoreOK /\ PlanOK /\ DoneOK /\ SoundOK)'
<1>1. /\ running = None /\ running' = None /\ done' = None /\ UNCHANGED <<visit, cut>>
      /\ store' = [store EXCEPT !.caKey = None] /\ IsStore(store)
  BY DEF MoveKeyAway, ChainInv, StoreOK
<1>2. /\ DOMAIN store' = DOMAIN store /\ store' = [f \in DOMAIN store' |-> store'[f]]
      /\ store'.ca = store.ca /\ store'.clientCert = store.clientCert
      /\ store'.clientKey = store.clientKey /\ store'.server = store.server
      /\ store'.serverKey = store.serverKey /\ store'.broker = store.broker
      /\ store'.idents = store.idents
  BY <1>1 DEF IsStore, Files
<1>3. \A x : Mine(store', x) <=> Mine(store, x)
  BY <1>2 DEF Mine
<1>4. Sound(store) => Sound(store')
  BY <1>2, <1>3 DEF Sound, Paired, Own, AllOwn
<1>5. StoreOK' /\ PlanOK' /\ DoneOK'
  BY <1>1, <1>2 DEF ChainInv, StoreOK, IsStore, Named, PlanOK, DoneOK
<1> QED BY <1>1, <1>3, <1>4, <1>5 DEF ChainInv, SoundOK

LEMMA InstallServerChains ==
  ASSUME ChainInv, InstallServer
  PROVE  (StoreOK /\ PlanOK /\ DoneOK /\ SoundOK)'
<1>1. PICK a \in Foreign, h \in Hosts :
        store' = [store EXCEPT !.server = [by |-> a, n |-> 0, host |-> h], !.serverKey = 0]
  BY DEF InstallServer
<1>2. /\ running = None /\ running' = None /\ done' = None /\ UNCHANGED <<visit, cut>>
      /\ IsStore(store)
  BY DEF InstallServer, ChainInv, StoreOK
<1>3. /\ DOMAIN store' = DOMAIN store /\ store' = [f \in DOMAIN store' |-> store'[f]]
      /\ store'.ca = store.ca /\ store'.clientCert = store.clientCert
      /\ store'.clientKey = store.clientKey /\ store'.server.n = 0
      /\ store'.serverKey = 0 /\ store'.broker = store.broker
      /\ store'.idents = store.idents
  BY <1>1, <1>2 DEF IsStore, Files
<1>4. \A x : Mine(store', x) <=> Mine(store, x)
  BY <1>3 DEF Mine
<1>5. Sound(store) => Sound(store')
  BY <1>3, <1>4 DEF Sound, Paired, Own, AllOwn
<1>6. StoreOK' /\ PlanOK' /\ DoneOK'
  BY <1>2, <1>3 DEF ChainInv, StoreOK, IsStore, Named, PlanOK, DoneOK
<1> QED BY <1>2, <1>4, <1>5, <1>6 DEF ChainInv, SoundOK

(* What a robot is given is nothing, or of the authority on file. *)
LEMMA GivenIsMine ==
  ASSUME NEW s, NEW r \in Robots, NEW brought, NEW reissue, NEW k, s.ca # None,
         s.broker \in Brokers, AllOwn(s), NEW i \in Given(s, r, brought, reissue, k)
  PROVE  Mine(s, i)
<1>0. s.broker.auth \in {"mutual", "supplied", "anonymous"}
  BY DEF Brokers, Modes
<1>1. CASE s.broker.auth = "anonymous"
  BY <1>1 DEF Given, Mine
<1>2. CASE s.broker.auth # "anonymous" /\ brought # None
  BY <1>2 DEF Given, Mine
<1>3. CASE s.broker.auth = "supplied" /\ brought = None
  BY <1>3 DEF Given, Mine
<1>4. CASE s.broker.auth = "mutual" /\ brought = None
  <2>1. Mine(s, s.idents[r])
    BY DEF AllOwn
  <2> QED BY <1>4, <2>1 DEF Given, Mine
<1> QED BY <1>0, <1>1, <1>2, <1>3, <1>4

LEMMA StartVisitChains ==
  ASSUME ChainInv, StartVisit
  PROVE  (StoreOK /\ PlanOK /\ DoneOK /\ SoundOK)'
<1>1. /\ UNCHANGED <<store, running, left, done>> /\ visit = None
      /\ store.broker # None /\ store.ca # None /\ cut' = (cut \/ Replacing)
  BY DEF StartVisit
<1>2. PICK r \in Robots, brought \in Foreign \cup {None}, reissue \in BOOLEAN :
        \E i \in Given(store, r, brought, reissue, runs + 1) :
          visit' = [robot |-> r, trust |-> store.ca, presents |-> i, broker |-> store.broker]
  BY DEF StartVisit
<1>3. PICK i \in Given(store, r, brought, reissue, runs + 1) :
          visit' = [robot |-> r, trust |-> store.ca, presents |-> i, broker |-> store.broker]
  BY <1>2
<1>4. store.broker \in Brokers
  BY <1>1 DEF ChainInv, StoreOK, Named
<1>5. StoreOK' /\ PlanOK' /\ DoneOK'
  BY <1>1, <1>3, <1>4 DEF ChainInv, StoreOK, PlanOK, DoneOK
<1>6. ASSUME ~cut' PROVE SoundOK'
  <2>1. ~cut /\ ~Replacing
    BY <1>1, <1>6
  <2>2. AllOwn(store)
    BY <2>1 DEF ChainInv, SoundOK, Sound
  <2>3. Mine(store, i)
    BY <1>1, <1>4, <2>2, GivenIsMine
  <2>4. ~Replacing'
    BY <1>1, <2>1 DEF Replacing
  <2> QED BY <1>1, <1>3, <2>1, <2>3, <2>4 DEF ChainInv, SoundOK
<1> QED BY <1>5, <1>6 DEF SoundOK

LEMMA RestChains ==
  ASSUME ChainInv, Accept \/ AbandonVisit \/ UNCHANGED vars
  PROVE  (StoreOK /\ PlanOK /\ DoneOK /\ SoundOK)'
<1>1. UNCHANGED <<store, running, left, done, cut>> /\ (UNCHANGED visit \/ visit' = None)
  BY DEF Accept, AbandonVisit, vars
<1>2. Replacing' <=> Replacing
  BY <1>1 DEF Replacing
<1> QED BY <1>1, <1>2 DEF ChainInv, StoreOK, PlanOK, DoneOK, SoundOK

(* The robots' identities behind the rest of a run: forgotten, or as they are under an      *)
(* authority that is theirs.                                                                *)
LEMMA RobotsFollow ==
  ASSUME NEW s, NEW ws, IsStore(s), Orderly(s, ws), Forgets(s, ws), AllOwn(s)
  PROVE  AllOwn(After(s, ws))
<1> DEFINE t == After(s, ws)
<1>1. IsSeq(ws) /\ "ca" \in DOMAIN s /\ "idents" \in DOMAIN s
  BY DEF Orderly, IsStore, Files
<1>2. CASE To(ws, "idents") # {}
  <2>1. PICK i \in 1 .. Len(ws) : /\ ws[i].file = "idents"
                                  /\ \A j \in 1 .. Len(ws) : j > i => ws[j].file # "idents"
    BY <1>1, <1>2, AfterSays
  <2>2. t.idents = ws[i].value
    BY <1>1, <2>1, LastStands
  <2>3. ws[i].value = [r \in Robots |-> None]
    BY <2>1 DEF Orderly
  <2> HIDE DEF t
  <2> QED BY <2>2, <2>3 DEF AllOwn, Mine, t
<1>3. CASE To(ws, "idents") = {}
  <2>1. t.idents = s.idents
    BY <1>1, <1>3, AfterSays
  <2>2. \A j \in 1 .. Len(ws) : ws[j].file # "idents"
    BY <1>1, <1>3, AfterSays DEF To
  <2>3. s.ca = None \/ t.ca = s.ca
    <3>1. CASE To(ws, "ca") = {}
      BY <1>1, <3>1, AfterSays
    <3>2. CASE To(ws, "ca") # {}
      <4>1. PICK i \in 1 .. Len(ws) : /\ ws[i].file = "ca"
                                      /\ \A j \in 1 .. Len(ws) : j > i => ws[j].file # "ca"
        BY <1>1, <3>2, AfterSays
      <4>2. t.ca = ws[i].value
        BY <1>1, <4>1, LastStands
      <4>3. s.ca \in {None, ws[i].value}
        BY <2>2, <4>1 DEF Forgets
      <4> HIDE DEF t
      <4> QED BY <4>2, <4>3
    <3> QED BY <3>1, <3>2
  <2> HIDE DEF t
  <2> QED BY <2>1, <2>3 DEF AllOwn, Mine, t
<1> QED BY <1>2, <1>3

LEMMA SaveVisitChains ==
  ASSUME ChainInv, SaveBroker \/ SaveIdentity
  PROVE  (StoreOK /\ PlanOK /\ DoneOK /\ SoundOK)'
<1> DEFINE t == After(store, left)
           u == After(store', left)
<1>1. /\ visit # None /\ visit' \in {visit, None} /\ UNCHANGED <<running, left, done, cut>>
      /\ visit.robot \in Robots /\ visit.broker \in Brokers /\ IsStore(store)
      /\ DOMAIN store.idents = Robots /\ Named(store)
  BY DEF ChainInv, StoreOK, SetupInv, TrustsOK, SaveBroker, SaveIdentity
<1>2. /\ DOMAIN store' = DOMAIN store /\ store' = [f \in DOMAIN store' |-> store'[f]]
      /\ Alike(store, store')
      /\ store'.broker \in {store.broker, visit.broker}
      /\ DOMAIN store'.idents = Robots
      /\ \A r \in Robots : store'.idents[r] \in {store.idents[r], visit.presents}
  <2>1. CASE SaveBroker
    <3>1. store' = [store EXCEPT !.broker = visit.broker]
      BY <2>1 DEF SaveBroker
    <3> QED BY <1>1, <3>1 DEF IsStore, Files, Alike
  <2>2. CASE SaveIdentity
    <3>1. store' = [store EXCEPT !.idents[visit.robot]
                                   = IF visit.presents = None THEN @ ELSE visit.presents]
      BY <2>2 DEF SaveIdentity
    <3>2. store'.idents = [store.idents EXCEPT ![visit.robot]
                             = IF visit.presents = None THEN @ ELSE visit.presents]
      BY <1>1, <3>1 DEF IsStore, Files
    <3>3. /\ DOMAIN store' = DOMAIN store /\ store' = [f \in DOMAIN store' |-> store'[f]]
          /\ Alike(store, store') /\ store'.broker = store.broker
      BY <1>1, <3>1 DEF IsStore, Files, Alike
    <3> QED BY <1>1, <3>2, <3>3
  <2> QED BY <2>1, <2>2
<1>3. IsStore(store')
  BY <1>1, <1>2 DEF IsStore
<1>4. StoreOK'
  BY <1>1, <1>2, <1>3 DEF StoreOK, Named, Alike
<1>6. \A x : Mine(store, x) <=> Mine(store', x)
  BY <1>2 DEF Alike, Mine
<1>7. ASSUME AllOwn(store), Mine(store, visit.presents) PROVE AllOwn(store')
  BY <1>2, <1>6, <1>7 DEF AllOwn
<1>8. DoneOK'
  BY <1>1, <1>2, AlikeSettled DEF ChainInv, DoneOK, Alike
<1>9. ASSUME running # None
      PROVE  /\ Alike(t, u) /\ IsSeq(left) /\ Orderly(store', left) /\ Forgets(store', left)
  <2>1. Orderly(store, left) /\ Forgets(store, left)
    BY <1>9 DEF ChainInv, PlanOK
  <2>2. Alike(t, u) /\ IsSeq(left)
    BY <1>1, <1>2, <2>1, AfterAlike DEF Orderly
  <2>3. \A x : Mine(t, x) <=> Mine(u, x)
    BY <2>2 DEF Alike, Mine
  <2>4. t.ca = u.ca /\ store'.ca = store.ca
    BY <1>2, <2>2 DEF Alike
  <2> HIDE DEF t, u
  <2> QED BY <2>1, <2>2, <2>3, <2>4 DEF Orderly, Forgets, t, u
<1> HIDE DEF t, u
<1>10. PlanOK'
  <2>1. ASSUME running # None, running.ok PROVE Settled(running.invocation, running.broker, u)
    BY <1>9, <2>1, AlikeSettled DEF ChainInv, PlanOK, t
  <2> QED BY <1>1, <1>2, <1>9, <2>1 DEF ChainInv, PlanOK, Alike, u
<1>11. SoundOK'
  <2> SUFFICES ASSUME ~cut PROVE SoundOK'
    BY <1>1 DEF SoundOK
  <2>1. Mine(store, visit.presents)
    BY <1>1 DEF ChainInv, SoundOK
  <2>2. ASSUME running = None PROVE Sound(store')
    BY <1>2, <1>7, <2>1, <2>2, AlikeSettled DEF ChainInv, SoundOK, Sound
  <2>3. ASSUME running # None PROVE Sound(u) /\ Own(store') /\ AllOwn(store')
    <3>1. ~Replacing /\ Sound(t) /\ Own(store) /\ AllOwn(store)
      BY <1>1, <2>3 DEF ChainInv, SoundOK, t
    <3>2. Paired(u) /\ Own(u)
      BY <1>9, <2>3, <3>1, AlikeSettled DEF Sound
    <3>3. AllOwn(store') /\ Own(store')
      BY <1>2, <1>6, <1>7, <2>1, <3>1 DEF Own, Alike
    <3>5. AllOwn(u)
      BY <1>3, <1>9, <2>3, <3>3, RobotsFollow DEF u
    <3> QED BY <3>2, <3>3, <3>5 DEF Sound
  <2>4. visit' # None => Mine(store', visit'.presents)
    BY <1>1, <1>6, <2>1
  <2>5. ~Replacing'
    BY <1>1, <1>2 DEF Replacing, Alike, ChainInv, SoundOK
  <2> QED BY <1>1, <2>2, <2>3, <2>4, <2>5 DEF SoundOK, u
<1> QED BY <1>4, <1>8, <1>10, <1>11

LEMMA ChainInvHolds == Spec => []ChainInv
<1>1. Init => ChainInv
  <2> SUFFICES ASSUME Init PROVE ChainInv
    OBVIOUS
  <2>1. /\ IsStore(store) /\ store.caKey = None /\ running = None /\ visit = None /\ runs = 0
        /\ DOMAIN installed = Robots /\ \A r \in Robots : installed[r] = None
    BY DEF Init, IsStore, Files
  <2>2. SetupInv
    BY <2>1 DEF SetupInv, KeyFits, RunOK, TrustsOK, Trusts
  <2>3. /\ store = [f \in DOMAIN store |-> store[f]] /\ store.ca = None /\ store.broker = None
        /\ store.idents = [r \in Robots |-> None] /\ store.clientCert = None
        /\ store.clientKey = None /\ store.server = None /\ done = None
    BY DEF Init
  <2>4. StoreOK
    BY <2>1, <2>3 DEF StoreOK, IsStore, Files, Named
  <2>5. Sound(store)
    BY <2>3 DEF Sound, Paired, Own, AllOwn, Mine
  <2> QED BY <2>1, <2>2, <2>3, <2>4, <2>5 DEF ChainInv, PlanOK, DoneOK, SoundOK
<1>2. ChainInv /\ [Next]_vars => ChainInv'
  <2> SUFFICES ASSUME ChainInv, [Next]_vars PROVE ChainInv'
    OBVIOUS
  <2>1. SetupInv'
    BY StartSetupKeeps, WriteNextKeeps, VisitKeeps, OthersKeep DEF Next, ChainInv
  <2>2. (StoreOK /\ PlanOK /\ DoneOK /\ SoundOK)'
    BY StartSetupChains, WriteNextChains, EndSetupChains, KillSetupChains, MoveKeyAwayChains,
       InstallServerChains, StartVisitChains, SaveVisitChains, RestChains DEF Next
  <2> QED BY <2>1, <2>2 DEF ChainInv
<1> QED BY <1>1, <1>2, PTL DEF Spec

(* Unless a run left the authority without this machine's identity, the files behind a run  *)
(* that goes through hold both, or could not sign.                                          *)
BareOK == ~bare =>
  /\ running = None => Armed(store)
  /\ running # None /\ running.ok => Armed(After(store, left))

LEMMA BareKeeps ==
  ASSUME ChainInv, BareOK, [Next]_vars
  PROVE  BareOK'
<1> SUFFICES ASSUME ~bare' PROVE BareOK'
  BY DEF BareOK
<1>1. ASSUME NEW v \in Offered, StartSetup(v) PROVE BareOK'
  <2> DEFINE plan == SetupOf(store, v, runs + 1)
             u == After(store, plan.writes)
  <2>1. v \in Invocations /\ runs + 1 \in 1 .. MaxRuns
    BY <1>1, SetupAssumption DEF StartSetup, ChainInv, SetupInv
  <2>2. plan.ok => (Armed(store) => Armed(u))
    BY <2>1, SetupSound DEF ChainInv, StoreOK
  <2>3. /\ running = None /\ store' = store /\ left' = plan.writes /\ bare' = bare
        /\ running' = [invocation |-> v, ok |-> plan.ok, found |-> store.ca, broker |-> u.broker]
    BY <1>1 DEF StartSetup
  <2>4. Armed(store)
    BY <2>3 DEF BareOK
  <2> HIDE DEF plan, u
  <2>5. running'.ok = plan.ok
    BY <2>3
  <2> QED BY <2>2, <2>3, <2>4, <2>5 DEF BareOK, u
<1>2. CASE WriteNext
  <2>1. /\ running # None /\ left # <<>> /\ IsSeq(left) /\ Head(left) = left[1]
    BY <1>2, TailSays DEF WriteNext, ChainInv, SetupInv, RunOK
  <2>2. /\ store' = Apply(store, left[1]) /\ left' = Tail(left)
        /\ running' = running /\ bare' = bare
    BY <1>2, <2>1 DEF WriteNext
  <2>3. After(store', left') = After(store, left)
    BY <2>1, <2>2, AfterTail
  <2> QED BY <2>1, <2>2, <2>3 DEF BareOK
<1>3. CASE EndSetup
  <2>1. /\ running # None /\ running' = None /\ store' = store
        /\ After(store, left) = store /\ bare' = ((running.ok => bare) /\ ~Armed(store))
    BY <1>3, AfterNothing DEF EndSetup, ChainInv
  <2> QED BY <2>1 DEF BareOK
<1>4. CASE KillSetup
  BY <1>4 DEF KillSetup, BareOK
<1>5. CASE MoveKeyAway
  <2>1. running' = None /\ store'.caKey = None
    BY <1>5 DEF MoveKeyAway, ChainInv, StoreOK, IsStore, Files
  <2> QED BY <2>1 DEF BareOK, Armed, HasCa
<1>6. CASE InstallServer
  <2>1. PICK a \in Foreign, h \in Hosts :
          store' = [store EXCEPT !.server = [by |-> a, n |-> 0, host |-> h], !.serverKey = 0]
    BY <1>6 DEF InstallServer
  <2>2. running = None /\ running' = None /\ bare' = bare
    BY <1>6 DEF InstallServer
  <2>3. /\ store'.ca = store.ca /\ store'.caKey = store.caKey
        /\ store'.clientCert = store.clientCert /\ store'.clientKey = store.clientKey
    BY <2>1 DEF ChainInv, StoreOK, IsStore, Files
  <2> QED BY <2>2, <2>3 DEF BareOK, Armed, HasCa, HasClient
<1>7. CASE SaveBroker \/ SaveIdentity
  <2>1. /\ running' = running /\ left' = left /\ bare' = bare /\ DOMAIN store' = DOMAIN store
        /\ IsStore(store) /\ Alike(store, store')
    BY <1>7 DEF SaveBroker, SaveIdentity, Alike, ChainInv, StoreOK, IsStore, Files
  <2>2. \A s, t : Alike(s, t) => (Armed(s) <=> Armed(t))
    BY DEF Alike, Armed, HasCa, HasClient
  <2>3. ASSUME running # None PROVE Alike(After(store, left), After(store', left))
    <3>1. IsSeq(left)
      BY <2>3 DEF ChainInv, PlanOK, Orderly
    <3> QED BY <2>1, <3>1, AfterAlike
  <2> QED BY <2>1, <2>2, <2>3 DEF BareOK
<1>8. CASE StartVisit \/ Accept \/ AbandonVisit \/ UNCHANGED vars
  <2>1. UNCHANGED <<store, running, left, bare>>
    BY <1>8 DEF StartVisit, Accept, AbandonVisit, vars
  <2> QED BY <2>1 DEF BareOK
<1> QED BY <1>1, <1>2, <1>3, <1>4, <1>5, <1>6, <1>7, <1>8 DEF Next

LEMMA BareHolds == Spec => []BareOK
<1>1. Init => BareOK
  <2> SUFFICES ASSUME Init PROVE BareOK
    OBVIOUS
  <2>1. store.ca = None /\ running = None
    BY DEF Init
  <2> QED BY <2>1 DEF BareOK, Armed, HasCa
<1>2. ChainInv /\ BareOK /\ [Next]_vars => BareOK'
  BY BareKeeps
<1> QED BY <1>1, <1>2, ChainInvHolds, PTL DEF Spec

(* Behind any setup that reports success, whatever was refused or killed before it, every   *)
(* identity on file was signed by the authority on file, unless a replacement was itself    *)
(* cut short or came into the middle of a provision, or a kill split a pair of files; and   *)
(* this machine holds the identity its mode presents, unless the mode is `mutual' and a run *)
(* that ended badly left an authority without one, which no later run makes up for          *)
(* (cli.py _cmd_setup, _ensure_pki, _resolve_trust_only).                                   *)
THEOREM IdentitiesChain == Spec => []StoredIdentitiesChain
<1>1. ASSUME ChainInv, BareOK, AtRest, ~cut
      PROVE  /\ Chains(store.clientCert) /\ \A r \in Robots : Chains(store.idents[r])
             /\ Connects(store) \/ (bare /\ store.broker.auth = "mutual")
             /\ done.advertised => store.serverKey = store.server.n
  <2>1. /\ Sound(store) /\ Settled(done.invocation, done.broker, store)
        /\ done.broker = store.broker
        /\ done.advertised => store.server # None
    BY <1>1 DEF ChainInv, SoundOK, DoneOK, AtRest
  <2>2. store.broker.auth \in {"mutual", "supplied", "anonymous"}
    BY <2>1 DEF Settled, Brokers, Modes
  <2>3. Connects(store) \/ (bare /\ store.broker.auth = "mutual")
    <3>1. CASE store.broker.auth = "anonymous"
      BY <3>1 DEF Connects
    <3>2. CASE store.broker.auth = "supplied"
      <4>1. HasClient(store)
        <5> DEFINE i == [by |-> done.invocation.client, n |-> 0]
        <5>1. CASE done.invocation.client = None
          BY <2>1, <3>2, <5>1 DEF Settled, Ready
        <5>2. CASE done.invocation.client # None
          <6>1. i \in Identities
            BY <2>1, <5>2, SetupAssumption DEF Settled, Identities, Invocations, Authorities
          <6>2. store.clientCert = i /\ store.clientKey = i
            BY <2>1, <5>2 DEF Settled, Filed
          <6> QED BY <6>1, <6>2, SetupAssumption DEF HasClient
        <5> QED BY <5>1, <5>2
      <4> QED BY <2>1, <3>2, <4>1 DEF Connects, Sound, Paired
    <3>3. CASE store.broker.auth = "mutual" /\ ~bare
      <4>1. HasCa(store)
        BY <2>1, <3>3 DEF Settled
      <4>2. HasClient(store)
        BY <1>1, <3>3, <4>1 DEF BareOK, AtRest, Armed
      <4> QED BY <2>1, <4>2 DEF Connects, Sound, Paired
    <3> QED BY <2>2, <3>1, <3>2, <3>3
  <2> QED BY <2>1, <2>3 DEF Sound, Paired, Own, AllOwn, Mine, Chains
<1>2. ChainInv /\ BareOK => StoredIdentitiesChain
  BY <1>1 DEF StoredIdentitiesChain
<1> QED BY <1>2, ChainInvHolds, BareHolds, PTL

-----------------------------------------------------------------------------
(* A setup run again *)

(* A stage that goes through and writes what the files hold already. *)
Still(s, st) == st.ok /\ IsSeq(st.writes) /\ Repeats(s, st.writes)

LEMMA StillSays ==
  ASSUME NEW s, s = [f \in DOMAIN s |-> s[f]], NEW st, Still(s, st)
  PROVE  After(s, st.writes) = s
BY RepeatsChangeNothing DEF Still

LEMMA JoinedStill ==
  ASSUME NEW s, NEW first, NEW second, Still(s, first), Still(s, second)
  PROVE  Still(s, Joined(first, second))
<1> DEFINE both == first.writes \o second.writes
<1>1. IsSeq(both) /\ Joined(first, second).writes = both /\ Joined(first, second).ok
  BY ConcatSays DEF Still, Joined
<1>2. \A i \in 1 .. Len(both) :
        \/ i \in 1 .. Len(first.writes) /\ both[i] = first.writes[i]
        \/ i - Len(first.writes) \in 1 .. Len(second.writes)
           /\ both[i] = second.writes[i - Len(first.writes)]
  BY EitherPart DEF Still
<1> HIDE DEF both
<1>3. Repeats(s, both)
  BY <1>2 DEF Repeats, Still
<1> QED BY <1>1, <1>3 DEF Still

LEMMA NothingStill ==
  ASSUME NEW s
  PROVE  Still(s, Nothing)
<1>1. Nothing.ok /\ Nothing.writes = <<>>
  BY DEF Nothing, Writes
<1> QED BY <1>1, EmptySays DEF Still, Repeats

LEMMA PairStill ==
  ASSUME NEW s, NEW f, NEW g
  PROVE  Still(s, Writes(<<Put(f, s[f]), Put(g, s[g])>>))
<1> DEFINE a == Put(f, s[f])
           b == Put(g, s[g])
           ws == <<a, b>>
<1>1. a.file = f /\ a.value = s[f] /\ b.file = g /\ b.value = s[g]
  BY DEF Put
<1> HIDE DEF a, b
<1>2. IsSeq(ws) /\ Len(ws) = 2 /\ ws[1] = a /\ ws[2] = b
  BY PairSays
<1> HIDE DEF ws
<1>3. Repeats(s, ws)
  BY <1>1, <1>2 DEF Repeats
<1> QED BY <1>2, <1>3 DEF Still, Writes, ws, a, b

LEMMA BrokerStill ==
  ASSUME NEW s
  PROVE  Still(s, Writes(<<Put("broker", s.broker)>>))
<1> DEFINE a == Put("broker", s.broker)
           ws == <<a>>
<1>1. a.file = "broker" /\ a.value = s.broker
  BY DEF Put
<1> HIDE DEF a
<1>2. IsSeq(ws) /\ Len(ws) = 1 /\ ws[1] = a
  BY OneSays
<1> HIDE DEF ws
<1>3. Repeats(s, ws)
  BY <1>1, <1>2 DEF Repeats
<1> QED BY <1>2, <1>3 DEF Still, Writes, ws, a

LEMMA PkiStill ==
  ASSUME NEW s, s = [f \in DOMAIN s |-> s[f]], NEW v, Settled(v, s.broker, s), NEW host, NEW k
  PROVE  Still(s, EnsurePki(s, v, s.broker.auth, host, k))
<1> DEFINE mode == s.broker.auth
<1>1. /\ v \in Invocations /\ s.ca # None /\ Ready(v, mode, s)
      /\ mode = "mutual" => HasCa(s)
  BY DEF Settled
<1> HIDE DEF mode
<1>2. v.ca \in Foreign \cup {None} /\ v.key \in BOOLEAN
  BY <1>1 DEF Invocations
<1>3. CASE mode # "mutual"
  <2> DEFINE given == IF v.ca # None THEN v.ca ELSE IF v.answer = "file" THEN v.typed ELSE None
             anchor == IF v.ca = None /\ s.ca # None THEN Nothing
                       ELSE IF given \in Foreign THEN Bring(s, given, SaveCaCertOnly(given))
                       ELSE Raises
             Needs(t) == IF mode = "supplied" /\ v.client = None /\ ~HasClient(t) THEN Raises
                         ELSE Nothing
  <2>1. /\ ~v.key /\ ~(mode = "supplied" /\ HasCa(s))
        /\ v.ca # None => s.ca = v.ca /\ s.caKey = None
        /\ mode = "supplied" /\ v.client = None => HasClient(s)
    BY <1>1, <1>3 DEF Ready, HasCa
  <2>2. EnsureTrustAnchor(s, v, mode) = Then(s, anchor, Needs)
    BY <2>1 DEF EnsureTrustAnchor, Then
  <2>3. Still(s, anchor)
    <3>1. CASE v.ca = None
      BY <1>1, <3>1, NothingStill
    <3>2. CASE v.ca # None
      <4>1. anchor = Writes(<<Put("ca", s.ca), Put("caKey", s.caKey)>>)
        BY <1>2, <2>1, <3>2 DEF Bring, SaveCaCertOnly
      <4> HIDE DEF anchor
      <4>2. \A f, g : Still(s, Writes(<<Put(f, s[f]), Put(g, s[g])>>))
        BY PairStill
      <4> QED BY <4>1, <4>2
    <3> QED BY <3>1, <3>2
  <2>4. Needs(s) = Nothing
    BY <2>1
  <2> HIDE DEF anchor, Needs
  <2>5. After(s, anchor.writes) = s
    BY <2>3, StillSays
  <2>6. Then(s, anchor, Needs) = Joined(anchor, Nothing)
    BY <2>4, <2>5 DEF Then, Joined
  <2>7. EnsurePki(s, v, mode, host, k) = EnsureTrustAnchor(s, v, mode)
    BY <1>3, Zenon DEF EnsurePki
  <2> QED BY <2>2, <2>3, <2>6, <2>7, NothingStill, JoinedStill DEF mode
<1>4. CASE mode = "mutual" /\ v.key
  <2> DEFINE Mints(t) == MintUnlessBrought(t, v, k)
             first == Bring(s, v.ca, SaveCa(v.ca))
  <2>1. /\ v.ca # None /\ s.ca = v.ca /\ s.caKey = v.ca
        /\ v.client = None => HasClient(s) /\ s.clientCert = s.clientKey
    BY <1>1, <1>4 DEF Ready
  <2>2. Still(s, first)
    <3>1. first = Writes(<<Put("ca", s.ca), Put("caKey", s.caKey)>>)
      BY <2>1 DEF Bring, SaveCa
    <3> HIDE DEF first
    <3>2. \A f, g : Still(s, Writes(<<Put(f, s[f]), Put(g, s[g])>>))
      BY PairStill
    <3> QED BY <3>1, <3>2
  <2>3. Mints(s) = Nothing
    BY <2>1 DEF MintUnlessBrought, ClientIdentity
  <2>4. BringAuthority(s, v, k) = Then(s, first, Mints)
    BY <2>1 DEF BringAuthority, Then
  <2> HIDE DEF first, Mints
  <2>5. After(s, first.writes) = s
    BY <2>2, StillSays
  <2>6. Then(s, first, Mints) = Joined(first, Nothing)
    BY <2>3, <2>5 DEF Then, Joined
  <2>7. EnsurePki(s, v, mode, host, k) = BringAuthority(s, v, k)
    BY <1>4, Zenon DEF EnsurePki
  <2> QED BY <2>2, <2>4, <2>6, <2>7, NothingStill, JoinedStill DEF mode
<1>5. CASE mode = "mutual" /\ ~v.key
  <2>1. v.ca = None /\ HasCa(s)
    BY <1>1, <1>5 DEF Ready
  <2>2. EnsurePki(s, v, mode, host, k) = Nothing
    BY <1>1, <1>5, <2>1, Zenon DEF EnsurePki
  <2> QED BY <2>2, NothingStill DEF mode
<1> QED BY <1>3, <1>4, <1>5

LEMMA ClientStill ==
  ASSUME NEW s, NEW v, Settled(v, s.broker, s)
  PROVE  Still(s, FileClient(s, v))
<1>1. Filed(v, s)
  BY DEF Settled
<1>2. CASE v.client = None
  BY <1>2, NothingStill DEF FileClient
<1>3. CASE v.client # None
  <2>1. FileClient(s, v) = Writes(<<Put("clientCert", s.clientCert),
                                    Put("clientKey", s.clientKey)>>)
    BY <1>1, <1>3 DEF Filed, FileClient, SaveClient
  <2>2. \A f, g : Still(s, Writes(<<Put(f, s[f]), Put(g, s[g])>>))
    BY PairStill
  <2> QED BY <2>1, <2>2
<1> QED BY <1>2, <1>3

LEMMA SettledStays ==
  ASSUME NEW s, s = [f \in DOMAIN s |-> s[f]], NEW v, Settled(v, s.broker, s), NEW k
  PROVE  Still(s, SetupOf(s, v, k))
<1> DEFINE mode == IF v.auth # None THEN v.auth ELSE Mode(s)
           host == IF v.host # None THEN v.host ELSE s.broker.host
           Client(y) == FileClient(y, v)
           Server(y) == IF mode = "mutual" THEN RefreshServer(y, host, k) ELSE Nothing
           Broker(y) == Writes(<<Put("broker", [host |-> host, auth |-> mode])>>)
           AssertUsable(y) == IF (mode = "mutual" /\ ~HasCa(y)) \/ y.ca = None THEN Raises
                              ELSE Nothing
           T == EnsurePki(s, v, mode, host, k)
           F == Then(s, T, Client)
           S == Then(s, F, Server)
           W == Then(s, S, Broker)
<1>1. /\ s.broker \in Brokers /\ s.broker # None /\ v.auth \in {None, s.broker.auth}
      /\ v.host \in {None, s.broker.host}
      /\ s.ca # None /\ (s.broker.auth = "mutual" => HasCa(s) /\ Serving(s, s.broker.host))
  BY SetupAssumption DEF Settled
<1>2. mode = s.broker.auth /\ host = s.broker.host
  BY <1>1 DEF Mode
<1>3. SetupOf(s, v, k) = Then(s, W, AssertUsable)
  BY <1>1 DEF SetupOf, Then
<1>4. Still(s, T)
  <2> HIDE DEF mode, host
  <2> QED BY <1>2, PkiStill
<1>5. Still(s, Client(s)) /\ Still(s, Server(s)) /\ Still(s, AssertUsable(s))
  <2>1. Server(s) = Nothing
    BY <1>1, <1>2 DEF RefreshServer, Serving
  <2>2. AssertUsable(s) = Nothing
    BY <1>1, <1>2
  <2> HIDE DEF Server, AssertUsable
  <2> QED BY <2>1, <2>2, ClientStill, NothingStill
<1>6. Still(s, Broker(s))
  <2>1. [host |-> host, auth |-> mode] = s.broker
    BY <1>1, <1>2 DEF Brokers
  <2> QED BY <2>1, BrokerStill
<1> HIDE DEF T, Client, Server, Broker, AssertUsable
<1>7. \A st : Still(s, st) => After(s, st.writes) = s
  BY StillSays
<1>8. Still(s, F)
  <2>1. F = Joined(T, Client(s))
    BY <1>4, <1>7 DEF Then, Joined
  <2> QED BY <1>4, <1>5, <2>1, JoinedStill
<1> HIDE DEF F
<1>9. Still(s, S)
  <2>1. S = Joined(F, Server(s))
    BY <1>7, <1>8 DEF Then, Joined
  <2> QED BY <1>5, <1>8, <2>1, JoinedStill
<1> HIDE DEF S
<1>10. Still(s, W)
  <2>1. W = Joined(S, Broker(s))
    BY <1>7, <1>9 DEF Then, Joined
  <2> QED BY <1>6, <1>9, <2>1, JoinedStill
<1> HIDE DEF W
<1>11. Then(s, W, AssertUsable) = Joined(W, AssertUsable(s))
  BY <1>7, <1>10 DEF Then, Joined
<1> QED BY <1>3, <1>5, <1>10, <1>11, JoinedStill

(* "Everything here is idempotent" (cli.py _ensure_pki): a setup that succeeded, run again  *)
(* with the same flags, at a terminal or at none, succeeds and changes no file, as long as  *)
(* no provision has put back the broker it had read before.                                 *)
THEOREM SetupRepeats == Spec => []SetupIsIdempotent
<1>1. ASSUME ChainInv, AtRest, NEW nobody \in BOOLEAN
      PROVE  LET answer == IF nobody THEN "nobody" ELSE done.invocation.answer
                 again == SetupOf(store, [done.invocation EXCEPT !.answer = answer], runs + 1) IN
             again.ok /\ After(store, again.writes) = store
  <2> DEFINE answer == IF nobody THEN "nobody" ELSE done.invocation.answer
             v == [done.invocation EXCEPT !.answer = answer]
             again == SetupOf(store, v, runs + 1)
  <2>1. /\ Settled(done.invocation, store.broker, store)
        /\ store = [f \in DOMAIN store |-> store[f]]
    BY <1>1 DEF ChainInv, DoneOK, AtRest, StoreOK
  <2>2. /\ v \in Invocations /\ v.auth = done.invocation.auth /\ v.host = done.invocation.host
        /\ v.ca = done.invocation.ca /\ v.key = done.invocation.key
        /\ v.client = done.invocation.client
    <3>1. done.invocation \in Invocations
      BY <2>1 DEF Settled
    <3>2. answer \in {"nobody", "generate", "file"}
      BY <3>1 DEF Invocations
    <3> HIDE DEF answer
    <3> QED BY <3>1, <3>2 DEF Invocations
  <2> HIDE DEF v
  <2>3. Settled(v, store.broker, store)
    BY <2>1, <2>2 DEF Settled, Ready, Filed
  <2>4. Still(store, again)
    BY <2>1, <2>3, SettledStays
  <2> HIDE DEF again
  <2>5. After(store, again.writes) = store
    BY <2>1, <2>4, StillSays
  <2> QED BY <2>4, <2>5 DEF Still, again, v
<1>2. ChainInv => SetupIsIdempotent
  BY <1>1 DEF SetupIsIdempotent
<1> QED BY <1>2, ChainInvHolds, PTL
=============================================================================
