-------------------------------- MODULE Setup --------------------------------
(***************************************************************************)
(* What `whiskerless setup' leaves on a machine (cli.py): the authority,   *)
(* this machine's identity, the broker's certificate and the mode, written *)
(* file by file over many runs in three modes, each of which may be        *)
(* refused half-way or killed, beside a provision that read the files      *)
(* minutes before it saves what it minted.  An authority, an identity and  *)
(* a certificate carry the number of the run that made them; 0 for what a  *)
(* person brings.                                                          *)
(***************************************************************************)
EXTENDS Integers, Sequences, SequencesExt

CONSTANTS
  Foreign,     \* authorities a person may bring
  Hosts, Robots,
  Offered,     \* the invocations of setup: sets of records of Invocations
  MaxRuns,     \* bound: commands run
  None

Modes == {"mutual", "supplied", "anonymous"}
Authorities == Foreign \cup 1 .. MaxRuns
Identities == [by : Authorities, n : 0 .. MaxRuns]
Certificates == [by : Authorities, n : 0 .. MaxRuns, host : Hosts]
Brokers == [host : Hosts, auth : Modes]
(* --auth, --host, --ca, --ca-key, the issuer of --client-cert, and what is answered at a    *)
(* terminal, if there is one: that an authority be generated, or the files of `typed', where *)
(* None is the authority on file.                                                            *)
Invocations == [auth : Modes \cup {None}, host : Hosts \cup {None}, ca : Foreign \cup {None},
                key : BOOLEAN, client : Foreign \cup {None},
                answer : {"nobody", "generate", "file"}, typed : Foreign \cup {None}]

ASSUME SetupAssumption ==
  /\ MaxRuns \in Nat /\ Foreign \cap Nat = {} /\ Offered \subseteq Invocations
  /\ None \notin Foreign \cup Hosts \cup Robots \cup Modes \cup Nat
  /\ None \notin Identities \cup Certificates \cup Brokers

VARIABLES
  store,      \* the files
  running,    \* a setup under way: its invocation, how it ends, the authority it found
  left,       \* the writes it has still to make
  done,       \* the last setup, if it ended well: its invocation, its broker, and whether it
              \* recommended the broker's files
  visit,      \* a provision under way, with what it read and minted
  saved,      \* it has made its own broker the store's
  installed,  \* what each robot carries: the authority it trusts and the identity it presents
  runs,       \* commands run; a command's number is its run's
  released,   \* history: robots whose authority a person has had replaced since
  cut,        \* history: a replacement was cut short or came between a provision's reads and
              \* writes, or a run was killed between two files of one identity or certificate
  bare        \* history: a run that was refused or killed left the authority and its key without
              \* this machine's identity, and none that ended well has found one since

vars == <<store, running, left, done, visit, saved, installed, runs, released, cut, bare>>

Stores == [ca : Authorities \cup {None}, caKey : Authorities \cup {None},
           clientCert : Identities \cup {None}, clientKey : Identities \cup {None},
           server : Certificates \cup {None}, serverKey : 0 .. MaxRuns \cup {None},
           broker : Brokers \cup {None},
           idents : [Robots -> Identities \cup {None}]]

Init ==
  /\ store = [ca |-> None, caKey |-> None, clientCert |-> None, clientKey |-> None,
              server |-> None, serverKey |-> None, broker |-> None,
              idents |-> [r \in Robots |-> None]]
  /\ running = None /\ left = <<>> /\ done = None /\ visit = None /\ runs = 0
  /\ installed = [r \in Robots |-> None] /\ released = {} /\ cut = FALSE
  /\ saved = FALSE /\ bare = FALSE

-----------------------------------------------------------------------------
(* What a stage of setup does: its writes in order, and whether it raises behind them. *)

Writes(ws) == [writes |-> ws, ok |-> TRUE]
Raises == [writes |-> <<>>, ok |-> FALSE]
Nothing == Writes(<<>>)
Put(file, value) == [file |-> file, value |-> value]
Apply(s, w) == [s EXCEPT ![w.file] = w.value]

(* The files behind several writes: the last one to a file is what it holds. *)
After(s, ws) == [f \in DOMAIN s |->
  LET to == {i \in DOMAIN ws : ws[i].file = f} IN IF to = {} THEN s[f] ELSE ws[Max(to)].value]

(* The stage behind another one, on the files as that one leaves them. *)
Then(s, first, Stage(_)) ==
  LET second == Stage(After(s, first.writes)) IN
  IF first.ok THEN [writes |-> first.writes \o second.writes, ok |-> second.ok] ELSE first

HasCa(s) == s.ca # None /\ s.caKey # None
HasClient(s) == s.clientCert # None /\ s.clientKey # None
Mode(s) == IF s.broker = None THEN "mutual" ELSE s.broker.auth

SaveCa_KeyFirst(a) == <<Put("caKey", a), Put("ca", a)>> \* mutant: the key before the certificate
SaveCa(a) == <<Put("ca", a), Put("caKey", a)>>
SaveCaCertOnly(a) == <<Put("ca", a), Put("caKey", None)>>
SaveClient(i) == <<Put("clientCert", i), Put("clientKey", i)>>
ForgetClient == SaveClient(None)
ForgetIssued_Nothing == <<>> \* mutant: the robots' identities survive their authority
(* Robot by robot, and then profile by profile: whatever comes between them comes into the *)
(* replacement they are part of, which `cut' remembers.                                     *)
ForgetIssued == <<Put("idents", [r \in Robots |-> None])>>
SaveServer(c) == <<Put("server", c), Put("serverKey", c.n)>>
IssueServer(s, host, k) == SaveServer([by |-> s.ca, n |-> k, host |-> host])

(* client_identity: the pair on file, which must be one, or another minted. *)
ClientIdentity(s, k) ==
  IF HasClient(s) THEN IF s.clientCert = s.clientKey THEN Nothing ELSE Raises
  ELSE IF s.ca = s.caKey THEN Writes(SaveClient([by |-> s.ca, n |-> k])) ELSE Raises

(* _refuse_a_different_ca, then the write. *)
Bring(s, a, write) == IF s.ca \in {None, a} THEN Writes(write) ELSE Raises

-----------------------------------------------------------------------------
(* _ensure_trust_anchor: the modes in which nothing is signed here. *)
EnsureTrustAnchor(s, v, mode) ==
  IF v.key \/ (mode = "supplied" /\ HasCa(s)) THEN Raises
  ELSE LET given == IF v.ca # None THEN v.ca ELSE IF v.answer = "file" THEN v.typed ELSE None
           anchor == IF v.ca = None /\ s.ca # None THEN Nothing
                     ELSE IF given \in Foreign THEN Bring(s, given, SaveCaCertOnly(given))
                     ELSE Raises
           Needs(t) == IF mode = "supplied" /\ v.client = None /\ ~HasClient(t) THEN Raises
                       ELSE Nothing
       IN  Then(s, anchor, Needs)

ResolveTrustOnly_Quietly(s, v, host, k) == Writes(SaveCa(k)) \* mutant: replaced unasked

(* The authority on file gives way to another, with every identity it signed. *)
ReplaceAuthority(s, host, k) ==
  LET Mints(t) == ClientIdentity(t, k)
      Forgets(t) == Writes(ForgetIssued)
      Serves(t) == IF s.server = None \/ s.server.by = s.ca
                   THEN Writes(IssueServer(t, host, k)) ELSE Nothing
      Forged == Writes(SaveCa(k) \o ForgetClient)
      Minted == Then(s, Forged, Mints)
      Forgot == Then(s, Minted, Forgets)
  IN  Then(s, Forgot, Serves)

(* _resolve_trust_only: a certificate without its key gets the key, or gives way once a     *)
(* person has said yes.                                                                     *)
ResolveTrustOnly(s, v, host, k) ==
  LET Mints(t) == ClientIdentity(t, k) IN
  IF v.answer = "generate" THEN ReplaceAuthority(s, host, k)
  ELSE IF v.answer = "file" /\ v.typed \in {None, s.ca} THEN Then(s, Writes(SaveCa(s.ca)), Mints)
  ELSE Raises

MintUnlessBrought(s, v, k) == IF v.client = None THEN ClientIdentity(s, k) ELSE Nothing

(* An authority and its key named by flags, or the first one, brought or generated. *)
BringAuthority(s, v, k) ==
  LET Mints(t) == MintUnlessBrought(t, v, k) IN
  IF v.ca = None THEN Raises ELSE Then(s, Bring(s, v.ca, SaveCa(v.ca)), Mints)

FirstAuthority(s, v, host, k) ==
  LET Identity(t) == ClientIdentity(t, k)
      Serves(t) == Writes(IssueServer(t, host, k))
      Mints(t) == MintUnlessBrought(t, v, k)
  IN  IF v.answer = "file" /\ v.typed # None THEN Then(s, Writes(SaveCa(v.typed)), Identity)
      ELSE IF v.answer # "generate" THEN Raises
      ELSE LET Served == Then(s, Writes(SaveCa(k)), Serves) IN Then(s, Served, Mints)

(* _ensure_pki: make sure this machine can produce the identities its mode calls for. *)
EnsurePki(s, v, mode, host, k) ==
  CASE mode # "mutual" -> EnsureTrustAnchor(s, v, mode)
    [] mode = "mutual" /\ v.key -> BringAuthority(s, v, k)
    [] mode = "mutual" /\ ~v.key /\ v.ca # None -> Raises
    [] mode = "mutual" /\ ~v.key /\ v.ca = None /\ HasCa(s) -> Nothing
    [] mode = "mutual" /\ ~v.key /\ v.ca = None /\ s.ca # None /\ ~HasCa(s) ->
         ResolveTrustOnly(s, v, host, k)
    [] mode = "mutual" /\ ~v.key /\ v.ca = None /\ s.ca = None -> FirstAuthority(s, v, host, k)

(* The identity brought is checked against the authority before it is filed. *)
FileClient(s, v) ==
  IF v.client = None THEN Nothing
  ELSE IF v.client = s.ca THEN Writes(SaveClient([by |-> v.client, n |-> 0])) ELSE Raises

RefreshServer_Always(s, host, k) == Writes(IssueServer(s, host, k)) \* mutant: issued at every run

(* _refresh_server_cert: only what the stored authority signed is ever overwritten. *)
RefreshServer(s, host, k) ==
  LET stale == s.server # None /\ s.server.by = s.ca /\ s.server.host # host IN
  IF s.server = None \/ stale
  THEN IF s.ca = s.caKey THEN Writes(IssueServer(s, host, k)) ELSE Raises
  ELSE Nothing

(* _cmd_setup, with the writes of all its stages; SETUP ends with the broker's file. *)
SetupOf(s, v, k) ==
  LET mode == IF v.auth # None THEN v.auth ELSE Mode(s)
      host == IF v.host # None THEN v.host ELSE s.broker.host
      Client(t) == FileClient(t, v)
      Server(t) == IF mode = "mutual" THEN RefreshServer(t, host, k) ELSE Nothing
      Broker(t) == Writes(<<Put("broker", [host |-> host, auth |-> mode])>>)
      AssertUsable(t) == IF (mode = "mutual" /\ ~HasCa(t)) \/ t.ca = None THEN Raises ELSE Nothing
      Trusted == EnsurePki(s, v, mode, host, k)
      Filed == Then(s, Trusted, Client)
      Served == Then(s, Filed, Server)
      Saved == Then(s, Served, Broker)
  IN  IF v.host = None /\ s.broker = None THEN Raises ELSE Then(s, Saved, AssertUsable)

(* Whether the broker's files are recommended at the end: _refresh_server_cert looks at the  *)
(* certificate, _report_foreign_server_cert at the key as well.                              *)
Recommends(s) ==
  /\ s.server # None /\ s.server.by = s.ca /\ s.server.host = s.broker.host
  /\ s.broker.auth # "mutual" => s.serverKey = s.server.n

(* Whether a broker that asks for what its mode says takes what settings presents: without an *)
(* identity, `mutual' presents nothing and `supplied' raises.                                  *)
Connects(s) == s.broker.auth = "anonymous" \/ (HasClient(s) /\ s.clientCert = s.clientKey)

-----------------------------------------------------------------------------
(* The runs of setup, one at a time. *)

StartSetup(v) ==
  /\ running = None /\ runs < MaxRuns /\ runs' = runs + 1
  /\ LET plan == SetupOf(store, v, runs + 1) IN
     /\ running' = [invocation |-> v, ok |-> plan.ok, found |-> store.ca,
                    broker |-> After(store, plan.writes).broker]
     /\ left' = plan.writes
  /\ UNCHANGED <<store, done, visit, saved, installed, released, cut, bare>>

(* The authority the run found is gone, and what it signed may not be yet. *)
Replacing == running # None /\ running.found \notin {None, store.ca}

WriteNext ==
  /\ running # None /\ left # <<>> /\ left' = Tail(left)
  /\ LET w == Head(left)
         retires == /\ w.file = "ca" /\ store.ca \notin {None, w.value}
                    /\ running.invocation.answer = "generate"
         reached == {r \in Robots : installed[r] # None \/ (visit # None /\ visit.robot = r)}
     IN  /\ store' = Apply(store, w)
         /\ released' = IF retires THEN reached ELSE released
         /\ cut' = (cut \/ (retires /\ visit # None))
  /\ UNCHANGED <<running, done, visit, saved, installed, runs, bare>>

(* The authority may sign, and this machine has what it presents. *)
Armed(s) == HasCa(s) => HasClient(s)

EndSetup ==
  /\ running # None /\ left = <<>>
  /\ done' = IF running.ok
             THEN [invocation |-> running.invocation, broker |-> running.broker,
                   advertised |-> Recommends(store)]
             ELSE None
  /\ running' = None /\ bare' = ((running.ok => bare) /\ ~Armed(store))
  /\ UNCHANGED <<store, left, visit, saved, installed, runs, released, cut>>

Halved == \/ store.clientCert # store.clientKey
          \/ store.server # None /\ store.serverKey # store.server.n

KillSetup ==
  /\ running # None /\ left # <<>>
  /\ running' = None /\ left' = <<>> /\ done' = None /\ cut' = (cut \/ Replacing \/ Halved)
  /\ bare' = ~Armed(store)
  /\ UNCHANGED <<store, visit, saved, installed, runs, released>>

(* A person moves the signing key away, as `--auth supplied' asks, or installs a certificate *)
(* of their own for the broker.                                                              *)
MoveKeyAway ==
  /\ running = None /\ HasCa(store)
  /\ store' = [store EXCEPT !.caKey = None] /\ done' = None
  /\ UNCHANGED <<running, left, visit, saved, installed, runs, released, cut, bare>>

InstallServer == \E a \in Foreign, h \in Hosts :
  /\ running = None
  /\ store.server = None
  /\ store' = [store EXCEPT !.server = [by |-> a, n |-> 0, host |-> h], !.serverKey = 0]
  /\ done' = None
  /\ UNCHANGED <<running, left, visit, saved, installed, runs, released, cut, bare>>

-----------------------------------------------------------------------------
(* _robot_identity: what a robot may be given, by mode; what is on file before anything new. *)
Given(s, r, brought, reissue, k) ==
  LET held == s.idents[r] IN
  CASE s.broker.auth = "anonymous" -> IF brought = None THEN {None} ELSE {}
    [] s.broker.auth # "anonymous" /\ brought # None ->
         IF brought = s.ca THEN {[by |-> brought, n |-> 0]} ELSE {}
    [] s.broker.auth = "supplied" /\ brought = None ->
         IF held # None /\ ~reissue /\ held.by = s.ca THEN {held} ELSE {}
    [] s.broker.auth = "mutual" /\ brought = None ->
         IF held # None /\ ~reissue THEN {held}
         ELSE IF s.ca = s.caKey THEN {[by |-> s.ca, n |-> k]} ELSE {}

StartVisit == \E r \in Robots, brought \in Foreign \cup {None}, reissue \in BOOLEAN :
  /\ visit = None /\ runs < MaxRuns /\ runs' = runs + 1
  /\ store.broker # None /\ store.ca # None
  /\ Mode(store) = "mutual" => HasCa(store)
  /\ \E i \in Given(store, r, brought, reissue, runs + 1) :
       visit' = [robot |-> r, trust |-> store.ca, presents |-> i, broker |-> store.broker]
  /\ cut' = (cut \/ Replacing)
  /\ UNCHANGED <<store, running, left, done, saved, installed, released, bare>>

(* The robot has confirmed what it was sent; the broker as it was read then is made the store's *)
(* again, whatever setup has said since, and the identity is filed.                             *)
Accept ==
  /\ visit # None /\ installed[visit.robot] # visit
  /\ installed' = [installed EXCEPT ![visit.robot] = visit]
  /\ released' = IF visit.trust = store.ca THEN released \ {visit.robot} ELSE released
  /\ UNCHANGED <<store, running, left, done, visit, saved, runs, cut, bare>>

SaveBroker ==
  /\ visit # None /\ ~saved /\ installed[visit.robot] = visit
  /\ store' = [store EXCEPT !.broker = visit.broker] /\ saved' = TRUE
  /\ UNCHANGED <<running, left, done, visit, installed, runs, released, cut, bare>>

SaveIdentity ==
  /\ visit # None /\ saved
  /\ store' = [store EXCEPT !.idents[visit.robot] = IF visit.presents = None THEN @
                                                   ELSE visit.presents]
  /\ visit' = None /\ saved' = FALSE
  /\ UNCHANGED <<running, left, done, installed, runs, released, cut, bare>>

(* The robot refuses, somebody declines, or the process dies. *)
AbandonVisit ==
  /\ visit # None /\ visit' = None /\ saved' = FALSE
  /\ UNCHANGED <<store, running, left, done, installed, runs, released, cut, bare>>

Next == \/ \E v \in Offered : StartSetup(v)
        \/ WriteNext \/ EndSetup \/ KillSetup \/ MoveKeyAway \/ InstallServer
        \/ StartVisit \/ Accept \/ SaveBroker \/ SaveIdentity \/ AbandonVisit

Spec == Init /\ [][Next]_vars

-----------------------------------------------------------------------------
Chains(i) == i # None => i.by = store.ca
(* A setup has reported success, and no provision has made its own broker the store's again. *)
AtRest == running = None /\ done # None /\ done.broker = store.broker

(***************************************************************************)
(* save_ca, save_ca_cert_only: between any two writes a run may die, and   *)
(* the signing key on file is still that of the certificate on file; a     *)
(* pair that does not match would be refused at every later run.           *)
(***************************************************************************)
KeyBelongsToAuthority == store.caKey \in {None, store.ca}

(***************************************************************************)
(* _refuse_a_different_ca: whatever is run, refused or killed, the store   *)
(* keeps the authority a provisioned robot trusts, unless a person has     *)
(* said yes to replacing it since.                                         *)
(***************************************************************************)
NoRobotIsStranded ==
  \A r \in Robots \ released : installed[r] # None => installed[r].trust = store.ca

(***************************************************************************)
(* Behind a setup that reports success everything on file was signed by    *)
(* the authority on file, whatever was refused or killed before; a         *)
(* replacement that was itself cut short or came into the middle of a      *)
(* provision is the exception, and a kill between the two files of this    *)
(* machine's identity or of the broker's.  The machine has the identity    *)
(* its mode presents, unless the mode is `mutual' and an earlier run ended *)
(* badly between the authority and the identity: a later one returns at    *)
(* the authority, and mints none (cli.py _ensure_pki).  What setup tells a *)
(* person to install on the broker serves it.                              *)
(***************************************************************************)
StoredIdentitiesChain ==
  AtRest /\ ~cut => /\ Chains(store.clientCert) /\ \A r \in Robots : Chains(store.idents[r])
                    /\ Connects(store) \/ (bare /\ store.broker.auth = "mutual")
                    /\ done.advertised => store.serverKey = store.server.n

(***************************************************************************)
(* "Everything here is idempotent" (_ensure_pki): a setup that succeeded   *)
(* and is run again with the same flags changes no file, unless a          *)
(* provision put back the broker it had read before that setup.            *)
(***************************************************************************)
SetupIsIdempotent ==
  AtRest => \A nobody \in BOOLEAN :
    LET answer == IF nobody THEN "nobody" ELSE done.invocation.answer
        again == SetupOf(store, [done.invocation EXCEPT !.answer = answer], runs + 1) IN
    again.ok /\ After(store, again.writes) = store
=============================================================================
