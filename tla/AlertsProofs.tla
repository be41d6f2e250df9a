---------------------------- MODULE AlertsProofs ----------------------------
(***************************************************************************)
(* The alerts keep their types, implement Episodes and keep their holds    *)
(* and paces, for every catalogue of faults and gauges, every hold, pace   *)
(* and set of phones.                                                      *)
(***************************************************************************)
EXTENDS Alerts, TLAPS

(* What an evaluation leaves behind, from the publisher's memory m. *)
LEMMA EvaluateTypes ==
  ASSUME NEW m \in Memory, options \in Options, NEW d, NEW on, NEW t \in Time,
         Evaluate(m, d, on, t)
  PROVE  memory' \in Memory /\ options' \in Options /\ fired' \in Fired
<1> DEFINE raw     == [a \in Alerts |-> Truth(a, d, on, m.active)]
           begun   == Begun(raw, m.active, m.since, t)
           raised  == Raised(raw, m.active, begun, t)
           cleared == Cleared(raw, m.active)
           active  == (m.active \ cleared) \cup raised
           tracked == Track(m.clocks, active, t)
           due     == {a \in Alerts : Due(a, tracked[a], raw[a], t)}
           clocks  == [a \in Alerts |-> IF a \in due THEN [tracked[a] EXCEPT !.reminded = t]
                                        ELSE tracked[a]]
<1>1. /\ memory' = [active |-> active, since |-> begun, clocks |-> clocks]
      /\ \/ options' = [active |-> active, clocks |-> clocks]
         \/ options' = options
      /\ fired' = [raised |-> raised, cleared |-> cleared, reminded |-> due,
                   silenced |-> [a \in Alerts |-> IF a \in due THEN clocks[a].silenced ELSE {}]]
  BY DEF Evaluate
<1>2. /\ m.active \in SUBSET Alerts /\ m.since \in [Alerts -> Moment]
      /\ m.clocks \in [Alerts -> Clock]
  BY DEF Memory
<1>3. begun \in [Alerts -> Moment] /\ raised \in SUBSET Alerts /\ cleared \in SUBSET Alerts
  BY <1>2 DEF Begun, Raised, Cleared, Moment
<1> HIDE DEF raw, begun, raised, cleared
<1>4. active \in SUBSET Alerts /\ due \in SUBSET Alerts
  BY <1>2, <1>3
<1> HIDE DEF active
<1>5. tracked \in [Alerts -> Clock]
  BY <1>2 DEF Track, Clock, NoClock, Moment
<1> HIDE DEF tracked, due
<1>6. clocks \in [Alerts -> Clock]
  BY <1>5 DEF Clock, Moment
<1>7. [a \in Alerts |-> IF a \in due THEN clocks[a].silenced ELSE {}] \in [Alerts -> SUBSET Phones]
  BY <1>6 DEF Clock
<1> HIDE DEF clocks
<1>8. fired' \in Fired
  BY <1>1, <1>3, <1>4, <1>7 DEF Fired
<1>9. memory' \in Memory /\ options' \in Options
  BY <1>1, <1>3, <1>4, <1>6 DEF Memory, Options
<1> QED BY <1>8, <1>9

(* An evaluation raises what is not active, clears and reminds of what is,  *)
(* and stores what it remembers.                                           *)
LEMMA EvaluateTells ==
  ASSUME NEW m \in Memory, options \in Options, NEW d, NEW on, NEW t \in Time,
         m.active = options.active,
         \A a \in Alerts \ m.active : m.clocks[a].since = Never,
         Evaluate(m, d, on, t)
  PROVE  /\ fired'.raised \cap m.active = {}
         /\ fired'.cleared \subseteq m.active
         /\ fired'.reminded \subseteq m.active \ fired'.cleared
         /\ memory'.active = (m.active \ fired'.cleared) \cup fired'.raised
         /\ options'.active = memory'.active /\ options'.clocks = memory'.clocks
         /\ \A a \in Alerts \ memory'.active : memory'.clocks[a].since = Never
<1> DEFINE raw     == [a \in Alerts |-> Truth(a, d, on, m.active)]
           begun   == Begun(raw, m.active, m.since, t)
           raised  == Raised(raw, m.active, begun, t)
           cleared == Cleared(raw, m.active)
           active  == (m.active \ cleared) \cup raised
           tracked == Track(m.clocks, active, t)
           due     == {a \in Alerts : Due(a, tracked[a], raw[a], t)}
           clocks  == [a \in Alerts |-> IF a \in due THEN [tracked[a] EXCEPT !.reminded = t]
                                        ELSE tracked[a]]
<1>1. /\ memory' = [active |-> active, since |-> begun, clocks |-> clocks]
      /\ options' = IF raised \cup cleared # {} \/ clocks # options.clocks
                    THEN [active |-> active, clocks |-> clocks] ELSE options
      /\ fired' = [raised |-> raised, cleared |-> cleared, reminded |-> due,
                   silenced |-> [a \in Alerts |-> IF a \in due THEN clocks[a].silenced ELSE {}]]
  BY DEF Evaluate
<1>2. /\ m.active \in SUBSET Alerts /\ m.clocks \in [Alerts -> Clock]
  BY DEF Memory
<1>3. raised \subseteq Alerts \ m.active /\ cleared \subseteq m.active
  BY DEF Raised, Cleared
<1>4. \A a \in cleared : raw[a] = "no"
  BY DEF Cleared
<1> HIDE DEF raw, begun, raised, cleared
<1>5. \A a \in Alerts : /\ a \notin active => tracked[a].since = Never
                        /\ a \in raised => tracked[a].since = t /\ tracked[a].reminded = Never
  BY <1>2, <1>3 DEF Track, NoClock
<1>6. \A a \in raised : ~Due(a, tracked[a], raw[a], t)
  <2> SUFFICES ASSUME NEW a \in raised, Due(a, tracked[a], raw[a], t) PROVE FALSE
    OBVIOUS
  <2>1. tracked[a].since = t /\ tracked[a].reminded = Never
    BY <1>3, <1>5
  <2>2. t \in Int /\ Interval \in Nat /\ t - t = 0
    BY AlertsAssumption DEF Time
  <2>3. CASE a \in Urgent
    BY <2>1, <2>2, <2>3 DEF Due
  <2>4. CASE a \notin Urgent
    <3>1. PICK slot \in Slots(t) : slot <= t /\ slot > t
      BY <2>1, <2>4 DEF Due, LastSlot
    <3>2. slot \in Int
      BY <2>2, AlertsAssumption DEF Slots
    <3> QED BY <2>2, <3>1, <3>2
  <2> QED BY <2>3, <2>4
<1>7. \A a \in Alerts : a \in due => tracked[a].since # Never /\ raw[a] = "yes"
  BY DEF Due
<1>8. due \subseteq m.active \ cleared
  BY <1>4, <1>5, <1>6, <1>7
<1>9. \A a \in Alerts \ active : clocks[a].since = Never
  BY <1>5, <1>7
<1> HIDE DEF tracked, due, clocks
<1>10. options'.active = active /\ options'.clocks = clocks
  <2>1. CASE raised \cup cleared # {} \/ clocks # options.clocks
    BY <1>1, <2>1
  <2>2. CASE raised \cup cleared = {} /\ clocks = options.clocks
    BY <1>1, <2>2
  <2> QED BY <2>1, <2>2
<1> QED BY <1>1, <1>3, <1>8, <1>9, <1>10

-----------------------------------------------------------------------------
(* Types. *)

(* The parts of the type invariant that a step computes from the others. *)
HistoryOK == /\ told \in SUBSET Alerts
             /\ noticed \in [Alerts -> [raised : Moment, last : Moment]]
             /\ lowest \in [Gauges -> Nat \cup {Never}]
             /\ asked \in [Alerts -> SUBSET Phones]

(* A publisher that is built remembers well-typed clocks. *)
LEMMA RestoredType ==
  ASSUME options \in Options, NEW t \in Time
  PROVE  Restored(t) \in Memory
<1>1. options.active \in SUBSET Alerts /\ options.clocks \in [Alerts -> Clock]
  BY DEF Options
<1>2. NoClock \in Clock /\ NoSince \in [Alerts -> Moment]
  BY DEF NoClock, Clock, NoSince, Moment
<1>3. \A a \in Alerts : RestoredClock(a, t) \in Clock
  BY <1>1, <1>2 DEF RestoredClock, Clock, Moment
<1> QED BY <1>1, <1>2, <1>3 DEF Restored, Memory

(* Nothing fired and nothing remembered are well typed. *)
LEMMA BlankTypes == Quiet \in Fired /\ Blank \in Memory /\ NoClocks \in [Alerts -> Clock]
BY DEF Quiet, Fired, Blank, Memory, NoSince, NoClocks, NoClock, Clock, Moment

(* What the listeners take a step to say keeps the history's types. *)
LEMMA ListenedTypes ==
  ASSUME HistoryOK, fired' \in Fired, now' \in Time, doc' \in Doc, Listened
  PROVE  HistoryOK'
<1>1. fired'.raised \in SUBSET Alerts /\ fired'.cleared \in SUBSET Alerts
  BY DEF Fired
<1>2. \A a \in Gauges : doc'.level[a] \in Nat \cup {Never}
  BY AlertsAssumption DEF Doc
<1>3. told' \in SUBSET Alerts
  BY <1>1 DEF Listened, HistoryOK
<1>4. noticed' \in [Alerts -> [raised : Moment, last : Moment]]
  BY DEF Listened, HistoryOK, Moment
<1>5. lowest' \in [Gauges -> Nat \cup {Never}]
  BY <1>2 DEF Listened, HistoryOK
<1>6. asked' \in [Alerts -> SUBSET Phones]
  BY DEF Listened, HistoryOK
<1> QED BY <1>3, <1>4, <1>5, <1>6 DEF HistoryOK

(* What a document shows keeps the types. *)
LEMMA ShownTypes ==
  ASSUME TypeOK, NEW d \in Doc, Shown(d)
  PROVE  heard' \in [any : Time, shown : [Faults -> Moment]]
<1>1. now \in Moment /\ Never \in Moment /\ heard.shown \in [Faults -> Moment] /\ now \in Time
  BY DEF TypeOK, Moment
<1>2. [a \in Faults |-> CASE d.fault[a] = "no" -> Never
                          [] d.fault[a] = "yes" /\ heard.shown[a] = Never -> now
                          [] OTHER -> heard.shown[a]] \in [Faults -> Moment]
  BY <1>1
<1> QED BY <1>1, <1>2 DEF Shown

(* Every step keeps the types. *)
LEMMA TypeNext ==
  ASSUME TypeOK, [Next]_vars
  PROVE  TypeOK'
<1> USE DEF Time
<1>1. /\ now \in Time /\ options \in Options /\ memory \in Memory /\ doc \in Doc /\ HistoryOK
      /\ now + 1 \in Time
  BY DEF TypeOK, HistoryOK
<1>2. /\ \A d, on : Evaluate(memory, d, on, now) => memory' \in Memory /\ options' \in Options /\ fired' \in Fired
      /\ \A d, on : Evaluate(memory, d, on, now + 1) => memory' \in Memory /\ options' \in Options /\ fired' \in Fired
      /\ \A d, on : Evaluate(Restored(now), d, on, now) => memory' \in Memory /\ options' \in Options /\ fired' \in Fired
  BY <1>1, EvaluateTypes, RestoredType
<1>3. \A d, on : /\ IfRunning(d, on, now) => memory' \in Memory /\ options' \in Options /\ fired' \in Fired /\ Listened
                 /\ IfRunning(d, on, now + 1) => memory' \in Memory /\ options' \in Options /\ fired' \in Fired /\ Listened
  BY <1>1, <1>2, BlankTypes DEF IfRunning
<1>4. ASSUME fired' \in Fired, now' \in Time, doc' \in Doc, Listened,
             started' \in BOOLEAN, online' \in BOOLEAN, failing' \in Moment,
             entry' \in {"off", "setup", "waiting", "running"},
             options' \in Options, memory' \in Memory,
             heard' \in [any : Time, shown : [Faults -> Moment]]
      PROVE  TypeOK'
  BY <1>1, <1>4, ListenedTypes DEF TypeOK, HistoryOK
<1>5. ASSUME NEW d \in Doc, Hear(d) PROVE TypeOK'
  BY <1>1, <1>3, <1>4, <1>5, ShownTypes DEF Hear, TypeOK
<1>6. ASSUME NEW d \in Doc, SetupRefreshed(d) PROVE TypeOK'
  BY <1>1, <1>4, <1>6, ShownTypes, BlankTypes DEF SetupRefreshed, TypeOK, Moment
<1>7. CASE HeartbeatFails \/ Tick
  BY <1>1, <1>3, <1>4, <1>7 DEF HeartbeatFails, Tick, NotShown, TypeOK
<1>8. CASE SetupFails
  <2>1. fired' \in Fired /\ options' \in Options
    BY <1>1, <1>8, BlankTypes DEF SetupFails, Fired, Options, Alerts, Quiet
  <2> QED BY <1>1, <1>4, <1>8, <2>1 DEF SetupFails, NotShown, TypeOK, Moment
<1>9. CASE StartPublisher
  <2>1. memory' \in Memory /\ options' \in Options /\ fired' \in Fired
    BY <1>1, <1>2, <1>9, RestoredType, BlankTypes DEF StartPublisher
  <2> QED BY <1>1, <1>4, <1>9, <2>1 DEF StartPublisher, NotShown, TypeOK
<1>10. CASE Started
  <2>1. memory' \in Memory /\ options' \in Options /\ fired' \in Fired
    BY <1>1, <1>2, <1>10, BlankTypes DEF Started
  <2> QED BY <1>1, <1>4, <1>10, <2>1 DEF Started, NotShown, TypeOK
<1>11. CASE Unload \/ Restart
  BY <1>1, <1>4, <1>11, BlankTypes DEF Unload, Restart, NotShown, TypeOK, Moment
<1>12. ASSUME NEW a \in Alerts, NEW phone \in Phones, Silence(a, phone) PROVE TypeOK'
  <2>1. /\ memory.active \in SUBSET Alerts /\ memory.since \in [Alerts -> Moment]
        /\ memory.clocks \in [Alerts -> Clock] /\ options.active \in SUBSET Alerts
    BY <1>1 DEF Memory, Options
  <2>2. [memory.clocks EXCEPT ![a].silenced = @ \cup {phone}] \in [Alerts -> Clock]
    BY <2>1 DEF Clock
  <2>3. /\ [memory EXCEPT !.clocks = [memory.clocks EXCEPT ![a].silenced = @ \cup {phone}]] \in Memory
        /\ [options EXCEPT !.clocks = [memory.clocks EXCEPT ![a].silenced = @ \cup {phone}]] \in Options
    BY <1>1, <2>1, <2>2 DEF Memory, Options
  <2>4. memory' \in Memory /\ options' \in Options
    BY <1>1, <1>12, <2>3 DEF Silence
  <2>5. asked' \in [Alerts -> SUBSET Phones]
    <3>1. asked \in [Alerts -> SUBSET Phones]
      BY <1>1 DEF HistoryOK
    <3>2. CASE entry = "running"
      <4>1. asked' = [asked EXCEPT ![a] = @ \cup {phone}]
        BY <1>12, <3>2 DEF Silence
      <4> QED BY <3>1, <4>1
    <3>3. CASE entry # "running"
      <4>1. asked' = asked
        BY <1>12, <3>3 DEF Silence
      <4> QED BY <3>1, <4>1
    <3> QED BY <3>2, <3>3
  <2> QED BY <1>12, <2>4, <2>5, BlankTypes DEF Silence, TypeOK
<1>13. CASE UNCHANGED vars
  BY <1>13 DEF vars, TypeOK
<1> QED BY <1>5, <1>6, <1>7, <1>8, <1>9, <1>10, <1>11, <1>12, <1>13 DEF Next

(* Every variable keeps its type: an alert's clocks are moments, a phone is *)
(* a phone, and the entry is at one of the stages of its setup.            *)
THEOREM TypeCorrect == Spec => []TypeOK
<1>1. Init => TypeOK
  <2> SUFFICES ASSUME Init PROVE TypeOK
    OBVIOUS
  <2>1. now \in Time /\ doc \in Doc
    BY AlertsAssumption DEF Init, Doc, Truths, Time
  <2>2. options \in Options /\ memory \in Memory /\ fired \in Fired
    BY BlankTypes DEF Init, Options
  <2>3. HistoryOK
    BY DEF Init, HistoryOK, Moment
  <2> QED BY <2>1, <2>2, <2>3 DEF Init, TypeOK, HistoryOK, Moment, Time
<1> QED BY <1>1, TypeNext, PTL DEF Spec

-----------------------------------------------------------------------------
(* Episodes. *)

(***************************************************************************)
(* The inductive invariant: what is stored is what was told, a publisher   *)
(* remembers what is stored, and it keeps a clock for active alerts only,  *)
(* so an alert raised in an evaluation is not reminded of in the same one. *)
(***************************************************************************)
ClocksOfActive ==
  entry \in {"waiting", "running"} =>
    \A a \in Alerts \ memory.active : memory.clocks[a].since = Never

Kept == StoredIsAnnounced /\ ClocksOfActive

Notices == [raised |-> fired.raised, cleared |-> fired.cleared, reminded |-> fired.reminded]

(* The abstract step: what a step fires fits what its listeners were told. *)
Fits == /\ fired'.raised \cap told = {}
        /\ fired'.cleared \subseteq told
        /\ fired'.reminded \subseteq told \ fired'.cleared

(* An evaluation by a publisher that remembers what was told fits it, and   *)
(* leaves what is told, stored and remembered the same.                    *)
LEMMA EvaluateKeeps ==
  ASSUME NEW m \in Memory, options \in Options, NEW d, NEW on, NEW t \in Time,
         m.active = options.active, options.active = told,
         \A a \in Alerts \ m.active : m.clocks[a].since = Never,
         Evaluate(m, d, on, t), Listened
  PROVE  Fits /\ Kept'
<1>1. /\ fired'.raised \cap m.active = {}
      /\ fired'.cleared \subseteq m.active
      /\ fired'.reminded \subseteq m.active \ fired'.cleared
      /\ memory'.active = (m.active \ fired'.cleared) \cup fired'.raised
      /\ options'.active = memory'.active /\ options'.clocks = memory'.clocks
      /\ \A a \in Alerts \ memory'.active : memory'.clocks[a].since = Never
  BY EvaluateTells
<1>2. told' = (told \ fired'.cleared) \cup fired'.raised
  BY DEF Listened
<1> QED BY <1>1, <1>2 DEF Fits, Kept, StoredIsAnnounced, ClocksOfActive

(* Every step fits what was told and keeps the invariant. *)
LEMMA KeptNext ==
  ASSUME TypeOK, Kept, Next
  PROVE  Kept' /\ ((Fits /\ told' = (told \ fired'.cleared) \cup fired'.raised) \/ UNCHANGED <<told, fired>>)
<1> USE DEF Time
<1>1. /\ now \in Time /\ now + 1 \in Time /\ memory \in Memory /\ options \in Options
      /\ options.active = told
  BY DEF TypeOK, Kept, StoredIsAnnounced
<1>2. ASSUME fired' = Quiet, told' = (told \ fired'.cleared) \cup fired'.raised
      PROVE  Fits /\ UNCHANGED told
  BY <1>2 DEF Fits, Quiet
<1>3. ASSUME entry = "running", NEW d, NEW on, NEW t \in Time, Evaluate(memory, d, on, t), Listened
      PROVE  Fits /\ Kept'
  BY <1>1, <1>3, EvaluateKeeps DEF Kept, StoredIsAnnounced, ClocksOfActive
<1>4. Listened => told' = (told \ fired'.cleared) \cup fired'.raised
  BY DEF Listened
<1>5. ASSUME NEW d, NEW on, NEW t \in Time, IfRunning(d, on, t), UNCHANGED entry
      PROVE  Fits /\ Kept' /\ Listened
  <2>1. CASE entry = "running"
    BY <1>3, <1>5, <2>1 DEF IfRunning
  <2>2. CASE entry # "running"
    BY <1>2, <1>4, <1>5, <2>2 DEF IfRunning, Kept, StoredIsAnnounced, ClocksOfActive
  <2> QED BY <2>1, <2>2, <1>5 DEF IfRunning
<1>6. ASSUME NEW d \in Doc, Hear(d) \/ SetupRefreshed(d)
      PROVE  Fits /\ Kept' /\ Listened
  <2>1. CASE Hear(d)
    BY <1>1, <1>5, <2>1 DEF Hear
  <2>2. CASE SetupRefreshed(d)
    BY <1>2, <1>4, <2>2 DEF SetupRefreshed, Kept, StoredIsAnnounced, ClocksOfActive
  <2> QED BY <1>6, <2>1, <2>2
<1>7. CASE HeartbeatFails \/ Tick
  BY <1>1, <1>4, <1>5, <1>7 DEF HeartbeatFails, Tick
<1>8. CASE SetupFails
  <2>1. CASE fired' = Quiet /\ UNCHANGED options
    BY <1>2, <1>4, <1>8, <2>1 DEF SetupFails, Kept, StoredIsAnnounced, ClocksOfActive
  <2>2. CASE /\ Offline \notin options.active
             /\ options' = [options EXCEPT !.active = @ \cup {Offline}]
             /\ fired' = [Quiet EXCEPT !.raised = {Offline}]
    <3>1. options'.active = told \cup {Offline}
      BY <1>1, <2>2 DEF Options
    <3>2. fired'.raised = {Offline} /\ fired'.cleared = {} /\ fired'.reminded = {}
      BY <2>2 DEF Quiet
    <3> QED BY <1>1, <1>4, <1>8, <2>2, <3>1, <3>2
        DEF SetupFails, Fits, Kept, StoredIsAnnounced, ClocksOfActive
  <2> QED BY <1>8, <2>1, <2>2 DEF SetupFails
<1>9. /\ Restored(now) \in Memory /\ Restored(now).active = options.active
      /\ \A a \in Alerts \ Restored(now).active : Restored(now).clocks[a].since = Never
  BY <1>1, RestoredType DEF Restored, RestoredClock, NoClock
<1>10. CASE StartPublisher
  <2>1. CASE Evaluate(Restored(now), doc, online, now)
    BY <1>1, <1>4, <1>9, <1>10, <2>1, EvaluateKeeps DEF StartPublisher
  <2>2. CASE entry' = "waiting" /\ memory' = Restored(now) /\ fired' = Quiet /\ UNCHANGED options
    BY <1>1, <1>2, <1>4, <1>9, <1>10, <2>2
    DEF StartPublisher, Kept, StoredIsAnnounced, ClocksOfActive
  <2> QED BY <1>4, <1>10, <2>1, <2>2 DEF StartPublisher
<1>11. CASE Started
  <2>1. CASE entry = "waiting" /\ Evaluate(memory, doc, online, now)
    BY <1>1, <1>4, <1>11, <2>1, EvaluateKeeps DEF Started, Kept, StoredIsAnnounced, ClocksOfActive
  <2>2. CASE fired' = Quiet /\ UNCHANGED <<entry, options, memory>>
    BY <1>2, <1>4, <1>11, <2>2 DEF Started, Kept, StoredIsAnnounced, ClocksOfActive
  <2> QED BY <1>11, <2>1, <2>2 DEF Started
<1>12. CASE Unload \/ Restart
  BY <1>2, <1>4, <1>12 DEF Unload, Restart, Kept, StoredIsAnnounced, ClocksOfActive
<1>13. ASSUME NEW a \in Alerts, NEW phone \in Phones, Silence(a, phone)
       PROVE  Kept' /\ Fits /\ told' = (told \ fired'.cleared) \cup fired'.raised
  <2>1. fired' = Quiet /\ UNCHANGED <<told, entry>>
    BY <1>13 DEF Silence
  <2>2. CASE UNCHANGED <<memory, options>>
    BY <2>1, <2>2 DEF Kept, StoredIsAnnounced, ClocksOfActive, Fits, Quiet
  <2>3. CASE /\ entry = "running" /\ memory.clocks[a].since # Never
             /\ memory' = [memory EXCEPT !.clocks = [memory.clocks EXCEPT ![a].silenced = @ \cup {phone}]]
             /\ options' = [options EXCEPT !.clocks = [memory.clocks EXCEPT ![a].silenced = @ \cup {phone}]]
    <3>1. memory.clocks \in [Alerts -> Clock]
      BY <1>1 DEF Memory
    <3>2. /\ memory'.active = memory.active /\ options'.active = options.active
          /\ memory'.clocks = options'.clocks
          /\ \A b \in Alerts : memory'.clocks[b].since = memory.clocks[b].since
      BY <1>1, <2>3, <3>1 DEF Memory, Options, Clock
    <3> QED BY <2>1, <2>3, <3>2 DEF Kept, StoredIsAnnounced, ClocksOfActive, Fits, Quiet
  <2> QED BY <1>13, <2>2, <2>3 DEF Silence
<1> QED BY <1>4, <1>6, <1>7, <1>8, <1>10, <1>11, <1>12, <1>13
    DEF Next, HeartbeatFails, Tick, SetupFails, StartPublisher, Started, Unload, Restart, IfRunning

(***************************************************************************)
(* What is stored is what listeners were told, and what a publisher        *)
(* remembers is what is stored: over setups, failed setups, reloads and    *)
(* restarts (_save, mark_offline_during_setup).                            *)
(***************************************************************************)
THEOREM StoredAnnounced == Spec => []StoredIsAnnounced
<1>1. Init => Kept
  BY BlankTypes DEF Init, Kept, StoredIsAnnounced, ClocksOfActive, Blank
<1>2. TypeOK /\ Kept /\ [Next]_vars => Kept'
  <2> SUFFICES ASSUME TypeOK, Kept, [Next]_vars PROVE Kept'
    OBVIOUS
  <2>1. CASE Next
    BY <2>1, KeptNext
  <2>2. CASE UNCHANGED vars
    BY <2>2 DEF vars, Kept, StoredIsAnnounced, ClocksOfActive
  <2> QED BY <2>1, <2>2
<1>3. Kept => StoredIsAnnounced
  BY DEF Kept
<1> QED BY <1>1, <1>2, <1>3, TypeCorrect, PTL DEF Spec

(***************************************************************************)
(* The publisher implements Episodes: a condition is raised once, reminded *)
(* of while it lasts and cleared once, whatever comes between.             *)
(***************************************************************************)
THEOREM AlertsTellEpisodes == Spec => TellsEpisodes
<1>1. Init => Told!Init /\ Kept
  BY DEF Init, Told!Init, Told!Nothing, Quiet, Kept, StoredIsAnnounced, ClocksOfActive
<1>2. ASSUME TypeOK, TypeOK', Kept, Next
      PROVE  Kept' /\ [Told!Next]_(Told!vars)
  <2>1. Notices' \in Told!Notices
    BY <1>2 DEF TypeOK, Fired, Notices, Told!Notices
  <2>2. CASE Fits /\ told' = (told \ fired'.cleared) \cup fired'.raised
    <3>1. Told!Announce(Notices')
      BY <2>2 DEF Fits, Notices, Told!Announce
    <3> QED BY <1>2, <2>1, <3>1, KeptNext DEF Told!Next
  <2>3. CASE UNCHANGED <<told, fired>>
    BY <1>2, <2>3, KeptNext DEF Told!vars
  <2> QED BY <1>2, <2>2, <2>3, KeptNext
<1>3. ASSUME TypeOK, TypeOK', Kept, [Next]_vars
      PROVE  Kept' /\ [Told!Next]_(Told!vars)
  <2>1. CASE UNCHANGED vars
    BY <1>3, <2>1 DEF vars, Kept, StoredIsAnnounced, ClocksOfActive, Told!vars
  <2> QED BY <1>2, <1>3, <2>1
<1> QED BY <1>1, <1>3, TypeCorrect, PTL DEF Spec, TellsEpisodes, Told!Spec

-----------------------------------------------------------------------------
(* The history: what was heard and told, and when. *)

(* The invariant behind the properties of the history, in parts.  A running publisher       *)
(* announces to automations that are armed; a setup's failures are all of this start, and   *)
(* time stands still until Home Assistant has started.                                      *)
Armed ==
  /\ entry = "running" => started
  /\ ~started => failing \in {Never, now}

(* Every active alert has a clock from the moment a publisher knows of it, and no other has *)
(* one, in the options or in memory; a clock that does not run has reminded nobody.         *)
ClocksRun ==
  /\ entry \in {"waiting", "running"} => \A a \in memory.active : memory.clocks[a].since # Never
  /\ \A a \in Alerts \ options.active : options.clocks[a].since = Never
  /\ \A a \in Alerts : options.clocks[a].since = Never => options.clocks[a].reminded = Never

(* What was heard and since when: a condition has been true for no longer than its hold     *)
(* clock says, and the clock of the failed setups starts behind the last document.          *)
HeardBefore ==
  /\ heard.any <= now
  /\ \A a \in Faults :
       /\ heard.shown[a] # Never => heard.shown[a] <= now
       /\ doc.fault[a] = "yes" => heard.shown[a] # Never
  /\ failing # Never => entry = "off" /\ heard.any <= failing /\ failing <= now
HoldsRest ==
  /\ entry = "waiting" => \A a \in Alerts : memory.since[a] = Never
  /\ entry = "running" =>
       /\ memory.since[Offline] # Never => heard.any <= memory.since[Offline]
       /\ \A a \in Faults : memory.since[a] # Never =>
            heard.shown[a] # Never /\ heard.shown[a] <= memory.since[a]

(* The clock of an alert is no older than what its listeners were told of it. *)
Last(clock) == IF clock.reminded = Never THEN clock.since ELSE clock.reminded
NoOlder(clock, notice) ==
  clock.since # Never => notice.raised <= clock.since /\ notice.last <= Last(clock)
Noticed == \A a \in told :
  /\ noticed[a].raised # Never /\ noticed[a].last # Never
  /\ noticed[a].raised <= noticed[a].last /\ noticed[a].last <= now
  /\ NoOlder(options.clocks[a], noticed[a])
  /\ entry = "waiting" => NoOlder(memory.clocks[a], noticed[a])

(* A gauge that was told of and is clear has been heard a margin past its threshold. *)
Receded == \A a \in Gauges \ told :
  noticed[a].raised # Never => lowest[a] # Never /\ lowest[a] <= Threshold - Margin

(* Whoever asked for silence is on the clock that the next reminder is read from. *)
Asked == \A a \in Alerts :
  /\ a \notin told => asked[a] = {}
  /\ a \in told => /\ asked[a] \subseteq options.clocks[a].silenced
                   /\ entry = "waiting" => asked[a] \subseteq memory.clocks[a].silenced

-----------------------------------------------------------------------------
(* The steps. *)

(* The clock an evaluation goes on with, before it reminds. *)
Carried(m, a, t) ==
  IF a \notin memory'.active THEN NoClock
  ELSE IF m.clocks[a].since = Never THEN [since |-> t, reminded |-> Never, silenced |-> {}]
  ELSE m.clocks[a]

(* What an evaluation clears. *)
LEMMA EvaluateClears ==
  ASSUME NEW m, NEW d, NEW on, NEW t, Evaluate(m, d, on, t), NEW a \in Alerts
  PROVE  a \in fired'.cleared <=> a \in m.active /\ Truth(a, d, on, m.active) = "no"
<1> DEFINE raw == [b \in Alerts |-> Truth(b, d, on, m.active)]
<1>1. fired'.cleared = Cleared(raw, m.active)
  BY DEF Evaluate
<1>2. raw[a] = Truth(a, d, on, m.active)
  OBVIOUS
<1> HIDE DEF raw
<1> QED BY <1>1, <1>2 DEF Cleared

(* What it raises, and the hold clocks and the alerts it leaves. *)
LEMMA EvaluateSays ==
  ASSUME NEW m, NEW d, NEW on, NEW t, Evaluate(m, d, on, t), NEW a \in Alerts
  PROVE  LET truth == Truth(a, d, on, m.active) IN
         /\ memory'.since[a] = IF truth = "no" THEN Never
                               ELSE IF truth = "yes" /\ a \notin m.active /\ m.since[a] = Never THEN t
                               ELSE m.since[a]
         /\ a \in fired'.raised <=>
              a \notin m.active /\ truth = "yes" /\ t - memory'.since[a] >= Hold[a]
         /\ a \in memory'.active <=>
              (a \in m.active /\ a \notin fired'.cleared) \/ a \in fired'.raised
<1> DEFINE raw     == [b \in Alerts |-> Truth(b, d, on, m.active)]
           begun   == Begun(raw, m.active, m.since, t)
           raised  == Raised(raw, m.active, begun, t)
           cleared == Cleared(raw, m.active)
           active  == (m.active \ cleared) \cup raised
<1>1. /\ memory'.active = active /\ memory'.since = begun
      /\ fired'.raised = raised /\ fired'.cleared = cleared
  BY DEF Evaluate
<1>2. /\ a \in raised <=> a \notin m.active /\ raw[a] = "yes" /\ t - begun[a] >= Hold[a]
      /\ begun[a] = IF raw[a] = "no" THEN Never
                    ELSE IF raw[a] = "yes" /\ a \notin m.active /\ m.since[a] = Never THEN t
                    ELSE m.since[a]
  BY DEF Raised, Begun
<1>3. raw[a] = Truth(a, d, on, m.active)
  OBVIOUS
<1>4. a \in active <=> (a \in m.active /\ a \notin cleared) \/ a \in raised
  OBVIOUS
<1> HIDE DEF raw, begun, raised, cleared, active
<1> QED BY <1>1, <1>2, <1>3, <1>4

(* What it reminds of, and the clocks it leaves. *)
LEMMA EvaluateReminds ==
  ASSUME NEW m, NEW d, NEW on, NEW t, Evaluate(m, d, on, t), NEW a \in Alerts
  PROVE  /\ a \in fired'.reminded <=> Due(a, Carried(m, a, t), Truth(a, d, on, m.active), t)
         /\ memory'.clocks[a] = IF a \in fired'.reminded
                                THEN [Carried(m, a, t) EXCEPT !.reminded = t] ELSE Carried(m, a, t)
         /\ fired'.silenced[a] = IF a \in fired'.reminded THEN memory'.clocks[a].silenced ELSE {}
         /\ options'.clocks = memory'.clocks \/ (options' = options /\ memory'.clocks = options.clocks)
<1> DEFINE raw     == [b \in Alerts |-> Truth(b, d, on, m.active)]
           begun   == Begun(raw, m.active, m.since, t)
           raised  == Raised(raw, m.active, begun, t)
           cleared == Cleared(raw, m.active)
           active  == (m.active \ cleared) \cup raised
           tracked == Track(m.clocks, active, t)
           due     == {b \in Alerts : Due(b, tracked[b], raw[b], t)}
           clocks  == [b \in Alerts |-> IF b \in due THEN [tracked[b] EXCEPT !.reminded = t]
                                        ELSE tracked[b]]
<1>1. /\ memory' = [active |-> active, since |-> begun, clocks |-> clocks]
      /\ options' = IF raised \cup cleared # {} \/ clocks # options.clocks
                    THEN [active |-> active, clocks |-> clocks] ELSE options
      /\ fired' = [raised |-> raised, cleared |-> cleared, reminded |-> due,
                   silenced |-> [b \in Alerts |-> IF b \in due THEN clocks[b].silenced ELSE {}]]
  BY DEF Evaluate
<1>2. raw[a] = Truth(a, d, on, m.active)
  OBVIOUS
<1> HIDE DEF raw, begun, raised, cleared
<1>3. tracked[a] = IF a \notin active THEN NoClock
                   ELSE IF m.clocks[a].since = Never THEN [NoClock EXCEPT !.since = t]
                   ELSE m.clocks[a]
  BY DEF Track
<1>4. [NoClock EXCEPT !.since = t] = [since |-> t, reminded |-> Never, silenced |-> {}]
  BY DEF NoClock
<1>5. memory'.active = active /\ memory'.clocks = clocks
  BY <1>1
<1>6. tracked[a] = Carried(m, a, t)
  BY <1>3, <1>4, <1>5 DEF Carried
<1> HIDE DEF active, tracked
<1>7. /\ a \in due <=> Due(a, tracked[a], raw[a], t)
      /\ clocks[a] = IF a \in due THEN [tracked[a] EXCEPT !.reminded = t] ELSE tracked[a]
  OBVIOUS
<1> HIDE DEF due, clocks
<1>8. options'.clocks = clocks \/ (options' = options /\ clocks = options.clocks)
  <2>1. CASE raised \cup cleared # {} \/ clocks # options.clocks
    BY <1>1, <2>1
  <2>2. CASE raised \cup cleared = {} /\ clocks = options.clocks
    BY <1>1, <2>2
  <2> QED BY <2>1, <2>2
<1>9. /\ fired'.reminded = due
      /\ fired'.silenced[a] = IF a \in due THEN clocks[a].silenced ELSE {}
  BY <1>1
<1>10. a \in fired'.reminded <=> Due(a, Carried(m, a, t), Truth(a, d, on, m.active), t)
  BY <1>2, <1>6, <1>7, <1>9
<1>11. memory'.clocks[a] = IF a \in fired'.reminded
                           THEN [Carried(m, a, t) EXCEPT !.reminded = t] ELSE Carried(m, a, t)
  BY <1>5, <1>6, <1>7, <1>9
<1>12. fired'.silenced[a] = IF a \in fired'.reminded THEN memory'.clocks[a].silenced ELSE {}
  BY <1>5, <1>9
<1>13. options'.clocks = memory'.clocks \/ (options' = options /\ memory'.clocks = options.clocks)
  BY <1>5, <1>8
<1> QED BY <1>10, <1>11, <1>12, <1>13, Zenon

(* The publisher a step evaluates with, or builds. *)
Publisher(m) == \/ entry \in {"waiting", "running"} /\ m = memory
                \/ entry = "setup" /\ m = Restored(now)

(* A document is taken in, or time passes at most. *)
Heeds == \/ doc' \in Doc /\ online' = TRUE /\ now' = now /\ Shown(doc')
         \/ UNCHANGED <<doc, heard>> /\ now' \in {now, now + 1}

Evaluates == /\ entry' = "running" /\ Heeds /\ Listened
             /\ \E m : Publisher(m) /\ Evaluate(m, doc', online', now')
Rests == /\ entry' # "running" /\ Heeds /\ Listened
         /\ fired' = Quiet /\ options' = options
         /\ entry' = "waiting" => entry # "running" /\ Publisher(memory')
Marks == /\ entry' = "off" /\ Heeds /\ Listened /\ UNCHANGED <<doc, now>>
         /\ Offline \notin options.active /\ now - failing' >= Hold[Offline]
         /\ failing' = IF failing = Never THEN now ELSE failing
         /\ options' = [options EXCEPT !.active = @ \cup {Offline}]
         /\ fired' = [Quiet EXCEPT !.raised = {Offline}]
Hushes == \E a \in Alerts, phone \in Phones : Silence(a, phone)

(* Every step is of one of four kinds. *)
LEMMA StepKinds ==
  ASSUME TypeOK, Armed, Next
  PROVE  Evaluates \/ Rests \/ Marks \/ Hushes
<1> USE DEF Heeds
<1>1. ASSUME NEW d \in Doc, Hear(d) PROVE Evaluates \/ Rests
  BY <1>1 DEF Hear, IfRunning, Evaluates, Rests, Publisher, Coordinated
<1>2. ASSUME NEW d \in Doc, SetupRefreshed(d) PROVE Rests
  BY <1>2 DEF SetupRefreshed, Rests
<1>3. CASE HeartbeatFails
  BY <1>3 DEF HeartbeatFails, IfRunning, NotShown, Evaluates, Rests, Publisher, Coordinated
<1>4. CASE Tick
  BY <1>4 DEF Tick, IfRunning, NotShown, Evaluates, Rests, Publisher
<1>5. CASE SetupFails
  <2>1. failing' \in Nat /\ now \in Nat /\ Hold[Offline] \in Nat
    BY <1>5, AlertsAssumption DEF SetupFails, TypeOK, Moment, Time, Alerts
  <2> QED BY <1>5, <2>1 DEF SetupFails, NotShown, Rests, Marks
<1>6. CASE StartPublisher
  BY <1>6 DEF StartPublisher, NotShown, Evaluates, Rests, Publisher
<1>7. CASE Started
  BY <1>7 DEF Started, NotShown, Evaluates, Rests, Publisher, Armed
<1>8. CASE Unload \/ Restart
  BY <1>8 DEF Unload, Restart, NotShown, Rests
<1> QED BY <1>1, <1>2, <1>3, <1>4, <1>5, <1>6, <1>7, <1>8 DEF Next, Hushes

(* What a gauge's level says. *)
Reading(a, d, active) ==
  IF d.level[a] = Never THEN "unknown"
  ELSE IF \/ a \in active /\ d.level[a] > Threshold - Margin
          \/ a \notin active /\ d.level[a] >= Threshold THEN "yes" ELSE "no"

(* What a condition is taken to be. *)
LEMMA TruthIs ==
  ASSUME NEW a \in Alerts, NEW d, NEW on, NEW active
  PROVE  LET truth == Truth(a, d, on, active) IN
         /\ a = Offline => truth = IF on THEN "no" ELSE "yes"
         /\ a # Offline /\ ~on => truth = "unknown"
         /\ a \in Faults /\ on => truth = d.fault[a]
         /\ a \in Gauges /\ on => truth = Reading(a, d, active)
<1>1. a = Offline => a \notin Faults /\ a \notin Gauges
  BY AlertsAssumption
<1>2. a \in Faults => a \notin Gauges
  BY AlertsAssumption
<1> DEFINE reading == Reading(a, d, active)
           shown == d.fault[a]
           silent == IF on THEN "no" ELSE "yes"
<1>3. Truth(a, d, on, active) =
        CASE a = Offline -> silent
          [] a # Offline /\ ~on -> "unknown"
          [] a \in Faults /\ on -> shown
          [] a \in Gauges /\ on -> reading
  BY DEF Truth, Reading
<1> HIDE DEF reading, shown, silent
<1>4. CASE a = Offline
  BY <1>1, <1>3, <1>4 DEF silent
<1>5. CASE a # Offline /\ ~on
  BY <1>1, <1>3, <1>5 DEF silent
<1>6. CASE a \in Faults /\ on
  BY <1>1, <1>2, <1>3, <1>6 DEF shown
<1>7. CASE a \in Gauges /\ on
  BY <1>1, <1>2, <1>3, <1>7 DEF reading
<1> QED BY <1>1, <1>4, <1>5, <1>6, <1>7 DEF Alerts

(* Raising or clearing an alert does not change what it was raised or cleared for. *)
LEMMA TruthSettles ==
  ASSUME NEW a \in Alerts, NEW d \in Doc, NEW on, NEW before, NEW after,
         a \in before /\ a \notin after => Truth(a, d, on, before) = "no",
         a \notin before /\ a \in after => Truth(a, d, on, before) = "yes"
  PROVE  Truth(a, d, on, after) = Truth(a, d, on, before)
<1>1. CASE a = Offline \/ ~on \/ a \in Faults
  BY <1>1, TruthIs
<1>2. CASE a \in Gauges /\ on
  <2> DEFINE level == d.level[a]
  <2>1. level \in Nat \cup {Never}
    <3>1. d.level \in [Gauges -> Levels \cup {Never}] /\ Levels \subseteq Nat
      BY AlertsAssumption DEF Doc
    <3> QED BY <1>2, <3>1
  <2>2. Threshold \in Nat /\ Margin \in Nat /\ 0 < Margin
    BY AlertsAssumption
  <2>3. /\ Truth(a, d, on, before) = Reading(a, d, before)
        /\ Truth(a, d, on, after) = Reading(a, d, after)
    BY <1>2, TruthIs
  <2>4. level # Never => (level >= Threshold => level > Threshold - Margin)
    BY <2>1, <2>2
  <2> QED BY <2>3, <2>4 DEF Reading
<1> QED BY <1>1, <1>2 DEF Alerts

-----------------------------------------------------------------------------
(* Nothing unheard. *)

(* Every step keeps the publisher armed, and announces only if it is. *)
LEMMA ArmedNext ==
  ASSUME TypeOK, Armed, NothingUnheard, [Next]_vars
  PROVE  Armed' /\ NothingUnheard'
<1> DEFINE Silent == fired' = Quiet
<1>1. /\ now \in Nat /\ failing \in Nat \cup {Never} /\ Hold[Offline] \in Nat /\ Hold[Offline] > 0
      /\ started \in BOOLEAN /\ now + 1 \in Nat
  BY AlertsAssumption DEF TypeOK, Time, Moment, Alerts
<1>2. fired' = Quiet => NothingUnheard'
  BY DEF Quiet, NothingUnheard
<1>3. started' => NothingUnheard'
  BY DEF NothingUnheard
<1>4. ASSUME NEW d \in Doc, Hear(d) \/ SetupRefreshed(d) PROVE Armed' /\ NothingUnheard'
  BY <1>2, <1>3, <1>4 DEF Hear, SetupRefreshed, IfRunning, Armed
<1>5. CASE HeartbeatFails
  BY <1>2, <1>3, <1>5 DEF HeartbeatFails, IfRunning, Armed
<1>6. CASE Tick
  BY <1>3, <1>6 DEF Tick, Armed
<1>7. CASE SetupFails
  <2>1. CASE started
    BY <1>3, <1>7, <2>1 DEF SetupFails, Armed
  <2>2. CASE ~started
    <3>1. failing' = now /\ now - failing' < Hold[Offline]
      BY <1>1, <1>7, <2>2 DEF SetupFails, Armed
    <3> QED BY <1>2, <1>7, <3>1 DEF SetupFails, Armed
  <2> QED BY <2>1, <2>2
<1>8. CASE StartPublisher
  BY <1>2, <1>3, <1>8 DEF StartPublisher, Armed
<1>9. CASE Started
  BY <1>3, <1>9 DEF Started, Armed
<1>10. CASE Unload \/ Restart
  BY <1>2, <1>10 DEF Unload, Restart, Armed
<1>11. ASSUME NEW a \in Alerts, NEW phone \in Phones, Silence(a, phone)
       PROVE  Armed' /\ NothingUnheard'
  BY <1>2, <1>11 DEF Silence, Armed
<1>12. CASE UNCHANGED vars
  BY <1>12 DEF vars, Armed, NothingUnheard
<1> QED BY <1>4, <1>5, <1>6, <1>7, <1>8, <1>9, <1>10, <1>11, <1>12 DEF Next

LEMMA ArmedHolds == Spec => [](Armed /\ NothingUnheard)
<1>1. Init => Armed /\ NothingUnheard
  BY DEF Init, Armed, NothingUnheard, Quiet
<1>2. TypeOK /\ (Armed /\ NothingUnheard) /\ [Next]_vars => (Armed /\ NothingUnheard)'
  BY ArmedNext
<1> QED BY <1>1, <1>2, TypeCorrect, PTL DEF Spec

(* Nothing is announced before Home Assistant has started, neither by a publisher nor for a *)
(* setup that keeps failing: the automations that would hear it are not armed (async_start). *)
THEOREM AnnouncedWhenArmed == Spec => []NothingUnheard
BY ArmedHolds, PTL

-----------------------------------------------------------------------------
(* Clocks. *)

LEMMA PublisherReady ==
  ASSUME TypeOK, Kept, ClocksRun, NEW m, Publisher(m)
  PROVE  /\ m \in Memory /\ m.active = told /\ options.active = told /\ options \in Options
         /\ \A a \in Alerts : a \in told <=> m.clocks[a].since # Never
<1>1. options \in Options /\ memory \in Memory /\ now \in Time /\ Never \notin Nat
  BY AlertsAssumption DEF TypeOK
<1>2. options.active = told
  BY DEF Kept, StoredIsAnnounced
<1>3. CASE entry \in {"waiting", "running"} /\ m = memory
  BY <1>1, <1>2, <1>3 DEF Kept, StoredIsAnnounced, ClocksOfActive, ClocksRun
<1>4. CASE entry = "setup" /\ m = Restored(now)
  <2>1. m \in Memory /\ m.active = told
    BY <1>1, <1>2, <1>4, RestoredType DEF Restored
  <2>2. ASSUME NEW a \in Alerts PROVE a \in told <=> m.clocks[a].since # Never
    <3>1. m.clocks[a] = RestoredClock(a, now) /\ options.clocks[a] \in Clock
      BY <1>1, <1>4 DEF Restored, Options
    <3>2. NoClock.since = Never /\ now # Never
      BY <1>1 DEF NoClock, Time
    <3>3. [options.clocks[a] EXCEPT !.since = now].since = now
      BY <3>1 DEF Clock
    <3> QED BY <1>2, <3>1, <3>2, <3>3 DEF RestoredClock
  <2> QED BY <1>1, <1>2, <2>1, <2>2
<1> QED BY <1>3, <1>4 DEF Publisher

(* Nothing is reminded of that has no clock. *)
LEMMA NoClockNotDue ==
  ASSUME NEW a, NEW truth, NEW t
  PROVE  ~Due(a, NoClock, truth, t)
BY DEF Due, NoClock

(* What an evaluation leaves of the clocks. *)
LEMMA EvaluateClocks ==
  ASSUME TypeOK, Kept, ClocksRun, NEW m, Publisher(m), NEW d, NEW on, NEW t \in Time,
         Evaluate(m, d, on, t), NEW a \in Alerts
  PROVE  LET old == Carried(m, a, t)
             new == memory'.clocks[a] IN
         /\ options'.clocks = memory'.clocks
         /\ a \in fired'.reminded => a \in memory'.active
         /\ a \notin memory'.active => new = NoClock
         /\ a \in memory'.active =>
              /\ old.since = IF a \in told THEN m.clocks[a].since ELSE t
              /\ old.reminded = IF a \in told THEN m.clocks[a].reminded ELSE Never
              /\ old.silenced = IF a \in told THEN m.clocks[a].silenced ELSE {}
              /\ old.since \in Nat /\ old.reminded \in Moment
              /\ new.since = old.since /\ new.silenced = old.silenced
              /\ new.reminded = IF a \in fired'.reminded THEN t ELSE old.reminded
<1>1. /\ m \in Memory /\ m.active = told /\ options \in Options
      /\ a \in told <=> m.clocks[a].since # Never
  BY PublisherReady
<1>2. /\ a \in fired'.reminded <=> Due(a, Carried(m, a, t), Truth(a, d, on, m.active), t)
      /\ memory'.clocks[a] = IF a \in fired'.reminded
                             THEN [Carried(m, a, t) EXCEPT !.reminded = t] ELSE Carried(m, a, t)
      /\ options'.clocks = memory'.clocks
  BY <1>1, EvaluateReminds
<1>3. CASE a \notin memory'.active
  <2>1. Carried(m, a, t) = NoClock
    BY <1>3 DEF Carried
  <2> QED BY <1>2, <1>3, <2>1, NoClockNotDue
<1>4. CASE a \in memory'.active
  <2>1. m.clocks[a] \in Clock /\ t \in Nat /\ Never \notin Nat
    BY <1>1, AlertsAssumption DEF Memory, Time
  <2>2. Carried(m, a, t) = IF a \in told THEN m.clocks[a]
                           ELSE [since |-> t, reminded |-> Never, silenced |-> {}]
    BY <1>1, <1>4 DEF Carried
  <2>3. /\ Carried(m, a, t) \in Clock /\ Carried(m, a, t).since \in Nat
    BY <1>1, <2>1, <2>2 DEF Clock, Moment, Time
  <2>4. /\ [Carried(m, a, t) EXCEPT !.reminded = t].since = Carried(m, a, t).since
        /\ [Carried(m, a, t) EXCEPT !.reminded = t].silenced = Carried(m, a, t).silenced
        /\ [Carried(m, a, t) EXCEPT !.reminded = t].reminded = t
    BY <2>3 DEF Clock
  <2>5. Carried(m, a, t).reminded \in Moment
    BY <2>3 DEF Clock
  <2> QED BY <1>2, <1>4, <2>2, <2>3, <2>4, <2>5
<1> QED BY <1>3, <1>4

(* A tap on Silence reaches the clock that is stored, if the publisher hears it, and moves *)
(* nothing else.                                                                           *)
LEMMA HushSays ==
  ASSUME TypeOK, Kept, ClocksRun, NEW a \in Alerts, NEW phone \in Phones, Silence(a, phone)
  PROVE  /\ UNCHANGED <<now, entry, doc, online, failing, told, noticed, heard, lowest>>
         /\ fired' = Quiet /\ options'.active = options.active
         /\ memory'.active = memory.active /\ memory'.since = memory.since
         /\ \A b \in Alerts :
              /\ memory'.clocks[b].since = memory.clocks[b].since
              /\ memory'.clocks[b].reminded = memory.clocks[b].reminded
              /\ options'.clocks[b].since = options.clocks[b].since
              /\ options'.clocks[b].reminded = options.clocks[b].reminded
              /\ memory.clocks[b].silenced \subseteq memory'.clocks[b].silenced
              /\ options.clocks[b].silenced \subseteq options'.clocks[b].silenced
         /\ \/ asked' = asked
            \/ /\ entry = "running" /\ a \in told /\ asked' = [asked EXCEPT ![a] = @ \cup {phone}]
               /\ phone \in options'.clocks[a].silenced
<1>1. /\ memory \in Memory /\ options \in Options
      /\ memory.clocks \in [Alerts -> Clock] /\ options.clocks \in [Alerts -> Clock]
  BY DEF TypeOK, Memory, Options
<1>2. a \in told /\ fired' = Quiet
      /\ UNCHANGED <<now, entry, doc, online, failing, told, noticed, heard, lowest>>
  BY DEF Silence
<1>3. CASE entry = "running"
  <2>1. memory.clocks[a].since # Never /\ memory.clocks = options.clocks
    BY <1>2, <1>3 DEF Kept, StoredIsAnnounced, ClocksRun
  <2> DEFINE silent == [memory.clocks EXCEPT ![a].silenced = @ \cup {phone}]
  <2>2. /\ memory' = [memory EXCEPT !.clocks = silent]
        /\ options' = [options EXCEPT !.clocks = silent]
        /\ asked' = [asked EXCEPT ![a] = @ \cup {phone}]
    BY <1>3, <2>1 DEF Silence
  <2>3. \A b \in Alerts : /\ silent[b].since = memory.clocks[b].since
                          /\ silent[b].reminded = memory.clocks[b].reminded
                          /\ memory.clocks[b].silenced \subseteq silent[b].silenced
    BY <1>1 DEF Clock
  <2>4. phone \in silent[a].silenced
    BY <1>1 DEF Clock
  <2> HIDE DEF silent
  <2>5. /\ memory'.clocks = silent /\ options'.clocks = silent
        /\ memory'.active = memory.active /\ memory'.since = memory.since
        /\ options'.active = options.active
    BY <1>1, <2>2 DEF Memory, Options
  <2> QED BY <1>2, <1>3, <2>1, <2>2, <2>3, <2>4, <2>5
<1>4. CASE entry # "running"
  BY <1>2, <1>4 DEF Silence
<1> QED BY <1>3, <1>4

(* Every step keeps the clocks running. *)
LEMMA ClocksNext ==
  ASSUME TypeOK, Kept, Armed, ClocksRun, [Next]_vars
  PROVE  ClocksRun'
<1>1. Kept' \/ UNCHANGED vars
  BY KeptNext
<1>2. /\ now \in Time /\ now + 1 \in Time /\ Never \notin Nat
      /\ options \in Options /\ options.active = told
  BY AlertsAssumption DEF TypeOK, Kept, StoredIsAnnounced, Time
<1>3. CASE Evaluates /\ Kept'
  <2>1. PICK m : Publisher(m) /\ Evaluate(m, doc', online', now')
    BY <1>3 DEF Evaluates
  <2>2. now' \in Time /\ entry' = "running"
    BY <1>2, <1>3 DEF Evaluates, Heeds
  <2>3. options'.active = memory'.active
    BY <1>3, <2>2 DEF Kept, StoredIsAnnounced
  <2>4. \A a \in Alerts :
          /\ options'.clocks = memory'.clocks
          /\ a \notin memory'.active => memory'.clocks[a] = NoClock
          /\ a \in memory'.active => memory'.clocks[a].since \in Nat
    BY <2>1, <2>2, EvaluateClocks
  <2>5. memory'.active \subseteq Alerts
    BY <2>1, EvaluateTypes, PublisherReady, <2>2 DEF Memory
  <2> QED BY <1>2, <2>3, <2>4, <2>5 DEF ClocksRun, NoClock
<1>4. CASE Rests
  <2>1. ASSUME entry' = "waiting" PROVE \A a \in memory'.active : memory'.clocks[a].since # Never
    BY <1>4, <2>1, PublisherReady DEF Rests, Memory
  <2> QED BY <1>4, <2>1 DEF Rests, ClocksRun
<1>5. CASE Marks
  <2>1. options'.clocks = options.clocks /\ options'.active = options.active \cup {Offline}
    BY <1>2, <1>5 DEF Marks, Options
  <2> QED BY <1>5, <2>1 DEF Marks, ClocksRun
<1>6. ASSUME NEW a \in Alerts, NEW phone \in Phones, Silence(a, phone)
      PROVE  ClocksRun'
  <2>1. memory.active \subseteq Alerts
    BY DEF TypeOK, Memory
  <2> QED BY <1>6, <2>1, HushSays DEF ClocksRun
<1>7. CASE UNCHANGED vars
  BY <1>7 DEF vars, ClocksRun
<1> QED BY <1>1, <1>3, <1>4, <1>5, <1>6, <1>7, StepKinds DEF Hushes

-----------------------------------------------------------------------------
(* Nothing overdue. *)

(* An evaluation leaves nothing overdue. *)
LEMMA EvaluatesInTime ==
  ASSUME TypeOK, TypeOK', Kept, ClocksRun, Evaluates, NEW a \in Alerts,
         Truth(a, doc, online, memory.active)' = "yes"
  PROVE  /\ a \notin memory'.active => memory'.since[a] # Never /\ now' - memory'.since[a] < Hold[a]
         /\ a \in memory'.active \cap Urgent /\ Interval # 0 => now' - Last(memory'.clocks[a]) < Interval
<1>1. PICK m : Publisher(m) /\ Evaluate(m, doc', online', now')
  BY DEF Evaluates
<1>2. m \in Memory /\ m.active = told /\ options \in Options /\ now' \in Time /\ doc' \in Doc
  BY <1>1, PublisherReady DEF TypeOK
<1> DEFINE truth == Truth(a, doc', online', m.active)
<1>3. /\ a \in fired'.cleared => truth = "no"
      /\ memory'.since[a] = IF truth = "no" THEN Never
                            ELSE IF truth = "yes" /\ a \notin m.active /\ m.since[a] = Never THEN now'
                            ELSE m.since[a]
  BY <1>1, <1>2, EvaluateClears, EvaluateSays
<1>4. /\ a \in fired'.raised <=>
           a \notin m.active /\ truth = "yes" /\ now' - memory'.since[a] >= Hold[a]
      /\ a \in memory'.active <=>
           (a \in m.active /\ a \notin fired'.cleared) \/ a \in fired'.raised
  BY <1>1, <1>2, EvaluateSays, Zenon
<1>5. a \in fired'.reminded <=> Due(a, Carried(m, a, now'), truth, now')
  BY <1>1, <1>2, EvaluateReminds, Zenon
<1>6. truth = "yes"
  <2>1. Truth(a, doc', online', memory'.active) = truth
    BY <1>2, <1>3, <1>4, TruthSettles
  <2> QED BY <2>1
<1> HIDE DEF truth
<1>7. ASSUME a \notin memory'.active
      PROVE  memory'.since[a] # Never /\ now' - memory'.since[a] < Hold[a]
  <2>1. a \notin m.active /\ ~(now' - memory'.since[a] >= Hold[a])
    BY <1>3, <1>6, <1>7, <1>4
  <2>2. memory'.since[a] # Never
    BY <1>2, <1>3, <1>6, <2>1, AlertsAssumption DEF Time
  <2>3. memory'.since[a] \in Nat /\ Hold[a] \in Nat /\ now' \in Nat
    BY <2>2, AlertsAssumption DEF TypeOK, Memory, Moment, Time
  <2> QED BY <2>1, <2>2, <2>3
<1>8. ASSUME a \in memory'.active, a \in Urgent, Interval # 0
      PROVE  now' - Last(memory'.clocks[a]) < Interval
  <2> DEFINE old == Carried(m, a, now')
             new == memory'.clocks[a]
  <2>1. /\ old.since \in Nat /\ old.reminded \in Moment
        /\ new.since = old.since
        /\ new.reminded = IF a \in fired'.reminded THEN now' ELSE old.reminded
    BY <1>1, <1>2, <1>8, EvaluateClocks
  <2>2. now' \in Nat /\ Interval \in Nat /\ Interval > 0 /\ Never \notin Nat
    BY <1>2, <1>8, AlertsAssumption DEF Time
  <2> HIDE DEF old, new
  <2>3. a \in fired'.reminded <=> old.since # Never /\ now' - Last(old) >= Interval
    BY <1>6, <1>8, <1>5 DEF Due, Last, old
  <2>4. CASE a \in fired'.reminded
    BY <2>1, <2>2, <2>4 DEF Last, new
  <2>5. CASE a \notin fired'.reminded
    <3>1. Last(new) = Last(old) /\ Last(old) \in Nat
      BY <2>1, <2>2, <2>5 DEF Last, Moment, Time
    <3> QED BY <2>1, <2>2, <2>3, <2>5, <3>1 DEF new
  <2> QED BY <2>4, <2>5
<1> QED BY <1>7, <1>8

LEMMA OverdueNext ==
  ASSUME TypeOK, TypeOK', Kept, Armed, ClocksRun, NothingOverdue, [Next]_vars
  PROVE  NothingOverdue'
<1>1. CASE Evaluates
  BY <1>1, EvaluatesInTime DEF NothingOverdue, Last
<1>2. CASE Rests \/ Marks
  BY <1>2 DEF Rests, Marks, NothingOverdue
<1>3. ASSUME NEW a \in Alerts, NEW phone \in Phones, Silence(a, phone)
      PROVE  NothingOverdue'
  BY <1>3, HushSays DEF NothingOverdue
<1>4. CASE UNCHANGED vars
  BY <1>4 DEF vars, NothingOverdue
<1> QED BY <1>1, <1>2, <1>3, <1>4, StepKinds DEF Hushes

(* What the theorems below start from. *)
Base == TypeOK /\ Kept /\ Armed /\ ClocksRun

LEMMA BaseHolds == Spec => []Base
<1>1. Init => Kept /\ ClocksRun
  BY BlankTypes DEF Init, Kept, StoredIsAnnounced, ClocksOfActive, Blank, ClocksRun, NoClocks, NoClock
<1>2. TypeOK /\ Armed /\ (Kept /\ ClocksRun) /\ [Next]_vars => (Kept /\ ClocksRun)'
  <2> SUFFICES ASSUME TypeOK, Armed, Kept, ClocksRun, [Next]_vars PROVE (Kept /\ ClocksRun)'
    OBVIOUS
  <2>1. Kept'
    BY KeptNext DEF vars, Kept, StoredIsAnnounced, ClocksOfActive
  <2> QED BY <2>1, ClocksNext
<1> QED BY <1>1, <1>2, TypeCorrect, ArmedHolds, PTL DEF Spec, Base

(* While a publisher runs nothing is overdue, neither a raise nor an urgent reminder, for any *)
(* holds and interval, though no message arrives to prompt it (_tick, _evaluate).             *)
THEOREM PublisherIsPunctual == Spec => []NothingOverdue
<1>1. Init => NothingOverdue
  BY DEF Init, NothingOverdue
<1>2. Base /\ Base' /\ NothingOverdue /\ [Next]_vars => NothingOverdue'
  BY OverdueNext DEF Base
<1> QED BY <1>1, <1>2, BaseHolds, PTL DEF Spec

-----------------------------------------------------------------------------
(* Holds. *)

(* What a document shows, fault by fault. *)
LEMMA ShownSays ==
  ASSUME TypeOK, NEW d \in Doc, Shown(d), NEW a \in Faults
  PROVE  /\ heard'.any = now
         /\ d.fault[a] \in {"yes", "no", "unknown"}
         /\ d.fault[a] = "no" => heard'.shown[a] = Never
         /\ d.fault[a] = "yes" =>
              heard'.shown[a] = IF heard.shown[a] = Never THEN now ELSE heard.shown[a]
         /\ d.fault[a] = "unknown" => heard'.shown[a] = heard.shown[a]
<1> DEFINE before == heard.shown[a]
           fault == d.fault[a]
<1>1. heard'.shown[a] = CASE fault = "no" -> Never
                          [] fault = "yes" /\ before = Never -> now
                          [] OTHER -> before
  BY DEF Shown
<1>2. heard'.any = now /\ fault \in {"yes", "no", "unknown"}
  BY DEF Shown, Doc, Truths
<1> HIDE DEF before, fault
<1>3. /\ fault = "no" => heard'.shown[a] = Never
      /\ fault = "yes" => heard'.shown[a] = IF before = Never THEN now ELSE before
      /\ fault = "unknown" => heard'.shown[a] = before
  BY <1>1, Zenon
<1> QED BY <1>2, <1>3 DEF before, fault

(* What was heard stays behind the present. *)
LEMMA HeardNext ==
  ASSUME TypeOK, TypeOK', Armed, HeardBefore, [Next]_vars
  PROVE  HeardBefore'
<1>1. /\ now \in Nat /\ now + 1 \in Nat /\ Never \notin Nat /\ heard.any \in Nat
      /\ heard'.any \in Nat /\ now' \in Nat
      /\ \A a \in Faults : heard.shown[a] \in Moment /\ heard'.shown[a] \in Moment
      /\ failing \in Moment /\ failing' \in Moment
  BY AlertsAssumption DEF TypeOK, Time
<1>2. ASSUME Heeds
      PROVE  /\ heard'.any <= now'
             /\ \A a \in Faults :
                  /\ heard'.shown[a] # Never => heard'.shown[a] <= now'
                  /\ doc'.fault[a] = "yes" => heard'.shown[a] # Never
  <2>1. CASE doc' \in Doc /\ now' = now /\ Shown(doc')
    <3>1. heard'.any = now
      BY <2>1 DEF Shown
    <3>2. ASSUME NEW a \in Faults
          PROVE  /\ heard'.shown[a] # Never => heard'.shown[a] <= now'
                 /\ doc'.fault[a] = "yes" => heard'.shown[a] # Never
      <4>1. heard.shown[a] # Never => heard.shown[a] <= now
        BY DEF HeardBefore
      <4> QED BY <1>1, <2>1, <4>1, ShownSays
    <3> QED BY <1>1, <2>1, <3>1, <3>2
  <2>2. CASE UNCHANGED <<doc, heard>> /\ now' \in {now, now + 1}
    <3>1. ASSUME NEW a \in Faults
          PROVE  /\ heard'.shown[a] # Never => heard'.shown[a] <= now'
                 /\ doc'.fault[a] = "yes" => heard'.shown[a] # Never
      <4>1. heard'.shown[a] # Never => heard'.shown[a] \in Nat /\ heard'.shown[a] <= now
        BY <1>1, <2>2 DEF HeardBefore, Moment, Time
      <4> QED BY <1>1, <2>2, <4>1 DEF HeardBefore
    <3>2. heard'.any <= now'
      BY <1>1, <2>2 DEF HeardBefore
    <3> QED BY <3>1, <3>2
  <2> QED BY <1>2, <2>1, <2>2 DEF Heeds
<1>3. ASSUME UNCHANGED <<now, doc, heard>>
      PROVE  /\ heard'.any <= now'
             /\ \A a \in Faults :
                  /\ heard'.shown[a] # Never => heard'.shown[a] <= now'
                  /\ doc'.fault[a] = "yes" => heard'.shown[a] # Never
  BY <1>3 DEF HeardBefore
<1>4. /\ heard'.any <= now'
      /\ \A a \in Faults :
           /\ heard'.shown[a] # Never => heard'.shown[a] <= now'
           /\ doc'.fault[a] = "yes" => heard'.shown[a] # Never
  BY <1>2, <1>3, StepKinds DEF Evaluates, Rests, Marks, Hushes, Silence, vars
<1>5. failing' # Never => entry' = "off" /\ heard'.any <= failing' /\ failing' <= now'
  <2>1. failing # Never => failing \in Nat /\ entry = "off" /\ heard.any <= failing /\ failing <= now
    BY <1>1 DEF HeardBefore, Moment, Time
  <2>2. heard.any <= now
    BY DEF HeardBefore
  <2>3. ASSUME NEW d \in Doc, Hear(d) \/ SetupRefreshed(d)
        PROVE  failing' = Never
    BY <2>1, <2>3 DEF Hear, SetupRefreshed, Coordinated
  <2>4. CASE HeartbeatFails \/ StartPublisher \/ Unload \/ Restart
    <3>1. failing' = Never
      BY <2>1, <2>4 DEF HeartbeatFails, StartPublisher, Unload, Restart, Coordinated
    <3> QED BY <3>1
  <2>5. CASE Tick
    BY <1>1, <2>1, <2>5 DEF Tick, NotShown
  <2>6. CASE SetupFails
    BY <1>1, <2>1, <2>2, <2>6 DEF SetupFails, NotShown
  <2>7. CASE Started
    BY <2>1, <2>7 DEF Started, NotShown
  <2>8. CASE \E a \in Alerts, phone \in Phones : Silence(a, phone)
    BY <2>1, <2>8 DEF Silence
  <2>9. CASE UNCHANGED vars
    BY <2>1, <2>9 DEF vars
  <2> QED BY <2>3, <2>4, <2>5, <2>6, <2>7, <2>8, <2>9 DEF Next
<1> QED BY <1>4, <1>5 DEF HeardBefore

(* What a publisher's hold clocks say is no earlier than what was heard. *)
HeldSince(m) ==
  /\ m.since[Offline] # Never => heard.any <= m.since[Offline]
  /\ \A a \in Faults : m.since[a] # Never => heard.shown[a] # Never /\ heard.shown[a] <= m.since[a]

LEMMA PublisherHeld ==
  ASSUME HoldsRest, NEW m, Publisher(m)
  PROVE  HeldSince(m)
<1>1. Faults \subseteq Alerts /\ Offline \in Alerts
  BY DEF Alerts
<1>2. CASE m = Restored(now)
  <2>1. \A a \in Alerts : m.since[a] = Never
    BY <1>2 DEF Restored, NoSince
  <2> QED BY <1>1, <2>1 DEF HeldSince
<1>3. CASE entry = "waiting" /\ m = memory
  BY <1>1, <1>3 DEF HoldsRest, HeldSince
<1>4. CASE entry = "running" /\ m = memory
  BY <1>4 DEF HoldsRest, HeldSince
<1> QED BY <1>2, <1>3, <1>4 DEF Publisher

(* An evaluation keeps the hold clocks behind what was heard. *)
LEMMA EvaluateHeld ==
  ASSUME TypeOK, TypeOK', Kept, ClocksRun, HeardBefore, HoldsRest, Evaluates
  PROVE  HeldSince(memory)'
<1>1. PICK m : Publisher(m) /\ Evaluate(m, doc', online', now')
  BY DEF Evaluates
<1>2. m \in Memory /\ options \in Options /\ now' \in Time /\ HeldSince(m)
  BY <1>1, PublisherReady, PublisherHeld DEF TypeOK
<1>3. /\ now \in Nat /\ now' \in Nat /\ now <= now' /\ Never \notin Nat /\ heard.any \in Nat
      /\ heard.any <= now /\ m.since \in [Alerts -> Moment]
  BY <1>2, AlertsAssumption DEF TypeOK, Time, Evaluates, Heeds, HeardBefore, Memory
<1>4. \A a \in Alerts : LET truth == Truth(a, doc', online', m.active) IN
        memory'.since[a] = IF truth = "no" THEN Never
                           ELSE IF truth = "yes" /\ a \notin m.active /\ m.since[a] = Never THEN now'
                           ELSE m.since[a]
  BY <1>1, <1>2, EvaluateSays
<1>5. memory'.since[Offline] # Never => heard'.any <= memory'.since[Offline]
  <2>1. Offline \in Alerts /\ Truth(Offline, doc', online', m.active) = IF online' THEN "no" ELSE "yes"
    BY TruthIs DEF Alerts
  <2>2. CASE online' = TRUE
    BY <1>4, <2>1, <2>2
  <2>3. CASE heard' = heard
    <3>1. memory'.since[Offline] \in {Never, now', m.since[Offline]}
      BY <1>4, <2>1
    <3>2. m.since[Offline] # Never => heard.any <= m.since[Offline]
      BY <1>2 DEF HeldSince
    <3> QED BY <1>3, <2>3, <3>1, <3>2
  <2> QED BY <2>2, <2>3 DEF Evaluates, Heeds
<1>6. ASSUME NEW a \in Faults, memory'.since[a] # Never
      PROVE  heard'.shown[a] # Never /\ heard'.shown[a] <= memory'.since[a]
  <2> DEFINE truth == Truth(a, doc', online', m.active)
             old == m.since[a]
             new == memory'.since[a]
  <2>1. /\ a \in Alerts /\ heard.shown[a] \in Moment /\ old \in Moment
        /\ a # Offline
    BY <1>2, AlertsAssumption DEF Alerts, TypeOK, Memory
  <2>2. /\ online' => truth = doc'.fault[a]
        /\ ~online' => truth = "unknown"
    BY <2>1, TruthIs
  <2>3. truth # "no" /\ (new = old \/ (truth = "yes" /\ new = now' /\ old = Never))
    BY <1>4, <1>6, <2>1
  <2>4. /\ old # Never => heard.shown[a] # Never /\ heard.shown[a] <= old
        /\ heard.shown[a] # Never => heard.shown[a] <= now
        /\ doc.fault[a] = "yes" => heard.shown[a] # Never
    BY <1>2 DEF HeldSince, HeardBefore
  <2> HIDE DEF truth, old, new
  <2>5. CASE doc' \in Doc /\ online' = TRUE /\ now' = now /\ Shown(doc')
    <3>1. /\ truth = "yes" => heard'.shown[a] = IF heard.shown[a] = Never THEN now ELSE heard.shown[a]
          /\ truth = "unknown" => heard'.shown[a] = heard.shown[a]
          /\ truth \in {"yes", "no", "unknown"}
      BY <2>2, <2>5, ShownSays
    <3> QED BY <1>3, <1>6, <2>1, <2>3, <2>4, <2>5, <3>1 DEF new, Moment, Time
  <2>6. CASE UNCHANGED <<doc, heard>>
    <3>1. truth = "yes" => doc.fault[a] = "yes"
      BY <2>2, <2>6
    <3> QED BY <1>3, <1>6, <2>1, <2>3, <2>4, <2>6, <3>1 DEF new, Moment, Time
  <2> QED BY <2>5, <2>6 DEF Evaluates, Heeds
<1> QED BY <1>5, <1>6 DEF HeldSince

LEMMA HoldsNext ==
  ASSUME TypeOK, TypeOK', Kept, Armed, ClocksRun, HeardBefore, HoldsRest, [Next]_vars
  PROVE  HoldsRest'
<1>1. CASE Evaluates
  BY <1>1, EvaluateHeld DEF Evaluates, HoldsRest, HeldSince
<1>2. CASE Rests
  <2>1. ASSUME entry' = "waiting" PROVE \A a \in Alerts : memory'.since[a] = Never
    BY <1>2, <2>1 DEF Rests, Publisher, HoldsRest, Restored, NoSince
  <2> QED BY <1>2, <2>1 DEF Rests, HoldsRest
<1>3. CASE Marks
  BY <1>3 DEF Marks, HoldsRest
<1>4. ASSUME NEW a \in Alerts, NEW phone \in Phones, Silence(a, phone)
      PROVE  HoldsRest'
  BY <1>4, HushSays DEF HoldsRest
<1>5. CASE UNCHANGED vars
  BY <1>5 DEF vars, HoldsRest
<1> QED BY <1>1, <1>2, <1>3, <1>4, <1>5, StepKinds DEF Hushes

(* A raise is behind its hold. *)
LEMMA RaisesAreHeld ==
  ASSUME TypeOK, TypeOK', Kept, Armed, ClocksRun, HeardBefore, HeardBefore', HoldsRest, Next
  PROVE  /\ \A a \in Faults \cap fired'.raised :
              heard'.shown[a] # Never /\ now' - heard'.shown[a] >= Hold[a]
         /\ Offline \in fired'.raised => now' - heard'.any >= Hold[Offline]
<1>1. /\ now' \in Nat /\ heard'.any \in Nat /\ Never \notin Nat /\ heard'.shown \in [Faults -> Moment]
      /\ memory'.since \in [Alerts -> Moment] /\ \A a \in Alerts : Hold[a] \in Nat
      /\ Faults \subseteq Alerts /\ Offline \in Alerts /\ Offline \notin Faults
      /\ failing' \in Moment
  BY AlertsAssumption DEF TypeOK, Time, Memory, Alerts
<1>2. CASE Evaluates
  <2>1. PICK m : Publisher(m) /\ Evaluate(m, doc', online', now')
    BY <1>2 DEF Evaluates
  <2>2. m \in Memory /\ options \in Options /\ now' \in Time
    BY <2>1, PublisherReady DEF TypeOK
  <2>3. ASSUME NEW a \in Alerts, a \in fired'.raised
        PROVE  memory'.since[a] \in Nat /\ now' - memory'.since[a] >= Hold[a]
    <3> DEFINE truth == Truth(a, doc', online', m.active)
    <3>1. memory'.since[a] = IF truth = "no" THEN Never
                             ELSE IF truth = "yes" /\ a \notin m.active /\ m.since[a] = Never THEN now'
                             ELSE m.since[a]
      BY <2>1, <2>2, EvaluateSays
    <3>2. a \in fired'.raised <=>
            a \notin m.active /\ truth = "yes" /\ now' - memory'.since[a] >= Hold[a]
      BY <2>1, <2>2, EvaluateSays, Zenon
    <3> HIDE DEF truth
    <3>3. memory'.since[a] # Never
      BY <1>1, <2>3, <3>1, <3>2
    <3> QED BY <1>1, <2>3, <3>2, <3>3 DEF Moment, Time
  <2>4. HeldSince(memory)'
    BY <1>2, EvaluateHeld
  <2>5. ASSUME NEW a \in Faults, a \in fired'.raised
        PROVE  heard'.shown[a] # Never /\ now' - heard'.shown[a] >= Hold[a]
    <3>1. memory'.since[a] \in Nat /\ now' - memory'.since[a] >= Hold[a]
      BY <1>1, <2>3, <2>5
    <3>2. heard'.shown[a] # Never /\ heard'.shown[a] <= memory'.since[a]
      BY <1>1, <2>4, <3>1 DEF HeldSince
    <3>3. heard'.shown[a] \in Nat /\ Hold[a] \in Nat
      BY <1>1, <3>2 DEF Moment, Time
    <3> QED BY <1>1, <3>1, <3>2, <3>3
  <2>6. ASSUME Offline \in fired'.raised PROVE now' - heard'.any >= Hold[Offline]
    <3>1. memory'.since[Offline] \in Nat /\ now' - memory'.since[Offline] >= Hold[Offline]
      BY <1>1, <2>3, <2>6
    <3>2. heard'.any <= memory'.since[Offline]
      BY <1>1, <2>4, <3>1 DEF HeldSince
    <3> QED BY <1>1, <3>1, <3>2
  <2> QED BY <2>5, <2>6
<1>3. CASE Rests \/ Hushes
  BY <1>3 DEF Rests, Hushes, Silence, Quiet
<1>4. CASE Marks
  <2>1. fired'.raised = {Offline} /\ now' = now /\ now - failing' >= Hold[Offline]
    BY <1>4 DEF Marks, Quiet
  <2>2. failing' \in Nat /\ heard'.any <= failing'
    <3>1. failing' # Never
      BY <1>1, <1>4, <2>1 DEF Marks
    <3> QED BY <1>1, <3>1 DEF HeardBefore, Moment, Time
  <2>3. now - heard'.any >= Hold[Offline]
    BY <1>1, <2>1, <2>2
  <2> QED BY <1>1, <2>1, <2>3
<1> QED BY <1>2, <1>3, <1>4, StepKinds

(* An alert is raised only behind its hold, over reloads and restarts, failed setups included: *)
(* for any holds, no document heard within it showed the fault gone, and within the offline    *)
(* hold none was heard at all (AlertTracker.update, async_report_setup_failure).               *)
THEOREM RaisesWaitForTheirHolds == Spec => HoldsAreRespected
<1>1. Init => HeardBefore /\ HoldsRest
  BY AlertsAssumption DEF Init, HeardBefore, HoldsRest
<1>2. Base /\ Base' /\ (HeardBefore /\ HoldsRest) /\ [Next]_vars => (HeardBefore /\ HoldsRest)'
  BY HeardNext, HoldsNext DEF Base
<1>3. Base /\ Base' /\ HeardBefore /\ HeardBefore' /\ HoldsRest /\ [Next]_vars =>
        [/\ \A a \in Faults \cap fired'.raised :
              heard'.shown[a] # Never /\ now' - heard'.shown[a] >= Hold[a]
         /\ Offline \in fired'.raised => now' - heard'.any >= Hold[Offline]]_vars
  BY RaisesAreHeld DEF Base
<1> QED BY <1>1, <1>2, <1>3, BaseHolds, PTL DEF Spec, HoldsAreRespected

-----------------------------------------------------------------------------
(* Paces. *)

(* What an evaluation tells, to whom it was told before. *)
LEMMA EvaluationTold ==
  ASSUME TypeOK, Kept, ClocksRun, NEW m, Publisher(m), NEW d, NEW on, NEW t \in Time,
         Evaluate(m, d, on, t), Listened
  PROVE  /\ told' = (told \ fired'.cleared) \cup fired'.raised /\ told' = memory'.active
         /\ fired'.raised \cap told = {} /\ fired'.cleared \subseteq told
         /\ fired'.reminded \subseteq told \ fired'.cleared
         /\ told \subseteq Alerts
<1>1. /\ m \in Memory /\ m.active = told /\ options.active = told /\ options \in Options
      /\ \A a \in Alerts \ m.active : m.clocks[a].since = Never
  BY PublisherReady
<1>2. told' = (told \ fired'.cleared) \cup fired'.raised
  BY DEF Listened
<1>3. told \subseteq Alerts
  BY DEF TypeOK
<1> QED BY <1>1, <1>2, <1>3, EvaluateTells

(* A publisher's clocks are no older than what was told. *)
LEMMA PublisherNoOlder ==
  ASSUME TypeOK, Kept, ClocksRun, Noticed, NEW m, Publisher(m), NEW a \in told
  PROVE  NoOlder(m.clocks[a], noticed[a])
<1>1. /\ a \in Alerts /\ options \in Options /\ options.active = told
      /\ now \in Nat /\ Never \notin Nat /\ options.clocks[a] \in Clock
  BY AlertsAssumption DEF TypeOK, Kept, StoredIsAnnounced, Options, Time
<1>2. CASE entry = "waiting" /\ m = memory
  BY <1>2 DEF Noticed
<1>3. CASE entry = "running" /\ m = memory
  BY <1>3 DEF Noticed, Kept, StoredIsAnnounced
<1>4. CASE m = Restored(now)
  <2>1. m.clocks[a] = IF options.clocks[a].since = Never THEN [options.clocks[a] EXCEPT !.since = now]
                      ELSE options.clocks[a]
    BY <1>1, <1>4 DEF Restored, RestoredClock
  <2>2. CASE options.clocks[a].since = Never
    <3>1. m.clocks[a].since = now /\ m.clocks[a].reminded = Never
      BY <1>1, <2>1, <2>2 DEF Clock, ClocksRun
    <3>2. noticed[a].raised \in Moment /\ noticed[a].last \in Moment
      BY <1>1 DEF TypeOK
    <3>3. noticed[a].raised <= noticed[a].last /\ noticed[a].last <= now
          /\ noticed[a].raised \in Nat /\ noticed[a].last \in Nat
      BY <3>2 DEF Noticed, Moment, Time
    <3>4. noticed[a].raised <= now
      BY <1>1, <3>3
    <3> QED BY <3>1, <3>3, <3>4 DEF NoOlder, Last
  <2>3. CASE options.clocks[a].since # Never
    BY <2>1, <2>3 DEF Noticed
  <2> QED BY <2>2, <2>3
<1> QED BY <1>2, <1>3, <1>4 DEF Publisher

(* An evaluation leaves clocks that are no older than what it told. *)
LEMMA EvaluateNotices ==
  ASSUME TypeOK, TypeOK', Kept, ClocksRun, Noticed, Evaluates
  PROVE  Noticed'
<1>1. PICK m : Publisher(m) /\ Evaluate(m, doc', online', now')
  BY DEF Evaluates
<1>2. /\ now \in Nat /\ now' \in Nat /\ now <= now' /\ now' \in Time /\ Never \notin Nat
      /\ entry' = "running" /\ Listened
  BY AlertsAssumption DEF TypeOK, Time, Evaluates, Heeds
<1>3. /\ told' = (told \ fired'.cleared) \cup fired'.raised /\ told' = memory'.active
      /\ fired'.raised \cap told = {} /\ told \subseteq Alerts /\ told' \subseteq Alerts
  BY <1>1, <1>2, EvaluationTold DEF TypeOK
<1> SUFFICES ASSUME NEW a \in told'
             PROVE  /\ noticed'[a].raised # Never /\ noticed'[a].last # Never
                    /\ noticed'[a].raised <= noticed'[a].last /\ noticed'[a].last <= now'
                    /\ NoOlder(options'.clocks[a], noticed'[a])
  BY <1>2 DEF Noticed
<1>4. a \in Alerts /\ a \in memory'.active
  BY <1>3
<1> DEFINE old == Carried(m, a, now')
           new == memory'.clocks[a]
<1>5. /\ options'.clocks = memory'.clocks
      /\ old.since = IF a \in told THEN m.clocks[a].since ELSE now'
      /\ old.reminded = IF a \in told THEN m.clocks[a].reminded ELSE Never
      /\ old.since \in Nat /\ old.reminded \in Moment
      /\ new.since = old.since
      /\ new.reminded = IF a \in fired'.reminded THEN now' ELSE old.reminded
  BY <1>1, <1>2, <1>4, EvaluateClocks
<1>6. noticed'[a] = IF a \in fired'.raised THEN [raised |-> now', last |-> now']
                    ELSE IF a \in fired'.reminded THEN [noticed[a] EXCEPT !.last = now']
                    ELSE noticed[a]
  BY <1>2, <1>4 DEF Listened
<1> HIDE DEF old, new
<1>7. CASE a \in fired'.raised
  <2>1. noticed'[a].raised = now' /\ noticed'[a].last = now'
    BY <1>6, <1>7
  <2>2. new.since = now' /\ Last(new) = now'
    <3>1. a \notin told
      BY <1>3, <1>7
    <3> QED BY <1>2, <1>5, <3>1 DEF Last
  <2> QED BY <1>2, <1>5, <2>1, <2>2 DEF NoOlder, new
<1>8. CASE a \notin fired'.raised
  <2>1. a \in told
    BY <1>3, <1>8
  <2>2. noticed[a] \in [raised : Moment, last : Moment]
    BY <1>4 DEF TypeOK
  <2>3. /\ noticed[a].raised \in Nat /\ noticed[a].last \in Nat
        /\ noticed[a].raised <= noticed[a].last /\ noticed[a].last <= now
    BY <2>1, <2>2 DEF Noticed, Moment, Time
  <2>4. noticed[a].raised <= old.since /\ noticed[a].last <= Last(old)
    <3>1. NoOlder(m.clocks[a], noticed[a])
      BY <1>1, <2>1, PublisherNoOlder
    <3>2. old.since = m.clocks[a].since /\ old.reminded = m.clocks[a].reminded
      BY <1>5, <2>1
    <3>3. old.since # Never
      BY <1>2, <1>5
    <3> QED BY <3>1, <3>2, <3>3 DEF NoOlder, Last
  <2>5. CASE a \in fired'.reminded
    <3>1. noticed'[a].raised = noticed[a].raised /\ noticed'[a].last = now'
      BY <1>6, <1>8, <2>2, <2>5
    <3>2. new.since = old.since /\ Last(new) = now'
      BY <1>2, <1>5, <2>5 DEF Last
    <3> QED BY <1>2, <1>5, <2>3, <2>4, <3>1, <3>2 DEF NoOlder, new
  <2>6. CASE a \notin fired'.reminded
    <3>1. noticed'[a] = noticed[a]
      BY <1>6, <1>8, <2>6
    <3>2. new.since = old.since /\ Last(new) = Last(old)
      BY <1>5, <2>6 DEF Last
    <3>3. noticed[a].last <= now'
      BY <1>2, <2>3
    <3>4. noticed[a].raised # Never /\ noticed[a].last # Never
      BY <1>2, <2>3
    <3> QED BY <1>5, <2>3, <2>4, <3>1, <3>2, <3>3, <3>4 DEF NoOlder, new
  <2> QED BY <2>5, <2>6
<1> QED BY <1>7, <1>8

(* A step that does not evaluate keeps them so. *)
LEMMA NoticedNext ==
  ASSUME TypeOK, TypeOK', Kept, Armed, ClocksRun, Noticed, [Next]_vars
  PROVE  Noticed'
<1>1. /\ now \in Nat /\ now' \in Nat /\ Never \notin Nat /\ told \subseteq Alerts /\ told' \subseteq Alerts
      /\ \A a \in told : /\ noticed[a].raised \in Nat /\ noticed[a].last \in Nat
                         /\ noticed[a].raised <= noticed[a].last /\ noticed[a].last <= now
  <2>1. told \subseteq Alerts /\ \A a \in told : noticed[a] \in [raised : Moment, last : Moment]
    BY DEF TypeOK
  <2>2. ASSUME NEW a \in told
        PROVE  /\ noticed[a].raised \in Nat /\ noticed[a].last \in Nat
               /\ noticed[a].raised <= noticed[a].last /\ noticed[a].last <= now
    BY <2>1 DEF Noticed, Moment, Time
  <2> QED BY <2>1, <2>2, AlertsAssumption DEF TypeOK, Time
<1>2. CASE Evaluates
  BY <1>2, EvaluateNotices
<1>3. CASE Rests
  <2>1. /\ told' = told /\ options' = options /\ now <= now'
        /\ \A a \in Alerts : noticed'[a] = noticed[a]
    BY <1>1, <1>3 DEF Rests, Heeds, Listened, Quiet
  <2>2. ASSUME NEW a \in told, entry' = "waiting" PROVE NoOlder(memory'.clocks[a], noticed[a])
    BY <1>3, <2>2, PublisherNoOlder DEF Rests
  <2>3. ASSUME NEW a \in told
        PROVE  /\ noticed'[a].raised # Never /\ noticed'[a].last # Never
               /\ noticed'[a].raised <= noticed'[a].last /\ noticed'[a].last <= now'
               /\ NoOlder(options'.clocks[a], noticed'[a])
    <3>1. noticed'[a] = noticed[a]
      BY <1>1, <2>1
    <3>2. noticed[a].last <= now'
      BY <1>1, <2>1
    <3> QED BY <1>1, <2>1, <3>1, <3>2 DEF Noticed
  <2> QED BY <1>1, <2>1, <2>2, <2>3 DEF Noticed
<1>4. CASE Marks
  <2>1. /\ fired'.raised = {Offline} /\ fired'.reminded = {} /\ fired'.cleared = {}
        /\ now' = now /\ entry' = "off" /\ Offline \in Alerts
        /\ Offline \notin options.active
    BY <1>4 DEF Marks, Quiet, Alerts
  <2>2. options'.clocks = options.clocks /\ options.clocks[Offline].since = Never
    BY <1>4, <2>1 DEF Marks, TypeOK, Options, ClocksRun
  <2>3. /\ told' = told \cup {Offline}
        /\ noticed'[Offline] = [raised |-> now', last |-> now']
        /\ \A a \in Alerts \ {Offline} : noticed'[a] = noticed[a]
    BY <1>4, <2>1 DEF Marks, Listened
  <2>4. ASSUME NEW a \in told'
        PROVE  /\ noticed'[a].raised # Never /\ noticed'[a].last # Never
               /\ noticed'[a].raised <= noticed'[a].last /\ noticed'[a].last <= now'
               /\ NoOlder(options'.clocks[a], noticed'[a])
    <3>1. CASE a = Offline
      BY <1>1, <2>1, <2>2, <2>3, <3>1 DEF NoOlder
    <3>2. CASE a # Offline
      <4>1. a \in told /\ noticed'[a] = noticed[a]
        BY <1>1, <2>3, <3>2
      <4> QED BY <2>1, <2>2, <4>1 DEF Noticed
    <3> QED BY <3>1, <3>2
  <2> QED BY <2>1, <2>4 DEF Noticed
<1>5. ASSUME NEW a \in Alerts, NEW phone \in Phones, Silence(a, phone)
      PROVE  Noticed'
  <2>1. /\ UNCHANGED <<now, entry, told, noticed>>
        /\ \A b \in Alerts :
             /\ memory'.clocks[b].since = memory.clocks[b].since
             /\ memory'.clocks[b].reminded = memory.clocks[b].reminded
             /\ options'.clocks[b].since = options.clocks[b].since
             /\ options'.clocks[b].reminded = options.clocks[b].reminded
    BY <1>5, HushSays
  <2>2. \A b \in told : /\ NoOlder(options'.clocks[b], noticed[b]) <=> NoOlder(options.clocks[b], noticed[b])
                        /\ NoOlder(memory'.clocks[b], noticed[b]) <=> NoOlder(memory.clocks[b], noticed[b])
    BY <1>1, <2>1 DEF NoOlder, Last
  <2> QED BY <2>1, <2>2 DEF Noticed
<1>6. CASE UNCHANGED vars
  BY <1>6 DEF vars, Noticed
<1> QED BY <1>2, <1>3, <1>4, <1>5, <1>6, StepKinds DEF Hushes

(* What a reminder waits for. *)
Paced ==
  \A a \in fired'.reminded :
    IF a \in Urgent THEN now' - noticed[a].last >= Interval
    ELSE \E slot \in Slots(now') : /\ LastSlot(slot, now') /\ now' - slot < Grace
                                   /\ noticed[a].last < slot
                                   /\ slot - noticed[a].raised >= MinAge

(* A reminder comes at its pace. *)
LEMMA RemindersPaced ==
  ASSUME TypeOK, TypeOK', Kept, Armed, ClocksRun, Noticed, Next, NEW a \in fired'.reminded
  PROVE  IF a \in Urgent THEN now' - noticed[a].last >= Interval
         ELSE \E slot \in Slots(now') : /\ LastSlot(slot, now') /\ now' - slot < Grace
                                        /\ noticed[a].last < slot
                                        /\ slot - noticed[a].raised >= MinAge
<1>1. CASE Evaluates
  <2>1. PICK m : Publisher(m) /\ Evaluate(m, doc', online', now')
    BY <1>1 DEF Evaluates
  <2>2. /\ now' \in Nat /\ now' \in Time /\ Never \notin Nat /\ Listened
        /\ Interval \in Nat /\ MinAge \in Nat /\ Grace \in Nat
    BY <1>1, AlertsAssumption DEF TypeOK, Time, Evaluates
  <2>3. a \in told /\ a \in Alerts /\ a \in memory'.active
    BY <2>1, <2>2, EvaluationTold
  <2>4. m \in Memory /\ options \in Options
    BY <2>1, PublisherReady
  <2> DEFINE old == Carried(m, a, now')
             truth == Truth(a, doc', online', m.active)
  <2>5. Due(a, old, truth, now')
    BY <2>1, <2>3, <2>4, EvaluateReminds, Zenon
  <2>6. /\ old.since = m.clocks[a].since /\ old.reminded = m.clocks[a].reminded
        /\ old.since \in Nat /\ old.reminded \in Moment
    BY <2>1, <2>2, <2>3, EvaluateClocks
  <2> HIDE DEF old, truth
  <2>7. /\ noticed[a].raised \in Nat /\ noticed[a].last \in Nat
        /\ noticed[a].raised <= old.since /\ noticed[a].last <= Last(old)
    <3>1. NoOlder(m.clocks[a], noticed[a])
      BY <2>1, <2>3, PublisherNoOlder
    <3>2. noticed[a] \in [raised : Moment, last : Moment]
      BY <2>3 DEF TypeOK
    <3>3. noticed[a].raised \in Nat /\ noticed[a].last \in Nat
      BY <2>3, <3>2 DEF Noticed, Moment, Time
    <3>4. old.since # Never
      BY <2>2, <2>6
    <3> QED BY <2>6, <3>1, <3>3, <3>4 DEF NoOlder, Last
  <2>8. Last(old) \in Nat
    BY <2>6 DEF Last, Moment, Time
  <2>9. CASE a \in Urgent
    <3>1. now' - Last(old) >= Interval
      BY <2>5, <2>9 DEF Due, Last
    <3> QED BY <2>2, <2>7, <2>8, <2>9, <3>1
  <2>10. CASE a \notin Urgent
    <3>1. PICK slot \in Slots(now') : /\ LastSlot(slot, now')
                                      /\ slot > Last(old) /\ slot - old.since >= MinAge
                                      /\ now' - slot < Grace
      BY <2>5, <2>10 DEF Due, Last
    <3>2. slot \in Int
      BY <2>2, AlertsAssumption DEF Slots
    <3>3. noticed[a].last < slot /\ slot - noticed[a].raised >= MinAge
      BY <2>2, <2>6, <2>7, <2>8, <3>1, <3>2
    <3> QED BY <2>10, <3>1, <3>3
  <2> QED BY <2>9, <2>10
<1>2. CASE Rests \/ Marks \/ Hushes
  BY <1>2 DEF Rests, Marks, Hushes, Silence, Quiet
<1> QED BY <1>1, <1>2, StepKinds

(* Reminders keep their pace over reloads and restarts, for any day, set times and interval:  *)
(* an urgent alert an interval after its last notice, any other within the grace of a set     *)
(* time, once for each, and never of a fresh alert (Reminders.due, _restore_reminders).       *)
THEOREM RemindersArePaced == Spec => RemindersKeepTheirPace
<1>1. Init => Noticed
  BY DEF Init, Noticed
<1>2. Base /\ Base' /\ Noticed /\ [Next]_vars => Noticed'
  BY NoticedNext DEF Base
<1>3. Base /\ Base' /\ Noticed /\ [Next]_vars => [Paced]_vars
  BY RemindersPaced DEF Base, Paced
<1>4. [][Paced]_vars => RemindersKeepTheirPace
  BY DEF Paced, RemindersKeepTheirPace
<1>5. Spec => [][Paced]_vars
  BY <1>1, <1>2, <1>3, BaseHolds, PTL DEF Spec
<1> QED BY <1>4, <1>5, PTL

-----------------------------------------------------------------------------
(* Gauges. *)

(* What a step keeps of the levels heard, and adds to them. *)
LEMMA LowestSays ==
  ASSUME TypeOK, TypeOK', Listened, NEW a \in Gauges, a \notin fired'.raised
  PROVE  LET level == doc'.level[a] IN
         /\ noticed'[a].raised = noticed[a].raised
         /\ lowest[a] # Never => lowest'[a] \in Nat /\ lowest'[a] <= lowest[a]
         /\ level # Never => level \in Nat /\ lowest'[a] \in Nat /\ lowest'[a] <= level
<1>1. /\ Never \notin Nat /\ lowest[a] \in Nat \cup {Never}
      /\ noticed[a] \in [raised : Moment, last : Moment] /\ a \in Alerts
  BY AlertsAssumption DEF TypeOK, Alerts
<1>2. doc'.level[a] \in Nat \cup {Never}
  <2>1. doc'.level \in [Gauges -> Levels \cup {Never}] /\ Levels \subseteq Nat
    BY AlertsAssumption DEF TypeOK, Doc
  <2> QED BY <2>1
<1>3. lowest'[a] = IF doc'.level[a] # Never /\ (lowest[a] = Never \/ doc'.level[a] < lowest[a])
                   THEN doc'.level[a] ELSE lowest[a]
  BY DEF Listened
<1>4. noticed'[a].raised = noticed[a].raised
  BY <1>1 DEF Listened
<1> QED BY <1>1, <1>2, <1>3, <1>4

(* A step that does not clear a gauge keeps what was heard of it. *)
LEMMA RecededKept ==
  ASSUME TypeOK, TypeOK', Listened, Receded, NEW a \in Gauges, a \notin fired'.raised,
         a \notin told, noticed'[a].raised # Never
  PROVE  lowest'[a] # Never /\ lowest'[a] <= Threshold - Margin
<1>1. lowest[a] # Never /\ lowest[a] <= Threshold - Margin
  BY LowestSays DEF Receded
<1>2. lowest[a] \in Nat /\ lowest'[a] \in Nat /\ lowest'[a] <= lowest[a]
  BY <1>1, LowestSays DEF TypeOK
<1> QED BY <1>1, <1>2, AlertsAssumption

(* Every step keeps clear gauges a margin past their threshold. *)
LEMMA RecededNext ==
  ASSUME TypeOK, TypeOK', Kept, Armed, ClocksRun, Receded, [Next]_vars
  PROVE  Receded'
<1>1. Threshold \in Nat /\ Margin \in Nat /\ Never \notin Nat /\ Offline \notin Gauges /\ Gauges \subseteq Alerts
  BY AlertsAssumption DEF Alerts
<1>2. CASE Evaluates
  <2>1. PICK m : Publisher(m) /\ Evaluate(m, doc', online', now')
    BY <1>2 DEF Evaluates
  <2>2. now' \in Time /\ Listened
    BY <1>2 DEF Evaluates, TypeOK
  <2>3. told' = (told \ fired'.cleared) \cup fired'.raised /\ m.active = told
    BY <2>1, <2>2, EvaluationTold, PublisherReady
  <2> SUFFICES ASSUME NEW a \in Gauges \ told', noticed'[a].raised # Never
               PROVE  lowest'[a] # Never /\ lowest'[a] <= Threshold - Margin
    BY DEF Receded
  <2>4. a \in Alerts /\ a \notin fired'.raised /\ a # Offline
    BY <1>1, <2>3
  <2>5. CASE a \notin told
    BY <2>2, <2>4, <2>5, RecededKept
  <2>6. CASE a \in told
    <3>1. Truth(a, doc', online', m.active) = "no"
      BY <2>1, <2>3, <2>4, <2>6, EvaluateClears
    <3>2. doc'.level[a] # Never /\ ~(doc'.level[a] > Threshold - Margin)
      BY <2>3, <2>4, <2>6, <3>1, TruthIs DEF Reading
    <3>3. doc'.level[a] \in Nat /\ lowest'[a] \in Nat /\ lowest'[a] <= doc'.level[a]
      BY <2>2, <2>4, <3>2, LowestSays
    <3> QED BY <1>1, <3>2, <3>3
  <2> QED BY <2>5, <2>6
<1>3. CASE Rests \/ Marks
  <2>1. Listened /\ fired'.raised \subseteq {Offline} /\ fired'.cleared = {}
    BY <1>3 DEF Rests, Marks, Quiet
  <2>2. told \subseteq told'
    BY <2>1 DEF Listened
  <2> QED BY <1>1, <2>1, <2>2, RecededKept DEF Receded
<1>4. CASE Hushes
  BY <1>4 DEF Hushes, Silence, Receded
<1>5. CASE UNCHANGED vars
  BY <1>5 DEF vars, Receded
<1> QED BY <1>2, <1>3, <1>4, <1>5, StepKinds

(* A gauge is raised again only after its level was heard a margin past the threshold, for   *)
(* any threshold and margin: a level that wanders across the line, also across a restart, is *)
(* one alert (conditions, LEVEL_MARGIN).                                                     *)
THEOREM GaugesRecedeFirst == Spec => GaugesDoNotFlap
<1>1. Init => Receded
  BY AlertsAssumption DEF Init, Receded, Alerts
<1>2. Base /\ Base' /\ Receded /\ [Next]_vars => Receded'
  BY RecededNext DEF Base
<1>3. Base /\ Base' /\ Receded /\ [Next]_vars =>
        [\A a \in Gauges \cap fired'.raised :
           noticed[a].raised # Never => lowest[a] # Never /\ lowest[a] <= Threshold - Margin]_vars
  <2> SUFFICES ASSUME Base, Base', Receded, Next, NEW a \in Gauges \cap fired'.raised,
                      noticed[a].raised # Never
               PROVE  lowest[a] # Never /\ lowest[a] <= Threshold - Margin
    OBVIOUS
  <2>2. Evaluates \/ Rests \/ Marks \/ Hushes
    BY StepKinds DEF Base
  <2>3. CASE Evaluates
    <3>1. PICK m : Publisher(m) /\ Evaluate(m, doc', online', now')
      BY <2>3 DEF Evaluates
    <3>2. a \notin told
      BY <2>3, <3>1, EvaluationTold DEF Base, Evaluates, TypeOK
    <3> QED BY <3>2 DEF Receded
  <2>4. CASE Rests \/ Marks \/ Hushes
    BY <2>4, AlertsAssumption DEF Rests, Marks, Hushes, Silence, Quiet
  <2> QED BY <2>2, <2>3, <2>4
<1> QED BY <1>1, <1>2, <1>3, BaseHolds, PTL DEF Spec, GaugesDoNotFlap

-----------------------------------------------------------------------------
(* Silences. *)

(* A publisher knows who asked for silence. *)
LEMMA PublisherHushed ==
  ASSUME TypeOK, Kept, ClocksRun, Asked, NEW m, Publisher(m), NEW a \in told
  PROVE  asked[a] \subseteq m.clocks[a].silenced
<1>1. /\ a \in Alerts /\ options.active = told /\ options.clocks[a] \in Clock
      /\ asked[a] \subseteq options.clocks[a].silenced
  BY DEF TypeOK, Kept, StoredIsAnnounced, Options, Asked
<1>2. CASE entry = "waiting" /\ m = memory
  BY <1>1, <1>2 DEF Asked
<1>3. CASE entry = "running" /\ m = memory
  BY <1>1, <1>3 DEF Kept, StoredIsAnnounced
<1>4. CASE m = Restored(now)
  <2>1. m.clocks[a] = IF options.clocks[a].since = Never THEN [options.clocks[a] EXCEPT !.since = now]
                      ELSE options.clocks[a]
    BY <1>1, <1>4 DEF Restored, RestoredClock
  <2>2. m.clocks[a].silenced = options.clocks[a].silenced
    BY <1>1, <2>1 DEF Clock
  <2> QED BY <1>1, <2>2
<1> QED BY <1>2, <1>3, <1>4 DEF Publisher

(* Every step keeps who asked for silence on the clocks. *)
LEMMA AskedNext ==
  ASSUME TypeOK, TypeOK', Kept, Armed, ClocksRun, Asked, [Next]_vars
  PROVE  Asked'
<1>1. told \subseteq Alerts /\ asked \in [Alerts -> SUBSET Phones]
  BY DEF TypeOK
<1>2. CASE Evaluates
  <2>1. PICK m : Publisher(m) /\ Evaluate(m, doc', online', now')
    BY <1>2 DEF Evaluates
  <2>2. now' \in Time /\ Listened /\ entry' = "running"
    BY <1>2 DEF Evaluates, TypeOK
  <2>3. /\ told' = (told \ fired'.cleared) \cup fired'.raised /\ told' = memory'.active
        /\ fired'.raised \cap told = {}
    BY <2>1, <2>2, EvaluationTold
  <2> SUFFICES ASSUME NEW a \in Alerts
               PROVE  /\ a \notin told' => asked'[a] = {}
                      /\ a \in told' => asked'[a] \subseteq options'.clocks[a].silenced
    BY <2>2 DEF Asked
  <2>4. asked'[a] = IF a \in fired'.cleared THEN {} ELSE asked[a]
    BY <2>2 DEF Listened
  <2>5. CASE a \notin told
    BY <2>4, <2>5 DEF Asked
  <2>6. CASE a \in told /\ a \in told'
    <3>1. options'.clocks[a].silenced = m.clocks[a].silenced
      BY <2>1, <2>2, <2>3, <2>6, EvaluateClocks
    <3>2. asked[a] \subseteq m.clocks[a].silenced
      BY <2>1, <2>6, PublisherHushed
    <3> QED BY <2>4, <2>6, <3>1, <3>2
  <2>7. CASE a \in told /\ a \notin told'
    BY <2>3, <2>4, <2>7
  <2> QED BY <2>5, <2>6, <2>7
<1>3. CASE Rests
  <2>1. /\ told' = told /\ options' = options
        /\ \A a \in Alerts : asked'[a] = asked[a]
    BY <1>3 DEF Rests, Listened, Quiet
  <2>2. ASSUME NEW a \in told, entry' = "waiting" PROVE asked[a] \subseteq memory'.clocks[a].silenced
    BY <1>3, <2>2, PublisherHushed DEF Rests
  <2> QED BY <2>1, <2>2 DEF Asked
<1>4. CASE Marks
  <2>1. /\ options'.clocks = options.clocks /\ entry' = "off"
        /\ fired'.raised = {Offline} /\ fired'.cleared = {} /\ Offline \notin told
    BY <1>4 DEF Marks, Quiet, TypeOK, Options, Kept, StoredIsAnnounced
  <2>2. told' = told \cup {Offline} /\ \A a \in Alerts : asked'[a] = asked[a]
    BY <1>4, <2>1 DEF Marks, Listened
  <2> QED BY <2>1, <2>2 DEF Asked
<1>5. ASSUME NEW a \in Alerts, NEW phone \in Phones, Silence(a, phone)
      PROVE  Asked'
  <2>1. UNCHANGED <<entry, told>>
    BY <1>5, HushSays
  <2>2. \A b \in Alerts :
          /\ memory.clocks[b].silenced \subseteq memory'.clocks[b].silenced
          /\ options.clocks[b].silenced \subseteq options'.clocks[b].silenced
    BY <1>5, HushSays
  <2>3. \/ asked' = asked
        \/ /\ entry = "running" /\ a \in told /\ asked' = [asked EXCEPT ![a] = @ \cup {phone}]
           /\ phone \in options'.clocks[a].silenced
    BY <1>5, HushSays, Zenon
  <2>4. CASE asked' = asked
    BY <2>1, <2>2, <2>4 DEF Asked
  <2>5. CASE /\ entry = "running" /\ a \in told /\ asked' = [asked EXCEPT ![a] = @ \cup {phone}]
             /\ phone \in options'.clocks[a].silenced
    <3>1. \A b \in Alerts : asked'[b] = IF b = a THEN asked[a] \cup {phone} ELSE asked[b]
      BY <1>1, <2>5
    <3> QED BY <2>1, <2>2, <2>5, <3>1 DEF Asked
  <2> QED BY <2>3, <2>4, <2>5
<1>6. CASE UNCHANGED vars
  BY <1>6 DEF vars, Asked
<1> QED BY <1>2, <1>3, <1>4, <1>5, <1>6, StepKinds DEF Hushes

(* A phone whose tap on Silence the publisher heard is named on every reminder until the     *)
(* alert clears, for any phones, over reloads and restarts (_silence, _restore_reminders).   *)
THEOREM SilencesAreKept == Spec => SilencedStaySilent
<1>1. Init => Asked
  BY DEF Init, Asked
<1>2. Base /\ Base' /\ Asked /\ [Next]_vars => Asked'
  BY AskedNext DEF Base
<1>3. Base /\ Base' /\ Asked /\ [Next]_vars =>
        [\A a \in fired'.reminded : asked[a] \subseteq fired'.silenced[a]]_vars
  <2> SUFFICES ASSUME Base, Base', Asked, Next, NEW a \in fired'.reminded
               PROVE  asked[a] \subseteq fired'.silenced[a]
    OBVIOUS
  <2>1. CASE Evaluates
    <3>1. PICK m : Publisher(m) /\ Evaluate(m, doc', online', now')
      BY <2>1 DEF Evaluates
    <3>2. TypeOK /\ Kept /\ ClocksRun /\ now' \in Time /\ Listened
      BY <2>1 DEF Base, Evaluates, TypeOK
    <3>3. a \in told /\ a \in Alerts /\ a \in memory'.active /\ m \in Memory /\ options \in Options
      BY <3>1, <3>2, EvaluationTold, PublisherReady
    <3>4. fired'.silenced[a] = memory'.clocks[a].silenced
      BY <3>1, <3>3, EvaluateReminds, Zenon
    <3>5. memory'.clocks[a].silenced = m.clocks[a].silenced
      BY <3>1, <3>2, <3>3, EvaluateClocks
    <3>6. asked[a] \subseteq m.clocks[a].silenced
      BY <3>1, <3>2, <3>3, PublisherHushed
    <3> QED BY <3>4, <3>5, <3>6
  <2>2. CASE Rests \/ Marks \/ Hushes
    BY <2>2 DEF Rests, Marks, Hushes, Silence, Quiet
  <2> QED BY <2>1, <2>2, StepKinds DEF Base
<1> QED BY <1>1, <1>2, <1>3, BaseHolds, PTL DEF Spec, SilencedStaySilent
=============================================================================
