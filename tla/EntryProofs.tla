----------------------------- MODULE EntryProofs -----------------------------
(***************************************************************************)
(* What holds of an entry and its derived state for every robot, message   *)
(* and number of readings: what a message, folded reading by reading, may  *)
(* do to a state, and what of that outlives reloads, restarts and crashes. *)
(***************************************************************************)
EXTENDS Entry, FiniteSetTheorems, WellFoundedInduction, TLAPS

-----------------------------------------------------------------------------
(* What a message may do to a state *)

(* The fields of a state that a reading may leave untouched, and all that are followed here. *)
Untouched == {"fill", "loadedSince", "excessRestored", "pending", "pendingAt"}
Followed == Untouched \cup {"stale", "sightings"}

(* A state, or the snapshot of one. *)
IsState(s) ==
  /\ Followed \subseteq DOMAIN s
  /\ s.stale \in BOOLEAN
  /\ Capabilities \subseteq DOMAIN s.sightings

(* t differs from s in nothing that is followed, but for the gauge being stale. *)
Leaves(s, t) ==
  /\ IsState(t)
  /\ \A f \in Untouched : t[f] = s[f]
  /\ t.sightings["hopper"] = s.sightings["hopper"]

(* What most of the reducer does: an update keeps what is followed, and says so when it calls *)
(* the gauge stale.                                                                            *)
Keeps(u, v) ==
  /\ {"state", "effects"} \subseteq DOMAIN v
  /\ u.effects \subseteq v.effects
  /\ Leaves(u.state, v.state)
  /\ v.state.stale = u.state.stale \/ <<"stale">> \in v.effects

LEMMA KeepsIsTransitive ==
  ASSUME NEW u, NEW v, NEW w, Keeps(u, v), Keeps(v, w)
  PROVE  Keeps(u, w)
BY DEF Keeps, Leaves

LEMMA KeepsItself ==
  ASSUME NEW u, {"state", "effects"} \subseteq DOMAIN u, IsState(u.state)
  PROVE  Keeps(u, u)
BY DEF Keeps, Leaves

LEMMA ExceptLeaves ==
  ASSUME NEW s, IsState(s), NEW f, f \notin Followed, NEW e
  PROVE  Leaves(s, [s EXCEPT ![f] = e]) /\ [s EXCEPT ![f] = e].stale = s.stale
BY Zenon DEF IsState, Leaves, Followed, Untouched

LEMMA WithKeeps ==
  ASSUME NEW u, {"state", "effects"} \subseteq DOMAIN u, NEW t, Leaves(u.state, t), t.stale = u.state.stale
  PROVE  Keeps(u, With(u, t))
BY Zenon DEF Keeps, With

LEMMA AndKeeps ==
  ASSUME NEW u, NEW t, NEW effect, Leaves(u.state, t), t.stale = u.state.stale \/ effect = <<"stale">>
  PROVE  Keeps(u, And(u, t, effect))
BY DEF Keeps, And

LEMMA SightKeeps ==
  ASSUME NEW u, IsState(u.state), NEW c \in Capabilities \ {"hopper"}, NEW evidence
  PROVE  Keeps(u, Sight(u, c, evidence))
<1> DEFINE s == [u.state EXCEPT !.reported = @ \cup {c}]
           known == And(u, s, <<"changed">>)
           t == [s EXCEPT !.sightings[c] = evidence]
<1>1. Leaves(u.state, s) /\ s.stale = u.state.stale /\ s.sightings = u.state.sightings
  BY Zenon DEF IsState, Leaves, Followed, Untouched
<1>2. IsState(s)
  BY <1>1 DEF Leaves
<1>3. t.sightings = [s.sightings EXCEPT ![c] = evidence]
  BY <1>2, Zenon DEF IsState, Followed
<1>4. Leaves(s, t) /\ t.stale = s.stale
  <2>1. /\ DOMAIN t = DOMAIN s /\ t.stale = s.stale
        /\ \A f \in Untouched : t[f] = s[f]
    BY <1>2, Zenon DEF IsState, Followed, Untouched
  <2>2. "hopper" \in Capabilities
    BY DEF Capabilities
  <2>3. DOMAIN t.sightings = DOMAIN s.sightings /\ t.sightings["hopper"] = s.sightings["hopper"]
    BY <1>2, <1>3, <2>2, Zenon DEF IsState
  <2> QED BY <1>2, <2>1, <2>3, Zenon DEF IsState, Leaves
<1>5. Keeps(u, known)
  BY <1>1, AndKeeps
<1>6. known.state = s
  BY DEF And
<1>7. Keeps(known, And(known, t, <<"sighted", c>>))
  BY <1>4, <1>6, AndKeeps
<1>8. Sight(u, c, evidence) \in {known, And(known, t, <<"sighted", c>>)}
  BY <1>6, Zenon DEF Sight
<1> QED BY <1>5, <1>7, <1>8, KeepsIsTransitive

LEMMA WatchCycleKeeps ==
  ASSUME NEW u, {"state", "effects"} \subseteq DOMAIN u, IsState(u.state), NEW doc
  PROVE  Keeps(u, WatchCycle(u, doc))
<1> DEFINE v == WatchCycle(u, doc)
           running == [u.state EXCEPT !.cycleRunning = TRUE]
           stopped == [u.state EXCEPT !.cycleRunning = FALSE]
<1>1. Leaves(u.state, running) /\ running.stale = u.state.stale
  BY ExceptLeaves, Zenon DEF Followed, Untouched
<1>2. Leaves(u.state, stopped) /\ stopped.stale = u.state.stale
  BY ExceptLeaves, Zenon DEF Followed, Untouched
<1>3. v = With(u, running) \/ v = And(u, stopped, <<"cycle", doc.cycles>>) \/ v = u
  BY Zenon DEF WatchCycle
<1> QED BY <1>1, <1>2, <1>3, WithKeeps, AndKeeps, KeepsItself

LEMMA WatchVisitKeeps ==
  ASSUME NEW u, {"state", "effects"} \subseteq DOMAIN u, IsState(u.state), NEW doc, NEW time
  PROVE  Keeps(u, WatchVisit(u, doc, time))
<1> DEFINE v == WatchVisit(u, doc, time)
           started == u.state.visitStarted
           begun == [u.state EXCEPT !.visitStarted = IF @ = None THEN time ELSE @]
           over == [u.state EXCEPT !.visitStarted = None]
<1>1. Leaves(u.state, begun) /\ begun.stale = u.state.stale
  BY Zenon DEF IsState, Leaves, Followed, Untouched
<1>2. Leaves(u.state, over) /\ over.stale = u.state.stale
  BY ExceptLeaves, Zenon DEF Followed, Untouched
<1>3. v = With(u, begun) \/ v = With(u, over) \/ v = And(u, over, <<"visit", started, time>>) \/ v = u
  <2> DEFINE timed == IF started # None /\ doc.beam = FALSE /\ doc.loaded = FALSE
                      THEN And(u, over, <<"visit", started, time>>) ELSE u
             wBegun == With(u, begun)
             wOver == With(u, over)
  <2>1. timed = And(u, over, <<"visit", started, time>>) \/ timed = u
    BY Zenon
  <2>2. v = CASE doc.status = "cat_detected" -> wBegun
              [] doc.status = "cat_sensor_timing" -> timed
              [] doc.status \notin {"cat_detected", "cat_sensor_timing", None} -> wOver
              [] OTHER -> u
    BY Zenon DEF WatchVisit
  <2> HIDE DEF timed, wBegun, wOver, v
  <2>3. v = wBegun \/ v = timed \/ v = wOver \/ v = u
    BY <2>2, Zenon
  <2> QED BY <2>1, <2>3, Zenon DEF wBegun, wOver
<1> QED BY <1>1, <1>2, <1>3, WithKeeps, AndKeeps, KeepsItself

LEMMA ArriveKeeps ==
  ASSUME NEW u, {"state", "effects"} \subseteq DOMAIN u, IsState(u.state), NEW doc
  PROVE  Keeps(u, Arrive(u, doc))
<1> DEFINE v == IF u.state.occupied = FALSE /\ doc.beam = TRUE
                THEN Sight(u, "cat_visit", "occupancy") ELSE u
           s == [v.state EXCEPT !.occupied = doc.beam]
<1>1. Keeps(u, v)
  <2>1. "cat_visit" \in Capabilities \ {"hopper"}
    BY DEF Capabilities
  <2> QED BY <2>1, SightKeeps, KeepsItself
<1>2. {"state", "effects"} \subseteq DOMAIN v /\ IsState(v.state)
  BY <1>1 DEF Keeps, Leaves
<1>3. Leaves(v.state, s) /\ s.stale = v.state.stale
  <2> HIDE DEF v
  <2> QED BY <1>2, ExceptLeaves, Zenon DEF Followed, Untouched
<1>4. Keeps(v, With(v, s))
  BY <1>2, <1>3, WithKeeps
<1>5. Arrive(u, doc) = With(v, s)
  BY Zenon DEF Arrive
<1> QED BY <1>1, <1>4, <1>5, KeepsIsTransitive

LEMMA WatchForTopUpKeeps ==
  ASSUME NEW u, {"state", "effects"} \subseteq DOMAIN u, IsState(u.state), NEW mm
  PROVE  Keeps(u, WatchForTopUp(u, mm))
<1> DEFINE s == u.state
           v == WatchForTopUp(u, mm)
           direction == IF mm < s.baseline THEN 1 ELSE -1
           counted == [s EXCEPT !.steps = Held(s.steps, direction)]
           settled == [s EXCEPT !.baseline = mm, !.steps = 0]
           called == [settled EXCEPT !.stale = TRUE]
<1>1. Leaves(s, counted) /\ counted.stale = s.stale
  BY Zenon DEF IsState, Leaves, Followed, Untouched
<1>2. Leaves(s, settled) /\ settled.stale = s.stale
  BY Zenon DEF IsState, Leaves, Followed, Untouched
<1>3. Leaves(s, called)
  <2>1. IsState(settled)
    BY <1>2 DEF Leaves
  <2>2. Leaves(settled, called)
    BY <2>1, Zenon DEF IsState, Leaves, Followed, Untouched
  <2> QED BY <1>2, <2>2 DEF Leaves
<1>4. v = With(u, counted) \/ v = With(u, settled) \/ v = And(u, called, <<"stale">>) \/ v = u
  BY Zenon DEF WatchForTopUp
<1> QED BY <1>1, <1>2, <1>3, <1>4, WithKeeps, AndKeeps, KeepsItself

LEMMA LearnedKeeps ==
  ASSUME NEW u, {"state", "effects"} \subseteq DOMAIN u, NEW t, NEW moved \in BOOLEAN,
         Leaves(u.state, t), t.stale = u.state.stale
  PROVE  Keeps(u, Learned(u, t, moved))
BY DEF Keeps, Learned

LEMMA LearnLitterKeeps ==
  ASSUME NEW u, {"state", "effects"} \subseteq DOMAIN u, IsState(u.state), NEW doc, NEW time
  PROVE  Keeps(u, LearnLitter(u, doc, time))
<1> DEFINE s == [u.state EXCEPT !.litterAt = time]
           v == With(u, s)
           w == WatchForTopUp(v, doc.level)
           litter == Observe(w.state.litter, doc.level, LitterLevel)
           t == [w.state EXCEPT !.litter = litter]
           moved == Moved(w.state.litter, litter)
<1>1. Leaves(u.state, s) /\ s.stale = u.state.stale
  BY ExceptLeaves, Zenon DEF Followed, Untouched
<1>2. Keeps(u, v)
  BY <1>1, WithKeeps
<1>3. Keeps(v, w)
  BY <1>2, WatchForTopUpKeeps DEF Keeps, Leaves
<1>4. {"state", "effects"} \subseteq DOMAIN w /\ IsState(w.state)
  BY <1>3 DEF Keeps, Leaves
<1>5. Leaves(w.state, t) /\ t.stale = w.state.stale
  BY <1>4, ExceptLeaves, Zenon DEF Followed, Untouched
<1>6. moved \in BOOLEAN
  BY DEF Moved
<1>7. Keeps(w, Learned(w, t, moved))
  BY <1>4, <1>5, <1>6, LearnedKeeps
<1>8. LearnLitter(u, doc, time) \in {u, v, Learned(w, t, moved)}
  BY Zenon DEF LearnLitter
<1> QED BY <1>2, <1>3, <1>7, <1>8, KeepsIsTransitive, KeepsItself

(* What a document may do to what is followed: it weighs the pan. *)
Weighed(s, t, doc, time) ==
  /\ IsState(t)
  /\ \A f \in {"fill", "pending", "pendingAt"} : t[f] = s[f]
  /\ t.sightings["hopper"] = s.sightings["hopper"]
  /\ \/ /\ doc.loaded = TRUE
        /\ t.loadedSince = (IF s.loadedSince = None THEN time ELSE s.loadedSince)
        /\ t.excessRestored = s.excessRestored
     \/ doc.loaded = FALSE /\ t.loadedSince = None /\ t.excessRestored = None
     \/ /\ doc.loaded \notin BOOLEAN
        /\ t.loadedSince = s.loadedSince /\ t.excessRestored = s.excessRestored

LEMMA WeighWeighs ==
  ASSUME NEW s, IsState(s), NEW doc, NEW time
  PROVE  Weighed(s, Weigh(s, doc, time), doc, time) /\ Weigh(s, doc, time).stale = s.stale
<1> DEFINE since == IF s.loadedSince = None THEN time ELSE s.loadedSince
           full == [s EXCEPT !.loadedSince = IF @ = None THEN time ELSE @]
           clear == [s EXCEPT !.loadedSince = None, !.excessRestored = None]
<1>1. CASE doc.loaded = TRUE
  <2>1. Weigh(s, doc, time) = full
    BY <1>1, Zenon DEF Weigh
  <2>2. full = [s EXCEPT !.loadedSince = since]
    OBVIOUS
  <2> HIDE DEF since
  <2>3. /\ DOMAIN full = DOMAIN s /\ full.loadedSince = since
        /\ \A f \in Followed \ {"loadedSince"} : full[f] = s[f]
    BY <2>2, Zenon DEF IsState, Followed, Untouched
  <2>4. IsState(full)
    BY <2>3 DEF IsState, Followed
  <2> QED BY <1>1, <2>1, <2>3, <2>4, Zenon DEF Weighed, Followed, Untouched, since
<1>2. CASE doc.loaded = FALSE
  <2>1. Weigh(s, doc, time) = clear
    BY <1>2, Zenon DEF Weigh
  <2>2. /\ DOMAIN clear = DOMAIN s /\ clear.loadedSince = None /\ clear.excessRestored = None
        /\ \A f \in Followed \ {"loadedSince", "excessRestored"} : clear[f] = s[f]
    BY Zenon DEF IsState, Followed, Untouched
  <2>3. IsState(clear)
    BY <2>2 DEF IsState, Followed
  <2> QED BY <1>2, <2>1, <2>2, <2>3, Zenon DEF Weighed, Followed, Untouched
<1>3. CASE doc.loaded \notin BOOLEAN
  <2>1. doc.loaded # TRUE /\ doc.loaded # FALSE
    BY <1>3
  <2>2. Weigh(s, doc, time) = s
    BY <2>1, Zenon DEF Weigh
  <2> QED BY <1>3, <2>2, Zenon DEF Weighed
<1>4. doc.loaded = TRUE \/ doc.loaded = FALSE \/ doc.loaded \notin BOOLEAN
  BY Zenon
<1> QED BY <1>1, <1>2, <1>3, <1>4

LEMMA CountCyclesLeaves ==
  ASSUME NEW s, IsState(s), NEW doc
  PROVE  Leaves(s, CountCycles(s, doc)) /\ CountCycles(s, doc).stale = s.stale
<1> DEFINE turned == /\ s.faultRestored = TRUE /\ s.fault = None
                     /\ s.cycles # None /\ doc.cycles > s.cycles
           t == [s EXCEPT !.faultRestored = IF turned THEN FALSE ELSE @, !.cycles = doc.cycles]
<1>1. CountCycles(s, doc) = s \/ CountCycles(s, doc) = t
  BY Zenon DEF CountCycles
<1> HIDE DEF turned
<1>2. Leaves(s, t) /\ t.stale = s.stale
  BY Zenon DEF IsState, Leaves, Followed, Untouched
<1>3. Leaves(s, s)
  BY DEF Leaves
<1> QED BY <1>1, <1>2, <1>3

LEMMA SeeBeamLeaves ==
  ASSUME NEW s, IsState(s), NEW doc, NEW time
  PROVE  Leaves(s, SeeBeam(s, doc, time)) /\ SeeBeam(s, doc, time).stale = s.stale
<1> DEFINE t == [s EXCEPT !.beamAt = time]
<1>1. SeeBeam(s, doc, time) = s \/ SeeBeam(s, doc, time) = t
  BY Zenon DEF SeeBeam
<1>2. Leaves(s, t) /\ t.stale = s.stale
  BY Zenon DEF IsState, Leaves, Followed, Untouched
<1>3. Leaves(s, s)
  BY DEF Leaves
<1> QED BY <1>1, <1>2, <1>3

LEMMA ApplyStateWeighs ==
  ASSUME NEW s, IsState(s), NEW doc, NEW time
  PROVE  LET u == ApplyState(s, doc, time) IN
         Weighed(s, u.state, doc, time) /\ (u.state.stale = s.stale \/ <<"stale">> \in u.effects)
<1> DEFINE a == SeeBeam(s, doc, time)
           b == Weigh(a, doc, time)
           c == CountCycles(b, doc)
           p == Updated(c)
           q == WatchCycle(p, doc)
           r == WatchVisit(q, doc, time)
           v == Arrive(r, doc)
           u == LearnLitter(v, doc, time)
<1>0. u = ApplyState(s, doc, time)
  BY DEF ApplyState
<1>1. Leaves(s, a) /\ a.stale = s.stale
  BY SeeBeamLeaves
<1>2. Weighed(a, b, doc, time) /\ b.stale = a.stale
  BY <1>1, WeighWeighs DEF Leaves
<1>3. Leaves(b, c) /\ c.stale = b.stale
  BY <1>2, CountCyclesLeaves DEF Weighed
<1>4. {"state", "effects"} \subseteq DOMAIN p /\ p.state = c /\ IsState(p.state)
  BY <1>3 DEF Updated, Leaves
<1>5. Keeps(p, q)
  BY <1>4, WatchCycleKeeps
<1>6. Keeps(q, r)
  BY <1>5, WatchVisitKeeps DEF Keeps, Leaves
<1>7. Keeps(r, v)
  BY <1>6, ArriveKeeps DEF Keeps, Leaves
<1>8. Keeps(v, u)
  BY <1>7, LearnLitterKeeps DEF Keeps, Leaves
<1>9. Keeps(p, u)
  BY <1>5, <1>6, <1>7, <1>8, KeepsIsTransitive
<1> HIDE DEF a, b, c, p, q, r, v, u
<1>10. Weighed(s, b, doc, time)
  <2>1. a.loadedSince = s.loadedSince /\ a.excessRestored = s.excessRestored
    BY <1>1 DEF Leaves, Untouched
  <2> QED BY <1>1, <1>2, <2>1, Zenon DEF Weighed, Leaves, Untouched
<1>11. Weighed(s, c, doc, time)
  <2>1. c.loadedSince = b.loadedSince /\ c.excessRestored = b.excessRestored
    BY <1>3 DEF Leaves, Untouched
  <2> QED BY <1>3, <1>10, <2>1, Zenon DEF Weighed, Leaves, Untouched
<1>12. Weighed(s, u.state, doc, time)
  <2>0. Leaves(c, u.state)
    BY <1>4, <1>9 DEF Keeps
  <2>1. u.state.loadedSince = c.loadedSince /\ u.state.excessRestored = c.excessRestored
    BY <2>0 DEF Leaves, Untouched
  <2> QED BY <2>0, <1>11, <2>1, Zenon DEF Weighed, Leaves, Untouched
<1> QED BY <1>0, <1>1, <1>2, <1>3, <1>4, <1>9, <1>12 DEF Keeps

(* The codes that wait for a second phase, against when each phase was last heard. *)
Waiting(s, when, time) ==
  /\ s.pendingAt = None => s.pending = {}
  /\ s.pendingAt # None => s.pendingAt \in Int /\ s.pendingAt <= time
  /\ \A p \in s.pending :
       p \in Int /\ Phase(p) \in DOMAIN when /\ s.pendingAt <= when[Phase(p)]

Near(when) == \E p, q \in DOMAIN when : p # q /\ Magnitude(when[p] - when[q]) <= BurstWindow

(* What the events of a message may do to what is followed. *)
Gauged(s, u) ==
  /\ u.state.fill = s.fill \/ <<"fill">> \in u.effects
  /\ u.state.fill = None => s.fill = None
  /\ u.state.stale = s.stale \/ <<"stale">> \in u.effects
Folded(s, u, when, time) ==
  /\ {"state", "effects"} \subseteq DOMAIN u /\ IsState(u.state)
  /\ u.state.loadedSince = s.loadedSince /\ u.state.excessRestored = s.excessRestored
  /\ Gauged(s, u)
  /\ Waiting(u.state, when, time)
  /\ u.state.sightings["hopper"] = "dispense" => s.sightings["hopper"] = "dispense" \/ Near(when)

LEMMA KeepsFolds ==
  ASSUME NEW s, NEW when, NEW time, NEW u, Folded(s, u, when, time), NEW v, Keeps(u, v)
  PROVE  Folded(s, v, when, time)
<1>1. /\ v.state.fill = u.state.fill /\ v.state.loadedSince = u.state.loadedSince
      /\ v.state.excessRestored = u.state.excessRestored
      /\ v.state.pending = u.state.pending /\ v.state.pendingAt = u.state.pendingAt
      /\ v.state.sightings["hopper"] = u.state.sightings["hopper"]
      /\ IsState(v.state) /\ {"state", "effects"} \subseteq DOMAIN v
  BY DEF Keeps, Leaves, Untouched
<1>2. Waiting(v.state, when, time)
  BY <1>1 DEF Folded, Waiting
<1>3. Gauged(s, v)
  BY <1>1 DEF Folded, Gauged, Keeps
<1> QED BY <1>1, <1>2, <1>3 DEF Folded

LEMMA LearnHopperKeeps ==
  ASSUME NEW u, {"state", "effects"} \subseteq DOMAIN u, IsState(u.state), NEW gauge, NEW time
  PROVE  Keeps(u, LearnHopper(u, gauge, time))
<1> DEFINE hopper == Observe(u.state.hopper, gauge, HopperGauge)
           t == [u.state EXCEPT !.hopper = hopper, !.hopperAt = time]
           moved == Moved(u.state.hopper, hopper)
<1>1. LearnHopper(u, gauge, time) = u \/ LearnHopper(u, gauge, time) = Learned(u, t, moved)
  BY Zenon DEF LearnHopper
<1>2. moved \in BOOLEAN
  BY DEF Moved
<1> HIDE DEF hopper, moved
<1>3. Leaves(u.state, t) /\ t.stale = u.state.stale
  BY Zenon DEF IsState, Leaves, Followed, Untouched
<1>4. Keeps(u, Learned(u, t, moved))
  BY <1>2, <1>3, LearnedKeeps
<1> QED BY <1>1, <1>4, KeepsItself

LEMMA FillFolds ==
  ASSUME NEW s, NEW when, NEW time, NEW u, Folded(s, u, when, time), NEW gauge, gauge # None
  PROVE  Folded(s, Fill(u, gauge, time), when, time)
<1> DEFINE t == [u.state EXCEPT !.fill = gauge, !.stale = FALSE]
           effects == (IF u.state.fill = gauge THEN {} ELSE {<<"fill">>})
                      \cup (IF u.state.stale THEN {<<"stale">>} ELSE {})
           v == [state |-> t, effects |-> u.effects \cup effects]
<1>0. IsState(u.state)
  BY DEF Folded
<1>1. /\ DOMAIN t = DOMAIN u.state /\ t.fill = gauge /\ t.stale = FALSE
      /\ \A f \in Followed \ {"fill", "stale"} : t[f] = u.state[f]
  BY <1>0, Zenon DEF IsState, Followed, Untouched
<1>2. IsState(t)
  BY <1>0, <1>1 DEF IsState, Followed
<1>3. gauge = u.state.fill \/ <<"fill">> \in v.effects
  BY DEF effects
<1>4. u.state.stale = FALSE \/ <<"stale">> \in v.effects
  BY <1>0, Zenon DEF effects, IsState
<1>5. u.effects \subseteq v.effects /\ v.state = t /\ {"state", "effects"} \subseteq DOMAIN v
  BY DEF v
<1> HIDE DEF t, effects, v
<1>6. Gauged(s, v)
  BY <1>1, <1>3, <1>4, <1>5, Zenon DEF Folded, Gauged
<1>7. Waiting(v.state, when, time)
  BY <1>1, <1>5, Zenon DEF Folded, Waiting, Followed, Untouched
<1>8. Folded(s, v, when, time)
  BY <1>1, <1>2, <1>5, <1>6, <1>7, Zenon DEF Folded, Followed, Untouched
<1>9. Keeps(v, LearnHopper(v, gauge, time))
  BY <1>8, LearnHopperKeeps DEF Folded
<1>10. Fill(u, gauge, time) = LearnHopper(v, gauge, time)
  BY Zenon DEF Fill, v, t, effects
<1> QED BY <1>8, <1>9, <1>10, KeepsFolds

LEMMA HopperSightFolds ==
  ASSUME NEW s, NEW when, NEW time, NEW u, Folded(s, u, when, time), Near(when)
  PROVE  Folded(s, Sight(u, "hopper", "dispense"), when, time)
<1> DEFINE t == [u.state EXCEPT !.reported = @ \cup {"hopper"}]
           known == And(u, t, <<"changed">>)
           seen == [t EXCEPT !.sightings["hopper"] = "dispense"]
           v == And(known, seen, <<"sighted", "hopper">>)
<1>0. IsState(u.state) /\ {"state", "effects"} \subseteq DOMAIN u
  BY DEF Folded
<1>1. Leaves(u.state, t) /\ t.stale = u.state.stale
  BY <1>0, Zenon DEF IsState, Leaves, Followed, Untouched
<1>2. Keeps(u, known) /\ known.state = t
  BY <1>1, AndKeeps DEF And
<1>3. Folded(s, known, when, time)
  BY <1>2, KeepsFolds
<1>4. IsState(t)
  BY <1>1 DEF Leaves
<1>5. /\ DOMAIN seen = DOMAIN t
      /\ \A f \in Followed \ {"sightings"} : seen[f] = t[f]
  BY <1>4, Zenon DEF IsState, Followed, Untouched
<1>6. seen.sightings = [t.sightings EXCEPT !["hopper"] = "dispense"]
  BY <1>4, Zenon DEF IsState, Followed
<1>7. IsState(seen)
  BY <1>4, <1>5, <1>6, Zenon DEF IsState, Followed, Untouched
<1>8. v.state = seen /\ known.effects \subseteq v.effects /\ {"state", "effects"} \subseteq DOMAIN v
  BY DEF And
<1> HIDE DEF seen, known, v
<1>9. Gauged(s, v) /\ Waiting(v.state, when, time)
  BY <1>2, <1>3, <1>5, <1>8, Zenon DEF Folded, Gauged, Waiting, Followed, Untouched
<1>10. Folded(s, v, when, time)
  BY <1>2, <1>3, <1>5, <1>7, <1>8, <1>9, Zenon DEF Folded, Followed, Untouched
<1>11. Sight(u, "hopper", "dispense") \in {known, v}
  BY <1>2, Zenon DEF Sight, known, v, seen
<1> QED BY <1>3, <1>10, <1>11

(* A second phase proves the hopper only if the first one was heard within the window: the codes *)
(* that wait are dropped once they are older.                                                     *)
LEMMA DispenseFolds ==
  ASSUME NEW s, NEW when, NEW time \in Int, NEW u, Folded(s, u, when, time),
         NEW code \in Int, Phase(code) \in DOMAIN when, when[Phase(code)] = time,
         \A p \in DOMAIN when : when[p] \in Int /\ when[p] <= time
  PROVE  Folded(s, Dispense(u, code, time), when, time)
<1> DEFINE fresh == [u.state EXCEPT !.pending = {}, !.pendingAt = time]
           t == IF Restart(u.state, time) THEN fresh ELSE u.state
           codes == {p \in t.pending : Phase(p) # Phase(code)} \cup {code}
           fills == {Value(p) : p \in {q \in codes : Phase(q) = FillPhase}}
           empty == [t EXCEPT !.pending = {}]
           more == [t EXCEPT !.pending = codes]
           spent == With(u, empty)
           waits == With(u, more)
           gauge == CHOOSE f \in fills : TRUE
           filled == Fill(spent, gauge, time)
<1>0. IsState(u.state) /\ {"state", "effects"} \subseteq DOMAIN u /\ Waiting(u.state, when, time)
  BY DEF Folded
<1>1. BurstWindow \in Nat
  BY DerivedAssumption
<1>2. /\ DOMAIN fresh = DOMAIN u.state /\ fresh.pending = {} /\ fresh.pendingAt = time
      /\ \A f \in Followed \ {"pending", "pendingAt"} : fresh[f] = u.state[f]
  BY <1>0, Zenon DEF IsState, Followed, Untouched
<1>3. /\ IsState(t) /\ t.pendingAt \in Int /\ t.pendingAt <= time /\ time - t.pendingAt <= BurstWindow
      /\ \A p \in t.pending :
           p \in Int /\ Phase(p) \in DOMAIN when /\ t.pendingAt <= when[Phase(p)]
      /\ \A f \in Followed \ {"pending", "pendingAt"} : t[f] = u.state[f]
  <2>1. CASE Restart(u.state, time)
    <3>1. t = fresh
      BY <2>1
    <3>2. IsState(fresh)
      BY <1>0, <1>2 DEF IsState, Followed
    <3> HIDE DEF fresh, t
    <3>3. t.pendingAt \in Int /\ t.pendingAt <= time /\ time - t.pendingAt <= BurstWindow
      BY <1>1, <1>2, <3>1, SMT
    <3> QED BY <1>2, <3>1, <3>2, <3>3, Zenon
  <2>2. CASE ~Restart(u.state, time)
    <3>1. t = u.state
      BY <2>2
    <3>2. u.state.pendingAt # None /\ ~(time - u.state.pendingAt > BurstWindow)
      BY <2>2 DEF Restart
    <3>3. u.state.pendingAt \in Int /\ u.state.pendingAt <= time
      BY <1>0, <3>2 DEF Waiting
    <3>4. time - u.state.pendingAt <= BurstWindow
      BY <1>1, <3>2, <3>3, SMT
    <3> QED BY <1>0, <3>1, <3>3, <3>4, Zenon DEF Waiting
  <2> QED BY <2>1, <2>2
<1> HIDE DEF t
<1>4. t.pendingAt # None
  BY <1>3, NoneAssumption
<1>5. /\ Dispense(u, code, time) = waits /\ Cardinality(codes) < 2
      \/ /\ Dispense(u, code, time) = Sight(IF fills = {} THEN spent ELSE filled, "hopper", "dispense")
         /\ ~(Cardinality(codes) < 2)
  BY Zenon DEF Dispense, t
<1>6. /\ DOMAIN empty = DOMAIN t /\ empty.pending = {}
      /\ \A f \in Followed \ {"pending"} : empty[f] = t[f]
  BY <1>3, Zenon DEF IsState, Followed, Untouched
<1>7. /\ DOMAIN more = DOMAIN t /\ more.pending = codes
      /\ \A f \in Followed \ {"pending"} : more[f] = t[f]
  <2> HIDE DEF codes
  <2> QED BY <1>3, Zenon DEF IsState, Followed, Untouched
<1>8. \A p \in codes :
        p \in Int /\ Phase(p) \in DOMAIN when /\ t.pendingAt <= when[Phase(p)]
  BY <1>3, Zenon
<1> HIDE DEF codes
<1>9. Folded(s, waits, when, time)
  <2>1. IsState(more)
    BY <1>3, <1>7 DEF IsState, Followed
  <2>2. waits.state = more /\ waits.effects = u.effects /\ {"state", "effects"} \subseteq DOMAIN waits
    BY <1>0, Zenon DEF With
  <2> HIDE DEF more, waits
  <2>3. more.pendingAt = t.pendingAt
    BY <1>7 DEF Followed, Untouched
  <2>4. Waiting(more, when, time)
    BY <1>3, <1>4, <1>7, <1>8, <2>3, Zenon DEF Waiting
  <2>5. \A f \in Followed \ {"pending", "pendingAt"} : more[f] = u.state[f]
    BY <1>3, <1>7
  <2>6. Gauged(s, waits)
    BY <2>2, <2>5, Zenon DEF Folded, Gauged, Followed, Untouched
  <2> QED BY <2>1, <2>2, <2>4, <2>5, <2>6, Zenon DEF Folded, Followed, Untouched
<1>10. Folded(s, spent, when, time)
  <2>1. IsState(empty)
    BY <1>3, <1>6 DEF IsState, Followed
  <2>2. spent.state = empty /\ spent.effects = u.effects /\ {"state", "effects"} \subseteq DOMAIN spent
    BY <1>0, Zenon DEF With
  <2> HIDE DEF empty, spent
  <2>3. empty.pendingAt = t.pendingAt
    BY <1>6 DEF Followed, Untouched
  <2>4. Waiting(empty, when, time)
    BY <1>3, <1>4, <1>6, <2>3, Zenon DEF Waiting
  <2>5. \A f \in Followed \ {"pending", "pendingAt"} : empty[f] = u.state[f]
    BY <1>3, <1>6
  <2>6. Gauged(s, spent)
    BY <2>2, <2>5, Zenon DEF Folded, Gauged, Followed, Untouched
  <2> QED BY <2>1, <2>2, <2>4, <2>5, <2>6, Zenon DEF Folded, Followed, Untouched
<1>11. Folded(s, IF fills = {} THEN spent ELSE filled, when, time)
  <2>1. CASE fills # {}
    <3>1. gauge \in fills
      BY <2>1
    <3>2. \A p \in codes : Value(p) # None
      <4>1. \A p \in codes : Value(p) \in Int
        BY <1>8, SMT DEF Value
      <4> QED BY <4>1, NoneAssumption
    <3>3. gauge # None
      BY <3>1, <3>2
    <3> QED BY <1>10, <2>1, <3>3, FillFolds
  <2> QED BY <1>10, <2>1
<1>12. ASSUME ~(Cardinality(codes) < 2)
       PROVE  Near(when)
  <2>1. PICK p \in codes : p # code
    <3> SUFFICES ASSUME codes \subseteq {code} PROVE FALSE
      OBVIOUS
    <3>1. codes = {code}
      BY DEF codes
    <3>2. Cardinality(codes) = 1
      BY <3>1, FS_Singleton
    <3> QED BY <1>12, <3>2
  <2>2. Phase(p) # Phase(code) /\ Phase(p) \in DOMAIN when /\ t.pendingAt <= when[Phase(p)]
    BY <1>8, <2>1 DEF codes
  <2>3. when[Phase(p)] \in Int /\ when[Phase(p)] <= time
    BY <2>2
  <2>4. Magnitude(when[Phase(p)] - when[Phase(code)]) <= BurstWindow
    BY <1>1, <1>3, <2>2, <2>3, SMT DEF Magnitude
  <2> QED BY <2>2, <2>4 DEF Near
<1> HIDE DEF filled, spent, waits, fills
<1> QED BY <1>5, <1>9, <1>11, <1>12, HopperSightFolds

LEMMA CloseVisitKeeps ==
  ASSUME NEW u, {"state", "effects"} \subseteq DOMAIN u, IsState(u.state), NEW duration, NEW time
  PROVE  Keeps(u, CloseVisit(u, duration, time))
<1> DEFINE t == [u.state EXCEPT !.beamAt = None]
           v == With(u, t)
           w == Sight(v, "visit_duration", "visit_duration")
<1>1. Leaves(u.state, t) /\ t.stale = u.state.stale
  BY Zenon DEF IsState, Leaves, Followed, Untouched
<1>2. Keeps(u, v)
  BY <1>1, WithKeeps
<1>3. "visit_duration" \in Capabilities \ {"hopper"} /\ "cat_visit" \in Capabilities \ {"hopper"}
  BY DEF Capabilities
<1>4. Keeps(v, w)
  BY <1>2, <1>3, SightKeeps DEF Keeps, Leaves
<1>5. Keeps(w, Sight(w, "cat_visit", "visit_duration"))
  BY <1>3, <1>4, SightKeeps DEF Keeps, Leaves
<1>6. CloseVisit(u, duration, time) \in {u, Sight(w, "cat_visit", "visit_duration")}
  BY Zenon DEF CloseVisit
<1> QED BY <1>2, <1>4, <1>5, <1>6, KeepsItself, KeepsIsTransitive

LEMMA ReadingFolds ==
  ASSUME NEW s, NEW when, NEW time \in Int, NEW u, Folded(s, u, when, time), NEW r,
         r.register = "dispense" =>
           r.value \in Int /\ Phase(r.value) \in DOMAIN when /\ when[Phase(r.value)] = time,
         \A p \in DOMAIN when : when[p] \in Int /\ when[p] <= time
  PROVE  Folded(s, ApplyReading(u, r, time), when, time)
<1> DEFINE v == ApplyReading(u, r, time)
<1>0. {"state", "effects"} \subseteq DOMAIN u /\ IsState(u.state)
  BY DEF Folded
<1>1. CASE ~IsEvent(r)
  BY <1>1 DEF ApplyReading
<1>2. CASE r.register = "weight" /\ IsEvent(r)
  <2> DEFINE w == Sight(u, "pet_weight", "cat_weight")
  <2>1. v = Sight(w, "cat_visit", "cat_weight")
    BY <1>2, Zenon DEF ApplyReading, ApplyEvent
  <2>2. "pet_weight" \in Capabilities \ {"hopper"} /\ "cat_visit" \in Capabilities \ {"hopper"}
    BY DEF Capabilities
  <2>3. Keeps(u, w)
    BY <1>0, <2>2, SightKeeps
  <2>4. Keeps(w, v)
    BY <2>1, <2>2, <2>3, SightKeeps DEF Keeps, Leaves
  <2> QED BY <2>3, <2>4, KeepsFolds
<1>3. CASE r.register = "dispense" /\ IsEvent(r)
  <2>1. v = Dispense(u, r.value, time)
    BY <1>3, Zenon DEF ApplyReading, ApplyEvent
  <2> QED BY <1>3, <2>1, DispenseFolds
<1>4. CASE r.register = "duration" /\ IsEvent(r)
  <2>1. v = CloseVisit(u, r.value, time)
    BY <1>4, Zenon DEF ApplyReading, ApplyEvent
  <2> QED BY <1>0, <2>1, CloseVisitKeeps, KeepsFolds
<1>5. CASE r.register = "fault" /\ IsEvent(r)
  <2> DEFINE t == [u.state EXCEPT !.fault = r.value]
             same == IF r.value = u.state.fault THEN u ELSE And(u, t, <<"changed">>)
  <2>1. v = same
    BY <1>5, Zenon DEF ApplyReading, ApplyEvent
  <2>2. Leaves(u.state, t) /\ t.stale = u.state.stale
    BY <1>0, Zenon DEF IsState, Leaves, Followed, Untouched
  <2>3. Keeps(u, And(u, t, <<"changed">>))
    BY <2>2, AndKeeps
  <2> QED BY <2>1, <2>3, KeepsFolds
<1>6. CASE r.register = "drawer" /\ IsEvent(r)
  <2>1. v = Sight(u, "drawer", "drawer_moved")
    BY <1>6, Zenon DEF ApplyReading, ApplyEvent
  <2>2. "drawer" \in Capabilities \ {"hopper"}
    BY DEF Capabilities
  <2> QED BY <1>0, <2>1, <2>2, SightKeeps, KeepsFolds
<1> QED BY <1>1, <1>2, <1>3, <1>4, <1>5, <1>6 DEF IsEvent

(* Induction over the readings of a message, from the well-foundedness of the numbers. *)
LEMMA Minimum ==
  ASSUME NEW T \in SUBSET Nat, T # {}
  PROVE  \E n \in T : \A m \in T : n <= m
<1>1. IsWellFoundedOn(OpToRel(<, Nat), Nat)
  BY NatLessThanWellFounded
<1>2. PICK n \in T : \A m \in T : <<m, n>> \notin OpToRel(<, Nat)
  BY <1>1, WFMin
<1>3. \A m \in T : ~(m < n)
  <2> SUFFICES ASSUME NEW m \in T, m < n PROVE FALSE
    OBVIOUS
  <2>1. <<m, n>> \in OpToRel(<, Nat)
    BY DEF OpToRel
  <2> QED BY <1>2, <2>1
<1> QED BY <1>3

LEMMA Induction ==
  ASSUME NEW S, 0 \in S, \A n \in Nat : n \in S => n + 1 \in S
  PROVE  Nat \subseteq S
<1> SUFFICES ASSUME Nat \ S # {} PROVE FALSE
  OBVIOUS
<1>1. PICK n \in Nat \ S : \A m \in Nat \ S : n <= m
  BY Minimum
<1> QED BY <1>1

(* The readings of a message are applied one after another. *)
Folds(g, n, s, readings, time) ==
  g = [i \in 0 .. n |-> IF i = 0 THEN Updated(s) ELSE ApplyReading(g[i - 1], readings[i], time)]

LEMMA FoldExists ==
  ASSUME NEW s, NEW readings, NEW time, NEW n \in Nat
  PROVE  \E g : Folds(g, n, s, readings, time)
<1> DEFINE S == {k \in Nat : \E g : Folds(g, k, s, readings, time)}
<1>1. 0 \in S
  <2> DEFINE g == [i \in 0 .. 0 |-> Updated(s)]
  <2>1. Folds(g, 0, s, readings, time)
    BY SMT DEF Folds
  <2> QED BY <2>1
<1>2. ASSUME NEW k \in Nat, k \in S
      PROVE  k + 1 \in S
  <2>1. PICK g : Folds(g, k, s, readings, time)
    BY <1>2
  <2> DEFINE last == ApplyReading(g[k], readings[k + 1], time)
             h == [i \in 0 .. k + 1 |-> IF i = k + 1 THEN last ELSE g[i]]
  <2>2. \A i \in 0 .. k + 1 :
          h[i] = IF i = 0 THEN Updated(s) ELSE ApplyReading(h[i - 1], readings[i], time)
    <3> SUFFICES ASSUME NEW i \in 0 .. k + 1
                 PROVE  h[i] = IF i = 0 THEN Updated(s) ELSE ApplyReading(h[i - 1], readings[i], time)
      OBVIOUS
    <3>1. CASE i = 0
      <4>1. h[i] = g[0] /\ g[0] = Updated(s)
        BY <2>1, <3>1, SMT DEF Folds
      <4> QED BY <3>1, <4>1
    <3>2. CASE i = k + 1
      <4>1. h[i] = last /\ h[i - 1] = g[k] /\ i # 0
        BY <3>2, SMT
      <4> QED BY <3>2, <4>1
    <3>3. CASE i \in 1 .. k
      <4>1. h[i] = g[i] /\ h[i - 1] = g[i - 1] /\ i # 0
        BY <3>3, SMT
      <4>2. g[i] = ApplyReading(g[i - 1], readings[i], time)
        BY <2>1, <3>3, SMT DEF Folds
      <4> QED BY <4>1, <4>2
    <3> QED BY <3>1, <3>2, <3>3
  <2>3. Folds(h, k + 1, s, readings, time)
    <3>1. h = [i \in 0 .. k + 1 |-> h[i]]
      BY Zenon
    <3> HIDE DEF h
    <3> QED BY <2>2, <3>1, Zenon DEF Folds
  <2>4. \E f : Folds(f, k + 1, s, readings, time)
    <3> HIDE DEF h
    <3> QED BY <2>3, Zenon
  <2> QED BY <2>4
<1>3. Nat \subseteq S
  <2> HIDE DEF S
  <2> QED BY <1>1, <1>2, Induction
<1> QED BY <1>3

(* However many readings a message brings, and in whatever order. *)
LEMMA ActivityFolds ==
  ASSUME NEW s, IsState(s), NEW readings, Len(readings) \in Nat,
         NEW time \in Int, NEW when,
         \A i \in 1 .. Len(readings) : readings[i].register = "dispense" =>
           /\ readings[i].value \in Int /\ Phase(readings[i].value) \in DOMAIN when
           /\ when[Phase(readings[i].value)] = time,
         \A p \in DOMAIN when : when[p] \in Int /\ when[p] <= time,
         Waiting(s, when, time)
  PROVE  Folded(s, ApplyActivity(s, readings, time), when, time)
<1> DEFINE n == Len(readings)
           f == CHOOSE g : Folds(g, n, s, readings, time)
           S == {k \in Nat : k <= n => Folded(s, f[k], when, time)}
<1>1. f = [i \in 0 .. n |-> IF i = 0 THEN Updated(s) ELSE ApplyReading(f[i - 1], readings[i], time)]
  <2>1. Folds(f, n, s, readings, time)
    BY FoldExists, Zenon
  <2> QED BY <2>1, Zenon DEF Folds
<1>2. ApplyActivity(s, readings, time) = f[n]
  BY Zenon DEF ApplyActivity, Progress, Folds
<1> HIDE DEF f
<1>3. 0 \in S
  <2>1. f[0] = Updated(s)
    BY <1>1, SMT
  <2>2. Folded(s, Updated(s), when, time)
    BY DEF Folded, Gauged, Updated
  <2> QED BY <2>1, <2>2
<1>4. ASSUME NEW k \in Nat, k \in S
      PROVE  k + 1 \in S
  <2> SUFFICES ASSUME k + 1 <= n PROVE Folded(s, f[k + 1], when, time)
    BY <1>4
  <2>1. Folded(s, f[k], when, time) /\ k + 1 \in 1 .. n
    BY <1>4, SMT
  <2>2. f[k + 1] = ApplyReading(f[k], readings[k + 1], time)
    BY <1>1, <2>1, SMT
  <2> QED BY <2>1, <2>2, ReadingFolds
<1>5. Nat \subseteq S
  <2> HIDE DEF S
  <2> QED BY <1>3, <1>4, Induction
<1> QED BY <1>2, <1>5

-----------------------------------------------------------------------------
(* What the coordinator stores of a state, and restores *)

LEMMA SnapshotLeaves ==
  ASSUME NEW s, IsState(s)
  PROVE  Leaves(s, Snapshot(s)) /\ Snapshot(s).stale = s.stale
<1> DEFINE litter == Persisted(s.litter)
           hopper == Persisted(s.hopper)
           t == [s EXCEPT !.cycleRunning = FALSE, !.visitStarted = None, !.baseline = None, !.steps = 0,
                          !.litter = litter, !.hopper = hopper]
<1>1. Snapshot(s) = t
  BY SMT DEF Snapshot
<1> HIDE DEF litter, hopper
<1>2. Leaves(s, t) /\ t.stale = s.stale
  BY Zenon DEF IsState, Leaves, Followed, Untouched
<1> QED BY <1>1, <1>2

OptionFields == {"seen", "snapshot", "fill", "stale", "pref"}

LEMMA StoredFields ==
  ASSUME NEW o, OptionFields \subseteq DOMAIN o, NEW u
  PROVE  LET p == StoreEffects(o, u) IN
         /\ DOMAIN p = DOMAIN o /\ p.pref = o.pref
         /\ p.fill = IF <<"fill">> \in u.effects THEN u.state.fill ELSE o.fill
         /\ p.stale = IF <<"stale">> \in u.effects THEN u.state.stale ELSE o.stale
         /\ p.snapshot = IF Proved(u) = {} THEN o.snapshot ELSE Snapshot(u.state)
         /\ p.seen = [c \in Capabilities |-> IF c \in Proved(u) THEN u.state.sightings[c] ELSE o.seen[c]]
<1> DEFINE fill == IF <<"fill">> \in u.effects THEN u.state.fill ELSE o.fill
           stale == IF <<"stale">> \in u.effects THEN u.state.stale ELSE o.stale
           learned == IF <<"learned">> \in u.effects THEN Scales(u.state) ELSE o.learned
           seen == [c \in Capabilities |-> IF c \in Proved(u) THEN u.state.sightings[c] ELSE o.seen[c]]
           snapshot == IF Proved(u) = {} THEN o.snapshot ELSE Snapshot(u.state)
           p == [o EXCEPT !.fill = fill, !.stale = stale, !.learned = learned, !.seen = seen, !.snapshot = snapshot]
<1>1. StoreEffects(o, u) = p
  BY Zenon DEF StoreEffects
<1> HIDE DEF fill, stale, learned, seen, snapshot
<1>2. /\ DOMAIN p = DOMAIN o /\ p.pref = o.pref /\ p.fill = fill /\ p.stale = stale
      /\ p.snapshot = snapshot /\ p.seen = seen
  BY Zenon DEF OptionFields
<1> QED BY <1>1, <1>2, Zenon DEF fill, stale, seen, snapshot

Base(o) == IF o.snapshot = None THEN NewState ELSE o.snapshot

LEMMA NewStateIs ==
  /\ IsState(NewState) /\ NewState.fill = None /\ NewState.stale = FALSE
  /\ NewState.loadedSince = None /\ NewState.pending = {} /\ NewState.pendingAt = None
  /\ NewState.sightings = [c \in Capabilities |-> None]
BY DEF NewState, IsState, Followed, Untouched

LEMMA RestoredFields ==
  ASSUME NEW o, IsState(Base(o)), NEW kept, o.stale \in BOOLEAN \cup {None}
  PROVE  LET t == RestoreDerived(o, kept) IN
         /\ IsState(t)
         /\ t.fill = IF o.fill = None THEN Base(o).fill ELSE o.fill
         /\ t.stale = IF o.stale = None THEN Base(o).stale ELSE o.stale
         /\ t.sightings = Evidence(o, Base(o))
         /\ t.excessRestored = kept.excess /\ t.loadedSince = Base(o).loadedSince
         /\ t.pending = Base(o).pending /\ t.pendingAt = Base(o).pendingAt
<1> DEFINE s == Base(o)
           fill == IF o.fill = None THEN s.fill ELSE o.fill
           stale == IF o.stale = None THEN s.stale ELSE o.stale
           litter == IF o.learned = None THEN s.litter ELSE o.learned.litter
           hopper == IF o.learned = None THEN s.hopper ELSE o.learned.hopper
           evidence == Evidence(o, s)
           t == [s EXCEPT !.fill = fill, !.stale = stale, !.litter = litter, !.hopper = hopper,
                          !.sightings = evidence, !.excessRestored = kept.excess,
                          !.faultRestored = kept.fault]
<1>1. RestoreDerived(o, kept) = t
  BY Zenon DEF RestoreDerived, Base
<1>2. stale \in BOOLEAN
  <2>1. CASE o.stale = None
    BY <2>1 DEF IsState
  <2>2. CASE o.stale # None
    BY <2>2
  <2> QED BY <2>1, <2>2
<1>3. Capabilities \subseteq DOMAIN evidence
  BY DEF Evidence
<1> HIDE DEF fill, stale, litter, hopper, evidence, s
<1>4. IsState(s)
  BY DEF s
<1>5. /\ DOMAIN t = DOMAIN s /\ t.fill = fill /\ t.stale = stale /\ t.sightings = evidence
      /\ t.excessRestored = kept.excess /\ t.loadedSince = s.loadedSince
      /\ t.pending = s.pending /\ t.pendingAt = s.pendingAt
  BY <1>4, Zenon DEF IsState, Followed, Untouched
<1>6. IsState(t)
  BY <1>2, <1>3, <1>4, <1>5 DEF IsState
<1> QED BY <1>1, <1>5, <1>6, Zenon DEF fill, stale, evidence, s

LEMMA SweptFields ==
  ASSUME NEW o, OptionFields \subseteq DOMAIN o
  PROVE  LET p == Swept(o) IN
         /\ DOMAIN p = DOMAIN o /\ p.stale = o.stale /\ p.snapshot = o.snapshot /\ p.pref = o.pref
         /\ p.fill = o.fill \/ o.fill = None
         /\ p.seen["hopper"] = "dispense" => o.seen["hopper"] = "dispense"
<1> DEFINE seen == [c \in Capabilities |-> Rechecked(c, o)]
           swept == IF o.swept < LastSweep THEN LastSweep ELSE o.swept
           fill == IF o.fill = None /\ seen["hopper"] # None THEN Carried ELSE o.fill
           p == [o EXCEPT !.seen = seen, !.swept = swept, !.fill = fill]
<1>1. Swept(o) = p
  BY Zenon DEF Swept
<1>2. fill = o.fill \/ o.fill = None
  BY Zenon
<1>3. seen["hopper"] = Rechecked("hopper", o)
  BY DEF Capabilities
<1> HIDE DEF fill, seen, swept
<1>4. /\ DOMAIN p = DOMAIN o /\ p.stale = o.stale /\ p.snapshot = o.snapshot /\ p.pref = o.pref
      /\ p.fill = fill /\ p.seen = seen
  BY Zenon DEF OptionFields
<1>5. Rechecked("hopper", o) = "dispense" => o.seen["hopper"] = "dispense"
  <2> DEFINE reproved == IF SightingStands("hopper", "restored") /\ Reproved("hopper", o)
                         THEN "restored" ELSE None
             stored == o.seen["hopper"]
             stands == SightingStands("hopper", stored)
             valid == "hopper" \notin Unvalidated(o)
  <2>1. reproved # "dispense"
    BY EntryAssumption, Zenon
  <2>2. Rechecked("hopper", o) =
          CASE stored \notin {"flag", None} /\ stands -> stored
            [] stored = "flag" /\ valid -> "legacy"
            [] OTHER -> reproved
    BY Zenon DEF Rechecked
  <2> HIDE DEF reproved, stands, valid, stored
  <2>3. Rechecked("hopper", o) \in {stored, "legacy", reproved}
    BY <2>2, Zenon
  <2> QED BY <2>1, <2>3, Zenon DEF stored
<1> QED BY <1>1, <1>2, <1>3, <1>4, <1>5

-----------------------------------------------------------------------------
(* The entry *)

Live == stage \in {"refreshing", "forwarding", "loaded", "unloading"}

TypesOK ==
  /\ now \in Nat /\ cleared \in Nat /\ cleared <= now
  /\ stage \in Stages
  /\ Live => IsState(d)
  /\ ~Live => d = None
  /\ OptionFields \subseteq DOMAIN options
  /\ options.stale \in BOOLEAN \cup {None}
  /\ options.snapshot # None => IsState(options.snapshot)
  /\ registry \in [Capabilities -> EntityStates]

(* What a message is folded into the state of, and what comes of it. *)
Heard(u) ==
  /\ IsState(u.state) /\ Gauged(d, u)
  /\ d' = u.state /\ options' = StoreEffects(options, u)
  /\ reload' = (reload \/ Proved(u) # {})
  /\ Told(u.state)

(* What time a state says a weight has been on the pan for. *)
Timed(s) == s.loadedSince # None => s.loadedSince \in Int /\ cleared <= s.loadedSince

HeardAt ==
  \A p \in DOMAIN heard : heard[p] \in Int /\ heard[p] <= now

LEMMA DocumentHeard ==
  ASSUME NEW doc \in Documents, TypesOK, HearDocument(doc)
  PROVE  LET u == ApplyState(d, doc, now) IN
         Heard(u) /\ Weighed(d, u.state, doc, now)
<1> DEFINE u == ApplyState(d, doc, now)
<1>1. IsState(d)
  BY DEF HearDocument, Listening, TypesOK, Live
<1>2. Weighed(d, u.state, doc, now) /\ (u.state.stale = d.stale \/ <<"stale">> \in u.effects)
  BY <1>1, ApplyStateWeighs
<1>3. d' = u.state /\ ApplyEffects(u) /\ Told(u.state)
  BY DEF HearDocument
<1> HIDE DEF u
<1>4. Gauged(d, u) /\ IsState(u.state)
  BY <1>2, Zenon DEF Weighed, Gauged
<1> QED BY <1>2, <1>3, <1>4 DEF Heard, ApplyEffects, u

LEMMA PhaseHeard ==
  ASSUME NEW readings \in Activities, TypesOK, HeardAt, HearActivity(readings)
  PROVE  /\ HeardAt'
         /\ \A p \in DOMAIN heard : p \in DOMAIN heard' /\ heard[p] <= heard'[p]
         /\ \A i \in 1 .. Len(readings) : readings[i].register = "dispense" =>
              /\ readings[i].value \in Int /\ Phase(readings[i].value) \in DOMAIN heard'
              /\ heard'[Phase(readings[i].value)] = now
         /\ burst' = (burst \/ Near(heard'))
<1> DEFINE phases == {Phase(readings[i].value) :
                         i \in {j \in 1 .. Len(readings) : readings[j].register = "dispense"}}
<1>1. /\ heard' = [p \in DOMAIN heard \cup phases |-> IF p \in phases THEN now ELSE heard[p]]
      /\ burst' = (burst \/ Near(heard')) /\ now' = now
  BY Zenon DEF HearActivity, Near
<1>2. \A i \in 1 .. Len(readings) : readings[i].register = "dispense" =>
        readings[i].value \in Int /\ Phase(readings[i].value) \in phases
  <2>1. \A i \in 1 .. Len(readings) : readings[i].register = "dispense" => readings[i].value \in Nat
    BY EntryAssumption, Zenon
  <2> QED BY <2>1, SMT
<1> HIDE DEF phases
<1>3. now \in Int
  BY DEF TypesOK
<1>4. \A p \in DOMAIN heard' : heard'[p] = now \/ (p \in DOMAIN heard /\ heard'[p] = heard[p])
  BY <1>1, Zenon
<1>5. HeardAt'
  BY <1>1, <1>3, <1>4, SMT DEF HeardAt
<1>6. \A p \in DOMAIN heard : p \in DOMAIN heard' /\ heard[p] <= heard'[p]
  BY <1>1, <1>3, SMT DEF HeardAt
<1>7. \A p \in phases : p \in DOMAIN heard' /\ heard'[p] = now
  BY <1>1, Zenon
<1> QED BY <1>1, <1>2, <1>5, <1>6, <1>7

LEMMA WaitingLater ==
  ASSUME NEW s, NEW when, NEW time \in Int, Waiting(s, when, time), NEW since, NEW later \in Int, time <= later,
         \A p \in DOMAIN when : when[p] \in Int /\ p \in DOMAIN since /\ since[p] \in Int /\ when[p] <= since[p]
  PROVE  Waiting(s, since, later)
<1>1. s.pendingAt # None => s.pendingAt \in Int /\ s.pendingAt <= later
  BY SMT DEF Waiting
<1>2. \A p \in s.pending : p \in Int /\ Phase(p) \in DOMAIN since /\ s.pendingAt <= since[Phase(p)]
  <2> SUFFICES ASSUME NEW p \in s.pending
               PROVE  p \in Int /\ Phase(p) \in DOMAIN since /\ s.pendingAt <= since[Phase(p)]
    OBVIOUS
  <2>1. p \in Int /\ Phase(p) \in DOMAIN when /\ s.pendingAt <= when[Phase(p)] /\ s.pendingAt \in Int
    BY DEF Waiting
  <2>2. /\ when[Phase(p)] \in Int /\ since[Phase(p)] \in Int /\ when[Phase(p)] <= since[Phase(p)]
        /\ Phase(p) \in DOMAIN since
    BY <2>1
  <2> QED BY <2>1, <2>2, SMT
<1> QED BY <1>1, <1>2 DEF Waiting

LEMMA ActivityHeard ==
  ASSUME NEW readings \in Activities, TypesOK, HeardAt, Waiting(d, heard, now), HearActivity(readings)
  PROVE  LET u == ApplyActivity(d, readings, now) IN
         Heard(u) /\ Folded(d, u, heard', now)
<1> DEFINE u == ApplyActivity(d, readings, now)
<1>1. IsState(d) /\ now \in Int
  BY DEF HearActivity, Listening, TypesOK, Live
<1>2. now' = now /\ d' = u.state /\ ApplyEffects(u) /\ Told(u.state)
  BY DEF HearActivity
<1>3. /\ \A p \in DOMAIN heard' : heard'[p] \in Int /\ heard'[p] <= now
      /\ \A p \in DOMAIN heard : p \in DOMAIN heard' /\ heard[p] <= heard'[p]
      /\ \A i \in 1 .. Len(readings) : readings[i].register = "dispense" =>
              /\ readings[i].value \in Int /\ Phase(readings[i].value) \in DOMAIN heard'
              /\ heard'[Phase(readings[i].value)] = now
  BY <1>2, PhaseHeard DEF HeardAt
<1>4. Waiting(d, heard', now)
  <2>1. \A p \in DOMAIN heard :
          heard[p] \in Int /\ p \in DOMAIN heard' /\ heard'[p] \in Int /\ heard[p] <= heard'[p]
    BY <1>3 DEF HeardAt
  <2>2. now <= now
    BY DEF TypesOK
  <2> QED BY <1>1, <2>1, <2>2, WaitingLater
<1>5. Len(readings) \in Nat
  BY EntryAssumption
<1>6. Folded(d, u, heard', now)
  BY <1>1, <1>3, <1>4, <1>5, ActivityFolds
<1> HIDE DEF u
<1> QED BY <1>2, <1>6 DEF Heard, Folded, ApplyEffects, u

LEMMA HeardTypes ==
  ASSUME TypesOK, NEW u, Heard(u), Live
  PROVE  /\ IsState(d')
         /\ OptionFields \subseteq DOMAIN options'
         /\ options'.stale \in BOOLEAN \cup {None}
         /\ options'.snapshot # None => IsState(options'.snapshot)
<1>1. OptionFields \subseteq DOMAIN options /\ options' = StoreEffects(options, u)
  BY DEF TypesOK, Heard
<1>2. /\ DOMAIN options' = DOMAIN options
      /\ options'.stale = IF <<"stale">> \in u.effects THEN u.state.stale ELSE options.stale
      /\ options'.snapshot = IF Proved(u) = {} THEN options.snapshot ELSE Snapshot(u.state)
  BY <1>1, StoredFields
<1>3. IsState(u.state) /\ d' = u.state
  BY DEF Heard
<1>4. options'.stale = u.state.stale \/ options'.stale = options.stale
  BY <1>2
<1>5. options'.snapshot = options.snapshot \/ IsState(options'.snapshot)
  BY <1>2, <1>3, SnapshotLeaves DEF Leaves
<1> QED BY <1>1, <1>2, <1>3, <1>4, <1>5 DEF TypesOK, IsState

LEMMA RestoredState ==
  ASSUME TypesOK
  PROVE  LET o == Swept(options) IN
         /\ OptionFields \subseteq DOMAIN o /\ IsState(Base(o)) /\ o.stale \in BOOLEAN \cup {None}
         /\ Base(o) = Base(options)
<1> DEFINE o == Swept(options)
<1>1. /\ DOMAIN o = DOMAIN options /\ o.stale = options.stale /\ o.snapshot = options.snapshot
  BY SweptFields DEF TypesOK
<1> QED BY <1>1, NewStateIs DEF Base, TypesOK

LEMMA RegistryTypes ==
  ASSUME NEW r \in [Capabilities -> EntityStates], NEW on, Enable(r, on)
  PROVE  registry' \in [Capabilities -> EntityStates]
BY DEF Enable, EntityStates

LEMMA TypesStep ==
  ASSUME TypesOK, HeardAt, Live => Waiting(d, heard, now), [Next]_vars
  PROVE  TypesOK'
<1> USE DEF coordinator, ha, history
<1>1. ASSUME NEW doc \in Documents, HearDocument(doc)
      PROVE  TypesOK'
  <2>1. Live /\ UNCHANGED <<now, stage, registry>> /\ cleared' \in {cleared, now}
    BY <1>1 DEF HearDocument, Listening, Live
  <2>2. PICK u : Heard(u)
    BY <1>1, DocumentHeard
  <2> QED BY <2>1, <2>2, HeardTypes DEF TypesOK, Live
<1>2. ASSUME NEW readings \in Activities, HearActivity(readings)
      PROVE  TypesOK'
  <2>1. Live /\ UNCHANGED <<now, stage, registry, cleared>>
    BY <1>2 DEF HearActivity, Listening, Live
  <2>2. PICK u : Heard(u)
    BY <1>2, <2>1, ActivityHeard
  <2> QED BY <2>1, <2>2, HeardTypes DEF TypesOK, Live
<1>3. CASE BeginSetup
  <2>1. /\ stage' = "refreshing" /\ d' = RestoreDerived(Swept(options), cache)
        /\ options' = Swept(options) /\ UNCHANGED <<now, cleared>>
    BY <1>3 DEF BeginSetup
  <2>2. IsState(d')
    BY <2>1, RestoredState, RestoredFields
  <2>3. registry' \in [Capabilities -> EntityStates]
    BY <1>3 DEF BeginSetup, TypesOK, EntityStates
  <2>4. /\ OptionFields \subseteq DOMAIN options' /\ options'.stale \in BOOLEAN \cup {None}
        /\ options'.snapshot = options.snapshot
    BY <2>1, RestoredState, SweptFields DEF TypesOK
  <2> QED BY <2>1, <2>2, <2>3, <2>4 DEF TypesOK, Live, Stages
<1>4. CASE FirstRefresh
  BY <1>4, RegistryTypes DEF FirstRefresh, TypesOK, Live, Stages
<1>5. CASE Forwarded
  <2> DEFINE r == [c \in Capabilities |-> IF registry[c] = "absent" THEN "integration" ELSE registry[c]]
  <2>1. r \in [Capabilities -> EntityStates]
    BY DEF TypesOK, EntityStates
  <2>2. registry' \in [Capabilities -> EntityStates]
    BY <1>5, <2>1, RegistryTypes DEF Forwarded
  <2>3. options' \in {options, [options EXCEPT !.snapshot = None]}
    BY <1>5 DEF Forwarded
  <2>4. /\ OptionFields \subseteq DOMAIN options' /\ options'.stale = options.stale
        /\ options'.snapshot = options.snapshot \/ options'.snapshot = None
    BY <2>3 DEF TypesOK, OptionFields
  <2> QED BY <1>5, <2>2, <2>4 DEF Forwarded, TypesOK, Live, Stages
<1>6. CASE SetupFails \/ Retry \/ StartReload \/ Unloaded \/ Stop \/ Crash \/ Start
  <2>1. UNCHANGED <<now, cleared, options, registry>>
    BY <1>6 DEF SetupFails, Retry, StartReload, Unloaded, Stop, Crash, Start
  <2>2. /\ stage' \in Stages
        /\ Live' => Live /\ d' = d
        /\ ~Live' => d' = None
    BY <1>6 DEF SetupFails, Retry, StartReload, Unloaded, Stop, Crash, Start, Gone, TypesOK, Live, Stages
  <2> QED BY <2>1, <2>2 DEF TypesOK
<1>7. CASE Hand
  BY <1>7 DEF Hand, UserDisables, UserEnables, TypesOK, Live, EntityStates
<1>8. CASE Tick
  BY <1>8, SMT DEF Tick, TypesOK, Live
<1>9. CASE UNCHANGED vars
  BY <1>9 DEF vars, TypesOK, Live
<1> QED BY <1>1, <1>2, <1>3, <1>4, <1>5, <1>6, <1>7, <1>8, <1>9 DEF Next, Messages, Lifecycle

-----------------------------------------------------------------------------(* The gauge: options and coordinator have the newest one, and a snapshot none that the options lack *)

GaugeOK ==
  /\ {"fill", "stale"} \subseteq DOMAIN told
  /\ Live => d.fill = told.fill /\ d.stale = told.stale
  /\ options.fill = told.fill
  /\ options.stale # None => options.stale = told.stale
  /\ options.stale = None => told.stale = FALSE
  /\ options.snapshot # None =>
       /\ options.fill = None => options.snapshot.fill = None
       /\ options.stale = None => options.snapshot.stale = FALSE

LEMMA HeardGauge ==
  ASSUME TypesOK, GaugeOK, NEW u, Heard(u), Live, stage' = stage
  PROVE  GaugeOK'
<1>1. OptionFields \subseteq DOMAIN options /\ options' = StoreEffects(options, u)
  BY DEF TypesOK, Heard
<1>2. /\ options'.fill = IF <<"fill">> \in u.effects THEN u.state.fill ELSE options.fill
      /\ options'.stale = IF <<"stale">> \in u.effects THEN u.state.stale ELSE options.stale
      /\ options'.snapshot = IF Proved(u) = {} THEN options.snapshot ELSE Snapshot(u.state)
  BY <1>1, StoredFields
<1>3. /\ d' = u.state /\ IsState(u.state)
      /\ u.state.fill = d.fill \/ <<"fill">> \in u.effects
      /\ u.state.fill = None => d.fill = None
      /\ u.state.stale = d.stale \/ <<"stale">> \in u.effects
  BY DEF Heard, Gauged
<1>4. /\ told'.fill = IF u.state.fill = None THEN told.fill ELSE u.state.fill
      /\ told'.stale = u.state.stale
      /\ {"fill", "stale"} \subseteq DOMAIN told'
  BY DEF Heard, Told
<1>5. d.fill = told.fill /\ d.stale = told.stale /\ options.fill = told.fill
  BY DEF GaugeOK
<1>6. d'.fill = told'.fill /\ d'.stale = told'.stale
  BY <1>3, <1>4, <1>5
<1>7. options'.fill = told'.fill
  BY <1>2, <1>3, <1>4, <1>5
<1>8. u.state.stale # None /\ u.state.stale \in BOOLEAN
  BY <1>3, EntryAssumption, Zenon DEF IsState
<1>9. options'.stale # None => options'.stale = told'.stale
  BY <1>2, <1>3, <1>4, <1>5, Zenon DEF GaugeOK
<1>10. options'.stale = None => told'.stale = FALSE
  BY <1>2, <1>3, <1>4, <1>5, <1>8, Zenon DEF GaugeOK
<1>11. ASSUME options'.snapshot # None
       PROVE  /\ options'.fill = None => options'.snapshot.fill = None
              /\ options'.stale = None => options'.snapshot.stale = FALSE
  <2>1. CASE Proved(u) = {}
    <3>1. options'.snapshot = options.snapshot
      BY <1>2, <2>1
    <3>2. options'.fill = None => options.fill = None
      BY <1>3, <1>5, <1>6, <1>7
    <3>3. options'.stale = None => options.stale = None
      BY <1>2, <1>8
    <3> QED BY <1>11, <3>1, <3>2, <3>3, Zenon DEF GaugeOK
  <2>2. CASE Proved(u) # {}
    <3>1. options'.snapshot = Snapshot(u.state)
      BY <1>2, <2>2
    <3>2. options'.snapshot.fill = u.state.fill /\ options'.snapshot.stale = u.state.stale
      BY <1>3, <3>1, SnapshotLeaves DEF Leaves, Untouched
    <3> QED BY <1>3, <1>4, <1>6, <1>7, <1>10, <3>2, Zenon
  <2> QED BY <2>1, <2>2
<1> QED BY <1>4, <1>6, <1>7, <1>9, <1>10, <1>11 DEF GaugeOK

LEMMA GaugeStep ==
  ASSUME TypesOK, HeardAt, Live => Waiting(d, heard, now), GaugeOK, [Next]_vars
  PROVE  GaugeOK'
<1> USE DEF coordinator, ha, history
<1>1. ASSUME NEW doc \in Documents, HearDocument(doc)
      PROVE  GaugeOK'
  <2>1. Live /\ stage' = stage
    BY <1>1 DEF HearDocument, Listening, Live
  <2> QED BY <1>1, <2>1, DocumentHeard, HeardGauge
<1>2. ASSUME NEW readings \in Activities, HearActivity(readings)
      PROVE  GaugeOK'
  <2>1. Live /\ stage' = stage
    BY <1>2 DEF HearActivity, Listening, Live
  <2> QED BY <1>2, <2>1, ActivityHeard, HeardGauge
<1>3. CASE BeginSetup
  <2> DEFINE o == Swept(options)
  <2>1. /\ d' = RestoreDerived(o, cache) /\ options' = o
        /\ told' = IF told.fill = None THEN [told EXCEPT !.fill = o.fill] ELSE told
    BY <1>3 DEF BeginSetup
  <2>2. /\ o.stale = options.stale /\ o.snapshot = options.snapshot
        /\ o.fill = options.fill \/ options.fill = None
    BY SweptFields DEF TypesOK
  <2>3. /\ d'.fill = IF o.fill = None THEN Base(o).fill ELSE o.fill
        /\ d'.stale = IF o.stale = None THEN Base(o).stale ELSE o.stale
    BY <2>1, RestoredState, RestoredFields
  <2> HIDE DEF o
  <2>4. told'.fill = o.fill /\ told'.stale = told.stale /\ {"fill", "stale"} \subseteq DOMAIN told'
    BY <2>1, <2>2, Zenon DEF GaugeOK
  <2>5. d'.fill = told'.fill /\ options'.fill = told'.fill
    BY <2>1, <2>2, <2>3, <2>4, NewStateIs, Zenon DEF GaugeOK, Base
  <2>6. d'.stale = told'.stale
    BY <2>1, <2>2, <2>3, <2>4, NewStateIs, Zenon DEF GaugeOK, Base
  <2>7. options'.stale # None => options'.stale = told'.stale
    BY <2>1, <2>2, <2>4, Zenon DEF GaugeOK
  <2>8. options'.stale = None => told'.stale = FALSE
    BY <2>1, <2>2, <2>4, Zenon DEF GaugeOK
  <2>9. options'.snapshot # None =>
          /\ options'.fill = None => options'.snapshot.fill = None
          /\ options'.stale = None => options'.snapshot.stale = FALSE
    BY <2>1, <2>2, Zenon DEF GaugeOK
  <2> QED BY <2>4, <2>5, <2>6, <2>7, <2>8, <2>9 DEF GaugeOK
<1>4. CASE Forwarded
  <2>1. options' = options \/ options' = [options EXCEPT !.snapshot = None]
    BY <1>4 DEF Forwarded
  <2>2. /\ options'.fill = options.fill /\ options'.stale = options.stale
        /\ options'.snapshot = options.snapshot \/ options'.snapshot = None
    BY <2>1, Zenon DEF TypesOK, OptionFields
  <2>3. UNCHANGED <<d, told>> /\ Live
    BY <1>4 DEF Forwarded, Live
  <2> QED BY <2>2, <2>3, Zenon DEF GaugeOK
<1>5. CASE FirstRefresh \/ SetupFails \/ Retry \/ StartReload \/ Unloaded \/ Stop \/ Crash \/ Start
  <2>1. UNCHANGED <<options, told>> /\ (Live' => Live /\ d' = d)
    BY <1>5 DEF FirstRefresh, SetupFails, Retry, StartReload, Unloaded, Stop, Crash, Start, Gone, Live
  <2> QED BY <2>1, Zenon DEF GaugeOK
<1>6. CASE Hand \/ Tick \/ UNCHANGED vars
  <2>1. UNCHANGED <<options, told, d, stage>>
    BY <1>6 DEF Hand, UserDisables, UserEnables, Tick, vars
  <2> QED BY <2>1, Zenon DEF GaugeOK, Live
<1> QED BY <1>1, <1>2, <1>3, <1>4, <1>5, <1>6 DEF Next, Messages, Lifecycle

-----------------------------------------------------------------------------
(* The hopper's sighting *)

(* What a state, or the snapshot of one, knows of dispenses rests on what was heard. *)
Grounded(s) ==
  /\ Waiting(s, heard, now)
  /\ s.sightings["hopper"] = "dispense" => burst

BurstOK ==
  /\ HeardAt
  /\ Live => Grounded(d)
  /\ options.snapshot # None => Grounded(options.snapshot)
  /\ SightingNeedsItsBurst

LEMMA HeardBurst ==
  ASSUME TypesOK, NEW u, Heard(u), HeardAt', Grounded(d)',
         options.snapshot # None =>
           /\ Waiting(options.snapshot, heard', now')
           /\ options.snapshot.sightings["hopper"] = "dispense" => burst',
         SightingNeedsItsBurst, burst => burst'
  PROVE  BurstOK'
<1>1. OptionFields \subseteq DOMAIN options /\ options' = StoreEffects(options, u)
  BY DEF TypesOK, Heard
<1>2. /\ options'.snapshot = IF Proved(u) = {} THEN options.snapshot ELSE Snapshot(u.state)
      /\ options'.seen = [c \in Capabilities |-> IF c \in Proved(u) THEN u.state.sightings[c] ELSE options.seen[c]]
  BY <1>1, StoredFields
<1>3. d' = u.state /\ IsState(u.state)
  BY DEF Heard
<1>4. options'.snapshot # None => Grounded(options.snapshot)'
  <2>1. CASE Proved(u) = {}
    BY <1>2, <2>1 DEF Grounded
  <2>2. CASE Proved(u) # {}
    <3>1. /\ options'.snapshot.pending = d'.pending /\ options'.snapshot.pendingAt = d'.pendingAt
          /\ options'.snapshot.sightings["hopper"] = d'.sightings["hopper"]
      BY <1>2, <1>3, <2>2, SnapshotLeaves DEF Leaves, Untouched
    <3> QED BY <3>1 DEF Grounded, Waiting
  <2> QED BY <2>1, <2>2
<1>5. SightingNeedsItsBurst'
  <2>1. options'.seen["hopper"] = u.state.sightings["hopper"] \/ options'.seen["hopper"] = options.seen["hopper"]
    BY <1>2 DEF Capabilities
  <2> QED BY <1>3, <2>1 DEF Grounded, SightingNeedsItsBurst
<1> QED BY <1>4, <1>5 DEF BurstOK

LEMMA BurstStep ==
  ASSUME TypesOK, BurstOK, [Next]_vars
  PROVE  BurstOK'
<1> USE DEF coordinator, ha, history
<1>1. ASSUME NEW doc \in Documents, HearDocument(doc)
      PROVE  BurstOK'
  <2>1. Live /\ UNCHANGED <<stage, now, heard, burst>>
    BY <1>1 DEF HearDocument, Listening, Live
  <2>2. PICK u : Heard(u) /\ Weighed(d, u.state, doc, now)
    BY <1>1, DocumentHeard
  <2>3. /\ d'.pending = d.pending /\ d'.pendingAt = d.pendingAt
        /\ d'.sightings["hopper"] = d.sightings["hopper"]
    BY <2>2 DEF Heard, Weighed
  <2>4. Grounded(d)'
    BY <2>1, <2>3 DEF BurstOK, Grounded, Waiting
  <2>5. /\ HeardAt'
        /\ options.snapshot # None =>
             /\ Waiting(options.snapshot, heard', now')
             /\ options.snapshot.sightings["hopper"] = "dispense" => burst'
    BY <2>1 DEF BurstOK, HeardAt, Grounded
  <2> QED BY <2>1, <2>2, <2>4, <2>5, HeardBurst DEF BurstOK
<1>2. ASSUME NEW readings \in Activities, HearActivity(readings)
      PROVE  BurstOK'
  <2>1. Live /\ UNCHANGED <<stage, now>>
    BY <1>2 DEF HearActivity, Listening, Live
  <2>2. HeardAt /\ Waiting(d, heard, now) /\ (d.sightings["hopper"] = "dispense" => burst)
    BY <2>1 DEF BurstOK, Grounded
  <2>3. PICK u : Heard(u) /\ Folded(d, u, heard', now)
    BY <1>2, <2>2, ActivityHeard
  <2>4. /\ HeardAt' /\ burst' = (burst \/ Near(heard'))
        /\ \A p \in DOMAIN heard : p \in DOMAIN heard' /\ heard[p] <= heard'[p]
    BY <1>2, <2>2, PhaseHeard
  <2>5. Grounded(d)'
    BY <2>1, <2>2, <2>3, <2>4, Zenon DEF Grounded, Heard, Folded
  <2>6. ASSUME options.snapshot # None
        PROVE  /\ Waiting(options.snapshot, heard', now')
               /\ options.snapshot.sightings["hopper"] = "dispense" => burst'
    <3> DEFINE s == options.snapshot
    <3>1. Waiting(s, heard, now) /\ (s.sightings["hopper"] = "dispense" => burst)
      BY <2>6 DEF BurstOK, Grounded
    <3>2. \A p \in DOMAIN heard :
            heard[p] \in Int /\ p \in DOMAIN heard' /\ heard'[p] \in Int /\ heard[p] <= heard'[p]
      BY <2>2, <2>4 DEF HeardAt
    <3>3. now \in Int /\ now <= now
      BY DEF TypesOK
    <3> HIDE DEF s
    <3>4. Waiting(s, heard', now)
      BY <3>1, <3>2, <3>3, WaitingLater
    <3>5. UNCHANGED now /\ (burst => burst')
      BY <2>1, <2>4
    <3>6. Waiting(s, heard', now') /\ (s.sightings["hopper"] = "dispense" => burst')
      BY <3>1, <3>4, <3>5
    <3> QED BY <3>6 DEF Grounded, s
  <2> QED BY <2>3, <2>4, <2>5, <2>6, HeardBurst DEF BurstOK
<1>3. CASE BeginSetup
  <2> DEFINE o == Swept(options)
             s == Base(o)
  <2>1. d' = RestoreDerived(o, cache) /\ options' = o /\ UNCHANGED <<now, heard, burst>>
    BY <1>3 DEF BeginSetup
  <2>2. o.snapshot = options.snapshot /\ (o.seen["hopper"] = "dispense" => options.seen["hopper"] = "dispense")
    BY SweptFields DEF TypesOK
  <2>3. d'.pending = s.pending /\ d'.pendingAt = s.pendingAt /\ d'.sightings = Evidence(o, s)
    BY <2>1, RestoredState, RestoredFields
  <2>4. None # "dispense"
    BY EntryAssumption, Zenon
  <2>5. d'.sightings["hopper"] = "dispense" => s.sightings["hopper"] = "dispense"
    <3> DEFINE none == o.seen["hopper"] = None
               bare == o.seen["hopper"] # None /\ s.sightings["hopper"] = None
               was == s.sightings["hopper"]
    <3>1. Evidence(o, s)["hopper"] = CASE none -> None [] bare -> "legacy" [] OTHER -> was
      BY Zenon DEF Evidence, Capabilities
    <3> HIDE DEF none, bare, was
    <3>2. Evidence(o, s)["hopper"] \in {None, "legacy", was}
      BY <3>1, Zenon
    <3> QED BY <2>3, <2>4, <3>2, Zenon DEF was
  <2>6. Waiting(s, heard, now) /\ (s.sightings["hopper"] = "dispense" => burst)
    BY <2>2, <2>4, NewStateIs, Zenon DEF Base, BurstOK, Grounded, Waiting, Capabilities
  <2>7. Grounded(d)'
    BY <2>1, <2>3, <2>5, <2>6 DEF Grounded, Waiting
  <2> HIDE DEF o, s
  <2>8. options'.snapshot # None => Grounded(options.snapshot)'
    BY <2>1, <2>2, Zenon DEF BurstOK, Grounded
  <2> QED BY <2>1, <2>2, <2>7, <2>8, Zenon DEF BurstOK, SightingNeedsItsBurst, HeardAt
<1>4. CASE Forwarded
  <2>1. options' = options \/ options' = [options EXCEPT !.snapshot = None]
    BY <1>4 DEF Forwarded
  <2>2. /\ options'.seen = options.seen
        /\ options'.snapshot = options.snapshot \/ options'.snapshot = None
    BY <2>1, Zenon DEF TypesOK, OptionFields
  <2>3. UNCHANGED <<d, now, heard, burst>> /\ Live
    BY <1>4 DEF Forwarded, Live
  <2> QED BY <2>2, <2>3, Zenon DEF BurstOK, Grounded, SightingNeedsItsBurst, HeardAt
<1>5. CASE FirstRefresh \/ SetupFails \/ Retry \/ StartReload \/ Unloaded \/ Stop \/ Crash \/ Start
  <2>1. UNCHANGED <<options, now, heard, burst>> /\ (Live' => Live /\ d' = d)
    BY <1>5 DEF FirstRefresh, SetupFails, Retry, StartReload, Unloaded, Stop, Crash, Start, Gone, Live
  <2> QED BY <2>1, Zenon DEF BurstOK, Grounded, SightingNeedsItsBurst, HeardAt
<1>6. CASE Tick
  <2>1. now' = now + 1 /\ UNCHANGED <<stage, d, options, heard, burst>> /\ now \in Int
    BY <1>6 DEF Tick, TypesOK
  <2>2. HeardAt'
    BY <2>1, SMT DEF BurstOK, HeardAt
  <2>3. ASSUME NEW s, Waiting(s, heard, now)
        PROVE  Waiting(s, heard, now')
    <3>1. \A p \in DOMAIN heard : heard[p] \in Int /\ heard[p] <= heard[p]
      BY DEF BurstOK, HeardAt
    <3>2. now' \in Int /\ now <= now'
      BY <2>1
    <3> QED BY <2>1, <2>3, <3>1, <3>2, WaitingLater
  <2>4. Live' = Live
    BY <2>1 DEF Live
  <2> QED BY <2>1, <2>2, <2>3, <2>4, Zenon DEF BurstOK, Grounded, SightingNeedsItsBurst
<1>7. CASE Hand \/ UNCHANGED vars
  <2>1. UNCHANGED <<options, d, stage, now, heard, burst>>
    BY <1>7 DEF Hand, UserDisables, UserEnables, vars
  <2> QED BY <2>1, Zenon DEF BurstOK, Grounded, SightingNeedsItsBurst, HeardAt, Live
<1> QED BY <1>1, <1>2, <1>3, <1>4, <1>5, <1>6, <1>7 DEF Next, Messages, Lifecycle

-----------------------------------------------------------------------------
(* What a loaded entry shows *)

LEMMA HeardSettled ==
  ASSUME TypesOK, SettledIsComplete, NEW u, Heard(u), UNCHANGED <<stage, flipped, registry>>
  PROVE  SettledIsComplete'
<1>1. OptionFields \subseteq DOMAIN options /\ options' = StoreEffects(options, u)
  BY DEF TypesOK, Heard
<1>2. /\ options'.pref = options.pref
      /\ options'.snapshot = IF Proved(u) = {} THEN options.snapshot ELSE Snapshot(u.state)
      /\ options'.seen = [c \in Capabilities |-> IF c \in Proved(u) THEN u.state.sightings[c] ELSE options.seen[c]]
  BY <1>1, StoredFields
<1> SUFFICES ASSUME stage' = "loaded", ~reload', ~flipped'
             PROVE  /\ options'.snapshot = None
                    /\ \A c \in Capabilities :
                         options'.seen[c] # None /\ ~options'.pref => registry'[c] \in {"enabled", "user"}
  BY DEF SettledIsComplete
<1>3. ~reload /\ Proved(u) = {}
  BY Zenon DEF Heard
<1>4. options'.snapshot = options.snapshot /\ \A c \in Capabilities : options'.seen[c] = options.seen[c]
  BY <1>2, <1>3
<1> QED BY <1>2, <1>3, <1>4, Zenon DEF SettledIsComplete

LEMMA SettledStep ==
  ASSUME TypesOK, BurstOK, SettledIsComplete, [Next]_vars
  PROVE  SettledIsComplete'
<1> USE DEF coordinator, ha, history
<1>1. ASSUME NEW doc \in Documents, HearDocument(doc)
      PROVE  SettledIsComplete'
  <2>1. UNCHANGED <<stage, flipped, registry>>
    BY <1>1 DEF HearDocument
  <2> QED BY <1>1, <2>1, DocumentHeard, HeardSettled
<1>2. ASSUME NEW readings \in Activities, HearActivity(readings)
      PROVE  SettledIsComplete'
  <2>1. UNCHANGED <<stage, flipped, registry>> /\ Live
    BY <1>2 DEF HearActivity, Listening, Live
  <2>2. HeardAt /\ Waiting(d, heard, now)
    BY <2>1 DEF BurstOK, Grounded
  <2> QED BY <1>2, <2>1, <2>2, ActivityHeard, HeardSettled
<1>3. CASE Forwarded
  <2> DEFINE r == [c \in Capabilities |-> IF registry[c] = "absent" THEN "integration" ELSE registry[c]]
             on == Detected(r)
  <2>1. CASE on # {}
    BY <1>3, <2>1, Zenon DEF Forwarded, SettledIsComplete
  <2>2. CASE on = {}
    <3>1. options' = [options EXCEPT !.snapshot = None] /\ Enable(r, {})
      BY <1>3, <2>2, Zenon DEF Forwarded
    <3>2. options'.snapshot = None /\ options'.seen = options.seen /\ options'.pref = options.pref
      BY <3>1, Zenon DEF TypesOK, OptionFields
    <3>3. \A c \in Capabilities : registry'[c] = r[c] /\ r[c] \in {"integration", "user", "enabled"}
      BY <3>1 DEF Enable, TypesOK, EntityStates
    <3>4. ASSUME NEW c \in Capabilities, options.seen[c] # None, ~options.pref
          PROVE  r[c] # "integration"
      BY <2>2, <3>4, Zenon DEF Detected
    <3> QED BY <3>2, <3>3, <3>4, Zenon DEF SettledIsComplete
  <2> QED BY <2>1, <2>2
<1>4. CASE BeginSetup \/ FirstRefresh \/ SetupFails \/ Retry \/ StartReload \/ Unloaded \/ Stop \/ Crash \/ Start
  <2>1. stage' # "loaded"
    BY <1>4 DEF BeginSetup, FirstRefresh, SetupFails, Retry, StartReload, Unloaded, Stop, Crash, Start
  <2> QED BY <2>1 DEF SettledIsComplete
<1>5. CASE Hand
  <2>1. PICK c \in Tracked : UserDisables(c) \/ UserEnables(c)
    BY <1>5 DEF Hand
  <2>2. CASE UserEnables(c)
    BY <2>2 DEF UserEnables, SettledIsComplete
  <2>3. CASE UserDisables(c)
    <3>1. registry' = [registry EXCEPT ![c] = "user"] /\ UNCHANGED <<stage, options, reload, flipped>>
      BY <2>3 DEF UserDisables
    <3>2. \A b \in Capabilities : registry'[b] \in {registry[b], "user"}
      BY <3>1 DEF TypesOK
    <3> QED BY <3>1, <3>2, Zenon DEF SettledIsComplete
  <2> QED BY <2>1, <2>2, <2>3
<1>6. CASE Tick \/ UNCHANGED vars
  <2>1. UNCHANGED <<stage, options, registry, reload, flipped>>
    BY <1>6 DEF Tick, vars
  <2> QED BY <2>1, Zenon DEF SettledIsComplete
<1> QED BY <1>1, <1>2, <1>3, <1>4, <1>5, <1>6 DEF Next, Messages, Lifecycle

-----------------------------------------------------------------------------(* Excess weight: the verdict that is restored was earned, unless it is blurred *)

Ran == now - cleared >= ExcessAfter

(* A state reports no excess weight but after a run of loaded readings. *)
Patient(s) == Timed(s) /\ (s.excessRestored = TRUE => Ran)

ExcessOK ==
  /\ shown.excess = TRUE => stage \in {"loaded", "unloading"}
  /\ ~blurred =>
       /\ Live => Patient(d)
       /\ options.snapshot # None => Timed(options.snapshot)
       /\ shown.excess = TRUE => Ran
       /\ cache.excess = TRUE => Ran \/ (Live /\ d.excessRestored # TRUE)

LEMMA ExcessIsEarned ==
  ASSUME NEW s, NEW doc, NEW time \in Int, NEW clear \in Int,
         s.loadedSince # None => s.loadedSince \in Int /\ clear <= s.loadedSince,
         s.excessRestored = TRUE => time - clear >= ExcessAfter,
         ExcessWeight(s, doc, time) = TRUE
  PROVE  time - clear >= ExcessAfter
<1>1. (s.loadedSince # None /\ time - s.loadedSince >= ExcessAfter) \/ s.excessRestored = TRUE
  BY EntryAssumption, Zenon DEF ExcessWeight
<1>2. CASE s.loadedSince # None /\ time - s.loadedSince >= ExcessAfter
  <2>1. ExcessAfter \in Int
    BY DerivedAssumption
  <2> QED BY <1>2, <2>1, SMT
<1> QED BY <1>1, <1>2

LEMMA HeardSnapshot ==
  ASSUME TypesOK, NEW u, Heard(u), Timed(d)', options.snapshot # None => Timed(options.snapshot),
         cleared' = cleared \/ options.snapshot = None
  PROVE  options'.snapshot # None => Timed(options.snapshot)'
<1>1. OptionFields \subseteq DOMAIN options /\ options' = StoreEffects(options, u)
  BY DEF TypesOK, Heard
<1>2. options'.snapshot = IF Proved(u) = {} THEN options.snapshot ELSE Snapshot(u.state)
  BY <1>1, StoredFields
<1>3. d' = u.state /\ IsState(u.state)
  BY DEF Heard
<1>4. CASE Proved(u) = {}
  BY <1>2, <1>4 DEF Timed
<1>5. CASE Proved(u) # {}
  <2>1. options'.snapshot.loadedSince = d'.loadedSince
    BY <1>2, <1>3, <1>5, SnapshotLeaves DEF Leaves, Untouched
  <2> QED BY <2>1 DEF Timed
<1> QED BY <1>4, <1>5

LEMMA DocumentExcess ==
  ASSUME TypesOK, ExcessOK, NEW doc \in Documents, HearDocument(doc)
  PROVE  ExcessOK'
<1>1. PICK u : Heard(u) /\ Weighed(d, u.state, doc, now) /\ u = ApplyState(d, doc, now)
  BY DocumentHeard
<1>2. /\ Live /\ stage \in {"refreshing", "forwarding", "loaded"} /\ UNCHANGED <<now, stage, cache>>
      /\ robot' # None
      /\ shown' = IF stage = "loaded" THEN Verdicts(d', doc) ELSE shown
      /\ cleared' = IF doc.loaded = FALSE THEN now ELSE cleared
      /\ blurred' = (blurred \/ (doc.loaded = FALSE /\ options.snapshot # None))
  <2>1. doc # None
    BY EntryAssumption, Zenon
  <2> QED BY <1>1, <2>1 DEF HearDocument, Listening, Live, Heard
<1>3. d' = u.state /\ Live'
  BY <1>1, <1>2 DEF Heard, Live
<1>4. \/ /\ doc.loaded = TRUE
         /\ d'.loadedSince = (IF d.loadedSince = None THEN now ELSE d.loadedSince)
         /\ d'.excessRestored = d.excessRestored
      \/ doc.loaded = FALSE /\ d'.loadedSince = None /\ d'.excessRestored = None
      \/ /\ doc.loaded \notin BOOLEAN
         /\ d'.loadedSince = d.loadedSince /\ d'.excessRestored = d.excessRestored
  BY <1>1, <1>3, Zenon DEF Weighed
<1>5. shown'.excess = TRUE => stage' \in {"loaded", "unloading"}
  BY <1>2, Zenon DEF ExcessOK
<1>6. None # TRUE
  BY EntryAssumption, Zenon
<1>7. now \in Int /\ cleared \in Int /\ cleared <= now
  BY DEF TypesOK
<1>8. ASSUME ~blurred'
      PROVE  /\ Patient(d)' /\ (options'.snapshot # None => Timed(options.snapshot)')
             /\ shown'.excess = TRUE => Ran'
             /\ cache'.excess = TRUE => Ran' \/ (Live' /\ d'.excessRestored # TRUE)
  <2>1. /\ ~blurred /\ ~(doc.loaded = FALSE /\ options.snapshot # None)
        /\ Patient(d) /\ (options.snapshot # None => Timed(options.snapshot))
        /\ shown.excess = TRUE => Ran
        /\ cache.excess = TRUE => Ran \/ d.excessRestored # TRUE
    BY <1>2, <1>8, Zenon DEF ExcessOK
  <2>2. CASE doc.loaded = FALSE
    <3>1. d'.loadedSince = None /\ d'.excessRestored = None /\ options.snapshot = None
      BY <1>4, <2>1, <2>2, Zenon
    <3>2. Patient(d)'
      BY <1>6, <3>1 DEF Patient, Timed
    <3>3. shown'.excess # TRUE
      <4>1. ExcessWeight(d', doc, now) = FALSE
        BY <2>2, <3>1, Zenon DEF ExcessWeight
      <4>2. stage = "loaded" => shown'.excess = FALSE
        BY <1>2, <4>1, Zenon DEF Verdicts
      <4>3. stage # "loaded" => shown.excess # TRUE
        BY <1>2 DEF ExcessOK
      <4> QED BY <1>2, <4>2, <4>3, Zenon
    <3>4. d'.excessRestored # TRUE
      BY <1>6, <3>1
    <3>5. options'.snapshot # None => Timed(options.snapshot)'
      BY <1>1, <3>1, <3>2, HeardSnapshot DEF Patient
    <3> QED BY <1>3, <3>2, <3>3, <3>4, <3>5
  <2>3. CASE doc.loaded # FALSE
    <3>1. cleared' = cleared /\ Ran' = Ran
      BY <1>2, <2>3, Zenon DEF Ran
    <3>2. d'.excessRestored = d.excessRestored /\ d'.loadedSince \in {d.loadedSince, now}
      BY <1>4, <2>3, Zenon
    <3>3. Patient(d)'
      BY <1>7, <2>1, <3>1, <3>2 DEF Patient, Timed
    <3>4. options'.snapshot # None => Timed(options.snapshot)'
      BY <1>1, <2>1, <3>1, <3>3, HeardSnapshot DEF Patient
    <3>5. shown'.excess = TRUE => Ran'
      <4>1. CASE stage = "loaded"
        <5>1. shown'.excess = ExcessWeight(d', doc, now)
          BY <1>2, <4>1 DEF Verdicts
        <5>2. ExcessWeight(d', doc, now) = TRUE => now - cleared' >= ExcessAfter
          BY <1>2, <1>7, <3>1, <3>3, ExcessIsEarned DEF Patient, Timed, Ran
        <5> QED BY <1>2, <4>1, <5>1, <5>2 DEF Ran
      <4>2. CASE stage # "loaded"
        BY <1>2, <2>1, <3>1, <4>2
      <4> QED BY <4>1, <4>2
    <3> QED BY <1>2, <1>3, <2>1, <3>1, <3>2, <3>3, <3>4, <3>5
  <2> QED BY <2>2, <2>3
<1> QED BY <1>2, <1>5, <1>8, Zenon DEF ExcessOK

LEMMA ActivityExcess ==
  ASSUME TypesOK, BurstOK, ExcessOK, NEW readings \in Activities, HearActivity(readings)
  PROVE  ExcessOK'
<1>1. /\ Live /\ UNCHANGED <<now, stage, cache, robot, cleared, blurred>>
      /\ \/ shown' = shown
         \/ stage = "loaded" /\ shown' = Verdicts(d', robot)
  BY Zenon DEF HearActivity, Listening, Live
<1>2. HeardAt /\ Waiting(d, heard, now)
  BY <1>1 DEF BurstOK, Grounded
<1>3. PICK u : Heard(u) /\ Folded(d, u, heard', now)
  BY <1>2, ActivityHeard
<1>4. d'.loadedSince = d.loadedSince /\ d'.excessRestored = d.excessRestored
  BY <1>3 DEF Folded, Heard
<1>5. Live' /\ Ran' = Ran
  BY <1>1 DEF Live, Ran
<1>6. shown'.excess = TRUE => stage' \in {"loaded", "unloading"}
  BY <1>1, Zenon DEF ExcessOK
<1>7. now \in Int /\ cleared \in Int
  BY DEF TypesOK
<1>8. ASSUME ~blurred
      PROVE  /\ Patient(d)' /\ (options'.snapshot # None => Timed(options.snapshot)')
             /\ shown'.excess = TRUE => Ran
  <2>1. Patient(d) /\ (options.snapshot # None => Timed(options.snapshot)) /\ (shown.excess = TRUE => Ran)
    BY <1>1, <1>8, Zenon DEF ExcessOK
  <2>2. Patient(d)'
    BY <1>1, <1>4, <1>5, <2>1 DEF Patient, Timed
  <2>3. options'.snapshot # None => Timed(options.snapshot)'
    BY <1>1, <1>3, <2>1, <2>2, HeardSnapshot DEF Patient
  <2>4. CASE shown' = Verdicts(d', robot)
    <3>1. shown'.excess = ExcessWeight(d', robot, now)
      BY <1>1, <2>4 DEF Verdicts
    <3>2. ExcessWeight(d', robot, now) = TRUE => now - cleared >= ExcessAfter
      BY <1>4, <1>7, <2>1, ExcessIsEarned DEF Patient, Timed, Ran
    <3> QED BY <2>2, <2>3, <3>1, <3>2 DEF Ran
  <2> QED BY <1>1, <2>1, <2>2, <2>3, <2>4
<1>9. ~blurred => (cache'.excess = TRUE => Ran \/ d'.excessRestored # TRUE)
  BY <1>1, <1>4, Zenon DEF ExcessOK
<1> QED BY <1>1, <1>5, <1>6, <1>8, <1>9, Zenon DEF ExcessOK

LEMMA ExcessStep ==
  ASSUME TypesOK, BurstOK, ExcessOK, [Next]_vars
  PROVE  ExcessOK'
<1> USE DEF coordinator, ha, history
<1>0. None # TRUE /\ Unshown.excess = None
  BY EntryAssumption, Zenon DEF Unshown
<1>1. ASSUME NEW doc \in Documents, HearDocument(doc)
      PROVE  ExcessOK'
  BY <1>1, DocumentExcess
<1>2. ASSUME NEW readings \in Activities, HearActivity(readings)
      PROVE  ExcessOK'
  BY <1>2, ActivityExcess
<1>3. CASE BeginSetup
  <2> DEFINE o == Swept(options)
             s == Base(o)
  <2>1. /\ stage = "due" /\ stage' = "refreshing" /\ robot' = None
        /\ d' = RestoreDerived(o, cache) /\ options' = o
        /\ UNCHANGED <<now, cleared, blurred, cache, shown>>
    BY <1>3 DEF BeginSetup
  <2>2. o.snapshot = options.snapshot
    BY SweptFields DEF TypesOK
  <2>3. d'.loadedSince = s.loadedSince /\ d'.excessRestored = cache.excess
    BY <2>1, RestoredState, RestoredFields
  <2>4. s.loadedSince = None \/ (options.snapshot # None /\ s.loadedSince = options.snapshot.loadedSince)
    BY <2>2, NewStateIs, Zenon DEF Base
  <2> HIDE DEF o, s
  <2>5. shown.excess # TRUE
    BY <2>1 DEF ExcessOK
  <2>6. ~Live /\ Live' /\ Ran' = Ran
    BY <2>1 DEF Live, Ran
  <2>7. ~blurred => Patient(d)' /\ (options'.snapshot # None => Timed(options.snapshot)')
                    /\ (cache.excess = TRUE => Ran)
    <3> SUFFICES ASSUME ~blurred
                 PROVE  Patient(d)' /\ (options'.snapshot # None => Timed(options.snapshot)')
                        /\ (cache.excess = TRUE => Ran)
      OBVIOUS
    <3>1. (options.snapshot # None => Timed(options.snapshot)) /\ (cache.excess = TRUE => Ran)
      BY <2>6, Zenon DEF ExcessOK
    <3> QED BY <2>1, <2>2, <2>3, <2>4, <2>6, <3>1, Zenon DEF Patient, Timed
  <2> QED BY <2>1, <2>3, <2>5, <2>6, <2>7, Zenon DEF ExcessOK
<1>4. CASE FirstRefresh
  <2>1. /\ stage' = "forwarding" /\ Live /\ Live'
        /\ UNCHANGED <<now, cleared, blurred, cache, shown, options, d>>
        /\ stage = "refreshing"
    BY <1>4 DEF FirstRefresh, Live
  <2>2. shown.excess # TRUE
    BY <2>1 DEF ExcessOK
  <2> QED BY <2>1, <2>2, Zenon DEF ExcessOK, Patient, Timed, Ran
<1>5. CASE Forwarded
  <2>1. /\ stage' = "loaded" /\ Live /\ Live' /\ shown' = Verdicts(d, robot)
        /\ UNCHANGED <<now, cleared, blurred, cache, d>>
        /\ options' = options \/ options' = [options EXCEPT !.snapshot = None]
    BY <1>5 DEF Forwarded, Live
  <2>2. options'.snapshot = options.snapshot \/ options'.snapshot = None
    BY <2>1, Zenon DEF TypesOK, OptionFields
  <2>3. ~blurred => (shown'.excess = TRUE => Ran)
    <3> SUFFICES ASSUME ~blurred PROVE shown'.excess = TRUE => Ran
      OBVIOUS
    <3>1. Patient(d) /\ now \in Int /\ cleared \in Int
      BY <2>1 DEF ExcessOK, TypesOK
    <3>2. ExcessWeight(d, robot, now) = TRUE => now - cleared >= ExcessAfter
      BY <3>1, ExcessIsEarned DEF Patient, Timed, Ran
    <3>3. shown'.excess = ExcessWeight(d, robot, now)
      BY <2>1 DEF Verdicts
    <3> QED BY <3>2, <3>3 DEF Ran
  <2> QED BY <2>1, <2>2, <2>3, Zenon DEF ExcessOK, Patient, Timed, Ran
<1>6. CASE StartReload
  <2>1. /\ \/ stage = "loaded" /\ stage' = "unloading"
           \/ stage = "retry" /\ stage' = "due"
        /\ UNCHANGED <<now, cleared, blurred, cache, shown, options, d>>
    BY <1>6 DEF StartReload
  <2>2. Live' = Live
    BY <2>1 DEF Live
  <2>3. stage = "retry" => shown.excess # TRUE
    BY DEF ExcessOK
  <2> QED BY <2>1, <2>2, <2>3, Zenon DEF ExcessOK, Patient, Timed, Ran
<1>7. CASE SetupFails
  <2>1. /\ stage = "refreshing" /\ stage' = "retry" /\ shown' = Unshown
        /\ UNCHANGED <<now, cleared, cache, options>> /\ blurred' = (blurred \/ Forgotten)
        /\ Live /\ ~Live'
    BY <1>7 DEF SetupFails, Gone, Live
  <2>2. ~blurred' => (cache.excess = TRUE => Ran)
    BY <2>1, Zenon DEF ExcessOK, Forgotten
  <2> QED BY <1>0, <2>1, <2>2, Zenon DEF ExcessOK, Timed, Ran
<1>8. CASE Retry \/ Start
  <2>1. /\ UNCHANGED <<now, cleared, blurred, cache, options, shown>>
        /\ ~Live /\ ~Live' /\ stage \in {"retry", "off"} /\ stage' = "due"
    BY <1>8 DEF Retry, Start, Live
  <2>2. shown.excess # TRUE
    BY <2>1 DEF ExcessOK
  <2> QED BY <2>1, <2>2, Zenon DEF ExcessOK, Timed, Ran
<1>9. CASE Unloaded
  <2>1. /\ UNCHANGED <<now, cleared, blurred, options>> /\ shown' = Unshown /\ cache' = Displayed
        /\ ~Live' /\ stage' = "due"
    BY <1>9 DEF Unloaded, Gone, Live
  <2>2. cache'.excess = shown.excess
    BY <2>1 DEF Displayed
  <2> QED BY <1>0, <2>1, <2>2, Zenon DEF ExcessOK, Timed, Ran
<1>10. CASE Stop
  <2>1. /\ UNCHANGED <<now, cleared, options>> /\ shown' = Unshown /\ cache' = Kept
        /\ ~Live' /\ stage' = "off" /\ blurred' = (blurred \/ Forgotten)
    BY <1>10 DEF Stop, Gone, Live
  <2>2. ~blurred' => (cache'.excess = TRUE => Ran)
    <3>1. CASE HasEntities
      <4>1. cache'.excess = shown.excess
        BY <2>1, <3>1 DEF Kept, Displayed
      <4> QED BY <2>1, <4>1, Zenon DEF ExcessOK
    <3>2. CASE ~HasEntities
      <4>1. cache' = cache /\ (Live => stage \in {"refreshing", "forwarding"})
        BY <2>1, <3>2 DEF Kept, HasEntities, Live
      <4> QED BY <2>1, <4>1, Zenon DEF ExcessOK, Forgotten, Patient
    <3> QED BY <3>1, <3>2
  <2> QED BY <1>0, <2>1, <2>2, Zenon DEF ExcessOK, Timed, Ran
<1>11. CASE Crash
  <2>1. /\ UNCHANGED <<now, cleared, options>> /\ shown' = Unshown
        /\ ~Live' /\ stage' = "off" /\ blurred' = (blurred \/ cache'.excess = TRUE)
    BY <1>11 DEF Crash, Gone, Live
  <2> QED BY <1>0, <2>1, Zenon DEF ExcessOK, Timed, Ran
<1>12. CASE Tick
  <2>1. /\ UNCHANGED <<stage, d, robot, cleared, blurred, options, shown, cache>> /\ Live' = Live
        /\ now' = now + 1
    BY <1>12 DEF Tick, Live
  <2>2. Ran => Ran'
    <3>1. now \in Int /\ cleared \in Int /\ ExcessAfter \in Int
      BY DerivedAssumption DEF TypesOK
    <3> QED BY <2>1, <3>1, SMT DEF Ran
  <2> QED BY <2>1, <2>2, Zenon DEF ExcessOK, Patient, Timed
<1>13. CASE Hand \/ UNCHANGED vars
  <2>1. UNCHANGED <<stage, d, robot, cleared, blurred, options, shown, cache, now>> /\ Live' = Live
    BY <1>13 DEF Hand, UserDisables, UserEnables, vars, Live
  <2> QED BY <2>1, Zenon DEF ExcessOK, Patient, Timed, Ran
<1> QED BY <1>1, <1>2, <1>3, <1>4, <1>5, <1>6, <1>7, <1>8, <1>9, <1>10, <1>11, <1>12, <1>13
        DEF Next, Messages, Lifecycle

-----------------------------------------------------------------------------(* Together *)

EntryInv == TypesOK /\ BurstOK /\ GaugeOK /\ SettledIsComplete /\ ExcessOK

LEMMA Initially == Init => EntryInv
<1> SUFFICES ASSUME Init PROVE EntryInv
  OBVIOUS
<1> USE DEF Init
<1>1. /\ DOMAIN options = {"seen", "snapshot", "learned", "fill", "stale", "swept", "pref"}
      /\ options.snapshot = None /\ options.seen["hopper"] # "dispense"
      /\ options.stale \in BOOLEAN \cup {None}
  BY EntryAssumption, Zenon
<1>2. registry \in [Capabilities -> EntityStates]
  BY DEF EntityStates
<1>3. None # TRUE /\ Unshown.excess = None
  BY EntryAssumption, Zenon DEF Unshown
<1>4. cache.excess = None
  OBVIOUS
<1>5. TypesOK
  BY <1>1, <1>2 DEF TypesOK, Live, Stages, OptionFields
<1>6. BurstOK
  BY <1>1 DEF BurstOK, HeardAt, Live, SightingNeedsItsBurst
<1>7. GaugeOK
  <2>1. told.fill = options.fill /\ told.stale = (options.stale = TRUE) /\ {"fill", "stale"} \subseteq DOMAIN told
    BY Zenon
  <2>2. options.stale # None => options.stale = told.stale
    BY <1>1, <2>1, Zenon
  <2>3. options.stale = None => told.stale = FALSE
    BY <1>3, <2>1, Zenon
  <2> QED BY <1>1, <2>1, <2>2, <2>3 DEF GaugeOK, Live
<1>8. SettledIsComplete
  BY DEF SettledIsComplete
<1>9. ExcessOK
  BY <1>1, <1>3, <1>4 DEF ExcessOK, Live
<1> QED BY <1>5, <1>6, <1>7, <1>8, <1>9 DEF EntryInv

LEMMA Inductively == EntryInv /\ [Next]_vars => EntryInv'
<1> SUFFICES ASSUME EntryInv, [Next]_vars PROVE EntryInv'
  OBVIOUS
<1>1. HeardAt /\ (Live => Waiting(d, heard, now))
  BY DEF EntryInv, BurstOK, Grounded
<1>2. TypesOK /\ BurstOK /\ GaugeOK /\ SettledIsComplete /\ ExcessOK
  BY DEF EntryInv
<1> QED BY <1>1, <1>2, TypesStep, BurstStep, GaugeStep, SettledStep, ExcessStep DEF EntryInv

(* What the four theorems below rest on: the states of a coordinator, of its options and of the *)
(* snapshot in them are well formed, and agree with what was heard (__init__.py, coordinator.py). *)
THEOREM EntryHolds == Spec => []EntryInv
BY Initially, Inductively, PTL DEF Spec

(* No reload, restart or crash, and no run of readings, makes a hopper's sighting of two codes     *)
(* that were not heard within one burst (derive.py _apply_activity, coordinator.py _restore_derived). *)
THEOREM SightingsAreProven == Spec => []SightingNeedsItsBurst
<1>1. EntryInv => SightingNeedsItsBurst
  BY DEF EntryInv, BurstOK
<1> QED BY <1>1, EntryHolds, PTL

(* However setups, reloads, sightings and a user's hand interleave, an entry that has come to rest *)
(* shows what was proven and has no snapshot left (__init__.py async_setup_entry).                  *)
THEOREM LoadedEntriesAreComplete == Spec => []SettledIsComplete
<1>1. EntryInv => SettledIsComplete
  BY DEF EntryInv
<1> QED BY <1>1, EntryHolds, PTL

(* Every coordinator, however it was set up, has the newest gauge that was heard and knows whether *)
(* it is stale (coordinator.py _apply_effects, _restore_derived).                                   *)
THEOREM GaugesOutliveTheirCoordinator == Spec => []GaugeSurvives
<1>1. EntryInv => GaugeSurvives
  BY DEF EntryInv, TypesOK, GaugeOK, GaugeSurvives
<1> QED BY <1>1, EntryHolds, PTL

(* No restart makes a verdict on the weight earlier than the pan's own readings do, unless the *)
(* verdict carried over may be older than they are (derive.py excess_weight).                   *)
THEOREM ExcessIsWaitedFor == Spec => []ExcessNeedsARun
<1>1. ASSUME EntryInv PROVE ExcessNeedsARun
  <2> SUFFICES ASSUME stage = "loaded", ~blurred, ExcessWeight(d, robot, now) = TRUE
               PROVE  now - cleared >= ExcessAfter
    BY DEF ExcessNeedsARun
  <2>1. Patient(d) /\ now \in Int /\ cleared \in Int
    BY <1>1 DEF EntryInv, ExcessOK, Live, TypesOK
  <2> QED BY <2>1, ExcessIsEarned DEF Patient, Timed, Ran
<1> QED BY <1>1, EntryHolds, PTL
=============================================================================
