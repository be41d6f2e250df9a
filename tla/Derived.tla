------------------------------- MODULE Derived -------------------------------
(***************************************************************************)
(* What is derived from the message stream of one robot (derive.py,        *)
(* events.py): the reducer as operators on a derived state, folding one    *)
(* message at a time, and the read model.  Of the values only an entity    *)
(* shows, what matters is whether there is one (`reported'); the firmware   *)
(* version is left out.                                                    *)
(***************************************************************************)
EXTENDS Scale

CONSTANTS   \* None stands also for a field that a document does not carry
  BurstWindow,  \* DISPENSE_BURST_WINDOW, as are the next ones of derive.py and calibration.py
  StateDedupe,
  DispenseDedupe,
  CloseGrace,
  ExcessAfter,
  StepSamples,
  StepSize

ASSUME DerivedAssumption ==
  /\ {BurstWindow, CloseGrace, ExcessAfter, StepSamples, StepSize} \subseteq Nat
  /\ {StateDedupe, DispenseDedupe} \subseteq Nat \ {0}

-----------------------------------------------------------------------------
(* Capabilities and what proves them *)

Capabilities == {"hopper", "visit_duration", "drawer", "pet_weight", "cat_visit"}

Restorable == {"restored", "legacy"}
AcceptedEvidence ==
  [hopper |-> {"dispense"} \cup Restorable,
   visit_duration |-> {"visit_duration", "legacy"},
   drawer |-> {"drawer_moved"} \cup Restorable,
   pet_weight |-> {"cat_weight"} \cup Restorable,
   cat_visit |-> {"cat_weight", "visit_duration", "occupancy"} \cup Restorable]

-----------------------------------------------------------------------------
(* The state, and an update: a state with the effects of what was folded in *)

NewState ==
  [fill |-> None, stale |-> FALSE, fault |-> None,
   loadedSince |-> None, excessRestored |-> None, faultRestored |-> None,
   cycles |-> None, cycleRunning |-> FALSE, visitStarted |-> None,
   beamAt |-> None, occupied |-> None,
   litter |-> NewLearned, litterAt |-> None, baseline |-> None, steps |-> 0,
   hopper |-> NewLearned, hopperAt |-> None,
   pending |-> {}, pendingAt |-> None,
   reported |-> {},   \* the capabilities whose values are known
   sightings |-> [c \in Capabilities |-> None]]

(* as_dict and from_dict: what of a state outlives the coordinator it was derived by. *)
Snapshot(s) ==
  [s EXCEPT !.cycleRunning = FALSE, !.visitStarted = None, !.baseline = None, !.steps = 0,
           !.litter = Persisted(@), !.hopper = Persisted(@)]

Updated(s) == [state |-> s, effects |-> {}]
With(u, s) == [u EXCEPT !.state = s]
Learned(u, s, moved) ==
  [state |-> s, effects |-> IF moved THEN u.effects \cup {<<"learned">>} ELSE u.effects]
And(u, s, effect) == [state |-> s, effects |-> u.effects \cup {effect}]

(* The capability's value was heard, which an entity shows; the first time proves that the *)
(* robot has it.                                                                             *)
Sight(u, c, evidence) ==
  LET known == And(u, [u.state EXCEPT !.reported = @ \cup {c}], <<"changed">>)
  IN IF u.state.sightings[c] # None THEN known
     ELSE And(known, [known.state EXCEPT !.sightings[c] = evidence], <<"sighted", c>>)

-----------------------------------------------------------------------------
(* A state document *)

SeeBeam(s, doc, now) == IF doc.beam = TRUE THEN [s EXCEPT !.beamAt = now] ELSE s

Weigh_VerdictKept(s, doc, now) == \* mutant: a clear pan leaves the carried verdict
  CASE doc.loaded = TRUE -> [s EXCEPT !.loadedSince = IF @ = None THEN now ELSE @]
    [] doc.loaded = FALSE -> [s EXCEPT !.loadedSince = None]
    [] OTHER -> s
Weigh(s, doc, now) ==
  CASE doc.loaded = TRUE -> [s EXCEPT !.loadedSince = IF @ = None THEN now ELSE @]
    [] doc.loaded = FALSE -> [s EXCEPT !.loadedSince = None, !.excessRestored = None]
    [] OTHER -> s

CountCycles(s, doc) ==
  IF doc.cycles = None THEN s
  ELSE LET turned == /\ s.faultRestored = TRUE /\ s.fault = None
                     /\ s.cycles # None /\ doc.cycles > s.cycles
       IN [s EXCEPT !.faultRestored = IF turned THEN FALSE ELSE @, !.cycles = doc.cycles]

WatchCycle(u, doc) ==
  CASE doc.status = "clean_cycle" -> With(u, [u.state EXCEPT !.cycleRunning = TRUE])
    [] doc.status = "ready" /\ u.state.cycleRunning ->
         And(u, [u.state EXCEPT !.cycleRunning = FALSE], <<"cycle", doc.cycles>>)
    [] OTHER -> u

WatchVisit(u, doc, now) ==
  LET started == u.state.visitStarted IN
  CASE doc.status = "cat_detected" ->
         With(u, [u.state EXCEPT !.visitStarted = IF @ = None THEN now ELSE @])
    [] doc.status = "cat_sensor_timing" ->
         IF started # None /\ doc.beam = FALSE /\ doc.loaded = FALSE
         THEN And(u, [u.state EXCEPT !.visitStarted = None], <<"visit", started, now>>)
         ELSE u
    [] doc.status \notin {"cat_detected", "cat_sensor_timing", None} ->
         With(u, [u.state EXCEPT !.visitStarted = None])
    [] OTHER -> u

Arrive(u, doc) ==
  LET v == IF u.state.occupied = FALSE /\ doc.beam = TRUE
           THEN Sight(u, "cat_visit", "occupancy") ELSE u
  IN With(v, [v.state EXCEPT !.occupied = doc.beam])

(* litter_is_sampleable: a settled robot with nothing in it. *)
Sampleable(doc) == doc.level # None /\ doc.beam = FALSE /\ doc.status = "ready"

(* The readings in a row that lie a step to one side. *)
Held_EitherSide(steps, direction) == direction * (Magnitude(steps) + 1) \* mutant
Held(steps, direction) == IF steps * direction > 0 THEN steps + direction ELSE direction

(* A level that settles a step away from the baseline was filled or scooped by hand; *)
(* the distance to the bed falls as the litter rises.                                *)
WatchForTopUp(u, mm) ==
  LET s == u.state
      direction == IF mm < s.baseline THEN 1 ELSE -1
      held == Held(s.steps, direction)
      settled == [s EXCEPT !.baseline = mm, !.steps = 0]
  IN CASE mm \notin LitterLevel.plausible -> u
       [] mm \in LitterLevel.plausible /\ (s.baseline = None \/ Magnitude(mm - s.baseline) < StepSize) ->
            With(u, settled)
       [] OTHER ->
            IF Magnitude(held) < StepSamples THEN With(u, [s EXCEPT !.steps = held])
            ELSE IF direction < 0 \/ s.stale THEN With(u, settled)
            ELSE And(u, [settled EXCEPT !.stale = TRUE], <<"stale">>)

(* _learn_litter: a redelivered document is no second sample. *)
LearnLitter_Redelivered(u, doc, now) == \* mutant: the time of the last sample is not asked for
  LET v == With(u, [u.state EXCEPT !.litterAt = now])
  IN IF ~Sampleable(doc) THEN v
     ELSE LET w == WatchForTopUp(v, doc.level)
              litter == Observe(w.state.litter, doc.level, LitterLevel)
          IN Learned(w, [w.state EXCEPT !.litter = litter], Moved(w.state.litter, litter))
LearnLitter(u, doc, now) ==
  IF u.state.litterAt # None /\ now - u.state.litterAt < StateDedupe THEN u
  ELSE LET v == With(u, [u.state EXCEPT !.litterAt = now])
       IN IF ~Sampleable(doc) THEN v
          ELSE LET w == WatchForTopUp(v, doc.level)
                   litter == Observe(w.state.litter, doc.level, LitterLevel)
               IN Learned(w, [w.state EXCEPT !.litter = litter], Moved(w.state.litter, litter))

ApplyState(s, doc, now) ==
  LET seen == CountCycles(Weigh(SeeBeam(s, doc, now), doc, now), doc)
      watched == WatchVisit(WatchCycle(Updated(seen), doc), doc, now)
  IN LearnLitter(Arrive(watched, doc), doc, now)

-----------------------------------------------------------------------------
(* An activity message *)

(* The readings that stand for events; most registers stand for none. *)
IsEvent(r) == \/ r.register = "weight" /\ r.value # 0
              \/ r.register = "duration" /\ r.value <= 300
              \/ r.register \in {"dispense", "fault", "drawer"}

Phase(code) == code \div 4096
Value(code) == code % 4096
FillPhase == 1

Restart_Never(s, now) == s.pendingAt = None
Restart(s, now) == s.pendingAt = None \/ now - s.pendingAt > BurstWindow

LearnHopper(u, gauge, now) ==
  IF u.state.hopperAt # None /\ now - u.state.hopperAt < DispenseDedupe THEN u
  ELSE LET hopper == Observe(u.state.hopper, gauge, HopperGauge)
       IN Learned(u, [u.state EXCEPT !.hopper = hopper, !.hopperAt = now],
                  Moved(u.state.hopper, hopper))

Fill(u, gauge, now) ==
  LET s == u.state
      effects == (IF s.fill = gauge THEN {} ELSE {<<"fill">>})
                 \cup (IF s.stale THEN {<<"stale">>} ELSE {})
  IN LearnHopper([state |-> [s EXCEPT !.fill = gauge, !.stale = FALSE],
                  effects |-> u.effects \cup effects], gauge, now)

(* Two different phases inside the window are a dispense; one, however often, is a read. *)
Dispense(u, code, now) ==
  LET s == IF Restart(u.state, now) THEN [u.state EXCEPT !.pending = {}, !.pendingAt = now]
           ELSE u.state
      burst == {p \in s.pending : Phase(p) # Phase(code)} \cup {code}
      fills == {Value(p) : p \in {q \in burst : Phase(q) = FillPhase}}
      spent == With(u, [s EXCEPT !.pending = {}])
  IN IF Cardinality(burst) < 2 THEN With(u, [s EXCEPT !.pending = burst])
     ELSE Sight(IF fills = {} THEN spent ELSE Fill(spent, CHOOSE f \in fills : TRUE, now),
                "hopper", "dispense")

(* A visit's close counts only if something broke the beam as long ago as it lasted. *)
BeamSeenRecently_Latched(s, now, duration) == s.beamAt # None \* mutant
BeamSeenRecently(s, now, duration) ==
  s.beamAt # None /\ now - s.beamAt <= CloseGrace + duration

CloseVisit(u, duration, now) ==
  IF ~BeamSeenRecently(u.state, now, duration) THEN u
  ELSE Sight(Sight(With(u, [u.state EXCEPT !.beamAt = None]), "visit_duration", "visit_duration"),
             "cat_visit", "visit_duration")

ApplyEvent(u, r, now) ==
  CASE r.register = "weight" ->
         Sight(Sight(u, "pet_weight", "cat_weight"), "cat_visit", "cat_weight")
    [] r.register = "dispense" -> Dispense(u, r.value, now)
    [] r.register = "duration" -> CloseVisit(u, r.value, now)
    [] r.register = "fault" ->
         IF r.value = u.state.fault THEN u ELSE And(u, [u.state EXCEPT !.fault = r.value], <<"changed">>)
    [] r.register = "drawer" -> Sight(u, "drawer", "drawer_moved")

ApplyReading(u, r, now) == IF IsEvent(r) THEN ApplyEvent(u, r, now) ELSE u

(* What each of a message's readings leaves, one after another. *)
Progress(s, readings, now) ==
  LET f[i \in 0 .. Len(readings)] ==
        IF i = 0 THEN Updated(s) ELSE ApplyReading(f[i - 1], readings[i], now)
  IN f

ApplyActivity(s, readings, now) == Progress(s, readings, now)[Len(readings)]

-----------------------------------------------------------------------------
(* What the coordinator stores of an update, and restores (coordinator.py) *)

Proved(u) == {c \in Capabilities : <<"sighted", c>> \in u.effects}
Scales(s) == [litter |-> Persisted(s.litter), hopper |-> Persisted(s.hopper)]

(* _apply_effects, as one write of the options: a sighting's evidence, with a snapshot of *)
(* everything for the coordinator of the reload it asks for.                               *)
StoreEffects(o, u) ==
  [o EXCEPT !.fill = IF <<"fill">> \in u.effects THEN u.state.fill ELSE @,
            !.stale = IF <<"stale">> \in u.effects THEN u.state.stale ELSE @,
            !.learned = IF <<"learned">> \in u.effects THEN Scales(u.state) ELSE @,
            !.seen = [c \in Capabilities |-> IF c \in Proved(u) THEN u.state.sightings[c] ELSE @[c]],
            !.snapshot = IF Proved(u) = {} THEN @ ELSE Snapshot(u.state)]

Evidence(o, s) ==
  [c \in Capabilities |-> CASE o.seen[c] = None -> None
                            [] o.seen[c] # None /\ s.sightings[c] = None -> "legacy"
                            [] OTHER -> s.sightings[c]]

(* _restore_derived: the durable options win over the snapshot a sighting left. *)
RestoreDerived_SnapshotOnly(o, cache) == \* mutant: the gauge is not read back
  LET s == IF o.snapshot = None THEN NewState ELSE o.snapshot
  IN [s EXCEPT !.litter = IF o.learned = None THEN @ ELSE o.learned.litter,
               !.hopper = IF o.learned = None THEN @ ELSE o.learned.hopper,
               !.sightings = Evidence(o, s),
               !.excessRestored = cache.excess, !.faultRestored = cache.fault]
RestoreDerived(o, cache) ==
  LET s == IF o.snapshot = None THEN NewState ELSE o.snapshot
  IN [s EXCEPT !.fill = IF o.fill = None THEN @ ELSE o.fill,
               !.stale = IF o.stale = None THEN @ ELSE o.stale,
               !.litter = IF o.learned = None THEN @ ELSE o.learned.litter,
               !.hopper = IF o.learned = None THEN @ ELSE o.learned.hopper,
               !.sightings = Evidence(o, s),
               !.excessRestored = cache.excess, !.faultRestored = cache.fault]

-----------------------------------------------------------------------------
(* The read model *)

ExcessWeight(s, doc, now) ==
  IF s.loadedSince = None THEN (IF doc.loaded = FALSE THEN FALSE ELSE None)
  ELSE now - s.loadedSince >= ExcessAfter \/ s.excessRestored = TRUE

Raised(fault) == fault \notin {None, 0}
GlobeMotorFaulted(s, doc) ==
  CASE s.fault # None -> Raised(s.fault) \/ Raised(doc.fault)
    [] s.fault = None /\ s.faultRestored # None -> s.faultRestored \/ Raised(doc.fault)
    [] s.fault = None /\ s.faultRestored = None ->
         IF doc.fault = None THEN None ELSE Raised(doc.fault)
=============================================================================
