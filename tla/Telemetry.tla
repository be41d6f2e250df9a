------------------------------ MODULE Telemetry ------------------------------
(***************************************************************************)
(* One robot's messages over many readings, folded by a coordinator that   *)
(* Home Assistant rebuilds now and then from the options it stored: what    *)
(* the learned scales, the stale gauge and the visits rest on (derive.py,  *)
(* calibration.py, coordinator.py).  Which robot, and so which messages,   *)
(* is chosen once.                                                         *)
(***************************************************************************)
EXTENDS Derived

CONSTANTS
  Robots,      \* of each, the documents and activity messages it sends; bounds: how many, and until when
  MaxRebuilds  \* bound: restarts and reloads

(* What the options hold of a scale, which `None' is told from. *)
StoredScale ==
  LET level == Int \cup {None}
  IN [low : level, high : level, lowCandidate : level, highCandidate : level, lowHits : Int,
      runValue : level, runLength : Int, runFell : BOOLEAN,
      window : {<<>>}, rejects : {<<>>}, freshRegime : {FALSE}]

ASSUME TelemetryAssumption ==
  /\ \A r \in Robots : r.activities \subseteq Seq([register : STRING, value : Nat])
  /\ None # "visit_duration" /\ None \notin [litter : StoredScale, hopper : StoredScale]

VARIABLES
  now,
  robot,     \* which of Robots
  d,         \* the coordinator's derived state
  options,   \* the entry's
  counts,
  litter,    \* history: the litter levels that were sampled
  hopper,    \* history: the gauges that were sampled
  moments,   \* history: the moment each of these samples was taken at
  last,      \* history: when this coordinator took the newest of each, None before
  beam,      \* history: when a document last had the beam broken
  visited    \* history: a visit was closed soon enough after that

samples == <<litter, hopper, moments>>
history == <<samples, last, beam, visited>>
vars == <<now, robot, d, options, counts, history>>

NoVerdicts == [excess |-> None, fault |-> None]
Unwritten == [seen |-> [c \in Capabilities |-> None], learned |-> None, fill |-> None,
              stale |-> None, snapshot |-> None]

Said == counts.messages < robot.most /\ counts' = [counts EXCEPT !.messages = @ + 1]

(* Two samples are of one moment when one coordinator took both so soon after each other that *)
(* the second may be the first one's message, redelivered.                                      *)
Moment(of, at, within) ==
  Append(of, IF at # None /\ now - at < within THEN of[Len(of)] ELSE Len(of) + 1)

HearDocument(doc) ==
  /\ Said
  /\ LET u == ApplyState(d, doc, now)
         sampled == u.state.litterAt # d.litterAt /\ Sampleable(doc)
     IN /\ d' = u.state /\ options' = StoreEffects(options, u)
        /\ IF sampled /\ doc.level \in LitterLevel.plausible
           THEN /\ litter' = Append(litter, doc.level)
                /\ moments' = [moments EXCEPT !.litter = Moment(@, last.litter, StateDedupe)]
                /\ last' = [last EXCEPT !.litter = now]
           ELSE UNCHANGED <<litter, moments, last>>
  /\ beam' = IF doc.beam = TRUE THEN now ELSE beam
  /\ UNCHANGED <<now, robot, hopper, visited>>

HearActivity(readings) ==
  /\ Said
  /\ LET told == Progress(d, readings, now)
         sampled == {i \in DOMAIN readings : told[i].state.hopperAt # told[i - 1].state.hopperAt}
         gauges == {told[i].state.fill : i \in sampled} \cap HopperGauge.plausible
         u == ApplyActivity(d, readings, now)
     IN /\ d' = u.state /\ options' = StoreEffects(options, u)
        /\ IF gauges # {}
           THEN /\ hopper' = Append(hopper, CHOOSE g \in gauges : TRUE)
                /\ moments' = [moments EXCEPT !.hopper = Moment(@, last.hopper, DispenseDedupe)]
                /\ last' = [last EXCEPT !.hopper = now]
           ELSE UNCHANGED <<hopper, moments, last>>
  /\ visited' = (visited \/ \E i \in DOMAIN readings :
                   /\ readings[i].register = "duration" /\ beam # None
                   /\ now - beam <= CloseGrace + readings[i].value)
  /\ UNCHANGED <<now, robot, litter, beam>>

(* A restart or a reload: the next coordinator is built from the options, and the setup *)
(* that builds it drops the snapshot it was built from.                                  *)
Rebuild ==
  /\ counts.rebuilds < MaxRebuilds /\ counts' = [counts EXCEPT !.rebuilds = @ + 1]
  /\ d' = RestoreDerived(options, NoVerdicts)
  /\ options' = [options EXCEPT !.snapshot = None]
  /\ last' = [litter |-> None, hopper |-> None]
  /\ UNCHANGED <<now, robot, samples, beam, visited>>

Tick == now < robot.until /\ now' = now + 1 /\ UNCHANGED <<robot, d, options, counts, history>>

Init ==
  /\ now = 0 /\ robot \in Robots
  /\ options = Unwritten /\ d = RestoreDerived(options, NoVerdicts)
  /\ counts = [messages |-> 0, rebuilds |-> 0]
  /\ litter = <<>> /\ hopper = <<>> /\ moments = [litter |-> <<>>, hopper |-> <<>>]
  /\ last = [litter |-> None, hopper |-> None] /\ beam = None /\ visited = FALSE

Next == \/ \E doc \in robot.documents : HearDocument(doc)
        \/ \E readings \in robot.activities : HearActivity(readings)
        \/ Rebuild \/ Tick
Spec == Init /\ [][Next]_vars

-----------------------------------------------------------------------------
(* Every end of a learned scale but a hopper's floor is a reading that a second one came near, *)
(* and the second is of another moment: a message redelivered moves no scale of the session that *)
(* heard it.  What a rebuild forgets is when the newest reading was taken, so that the message   *)
(* redelivered behind it counts as another moment (derive.py _learn_litter, _dispense).  The      *)
(* litter scale never spans more than the globe can hold, whichever end moved last, over rebuilds *)
(* too (calibration.py observe).                                                                   *)
Corroborated(end, levels, at, within) ==
  end = None \/ \E i, j \in DOMAIN levels :
                  at[i] # at[j] /\ levels[i] = end /\ Magnitude(levels[j] - end) <= within
ScaleIsSound ==
  /\ Corroborated(d.litter.low, litter, moments.litter, LitterLevel.corroboration)
  /\ Corroborated(d.litter.high, litter, moments.litter, LitterLevel.corroboration)
  /\ Corroborated(d.hopper.high, hopper, moments.hopper, HopperGauge.corroboration)
  /\ Spanned(d.litter)

(* The floor of a hopper is a level the gauge fell to and then held over three dispenses in a *)
(* row, never one it drained through, and it lies well below the ceiling                       *)
(* (calibration.py _observe_run).                                                              *)
HeldAt(level, i) ==
  /\ \E before \in 1 .. i - 1 : hopper[before] > level
  /\ hopper[i] = level
  /\ \A k \in i .. i + Confirmations - 1 :
       hopper[k] \in level - FallTolerance .. level + HopperGauge.corroboration
FloorIsAFlatline ==
  d.hopper.low # None =>
    /\ \E i \in 1 .. Len(hopper) - Confirmations + 1 : HeldAt(d.hopper.low, i)
    /\ d.hopper.high - d.hopper.low >= HopperMinSpan

(* The gauge is called stale only after somebody poured litter in: as many readings in a row *)
(* as a step takes, all a step fuller than one before them (derive.py _watch_for_top_up).     *)
StaleRestsOnAPour ==
  d.stale => \E i, k \in DOMAIN litter :
    /\ i + StepSamples <= k
    /\ \A j \in k - StepSamples + 1 .. k : litter[j] <= litter[i] - StepSize

(* Handling a robot closes a visit as a cat does; it proves no visits unless something broke *)
(* the beam shortly before, as long ago as the visit lasted at most (derive.py _apply_activity). *)
VisitsNeedABody ==
  options.seen["visit_duration"] # None \/ options.seen["cat_visit"] = "visit_duration" => visited
=============================================================================
