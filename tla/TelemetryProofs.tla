--------------------------- MODULE TelemetryProofs ---------------------------
(***************************************************************************)
(* What holds of a robot's learned scales, stale gauge and visits for every *)
(* message, number of readings and restart.  First what any reading leaves  *)
(* of a learned scale; then what the scale rests on, given the readings     *)
(* that were sampled; then what a message, folded reading by reading, does  *)
(* to the rest of a state; then what of all that outlives rebuilds.         *)
(***************************************************************************)
EXTENDS Telemetry, WellFoundedInduction, TLAPS

-----------------------------------------------------------------------------
(* Learned scales *)

Fields == {"low", "high", "lowCandidate", "highCandidate", "lowHits", "runValue", "runLength",
           "runFell", "window", "rejects", "freshRegime"}
Level == Int \cup {None}

(* A scale as the reducer holds it; what else it holds moves no anchor. *)
IsLearned(l) ==
  /\ l = [f \in Fields |-> l[f]]
  /\ l.low \in Level /\ l.high \in Level /\ l.lowCandidate \in Level /\ l.highCandidate \in Level
  /\ l.lowHits \in Int
  /\ l.runValue \in Level /\ l.runLength \in Int /\ l.runFell \in BOOLEAN

SameRun(l, k) == k.runValue = l.runValue /\ k.runLength = l.runLength /\ k.runFell = l.runFell

SameAnchors(l, k) ==
  /\ k.low = l.low /\ k.high = l.high
  /\ k.lowCandidate = l.lowCandidate /\ k.highCandidate = l.highCandidate
  /\ SameRun(l, k)

(* The low end is learned first, and a candidate lies beyond the end it may replace. *)
LitterScale(l) ==
  /\ IsLearned(l) /\ Spanned(l)
  /\ l.low = None => l.high = None /\ l.highCandidate = None
  /\ l.low # None /\ l.lowCandidate # None => l.lowCandidate < l.low
  /\ l.highCandidate # None => l.low <= l.highCandidate

LEMMA Except ==
  ASSUME NEW l, NEW f \in Fields, NEW e, l = [g \in Fields |-> l[g]]
  PROVE  LET k == [l EXCEPT ![f] = e]
         IN /\ k = [g \in Fields |-> k[g]] /\ k[f] = e
            /\ \A g \in Fields \ {f} : k[g] = l[g]
OBVIOUS

LEMMA GateMovesNoAnchor ==
  ASSUME NEW l, NEW v, NEW within, IsLearned(l)
  PROVE  IsLearned(Gate(l, v, within).learned) /\ SameAnchors(l, Gate(l, v, within).learned)
BY Except DEF Gate, IsLearned, SameAnchors, SameRun, Fields

(* A gate is all that may come between a reading and the anchors. *)
LEMMA GateKeepsScale ==
  ASSUME NEW l, NEW v, NEW within, LitterScale(l)
  PROVE  LitterScale(Gate(l, v, within).learned) /\ SameAnchors(l, Gate(l, v, within).learned)
BY GateMovesNoAnchor DEF LitterScale, SameAnchors, Spanned

(* A new low end, or a candidate for one: every other anchor stays. *)
LEMMA LowMoves ==
  ASSUME NEW l, NEW v \in Int, NEW within, IsLearned(l)
  PROVE  LET k == ObserveLow(l, v, within) IN
         /\ IsLearned(k) /\ k.high = l.high /\ k.highCandidate = l.highCandidate /\ SameRun(l, k)
         /\ \/ /\ l.lowCandidate \in Int /\ Magnitude(v - l.lowCandidate) <= within
               /\ k.low = Greater(v, l.lowCandidate) /\ k.lowCandidate = None
            \/ k.low = l.low /\ k.lowCandidate = v
<1> DEFINE k == ObserveLow(l, v, within)
<1>1. /\ k = [f \in Fields |-> k[f]] /\ k.high = l.high /\ k.highCandidate = l.highCandidate
      /\ SameRun(l, k)
  BY Except DEF ObserveLow, IsLearned, Fields, SameRun
<1>2. CASE Agrees(v, l.lowCandidate, within)
  <2>1. k.low = Greater(v, l.lowCandidate) /\ k.lowCandidate = None /\ k.lowHits = 0
    BY <1>2, Except DEF ObserveLow, IsLearned, Fields
  <2>2. /\ l.lowCandidate \in Int /\ k.low \in Int
        /\ Magnitude(v - l.lowCandidate) <= within
    BY <1>2, <2>1, NoneAssumption, SMT DEF IsLearned, Level, Agrees, Greater
  <2>3. IsLearned(k)
    BY <1>1, <2>1, <2>2 DEF IsLearned, Level, SameRun
  <2> QED BY <1>1, <2>1, <2>2, <2>3
<1>3. CASE ~Agrees(v, l.lowCandidate, within)
  <2>1. k.low = l.low /\ k.lowCandidate = v /\ k.lowHits = l.lowHits
    BY <1>3, Except DEF ObserveLow, IsLearned, Fields
  <2>2. IsLearned(k)
    BY <1>1, <2>1 DEF IsLearned, Level, SameRun
  <2> QED BY <1>1, <2>1, <2>2
<1> QED BY <1>2, <1>3

LEMMA LowKeepsScale ==
  ASSUME NEW l, NEW v \in Int, NEW within, LitterScale(l), InSpan(l, v, LitterLevel),
         l.low = None \/ v < l.low
  PROVE  LitterScale(ObserveLow(l, v, within))
<1> DEFINE k == ObserveLow(l, v, within)
<1>0. IsLearned(l)
  BY DEF LitterScale
<1>1. IsLearned(k) /\ k.high = l.high /\ k.highCandidate = l.highCandidate
  BY <1>0, LowMoves
<1>2. CASE l.lowCandidate \in Int /\ k.low = Greater(v, l.lowCandidate) /\ k.lowCandidate = None
  BY <1>1, <1>2, NoneAssumption, SMT
  DEF LitterScale, IsLearned, Level, Greater, InSpan, Spanned, LitterLevel, Magnitude
<1>3. CASE k.low = l.low /\ k.lowCandidate = v
  BY <1>1, <1>3, NoneAssumption, SMT DEF LitterScale, IsLearned, Level, Spanned
<1> QED BY <1>0, <1>2, <1>3, LowMoves

(* A new high end, or a candidate for one: every other anchor stays. *)
LEMMA HighMoves ==
  ASSUME NEW l, NEW v \in Int, NEW within, IsLearned(l)
  PROVE  LET k == ObserveHigh(l, v, within) IN
         /\ IsLearned(k) /\ k.low = l.low /\ k.lowCandidate = l.lowCandidate /\ SameRun(l, k)
         /\ \/ k.high = l.high /\ k.highCandidate = l.highCandidate
            \/ /\ l.highCandidate \in Int /\ (l.high = None \/ v > l.high)
               /\ Magnitude(v - l.highCandidate) <= within
               /\ k.high = Lesser(v, l.highCandidate) /\ k.highCandidate = None
            \/ /\ l.high = None \/ v > l.high
               /\ k.high = l.high /\ k.highCandidate = v
<1> DEFINE k == ObserveHigh(l, v, within)
<1>1. /\ k = [f \in Fields |-> k[f]] /\ k.low = l.low /\ k.lowCandidate = l.lowCandidate
      /\ SameRun(l, k) /\ k.lowHits = l.lowHits
  BY Except DEF ObserveHigh, IsLearned, Fields, SameRun
<1>2. CASE l.high # None /\ v <= l.high
  <2>1. k = l
    BY <1>2 DEF ObserveHigh
  <2> QED BY <2>1 DEF SameRun
<1>3. CASE ~(l.high # None /\ v <= l.high)
  <2> DEFINE beyond == l.high = None \/ v > l.high
  <2>1. beyond
    <3>1. l.high \in Int \/ l.high = None
      BY DEF IsLearned, Level
    <3> QED BY <1>3, <3>1, NoneAssumption, SMT
  <2>2. CASE Agrees(v, l.highCandidate, within)
    <3>1. k.high = Lesser(v, l.highCandidate) /\ k.highCandidate = None
      BY <1>3, <2>2, Except DEF ObserveHigh, IsLearned, Fields
    <3>2. /\ l.highCandidate \in Int /\ k.high \in Int
          /\ Magnitude(v - l.highCandidate) <= within
      BY <2>2, <3>1, NoneAssumption, SMT DEF IsLearned, Level, Agrees, Lesser
    <3>3. IsLearned(k)
      BY <1>1, <3>1, <3>2 DEF IsLearned, Level, SameRun
    <3> QED BY <1>1, <2>1, <3>1, <3>2, <3>3
  <2>3. CASE ~Agrees(v, l.highCandidate, within)
    <3>1. k.high = l.high /\ k.highCandidate = v
      BY <1>3, <2>3, Except DEF ObserveHigh, IsLearned, Fields
    <3>2. IsLearned(k)
      BY <1>1, <3>1 DEF IsLearned, Level, SameRun
    <3> QED BY <1>1, <2>1, <3>1, <3>2
  <2> QED BY <2>2, <2>3
<1> QED BY <1>2, <1>3

LEMMA HighKeepsScale ==
  ASSUME NEW l, NEW v \in Int, NEW within, LitterScale(l), InSpan(l, v, LitterLevel),
         l.low # None, v >= l.low
  PROVE  LitterScale(ObserveHigh(l, v, within))
<1> DEFINE k == ObserveHigh(l, v, within)
<1>0. IsLearned(l) /\ l.low \in Int
  BY DEF LitterScale, IsLearned, Level
<1>1. IsLearned(k) /\ k.low = l.low /\ k.lowCandidate = l.lowCandidate /\ l.low \in Int
  BY <1>0, HighMoves
<1>2. v - l.low \in 0 .. LitterLevel.maxSpan /\ LitterLevel.maxSpan = 100
  BY <1>1, NoneAssumption, SMT DEF InSpan, LitterLevel, Magnitude
<1>3. CASE k.high = l.high /\ k.highCandidate = l.highCandidate
  BY <1>1, <1>3, NoneAssumption, SMT DEF LitterScale, Spanned
<1>4. CASE l.highCandidate \in Int /\ k.high = Lesser(v, l.highCandidate) /\ k.highCandidate = None
  BY <1>1, <1>2, <1>4, NoneAssumption, SMT DEF LitterScale, Spanned, Lesser
<1>5. CASE k.high = l.high /\ k.highCandidate = v
  BY <1>1, <1>5, NoneAssumption, SMT DEF LitterScale, Spanned
<1> QED BY <1>0, <1>3, <1>4, <1>5, HighMoves

(* What a reading of the litter may do: move no anchor, or one of the two ends. *)
LEMMA LitterMoves ==
  ASSUME NEW l, NEW v \in Int, LitterScale(l)
  PROVE  LET within == LitterLevel.corroboration
             gated == Gate(l, v, within).learned
             k == Observe(l, v, LitterLevel)
         IN /\ LitterScale(gated) /\ SameAnchors(l, gated)
            /\ \/ k = l
               \/ k = gated
               \/ k = ObserveLow(gated, v, within) /\ LitterScale(k)
               \/ k = ObserveHigh(gated, v, within) /\ LitterScale(k)
<1> DEFINE within == LitterLevel.corroboration
           gated == Gate(l, v, within).learned
           k == Observe(l, v, LitterLevel)
<1>1. LitterScale(gated) /\ SameAnchors(l, gated)
  BY GateKeepsScale
<1>2. CASE v \notin LitterLevel.plausible \/ ~InSpan(l, v, LitterLevel)
  <2>1. k = l
    BY <1>2 DEF Observe
  <2> QED BY <1>1, <2>1
<1>3. CASE ~(v \notin LitterLevel.plausible \/ ~InSpan(l, v, LitterLevel))
  <2>1. InSpan(gated, v, LitterLevel)
    BY <1>1, <1>3 DEF InSpan, SameAnchors
  <2>2. LitterLevel.dense /\ LitterLevel.corroboration = within
    BY DEF LitterLevel
  <2>3. k = IF Gate(l, v, within).passes THEN Anchor(gated, v, LitterLevel) ELSE gated
    BY <1>3, <2>2 DEF Observe
  <2>4. Anchor(gated, v, LitterLevel) = IF gated.low = None \/ v < gated.low
                                        THEN ObserveLow(gated, v, within)
                                        ELSE ObserveHigh(gated, v, within)
    BY <2>2 DEF Anchor
  <2>5. CASE gated.low = None \/ v < gated.low
    <3>1. LitterScale(ObserveLow(gated, v, within))
      BY <1>1, <2>1, <2>5, LowKeepsScale
    <3> QED BY <1>1, <2>3, <2>4, <2>5, <3>1
  <2>6. CASE ~(gated.low = None \/ v < gated.low)
    <3>1. gated.low \in Int
      BY <1>1, <2>6 DEF LitterScale, IsLearned, Level
    <3>2. v >= gated.low
      BY <2>6, <3>1, SMT
    <3>3. LitterScale(ObserveHigh(gated, v, within))
      BY <1>1, <2>1, <2>6, <3>2, HighKeepsScale
    <3> QED BY <1>1, <2>3, <2>4, <2>6, <3>3
  <2> QED BY <2>5, <2>6
<1> QED BY <1>2, <1>3

(* No reading, dense or not, in whatever order, makes the litter scale span more than the     *)
(* globe can hold (calibration.py observe).                                                    *)
THEOREM ReadingsKeepTheSpan ==
  ASSUME NEW l, NEW v \in Int, LitterScale(l)
  PROVE  LitterScale(Observe(l, v, LitterLevel))
BY LitterMoves

(* A hopper's floor lies well below its ceiling; the ceiling and its candidate only rise. *)
HopperScale(l) ==
  /\ IsLearned(l)
  /\ l.low # None => l.high # None /\ l.high - l.low >= HopperMinSpan
  /\ l.high # None /\ l.highCandidate # None => l.high < l.highCandidate

LEMMA RunMovesNoAnchor ==
  ASSUME NEW l, NEW v \in Int, NEW within, IsLearned(l)
  PROVE  LET r == Run(l, v, within) IN
         /\ IsLearned(r)
         /\ r.low = l.low /\ r.high = l.high
         /\ r.lowCandidate = l.lowCandidate /\ r.highCandidate = l.highCandidate
         /\ \/ /\ Flat(l, v, within) /\ r.runValue = l.runValue /\ r.runFell = l.runFell
               /\ r.runLength = Lesser(l.runLength + 1, Confirmations)
            \/ /\ ~Flat(l, v, within) /\ r.runValue = v /\ r.runLength = 1
               /\ r.runFell => LET reference == IF l.runValue = None THEN l.low ELSE l.runValue
                               IN reference # None /\ v < reference
<1> DEFINE r == Run(l, v, within)
<1>1. /\ r = [f \in Fields |-> r[f]]
      /\ r.low = l.low /\ r.high = l.high /\ r.lowHits = l.lowHits
      /\ r.lowCandidate = l.lowCandidate /\ r.highCandidate = l.highCandidate
  BY Except DEF Run, IsLearned, Fields
<1>2. CASE Flat(l, v, within)
  <2>1. /\ r.runValue = l.runValue /\ r.runFell = l.runFell
        /\ r.runLength = Lesser(l.runLength + 1, Confirmations)
    BY <1>2, Except DEF Run, IsLearned, Fields
  <2>2. r.runLength \in Int
    BY <2>1, SMT DEF IsLearned, Lesser, Confirmations
  <2>3. IsLearned(r)
    BY <1>1, <2>1, <2>2 DEF IsLearned
  <2> QED BY <1>1, <1>2, <2>1, <2>3
<1>3. CASE ~Flat(l, v, within)
  <2> DEFINE reference == IF l.runValue = None THEN l.low ELSE l.runValue
             fell == reference # None /\ v < reference
  <2>1. /\ r = [l EXCEPT !.runFell = fell, !.runValue = v, !.runLength = 1]
    BY <1>3 DEF Run
  <2>2. fell \in BOOLEAN
    OBVIOUS
  <2> HIDE DEF fell
  <2>3. r.runValue = v /\ r.runLength = 1 /\ r.runFell = fell
    <3>1. {"runFell", "runValue", "runLength"} \subseteq DOMAIN l
      BY DEF IsLearned, Fields
    <3> QED BY <2>1, <3>1, Zenon
  <2>4. IsLearned(r)
    BY <1>1, <2>2, <2>3 DEF IsLearned, Level
  <2> QED BY <1>1, <1>3, <2>3, <2>4 DEF fell
<1> QED BY <1>2, <1>3

(* A run that makes the floor, or leaves it. *)
LEMMA FloorMoves ==
  ASSUME NEW l, NEW v \in Int, NEW within, IsLearned(l)
  PROVE  LET r == Run(l, v, within)
             k == ObserveRun(l, v, within)
         IN /\ IsLearned(k) /\ SameRun(r, k) /\ k.high = l.high
            /\ k.lowCandidate = l.lowCandidate /\ k.highCandidate = l.highCandidate
            /\ \/ k.low = l.low
               \/ /\ r.runLength >= Confirmations /\ r.runFell /\ r.runValue \in Int
                  /\ l.high \in Int /\ r.runValue <= l.high - HopperMinSpan
                  /\ k.low = r.runValue
<1> DEFINE r == Run(l, v, within)
           k == ObserveRun(l, v, within)
           floor == /\ r.runLength >= Confirmations /\ r.runFell
                    /\ r.high # None /\ r.runValue <= r.high - HopperMinSpan
<1>1. /\ IsLearned(r) /\ r.low = l.low /\ r.high = l.high
      /\ r.lowCandidate = l.lowCandidate /\ r.highCandidate = l.highCandidate
  BY RunMovesNoAnchor
<1>2. r.runValue \in Int
  <2>1. r.runValue = v \/ (r.runValue = l.runValue /\ Flat(l, v, within))
    BY RunMovesNoAnchor
  <2> QED BY <2>1 DEF Flat, IsLearned, Level
<1>3. CASE floor
  <2>1. k = [r EXCEPT !.low = r.runValue, !.lowHits = Confirmations]
    BY <1>3 DEF ObserveRun
  <2>2. /\ k = [f \in Fields |-> k[f]] /\ k.low = r.runValue /\ k.high = r.high
        /\ k.lowCandidate = r.lowCandidate /\ k.highCandidate = r.highCandidate
        /\ SameRun(r, k) /\ k.lowHits = Confirmations
    <3> HIDE DEF r, k
    <3> QED BY <1>1, <2>1, Except DEF IsLearned, Fields, SameRun
  <2>3. IsLearned(k)
    BY <1>1, <1>2, <2>2 DEF IsLearned, Level, SameRun, Confirmations
  <2>4. r.high \in Int
    BY <1>1, <1>3 DEF IsLearned, Level
  <2> QED BY <1>1, <1>2, <1>3, <2>2, <2>3, <2>4
<1>4. CASE ~floor
  <2>1. k = r
    BY <1>4 DEF ObserveRun
  <2> QED BY <1>1, <2>1 DEF SameRun
<1> QED BY <1>3, <1>4

LEMMA RunKeepsScale ==
  ASSUME NEW l, NEW v \in Int, NEW within, HopperScale(l)
  PROVE  HopperScale(ObserveRun(l, v, within))
<1> DEFINE r == Run(l, v, within)
           k == ObserveRun(l, v, within)
<1>0. IsLearned(l)
  BY DEF HopperScale
<1>1. IsLearned(k) /\ k.high = l.high /\ k.highCandidate = l.highCandidate
  BY <1>0, FloorMoves
<1>2. CASE k.low = l.low
  BY <1>1, <1>2 DEF HopperScale
<1>3. CASE /\ r.runValue \in Int /\ l.high \in Int /\ r.runValue <= l.high - HopperMinSpan
           /\ k.low = r.runValue
  <2>1. k.high # None /\ k.high - k.low >= HopperMinSpan
    BY <1>1, <1>3, NoneAssumption, SMT DEF HopperMinSpan
  <2> QED BY <1>1, <2>1 DEF HopperScale
<1> QED BY <1>0, <1>2, <1>3, FloorMoves

LEMMA CeilingKeepsScale ==
  ASSUME NEW l, NEW v \in Int, NEW within, HopperScale(l)
  PROVE  HopperScale(ObserveHigh(l, v, within))
<1> DEFINE k == ObserveHigh(l, v, within)
<1>0. IsLearned(l) /\ l.low \in Level /\ l.high \in Level /\ l.highCandidate \in Level
  BY DEF HopperScale, IsLearned
<1>1. IsLearned(k) /\ k.low = l.low
  BY <1>0, HighMoves
<1>2. CASE k.high = l.high /\ k.highCandidate = l.highCandidate
  BY <1>1, <1>2 DEF HopperScale
<1>3. CASE /\ l.highCandidate \in Int /\ (l.high = None \/ v > l.high)
           /\ k.high = Lesser(v, l.highCandidate) /\ k.highCandidate = None
  <2>1. l.high # None => k.high >= l.high
    BY <1>0, <1>3, NoneAssumption, SMT DEF HopperScale, Level, Lesser
  <2>2. k.high \in Int /\ k.high # None
    BY <1>3, NoneAssumption, SMT DEF Lesser
  <2> QED BY <1>0, <1>1, <1>3, <2>1, <2>2, NoneAssumption, SMT DEF HopperScale, Level, HopperMinSpan
<1>4. CASE (l.high = None \/ v > l.high) /\ k.high = l.high /\ k.highCandidate = v
  BY <1>0, <1>1, <1>4, NoneAssumption, SMT DEF HopperScale, Level
<1> QED BY <1>0, <1>2, <1>3, <1>4, HighMoves

(* What a reading of the hopper does, plausible ones apart from the rest. *)
LEMMA HopperMoves ==
  ASSUME NEW l, NEW v
  PROVE  LET within == HopperGauge.corroboration IN
         /\ v \in HopperGauge.plausible =>
              Observe(l, v, HopperGauge) = ObserveHigh(ObserveRun(l, v, within), v, within)
         /\ v \notin HopperGauge.plausible => Observe(l, v, HopperGauge) = l
BY DEF Observe, Anchor, HopperGauge, InSpan

(* No reading leaves a hopper with a floor that is not well below its ceiling: a level is called *)
(* empty only on a scale wide enough to tell (calibration.py _observe_run, _observe_high).        *)
THEOREM DispensesKeepTheFloorLow ==
  ASSUME NEW l, NEW v \in Int, HopperScale(l)
  PROVE  HopperScale(Observe(l, v, HopperGauge))
BY HopperMoves, RunKeepsScale, CeilingKeepsScale

LEMMA PersistedIsLearned ==
  ASSUME NEW l, IsLearned(l)
  PROVE  IsLearned(Persisted(l)) /\ SameAnchors(l, Persisted(l))
BY Except DEF Persisted, IsLearned, SameAnchors, SameRun, Fields

(* Both scales start empty, and hold over a restart, which only drops the session's window *)
(* (calibration.py from_dict, as_dict).                                                    *)
THEOREM ScalesOutliveSessions ==
  /\ LitterScale(NewLearned) /\ HopperScale(NewLearned)
  /\ \A l : LitterScale(l) => LitterScale(Persisted(l))
  /\ \A l : HopperScale(l) => HopperScale(Persisted(l))
<1>1. LitterScale(NewLearned) /\ HopperScale(NewLearned)
  BY NoneAssumption DEF LitterScale, HopperScale, NewLearned, IsLearned, Fields, Level, Spanned
<1>2. \A l : LitterScale(l) => LitterScale(Persisted(l))
  BY PersistedIsLearned DEF LitterScale, SameAnchors, Spanned
<1>3. \A l : HopperScale(l) => HopperScale(Persisted(l))
  BY PersistedIsLearned DEF HopperScale, SameAnchors
<1> QED BY <1>1, <1>2, <1>3

-----------------------------------------------------------------------------
(* What the ends of a scale rest on, given the readings that were sampled *)

LEMMA Longer ==
  ASSUME NEW h \in Seq(Int), NEW v \in Int
  PROVE  LET k == Append(h, v) IN
         /\ k \in Seq(Int) /\ Len(h) \in Nat /\ Len(k) = Len(h) + 1 /\ k[Len(h) + 1] = v
         /\ DOMAIN h = 1 .. Len(h) /\ DOMAIN k = 1 .. Len(h) + 1
         /\ \A i \in 1 .. Len(h) : k[i] = h[i] /\ h[i] \in Int /\ i \in 1 .. Len(h) + 1
OBVIOUS

Heard(candidate, h) == candidate = None \/ \E i \in DOMAIN h : h[i] = candidate

(* A reading that a second one came near. *)
Agreed(end, h, within) ==
  end = None \/ \E i, j \in DOMAIN h : i # j /\ h[i] = end /\ Magnitude(h[j] - end) <= within

LitterRests(l, h) ==
  /\ LitterScale(l)
  /\ Agreed(l.low, h, LitterLevel.corroboration)
  /\ Agreed(l.high, h, LitterLevel.corroboration)
  /\ Heard(l.lowCandidate, h) /\ Heard(l.highCandidate, h)

(* What rests on some readings rests on more of them. *)
LEMMA StillRests ==
  ASSUME NEW h \in Seq(Int), NEW v \in Int, NEW e, NEW within
  PROVE  /\ Agreed(e, h, within) => Agreed(e, Append(h, v), within)
         /\ Heard(e, h) => Heard(e, Append(h, v))
<1> DEFINE k == Append(h, v)
<1>1. \A i \in DOMAIN h : i \in DOMAIN k /\ k[i] = h[i]
  BY Longer
<1> HIDE DEF k
<1>2. Agreed(e, h, within) => Agreed(e, k, within)
  <2> SUFFICES ASSUME NEW i \in DOMAIN h, NEW j \in DOMAIN h,
                      i # j, h[i] = e, Magnitude(h[j] - e) <= within
               PROVE  Agreed(e, k, within)
    BY Zenon DEF Agreed
  <2>1. i \in DOMAIN k /\ j \in DOMAIN k /\ k[i] = e /\ Magnitude(k[j] - e) <= within
    BY <1>1
  <2> QED BY <2>1, Zenon DEF Agreed
<1>3. Heard(e, h) => Heard(e, k)
  BY <1>1, Zenon DEF Heard
<1> QED BY <1>2, <1>3 DEF k

LEMMA NewIsHeard ==
  ASSUME NEW h \in Seq(Int), NEW v \in Int
  PROVE  Heard(v, Append(h, v))
<1>1. Len(h) + 1 \in DOMAIN Append(h, v) /\ Append(h, v)[Len(h) + 1] = v
  BY Longer
<1> QED BY <1>1 DEF Heard

(* A reading that agrees with a candidate corroborates it, and is corroborated by it. *)
LEMMA NewEndRests ==
  ASSUME NEW h \in Seq(Int), NEW v \in Int, NEW c \in Int, NEW within,
         Heard(c, h), Magnitude(v - c) <= within, NEW e \in {v, c}
  PROVE  Agreed(e, Append(h, v), within)
<1> DEFINE k == Append(h, v)
           n == Len(h) + 1
<1>1. PICK i \in DOMAIN h : h[i] = c
  BY NoneAssumption DEF Heard
<1>2. /\ i \in DOMAIN k /\ n \in DOMAIN k /\ i # n /\ k[i] = c /\ k[n] = v
  BY <1>1, Longer
<1>3. Magnitude(c - v) = Magnitude(v - c)
  BY SMT DEF Magnitude
<1>4. CASE e = v
  <2>1. k[n] = e /\ Magnitude(k[i] - e) <= within
    BY <1>2, <1>3, <1>4
  <2> QED BY <1>2, <2>1 DEF Agreed
<1>5. CASE e = c
  <2>1. k[i] = e /\ Magnitude(k[n] - e) <= within
    BY <1>2, <1>5
  <2> QED BY <1>2, <2>1 DEF Agreed
<1> QED BY <1>4, <1>5

LEMMA LowRests ==
  ASSUME NEW l, NEW h \in Seq(Int), NEW v \in Int, LitterRests(l, h),
         LitterScale(ObserveLow(l, v, LitterLevel.corroboration))
  PROVE  LitterRests(ObserveLow(l, v, LitterLevel.corroboration), Append(h, v))
<1> DEFINE within == LitterLevel.corroboration
           k == ObserveLow(l, v, within)
<1>0. IsLearned(l)
  BY DEF LitterRests, LitterScale
<1>1. k.high = l.high /\ k.highCandidate = l.highCandidate
  BY <1>0, LowMoves
<1>2. CASE /\ l.lowCandidate \in Int /\ Magnitude(v - l.lowCandidate) <= within
           /\ k.low = Greater(v, l.lowCandidate) /\ k.lowCandidate = None
  <2>1. k.low \in {v, l.lowCandidate}
    BY <1>2 DEF Greater
  <2>2. Heard(l.lowCandidate, h)
    BY DEF LitterRests
  <2>3. Agreed(k.low, Append(h, v), within)
    BY <1>2, <2>1, <2>2, NewEndRests
  <2>4. Heard(k.lowCandidate, Append(h, v))
    BY <1>2 DEF Heard
  <2> QED BY <1>1, <2>3, <2>4, StillRests DEF LitterRests
<1>3. CASE k.low = l.low /\ k.lowCandidate = v
  BY <1>1, <1>3, StillRests, NewIsHeard DEF LitterRests
<1> QED BY <1>0, <1>2, <1>3, LowMoves

LEMMA HighRests ==
  ASSUME NEW l, NEW h \in Seq(Int), NEW v \in Int, NEW within, IsLearned(l),
         Agreed(l.high, h, within), Heard(l.highCandidate, h)
  PROVE  LET k == ObserveHigh(l, v, within) IN
         Agreed(k.high, Append(h, v), within) /\ Heard(k.highCandidate, Append(h, v))
<1> DEFINE k == ObserveHigh(l, v, within)
<1>1. CASE /\ l.highCandidate \in Int /\ Magnitude(v - l.highCandidate) <= within
           /\ k.high = Lesser(v, l.highCandidate) /\ k.highCandidate = None
  <2>1. k.high \in {v, l.highCandidate}
    BY <1>1 DEF Lesser
  <2>2. Agreed(k.high, Append(h, v), within)
    BY <1>1, <2>1, NewEndRests
  <2>3. Heard(k.highCandidate, Append(h, v))
    BY <1>1 DEF Heard
  <2> QED BY <2>2, <2>3
<1>2. CASE k.high = l.high /\ k.highCandidate = v
  BY <1>2, StillRests, NewIsHeard
<1>3. CASE k.high = l.high /\ k.highCandidate = l.highCandidate
  BY <1>3, StillRests
<1> QED BY <1>1, <1>2, <1>3, HighMoves

(* Any reading of the litter leaves a scale that rests on the readings so far. *)
LEMMA LitterStillRests ==
  ASSUME NEW l, NEW h \in Seq(Int), NEW v \in Int, LitterRests(l, h)
  PROVE  LitterRests(Observe(l, v, LitterLevel), Append(h, v))
<1> DEFINE within == LitterLevel.corroboration
           gated == Gate(l, v, within).learned
           k == Observe(l, v, LitterLevel)
<1>1. LitterScale(gated) /\ SameAnchors(l, gated)
  BY LitterMoves DEF LitterRests
<1>2. LitterRests(gated, h)
  BY <1>1 DEF LitterRests, SameAnchors
<1>3. CASE k = l
  BY <1>3, StillRests DEF LitterRests
<1>4. CASE k = gated
  BY <1>2, <1>4, StillRests DEF LitterRests
<1>5. CASE k = ObserveLow(gated, v, within) /\ LitterScale(k)
  BY <1>2, <1>5, LowRests
<1>6. CASE k = ObserveHigh(gated, v, within) /\ LitterScale(k)
  <2> DEFINE raised == ObserveHigh(gated, v, within)
  <2>1. IsLearned(gated) /\ Agreed(gated.high, h, within) /\ Heard(gated.highCandidate, h)
    BY <1>2 DEF LitterRests, LitterScale
  <2>2. raised.low = gated.low /\ raised.lowCandidate = gated.lowCandidate
    <3> HIDE DEF gated, within
    <3> QED BY <2>1, HighMoves
  <2>3. /\ Agreed(raised.high, Append(h, v), within)
        /\ Heard(raised.highCandidate, Append(h, v))
    <3> HIDE DEF gated, within
    <3> QED BY <2>1, HighRests
  <2>4. k = raised /\ LitterScale(raised)
    BY <1>6
  <2> HIDE DEF raised, gated
  <2>5. LitterRests(raised, Append(h, v))
    BY <1>2, <2>2, <2>3, <2>4, StillRests DEF LitterRests
  <2> QED BY <2>4, <2>5
<1>7. LitterScale(l)
  BY DEF LitterRests
<1>8. \/ k = l \/ k = gated
      \/ k = ObserveLow(gated, v, within) /\ LitterScale(k)
      \/ k = ObserveHigh(gated, v, within) /\ LitterScale(k)
  BY <1>7, LitterMoves
<1> QED BY <1>3, <1>4, <1>5, <1>6, <1>8

(* A level that the gauge fell to, and then held. *)
Flatline(h, level, i) ==
  /\ \E before \in 1 .. i - 1 : h[before] > level
  /\ h[i] = level
  /\ \A k \in i .. i + Confirmations - 1 :
       h[k] \in level - FallTolerance .. level + HopperGauge.corroboration

(* The run so far began at one of the readings, and every reading since then is part of it. *)
Runs(l, h, start) ==
  /\ h[start] = l.runValue /\ l.runLength <= Len(h) - start + 1
  /\ \A k \in start .. Len(h) :
       h[k] \in l.runValue - FallTolerance .. l.runValue + HopperGauge.corroboration
  /\ l.runFell => \E before \in 1 .. start - 1 : h[before] > l.runValue

HopperRests(l, h) ==
  /\ HopperScale(l)
  /\ Agreed(l.high, h, HopperGauge.corroboration) /\ Heard(l.highCandidate, h)
  /\ l.runValue = None => l.low = None
  /\ l.runValue # None => \E start \in 1 .. Len(h) : Runs(l, h, start)
  /\ l.low # None => \E i \in 1 .. Len(h) - Confirmations + 1 : Flatline(h, l.low, i)

LEMMA FlatlineStays ==
  ASSUME NEW h \in Seq(Int), NEW v \in Int, NEW level \in Int,
         NEW i \in 1 .. Len(h) - Confirmations + 1, Flatline(h, level, i)
  PROVE  i \in 1 .. Len(Append(h, v)) - Confirmations + 1 /\ Flatline(Append(h, v), level, i)
<1> DEFINE k == Append(h, v)
<1>0. Confirmations = 3
  BY DEF Confirmations
<1>1. /\ Len(h) \in Nat /\ Len(k) = Len(h) + 1
      /\ \A j \in 1 .. Len(h) : k[j] = h[j]
  BY Longer
<1>2. i \in 1 .. Len(k) - Confirmations + 1 /\ i \in 1 .. Len(h)
  BY <1>0, <1>1
<1>3. \A j \in 1 .. i - 1 : k[j] = h[j]
  BY <1>1, <1>2
<1>4. \A j \in i .. i + Confirmations - 1 : k[j] = h[j]
  BY <1>0, <1>1
<1> HIDE DEF k
<1>5. Flatline(k, level, i)
  BY <1>1, <1>2, <1>3, <1>4 DEF Flatline
<1> QED BY <1>2, <1>5 DEF k

(* A reading goes on with the run, or begins another. *)
LEMMA RunStillRuns ==
  ASSUME NEW l, NEW h \in Seq(Int), NEW v \in Int, HopperRests(l, h)
  PROVE  LET r == Run(l, v, HopperGauge.corroboration)
         IN /\ r.runValue \in Int
            /\ \E start \in 1 .. Len(Append(h, v)) : Runs(r, Append(h, v), start)
<1> DEFINE within == HopperGauge.corroboration
           r == Run(l, v, within)
           k == Append(h, v)
           n == Len(h) + 1
<1>0. IsLearned(l)
  BY DEF HopperRests, HopperScale
<1>1. /\ Len(h) \in Nat /\ Len(k) = n /\ n \in 1 .. Len(k) /\ k[n] = v
      /\ \A j \in 1 .. Len(h) : k[j] = h[j] /\ h[j] \in Int
  BY Longer
<1>2. within = 4 /\ FallTolerance = 1 /\ Confirmations = 3
  BY DEF HopperGauge, FallTolerance, Confirmations
<1>3. CASE /\ Flat(l, v, within) /\ r.runValue = l.runValue /\ r.runFell = l.runFell
           /\ r.runLength = Lesser(l.runLength + 1, Confirmations)
  <2>1. /\ l.runValue # None /\ l.runValue \in Int /\ l.runLength \in Int
        /\ v \in l.runValue - FallTolerance .. l.runValue + within
    BY <1>0, <1>2, <1>3, SMT DEF Flat, IsLearned, Level, Magnitude
  <2>2. PICK start \in 1 .. Len(h) : Runs(l, h, start)
    BY <2>1 DEF HopperRests
  <2>3. r.runLength <= Len(k) - start + 1
    BY <1>1, <1>3, <2>1, <2>2, SMT DEF Lesser, Runs, Confirmations
  <2>4. \A j \in start .. Len(k) : j \in start .. Len(h) \/ j = n
    BY <1>1
  <2>5. \A j \in start .. Len(k) :
          k[j] \in r.runValue - FallTolerance .. r.runValue + within
    BY <1>1, <1>3, <2>1, <2>2, <2>4 DEF Runs
  <2>6. k[start] = r.runValue /\ start \in 1 .. Len(k)
    BY <1>1, <1>3, <2>2 DEF Runs
  <2>7. r.runFell => \E before \in 1 .. start - 1 : k[before] > r.runValue
    <3>1. \A j \in 1 .. start - 1 : k[j] = h[j]
      BY <1>1
    <3> QED BY <1>3, <2>2, <3>1 DEF Runs
  <2> HIDE DEF r, k
  <2>8. Runs(r, k, start)
    BY <2>3, <2>5, <2>6, <2>7 DEF Runs, within
  <2> QED BY <1>3, <2>1, <2>6, <2>8 DEF r, k
<1>4. CASE /\ ~Flat(l, v, within) /\ r.runValue = v /\ r.runLength = 1
           /\ r.runFell => LET reference == IF l.runValue = None THEN l.low ELSE l.runValue
                           IN reference # None /\ v < reference
  <2>1. r.runFell => \E before \in 1 .. n - 1 : k[before] > v
    <3>1. ASSUME r.runFell
          PROVE  l.runValue # None /\ v < l.runValue
      BY <1>4, <3>1 DEF HopperRests
    <3>2. ASSUME r.runFell
          PROVE  \E before \in 1 .. n - 1 : k[before] > v
      <4>1. PICK start \in 1 .. Len(h) : h[start] = l.runValue
        BY <3>1, <3>2 DEF HopperRests, Runs
      <4>2. start \in 1 .. n - 1 /\ k[start] = l.runValue /\ l.runValue \in Int
        BY <1>1, <4>1
      <4> QED BY <3>1, <3>2, <4>2
    <3> QED BY <3>2
  <2>2. r.runLength <= Len(k) - n + 1
    BY <1>1, <1>4
  <2>3. \A j \in n .. Len(k) : k[j] \in v - FallTolerance .. v + within
    BY <1>1, <1>2
  <2> HIDE DEF r, k, within
  <2>4. Runs(r, k, n)
    BY <1>1, <1>4, <2>1, <2>2, <2>3 DEF Runs, within
  <2> QED BY <1>1, <1>4, <2>4 DEF r, k, within
<1> HIDE DEF r, k
<1>5. \/ /\ Flat(l, v, within) /\ r.runValue = l.runValue /\ r.runFell = l.runFell
         /\ r.runLength = Lesser(l.runLength + 1, Confirmations)
      \/ /\ ~Flat(l, v, within) /\ r.runValue = v /\ r.runLength = 1
         /\ r.runFell => LET reference == IF l.runValue = None THEN l.low ELSE l.runValue
                         IN reference # None /\ v < reference
  BY <1>0, RunMovesNoAnchor DEF r
<1> QED BY <1>3, <1>4, <1>5 DEF r, k

(* Any reading of a hopper leaves a scale whose floor the gauge fell to and held. *)
LEMMA HopperStillRests ==
  ASSUME NEW l, NEW h \in Seq(Int), NEW v \in HopperGauge.plausible, HopperRests(l, h)
  PROVE  HopperRests(Observe(l, v, HopperGauge), Append(h, v))
<1> DEFINE within == HopperGauge.corroboration
           r == Run(l, v, within)
           f == ObserveRun(l, v, within)
           k == ObserveHigh(f, v, within)
           more == Append(h, v)
<1>0. v \in Int /\ IsLearned(l)
  BY DEF HopperGauge, HopperRests, HopperScale
<1>1. Observe(l, v, HopperGauge) = k
  BY HopperMoves
<1>2. HopperScale(f) /\ HopperScale(k)
  BY <1>0, RunKeepsScale, CeilingKeepsScale DEF HopperRests
<1>3. /\ IsLearned(f) /\ SameRun(r, f) /\ f.high = l.high /\ f.highCandidate = l.highCandidate
      /\ \/ f.low = l.low
         \/ r.runLength >= Confirmations /\ r.runFell /\ r.runValue \in Int /\ f.low = r.runValue
  BY <1>0, FloorMoves
<1>4. SameRun(f, k) /\ k.low = f.low
  BY <1>0, <1>3, HighMoves
<1>5. Agreed(k.high, more, within) /\ Heard(k.highCandidate, more)
  BY <1>0, <1>3, HighRests DEF HopperRests
<1>6. PICK start \in 1 .. Len(more) : Runs(r, more, start)
  BY <1>0, RunStillRuns
<1>7. r.runValue \in Int
  BY <1>0, RunStillRuns
<1>8. k.runValue # None /\ Runs(k, more, start)
  BY <1>3, <1>4, <1>6, <1>7, NoneAssumption DEF SameRun, Runs
<1>9. k.low # None => \E i \in 1 .. Len(more) - Confirmations + 1 : Flatline(more, k.low, i)
  <2>1. CASE f.low = l.low /\ k.low # None
    <3>1. l.low \in Int
      BY <1>0, <1>4, <2>1 DEF IsLearned, Level
    <3>2. PICK i \in 1 .. Len(h) - Confirmations + 1 : Flatline(h, l.low, i)
      BY <1>4, <2>1 DEF HopperRests
    <3> QED BY <1>0, <1>4, <2>1, <3>1, <3>2, FlatlineStays
  <2>2. CASE r.runLength >= Confirmations /\ r.runFell /\ f.low = r.runValue
    <3>1. Len(more) \in Nat /\ Confirmations = 3 /\ r.runLength \in Int
      BY <1>0, Longer, RunMovesNoAnchor DEF Confirmations, IsLearned
    <3>2. start \in 1 .. Len(more) - Confirmations + 1
      BY <1>6, <2>2, <3>1 DEF Runs
    <3>3. \A j \in start .. start + Confirmations - 1 : j \in start .. Len(more)
      BY <3>1, <3>2
    <3> HIDE DEF r, more
    <3>4. Flatline(more, r.runValue, start)
      BY <1>6, <2>2, <3>3 DEF Flatline, Runs
    <3> QED BY <1>4, <2>2, <3>2, <3>4
  <2> QED BY <1>3, <2>1, <2>2
<1> HIDE DEF k, more, f, r
<1>10. HopperRests(k, more)
  BY <1>2, <1>5, <1>6, <1>8, <1>9 DEF HopperRests, within
<1> QED BY <1>1, <1>10 DEF more

(* What a scale rests on does not depend on what a restart drops. *)
LEMMA PersistedRests ==
  ASSUME NEW l, NEW k, NEW h, Persisted(k) = Persisted(l), IsLearned(k)
  PROVE  /\ LitterRests(l, h) => LitterRests(k, h)
         /\ HopperRests(l, h) => HopperRests(k, h)
<1>1. ASSUME IsLearned(l)
      PROVE  SameAnchors(l, k)
  BY <1>1, PersistedIsLearned DEF SameAnchors, SameRun
<1>2. LitterScale(l) => LitterScale(k) /\ SameAnchors(l, k)
  BY <1>1 DEF LitterScale, SameAnchors, Spanned
<1>3. HopperScale(l) => HopperScale(k) /\ SameAnchors(l, k)
  BY <1>1 DEF HopperScale, SameAnchors
<1>4. LitterRests(l, h) => LitterRests(k, h)
  BY <1>2 DEF LitterRests, SameAnchors
<1>5. HopperRests(l, h) => HopperRests(k, h)
  BY <1>3 DEF HopperRests, SameAnchors, SameRun, Runs
<1> QED BY <1>4, <1>5

-----------------------------------------------------------------------------
(* What a message may do to a state *)

(* What is followed of a state, besides what has proved its capabilities. *)
Kept == {"fill", "stale", "beamAt", "litter", "litterAt", "baseline", "steps", "hopper", "hopperAt"}

(* A state, or the snapshot of one. *)
IsState(s) ==
  /\ Kept \cup {"sightings"} \subseteq DOMAIN s
  /\ s.stale \in BOOLEAN
  /\ Capabilities \subseteq DOMAIN s.sightings

IsUpdate(u) == {"state", "effects"} \subseteq DOMAIN u /\ IsState(u.state)

(* A visit that was closed is what proved a capability. *)
Closed(seen) == seen["visit_duration"] # None \/ seen["cat_visit"] = "visit_duration"

(* What most of the reducer does: t differs from s in nothing that is followed. *)
Quiet(s, t) ==
  /\ IsState(t)
  /\ \A f \in Kept : t[f] = s[f]
  /\ Closed(t.sightings) => Closed(s.sightings)

Unmoved(u, v) ==
  IsUpdate(v) /\ u.effects \subseteq v.effects /\ Quiet(u.state, v.state)

LEMMA UnmovedIsTransitive ==
  ASSUME NEW u, NEW v, NEW w, Unmoved(u, v), Unmoved(v, w)
  PROVE  Unmoved(u, w)
BY DEF Unmoved, Quiet

LEMMA UnmovedItself ==
  ASSUME NEW u, IsUpdate(u)
  PROVE  Unmoved(u, u)
BY DEF Unmoved, Quiet, IsUpdate

LEMMA ExceptIsQuiet ==
  ASSUME NEW s, IsState(s), NEW f, f \notin Kept \cup {"sightings"}, NEW e
  PROVE  Quiet(s, [s EXCEPT ![f] = e])
BY Zenon DEF IsState, Quiet, Kept

LEMMA WithIsUnmoved ==
  ASSUME NEW u, IsUpdate(u), NEW t, Quiet(u.state, t)
  PROVE  Unmoved(u, With(u, t))
BY Zenon DEF Unmoved, With, IsUpdate, Quiet

LEMMA AndIsUnmoved ==
  ASSUME NEW u, NEW t, NEW effect, Quiet(u.state, t)
  PROVE  Unmoved(u, And(u, t, effect))
BY DEF Unmoved, And, IsUpdate, Quiet

(* A sighting proves what it says, and nothing else. *)
LEMMA SightMoves ==
  ASSUME NEW u, IsUpdate(u), NEW c \in Capabilities, NEW evidence
  PROVE  LET v == Sight(u, c, evidence) IN
         /\ IsUpdate(v) /\ u.effects \subseteq v.effects
         /\ \A f \in Kept : v.state[f] = u.state[f]
         /\ Closed(v.state.sightings) =>
              \/ Closed(u.state.sightings)
              \/ c = "visit_duration" \/ (c = "cat_visit" /\ evidence = "visit_duration")
<1> DEFINE s == [u.state EXCEPT !.reported = @ \cup {c}]
           known == And(u, s, <<"changed">>)
           t == [s EXCEPT !.sightings[c] = evidence]
           v == And(known, t, <<"sighted", c>>)
<1>0. IsState(u.state)
  BY DEF IsUpdate
<1>1. Quiet(u.state, s)
  BY <1>0, Zenon DEF IsState, Quiet, Kept
<1>2. IsState(s)
  BY <1>1 DEF Quiet
<1>3. t.sightings = [s.sightings EXCEPT ![c] = evidence]
  BY <1>2, Zenon DEF IsState
<1>4. DOMAIN t = DOMAIN s /\ \A f \in Kept : t[f] = s[f]
  BY <1>2, Zenon DEF IsState, Kept
<1>5. /\ DOMAIN t.sightings = DOMAIN s.sightings
      /\ \A e \in Capabilities : t.sightings[e] = IF e = c THEN evidence ELSE s.sightings[e]
  BY <1>2, <1>3, Zenon DEF IsState
<1>6. IsState(t)
  BY <1>2, <1>4, <1>5 DEF IsState, Kept
<1>7. "visit_duration" \in Capabilities /\ "cat_visit" \in Capabilities
  BY DEF Capabilities
<1>8. Closed(t.sightings) =>
        \/ Closed(s.sightings)
        \/ c = "visit_duration" \/ (c = "cat_visit" /\ evidence = "visit_duration")
  BY <1>5, <1>7 DEF Closed
<1>9. Unmoved(u, known) /\ known.state = s
  BY <1>1, AndIsUnmoved DEF And
<1>10. v.state = t /\ known.effects \subseteq v.effects /\ {"state", "effects"} \subseteq DOMAIN v
  BY DEF And
<1>11. Sight(u, c, evidence) \in {known, v}
  BY <1>9, Zenon DEF Sight
<1> HIDE DEF s, t, known, v
<1>12. CASE Sight(u, c, evidence) = known
  BY <1>9, <1>12 DEF Unmoved, Quiet
<1>13. CASE Sight(u, c, evidence) = v
  <2>1. IsUpdate(v) /\ u.effects \subseteq v.effects
    BY <1>6, <1>9, <1>10 DEF Unmoved, IsUpdate
  <2>2. \A f \in Kept : v.state[f] = u.state[f]
    BY <1>1, <1>4, <1>10 DEF Quiet
  <2>3. Closed(s.sightings) => Closed(u.state.sightings)
    BY <1>1 DEF Quiet
  <2> QED BY <1>8, <1>10, <1>13, <2>1, <2>2, <2>3
<1> QED BY <1>11, <1>12, <1>13

LEMMA SightIsUnmoved ==
  ASSUME NEW u, IsUpdate(u), NEW c \in Capabilities, NEW evidence,
         c # "visit_duration", c = "cat_visit" => evidence # "visit_duration"
  PROVE  Unmoved(u, Sight(u, c, evidence))
<1> DEFINE v == Sight(u, c, evidence)
<1>1. /\ IsUpdate(v) /\ u.effects \subseteq v.effects
      /\ \A f \in Kept : v.state[f] = u.state[f]
      /\ Closed(v.state.sightings) => Closed(u.state.sightings)
  BY SightMoves
<1> HIDE DEF v
<1>2. Unmoved(u, v)
  BY <1>1 DEF Unmoved, Quiet, IsUpdate
<1> QED BY <1>2 DEF v

LEMMA WatchCycleIsUnmoved ==
  ASSUME NEW u, IsUpdate(u), NEW doc
  PROVE  Unmoved(u, WatchCycle(u, doc))
<1> DEFINE v == WatchCycle(u, doc)
           running == [u.state EXCEPT !.cycleRunning = TRUE]
           stopped == [u.state EXCEPT !.cycleRunning = FALSE]
<1>1. Quiet(u.state, running)
  BY ExceptIsQuiet, Zenon DEF Kept, IsUpdate
<1>2. Quiet(u.state, stopped)
  BY ExceptIsQuiet, Zenon DEF Kept, IsUpdate
<1>3. v = With(u, running) \/ v = And(u, stopped, <<"cycle", doc.cycles>>) \/ v = u
  BY Zenon DEF WatchCycle
<1> QED BY <1>1, <1>2, <1>3, WithIsUnmoved, AndIsUnmoved, UnmovedItself

LEMMA WatchVisitIsUnmoved ==
  ASSUME NEW u, IsUpdate(u), NEW doc, NEW time
  PROVE  Unmoved(u, WatchVisit(u, doc, time))
<1> DEFINE v == WatchVisit(u, doc, time)
           started == u.state.visitStarted
           begun == [u.state EXCEPT !.visitStarted = IF @ = None THEN time ELSE @]
           over == [u.state EXCEPT !.visitStarted = None]
<1>1. Quiet(u.state, begun)
  BY Zenon DEF IsState, Quiet, Kept, IsUpdate
<1>2. Quiet(u.state, over)
  BY ExceptIsQuiet, Zenon DEF Kept, IsUpdate
<1>3. \/ v = With(u, begun) \/ v = With(u, over)
      \/ v = And(u, over, <<"visit", started, time>>) \/ v = u
  <2> DEFINE timed == IF started # None /\ doc.beam = FALSE /\ doc.loaded = FALSE
                      THEN And(u, over, <<"visit", started, time>>) ELSE u
             wBegun == With(u, begun)
             wOver == With(u, over)
  <2>1. timed = And(u, over, <<"visit", started, time>>) \/ timed = u
    BY Zenon
  <2>2. v = CASE doc.status = "cat_detected" -> wBegun
              [] doc.status = "cat_sensor_timing" -> timed
              [] doc.status \notin {"cat_detected", "cat_sensor_timing", None} -> wOver
              [] OTHER -> u
    BY Zenon DEF WatchVisit
  <2> HIDE DEF timed, wBegun, wOver, v
  <2>3. v = wBegun \/ v = timed \/ v = wOver \/ v = u
    BY <2>2, Zenon
  <2> QED BY <2>1, <2>3, Zenon DEF wBegun, wOver
<1> QED BY <1>1, <1>2, <1>3, WithIsUnmoved, AndIsUnmoved, UnmovedItself

LEMMA ArriveIsUnmoved ==
  ASSUME NEW u, IsUpdate(u), NEW doc
  PROVE  Unmoved(u, Arrive(u, doc))
<1> DEFINE v == IF u.state.occupied = FALSE /\ doc.beam = TRUE
                THEN Sight(u, "cat_visit", "occupancy") ELSE u
           s == [v.state EXCEPT !.occupied = doc.beam]
<1>1. Unmoved(u, v)
  <2>1. "cat_visit" \in Capabilities
    BY DEF Capabilities
  <2> QED BY <2>1, SightIsUnmoved, UnmovedItself
<1>2. IsUpdate(v)
  BY <1>1 DEF Unmoved
<1>3. Quiet(v.state, s)
  <2> HIDE DEF v
  <2> QED BY <1>2, ExceptIsQuiet, Zenon DEF Kept, IsUpdate
<1>4. Unmoved(v, With(v, s))
  BY <1>2, <1>3, WithIsUnmoved
<1>5. Arrive(u, doc) = With(v, s)
  BY Zenon DEF Arrive
<1> QED BY <1>1, <1>4, <1>5, UnmovedIsTransitive

LEMMA WeighIsQuiet ==
  ASSUME NEW s, IsState(s), NEW doc, NEW time
  PROVE  Quiet(s, Weigh(s, doc, time))
<1> DEFINE full == [s EXCEPT !.loadedSince = IF @ = None THEN time ELSE @]
           clear == [s EXCEPT !.loadedSince = None, !.excessRestored = None]
<1>1. Weigh(s, doc, time) = full \/ Weigh(s, doc, time) = clear \/ Weigh(s, doc, time) = s
  <2>1. Weigh(s, doc, time) = CASE doc.loaded = TRUE -> full [] doc.loaded = FALSE -> clear
                                [] OTHER -> s
    BY Zenon DEF Weigh
  <2> HIDE DEF full, clear
  <2> QED BY <2>1, Zenon
<1>2. Quiet(s, full)
  BY Zenon DEF IsState, Quiet, Kept
<1>3. Quiet(s, clear)
  BY Zenon DEF IsState, Quiet, Kept
<1>4. Quiet(s, s)
  BY DEF Quiet
<1> QED BY <1>1, <1>2, <1>3, <1>4

LEMMA CountCyclesIsQuiet ==
  ASSUME NEW s, IsState(s), NEW doc
  PROVE  Quiet(s, CountCycles(s, doc))
<1> DEFINE turned == /\ s.faultRestored = TRUE /\ s.fault = None
                     /\ s.cycles # None /\ doc.cycles > s.cycles
           t == [s EXCEPT !.faultRestored = IF turned THEN FALSE ELSE @, !.cycles = doc.cycles]
<1>1. CountCycles(s, doc) = s \/ CountCycles(s, doc) = t
  BY Zenon DEF CountCycles
<1> HIDE DEF turned
<1>2. Quiet(s, t)
  BY Zenon DEF IsState, Quiet, Kept
<1>3. Quiet(s, s)
  BY DEF Quiet
<1> QED BY <1>1, <1>2, <1>3

(* What a level may do to the watch for a pour: settle, count towards a step, or call it poured. *)
Stepped(s, mm) == s.baseline # None /\ ~(Magnitude(mm - s.baseline) < StepSize)
Direction(s, mm) == IF mm < s.baseline THEN 1 ELSE -1
TopsUp(s, t, mm) ==
  \/ t.baseline = mm /\ t.steps = 0 /\ t.stale = s.stale
  \/ /\ Stepped(s, mm) /\ t.baseline = s.baseline
     /\ t.steps = Held(s.steps, Direction(s, mm)) /\ t.stale = s.stale
  \/ /\ Stepped(s, mm) /\ ~(Direction(s, mm) < 0)
     /\ ~(Magnitude(Held(s.steps, Direction(s, mm))) < StepSamples)
     /\ t.baseline = mm /\ t.steps = 0 /\ t.stale = TRUE

LEMMA WatchForTopUpMoves ==
  ASSUME NEW u, IsUpdate(u), NEW mm
  PROVE  LET v == WatchForTopUp(u, mm) IN
         /\ IsUpdate(v) /\ u.effects \subseteq v.effects
         /\ \A f \in Kept \ {"baseline", "steps", "stale"} : v.state[f] = u.state[f]
         /\ v.state.sightings = u.state.sightings
         /\ mm \in LitterLevel.plausible => TopsUp(u.state, v.state, mm)
         /\ mm \notin LitterLevel.plausible => v = u
<1> DEFINE s == u.state
           v == WatchForTopUp(u, mm)
           held == Held(s.steps, Direction(s, mm))
           counted == [s EXCEPT !.steps = held]
           settled == [s EXCEPT !.baseline = mm, !.steps = 0]
           called == [settled EXCEPT !.stale = TRUE]
<1>0. IsState(s)
  BY DEF IsUpdate
<1>1. /\ DOMAIN counted = DOMAIN s /\ counted.steps = held
      /\ \A f \in Kept \cup {"sightings"} : f # "steps" => counted[f] = s[f]
  <2> HIDE DEF held
  <2> QED BY <1>0, Zenon DEF IsState, Kept
<1>2. /\ DOMAIN settled = DOMAIN s /\ settled.baseline = mm /\ settled.steps = 0
      /\ \A f \in Kept \cup {"sightings"} : f \notin {"baseline", "steps"} => settled[f] = s[f]
  BY <1>0, Zenon DEF IsState, Kept
<1>3. /\ DOMAIN called = DOMAIN s /\ called.baseline = mm /\ called.steps = 0 /\ called.stale = TRUE
      /\ \A f \in Kept \cup {"sightings"} :
           f \notin {"baseline", "steps", "stale"} => called[f] = s[f]
  <2> HIDE DEF settled
  <2>1. /\ DOMAIN called = DOMAIN settled /\ called.stale = TRUE
        /\ \A f \in Kept \cup {"sightings"} : f # "stale" => called[f] = settled[f]
    BY <1>0, <1>2, Zenon DEF IsState, Kept
  <2> QED BY <1>2, <2>1 DEF Kept
<1>4. IsState(counted) /\ IsState(settled) /\ IsState(called)
  <2> HIDE DEF counted, settled, called
  <2> QED BY <1>0, <1>1, <1>2, <1>3 DEF IsState, Kept
<1>5. CASE mm \notin LitterLevel.plausible
  <2>1. v = u
    BY <1>5, Zenon DEF WatchForTopUp
  <2> QED BY <1>5, <2>1
<1>6. CASE mm \in LitterLevel.plausible
  <2>1. \/ v = With(u, settled)
        \/ Stepped(s, mm) /\ v = With(u, counted)
        \/ /\ Stepped(s, mm) /\ ~(Direction(s, mm) < 0) /\ ~(Magnitude(held) < StepSamples)
           /\ v = And(u, called, <<"stale">>)
    <3> DEFINE stepped == IF Magnitude(held) < StepSamples THEN With(u, counted)
                       ELSE IF Direction(s, mm) < 0 \/ s.stale THEN With(u, settled)
                       ELSE And(u, called, <<"stale">>)
    <3>1. v = IF s.baseline = None \/ Magnitude(mm - s.baseline) < StepSize
              THEN With(u, settled) ELSE stepped
      BY <1>6, Zenon DEF WatchForTopUp, Direction
    <3> HIDE DEF counted, settled, called, held, v
    <3> QED BY <3>1, Zenon DEF Stepped
  <2> HIDE DEF counted, settled, called, v
  <2>2. CASE v = With(u, settled)
    <3>1. v.state = settled /\ v.effects = u.effects /\ {"state", "effects"} \subseteq DOMAIN v
      BY <2>2, Zenon DEF With, IsUpdate
    <3> QED BY <1>2, <1>4, <1>6, <3>1 DEF IsUpdate, TopsUp, Kept, v
  <2>3. CASE Stepped(s, mm) /\ v = With(u, counted)
    <3>1. v.state = counted /\ v.effects = u.effects /\ {"state", "effects"} \subseteq DOMAIN v
      BY <2>3, Zenon DEF With, IsUpdate
    <3> QED BY <1>1, <1>4, <1>6, <2>3, <3>1 DEF IsUpdate, TopsUp, Kept, v
  <2>4. CASE /\ Stepped(s, mm) /\ ~(Direction(s, mm) < 0) /\ ~(Magnitude(held) < StepSamples)
             /\ v = And(u, called, <<"stale">>)
    <3>1. /\ v.state = called /\ u.effects \subseteq v.effects
          /\ {"state", "effects"} \subseteq DOMAIN v
      BY <2>4 DEF And
    <3> QED BY <1>3, <1>4, <1>6, <2>4, <3>1 DEF IsUpdate, TopsUp, Kept, v
  <2> QED BY <2>1, <2>2, <2>3, <2>4
<1> QED BY <1>5, <1>6

(* A scale is written whenever what is kept of it moved. *)
Written(u, before, after) == <<"learned">> \in u.effects \/ Persisted(after) = Persisted(before)

LEMMA LearnedMoves ==
  ASSUME NEW u, NEW t, NEW before, NEW after
  PROVE  LET v == Learned(u, t, Moved(before, after)) IN
         /\ v.state = t /\ u.effects \subseteq v.effects /\ {"state", "effects"} \subseteq DOMAIN v
         /\ Written(v, before, after)
BY DEF Learned, Moved, Written

(* What a document does with the litter's level: it samples it, or leaves all alone. *)
Levels == {"stale", "litter", "baseline", "steps"}
Sampled(s, u, mm) ==
  /\ u.state.litter = Observe(s.litter, mm, LitterLevel)
  /\ Written(u, s.litter, u.state.litter)
  /\ TopsUp(s, u.state, mm)
LitterLearned(s, u, doc) ==
  IF u.state.litterAt # s.litterAt /\ Sampleable(doc) /\ doc.level \in LitterLevel.plausible
  THEN Sampled(s, u, doc.level)
  ELSE \A f \in Levels : u.state[f] = s[f]

(* The newest sample was taken long enough ago for a message to be no redelivery of it. *)
Due(at, time, dedupe) == ~(at # None /\ time - at < dedupe)
Timed(before, after, time, dedupe) == after = before \/ (after = time /\ Due(before, time, dedupe))

LEMMA LearnLitterMoves ==
  ASSUME NEW u, IsUpdate(u), NEW doc, NEW time \in Int
  PROVE  LET v == LearnLitter(u, doc, time) IN
         /\ IsUpdate(v)
         /\ \A f \in Kept \ (Levels \cup {"litterAt"}) : v.state[f] = u.state[f]
         /\ v.state.sightings = u.state.sightings
         /\ Timed(u.state.litterAt, v.state.litterAt, time, StateDedupe)
         /\ LitterLearned(u.state, v, doc)
<1> DEFINE s == [u.state EXCEPT !.litterAt = time]
           v == With(u, s)
           w == WatchForTopUp(v, doc.level)
           scale == Observe(w.state.litter, doc.level, LitterLevel)
           t == [w.state EXCEPT !.litter = scale]
           x == Learned(w, t, Moved(w.state.litter, scale))
           skipped == u.state.litterAt # None /\ time - u.state.litterAt < StateDedupe
<1>1. LearnLitter(u, doc, time) = IF skipped THEN u ELSE IF ~Sampleable(doc) THEN v ELSE x
  BY Zenon DEF LearnLitter
<1>2. ~skipped => u.state.litterAt # time
  <2>1. StateDedupe \in Nat \ {0}
    BY DerivedAssumption
  <2>2. time # None
    BY NoneAssumption
  <2> QED BY <2>1, <2>2, SMT
<1>3. /\ DOMAIN s = DOMAIN u.state /\ s.litterAt = time
      /\ \A f \in Kept \cup {"sightings"} : f # "litterAt" => s[f] = u.state[f]
  BY Zenon DEF IsUpdate, IsState, Kept
<1>4. IsState(s)
  <2> HIDE DEF s
  <2> QED BY <1>3 DEF IsUpdate, IsState, Kept
<1>5. v.state = s /\ IsUpdate(v)
  BY <1>4, Zenon DEF With, IsUpdate
<1>6. /\ IsUpdate(w)
      /\ \A f \in Kept \ {"baseline", "steps", "stale"} : w.state[f] = s[f]
      /\ w.state.sightings = s.sightings
      /\ doc.level \in LitterLevel.plausible => TopsUp(s, w.state, doc.level)
      /\ doc.level \notin LitterLevel.plausible => w = v
  <2> HIDE DEF v, s
  <2> QED BY <1>5, WatchForTopUpMoves
<1> HIDE DEF v, w, s
<1>7. /\ DOMAIN t = DOMAIN w.state /\ t.litter = scale
      /\ \A f \in Kept \cup {"sightings"} : f # "litter" => t[f] = w.state[f]
  <2> HIDE DEF scale
  <2> QED BY <1>6, Zenon DEF IsUpdate, IsState, Kept
<1>8. IsState(t)
  <2> HIDE DEF t, scale
  <2> QED BY <1>6, <1>7 DEF IsUpdate, IsState, Kept
<1>9. x.state = t /\ {"state", "effects"} \subseteq DOMAIN x /\ Written(x, w.state.litter, scale)
  <2> HIDE DEF t, scale
  <2> QED BY LearnedMoves
<1>10. doc.level \notin LitterLevel.plausible => scale = w.state.litter
  BY DEF Observe
<1>11. w.state.litter = u.state.litter
  BY <1>3, <1>6 DEF Kept
<1>12. scale = Observe(u.state.litter, doc.level, LitterLevel)
  BY <1>11
<1>13. ~skipped <=> Due(u.state.litterAt, time, StateDedupe)
  BY DEF Due
<1> HIDE DEF t, scale, x, skipped
<1>14. CASE skipped
  <2>1. LitterLearned(u.state, u, doc)
    BY DEF LitterLearned
  <2> QED BY <1>1, <1>14, <2>1 DEF Timed
<1>15. CASE ~skipped /\ ~Sampleable(doc)
  <2>1. LitterLearned(u.state, v, doc) /\ v.state.litterAt = time
    BY <1>3, <1>5, <1>15 DEF LitterLearned, Levels, Kept
  <2> QED BY <1>1, <1>3, <1>5, <1>13, <1>15, <2>1 DEF Kept, Timed
<1>16. CASE ~skipped /\ Sampleable(doc)
  <2>1. IsUpdate(x)
    BY <1>8, <1>9 DEF IsUpdate
  <2>2. \A f \in Kept \ (Levels \cup {"litterAt"}) : x.state[f] = u.state[f]
    BY <1>3, <1>6, <1>7, <1>9 DEF Kept, Levels
  <2>3. x.state.sightings = u.state.sightings
    BY <1>3, <1>6, <1>7, <1>9
  <2>4. x.state.litterAt = time
    BY <1>3, <1>6, <1>7, <1>9 DEF Kept
  <2>5. CASE doc.level \in LitterLevel.plausible
    <3>1. TopsUp(s, w.state, doc.level)
      BY <1>6, <2>5
    <3>2. /\ s.baseline = u.state.baseline /\ s.steps = u.state.steps /\ s.stale = u.state.stale
          /\ t.baseline = w.state.baseline /\ t.steps = w.state.steps /\ t.stale = w.state.stale
      BY <1>3, <1>7 DEF Kept
    <3>3. TopsUp(u.state, x.state, doc.level)
      BY <1>9, <3>1, <3>2 DEF TopsUp, Stepped, Direction
    <3>4. x.state.litter = Observe(u.state.litter, doc.level, LitterLevel)
      BY <1>7, <1>9, <1>12
    <3>5. Written(x, u.state.litter, x.state.litter)
      BY <1>7, <1>9, <1>11
    <3>6. LitterLearned(u.state, x, doc)
      BY <1>2, <1>16, <2>4, <2>5, <3>3, <3>4, <3>5 DEF LitterLearned, Sampled
    <3> QED BY <1>1, <1>13, <1>16, <2>1, <2>2, <2>3, <2>4, <3>6 DEF Timed
  <2>6. CASE doc.level \notin LitterLevel.plausible
    <3>1. \A f \in Levels : x.state[f] = u.state[f]
      BY <1>3, <1>5, <1>6, <1>7, <1>9, <1>10, <2>6 DEF Levels, Kept
    <3>2. LitterLearned(u.state, x, doc)
      BY <2>6, <3>1 DEF LitterLearned
    <3> QED BY <1>1, <1>13, <1>16, <2>1, <2>2, <2>3, <2>4, <3>2 DEF Timed
  <2> QED BY <2>5, <2>6
<1> QED BY <1>14, <1>15, <1>16

(* What a document does to what is followed. *)
LEMMA DocumentMoves ==
  ASSUME NEW s, IsState(s), NEW doc, NEW time \in Int
  PROVE  LET u == ApplyState(s, doc, time) IN
         /\ IsUpdate(u)
         /\ u.state.hopper = s.hopper /\ u.state.hopperAt = s.hopperAt
         /\ Timed(s.litterAt, u.state.litterAt, time, StateDedupe)
         /\ u.state.beamAt = IF doc.beam = TRUE THEN time ELSE s.beamAt
         /\ Closed(u.state.sightings) => Closed(s.sightings)
         /\ LitterLearned(s, u, doc)
<1> DEFINE a == SeeBeam(s, doc, time)
           b == Weigh(a, doc, time)
           c == CountCycles(b, doc)
           p == Updated(c)
           q == WatchCycle(p, doc)
           r == WatchVisit(q, doc, time)
           v == Arrive(r, doc)
           u == LearnLitter(v, doc, time)
<1>0. u = ApplyState(s, doc, time)
  BY DEF ApplyState
<1>1. /\ IsState(a) /\ a.sightings = s.sightings
      /\ \A f \in Kept \ {"beamAt"} : a[f] = s[f]
      /\ a.beamAt = IF doc.beam = TRUE THEN time ELSE s.beamAt
  <2> DEFINE seen == [s EXCEPT !.beamAt = time]
  <2>1. /\ DOMAIN seen = DOMAIN s /\ seen.beamAt = time /\ seen.sightings = s.sightings
        /\ \A f \in Kept \ {"beamAt"} : seen[f] = s[f]
    BY Zenon DEF IsState, Kept
  <2>2. a = IF doc.beam = TRUE THEN seen ELSE s
    BY Zenon DEF SeeBeam
  <2> HIDE DEF a, seen
  <2>3. IsState(seen)
    BY <2>1 DEF IsState, Kept
  <2> QED BY <2>1, <2>2, <2>3
<1>2. Quiet(a, b)
  <2> HIDE DEF a
  <2> QED BY <1>1, WeighIsQuiet
<1>3. Quiet(b, c)
  <2> HIDE DEF b
  <2> QED BY <1>2, CountCyclesIsQuiet DEF Quiet
<1>4. p.state = c /\ IsUpdate(p)
  <2> HIDE DEF c
  <2> QED BY <1>3 DEF Updated, Quiet, IsUpdate
<1> HIDE DEF a, b, c, p
<1>5. Unmoved(p, q)
  BY <1>4, WatchCycleIsUnmoved
<1> HIDE DEF q
<1>6. Unmoved(q, r)
  BY <1>5, WatchVisitIsUnmoved DEF Unmoved
<1> HIDE DEF r
<1>7. Unmoved(r, v)
  BY <1>6, ArriveIsUnmoved DEF Unmoved
<1> HIDE DEF v
<1>8. Quiet(a, v.state) /\ IsUpdate(v)
  <2>1. Unmoved(p, v)
    BY <1>5, <1>6, <1>7, UnmovedIsTransitive
  <2> QED BY <1>2, <1>3, <1>4, <2>1 DEF Unmoved, Quiet
<1>9. /\ IsUpdate(u)
      /\ \A f \in Kept \ (Levels \cup {"litterAt"}) : u.state[f] = v.state[f]
      /\ u.state.sightings = v.state.sightings
      /\ Timed(v.state.litterAt, u.state.litterAt, time, StateDedupe)
      /\ LitterLearned(v.state, u, doc)
  BY <1>8, LearnLitterMoves
<1> HIDE DEF u
<1>10. /\ u.state.hopper = v.state.hopper /\ u.state.beamAt = v.state.beamAt
       /\ v.state.hopper = a.hopper /\ v.state.beamAt = a.beamAt /\ a.hopper = s.hopper
       /\ u.state.hopperAt = v.state.hopperAt /\ v.state.hopperAt = a.hopperAt
       /\ a.hopperAt = s.hopperAt /\ v.state.litterAt = a.litterAt /\ a.litterAt = s.litterAt
  BY <1>1, <1>8, <1>9 DEF Kept, Levels, Quiet
<1>11. LitterLearned(s, u, doc)
  <2>1. \A f \in Levels \cup {"litterAt"} : v.state[f] = s[f]
    BY <1>1, <1>8 DEF Kept, Levels, Quiet
  <2>2. /\ v.state.litter = s.litter /\ v.state.litterAt = s.litterAt
        /\ v.state.baseline = s.baseline
        /\ v.state.steps = s.steps /\ v.state.stale = s.stale
    BY <2>1 DEF Levels
  <2> QED BY <1>9, <2>1, <2>2 DEF LitterLearned, Sampled, TopsUp, Stepped, Direction
<1>12. Closed(u.state.sightings) => Closed(s.sightings)
  BY <1>1, <1>8, <1>9 DEF Quiet
<1> QED BY <1>0, <1>1, <1>9, <1>10, <1>11, <1>12

(* What one reading of a message does to what is followed: a dispense may sample the hopper's  *)
(* gauge, and a visit may close.                                                                 *)
Gauged(u, v, time) ==
  \/ v.state.hopperAt = u.state.hopperAt /\ v.state.hopper = u.state.hopper
  \/ /\ v.state.hopperAt = time /\ u.state.hopperAt # time
     /\ Due(u.state.hopperAt, time, DispenseDedupe)
     /\ v.state.hopper = Observe(u.state.hopper, v.state.fill, HopperGauge)
     /\ Written(v, u.state.hopper, v.state.hopper)
Bedding == {"litter", "litterAt", "baseline", "steps"}
Reads(u, v, time, closes) ==
  /\ IsUpdate(v) /\ u.effects \subseteq v.effects
  /\ \A f \in Bedding : v.state[f] = u.state[f]
  /\ v.state.stale => u.state.stale
  /\ v.state.beamAt \in {u.state.beamAt, None}
  /\ Closed(v.state.sightings) => Closed(u.state.sightings) \/ closes
  /\ Gauged(u, v, time)

LEMMA UnmovedReads ==
  ASSUME NEW u, NEW v, NEW time, NEW closes, Unmoved(u, v)
  PROVE  Reads(u, v, time, closes)
BY DEF Unmoved, Quiet, Reads, Gauged, Bedding, Kept

LEMMA ReadsThenUnmoved ==
  ASSUME NEW u, NEW v, NEW w, NEW time, NEW closes, Reads(u, v, time, closes), Unmoved(v, w)
  PROVE  Reads(u, w, time, closes)
<1>1. /\ IsUpdate(w) /\ v.effects \subseteq w.effects
      /\ \A f \in Kept : w.state[f] = v.state[f]
      /\ Closed(w.state.sightings) => Closed(v.state.sightings)
  BY DEF Unmoved, Quiet
<1>2. /\ w.state.fill = v.state.fill /\ w.state.stale = v.state.stale
      /\ w.state.beamAt = v.state.beamAt
      /\ w.state.hopper = v.state.hopper /\ w.state.hopperAt = v.state.hopperAt
      /\ \A f \in Bedding : w.state[f] = v.state[f]
  BY <1>1 DEF Kept, Bedding
<1>3. Gauged(u, w, time)
  BY <1>1, <1>2 DEF Reads, Gauged, Written
<1> QED BY <1>1, <1>2, <1>3 DEF Reads

LEMMA UnmovedThenReads ==
  ASSUME NEW u, NEW v, NEW w, NEW time, NEW closes, Unmoved(u, v), Reads(v, w, time, closes)
  PROVE  Reads(u, w, time, closes)
<1>1. /\ u.effects \subseteq v.effects /\ \A f \in Kept : v.state[f] = u.state[f]
      /\ Closed(v.state.sightings) => Closed(u.state.sightings)
  BY DEF Unmoved, Quiet
<1>2. /\ v.state.stale = u.state.stale /\ v.state.beamAt = u.state.beamAt
      /\ v.state.hopper = u.state.hopper /\ v.state.hopperAt = u.state.hopperAt
      /\ \A f \in Bedding : v.state[f] = u.state[f]
  BY <1>1 DEF Kept, Bedding
<1>3. Gauged(u, w, time)
  BY <1>2 DEF Reads, Gauged
<1> QED BY <1>1, <1>2, <1>3 DEF Reads

LEMMA FillReads ==
  ASSUME NEW u, IsUpdate(u), NEW gauge, NEW time \in Int, NEW closes
  PROVE  Reads(u, Fill(u, gauge, time), time, closes)
<1> DEFINE s == [u.state EXCEPT !.fill = gauge, !.stale = FALSE]
           effects == (IF u.state.fill = gauge THEN {} ELSE {<<"fill">>})
                      \cup (IF u.state.stale THEN {<<"stale">>} ELSE {})
           v == [state |-> s, effects |-> u.effects \cup effects]
           scale == Observe(v.state.hopper, gauge, HopperGauge)
           t == [v.state EXCEPT !.hopper = scale, !.hopperAt = time]
           w == Learned(v, t, Moved(v.state.hopper, scale))
           skipped == v.state.hopperAt # None /\ time - v.state.hopperAt < DispenseDedupe
<1>1. /\ DOMAIN s = DOMAIN u.state /\ s.fill = gauge /\ s.stale = FALSE
      /\ \A f \in Kept \cup {"sightings"} : f \notin {"fill", "stale"} => s[f] = u.state[f]
  BY Zenon DEF IsUpdate, IsState, Kept
<1>2. IsState(s)
  <2> HIDE DEF s
  <2> QED BY <1>1 DEF IsUpdate, IsState, Kept
<1>3. v.state = s /\ u.effects \subseteq v.effects /\ IsUpdate(v)
  <2> HIDE DEF s, effects
  <2> QED BY <1>2 DEF IsUpdate
<1>4. Fill(u, gauge, time) = IF skipped THEN v ELSE w
  BY Zenon DEF Fill, LearnHopper
<1>5. ~skipped => v.state.hopperAt # time /\ Due(v.state.hopperAt, time, DispenseDedupe)
  <2> HIDE DEF v
  <2>1. DispenseDedupe \in Nat \ {0}
    BY DerivedAssumption
  <2>2. time # None
    BY NoneAssumption
  <2>3. ~skipped => v.state.hopperAt # time
    BY <2>1, <2>2, SMT
  <2> QED BY <2>3, Zenon DEF Due
<1> HIDE DEF v, s
<1>6. /\ DOMAIN t = DOMAIN v.state /\ t.hopper = scale /\ t.hopperAt = time
      /\ \A f \in Kept \cup {"sightings"} : f \notin {"hopper", "hopperAt"} => t[f] = v.state[f]
  <2> HIDE DEF scale
  <2> QED BY <1>3, Zenon DEF IsUpdate, IsState, Kept
<1>7. IsState(t)
  <2> HIDE DEF t, scale
  <2> QED BY <1>3, <1>6 DEF IsUpdate, IsState, Kept
<1>8. /\ w.state = t /\ v.effects \subseteq w.effects /\ {"state", "effects"} \subseteq DOMAIN w
      /\ Written(w, v.state.hopper, scale)
  <2> HIDE DEF t, scale
  <2> QED BY LearnedMoves
<1>9. v.state.hopper = u.state.hopper /\ v.state.hopperAt = u.state.hopperAt
  BY <1>1, <1>3 DEF Kept
<1>10. Reads(u, v, time, closes)
  <2>1. Gauged(u, v, time)
    BY <1>9 DEF Gauged
  <2>2. /\ \A f \in Bedding : v.state[f] = u.state[f]
        /\ v.state.beamAt = u.state.beamAt /\ v.state.sightings = u.state.sightings
    BY <1>1, <1>3 DEF Bedding, Kept
  <2> QED BY <1>1, <1>3, <2>1, <2>2 DEF Reads
<1>11. ASSUME ~skipped
       PROVE  Reads(u, w, time, closes)
  <2>0. scale = Observe(u.state.hopper, gauge, HopperGauge)
    BY <1>9
  <2> HIDE DEF w, t, scale, skipped
  <2>1. t.fill = gauge /\ t.stale = FALSE
    BY <1>1, <1>3, <1>6 DEF Kept
  <2>2. Gauged(u, w, time)
    BY <1>5, <1>6, <1>8, <1>9, <1>11, <2>0, <2>1 DEF Gauged
  <2>3. /\ \A f \in Bedding : t[f] = u.state[f]
        /\ t.beamAt = u.state.beamAt /\ t.sightings = u.state.sightings
    BY <1>1, <1>3, <1>6 DEF Bedding, Kept
  <2>4. IsUpdate(w) /\ u.effects \subseteq w.effects
    BY <1>3, <1>7, <1>8 DEF IsUpdate
  <2> QED BY <1>8, <2>1, <2>2, <2>3, <2>4 DEF Reads
<1> HIDE DEF w, skipped
<1> QED BY <1>4, <1>10, <1>11

LEMMA DispenseReads ==
  ASSUME NEW u, IsUpdate(u), NEW code, NEW time \in Int, NEW closes
  PROVE  Reads(u, Dispense(u, code, time), time, closes)
<1> DEFINE fresh == [u.state EXCEPT !.pending = {}, !.pendingAt = time]
           s == IF Restart(u.state, time) THEN fresh ELSE u.state
           burst == {p \in s.pending : Phase(p) # Phase(code)} \cup {code}
           fills == {Value(p) : p \in {q \in burst : Phase(q) = FillPhase}}
           empty == [s EXCEPT !.pending = {}]
           more == [s EXCEPT !.pending = burst]
           spent == With(u, empty)
           waits == With(u, more)
           filled == Fill(spent, CHOOSE f \in fills : TRUE, time)
           proof == IF fills = {} THEN spent ELSE filled
<1>1. \/ Dispense(u, code, time) = waits
      \/ Dispense(u, code, time) = Sight(proof, "hopper", "dispense")
  BY Zenon DEF Dispense
<1>2. IsState(u.state)
  BY DEF IsUpdate
<1>3. Quiet(u.state, fresh)
  BY <1>2, Zenon DEF IsState, Quiet, Kept
<1>4. Quiet(u.state, u.state)
  BY <1>2 DEF Quiet
<1>5. Quiet(u.state, s) /\ IsState(s)
  <2> HIDE DEF fresh
  <2>1. s = fresh \/ s = u.state
    BY Zenon
  <2> HIDE DEF s
  <2>2. Quiet(u.state, s)
    BY <1>3, <1>4, <2>1
  <2> QED BY <2>2 DEF Quiet
<1> HIDE DEF s
<1>6. Quiet(u.state, empty)
  <2>1. Quiet(s, empty)
    BY <1>5, ExceptIsQuiet, Zenon DEF Kept
  <2> QED BY <1>5, <2>1 DEF Quiet
<1>7. Quiet(u.state, more)
  <2> HIDE DEF burst
  <2>1. Quiet(s, more)
    BY <1>5, ExceptIsQuiet, Zenon DEF Kept
  <2> QED BY <1>5, <2>1 DEF Quiet
<1> HIDE DEF empty, more
<1>8. Unmoved(u, waits) /\ Unmoved(u, spent)
  BY <1>6, <1>7, WithIsUnmoved
<1> HIDE DEF waits, spent, fills
<1>9. Reads(u, filled, time, closes)
  <2>1. Reads(spent, filled, time, closes)
    BY <1>8, FillReads DEF Unmoved
  <2> QED BY <1>8, <2>1, UnmovedThenReads
<1> HIDE DEF filled
<1>10. Reads(u, proof, time, closes)
  BY <1>8, <1>9, UnmovedReads
<1> HIDE DEF proof
<1>11. Unmoved(proof, Sight(proof, "hopper", "dispense"))
  <2>1. "hopper" \in Capabilities
    BY DEF Capabilities
  <2> QED BY <1>10, <2>1, SightIsUnmoved DEF Reads
<1>12. Reads(u, Sight(proof, "hopper", "dispense"), time, closes)
  BY <1>10, <1>11, ReadsThenUnmoved
<1> QED BY <1>1, <1>8, <1>12, UnmovedReads

(* Something broke the beam as long ago as a visit that closes lasted at most. *)
LEMMA CloseVisitReads ==
  ASSUME NEW u, IsUpdate(u), NEW duration, NEW time
  PROVE  Reads(u, CloseVisit(u, duration, time), time, BeamSeenRecently(u.state, time, duration))
<1> DEFINE s == [u.state EXCEPT !.beamAt = None]
           v == With(u, s)
           w == Sight(v, "visit_duration", "visit_duration")
           x == Sight(w, "cat_visit", "visit_duration")
           recently == BeamSeenRecently(u.state, time, duration)
<1>1. CloseVisit(u, duration, time) = IF ~recently THEN u ELSE x
  BY Zenon DEF CloseVisit
<1>2. Reads(u, u, time, recently)
  BY UnmovedItself, UnmovedReads
<1>3. /\ DOMAIN s = DOMAIN u.state /\ s.beamAt = None /\ s.sightings = u.state.sightings
      /\ \A f \in Kept \ {"beamAt"} : s[f] = u.state[f]
  BY Zenon DEF IsUpdate, IsState, Kept
<1>4. IsState(s)
  <2> HIDE DEF s
  <2> QED BY <1>3 DEF IsUpdate, IsState, Kept
<1>5. v.state = s /\ v.effects = u.effects /\ IsUpdate(v)
  BY <1>4, Zenon DEF With, IsUpdate
<1>6. "visit_duration" \in Capabilities /\ "cat_visit" \in Capabilities
  BY DEF Capabilities
<1> HIDE DEF s, v
<1>7. IsUpdate(w) /\ v.effects \subseteq w.effects /\ \A f \in Kept : w.state[f] = v.state[f]
  BY <1>5, <1>6, SightMoves
<1> HIDE DEF w
<1>8. IsUpdate(x) /\ w.effects \subseteq x.effects /\ \A f \in Kept : x.state[f] = w.state[f]
  BY <1>6, <1>7, SightMoves
<1> HIDE DEF x, recently
<1>9. /\ x.state.beamAt = None /\ x.state.stale = u.state.stale
      /\ x.state.hopper = u.state.hopper /\ x.state.hopperAt = u.state.hopperAt
      /\ \A f \in Bedding : x.state[f] = u.state[f]
  BY <1>3, <1>5, <1>7, <1>8 DEF Kept, Bedding
<1>10. recently => Reads(u, x, time, recently)
  BY <1>5, <1>7, <1>8, <1>9 DEF Reads, Gauged
<1> QED BY <1>1, <1>2, <1>10 DEF recently

LEMMA ReadingReads ==
  ASSUME NEW u, IsUpdate(u), NEW r, NEW time \in Int
  PROVE  Reads(u, ApplyReading(u, r, time), time,
               r.register = "duration" /\ BeamSeenRecently(u.state, time, r.value))
<1> DEFINE v == ApplyReading(u, r, time)
           closes == r.register = "duration" /\ BeamSeenRecently(u.state, time, r.value)
<1>0. "pet_weight" \in Capabilities /\ "cat_visit" \in Capabilities /\ "drawer" \in Capabilities
  BY DEF Capabilities
<1>1. CASE ~IsEvent(r)
  <2>1. v = u
    BY <1>1 DEF ApplyReading
  <2> HIDE DEF closes, v
  <2>2. Reads(u, u, time, closes)
    BY UnmovedItself, UnmovedReads
  <2> QED BY <2>1, <2>2 DEF closes, v
<1>2. CASE r.register = "weight" /\ IsEvent(r)
  <2> DEFINE w == Sight(u, "pet_weight", "cat_weight")
  <2>1. v = Sight(w, "cat_visit", "cat_weight")
    BY <1>2, Zenon DEF ApplyReading, ApplyEvent
  <2>2. Unmoved(u, w)
    BY <1>0, SightIsUnmoved
  <2> HIDE DEF w, closes, v
  <2>3. Unmoved(w, v)
    BY <1>0, <2>1, <2>2, SightIsUnmoved DEF Unmoved
  <2>4. Reads(u, v, time, closes)
    BY <2>2, <2>3, UnmovedIsTransitive, UnmovedReads
  <2> QED BY <2>4 DEF closes, v
<1>3. CASE r.register = "dispense" /\ IsEvent(r)
  <2>1. v = Dispense(u, r.value, time)
    BY <1>3, Zenon DEF ApplyReading, ApplyEvent
  <2> HIDE DEF closes, v
  <2>2. Reads(u, v, time, closes)
    BY <2>1, DispenseReads
  <2> QED BY <2>2 DEF closes, v
<1>4. CASE r.register = "duration" /\ IsEvent(r)
  <2>1. v = CloseVisit(u, r.value, time)
    BY <1>4, Zenon DEF ApplyReading, ApplyEvent
  <2> HIDE DEF v
  <2>2. Reads(u, v, time, BeamSeenRecently(u.state, time, r.value))
    BY <2>1, CloseVisitReads
  <2>3. Reads(u, v, time, closes)
    BY <1>4, <2>2 DEF Reads
  <2> QED BY <2>3 DEF closes, v
<1>5. CASE r.register = "fault" /\ IsEvent(r)
  <2> DEFINE t == [u.state EXCEPT !.fault = r.value]
             w == And(u, t, <<"changed">>)
  <2>1. v = IF r.value = u.state.fault THEN u ELSE w
    BY <1>5, Zenon DEF ApplyReading, ApplyEvent
  <2>2. Quiet(u.state, t)
    BY ExceptIsQuiet, Zenon DEF Kept, IsUpdate
  <2>3. Unmoved(u, w) /\ Unmoved(u, u)
    <3> HIDE DEF t
    <3> QED BY <2>2, AndIsUnmoved, UnmovedItself
  <2> HIDE DEF w, closes, v
  <2>4. Reads(u, v, time, closes)
    BY <2>1, <2>3, UnmovedReads
  <2> QED BY <2>4 DEF closes, v
<1>6. CASE r.register = "drawer" /\ IsEvent(r)
  <2>1. v = Sight(u, "drawer", "drawer_moved")
    BY <1>6, Zenon DEF ApplyReading, ApplyEvent
  <2> HIDE DEF closes, v
  <2>2. Unmoved(u, v)
    BY <1>0, <2>1, SightIsUnmoved
  <2>3. Reads(u, v, time, closes)
    BY <2>2, UnmovedReads
  <2> QED BY <2>3 DEF closes, v
<1> QED BY <1>1, <1>2, <1>3, <1>4, <1>5, <1>6 DEF IsEvent

(* Induction over the readings of a message, from the well-foundedness of the numbers. *)
LEMMA Minimum ==
  ASSUME NEW T \in SUBSET Nat, T # {}
  PROVE  \E n \in T : \A m \in T : n <= m
<1>1. IsWellFoundedOn(OpToRel(<, Nat), Nat)
  BY NatLessThanWellFounded
<1>2. PICK n \in T : \A m \in T : <<m, n>> \notin OpToRel(<, Nat)
  BY <1>1, WFMin
<1>3. \A m \in T : ~(m < n)
  <2> SUFFICES ASSUME NEW m \in T, m < n PROVE FALSE
    OBVIOUS
  <2>1. <<m, n>> \in OpToRel(<, Nat)
    BY DEF OpToRel
  <2> QED BY <1>2, <2>1
<1> QED BY <1>3

LEMMA Induction ==
  ASSUME NEW S, 0 \in S, \A n \in Nat : n \in S => n + 1 \in S
  PROVE  Nat \subseteq S
<1> SUFFICES ASSUME Nat \ S # {} PROVE FALSE
  OBVIOUS
<1>1. PICK n \in Nat \ S : \A m \in Nat \ S : n <= m
  BY Minimum
<1> QED BY <1>1

(* The readings of a message are applied one after another. *)
Folds(g, n, s, readings, time) ==
  g = [i \in 0 .. n |-> IF i = 0 THEN Updated(s) ELSE ApplyReading(g[i - 1], readings[i], time)]

LEMMA FoldExists ==
  ASSUME NEW s, NEW readings, NEW time, NEW n \in Nat
  PROVE  \E g : Folds(g, n, s, readings, time)
<1> DEFINE S == {k \in Nat : \E g : Folds(g, k, s, readings, time)}
<1>1. 0 \in S
  <2> DEFINE g == [i \in 0 .. 0 |-> Updated(s)]
  <2>1. Folds(g, 0, s, readings, time)
    BY SMT DEF Folds
  <2> QED BY <2>1
<1>2. ASSUME NEW k \in Nat, k \in S
      PROVE  k + 1 \in S
  <2>1. PICK g : Folds(g, k, s, readings, time)
    BY <1>2
  <2> DEFINE final == ApplyReading(g[k], readings[k + 1], time)
             h == [i \in 0 .. k + 1 |-> IF i = k + 1 THEN final ELSE g[i]]
  <2>2. \A i \in 0 .. k + 1 :
          h[i] = IF i = 0 THEN Updated(s) ELSE ApplyReading(h[i - 1], readings[i], time)
    <3> SUFFICES ASSUME NEW i \in 0 .. k + 1
                 PROVE  h[i] = IF i = 0 THEN Updated(s)
                               ELSE ApplyReading(h[i - 1], readings[i], time)
      OBVIOUS
    <3>1. CASE i = 0
      <4>1. h[i] = g[0] /\ g[0] = Updated(s)
        BY <2>1, <3>1, SMT DEF Folds
      <4> QED BY <3>1, <4>1
    <3>2. CASE i = k + 1
      <4>1. h[i] = final /\ h[i - 1] = g[k] /\ i # 0
        BY <3>2, SMT
      <4> QED BY <3>2, <4>1
    <3>3. CASE i \in 1 .. k
      <4>1. h[i] = g[i] /\ h[i - 1] = g[i - 1] /\ i # 0
        BY <3>3, SMT
      <4>2. g[i] = ApplyReading(g[i - 1], readings[i], time)
        BY <2>1, <3>3, SMT DEF Folds
      <4> QED BY <4>1, <4>2
    <3> QED BY <3>1, <3>2, <3>3
  <2>3. Folds(h, k + 1, s, readings, time)
    <3>1. h = [i \in 0 .. k + 1 |-> h[i]]
      BY Zenon
    <3> HIDE DEF h
    <3> QED BY <2>2, <3>1, Zenon DEF Folds
  <2>4. \E f : Folds(f, k + 1, s, readings, time)
    <3> HIDE DEF h
    <3> QED BY <2>3, Zenon
  <2> QED BY <2>4
<1>3. Nat \subseteq S
  <2> HIDE DEF S
  <2> QED BY <1>1, <1>2, Induction
<1> QED BY <1>3

(* The reading after which the gauge is sampled, if one is: a message samples it once. *)
Samples(f, i) == f[i].state.hopperAt # f[i - 1].state.hopperAt
Sampling(s, f, n, time) ==
  \/ /\ f[n].state.hopperAt = s.hopperAt /\ f[n].state.hopper = s.hopper
     /\ \A i \in 1 .. n : ~Samples(f, i)
  \/ /\ f[n].state.hopperAt = time /\ s.hopperAt # time
     /\ Due(s.hopperAt, time, DispenseDedupe)
     /\ \E j \in 1 .. n :
          /\ \A i \in 1 .. n : Samples(f, i) <=> i = j
          /\ f[n].state.hopper = Observe(s.hopper, f[j].state.fill, HopperGauge)

VisitCloses(s, readings, time) ==
  \E i \in 1 .. Len(readings) :
    readings[i].register = "duration" /\ BeamSeenRecently(s, time, readings[i].value)

(* What the readings of a message do together. *)
Told(s, f, n, readings, time) ==
  /\ IsUpdate(f[n])
  /\ \A g \in Bedding : f[n].state[g] = s[g]
  /\ f[n].state.stale => s.stale
  /\ f[n].state.beamAt \in {s.beamAt, None}
  /\ Closed(f[n].state.sightings) => Closed(s.sightings) \/ VisitCloses(s, readings, time)
  /\ Written(f[n], s.hopper, f[n].state.hopper)
  /\ Sampling(s, f, n, time)

LEMMA NextTold ==
  ASSUME NEW s, NEW readings, NEW time, NEW f, NEW k \in Nat,
         k + 1 \in 1 .. Len(readings), Told(s, f, k, readings, time),
         Reads(f[k], f[k + 1], time,
               /\ readings[k + 1].register = "duration"
               /\ BeamSeenRecently(f[k].state, time, readings[k + 1].value))
  PROVE  Told(s, f, k + 1, readings, time)
<1> DEFINE u == f[k]
           v == f[k + 1]
           r == readings[k + 1]
           closes == r.register = "duration" /\ BeamSeenRecently(u.state, time, r.value)
<1>1. Reads(u, v, time, closes)
  OBVIOUS
<1>2. closes => VisitCloses(s, readings, time)
  <2> SUFFICES ASSUME closes PROVE VisitCloses(s, readings, time)
    OBVIOUS
  <2>1. u.state.beamAt \in {s.beamAt, None}
    BY DEF Told
  <2>2. BeamSeenRecently(s, time, r.value)
    BY <2>1 DEF BeamSeenRecently
  <2> QED BY <2>2 DEF VisitCloses
<1>3. (k + 1) - 1 = k /\ \A i \in 1 .. k + 1 : i \in 1 .. k \/ i = k + 1
  OBVIOUS
<1>4. Samples(f, k + 1) <=> v.state.hopperAt # u.state.hopperAt
  BY <1>3 DEF Samples
<1>5. Sampling(s, f, k + 1, time)
  <2>0. Gauged(u, v, time) /\ Sampling(s, f, k, time)
    BY <1>1 DEF Reads, Told
  <2>1. CASE v.state.hopperAt = u.state.hopperAt /\ v.state.hopper = u.state.hopper
    <3>1. CASE /\ u.state.hopperAt = s.hopperAt /\ u.state.hopper = s.hopper
               /\ \A i \in 1 .. k : ~Samples(f, i)
      <4>1. \A i \in 1 .. k + 1 : ~Samples(f, i)
        BY <1>3, <1>4, <2>1, <3>1
      <4> QED BY <2>1, <3>1, <4>1 DEF Sampling
    <3>2. ASSUME u.state.hopperAt = time, s.hopperAt # time,
                 Due(s.hopperAt, time, DispenseDedupe), NEW j \in 1 .. k,
                 \A i \in 1 .. k : Samples(f, i) <=> i = j,
                 u.state.hopper = Observe(s.hopper, f[j].state.fill, HopperGauge)
          PROVE  Sampling(s, f, k + 1, time)
      <4>1. j \in 1 .. k + 1 /\ j # k + 1
        OBVIOUS
      <4>2. \A i \in 1 .. k + 1 : Samples(f, i) <=> i = j
        BY <1>3, <1>4, <2>1, <3>2, <4>1
      <4> QED BY <2>1, <3>2, <4>1, <4>2 DEF Sampling
    <3> QED BY <2>0, <3>1, <3>2 DEF Sampling
  <2>2. CASE /\ v.state.hopperAt = time /\ u.state.hopperAt # time
             /\ Due(u.state.hopperAt, time, DispenseDedupe)
             /\ v.state.hopper = Observe(u.state.hopper, v.state.fill, HopperGauge)
    <3>1. /\ u.state.hopper = s.hopper /\ s.hopperAt # time
          /\ Due(s.hopperAt, time, DispenseDedupe)
          /\ \A i \in 1 .. k : ~Samples(f, i)
      BY <2>0, <2>2 DEF Sampling
    <3>2. \A i \in 1 .. k + 1 : Samples(f, i) <=> i = k + 1
      <4>1. Samples(f, k + 1) /\ k + 1 \notin 1 .. k
        BY <1>4, <2>2
      <4> QED BY <1>3, <3>1, <4>1
    <3>3. k + 1 \in 1 .. k + 1
      OBVIOUS
    <3> QED BY <2>2, <3>1, <3>2, <3>3 DEF Sampling
  <2> QED BY <2>0, <2>1, <2>2 DEF Gauged
<1>6. Written(v, s.hopper, v.state.hopper)
  <2>1. Gauged(u, v, time) /\ u.effects \subseteq v.effects
    BY <1>1 DEF Reads
  <2> HIDE DEF u, v
  <2>2. Written(u, s.hopper, u.state.hopper)
    BY DEF Told, u
  <2> QED BY <2>1, <2>2 DEF Gauged, Written
<1> HIDE DEF u, v, closes
<1>7. /\ IsUpdate(u) /\ (\A g \in Bedding : u.state[g] = s[g])
      /\ u.state.stale => s.stale
      /\ u.state.beamAt \in {s.beamAt, None}
      /\ Closed(u.state.sightings) => Closed(s.sightings) \/ VisitCloses(s, readings, time)
  BY DEF Told, u
<1>8. /\ IsUpdate(v) /\ (\A g \in Bedding : v.state[g] = s[g])
      /\ v.state.stale => s.stale
      /\ v.state.beamAt \in {s.beamAt, None}
      /\ Closed(v.state.sightings) => Closed(s.sightings) \/ VisitCloses(s, readings, time)
  BY <1>1, <1>2, <1>7 DEF Reads
<1> QED BY <1>5, <1>6, <1>8 DEF Told, v

(* However many readings a message brings, and in whatever order. *)
LEMMA ActivityMoves ==
  ASSUME NEW s, IsState(s), NEW readings, Len(readings) \in Nat, NEW time \in Int
  PROVE  /\ Told(s, Progress(s, readings, time), Len(readings), readings, time)
         /\ ApplyActivity(s, readings, time) = Progress(s, readings, time)[Len(readings)]
<1> DEFINE n == Len(readings)
           f == CHOOSE g : Folds(g, n, s, readings, time)
           S == {k \in Nat : k <= n => Told(s, f, k, readings, time)}
<1>1. f = [i \in 0 .. n |-> IF i = 0 THEN Updated(s) ELSE ApplyReading(f[i - 1], readings[i], time)]
  <2>1. Folds(f, n, s, readings, time)
    BY FoldExists, Zenon
  <2> QED BY <2>1, Zenon DEF Folds
<1>2. Progress(s, readings, time) = f
  BY Zenon DEF Progress, Folds
<1> HIDE DEF f
<1>3. 0 \in S
  <2>1. f[0] = Updated(s)
    BY <1>1, SMT
  <2>2. f[0].state = s /\ {"state", "effects"} \subseteq DOMAIN f[0]
    BY <2>1 DEF Updated
  <2>3. \A i \in 1 .. 0 : FALSE
    OBVIOUS
  <2>4. Told(s, f, 0, readings, time)
    BY <2>2, <2>3 DEF Told, Sampling, Written, IsUpdate
  <2> QED BY <2>4
<1>4. ASSUME NEW k \in Nat, k \in S
      PROVE  k + 1 \in S
  <2> SUFFICES ASSUME k + 1 <= n PROVE Told(s, f, k + 1, readings, time)
    BY <1>4
  <2>1. Told(s, f, k, readings, time) /\ k + 1 \in 1 .. n
    BY <1>4, SMT
  <2>2. f[k + 1] = ApplyReading(f[k], readings[k + 1], time)
    BY <1>1, <2>1, SMT
  <2>3. Reads(f[k], f[k + 1], time,
              /\ readings[k + 1].register = "duration"
              /\ BeamSeenRecently(f[k].state, time, readings[k + 1].value))
    BY <2>1, <2>2, ReadingReads DEF Told
  <2> QED BY <2>1, <2>3, NextTold
<1>5. Nat \subseteq S
  <2> HIDE DEF S
  <2> QED BY <1>3, <1>4, Induction
<1> QED BY <1>2, <1>5 DEF ApplyActivity

-----------------------------------------------------------------------------
(* What outlives messages and rebuilds *)

TypesOK ==
  /\ now \in Nat /\ robot \in Robots
  /\ IsState(d)
  /\ {"seen", "learned", "fill", "stale", "snapshot"} \subseteq DOMAIN options
  /\ Capabilities \subseteq DOMAIN options.seen
  /\ options.stale \in BOOLEAN \cup {None}
  /\ options.snapshot # None => IsState(options.snapshot)
  /\ litter \in Seq(Int) /\ hopper \in Seq(Int)
  /\ beam \in Nat \cup {None} /\ (beam # None => beam <= now) /\ visited \in BOOLEAN

(* A rebuild finds the scales that were learned: every reading that moved one wrote both. *)
ScalesAreStored ==
  /\ Scales(d) = IF options.learned = None THEN Scales(NewState) ELSE options.learned
  /\ options.learned = None /\ options.snapshot # None =>
       options.snapshot.litter = NewLearned /\ options.snapshot.hopper = NewLearned
ScalesRest == LitterRests(d.litter, litter) /\ HopperRests(d.hopper, hopper)

(* The readings since the baseline that count towards a step are all a step fuller. *)
BedRests(s, h) ==
  /\ s.steps \in Int
  /\ s.baseline # None =>
       \E i \in 1 .. Len(h) :
         /\ h[i] = s.baseline /\ i + Magnitude(s.steps) <= Len(h)
         /\ \A j \in Len(h) - s.steps + 1 .. Len(h) : h[j] <= s.baseline - StepSize
BedIsWatched ==
  /\ BedRests(d, litter)
  /\ options.snapshot # None => options.snapshot.baseline = None /\ options.snapshot.steps = 0

Poured(h) ==
  \E i, k \in DOMAIN h :
    /\ i + StepSamples <= k
    /\ \A j \in k - StepSamples + 1 .. k : h[j] <= h[i] - StepSize
PoursAreKnown ==
  /\ d.stale = TRUE => Poured(litter)
  /\ options.stale # None /\ options.stale = TRUE => Poured(litter)
  /\ options.snapshot # None /\ options.snapshot.stale = TRUE => Poured(litter)

BeamKnown(s) == s.beamAt # None => s.beamAt \in Int /\ beam # None /\ s.beamAt <= beam
VisitsAreKnown ==
  /\ BeamKnown(d) /\ (Closed(d.sightings) => visited)
  /\ Closed(options.seen) => visited
  /\ options.snapshot # None =>
       BeamKnown(options.snapshot) /\ (Closed(options.snapshot.sightings) => visited)

TelemetryInv ==
  TypesOK /\ ScalesAreStored /\ ScalesRest /\ BedIsWatched /\ PoursAreKnown /\ VisitsAreKnown

-----------------------------------------------------------------------------
(* Levels, pours *)

LEMMA PouredStays ==
  ASSUME NEW h \in Seq(Int), NEW v \in Int, Poured(h)
  PROVE  Poured(Append(h, v))
<1> DEFINE m == Append(h, v)
<1>1. PICK i \in DOMAIN h, k \in DOMAIN h :
        /\ i + StepSamples <= k
        /\ \A j \in k - StepSamples + 1 .. k : h[j] <= h[i] - StepSize
  BY Zenon DEF Poured
<1>2. StepSamples \in Nat
  BY DerivedAssumption
<1>3. /\ DOMAIN h = 1 .. Len(h) /\ Len(h) \in Nat
      /\ \A j \in 1 .. Len(h) : m[j] = h[j] /\ j \in DOMAIN m
  BY Longer
<1>4. i \in DOMAIN m /\ k \in DOMAIN m /\ m[i] = h[i]
  BY <1>3
<1>5. \A j \in k - StepSamples + 1 .. k : j \in 1 .. Len(h)
  BY <1>1, <1>2, <1>3
<1>6. \A j \in k - StepSamples + 1 .. k : m[j] <= m[i] - StepSize
  BY <1>1, <1>3, <1>4, <1>5
<1> HIDE DEF m
<1>7. Poured(m)
  BY <1>1, <1>4, <1>6, Zenon DEF Poured
<1> QED BY <1>7 DEF m

LEMMA BedStillRests ==
  ASSUME NEW h \in Seq(Int), NEW mm \in Int, NEW s, NEW t, BedRests(s, h), TopsUp(s, t, mm)
  PROVE  BedRests(t, Append(h, mm)) /\ (t.stale = s.stale \/ Poured(Append(h, mm)))
<1> DEFINE m == Append(h, mm)
           n == Len(h) + 1
           direction == Direction(s, mm)
           held == Held(s.steps, direction)
<1>1. /\ DOMAIN m = 1 .. n /\ n \in Nat \ {0} /\ Len(m) = n /\ m[n] = mm /\ Len(h) = n - 1
      /\ \A j \in 1 .. n - 1 : m[j] = h[j] /\ h[j] \in Int
  BY Longer
<1>2. StepSamples \in Nat /\ StepSize \in Nat /\ s.steps \in Int
  BY DerivedAssumption DEF BedRests
<1> HIDE DEF m, n
<1>3. ASSUME t.baseline = mm, t.steps = 0
      PROVE  BedRests(t, m)
  <2>1. Magnitude(0) = 0
    BY DEF Magnitude
  <2>2. /\ n \in 1 .. Len(m) /\ n + Magnitude(t.steps) <= Len(m)
        /\ \A j \in Len(m) - 0 + 1 .. Len(m) : FALSE
    BY <1>1, <1>3, <2>1
  <2> QED BY <1>1, <1>3, <2>2 DEF BedRests
(* The readings that count, with this one among them. *)
<1>4. ASSUME Stepped(s, mm)
      PROVE  /\ held \in Int /\ s.baseline \in Int
             /\ \E i \in 1 .. n :
                  /\ m[i] = s.baseline /\ i + Magnitude(held) <= n
                  /\ \A j \in n - held + 1 .. n : m[j] <= s.baseline - StepSize
  <2>1. PICK i \in 1 .. n - 1 :
          /\ h[i] = s.baseline /\ i + Magnitude(s.steps) <= n - 1
          /\ \A j \in (n - 1) - s.steps + 1 .. n - 1 : h[j] <= s.baseline - StepSize
    BY <1>1, <1>4 DEF Stepped, BedRests
  <2>2. s.baseline \in Int /\ m[i] = s.baseline /\ i \in 1 .. n
    BY <1>1, <2>1
  <2>3. ~(Magnitude(mm - s.baseline) < StepSize)
    BY <1>4 DEF Stepped
  <2>4. CASE mm < s.baseline
    <3>1. direction = 1 /\ mm <= s.baseline - StepSize
      BY <1>2, <2>2, <2>3, <2>4 DEF Direction, Magnitude
    <3>2. CASE s.steps > 0
      <4>1. held = s.steps + 1
        BY <1>2, <3>1, <3>2 DEF Held
      <4>2. i + Magnitude(held) <= n
        BY <1>1, <1>2, <2>1, <3>2, <4>1 DEF Magnitude
      <4>3. \A j \in n - held + 1 .. n : m[j] <= s.baseline - StepSize
        <5> SUFFICES ASSUME NEW j \in n - held + 1 .. n PROVE m[j] <= s.baseline - StepSize
          OBVIOUS
        <5>1. CASE j = n
          BY <1>1, <3>1, <5>1
        <5>2. CASE j # n
          <6>1. Magnitude(s.steps) = s.steps
            BY <1>2, <3>2 DEF Magnitude
          <6>2. j \in (n - 1) - s.steps + 1 .. n - 1 /\ j \in 1 .. n - 1
            BY <1>1, <1>2, <2>1, <4>1, <5>2, <6>1
          <6> QED BY <1>1, <2>1, <6>2
        <5> QED BY <5>1, <5>2
      <4> QED BY <1>2, <2>2, <4>1, <4>2, <4>3
    <3>3. CASE ~(s.steps > 0)
      <4>1. held = 1 /\ Magnitude(held) = 1
        BY <1>2, <3>1, <3>3 DEF Held, Magnitude
      <4>2. i + Magnitude(held) <= n
        BY <1>1, <2>1, <4>1
      <4>3. \A j \in n - held + 1 .. n : m[j] <= s.baseline - StepSize
        BY <1>1, <3>1, <4>1
      <4> QED BY <2>2, <4>1, <4>2, <4>3
    <3> QED BY <3>2, <3>3
  <2>5. CASE ~(mm < s.baseline)
    <3>1. direction = -1
      BY <2>5 DEF Direction
    <3>2. held < 0 /\ held \in Int /\ Magnitude(held) <= Magnitude(s.steps) + 1
      BY <1>2, <3>1 DEF Held, Magnitude
    <3>3. i + Magnitude(held) <= n
      <4>1. Magnitude(s.steps) \in Int /\ Magnitude(held) \in Int
        BY <1>2, <3>2 DEF Magnitude
      <4> QED BY <1>1, <2>1, <3>2, <4>1
    <3>4. \A j \in n - held + 1 .. n : FALSE
      BY <1>1, <3>2
    <3> QED BY <2>2, <3>2, <3>3, <3>4
  <2> QED BY <2>4, <2>5
<1>5. CASE t.baseline = mm /\ t.steps = 0 /\ t.stale = s.stale
  BY <1>3, <1>5 DEF m
<1>6. CASE Stepped(s, mm) /\ t.baseline = s.baseline /\ t.steps = held /\ t.stale = s.stale
  <2>1. BedRests(t, m)
    <3> HIDE DEF held
    <3> QED BY <1>1, <1>4, <1>6 DEF BedRests
  <2> QED BY <1>6, <2>1 DEF m
<1>7. CASE /\ Stepped(s, mm) /\ ~(direction < 0) /\ ~(Magnitude(held) < StepSamples)
           /\ t.baseline = mm /\ t.steps = 0 /\ t.stale = TRUE
  <2>1. PICK i \in 1 .. n :
          /\ m[i] = s.baseline /\ i + Magnitude(held) <= n
          /\ \A j \in n - held + 1 .. n : m[j] <= s.baseline - StepSize
    BY <1>4, <1>7
  <2>2. held \in Int /\ held >= StepSamples /\ Magnitude(held) = held
    <3>1. direction = 1
      BY <1>7 DEF Direction
    <3> QED BY <1>2, <1>7, <3>1 DEF Held, Magnitude
  <2>3. \A j \in n - StepSamples + 1 .. n : m[j] <= m[i] - StepSize
    BY <1>1, <1>2, <2>1, <2>2
  <2>4. i + StepSamples <= n /\ i \in DOMAIN m /\ n \in DOMAIN m
    BY <1>1, <1>2, <2>1, <2>2
  <2>5. Poured(m)
    BY <2>3, <2>4, Zenon DEF Poured
  <2> QED BY <1>3, <1>7, <2>5 DEF m
<1> HIDE DEF held, direction
<1>8. \/ t.baseline = mm /\ t.steps = 0 /\ t.stale = s.stale
      \/ Stepped(s, mm) /\ t.baseline = s.baseline /\ t.steps = held /\ t.stale = s.stale
      \/ /\ Stepped(s, mm) /\ ~(direction < 0) /\ ~(Magnitude(held) < StepSamples)
         /\ t.baseline = mm /\ t.steps = 0 /\ t.stale = TRUE
  BY DEF TopsUp, held, direction
<1> QED BY <1>5, <1>6, <1>7, <1>8

-----------------------------------------------------------------------------
(* What is stored, and what is restored *)

LEMMA PersistedIsStored ==
  ASSUME NEW l, IsLearned(l)
  PROVE  Persisted(l) \in StoredScale /\ Persisted(Persisted(l)) = Persisted(l)
<1> DEFINE k == Persisted(l)
<1>1. /\ k = [f \in Fields |-> k[f]]
      /\ k.window = <<>> /\ k.rejects = <<>> /\ k.freshRegime = FALSE
  BY Except DEF Persisted, IsLearned, Fields
<1>2. IsLearned(k)
  BY PersistedIsLearned
<1>3. k = [low |-> k.low, high |-> k.high, lowCandidate |-> k.lowCandidate,
           highCandidate |-> k.highCandidate, lowHits |-> k.lowHits, runValue |-> k.runValue,
           runLength |-> k.runLength, runFell |-> k.runFell, window |-> k.window,
           rejects |-> k.rejects, freshRegime |-> k.freshRegime]
  <2> HIDE DEF k
  <2> QED BY <1>1 DEF Fields
<1>4. Persisted(k) = k
  <2> HIDE DEF k
  <2>1. /\ Persisted(k) = [f \in Fields |-> Persisted(k)[f]]
        /\ \A f \in Fields : Persisted(k)[f] = k[f]
    BY <1>1, Except DEF Persisted, Fields
  <2> QED BY <1>1, <2>1
<1> HIDE DEF k
<1>5. k \in StoredScale
  BY <1>1, <1>2, <1>3 DEF StoredScale, IsLearned, Level
<1> QED BY <1>4, <1>5 DEF k

(* The effects of an update, in the options. *)
LEMMA StoreEffectsStores ==
  ASSUME NEW o, {"seen", "learned", "fill", "stale", "snapshot"} \subseteq DOMAIN o, NEW u
  PROVE  LET p == StoreEffects(o, u) IN
         /\ DOMAIN p = DOMAIN o
         /\ p.stale = (IF <<"stale">> \in u.effects THEN u.state.stale ELSE o.stale)
         /\ p.learned = (IF <<"learned">> \in u.effects THEN Scales(u.state) ELSE o.learned)
         /\ p.seen = [c \in Capabilities |-> IF c \in Proved(u) THEN u.state.sightings[c]
                                             ELSE o.seen[c]]
         /\ p.snapshot = (IF Proved(u) = {} THEN o.snapshot ELSE Snapshot(u.state))
BY Zenon DEF StoreEffects

LEMMA SnapshotKeeps ==
  ASSUME NEW s, IsState(s)
  PROVE  LET t == Snapshot(s) IN
         /\ IsState(t) /\ t.stale = s.stale /\ t.beamAt = s.beamAt /\ t.sightings = s.sightings
         /\ t.baseline = None /\ t.steps = 0
         /\ t.litter = Persisted(s.litter) /\ t.hopper = Persisted(s.hopper)
<1> DEFINE t == Snapshot(s)
<1>1. /\ DOMAIN t = DOMAIN s
      /\ t.stale = s.stale /\ t.beamAt = s.beamAt /\ t.sightings = s.sightings
      /\ t.baseline = None /\ t.steps = 0
      /\ t.litter = Persisted(s.litter) /\ t.hopper = Persisted(s.hopper)
  BY Zenon DEF Snapshot, IsState, Kept
<1> HIDE DEF t
<1>2. IsState(t)
  BY <1>1 DEF IsState, Kept
<1> QED BY <1>1, <1>2 DEF t

LEMMA NewStateIsState ==
  /\ IsState(NewState) /\ NewState.stale = FALSE /\ NewState.beamAt = None
  /\ NewState.baseline = None /\ NewState.steps = 0
  /\ NewState.litter = NewLearned /\ NewState.hopper = NewLearned
  /\ ~Closed(NewState.sightings)
<1>1. \A c \in Capabilities : NewState.sightings[c] = None
  BY DEF NewState
<1>2. "visit_duration" \in Capabilities /\ "cat_visit" \in Capabilities
  BY DEF Capabilities
<1>3. None # "visit_duration"
  BY TelemetryAssumption
<1>4. ~Closed(NewState.sightings)
  BY <1>1, <1>2, <1>3 DEF Closed
<1>5. IsState(NewState)
  BY DEF NewState, IsState, Kept
<1> QED BY <1>4, <1>5 DEF NewState

(* What the next coordinator is built from: a snapshot, or nothing. *)
Source(o) == IF o.snapshot = None THEN NewState ELSE o.snapshot

LEMMA RestoredKeeps ==
  ASSUME NEW o, NEW cache, IsState(Source(o)), o.stale \in BOOLEAN \cup {None},
         Capabilities \subseteq DOMAIN o.seen
  PROVE  LET s == Source(o)
             t == RestoreDerived(o, cache) IN
         /\ IsState(t) /\ t.beamAt = s.beamAt /\ t.baseline = s.baseline /\ t.steps = s.steps
         /\ t.stale = (IF o.stale = None THEN s.stale ELSE o.stale)
         /\ t.litter = (IF o.learned = None THEN s.litter ELSE o.learned.litter)
         /\ t.hopper = (IF o.learned = None THEN s.hopper ELSE o.learned.hopper)
         /\ Closed(t.sightings) => Closed(o.seen) \/ Closed(s.sightings)
<1> DEFINE s == Source(o)
           t == RestoreDerived(o, cache)
<1>1. t = [s EXCEPT !.fill = IF o.fill = None THEN @ ELSE o.fill,
                    !.stale = IF o.stale = None THEN @ ELSE o.stale,
                    !.litter = IF o.learned = None THEN @ ELSE o.learned.litter,
                    !.hopper = IF o.learned = None THEN @ ELSE o.learned.hopper,
                    !.sightings = Evidence(o, s),
                    !.excessRestored = cache.excess, !.faultRestored = cache.fault]
  BY Zenon DEF RestoreDerived, Source
<1> HIDE DEF s, t
<1>0. IsState(s)
  BY DEF s
<1>2. /\ DOMAIN t = DOMAIN s
      /\ t.beamAt = s.beamAt /\ t.baseline = s.baseline /\ t.steps = s.steps
      /\ t.stale = (IF o.stale = None THEN s.stale ELSE o.stale)
      /\ t.litter = (IF o.learned = None THEN s.litter ELSE o.learned.litter)
      /\ t.hopper = (IF o.learned = None THEN s.hopper ELSE o.learned.hopper)
      /\ t.sightings = Evidence(o, s)
  BY <1>0, <1>1, Zenon DEF IsState, Kept
<1>3. DOMAIN t.sightings = Capabilities
  BY <1>2 DEF Evidence
<1>4. t.stale \in BOOLEAN
  BY <1>0, <1>2 DEF IsState
<1>5. IsState(t)
  BY <1>0, <1>2, <1>3, <1>4 DEF IsState
<1>6. ASSUME Closed(t.sightings)
      PROVE  Closed(o.seen) \/ Closed(s.sightings)
  <2>1. "visit_duration" \in Capabilities /\ "cat_visit" \in Capabilities
    BY DEF Capabilities
  <2>2. None # "visit_duration"
    BY TelemetryAssumption
  <2>3. \A c \in Capabilities : t.sightings[c] =
          CASE o.seen[c] = None -> None
            [] o.seen[c] # None /\ s.sightings[c] = None -> "legacy"
            [] OTHER -> s.sightings[c]
    BY <1>2 DEF Evidence
  <2>4. CASE t.sightings["visit_duration"] # None
    BY <2>1, <2>3, <2>4 DEF Closed
  <2>5. CASE t.sightings["cat_visit"] = "visit_duration"
    BY <2>1, <2>2, <2>3, <2>5 DEF Closed
  <2> QED BY <1>6, <2>4, <2>5 DEF Closed
<1> QED BY <1>2, <1>5, <1>6 DEF s, t

(* A write keeps the options what they are, whatever the update. *)
LEMMA StoredTypes ==
  ASSUME TypesOK, NEW u, IsUpdate(u), options' = StoreEffects(options, u)
  PROVE  /\ {"seen", "learned", "fill", "stale", "snapshot"} \subseteq DOMAIN options'
         /\ Capabilities \subseteq DOMAIN options'.seen
         /\ options'.stale \in BOOLEAN \cup {None}
         /\ options'.snapshot # None => IsState(options'.snapshot)
<1>1. {"seen", "learned", "fill", "stale", "snapshot"} \subseteq DOMAIN options
  BY DEF TypesOK
<1>2. /\ DOMAIN options' = DOMAIN options
      /\ options'.stale = (IF <<"stale">> \in u.effects THEN u.state.stale ELSE options.stale)
      /\ options'.seen = [c \in Capabilities |-> IF c \in Proved(u) THEN u.state.sightings[c]
                                                 ELSE options.seen[c]]
      /\ options'.snapshot = (IF Proved(u) = {} THEN options.snapshot ELSE Snapshot(u.state))
  BY <1>1, StoreEffectsStores
<1>3. IsState(u.state) /\ IsState(Snapshot(u.state))
  BY SnapshotKeeps DEF IsUpdate
<1>4. options'.stale \in BOOLEAN \cup {None}
  BY <1>2, <1>3 DEF TypesOK, IsState
<1> QED BY <1>1, <1>2, <1>3, <1>4 DEF TypesOK

LEMMA NewIsPersisted == Persisted(NewLearned) = NewLearned
<1>1. /\ NewLearned = [f \in Fields |-> NewLearned[f]]
      /\ NewLearned.window = <<>> /\ NewLearned.rejects = <<>> /\ NewLearned.freshRegime = FALSE
  BY DEF NewLearned, Fields
<1>2. /\ Persisted(NewLearned) = [f \in Fields |-> Persisted(NewLearned)[f]]
      /\ \A f \in Fields : Persisted(NewLearned)[f] = NewLearned[f]
  BY <1>1, Except DEF Persisted, Fields
<1> QED BY <1>1, <1>2

(* A write brings the stored scales up to those of the state, if they moved. *)
LEMMA ScalesStayStored ==
  ASSUME TypesOK, ScalesAreStored, NEW u, IsUpdate(u),
         d' = u.state, options' = StoreEffects(options, u),
         IsLearned(u.state.litter), IsLearned(u.state.hopper),
         <<"learned">> \in u.effects \/ Scales(u.state) = Scales(d)
  PROVE  ScalesAreStored'
<1>1. {"seen", "learned", "fill", "stale", "snapshot"} \subseteq DOMAIN options
  BY DEF TypesOK
<1>2. /\ options'.learned =
           (IF <<"learned">> \in u.effects THEN Scales(u.state) ELSE options.learned)
      /\ options'.snapshot = (IF Proved(u) = {} THEN options.snapshot ELSE Snapshot(u.state))
  BY <1>1, StoreEffectsStores
<1>3. Scales(u.state) # None
  <2>1. Scales(u.state) \in [litter : StoredScale, hopper : StoredScale]
    BY PersistedIsStored DEF Scales
  <2> QED BY <2>1, TelemetryAssumption
<1>4. Scales(u.state) = Scales(NewState) =>
        Snapshot(u.state).litter = NewLearned /\ Snapshot(u.state).hopper = NewLearned
  <2>1. /\ Snapshot(u.state).litter = Persisted(u.state.litter)
        /\ Snapshot(u.state).hopper = Persisted(u.state.hopper)
    BY SnapshotKeeps DEF IsUpdate
  <2>2. NewState.litter = NewLearned /\ NewState.hopper = NewLearned
    BY NewStateIsState
  <2> QED BY <2>1, <2>2, NewIsPersisted DEF Scales
<1>5. Scales(d') = IF options'.learned = None THEN Scales(NewState) ELSE options'.learned
  BY <1>2, <1>3 DEF ScalesAreStored
<1>6. ASSUME options'.learned = None, options'.snapshot # None
      PROVE  options'.snapshot.litter = NewLearned /\ options'.snapshot.hopper = NewLearned
  <2>1. <<"learned">> \notin u.effects /\ options.learned = None
    BY <1>2, <1>3, <1>6
  <2>2. Scales(u.state) = Scales(NewState)
    BY <1>5, <1>6
  <2> QED BY <1>2, <1>4, <1>6, <2>1, <2>2 DEF ScalesAreStored
<1>7. Scales(NewState)' = Scales(NewState)
  BY DEF Scales, NewState
<1> QED BY <1>5, <1>6, <1>7 DEF ScalesAreStored

(* A write copies the state's, or keeps the options' own, and so does a snapshot. *)
LEMMA WritesCopy ==
  ASSUME TypesOK, NEW u, IsUpdate(u), options' = StoreEffects(options, u)
  PROVE  /\ options'.stale \in {u.state.stale, options.stale}
         /\ Closed(options'.seen) => Closed(u.state.sightings) \/ Closed(options.seen)
         /\ \/ options'.snapshot = options.snapshot
            \/ /\ options'.snapshot.stale = u.state.stale
               /\ options'.snapshot.beamAt = u.state.beamAt
               /\ options'.snapshot.sightings = u.state.sightings
               /\ options'.snapshot.baseline = None /\ options'.snapshot.steps = 0
<1>1. {"seen", "learned", "fill", "stale", "snapshot"} \subseteq DOMAIN options
  BY DEF TypesOK
<1>2. /\ options'.stale = (IF <<"stale">> \in u.effects THEN u.state.stale ELSE options.stale)
      /\ options'.seen = [c \in Capabilities |-> IF c \in Proved(u) THEN u.state.sightings[c]
                                                 ELSE options.seen[c]]
      /\ options'.snapshot = (IF Proved(u) = {} THEN options.snapshot ELSE Snapshot(u.state))
  BY <1>1, StoreEffectsStores
<1>3. "visit_duration" \in Capabilities /\ "cat_visit" \in Capabilities
  BY DEF Capabilities
<1>4. Closed(options'.seen) => Closed(u.state.sightings) \/ Closed(options.seen)
  BY <1>2, <1>3 DEF Closed
<1>5. options'.stale \in {u.state.stale, options.stale}
  BY <1>2
<1>6. /\ Snapshot(u.state).stale = u.state.stale /\ Snapshot(u.state).beamAt = u.state.beamAt
      /\ Snapshot(u.state).sightings = u.state.sightings
      /\ Snapshot(u.state).baseline = None /\ Snapshot(u.state).steps = 0
  BY SnapshotKeeps DEF IsUpdate
<1> QED BY <1>2, <1>4, <1>5, <1>6

LEMMA RestIsLearned ==
  ASSUME NEW l, NEW h
  PROVE  (LitterRests(l, h) => IsLearned(l)) /\ (HopperRests(l, h) => IsLearned(l))
BY DEF LitterRests, LitterScale, HopperRests, HopperScale

(* A document samples the litter, or leaves what was learned of it alone. *)
LEMMA DocumentKeeps ==
  ASSUME TelemetryInv, NEW doc \in robot.documents, HearDocument(doc)
  PROVE  TelemetryInv'
<1> DEFINE u == ApplyState(d, doc, now)
           sampled == u.state.litterAt # d.litterAt /\ Sampleable(doc)
           taken == sampled /\ doc.level \in LitterLevel.plausible
<1>0. TypesOK /\ ScalesAreStored /\ ScalesRest /\ BedIsWatched /\ PoursAreKnown /\ VisitsAreKnown
  BY DEF TelemetryInv
<1>1. /\ d' = u.state /\ options' = StoreEffects(options, u)
      /\ litter' = (IF taken THEN Append(litter, doc.level) ELSE litter)
      /\ beam' = IF doc.beam = TRUE THEN now ELSE beam
      /\ UNCHANGED <<now, robot, hopper, visited>>
  BY Zenon DEF HearDocument
<1>2. now \in Nat /\ IsState(d) /\ litter \in Seq(Int)
  BY <1>0 DEF TypesOK
<1>3. /\ IsUpdate(u)
      /\ u.state.hopper = d.hopper
      /\ u.state.beamAt = IF doc.beam = TRUE THEN now ELSE d.beamAt
      /\ Closed(u.state.sightings) => Closed(d.sightings)
      /\ LitterLearned(d, u, doc)
  <2>1. now \in Int
    BY <1>2
  <2> QED BY <1>2, <2>1, DocumentMoves, Zenon
<1> HIDE DEF u
<1>4. \/ taken /\ Sampled(d, u, doc.level)
      \/ ~taken /\ \A f \in Levels : u.state[f] = d[f]
  <2>1. IF taken THEN Sampled(d, u, doc.level) ELSE \A f \in Levels : u.state[f] = d[f]
    BY <1>3, Zenon DEF LitterLearned
  <2> HIDE DEF taken
  <2> QED BY <2>1
<1>5. taken => doc.level \in Int
  BY DEF LitterLevel
<1> HIDE DEF taken, sampled
<1>6. litter' \in Seq(Int)
  <2>1. taken => Append(litter, doc.level) \in Seq(Int)
    BY <1>2, <1>5, Longer
  <2> QED BY <1>1, <1>2, <2>1
<1>7. LitterRests(u.state.litter, litter')
  <2>1. CASE taken /\ Sampled(d, u, doc.level)
    BY <1>0, <1>1, <1>2, <1>5, <2>1, LitterStillRests DEF Sampled, ScalesRest
  <2>2. CASE ~taken /\ \A f \in Levels : u.state[f] = d[f]
    BY <1>0, <1>1, <2>2 DEF ScalesRest, Levels
  <2> QED BY <1>4, <2>1, <2>2
<1>8. ScalesRest'
  BY <1>0, <1>1, <1>3, <1>7 DEF ScalesRest
<1>9. TypesOK'
  <2>1. /\ {"seen", "learned", "fill", "stale", "snapshot"} \subseteq DOMAIN options'
        /\ Capabilities \subseteq DOMAIN options'.seen
        /\ options'.stale \in BOOLEAN \cup {None}
        /\ options'.snapshot # None => IsState(options'.snapshot)
    BY <1>0, <1>1, <1>3, StoredTypes
  <2>2. /\ IsState(d') /\ beam' \in Nat \cup {None}
        /\ (beam' # None => beam' <= now')
    BY <1>0, <1>1, <1>2, <1>3 DEF IsUpdate, TypesOK
  <2> QED BY <1>0, <1>1, <1>6, <2>1, <2>2 DEF TypesOK
<1>10. ScalesAreStored'
  <2>1. IsLearned(u.state.litter) /\ IsLearned(u.state.hopper)
    BY <1>0, <1>3, <1>7, RestIsLearned DEF ScalesRest
  <2>2. <<"learned">> \in u.effects \/ Persisted(u.state.litter) = Persisted(d.litter)
    BY <1>4 DEF Sampled, Written, Levels
  <2>3. <<"learned">> \in u.effects \/ Scales(u.state) = Scales(d)
    BY <1>3, <2>2 DEF Scales
  <2> QED BY <1>0, <1>1, <1>3, <2>1, <2>3, ScalesStayStored
<1>11. /\ BedRests(u.state, litter')
       /\ u.state.stale = d.stale \/ Poured(litter')
  <2>1. CASE taken /\ Sampled(d, u, doc.level)
    BY <1>0, <1>1, <1>2, <1>5, <2>1, BedStillRests DEF Sampled, BedIsWatched
  <2>2. CASE ~taken /\ \A f \in Levels : u.state[f] = d[f]
    BY <1>0, <1>1, <2>2 DEF BedIsWatched, BedRests, Levels
  <2> QED BY <1>4, <2>1, <2>2
<1>12. /\ options'.stale \in {u.state.stale, options.stale}
       /\ Closed(options'.seen) => Closed(u.state.sightings) \/ Closed(options.seen)
       /\ \/ options'.snapshot = options.snapshot
          \/ /\ options'.snapshot.stale = u.state.stale
             /\ options'.snapshot.beamAt = u.state.beamAt
             /\ options'.snapshot.sightings = u.state.sightings
             /\ options'.snapshot.baseline = None /\ options'.snapshot.steps = 0
  BY <1>0, <1>1, <1>3, WritesCopy
<1>13. BedIsWatched'
  BY <1>0, <1>1, <1>11, <1>12 DEF BedIsWatched
<1>14. PoursAreKnown'
  <2>1. Poured(litter) => Poured(litter')
    BY <1>1, <1>2, <1>5, PouredStays
  <2> QED BY <1>0, <1>1, <1>11, <1>12, <2>1 DEF PoursAreKnown
<1>15. VisitsAreKnown'
  <2>1. beam \in Nat \cup {None} /\ (beam # None => beam <= now) /\ None \notin Nat
    BY <1>0, NoneAssumption DEF TypesOK
  <2>2. \A s : BeamKnown(s) => (s.beamAt # None =>
                 s.beamAt \in Int /\ beam' # None /\ s.beamAt <= beam')
    BY <1>1, <1>2, <2>1 DEF BeamKnown
  <2>3. BeamKnown(d)'
    BY <1>0, <1>1, <1>2, <1>3, <2>1 DEF VisitsAreKnown, BeamKnown
  <2>4. options'.snapshot # None => BeamKnown(options.snapshot)'
    BY <1>0, <1>1, <1>12, <2>2, <2>3 DEF VisitsAreKnown, BeamKnown
  <2>5. Closed(options'.seen) \/ Closed(d'.sightings) => visited'
    BY <1>0, <1>1, <1>3, <1>12 DEF VisitsAreKnown
  <2>6. options'.snapshot # None => (Closed(options'.snapshot.sightings) => visited')
    BY <1>0, <1>1, <1>12, <2>5 DEF VisitsAreKnown
  <2> QED BY <2>3, <2>4, <2>5, <2>6 DEF VisitsAreKnown
<1> QED BY <1>8, <1>9, <1>10, <1>13, <1>14, <1>15 DEF TelemetryInv


LEMMA Elements ==
  ASSUME NEW S, NEW q \in Seq(S)
  PROVE  Len(q) \in Nat /\ DOMAIN q = 1 .. Len(q) /\ \A i \in 1 .. Len(q) : q[i] \in S
OBVIOUS

(* A message samples the gauge once at most, and closes visits that a body made. *)
LEMMA ActivityKeeps ==
  ASSUME TelemetryInv, NEW readings \in robot.activities, HearActivity(readings)
  PROVE  TelemetryInv'
<1> DEFINE told == Progress(d, readings, now)
           n == Len(readings)
           u == ApplyActivity(d, readings, now)
           sampled == {i \in DOMAIN readings : told[i].state.hopperAt # told[i - 1].state.hopperAt}
           gauges == {told[i].state.fill : i \in sampled} \cap HopperGauge.plausible
           closes == \E i \in DOMAIN readings :
                       /\ readings[i].register = "duration" /\ beam # None
                       /\ now - beam <= CloseGrace + readings[i].value
<1>0. TypesOK /\ ScalesAreStored /\ ScalesRest /\ BedIsWatched /\ PoursAreKnown /\ VisitsAreKnown
  BY DEF TelemetryInv
<1>1. /\ d' = u.state /\ options' = StoreEffects(options, u)
      /\ hopper' = (IF gauges = {} THEN hopper ELSE Append(hopper, CHOOSE g \in gauges : TRUE))
      /\ visited' = (visited \/ closes)
      /\ UNCHANGED <<now, robot, litter, beam>>
  BY Zenon DEF HearActivity
<1>2. now \in Int /\ now \in Nat /\ IsState(d) /\ hopper \in Seq(Int) /\ visited \in BOOLEAN
  BY <1>0 DEF TypesOK
<1>3. /\ n \in Nat /\ DOMAIN readings = 1 .. n
      /\ \A i \in 1 .. n : readings[i].value \in Nat
  <2>1. readings \in Seq([register : STRING, value : Nat])
    BY <1>0, TelemetryAssumption DEF TypesOK
  <2>2. \A i \in 1 .. n : readings[i] \in [register : STRING, value : Nat]
    BY <2>1, Elements, Zenon
  <2>3. \A i \in 1 .. n : readings[i].value \in Nat
    BY <2>2
  <2> QED BY <2>1, <2>3, Elements, Zenon
<1>4. Told(d, told, n, readings, now) /\ u = told[n]
  BY <1>2, <1>3, ActivityMoves, Zenon
<1> HIDE DEF u, told
<1>5. /\ IsUpdate(u)
      /\ \A g \in Bedding : u.state[g] = d[g]
      /\ u.state.stale => d.stale
      /\ u.state.beamAt \in {d.beamAt, None}
      /\ Closed(u.state.sightings) => Closed(d.sightings) \/ VisitCloses(d, readings, now)
      /\ Written(u, d.hopper, u.state.hopper)
      /\ Sampling(d, told, n, now)
  BY <1>4, Zenon DEF Told
<1>6. hopper' \in Seq(Int) /\ HopperRests(u.state.hopper, hopper')
  <2>0. HopperRests(d.hopper, hopper)
    BY <1>0 DEF ScalesRest
  <2>1. CASE told[n].state.hopper = d.hopper /\ \A i \in 1 .. n : ~Samples(told, i)
    <3>1. gauges = {}
      BY <1>3, <2>1 DEF Samples
    <3> QED BY <1>1, <1>2, <1>4, <2>0, <2>1, <3>1
  <2>2. ASSUME NEW j \in 1 .. n, \A i \in 1 .. n : Samples(told, i) <=> i = j,
               told[n].state.hopper = Observe(d.hopper, told[j].state.fill, HopperGauge)
        PROVE  hopper' \in Seq(Int) /\ HopperRests(u.state.hopper, hopper')
    <3> DEFINE v == told[j].state.fill
    <3>1. sampled = {j}
      BY <1>3, <2>2 DEF Samples
    <3>2. gauges = {v} \cap HopperGauge.plausible
      BY <3>1
    <3> HIDE DEF sampled, gauges, v
    <3>3. CASE v \in HopperGauge.plausible
      <4>1. gauges = {v}
        BY <3>2, <3>3
      <4>2. hopper' = Append(hopper, v)
        BY <1>1, <4>1
      <4>3. v \in Int
        BY <3>3 DEF HopperGauge
      <4>4. HopperRests(Observe(d.hopper, v, HopperGauge), Append(hopper, v))
        BY <1>2, <2>0, <3>3, HopperStillRests
      <4>5. Append(hopper, v) \in Seq(Int)
        BY <1>2, <4>3, Longer
      <4>6. u.state.hopper = Observe(d.hopper, v, HopperGauge)
        BY <1>4, <2>2 DEF v
      <4> QED BY <4>2, <4>4, <4>5, <4>6
    <3>4. CASE v \notin HopperGauge.plausible
      <4>1. hopper' = hopper
        BY <1>1, <3>2, <3>4
      <4>2. Observe(d.hopper, v, HopperGauge) = d.hopper
        BY <3>4, HopperMoves
      <4>3. u.state.hopper = d.hopper
        BY <1>4, <2>2, <4>2 DEF v
      <4> QED BY <1>2, <2>0, <4>1, <4>3
    <3> QED BY <3>3, <3>4
  <2> QED BY <1>5, <2>1, <2>2 DEF Sampling
<1> HIDE DEF gauges, sampled
<1>7. /\ u.state.litter = d.litter /\ u.state.baseline = d.baseline /\ u.state.steps = d.steps
  BY <1>5 DEF Bedding
<1>8. ScalesRest'
  BY <1>0, <1>1, <1>6, <1>7 DEF ScalesRest
<1>9. TypesOK'
  <2>1. /\ {"seen", "learned", "fill", "stale", "snapshot"} \subseteq DOMAIN options'
        /\ Capabilities \subseteq DOMAIN options'.seen
        /\ options'.stale \in BOOLEAN \cup {None}
        /\ options'.snapshot # None => IsState(options'.snapshot)
    BY <1>0, <1>1, <1>5, StoredTypes
  <2>2. IsState(d') /\ visited' \in BOOLEAN
    BY <1>1, <1>2, <1>5 DEF IsUpdate
  <2> QED BY <1>0, <1>1, <1>6, <2>1, <2>2 DEF TypesOK
<1>10. ScalesAreStored'
  <2>1. IsLearned(u.state.litter) /\ IsLearned(u.state.hopper)
    BY <1>0, <1>6, <1>7, RestIsLearned DEF ScalesRest
  <2>2. <<"learned">> \in u.effects \/ Scales(u.state) = Scales(d)
    BY <1>5, <1>7 DEF Written, Scales
  <2> QED BY <1>0, <1>1, <1>5, <2>1, <2>2, ScalesStayStored
<1>11. /\ options'.stale \in {u.state.stale, options.stale}
       /\ Closed(options'.seen) => Closed(u.state.sightings) \/ Closed(options.seen)
       /\ \/ options'.snapshot = options.snapshot
          \/ /\ options'.snapshot.stale = u.state.stale
             /\ options'.snapshot.beamAt = u.state.beamAt
             /\ options'.snapshot.sightings = u.state.sightings
             /\ options'.snapshot.baseline = None /\ options'.snapshot.steps = 0
  BY <1>0, <1>1, <1>5, WritesCopy
<1>12. BedIsWatched'
  BY <1>0, <1>1, <1>7, <1>11 DEF BedIsWatched, BedRests
<1>13. PoursAreKnown'
  BY <1>0, <1>1, <1>5, <1>11 DEF PoursAreKnown
<1>14. VisitsAreKnown'
  <2>0. BeamKnown(d) /\ beam \in Nat \cup {None} /\ None \notin Int
    BY <1>0, NoneAssumption DEF TypesOK, VisitsAreKnown
  <2>1. VisitCloses(d, readings, now) => closes
    <3> SUFFICES ASSUME NEW i \in 1 .. n, readings[i].register = "duration",
                        BeamSeenRecently(d, now, readings[i].value)
                 PROVE  /\ beam # None
                        /\ now - beam <= CloseGrace + readings[i].value
      BY <1>3 DEF VisitCloses
    <3>1. d.beamAt # None /\ now - d.beamAt <= CloseGrace + readings[i].value
      BY DEF BeamSeenRecently
    <3>2. d.beamAt \in Int /\ beam # None /\ d.beamAt <= beam
      BY <2>0, <3>1 DEF BeamKnown
    <3>3. beam \in Int /\ CloseGrace \in Int /\ readings[i].value \in Int
      BY <1>3, <2>0, <3>2, DerivedAssumption
    <3> QED BY <1>2, <3>1, <3>2, <3>3
  <2> HIDE DEF closes
  <2>2. Closed(u.state.sightings) => visited'
    BY <1>0, <1>1, <1>5, <2>1 DEF VisitsAreKnown
  <2>3. BeamKnown(d)'
    BY <1>1, <1>5, <2>0 DEF BeamKnown
  <2>4. options'.snapshot # None =>
          BeamKnown(options.snapshot)' /\ (Closed(options'.snapshot.sightings) => visited')
    <3>1. CASE options'.snapshot = options.snapshot
      BY <1>0, <1>1, <3>1 DEF VisitsAreKnown, BeamKnown
    <3>2. CASE /\ options'.snapshot.beamAt = u.state.beamAt
               /\ options'.snapshot.sightings = u.state.sightings
      BY <1>1, <2>2, <2>3, <3>2 DEF BeamKnown
    <3> QED BY <1>11, <3>1, <3>2
  <2>5. Closed(options'.seen) => visited'
    BY <1>0, <1>1, <1>11, <2>2 DEF VisitsAreKnown
  <2> QED BY <1>1, <2>2, <2>3, <2>4, <2>5 DEF VisitsAreKnown
<1> QED BY <1>8, <1>9, <1>10, <1>12, <1>13, <1>14 DEF TelemetryInv

(* What the next coordinator is built from is a state, with no pour under way. *)
LEMMA SourceKeeps ==
  ASSUME TypesOK, ScalesAreStored, BedIsWatched, PoursAreKnown, VisitsAreKnown
  PROVE  LET s == Source(options) IN
         /\ IsState(s) /\ BeamKnown(s) /\ s.baseline = None /\ s.steps = 0
         /\ s.stale = TRUE => Poured(litter)
         /\ Closed(s.sightings) => visited
         /\ options.learned = None => s.litter = NewLearned /\ s.hopper = NewLearned
<1> DEFINE s == Source(options)
<1>1. CASE options.snapshot = None
  <2>1. s = NewState
    BY <1>1 DEF Source
  <2> HIDE DEF s
  <2>2. BeamKnown(s)
    BY <2>1, NewStateIsState DEF BeamKnown
  <2> QED BY <2>1, <2>2, NewStateIsState DEF s
<1>2. CASE options.snapshot # None
  <2>1. s = options.snapshot
    BY <1>2 DEF Source
  <2> HIDE DEF s
  <2>2. IsState(s) /\ BeamKnown(s) /\ s.baseline = None /\ s.steps = 0
    BY <1>2, <2>1 DEF TypesOK, BedIsWatched, VisitsAreKnown
  <2>3. (s.stale = TRUE => Poured(litter)) /\ (Closed(s.sightings) => visited)
    BY <1>2, <2>1 DEF PoursAreKnown, VisitsAreKnown
  <2>4. options.learned = None => s.litter = NewLearned /\ s.hopper = NewLearned
    BY <1>2, <2>1 DEF ScalesAreStored
  <2> QED BY <2>2, <2>3, <2>4 DEF s
<1> QED BY <1>1, <1>2

(* A rebuild restores the scales that were learned, and a gauge that somebody's pour made stale. *)
LEMMA RebuildKeeps ==
  ASSUME TelemetryInv, Rebuild
  PROVE  TelemetryInv'
<1> DEFINE s == Source(options)
           t == RestoreDerived(options, NoVerdicts)
<1>0. TypesOK /\ ScalesAreStored /\ ScalesRest /\ BedIsWatched /\ PoursAreKnown /\ VisitsAreKnown
  BY DEF TelemetryInv
<1>1. /\ d' = t /\ options' = [options EXCEPT !.snapshot = None]
      /\ UNCHANGED <<now, robot, litter, hopper, beam, visited>>
  BY Zenon DEF Rebuild, samples
<1>2. /\ DOMAIN options' = DOMAIN options /\ options'.snapshot = None
      /\ options'.seen = options.seen /\ options'.learned = options.learned
      /\ options'.stale = options.stale
  BY <1>0, <1>1, Zenon DEF TypesOK
<1>3. /\ IsState(s) /\ BeamKnown(s) /\ s.baseline = None /\ s.steps = 0
      /\ s.stale = TRUE => Poured(litter)
      /\ Closed(s.sightings) => visited
      /\ options.learned = None => s.litter = NewLearned /\ s.hopper = NewLearned
  BY <1>0, SourceKeeps
<1>4. /\ IsState(t) /\ t.beamAt = s.beamAt /\ t.baseline = s.baseline /\ t.steps = s.steps
      /\ t.stale = (IF options.stale = None THEN s.stale ELSE options.stale)
      /\ t.litter = (IF options.learned = None THEN s.litter ELSE options.learned.litter)
      /\ t.hopper = (IF options.learned = None THEN s.hopper ELSE options.learned.hopper)
      /\ Closed(t.sightings) => Closed(options.seen) \/ Closed(s.sightings)
  BY <1>0, <1>3, RestoredKeeps, Zenon DEF TypesOK
<1> HIDE DEF s, t
<1>5. /\ IsLearned(t.litter) /\ Persisted(t.litter) = Persisted(d.litter)
      /\ IsLearned(t.hopper) /\ Persisted(t.hopper) = Persisted(d.hopper)
  <2>1. IsLearned(d.litter) /\ IsLearned(d.hopper)
    BY <1>0, RestIsLearned DEF ScalesRest
  <2>2. CASE options.learned = None
    <3>1. t.litter = NewLearned /\ t.hopper = NewLearned
      BY <1>3, <1>4, <2>2
    <3>2. Persisted(d.litter) = Persisted(NewLearned) /\ Persisted(d.hopper) = Persisted(NewLearned)
      BY <1>0, <2>2, NewStateIsState DEF ScalesAreStored, Scales
    <3>3. IsLearned(NewLearned)
      BY ScalesOutliveSessions DEF LitterScale
    <3> QED BY <3>1, <3>2, <3>3
  <2>3. CASE options.learned # None
    <3>1. t.litter = Persisted(d.litter) /\ t.hopper = Persisted(d.hopper)
      BY <1>0, <1>4, <2>3 DEF ScalesAreStored, Scales
    <3> QED BY <2>1, <3>1, PersistedIsLearned, PersistedIsStored
  <2> QED BY <2>2, <2>3
<1>6. ScalesRest'
  BY <1>0, <1>1, <1>5, PersistedRests DEF ScalesRest
<1>7. ScalesAreStored'
  <2>1. Scales(t) = Scales(d)
    BY <1>5 DEF Scales
  <2> QED BY <1>0, <1>1, <1>2, <2>1 DEF ScalesAreStored, Scales
<1>8. TypesOK'
  BY <1>0, <1>1, <1>2, <1>4 DEF TypesOK
<1>9. BedIsWatched'
  <2>1. d'.steps = 0 /\ d'.baseline = None
    BY <1>1, <1>3, <1>4
  <2> QED BY <1>1, <1>2, <2>1 DEF BedIsWatched, BedRests
<1>10. PoursAreKnown'
  BY <1>0, <1>1, <1>2, <1>3, <1>4 DEF PoursAreKnown
<1>11. VisitsAreKnown'
  <2>1. BeamKnown(d)'
    BY <1>1, <1>3, <1>4 DEF BeamKnown
  <2> QED BY <1>0, <1>1, <1>2, <1>3, <1>4, <2>1 DEF VisitsAreKnown
<1> QED BY <1>6, <1>7, <1>8, <1>9, <1>10, <1>11 DEF TelemetryInv

LEMMA InitHolds == Init => TelemetryInv
<1> SUFFICES ASSUME Init PROVE TelemetryInv
  OBVIOUS
<1> DEFINE t == RestoreDerived(options, NoVerdicts)
<1>1. /\ options.seen = [c \in Capabilities |-> None] /\ options.learned = None
      /\ options.stale = None /\ options.snapshot = None
      /\ {"seen", "learned", "fill", "stale", "snapshot"} \subseteq DOMAIN options
  BY DEF Init, Unwritten
<1>2. Source(options) = NewState /\ d = t
  BY <1>1 DEF Source, Init
<1>3. ~Closed(options.seen)
  <2>1. "visit_duration" \in Capabilities /\ "cat_visit" \in Capabilities
    BY DEF Capabilities
  <2> QED BY <1>1, <2>1, TelemetryAssumption DEF Closed
<1> HIDE DEF t
<1>4. /\ IsState(t) /\ t.beamAt = None /\ t.baseline = None /\ t.steps = 0 /\ t.stale = FALSE
      /\ t.litter = NewLearned /\ t.hopper = NewLearned /\ ~Closed(t.sightings)
  <2>1. IsState(NewState)
    BY NewStateIsState
  <2>2. /\ IsState(t) /\ t.beamAt = NewState.beamAt
        /\ t.baseline = NewState.baseline /\ t.steps = NewState.steps
        /\ t.stale = NewState.stale /\ t.litter = NewState.litter /\ t.hopper = NewState.hopper
        /\ Closed(t.sightings) => Closed(options.seen) \/ Closed(NewState.sightings)
    BY <1>1, <1>2, <2>1, RestoredKeeps DEF t
  <2> QED BY <1>3, <2>2, NewStateIsState
<1>5. TypesOK
  <2>1. now \in Nat /\ robot \in Robots /\ beam = None /\ visited \in BOOLEAN
    BY DEF Init
  <2>2. litter \in Seq(Int) /\ hopper \in Seq(Int)
    BY DEF Init
  <2>3. Capabilities \subseteq DOMAIN options.seen
    BY <1>1
  <2>4. IsState(d) /\ options.stale \in BOOLEAN \cup {None}
    BY <1>1, <1>2, <1>4
  <2> QED BY <1>1, <2>1, <2>2, <2>3, <2>4 DEF TypesOK
<1>6. ScalesAreStored
  BY <1>1, <1>2, <1>4, NewStateIsState DEF ScalesAreStored, Scales
<1>7. ScalesRest
  <2>1. LitterRests(NewLearned, litter)
    BY ScalesOutliveSessions DEF LitterRests, Agreed, Heard, NewLearned
  <2>2. HopperRests(NewLearned, hopper)
    BY ScalesOutliveSessions DEF HopperRests, Agreed, Heard, NewLearned
  <2> QED BY <1>2, <1>4, <2>1, <2>2 DEF ScalesRest
<1>8. BedIsWatched
  BY <1>1, <1>2, <1>4 DEF BedIsWatched, BedRests
<1>9. PoursAreKnown
  BY <1>1, <1>2, <1>4 DEF PoursAreKnown
<1>10. VisitsAreKnown
  BY <1>1, <1>2, <1>3, <1>4 DEF VisitsAreKnown, BeamKnown
<1> QED BY <1>5, <1>6, <1>7, <1>8, <1>9, <1>10 DEF TelemetryInv

LEMMA TimeKeeps ==
  ASSUME TelemetryInv, Tick \/ UNCHANGED vars
  PROVE  TelemetryInv'
<1>1. /\ UNCHANGED <<robot, d, options, litter, hopper, beam, visited>>
      /\ now' = now + 1 \/ now' = now
  BY DEF Tick, vars, history, samples
<1>2. TypesOK'
  <2>1. TypesOK /\ now \in Nat /\ now' \in Nat
    BY <1>1 DEF TelemetryInv, TypesOK
  <2>2. beam # None => beam <= now'
    BY <1>1, <2>1 DEF TypesOK
  <2> QED BY <1>1, <2>1, <2>2 DEF TypesOK
<1>3. ScalesAreStored' /\ ScalesRest' /\ BedIsWatched' /\ PoursAreKnown' /\ VisitsAreKnown'
  BY <1>1 DEF TelemetryInv, ScalesAreStored, ScalesRest, BedIsWatched, PoursAreKnown,
              VisitsAreKnown, BeamKnown, Scales
<1> QED BY <1>2, <1>3 DEF TelemetryInv

LEMMA TelemetryHolds == Spec => []TelemetryInv
<1>1. TelemetryInv /\ [Next]_vars => TelemetryInv'
  <2> SUFFICES ASSUME TelemetryInv, [Next]_vars PROVE TelemetryInv'
    OBVIOUS
  <2>1. CASE \E doc \in robot.documents : HearDocument(doc)
    BY <2>1, DocumentKeeps
  <2>2. CASE \E readings \in robot.activities : HearActivity(readings)
    BY <2>2, ActivityKeeps
  <2>3. CASE Rebuild
    BY <2>3, RebuildKeeps
  <2>4. CASE Tick \/ UNCHANGED vars
    BY <2>4, TimeKeeps
  <2> QED BY <2>1, <2>2, <2>3, <2>4 DEF Next
<1> QED BY <1>1, InitHolds, PTL DEF Spec

-----------------------------------------------------------------------------
(* The moments the samples were taken at *)

(* The samples of one kind are all of moments of their own, and the newest of the session was *)
(* taken no later than its time is remembered.                                                 *)
Apart(levels, of, newest, at) ==
  /\ of \in Seq(Nat) /\ Len(of) = Len(levels) /\ \A i \in 1 .. Len(levels) : of[i] = i
  /\ newest # None => newest \in Int /\ at \in Int /\ newest <= at /\ at <= now

SamplesApart ==
  /\ moments \in [litter : Seq(Nat), hopper : Seq(Nat)]
  /\ last \in [litter : Int \cup {None}, hopper : Int \cup {None}]
  /\ Apart(litter, moments.litter, last.litter, d.litterAt)
  /\ Apart(hopper, moments.hopper, last.hopper, d.hopperAt)

LEMMA MomentIsNew ==
  ASSUME now \in Int, NEW h \in Seq(Int), NEW v \in Int, NEW of, NEW newest, NEW at,
         NEW within \in Nat, Apart(h, of, newest, at), Due(at, now, within)
  PROVE  LET moved == Moment(of, newest, within) IN
         /\ moved \in Seq(Nat) /\ Len(moved) = Len(Append(h, v))
         /\ \A i \in 1 .. Len(Append(h, v)) : moved[i] = i
<1>1. ~(newest # None /\ now - newest < within)
  <2> SUFFICES ASSUME newest # None PROVE ~(now - newest < within)
    OBVIOUS
  <2>1. newest \in Int /\ at \in Int /\ newest <= at
    BY DEF Apart
  <2>2. ~(now - at < within)
    BY <2>1, NoneAssumption DEF Due
  <2> QED BY <2>1, <2>2
<1>2. of \in Seq(Nat) /\ Len(of) = Len(h) /\ \A i \in 1 .. Len(h) : of[i] = i
  BY DEF Apart
<1>3. Moment(of, newest, within) = Append(of, Len(of) + 1)
  BY <1>1, Zenon DEF Moment
<1> DEFINE moved == Append(of, Len(of) + 1)
<1>4. /\ moved \in Seq(Nat) /\ Len(moved) = Len(of) + 1 /\ Len(of) \in Nat
      /\ moved[Len(of) + 1] = Len(of) + 1 /\ \A i \in 1 .. Len(of) : moved[i] = of[i]
  BY <1>2
<1>5. Len(Append(h, v)) = Len(h) + 1
  BY Longer
<1> HIDE DEF moved
<1>6. ASSUME NEW i \in 1 .. Len(h) + 1 PROVE moved[i] = i
  <2>1. CASE i \in 1 .. Len(h)
    BY <1>2, <1>4, <2>1
  <2>2. CASE i = Len(of) + 1
    BY <1>4, <2>2
  <2> QED BY <1>2, <1>4, <2>1, <2>2
<1>7. /\ moved \in Seq(Nat) /\ Len(moved) = Len(Append(h, v))
      /\ \A i \in 1 .. Len(Append(h, v)) : moved[i] = i
  BY <1>2, <1>4, <1>5, <1>6
<1> QED BY <1>3, <1>7, Zenon DEF moved

LEMMA DocumentStaysApart ==
  ASSUME TelemetryInv, SamplesApart, NEW doc \in robot.documents, HearDocument(doc)
  PROVE  SamplesApart'
<1> DEFINE u == ApplyState(d, doc, now)
           taken == /\ u.state.litterAt # d.litterAt /\ Sampleable(doc)
                    /\ doc.level \in LitterLevel.plausible
<1>1. /\ d' = u.state /\ UNCHANGED <<now, hopper>>
      /\ IF taken THEN /\ litter' = Append(litter, doc.level)
                       /\ moments' = [moments EXCEPT !.litter = Moment(@, last.litter, StateDedupe)]
                       /\ last' = [last EXCEPT !.litter = now]
         ELSE UNCHANGED <<litter, moments, last>>
  BY Zenon DEF HearDocument
<1>2. now \in Int /\ IsState(d) /\ litter \in Seq(Int) /\ hopper \in Seq(Int)
  BY DEF TelemetryInv, TypesOK
<1>3. /\ u.state.hopperAt = d.hopperAt
      /\ \/ u.state.litterAt = d.litterAt
         \/ u.state.litterAt = now /\ Due(d.litterAt, now, StateDedupe)
  <2>1. /\ u.state.hopperAt = d.hopperAt
        /\ Timed(d.litterAt, u.state.litterAt, now, StateDedupe)
    BY <1>2, DocumentMoves, Zenon
  <2> HIDE DEF u
  <2> QED BY <2>1, Zenon DEF Timed
<1> HIDE DEF u
<1>4. Apart(hopper, moments.hopper, last.hopper, d.hopperAt)'
      <=> Apart(hopper, moments'.hopper, last'.hopper, d.hopperAt)
  BY <1>1, <1>3 DEF Apart
<1>5. CASE taken
  <2>1. /\ doc.level \in Int /\ Due(d.litterAt, now, StateDedupe) /\ u.state.litterAt = now
        /\ StateDedupe \in Nat
    BY <1>3, <1>5, DerivedAssumption DEF LitterLevel
  <2>2. /\ moments' \in [litter : Seq(Nat), hopper : Seq(Nat)]
        /\ moments'.litter = Moment(moments.litter, last.litter, StateDedupe) /\ moments'.hopper = moments.hopper
        /\ last' \in [litter : Int \cup {None}, hopper : Int \cup {None}]
        /\ last'.litter = now /\ last'.hopper = last.hopper
    <3>1. Moment(moments.litter, last.litter, StateDedupe) \in Seq(Nat)
      BY <1>2, <2>1, MomentIsNew DEF SamplesApart
    <3> HIDE DEF taken
    <3> QED BY <1>1, <1>2, <1>5, <3>1 DEF SamplesApart
  <2>3. /\ moments'.litter \in Seq(Nat) /\ Len(moments'.litter) = Len(litter')
        /\ \A i \in 1 .. Len(litter') : moments'.litter[i] = i
    <3>1. litter' = Append(litter, doc.level)
      BY <1>1, <1>5
    <3> QED BY <1>2, <2>1, <2>2, <3>1, MomentIsNew DEF SamplesApart
  <2>4. Apart(litter, moments.litter, last.litter, d.litterAt)'
    BY <1>1, <1>2, <2>1, <2>2, <2>3 DEF Apart
  <2> QED BY <1>4, <2>2, <2>4 DEF SamplesApart
<1>6. CASE ~taken
  <2>1. UNCHANGED <<litter, moments, last>>
    BY <1>1, <1>6
  <2>2. Apart(litter, moments.litter, last.litter, d.litterAt)'
    BY <1>1, <1>2, <1>3, <2>1 DEF Apart, SamplesApart
  <2> QED BY <1>4, <2>1, <2>2 DEF SamplesApart
<1> QED BY <1>5, <1>6

LEMMA ActivityStaysApart ==
  ASSUME TelemetryInv, SamplesApart, NEW readings \in robot.activities, HearActivity(readings)
  PROVE  SamplesApart'
<1> DEFINE told == Progress(d, readings, now)
           n == Len(readings)
           u == ApplyActivity(d, readings, now)
           sampled == {i \in DOMAIN readings : told[i].state.hopperAt # told[i - 1].state.hopperAt}
           gauges == {told[i].state.fill : i \in sampled} \cap HopperGauge.plausible
           g == CHOOSE x \in gauges : TRUE
<1>1. /\ d' = u.state /\ UNCHANGED <<now, litter>>
      /\ IF gauges # {} THEN /\ hopper' = Append(hopper, g)
                             /\ moments' = [moments EXCEPT !.hopper = Moment(@, last.hopper, DispenseDedupe)]
                             /\ last' = [last EXCEPT !.hopper = now]
         ELSE UNCHANGED <<hopper, moments, last>>
  BY Zenon DEF HearActivity
<1>2. now \in Int /\ IsState(d) /\ litter \in Seq(Int) /\ hopper \in Seq(Int)
  BY DEF TelemetryInv, TypesOK
<1>3. n \in Nat /\ DOMAIN readings = 1 .. n
  <2>1. readings \in Seq([register : STRING, value : Nat])
    BY TelemetryAssumption DEF TelemetryInv, TypesOK
  <2> QED BY <2>1, Elements, Zenon
<1>4. Told(d, told, n, readings, now) /\ u = told[n]
  BY <1>2, <1>3, ActivityMoves, Zenon
<1> HIDE DEF u, told
<1>5. u.state.litterAt = d.litterAt /\ Sampling(d, told, n, now)
  BY <1>4 DEF Told, Bedding
<1>6. /\ u.state.hopperAt \in {d.hopperAt, now}
      /\ gauges # {} => Due(d.hopperAt, now, DispenseDedupe) /\ u.state.hopperAt = now
  <2>1. CASE u.state.hopperAt = d.hopperAt /\ \A i \in 1 .. n : ~Samples(told, i)
    <3>1. gauges = {}
      BY <1>3, <2>1 DEF Samples
    <3> QED BY <2>1, <3>1
  <2>2. CASE u.state.hopperAt = now /\ Due(d.hopperAt, now, DispenseDedupe)
    BY <2>2
  <2> QED BY <1>4, <1>5, <2>1, <2>2 DEF Sampling
<1>7. gauges # {} => g \in Int
  <2>1. gauges # {} => g \in gauges
    BY Zenon
  <2>2. \A x \in gauges : x \in Int
    BY DEF HopperGauge
  <2> QED BY <2>1, <2>2
<1> HIDE DEF gauges, g, sampled
<1>8. Apart(litter, moments.litter, last.litter, d.litterAt)'
      <=> Apart(litter, moments'.litter, last'.litter, d.litterAt)
  BY <1>1, <1>5 DEF Apart
<1>9. CASE gauges # {}
  <2>1. /\ g \in Int /\ Due(d.hopperAt, now, DispenseDedupe) /\ u.state.hopperAt = now
        /\ DispenseDedupe \in Nat
    BY <1>6, <1>7, <1>9, DerivedAssumption
  <2>2. /\ moments' \in [litter : Seq(Nat), hopper : Seq(Nat)]
        /\ moments'.hopper = Moment(moments.hopper, last.hopper, DispenseDedupe) /\ moments'.litter = moments.litter
        /\ last' \in [litter : Int \cup {None}, hopper : Int \cup {None}]
        /\ last'.hopper = now /\ last'.litter = last.litter
    <3>1. Moment(moments.hopper, last.hopper, DispenseDedupe) \in Seq(Nat)
      BY <1>2, <2>1, MomentIsNew DEF SamplesApart
    <3> QED BY <1>1, <1>2, <1>9, <3>1 DEF SamplesApart
  <2>3. /\ moments'.hopper \in Seq(Nat) /\ Len(moments'.hopper) = Len(hopper')
        /\ \A i \in 1 .. Len(hopper') : moments'.hopper[i] = i
    <3>1. hopper' = Append(hopper, g)
      BY <1>1, <1>9
    <3> QED BY <1>2, <2>1, <2>2, <3>1, MomentIsNew DEF SamplesApart
  <2>4. Apart(hopper, moments.hopper, last.hopper, d.hopperAt)'
    BY <1>1, <1>2, <2>1, <2>2, <2>3 DEF Apart
  <2> QED BY <1>8, <2>2, <2>4 DEF SamplesApart
<1>10. CASE gauges = {}
  <2>1. UNCHANGED <<hopper, moments, last>>
    BY <1>1, <1>10
  <2>2. Apart(hopper, moments.hopper, last.hopper, d.hopperAt)'
    BY <1>1, <1>2, <1>6, <2>1 DEF Apart, SamplesApart
  <2> QED BY <1>8, <2>1, <2>2 DEF SamplesApart
<1> QED BY <1>9, <1>10

LEMMA SamplesStayApart == TelemetryInv /\ SamplesApart /\ [Next]_vars => SamplesApart'
<1> SUFFICES ASSUME TelemetryInv, SamplesApart, [Next]_vars PROVE SamplesApart'
  OBVIOUS
<1>1. CASE \E doc \in robot.documents : HearDocument(doc)
  BY <1>1, DocumentStaysApart
<1>2. CASE \E readings \in robot.activities : HearActivity(readings)
  BY <1>2, ActivityStaysApart
<1>3. CASE Rebuild
  <2>1. UNCHANGED <<litter, hopper, moments>> /\ last' = [litter |-> None, hopper |-> None]
    BY <1>3, Zenon DEF Rebuild, samples
  <2> QED BY <2>1 DEF SamplesApart, Apart
<1>4. CASE Tick \/ UNCHANGED vars
  <2>1. UNCHANGED <<d, litter, hopper, moments, last>> /\ now' \in {now, now + 1} /\ now \in Int
    BY <1>4 DEF Tick, vars, history, samples, TelemetryInv, TypesOK
  <2> QED BY <2>1 DEF SamplesApart, Apart
<1> QED BY <1>1, <1>2, <1>3, <1>4 DEF Next

LEMMA SamplesAreApart == Spec => []SamplesApart
<1>1. Init => SamplesApart
  BY DEF Init, SamplesApart, Apart
<1> QED BY <1>1, SamplesStayApart, TelemetryHolds, PTL DEF Spec

LEMMA AgreedIsCorroborated ==
  ASSUME NEW end, NEW h \in Seq(Int), NEW of, NEW newest, NEW at, NEW within,
         Agreed(end, h, within), Apart(h, of, newest, at)
  PROVE  Corroborated(end, h, of, within)
<1>1. \A i, j \in DOMAIN h : i # j => of[i] # of[j]
  BY DEF Apart
<1> QED BY <1>1, Zenon DEF Agreed, Corroborated

(* An end of a learned scale, but a hopper's floor, rests on two readings that agree, over any  *)
(* number of messages, restarts and reloads, and no session reads twice at one time, so that no *)
(* redelivered message corroborates itself within it.  And the litter scale spans no more than  *)
(* the globe can hold (calibration.py observe).                                                  *)
THEOREM ScalesAreSound == Spec => []ScaleIsSound
<1>1. TelemetryInv /\ SamplesApart => ScaleIsSound
  <2> SUFFICES ASSUME TelemetryInv, SamplesApart PROVE ScaleIsSound
    OBVIOUS
  <2>1. /\ litter \in Seq(Int) /\ hopper \in Seq(Int)
        /\ LitterRests(d.litter, litter) /\ HopperRests(d.hopper, hopper)
    BY DEF TelemetryInv, TypesOK, ScalesRest
  <2>2. /\ Agreed(d.litter.low, litter, LitterLevel.corroboration)
        /\ Agreed(d.litter.high, litter, LitterLevel.corroboration)
        /\ Agreed(d.hopper.high, hopper, HopperGauge.corroboration)
        /\ Spanned(d.litter)
    BY <2>1 DEF LitterRests, HopperRests, LitterScale
  <2>3. /\ Apart(litter, moments.litter, last.litter, d.litterAt)
        /\ Apart(hopper, moments.hopper, last.hopper, d.hopperAt)
    BY DEF SamplesApart
  <2> QED BY <2>1, <2>2, <2>3, AgreedIsCorroborated DEF ScaleIsSound
<1> QED BY <1>1, TelemetryHolds, SamplesAreApart, PTL

(* The floor of a hopper is a level the gauge fell to and then held, never one it drained      *)
(* through, and it lies well below the ceiling, whatever the order and number of dispenses and *)
(* restarts (calibration.py _observe_run).                                                      *)
THEOREM FloorsAreFlatlines == Spec => []FloorIsAFlatline
<1>1. TelemetryInv => FloorIsAFlatline
  BY DEF TelemetryInv, ScalesRest, HopperRests, HopperScale, FloorIsAFlatline, HeldAt, Flatline
<1> QED BY <1>1, TelemetryHolds, PTL

(* The gauge is called stale only after somebody poured litter in: a step fuller than before,   *)
(* reading after reading (derive.py _watch_for_top_up), whatever came between and over restarts.*)
THEOREM StalenessRestsOnAPour == Spec => []StaleRestsOnAPour
<1>1. TelemetryInv => StaleRestsOnAPour
  BY DEF TelemetryInv, TypesOK, IsState, PoursAreKnown, Poured, StaleRestsOnAPour
<1> QED BY <1>1, TelemetryHolds, PTL

(* Handling a robot proves no visits: what the options hold of one rests on something that      *)
(* broke the beam as long ago as the visit lasted at most (derive.py _apply_activity), though    *)
(* the sighting may have been stored, restored and stored again since.                           *)
THEOREM VisitsHaveABody == Spec => []VisitsNeedABody
<1>1. TelemetryInv => VisitsNeedABody
  BY DEF TelemetryInv, VisitsAreKnown, Closed, VisitsNeedABody
<1> QED BY <1>1, TelemetryHolds, PTL
=============================================================================
