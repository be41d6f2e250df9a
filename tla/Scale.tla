-------------------------------- MODULE Scale --------------------------------
(***************************************************************************)
(* What a robot's own scale is learned from (calibration.py Learned): the  *)
(* observed ends of one measurement and their unconfirmed candidates, the  *)
(* rolling window that quarantines outliers of a dense signal and the      *)
(* flatline runs that place the floor of a sparse one.                     *)
(***************************************************************************)
EXTENDS Integers, Sequences, FiniteSets

CONSTANT None   \* no value

ASSUME NoneAssumption == None \notin Int

Magnitude(n) == IF n < 0 THEN -n ELSE n
Lesser(a, b) == IF a < b THEN a ELSE b
Greater(a, b) == IF a > b THEN a ELSE b

(* The two measurements, as their callers in derive.py observe them. *)
LitterLevel == [plausible |-> 400 .. 530, corroboration |-> 6, maxSpan |-> 100, dense |-> TRUE]
HopperGauge == [plausible |-> 10 .. 300, corroboration |-> 4, maxSpan |-> None, dense |-> FALSE]

HopperMinSpan == 8
Confirmations == 3
Window == 15
WindowWarmup == 5
RegimeRejections == 3
FallTolerance == 1

NewLearned ==
  [low |-> None, high |-> None, lowCandidate |-> None, highCandidate |-> None, lowHits |-> 0,
   runValue |-> None, runLength |-> 0, runFell |-> FALSE,
   window |-> <<>>, rejects |-> <<>>, freshRegime |-> FALSE]

(* as_dict and from_dict: the window is of one session only. *)
Persisted(l) == [l EXCEPT !.window = <<>>, !.rejects = <<>>, !.freshRegime = FALSE]

Agrees(v, candidate, within) == candidate # None /\ Magnitude(v - candidate) <= within

-----------------------------------------------------------------------------
(* The Hampel identifier in front of a dense signal *)

(* The middle of a sequence's values, the upper one of two. *)
Median(values) ==
  LET AtMost(m) == Cardinality({i \in DOMAIN values : values[i] <= m})
      Below(m) == Cardinality({i \in DOMAIN values : values[i] < m})
      middle == Len(values) \div 2
  IN CHOOSE m \in {values[i] : i \in DOMAIN values} : Below(m) <= middle /\ middle < AtMost(m)

(* 3.5 times the greater of 2 and 1.4826 times the median deviation, in ten thousandths. *)
Outlying(v, window) ==
  LET median == Median(window)
      deviation == Median([i \in DOMAIN window |-> Magnitude(window[i] - median)])
  IN Magnitude(v - median) * 10000 > Greater(70000, 51891 * deviation)

Margin == 7   \* 3.5 times 2

(* While the window is too short to vote the anchors do, unless they were just outvoted. *)
Outlier(l, v) ==
  IF Len(l.window) >= WindowWarmup THEN Outlying(v, l.window)
  ELSE /\ ~l.freshRegime /\ l.low # None /\ l.high # None
       /\ v \notin l.low - Margin .. l.high + Margin

Last(s) == s[Len(s)]
Streak(l, v, within) ==
  Append(IF l.rejects # <<>> /\ Magnitude(v - Last(l.rejects)) > within THEN <<>> ELSE l.rejects, v)

Latest(window) ==
  SubSeq(window, 1 + Greater(0, Len(window) - Window), Len(window))

(* What a reading leaves of the window, and whether it counts as a reading. *)
Gate(l, v, within) ==
  LET streak == Streak(l, v, within) IN
  CASE ~Outlier(l, v) ->
         [passes |-> TRUE, learned |-> [l EXCEPT !.window = Latest(Append(@, v)), !.rejects = <<>>]]
    [] Outlier(l, v) /\ Len(streak) < RegimeRejections ->
         [passes |-> FALSE, learned |-> [l EXCEPT !.rejects = streak]]
    [] OTHER ->
         [passes |-> TRUE,
          learned |-> [l EXCEPT !.window = streak, !.rejects = <<>>, !.freshRegime = TRUE]]

-----------------------------------------------------------------------------
(* The anchors *)

ObserveHigh(l, v, within) ==
  IF l.high # None /\ v <= l.high THEN l
  ELSE IF Agrees(v, l.highCandidate, within)
       THEN [l EXCEPT !.high = Lesser(v, l.highCandidate), !.highCandidate = None]
       ELSE [l EXCEPT !.highCandidate = v]

ObserveLow(l, v, within) ==
  IF Agrees(v, l.lowCandidate, within)
  THEN [l EXCEPT !.low = Greater(v, l.lowCandidate), !.lowCandidate = None, !.lowHits = 0]
  ELSE [l EXCEPT !.lowCandidate = v]

(* A run goes on while the gauge does not fall: an empty hopper's wobbles upwards. *)
Flat_EitherWay(l, v, within) == \* mutant: a slowly draining gauge is flat too
  l.runValue # None /\ Magnitude(v - l.runValue) <= within
Flat(l, v, within) ==
  /\ l.runValue # None
  /\ Magnitude(v - l.runValue) <= within /\ v >= l.runValue - FallTolerance

Run(l, v, within) ==
  IF Flat(l, v, within)
  THEN [l EXCEPT !.runLength = Lesser(@ + 1, Confirmations)]
  ELSE LET reference == IF l.runValue = None THEN l.low ELSE l.runValue
       IN [l EXCEPT !.runFell = reference # None /\ v < reference,
                    !.runValue = v, !.runLength = 1]

(* A flatline that was declined into, well below the ceiling, is the floor. *)
ObserveRun(l, v, within) ==
  LET r == Run(l, v, within)
  IN IF /\ r.runLength >= Confirmations /\ r.runFell
        /\ r.high # None /\ r.runValue <= r.high - HopperMinSpan
     THEN [r EXCEPT !.low = r.runValue, !.lowHits = Confirmations]
     ELSE r

(* Whether the anchor a new reading moves away from allows it. *)
InSpan(l, v, measurement) ==
  LET other == IF l.low # None /\ v < l.low THEN l.high ELSE l.low
  IN measurement.maxSpan = None \/ other = None \/ Magnitude(v - other) <= measurement.maxSpan

Anchor(l, v, measurement) ==
  LET within == measurement.corroboration IN
  CASE ~measurement.dense -> ObserveHigh(ObserveRun(l, v, within), v, within)
    [] measurement.dense /\ (l.low = None \/ v < l.low) -> ObserveLow(l, v, within)
    [] OTHER -> ObserveHigh(l, v, within)

Observe(l, v, measurement) ==
  IF v \notin measurement.plausible \/ ~InSpan(l, v, measurement) THEN l
  ELSE LET gate == IF measurement.dense THEN Gate(l, v, measurement.corroboration)
                   ELSE [passes |-> TRUE, learned |-> l]
       IN IF gate.passes THEN Anchor(gate.learned, v, measurement) ELSE gate.learned

(* What is written to the options when a reading changed it. *)
Moved(before, after) == Persisted(before) # Persisted(after)

(* The scale never spans more than its measurement can. *)
Spanned(l) == l.low # None /\ l.high # None => l.high - l.low \in 0 .. LitterLevel.maxSpan
=============================================================================
