--------------------------- MODULE RegimePipeline ---------------------------
(***************************************************************************)
(* The arithmetic of internal/regime between the domain scores of a day    *)
(* and the state that is saved: the normalised indicator is clipped, it    *)
(* and the transition risk are smoothed by the states saved for the days   *)
(* before, and Validate admits or refuses the state.  Days may be computed *)
(* again and in any order, as ticks and backfills do.                      *)
(*                                                                         *)
(* Numbers are in units of 1/One, divisions round down.  Square roots,     *)
(* tanh and z-scores are not computed: the weighted sum of the normalised  *)
(* scores, and the tanh of the two z-scores of the transition risk, are    *)
(* inputs.                                                                 *)
(***************************************************************************)
EXTENDS Integers, Sequences, SequencesExt

CONSTANTS
  SpanDays,          \* smoothing.span_days of the configuration
  TransitionBaseline, RocWeight, DivergenceWeight,   \* of the configuration
  Sums,              \* weighted sums of normalised scores
  Tanhs,             \* pairs of tanh values, of rate of change and divergence
  MaxDay

One == 100

VARIABLES
  day,       \* today
  states     \* newest regime state of a day: << >> or << [ri, tr, norm] >>, where
             \* norm, the indicator before smoothing, is history

vars == <<day, states>>

-----------------------------------------------------------------------------

clip(x, lo, hi) == IF x < lo THEN lo ELSE IF x > hi THEN hi ELSE x

\* Config.Defaults: a parameter that is 0 counts as not given
Default(x, default) == IF x = 0 THEN default ELSE x

SmoothingSpanDays == Default(SpanDays, 21)

\* Mutant: 2 / (span - 1).
alphaFromSpanLess(x, ema, span) == (2 * x + (span - 3) * ema) \div (span - 1)

\* alpha * x + (1 - alpha) * ema, for alpha = 2 / (span + 1)
alphaFromSpan(x, ema, span) == (2 * x + (span - 1) * ema) \div (span + 1)

emaSmooth(raw, prev, span) ==
  IF span <= 1 \/ prev = << >> THEN raw
  ELSE alphaFromSpan(raw,
         FoldLeft(LAMBDA ema, x : alphaFromSpan(x, ema, span), Head(prev), Tail(prev)), span)

\* a baseline outside [0, 1) counts as none
Baseline ==
  LET baseline == Default(TransitionBaseline, 30) IN IF baseline \in 0 .. One - 1 THEN baseline ELSE 0

computeTransitionRisk(roc, div, consistent) ==
  LET raw     == (Default(RocWeight, 70) * roc + Default(DivergenceWeight, 30) * div) \div One
      shifted == clip(((raw - Baseline) * One) \div (One - Baseline), 0, One)
  IN  IF consistent THEN (7 * shifted) \div 10 ELSE shifted

normIndicator(sum) == clip(sum, -2 * One, 2 * One)

\* GetSmoothingTrailing: the states of the days before, in order of the days
Trail(d) ==
  LET saved == {x \in 0 .. MaxDay : x < d /\ x >= d - 2 * SmoothingSpanDays /\ states[x] # << >>}
  IN  [i \in DOMAIN SetToSortSeq(saved, <) |-> states[SetToSortSeq(saved, <)[i]][1]]

Of(trail, field) == [i \in DOMAIN trail |-> trail[i][field]]

\* computeOne, from the sum of the scores on
RegimeState(d, norm, risk) ==
  [ri |-> emaSmooth(norm, Of(Trail(d), "ri"), SmoothingSpanDays),
   tr |-> clip(emaSmooth(risk, Of(Trail(d), "tr"), SmoothingSpanDays), 0, One),
   norm |-> norm]

\* RegimeState.Validate; the two probabilities are products of tr and a sigmoid
Validate(state) == state.ri \in -One .. One /\ state.tr \in 0 .. One

Init == day = 0 /\ states = [d \in 0 .. MaxDay |-> << >>]

NextDay == day < MaxDay /\ day' = day + 1 /\ UNCHANGED states

\* a state that is not valid is not saved
Compute(d, sum, tanh, consistent) ==
  LET state == RegimeState(d, normIndicator(sum), computeTransitionRisk(tanh[1], tanh[2], consistent))
  IN  /\ Validate(state)
      /\ states' = [states EXCEPT ![d] = << state >>]
      /\ UNCHANGED day

Next ==
  \/ NextDay
  \/ \E d \in 0 .. day, sum \in Sums, tanh \in Tanhs, consistent \in BOOLEAN :
       Compute(d, sum, tanh, consistent)

Spec == Init /\ [][Next]_vars

-----------------------------------------------------------------------------

(***************************************************************************)
(* A day whose normalised indicator lies in [-1, 1] is never refused,      *)
(* whichever days before were refused for lying beyond, missed or computed *)
(* again, and whatever its transition risk: smoothing by a chain of        *)
(* smoothed states does not leave the range Validate admits.               *)
(***************************************************************************)
ModerateDaysSaved ==
  \A d \in 0 .. day, norm \in {-One, 0, One}, tanh \in Tanhs, consistent \in BOOLEAN :
    Validate(RegimeState(d, norm, computeTransitionRisk(tanh[1], tanh[2], consistent)))

(***************************************************************************)
(* What configs/regime-engine.yaml says: a span of 0 or 1 disables the     *)
(* smoothing, so the state has the indicator of the day itself.            *)
(***************************************************************************)
ZeroSpanDisables ==
  SpanDays \in {0, 1} => \A d \in 0 .. MaxDay : states[d] # << >> => states[d][1].ri = states[d][1].norm
=============================================================================
