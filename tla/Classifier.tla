----------------------------- MODULE Classifier -----------------------------
(***************************************************************************)
(* internal/backtest/classifier.go: the label of a replayed day follows    *)
(* from its indicator, its transition risk and the label of the day        *)
(* before.  Numbers are multiples of a unit, such as 0.01.                 *)
(***************************************************************************)
EXTENDS Integers

CONSTANTS
  TransitionEnter, TransitionExit, RiskOnEnter, RiskOnExit, RiskOffEnter, RiskOffExit,
  Indicators, Risks      \* values the replayed states may have

\* HysteresisConfig.Validate
Validate ==
  /\ TransitionEnter > TransitionExit
  /\ RiskOnEnter > RiskOnExit
  /\ RiskOffEnter < RiskOffExit

ASSUME ClassifierAssumption ==
  /\ {TransitionEnter, TransitionExit, RiskOnEnter, RiskOnExit, RiskOffEnter, RiskOffExit} \subseteq Int
  /\ Indicators \subseteq Int /\ Risks \subseteq Int
  /\ Validate

VARIABLES
  label,    \* prev of toRegimeDays
  change    \* history: the last change of label, [from, ri, tr]

vars == <<label, change>>

Labels == {"risk_on", "risk_off", "transition"}

-----------------------------------------------------------------------------

\* a day that was in risk_on, in risk_off, in transition
FromRiskOn(ri) ==
  IF ri > RiskOnExit THEN "risk_on" ELSE IF ri < RiskOffEnter THEN "risk_off" ELSE "transition"

FromRiskOff(ri) ==
  IF ri < RiskOffExit THEN "risk_off" ELSE IF ri > RiskOnEnter THEN "risk_on" ELSE "transition"

\* Mutant: transition is left as soon as the risk is below the level that enters it.
FromTransitionAtEnter(ri, tr) ==
  IF tr >= TransitionEnter THEN "transition"
  ELSE IF ri > RiskOnEnter THEN "risk_on" ELSE IF ri < RiskOffEnter THEN "risk_off" ELSE "transition"

FromTransition(ri, tr) ==
  IF tr >= TransitionExit THEN "transition"
  ELSE IF ri > RiskOnEnter THEN "risk_on" ELSE IF ri < RiskOffEnter THEN "risk_off" ELSE "transition"

ClassifyHysteresis(prev, ri, tr) ==
  IF tr >= TransitionEnter THEN "transition"
  ELSE CASE prev = "risk_on"    -> FromRiskOn(ri)
         [] prev = "risk_off"   -> FromRiskOff(ri)
         [] prev = "transition" -> FromTransition(ri, tr)

\* Mutant: the label before the first day is the empty string.
InitUnset == label = "" /\ change = [from |-> "none", ri |-> 0, tr |-> 0]

Init == label = "transition" /\ change = [from |-> "none", ri |-> 0, tr |-> 0]

\* the loop of toRegimeDays, in the order of the days
NextDay(ri, tr) ==
  /\ label' = ClassifyHysteresis(label, ri, tr)
  /\ change' = IF label' = label THEN change ELSE [from |-> label, ri |-> ri, tr |-> tr]

Next == \E ri \in Indicators, tr \in Risks : NextDay(ri, tr)

Spec == Init /\ [][Next]_vars

-----------------------------------------------------------------------------

(***************************************************************************)
(* Types; a change leads to another label.                                 *)
(***************************************************************************)
TypeOK ==
  /\ label \in Labels
  /\ change \in [from : (Labels \cup {"none"}) \ {label}, ri : Int, tr : Int]

\* a move of a value through a whole dead band
Apart(x, y, gap) == x - y >= gap \/ y - x >= gap

Moved(ri, tr) ==
  \/ Apart(ri, change.ri, RiskOnEnter - RiskOnExit)
  \/ Apart(ri, change.ri, RiskOffExit - RiskOffEnter)
  \/ Apart(tr, change.tr, TransitionEnter - TransitionExit)

Returns == label' # label /\ label' = change.from

(***************************************************************************)
(* The label never flips back and forth on noise: it returns to what it    *)
(* was before its last change only when, since that change, the indicator  *)
(* or the transition risk has moved through a whole dead band.             *)
(***************************************************************************)
NoFlipFlop == [][Returns => Moved(change'.ri, change'.tr)]_vars
=============================================================================
