------------------------- MODULE Classifier_proofs -------------------------
(***************************************************************************)
(* Theorems about Classifier, for every configuration that passes          *)
(* HysteresisConfig.Validate and all values of indicator and risk.         *)
(***************************************************************************)
EXTENDS Classifier, TLAPS

\* the values of the last change lie beyond the thresholds it crossed
Crossed(to) ==
  /\ change.from = "risk_on" =>
       change.ri <= RiskOnExit \/ (to = "transition" /\ change.tr >= TransitionEnter)
  /\ change.from = "risk_off" =>
       change.ri >= RiskOffExit \/ (to = "transition" /\ change.tr >= TransitionEnter)
  /\ change.from = "transition" => change.tr < TransitionExit
  /\ to = "risk_on" => change.from = "none" \/ change.ri > RiskOnEnter
  /\ to = "risk_off" => change.from = "none" \/ change.ri < RiskOffEnter

\* TypeOK, and the values of the last change
IInv == TypeOK /\ Crossed(label)

(***************************************************************************)
(* What a change of label says about the day's values: each label is       *)
(* entered beyond its entry threshold and left beyond its exit threshold.  *)
(***************************************************************************)
LEMMA ChangeCrosses ==
  ASSUME NEW prev \in Labels, NEW ri \in Int, NEW tr \in Int,
         ClassifyHysteresis(prev, ri, tr) # prev
  PROVE  LET to == ClassifyHysteresis(prev, ri, tr)
         IN  /\ to \in Labels
             /\ prev = "risk_on" => ri <= RiskOnExit \/ (to = "transition" /\ tr >= TransitionEnter)
             /\ prev = "risk_off" => ri >= RiskOffExit \/ (to = "transition" /\ tr >= TransitionEnter)
             /\ prev = "transition" => tr < TransitionExit
             /\ to = "risk_on" => ri > RiskOnEnter
             /\ to = "risk_off" => ri < RiskOffEnter
  <1>1. CASE prev = "risk_on"
    BY <1>1, ClassifierAssumption DEF ClassifyHysteresis, FromRiskOn, Labels, Validate
  <1>2. CASE prev = "risk_off"
    BY <1>2, ClassifierAssumption DEF ClassifyHysteresis, FromRiskOff, Labels, Validate
  <1>3. CASE prev = "transition"
    BY <1>3, ClassifierAssumption DEF ClassifyHysteresis, FromTransition, Labels, Validate
  <1>. QED  BY <1>1, <1>2, <1>3 DEF Labels

\* a day keeps its label or crosses a threshold
LEMMA StepKeepsInvariant ==
  ASSUME IInv, [Next]_vars
  PROVE  IInv'
  <1>1. CASE UNCHANGED vars
    BY <1>1 DEF IInv, TypeOK, Crossed, vars
  <1>2. CASE Next
    <2>1. PICK ri \in Indicators, tr \in Risks : NextDay(ri, tr)
      BY <1>2 DEF Next
    <2>2. ri \in Int /\ tr \in Int
      BY ClassifierAssumption
    <2>3. CASE label' = label
      BY <2>1, <2>3 DEF NextDay, IInv, TypeOK, Crossed
    <2>4. CASE label' # label
      <3>1. label \in Labels
        BY DEF IInv, TypeOK
      <3>2. change' = [from |-> label, ri |-> ri, tr |-> tr] /\ label' = ClassifyHysteresis(label, ri, tr)
        BY <2>1, <2>4 DEF NextDay
      <3>3. label' \in Labels
        BY <3>1, <3>2, <2>2, <2>4, ChangeCrosses
      <3>4. TypeOK'
        BY <3>1, <3>2, <3>3, <2>2, <2>4 DEF TypeOK
      <3>5. Crossed(label)'
        BY <3>1, <3>2, <2>2, <2>4, ChangeCrosses DEF Crossed
      <3>. QED  BY <3>4, <3>5 DEF IInv
    <2>. QED  BY <2>3, <2>4
  <1>. QED  BY <1>1, <1>2

\* the invariant says how far the values have moved when the label returns
LEMMA ReturnMoves ==
  ASSUME IInv, Next, Returns
  PROVE  Moved(change'.ri, change'.tr)
  <1>1. PICK ri \in Indicators, tr \in Risks : NextDay(ri, tr)
    BY DEF Next
  <1>2. /\ ri \in Int /\ tr \in Int /\ label \in Labels
        /\ change.ri \in Int /\ change.tr \in Int
    BY ClassifierAssumption DEF IInv, TypeOK
  <1>3. label' # label /\ label' = change.from /\ label' = ClassifyHysteresis(label, ri, tr)
        /\ change' = [from |-> label, ri |-> ri, tr |-> tr]
    BY <1>1 DEF Returns, NextDay
  <1>. DEFINE to == label'
  <1>4. /\ to \in Labels
        /\ label = "risk_on" => ri <= RiskOnExit \/ (to = "transition" /\ tr >= TransitionEnter)
        /\ label = "risk_off" => ri >= RiskOffExit \/ (to = "transition" /\ tr >= TransitionEnter)
        /\ label = "transition" => tr < TransitionExit
        /\ to = "risk_on" => ri > RiskOnEnter
        /\ to = "risk_off" => ri < RiskOffEnter
    BY <1>2, <1>3, ChangeCrosses
  <1>5. Crossed(label) /\ change.from = to /\ change'.ri = ri /\ change'.tr = tr
    BY <1>3 DEF IInv
  <1>6. CASE label = "risk_on"
    BY <1>2, <1>4, <1>5, <1>6, ClassifierAssumption DEF Crossed, Moved, Apart, Labels, Validate
  <1>7. CASE label = "risk_off"
    BY <1>2, <1>4, <1>5, <1>7, ClassifierAssumption DEF Crossed, Moved, Apart, Labels, Validate
  <1>8. CASE label = "transition"
    BY <1>2, <1>3, <1>4, <1>5, <1>8, ClassifierAssumption DEF Crossed, Moved, Apart, Labels, Validate
  <1>. QED  BY <1>2, <1>6, <1>7, <1>8 DEF Labels

(***************************************************************************)
(* Types, and the values at which labels change.                           *)
(***************************************************************************)
THEOREM Invariance == Spec => []IInv
  <1>1. Init => IInv
    BY DEF Init, IInv, TypeOK, Crossed, Labels
  <1>2. IInv /\ [Next]_vars => IInv'
    BY StepKeepsInvariant
  <1>. QED  BY <1>1, <1>2, PTL DEF Spec

(***************************************************************************)
(* ClassifyHysteresis always gives a label, and changes are changes.       *)
(***************************************************************************)
THEOREM TypeCorrect == Spec => []TypeOK
  <1>1. IInv => TypeOK
    BY DEF IInv
  <1>. QED  BY <1>1, Invariance, PTL

(***************************************************************************)
(* The labels of ClassifyHysteresis do not flip back and forth unless a    *)
(* value moves through a dead band, for every valid configuration.         *)
(***************************************************************************)
THEOREM LabelsDoNotFlipFlop == Spec => NoFlipFlop
  <1>1. IInv /\ [Next]_vars => [Returns => Moved(change'.ri, change'.tr)]_vars
    BY ReturnMoves
  <1>. QED  BY <1>1, Invariance, PTL DEF Spec, NoFlipFlop
=============================================================================
