------------------------------- MODULE Metrics -------------------------------
(***************************************************************************)
(* The statistics of a backtest (internal/backtest/metrics.go and          *)
(* cmd/backtest-metrics) over the labelled days of a run and the prices:   *)
(* persistence, lead times, filled prices, drawdown and the toy strategy.  *)
(* Fractions are pairs of integers; what is annualised or in logarithms is *)
(* left out.                                                               *)
(***************************************************************************)
EXTENDS Integers, Sequences, FiniteSets

CONSTANTS
  ShortRun,          \* a run of at most so many days is a flip-flop (7)
  maxGapDays,        \* a price is carried on for so many days (7)
  LeadDays, LagDays, \* the days about the peak of an event (14 and 3)
  CostDivisor,       \* 1 / rebalanceCost (2000)
  Prices,            \* prices, positive
  MaxDays, Gaps      \* bounds: days of a run, distances between two of them

VARIABLES
  days,     \* the states of a run in the order of their dates: [date, label]
  prices    \* dates with a price, and the price

DayLabels == {"risk_on", "risk_off", "transition"}

Init == days = << >> /\ prices = << >>

\* the prices there are: of the date the given one, if any
AddPrice(date, price) ==
  prices' = [d \in DOMAIN prices \cup {date : p \in price} |->
              IF d = date THEN CHOOSE p \in price : TRUE ELSE prices[d]]

\* the next state of the run, with a price on its date or without
AddDay(gap, lbl, price) ==
  LET date == IF days = << >> THEN gap ELSE days[Len(days)].date + gap
  IN  /\ Len(days) < MaxDays
      /\ days' = Append(days, [date |-> date, label |-> lbl])
      /\ AddPrice(date, price)

\* the statistics of another run
AnotherRun == days # << >> /\ days' = << >> /\ prices' = << >>

Next ==
  \/ AnotherRun
  \/ \E gap \in Gaps, lbl \in DayLabels, price \in {{}} \cup {{p} : p \in Prices} : AddDay(gap, lbl, price)

-----------------------------------------------------------------------------
(* PersistenceMetrics *)

\* a state of another label, or after a day without one, starts a run
StartsRun(i, lbl) == days[i].label # lbl \/ days[i].date - days[i - 1].date > 1

\* the runs of the first i days
runs[i \in Nat] ==
  IF i = 0 THEN << >>
  ELSE LET new  == [label |-> days[i].label, start |-> i, end |-> i]
           last == Len(runs[i - 1])
       IN  IF i = 1 \/ StartsRun(i, runs[i - 1][last].label)
             THEN Append(runs[i - 1], new)
             ELSE [runs[i - 1] EXCEPT ![last].end = i]

Runs == runs[Len(days)]

Transitions(rs) == Len(rs) - 1

\* Mutant: the length of a run is counted without its last day.
flipFlopsShort(rs) ==
  Cardinality({i \in 2 .. Len(rs) - 1 :
    rs[i].end - rs[i].start <= ShortRun /\ rs[i + 1].label = rs[i - 1].label})

flipFlops(rs) ==
  Cardinality({i \in 2 .. Len(rs) - 1 :
    rs[i].end - rs[i].start + 1 <= ShortRun /\ rs[i + 1].label = rs[i - 1].label})

-----------------------------------------------------------------------------
(* EventLeadTimes *)

\* how many days before the peak a signal first fires; it fires on the dates fired
firstOffset(peak, fired) ==
  {-o : o \in {o \in -LeadDays .. LagDays :
                 peak + o \in fired /\ \A x \in -LeadDays .. o - 1 : peak + x \notin fired}}

-----------------------------------------------------------------------------
(* forwardFillDaily *)

\* the date of the last price on day d: the loop carries it from day to day
lastDate[d \in Nat] ==
  IF d \in DOMAIN prices THEN {d} ELSE IF d = 0 THEN {} ELSE lastDate[d - 1]

forwardFillDaily(d) == {prices[x] : x \in {x \in lastDate[d] : d - x <= maxGapDays}}

-----------------------------------------------------------------------------
(* maxDrawdown *)

\* the peak and the worst loss, as a fraction of the peak of its time, of the first i
\* values of s
Drawdown(s) ==
  LET to[i \in Nat] ==
        IF i = 0 THEN [peak |-> s[1], loss |-> 0, of |-> 1]
        ELSE LET before == to[i - 1]
                 peak   == IF s[i] > before.peak THEN s[i] ELSE before.peak
             IN  IF (peak - s[i]) * before.of > before.loss * peak
                   THEN [peak |-> peak, loss |-> peak - s[i], of |-> peak]
                   ELSE [before EXCEPT !.peak = peak]
  IN  to[Len(s)]

maxDrawdown(s) == IF s = << >> THEN [loss |-> 0, of |-> 1] ELSE Drawdown(s)

-----------------------------------------------------------------------------
(* ToyStrategy *)

\* the states with a price
series == SelectSeq(days, LAMBDA d : d.date \in DOMAIN prices)

Price(i) == prices[series[i].date]

\* the share held, in halves
weightFor(lbl) == CASE lbl = "risk_on" -> 2 [] lbl = "risk_off" -> 0 [] OTHER -> 1

Abs(x) == IF x < 0 THEN -x ELSE x

\* from one priced day to the next: pay for the turnover, then hold the share of the
\* new day over the return
equity[i \in Nat] ==
  IF i <= 1 THEN [num |-> 1, den |-> 1]
  ELSE LET weight   == weightFor(series[i].label)
           turnover == Abs(weight - weightFor(series[i - 1].label))
           p0 == Price(i - 1)
           p1 == Price(i)
       IN  [num |-> equity[i - 1].num * (2 * CostDivisor - turnover) * (2 * p0 + weight * (p1 - p0)),
            den |-> equity[i - 1].den * 2 * CostDivisor * 2 * p0]

bh(i) == [num |-> Price(i), den |-> Price(1)]

\* the values whose drawdown is taken: from the second priced day on
bhSeries == [i \in 1 .. Len(series) - 1 |-> Price(i + 1)]

-----------------------------------------------------------------------------
(* Properties *)

Same(a, b) == a.num * b.den = b.num * a.den

\* flip-flops by their definition: a label is left and taken again after at most
\* ShortRun days of one other label
Reversals ==
  {<<i, j>> \in (2 .. Len(days)) \X (2 .. Len(days)) :
    /\ i < j /\ j - i <= ShortRun
    /\ days[i - 1].label = days[j].label /\ days[i].label # days[j].label
    /\ \A k \in i .. j - 1 : days[k].label = days[i].label}

NoGaps == \A i \in 2 .. Len(days) : days[i].date = days[i - 1].date + 1

(***************************************************************************)
(* PersistenceMetrics: the runs cover the days in order, each of one label *)
(* and without a gap; and over days without gaps the transitions are the   *)
(* changes of label and the flip-flops the labels that were left and taken *)
(* again within ShortRun days, as the report says.                         *)
(***************************************************************************)
PersistenceExact ==
  LET rs == Runs IN
    /\ \A r \in 2 .. Len(rs) : rs[r].start = rs[r - 1].end + 1
    /\ \A r \in DOMAIN rs : \A i \in rs[r].start .. rs[r].end :
         /\ days[i].label = rs[r].label
         /\ i > rs[r].start => days[i].date = days[i - 1].date + 1
    /\ NoGaps /\ days # << >> =>
         /\ Transitions(rs) = Cardinality({i \in 2 .. Len(days) : days[i].label # days[i - 1].label})
         /\ flipFlops(rs) = Cardinality(Reversals)

(***************************************************************************)
(* EventLeadTimes: the offset it reports is the longest lead the signal    *)
(* has on the peak within the days looked at, whatever days are missing.   *)
(***************************************************************************)
LeadTimesExact ==
  LET fired == {days[i].date : i \in {i \in DOMAIN days : days[i].label = "risk_off"}}
  IN  \A i \in DOMAIN days : LET peak == days[i].date IN
        \A lead \in -LagDays .. LeadDays :
          lead \in firstOffset(peak, fired) <=>
            peak - lead \in fired /\ \A x \in fired : peak - x > lead => peak - x > LeadDays

(***************************************************************************)
(* forwardFillDaily: a day has the newest price of the last maxGapDays     *)
(* days, never one of a later day.                                         *)
(***************************************************************************)
FillExact ==
  \A i \in DOMAIN days : LET d == days[i].date IN
    forwardFillDaily(d) =
      {prices[x] : x \in {x \in DOMAIN prices : d - maxGapDays <= x /\ x <= d
                            /\ \A y \in DOMAIN prices : y <= d => y <= x}}

(***************************************************************************)
(* maxDrawdown: no loss from a value to a later one is a larger fraction   *)
(* than the one found in one pass, and that one occurs.                    *)
(***************************************************************************)
DrawdownExact ==
  LET s  == bhSeries
      dd == maxDrawdown(s)
      losses == {<<i, j>> \in (DOMAIN s) \X (DOMAIN s) : i <= j}
  IN  /\ \A l \in losses : (s[l[1]] - s[l[2]]) * dd.of <= dd.loss * s[l[1]]
      /\ dd.loss = 0 \/ \E l \in losses : (s[l[1]] - s[l[2]]) * dd.of = dd.loss * s[l[1]]

(***************************************************************************)
(* ToyStrategy: always in risk_on it is buy-and-hold, always in risk_off   *)
(* it keeps its money; without a change of label nothing is paid.          *)
(***************************************************************************)
ConstantLabels ==
  LET labels == {series[i].label : i \in DOMAIN series}
      n      == Len(series)
  IN  /\ n > 1 /\ labels = {"risk_on"}  => Same(equity[n], bh(n))
      /\ n > 1 /\ labels = {"risk_off"} => Same(equity[n], [num |-> 1, den |-> 1])

(***************************************************************************)
(* The statistics of a run are what their names say, for any labels, gaps  *)
(* and missing prices.                                                     *)
(***************************************************************************)
MetricsExact == PersistenceExact /\ LeadTimesExact /\ FillExact /\ DrawdownExact /\ ConstantLabels
=============================================================================
