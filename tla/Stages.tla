------------------------------- MODULE Stages -------------------------------
(***************************************************************************)
(* The vocabulary of the domain tables: a feed is one ingest step of a     *)
(* domain service, a stage is one feature it computes.                     *)
(*                                                                         *)
(* A stage has alternatives, tried in order; an alternative is a set of    *)
(* reads that must all find a value.                                       *)
(***************************************************************************)

\* kind: "history"  the provider returns its whole dated history
\*       "ranged"   the provider returns the requested range
\*       "padded"   the same, and a backfill's range starts as early as a live tick's
\*       "today"    a live snapshot, filed under the current day
\*       "asked"    a live snapshot, filed under the requested day
\*       "feature"  a live snapshot saved directly as features of the requested day
\* fatal: a failed fetch is returned as an error; otherwise it is logged
\* event: the save is followed by publisher.Publish
Feed(name, kind, fatal, event) ==
  [name |-> name, kind |-> kind, fatal |-> fatal, event |-> event, leads |-> 0]

\* the next n feeds are fetched only if this one returned something
Leading(feed, n) == [feed EXCEPT !.leads = n]

Raw(f)       == [read |-> "raw", of |-> f]        \* raw row of the day
RawPast(f)   == [read |-> "rawPast", of |-> f]    \* raw row of Lag days before
RawSeries(f) == [read |-> "rawSeries", of |-> f]  \* raw rows of the window
RawWindow(f) == [read |-> "rawWindow", of |-> f]  \* a raw row for every day of the window
RawCoin      == [read |-> "rawCoin", of |-> "mcap"]   \* market cap of the asset's coin
Mem(f)       == [read |-> "mem", of |-> f]        \* local variable of the same pass
Grown(f)     == [read |-> "grown", of |-> f]      \* a series with the current value appended
Latest(f)    == [read |-> "latest", of |-> f]     \* feature of the day
PastOf(f)    == [read |-> "past", of |-> f]       \* feature of Lag days before
Series(f)    == [read |-> "series", of |-> f]     \* features of the window

First(out, alts) == [out |-> out, alts |-> alts]

From(out, reads) == First(out, <<reads>>)

ZScore(out, f) == From(out, {Series(f)})

Change(out, f) == From(out, {Latest(f), PastOf(f)})
=============================================================================
