----------------------------- MODULE Pagination -----------------------------
(***************************************************************************)
(* The loops that fetch a history page by page from a provider: Binance,   *)
(* Coinbase, Bybit, Coin Metrics, OKX, and the services' own loop over     *)
(* CoinGlass.  A behaviour is one call of one of them.                     *)
(*                                                                         *)
(* A point is a time and a side (of a liquidation order; the other         *)
(* histories have one side).  The unit of time is what the loop adds to or *)
(* takes from its cursor: a millisecond, or a day for CoinGlass.  Between  *)
(* two requests the provider may publish newer points, and any request may *)
(* fail.                                                                   *)
(***************************************************************************)
EXTENDS Integers, Sequences, FiniteSets

CONSTANTS
  Start, End,    \* the range the caller asks for
  Limit,         \* the page size a loop asks for
  Caps,          \* page sizes a provider may have itself
  WindowLen,     \* the length of a window of the loops over windows
  MinDate,       \* coinglassAggMinDate
  MaxPages,      \* coinglassAggMaxPages
  DayLen,        \* units of time in a day
  MaxTime,       \* bound: the time of the newest point
  MaxRepeats     \* bound: the pages taken by a loop that repeats itself

ASSUME PaginationAssumption ==
  /\ Start \in Nat \ {0} /\ End \in Nat /\ Start < End
  /\ Limit \in Nat \ {0} /\ Caps \subseteq Nat \ {0} /\ Caps # {}
  /\ WindowLen \in Nat \ {0} /\ MinDate \in Nat /\ MaxPages \in Nat \ {0}
  /\ DayLen \in Nat \ {0} /\ MaxTime \in Nat /\ MaxRepeats \in Nat

VARIABLES
  pager,      \* the function called
  cap,        \* the most points the provider puts on a page
  reading,    \* how the provider reads the cursor: as it is "meant" by the loop,
              \* "reversed", an upper bound as a lower one, or not at all ("ignored"),
              \* so that it answers every request as it does the first
  published,  \* the points the provider has
  first,      \* history: the points it had when the call began
  cursor,     \* where the next page starts, or NoCursor
  oldestSeen, \* prevOldest of the CoinGlass loop
  pages,      \* the points appended to the result, page by page
  status      \* "fetching", "done" or "failed"

vars == <<pager, cap, reading, published, first, cursor, oldestSeen, pages, status>>

NoCursor == -1

Forward    == {"binance funding", "binance liquidations", "binance klines"}
Windows    == {"coinbase candles", "bybit funding"}
Tokens     == {"coinmetrics netflow", "bybit open interest"}
CoinGlass  == {"coinglass open interest", "coinglass liquidations"}
Okx        == {"okx open interest", "okx funding"}
Descending == CoinGlass \cup Okx
Pagers     == Forward \cup Windows \cup Tokens \cup Descending \cup {"binance open interest"}

-----------------------------------------------------------------------------
(* Providers *)

Time(p) == p[1]
Day(p)  == Time(p) \div DayLen

Sides(q) == IF q = "binance liquidations" THEN {"BUY", "SELL"} ELSE {"-"}

\* the order of a history; orders of one millisecond have an arbitrary but fixed one
Before(p, q) == Time(p) < Time(q) \/ (Time(p) = Time(q) /\ p[2] = "BUY" /\ q[2] = "SELL")

Oldest(S, n) == {p \in S : Cardinality({q \in S : Before(q, p)}) < n}
Newest(S, n) == {p \in S : Cardinality({q \in S : Before(p, q)}) < n}

older == reading = "meant"

FirstCursor == IF pager \in Forward \cup Windows THEN Start ELSE NoCursor

\* the cursor that the provider goes by
Heard(c) == IF reading = "ignored" THEN FirstCursor ELSE c

Between(a, b) == {p \in published : Time(p) \in a .. b}

MinTime(S) == CHOOSE t \in {Time(p) : p \in S} : \A p \in S : t <= Time(p)
LastTime(S) == CHOOSE t \in {Time(p) : p \in S} : \A p \in S : Time(p) <= t

Min(a, b) == IF a < b THEN a ELSE b

-----------------------------------------------------------------------------

Out == UNION {pages[k] : k \in DOMAIN pages}

\* the points of the result, as often as they were appended
Times(p) == Cardinality({k \in DOMAIN pages : p \in pages[k]})

\* the direction of OKX's `before` is in doubt; a window has no cursor but its ends
Readings(q) ==
  {r \in {"meant", "reversed", "ignored"} :
     /\ r = "reversed" => q \in Okx
     /\ r = "ignored" => q \notin Windows \cup {"binance open interest"}}

Init ==
  /\ pager \in Pagers
  /\ cap \in Caps
  /\ reading \in Readings(pager)
  /\ published \in SUBSET ((1 .. MaxTime) \X Sides(pager))
  /\ first = published
  /\ cursor = FirstCursor
  /\ oldestSeen = NoCursor
  /\ pages = << >>
  /\ status = "fetching"

\* a newer point appears at the provider
Publish ==
  /\ status = "fetching"
  /\ \E p \in (1 .. MaxTime) \X Sides(pager) :
       /\ \A q \in published : Time(q) < Time(p)
       /\ published' = published \cup {p}
  /\ UNCHANGED <<pager, cap, reading, first, cursor, oldestSeen, pages, status>>

\* the loops that do not compare a page with what they have do not notice that the
\* provider ignores their cursor: they go on as long as the first page tells them to
Unnoticed == reading = "ignored" /\ pager \in Forward \cup Tokens \cup {"okx funding"}

Call(q) ==
  /\ status = "fetching" /\ pager = q
  /\ Unnoticed => Len(pages) < MaxRepeats
  /\ UNCHANGED <<pager, cap, reading, published, first>>

Append1(page) == pages' = Append(pages, page)

Finish(ended) == status' = IF ended THEN "done" ELSE "fetching"

\* a request fails, answers with a status or code that is an error, or cannot be
\* decoded: the caller gets the error and none of the points
Fail ==
  /\ status = "fetching"
  /\ status' = "failed"
  /\ pages' = << >>
  /\ UNCHANGED <<pager, cap, reading, published, first, cursor, oldestSeen>>

-----------------------------------------------------------------------------
(* Binance: ascending pages, the cursor is one past the last point *)

\* Mutant: the cursor skips a point.
NextCursorSkips(page) == LastTime(page) + 2

\* Mutant: the cursor is the last point itself.
NextCursorAgain(page) == LastTime(page)

NextCursor(page) == LastTime(page) + 1

\* Mutant: a full page counts as the last one.
ShortPageOff(page, asked) == Cardinality(page) <= asked

ShortPage(page, asked) == Cardinality(page) < asked

ForwardPage(asked) ==
  LET page == Oldest(Between(Heard(cursor), End), Min(asked, cap))
  IN  /\ UNCHANGED oldestSeen
      /\ \/ page = {} /\ Finish(TRUE) /\ UNCHANGED <<cursor, pages>>
         \/ /\ page # {}
            /\ Append1(page)
            /\ cursor' = NextCursor(page)
            /\ Finish(ShortPage(page, asked) \/ NextCursor(page) >= End)

FetchFundingRateHistory == Call("binance funding") /\ ForwardPage(Limit)

FetchLiquidations == Call("binance liquidations") /\ ForwardPage(Limit)

FetchKlines == Call("binance klines") /\ ForwardPage(Limit)

\* the daily sums of FetchLiquidations: orders of one day and side
Buckets ==
  [d \in 0 .. MaxTime \div DayLen |->
    [s \in Sides("binance liquidations") |->
      Cardinality({e \in (DOMAIN pages) \X Out :
                     e[2] \in pages[e[1]] /\ Day(e[2]) = d /\ e[2][2] = s})]]

\* FetchOpenInterest: a page of daily values, then the live value if its day has none
OpenInterestHistory ==
  LET hist == Newest(published, cap)
  IN  /\ Call("binance open interest")
      /\ pages = << >>
      /\ Append1({p \in hist : \A q \in hist : Day(q) = Day(p) => ~Before(q, p)})
      /\ UNCHANGED <<cursor, oldestSeen, status>>

\* Mutant: the live value is added even if the history has its day.
OpenInterestSnapshotAlways ==
  /\ Call("binance open interest")
  /\ pages # << >>
  /\ Append1(Newest(published, 1))
  /\ Finish(TRUE)
  /\ UNCHANGED <<cursor, oldestSeen>>

OpenInterestSnapshot ==
  /\ Call("binance open interest")
  /\ pages # << >>
  /\ Append1({p \in Newest(published, 1) : \A q \in Out : Day(q) # Day(p)})
  /\ Finish(TRUE)
  /\ UNCHANGED <<cursor, oldestSeen>>

-----------------------------------------------------------------------------
(* Coinbase, Bybit: one request per window, both ends included *)

WindowPage ==
  LET windowEnd == Min(cursor + WindowLen, End)
  IN  /\ Append1(Newest(Between(cursor, windowEnd), cap))
      /\ cursor' = windowEnd
      /\ Finish(windowEnd >= End)
      /\ UNCHANGED oldestSeen

FetchCandles == Call("coinbase candles") /\ WindowPage

BybitFundingRateHistory == Call("bybit funding") /\ WindowPage

-----------------------------------------------------------------------------
(* Coin Metrics, Bybit: the provider says where the next page starts *)

\* the rest of the range after the last point handed out, and whether it has more
Rest == {p \in Between(Start, End) : Heard(cursor) = NoCursor \/ Time(p) > Heard(cursor)}
HasMore(page) == \E p \in Rest : \A q \in page : Before(q, p)

TokenPage(page) ==
  /\ Append1(page)
  /\ cursor' = IF page = {} THEN cursor ELSE LastTime(page)
  /\ Finish(~HasMore(page))
  /\ UNCHANGED oldestSeen

FetchExchangeNetflow == Call("coinmetrics netflow") /\ TokenPage(Oldest(Rest, cap))

\* an empty list ends the loop, whatever the cursor is
BybitOpenInterest ==
  LET page == Oldest(Rest, cap)
  IN  /\ Call("bybit open interest")
      /\ \/ page = {} /\ Finish(TRUE) /\ UNCHANGED <<cursor, oldestSeen, pages>>
         \/ page # {} /\ TokenPage(page)

-----------------------------------------------------------------------------
(* OKX, CoinGlass: descending pages *)

\* the newest points, or those on one side of the cursor
NewestFrom(bound) ==
  LET b == Heard(bound)
  IN  Newest({p \in published : \/ b = NoCursor
                                \/ older /\ Time(p) <= b
                                \/ ~older /\ Time(p) >= b}, cap)

\* Mutant: a page that brings nothing new does not end the loop.
OkxOpenInterestOn ==
  LET page  == NewestFrom(cursor)
      fresh == page \ Out
  IN  /\ Call("okx open interest")
      /\ UNCHANGED oldestSeen
      /\ \/ fresh = {} /\ Finish(page = {}) /\ UNCHANGED <<cursor, pages>>
         \/ fresh # {} /\ Append1(fresh) /\ cursor' = MinTime(fresh) - 1 /\ Finish(FALSE)

\* points seen before are dropped, and a page of nothing else ends the loop
OkxOpenInterest ==
  LET fresh == NewestFrom(cursor) \ Out
  IN  /\ Call("okx open interest")
      /\ UNCHANGED oldestSeen
      /\ \/ fresh = {} /\ Finish(TRUE) /\ UNCHANGED <<cursor, pages>>
         \/ fresh # {} /\ Append1(fresh) /\ cursor' = MinTime(fresh) - 1 /\ Finish(FALSE)

\* the last point of a page is the cursor, which the provider leaves out
OkxBefore == IF cursor = NoCursor THEN NoCursor ELSE IF older THEN cursor - 1 ELSE cursor + 1

OkxFundingRateHistory ==
  LET page == NewestFrom(OkxBefore)
  IN  /\ Call("okx funding")
      /\ UNCHANGED oldestSeen
      /\ \/ page = {} /\ Finish(TRUE) /\ UNCHANGED <<cursor, pages>>
         \/ /\ page # {}
            /\ Append1({p \in page : Time(p) >= Start})
            /\ cursor' = MinTime(page)
            /\ Finish(MinTime(page) < Start)

\* the page of the histories aggregated over the exchanges that ends at a date
AggregatedPage(end) == NewestFrom(end)

FetchAggregatedOIHistory(end) == AggregatedPage(end)

FetchAggregatedLiquidationHistory(end) == AggregatedPage(end)

\* at most MaxPages pages, and none after one that reaches the first date or no further
\* back than the last; a map by date keeps every point once
BackfillAggregated(page) ==
  LET oldest == MinTime(page)
  IN  \/ page = {} /\ Finish(TRUE) /\ UNCHANGED <<cursor, oldestSeen, pages>>
      \/ /\ page # {}
         /\ Append1(page \ Out)
         /\ oldestSeen' = oldest
         /\ cursor' = oldest - 1
         /\ Finish(\/ oldest <= MinDate
                   \/ oldestSeen # NoCursor /\ oldest >= oldestSeen
                   \/ Len(pages) + 1 = MaxPages)

backfillAggregatedOI ==
  Call("coinglass open interest") /\ BackfillAggregated(FetchAggregatedOIHistory(cursor))

backfillAggregatedLiquidations ==
  Call("coinglass liquidations") /\ BackfillAggregated(FetchAggregatedLiquidationHistory(cursor))

-----------------------------------------------------------------------------

Step ==
  \/ FetchFundingRateHistory \/ FetchLiquidations \/ FetchKlines
  \/ OpenInterestHistory \/ OpenInterestSnapshot
  \/ FetchCandles \/ BybitFundingRateHistory
  \/ FetchExchangeNetflow \/ BybitOpenInterest
  \/ OkxOpenInterest \/ OkxFundingRateHistory
  \/ backfillAggregatedOI \/ backfillAggregatedLiquidations

Next == Publish \/ Step \/ Fail

Spec == Init /\ [][Next]_vars /\ WF_vars(Step)

-----------------------------------------------------------------------------
(* Properties *)

\* a later order of a millisecond of which an earlier one closed a full page
LostTie(p) == pager = "binance liquidations" /\ \E q \in Out : Time(q) = Time(p)

(***************************************************************************)
(* A history that was cut short (a provider with smaller pages than the    *)
(* loop asks for, a cursor reversed or ignored, too many pages) is cut at  *)
(* one end: an ascending loop has every point before the last it returns,  *)
(* a descending one every point after the first, whatever was published    *)
(* meanwhile.  The one exception: orders of the millisecond at which a     *)
(* page of liquidations ends.                                              *)
(***************************************************************************)
NoHoles ==
  \A p \in first \ Out :
    /\ pager \in Forward \cup Tokens /\ Time(p) \in Start .. End =>
         \A q \in Out : Time(q) < Time(p) \/ LostTie(p)
    /\ pager \in Descending /\ (pager = "okx funding" => Time(p) >= Start) =>
         \A q \in Out : Time(p) < Time(q)

\* the points a call is asked for
Asked ==
  {p \in first :
    CASE pager \in Forward               -> Start <= Time(p) /\ Time(p) < End
      [] pager \in Tokens                -> Time(p) \in Start .. End
      \* 301 candles fit in a window of 300: the first of the range may be lost
      [] pager \in Windows               -> Start < Time(p) /\ Time(p) <= End
      [] pager = "okx funding"           -> Start <= Time(p)
      [] pager = "okx open interest"     -> TRUE
      [] pager \in CoinGlass             -> MinDate <= Time(p)
      [] pager = "binance open interest" -> FALSE}

\* the provider keeps what the loop counts on
Suits ==
  /\ pager \in Forward => cap >= Limit
  /\ pager \in Windows => cap >= WindowLen
  /\ older
  /\ pager \in CoinGlass => Cardinality(published) <= cap * MaxPages

(***************************************************************************)
(* A call that ends without an error has every point the provider had in   *)
(* the range when it began, if the provider's pages are as large as the    *)
(* loop asks for (or hold a window, or ten hold the history) and it reads  *)
(* the cursor as the loop means it.                                        *)
(***************************************************************************)
Complete == status = "done" /\ Suits => \A p \in Asked \ Out : LostTie(p)

(***************************************************************************)
(* Nothing is counted twice in what a call returns: the daily sums of      *)
(* FetchLiquidations have no order twice, FetchOpenInterest has one value  *)
(* per day even when midnight passes between its two requests, and no loop *)
(* returns a point twice but those over windows, at the border of two, and *)
(* the funding rates of OKX if it reads the cursor as a lower bound.  A    *)
(* loop that takes a page again and again returns nothing at all.          *)
(***************************************************************************)
CountedOnce ==
  status = "done" =>
    /\ pager = "binance liquidations" =>
         \A d \in DOMAIN Buckets : \A s \in DOMAIN Buckets[d] :
           Buckets[d][s] <= Cardinality({p \in published : Day(p) = d /\ p[2] = s})
    /\ pager = "binance open interest" => \A p, q \in Out : p = q \/ Day(p) # Day(q)
    /\ \A p \in Out :
         \/ Times(p) = 1
         \/ pager \in Windows /\ Times(p) = 2 /\ (Time(p) - Start) % WindowLen = 0
         \/ pager = "okx funding" /\ reading = "reversed"

(***************************************************************************)
(* Which calls end.  The loops over windows, the two requests of Binance's *)
(* open interest, OKX's open interest, which drops what it has seen, and   *)
(* CoinGlass's, which stop at a page that goes no further back, end        *)
(* whatever the provider makes of the cursor; the others end if the        *)
(* provider goes by it, in either direction, also with pages of another    *)
(* size than asked for and points published in between.                    *)
(***************************************************************************)
Ends == <>(status # "fetching" \/ Unnoticed)
=============================================================================
