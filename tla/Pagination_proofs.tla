------------------------- MODULE Pagination_proofs -------------------------
(***************************************************************************)
(* Proofs about the loops over pages, for any history, range, page sizes   *)
(* and bounds, whatever is published and fails between two requests.       *)
(***************************************************************************)
EXTENDS Pagination, Maxima

\* the points a history may have
Points == (1 .. MaxTime) \X Sides(pager)

\* the loop over funding rates asks for what is before its cursor
OkxCursor == pager = "okx funding" => cursor # 0

Typed ==
  /\ pager \in Pagers /\ cap \in Nat \ {0} /\ reading \in Readings(pager)
  /\ published \subseteq Points /\ first \subseteq published
  /\ cursor \in Nat \cup {NoCursor} /\ (pager \in Forward \cup Windows => cursor \in Nat)
  /\ OkxCursor
  /\ pages \in Seq(SUBSET published)
  /\ status \in {"fetching", "done", "failed"}

-----------------------------------------------------------------------------
(* Points and pages *)

\* the configuration, one parameter at a time
LEMMA Params ==
  /\ Start \in Nat \ {0} /\ End \in Nat /\ Start < End /\ Limit \in Nat \ {0}
  /\ WindowLen \in Nat \ {0} /\ MinDate \in Nat /\ MaxPages \in Nat \ {0}
  /\ DayLen \in Nat \ {0} /\ MaxTime \in Nat
  /\ \A c \in Caps : c \in Nat \ {0}
BY PaginationAssumption

\* a point is its time and its side, which only liquidations have two of
LEMMA PointParts ==
  ASSUME NEW p \in Points
  PROVE  /\ Time(p) \in 1 .. MaxTime /\ Time(p) \in Nat /\ p[2] \in Sides(pager) /\ p = <<Time(p), p[2]>>
         /\ p[2] = "-" \/ (pager = "binance liquidations" /\ p[2] \in {"BUY", "SELL"})
<1>1. Time(p) \in 1 .. MaxTime /\ p[2] \in Sides(pager) /\ p = <<Time(p), p[2]>>
  BY Params DEF Points, Time
<1>2. Time(p) \in Nat
  BY <1>1, Params
<1>3. CASE pager = "binance liquidations"
  BY <1>1, <1>2, <1>3 DEF Sides
<1>4. CASE pager # "binance liquidations"
  <2>1. p[2] = "-"
    BY <1>1, <1>4 DEF Sides
  <2>2. QED
    BY <1>1, <1>2, <2>1
<1>5. QED
  BY <1>3, <1>4

\* the order of a history is total
LEMMA Total ==
  ASSUME NEW p \in Points, NEW q \in Points, p # q
  PROVE  Before(p, q) \/ Before(q, p)
<1>1. /\ Time(p) \in Nat /\ p[2] \in Sides(pager) /\ Time(q) \in Nat /\ q[2] \in Sides(pager)
  BY PointParts
<1>2. Time(p) = Time(q) => p[2] # q[2]
  <2>1. p = <<Time(p), p[2]>> /\ q = <<Time(q), q[2]>>
    BY PointParts
  <2>2. QED
    BY <2>1
<1>3. CASE Time(p) = Time(q)
  <2>1. p[2] \in {"BUY", "SELL"} /\ q[2] \in {"BUY", "SELL"}
    BY <1>1, <1>2, <1>3 DEF Sides
  <2>2. QED
    BY <1>2, <1>3, <2>1 DEF Before
<1>4. CASE Time(p) # Time(q)
  BY <1>1, <1>4 DEF Before
<1>5. QED
  BY <1>3, <1>4

\* and it is an order
LEMMA Ordered ==
  ASSUME NEW p \in Points, NEW q \in Points, NEW r \in Points
  PROVE  /\ ~(Before(p, q) /\ Before(q, p)) /\ ~Before(p, p)
         /\ Before(p, q) /\ Before(q, r) => Before(p, r)
<1>1. Time(p) \in Nat /\ Time(q) \in Nat /\ Time(r) \in Nat
  BY PointParts
<1>2. QED
  BY <1>1 DEF Before

\* where there is one side only, times are different
LEMMA OneSide ==
  ASSUME NEW p \in Points, NEW q \in Points, Before(p, q)
  PROVE  Time(p) <= Time(q) /\ (Time(p) = Time(q) => pager = "binance liquidations")
<1>1. Time(p) \in Nat /\ Time(q) \in Nat
  BY PointParts
<1>2. p[2] = "BUY" => pager = "binance liquidations"
  BY PointParts
<1>3. Time(p) < Time(q) \/ (Time(p) = Time(q) /\ p[2] = "BUY")
  BY DEF Before
<1>4. Time(p) <= Time(q)
  BY <1>1, <1>3
<1>5. Time(p) = Time(q) => p[2] = "BUY"
  BY <1>1, <1>3
<1>6. QED
  BY <1>2, <1>4, <1>5

\* a history is finite
LEMMA HistoriesFinite ==
  ASSUME NEW S \in SUBSET Points
  PROVE  IsFiniteSet(S)
<1>1. IsFiniteSet(1 .. MaxTime)
  BY Params, FS_Interval
<1>2. IsFiniteSet({"BUY", "SELL"}) /\ IsFiniteSet({"-"})
  <2>1. IsFiniteSet({"BUY"}) /\ IsFiniteSet({"-"})
    BY FS_Singleton
  <2>2. {"BUY", "SELL"} = {"BUY"} \cup {"SELL"}
    OBVIOUS
  <2>3. QED
    BY <2>1, <2>2, FS_AddElement
<1>3. IsFiniteSet(Sides(pager))
  BY <1>2 DEF Sides
<1>4. IsFiniteSet(Points)
  BY <1>1, <1>3, FS_Product DEF Points
<1>5. QED
  BY <1>4, FS_Subset

\* the times of the first and the last point of a page
LEMMA Extremes ==
  ASSUME NEW S \in SUBSET Points, S # {}
  PROVE  /\ \E p \in S : Time(p) = LastTime(S)
         /\ \E p \in S : Time(p) = MinTime(S)
         /\ \A p \in S : MinTime(S) <= Time(p) /\ Time(p) <= LastTime(S)
         /\ MinTime(S) \in 1 .. MaxTime /\ LastTime(S) \in 1 .. MaxTime
<1> DEFINE T == {Time(p) : p \in S}
           R == {MaxTime - t : t \in T}
<1>1. T \in SUBSET (1 .. MaxTime) /\ T # {}
  BY PointParts
<1>2. PICK m \in T : \A t \in T : t <= m
  <2>1. T \in SUBSET Nat /\ \A t \in T : t <= MaxTime
    BY <1>1, Params
  <2> HIDE DEF T
  <2>2. QED
    BY <1>1, <2>1, Params, GreatestExists
<1>3. PICK n \in T : \A t \in T : n <= t
  <2>1. R \in SUBSET Nat /\ R # {} /\ \A x \in R : x <= MaxTime
    BY <1>1, Params
  <2>2. PICK x \in R : \A y \in R : y <= x
    <3> HIDE DEF R
    <3>1. QED
      BY <2>1, Params, GreatestExists
  <2>3. PICK n \in T : x = MaxTime - n
    OBVIOUS
  <2>4. \A t \in T : MaxTime - t <= MaxTime - n
    BY <2>2, <2>3
  <2>5. ASSUME NEW t \in T PROVE n <= t
    <3>1. t \in Nat /\ n \in Nat /\ MaxTime \in Nat /\ MaxTime - t <= MaxTime - n
      BY <1>1, <2>4, Params
    <3> HIDE DEF T
    <3>2. QED
      BY <3>1
  <2>6. QED
    BY <2>5
<1>4. MinTime(S) \in T /\ \A t \in T : MinTime(S) <= t
  BY <1>3 DEF MinTime
<1>5. LastTime(S) \in T /\ \A t \in T : t <= LastTime(S)
  BY <1>2 DEF LastTime
<1>6. QED
  BY <1>1, <1>4, <1>5

\* the first n points of S, in an order given as a set of pairs
First(S, n, R) == {p \in S : Cardinality({q \in S : <<q, p>> \in R}) < n}

TotalOrder(R) ==
  /\ \A p \in Points : <<p, p>> \notin R
  /\ \A p, q \in Points : p = q \/ <<p, q>> \in R \/ <<q, p>> \in R
  /\ \A p, q, r \in Points : <<p, q>> \in R /\ <<q, r>> \in R => <<p, r>> \in R

\* a history has a first point: the one that most points come after
LEMMA FirstExists ==
  ASSUME NEW R, TotalOrder(R), NEW S \in SUBSET Points, S # {}
  PROVE  \E p \in S : \A q \in S : <<q, p>> \notin R
<1> DEFINE After(p) == {q \in S : <<p, q>> \in R}
           T == {Cardinality(After(p)) : p \in S}
<1>1. IsFiniteSet(S) /\ Cardinality(S) \in Nat
  BY HistoriesFinite, FS_CardinalityType
<1>2. ASSUME NEW p \in S
      PROVE  IsFiniteSet(After(p)) /\ Cardinality(After(p)) \in Nat /\ Cardinality(After(p)) <= Cardinality(S)
  BY <1>1, FS_Subset, FS_CardinalityType
<1>3. T \in SUBSET Nat /\ T # {} /\ \A x \in T : x <= Cardinality(S)
  BY <1>2
<1>4. PICK m \in T : \A x \in T : x <= m
  <2> HIDE DEF T
  <2>1. QED
    BY <1>1, <1>3, GreatestExists
<1>5. PICK p \in S : m = Cardinality(After(p))
  OBVIOUS
<1>6. ASSUME NEW r \in S, <<r, p>> \in R PROVE FALSE
  <2>1. After(p) \cup {p} \subseteq After(r) /\ p \notin After(p)
    BY <1>6 DEF TotalOrder
  <2>2. IsFiniteSet(After(p) \cup {p}) /\ Cardinality(After(p) \cup {p}) = Cardinality(After(p)) + 1
    BY <1>2, <2>1, FS_AddElement
  <2>3. Cardinality(After(p) \cup {p}) <= Cardinality(After(r))
    BY <1>2, <2>1, FS_Subset
  <2>4. Cardinality(After(r)) \in T /\ Cardinality(After(r)) \in Nat /\ Cardinality(After(p)) \in Nat
    BY <1>2
  <2> HIDE DEF After, T
  <2>5. QED
    BY <1>4, <1>5, <2>2, <2>3, <2>4
<1>7. QED
  BY <1>6

\* the first n points come before all others, and are all if they are fewer than n
LEMMA FirstPoints ==
  ASSUME NEW R, TotalOrder(R), NEW S \in SUBSET Points, NEW n \in Nat
  PROVE  /\ \A p \in S \ First(S, n, R) : \A q \in First(S, n, R) : <<q, p>> \in R
         /\ Cardinality(First(S, n, R)) < n => First(S, n, R) = S
<1> DEFINE Front(p) == {q \in S : <<q, p>> \in R}
           F == First(S, n, R)
<1>1. IsFiniteSet(S) /\ IsFiniteSet(F) /\ F \subseteq S
  BY HistoriesFinite, FS_Subset DEF First
<1>2. ASSUME NEW p \in S PROVE IsFiniteSet(Front(p)) /\ Cardinality(Front(p)) \in Nat
  BY <1>1, FS_Subset, FS_CardinalityType
<1>3. \A p \in S : p \in F <=> Cardinality(Front(p)) < n
  BY DEF First
<1>4. ASSUME NEW p \in S \ F, NEW q \in F, <<q, p>> \notin R PROVE FALSE
  <2>1. <<p, q>> \in R /\ q \in S
    BY <1>1, <1>4 DEF TotalOrder
  <2>2. Front(p) \subseteq Front(q)
    BY <1>4, <2>1 DEF TotalOrder
  <2>3. Cardinality(Front(p)) <= Cardinality(Front(q))
    BY <1>2, <2>1, <2>2, FS_Subset
  <2>4. Cardinality(Front(q)) < n /\ ~(Cardinality(Front(p)) < n)
    BY <1>3, <1>4, <2>1
  <2>5. Cardinality(Front(p)) \in Nat /\ Cardinality(Front(q)) \in Nat
    BY <1>2, <1>4, <2>1
  <2> HIDE DEF Front
  <2>6. QED
    BY <2>3, <2>4, <2>5
<1>5. ASSUME Cardinality(F) < n, F # S PROVE FALSE
  <2>1. PICK p \in S \ F : \A q \in S \ F : <<q, p>> \notin R
    BY <1>1, <1>5, FirstExists
  <2>2. Front(p) \subseteq F
    BY <2>1
  <2>3. Cardinality(Front(p)) <= Cardinality(F) /\ Cardinality(F) \in Nat
    BY <1>1, <2>2, FS_Subset, FS_CardinalityType
  <2>4. Cardinality(Front(p)) \in Nat /\ ~(Cardinality(Front(p)) < n)
    BY <1>2, <1>3, <2>1
  <2> HIDE DEF Front, F
  <2>5. QED
    BY <1>5, <2>3, <2>4
<1>6. QED
  BY <1>4, <1>5

\* a page of the oldest points is followed by all others of its range
LEMMA OldestPage ==
  ASSUME NEW S \in SUBSET Points, NEW n \in Nat
  PROVE  /\ Oldest(S, n) \subseteq S
         /\ \A p \in S \ Oldest(S, n) : \A q \in Oldest(S, n) : Before(q, p)
         /\ Cardinality(Oldest(S, n)) < n => Oldest(S, n) = S
         /\ S # {} /\ n # 0 => Oldest(S, n) # {}
<1> DEFINE R == {e \in Points \X Points : Before(e[1], e[2])}
<1>1. \A p, q \in Points : <<p, q>> \in R <=> Before(p, q)
  OBVIOUS
<1>2. TotalOrder(R)
  <2> HIDE DEF R
  <2>1. QED
    BY <1>1, Total, Ordered DEF TotalOrder
<1>3. ASSUME NEW p \in S PROVE {q \in S : <<q, p>> \in R} = {q \in S : Before(q, p)}
  <2> HIDE DEF R
  <2>1. QED
    BY <1>1
<1>4. First(S, n, R) = Oldest(S, n)
  <2> HIDE DEF R
  <2>1. QED
    BY <1>3 DEF First, Oldest
<1>5. Oldest(S, n) \subseteq S
  BY DEF Oldest
<1>6. /\ \A p \in S \ Oldest(S, n) : \A q \in Oldest(S, n) : <<q, p>> \in R
      /\ Cardinality(Oldest(S, n)) < n => Oldest(S, n) = S
  <2> HIDE DEF R
  <2>1. QED
    BY <1>2, <1>4, FirstPoints
<1>7. S # {} /\ n # 0 => Oldest(S, n) # {}
  BY <1>6, FS_EmptySet
<1>8. QED
  BY <1>1, <1>5, <1>6, <1>7

\* a page of the newest points follows all others of its range
LEMMA NewestPage ==
  ASSUME NEW S \in SUBSET Points, NEW n \in Nat
  PROVE  /\ Newest(S, n) \subseteq S
         /\ \A p \in S \ Newest(S, n) : \A q \in Newest(S, n) : Before(p, q)
         /\ Cardinality(Newest(S, n)) < n => Newest(S, n) = S
         /\ S # {} /\ n # 0 => Newest(S, n) # {}
<1> DEFINE R == {e \in Points \X Points : Before(e[2], e[1])}
<1>1. \A p, q \in Points : <<p, q>> \in R <=> Before(q, p)
  OBVIOUS
<1>2. TotalOrder(R)
  <2> HIDE DEF R
  <2>1. QED
    BY <1>1, Total, Ordered DEF TotalOrder
<1>3. ASSUME NEW p \in S PROVE {q \in S : <<q, p>> \in R} = {q \in S : Before(p, q)}
  <2> HIDE DEF R
  <2>1. QED
    BY <1>1
<1>4. First(S, n, R) = Newest(S, n)
  <2> HIDE DEF R
  <2>1. QED
    BY <1>3 DEF First, Newest
<1>5. Newest(S, n) \subseteq S
  BY DEF Newest
<1>6. /\ \A p \in S \ Newest(S, n) : \A q \in Newest(S, n) : <<q, p>> \in R
      /\ Cardinality(Newest(S, n)) < n => Newest(S, n) = S
  <2> HIDE DEF R
  <2>1. QED
    BY <1>2, <1>4, FirstPoints
<1>7. S # {} /\ n # 0 => Newest(S, n) # {}
  BY <1>6, FS_EmptySet
<1>8. QED
  BY <1>1, <1>5, <1>6, <1>7

-----------------------------------------------------------------------------
(* Types *)

\* what the types say of the sets that pages are cut from
LEMMA Ranges ==
  ASSUME Typed
  PROVE  /\ published \in SUBSET Points /\ Rest \in SUBSET published
         /\ \A a, b : Between(a, b) \in SUBSET published
         /\ \A b : NewestFrom(b) \in SUBSET published
         /\ Rest \in SUBSET Points /\ \A a, b : Between(a, b) \in SUBSET Points
         /\ \A n : Newest(published, n) \in SUBSET published
<1>1. published \in SUBSET Points
  BY DEF Typed
<1>2. \A a, b : Between(a, b) \in SUBSET published
  BY DEF Between
<1>3. Rest \in SUBSET published
  BY <1>2 DEF Rest
<1>4. \A b : NewestFrom(b) \in SUBSET published
  BY DEF NewestFrom, Newest
<1>5. \A n : Newest(published, n) \in SUBSET published
  BY DEF Newest
<1>6. QED
  BY <1>1, <1>2, <1>3, <1>4, <1>5

\* a provider that ignores the cursor answers as to the first
LEMMA CursorHeard ==
  ASSUME Typed
  PROVE  /\ older => \A c : Heard(c) = c
         /\ pager \in Forward /\ ~older => reading = "ignored" /\ \A c : Heard(c) = Start
         /\ pager \in Tokens /\ ~older => reading = "ignored" /\ \A c : Heard(c) = NoCursor
<1>1. older => \A c : Heard(c) = c
  BY DEF older, Heard
<1>2. pager \in Forward \cup Tokens => pager \notin Okx
  BY DEF Forward, Tokens, Okx
<1>3. pager \in Forward \cup Tokens /\ ~older => reading = "ignored"
  BY <1>2 DEF Typed, Readings, older
<1>4. pager \in Tokens => pager \notin Forward \cup Windows
  BY DEF Tokens, Forward, Windows
<1>5. QED
  BY <1>1, <1>3, <1>4 DEF Heard, FirstCursor

\* a request leaves the call and the history alone, and appends a page or none
LEMMA TypedRequest ==
  ASSUME Typed, NEW q, Call(q),
         cursor' \in Nat \cup {NoCursor}, pager \in Forward \cup Windows => cursor' \in Nat,
         OkxCursor',
         status' \in {"fetching", "done", "failed"},
         pages' = pages \/ \E page \in SUBSET published : Append1(page)
  PROVE  Typed'
<1>1. pages' \in Seq(SUBSET published)
  BY DEF Typed, Append1
<1>2. UNCHANGED <<pager, cap, reading, published, first>>
  BY DEF Call
<1>3. QED
  BY <1>1, <1>2 DEF Typed, Points

\* the loops with ascending pages
LEMMA TypedForward ==
  ASSUME Typed, NEW q \in Forward, Call(q), ForwardPage(Limit)
  PROVE  Typed'
<1> DEFINE page == Oldest(Between(Heard(cursor), End), Min(Limit, cap))
<1>1. page \in SUBSET published /\ page \in SUBSET Points
  BY Ranges DEF Oldest
<1>2. \/ page = {} /\ Finish(TRUE) /\ UNCHANGED <<cursor, pages>>
      \/ page # {} /\ Append1(page) /\ cursor' = LastTime(page) + 1 /\ status' \in {"done", "fetching"}
  BY DEF ForwardPage, NextCursor, Finish
<1>3. page # {} => LastTime(page) \in 1 .. MaxTime
  BY <1>1, Extremes
<1> HIDE DEF page
<1>4. cursor \in Nat
  BY DEF Typed, Call
<1>5. cursor' \in Nat /\ status' \in {"done", "fetching"} /\ (pages' = pages \/ Append1(page))
  BY <1>2, <1>3, <1>4, Params DEF Finish
<1>6. OkxCursor'
  BY DEF Call, Forward, OkxCursor
<1>7. QED
  BY <1>1, <1>5, <1>6, TypedRequest

\* the loops over windows
LEMMA TypedWindow ==
  ASSUME Typed, NEW q \in Windows, Call(q), WindowPage
  PROVE  Typed'
<1> DEFINE e == Min(cursor + WindowLen, End)
           page == Newest(Between(cursor, e), cap)
<1>1. page \in SUBSET published
  BY Ranges DEF Newest
<1>2. Append1(page) /\ cursor' = e /\ status' \in {"done", "fetching"}
  BY DEF WindowPage, Finish
<1>3. e \in Nat
  BY Params DEF Typed, Call, Min
<1>4. OkxCursor'
  BY DEF Call, Windows, OkxCursor
<1> HIDE DEF page, e
<1>5. QED
  BY <1>1, <1>2, <1>3, <1>4, TypedRequest

\* the loops that follow a token
LEMMA TypedToken ==
  ASSUME Typed, NEW q \in Tokens, Call(q), TokenPage(Oldest(Rest, cap))
  PROVE  Typed'
<1> DEFINE page == Oldest(Rest, cap)
<1>1. page \in SUBSET published /\ page \in SUBSET Points
  BY Ranges DEF Oldest
<1>2. Append1(page) /\ cursor' = (IF page = {} THEN cursor ELSE LastTime(page)) /\ status' \in {"done", "fetching"}
  BY DEF TokenPage, Finish
<1>3. page # {} => LastTime(page) \in 1 .. MaxTime
  BY <1>1, Extremes
<1>4. pager \notin Forward \cup Windows /\ OkxCursor'
  BY DEF Call, Tokens, Forward, Windows, OkxCursor
<1> HIDE DEF page
<1>5. cursor' \in Nat \cup {NoCursor}
  BY <1>2, <1>3, Params DEF Typed
<1>6. QED
  BY <1>1, <1>2, <1>4, <1>5, TypedRequest

\* the loops with descending pages
LEMMA TypedDescending ==
  ASSUME Typed, \/ OkxOpenInterest \/ OkxFundingRateHistory
                \/ backfillAggregatedOI \/ backfillAggregatedLiquidations
  PROVE  Typed'
<1>1. \A S \in SUBSET published : S # {} => MinTime(S) \in Nat \ {0}
  BY Ranges, Extremes
<1>2. pager \in Descending /\ pager \notin Forward \cup Windows
  BY DEF OkxOpenInterest, OkxFundingRateHistory, backfillAggregatedOI, backfillAggregatedLiquidations,
         Call, Descending, CoinGlass, Okx, Forward, Windows
<1>3. CASE OkxOpenInterest
  <2> DEFINE fresh == NewestFrom(cursor) \ Out
  <2>1. fresh \in SUBSET published
    BY Ranges
  <2>2. Call("okx open interest") /\ status' \in {"done", "fetching"}
        /\ \/ UNCHANGED <<cursor, pages>>
           \/ fresh # {} /\ Append1(fresh) /\ cursor' = MinTime(fresh) - 1
    BY <1>3 DEF OkxOpenInterest, Finish
  <2> HIDE DEF fresh
  <2>3. fresh # {} => MinTime(fresh) - 1 \in Nat
    BY <1>1, <2>1
  <2>4. cursor \in Nat \cup {NoCursor}
    BY DEF Typed
  <2>5. cursor' \in Nat \cup {NoCursor}
    BY <2>2, <2>3, <2>4
  <2>6. OkxCursor'
    BY <2>2 DEF Call, OkxCursor
  <2>7. QED
    BY <1>2, <2>1, <2>2, <2>5, <2>6, TypedRequest
<1>4. CASE OkxFundingRateHistory
  <2> DEFINE page == NewestFrom(OkxBefore)
             kept == {p \in page : Time(p) >= Start}
  <2>1. page \in SUBSET published /\ kept \in SUBSET published
    BY Ranges
  <2>2. Call("okx funding") /\ status' \in {"done", "fetching"}
        /\ \/ UNCHANGED <<cursor, pages>>
           \/ page # {} /\ Append1(kept) /\ cursor' = MinTime(page)
    BY <1>4 DEF OkxFundingRateHistory, Finish
  <2> HIDE DEF page, kept
  <2>3. page # {} => MinTime(page) \in Nat \ {0}
    BY <1>1, <2>1
  <2>4. cursor' \in Nat \cup {NoCursor}
    BY <2>2, <2>3 DEF Typed
  <2>5. OkxCursor'
    BY <2>2, <2>3 DEF Typed, Call, OkxCursor
  <2>6. QED
    BY <1>2, <2>1, <2>2, <2>4, <2>5, TypedRequest
<1>5. CASE backfillAggregatedOI \/ backfillAggregatedLiquidations
  <2> DEFINE page == AggregatedPage(cursor)
  <2>1. page \in SUBSET published
    BY Ranges DEF AggregatedPage
  <2>2. PICK q : Call(q) /\ BackfillAggregated(page)
    BY <1>5 DEF backfillAggregatedOI, backfillAggregatedLiquidations, FetchAggregatedOIHistory,
                FetchAggregatedLiquidationHistory
  <2>3. status' \in {"done", "fetching"}
        /\ \/ UNCHANGED <<cursor, pages>>
           \/ page # {} /\ Append1(page \ Out) /\ cursor' = MinTime(page) - 1
    BY <2>2 DEF BackfillAggregated, Finish
  <2> HIDE DEF page
  <2>4. cursor' \in Nat \cup {NoCursor}
    BY <1>1, <2>1, <2>3 DEF Typed
  <2>5. page \ Out \in SUBSET published
    BY <2>1
  <2>6. OkxCursor'
    BY <1>5 DEF backfillAggregatedOI, backfillAggregatedLiquidations, Call, OkxCursor
  <2>7. QED
    BY <1>2, <2>2, <2>3, <2>4, <2>5, <2>6, TypedRequest
<1>6. QED
  BY <1>3, <1>4, <1>5

\* the two requests of FetchOpenInterest
LEMMA TypedOpenInterest ==
  ASSUME Typed, OpenInterestHistory \/ OpenInterestSnapshot
  PROVE  Typed'
<1>1. PICK q : Call(q) /\ pager \notin Forward \cup Windows /\ OkxCursor' /\ cursor' = cursor
               /\ status' \in {status, "done"}
               /\ \E n : \E page \in SUBSET Newest(published, n) : Append1(page)
  <2>1. CASE OpenInterestHistory
    <3>1. Call("binance open interest") /\ cursor' = cursor /\ status' = status
      BY <2>1 DEF OpenInterestHistory
    <3>2. \E page \in SUBSET Newest(published, cap) : Append1(page)
      BY <2>1 DEF OpenInterestHistory
    <3>3. pager \notin Forward \cup Windows /\ OkxCursor'
      BY <3>1 DEF Call, Forward, Windows, OkxCursor
    <3>4. QED
      BY <3>1, <3>2, <3>3
  <2>2. CASE OpenInterestSnapshot
    <3>1. Call("binance open interest") /\ cursor' = cursor /\ status' = "done"
      BY <2>2 DEF OpenInterestSnapshot, Finish
    <3>2. \E page \in SUBSET Newest(published, 1) : Append1(page)
      BY <2>2 DEF OpenInterestSnapshot
    <3>3. pager \notin Forward \cup Windows /\ OkxCursor'
      BY <3>1 DEF Call, Forward, Windows, OkxCursor
    <3>4. QED
      BY <3>1, <3>2, <3>3
  <2>3. QED
    BY <2>1, <2>2
<1>2. \E page \in SUBSET published : Append1(page)
  BY <1>1, Ranges
<1>3. cursor' \in Nat \cup {NoCursor} /\ status' \in {"fetching", "done", "failed"}
  BY <1>1 DEF Typed
<1>4. QED
  BY <1>1, <1>2, <1>3, TypedRequest

\* a request of any loop, by the kind of its pages
LEMMA RequestCases ==
  ASSUME Step
  PROVE  \/ \E q \in Forward : Call(q) /\ ForwardPage(Limit)
         \/ \E q \in Windows : Call(q) /\ WindowPage
         \/ \E q \in Tokens : Call(q) /\ TokenPage(Oldest(Rest, cap))
         \/ /\ Call("bybit open interest") /\ Oldest(Rest, cap) = {} /\ Finish(TRUE)
            /\ UNCHANGED <<cursor, oldestSeen, pages>>
         \/ OkxOpenInterest \/ OkxFundingRateHistory
         \/ backfillAggregatedOI \/ backfillAggregatedLiquidations
         \/ OpenInterestHistory \/ OpenInterestSnapshot
<1>1. CASE FetchFundingRateHistory \/ FetchLiquidations \/ FetchKlines
  BY <1>1 DEF FetchFundingRateHistory, FetchLiquidations, FetchKlines, Forward
<1>2. CASE FetchCandles \/ BybitFundingRateHistory
  BY <1>2 DEF FetchCandles, BybitFundingRateHistory, Windows
<1>3. CASE FetchExchangeNetflow \/ BybitOpenInterest
  BY <1>3 DEF FetchExchangeNetflow, BybitOpenInterest, Tokens
<1>4. QED
  BY <1>1, <1>2, <1>3 DEF Step

\* every step keeps the types
LEMMA TypedStep ==
  ASSUME Typed, [Next]_vars
  PROVE  Typed'
<1>1. CASE Publish
  <2>1. PICK p \in Points : published' = published \cup {p}
    BY <1>1 DEF Publish, Points
  <2>2. UNCHANGED <<pager, cap, reading, first, cursor, pages, status>> /\ Points' = Points
    BY <1>1 DEF Publish, Points
  <2>3. pages \in Seq(SUBSET published')
    BY <2>1 DEF Typed
  <2>4. OkxCursor'
    BY <2>2 DEF Typed, OkxCursor
  <2>5. QED
    BY <2>1, <2>2, <2>3, <2>4 DEF Typed
<1>2. CASE Fail
  <2>1. OkxCursor'
    BY <1>2 DEF Fail, Typed, OkxCursor
  <2>2. QED
    BY <1>2, <2>1 DEF Fail, Typed, Points
<1>3. CASE UNCHANGED vars
  <2>1. OkxCursor'
    BY <1>3 DEF vars, Typed, OkxCursor
  <2>2. QED
    BY <1>3, <2>1 DEF vars, Typed, Points
<1>4. CASE Step
  <2>1. CASE Call("bybit open interest") /\ Oldest(Rest, cap) = {} /\ Finish(TRUE)
             /\ UNCHANGED <<cursor, oldestSeen, pages>>
    <3>1. OkxCursor'
      BY <2>1 DEF Call, Typed, OkxCursor
    <3>2. QED
      BY <2>1, <3>1 DEF Call, Finish, Typed, Points
  <2>2. QED
    BY <1>4, <2>1, RequestCases, TypedForward, TypedWindow, TypedToken, TypedDescending, TypedOpenInterest
<1>5. QED
  BY <1>1, <1>2, <1>3, <1>4 DEF Next

\* and so the types hold in every state
LEMMA TypedInvariant == Spec => []Typed
<1>1. Init => Typed
  <2>1. SUFFICES ASSUME Init PROVE Typed
    OBVIOUS
  <2>2. reading \in Readings(pager)
    BY <2>1 DEF Init
  <2>3. published \subseteq Points /\ first \subseteq published
    BY <2>1 DEF Init, Points
  <2>4. cursor \in Nat \cup {NoCursor} /\ (pager \in Forward \cup Windows => cursor \in Nat)
    BY <2>1, Params DEF Init, FirstCursor
  <2>5. OkxCursor
    <3>1. Start # 0 /\ NoCursor # 0
      BY Params DEF NoCursor
    <3>2. QED
      BY <2>1, <3>1 DEF Init, OkxCursor, FirstCursor
  <2>6. QED
    BY <2>1, <2>2, <2>3, <2>4, <2>5, Params DEF Init, Typed
<1>2. Typed /\ [Next]_vars => Typed'
  BY TypedStep
<1>3. QED
  BY <1>1, <1>2, PTL DEF Spec

-----------------------------------------------------------------------------
(* Pages and cursors *)

\* no point is on two pages
Apart == \A j, k \in DOMAIN pages : j # k => pages[j] \cap pages[k] = {}

\* the newest time that a descending loop asks for
Bound == IF pager = "okx funding" THEN cursor - 1 ELSE cursor

\* the cursor is beyond what has been returned
Beyond ==
  \A p \in Out :
    /\ pager \in Forward /\ older => Time(p) < cursor
    /\ pager \in Tokens /\ older => Time(p) <= cursor
    /\ pager \in Descending /\ older => cursor # NoCursor /\ Bound < Time(p)

\* what an appended page adds
LEMMA OutAppended ==
  ASSUME Typed, NEW page, Append1(page)
  PROVE  /\ Out' = Out \cup page
         /\ DOMAIN pages = 1 .. Len(pages) /\ Len(pages) \in Nat
         /\ DOMAIN pages' = 1 .. Len(pages) + 1 /\ Len(pages') = Len(pages) + 1
         /\ pages'[Len(pages) + 1] = page
         /\ \A k \in DOMAIN pages : k \in DOMAIN pages' /\ pages'[k] = pages[k]
<1>1. pages \in Seq(SUBSET published) /\ pages' = Append(pages, page)
  BY DEF Typed, Append1
<1>2. /\ DOMAIN pages = 1 .. Len(pages) /\ Len(pages) \in Nat
      /\ DOMAIN pages' = 1 .. Len(pages) + 1 /\ Len(pages') = Len(pages) + 1
      /\ pages'[Len(pages) + 1] = page
      /\ \A k \in DOMAIN pages : k \in DOMAIN pages' /\ pages'[k] = pages[k]
  BY <1>1
<1>3. Out' = Out \cup page
  <2>1. \A x : x \in Out <=> \E k \in DOMAIN pages : x \in pages[k]
    BY DEF Out
  <2>2. \A x : x \in Out' <=> \E k \in DOMAIN pages' : x \in pages'[k]
    BY DEF Out
  <2>3. \A k \in DOMAIN pages' : k \in DOMAIN pages \/ k = Len(pages) + 1
    BY <1>2
  <2>4. Len(pages) + 1 \in DOMAIN pages'
    BY <1>2
  <2>5. \A x : x \in Out' <=> x \in Out \cup page
    BY <1>2, <2>1, <2>2, <2>3, <2>4
  <2>6. QED
    BY <2>5
<1>4. QED
  BY <1>2, <1>3

\* what has been returned was published
LEMMA OutPublished ==
  ASSUME Typed
  PROVE  Out \in SUBSET published /\ Out \in SUBSET Points
<1>1. \A k \in DOMAIN pages : pages[k] \in SUBSET published
  BY DEF Typed
<1>2. QED
  BY <1>1 DEF Out, Typed

\* times and cursors are numbers
LEMMA Numbers ==
  ASSUME Typed
  PROVE  /\ \A p \in published : Time(p) \in Nat /\ Time(p) # 0
         /\ \A p \in Out : Time(p) \in Nat /\ Time(p) # 0
         /\ cursor \in Int /\ Bound \in Int
<1>1. ASSUME NEW p \in Points PROVE Time(p) \in Nat /\ Time(p) # 0
  <2>1. Time(p) \in 1 .. MaxTime /\ MaxTime \in Nat
    BY PointParts, Params
  <2>2. QED
    BY <2>1
<1>2. published \in SUBSET Points /\ Out \in SUBSET Points
  BY Ranges, OutPublished
<1>3. cursor \in Int
  BY DEF Typed, NoCursor
<1>4. Bound \in Int
  BY <1>3 DEF Bound
<1>5. QED
  BY <1>1, <1>2, <1>3, <1>4

\* a page of new points keeps the pages apart
LEMMA ApartAppended ==
  ASSUME Typed, Apart, NEW page, Append1(page), page \cap Out = {}
  PROVE  Apart'
<1>1. SUFFICES ASSUME NEW j \in DOMAIN pages', NEW k \in DOMAIN pages', j # k, NEW x \in pages'[j], x \in pages'[k]
               PROVE  FALSE
  BY DEF Apart
<1>2. \A i \in DOMAIN pages' : i \in DOMAIN pages \/ i = Len(pages) + 1
  BY OutAppended
<1>3. \A i \in DOMAIN pages : pages'[i] = pages[i] /\ pages[i] \subseteq Out
  BY OutAppended DEF Out
<1>4. pages'[Len(pages) + 1] = page
  BY OutAppended
<1>5. CASE j \in DOMAIN pages /\ k \in DOMAIN pages
  BY <1>1, <1>3, <1>5 DEF Apart
<1>6. CASE j = Len(pages) + 1 \/ k = Len(pages) + 1
  BY <1>1, <1>2, <1>3, <1>4, <1>6
<1>7. QED
  BY <1>2, <1>5, <1>6

(***************************************************************************)
(* A request of a descending loop gets the newest points of those in       *)
(* reach: up to the bound, or after it if the provider reads it the other  *)
(* way.  It keeps the new ones, and goes on before the oldest of them.     *)
(***************************************************************************)
LEMMA DescendingRequest ==
  ASSUME Typed, \/ OkxOpenInterest \/ OkxFundingRateHistory
                \/ backfillAggregatedOI \/ backfillAggregatedLiquidations
  PROVE  /\ pager \in Descending /\ Call(pager)
         /\ \E S, kept \in SUBSET published :
              /\ older => S = {p \in published : cursor = NoCursor \/ Time(p) <= Bound}
              /\ ~older => \A p \in published \ S : \A q \in S : Time(p) < Time(q)
              /\ kept = IF pager = "okx funding" THEN {p \in Newest(S, cap) : Time(p) >= Start}
                                                 ELSE Newest(S, cap) \ Out
              /\ \/ /\ status' = "done" /\ cursor' = cursor /\ pages' = pages
                    /\ IF pager = "okx open interest" THEN kept = {} ELSE Newest(S, cap) = {}
                 \/ /\ Newest(S, cap) # {} /\ Append1(kept)
                    /\ pager = "okx open interest" =>
                         kept # {} /\ cursor' = MinTime(kept) - 1 /\ status' = "fetching"
                    /\ pager = "okx funding" =>
                         /\ cursor' = MinTime(Newest(S, cap))
                         /\ status' = IF cursor' < Start THEN "done" ELSE "fetching"
                    /\ pager \in CoinGlass =>
                         /\ cursor' = MinTime(Newest(S, cap)) - 1 /\ oldestSeen' = MinTime(Newest(S, cap))
                         /\ status' = IF \/ oldestSeen' <= MinDate
                                         \/ oldestSeen # NoCursor /\ oldestSeen' >= oldestSeen
                                         \/ Len(pages) + 1 = MaxPages
                                      THEN "done" ELSE "fetching"
<1> DEFINE In(b) == {p \in published : \/ Heard(b) = NoCursor
                                       \/ older /\ Time(p) <= Heard(b)
                                       \/ ~older /\ Time(p) >= Heard(b)}
<1>1. \A b : NewestFrom(b) = Newest(In(b), cap) /\ In(b) \in SUBSET published
  BY DEF NewestFrom
<1>2. \A b \in Nat \cup {NoCursor} :
         /\ ~older => \A p \in published \ In(b) : \A q \in In(b) : Time(p) < Time(q)
         /\ older => Heard(b) = b
  <2>1. \A p \in published : Time(p) \in Nat
    BY PointParts, Ranges
  <2>2. NoCursor \in Int /\ FirstCursor \in Int
    BY Params DEF NoCursor, FirstCursor
  <2>3. \A b \in Nat \cup {NoCursor} : Heard(b) \in Int /\ (older => Heard(b) = b)
    BY <2>2 DEF Heard, older
  <2> HIDE DEF NoCursor
  <2>4. QED
    BY <2>1, <2>3
<1>3. cursor \in Nat \cup {NoCursor} /\ NoCursor \notin Nat
  BY DEF Typed, NoCursor
<1>4. CASE OkxOpenInterest
  <2>1. Call("okx open interest")
    BY <1>4 DEF OkxOpenInterest
  <2>2. pager = "okx open interest" /\ pager \notin CoinGlass /\ pager # "okx funding"
        /\ pager \in Descending /\ Call(pager)
    BY <2>1 DEF Call, CoinGlass, Okx, Descending
  <2>3. /\ older => In(cursor) = {p \in published : cursor = NoCursor \/ Time(p) <= Bound}
        /\ ~older => \A p \in published \ In(cursor) : \A q \in In(cursor) : Time(p) < Time(q)
    BY <1>2, <1>3, <2>2 DEF Bound
  <2>4. PICK kept \in SUBSET published :
          /\ kept = NewestFrom(cursor) \ Out
          /\ \/ kept = {} /\ status' = "done" /\ cursor' = cursor /\ pages' = pages
             \/ kept # {} /\ Append1(kept) /\ cursor' = MinTime(kept) - 1 /\ status' = "fetching"
    BY <1>4, Ranges DEF OkxOpenInterest, Finish
  <2> HIDE DEF In
  <2>5. QED
    BY <1>1, <2>2, <2>3, <2>4
<1>5. CASE OkxFundingRateHistory
  <2>1. Call("okx funding")
    BY <1>5 DEF OkxFundingRateHistory
  <2>2. pager = "okx funding" /\ pager \notin CoinGlass /\ pager # "okx open interest"
        /\ pager \in Descending /\ Call(pager)
    BY <2>1 DEF Call, CoinGlass, Okx, Descending
  <2>3. OkxBefore \in Nat \cup {NoCursor} /\ (OkxBefore = NoCursor <=> cursor = NoCursor)
        /\ (older /\ cursor # NoCursor => OkxBefore = Bound)
    <3>1. cursor # 0
      BY <2>2 DEF Typed, OkxCursor
    <3>2. CASE cursor = NoCursor
      BY <3>2 DEF OkxBefore
    <3>3. CASE cursor # NoCursor
      <4>1. cursor \in Nat /\ cursor - 1 \in Nat /\ cursor + 1 \in Nat
        BY <1>3, <3>1, <3>3
      <4>2. OkxBefore = (IF older THEN cursor - 1 ELSE cursor + 1) /\ Bound = cursor - 1
        BY <2>2, <3>3 DEF OkxBefore, Bound
      <4>3. OkxBefore \in Nat /\ (older => OkxBefore = Bound)
        BY <4>1, <4>2
      <4>4. QED
        BY <1>3, <3>3, <4>3
    <3>4. QED
      BY <3>2, <3>3
  <2>4. /\ older => In(OkxBefore) = {p \in published : cursor = NoCursor \/ Time(p) <= Bound}
        /\ ~older => \A p \in published \ In(OkxBefore) : \A q \in In(OkxBefore) : Time(p) < Time(q)
    BY <1>2, <2>3
  <2>5. PICK kept \in SUBSET published :
          /\ kept = {p \in NewestFrom(OkxBefore) : Time(p) >= Start}
          /\ \/ NewestFrom(OkxBefore) = {} /\ status' = "done" /\ cursor' = cursor /\ pages' = pages
             \/ /\ NewestFrom(OkxBefore) # {} /\ Append1(kept) /\ cursor' = MinTime(NewestFrom(OkxBefore))
                /\ status' = IF cursor' < Start THEN "done" ELSE "fetching"
    BY <1>5, Ranges DEF OkxFundingRateHistory, Finish
  <2> HIDE DEF In
  <2>6. QED
    BY <1>1, <2>2, <2>4, <2>5
<1>6. CASE backfillAggregatedOI \/ backfillAggregatedLiquidations
  <2>1. PICK q \in CoinGlass : Call(q) /\ BackfillAggregated(AggregatedPage(cursor))
    BY <1>6 DEF backfillAggregatedOI, backfillAggregatedLiquidations, CoinGlass,
                FetchAggregatedOIHistory, FetchAggregatedLiquidationHistory
  <2>2. pager \in CoinGlass /\ pager # "okx funding" /\ pager # "okx open interest"
        /\ pager \in Descending /\ Call(pager)
    BY <2>1 DEF Call, CoinGlass, Okx, Descending
  <2>3. PICK b \in Nat \cup {NoCursor} : b = cursor
    BY <1>3
  <2>4. /\ older => In(b) = {p \in published : cursor = NoCursor \/ Time(p) <= Bound}
        /\ ~older => \A p \in published \ In(b) : \A x \in In(b) : Time(p) < Time(x)
    BY <1>2, <2>2, <2>3 DEF Bound
  <2>5. AggregatedPage(cursor) = NewestFrom(b)
    BY <2>3 DEF AggregatedPage
  <2>6. PICK kept \in SUBSET published :
          /\ kept = NewestFrom(b) \ Out
          /\ \/ NewestFrom(b) = {} /\ status' = "done" /\ cursor' = cursor /\ pages' = pages
             \/ /\ NewestFrom(b) # {} /\ Append1(kept)
                /\ cursor' = MinTime(NewestFrom(b)) - 1 /\ oldestSeen' = MinTime(NewestFrom(b))
                /\ status' = IF \/ oldestSeen' <= MinDate
                                \/ oldestSeen # NoCursor /\ oldestSeen' >= oldestSeen
                                \/ Len(pages) + 1 = MaxPages
                             THEN "done" ELSE "fetching"
    BY <2>1, <2>5, Ranges DEF BackfillAggregated, Finish
  <2> HIDE DEF In
  <2>7. QED
    BY <1>1, <2>2, <2>4, <2>6
<1>7. QED
  BY <1>4, <1>5, <1>6

-----------------------------------------------------------------------------
(* Nothing is counted twice *)

\* the loops whose pages may share points
Repeats == pager \in Windows \/ (pager \in Forward \cup Tokens \cup {"okx funding"} /\ ~older)

\* page k of a loop over windows is of the k-th window of the range
WindowPages ==
  /\ \A k \in DOMAIN pages : \A p \in pages[k] :
       Start + (k - 1) * WindowLen <= Time(p) /\ Time(p) <= Start + k * WindowLen
  /\ status = "fetching" => cursor = Start + Len(pages) * WindowLen

OneADay == \A p, q \in Out : p = q \/ Day(p) # Day(q)

Counted ==
  /\ Beyond
  /\ Repeats \/ Apart
  /\ pager \in Windows => WindowPages
  /\ pager = "binance open interest" => OneADay

\* the kinds of loops exclude each other
LEMMA Kinds ==
  /\ pager \in Forward => pager \notin Windows \cup Tokens \cup Descending \cup {"binance open interest", "okx funding"}
  /\ pager \in Windows => pager \notin Forward \cup Tokens \cup Descending \cup {"binance open interest", "okx funding"}
  /\ pager \in Tokens => pager \notin Forward \cup Windows \cup Descending \cup {"binance open interest", "okx funding"}
  /\ pager \in Descending => pager \notin Forward \cup Windows \cup Tokens \cup {"binance open interest"}
  /\ pager = "binance open interest" => pager \notin Forward \cup Windows \cup Tokens \cup Descending \cup {"okx funding"}
BY DEF Forward, Windows, Tokens, Descending, CoinGlass, Okx

\* a request of an ascending loop starts after what there is
LEMMA CountedForward ==
  ASSUME Typed, Counted, NEW q \in Forward, Call(q), ForwardPage(Limit)
  PROVE  Counted'
<1> DEFINE page == Oldest(Between(cursor, End), Min(Limit, cap))
<1>0. pager \in Forward /\ pager' = pager /\ older' = older /\ pager \notin Windows \cup Tokens \cup Descending
      /\ pager # "binance open interest" /\ pager # "okx funding"
  BY Kinds DEF Call, older
<1> SUFFICES ASSUME older PROVE Counted'
  BY <1>0 DEF Counted, Beyond, Repeats
<1>1. pager \in Forward /\ pager' = pager /\ pager \notin Windows \cup Tokens \cup Descending
      /\ pager # "binance open interest" /\ pager # "okx funding" /\ Apart /\ Beyond
  BY <1>0 DEF Counted, Repeats
<1>2. page \in SUBSET Points /\ \A p \in page : cursor <= Time(p)
  <2>1. page \in SUBSET Between(cursor, End) /\ page \in SUBSET published
    BY Ranges DEF Oldest
  <2>2. \A p \in Between(cursor, End) : Time(p) \in cursor .. End /\ Time(p) \in Nat
    BY Numbers DEF Between
  <2>3. cursor \in Int /\ End \in Int
    BY Numbers, Params
  <2> HIDE DEF page
  <2>4. \A p \in page : cursor <= Time(p)
    BY <2>1, <2>2, <2>3
  <2>5. QED
    BY <2>1, <2>4, Ranges
<1>3. CASE page = {} /\ UNCHANGED <<cursor, pages>>
  BY <1>0, <1>1, <1>3 DEF Counted, Beyond, Apart, Out
<1>4. CASE page # {} /\ Append1(page) /\ cursor' = LastTime(page) + 1
  <2>1. \A p \in page : Time(p) \in Nat /\ Time(p) < cursor' /\ cursor <= Time(p) /\ cursor < cursor'
    <3>1. \A p \in page : Time(p) \in Nat /\ Time(p) <= LastTime(page) /\ LastTime(page) \in Nat
      BY <1>2, <1>4, Extremes, PointParts
    <3>2. cursor \in Nat
      BY <1>1 DEF Typed
    <3> HIDE DEF page
    <3>3. QED
      BY <1>2, <1>4, <3>1, <3>2
  <2>2. \A p \in Out : Time(p) \in Nat /\ Time(p) < cursor
    BY <1>1, OutPublished, PointParts DEF Beyond
  <2>3. page \cap Out = {}
    <3>1. cursor \in Nat
      BY <1>1 DEF Typed
    <3> HIDE DEF page
    <3>2. QED
      BY <2>1, <2>2, <3>1
  <2> HIDE DEF page
  <2>4. Apart' /\ Out' = Out \cup page
    BY <1>1, <1>4, <2>3, ApartAppended, OutAppended
  <2>5. ASSUME NEW p \in Out' PROVE Time(p) < cursor'
    <3>1. cursor \in Nat /\ cursor' \in Int /\ cursor < cursor'
      <4>1. cursor \in Nat
        BY <1>1 DEF Typed
      <4>2. cursor' \in Int
        BY <1>4, <1>2, Extremes
      <4>3. cursor < cursor'
        BY <1>4, <2>1
      <4>4. QED
        BY <4>1, <4>2, <4>3
    <3>2. QED
      BY <2>1, <2>2, <2>4, <2>5, <3>1
  <2>6. Beyond'
    BY <1>1, <2>5 DEF Beyond
  <2>7. QED
    BY <1>1, <2>4, <2>6 DEF Counted
<1>5. QED
  BY <1>3, <1>4, CursorHeard DEF ForwardPage, NextCursor

\* so does one that follows a token
LEMMA CountedToken ==
  ASSUME Typed, Counted, NEW q \in Tokens, Call(q), TokenPage(Oldest(Rest, cap))
  PROVE  Counted'
<1> DEFINE page == Oldest(Rest, cap)
<1>0. pager \in Tokens /\ pager' = pager /\ older' = older /\ pager \notin Forward \cup Windows \cup Descending
      /\ pager # "binance open interest" /\ pager # "okx funding"
  BY Kinds DEF Call, older
<1> SUFFICES ASSUME older PROVE Counted'
  BY <1>0 DEF Counted, Beyond, Repeats
<1>1. pager \in Tokens /\ pager' = pager /\ pager \notin Forward \cup Windows \cup Descending
      /\ pager # "binance open interest" /\ pager # "okx funding" /\ Apart /\ Beyond
  BY <1>0 DEF Counted, Repeats
<1>2. \A p \in Out : Time(p) \in Nat \ {0} /\ Time(p) <= cursor
  <2>1. \A p \in Out : Time(p) <= cursor
    BY <1>1 DEF Beyond
  <2>2. QED
    BY <2>1, Numbers
<1>3. page \in SUBSET Points /\ \A p \in page : cursor = NoCursor \/ cursor < Time(p)
  BY Ranges, CursorHeard DEF Oldest, Rest
<1>4. cursor \in Nat \cup {NoCursor} /\ NoCursor = -1
  BY DEF Typed, NoCursor
<1>5. page \cap Out = {}
  <2>1. SUFFICES ASSUME NEW p \in page, p \in Out PROVE FALSE
    OBVIOUS
  <2>2. Time(p) \in Nat \ {0} /\ Time(p) <= cursor /\ (cursor = NoCursor \/ cursor < Time(p))
    BY <1>2, <1>3, <2>1
  <2>3. QED
    BY <1>4, <2>2
<1>6. Append1(page) /\ cursor' = (IF page = {} THEN cursor ELSE LastTime(page))
  BY DEF TokenPage
<1>7. page # {} => \A p \in page : /\ Time(p) \in Nat /\ Time(p) <= LastTime(page)
                                   /\ LastTime(page) \in Nat
                                   /\ cursor = NoCursor \/ cursor < LastTime(page)
  <2>1. page # {} => \A p \in page : Time(p) \in Nat /\ Time(p) <= LastTime(page) /\ LastTime(page) \in Nat
    BY <1>3, Extremes, PointParts
  <2> HIDE DEF page
  <2>2. QED
    BY <1>3, <1>4, <2>1
<1> HIDE DEF page
<1>8. Apart' /\ Out' = Out \cup page
  BY <1>1, <1>5, <1>6, ApartAppended, OutAppended
<1>9. ASSUME NEW p \in Out' PROVE Time(p) <= cursor'
  <2>1. CASE page = {}
    BY <1>2, <1>6, <1>8, <1>9, <2>1
  <2>2. CASE page # {}
    <3>1. cursor' = LastTime(page) /\ LastTime(page) \in Nat /\ (cursor = NoCursor \/ cursor < LastTime(page))
      BY <1>6, <1>7, <2>2
    <3>2. CASE p \in page
      BY <1>7, <2>2, <3>1, <3>2
    <3>3. CASE p \in Out
      BY <1>2, <1>4, <3>1, <3>3
    <3>4. QED
      BY <1>8, <1>9, <3>2, <3>3
  <2>3. QED
    BY <2>1, <2>2
<1>10. Beyond'
  BY <1>1, <1>9 DEF Beyond
<1>11. QED
  BY <1>1, <1>8, <1>10 DEF Counted

\* a request of a descending loop ends before what there is, or drops it
LEMMA CountedDescending ==
  ASSUME Typed, Counted, \/ OkxOpenInterest \/ OkxFundingRateHistory
                         \/ backfillAggregatedOI \/ backfillAggregatedLiquidations
  PROVE  Counted'
<1>1. pager \in Descending /\ pager' = pager /\ older' = older /\ pager \notin Forward \cup Windows \cup Tokens
      /\ pager # "binance open interest" /\ Beyond /\ (Repeats \/ Apart)
  BY DescendingRequest, Kinds DEF Call, Counted, older
<1>2. PICK S \in SUBSET published, kept \in SUBSET published :
        /\ older => S = {p \in published : cursor = NoCursor \/ Time(p) <= Bound}
        /\ kept = IF pager = "okx funding" THEN {p \in Newest(S, cap) : Time(p) >= Start}
                                           ELSE Newest(S, cap) \ Out
        /\ \/ cursor' = cursor /\ pages' = pages
           \/ /\ Newest(S, cap) # {} /\ Append1(kept)
              /\ pager = "okx open interest" => kept # {} /\ cursor' = MinTime(kept) - 1
              /\ pager = "okx funding" => cursor' = MinTime(Newest(S, cap))
              /\ pager \in CoinGlass => cursor' = MinTime(Newest(S, cap)) - 1
  BY DescendingRequest
<1> DEFINE page == Newest(S, cap)
<1>3. page \in SUBSET published /\ page \in SUBSET Points /\ page \subseteq S
  BY Ranges DEF Newest
<1>4. CASE cursor' = cursor /\ pages' = pages
  BY <1>1, <1>4 DEF Counted, Beyond, Apart, Out, Repeats, Bound
<1>5. CASE /\ page # {} /\ Append1(kept)
           /\ pager = "okx open interest" => kept # {} /\ cursor' = MinTime(kept) - 1
           /\ pager = "okx funding" => cursor' = MinTime(page)
           /\ pager \in CoinGlass => cursor' = MinTime(page) - 1
  <2>1. Out' = Out \cup kept /\ kept \subseteq page
    BY <1>2, <1>5, OutAppended
  <2>2. Repeats \/ kept \cap Out = {}
    <3>1. SUFFICES ASSUME ~Repeats, NEW p \in kept, p \in Out PROVE FALSE
      OBVIOUS
    <3>2. pager = "okx funding" /\ older
      BY <1>2, <3>1 DEF Repeats
    <3>3. cursor # NoCursor /\ Bound < Time(p)
      BY <1>1, <3>1, <3>2 DEF Beyond
    <3>4. Time(p) <= Bound
      BY <1>2, <1>3, <2>1, <3>1, <3>2, <3>3
    <3>5. Time(p) \in Nat /\ Bound \in Int
      BY <3>1, Numbers
    <3>6. QED
      BY <3>3, <3>4, <3>5
  <2>3. Repeats' \/ Apart'
    BY <1>1, <1>5, <2>2, ApartAppended DEF Repeats
  <2>4. ASSUME older, NEW p \in Out' PROVE cursor' # NoCursor /\ Bound' < Time(p)
    <3>1. PICK m \in Nat \ {0} : Bound' = m - 1 /\ cursor' \in {m, m - 1}
                                 /\ \E x \in page : Time(x) = m /\ \A y \in kept : m <= Time(y)
      <4>1. \A X \in SUBSET Points : X # {} => /\ MinTime(X) \in Nat \ {0} /\ \E x \in X : Time(x) = MinTime(X)
                                               /\ \A y \in X : MinTime(X) <= Time(y)
        BY Extremes
      <4>2. CASE pager = "okx open interest"
        <5>1. kept # {} /\ cursor' = MinTime(kept) - 1 /\ Bound' = cursor'
          <6>1. Bound' = IF pager' = "okx funding" THEN cursor' - 1 ELSE cursor'
            BY DEF Bound
          <6>2. QED
            BY <1>1, <1>2, <1>5, <4>2, <6>1
        <5>2. kept \in SUBSET Points
          BY <1>3, <2>1
        <5>3. QED
          BY <2>1, <4>1, <5>1, <5>2
      <4>3. CASE pager = "okx funding"
        <5>1. cursor' = MinTime(page) /\ Bound' = cursor' - 1
          <6>1. Bound' = IF pager' = "okx funding" THEN cursor' - 1 ELSE cursor'
            BY DEF Bound
          <6>2. QED
            BY <1>1, <1>2, <1>5, <4>3, <6>1
        <5>2. QED
          BY <1>3, <1>5, <2>1, <4>1, <5>1
      <4>4. CASE pager \in CoinGlass
        <5>1. cursor' = MinTime(page) - 1 /\ Bound' = cursor'
          <6>1. Bound' = IF pager' = "okx funding" THEN cursor' - 1 ELSE cursor'
            BY DEF Bound
          <6>2. pager # "okx funding"
            BY <4>4 DEF CoinGlass
          <6>3. QED
            BY <1>1, <1>2, <1>5, <4>4, <6>1, <6>2
        <5>2. QED
          BY <1>3, <1>5, <2>1, <4>1, <5>1
      <4>5. QED
        BY <1>1, <4>2, <4>3, <4>4 DEF Descending, Okx
    <3>2. cursor' # NoCursor
      BY <3>1 DEF NoCursor
    <3>3. CASE p \in kept
      <4>1. m <= Time(p) /\ Bound' = m - 1 /\ m \in Nat
        BY <3>1, <3>3
      <4>2. Time(p) \in Nat
        BY <3>3, Numbers
      <4>3. QED
        BY <3>2, <4>1, <4>2
    <3>4. CASE p \in Out
      <4>1. cursor # NoCursor /\ Bound < Time(p) /\ Time(p) \in Nat
        BY <1>1, <2>4, <3>4, OutPublished, PointParts DEF Beyond
      <4>2. PICK x \in page : Time(x) = m
        BY <3>1
      <4>3. Time(x) <= Bound
        BY <1>2, <1>3, <2>4, <4>1
      <4>4. Bound \in Int
        BY Numbers
      <4>5. QED
        BY <3>1, <3>2, <4>1, <4>2, <4>3, <4>4
    <3>5. QED
      BY <2>1, <2>4, <3>2, <3>3, <3>4
  <2>5. Beyond'
    BY <1>1, <2>4 DEF Beyond
  <2>6. QED
    BY <1>1, <2>3, <2>5 DEF Counted
<1>6. QED
  BY <1>2, <1>4, <1>5

\* the border after the next window
LEMMA NextWindow ==
  ASSUME NEW k \in Nat, NEW w \in Nat
  PROVE  (k + 1) * w = k * w + w /\ k * w \in Nat
OBVIOUS

\* a request for a window gets points of the window
LEMMA CountedWindow ==
  ASSUME Typed, Counted, NEW q \in Windows, Call(q), WindowPage
  PROVE  Counted'
<1> DEFINE n == Len(pages)
           e == Min(cursor + WindowLen, End)
           page == Newest(Between(cursor, e), cap)
<1>1. pager \in Windows /\ pager' = pager /\ pager \notin Forward \cup Tokens \cup Descending
      /\ pager # "binance open interest" /\ status = "fetching" /\ WindowPages
  BY Kinds DEF Call, Counted
<1>2. Append1(page) /\ cursor' = e /\ status' = IF e >= End THEN "done" ELSE "fetching"
  BY DEF WindowPage, Finish
<1>3. n \in Nat /\ cursor = Start + n * WindowLen /\ (n + 1) * WindowLen = n * WindowLen + WindowLen
      /\ n * WindowLen \in Nat
  <2>1. n \in Nat
    BY DEF Typed
  <2>2. QED
    BY <1>1, <2>1, NextWindow, Params DEF WindowPages
<1>4. e \in Int /\ e <= cursor + WindowLen /\ (e < End => e = cursor + WindowLen)
  BY Numbers, Params DEF Min
<1>5. ASSUME NEW p \in page
      PROVE  Start + n * WindowLen <= Time(p) /\ Time(p) <= Start + (n + 1) * WindowLen
  <2>1. p \in Between(cursor, e) /\ p \in published
    BY <1>5, Ranges DEF Newest
  <2>2. Time(p) \in cursor .. e /\ Time(p) \in Nat
    BY <2>1, Numbers DEF Between
  <2> HIDE DEF n, e, page
  <2>3. QED
    BY <1>3, <1>4, <2>2, Numbers, Params
<1> HIDE DEF page, e
<1>6. ASSUME NEW k \in DOMAIN pages', NEW p \in pages'[k]
      PROVE  Start + (k - 1) * WindowLen <= Time(p) /\ Time(p) <= Start + k * WindowLen
  <2>1. DOMAIN pages' = 1 .. n + 1 /\ DOMAIN pages = 1 .. n /\ pages'[n + 1] = page
        /\ \A i \in DOMAIN pages : pages'[i] = pages[i]
    BY <1>2, OutAppended
  <2>2. CASE k \in DOMAIN pages
    BY <1>1, <1>6, <2>1, <2>2 DEF WindowPages
  <2>3. CASE k \notin DOMAIN pages
    <3>1. k = n + 1 /\ k - 1 = n
      BY <1>3, <2>1, <2>3
    <3>2. p \in page
      BY <1>6, <2>1, <3>1
    <3>3. QED
      BY <1>5, <3>1, <3>2
  <2>4. QED
    BY <2>2, <2>3
<1>7. status' = "fetching" => cursor' = Start + Len(pages') * WindowLen
  <2>1. Len(pages') = n + 1
    BY <1>2, OutAppended
  <2>2. status' = "fetching" => e < End
    BY <1>2, <1>4, Params
  <2>3. e < End => e = Start + (n + 1) * WindowLen
    BY <1>3, <1>4, Params
  <2>4. QED
    BY <1>2, <2>1, <2>2, <2>3
<1>8. WindowPages'
  BY <1>6, <1>7 DEF WindowPages
<1>9. QED
  BY <1>1, <1>8 DEF Counted, Beyond, Repeats

\* the newest point is one
LEMMA NewestOne ==
  ASSUME NEW S \in SUBSET Points, NEW p \in Newest(S, 1), NEW q \in Newest(S, 1)
  PROVE  p = q
<1>1. ASSUME NEW x \in Newest(S, 1), NEW y \in S PROVE ~Before(x, y)
  <2> DEFINE Later == {z \in S : Before(x, z)}
  <2>1. IsFiniteSet(Later) /\ Cardinality(Later) < 1
    BY <1>1, HistoriesFinite, FS_Subset DEF Newest
  <2>2. Cardinality(Later) = 0
    BY <2>1, FS_CardinalityType
  <2>3. Later = {}
    BY <2>1, <2>2, FS_EmptySet
  <2>4. QED
    BY <1>1, <2>3
<1>2. p \in S /\ q \in S
  BY DEF Newest
<1>3. QED
  BY <1>1, <1>2, Total

\* the two requests of FetchOpenInterest have one point of a day
LEMMA CountedOpenInterest ==
  ASSUME Typed, Counted, OpenInterestHistory \/ OpenInterestSnapshot
  PROVE  Counted'
<1>1. pager = "binance open interest" /\ pager' = pager /\ pager \notin Forward \cup Windows \cup Tokens \cup Descending
      /\ pager # "okx funding" /\ Apart /\ OneADay
  BY Kinds DEF OpenInterestHistory, OpenInterestSnapshot, Call, Counted, Repeats
<1>2. PICK page \in SUBSET published :
        /\ Append1(page)
        /\ \A p \in page, q \in Out : Day(p) # Day(q)
        /\ \A p, q \in page : p = q \/ Day(p) # Day(q)
  <2>1. CASE OpenInterestHistory
    <3> DEFINE hist == Newest(published, cap)
               page == {p \in hist : \A q \in hist : Day(q) = Day(p) => ~Before(q, p)}
    <3>1. pages = << >> /\ Append1(page)
      BY <2>1 DEF OpenInterestHistory
    <3>2. Out = {}
      BY <3>1 DEF Out
    <3>3. hist \in SUBSET Points
      BY Ranges
    <3>4. \A p, q \in page : p = q \/ Day(p) # Day(q)
      BY <3>3, Total
    <3>5. page \in SUBSET published
      BY Ranges
    <3>6. QED
      BY <3>1, <3>2, <3>4, <3>5
  <2>2. CASE OpenInterestSnapshot
    <3> DEFINE page == {p \in Newest(published, 1) : \A q \in Out : Day(q) # Day(p)}
    <3>1. Append1(page)
      BY <2>2 DEF OpenInterestSnapshot
    <3>2. \A p, q \in page : p = q
      BY Ranges, NewestOne
    <3>3. page \in SUBSET published /\ \A p \in page, q \in Out : Day(p) # Day(q)
      BY Ranges
    <3> HIDE DEF page
    <3>4. QED
      BY <3>1, <3>2, <3>3
  <2>3. QED
    BY <2>1, <2>2
<1>3. page \cap Out = {}
  BY <1>2
<1>4. Apart' /\ Out' = Out \cup page
  BY <1>1, <1>2, <1>3, ApartAppended, OutAppended
<1>5. \A p, q \in Out \cup page : p = q \/ Day(p) # Day(q)
  BY <1>1, <1>2 DEF OneADay
<1>6. OneADay'
  BY <1>4, <1>5 DEF OneADay, Day, Time
<1>7. QED
  BY <1>1, <1>4, <1>6 DEF Counted, Beyond

\* every step keeps the counts
LEMMA CountedStep ==
  ASSUME Typed, Counted, [Next]_vars
  PROVE  Counted'
<1>1. CASE UNCHANGED <<pager, older, cursor, pages, status>>
  <2>1. Out' = Out /\ Bound' = Bound
    BY <1>1 DEF Out, Bound
  <2>2. Beyond' /\ OneADay' = OneADay
    BY <1>1, <2>1 DEF Counted, Beyond, OneADay
  <2>3. Apart' = Apart /\ WindowPages' = WindowPages /\ Repeats' = Repeats
    BY <1>1 DEF Apart, WindowPages, Repeats
  <2>4. QED
    BY <1>1, <2>2, <2>3 DEF Counted
<1>2. CASE Fail
  <2>1. pages' = << >> /\ status' = "failed"
    BY <1>2 DEF Fail
  <2>2. DOMAIN pages' = {} /\ Out' = {}
    BY <2>1 DEF Out
  <2>3. QED
    BY <2>1, <2>2 DEF Counted, Beyond, Apart, WindowPages, OneADay
<1>3. CASE Call("bybit open interest") /\ Oldest(Rest, cap) = {} /\ Finish(TRUE)
           /\ UNCHANGED <<cursor, oldestSeen, pages>>
  <2>1. pager = "bybit open interest" /\ pager' = pager /\ older' = older
    BY <1>3 DEF Call, older
  <2>2. pager \notin Windows
    BY <2>1 DEF Windows
  <2>3. Out' = Out /\ Bound' = Bound
    BY <1>3, <2>1 DEF Out, Bound
  <2>4. Beyond' /\ OneADay' = OneADay
    BY <2>1, <1>3, <2>3 DEF Counted, Beyond, OneADay
  <2>5. Apart' = Apart /\ Repeats' = Repeats
    BY <1>3, <2>1 DEF Apart, Repeats
  <2>6. QED
    BY <2>1, <2>2, <2>4, <2>5 DEF Counted
<1>4. CASE Step
  BY <1>3, <1>4, RequestCases, CountedForward, CountedWindow, CountedToken, CountedDescending, CountedOpenInterest
<1>5. CASE Publish
  BY <1>1, <1>5 DEF Publish, older
<1>6. CASE UNCHANGED vars
  BY <1>1, <1>6 DEF vars, older
<1>7. QED
  BY <1>2, <1>4, <1>5, <1>6 DEF Next

\* and so they hold in every state
LEMMA CountedInvariant == Spec => []Counted
<1>1. Init => Counted
  <2>1. SUFFICES ASSUME Init PROVE Counted
    OBVIOUS
  <2>2. pages = << >> /\ (pager \in Windows => cursor = Start)
    BY <2>1 DEF Init, FirstCursor
  <2>3. DOMAIN pages = {} /\ Out = {} /\ Len(pages) = 0 /\ Start + 0 * WindowLen = Start
    BY <2>2, Params DEF Out
  <2>4. QED
    BY <2>2, <2>3 DEF Counted, Beyond, Apart, WindowPages, OneADay
<1>2. Typed /\ Counted /\ [Next]_vars => Counted'
  BY CountedStep
<1>3. QED
  BY <1>1, <1>2, TypedInvariant, PTL DEF Spec

\* products keep the order of their factors, and leave no remainder
LEMMA Multiples ==
  ASSUME NEW w \in Nat \ {0}, NEW i \in Nat, NEW j \in Nat
  PROVE  /\ i * w \in Nat /\ (i * w <= j * w => i <= j)
         /\ (i * w) % w = 0
<1>1. i * w \in Nat /\ j * w \in Nat
  OBVIOUS
<1>2. i * w <= j * w => i <= j
  <2>1. SUFFICES ASSUME j < i PROVE j * w < i * w
    BY <1>1
  <2>2. PICK c \in Nat : i = j + c /\ c >= 1
    BY <2>1
  <2>3. i * w = j * w + c * w /\ c * w >= w
    BY <2>2
  <2>4. QED
    BY <1>1, <2>3
<1>3. (i * w) % w = 0
  <2> DEFINE q == (i * w) \div w
             r == (i * w) % w
  <2>1. i * w = w * q + r /\ r \in 0 .. w - 1 /\ q \in Int
    BY <1>1
  <2> HIDE DEF q, r
  <2>2. w * (i - q) = r /\ i - q \in Int
    BY <2>1
  <2>3. i - q <= 0
    BY <2>1, <2>2
  <2>4. i - q >= 0
    BY <2>1, <2>2
  <2>5. r = 0
    BY <2>2, <2>3, <2>4
  <2>6. QED
    BY <2>5 DEF r
<1>4. QED
  BY <1>1, <1>2, <1>3

\* the pages that hold a point
Holding(p) == {k \in DOMAIN pages : p \in pages[k]}

\* where pages are apart, a point is on one
LEMMA OnOnePage ==
  ASSUME Apart, NEW p \in Out
  PROVE  Times(p) = 1
<1>1. PICK k \in DOMAIN pages : p \in pages[k]
  BY DEF Out
<1>2. Holding(p) = {k}
  BY <1>1 DEF Apart, Holding
<1>3. QED
  BY <1>2, FS_Singleton DEF Times, Holding

\* windows share their borders only
LEMMA OnTwoPages ==
  ASSUME Typed, WindowPages, NEW p \in Out
  PROVE  Times(p) = 1 \/ (Times(p) = 2 /\ (Time(p) - Start) % WindowLen = 0)
<1>1. PICK W \in Nat \ {0}, s \in Nat, t \in Nat : W = WindowLen /\ s = Start /\ t = Time(p)
  BY Params, Numbers
<1>2. ASSUME NEW k \in Holding(p) PROVE k \in Nat /\ k >= 1 /\ s + (k - 1) * W <= t /\ t <= s + k * W
  <2>1. DOMAIN pages = 1 .. Len(pages) /\ Len(pages) \in Nat
    BY DEF Typed
  <2>2. k \in DOMAIN pages /\ p \in pages[k]
    BY <1>2 DEF Holding
  <2>3. QED
    BY <1>1, <2>1, <2>2 DEF WindowPages
<1>3. ASSUME NEW i \in Holding(p), NEW j \in Holding(p), i < j
      PROVE  j = i + 1 /\ (t - s) % W = 0
  <2>1. i \in Nat /\ j - 1 \in Nat /\ i <= j - 1
    BY <1>2, <1>3
  <2>2. PICK a \in Nat, b \in Nat : a = i * W /\ b = (j - 1) * W /\ s + b <= t /\ t <= s + a
    BY <1>2, <2>1, Multiples
  <2>3. b <= a
    BY <2>2
  <2>4. j - 1 = i
    BY <2>1, <2>2, <2>3, Multiples
  <2>5. t - s = i * W
    BY <2>2, <2>4
  <2>6. QED
    BY <1>2, <2>1, <2>4, <2>5, Multiples
<1>4. PICK k \in Holding(p) : TRUE
  BY DEF Out, Holding
<1>5. Times(p) = Cardinality(Holding(p))
  BY DEF Times, Holding
<1>6. CASE Holding(p) = {k}
  BY <1>5, <1>6, FS_Singleton
<1>7. CASE Holding(p) # {k}
  <2>1. PICK j \in Holding(p) : j # k
    BY <1>4, <1>7
  <2>2. j \in Nat /\ k \in Nat
    BY <1>2
  <2>3. PICK i \in Holding(p) : i + 1 \in Holding(p) /\ i \in Nat /\ (t - s) % W = 0
    <3>1. CASE j < k
      BY <1>3, <2>2, <3>1
    <3>2. CASE k < j
      BY <1>3, <2>2, <3>2
    <3>3. QED
      BY <2>1, <2>2, <3>1, <3>2
  <2>4. Holding(p) = {i} \cup {i + 1} /\ i + 1 \notin {i}
    <3> HIDE DEF Holding
    <3>1. SUFFICES ASSUME NEW x \in Holding(p), x # i, x # i + 1 PROVE FALSE
      <4>1. i + 1 # i
        BY <2>3
      <4>2. QED
        BY <2>3, <4>1
    <3>2. x \in Nat /\ (x < i \/ i < x) /\ (x < i + 1 \/ i + 1 < x)
      BY <1>2, <2>3, <3>1
    <3>3. x < i => i = x + 1 /\ i + 1 = x + 1
      BY <1>3, <2>3, <3>2
    <3>4. i < x => x = i + 1
      BY <1>3, <2>3
    <3>5. QED
      BY <2>3, <3>1, <3>2, <3>3, <3>4
  <2>5. IsFiniteSet({i}) /\ Cardinality({i}) = 1
    BY FS_Singleton
  <2>6. Cardinality(Holding(p)) = 2
    BY <2>4, <2>5, FS_AddElement
  <2>7. QED
    BY <1>1, <1>5, <2>3, <2>6
<1>8. QED
  BY <1>6, <1>7

\* where pages are apart, a day's orders are no more than the provider has
LEMMA BucketsExact ==
  ASSUME Typed, Apart, NEW d \in DOMAIN Buckets, NEW s \in DOMAIN Buckets[d]
  PROVE  Buckets[d][s] <= Cardinality({p \in published : Day(p) = d /\ p[2] = s})
<1> DEFINE E == {e \in (DOMAIN pages) \X Out : e[2] \in pages[e[1]] /\ Day(e[2]) = d /\ e[2][2] = s}
           P == {p \in published : Day(p) = d /\ p[2] = s}
           f == [e \in E |-> e[2]]
<1>1. Buckets[d][s] = Cardinality(E)
  BY DEF Buckets
<1>2. P \in SUBSET Points
  BY Ranges
<1>3. IsFiniteSet(P)
  BY <1>2, HistoriesFinite
<1>4. f \in [E -> P]
  BY OutPublished
<1>5. ASSUME NEW a \in E, NEW b \in E, f[a] = f[b] PROVE a = b
  <2>1. a[2] = b[2] /\ a[1] \in DOMAIN pages /\ b[1] \in DOMAIN pages /\ a[2] \in pages[a[1]] /\ b[2] \in pages[b[1]]
    BY <1>5
  <2>2. a[1] = b[1]
    BY <2>1 DEF Apart
  <2>3. a = <<a[1], a[2]>> /\ b = <<b[1], b[2]>>
    OBVIOUS
  <2>4. QED
    BY <2>1, <2>2, <2>3
<1>6. f \in Injection(E, P)
  <2> HIDE DEF E, P, f
  <2>1. QED
    BY <1>4, <1>5 DEF Injection, IsInjective
<1>7. Cardinality(E) <= Cardinality(P)
  <2> HIDE DEF E, P, f
  <2>1. QED
    BY <1>3, <1>6, FS_Injection
<1>8. QED
  BY <1>1, <1>7

\* a newer point does not change a full page of the oldest
LEMMA OldestStays ==
  ASSUME NEW S \in SUBSET Points, NEW n \in Nat, NEW p \in Points, \A q \in S : Time(q) < Time(p),
         ~(Cardinality(S) < n)
  PROVE  Oldest(S \cup {p}, n) = Oldest(S, n)
<1>1. \A q \in S : Before(q, p) /\ ~Before(p, q)
  <2>1. \A q \in S \cup {p} : Time(q) \in Nat
    BY PointParts
  <2>2. QED
    BY <2>1 DEF Before
<1>2. ~Before(p, p)
  BY Ordered
<1>3. \A q \in S : {r \in S \cup {p} : Before(r, q)} = {r \in S : Before(r, q)}
  BY <1>1
<1>4. {r \in S \cup {p} : Before(r, p)} = S
  BY <1>1, <1>2
<1>5. ASSUME NEW q PROVE q \in Oldest(S \cup {p}, n) <=> q \in Oldest(S, n)
  <2>1. CASE q \in S
    BY <1>3, <2>1 DEF Oldest
  <2>2. CASE q \notin S
    BY <1>4, <2>2 DEF Oldest
  <2>3. QED
    BY <2>1, <2>2
<1>6. QED
  BY <1>5

\* the first page does not end the loop
Full ==
  /\ pager \in Forward =>
       LET page == Oldest(Between(Start, End), Min(Limit, cap))
       IN  page # {} /\ ~ShortPage(page, Limit) /\ ~(NextCursor(page) >= End)
  /\ pager \in Tokens =>
       \E r \in Between(Start, End) : \A q \in Oldest(Between(Start, End), cap) : Before(q, r)
  /\ pager = "okx funding" =>
       Newest(published, cap) # {} /\ ~(MinTime(Newest(published, cap)) < Start)

\* where the cursor is ignored a loop that takes a second page takes it for ever
Looping ==
  Unnoticed => /\ status = "fetching" /\ pages # << >> => Full
               /\ status = "done" => Len(pages) <= 1

\* the loop ends or goes on by what its first page tells it
LEMMA Again ==
  ASSUME Typed, Unnoticed, Step
  PROVE  /\ status = "fetching"
         /\ status' = IF Full THEN "fetching" ELSE "done"
         /\ pages' = pages \/ \E page : Append1(page)
         /\ UNCHANGED <<pager, cap, reading, published>>
<1>1. reading = "ignored" /\ ~older /\ pager \in Forward \cup Tokens \cup {"okx funding"}
      /\ pager \notin Windows \cup CoinGlass \cup {"okx open interest", "binance open interest"}
  BY DEF Unnoticed, older, Forward, Tokens, Windows, CoinGlass
<1>2. ASSUME NEW q \in Forward, Call(q), ForwardPage(Limit)
      PROVE  /\ status = "fetching"
             /\ status' = IF Full THEN "fetching" ELSE "done"
             /\ pages' = pages \/ \E page : Append1(page)
             /\ UNCHANGED <<pager, cap, reading, published>>
  <2> DEFINE page == Oldest(Between(Start, End), Min(Limit, cap))
  <2>1. pager \in Forward /\ pager \notin Tokens \cup {"okx funding"} /\ status = "fetching"
        /\ UNCHANGED <<pager, cap, reading, published>>
    BY <1>2, Kinds DEF Call
  <2>2. Oldest(Between(Heard(cursor), End), Min(Limit, cap)) = page
    BY <1>1, <2>1, CursorHeard
  <2>3. \/ page = {} /\ Finish(TRUE) /\ pages' = pages
        \/ page # {} /\ Append1(page) /\ Finish(ShortPage(page, Limit) \/ NextCursor(page) >= End)
    BY <1>2, <2>2 DEF ForwardPage
  <2>4. Full <=> page # {} /\ ~ShortPage(page, Limit) /\ ~(NextCursor(page) >= End)
    BY <2>1 DEF Full
  <2> HIDE DEF page
  <2>5. QED
    BY <2>1, <2>3, <2>4 DEF Finish
<1>3. ASSUME NEW q \in Tokens, Call(q),
             \/ TokenPage(Oldest(Rest, cap))
             \/ Oldest(Rest, cap) = {} /\ Finish(TRUE) /\ UNCHANGED pages
      PROVE  /\ status = "fetching"
             /\ status' = IF Full THEN "fetching" ELSE "done"
             /\ pages' = pages \/ \E page : Append1(page)
             /\ UNCHANGED <<pager, cap, reading, published>>
  <2> DEFINE page == Oldest(Rest, cap)
  <2>1. pager \in Tokens /\ pager \notin Forward \cup {"okx funding"} /\ status = "fetching"
        /\ UNCHANGED <<pager, cap, reading, published>>
    BY <1>3, Kinds DEF Call
  <2>2. Rest = Between(Start, End)
    BY <1>1, <2>1, CursorHeard DEF Rest
  <2>3. Full <=> HasMore(page)
    BY <2>1, <2>2 DEF Full, HasMore
  <2>4. page = {} => ~HasMore(page)
    <3>1. cap \in Nat /\ cap # 0
      BY DEF Typed
    <3>2. page = {} => Rest = {}
      BY <3>1, Ranges, OldestPage
    <3>3. QED
      BY <3>2 DEF HasMore
  <2>5. \/ page = {} /\ Finish(TRUE) /\ pages' = pages
        \/ Append1(page) /\ Finish(~HasMore(page))
    BY <1>3 DEF TokenPage
  <2> HIDE DEF page
  <2>6. QED
    BY <2>1, <2>3, <2>4, <2>5 DEF Finish
<1>4. ASSUME OkxFundingRateHistory
      PROVE  /\ status = "fetching"
             /\ status' = IF Full THEN "fetching" ELSE "done"
             /\ pages' = pages \/ \E page : Append1(page)
             /\ UNCHANGED <<pager, cap, reading, published>>
  <2> DEFINE page == Newest(published, cap)
  <2>1. pager = "okx funding" /\ pager \notin Forward \cup Windows \cup Tokens /\ status = "fetching"
        /\ UNCHANGED <<pager, cap, reading, published>>
    BY <1>4 DEF OkxFundingRateHistory, Call, Forward, Windows, Tokens
  <2>2. NewestFrom(OkxBefore) = page
    BY <1>1, <2>1 DEF NewestFrom, Heard, FirstCursor
  <2>3. \/ page = {} /\ Finish(TRUE) /\ pages' = pages
        \/ page # {} /\ (\E kept : Append1(kept)) /\ Finish(MinTime(page) < Start)
    BY <1>4, <2>2 DEF OkxFundingRateHistory
  <2>4. Full <=> page # {} /\ ~(MinTime(page) < Start)
    BY <2>1 DEF Full
  <2> HIDE DEF page
  <2>5. QED
    BY <2>1, <2>3, <2>4 DEF Finish
<1>5. "bybit open interest" \in Tokens
  BY DEF Tokens
<1>6. ~(\E q \in Windows : Call(q)) /\ ~OkxOpenInterest /\ ~backfillAggregatedOI
      /\ ~backfillAggregatedLiquidations /\ ~OpenInterestHistory /\ ~OpenInterestSnapshot
  BY <1>1 DEF Call, OkxOpenInterest, backfillAggregatedOI, backfillAggregatedLiquidations,
              OpenInterestHistory, OpenInterestSnapshot, CoinGlass
<1>7. QED
  BY <1>2, <1>3, <1>4, <1>5, <1>6, RequestCases

\* what is published meanwhile does not end it
LEMMA FullStays ==
  ASSUME Typed, Typed', Full, Publish
  PROVE  Full'
<1>1. PICK p \in Points : published' = published \cup {p} /\ \A q \in published : Time(q) < Time(p)
  BY DEF Publish, Points
<1>2. UNCHANGED <<pager, cap>> /\ cap \in Nat /\ cap # 0 /\ Points' = Points
  BY DEF Publish, Typed, Points
<1> DEFINE S == Between(Start, End)
<1>3. S' = S \/ S' = S \cup {p}
  BY <1>1 DEF Between, Time
<1>4. S \in SUBSET Points /\ \A q \in S : Time(q) < Time(p)
  BY <1>1, Ranges DEF Between
<1>5. IsFiniteSet(S) /\ Cardinality(S) \in Nat
  BY <1>4, HistoriesFinite, FS_CardinalityType
<1>6. ASSUME NEW n \in Nat, ~(Cardinality(S) < n) PROVE Oldest(S', n) = Oldest(S, n)
  BY <1>3, <1>4, <1>6, OldestStays
<1> HIDE DEF S
<1>7. ASSUME NEW n \in Nat PROVE Cardinality(Oldest(S, n)) \in Nat /\ Cardinality(Oldest(S, n)) <= Cardinality(S)
  <2>1. Oldest(S, n) \subseteq S
    BY DEF Oldest
  <2>2. QED
    BY <1>5, <2>1, FS_Subset, FS_CardinalityType
<1>8. ASSUME pager \in Forward
      PROVE  LET page == Oldest(S', Min(Limit, cap))
             IN  page # {} /\ ~ShortPage(page, Limit) /\ ~(NextCursor(page) >= End)
  <2> DEFINE page == Oldest(S, Min(Limit, cap))
  <2>1. page # {} /\ ~ShortPage(page, Limit) /\ ~(NextCursor(page) >= End)
    BY <1>8 DEF Full, S
  <2>2. Min(Limit, cap) \in Nat /\ Min(Limit, cap) <= Limit /\ Limit \in Nat
    BY <1>2, Params DEF Min
  <2>3. ~(Cardinality(page) < Limit)
    BY <2>1 DEF ShortPage
  <2>4. ~(Cardinality(S) < Min(Limit, cap))
    <3>1. Cardinality(page) \in Nat /\ Cardinality(page) <= Cardinality(S)
      BY <1>7, <2>2
    <3> HIDE DEF page
    <3>2. QED
      BY <1>5, <2>2, <2>3, <3>1
  <2>5. Oldest(S', Min(Limit, cap)) = page
    BY <1>6, <2>2, <2>4
  <2>6. QED
    BY <2>1, <2>5
<1>9. ASSUME pager \in Tokens
      PROVE  \E r \in S' : \A q \in Oldest(S', cap) : Before(q, r)
  <2>1. PICK r \in S : \A q \in Oldest(S, cap) : Before(q, r)
    BY <1>9 DEF Full, S
  <2>2. r \notin Oldest(S, cap)
    BY <1>4, <2>1, Ordered
  <2>3. ~(Cardinality(Oldest(S, cap)) < cap)
    BY <1>2, <1>4, <2>1, <2>2, OldestPage
  <2>4. ~(Cardinality(S) < cap)
    BY <1>2, <1>5, <1>7, <2>3
  <2>5. Oldest(S', cap) = Oldest(S, cap)
    BY <1>2, <1>6, <2>4
  <2>6. QED
    BY <1>3, <2>1, <2>5
<1>10. ASSUME Newest(published, cap) # {}, ~(MinTime(Newest(published, cap)) < Start)
       PROVE  Newest(published', cap) # {} /\ ~(MinTime(Newest(published', cap)) < Start)
  <2> DEFINE page == Newest(published, cap)
             next == Newest(published', cap)
  <2>1. /\ published \in SUBSET Points /\ published' \in SUBSET Points
        /\ page \subseteq published /\ next \subseteq published'
        /\ page \in SUBSET Points /\ next \in SUBSET Points
    BY <1>1, <1>2, Ranges DEF Newest
  <2>2. next # {}
    BY <1>1, <1>2, <2>1, NewestPage
  <2>3. ASSUME NEW q \in next, q # p PROVE q \in page
    <3>1. q \in published /\ Cardinality({r \in published' : Before(q, r)}) < cap
      BY <1>1, <2>3 DEF Newest
    <3>2. {r \in published : Before(q, r)} \subseteq {r \in published' : Before(q, r)}
      BY <1>1
    <3>3. IsFiniteSet({r \in published' : Before(q, r)})
      BY <2>1, HistoriesFinite
    <3>4. /\ Cardinality({r \in published : Before(q, r)}) <= Cardinality({r \in published' : Before(q, r)})
          /\ Cardinality({r \in published : Before(q, r)}) \in Nat
          /\ Cardinality({r \in published' : Before(q, r)}) \in Nat
      BY <3>2, <3>3, FS_Subset, FS_CardinalityType
    <3>5. Cardinality({r \in published : Before(q, r)}) < cap
      BY <1>2, <3>1, <3>4
    <3>6. QED
      BY <3>1, <3>5 DEF Newest
  <2>4. /\ \A x \in page : MinTime(page) <= Time(x)
        /\ MinTime(page) \in 1 .. MaxTime
        /\ \E x \in next : Time(x) = MinTime(next)
    BY <1>10, <2>1, <2>2, Extremes
  <2>5. PICK x \in next : Time(x) = MinTime(next)
    BY <2>4
  <2>6. PICK y \in page : Time(y) <= Time(x)
    <3>1. CASE x = p
      <4>1. PICK y \in page : TRUE
        BY <1>10
      <4>2. Time(y) < Time(x) /\ Time(y) \in Nat /\ Time(x) \in Nat
        BY <1>1, <2>1, <3>1, <4>1, PointParts
      <4>3. QED
        BY <4>2
    <3>2. CASE x # p
      <4>1. x \in page /\ Time(x) \in Nat
        BY <2>1, <2>3, <2>5, <3>2, PointParts
      <4>2. QED
        BY <4>1
    <3>3. QED
      BY <3>1, <3>2
  <2>7. Time(y) \in Nat /\ Time(x) \in Nat
    BY <2>1, <2>5, <2>6, PointParts
  <2>8. ~(Time(x) < Start)
    <3>1. MinTime(page) <= Time(y) /\ MinTime(page) \in Nat /\ ~(MinTime(page) < Start)
      <4>1. MinTime(page) <= Time(y) /\ ~(MinTime(page) < Start)
        BY <1>10, <2>4, <2>6
      <4>2. MinTime(page) \in Nat
        <5> HIDE DEF page
        <5>1. QED
          BY <2>4, Params
      <4>3. QED
        BY <4>1, <4>2
    <3> HIDE DEF page, next
    <3>2. QED
      BY <2>6, <2>7, <3>1, Params
  <2>9. QED
    BY <2>2, <2>5, <2>8
<1>11. QED
  BY <1>2, <1>8, <1>9, <1>10 DEF Full, S

\* so a loop that repeats itself never ends with what it has
LEMMA LoopingStep ==
  ASSUME Typed, Looping, [Next]_vars
  PROVE  Looping'
<1>1. CASE Step
  <2>1. SUFFICES ASSUME Unnoticed' PROVE /\ status' = "fetching" => Full'
                                         /\ status' = "done" => Len(pages') <= 1
    BY DEF Looping
  <2>2. Unnoticed
    BY <1>1, <2>1, RequestCases, DescendingRequest DEF Unnoticed, Call, OpenInterestHistory, OpenInterestSnapshot
  <2>3. /\ status = "fetching" /\ status' = IF Full THEN "fetching" ELSE "done"
        /\ pages' = pages \/ \E page : Append1(page)
        /\ UNCHANGED <<pager, cap, reading, published>>
    BY <1>1, <2>2, Again
  <2>4. Full' = Full
    BY <2>3 DEF Full, Between
  <2>5. status' = "done" => pages = << >>
    BY <2>2, <2>3 DEF Looping
  <2>6. pages = << >> => Len(pages') <= 1
    <3>1. ASSUME pages = << >>, NEW page, Append1(page) PROVE Len(pages') = 1
      <4>1. Len(pages') = Len(pages) + 1 /\ Len(pages) = 0
        BY <3>1, OutAppended
      <4>2. QED
        BY <4>1
    <3>2. pages = << >> /\ pages' = pages => Len(pages') = 0
      OBVIOUS
    <3>3. ASSUME pages = << >> PROVE Len(pages') \in {0, 1}
      <4>1. CASE pages' = pages
        BY <3>2, <3>3, <4>1
      <4>2. CASE \E page : Append1(page)
        BY <3>1, <3>3, <4>2
      <4>3. QED
        BY <2>3, <4>1, <4>2
    <3>4. ASSUME Len(pages') \in {0, 1} PROVE Len(pages') <= 1
      <4>1. PICK n \in {0, 1} : n = Len(pages')
        BY <3>4
      <4>2. QED
        BY <4>1
    <3>5. QED
      BY <3>3, <3>4
  <2>7. QED
    BY <2>3, <2>4, <2>5, <2>6
<1>2. CASE Publish
  <2>1. UNCHANGED <<pager, reading, pages, status>> /\ Typed'
    BY <1>2, TypedStep DEF Publish, Next
  <2>2. Full => Full'
    BY <1>2, <2>1, FullStays
  <2>3. Unnoticed' = Unnoticed
    BY <2>1 DEF Unnoticed
  <2>4. QED
    BY <2>1, <2>2, <2>3 DEF Looping
<1>3. CASE Fail
  BY <1>3 DEF Fail, Looping
<1>4. CASE UNCHANGED vars
  <2>1. Full' = Full /\ Unnoticed' = Unnoticed
    BY <1>4 DEF vars, Full, Unnoticed, Between
  <2>2. QED
    BY <1>4, <2>1 DEF vars, Looping
<1>5. QED
  BY <1>1, <1>2, <1>3, <1>4 DEF Next

\* and so it is in every state
LEMMA LoopingInvariant == Spec => []Looping
<1>1. Init => Looping
  BY DEF Init, Looping
<1>2. Typed /\ Looping /\ [Next]_vars => Looping'
  BY LoopingStep
<1>3. QED
  BY <1>1, <1>2, TypedInvariant, PTL DEF Spec

(***************************************************************************)
(* What a call returns has nothing twice, whatever is published between    *)
(* two requests: the next page starts beyond the last point returned or    *)
(* its points are compared with those, two windows of a range share their  *)
(* border only, and a loop that does not notice that its cursor is ignored *)
(* takes the same page for ever or ends with it.  So the daily sums of     *)
(* liquidations are sums of different orders.                              *)
(***************************************************************************)
THEOREM NothingTwice == Spec => []CountedOnce
<1>1. Typed /\ Counted /\ Looping => CountedOnce
  <2>1. SUFFICES ASSUME Typed, Counted, Looping, status = "done" PROVE CountedOnce
    BY DEF CountedOnce
  <2>2. CASE pager \in Windows
    <3>1. pager \notin {"binance liquidations", "binance open interest"}
      BY <2>2 DEF Windows
    <3>2. \A p \in Out : Times(p) = 1 \/ (Times(p) = 2 /\ (Time(p) - Start) % WindowLen = 0)
      BY <2>1, <2>2, OnTwoPages DEF Counted
    <3>3. QED
      BY <2>2, <3>1, <3>2 DEF CountedOnce
  <2>3. CASE pager = "okx funding" /\ reading = "reversed"
    BY <2>3 DEF CountedOnce
  <2>4. CASE pager \notin Windows /\ ~(pager = "okx funding" /\ reading = "reversed")
    <3>1. Apart
      <4>1. CASE ~Repeats
        BY <2>1, <4>1 DEF Counted
      <4>2. CASE Repeats
        <5>1. pager \in Forward \cup Tokens \cup {"okx funding"} /\ ~older
          BY <2>4, <4>2 DEF Repeats
        <5>2. reading = "ignored"
          BY <2>1, <2>4, <5>1, CursorHeard DEF Typed, Readings, older
        <5>3. Len(pages) <= 1
          BY <2>1, <5>1, <5>2 DEF Looping, Unnoticed
        <5>4. DOMAIN pages = 1 .. Len(pages) /\ Len(pages) \in Nat
          BY <2>1 DEF Typed
        <5>5. \A j, k \in DOMAIN pages : j = k
          BY <5>3, <5>4
        <5>6. QED
          BY <5>5 DEF Apart
      <4>3. QED
        BY <4>1, <4>2
    <3>2. \A d \in DOMAIN Buckets : \A s \in DOMAIN Buckets[d] :
            Buckets[d][s] <= Cardinality({p \in published : Day(p) = d /\ p[2] = s})
      BY <2>1, <3>1, BucketsExact
    <3>3. \A p \in Out : Times(p) = 1
      BY <3>1, OnOnePage
    <3>4. pager = "binance open interest" => \A p, q \in Out : p = q \/ Day(p) # Day(q)
      BY <2>1 DEF Counted, OneADay
    <3>5. QED
      BY <3>2, <3>3, <3>4 DEF CountedOnce
  <2>5. QED
    BY <2>2, <2>3, <2>4
<1>2. QED
  BY <1>1, TypedInvariant, CountedInvariant, LoopingInvariant, PTL

-----------------------------------------------------------------------------
(* A history is cut at one end *)

\* a descending loop keeps the point
Kept(p) == pager \in Descending /\ (pager = "okx funding" => Time(p) >= Start)

\* a point not returned is still ahead of the cursor
Ahead(p) ==
  /\ pager \in Forward /\ older /\ Time(p) \in Start .. End => cursor <= Time(p) \/ LostTie(p)
  /\ pager \in Tokens /\ older /\ Time(p) \in Start .. End => cursor = NoCursor \/ cursor < Time(p)
  /\ pager \in Forward \cup Tokens /\ ~older /\ Time(p) \in Start .. End =>
       \A q \in Out : Time(q) < Time(p) \/ LostTie(p)
  /\ Kept(p) => /\ \A q \in Out : Time(p) < Time(q)
                /\ older /\ status = "fetching" /\ cursor # NoCursor => Time(p) <= Bound

AllAhead ==
  IF status = "failed" THEN pages = << >> ELSE \A p \in first \ Out : Ahead(p)

\* a request of an ascending loop passes over no point but one of the millisecond it ends at
LEMMA AheadForward ==
  ASSUME Typed, AllAhead, NEW q \in Forward, Call(q), ForwardPage(Limit)
  PROVE  AllAhead'
<1> DEFINE page == Oldest(Between(Heard(cursor), End), Min(Limit, cap))
<1>1. pager \in Forward /\ pager' = pager /\ older' = older /\ first' = first /\ pager \notin Tokens \cup Descending
      /\ status # "failed" /\ status' # "failed" /\ cursor \in Nat
  BY Kinds DEF Call, ForwardPage, Finish, Typed, older
<1>2. page \in SUBSET Points /\ \A p \in Between(Heard(cursor), End) \ page : \A x \in page : Before(x, p)
  <2>1. Min(Limit, cap) \in Nat
    BY Params DEF Min, Typed
  <2>2. QED
    BY <2>1, Ranges, OldestPage
<1>3. SUFFICES ASSUME NEW p \in first, p \notin Out', Time(p) \in Start .. End
               PROVE  IF older THEN cursor' <= Time(p) \/ LostTie(p)'
                               ELSE \A x \in Out' : Time(x) < Time(p) \/ LostTie(p)'
  BY <1>1 DEF AllAhead, Ahead, Kept, Time
<1>4. CASE page = {} /\ UNCHANGED <<cursor, pages>>
  <2>1. Out' = Out
    BY <1>4 DEF Out
  <2>2. IF older THEN cursor <= Time(p) \/ LostTie(p) ELSE \A x \in Out : Time(x) < Time(p) \/ LostTie(p)
    BY <1>1, <1>3, <2>1 DEF AllAhead, Ahead
  <2>3. LostTie(p)' = LostTie(p)
    BY <1>1, <2>1 DEF LostTie, Time
  <2>4. QED
    BY <1>4, <2>1, <2>2, <2>3
<1>5. CASE page # {} /\ Append1(page) /\ cursor' = LastTime(page) + 1
  <2>1. Out' = Out \cup page
    BY <1>5, OutAppended
  <2>2. p \in Points /\ p \in published /\ Time(p) \in Nat
    BY <1>3, Ranges, Numbers DEF Typed
  <2>3. LostTie(p) => LostTie(p)'
    BY <1>1, <2>1 DEF LostTie, Time
  <2>4. ASSUME p \in Between(Heard(cursor), End), NEW x \in page PROVE Time(x) < Time(p) \/ LostTie(p)'
    <3>1. Before(x, p) /\ x \in Points
      BY <1>2, <1>3, <2>1, <2>4
    <3>2. Time(x) <= Time(p) /\ (Time(x) = Time(p) => pager = "binance liquidations")
      BY <2>2, <3>1, OneSide
    <3>3. Time(x) \in Nat
      BY <3>1, PointParts
    <3>4. Time(x) = Time(p) => LostTie(p)'
      BY <1>1, <2>1, <2>4, <3>2 DEF LostTie, Time
    <3>5. Time(x) < Time(p) \/ Time(x) = Time(p)
      <4>1. PICK a \in Nat, b \in Nat : a = Time(x) /\ b = Time(p) /\ a <= b
        BY <2>2, <3>2, <3>3
      <4>2. QED
        BY <4>1
    <3>6. QED
      BY <3>4, <3>5
  <2>5. CASE older
    <3>1. cursor <= Time(p) \/ LostTie(p)
      BY <1>1, <1>3, <2>1, <2>5 DEF AllAhead, Ahead
    <3>2. CASE LostTie(p)
      BY <2>3, <2>5, <3>2
    <3>3. CASE cursor <= Time(p)
      <4>1. Heard(cursor) = cursor
        BY <2>5, CursorHeard
      <4>2. p \in Between(Heard(cursor), End)
        BY <1>1, <1>3, <2>2, <3>3, <4>1, Params DEF Between
      <4>3. PICK x \in page : Time(x) = LastTime(page) /\ Time(x) \in Nat
        BY <1>2, <1>5, Extremes, PointParts
      <4>4. Time(x) < Time(p) \/ LostTie(p)'
        BY <2>4, <4>2
      <4>5. Time(x) < Time(p) => cursor' <= Time(p)
        BY <1>5, <2>2, <4>3
      <4>6. QED
        BY <2>5, <4>4, <4>5
    <3>4. QED
      BY <3>1, <3>2, <3>3
  <2>6. CASE ~older
    <3>1. p \notin Out
      BY <1>3, <2>1
    <3>2. ASSUME NEW x \in Out PROVE Time(x) < Time(p) \/ LostTie(p)'
      BY <1>1, <1>3, <2>3, <2>6, <3>1, <3>2 DEF AllAhead, Ahead
    <3>3. p \in Between(Heard(cursor), End)
      <4>1. Heard(cursor) = Start
        BY <1>1, <2>6, CursorHeard
      <4>2. QED
        BY <1>3, <2>2, <4>1 DEF Between
    <3> HIDE DEF page
    <3>4. QED
      BY <2>1, <2>4, <2>6, <3>2, <3>3
  <2>7. QED
    BY <2>5, <2>6
<1>6. QED
  BY <1>4, <1>5 DEF ForwardPage, NextCursor

\* nor does one that follows a token pass over any
LEMMA AheadToken ==
  ASSUME Typed, AllAhead, NEW q \in Tokens, Call(q), TokenPage(Oldest(Rest, cap))
  PROVE  AllAhead'
<1> DEFINE page == Oldest(Rest, cap)
<1>1. pager \in Tokens /\ pager' = pager /\ older' = older /\ first' = first /\ pager \notin Forward \cup Descending
      /\ status # "failed" /\ status' # "failed" /\ pager # "binance liquidations"
  BY Kinds DEF Call, TokenPage, Finish, Tokens, older
<1>2. page \in SUBSET Points /\ \A p \in Rest \ page : \A x \in page : Before(x, p)
  <2>1. cap \in Nat
    BY DEF Typed
  <2>2. QED
    BY <2>1, Ranges, OldestPage
<1>3. Append1(page) /\ cursor' = (IF page = {} THEN cursor ELSE LastTime(page))
  BY DEF TokenPage
<1>4. Out' = Out \cup page
  BY <1>2, <1>3, OutAppended
<1>5. SUFFICES ASSUME NEW p \in first, p \notin Out', Time(p) \in Start .. End
               PROVE  IF older THEN cursor' = NoCursor \/ cursor' < Time(p)
                               ELSE \A x \in Out' : Time(x) < Time(p)
  BY <1>1 DEF AllAhead, Ahead, Kept, Time
<1>6. p \in Points /\ p \in published /\ p \notin Out /\ p \notin page
  BY <1>4, <1>5, Ranges DEF Typed
<1>7. ASSUME p \in Rest, NEW x \in page PROVE Time(x) < Time(p)
  <2>1. Before(x, p) /\ x \in Points
    BY <1>2, <1>6, <1>7
  <2>2. Time(x) <= Time(p) /\ Time(x) # Time(p) /\ Time(x) \in Nat /\ Time(p) \in Nat
    BY <1>1, <1>6, <2>1, OneSide, PointParts
  <2> HIDE DEF page
  <2>3. QED
    BY <2>2
<1>8. CASE older
  <2>1. cursor = NoCursor \/ cursor < Time(p)
    BY <1>1, <1>5, <1>6, <1>8 DEF AllAhead, Ahead
  <2>2. p \in Rest
    BY <1>5, <1>6, <1>8, <2>1, CursorHeard DEF Rest, Between
  <2>3. CASE page = {}
    BY <1>3, <1>8, <2>1, <2>3
  <2>4. CASE page # {}
    <3>1. PICK x \in page : Time(x) = LastTime(page)
      BY <1>2, <2>4, Extremes
    <3>2. Time(x) < Time(p)
      BY <1>7, <2>2
    <3>3. QED
      BY <1>3, <1>8, <2>4, <3>1, <3>2
  <2>5. QED
    BY <2>3, <2>4
<1>9. CASE ~older
  <2>1. \A x \in Out : Time(x) < Time(p)
    BY <1>1, <1>5, <1>6, <1>9 DEF AllAhead, Ahead, LostTie
  <2>2. p \in Rest
    BY <1>1, <1>5, <1>6, <1>9, CursorHeard DEF Rest, Between
  <2>3. QED
    BY <1>4, <1>7, <1>9, <2>1, <2>2
<1>10. QED
  BY <1>8, <1>9

\* a request of a descending loop keeps all points after the oldest it keeps
LEMMA AheadDescending ==
  ASSUME Typed, AllAhead, \/ OkxOpenInterest \/ OkxFundingRateHistory
                          \/ backfillAggregatedOI \/ backfillAggregatedLiquidations
  PROVE  AllAhead'
<1>1. pager \in Descending /\ pager' = pager /\ older' = older /\ first' = first /\ pager \notin Forward \cup Tokens
      /\ status = "fetching" /\ pager # "binance liquidations"
  BY DescendingRequest, Kinds DEF Call, Forward, older
<1>2. PICK S \in SUBSET published, kept \in SUBSET published :
        /\ older => S = {p \in published : cursor = NoCursor \/ Time(p) <= Bound}
        /\ ~older => \A p \in published \ S : \A q \in S : Time(p) < Time(q)
        /\ kept = IF pager = "okx funding" THEN {p \in Newest(S, cap) : Time(p) >= Start}
                                           ELSE Newest(S, cap) \ Out
        /\ \/ status' = "done" /\ cursor' = cursor /\ pages' = pages
           \/ /\ Newest(S, cap) # {} /\ Append1(kept) /\ status' \in {"done", "fetching"}
              /\ pager = "okx open interest" => kept # {} /\ cursor' = MinTime(kept) - 1
              /\ pager = "okx funding" => /\ cursor' = MinTime(Newest(S, cap))
                                          /\ status' = "fetching" => cursor' >= Start
              /\ pager \in CoinGlass => cursor' = MinTime(Newest(S, cap)) - 1
  <2>1. PICK S \in SUBSET published, kept \in SUBSET published :
              /\ older => S = {p \in published : cursor = NoCursor \/ Time(p) <= Bound}
              /\ ~older => \A p \in published \ S : \A q \in S : Time(p) < Time(q)
              /\ kept = IF pager = "okx funding" THEN {p \in Newest(S, cap) : Time(p) >= Start}
                                                 ELSE Newest(S, cap) \ Out
              /\ \/ status' = "done" /\ cursor' = cursor /\ pages' = pages
                 \/ /\ Newest(S, cap) # {} /\ Append1(kept)
                    /\ pager = "okx open interest" =>
                         kept # {} /\ cursor' = MinTime(kept) - 1 /\ status' = "fetching"
                    /\ pager = "okx funding" =>
                         /\ cursor' = MinTime(Newest(S, cap))
                         /\ status' = IF cursor' < Start THEN "done" ELSE "fetching"
                    /\ pager \in CoinGlass =>
                         /\ cursor' = MinTime(Newest(S, cap)) - 1
                         /\ status' \in {"done", "fetching"}
    BY DescendingRequest
  <2>2. Newest(S, cap) # {} => MinTime(Newest(S, cap)) \in Int
    <3>1. Newest(S, cap) \in SUBSET Points
      BY Ranges DEF Newest
    <3>2. QED
      BY <3>1, Extremes
  <2>3. ASSUME Newest(S, cap) # {}, cursor' = MinTime(Newest(S, cap)),
               status' = IF cursor' < Start THEN "done" ELSE "fetching"
        PROVE  status' \in {"done", "fetching"} /\ (status' = "fetching" => cursor' >= Start)
    <3>1. cursor' \in Int /\ Start \in Int
      BY <2>2, <2>3, Params
    <3>2. CASE cursor' < Start
      BY <2>3, <3>2
    <3>3. CASE cursor' >= Start
      BY <2>3, <3>1, <3>3
    <3>4. QED
      BY <3>1, <3>2, <3>3
  <2>4. pager \in {"okx funding", "okx open interest"} \cup CoinGlass
    BY <1>1 DEF Descending, Okx
  <2>5. QED
    BY <2>1, <2>3, <2>4
<1> DEFINE page == Newest(S, cap)
<1>3. page \in SUBSET published /\ page \in SUBSET Points /\ page \subseteq S
  BY Ranges DEF Newest
<1>4. \A p \in S \ page : \A q \in page : Time(p) < Time(q)
  <2>1. SUFFICES ASSUME NEW p \in S \ page, NEW q \in page PROVE Time(p) < Time(q)
    OBVIOUS
  <2>2. Before(p, q)
    BY NewestPage, Ranges DEF Typed
  <2>3. p \in Points /\ q \in Points
    BY <1>3, Ranges
  <2>4. Time(p) <= Time(q) /\ Time(p) # Time(q)
    BY <1>1, <2>2, <2>3, OneSide
  <2>5. Time(p) \in Nat /\ Time(q) \in Nat
    BY <2>3, PointParts
  <2>6. QED
    BY <2>4, <2>5
<1>5. SUFFICES ASSUME NEW p \in first, p \notin Out', Kept(p)
               PROVE  /\ \A q \in Out' : Time(p) < Time(q)
                      /\ older /\ status' = "fetching" /\ cursor' # NoCursor => Time(p) <= Bound'
  <2>1. status' # "failed"
    BY <1>2
  <2>2. QED
    BY <1>1, <2>1 DEF AllAhead, Ahead, Kept, Time
<1>6. p \in published /\ p \in Points /\ Time(p) \in Nat
  BY <1>5, Ranges, Numbers DEF Typed
<1>7. p \notin Out => /\ \A q \in Out : Time(p) < Time(q)
                      /\ older /\ cursor # NoCursor => Time(p) <= Bound
  BY <1>1, <1>5 DEF AllAhead, Ahead
<1>8. CASE status' = "done" /\ cursor' = cursor /\ pages' = pages
  BY <1>5, <1>7, <1>8 DEF Out
<1>9. CASE /\ page # {} /\ Append1(kept)
           /\ pager = "okx open interest" => kept # {} /\ cursor' = MinTime(kept) - 1
           /\ pager = "okx funding" => cursor' = MinTime(page) /\ (status' = "fetching" => cursor' >= Start)
           /\ pager \in CoinGlass => cursor' = MinTime(page) - 1
  <2>1. Out' = Out \cup kept /\ kept \subseteq page
    BY <1>2, <1>9, OutAppended
  <2>2. p \notin Out /\ p \notin page
    BY <1>2, <1>5, <2>1 DEF Kept
  <2>3. ASSUME NEW q \in page PROVE Time(p) < Time(q)
    <3>1. CASE p \in S
      BY <1>4, <2>2, <3>1
    <3>2. CASE p \notin S /\ ~older
      BY <1>2, <1>3, <1>6, <3>2
    <3>3. CASE p \notin S /\ older
      BY <1>2, <1>6, <1>7, <2>2, <3>3
    <3>4. QED
      BY <3>1, <3>2, <3>3
  <2>4. \A q \in Out' : Time(p) < Time(q)
    BY <1>7, <2>1, <2>2, <2>3
  <2>5. status' = "fetching" => Time(p) <= Bound'
    <3>1. Bound' = IF pager = "okx funding" THEN cursor' - 1 ELSE cursor'
      BY <1>1 DEF Bound
    <3>2. \A X \in SUBSET Points : X # {} => MinTime(X) \in Nat /\ \E x \in X : Time(x) = MinTime(X)
      BY Extremes
    <3>3. PICK m \in Nat : Time(p) < m /\ Bound' = m - 1
      <4>1. CASE pager = "okx open interest"
        BY <1>3, <1>9, <2>1, <2>3, <3>1, <3>2, <4>1
      <4>2. CASE pager = "okx funding"
        BY <1>3, <1>9, <2>3, <3>1, <3>2, <4>2
      <4>3. CASE pager \in CoinGlass
        <5>1. pager # "okx funding"
          BY <4>3 DEF CoinGlass
        <5>2. QED
          BY <1>3, <1>9, <2>3, <3>1, <3>2, <4>3, <5>1
      <4>4. QED
        BY <1>1, <4>1, <4>2, <4>3 DEF Descending, Okx
    <3>4. QED
      BY <1>6, <3>3
  <2>6. QED
    BY <2>4, <2>5
<1>10. QED
  BY <1>2, <1>8, <1>9

\* every step keeps what is not returned ahead
LEMMA AheadStep ==
  ASSUME Typed, AllAhead, [Next]_vars
  PROVE  AllAhead'
<1>1. ASSUME pager' = pager, older' = older, cursor' = cursor, pages' = pages, first' = first,
             status' = status \/ (status = "fetching" /\ status' = "done")
      PROVE  AllAhead'
  <2>1. Out' = Out /\ Bound' = Bound /\ (status' = "failed" => status = "failed")
    BY <1>1 DEF Out, Bound
  <2>2. CASE status' = "failed"
    BY <1>1, <2>1, <2>2 DEF AllAhead
  <2>3. CASE status' # "failed"
    <3>1. ASSUME NEW p \in first \ Out PROVE Ahead(p)'
      <4>1. Ahead(p)
        BY <1>1, <2>3, <3>1 DEF AllAhead
      <4>2. LostTie(p)' = LostTie(p) /\ Kept(p)' = Kept(p) /\ Time(p)' = Time(p)
        BY <1>1, <2>1 DEF LostTie, Kept, Time
      <4>3. QED
        BY <1>1, <2>1, <4>1, <4>2 DEF Ahead
    <3>2. QED
      BY <1>1, <2>1, <2>3, <3>1 DEF AllAhead
  <2>4. QED
    BY <2>2, <2>3
<1>2. CASE Fail
  BY <1>2 DEF Fail, AllAhead
<1>3. CASE Publish
  BY <1>1, <1>3 DEF Publish, older
<1>4. CASE UNCHANGED vars
  BY <1>1, <1>4 DEF vars, older
<1>5. CASE Call("bybit open interest") /\ Oldest(Rest, cap) = {} /\ Finish(TRUE)
           /\ UNCHANGED <<cursor, oldestSeen, pages>>
  BY <1>1, <1>5 DEF Call, Finish, older
<1>6. ASSUME pager' = pager, pager \notin Forward \cup Tokens \cup Descending, status # "failed", status' # "failed"
      PROVE  AllAhead'
  BY <1>6 DEF AllAhead, Ahead, Kept
<1>7. CASE (\E q \in Windows : Call(q) /\ WindowPage) \/ OpenInterestHistory \/ OpenInterestSnapshot
  <2>1. pager' = pager /\ pager \in Windows \cup {"binance open interest"} /\ status # "failed" /\ status' # "failed"
    BY <1>7 DEF OpenInterestHistory, OpenInterestSnapshot, Call, WindowPage, Finish
  <2>2. QED
    BY <1>6, <2>1, Kinds
<1>8. CASE Step
  BY <1>5, <1>7, <1>8, RequestCases, AheadForward, AheadToken, AheadDescending
<1>9. QED
  BY <1>2, <1>3, <1>4, <1>8 DEF Next

\* and so it is in every state
LEMMA AheadInvariant == Spec => []AllAhead
<1>1. Init => AllAhead
  <2>1. SUFFICES ASSUME Init PROVE AllAhead
    OBVIOUS
  <2>2. status = "fetching" /\ pages = << >> /\ (pager \in Forward => cursor = Start)
    BY <2>1 DEF Init, FirstCursor
  <2>3. Out = {}
    BY <2>2 DEF Out
  <2>4. pager \in Tokens \cup Descending => cursor = NoCursor
    <3>1. pager \in Tokens \cup Descending => pager \notin Forward \cup Windows
      BY Kinds
    <3>2. QED
      BY <2>1, <3>1 DEF Init, FirstCursor
  <2>5. ASSUME NEW p \in first PROVE Ahead(p)
    <3>1. pager \in Forward /\ Time(p) \in Start .. End => cursor <= Time(p)
      BY <2>2, Params
    <3>2. QED
      BY <2>3, <2>4, <3>1 DEF Ahead, Kept
  <2>6. QED
    BY <2>2, <2>5 DEF AllAhead
<1>2. Typed /\ AllAhead /\ [Next]_vars => AllAhead'
  BY AheadStep
<1>3. QED
  BY <1>1, <1>2, TypedInvariant, PTL DEF Spec

(***************************************************************************)
(* A history is cut at one end only, whatever size its pages have and      *)
(* whichever way the provider reads the cursor: a point not returned is    *)
(* always ahead of the cursor, and the cursor beyond all points returned.  *)
(***************************************************************************)
THEOREM CutAtOneEnd == Spec => []NoHoles
<1>1. Typed /\ Counted /\ AllAhead => NoHoles
  <2>1. SUFFICES ASSUME Typed, Counted, AllAhead, NEW p \in first \ Out
                 PROVE  /\ pager \in Forward \cup Tokens /\ Time(p) \in Start .. End =>
                             \A q \in Out : Time(q) < Time(p) \/ LostTie(p)
                        /\ Kept(p) => \A q \in Out : Time(p) < Time(q)
    BY DEF NoHoles, Kept
  <2>2. CASE status = "failed"
    <3>1. Out = {}
      BY <2>1, <2>2 DEF AllAhead, Out
    <3>2. QED
      BY <3>1
  <2>3. CASE status # "failed"
    <3>1. Ahead(p) /\ Beyond
      BY <2>1, <2>3 DEF AllAhead, Counted
    <3>2. cursor \in Int /\ p \in published /\ NoCursor = -1 /\ \A q \in published \cup Out : Time(q) \in Nat
      BY <2>1, Numbers DEF Typed, NoCursor
    <3>3. ASSUME pager \in Forward, Time(p) \in Start .. End, NEW q \in Out PROVE Time(q) < Time(p) \/ LostTie(p)
      BY <3>1, <3>2, <3>3 DEF Ahead, Beyond
    <3>4. ASSUME pager \in Tokens, Time(p) \in Start .. End, NEW q \in Out PROVE Time(q) < Time(p)
      <4>1. ~LostTie(p)
        BY <3>4 DEF LostTie, Tokens
      <4>2. CASE older
        BY <3>1, <3>2, <3>4, <4>2 DEF Ahead, Beyond
      <4>3. CASE ~older
        BY <3>1, <3>4, <4>1, <4>3 DEF Ahead
      <4>4. QED
        BY <4>2, <4>3
    <3>5. Kept(p) => \A q \in Out : Time(p) < Time(q)
      BY <3>1 DEF Ahead
    <3>6. QED
      BY <3>3, <3>4, <3>5
  <2>4. QED
    BY <2>2, <2>3
<1>2. QED
  BY <1>1, TypedInvariant, CountedInvariant, AheadInvariant, PTL

-----------------------------------------------------------------------------
(* A history is complete if the provider keeps what the loop counts on *)

\* the points a call is asked for, by the kind of loop
LEMMA AskedPoints ==
  ASSUME NEW p \in Asked
  PROVE  /\ p \in first
         /\ pager \in Forward => Start <= Time(p) /\ Time(p) < End
         /\ pager \in Tokens => Time(p) \in Start .. End
         /\ pager \in Windows => Start < Time(p) /\ Time(p) <= End
         /\ pager = "okx funding" => Start <= Time(p)
         /\ pager \in CoinGlass => MinDate <= Time(p)
         /\ pager # "binance open interest"
<1>1. p \in first
  BY DEF Asked
<1>2. CASE pager \in Forward
  BY <1>2, Kinds DEF Asked, Forward, CoinGlass
<1>3. CASE pager \in Tokens
  BY <1>3, Kinds DEF Asked, Tokens, CoinGlass
<1>4. CASE pager \in Windows
  BY <1>4, Kinds DEF Asked, Windows, CoinGlass
<1>5. CASE pager \in CoinGlass
  BY <1>5, Kinds DEF Asked, CoinGlass, Okx, Descending
<1>6. CASE pager = "okx funding"
  BY <1>6, Kinds DEF Asked, CoinGlass, Okx, Descending
<1>7. CASE pager = "binance open interest"
  BY <1>7, Kinds DEF Asked, CoinGlass
<1>8. QED
  BY <1>1, <1>2, <1>3, <1>4, <1>5, <1>6, <1>7

\* an ascending loop ends when nothing is left before the end of the range
LEMMA CompleteForward ==
  ASSUME Typed, AllAhead, NEW q \in Forward, Call(q), ForwardPage(Limit), status' = "done", older, cap >= Limit,
         NEW p \in first, Start <= Time(p), Time(p) < End, p \notin Out'
  PROVE  LostTie(p)'
<1> DEFINE page == Oldest(Between(cursor, End), Limit)
<1>1. pager \in Forward /\ pager' = pager /\ older' = older /\ first' = first /\ cursor \in Nat
      /\ Heard(cursor) = cursor
  BY CursorHeard DEF Call, Typed, older
<1>2. Min(Limit, cap) = Limit
  BY Params DEF Min, Typed
<1>3. p \in Points /\ p \in published /\ Time(p) \in Nat /\ Time(p) \in Start .. End
  BY Ranges, Numbers, Params DEF Typed
<1>4. cursor' <= Time(p) \/ LostTie(p)'
  BY <1>1, <1>3, AheadForward DEF AllAhead, Ahead
<1>5. ASSUME cursor' <= Time(p) PROVE FALSE
  <2>1. cursor <= cursor' => p \in Between(cursor, End)
    <3>1. cursor' \in Int /\ End \in Nat
      BY TypedForward, Numbers, Params DEF Typed, NoCursor
    <3>2. QED
      BY <1>1, <1>3, <1>5, <3>1 DEF Between
  <2>2. /\ Between(cursor, End) # {} => page # {}
        /\ Cardinality(page) < Limit => page = Between(cursor, End)
        /\ page \in SUBSET Points
    <3>1. Limit \in Nat /\ Limit # 0
      BY Params
    <3>2. QED
      BY <3>1, Ranges, OldestPage
  <2>3. CASE page = {} /\ UNCHANGED <<cursor, pages>>
    BY <1>1, <2>1, <2>2, <2>3
  <2>4. CASE /\ page # {} /\ Append1(page) /\ cursor' = LastTime(page) + 1
             /\ Cardinality(page) < Limit \/ cursor' >= End
    <3>1. Out' = Out \cup page
      BY <2>4, OutAppended
    <3>2. cursor <= cursor' /\ cursor' \in Int
      <4>1. PICK x \in page : Time(x) = LastTime(page)
        BY <2>2, <2>4, Extremes
      <4>2. Time(x) \in cursor .. End
        BY <4>1 DEF Oldest, Between
      <4>3. QED
        BY <1>1, <2>4, <4>1, <4>2, Params
    <3>3. p \notin page
      BY <3>1
    <3>4. cursor' >= End
      BY <2>1, <2>2, <2>4, <3>2, <3>3
    <3>5. QED
      BY <1>3, <1>5, <3>2, <3>4, Params
  <2>5. QED
    BY <1>1, <1>2, <2>3, <2>4 DEF ForwardPage, NextCursor, ShortPage, Finish
<1>6. QED
  BY <1>4, <1>5

\* one that follows a token ends when the provider has no more
LEMMA CompleteToken ==
  ASSUME Typed, AllAhead, NEW q \in Tokens, Call(q),
         TokenPage(Oldest(Rest, cap)) \/ (Oldest(Rest, cap) = {} /\ UNCHANGED pages),
         status' = "done", older, NEW p \in first, Time(p) \in Start .. End, p \notin Out'
  PROVE  FALSE
<1> DEFINE page == Oldest(Rest, cap)
<1>1. cap \in Nat /\ cap # 0 /\ status = "fetching" /\ pager \in Tokens
  BY DEF Typed, Call
<1>2. /\ \A r \in Rest \ page : \A x \in page : Before(x, r)
      /\ Rest # {} => page # {}
  BY <1>1, Ranges, OldestPage
<1>3. p \notin Out => p \in Rest
  <2>1. p \notin Out => cursor = NoCursor \/ cursor < Time(p)
    BY <1>1 DEF AllAhead, Ahead
  <2>2. p \in published
    BY DEF Typed
  <2>3. QED
    BY <2>1, <2>2, CursorHeard DEF Rest, Between
<1>4. CASE page = {} /\ UNCHANGED pages
  BY <1>2, <1>3, <1>4 DEF Out
<1>5. CASE Append1(page) /\ ~HasMore(page)
  <2>1. Out' = Out \cup page
    BY <1>5, OutAppended
  <2>2. p \in Rest /\ p \notin page
    BY <1>3, <2>1
  <2>3. QED
    BY <1>2, <1>5, <2>2 DEF HasMore
<1>6. QED
  BY <1>4, <1>5 DEF TokenPage, Finish

\* a window has at most as many times as it is long, but for its first
LEMMA WindowFull ==
  ASSUME Typed, pager \in Windows, NEW a \in Nat, NEW b \in Nat, b <= a + WindowLen, cap >= WindowLen,
         NEW p \in Between(a, b), a < Time(p)
  PROVE  p \in Newest(Between(a, b), cap)
<1> DEFINE Later == {x \in Between(a, b) : Before(p, x)}
           I == Time(p) + 1 .. b
           f == [x \in Later |-> Time(x)]
<1>1. pager # "binance liquidations"
  BY DEF Windows
<1>2. Between(a, b) \in SUBSET Points /\ Later \in SUBSET Points /\ p \in Points
  BY Ranges
<1>3. \A x \in Between(a, b) : Time(x) \in a .. b /\ Time(x) \in Nat
  BY Ranges, Numbers DEF Between
<1>4. ASSUME NEW x \in Later PROVE Time(x) \in I
  <2>1. Time(p) <= Time(x) /\ Time(p) # Time(x)
    BY <1>1, <1>2, OneSide
  <2>2. Time(x) \in a .. b /\ Time(x) \in Nat /\ Time(p) \in Nat
    BY <1>3
  <2>3. QED
    BY <2>1, <2>2
<1>5. f \in [Later -> I]
  BY <1>4
<1>6. ASSUME NEW x \in Later, NEW y \in Later, f[x] = f[y] PROVE x = y
  <2>1. Time(x) = Time(y)
    BY <1>6
  <2>2. x \in Points /\ y \in Points
    BY <1>2
  <2>3. ~Before(x, y) /\ ~Before(y, x)
    BY <1>1, <2>1, <2>2, OneSide
  <2>4. QED
    BY <2>2, <2>3, Total
<1>7. f \in Injection(Later, I)
  <2> HIDE DEF Later, I, f
  <2>1. DOMAIN f = Later
    BY <1>5
  <2>2. QED
    BY <1>5, <1>6, <2>1 DEF Injection, IsInjective
<1>8. IsFiniteSet(I) /\ Cardinality(I) < WindowLen
  <2>1. Time(p) \in Nat /\ Time(p) <= b
    BY <1>3
  <2>2. IsFiniteSet(I) /\ Cardinality(I) = IF Time(p) + 1 > b THEN 0 ELSE b - (Time(p) + 1) + 1
    <3>1. PICK t \in Int : t = Time(p) + 1
      BY <2>1
    <3>2. IsFiniteSet(t .. b) /\ Cardinality(t .. b) = IF t > b THEN 0 ELSE b - t + 1
      BY FS_Interval
    <3>3. QED
      BY <3>1, <3>2
  <2>3. Cardinality(I) < WindowLen
    BY <2>1, <2>2, Params
  <2>4. QED
    BY <2>2, <2>3
<1>9. Cardinality(Later) <= Cardinality(I) /\ Cardinality(Later) \in Nat /\ Cardinality(I) \in Nat
  <2> HIDE DEF Later, I, f
  <2>1. QED
    BY <1>7, <1>8, FS_Injection, FS_CardinalityType
<1>10. Cardinality(Later) < cap
  <2> HIDE DEF Later, I, f
  <2>1. QED
    BY <1>8, <1>9, Params DEF Typed
<1>11. QED
  BY <1>10 DEF Newest

\* what a descending loop has read
Reading ==
  /\ pager \in CoinGlass /\ oldestSeen # NoCursor => oldestSeen \in Nat \ {0} /\ cursor = oldestSeen - 1
  /\ pager \in CoinGlass /\ older /\ first \ Out # {} => Cardinality(Out) >= cap * Len(pages)

\* a window that is not cut short loses at most points of the first time of the range
WindowsWhole ==
  pager \in Windows /\ cap >= WindowLen => \A p \in first \ Out : Start < Time(p) => cursor < Time(p)

Finished ==
  /\ status # "failed" => Reading /\ WindowsWhole
  /\ Complete

\* a window adds all its points but those of the first time
LEMMA CompleteWindow ==
  ASSUME Typed, WindowsWhole, NEW q \in Windows, Call(q), WindowPage
  PROVE  WindowsWhole'
<1> DEFINE e == Min(cursor + WindowLen, End)
           page == Newest(Between(cursor, e), cap)
<1>1. pager \in Windows /\ pager' = pager /\ cap' = cap /\ first' = first /\ cursor \in Nat
  BY DEF Call, Typed
<1>2. SUFFICES ASSUME cap >= WindowLen, NEW p \in first, p \notin Out', Start < Time(p) PROVE cursor' < Time(p)
  BY <1>1 DEF WindowsWhole, Time
<1>3. Append1(page) /\ cursor' = e
  BY DEF WindowPage
<1>4. Out' = Out \cup page
  BY <1>3, OutAppended
<1>5. cursor < Time(p) /\ p \in published /\ Time(p) \in Nat
  BY <1>1, <1>2, <1>4, Numbers DEF WindowsWhole, Typed
<1>6. e \in Nat /\ e <= cursor + WindowLen
  BY <1>1, Params DEF Min
<1>7. ASSUME Time(p) <= e PROVE FALSE
  <2>1. p \in Between(cursor, e)
    BY <1>1, <1>5, <1>6, <1>7 DEF Between
  <2>2. p \in page
    BY <1>1, <1>2, <1>5, <1>6, <2>1, WindowFull
  <2>3. QED
    BY <1>2, <1>4, <2>2
<1>8. QED
  BY <1>3, <1>5, <1>6, <1>7

(***************************************************************************)
(* A request of a descending loop that does not get a point still ahead,   *)
(* of a provider that reads the cursor as an upper bound, gets a full page *)
(* of later points, none of them returned before.                          *)
(***************************************************************************)
LEMMA DescendingAhead ==
  ASSUME Typed, Counted, AllAhead,
         \/ OkxOpenInterest \/ OkxFundingRateHistory
         \/ backfillAggregatedOI \/ backfillAggregatedLiquidations,
         older, NEW p \in first, Kept(p), p \notin Out'
  PROVE  \E page \in SUBSET published :
           /\ page # {} /\ Cardinality(page) >= cap /\ page \cap Out = {}
           /\ \A x \in page : Time(p) < Time(x) /\ (cursor # NoCursor => Time(x) <= Bound)
           /\ p \notin Out
           /\ pager \in CoinGlass \cup {"okx open interest"} => Append1(page)
           /\ pager = "okx open interest" => status' = "fetching"
           /\ pager = "okx funding" =>
                status' = IF MinTime(page) < Start THEN "done" ELSE "fetching"
           /\ pager \in CoinGlass =>
                /\ cursor' = MinTime(page) - 1 /\ oldestSeen' = MinTime(page)
                /\ status' = IF \/ oldestSeen' <= MinDate
                                \/ oldestSeen # NoCursor /\ oldestSeen' >= oldestSeen
                                \/ Len(pages) + 1 = MaxPages
                             THEN "done" ELSE "fetching"
<1>1. pager \in Descending /\ Call(pager) /\ status = "fetching" /\ pager # "binance liquidations"
  BY DescendingRequest, Kinds DEF Call, Forward
<1>2. PICK S \in SUBSET published, kept \in SUBSET published :
        /\ S = {r \in published : cursor = NoCursor \/ Time(r) <= Bound}
        /\ kept = IF pager = "okx funding" THEN {r \in Newest(S, cap) : Time(r) >= Start}
                                           ELSE Newest(S, cap) \ Out
        /\ \/ /\ status' = "done" /\ cursor' = cursor /\ pages' = pages
              /\ IF pager = "okx open interest" THEN kept = {} ELSE Newest(S, cap) = {}
           \/ /\ Newest(S, cap) # {} /\ Append1(kept)
              /\ pager = "okx open interest" =>
                   kept # {} /\ cursor' = MinTime(kept) - 1 /\ status' = "fetching"
              /\ pager = "okx funding" =>
                   /\ cursor' = MinTime(Newest(S, cap))
                   /\ status' = IF cursor' < Start THEN "done" ELSE "fetching"
              /\ pager \in CoinGlass =>
                   /\ cursor' = MinTime(Newest(S, cap)) - 1 /\ oldestSeen' = MinTime(Newest(S, cap))
                   /\ status' = IF \/ oldestSeen' <= MinDate
                                   \/ oldestSeen # NoCursor /\ oldestSeen' >= oldestSeen
                                   \/ Len(pages) + 1 = MaxPages
                                THEN "done" ELSE "fetching"
  BY DescendingRequest
<1> DEFINE page == Newest(S, cap)
<1>3. page \in SUBSET S /\ page \in SUBSET published /\ page \in SUBSET Points /\ S \in SUBSET Points
  BY Ranges DEF Newest
<1>4. /\ \A r \in S \ page : \A x \in page : Before(r, x)
      /\ Cardinality(page) < cap => page = S
      /\ S # {} => page # {}
  <2>1. cap \in Nat /\ cap # 0
    BY DEF Typed
  <2>2. QED
    BY <1>3, <2>1, NewestPage
<1>5. page \cap Out = {}
  <2>1. SUFFICES ASSUME NEW x \in page, x \in Out PROVE FALSE
    OBVIOUS
  <2>2. cursor # NoCursor /\ Bound < Time(x)
    BY <1>1, <2>1 DEF Counted, Beyond
  <2>3. Time(x) <= Bound /\ Time(x) \in Nat /\ Bound \in Int
    BY <1>2, <1>3, <2>1, <2>2, Numbers
  <2>4. QED
    BY <2>2, <2>3
<1>6. p \notin Out => p \in S
  <2>1. p \notin Out => cursor = NoCursor \/ Time(p) <= Bound
    BY <1>1 DEF AllAhead, Ahead
  <2>2. p \in published
    BY DEF Typed
  <2>3. QED
    BY <1>2, <2>1, <2>2
<1>7. p \notin Out /\ p \notin page /\ page # {} /\ Append1(kept)
  <2>1. CASE pages' = pages
    <3>1. p \notin Out
      BY <2>1 DEF Out
    <3>2. page # {}
      BY <1>4, <1>6, <3>1
    <3>3. pager # "okx open interest" => kept # {} \/ page # {}
      BY <3>2
    <3>4. Append1(kept)
      <4>1. CASE pager = "okx open interest"
        BY <1>2, <1>5, <3>2, <4>1
      <4>2. CASE pager # "okx open interest"
        BY <1>2, <3>2, <4>2
      <4>3. QED
        BY <4>1, <4>2
    <3>5. Out' = Out \cup kept
      BY <3>4, OutAppended
    <3>6. p \notin page
      BY <1>2, <3>1, <3>5 DEF Kept
    <3>7. QED
      BY <3>1, <3>2, <3>4, <3>6
  <2>2. CASE page # {} /\ Append1(kept)
    <3>1. Out' = Out \cup kept
      BY <2>2, OutAppended
    <3>2. p \notin Out /\ p \notin page
      BY <1>2, <3>1 DEF Kept
    <3>3. QED
      BY <2>2, <3>2
  <2>3. QED
    BY <1>2, <2>1, <2>2
<1>8. ASSUME NEW x \in page PROVE Time(p) < Time(x) /\ (cursor # NoCursor => Time(x) <= Bound)
  <2>1. Before(p, x)
    BY <1>4, <1>6, <1>7
  <2>2. p \in Points /\ x \in Points
    BY <1>3, <1>6, <1>7
  <2>3. Time(p) <= Time(x) /\ Time(p) # Time(x)
    BY <1>1, <2>1, <2>2, OneSide
  <2>4. Time(p) \in Nat /\ Time(x) \in Nat
    BY <2>2, PointParts
  <2>5. cursor # NoCursor => Time(x) <= Bound
    BY <1>2, <1>3
  <2>6. QED
    BY <2>3, <2>4, <2>5
<1>9. Cardinality(page) >= cap
  <2>1. page # S
    BY <1>6, <1>7
  <2>2. Cardinality(page) \in Nat /\ cap \in Nat
    BY <1>3, HistoriesFinite, FS_CardinalityType DEF Typed
  <2>3. QED
    BY <1>4, <2>1, <2>2
<1>10. pages' # pages
  BY <1>7, OutAppended DEF Typed
<1>11. pager # "okx funding" => kept = page
  BY <1>2, <1>5
<1>12. pager \in CoinGlass => pager # "okx funding"
  BY DEF CoinGlass
<1>13. QED
  BY <1>2, <1>3, <1>5, <1>7, <1>8, <1>9, <1>10, <1>11, <1>12

\* and so its pages are full while a point is ahead
LEMMA ReadingDescending ==
  ASSUME Typed, Counted, AllAhead, Reading,
         \/ OkxOpenInterest \/ OkxFundingRateHistory
         \/ backfillAggregatedOI \/ backfillAggregatedLiquidations
  PROVE  Reading'
<1>1. pager' = pager /\ older' = older /\ first' = first /\ cap' = cap
  BY DescendingRequest DEF Call, older
<1>2. ASSUME pager \in CoinGlass, oldestSeen' # NoCursor
      PROVE  oldestSeen' \in Nat \ {0} /\ cursor' = oldestSeen' - 1
  <2>1. backfillAggregatedOI \/ backfillAggregatedLiquidations
    BY <1>2 DEF OkxOpenInterest, OkxFundingRateHistory, Call, CoinGlass
  <2>2. PICK page \in SUBSET published : BackfillAggregated(page)
    <3>1. AggregatedPage(cursor) \in SUBSET published
      BY Ranges DEF AggregatedPage
    <3>2. QED
      BY <2>1, <3>1 DEF backfillAggregatedOI, backfillAggregatedLiquidations,
                        FetchAggregatedOIHistory, FetchAggregatedLiquidationHistory
  <2>3. CASE UNCHANGED <<cursor, oldestSeen>>
    BY <1>2, <2>3 DEF Reading
  <2>4. CASE page # {} /\ oldestSeen' = MinTime(page) /\ cursor' = MinTime(page) - 1
    <3>1. MinTime(page) \in 1 .. MaxTime
      BY <2>4, Ranges, Extremes
    <3>2. QED
      BY <2>4, <3>1, Params
  <2>5. QED
    BY <2>2, <2>3, <2>4 DEF BackfillAggregated
<1>3. ASSUME pager \in CoinGlass, older, NEW p \in first, p \notin Out'
      PROVE  Cardinality(Out') >= cap * Len(pages')
  <2>1. Kept(p)
    BY <1>3 DEF Kept, Descending, CoinGlass
  <2>2. PICK page \in SUBSET published :
          Append1(page) /\ Cardinality(page) >= cap /\ page \cap Out = {} /\ p \notin Out
    BY <1>3, <2>1, DescendingAhead
  <2>3. Out' = Out \cup page /\ Len(pages') = Len(pages) + 1 /\ Len(pages) \in Nat
    BY <2>2, OutAppended
  <2>4. Cardinality(Out) >= cap * Len(pages)
    BY <1>3, <2>2 DEF Reading
  <2>5. /\ IsFiniteSet(Out) /\ IsFiniteSet(page)
        /\ Cardinality(Out) \in Nat /\ Cardinality(page) \in Nat
    BY <2>2, OutPublished, Ranges, HistoriesFinite, FS_CardinalityType
  <2>6. Cardinality(Out \cup page) = Cardinality(Out) + Cardinality(page)
    <3>1. Out \cap page = {} /\ Cardinality({}) = 0
      BY <2>2, FS_EmptySet
    <3>2. Cardinality(Out \cup page) = Cardinality(Out) + Cardinality(page) - Cardinality(Out \cap page)
      BY <2>5, FS_Union
    <3>3. PICK a \in Nat, b \in Nat : a = Cardinality(Out) /\ b = Cardinality(page)
      BY <2>5
    <3>4. Cardinality(Out \cap page) = 0
      BY <3>1
    <3>5. Cardinality(Out \cup page) = a + b - 0
      BY <3>2, <3>3, <3>4
    <3>6. QED
      BY <3>3, <3>5
  <2>7. cap \in Nat
    BY DEF Typed
  <2>8. PICK c \in Nat, n \in Nat, a \in Nat, b \in Nat :
          /\ c = cap /\ n = Len(pages) /\ a = Cardinality(Out) /\ b = Cardinality(page)
          /\ a >= c * n /\ b >= c
    BY <2>2, <2>3, <2>4, <2>5, <2>7
  <2>9. a + b >= c * (n + 1)
    <3>1. c * (n + 1) = c * n + c /\ c * n \in Nat
      OBVIOUS
    <3>2. QED
      BY <2>8, <3>1
  <2>10. QED
    BY <2>3, <2>6, <2>8, <2>9
<1>4. QED
  BY <1>1, <1>2, <1>3 DEF Reading

\* a descending loop ends when no point that it keeps is left
LEMMA CompleteDescending ==
  ASSUME Typed, Counted, AllAhead, Reading,
         \/ OkxOpenInterest \/ OkxFundingRateHistory
         \/ backfillAggregatedOI \/ backfillAggregatedLiquidations,
         status' = "done", Suits, NEW p \in Asked, p \notin Out'
  PROVE  FALSE
<1>1. pager \in Descending /\ Call(pager) /\ older
  BY DescendingRequest DEF Suits
<1>2. p \in first /\ p \in published /\ Time(p) \in Nat
  BY AskedPoints, Numbers DEF Typed
<1>3. Kept(p)
  <2>1. pager = "okx funding" => Start <= Time(p)
    BY AskedPoints
  <2>2. Start \in Nat
    BY Params
  <2>3. QED
    BY <1>1, <1>2, <2>1, <2>2 DEF Kept
<1>4. PICK page \in SUBSET published :
        /\ page # {}
        /\ \A x \in page : Time(p) < Time(x) /\ (cursor # NoCursor => Time(x) <= Bound)
        /\ p \notin Out
        /\ pager \in CoinGlass \cup {"okx open interest"} => Append1(page)
        /\ pager = "okx open interest" => status' = "fetching"
        /\ pager = "okx funding" =>
             status' = IF MinTime(page) < Start THEN "done" ELSE "fetching"
        /\ pager \in CoinGlass =>
             /\ oldestSeen' = MinTime(page)
             /\ status' = IF \/ oldestSeen' <= MinDate
                             \/ oldestSeen # NoCursor /\ oldestSeen' >= oldestSeen
                             \/ Len(pages) + 1 = MaxPages
                          THEN "done" ELSE "fetching"
  BY <1>1, <1>2, <1>3, DescendingAhead
<1>5. PICK x \in page : Time(x) = MinTime(page)
  BY <1>4, Ranges, Extremes
<1>6. Time(p) < MinTime(page) /\ MinTime(page) \in Nat
  BY <1>4, <1>5, Numbers
<1>7. CASE pager = "okx open interest"
  BY <1>4, <1>7
<1>8. CASE pager = "okx funding"
  <2>1. MinTime(page) < Start /\ Start <= Time(p)
    BY <1>4, <1>8, AskedPoints
  <2>2. QED
    BY <1>2, <1>6, <2>1, Params
<1>9. CASE pager \in CoinGlass
  <2>1. \/ MinTime(page) <= MinDate
        \/ oldestSeen # NoCursor /\ MinTime(page) >= oldestSeen
        \/ Len(pages) + 1 = MaxPages
    BY <1>4, <1>9
  <2>2. CASE MinTime(page) <= MinDate
    <3>1. MinDate <= Time(p)
      BY <1>9, AskedPoints
    <3>2. QED
      BY <1>2, <1>6, <2>2, <3>1, Params
  <2>3. CASE oldestSeen # NoCursor /\ MinTime(page) >= oldestSeen
    <3>1. oldestSeen \in Nat \ {0} /\ cursor = oldestSeen - 1
      BY <1>9, <2>3 DEF Reading
    <3>2. cursor # NoCursor /\ Bound = cursor
      <4>1. pager # "okx funding"
        BY <1>9 DEF CoinGlass
      <4>2. cursor \in Nat
        BY <3>1
      <4>3. Bound = cursor
        BY <4>1 DEF Bound
      <4>4. cursor # NoCursor
        BY <4>2 DEF NoCursor
      <4>5. QED
        BY <4>3, <4>4
    <3>3. MinTime(page) <= cursor
      BY <1>4, <1>5, <3>2
    <3>4. QED
      BY <1>6, <2>3, <3>1, <3>3
  <2>4. CASE Len(pages) + 1 = MaxPages
    <3>1. Append1(page)
      BY <1>4, <1>9
    <3>2. Out' = Out \cup page /\ Len(pages') = MaxPages
      BY <2>4, <3>1, OutAppended
    <3>3. Cardinality(Out') >= cap * MaxPages
      <4>1. Reading' /\ first' = first /\ pager' = pager /\ older' = older /\ cap' = cap
        BY <1>1, ReadingDescending DEF Call, older
      <4>2. p \in first' \ Out'
        BY <1>2, <4>1
      <4>3. QED
        BY <1>1, <1>9, <3>2, <4>1, <4>2 DEF Reading
    <3>4. Out' \in SUBSET published /\ IsFiniteSet(published)
      BY <3>2, OutPublished, Ranges, HistoriesFinite
    <3>5. /\ Cardinality(Out') <= Cardinality(published)
          /\ Cardinality(published) = Cardinality(Out') => published = Out'
          /\ Cardinality(published) \in Nat /\ Cardinality(Out') \in Nat
      BY <3>4, FS_Subset, FS_CardinalityType
    <3>6. Cardinality(published) <= cap * MaxPages
      BY <1>9 DEF Suits
    <3>7. Cardinality(published) = Cardinality(Out')
      <4>1. PICK c \in Nat, n \in Nat : c = cap /\ n = MaxPages
        BY Params DEF Typed
      <4>2. PICK m \in Nat : m = cap * MaxPages
        BY <4>1
      <4>3. QED
        BY <3>3, <3>5, <3>6, <4>2
    <3>8. QED
      BY <1>2, <3>5, <3>7
  <2>5. QED
    BY <2>1, <2>2, <2>3, <2>4
<1>10. QED
  BY <1>1, <1>7, <1>8, <1>9 DEF Descending, Okx

\* a call that ends has what it was asked for
LEMMA CompleteStep ==
  ASSUME Typed, Counted, AllAhead, Reading, WindowsWhole, Step, status' = "done"
  PROVE  Complete'
<1>1. Asked' = Asked /\ Suits' = Suits /\ pager' = pager /\ first' = first
  <2>1. UNCHANGED <<pager, cap, reading, published, first>>
    BY RequestCases, DescendingRequest DEF Call, OpenInterestHistory, OpenInterestSnapshot
  <2>2. QED
    BY <2>1 DEF Asked, Suits, older
<1>2. SUFFICES ASSUME Suits, NEW p \in Asked, p \notin Out' PROVE LostTie(p)'
  BY <1>1 DEF Complete
<1>3. p \in first /\ p \in published /\ Time(p) \in Nat
  BY AskedPoints, Numbers DEF Typed
<1>4. ASSUME NEW q \in Forward, Call(q), ForwardPage(Limit) PROVE LostTie(p)'
  <2>1. pager \in Forward /\ cap >= Limit /\ older
    BY <1>2, <1>4 DEF Call, Suits
  <2>2. Start <= Time(p) /\ Time(p) < End
    BY <2>1, AskedPoints
  <2>3. QED
    BY <1>2, <1>3, <1>4, <2>1, <2>2, CompleteForward
<1>5. ASSUME NEW q \in Windows, Call(q), WindowPage PROVE FALSE
  <2>1. pager \in Windows /\ cap >= WindowLen /\ cap' = cap /\ first' = first
    BY <1>2, <1>5 DEF Call, Suits
  <2>2. Start < Time(p) /\ Time(p) <= End
    BY <2>1, AskedPoints
  <2>3. cursor' < Time(p)
    <3>1. WindowsWhole'
      BY <1>5, CompleteWindow
    <3>2. QED
      BY <1>1, <1>2, <1>3, <2>1, <2>2, <3>1 DEF WindowsWhole, Time
  <2>4. cursor' >= End /\ cursor' \in Int
    <3>1. cursor' = Min(cursor + WindowLen, End) /\ (cursor' >= End)
      BY <1>5 DEF WindowPage, Finish
    <3>2. cursor' \in Int
      BY <3>1, Numbers, Params DEF Min
    <3>3. QED
      BY <3>1, <3>2
  <2>5. QED
    BY <1>3, <2>2, <2>3, <2>4, Params
<1>6. ASSUME NEW q \in Tokens, Call(q),
             TokenPage(Oldest(Rest, cap)) \/ (Oldest(Rest, cap) = {} /\ UNCHANGED pages)
      PROVE  FALSE
  <2>1. pager \in Tokens /\ older
    BY <1>2, <1>6 DEF Call, Suits
  <2>2. Time(p) \in Start .. End
    BY <2>1, AskedPoints
  <2>3. QED
    BY <1>2, <1>3, <1>6, <2>1, <2>2, CompleteToken
<1>7. CASE \/ OkxOpenInterest \/ OkxFundingRateHistory
           \/ backfillAggregatedOI \/ backfillAggregatedLiquidations
  BY <1>2, <1>7, CompleteDescending
<1>8. CASE OpenInterestHistory \/ OpenInterestSnapshot
  BY <1>8, AskedPoints DEF OpenInterestHistory, OpenInterestSnapshot, Call
<1>9. "bybit open interest" \in Tokens
  BY DEF Tokens
<1>10. QED
  BY <1>4, <1>5, <1>6, <1>7, <1>8, <1>9, RequestCases

\* every step keeps what is said of the end of a call
LEMMA FinishedStep ==
  ASSUME Typed, Counted, AllAhead, Finished, [Next]_vars
  PROVE  Finished'
<1>1. CASE UNCHANGED <<pager, cap, reading, first, cursor, oldestSeen, pages, status>>
           /\ (status = "fetching" \/ UNCHANGED published)
  <2>1. Out' = Out
    BY <1>1 DEF Out
  <2>2. Reading' = Reading /\ WindowsWhole' = WindowsWhole
    BY <1>1, <2>1 DEF Reading, WindowsWhole, Time, older
  <2>3. Complete'
    <3>1. CASE status = "fetching"
      BY <1>1, <3>1 DEF Complete
    <3>2. CASE UNCHANGED published
      <4>1. Asked' = Asked /\ Suits' = Suits
        BY <1>1, <3>2 DEF Asked, Suits, older
      <4>2. QED
        BY <1>1, <2>1, <4>1 DEF Finished, Complete, LostTie
    <3>3. QED
      BY <1>1, <3>1, <3>2
  <2>4. QED
    BY <1>1, <2>2, <2>3 DEF Finished
<1>2. CASE Fail
  BY <1>2 DEF Fail, Finished, Complete
<1>3. CASE Publish
  BY <1>1, <1>3 DEF Publish
<1>4. CASE UNCHANGED vars
  BY <1>1, <1>4 DEF vars
<1>5. CASE Step
  <2>1. status = "fetching" /\ pager' = pager /\ Reading /\ WindowsWhole
    BY <1>5, RequestCases, DescendingRequest DEF Call, OpenInterestHistory, OpenInterestSnapshot, Finished
  <2>2. Complete'
    <3>1. CASE status' = "done"
      BY <1>5, <2>1, <3>1, CompleteStep
    <3>2. CASE status' # "done"
      BY <3>2 DEF Complete
    <3>3. QED
      BY <3>1, <3>2
  <2>3. Reading'
    <3>1. CASE pager \in CoinGlass
      <4>1. pager \notin Forward \cup Windows \cup Tokens \cup {"binance open interest"}
        BY <3>1, Kinds DEF Descending
      <4>2. \/ OkxOpenInterest \/ OkxFundingRateHistory
            \/ backfillAggregatedOI \/ backfillAggregatedLiquidations
        BY <1>5, <4>1, RequestCases DEF Call, OpenInterestHistory, OpenInterestSnapshot, Tokens
      <4>3. QED
        BY <2>1, <4>2, ReadingDescending
    <3>2. CASE pager \notin CoinGlass
      BY <2>1, <3>2 DEF Reading
    <3>3. QED
      BY <3>1, <3>2
  <2>4. WindowsWhole'
    <3>1. CASE pager \in Windows
      <4>1. pager \notin Forward \cup Descending \cup Tokens \cup {"binance open interest"}
        BY <3>1, Kinds
      <4>2. \E q \in Windows : Call(q) /\ WindowPage
        BY <1>5, <4>1, RequestCases, DescendingRequest DEF Call, OpenInterestHistory, OpenInterestSnapshot, Tokens
      <4>3. QED
        BY <2>1, <4>2, CompleteWindow
    <3>2. CASE pager \notin Windows
      BY <2>1, <3>2 DEF WindowsWhole
    <3>3. QED
      BY <3>1, <3>2
  <2>5. QED
    BY <2>2, <2>3, <2>4 DEF Finished
<1>6. QED
  BY <1>2, <1>3, <1>4, <1>5 DEF Next

(***************************************************************************)
(* A call that ends without an error has every point the provider had in   *)
(* the range when it began, whatever is published meanwhile: the reasons   *)
(* to end (a short or an empty page, the end of the range, nothing new, a  *)
(* first date, a number of pages) each leave nothing ahead of the cursor,  *)
(* if the provider keeps what the loop counts on.                          *)
(***************************************************************************)
THEOREM EndsComplete == Spec => []Complete
<1>1. Init => Finished
  <2>1. SUFFICES ASSUME Init PROVE Finished
    OBVIOUS
  <2>2. status = "fetching" /\ pages = << >> /\ oldestSeen = NoCursor /\ (pager \in Windows => cursor = Start)
        /\ cap \in Nat
    BY <2>1, Params DEF Init, FirstCursor
  <2>3. Out = {} /\ Len(pages) = 0 /\ Cardinality(Out) = 0 /\ cap * 0 = 0
    <3>1. Out = {} /\ Len(pages) = 0
      BY <2>2 DEF Out
    <3>2. Cardinality({}) = 0
      BY FS_EmptySet
    <3>3. cap * 0 = 0
      BY <2>2
    <3>4. QED
      BY <3>1, <3>2, <3>3
  <2>4. Reading
    BY <2>2, <2>3 DEF Reading
  <2>5. WindowsWhole
    BY <2>1, <2>2 DEF WindowsWhole, Init, FirstCursor
  <2>6. QED
    BY <2>2, <2>4, <2>5 DEF Finished, Complete
<1>2. Typed /\ Counted /\ AllAhead /\ Finished /\ [Next]_vars => Finished'
  BY FinishedStep
<1>3. Finished => Complete
  BY DEF Finished
<1>4. QED
  BY <1>1, <1>2, <1>3, TypedInvariant, CountedInvariant, AheadInvariant, PTL DEF Spec
=============================================================================
