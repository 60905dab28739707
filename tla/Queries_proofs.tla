---------------------------- MODULE Queries_proofs ----------------------------
(***************************************************************************)
(* What clients read back, for any number of events, amounts, pages and    *)
(* limits: paging skips nothing, a balance is not ahead of the list beside *)
(* it, and amounts survive their storage as floats.                        *)
(***************************************************************************)
EXTENDS Queries, Arithmetic_proofs

-----------------------------------------------------------------------------
(* The ranks of the elements of a finite set in a total order.             *)

Ordered(S, before) ==
    /\ \A e \in S : <<e, e>> \notin before
    /\ \A e, f, g \in S : <<e, f>> \in before /\ <<f, g>> \in before => <<e, g>> \in before
    /\ \A e, f \in S : e # f => <<e, f>> \in before \/ <<f, e>> \in before

Below(S, before, e) == {f \in S : <<f, e>> \in before}

(* Elements have different ranks, in their order, below the size of S.     *)
LEMMA RankOrder ==
    ASSUME NEW S, IsFiniteSet(S), NEW before, Ordered(S, before), NEW e \in S
    PROVE  /\ Cardinality(Below(S, before, e)) \in Nat
           /\ Cardinality(Below(S, before, e)) < Cardinality(S)
           /\ \A f \in S : <<e, f>> \in before =>
                  Cardinality(Below(S, before, e)) < Cardinality(Below(S, before, f))
<1> DEFINE B(x) == Below(S, before, x)
<1>1. \A x \in S : B(x) \in SUBSET S
  BY DEF Below
<1>2. \A x \in S : IsFiniteSet(B(x)) /\ Cardinality(B(x)) \in Nat
  BY <1>1, FS_Subset, FS_CardinalityType
<1>3. e \notin B(e)
  BY DEF Below, Ordered
<1>4. PICK T : T = B(e) \cup {e}
  OBVIOUS
<1>5. Cardinality(T) = Cardinality(B(e)) + 1 /\ IsFiniteSet(T)
  BY <1>2, <1>3, <1>4, FS_AddElement
<1>6. ASSUME NEW U, IsFiniteSet(U), T \subseteq U
      PROVE  Cardinality(B(e)) < Cardinality(U)
  <2>1. Cardinality(T) <= Cardinality(U) /\ Cardinality(U) \in Nat
    BY <1>6, FS_Subset, FS_CardinalityType
  <2> QED BY <1>2, <1>5, <2>1
<1>7. T \subseteq S
  BY <1>1, <1>4
<1>8. \A f \in S : <<e, f>> \in before => T \subseteq B(f)
  BY <1>4 DEF Below, Ordered
<1> QED
  BY <1>2, <1>6, <1>7, <1>8

(* Every place below the size of S is taken, so that a range of places is  *)
(* full if an element comes after it.                                      *)
LEMMA PlacesTaken ==
    ASSUME NEW S, IsFiniteSet(S), NEW rank \in [S -> Nat],
           \A e \in S : rank[e] < Cardinality(S),
           \A e, f \in S : rank[e] = rank[f] => e = f,
           NEW first \in Nat, NEW number \in Nat \ {0}, NEW last \in S,
           rank[last] >= first + number
    PROVE  Cardinality({e \in S : rank[e] \in first..(first + number - 1)}) = number
<1>1. PICK n \in Nat : n = Cardinality(S)
  BY FS_CardinalityType
<1>2. PICK places : places = 0..(n - 1)
  OBVIOUS
<1>3. IsFiniteSet(places) /\ Cardinality(places) = n
  <2>1. n - 1 \in Int /\ (IF 0 > n - 1 THEN 0 ELSE (n - 1) - 0 + 1) = n
    OBVIOUS
  <2> QED BY <1>2, <2>1, FS_Interval
<1>4. rank \in Injection(S, places)
  <2>1. rank \in [S -> places]
    BY <1>1, <1>2
  <2> QED BY <2>1 DEF Injection, IsInjective
<1>5. rank \in Surjection(S, places)
  BY <1>1, <1>3, <1>4, FS_Injection
<1>6. \A k \in places : \E e \in S : rank[e] = k
  BY <1>5 DEF Surjection
<1>7. PICK range : range = first..(first + number - 1)
  OBVIOUS
<1>8. IsFiniteSet(range) /\ Cardinality(range) = number
  <2>1. first + number - 1 \in Int
        /\ (IF first > first + number - 1 THEN 0 ELSE (first + number - 1) - first + 1) = number
    OBVIOUS
  <2> QED BY <1>7, <2>1, FS_Interval
<1>9. range \subseteq places
  BY <1>1, <1>2, <1>7
<1>10. PICK Q : Q = {e \in S : rank[e] \in range}
  OBVIOUS
<1>11. PICK g : g = [e \in Q |-> rank[e]]
  OBVIOUS
<1>12. g \in Bijection(Q, range)
  <2>1. g \in [Q -> range] /\ \A e, f \in Q : g[e] = g[f] => e = f
    BY <1>10, <1>11
  <2>2. \A k \in range : \E e \in Q : g[e] = k
    BY <1>6, <1>9, <1>10, <1>11
  <2> QED BY <2>1, <2>2 DEF Bijection, Injection, Surjection, IsInjective
<1>13. IsFiniteSet(Q)
  BY <1>10, FS_Subset
<1>14. Cardinality(range) = Cardinality(Q)
  BY <1>12, <1>13, FS_Bijection DEF ExistsBijection
<1> QED
  BY <1>7, <1>8, <1>10, <1>14

-----------------------------------------------------------------------------
(* Rounding, and the spacing of floats.                                    *)

(* Rounding misses by at most half of the divisor.                         *)
LEMMA RoundedNear ==
    ASSUME NEW n \in Int, NEW d \in Nat \ {0}
    PROVE  /\ Rounded(n, d) \in Int
           /\ 2 * (Rounded(n, d) * d - n) \in -d..d
<1>1. PICK q \in Int, r \in Int : q = n \div d /\ r = n % d /\ n = q * d + r /\ 0 <= r /\ r < d
  OBVIOUS
<1>2. CASE Rounded(n, d) = q + 1
  <2>1. 2 * r >= d
    BY <1>1, <1>2 DEF Rounded
  <2>2. (q + 1) * d - n = d - r
    BY <1>1
  <2> QED BY <1>1, <1>2, <2>1, <2>2
<1>3. CASE Rounded(n, d) = q
  <2>1. 2 * r <= d
    BY <1>1, <1>3 DEF Rounded
  <2>2. q * d - n = - r
    BY <1>1
  <2> QED BY <1>1, <1>3, <2>1, <2>2
<1> QED
  BY <1>1, <1>2, <1>3 DEF Rounded

(* and takes what is nearer to one multiple than to any other there.       *)
LEMMA RoundedTo ==
    ASSUME NEW v \in Int, NEW d \in Nat \ {0}, NEW o \in Int, 2 * o \in (1 - d)..(d - 1)
    PROVE  Rounded(v * d + o, d) = v
<1>1. PICK n \in Int : n = v * d + o
  OBVIOUS
<1>2. CASE o >= 0
  <2>1. n \div d = v /\ n % d = o
    BY <1>1, <1>2
  <2> QED BY <1>1, <1>2, <2>1 DEF Rounded
<1>3. CASE o < 0
  <2>1. n = (v - 1) * d + (d + o) /\ 0 <= d + o /\ d + o < d
    BY <1>1, <1>3
  <2>2. n \div d = v - 1 /\ n % d = d + o
    BY <2>1
  <2> HIDE <1>1
  <2>3. Rounded(n, d) = v
    BY <1>3, <2>2 DEF Rounded
  <2> QED BY <1>1, <2>3
<1> QED
  BY <1>2, <1>3

Numbers == {v \in Nat \ {0} : v < Scale * 2 ^ (MantissaBits + MantissaBits)}

(* A number has the least spacing it fits into.                            *)
LEMMA SpacingFacts ==
    ASSUME NEW v \in Numbers
    PROVE  /\ Spacing(v) \in -MantissaBits..MantissaBits
           /\ Fits(v, Spacing(v))
           /\ \A l \in -MantissaBits..(Spacing(v) - 1) : ~Fits(v, l)
<1>1. MantissaBits \in Nat \ {0}
  BY QueriesAssumption
<1> DEFINE T == {n \in Nat : n <= 2 * MantissaBits /\ Fits(v, n - MantissaBits)}
<1>2. 2 * MantissaBits \in T
  <2>1. 2 * MantissaBits - MantissaBits = MantissaBits /\ MantissaBits >= 0
    BY <1>1
  <2>2. Fits(v, MantissaBits)
    BY <1>1 DEF Fits, Numbers
  <2> QED BY <1>1, <2>1, <2>2
<1>3. PICK n \in T : \A m \in T : n <= m
  BY <1>2, LeastNatural
<1>4. PICK k \in Int : k = n - MantissaBits
  BY <1>1
<1>5. k \in -MantissaBits..MantissaBits /\ Fits(v, k)
  BY <1>1, <1>3, <1>4
<1>6. ASSUME NEW l \in -MantissaBits..(k - 1), Fits(v, l)
      PROVE  FALSE
  <2>1. PICK m \in Nat : m = l + MantissaBits
    BY <1>1
  <2>2. m - MantissaBits = l
    BY <1>1, <2>1
  <2>3. m \in T
    BY <1>1, <1>5, <1>6, <2>1, <2>2
  <2> QED BY <1>1, <1>3, <1>4, <2>1, <2>3
<1> QED
  BY <1>5, <1>6 DEF Spacing

(* What is stored reads back as a number,                                  *)
LEMMA FloatIsNumber ==
    ASSUME NEW v \in Numbers
    PROVE  FloatOf(v) \in Int
<1>1. MantissaBits \in Nat \ {0} /\ Scale \in Nat \ {0}
  BY QueriesAssumption
<1>2. PICK k \in Int : k = Spacing(v)
  BY <1>1, SpacingFacts
<1>3. CASE k >= 0
  <2>1. PICK p \in Nat \ {0} : p = 2 ^ k
    BY <1>3, PowerPositive
  <2>2. Rounded(v, Scale * p) \in Int
    BY <1>1, <2>1, RoundedNear DEF Numbers
  <2>3. Rounded(v, Scale * p) * p * Scale \in Int
    BY <1>1, <2>1, <2>2
  <2> QED BY <1>2, <1>3, <2>1, <2>3 DEF FloatOf
<1>4. CASE ~(k >= 0)
  <2>1. PICK p \in Nat \ {0} : p = 2 ^ (-k)
    BY <1>4, PowerPositive
  <2>2. Rounded(v * p, Scale) \in Int
    BY <1>1, <2>1, RoundedNear DEF Numbers
  <2>3. PICK r \in Int : r = Rounded(v * p, Scale) * Scale
    BY <1>1, <2>2
  <2>4. Rounded(r, p) \in Int
    BY <2>1, <2>3, RoundedNear
  <2> QED BY <1>2, <1>4, <2>1, <2>3, <2>4 DEF FloatOf
<1> QED
  BY <1>3, <1>4

(* the same one while it is small: its float is closer to it than half of  *)
(* a unit, because there are more floats than units where it lies.         *)
LEMMA FloatIsExact ==
    ASSUME NEW v \in Nat \ {0}, v < 10 ^ ExactDigits
    PROVE  v \in Numbers /\ FloatOf(v) = v
<1>1. PICK M \in Nat \ {0}, S \in Nat \ {0} : M = MantissaBits /\ S = Scale
  BY QueriesAssumption
<1>2. PICK h \in Nat \ {0} : h = 2 ^ (M - 1)
  BY <1>1, PowerPositive
<1>3. PICK m \in Nat \ {0} : m = 2 ^ M /\ m = 2 * h
  <2>1. (M - 1) + 1 = M /\ M - 1 \in Nat
    BY <1>1
  <2> QED BY <1>1, <1>2, <2>1, PowerDoubles, PowerPositive
<1>4. v < h /\ S < m
  BY <1>1, <1>2, <1>3, QueriesAssumption
<1>5. v \in Numbers
  <2>1. PICK z \in Nat \ {0} : z = 2 ^ (M + M) /\ m <= z
    BY <1>1, <1>3, PowerGrows, PowerPositive
  <2>2. v < z
    BY <1>3, <1>4, <2>1
  <2>3. v < S * z
    BY <1>1, <2>1, <2>2
  <2> QED BY <1>1, <2>1, <2>3 DEF Numbers
<1>6. PICK k \in Int : k = Spacing(v)
  BY <1>1, <1>5, SpacingFacts
<1>7. k \in -M..M /\ Fits(v, k) /\ \A l \in -M..(k - 1) : ~Fits(v, l)
  BY <1>1, <1>5, <1>6, SpacingFacts
<1>8. k < 0
  <2>1. v * 2 < S * m
    <3>1. v * 2 < m
      BY <1>3, <1>4
    <3> QED BY <1>1, <1>3, <3>1
  <2>2. PICK l \in Int : l + 1 = 0
    OBVIOUS
  <2>3. -l = 1 /\ l < 0 /\ 2 ^ 1 = 2
    BY <2>2
  <2>4. Fits(v, l)
    <3>1. v * 2 ^ (-l) < Scale * 2 ^ MantissaBits
      <4>1. 2 ^ (-l) = 2 /\ 2 ^ MantissaBits = m
        BY <1>1, <1>3, <2>3
      <4> QED BY <1>1, <2>1, <4>1
    <3> QED BY <2>2, <2>3, <3>1 DEF Fits
  <2>5. SUFFICES ASSUME k >= 0 PROVE l \in -M..(k - 1)
    BY <1>7, <2>4
  <2> QED BY <1>1, <2>2, <2>5
<1>9. PICK j \in 1..M, p \in Nat \ {0} : j = -k /\ p = 2 ^ j
  <2>1. -k \in 1..M
    BY <1>1, <1>7, <1>8
  <2> QED BY <2>1, PowerPositive
<1>10. S < p
  <2>1. CASE j = M
    BY <1>3, <1>4, <1>9, <2>1
  <2>2. CASE j # M
    <3>1. k - 1 \in -M..(k - 1) /\ k - 1 < 0 /\ -(k - 1) = j + 1
      BY <1>1, <1>9, <2>2
    <3>2. 2 ^ (j + 1) = 2 * p
      BY <1>9, PowerDoubles
    <3>3. ~(v * (2 * p) < S * m)
      BY <1>1, <1>3, <1>7, <3>1, <3>2 DEF Fits
    <3>4. v * p >= S * h
      BY <1>1, <1>2, <1>3, <1>9, <3>3
    <3>5. v * p < h * p
      BY <1>2, <1>4, <1>9
    <3>6. h * p > h * S
      BY <1>1, <1>2, <1>9, <3>4, <3>5
    <3> QED BY <1>1, <1>2, <1>9, <3>6
  <2> QED BY <2>1, <2>2
<1>11. PICK r \in Int : r = Rounded(v * p, S) /\ 2 * (r * S - v * p) \in -S..S
  <2>1. v * p \in Int
    BY <1>9
  <2> QED BY <1>1, <2>1, RoundedNear
<1>12. PICK o \in Int : o = r * S - v * p /\ 2 * o \in (1 - p)..(p - 1)
  BY <1>1, <1>9, <1>10, <1>11
<1>13. r * S = v * p + o
  BY <1>1, <1>9, <1>11, <1>12
<1>14. Rounded(r * S, p) = v
  BY <1>9, <1>12, <1>13, RoundedTo
<1>15. FloatOf(v) = v
  BY <1>1, <1>6, <1>8, <1>9, <1>11, <1>14 DEF FloatOf
<1> QED
  BY <1>5, <1>15

(* So the amounts of events can be stored, and small ones are kept.        *)
LEMMA StoredFacts ==
    ASSUME NEW v \in Int
    PROVE  /\ Size(v) \in Nat
           /\ v \in Deltas => Stored(v) \in Int
           /\ Size(v) < 10 ^ ExactDigits => Stored(v) = v
<1>1. Size(v) \in Nat /\ (v # 0 => Size(v) \in Nat \ {0})
  BY DEF Size
<1>2. v # 0 => Stored(v) = IF v > 0 THEN FloatOf(Size(v)) ELSE -FloatOf(Size(v))
  BY DEF Stored, Size
<1>3. v \in Deltas => Stored(v) \in Int
  <2>1. SUFFICES ASSUME v \in Deltas PROVE Stored(v) \in Int
    OBVIOUS
  <2>2. v # 0 /\ Size(v) \in Numbers
    BY <1>1, <2>1, QueriesAssumption DEF Numbers
  <2>3. PICK f \in Int : f = FloatOf(Size(v))
    BY <2>2, FloatIsNumber
  <2> QED BY <1>2, <2>2, <2>3
<1>4. Size(v) < 10 ^ ExactDigits => Stored(v) = v
  <2>1. SUFFICES ASSUME Size(v) < 10 ^ ExactDigits PROVE Stored(v) = v
    OBVIOUS
  <2>2. CASE v = 0
    BY <2>2 DEF Stored
  <2>3. CASE v # 0
    <3>1. FloatOf(Size(v)) = Size(v)
      BY <1>1, <2>1, <2>3, FloatIsExact
    <3> QED BY <1>2, <2>3, <3>1 DEF Size
  <2> QED BY <2>2, <2>3
<1> QED
  BY <1>1, <1>3, <1>4

-----------------------------------------------------------------------------
(* The tables, and the two clients.                                        *)

QueriesTypeOK ==
    /\ events \in [EventIds -> EventRowType \cup {NoRow}]
    /\ transactions \in [EventIds -> Int \cup {NoRow}]
    /\ listing \in ListingType /\ (listing.pc # "idle" => listing.limit \in PageSizes)
    /\ view \in ViewType
    /\ IsFiniteSet(Recorded) /\ Applied \subseteq Recorded

(* A row that was read is never gone, nor another one.                     *)
OnlyGrows ==
    /\ Recorded \subseteq Recorded' /\ Applied \subseteq Applied'
    /\ \A e \in Recorded : events'[e] = events[e]

(* They are empty at first,                                                *)
LEMMA InitTypes == Init => QueriesTypeOK
<1> SUFFICES ASSUME Init PROVE QueriesTypeOK
  OBVIOUS
<1>1. Recorded = {} /\ Applied = {}
  BY DEF Init, Recorded, Applied
<1>2. listing \in ListingType /\ view \in ViewType
  BY DEF Init, NoListing, NoView, ListingType, ViewType
<1> QED
  BY <1>1, <1>2, FS_EmptySet DEF Init, QueriesTypeOK, NoListing

(* What each kind of step leaves of the tables.                            *)
LEMMA TablesStep ==
    ASSUME QueriesTypeOK, [Next]_vars
    PROVE  /\ events' \in [EventIds -> EventRowType \cup {NoRow}]
           /\ transactions' \in [EventIds -> Int \cup {NoRow}]
           /\ IsFiniteSet(Recorded') /\ Applied' \subseteq Recorded'
           /\ OnlyGrows
<1>1. NoRow \notin EventRowType /\ NoRow \notin Int
  BY QueriesAssumption
<1>2. ASSUME NEW e \in EventIds, NEW clock \in Clocks, NEW delta \in Deltas,
             Record(e, clock, delta)
      PROVE  /\ events' \in [EventIds -> EventRowType \cup {NoRow}]
             /\ Recorded' = Recorded \cup {e} /\ UNCHANGED transactions
             /\ \A f \in Recorded : events'[f] = events[f]
  <2>1. [clock |-> clock, delta |-> delta] \in EventRowType
    BY DEF EventRowType
  <2>2. e \notin Recorded /\ UNCHANGED transactions
        /\ events' = [events EXCEPT ![e] = [clock |-> clock, delta |-> delta]]
    BY <1>2 DEF Record
  <2>3. \A f \in EventIds : events'[f] = IF f = e THEN [clock |-> clock, delta |-> delta]
                                         ELSE events[f]
    BY <2>2 DEF QueriesTypeOK
  <2> QED BY <1>1, <2>1, <2>2, <2>3 DEF QueriesTypeOK, Recorded
<1>3. ASSUME NEW e \in EventIds, Apply(e)
      PROVE  /\ transactions' \in [EventIds -> Int \cup {NoRow}]
             /\ e \in Recorded /\ Applied' = Applied \cup {e} /\ UNCHANGED events
  <2>1. e \in Recorded /\ UNCHANGED events
        /\ transactions' = [transactions EXCEPT ![e] = Stored(events[e].delta)]
    BY <1>3 DEF Apply
  <2>2. events[e].delta \in Deltas
    BY <2>1 DEF QueriesTypeOK, Recorded, EventRowType
  <2>3. Stored(events[e].delta) \in Int
    BY <2>2, StoredFacts, QueriesAssumption
  <2> QED BY <1>1, <2>1, <2>3 DEF QueriesTypeOK, Applied
<1>4. CASE UNCHANGED <<events, transactions>>
  BY <1>4 DEF QueriesTypeOK, OnlyGrows, Recorded, Applied
<1>5. CASE \E e \in EventIds, clock \in Clocks, delta \in Deltas : Record(e, clock, delta)
  <2>1. PICK e \in EventIds, clock \in Clocks, delta \in Deltas : Record(e, clock, delta)
    BY <1>5
  <2>2. Applied' = Applied
    BY <1>2, <2>1 DEF Applied
  <2>3. IsFiniteSet(Recorded \cup {e})
    BY FS_AddElement DEF QueriesTypeOK
  <2> QED BY <1>2, <2>1, <2>2, <2>3 DEF QueriesTypeOK, OnlyGrows
<1>6. CASE \E e \in EventIds : Apply(e)
  <2>1. PICK e \in EventIds : Apply(e)
    BY <1>6
  <2>2. Recorded' = Recorded
    BY <1>3, <2>1 DEF Recorded
  <2> QED BY <1>3, <2>1, <2>2 DEF QueriesTypeOK, OnlyGrows
<1> QED
  BY <1>4, <1>5, <1>6
  DEF Next, vars, StartListing, ReadPage, EndListing, GetAccount, EndView

(* and stay well-formed, as the clients do.                                *)
LEMMA TypesStep == QueriesTypeOK /\ [Next]_vars => QueriesTypeOK'
<1> SUFFICES ASSUME QueriesTypeOK, [Next]_vars PROVE QueriesTypeOK'
  OBVIOUS
<1>1. PageSizes \subseteq Nat
  BY QueriesAssumption
<1>2. /\ listing' \in ListingType /\ (listing'.pc # "idle" => listing'.limit \in PageSizes)
      /\ view' \in ViewType
  <2>1. ASSUME NEW limit \in PageSizes, StartListing(limit)
        PROVE  /\ listing' \in ListingType /\ listing'.limit \in PageSizes /\ UNCHANGED view
    BY <2>1 DEF StartListing, NoListing, ListingType, Recorded
  <2>2. ASSUME ReadPage
        PROVE  /\ listing' \in ListingType /\ listing'.limit \in PageSizes /\ UNCHANGED view
    <3>1. PICK items : items = Page(listing.offset, listing.limit)
      OBVIOUS
    <3>2. items \subseteq EventIds
      BY <3>1 DEF Page, Recorded
    <3>3. PICK pc \in {"done", "paging"} :
              pc = IF Cardinality(items) < listing.limit THEN "done" ELSE "paging"
      OBVIOUS
    <3>4. listing' = [pc |-> pc, limit |-> listing.limit, offset |-> listing.offset + listing.limit,
                      present |-> listing.present, seen |-> listing.seen \cup items]
          /\ listing.pc = "paging" /\ UNCHANGED view
      BY <2>2, <3>1, <3>3 DEF ReadPage, QueriesTypeOK, ListingType
    <3>5. listing.limit \in PageSizes /\ listing.offset \in Nat
      BY <3>4 DEF QueriesTypeOK, ListingType
    <3>6. listing.offset + listing.limit \in Nat
      <4>1. PICK m \in Nat, n \in Nat : m = listing.offset /\ n = listing.limit
        BY <1>1, <3>5
      <4> QED BY <4>1
    <3> QED BY <3>2, <3>4, <3>5, <3>6 DEF QueriesTypeOK, ListingType
  <2>3. ASSUME EndListing
        PROVE  listing' \in ListingType /\ listing'.pc = "idle" /\ UNCHANGED view
    BY <2>3 DEF EndListing, NoListing, ListingType
  <2>4. ASSUME GetAccount
        PROVE  view' \in ViewType /\ UNCHANGED listing
    <3>1. Applied \in SUBSET EventIds /\ Recent \in SUBSET EventIds
      BY DEF Applied, Recent
    <3>2. \A counted, recent \in SUBSET EventIds :
              /\ [NoView EXCEPT !.pc = "account", !.counted = counted] \in ViewType
              /\ [view EXCEPT !.pc = "done", !.recent = recent] \in ViewType
      BY DEF NoView, ViewType, QueriesTypeOK
    <3> QED BY <2>4, <3>1, <3>2 DEF GetAccount
  <2>5. ASSUME EndView
        PROVE  view' \in ViewType /\ UNCHANGED listing
    BY <2>5 DEF EndView, NoView, ViewType
  <2>6. CASE UNCHANGED <<listing, view>>
    BY <2>6 DEF QueriesTypeOK
  <2> QED
    BY <2>1, <2>2, <2>3, <2>4, <2>5, <2>6 DEF Next, vars, Record, Apply, QueriesTypeOK
<1> QED
  BY <1>2, TablesStep DEF QueriesTypeOK

-----------------------------------------------------------------------------
(* Paging.                                                                 *)

(* The ascending order and the descending one.                             *)
Ascending == {p \in EventIds \X EventIds : Earlier(p[1], p[2])}
Descending == {p \in EventIds \X EventIds : Earlier(p[2], p[1])}

(* Clock readings and event ids order the rows of a table.                 *)
LEMMA RowsOrdered ==
    ASSUME QueriesTypeOK, NEW S \in SUBSET Recorded
    PROVE  /\ IsFiniteSet(S) /\ Ordered(S, Ascending) /\ Ordered(S, Descending)
           /\ \A e \in S : /\ Below(S, Ascending, e) = {f \in S : Earlier(f, e)}
                           /\ Below(S, Descending, e) = {f \in S : Earlier(e, f)}
<1>1. S \subseteq EventIds /\ IsFiniteSet(S)
  BY FS_Subset DEF QueriesTypeOK, Recorded
<1>2. \A e \in S : e \in Nat /\ events[e].clock \in Int
  BY <1>1, QueriesAssumption DEF QueriesTypeOK, Recorded, EventRowType
<1>3. \A e, f \in S : /\ <<e, f>> \in Ascending <=> Earlier(e, f)
                      /\ <<e, f>> \in Descending <=> Earlier(f, e)
  BY <1>1 DEF Ascending, Descending
<1>4. /\ \A e \in S : ~Earlier(e, e)
      /\ \A e, f, g \in S : Earlier(e, f) /\ Earlier(f, g) => Earlier(e, g)
      /\ \A e, f \in S : e # f => Earlier(e, f) \/ Earlier(f, e)
  BY <1>2 DEF Earlier
<1> QED
  BY <1>1, <1>3, <1>4 DEF Ordered, Below

(* A page is full if there is a row behind it.                             *)
LEMMA PageFull ==
    ASSUME QueriesTypeOK
    PROVE  /\ \A e \in Recorded : Rank(e) \in Nat
           /\ \A offset \in Nat, limit \in Nat \ {0}, e \in Recorded :
                  Rank(e) >= offset + limit => Cardinality(Page(offset, limit)) = limit
<1>1. PICK S : S = Recorded
  OBVIOUS
<1>2. S \in SUBSET Recorded
  BY <1>1
<1>3. IsFiniteSet(S) /\ Ordered(S, Ascending) /\ \A e \in S : Rank(e) = Cardinality(Below(S, Ascending, e))
  BY <1>1, <1>2, RowsOrdered DEF Rank
<1>4. PICK rank : rank = [e \in S |-> Rank(e)]
  OBVIOUS
<1>5. /\ rank \in [S -> Nat] /\ \A e \in S : rank[e] = Rank(e) /\ rank[e] < Cardinality(S)
      /\ \A e, f \in S : <<e, f>> \in Ascending => rank[e] < rank[f]
  BY <1>3, <1>4, RankOrder
<1>6. ASSUME NEW e \in S, NEW f \in S, e # f
      PROVE  rank[e] # rank[f]
  <2>1. <<e, f>> \in Ascending \/ <<f, e>> \in Ascending
    BY <1>3, <1>6 DEF Ordered
  <2>2. rank[e] < rank[f] \/ rank[f] < rank[e]
    BY <1>5, <2>1
  <2>3. rank[e] \in Nat /\ rank[f] \in Nat
    BY <1>5
  <2> QED BY <2>2, <2>3
<1>7. ASSUME NEW offset \in Nat, NEW limit \in Nat \ {0}, NEW e \in S, rank[e] >= offset + limit
      PROVE  Cardinality(Page(offset, limit)) = limit
  <2>1. Page(offset, limit) = {f \in S : rank[f] \in offset..(offset + limit - 1)}
    BY <1>1, <1>5 DEF Page
  <2> QED BY <1>3, <1>5, <1>6, <1>7, <2>1, PlacesTaken
<1> QED
  BY <1>1, <1>5, <1>7

(* A row only moves back in the listing when others arrive.                *)
LEMMA RankGrows ==
    ASSUME QueriesTypeOK, QueriesTypeOK', OnlyGrows, NEW e \in Recorded
    PROVE  Rank(e) \in Nat /\ Rank(e)' \in Nat /\ Rank(e) <= Rank(e)'
<1>1. PICK S, T : S = {f \in Recorded : Earlier(f, e)} /\ T = {f \in Recorded' : Earlier(f, e)'}
  OBVIOUS
<1>2. S \subseteq T
  BY <1>1 DEF OnlyGrows, Earlier
<1>3. IsFiniteSet(T)
  BY <1>1, FS_Subset DEF QueriesTypeOK
<1> QED
  BY <1>1, <1>2, <1>3, FS_Subset, FS_CardinalityType DEF Rank

(* The client has seen what stands before its offset of what was there.    *)
PagingInv ==
    /\ listing.pc # "idle" => listing.present \subseteq Recorded
    /\ listing.pc = "paging" =>
           \A e \in listing.present : Rank(e) < listing.offset => e \in listing.seen
    /\ PagingNeverSkips

(* Writes move rows past the offset only, and a page takes it to the next. *)
LEMMA PagingStep ==
    QueriesTypeOK /\ QueriesTypeOK' /\ PagingInv /\ [Next]_vars => PagingInv'
<1> SUFFICES ASSUME QueriesTypeOK, QueriesTypeOK', PagingInv, [Next]_vars PROVE PagingInv'
  OBVIOUS
<1>1. OnlyGrows
  BY TablesStep
<1>2. CASE UNCHANGED listing
  <2>1. listing.pc # "idle" => \A e \in listing.present : Rank(e) <= Rank(e)'
                                   /\ Rank(e) \in Nat /\ Rank(e)' \in Nat
    BY <1>1, RankGrows DEF PagingInv
  <2>2. listing.offset \in Nat
    BY DEF QueriesTypeOK, ListingType
  <2>3. listing.pc = "paging" =>
            \A e \in listing.present : Rank(e)' < listing.offset => e \in listing.seen
    BY <2>1, <2>2 DEF PagingInv
  <2> QED BY <1>1, <1>2, <2>3 DEF PagingInv, PagingNeverSkips, OnlyGrows
<1>3. ASSUME NEW limit \in PageSizes, StartListing(limit)
      PROVE  PagingInv'
  <2>1. listing'.pc = "paging" /\ listing'.present = Recorded /\ listing'.offset = 0
    BY <1>3 DEF StartListing, NoListing
  <2>2. \A e \in Recorded : ~(Rank(e)' < 0)
    BY <1>1, RankGrows
  <2> QED BY <1>1, <2>1, <2>2 DEF PagingInv, PagingNeverSkips, OnlyGrows
<1>4. ASSUME ReadPage
      PROVE  PagingInv'
  <2>1. PICK offset, limit, items :
            offset = listing.offset /\ limit = listing.limit /\ items = Page(offset, limit)
    OBVIOUS
  <2>2. listing.pc = "paging" /\ offset \in Nat /\ limit \in Nat \ {0}
    BY <1>4, <2>1, QueriesAssumption DEF ReadPage, QueriesTypeOK, ListingType
  <2>3. /\ listing'.pc = IF Cardinality(items) < limit THEN "done" ELSE "paging"
        /\ listing'.offset = offset + limit
        /\ listing'.present = listing.present /\ listing'.seen = listing.seen \cup items
        /\ UNCHANGED events
    BY <1>4, <2>1 DEF ReadPage, QueriesTypeOK, ListingType
  <2>4. Recorded' = Recorded /\ \A e \in Recorded : Rank(e)' = Rank(e) /\ Rank(e) \in Nat
    BY <2>3, PageFull DEF Rank, Recorded, Earlier
  <2>5. \A e \in listing.present : Rank(e) < offset + limit => e \in listing'.seen
    <3>1. \A e \in Recorded : Rank(e) < offset + limit /\ ~(Rank(e) < offset) => e \in items
      BY <2>1, <2>2, <2>4 DEF Page
    <3> QED BY <2>1, <2>2, <2>3, <3>1 DEF PagingInv
  <2>6. Cardinality(items) < limit => \A e \in Recorded : Rank(e) < offset + limit
    BY <2>1, <2>2, <2>4, PageFull
  <2> QED BY <2>2, <2>3, <2>4, <2>5, <2>6 DEF PagingInv, PagingNeverSkips
<1>5. ASSUME EndListing
      PROVE  PagingInv'
  BY <1>5 DEF EndListing, NoListing, PagingInv, PagingNeverSkips
<1> QED
  BY <1>2, <1>3, <1>4, <1>5 DEF Next, vars, Record, Apply, GetAccount, EndView

-----------------------------------------------------------------------------
(* The account view.                                                       *)

(* What the recent list leaves out is older than all of it; it is full.    *)
LEMMA RecentFacts ==
    ASSUME QueriesTypeOK, NEW e \in Applied \ Recent
    PROVE  Cardinality(Recent) = RecentLimit /\ \A f \in Recent : Earlier(e, f)
<1>1. PICK S : S = Applied
  OBVIOUS
<1>2. S \in SUBSET Recorded
  BY <1>1 DEF QueriesTypeOK
<1>3. /\ IsFiniteSet(S) /\ Ordered(S, Descending)
      /\ \A x \in S : RankBack(x) = Cardinality(Below(S, Descending, x))
  BY <1>1, <1>2, RowsOrdered DEF RankBack
<1>4. PICK rank : rank = [x \in S |-> RankBack(x)]
  OBVIOUS
<1>5. /\ rank \in [S -> Nat] /\ \A x \in S : rank[x] = RankBack(x) /\ rank[x] < Cardinality(S)
      /\ \A x, y \in S : <<x, y>> \in Descending => rank[x] < rank[y]
  BY <1>3, <1>4, RankOrder
<1>6. ASSUME NEW x \in S, NEW y \in S, x # y
      PROVE  rank[x] # rank[y]
  <2>1. <<x, y>> \in Descending \/ <<y, x>> \in Descending
    BY <1>3, <1>6 DEF Ordered
  <2>2. rank[x] < rank[y] \/ rank[y] < rank[x]
    BY <1>5, <2>1
  <2>3. rank[x] \in Nat /\ rank[y] \in Nat
    BY <1>5
  <2> QED BY <2>2, <2>3
<1>7. PICK limit \in Nat \ {0} : limit = RecentLimit
  BY QueriesAssumption
<1>8. e \in S /\ rank[e] >= limit /\ rank[e] \in Nat
  BY <1>1, <1>5, <1>7 DEF Recent
<1>9. Cardinality(Recent) = limit
  <2>1. Recent = {x \in S : rank[x] \in 0..(0 + limit - 1)}
    BY <1>1, <1>5, <1>7 DEF Recent
  <2>2. Cardinality({x \in S : rank[x] \in 0..(0 + limit - 1)}) = limit
    BY <1>3, <1>5, <1>6, <1>8, PlacesTaken
  <2> QED BY <2>1, <2>2
<1>10. ASSUME NEW f \in Recent
       PROVE  Earlier(e, f)
  <2>1. f \in S /\ rank[f] < limit /\ rank[f] \in Nat
    BY <1>1, <1>5, <1>7 DEF Recent
  <2>2. ~(rank[e] < rank[f]) /\ e # f
    BY <1>8, <2>1
  <2>3. <<f, e>> \in Descending
    BY <1>3, <1>5, <1>8, <2>1, <2>2 DEF Ordered
  <2> QED BY <2>3 DEF Descending
<1> QED
  BY <1>7, <1>9, <1>10

(* What the view counts and lists was applied before and still is.         *)
ViewInv ==
    /\ view.counted \subseteq Applied /\ view.recent \subseteq Applied
    /\ BalanceNotAhead

(* Commits between the two statements only add to the second.              *)
LEMMA ViewStep == QueriesTypeOK /\ ViewInv /\ [Next]_vars => ViewInv'
<1> SUFFICES ASSUME QueriesTypeOK, ViewInv, [Next]_vars PROVE ViewInv'
  OBVIOUS
<1>1. OnlyGrows /\ Applied \subseteq Recorded
  BY TablesStep DEF QueriesTypeOK
<1>2. \A e, f \in Applied : Earlier(e, f)' <=> Earlier(e, f)
  BY <1>1 DEF OnlyGrows, Earlier
<1>3. CASE UNCHANGED view
  <2>1. view.counted \subseteq Applied' /\ view.recent \subseteq Applied'
    BY <1>1 DEF ViewInv, OnlyGrows
  <2>2. BalanceNotAhead'
    BY <1>2, <1>3 DEF ViewInv, BalanceNotAhead
  <2> QED BY <1>3, <2>1, <2>2 DEF ViewInv
<1>4. CASE GetAccount /\ view.pc = "idle"
  <2>1. view' = [NoView EXCEPT !.pc = "account", !.counted = Applied]
    BY <1>4 DEF GetAccount
  <2>2. view'.pc = "account" /\ view'.counted = Applied /\ view'.recent = {}
    BY <2>1 DEF NoView
  <2> QED BY <1>1, <2>2 DEF ViewInv, BalanceNotAhead, OnlyGrows
<1>5. CASE GetAccount /\ view.pc = "account"
  <2>1. view'.pc = "done" /\ view'.counted = view.counted /\ view'.recent = Recent
    BY <1>5 DEF GetAccount, QueriesTypeOK, ViewType
  <2>2. Recent \subseteq Applied
    BY DEF Recent
  <2>3. \A e \in view.counted \ Recent :
            Cardinality(Recent) = RecentLimit /\ \A f \in Recent : Earlier(e, f)
    BY RecentFacts DEF ViewInv
  <2> QED BY <1>1, <1>2, <2>1, <2>2, <2>3 DEF ViewInv, BalanceNotAhead, OnlyGrows
<1>6. CASE EndView
  <2>1. view'.pc = "idle" /\ view'.counted = {} /\ view'.recent = {}
    BY <1>6 DEF EndView, NoView
  <2> QED BY <2>1 DEF ViewInv, BalanceNotAhead
<1> QED
  BY <1>3, <1>4, <1>5, <1>6
  DEF Next, vars, Record, Apply, StartListing, ReadPage, EndListing, GetAccount

-----------------------------------------------------------------------------
(* The amounts.                                                            *)

Volume == SumFunction([e \in Applied |-> Size(events[e].delta)])
Sum == SumFunction([e \in Applied |-> events[e].delta])

(* The balance is not larger than the amounts that were applied.           *)
AmountsInv ==
    /\ Volume \in Nat /\ Sum \in -Volume..Volume
    /\ AmountsReadBackExactly

(* Applying an event adds it to both sums, and nothing else changes them.  *)
LEMMA AmountsStep ==
    QueriesTypeOK /\ QueriesTypeOK' /\ AmountsInv /\ [Next]_vars => AmountsInv'
<1> SUFFICES ASSUME QueriesTypeOK, QueriesTypeOK', AmountsInv, [Next]_vars PROVE AmountsInv'
  OBVIOUS
<1>1. OnlyGrows /\ IsFiniteSet(Applied) /\ Applied \subseteq Recorded
  BY TablesStep, FS_Subset DEF QueriesTypeOK
<1>2. \A e \in Recorded' : events'[e].delta \in Int
  BY QueriesAssumption DEF QueriesTypeOK, Recorded, EventRowType
<1>3. PICK size, delta : /\ size = [e \in Applied' |-> Size(events'[e].delta)]
                         /\ delta = [e \in Applied' |-> events'[e].delta]
  OBVIOUS
<1>4. \A e \in Applied' : size[e] \in Int /\ delta[e] \in Int
                          /\ size[e] = Size(delta[e]) /\ size[e] \in Nat
  BY <1>2, <1>3, StoredFacts DEF QueriesTypeOK
<1>5. Volume = SumFunctionOnSet(size, Applied) /\ Sum = SumFunctionOnSet(delta, Applied)
  <2>1. PICK oldSize, oldDelta : /\ oldSize = [e \in Applied |-> Size(events[e].delta)]
                                 /\ oldDelta = [e \in Applied |-> events[e].delta]
    OBVIOUS
  <2>2. \A e \in Applied : size[e] \in Int /\ delta[e] \in Int
                           /\ oldSize[e] = size[e] /\ oldDelta[e] = delta[e]
    BY <1>1, <1>3, <1>4, <2>1 DEF OnlyGrows
  <2>3. Volume = SumFunctionOnSet(oldSize, Applied) /\ Sum = SumFunctionOnSet(oldDelta, Applied)
    BY <2>1 DEF Volume, Sum, SumFunction
  <2> QED BY <1>1, <2>2, <2>3, SumOfSame
<1>6. Volume' = SumFunctionOnSet(size, Applied') /\ Sum' = SumFunctionOnSet(delta, Applied')
  BY <1>3 DEF Volume, Sum, SumFunction
<1>7. CASE UNCHANGED <<transactions, balance>>
  <2>1. Applied' = Applied
    BY <1>7 DEF Applied
  <2>2. Volume' = Volume /\ Sum' = Sum
    BY <1>5, <1>6, <2>1
  <2>3. \A e \in Applied : events'[e] = events[e]
    BY <1>1 DEF OnlyGrows
  <2> QED BY <1>7, <2>1, <2>2, <2>3 DEF AmountsInv, AmountsReadBackExactly, Volume, Sum
<1>8. ASSUME NEW e \in EventIds, Apply(e)
      PROVE  AmountsInv'
  <2>1. /\ e \in Recorded \ Applied /\ UNCHANGED events
        /\ transactions' = [transactions EXCEPT ![e] = Stored(events[e].delta)]
        /\ balance' = Stored(balance + events[e].delta)
    BY <1>8 DEF Apply
  <2>2. PICK d \in Int : d = events[e].delta /\ Stored(d) \in Int
    BY <2>1, StoredFacts, QueriesAssumption DEF QueriesTypeOK, Recorded, EventRowType
  <2>3. Applied' = Applied \cup {e}
    BY <2>1, <2>2, QueriesAssumption DEF QueriesTypeOK, Applied
  <2>4. size[e] = Size(d) /\ delta[e] = d
    BY <1>3, <2>1, <2>2, <2>3
  <2>5. Volume' = Volume + Size(d) /\ Sum' = Sum + d
    BY <1>1, <1>4, <1>5, <1>6, <2>1, <2>3, <2>4, SumOfOneMore
  <2>6. PICK V \in Nat, B \in Int, s \in Nat :
            V = Volume /\ B = Sum /\ s = Size(d) /\ -V <= B /\ B <= V
    BY StoredFacts DEF AmountsInv
  <2>7. -s <= d /\ d <= s
    BY <2>6 DEF Size
  <2>8. V + s \in Nat /\ B + d \in -(V + s)..(V + s) /\ Size(B + d) <= V + s
        /\ Size(B + d) \in Nat
    BY <2>6, <2>7 DEF Size
  <2>9. ASSUME V + s < 10 ^ ExactDigits
        PROVE  /\ \A f \in Applied' : transactions'[f] = events'[f].delta
               /\ balance' = B + d
    <3>1. 10 ^ ExactDigits \in Int
      BY QueriesAssumption
    <3>2. V < 10 ^ ExactDigits /\ s < 10 ^ ExactDigits /\ Size(B + d) < 10 ^ ExactDigits
      BY <2>6, <2>8, <2>9, <3>1
    <3>3. balance = B /\ \A f \in Applied : transactions[f] = events[f].delta
      BY <2>6, <3>2 DEF AmountsInv, AmountsReadBackExactly, Volume, Sum
    <3>4. Stored(d) = d /\ Stored(B + d) = B + d
      BY <2>6, <3>2, StoredFacts
    <3> QED BY <2>1, <2>2, <2>3, <3>3, <3>4 DEF QueriesTypeOK
  <2> QED BY <2>5, <2>6, <2>8, <2>9 DEF AmountsInv, AmountsReadBackExactly, Volume, Sum
<1> QED
  BY <1>7, <1>8 DEF Next, vars, Record, StartListing, ReadPage, EndListing, GetAccount, EndView

-----------------------------------------------------------------------------
QInv == QueriesTypeOK /\ PagingInv /\ ViewInv /\ AmountsInv

(* Together they hold at the start and after every step.                   *)
THEOREM QueriesInvariance == Spec => []QInv
<1>1. Init => QInv
  <2> SUFFICES ASSUME Init PROVE QInv
    OBVIOUS
  <2>1. QueriesTypeOK
    BY InitTypes
  <2>2. listing.pc = "idle" /\ view.pc = "idle" /\ view.counted = {} /\ view.recent = {}
        /\ balance = 0
    BY DEF Init, NoListing, NoView
  <2>3. Applied = {}
    BY DEF Init, Applied
  <2>4. Volume = 0 /\ Sum = 0
    BY <2>3, SumOfNothing DEF Volume, Sum, SumFunction
  <2> QED
    BY <2>1, <2>2, <2>3, <2>4 DEF QInv, PagingInv, PagingNeverSkips, ViewInv, BalanceNotAhead,
       AmountsInv, AmountsReadBackExactly, Volume, Sum
<1>2. QInv /\ [Next]_vars => QInv'
  BY TypesStep, PagingStep, ViewStep, AmountsStep DEF QInv
<1> QED
  BY <1>1, <1>2, PTL DEF Spec

(* list_for_account: a client that reads GET /events to the end misses no  *)
(* event that was there when it began, for any limit and whatever is       *)
(* recorded between two pages.                                             *)
THEOREM PagingComplete == Spec => []PagingNeverSkips
<1>1. QInv => PagingNeverSkips
  BY DEF QInv, PagingInv
<1> QED
  BY <1>1, QueriesInvariance, PTL

(* get_account: a balance counts nothing that the list beside it should    *)
(* show and does not, for any RecentLimit.                                 *)
THEOREM ViewConsistent == Spec => []BalanceNotAhead
<1>1. QInv => BalanceNotAhead
  BY DEF QInv, ViewInv
<1> QED
  BY <1>1, QueriesInvariance, PTL

(* NUMERIC columns in SQLite: for any precision and scale of which         *)
(* QueriesAssumption holds, amounts of up to ExactDigits digits in all     *)
(* read back as they were sent, and the balance is their sum.              *)
THEOREM AmountsExact == Spec => []AmountsReadBackExactly
<1>1. QInv => AmountsReadBackExactly
  BY DEF QInv, AmountsInv
<1> QED
  BY <1>1, QueriesInvariance, PTL
=============================================================================
