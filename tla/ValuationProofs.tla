--------------------------- MODULE ValuationProofs ---------------------------
(***************************************************************************)
(* Proofs about Valuation, for any reports, pairs, waits and submissions.  *)
(***************************************************************************)
EXTENDS Valuation, FiniteSetTheorems, NaturalsInduction, WellFoundedInduction,
        TLAPS

-----------------------------------------------------------------------------
(* Rounding                                                                *)

LEMMA RoundType ==
  ASSUME NEW n \in Int, NEW d \in Int, d > 0
  PROVE  RoundHalfUp(n, d) \in Int
BY DEF RoundHalfUp

LEMMA RoundOfNat ==
  ASSUME NEW n \in Nat, NEW d \in Int, d > 0
  PROVE  RoundHalfUp(n, d) \in Nat
BY Z3 DEF RoundHalfUp

-----------------------------------------------------------------------------
(* Types                                                                   *)

LEMMA PairPriceType == ASSUME NEW a \in Amounts PROVE PairPrice(a) \in Nat
<1>1. CASE a = NotGiven
  BY <1>1 DEF PairPrice
<1>2. CASE a # NotGiven
  <2>1. a \in Nat
    BY <1>2 DEF Amounts
  <2>2. 2 * a \in Nat
    BY <2>1
  <2> QED
    BY <1>2, <2>2, RoundOfNat DEF PairPrice
<1> QED
  BY <1>1, <1>2

LEMMA SummaryType ==
  ASSUME NEW s \in Marketplaces, NEW k \in {"aggregate", "floor"},
         NEW a \in Nat, NEW c \in Amounts
  PROVE  /\ Summary(s, k, a, c) \in Observations
         /\ Summary(s, k, a, c).listing = Unknown
<1>1. /\ s \in Sources /\ Unknown \in GivenOrNot /\ NotGiven \in Amounts
      /\ k \in {"listing", "aggregate", "floor"} /\ 0 \in Nat /\ 0 \in Int
  <2>1. Unknown \in GivenOrNot
    BY DEF GivenOrNot
  <2>2. NotGiven \in Amounts /\ s \in Sources
    BY DEF Amounts, Sources
  <2>3. k \in {"listing", "aggregate", "floor"}
    OBVIOUS
  <2> QED
    BY <2>1, <2>2, <2>3
<1> QED
  BY <1>1 DEF Summary, Observations

\* What a source reports in one call can be stored.
Storable(S) == /\ S \subseteq Observations /\ IsFiniteSet(S)
               /\ \A o \in S : o.listing # Unknown => IsListing(o)

LEMMA PricedStorable == ASSUME NEW S, Storable(S) PROVE Storable(Priced(S))
<1>1. Priced(S) \subseteq S
  BY DEF Priced
<1> QED
  BY <1>1, FS_Subset DEF Storable

LEMMA OneSummary ==
  ASSUME NEW s \in Marketplaces, NEW k \in {"aggregate", "floor"},
         NEW a \in Nat, NEW c \in Amounts
  PROVE  Storable({Summary(s, k, a, c)})
<1> DEFINE o == Summary(s, k, a, c)
<1>1. o \in Observations /\ o.listing = Unknown
  BY SummaryType
<1> HIDE DEF o
<1>2. IsFiniteSet({o})
  BY FS_Singleton
<1>3. Storable({o})
  BY <1>1, <1>2 DEF Storable
<1> QED
  BY <1>3 DEF o

LEMMA BothStorable ==
  ASSUME NEW S, NEW T, Storable(S), Storable(T)
  PROVE  Storable(S \cup T)
BY FS_Union DEF Storable

LEMMA QuotedStorable == ASSUME NEW q \in QuoteForms PROVE Storable(Quoted(q))
<1>1. NotGiven \in Amounts
  BY DEF Amounts
<1>2. CASE q \in [source : {"stubhub"}, lowest : Amounts]
  <2>1. Quoted(q) = StubHubRows(q)
    BY <1>2 DEF Quoted
  <2>2. PairPrice(q.lowest) \in Nat
    BY <1>2, PairPriceType
  <2> QED
    BY <2>1, <2>2, <1>1, OneSummary, PricedStorable DEF StubHubRows, Marketplaces
<1>3. CASE q \in [source : {"ticketmaster"}, minima : SUBSET Nat]
  <2> DEFINE positive == q.minima \ {0}
             least == {m \in positive : \A n \in positive : m <= n}
             all == {Summary("ticketmaster", "floor", PairPrice(m), NotGiven) : m \in least}
  <2>1. Quoted(q) = Priced(all)
    BY <1>3 DEF Quoted, TicketmasterRows
  <2>2. least \subseteq Nat /\ \A m, n \in least : m = n
    BY <1>3
  <2>3. \A m \in least : PairPrice(m) \in Nat
    BY <2>2, PairPriceType DEF Amounts
  <2>4. CASE least = {}
    BY <2>1, <2>4, FS_EmptySet DEF Priced, Storable
  <2>5. CASE least # {}
    <3>1. PICK m \in least : TRUE
      BY <2>5
    <3>2. all = {Summary("ticketmaster", "floor", PairPrice(m), NotGiven)}
      BY <3>1, <2>2
    <3>3. PairPrice(m) \in Nat
      BY <2>3
    <3> HIDE DEF all, least
    <3>4. Storable(all)
      BY <3>2, <3>3, <1>1, OneSummary DEF Marketplaces
    <3> QED
      BY <2>1, <3>4, PricedStorable
  <2> QED
    BY <2>4, <2>5
<1>4. CASE q \in [source : {"seatgeek"}, lowest : Amounts, average : Amounts,
                  highest : Amounts, count : Amounts]
  <2> DEFINE price == IF PairPrice(q.average) > 0 THEN PairPrice(q.average)
                      ELSE PairPrice(q.highest)
             aggregate == Summary("seatgeek", "aggregate", price, q.count)
             floor == Summary("seatgeek", "floor", PairPrice(q.lowest), NotGiven)
  <2>1. Quoted(q) = Priced({floor}) \cup (IF q.count # NotGiven THEN {aggregate}
                                           ELSE Priced({aggregate}))
    BY <1>4 DEF Quoted, SeatGeekRows
  <2>2. PairPrice(q.lowest) \in Nat /\ price \in Nat /\ q.count \in Amounts
    BY <1>4, PairPriceType
  <2>3. Storable({floor})
    BY <2>2, <1>1, OneSummary DEF Marketplaces
  <2> HIDE DEF price
  <2>4. Storable({aggregate})
    BY <2>2, OneSummary DEF Marketplaces
  <2> HIDE DEF floor, aggregate
  <2>5. Storable(Priced({floor})) /\ Storable(Priced({aggregate}))
    BY <2>3, <2>4, PricedStorable
  <2> QED
    BY <2>1, <2>4, <2>5, BothStorable
<1> QED
  BY <1>2, <1>3, <1>4 DEF QuoteForms

LEMMA NumberedStorable ==
  ASSUME TypeOK, NEW S, Storable(S), NEW t \in Int
  PROVE  Storable(Numbered(S, t))
<1> DEFINE new == {o \in S : ~Stored(o, t)}
           place(o) == IF o.kind = "aggregate" THEN Cardinality(new) ELSE 1
           id(o) == Cardinality(rows) + place(o)
<1>1. new \subseteq S /\ IsFiniteSet(new)
  BY FS_Subset DEF Storable
<1>2. Cardinality(rows) \in Nat /\ Cardinality(new) \in Nat
  BY <1>1, FS_CardinalityType DEF TypeOK
<1>3. Numbered(S, t) = {At(o, t, id(o)) : o \in new}
  BY DEF Numbered
<1> HIDE DEF new
<1>4. \A o \in new : id(o) \in Nat
  BY <1>2
<1>5. ASSUME NEW o \in new
      PROVE  /\ At(o, t, id(o)) \in Observations
             /\ At(o, t, id(o)).listing # Unknown => IsListing(At(o, t, id(o)))
  <2>1. o \in Observations /\ (o.listing # Unknown => IsListing(o))
    BY <1>1 DEF Storable
  <2>2. id(o) \in Nat
    BY <1>4
  <2> HIDE DEF id
  <2> QED
    BY <2>1, <2>2 DEF At, Observations, IsListing
<1> HIDE DEF id
<1>6. IsFiniteSet({At(o, t, id(o)) : o \in new})
  <2> DEFINE f == [o \in new |-> At(o, t, id(o))]
             image == {At(o, t, id(o)) : o \in new}
  <2>1. f \in Surjection(new, image)
    <3> HIDE DEF new, id
    <3> QED
      BY DEF Surjection
  <2> HIDE DEF f, image
  <2>2. IsFiniteSet(image)
    BY <1>1, <2>1, FS_Surjection
  <2> QED
    BY <2>2 DEF image
<1> QED
  BY <1>3, <1>5, <1>6 DEF Storable

LEMMA StoredTypes ==
  ASSUME TypeOK, NEW S, Storable(S), NEW t \in Int, rows' = rows \cup Numbered(S, t),
         UNCHANGED <<now, settings>>
  PROVE  TypeOK'
<1>1. Storable(Numbered(S, t)) /\ Storable(rows)
  BY NumberedStorable DEF TypeOK, Storable
<1>2. Storable(rows \cup Numbered(S, t))
  BY <1>1, BothStorable
<1> QED
  BY <1>2 DEF TypeOK, Storable

LEMMA NamedStorable == ASSUME NEW o, Named(o) PROVE Storable({o})
<1>1. IsFiniteSet({o})
  BY FS_Singleton
<1> QED
  BY <1>1 DEF Storable, Named

\* Observations are well-formed, a row that names a listing is one, and the
\* settings in force are within their ranges, whatever is reported and sent.
THEOREM TypeCorrect == Spec => []TypeOK
<1>1. Init => TypeOK
  BY SettingsAssumption, FS_EmptySet DEF Init, TypeOK
<1>2. TypeOK /\ [Next]_vars => TypeOK'
  <2> SUFFICES ASSUME TypeOK, [Next]_vars PROVE TypeOK'
    OBVIOUS
  <2>1. ASSUME NEW x \in Listings, Report(x) PROVE TypeOK'
    <3>1. Storable({x[1]}) /\ now + x[2] \in Int
      BY ReportsAssumption, NamedStorable DEF TypeOK
    <3> QED
      BY <2>1, <3>1, StoredTypes DEF Report, Observe
  <2>2. ASSUME NEW x \in Summaries, Summarize(x) PROVE TypeOK'
    <3>1. Storable(Quoted(x[1])) /\ now + x[2] \in Int
      BY ReportsAssumption, QuotedStorable DEF TypeOK
    <3> QED
      BY <2>2, <3>1, StoredTypes DEF Summarize, Observe
  <2>3. ASSUME NEW d \in Waits, Wait(d) PROVE TypeOK'
    <3>1. now + d \in Nat
      BY ClockAssumption DEF TypeOK
    <3> QED
      BY <2>3, <3>1 DEF Wait, TypeOK
  <2>4. ASSUME NEW s \in Submissions, Submit(s) PROVE TypeOK'
    BY <2>4, SettingsAssumption DEF Submit, TypeOK
  <2>5. ASSUME NEW p \in Pairs, Score(p) PROVE TypeOK'
    <3>1. Storable({p}) /\ now \in Int
      BY ReportsAssumption, NamedStorable DEF TypeOK
    <3> QED
      BY <2>5, <3>1, StoredTypes DEF Score
  <2>6. CASE UNCHANGED vars
    BY <2>6 DEF vars, TypeOK
  <2> QED
    BY <2>1, <2>2, <2>3, <2>4, <2>5, <2>6 DEF Next
<1> QED
  BY <1>1, <1>2, PTL DEF Spec

-----------------------------------------------------------------------------
(* Hard limits                                                             *)

\* Whatever is sent and whenever, between the scoring and the alert too, an
\* alert is for a pair of at most $400 that was scored less than a day ago, and
\* the profit it is asked for is never below $50.
LimitsInForce ==
  Alerted => /\ scored.worth.acquisition \in 1..BudgetLimit
             /\ now - scored.at <= 24 * Hour
             /\ \E threshold \in Int :
                  threshold >= LeastThreshold /\ scored.worth.profit >= threshold

LEMMA RangeBounds ==
  ASSUME NEW s \in Settings, InRange(s)
  PROVE  /\ s.cap \in Int /\ s.cap <= BudgetLimit
         /\ s.threshold \in Int /\ s.threshold >= LeastThreshold
         /\ s.freshness \in Int /\ s.freshness <= 24 * Hour
<1>1. s.cap \in Int /\ s.threshold \in Int /\ s.freshness \in Int
  BY DEF Settings
<1>2. s.cap \in Dollar..BudgetLimit /\ s.threshold >= LeastThreshold
      /\ s.freshness \in Hour..(24 * Hour)
  BY DEF InRange
<1>3. Dollar \in Int /\ BudgetLimit \in Int /\ LeastThreshold \in Int
      /\ 24 * Hour \in Int /\ Hour \in Int
  BY DEF Dollar, BudgetLimit, LeastThreshold, Hour
<1> QED
  BY <1>1, <1>2, <1>3

\* No alert leaves the limits of README.md:7, for any submissions.
LEMMA AlertsKeepTheLimits == Spec => [](LimitsInForce)
<1>1. Init => scored.at \in Int
  BY DEF Init, NotScored
<1>2. TypeOK /\ scored.at \in Int /\ [Next]_vars => (scored.at \in Int)'
  <2> SUFFICES ASSUME TypeOK, scored.at \in Int, [Next]_vars PROVE (scored.at \in Int)'
    OBVIOUS
  <2>1. ASSUME NEW p \in Pairs, Score(p) PROVE (scored.at \in Int)'
    <3> DEFINE worth == Worth(p, rows', now, settings)
    <3>1. scored' = IF worth.actionable THEN [at |-> now, worth |-> worth] ELSE scored
      BY <2>1 DEF Score
    <3> HIDE DEF worth
    <3> QED
      BY <3>1 DEF TypeOK
  <2>2. CASE UNCHANGED scored
    BY <2>2
  <2> QED
    BY <2>1, <2>2 DEF Next, Report, Summarize, Observe, Wait, Submit, vars
<1>3. TypeOK /\ scored.at \in Int => LimitsInForce
  <2> SUFFICES ASSUME TypeOK, scored.at \in Int, Alerted
               PROVE  /\ scored.worth.acquisition \in 1..BudgetLimit
                      /\ now - scored.at <= 24 * Hour
                      /\ \E threshold \in Int :
                           threshold >= LeastThreshold /\ scored.worth.profit >= threshold
    BY Zenon DEF LimitsInForce
  <2>1. /\ settings.cap \in Int /\ settings.cap <= BudgetLimit
        /\ settings.threshold \in Int /\ settings.threshold >= LeastThreshold
        /\ settings.freshness \in Int /\ settings.freshness <= 24 * Hour
    <3>1. settings \in Settings /\ InRange(settings)
      BY DEF TypeOK
    <3> QED
      BY <3>1, RangeBounds
  <2>2. scored.worth.acquisition \in 1..settings.cap
    BY DEF Alerted
  <2>3. now - scored.at <= settings.freshness /\ now \in Int /\ 24 * Hour \in Int
    BY DEF Alerted, TypeOK, Hour
  <2>4. scored.worth.profit >= settings.threshold
    BY DEF Alerted
  <2>5. scored.worth.acquisition \in 1..BudgetLimit
    <3>1. BudgetLimit \in Int
      BY DEF BudgetLimit, Dollar
    <3>2. \A a, cap \in Int : a \in 1..cap /\ cap <= BudgetLimit => a \in 1..BudgetLimit
      BY <3>1
    <3>3. scored.worth.acquisition \in Int
      BY <2>1, <2>2
    <3> QED
      BY <2>1, <2>2, <3>2, <3>3
  <2>6. now - scored.at <= 24 * Hour
    BY <2>1, <2>3
  <2> QED
    BY <2>1, <2>4, <2>5, <2>6
<1> QED
  BY <1>1, <1>2, <1>3, TypeCorrect, PTL DEF Spec

-----------------------------------------------------------------------------
(* Ageing                                                                  *)

LEMMA MinOfTwo ==
  ASSUME NEW n \in Int
  PROVE  Min({2, n}) = IF n < 2 THEN n ELSE 2
BY DEF Min

\* The rows a pair is compared with only go away as time passes, none comes back.
LEMMA EvidenceShrinks ==
  ASSUME NEW p, Named(p), NEW t \in Int, NEW u \in Int, t <= u, NEW freshness \in Int,
         NEW rs, rs \subseteq Observations,
         \A o \in rs : (o.listing # Unknown => IsListing(o)) /\ o.at <= t
  PROVE  Comparables(At(p, u, 0), Fresh(rs, u, freshness), u)
           \subseteq Comparables(At(p, t, 0), Fresh(rs, t, freshness), t)
<1> DEFINE pt == At(p, t, 0)
           pu == At(p, u, 0)
           Ft == Fresh(rs, t, freshness)
           Fu == Fresh(rs, u, freshness)
<1>1. /\ pt.source = p.source /\ pt.listing = p.listing /\ pt.kind = p.kind /\ pt.at = t
      /\ pu.source = p.source /\ pu.listing = p.listing /\ pu.kind = p.kind /\ pu.at = u
  BY DEF Named, Observations, At
<1> HIDE DEF pt, pu
<1>2. \A o \in rs : o.at \in Int /\ o.id \in Nat
  BY DEF Observations
<1>3. \A o \in rs, limit \in Int : Within(o, u, limit) => Within(o, t, limit)
  BY <1>2 DEF Within, Age, ClockSkew
<1>4. \A o, q \in rs, limit \in Int :
        Within(o, u, limit) /\ Newer(q, o) => Within(q, u, limit)
  BY <1>2 DEF Within, Age, ClockSkew, Newer
<1>5. Fu \subseteq Ft /\ Ft \subseteq rs
  BY <1>3 DEF Fresh
<1>6. \A o \in rs : SameListing(pt, o) <=> SameListing(pu, o)
  BY <1>1 DEF SameListing, IsListing
<1>7. \A o \in Fu : Hidden(o, Ft) => Hidden(o, Fu)
  BY <1>4, <1>5 DEF Hidden, Fresh
<1>8. \A o \in rs : SameSnapshot(pt, o) => SameListing(pt, o)
  BY <1>1 DEF SameSnapshot, SameListing, IsListing, Named
<1>9. MaxAge \in Int
  BY DEF MaxAge, Hour
<1>10. ASSUME NEW o \in Comparables(pu, Fu, u) PROVE o \in Comparables(pt, Ft, t)
  <2>1. o \in Fu /\ ~SameListing(pu, o) /\ ~Hidden(o, Fu) /\ o.price > 0 /\ Within(o, u, MaxAge)
    BY DEF Comparables
  <2>2. o \in Ft /\ o \in rs
    BY <2>1, <1>5
  <2>3. ~SameListing(pt, o) /\ ~SameSnapshot(pt, o)
    BY <2>1, <2>2, <1>6, <1>8
  <2>4. ~Hidden(o, Ft)
    BY <2>1, <1>7
  <2>5. Within(o, t, MaxAge)
    BY <2>1, <2>2, <1>3, <1>9
  <2> QED
    BY <2>1, <2>2, <2>3, <2>4, <2>5 DEF Comparables
<1> QED
  BY <1>10 DEF pt, pu

\* Less and older evidence costs at least as much confidence.
LEMMA LessConfidence ==
  ASSUME NEW p, Named(p), NEW t \in Int, NEW u \in Int, t <= u,
         NEW S, IsFiniteSet(S), S \subseteq Observations, NEW T \in SUBSET S
  PROVE  Confidence(At(p, u, 0), T, u) <= Confidence(At(p, t, 0), S, t)
<1> DEFINE pt == At(p, t, 0)
           pu == At(p, u, 0)
           plain(q, R) == q.row = Unknown \/ \A o \in R : ~SameSection(q, o)
           bare(q) == NotGiven \in {q.fees, q.tax}
           typed(q) == q.source = "manual"
<1>1. /\ pt.row = pu.row /\ pt.section = pu.section /\ pt.fees = pu.fees
      /\ pt.tax = pu.tax /\ pt.source = pu.source
  BY DEF Named, Observations, At
<1>2. /\ Drops(pt, S, t) = One(Sparse(S)) + One(plain(pt, S)) + One(bare(pt))
                             + One(Outdated(S, t)) + One(typed(pt))
      /\ Drops(pu, T, u) = One(Sparse(T)) + One(plain(pu, T)) + One(bare(pu))
                             + One(Outdated(T, u)) + One(typed(pu))
  BY DEF Drops
<1> HIDE DEF pt, pu
<1>3. bare(pt) = bare(pu) /\ typed(pt) = typed(pu)
  BY <1>1
<1>4. plain(pt, S) => plain(pu, T)
  BY <1>1 DEF SameSection
<1>5. Sparse(S) => Sparse(T)
  <2> DEFINE L == {o \in S : o.kind = "listing"}
             M == {o \in T : o.kind = "listing"}
  <2>1. M \subseteq L /\ L \subseteq S
    OBVIOUS
  <2>2. IsFiniteSet(L)
    BY <2>1, FS_Subset
  <2> HIDE DEF L, M
  <2>3. IsFiniteSet(M)
    BY <2>1, <2>2, FS_Subset
  <2>4. Cardinality(M) <= Cardinality(L) /\ Cardinality(M) \in Nat /\ Cardinality(L) \in Nat
    BY <2>1, <2>2, <2>3, FS_Subset, FS_CardinalityType
  <2>5. (Sparse(S) <=> Cardinality(L) < 3) /\ (Sparse(T) <=> Cardinality(M) < 3)
    BY DEF Sparse, L, M
  <2> QED
    BY <2>4, <2>5
<1>6. T # {} /\ Outdated(S, t) => Outdated(T, u)
  <2>1. \A o \in S : o.at \in Int
    BY DEF Observations
  <2> QED
    BY <2>1 DEF Outdated, Hour
<1>7. T = {} => Sparse(T) /\ plain(pu, T)
  BY FS_EmptySet DEF Sparse
<1>8. \A c : One(c) \in {0, 1}
  BY DEF One
<1>9. Drops(pt, S, t) \in Nat /\ Drops(pu, T, u) \in Nat
  <2> HIDE DEF plain, bare, typed
  <2> QED
    BY <1>2, <1>8
<1>10. Drops(pt, S, t) <= Drops(pu, T, u) \/ Drops(pu, T, u) >= 2
  <2> HIDE DEF plain, bare, typed
  <2>1. CASE T # {}
    <3>1. /\ One(Sparse(S)) <= One(Sparse(T)) /\ One(plain(pt, S)) <= One(plain(pu, T))
          /\ One(Outdated(S, t)) <= One(Outdated(T, u))
      BY <2>1, <1>4, <1>5, <1>6 DEF One
    <3>2. One(bare(pt)) = One(bare(pu)) /\ One(typed(pt)) = One(typed(pu))
      BY <1>3
    <3> QED
      BY <3>1, <3>2, <1>2, <1>8
  <2>2. CASE T = {}
    <3>1. One(Sparse(T)) = 1 /\ One(plain(pu, T)) = 1
      BY <2>2, <1>7 DEF One
    <3> QED
      BY <3>1, <1>2, <1>8
  <2> QED
    BY <2>1, <2>2
<1>11. /\ Confidence(pt, S, t) = 2 - Min({2, Drops(pt, S, t)})
       /\ Confidence(pu, T, u) = 2 - Min({2, Drops(pu, T, u)})
  BY DEF Confidence
<1>12. Confidence(pu, T, u) <= Confidence(pt, S, t)
  BY <1>9, <1>10, <1>11, MinOfTwo
<1> QED
  BY <1>12 DEF pt, pu

\* A pair seen later with the same rows is not scored with more confidence: for
\* any rows, pairs, kickoff and freshness.
THEOREM EvidenceOnlyGetsWorse == Spec => AgingNeverRaisesConfidence
<1>1. TypeOK /\ TypeOK' /\ [Next]_vars =>
        (now' > now /\ (\A o \in rows : o.at <= now) =>
           \A p \in Pairs : Worth(p, rows, now', settings).confidence
                              <= Worth(p, rows, now, settings).confidence)
  <2> SUFFICES ASSUME TypeOK, TypeOK', now' > now, \A o \in rows : o.at <= now,
                      NEW p \in Pairs
               PROVE  Worth(p, rows, now', settings).confidence
                        <= Worth(p, rows, now, settings).confidence
    OBVIOUS
  <2> DEFINE freshness == settings.freshness
             E(t) == Comparables(At(p, t, 0), Fresh(rows, t, freshness), t)
  <2>1. Named(p) /\ now \in Int /\ now' \in Int /\ freshness \in Int
    BY ReportsAssumption DEF TypeOK, Settings
  <2>2. E(now') \subseteq E(now)
    BY <2>1, EvidenceShrinks DEF TypeOK
  <2>3. E(now) \subseteq rows
    BY DEF Comparables, Fresh
  <2>4. IsFiniteSet(E(now)) /\ E(now) \subseteq Observations
    BY <2>3, FS_Subset DEF TypeOK
  <2>5. \A t : Worth(p, rows, t, settings).confidence = Confidence(At(p, t, 0), E(t), t)
    BY DEF Worth, Estimate
  <2> HIDE DEF E
  <2>6. Confidence(At(p, now', 0), E(now'), now') <= Confidence(At(p, now, 0), E(now), now)
    BY <2>1, <2>2, <2>4, LessConfidence
  <2> QED
    BY <2>5, <2>6
<1> QED
  BY <1>1, TypeCorrect, PTL DEF Spec, AgingNeverRaisesConfidence

-----------------------------------------------------------------------------
(* Sums over sets of rows.  The fold behind Weight takes the rows in an     *)
(* order of its own; what it computes does not depend on it.                *)

\* A set of naturals has a least element, so what holds of 0 and of the
\* successor of each number it holds of, holds of all.
LEMMA LeastNat ==
  ASSUME NEW S \in SUBSET Nat, S # {}
  PROVE  \E i \in S : \A j \in S : i <= j
<1>1. IsWellFoundedOn(OpToRel(<, Nat), Nat)
  BY NatLessThanWellFounded
<1>2. PICK i \in S : \A j \in S : <<j, i>> \notin OpToRel(<, Nat)
  BY <1>1, WFMin
<1>3. \A j \in S : ~(j < i)
  BY <1>2 DEF OpToRel
<1> QED
  BY <1>3

LEMMA AllNumbers ==
  ASSUME NEW G, 0 \in G, \A n \in Nat : n \in G => n + 1 \in G
  PROVE  Nat \subseteq G
<1> SUFFICES ASSUME Nat \ G # {} PROVE FALSE
  OBVIOUS
<1>1. PICK n \in Nat \ G : \A m \in Nat \ G : n <= m
  BY LeastNat
<1>2. n # 0
  OBVIOUS
<1>3. n - 1 \in Nat /\ (n - 1) + 1 = n /\ ~(n <= n - 1)
  BY <1>2
<1>4. n - 1 \in G
  BY <1>1, <1>3
<1> QED
  BY <1>3, <1>4

\* What holds of a set whenever it holds of all sets with one element less.
LEMMA AllSubsets ==
  ASSUME NEW S, IsFiniteSet(S), NEW G,
         \A s \in SUBSET S : (\A x \in s : s \ {x} \in G) => s \in G
  PROVE  SUBSET S \subseteq G
<1> DEFINE Bad == {n \in Nat : \E s \in SUBSET S : s \notin G /\ Cardinality(s) = n}
<1>1. \A s \in SUBSET S : IsFiniteSet(s) /\ Cardinality(s) \in Nat
  BY FS_Subset, FS_CardinalityType
<1> SUFFICES ASSUME NEW s0 \in SUBSET S, s0 \notin G PROVE FALSE
  OBVIOUS
<1>2. Bad # {} /\ Bad \in SUBSET Nat
  <2>1. Cardinality(s0) \in Bad
    BY <1>1
  <2> QED
    BY <2>1
<1>3. PICK n \in Bad : \A m \in Bad : n <= m
  <2> HIDE DEF Bad
  <2> QED
    BY <1>2, LeastNat
<1>4. PICK s \in SUBSET S : s \notin G /\ Cardinality(s) = n
  BY <1>3
<1>5. PICK x \in s : s \ {x} \notin G
  BY <1>4
<1>6. Cardinality(s \ {x}) = n - 1
  BY <1>1, <1>4, <1>5, FS_RemoveElement
<1>7. n - 1 \in Bad
  BY <1>1, <1>5, <1>6
<1>8. ~(n <= n - 1)
  BY <1>1, <1>4
<1> QED
  BY <1>3, <1>7, <1>8

\* What one row weighs, and the recursion of the fold.
RowWeight(p, o) == Relevance(p, o) * Quality[o.kind]

Drawn(s) == CHOOSE x \in s : TRUE

Sums(p, D, f) ==
  f = [s \in D |-> IF s = {} THEN 0 ELSE RowWeight(p, Drawn(s)) + f[s \ {Drawn(s)}]]

WeightFold(p, S) == CHOOSE f : Sums(p, SUBSET S, f)

LEMMA DrawnFrom == ASSUME NEW s, s # {} PROVE Drawn(s) \in s
BY DEF Drawn

LEMMA WeightIsFold == ASSUME NEW p, NEW S PROVE Weight(p, S) = WeightFold(p, S)[S]
BY DEF Weight, MapThenSumSet, MapThenFoldSet, RowWeight, Drawn, Sums, WeightFold

\* The recursion has a solution: on sets of at most n rows, for every n.
LEMMA FoldExists ==
  ASSUME NEW p, NEW S, IsFiniteSet(S)
  PROVE  Sums(p, SUBSET S, WeightFold(p, S))
<1> DEFINE D(n) == {s \in SUBSET S : Cardinality(s) <= n}
           G == {n \in Nat : \E f : Sums(p, D(n), f)}
<1>1. \A s \in SUBSET S : IsFiniteSet(s) /\ Cardinality(s) \in Nat
                          /\ Cardinality(s) <= Cardinality(S)
  BY FS_Subset, FS_CardinalityType
<1>2. 0 \in G
  <2> DEFINE f == [s \in D(0) |-> 0]
  <2>1. \A s \in D(0) : s = {}
    <3> SUFFICES ASSUME NEW s \in SUBSET S, Cardinality(s) <= 0 PROVE s = {}
      OBVIOUS
    <3> QED
      BY <1>1, FS_EmptySet
  <2>2. Sums(p, D(0), f)
    <3> HIDE DEF D
    <3> QED
      BY <2>1 DEF Sums
  <2> QED
    BY <2>2
<1>3. ASSUME NEW n \in Nat, n \in G PROVE n + 1 \in G
  <2>1. PICK f : Sums(p, D(n), f)
    BY <1>3
  <2> DEFINE g == [s \in D(n + 1) |->
                     IF s = {} THEN 0 ELSE RowWeight(p, Drawn(s)) + f[s \ {Drawn(s)}]]
  <2>2. ASSUME NEW s \in D(n + 1), s # {}
        PROVE  s \ {Drawn(s)} \in D(n) /\ s \ {Drawn(s)} \in D(n + 1)
    <3>1. Cardinality(s \ {Drawn(s)}) = Cardinality(s) - 1
      BY <1>1, <2>2, DrawnFrom, FS_RemoveElement
    <3> QED
      BY <1>1, <3>1
  <2>3. ASSUME NEW s \in D(n), s \in D(n + 1) PROVE g[s] = f[s]
    <3>1. f[s] = IF s = {} THEN 0 ELSE RowWeight(p, Drawn(s)) + f[s \ {Drawn(s)}]
      <4> HIDE DEF D
      <4> QED
        BY <2>1, <2>3 DEF Sums
    <3>2. g[s] = IF s = {} THEN 0 ELSE RowWeight(p, Drawn(s)) + f[s \ {Drawn(s)}]
      <4> HIDE DEF D
      <4> QED
        BY <2>3
    <3> QED
      BY <3>1, <3>2
  <2>4. \A s \in D(n + 1) : s # {} => g[s \ {Drawn(s)}] = f[s \ {Drawn(s)}]
    <3> HIDE DEF D, g
    <3> QED
      BY <2>2, <2>3
  <2>5. Sums(p, D(n + 1), g)
    <3> DEFINE h == [s \in D(n + 1) |->
                       IF s = {} THEN 0 ELSE RowWeight(p, Drawn(s)) + g[s \ {Drawn(s)}]]
    <3>1. \A s \in D(n + 1) :
            (IF s = {} THEN 0 ELSE RowWeight(p, Drawn(s)) + g[s \ {Drawn(s)}])
              = IF s = {} THEN 0 ELSE RowWeight(p, Drawn(s)) + f[s \ {Drawn(s)}]
      <4> HIDE DEF D, g
      <4> QED
        BY <2>4
    <3>2. g = h
      <4> HIDE DEF D
      <4> QED
        BY <3>1
    <3> HIDE DEF g, D
    <3> QED
      BY <3>2 DEF Sums
  <2> HIDE DEF D, g
  <2> QED
    BY <2>5
<1>4. Nat \subseteq G
  <2> HIDE DEF G
  <2> QED
    BY <1>2, <1>3, AllNumbers
<1>5. Cardinality(S) \in Nat /\ D(Cardinality(S)) = SUBSET S
  BY <1>1, FS_CardinalityType
<1>6. \E f : Sums(p, SUBSET S, f)
  <2>1. Cardinality(S) \in G
    <3> HIDE DEF G
    <3> QED
      BY <1>4, <1>5
  <2>2. \E f : Sums(p, D(Cardinality(S)), f)
    <3> HIDE DEF D
    <3> QED
      BY <2>1
  <2> HIDE DEF D
  <2> QED
    BY <1>5, <2>2
<1> QED
  BY <1>6 DEF WeightFold

\* Every row weighs something.
Weighable(p, S) == \A o \in S : RowWeight(p, o) \in Nat \ {0}

LEMMA RowsWeigh == ASSUME NEW p, NEW o \in Observations PROVE RowWeight(p, o) \in Nat \ {0}
<1>1. o.kind \in {"listing", "aggregate", "floor"}
  BY DEF Observations
<1>2. Quality[o.kind] \in {100, 70, 50}
  BY <1>1 DEF Quality
<1>3. Elsewhere[o.kind] \in {50, 35, 20}
  BY <1>1 DEF Elsewhere
<1>4. Relevance(p, o) \in {100, 80, 50, 35, 20}
  BY <1>3 DEF Relevance
<1> QED
  BY <1>2, <1>4 DEF RowWeight

LEMMA FoldStep ==
  ASSUME NEW p, NEW S, IsFiniteSet(S), NEW s \in SUBSET S
  PROVE  /\ s = {} => WeightFold(p, S)[s] = 0
         /\ s # {} => /\ Drawn(s) \in s
                      /\ WeightFold(p, S)[s]
                           = RowWeight(p, Drawn(s)) + WeightFold(p, S)[s \ {Drawn(s)}]
<1>1. Sums(p, SUBSET S, WeightFold(p, S))
  BY FoldExists
<1> QED
  BY <1>1, DrawnFrom DEF Sums

LEMMA FoldNat ==
  ASSUME NEW p, NEW S, IsFiniteSet(S), Weighable(p, S)
  PROVE  \A s \in SUBSET S : WeightFold(p, S)[s] \in Nat
<1> DEFINE G == {s \in SUBSET S : WeightFold(p, S)[s] \in Nat}
<1>1. ASSUME NEW s \in SUBSET S, \A x \in s : s \ {x} \in G PROVE s \in G
  <2>1. CASE s = {}
    BY <2>1, FoldStep
  <2>2. CASE s # {}
    <3>1. Drawn(s) \in s
          /\ WeightFold(p, S)[s] = RowWeight(p, Drawn(s)) + WeightFold(p, S)[s \ {Drawn(s)}]
      BY <2>2, FoldStep
    <3>2. WeightFold(p, S)[s \ {Drawn(s)}] \in Nat /\ RowWeight(p, Drawn(s)) \in Nat
      BY <1>1, <3>1 DEF Weighable
    <3> QED
      BY <3>1, <3>2
  <2> QED
    BY <2>1, <2>2
<1>2. SUBSET S \subseteq G
  <2> HIDE DEF G
  <2> QED
    BY <1>1, AllSubsets
<1> QED
  BY <1>2

\* The fold over a set gives its subsets what the folds over them give.
LEMMA FoldLocal ==
  ASSUME NEW p, NEW S, IsFiniteSet(S), NEW T \in SUBSET S
  PROVE  WeightFold(p, S)[T] = Weight(p, T)
<1> DEFINE G == {s \in SUBSET T : WeightFold(p, S)[s] = WeightFold(p, T)[s]}
<1>1. IsFiniteSet(T)
  BY FS_Subset
<1>2. ASSUME NEW s \in SUBSET T, \A x \in s : s \ {x} \in G PROVE s \in G
  <2>1. CASE s = {}
    BY <1>1, <2>1, FoldStep
  <2>2. CASE s # {}
    <3>1. Drawn(s) \in s
          /\ WeightFold(p, S)[s] = RowWeight(p, Drawn(s)) + WeightFold(p, S)[s \ {Drawn(s)}]
      <4>1. s \in SUBSET S
        OBVIOUS
      <4> QED
        BY <2>2, <4>1, FoldStep
    <3>2. WeightFold(p, T)[s] = RowWeight(p, Drawn(s)) + WeightFold(p, T)[s \ {Drawn(s)}]
      BY <1>1, <2>2, FoldStep
    <3>3. WeightFold(p, S)[s \ {Drawn(s)}] = WeightFold(p, T)[s \ {Drawn(s)}]
      BY <1>2, <3>1
    <3> QED
      BY <3>1, <3>2, <3>3
  <2> QED
    BY <2>1, <2>2
<1>3. SUBSET T \subseteq G
  <2> HIDE DEF G
  <2> QED
    BY <1>1, <1>2, AllSubsets
<1>4. WeightFold(p, S)[T] = WeightFold(p, T)[T]
  BY <1>3
<1> QED
  BY <1>4, WeightIsFold

LEMMA WeightOfNone == ASSUME NEW p PROVE Weight(p, {}) = 0
BY WeightIsFold, FoldStep, FS_EmptySet

LEMMA WeightType ==
  ASSUME NEW p, NEW S, IsFiniteSet(S), Weighable(p, S)
  PROVE  Weight(p, S) \in Nat
BY FoldNat, FoldLocal

\* Any row may be taken out first.
LEMMA WeightWithout ==
  ASSUME NEW p, NEW S, IsFiniteSet(S), Weighable(p, S), NEW y \in S
  PROVE  Weight(p, S) = RowWeight(p, y) + Weight(p, S \ {y})
<1> DEFINE F == WeightFold(p, S)
           G == {s \in SUBSET S : \A x \in s : F[s] = RowWeight(p, x) + F[s \ {x}]}
<1>1. ASSUME NEW s \in SUBSET S, \A x \in s : s \ {x} \in G, NEW x \in s
      PROVE  F[s] = RowWeight(p, x) + F[s \ {x}]
  <2> DEFINE d == Drawn(s)
  <2>1. d \in s /\ F[s] = RowWeight(p, d) + F[s \ {d}]
    BY <1>1, FoldStep
  <2>2. CASE x = d
    BY <2>1, <2>2
  <2>3. CASE x # d
    <3>1. s \ {d} \in G /\ s \ {x} \in G
      BY <1>1, <2>1
    <3>2. F[s \ {d}] = RowWeight(p, x) + F[(s \ {d}) \ {x}]
      BY <1>1, <2>3, <3>1
    <3>3. F[s \ {x}] = RowWeight(p, d) + F[(s \ {x}) \ {d}]
      BY <2>1, <2>3, <3>1
    <3>4. (s \ {d}) \ {x} = (s \ {x}) \ {d} /\ (s \ {x}) \ {d} \in SUBSET S
      OBVIOUS
    <3>5. RowWeight(p, x) \in Nat /\ RowWeight(p, d) \in Nat
          /\ F[(s \ {x}) \ {d}] \in Nat
      BY <1>1, <2>1, <3>4, FoldNat DEF Weighable
    <3> HIDE DEF d, F, G
    <3>6. F[s \ {d}] = RowWeight(p, x) + F[(s \ {x}) \ {d}]
      BY <3>2, <3>4
    <3> QED
      BY <2>1, <3>3, <3>5, <3>6
  <2> QED
    BY <2>2, <2>3
<1>2. ASSUME NEW s \in SUBSET S, \A x \in s : s \ {x} \in G PROVE s \in G
  BY <1>1, <1>2
<1>3. SUBSET S \subseteq G
  <2> HIDE DEF G
  <2> QED
    BY <1>2, AllSubsets
<1>4. F[S] = RowWeight(p, y) + F[S \ {y}]
  BY <1>3
<1> QED
  BY <1>4, FoldLocal

\* The weight of two sets that share nothing is the sum of their weights.
LEMMA WeightOfBoth ==
  ASSUME NEW p, NEW A, NEW B, IsFiniteSet(A), IsFiniteSet(B), A \cap B = {},
         Weighable(p, A \cup B)
  PROVE  Weight(p, A \cup B) = Weight(p, A) + Weight(p, B)
<1> DEFINE G == {s \in SUBSET B : Weight(p, A \cup s) = Weight(p, A) + Weight(p, s)}
<1>1. \A s \in SUBSET B : /\ IsFiniteSet(s) /\ IsFiniteSet(A \cup s)
                          /\ Weighable(p, A \cup s) /\ Weighable(p, s)
  BY FS_Subset, FS_Union DEF Weighable
<1>2. ASSUME NEW s \in SUBSET B, \A x \in s : s \ {x} \in G PROVE s \in G
  <2>1. CASE s = {}
    <3>1. Weight(p, A) \in Nat /\ Weight(p, {}) = 0 /\ A \cup {} = A
      BY WeightType, WeightOfNone DEF Weighable
    <3> QED
      BY <2>1, <3>1
  <2>2. CASE s # {}
    <3>1. PICK x \in s : TRUE
      BY <2>2
    <3>2. x \in B /\ x \notin A /\ (A \cup s) \ {x} = A \cup (s \ {x}) /\ x \in A \cup s
      BY <3>1
    <3>3. Weight(p, A \cup s) = RowWeight(p, x) + Weight(p, A \cup (s \ {x}))
      BY <1>1, <3>2, WeightWithout
    <3>4. Weight(p, s) = RowWeight(p, x) + Weight(p, s \ {x})
      <4>1. IsFiniteSet(s) /\ Weighable(p, s)
        BY <1>1
      <4> QED
        BY <3>1, <4>1, WeightWithout
    <3>5. Weight(p, A \cup (s \ {x})) = Weight(p, A) + Weight(p, s \ {x})
      BY <1>2, <3>1
    <3>6. Weight(p, A) \in Nat /\ Weight(p, s \ {x}) \in Nat /\ RowWeight(p, x) \in Nat
      <4>1. Weighable(p, A) /\ RowWeight(p, x) \in Nat
        BY <3>2 DEF Weighable
      <4>2. s \ {x} \in SUBSET B
        OBVIOUS
      <4> QED
        BY <1>1, <4>1, <4>2, WeightType
    <3>7. Weight(p, A \cup s) = Weight(p, A) + Weight(p, s)
      BY <3>3, <3>4, <3>5, <3>6
    <3> QED
      BY <3>7
  <2> QED
    BY <2>1, <2>2
<1>3. SUBSET B \subseteq G
  <2> HIDE DEF G
  <2> QED
    BY <1>2, AllSubsets
<1> QED
  BY <1>3

LEMMA WeightOfPart ==
  ASSUME NEW p, NEW S, IsFiniteSet(S), Weighable(p, S), NEW T \in SUBSET S
  PROVE  /\ Weight(p, T) \in Nat /\ Weight(p, S \ T) \in Nat
         /\ Weight(p, S) = Weight(p, T) + Weight(p, S \ T)
<1>1. IsFiniteSet(T) /\ IsFiniteSet(S \ T) /\ Weighable(p, T) /\ Weighable(p, S \ T)
  BY FS_Subset DEF Weighable
<1>2. T \cap (S \ T) = {} /\ T \cup (S \ T) = S
  OBVIOUS
<1>3. Weight(p, T \cup (S \ T)) = Weight(p, T) + Weight(p, S \ T)
  BY <1>1, <1>2, WeightOfBoth
<1> QED
  BY <1>1, <1>2, <1>3, WeightType

-----------------------------------------------------------------------------
(* The percentile                                                          *)

\* Evidence: rows that the table tells apart.
Apart(S) == /\ IsFiniteSet(S) /\ S \subseteq Observations
            /\ \A o, r \in S : o.id = r.id => o = r

LEMMA ApartPart == ASSUME NEW S, Apart(S), NEW T \in SUBSET S PROVE Apart(T)
BY FS_Subset DEF Apart

LEMMA ApartWeighs == ASSUME NEW p, NEW S, Apart(S) PROVE Weighable(p, S)
BY RowsWeigh DEF Apart, Weighable

LEMMA SmallestBy ==
  ASSUME NEW S, S # {}, NEW f \in [S -> Nat]
  PROVE  \E x \in S : \A y \in S : f[x] <= f[y]
<1> DEFINE N == {f[x] : x \in S}
<1>1. N # {} /\ N \in SUBSET Nat
  OBVIOUS
<1>2. PICK n \in N : \A m \in N : n <= m
  <2> HIDE DEF N
  <2> QED
    BY <1>1, LeastNat
<1> QED
  BY <1>2

\* The order by price and id.
LEMMA UpToOrder ==
  ASSUME NEW S, Apart(S), NEW o \in S, NEW r \in S
  PROVE  /\ o \in UpTo(S, o) /\ UpTo(S, o) \in SUBSET S
         /\ r \in UpTo(S, o) \/ o \in UpTo(S, r)
         /\ r \in UpTo(S, o) => UpTo(S, r) \subseteq UpTo(S, o)
         /\ r \in UpTo(S, o) /\ r # o => o \notin UpTo(S, r)
<1>1. \A x \in S : x.price \in Nat /\ x.id \in Nat
  BY DEF Apart, Observations
<1>2. r # o => r.id # o.id
  BY DEF Apart
<1>3. \A x \in S : x \in UpTo(S, o) <=> x.price < o.price \/ (x.price = o.price /\ x.id <= o.id)
  BY DEF UpTo
<1>4. \A x \in S : x \in UpTo(S, r) <=> x.price < r.price \/ (x.price = r.price /\ x.id <= r.id)
  BY DEF UpTo
<1>5. UpTo(S, o) \in SUBSET S /\ UpTo(S, r) \in SUBSET S
  BY DEF UpTo
<1>6. r \in UpTo(S, o) => UpTo(S, r) \subseteq UpTo(S, o)
  <2> SUFFICES ASSUME r \in UpTo(S, o), NEW x \in UpTo(S, r) PROVE x \in UpTo(S, o)
    OBVIOUS
  <2>1. x \in S
    BY <1>5
  <2> QED
    BY <1>1, <1>3, <1>4, <2>1
<1> QED
  BY <1>1, <1>2, <1>3, <1>4, <1>5, <1>6

\* Some row is the last: everything is up to it.
LEMMA LastRow ==
  ASSUME NEW S, Apart(S), S # {}
  PROVE  \E o \in S : UpTo(S, o) = S
<1> DEFINE f == [o \in S |-> Cardinality(S \ UpTo(S, o))]
<1>1. \A o \in S : IsFiniteSet(S \ UpTo(S, o)) /\ Cardinality(S \ UpTo(S, o)) \in Nat
  <2> SUFFICES ASSUME NEW o \in S
               PROVE  IsFiniteSet(S \ UpTo(S, o)) /\ Cardinality(S \ UpTo(S, o)) \in Nat
    OBVIOUS
  <2>1. S \ UpTo(S, o) \in SUBSET S /\ IsFiniteSet(S)
    BY DEF Apart
  <2> QED
    BY <2>1, FS_Subset, FS_CardinalityType
<1>2. PICK o \in S : \A r \in S : f[o] <= f[r]
  <2>1. f \in [S -> Nat]
    BY <1>1
  <2> HIDE DEF f
  <2> QED
    BY <2>1, SmallestBy
<1>3. ASSUME NEW r \in S, r \notin UpTo(S, o) PROVE FALSE
  <2>1. o \in UpTo(S, r)
    BY <1>3, UpToOrder
  <2>2. UpTo(S, o) \subseteq UpTo(S, r) /\ r \in UpTo(S, r) /\ UpTo(S, o) \in SUBSET S
    BY <2>1, UpToOrder
  <2>3. (S \ UpTo(S, r)) \in SUBSET (S \ UpTo(S, o)) /\ S \ UpTo(S, r) # S \ UpTo(S, o)
    BY <1>3, <2>2
  <2>4. Cardinality(S \ UpTo(S, r)) <= Cardinality(S \ UpTo(S, o))
        /\ Cardinality(S \ UpTo(S, r)) # Cardinality(S \ UpTo(S, o))
    BY <1>1, <2>3, FS_Subset
  <2>5. Cardinality(S \ UpTo(S, o)) <= Cardinality(S \ UpTo(S, r))
    BY <1>2
  <2>6. Cardinality(S \ UpTo(S, o)) \in Nat /\ Cardinality(S \ UpTo(S, r)) \in Nat
    BY <1>1, <1>3
  <2> QED
    BY <2>4, <2>5, <2>6
<1>4. UpTo(S, o) = S
  BY <1>3, UpToOrder
<1> QED
  BY <1>4

\* The row weighted_quantile stops at.
StopsAt(p, S, q) == /\ Reaches(p, S, q)
                    /\ \A r \in UpTo(S, q) \ {q} : ~Reaches(p, S, r)

LEMMA QuantileRow ==
  ASSUME NEW p, NEW S, Apart(S), S # {}
  PROVE  \E q \in S : StopsAt(p, S, q) /\ Quantile(p, S) = q.price
<1> DEFINE R == {o \in S : Reaches(p, S, o)}
           f == [o \in R |-> Cardinality(UpTo(S, o))]
<1>1. R # {}
  <2>1. PICK o \in S : UpTo(S, o) = S
    BY LastRow
  <2>2. Weight(p, S) \in Nat
    BY WeightType, ApartWeighs DEF Apart
  <2>3. 100 * Weight(p, S) >= 40 * Weight(p, S)
    BY <2>2
  <2> QED
    BY <2>1, <2>3 DEF Reaches
<1>2. \A o \in S : IsFiniteSet(UpTo(S, o)) /\ Cardinality(UpTo(S, o)) \in Nat
  <2> SUFFICES ASSUME NEW o \in S
               PROVE  IsFiniteSet(UpTo(S, o)) /\ Cardinality(UpTo(S, o)) \in Nat
    OBVIOUS
  <2>1. UpTo(S, o) \in SUBSET S /\ IsFiniteSet(S)
    BY UpToOrder DEF Apart
  <2> QED
    BY <2>1, FS_Subset, FS_CardinalityType
<1>3. PICK q \in R : \A r \in R : f[q] <= f[r]
  <2>1. f \in [R -> Nat]
    BY <1>2
  <2> HIDE DEF f, R
  <2> QED
    BY <1>1, <2>1, SmallestBy
<1>4. ASSUME NEW r \in UpTo(S, q) \ {q}, Reaches(p, S, r) PROVE FALSE
  <2>1. r \in S
    BY UpToOrder
  <2>2. UpTo(S, r) \subseteq UpTo(S, q) /\ q \notin UpTo(S, r) /\ q \in UpTo(S, q)
    BY <2>1, UpToOrder
  <2>3. UpTo(S, r) \in SUBSET UpTo(S, q) /\ UpTo(S, r) # UpTo(S, q)
    BY <2>2
  <2>4. Cardinality(UpTo(S, r)) <= Cardinality(UpTo(S, q))
        /\ Cardinality(UpTo(S, r)) # Cardinality(UpTo(S, q))
    BY <1>2, <2>3, FS_Subset
  <2>5. Cardinality(UpTo(S, q)) <= Cardinality(UpTo(S, r))
    BY <1>3, <1>4, <2>1
  <2> QED
    BY <1>2, <2>1, <2>4, <2>5
<1>5. StopsAt(p, S, q)
  BY <1>4 DEF StopsAt
<1>6. Quantile(p, S) = (CHOOSE o \in S : StopsAt(p, S, o)).price
  BY DEF Quantile, StopsAt
<1>7. StopsAt(p, S, CHOOSE o \in S : StopsAt(p, S, o)) /\ (CHOOSE o \in S : StopsAt(p, S, o)) \in S
  BY <1>5
<1> QED
  BY <1>6, <1>7

\* The asks below the quantile have less than 40 per cent of the weight, those
\* above it at most 60.
LEMMA Percentile ==
  ASSUME NEW p, NEW S, Apart(S), S # {}
  PROVE  /\ \E o \in S : o.price = Quantile(p, S)
         /\ Quantile(p, S) \in Nat
         /\ 100 * Weight(p, {o \in S : o.price < Quantile(p, S)}) < 40 * Weight(p, S)
         /\ 100 * Weight(p, {o \in S : o.price > Quantile(p, S)}) <= 60 * Weight(p, S)
<1>1. PICK q \in S : StopsAt(p, S, q) /\ Quantile(p, S) = q.price
  BY QuantileRow
<1> DEFINE Below == {o \in S : o.price < q.price}
           Above == {o \in S : o.price > q.price}
           W == Weight(p, S)
<1>2. Weighable(p, S) /\ IsFiniteSet(S) /\ \A o \in S : o.price \in Nat
  BY ApartWeighs DEF Apart, Observations
<1>3. W \in Nat
  BY <1>2, WeightType
<1>4. 100 * Weight(p, Below) < 40 * W
  <2>1. CASE Below = {}
    <3>1. Weight(p, S) = RowWeight(p, q) + Weight(p, S \ {q})
      BY <1>2, WeightWithout
    <3>2. RowWeight(p, q) \in Nat \ {0}
      BY <1>2 DEF Weighable
    <3>3. Weight(p, S \ {q}) \in Nat
      BY <1>2, WeightOfPart
    <3>4. W > 0
      BY <3>1, <3>2, <3>3
    <3>5. Weight(p, Below) = 0
      BY <2>1, WeightOfNone
    <3> HIDE DEF W, Below
    <3> QED
      BY <1>3, <3>4, <3>5
  <2>2. CASE Below # {}
    <3>1. Apart(Below)
      BY ApartPart
    <3>2. PICK r \in Below : UpTo(Below, r) = Below
      <4> HIDE DEF Below
      <4> QED
        BY <2>2, <3>1, LastRow
    <3>3. UpTo(S, r) = Below
      <4>1. ASSUME NEW o \in S, o.price < q.price PROVE o \in UpTo(S, r)
        <5>1. o \in UpTo(Below, r)
          BY <3>2, <4>1
        <5> QED
          BY <5>1 DEF UpTo
      <4>2. ASSUME NEW o \in UpTo(S, r) PROVE o \in Below
        <5>1. o \in S /\ o.price <= r.price /\ r.price < q.price /\ r \in S
          BY <1>2, <4>2 DEF UpTo
        <5> QED
          BY <1>2, <5>1
      <4> QED
        BY <4>1, <4>2
    <3>4. r \in UpTo(S, q) \ {q}
      BY <1>2 DEF UpTo
    <3>5. ~(100 * Weight(p, Below) >= 40 * W)
      BY <1>1, <3>3, <3>4 DEF StopsAt, Reaches
    <3>6. Weight(p, Below) \in Nat
      BY <1>2, WeightOfPart
    <3> HIDE DEF W, Below
    <3> QED
      BY <1>3, <3>5, <3>6
  <2> QED
    BY <2>1, <2>2
<1>5. 100 * Weight(p, Above) <= 60 * W
  <2> DEFINE U == UpTo(S, q)
  <2>1. U \in SUBSET S /\ Above \in SUBSET (S \ U)
    BY <1>2 DEF UpTo
  <2>2. 100 * Weight(p, U) >= 40 * W
    BY <1>1 DEF StopsAt, Reaches
  <2>3. Weight(p, U) \in Nat /\ Weight(p, S \ U) \in Nat /\ W = Weight(p, U) + Weight(p, S \ U)
    BY <1>2, <2>1, WeightOfPart
  <2>4. IsFiniteSet(S \ U) /\ Weighable(p, S \ U)
    BY <1>2, FS_Subset DEF Weighable
  <2>5. Weight(p, Above) \in Nat /\ Weight(p, (S \ U) \ Above) \in Nat
        /\ Weight(p, S \ U) = Weight(p, Above) + Weight(p, (S \ U) \ Above)
    <3> HIDE DEF U, Above
    <3> QED
      BY <2>1, <2>4, WeightOfPart
  <2> HIDE DEF U, W, Above
  <2> QED
    BY <1>3, <2>2, <2>3, <2>5
<1>6. q.price \in Nat
  BY <1>2
<1> QED
  BY <1>1, <1>4, <1>5, <1>6

-----------------------------------------------------------------------------
(* Row ids.  The percentile tells rows of the same price apart by their id. *)

\* What is stored in one call: one row, or an aggregate and another row.
OneCall(S) == \/ S = {}
              \/ \E b : S = {b}
              \/ \E a, b : S = {a, b} /\ a.kind = "aggregate" /\ b.kind # "aggregate"

LEMMA PartOfCall == ASSUME NEW S, OneCall(S), NEW T \in SUBSET S PROVE OneCall(T)
<1>1. CASE \E b : S = {b}
  <2>1. PICK b : S = {b}
    BY <1>1
  <2>2. T = {} \/ T = {b}
    BY <2>1
  <2> QED
    BY <2>2 DEF OneCall
<1>2. CASE \E a, b : S = {a, b} /\ a.kind = "aggregate" /\ b.kind # "aggregate"
  <2>1. PICK a, b : S = {a, b} /\ a.kind = "aggregate" /\ b.kind # "aggregate"
    BY <1>2
  <2>2. T = {} \/ T = {a} \/ T = {b} \/ T = {a, b}
    BY <2>1
  <2> QED
    BY <2>1, <2>2 DEF OneCall
<1>3. CASE S = {}
  BY <1>3 DEF OneCall
<1> QED
  BY <1>1, <1>2, <1>3 DEF OneCall

\* A quote gives one summary, or a floor and an aggregate; neither is a listing.
LEMMA QuotedCall ==
  ASSUME NEW q \in QuoteForms
  PROVE  OneCall(Quoted(q)) /\ \A o \in Quoted(q) : o.listing = Unknown
<1>1. \A source, kind, price, count :
        /\ Summary(source, kind, price, count).kind = kind
        /\ Summary(source, kind, price, count).listing = Unknown
  BY DEF Summary
<1>2. ASSUME NEW T, OneCall(T), \A o \in T : o.listing = Unknown, NEW U \in SUBSET T
      PROVE  OneCall(U) /\ \A o \in U : o.listing = Unknown
  BY <1>2, PartOfCall
<1>3. ASSUME NEW b, b.listing = Unknown
      PROVE  OneCall({b}) /\ \A o \in {b} : o.listing = Unknown
  BY <1>3 DEF OneCall
<1>4. CASE q \in [source : {"stubhub"}, lowest : Amounts]
  <2> DEFINE b == Summary("stubhub", "floor", PairPrice(q.lowest), NotGiven)
  <2>1. Quoted(q) = Priced({b})
    BY <1>4 DEF Quoted, StubHubRows
  <2>2. b.listing = Unknown
    BY <1>1
  <2> HIDE DEF b
  <2>3. Priced({b}) \in SUBSET {b}
    BY DEF Priced
  <2> QED
    BY <2>1, <2>2, <2>3, <1>2, <1>3
<1>5. CASE q \in [source : {"ticketmaster"}, minima : SUBSET Nat]
  <2> DEFINE positive == q.minima \ {0}
             least == {m \in positive : \A n \in positive : m <= n}
             all == {Summary("ticketmaster", "floor", PairPrice(m), NotGiven) : m \in least}
  <2>1. Quoted(q) = Priced(all)
    BY <1>5 DEF Quoted, TicketmasterRows
  <2>2. least \subseteq Nat /\ \A m, n \in least : m = n
    BY <1>5
  <2>3. CASE least = {}
    BY <2>1, <2>3 DEF Priced, OneCall
  <2>4. CASE least # {}
    <3>1. PICK m \in least : TRUE
      BY <2>4
    <3> DEFINE b == Summary("ticketmaster", "floor", PairPrice(m), NotGiven)
    <3>2. all = {b}
      BY <3>1, <2>2
    <3>3. b.listing = Unknown
      BY <1>1
    <3> HIDE DEF all, least, b
    <3>4. Priced(all) \in SUBSET {b}
      BY <3>2 DEF Priced
    <3> QED
      BY <2>1, <3>3, <3>4, <1>2, <1>3
  <2> QED
    BY <2>3, <2>4
<1>6. CASE q \in [source : {"seatgeek"}, lowest : Amounts, average : Amounts,
                  highest : Amounts, count : Amounts]
  <2> DEFINE price == IF PairPrice(q.average) > 0 THEN PairPrice(q.average)
                      ELSE PairPrice(q.highest)
             aggregate == Summary("seatgeek", "aggregate", price, q.count)
             floor == Summary("seatgeek", "floor", PairPrice(q.lowest), NotGiven)
  <2>1. Quoted(q) = Priced({floor}) \cup (IF q.count # NotGiven THEN {aggregate}
                                           ELSE Priced({aggregate}))
    BY <1>6 DEF Quoted, SeatGeekRows
  <2>2. /\ aggregate.kind = "aggregate" /\ floor.kind = "floor"
        /\ aggregate.listing = Unknown /\ floor.listing = Unknown
    BY <1>1
  <2> HIDE DEF aggregate, floor
  <2>3. Quoted(q) \in SUBSET {aggregate, floor}
    BY <2>1 DEF Priced
  <2>4. OneCall({aggregate, floor})
    BY <2>2 DEF OneCall
  <2> QED
    BY <1>2, <2>2, <2>3, <2>4
<1> QED
  BY <1>4, <1>5, <1>6 DEF QuoteForms

RowIds == /\ \A o, r \in rows : o.id = r.id => o = r
          /\ \A o \in rows : o.id <= Cardinality(rows)

LEMMA NumberedIds ==
  ASSUME TypeOK, RowIds, NEW S, Storable(S), OneCall(S), NEW t \in Int,
         rows' = rows \cup Numbered(S, t)
  PROVE  RowIds'
<1> DEFINE new == {o \in S : ~Stored(o, t)}
           place(o) == IF o.kind = "aggregate" THEN Cardinality(new) ELSE 1
           row(o) == At(o, t, Cardinality(rows) + place(o))
           c == Cardinality(rows)
<1>1. new \subseteq S /\ Numbered(S, t) = {row(o) : o \in new}
  BY DEF Numbered
<1> HIDE DEF new
<1>2. c \in Nat /\ IsFiniteSet(rows) /\ \A o \in rows : o.id \in Nat
  BY FS_CardinalityType DEF TypeOK, Observations
<1>3. \A o \in new : row(o).id = c + place(o)
  BY <1>1 DEF Storable, At, Observations
<1>4. OneCall(new)
  BY <1>1, PartOfCall
<1>5. \A o \in rows : o.id < c + 1 /\ o.id < c + 2
  BY <1>2 DEF RowIds
<1>6. CASE new = {}
  BY <1>1, <1>6 DEF RowIds
<1>7. CASE \E b : new = {b}
  <2>1. PICK b : new = {b}
    BY <1>7
  <2> DEFINE r == row(b)
  <2>2. Cardinality(new) = 1
    BY <2>1, FS_Singleton
  <2>3. r.id = c + 1
    BY <1>3, <2>1, <2>2
  <2>4. rows' = rows \cup {r}
    BY <1>1, <2>1
  <2> HIDE DEF row, r, c
  <2>5. r \notin rows
    BY <1>2, <1>5, <2>3
  <2>6. Cardinality(rows') = c + 1
    BY <1>2, <2>4, <2>5, FS_AddElement DEF c
  <2>7. \A o \in rows' : o = r \/ (o \in rows /\ o.id < c + 1)
    BY <1>5, <2>4
  <2>8. \A o, x \in rows' : o.id = x.id => o = x
    BY <1>2, <2>3, <2>7 DEF RowIds
  <2>9. \A o \in rows' : o.id <= Cardinality(rows')
    BY <1>2, <2>3, <2>6, <2>7
  <2> QED
    BY <2>8, <2>9 DEF RowIds
<1>8. CASE \E a, b : new = {a, b} /\ a.kind = "aggregate" /\ b.kind # "aggregate"
  <2>1. PICK a, b : new = {a, b} /\ a.kind = "aggregate" /\ b.kind # "aggregate"
    BY <1>8
  <2> DEFINE r == row(a)
             s == row(b)
  <2>2. Cardinality(new) = 2
    <3>1. a # b
      BY <2>1
    <3>2. Cardinality({b}) = 1 /\ IsFiniteSet({b})
      BY FS_Singleton
    <3>3. Cardinality({b} \cup {a}) = 2
      BY <3>1, <3>2, FS_AddElement
    <3>4. {b} \cup {a} = {a, b}
      OBVIOUS
    <3> QED
      BY <2>1, <3>3, <3>4
  <2>3. r.id = c + 2 /\ s.id = c + 1
    BY <1>3, <2>1, <2>2
  <2>4. rows' = (rows \cup {s}) \cup {r}
    <3> HIDE DEF row
    <3>1. {row(o) : o \in new} = {row(a), row(b)}
      BY <2>1
    <3>2. Numbered(S, t) = {r, s}
      BY <1>1, <3>1
    <3> HIDE DEF r, s
    <3> QED
      BY <3>2
  <2> HIDE DEF row, r, s, c
  <2>5. s \notin rows /\ r \notin rows \cup {s}
    BY <1>2, <1>5, <2>3
  <2>6. Cardinality(rows \cup {s}) = c + 1 /\ IsFiniteSet(rows \cup {s})
    BY <1>2, <2>5, FS_AddElement DEF c
  <2>7. Cardinality(rows') = c + 2
    <3> DEFINE R == rows \cup {s}
    <3> HIDE DEF R
    <3>1. rows' = R \cup {r} /\ r \notin R /\ IsFiniteSet(R) /\ Cardinality(R) = c + 1
      BY <2>4, <2>5, <2>6 DEF R
    <3>2. Cardinality(rows') = Cardinality(R) + 1
      BY <3>1, FS_AddElement
    <3> QED
      BY <1>2, <3>1, <3>2
  <2>8. \A o \in rows' : o = r \/ o = s \/ (o \in rows /\ o.id < c + 1)
    BY <1>5, <2>4
  <2>9. \A o, x \in rows' : o.id = x.id => o = x
    BY <1>2, <2>3, <2>8 DEF RowIds
  <2>10. \A o \in rows' : o.id <= Cardinality(rows')
    BY <1>2, <2>3, <2>7, <2>8
  <2> QED
    BY <2>9, <2>10 DEF RowIds
<1> QED
  BY <1>4, <1>6, <1>7, <1>8 DEF OneCall

\* What a step stores, and that the clock and the settings stand meanwhile.
Stores(S, t) == /\ Storable(S) /\ OneCall(S) /\ t \in Int
                /\ rows' = rows \cup Numbered(S, t)
                /\ (\E o : S = {o}) \/ (\A o \in S : o.listing = Unknown)
                /\ UNCHANGED <<now, settings>>

LEMMA NewRows ==
  ASSUME TypeOK, [Next]_vars, rows' # rows
  PROVE  \E S, t : Stores(S, t)
<1>1. ASSUME NEW o, Named(o) PROVE Storable({o}) /\ OneCall({o})
  BY <1>1, NamedStorable DEF OneCall
<1>2. ASSUME NEW x \in Listings, Report(x) PROVE Stores({x[1]}, now + x[2])
  <2>1. Named(x[1]) /\ now + x[2] \in Int
    BY ReportsAssumption DEF TypeOK
  <2> QED
    BY <1>1, <1>2, <2>1 DEF Report, Observe, Stores
<1>3. ASSUME NEW x \in Summaries, Summarize(x) PROVE Stores(Quoted(x[1]), now + x[2])
  <2>1. x[1] \in QuoteForms /\ now + x[2] \in Int
    BY ReportsAssumption DEF TypeOK
  <2> QED
    BY <1>3, <2>1, QuotedStorable, QuotedCall DEF Summarize, Observe, Stores
<1>4. ASSUME NEW p \in Pairs, Score(p) PROVE Stores({p}, now)
  <2>1. Named(p) /\ now \in Int
    BY ReportsAssumption DEF TypeOK
  <2> QED
    BY <1>1, <1>4, <2>1 DEF Score, Stores
<1> QED
  BY <1>2, <1>3, <1>4 DEF Next, Wait, Submit, vars

LEMMA RowIdsHold == Spec => []RowIds
<1>1. Init => RowIds
  BY DEF Init, RowIds
<1>2. TypeOK /\ RowIds /\ [Next]_vars => RowIds'
  <2> SUFFICES ASSUME TypeOK, RowIds, [Next]_vars PROVE RowIds'
    OBVIOUS
  <2>1. CASE rows' = rows
    BY <2>1 DEF RowIds
  <2>2. CASE rows' # rows
    <3>1. PICK S, t : Stores(S, t)
      BY <2>2, NewRows
    <3> QED
      BY <3>1, NumberedIds DEF Stores
  <2> QED
    BY <2>1, <2>2
<1> QED
  BY <1>1, <1>2, TypeCorrect, PTL DEF Spec

\* The prices a pair is compared with are told apart by price and id.
LEMMA EvidenceApart ==
  ASSUME TypeOK, RowIds, NEW p, NEW m
  PROVE  Apart(OfMarket(p, m))
<1>1. OfMarket(p, m) \in SUBSET rows
  BY DEF OfMarket, Evidence, Comparables, Fresh
<1> QED
  BY <1>1, FS_Subset DEF TypeOK, RowIds, Apart

\* What weighted_quantile finds by adding up is the 40th percentile of the asks
\* of each marketplace, for any evidence.
THEOREM ThePercentileIsOne == Spec => []QuantileIsAQuantile
<1>1. TypeOK /\ RowIds => QuantileIsAQuantile
  <2> SUFFICES ASSUME TypeOK, RowIds, NEW p \in Pairs, NEW m \in Marketplaces,
                      OfMarket(p, m) # {}
               PROVE  LET S == OfMarket(p, m)
                          price == PriceOf(p, S)
                          weight(T) == Weight(At(p, now, 0), T)
                      IN  /\ \E o \in S : o.price = price
                          /\ 100 * weight({o \in S : o.price < price}) < 40 * weight(S)
                          /\ 100 * weight({o \in S : o.price > price}) <= 60 * weight(S)
    BY DEF QuantileIsAQuantile
  <2> QED
    BY EvidenceApart, Percentile DEF PriceOf
<1> QED
  BY <1>1, TypeCorrect, RowIdsHold, PTL

-----------------------------------------------------------------------------
(* Cheap reports                                                           *)

\* Cheap rows are added, and at most one row gives way to one of them that
\* weighs as much: the quantile does not rise.
LEMMA CheapRows ==
  ASSUME NEW p, NEW S, NEW T, Apart(S), Apart(T), S # {}, T # {},
         \A r \in T \ S : r.price <= Quantile(p, S),
         \/ S \subseteq T
         \/ \E o \in S, r \in T \ S :
              S \ {o} \subseteq T /\ RowWeight(p, o) <= RowWeight(p, r)
  PROVE  Quantile(p, T) <= Quantile(p, S)
<1> DEFINE price == Quantile(p, S)
           next == Quantile(p, T)
           LS == {o \in S : ~(o.price > price)}
           HS == {o \in S : o.price > price}
           LT == {o \in T : ~(o.price > price)}
           HT == {o \in T : o.price > price}
           BT == {o \in T : o.price < next}
<1>1. /\ price \in Nat /\ next \in Nat
      /\ 100 * Weight(p, HS) <= 60 * Weight(p, S)
      /\ 100 * Weight(p, BT) < 40 * Weight(p, T)
  BY Percentile
<1>2. /\ Weighable(p, S) /\ IsFiniteSet(S) /\ \A o \in S : o.price \in Nat
      /\ Weighable(p, T) /\ IsFiniteSet(T) /\ \A o \in T : o.price \in Nat
  BY ApartWeighs DEF Apart, Observations
<1>3. /\ LS \in SUBSET S /\ HS = S \ LS /\ LT \in SUBSET T /\ HT = T \ LT /\ BT \in SUBSET T
  OBVIOUS
<1>4. HT \in SUBSET HS
  <2> SUFFICES ASSUME NEW o \in HT PROVE o \in S
    OBVIOUS
  <2>1. o \in T /\ o.price > price
    OBVIOUS
  <2> HIDE DEF price
  <2> QED
    BY <1>1, <1>2, <2>1 DEF price
<1>5. /\ Weight(p, LS) \in Nat /\ Weight(p, HS) \in Nat
      /\ Weight(p, S) = Weight(p, LS) + Weight(p, HS)
      /\ Weight(p, LT) \in Nat /\ Weight(p, HT) \in Nat
      /\ Weight(p, T) = Weight(p, LT) + Weight(p, HT)
  <2> HIDE DEF LS, HS, LT, HT
  <2> QED
    BY <1>2, <1>3, WeightOfPart
<1>6. Weight(p, HT) <= Weight(p, HS)
  <2>1. IsFiniteSet(HS) /\ Weighable(p, HS)
    BY <1>2, <1>3, FS_Subset DEF Weighable
  <2>2. \A U \in SUBSET HS : Weight(p, HS \ U) \in Nat
                              /\ Weight(p, HS) = Weight(p, U) + Weight(p, HS \ U)
    <3> HIDE DEF HS
    <3> QED
      BY <2>1, WeightOfPart
  <2> HIDE DEF LS, HS, LT, HT
  <2>3. Weight(p, HS \ HT) \in Nat /\ Weight(p, HS) = Weight(p, HT) + Weight(p, HS \ HT)
    BY <1>4, <2>2
  <2> QED
    BY <1>5, <2>3
<1>7. IsFiniteSet(LT) /\ Weighable(p, LT) /\ IsFiniteSet(LS) /\ Weighable(p, LS)
  BY <1>2, <1>3, FS_Subset DEF Weighable
<1>8. \A U \in SUBSET LT : Weight(p, U) <= Weight(p, LT)
  <2> SUFFICES ASSUME NEW U \in SUBSET LT PROVE Weight(p, U) <= Weight(p, LT)
    OBVIOUS
  <2> HIDE DEF LT
  <2>1. Weight(p, U) \in Nat /\ Weight(p, LT \ U) \in Nat
        /\ Weight(p, LT) = Weight(p, U) + Weight(p, LT \ U)
    BY <1>7, WeightOfPart
  <2> QED
    BY <2>1
<1>9. Weight(p, LS) <= Weight(p, LT)
  <2>1. CASE S \subseteq T
    <3>1. LS \in SUBSET LT
      BY <2>1
    <3> QED
      BY <1>8, <3>1
  <2>2. CASE \E o \in S, r \in T \ S :
               S \ {o} \subseteq T /\ RowWeight(p, o) <= RowWeight(p, r)
    <3>1. PICK o \in S, r \in T \ S :
            S \ {o} \subseteq T /\ RowWeight(p, o) <= RowWeight(p, r)
      BY <2>2
    <3>2. r \in LT /\ r \notin LS
      BY <1>1, <1>2, <3>1
    <3>3. (LS \ {o}) \cup {r} \in SUBSET LT /\ r \notin LS \ {o}
      BY <3>1, <3>2
    <3>4. RowWeight(p, o) \in Nat /\ RowWeight(p, r) \in Nat
      BY <1>2 DEF Weighable
    <3> DEFINE kept == LS \ {o}
               with == kept \cup {r}
    <3>5. IsFiniteSet(kept) /\ Weighable(p, kept)
      BY <1>7, FS_Subset DEF Weighable
    <3>6. Weight(p, kept) \in Nat
      BY <3>5, WeightType
    <3>7. Weight(p, with) = RowWeight(p, r) + Weight(p, kept)
      <4>1. with \in SUBSET LT /\ with \ {r} = kept /\ r \in with
        BY <3>3
      <4>2. IsFiniteSet(with) /\ Weighable(p, with)
        <5> HIDE DEF with, LT
        <5> QED
          BY <1>7, <4>1, FS_Subset DEF Weighable
      <4> HIDE DEF with, kept
      <4> QED
        BY <4>1, <4>2, WeightWithout
    <3>8. Weight(p, with) <= Weight(p, LT)
      BY <1>8, <3>3
    <3>9. CASE o \in LS
      <4>1. Weight(p, LS) = RowWeight(p, o) + Weight(p, kept)
        BY <1>7, <3>9, WeightWithout
      <4> HIDE DEF LS, LT, with, kept
      <4> QED
        BY <1>5, <3>1, <3>4, <3>6, <3>7, <3>8, <4>1
    <3>10. CASE o \notin LS
      <4>1. kept = LS
        BY <3>10
      <4> HIDE DEF LS, LT, with, kept
      <4> QED
        BY <1>5, <3>4, <3>6, <3>7, <3>8, <4>1
    <3> QED
      BY <3>9, <3>10
  <2> QED
    BY <2>1, <2>2
<1>10. 40 * Weight(p, T) <= 100 * Weight(p, LT)
  <2> HIDE DEF LS, HS, LT, HT
  <2> QED
    BY <1>1, <1>5, <1>6, <1>9
<1>11. ASSUME next > price PROVE FALSE
  <2>1. LT \in SUBSET BT
    BY <1>1, <1>2, <1>11
  <2>2. IsFiniteSet(BT) /\ Weighable(p, BT)
    BY <1>2, <1>3, FS_Subset DEF Weighable
  <2> HIDE DEF LT, BT
  <2>3. Weight(p, BT \ LT) \in Nat /\ Weight(p, BT) = Weight(p, LT) + Weight(p, BT \ LT)
    BY <2>1, <2>2, WeightOfPart
  <2>4. Weight(p, T) \in Nat
    BY <1>2, WeightType
  <2> QED
    BY <1>1, <1>5, <1>10, <2>3, <2>4
<1> QED
  BY <1>1, <1>11

LEMMA NewerOrder ==
  ASSUME NEW o \in Observations, NEW q \in Observations, NEW r \in Observations
  PROVE  /\ ~Newer(o, o)
         /\ Newer(r, q) /\ Newer(q, o) => Newer(r, o)
         /\ o.id # q.id => Newer(o, q) \/ Newer(q, o)
<1>1. \A x \in {o, q, r} : x.at \in Int /\ x.id \in Nat
  BY DEF Observations
<1> QED
  BY <1>1 DEF Newer

\* What becomes of the evidence when rows are stored.
LEMMA EvidenceStep ==
  ASSUME TypeOK, RowIds, NEW S, NEW t, Stores(S, t), NEW p \in Pairs
  PROVE  /\ \A o \in Evidence(p)' : o \in rows => o \in Evidence(p)
         /\ \A o \in Evidence(p) \ Evidence(p)' :
              \E r \in rows' \ rows :
                /\ SameListing(o, r)
                /\ r.price > 0 => r \in Evidence(p)'
                /\ Evidence(p) \ {o} \subseteq Evidence(p)'
<1> DEFINE N == Numbered(S, t)
           pt == At(p, now, 0)
           F == Fresh(rows, now, settings.freshness)
           G == Fresh(rows', now, settings.freshness)
<1>1. /\ now' = now /\ settings' = settings /\ rows' = rows \cup N
      /\ Evidence(p) = Comparables(pt, F, now) /\ Evidence(p)' = Comparables(pt, G, now)
  BY DEF Stores, Evidence
<1>2. rows \subseteq Observations /\ rows' \subseteq Observations
  BY NumberedStorable DEF Stores, TypeOK, Storable
<1>3. F \subseteq rows /\ G \subseteq rows' /\ (\A o \in G : o \in rows <=> o \in F)
  BY <1>1 DEF Fresh
<1>4. /\ pt.source = p.source /\ pt.listing = p.listing /\ pt.kind = p.kind
  BY ReportsAssumption DEF Named, Observations, At
<1>5. IsListing(pt)
  BY <1>4, ReportsAssumption DEF Named, IsListing
<1>6. ASSUME NEW r \in N, IsListing(r), NEW q \in N PROVE q = r
  <2> DEFINE new == {o \in S : ~Stored(o, t)}
             place(o) == IF o.kind = "aggregate" THEN Cardinality(new) ELSE 1
             row(o) == At(o, t, Cardinality(rows) + place(o))
  <2>1. N = {row(o) : o \in new}
    BY DEF Numbered
  <2>2. \A o \in S : row(o).listing = o.listing
    <3> HIDE DEF place, new
    <3> QED
      BY DEF Stores, Storable, At, Observations
  <2> HIDE DEF row, N
  <2>3. PICK o \in new : r = row(o)
    BY <1>6, <2>1
  <2>4. o.listing # Unknown
    BY <1>6, <2>2, <2>3 DEF IsListing
  <2>5. \E x : S = {x}
    BY <2>3, <2>4 DEF Stores
  <2> QED
    BY <1>6, <2>1, <2>3, <2>5
<1>7. ASSUME NEW o \in Comparables(pt, G, now), o \in rows
      PROVE  o \in Comparables(pt, F, now)
  <2>1. ~Hidden(o, F)
    BY <1>1, <1>7 DEF Comparables, Hidden, Fresh
  <2> QED
    BY <1>3, <1>7, <2>1 DEF Comparables
<1> HIDE DEF pt, F, G, N
<1>8. ASSUME NEW o \in Comparables(pt, F, now), o \notin Comparables(pt, G, now)
      PROVE  \E r \in rows' \ rows : r \in G /\ r \in N /\ SameListing(o, r) /\ Newer(r, o)
  <2>1. o \in F /\ o \in G /\ ~Hidden(o, F)
    BY <1>1, <1>8 DEF Comparables, Fresh, F, G
  <2>2. Hidden(o, G)
    BY <1>8, <2>1 DEF Comparables
  <2>3. PICK r \in G : SameListing(o, r) /\ Newer(r, o)
    BY <2>2 DEF Hidden
  <2>4. r \notin F
    BY <2>1, <2>3 DEF Hidden
  <2> QED
    BY <1>1, <1>3, <2>3, <2>4
<1>9. ASSUME NEW o \in Comparables(pt, F, now),
             NEW r \in rows' \ rows, r \in G, r \in N, SameListing(o, r), Newer(r, o),
             r.price > 0
      PROVE  r \in Comparables(pt, G, now)
  <2>1. o \in F /\ ~SameListing(pt, o) /\ ~Hidden(o, F) /\ o \in Observations
    BY <1>2, <1>3 DEF Comparables
  <2>2. ~SameListing(pt, r)
    BY <1>9, <2>1 DEF SameListing
  <2>3. ~SameSnapshot(pt, r)
    BY <1>5, <1>9, <2>2 DEF SameSnapshot, SameListing
  <2>4. Within(r, now, MaxAge)
    <3>1. settings.freshness \in Int /\ settings.freshness <= MaxAge /\ MaxAge \in Int
      BY RangeBounds DEF TypeOK, MaxAge, Hour
    <3>2. Age(r, now) \in Int
      BY <1>2 DEF Age, TypeOK, Observations
    <3>3. Within(r, now, settings.freshness)
      BY <1>9 DEF G, Fresh
    <3> QED
      BY <3>1, <3>2, <3>3 DEF Within
  <2>5. ASSUME NEW q \in G, SameListing(r, q), Newer(q, r) PROVE FALSE
    <3>1. r \in Observations /\ q \in Observations
      BY <1>2, <1>3
    <3>2. CASE q \in rows
      <4>1. q \in F /\ SameListing(o, q)
        BY <1>3, <1>9, <2>5, <3>2 DEF SameListing
      <4>2. Newer(q, o)
        BY <1>9, <2>1, <2>5, <3>1, NewerOrder
      <4> QED
        BY <2>1, <4>1, <4>2 DEF Hidden
    <3>3. CASE q \notin rows
      <4>1. q \in N
        BY <1>1, <1>3, <3>3
      <4>2. q = r
        BY <1>6, <1>9, <4>1 DEF SameListing
      <4> QED
        BY <2>5, <3>1, <4>2, NewerOrder
    <3> QED
      BY <3>2, <3>3
  <2>6. ~Hidden(r, G)
    BY <2>5 DEF Hidden
  <2> QED
    BY <1>9, <2>2, <2>3, <2>4, <2>6 DEF Comparables
<1>10. ASSUME NEW o \in Comparables(pt, F, now), o \notin Comparables(pt, G, now),
              NEW x \in Comparables(pt, F, now), x \notin Comparables(pt, G, now)
       PROVE  x = o
  <2>1. PICK r \in N : SameListing(o, r)
    BY <1>8, <1>10
  <2>2. PICK s \in N : SameListing(x, s)
    BY <1>8, <1>10
  <2>3. s = r
    BY <1>6, <2>1, <2>2 DEF SameListing
  <2>4. SameListing(o, x) /\ SameListing(x, o)
    BY <2>1, <2>2, <2>3 DEF SameListing
  <2>5. o \in F /\ x \in F /\ ~Hidden(o, F) /\ ~Hidden(x, F)
    BY DEF Comparables
  <2>6. ~Newer(o, x) /\ ~Newer(x, o)
    BY <2>4, <2>5 DEF Hidden
  <2>7. o.id = x.id
    BY <1>2, <1>3, <2>5, <2>6, NewerOrder
  <2> QED
    BY <1>3, <2>5, <2>7 DEF RowIds
<1>11. ASSUME NEW o \in Evidence(p) \ Evidence(p)'
       PROVE  \E r \in rows' \ rows :
                /\ SameListing(o, r)
                /\ r.price > 0 => r \in Evidence(p)'
                /\ Evidence(p) \ {o} \subseteq Evidence(p)'
  <2>1. o \in Comparables(pt, F, now) /\ o \notin Comparables(pt, G, now)
    BY <1>1, <1>11
  <2>2. PICK r \in rows' \ rows : r \in G /\ r \in N /\ SameListing(o, r) /\ Newer(r, o)
    BY <1>8, <2>1
  <2>3. r.price > 0 => r \in Evidence(p)'
    BY <1>1, <1>9, <2>1, <2>2
  <2>4. Evidence(p) \ {o} \subseteq Evidence(p)'
    BY <1>1, <1>10, <2>1
  <2> QED
    BY <2>2, <2>3, <2>4
<1> QED
  BY <1>1, <1>7, <1>11

\* Cheap reports do not raise the price of their marketplace, and no report
\* moves the price of another: for any rows, listings and pairs.
THEOREM CheapReportsKeepPricesDown == Spec => CheapReportsNeverRaisePrices
<1> DEFINE New(m) == {r \in rows' \ rows : r.source = m}
           Holds(p, m) ==
             LET new == {r \in rows' \ rows : r.source = m}
                 S == OfMarket(p, m)
                 T == OfMarket(p, m)'
                 price == PriceOf(p, S)
             IN  (S # {} /\ T # {}) =>
                   IF new = {} THEN PriceOf(p, T) = price
                   ELSE (\A r \in new : r.price \in 1..price /\ NoCloser(p, r, S))
                          => PriceOf(p, T) <= price
<1>1. ASSUME TypeOK, RowIds, TypeOK', RowIds', [Next]_vars, rows' # rows,
             NEW p \in Pairs, NEW m \in Marketplaces
      PROVE  Holds(p, m)
  <2>1. PICK S0, t : Stores(S0, t)
    BY <1>1, NewRows
  <2> DEFINE S == OfMarket(p, m)
             T == OfMarket(p, m)'
             pt == At(p, now, 0)
  <2>2. now' = now
    BY <2>1 DEF Stores
  <2>3. /\ S = {o \in Evidence(p) : o.source = m}
        /\ T = {o \in Evidence(p)' : o.source = m}
    BY DEF OfMarket
  <2>4. Evidence(p) \subseteq rows /\ Evidence(p)' \subseteq rows'
    BY DEF Evidence, Comparables, Fresh
  <2>5. /\ \A o \in Evidence(p)' : o \in rows => o \in Evidence(p)
        /\ \A o \in Evidence(p) \ Evidence(p)' :
             \E r \in rows' \ rows :
               /\ SameListing(o, r)
               /\ r.price > 0 => r \in Evidence(p)'
               /\ Evidence(p) \ {o} \subseteq Evidence(p)'
    BY <1>1, <2>1, EvidenceStep
  <2>6. T \ S \subseteq New(m)
    BY <2>3, <2>4, <2>5
  <2>7. ASSUME NEW o \in S \ T
        PROVE  \E r \in New(m) : /\ SameListing(o, r)
                                 /\ r.price > 0 => r \in T \ S
                                 /\ S \ {o} \subseteq T
    <3>1. o \in Evidence(p) \ Evidence(p)' /\ o.source = m
      BY <2>3, <2>7
    <3>2. PICK r \in rows' \ rows : /\ SameListing(o, r)
                                    /\ r.price > 0 => r \in Evidence(p)'
                                    /\ Evidence(p) \ {o} \subseteq Evidence(p)'
      BY <2>5, <3>1
    <3>3. r \in New(m)
      BY <3>1, <3>2 DEF SameListing
    <3>4. r.price > 0 => r \in T \ S
      BY <2>3, <2>4, <3>2, <3>3
    <3> QED
      BY <2>3, <3>2, <3>3, <3>4
  <2>8. CASE New(m) = {}
    <3>1. S = T
      BY <2>6, <2>7, <2>8
    <3> QED
      BY <2>8, <3>1
  <2>9. ASSUME New(m) # {}, S # {}, T # {},
               \A r \in New(m) : r.price \in 1..PriceOf(p, S) /\ NoCloser(p, r, S)
        PROVE  PriceOf(p, T) <= PriceOf(p, S)
    <3>1. Apart(S)
      BY <1>1, EvidenceApart
    <3>2. Apart(T)
      <4>1. T \in SUBSET rows'
        BY <2>3, <2>4
      <4>2. IsFiniteSet(rows') /\ rows' \subseteq Observations
            /\ \A o, r \in rows' : o.id = r.id => o = r
        BY <1>1 DEF TypeOK, RowIds
      <4> HIDE DEF T
      <4> QED
        BY <4>1, <4>2, FS_Subset DEF Apart
    <3>3. PriceOf(p, S) = Quantile(pt, S) /\ PriceOf(p, T) = Quantile(pt, T)
      BY DEF PriceOf
    <3>4. Quantile(pt, S) \in Nat
      <4> HIDE DEF pt, S
      <4> QED
        BY <2>9, <3>1, Percentile
    <3>5. \A r \in New(m) : r.price \in Nat /\ r.price > 0 /\ r.price <= Quantile(pt, S)
      <4> HIDE DEF pt, S, New
      <4> QED
        BY <2>9, <3>3, <3>4
    <3>6. \A r \in T \ S : r.price <= Quantile(pt, S)
      BY <2>6, <3>5
    <3>7. ASSUME NEW o \in S \ T
          PROVE  \E r \in T \ S : S \ {o} \subseteq T /\ RowWeight(pt, o) <= RowWeight(pt, r)
      <4>1. PICK r \in New(m) : /\ SameListing(o, r)
                                /\ r.price > 0 => r \in T \ S
                                /\ S \ {o} \subseteq T
        BY <2>7, <3>7
      <4>2. r \in T \ S
        BY <3>5, <4>1
      <4>3. Relevance(p, o) <= Relevance(p, r)
        BY <2>9, <3>7, <4>1 DEF NoCloser
      <4>4. pt.section = p.section /\ pt.row = p.row
        BY ReportsAssumption DEF Named, Observations, At
      <4>5. Relevance(pt, o) = Relevance(p, o) /\ Relevance(pt, r) = Relevance(p, r)
        <5> HIDE DEF pt
        <5> QED
          BY <4>4 DEF Relevance, SameSection, SameRow
      <4>6. o.kind = "listing" /\ r.kind = "listing"
        BY <4>1 DEF SameListing, IsListing
      <4>7. Relevance(pt, o) \in Nat /\ Relevance(pt, r) \in Nat
        <5> HIDE DEF pt
        <5> QED
          BY <4>6 DEF Relevance, Elsewhere
      <4>8. RowWeight(pt, o) <= RowWeight(pt, r)
        <5>1. RowWeight(pt, o) = Relevance(pt, o) * 100 /\ RowWeight(pt, r) = Relevance(pt, r) * 100
          BY <4>6 DEF RowWeight, Quality
        <5> HIDE DEF pt
        <5> QED
          BY <4>3, <4>5, <4>7, <5>1
      <4> QED
        BY <4>1, <4>2, <4>8
    <3>8. \/ S \subseteq T
          \/ \E o \in S, r \in T \ S :
               S \ {o} \subseteq T /\ RowWeight(pt, o) <= RowWeight(pt, r)
      BY <3>7
    <3> HIDE DEF S, T, pt
    <3>9. Quantile(pt, T) <= Quantile(pt, S)
      BY <2>9, <3>1, <3>2, <3>6, <3>8, CheapRows
    <3> QED
      BY <3>3, <3>9
  <2> QED
    BY <2>8, <2>9
<1>2. TypeOK /\ RowIds /\ TypeOK' /\ RowIds' /\ [Next]_vars
        => [rows' # rows => \A p \in Pairs, m \in Marketplaces : Holds(p, m)]_vars
  BY <1>1
<1> HIDE DEF Holds
<1>3. Spec => [][rows' # rows => \A p \in Pairs, m \in Marketplaces : Holds(p, m)]_vars
  BY <1>2, TypeCorrect, RowIdsHold, PTL DEF Spec
<1> QED
  BY <1>3 DEF Holds, CheapReportsNeverRaisePrices

-----------------------------------------------------------------------------
(* The profit an alert promises                                            *)

\* What is at most a whole number is not rounded past it.
LEMMA RoundBelow ==
  ASSUME NEW n \in Int, NEW k \in Int, NEW d \in Int, d > 0, n <= k * d
  PROVE  RoundHalfUp(n, d) <= k
<1>1. CASE n >= 0
  <2> DEFINE q == (2 * n + d) \div (2 * d)
  <2>1. q \in Int /\ (2 * d) * q <= 2 * n + d
    OBVIOUS
  <2> HIDE DEF q
  <2>2. (2 * d) * q < (2 * d) * (k + 1)
    BY <2>1
  <2>3. q < k + 1
    BY <2>1, <2>2
  <2>4. RoundHalfUp(n, d) = q
    BY <1>1 DEF RoundHalfUp, q
  <2> QED
    BY <2>1, <2>3, <2>4
<1>2. CASE ~(n >= 0)
  <2> DEFINE q == (d - 2 * n) \div (2 * d)
  <2>1. q \in Int /\ d - 2 * n < (2 * d) * (q + 1)
    OBVIOUS
  <2> HIDE DEF q
  <2>2. (2 * d) * (-k) < (2 * d) * (q + 1)
    BY <2>1
  <2>3. -k < q + 1
    BY <2>1, <2>2
  <2>4. RoundHalfUp(n, d) = -q
    BY <1>2 DEF RoundHalfUp, q
  <2> QED
    BY <2>1, <2>3, <2>4
<1> QED
  BY <1>1, <1>2

\* A haircut leaves an amount that is at most the price.
LEMMA HaircutType ==
  ASSUME NEW price \in Nat, NEW sparse, NEW times \in 0..3
  PROVE  /\ Reduced(price, sparse, times) \in Nat
         /\ Reduced(price, sparse, times) <= price
<1> DEFINE part == IF sparse THEN 9 ELSE 10
<1>1. \E up, down \in Nat : 0 < up /\ up <= down /\ 19 ^ times = up /\ 20 ^ times = down
  <2>1. 19 ^ 0 = 1 /\ 20 ^ 0 = 1 /\ 19 ^ 1 = 19 /\ 20 ^ 1 = 20
    OBVIOUS
  <2>2. 19 ^ 2 = 19 * 19 /\ 20 ^ 2 = 20 * 20
    OBVIOUS
  <2>3. 19 ^ 3 = 19 * 19 * 19 /\ 20 ^ 3 = 20 * 20 * 20
    OBVIOUS
  <2>4. CASE times = 0
    BY <2>1, <2>4
  <2>5. CASE times = 1
    BY <2>1, <2>5
  <2>6. CASE times = 2
    BY <2>2, <2>6
  <2>7. CASE times = 3
    BY <2>3, <2>7
  <2> QED
    BY <2>4, <2>5, <2>6, <2>7
<1>2. PICK up, down \in Nat : 0 < up /\ up <= down /\ 19 ^ times = up /\ 20 ^ times = down
  BY <1>1
<1>3. part \in Nat /\ part <= 10
  OBVIOUS
<1>4. Reduced(price, sparse, times) = RoundHalfUp(price * part * up, 10 * down)
  BY <1>2 DEF Reduced
<1> HIDE DEF part
<1>5. 10 * down \in Int /\ 10 * down > 0
  BY <1>2
<1>6. part * up \in Nat /\ part * up <= 10 * down
  BY <1>2, <1>3
<1>7. price * part * up = price * (part * up)
  BY <1>2, <1>3
<1> DEFINE kept == part * up
           all == 10 * down
<1> HIDE DEF kept, all
<1>8. kept \in Nat /\ all \in Nat /\ all > 0 /\ kept <= all
  BY <1>5, <1>6, <1>2 DEF kept, all
<1>9. price * kept \in Nat /\ price * kept <= price * all
  BY <1>8
<1>10. Reduced(price, sparse, times) = RoundHalfUp(price * kept, all)
  BY <1>4, <1>7 DEF kept, all
<1> DEFINE n == price * kept
<1> HIDE DEF n
<1>11. n \in Nat /\ n <= price * all
  BY <1>9 DEF n
<1>12. RoundHalfUp(n, all) \in Nat
  BY <1>8, <1>11, RoundOfNat
<1>13. RoundHalfUp(n, all) <= price
  BY <1>8, <1>11, RoundBelow
<1> QED
  BY <1>10, <1>12, <1>13 DEF n

LEMMA FivePercentsType ==
  ASSUME NEW S, NEW rs, NEW t, NEW kickoff
  PROVE  FivePercents(S, rs, t, kickoff) \in 0..3
<1>1. \A c : One(c) \in {0, 1}
  BY DEF One
<1>2. \A a, b, c \in {0, 1} : a + b + c \in 0..3
  OBVIOUS
<1> QED
  BY <1>1, <1>2 DEF FivePercents

\* Among marketplaces with evidence one gives the most, the first by name of
\* those that give as much.
LEMMA SomeExitIsBest ==
  ASSUME NEW exits \in SUBSET Marketplaces, exits # {},
         NEW proceeds, \A m \in exits : proceeds[m] \in Int
  PROVE  BestExit(exits, proceeds) \in exits
<1> DEFINE place(m) == Precedence[m]
           beats(m, n) == \/ proceeds[m] > proceeds[n]
                          \/ proceeds[m] = proceeds[n] /\ place(m) <= place(n)
<1>1. \A m \in Marketplaces : place(m) \in Nat
  BY DEF Marketplaces, Precedence
<1> HIDE DEF place
<1>2. \A m, n \in exits : beats(m, n) \/ beats(n, m)
  BY <1>1
<1>3. \A l, m, n \in exits : beats(l, m) /\ beats(m, n) => beats(l, n)
  BY <1>1
<1> HIDE DEF beats
<1>4. \E m \in exits : \A n \in exits : beats(m, n)
  <2>1. PICK a, b, c : Marketplaces = {a, b, c}
    BY DEF Marketplaces
  <2>2. \A m \in exits : m = a \/ m = b \/ m = c
    BY <2>1
  <2> QED
    BY <2>2, <1>2, <1>3
<1>5. BestExit(exits, proceeds) = CHOOSE m \in exits : \A n \in exits : beats(m, n)
  BY DEF BestExit, beats, place
<1> QED
  BY <1>4, <1>5

\* The profit of a pair is an amount, and if the pair is actionable a comparable
\* of the recommended marketplace asks for it: nothing is added to a price on
\* the way from the rows to the profit.
LEMMA ProfitOf ==
  ASSUME NEW pair, Acquisition(pair) \in Int, NEW rs, NEW t, NEW kickoff,
         NEW s, s.fee \in [Marketplaces -> Int], Apart(Comparables(pair, rs, t))
  PROVE  LET worth == Estimate(pair, rs, t, kickoff, s)
         IN  /\ worth.profit \in Int
             /\ worth.actionable =>
                  \E o \in Comparables(pair, rs, t) :
                    /\ o.source = worth.exit
                    /\ worth.profit <= o.price - Acquisition(pair)
<1> DEFINE S == Comparables(pair, rs, t)
           exits == Exits(S, s.fee)
           gross == [m \in exits |->
                       Reduced(Quantile(pair, {o \in S : o.source = m}), Sparse(S),
                               FivePercents(S, rs, t, kickoff))]
           proceeds == [m \in exits |-> Proceeds(gross[m], s.fee[m])]
           best == BestExit(exits, proceeds)
           profit == IF best = None THEN 0 ELSE proceeds[best] - Acquisition(pair)
           worth == Estimate(pair, rs, t, kickoff, s)
           paid(m) == \E o \in S : o.source = m /\ proceeds[m] <= o.price
<1>1. /\ worth.profit = profit /\ worth.exit = best
      /\ worth.actionable => best # None
  <2>1. worth.profit = profit
    BY DEF Estimate
  <2>2. worth.exit = best
    BY DEF Estimate
  <2>3. worth.actionable = (Eligible(pair, s.cap) /\ best # None)
    BY DEF Estimate
  <2> QED
    BY <2>1, <2>2, <2>3
<1>2. exits \in SUBSET Marketplaces
  BY DEF Exits
<1>3. ASSUME NEW m \in exits PROVE proceeds[m] \in Int /\ paid(m)
  <2> DEFINE T == {o \in S : o.source = m}
             times == FivePercents(S, rs, t, kickoff)
             price == Quantile(pair, T)
  <2>1. T # {}
    BY DEF Exits
  <2>2. Apart(T)
    <3> HIDE DEF S
    <3>1. T \in SUBSET S
      OBVIOUS
    <3> QED
      BY <3>1, ApartPart DEF S
  <2>3. Quantile(pair, T) \in Nat /\ \E o \in T : o.price = Quantile(pair, T)
    <3> HIDE DEF T
    <3> QED
      BY <2>1, <2>2, Percentile
  <2>4. times \in 0..3
    BY FivePercentsType
  <2>5. gross[m] = Reduced(price, Sparse(S), times)
    OBVIOUS
  <2>6. s.fee[m] \in 0..100
    BY DEF Exits
  <2>7. PICK o \in S : o.source = m /\ o.price = price
    BY <2>3
  <2> HIDE DEF S, T, times, price
  <2>8. gross[m] \in Nat /\ gross[m] <= price /\ price \in Nat
    <3>1. price \in Nat
      BY <2>3 DEF price
    <3> QED
      BY <3>1, <2>4, <2>5, HaircutType
  <2>9. proceeds[m] = RoundHalfUp(gross[m] * (100 - s.fee[m]), 100)
    BY DEF Proceeds
  <2> HIDE DEF gross, exits
  <2>10. \A g \in Nat, f \in 0..100 : g * (100 - f) \in Int /\ g * (100 - f) <= g * 100
    OBVIOUS
  <2>11. proceeds[m] \in Int /\ proceeds[m] <= gross[m]
    <3> DEFINE net == gross[m] * (100 - s.fee[m])
    <3>1. net \in Int /\ net <= gross[m] * 100
      BY <2>6, <2>8, <2>10
    <3> HIDE DEF net, proceeds
    <3>2. RoundHalfUp(net, 100) \in Int
      BY <3>1, RoundType
    <3>3. RoundHalfUp(net, 100) <= gross[m]
      <4> DEFINE paidIn == gross[m]
      <4>1. paidIn \in Int /\ net \in Int /\ net <= paidIn * 100
        BY <2>8, <3>1
      <4> HIDE DEF paidIn
      <4>2. RoundHalfUp(net, 100) <= paidIn
        BY <4>1, RoundBelow
      <4> QED
        BY <4>2 DEF paidIn
    <3> QED
      BY <2>9, <3>2, <3>3 DEF net
  <2> HIDE DEF proceeds
  <2>12. proceeds[m] <= price
    BY <2>8, <2>11
  <2> QED
    BY <2>7, <2>11, <2>12
<1> HIDE DEF proceeds, exits
<1>4. CASE exits = {}
  <2>1. best = None
    BY <1>4 DEF BestExit
  <2> QED
    BY <1>1, <2>1
<1>5. CASE exits # {}
  <2>1. best \in exits
    BY <1>2, <1>3, <1>5, SomeExitIsBest
  <2>2. None \notin Marketplaces
    BY DEF None, Marketplaces
  <2> HIDE DEF best
  <2>3. best # None
    BY <1>2, <2>1, <2>2
  <2>4. proceeds[best] \in Int
    BY <1>3, <2>1
  <2>5. profit \in Int
    BY <2>4
  <2>6. PICK o \in S : o.source = best /\ proceeds[best] <= o.price
    BY <1>3, <2>1
  <2>7. o.price \in Int
    BY DEF Apart, Observations
  <2>8. profit <= o.price - Acquisition(pair)
    <3> HIDE DEF S
    <3> QED
      BY <2>3, <2>4, <2>6, <2>7
  <2> HIDE DEF profit, worth, S
  <2>9. worth.profit \in Int
    BY <1>1, <2>5
  <2>10. o.source = worth.exit /\ worth.profit <= o.price - Acquisition(pair)
    BY <1>1, <2>6, <2>8
  <2> QED
    BY <2>6, <2>9, <2>10 DEF worth, S
<1> QED
  BY <1>4, <1>5

\* An actionable pair was scored with a profit that is an amount.
ProfitKnown == scored.worth.actionable => scored.worth.profit \in Int

\* What backs the profit of worth among the rows rs, which the pair's is one of.
Backing(worth, rs, t) ==
  {o \in rs : /\ o.source = worth.exit
              /\ Within(o, t, MaxAge)
              /\ worth.profit <= o.price - worth.acquisition}

\* A row that counts is not superseded: the later reports of its listing are as
\* fresh as it is, so that they would hide it, or stamped ahead of the clock.
LEMMA CountsAndStands ==
  ASSUME TypeOK, TypeOK', NEW pair, NEW o,
         o \in Comparables(pair, Fresh(rows', now, settings.freshness), now)
  PROVE  ~Superseded(o, rows') /\ ~SameListing(pair, o) /\ o \in rows'
<1> DEFINE fresh == Fresh(rows', now, settings.freshness)
<1>1. o \in fresh /\ ~Hidden(o, fresh) /\ ~SameListing(pair, o)
  BY DEF Comparables
<1>2. /\ o \in rows' /\ Within(o, now, settings.freshness)
      /\ settings.freshness \in Int /\ now \in Int
      /\ \A r \in rows' : r.at \in Int
  BY <1>1 DEF Fresh, TypeOK, Settings, Observations
<1>3. ASSUME NEW r \in rows', SameListing(o, r), Newer(r, o), Age(r, now) >= -ClockSkew
      PROVE  FALSE
  <2>1. Age(r, now) <= settings.freshness
    BY <1>2, <1>3 DEF Newer, Within, Age
  <2>2. r \in fresh
    BY <1>3, <2>1 DEF Fresh, Within
  <2> QED
    BY <1>1, <1>3, <2>2 DEF Hidden
<1> QED
  BY <1>1, <1>2, <1>3 DEF Superseded

LEMMA ScoreOf ==
  ASSUME TypeOK, TypeOK', RowIds', NEW p \in Pairs, Score(p)
  PROVE  LET worth == Worth(p, rows', now, settings)
         IN  /\ worth.profit \in Int
             /\ worth.actionable =>
                  \E o \in Backing(worth, rows', now) :
                    /\ \A pair \in rows' \ rows : ~SameListing(pair, o)
                    /\ ~Superseded(o, rows')
<1> DEFINE seen == At(p, now, 0)
           fresh == Fresh(rows', now, settings.freshness)
           worth == Worth(p, rows', now, settings)
           S == Comparables(seen, fresh, now)
<1>1. /\ worth = Estimate(seen, fresh, now, Kickoff, settings)
      /\ worth.acquisition = Acquisition(seen)
  BY DEF Worth, Estimate
<1>2. Acquisition(seen) \in Int
  <2>1. /\ seen.price = p.price /\ seen.fees = p.fees /\ seen.tax = p.tax
        /\ p.price \in Nat /\ p.fees \in Amounts /\ p.tax \in Amounts
    BY ReportsAssumption DEF Named, Observations, At
  <2> HIDE DEF seen
  <2>2. \A a \in Amounts : Known(a) \in Int
    BY DEF Known, Amounts
  <2>3. Known(seen.fees) \in Int /\ Known(seen.tax) \in Int
    BY <2>1, <2>2
  <2> QED
    BY <2>1, <2>3 DEF Acquisition
<1>3. settings.fee \in [Marketplaces -> Int]
  BY DEF TypeOK, Settings
<1>4. /\ S \in SUBSET rows'
      /\ \A o \in S : Within(o, now, MaxAge)
  BY DEF Comparables, Fresh
<1>5. Apart(S)
  <2>1. IsFiniteSet(rows') /\ rows' \subseteq Observations
    BY DEF TypeOK
  <2>2. \A o, r \in rows' : o.id = r.id => o = r
    BY DEF RowIds
  <2> HIDE DEF S
  <2> QED
    BY <1>4, <2>1, <2>2, FS_Subset DEF Apart
<1>6. \A o \in S : ~Superseded(o, rows') /\ ~SameListing(seen, o)
  BY CountsAndStands
<1>7. ASSUME NEW pair \in rows' \ rows, NEW o, ~SameListing(seen, o)
      PROVE  ~SameListing(pair, o)
  <2>1. pair \in Numbered({p}, now)
    BY DEF Score
  <2>2. PICK id : pair = At(p, now, id)
    BY <2>1 DEF Numbered
  <2>3. /\ pair.kind = p.kind /\ pair.listing = p.listing /\ pair.source = p.source
        /\ seen.kind = p.kind /\ seen.listing = p.listing /\ seen.source = p.source
    BY <2>2, ReportsAssumption DEF Named, Observations, At
  <2> HIDE DEF seen
  <2> QED
    BY <1>7, <2>3 DEF SameListing, IsListing
<1> HIDE DEF seen, fresh, worth
<1>8. /\ worth.profit \in Int
      /\ worth.actionable => \E o \in S : /\ o.source = worth.exit
                                          /\ worth.profit <= o.price - Acquisition(seen)
  BY <1>1, <1>2, <1>3, <1>5, ProfitOf
<1> HIDE DEF S
<1>9. ASSUME worth.actionable
      PROVE  \E o \in Backing(worth, rows', now) :
               /\ \A pair \in rows' \ rows : ~SameListing(pair, o)
               /\ ~Superseded(o, rows')
  <2>1. PICK o \in S : /\ o.source = worth.exit
                       /\ worth.profit <= o.price - Acquisition(seen)
    BY <1>8, <1>9
  <2>2. o \in Backing(worth, rows', now)
    BY <1>1, <1>4, <2>1 DEF Backing
  <2>3. \A pair \in rows' \ rows : ~SameListing(pair, o)
    BY <1>6, <1>7, <2>1
  <2> QED
    BY <1>6, <2>1, <2>2, <2>3
<1> QED
  BY <1>8, <1>9 DEF worth

\* What a step does to the last opportunity.
LEMMA ScoredStep ==
  ASSUME TypeOK, TypeOK', RowIds', [Next]_vars, scored' # scored
  PROVE  /\ scored'.worth.actionable /\ scored'.worth.profit \in Int
         /\ \E o \in Backing(scored'.worth, rows', now) :
              /\ \A pair \in rows' \ rows : ~SameListing(pair, o)
              /\ ~Superseded(o, rows')
<1>1. PICK p \in Pairs : Score(p)
  BY DEF Next, Report, Summarize, Observe, Wait, Submit, vars
<1> DEFINE worth == Worth(p, rows', now, settings)
<1>2. scored' = IF worth.actionable THEN [at |-> now, worth |-> worth] ELSE scored
  BY <1>1 DEF Score
<1>3. /\ worth.profit \in Int
      /\ worth.actionable =>
           \E o \in Backing(worth, rows', now) :
             /\ \A pair \in rows' \ rows : ~SameListing(pair, o)
             /\ ~Superseded(o, rows')
  BY <1>1, ScoreOf
<1> HIDE DEF worth
<1>4. worth.actionable /\ scored'.worth = worth
  BY <1>2
<1> QED
  BY <1>3, <1>4

LEMMA Profits == Spec => []ProfitKnown
<1>1. Init => ProfitKnown
  BY DEF Init, NotScored, ProfitKnown
<1>2. TypeOK /\ TypeOK' /\ RowIds' /\ ProfitKnown /\ [Next]_vars => ProfitKnown'
  <2>1. ASSUME ProfitKnown, scored' = scored PROVE ProfitKnown'
    BY <2>1 DEF ProfitKnown
  <2> QED
    BY <2>1, ScoredStep DEF ProfitKnown
<1> QED
  BY <1>1, <1>2, TypeCorrect, RowIdsHold, PTL DEF Spec

\* estimate_opportunity: the profit an alert promises is asked for by somebody who
\* still asks it, and not by the seller of the pair.
THEOREM ProfitsAreBacked == Spec => PromisesAreBacked
<1> DEFINE Ask == \E o \in rows' :
                    /\ o.source = scored'.worth.exit
                    /\ Within(o, now, MaxAge)
                    /\ scored'.worth.profit <= o.price - scored'.worth.acquisition
                    /\ \A pair \in rows' \ rows : ~SameListing(pair, o)
                    /\ ~Superseded(o, rows')
<1>1. TypeOK /\ TypeOK' /\ RowIds' /\ [Next]_vars => [scored' # scored => Ask]_vars
  BY ScoredStep DEF Backing
<1> HIDE DEF Ask
<1>2. Spec => [][scored' # scored => Ask]_vars
  BY <1>1, TypeCorrect, RowIdsHold, PTL DEF Spec
<1> QED
  BY <1>2 DEF Ask, PromisesAreBacked

\* Whatever the user sends and whenever, an alert is for a pair of at most $400
\* that was scored less than a day ago with at least $50 of profit: the limits
\* the alert was judged by are those in force, and what it was judged on is the
\* amount the estimate found.
THEOREM HardLimits == Spec => []HardLimitsHold
<1>1. LimitsInForce /\ ProfitKnown => HardLimitsHold
  <2> SUFFICES ASSUME LimitsInForce, ProfitKnown, Alerted
               PROVE  /\ scored.worth.acquisition <= BudgetLimit
                      /\ scored.worth.profit >= LeastThreshold
                      /\ now - scored.at <= 24 * Hour
    BY DEF HardLimitsHold
  <2>1. /\ scored.worth.acquisition \in 1..BudgetLimit
        /\ now - scored.at <= 24 * Hour
    BY DEF LimitsInForce
  <2>2. PICK threshold \in Int :
          threshold >= LeastThreshold /\ scored.worth.profit >= threshold
    BY DEF LimitsInForce
  <2>3. scored.worth.profit \in Int
    BY DEF ProfitKnown, Alerted
  <2>4. scored.worth.profit >= LeastThreshold
    BY <2>2, <2>3 DEF LeastThreshold, Dollar
  <2>5. scored.worth.acquisition <= BudgetLimit
    <3>1. BudgetLimit \in Int
      BY DEF BudgetLimit, Dollar
    <3>2. \A a \in 1..BudgetLimit : a <= BudgetLimit
      BY <3>1
    <3> QED
      BY <2>1, <3>2
  <2> QED
    BY <2>1, <2>4, <2>5
<1> QED
  BY <1>1, Profits, AlertsKeepTheLimits, PTL
=============================================================================
