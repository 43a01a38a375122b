------------------------------ MODULE Valuation ------------------------------
(***************************************************************************)
(* How the worth of a pair moves while the sources report (add_with_status *)
(* of data/repositories.py), time passes and the user changes the settings *)
(* (SettingRepository, POST /settings): a pair is scored with the rows,    *)
(* the clock and the settings of that moment, and its alert is decided     *)
(* later with those of a later moment (AlertPolicy).                       *)
(*                                                                         *)
(* A connector stamps what it fetches when it fetches it, and its scan     *)
(* reads the clock for the scoring after that.  A row is stamped after now *)
(* when the other thread stored it since, or the clock was set back.  The  *)
(* scan takes listings from any source that gives them (LISTING_DETAIL);   *)
(* the connectors of this version only give summaries.  A source knows the *)
(* game by one id: in the code that id is part of what tells snapshots and *)
(* listings apart, and it is left out here.                                *)
(***************************************************************************)
EXTENDS Quotes

CONSTANTS
  Teams,         \* whose home game it may be
  Listings,      \* listings a source may give that nobody can buy, and how many
                 \* minutes after now they are stamped
  Summaries,     \* quotes a source may give, and minutes
  Waits,         \* how long may pass between two steps, in minutes
  Pairs,         \* pairs for sale
  Kickoff,       \* when the game starts
  Base,          \* the settings the application was started with
  Submissions,   \* what the user may send
  MaxRows, MaxNow

\* What a connector or the form gives as a listing has an identity.
Named(o) == o \in Observations /\ IsListing(o)
QuoteForms == [source : {"stubhub"}, lowest : Amounts]
                \cup [source : {"ticketmaster"}, minima : SUBSET Nat]
                \cup [source : {"seatgeek"}, lowest : Amounts, average : Amounts,
                      highest : Amounts, count : Amounts]
Settings == [cap : Int, threshold : Int, freshness : Int, fee : [Marketplaces -> Int]]

ASSUME ReportsAssumption ==
  /\ \A x \in Listings : x = <<x[1], x[2]>> /\ Named(x[1]) /\ x[2] \in Int
  /\ \A x \in Summaries : x = <<x[1], x[2]>> /\ x[1] \in QuoteForms /\ x[2] \in Int
  /\ \A p \in Pairs : Named(p)
ASSUME ClockAssumption ==
  /\ Waits \subseteq Nat /\ Kickoff \in Int /\ MaxRows \in Nat /\ MaxNow \in Nat

VARIABLES
  team,          \* whose home game it is
  rows,          \* observations of the game
  now,
  settings,      \* the effective settings
  scored         \* the last actionable opportunity, with its stamp: the others
                 \* are saved too but never looked at for an alert

vars == <<team, rows, now, settings, scored>>

NotScored == [at |-> 0, worth |-> [actionable |-> FALSE]]

Init == /\ team \in Teams
        /\ rows = {} /\ now = 0
        /\ settings = Base
        /\ scored = NotScored

-----------------------------------------------------------------------------
\* uq_observations_snapshot: a second report of a snapshot is not stored.
Stored(o, t) == \E r \in rows : /\ r.source = o.source /\ r.listing = o.listing
                                /\ (o.listing = Unknown => r.kind = o.kind)
                                /\ r.at = t

At(o, t, id) == [o EXCEPT !.id = id, !.at = t]

\* The rows of one call, in one transaction, the aggregate last.
Numbered(S, t) ==
  LET new == {o \in S : ~Stored(o, t)}
      place(o) == IF o.kind = "aggregate" THEN Cardinality(new) ELSE 1
  IN  {At(o, t, Cardinality(rows) + place(o)) : o \in new}

Observe(S, lead) == /\ Cardinality(rows) + Cardinality(S) <= MaxRows
                    /\ rows' = rows \cup Numbered(S, now + lead)
                    /\ UNCHANGED <<team, now, settings, scored>>

Wait(d) == /\ now + d <= MaxNow
           /\ now' = now + d
           /\ UNCHANGED <<team, rows, settings, scored>>

Dollar == 100
BudgetLimit == 400 * Dollar
LeastThreshold == 50 * Dollar

\* RuntimeSettings and the patterns of _parse: nothing else is stored.  (The
\* mutant takes any threshold.)
InRange_AnyThreshold(s) == /\ s.cap \in Dollar..BudgetLimit
                           /\ s.freshness \in Hour..(24 * Hour)
                           /\ \A m \in Marketplaces : s.fee[m] \in 0..50
InRange(s) == /\ s.cap \in Dollar..BudgetLimit
              /\ s.threshold >= LeastThreshold
              /\ s.freshness \in Hour..(24 * Hour)
              /\ \A m \in Marketplaces : s.fee[m] \in 0..50

ASSUME SettingsAssumption ==
  /\ Base \in Settings /\ InRange(Base) /\ Submissions \subseteq Settings

\* All of them or, when one is refused, none.
Submit(s) == /\ settings' = IF InRange(s) THEN s ELSE settings
             /\ UNCHANGED <<team, rows, now, scored>>

\* The pair as it is seen now, scored with the fresh rows.
Worth(p, rs, t, s) ==
  Estimate(At(p, t, 0), Fresh(rs, t, s.freshness), t, Kickoff, s)

\* What the form of a manual review lets through: two tickets, a total within
\* the cap of that moment and of all times; fees and tax are in the total.
Typed(p) == /\ p.source = "manual" /\ p.quantity = 2
            /\ p.price \in 1..Min({BudgetLimit, settings.cap})
            /\ p.fees = 0 /\ p.tax = 0

\* A scan stores and scores a confirmed listing, a confirmation the pair on the
\* screenshot; a snapshot that is stored already is not scored again.
Score(p) ==
  /\ p.source = "manual" => Typed(p)
  /\ Cardinality(rows) < MaxRows /\ ~Stored(p, now)
  /\ rows' = rows \cup Numbered({p}, now)
  /\ LET worth == Worth(p, rows', now, settings)
     IN  scored' = IF worth.actionable THEN [at |-> now, worth |-> worth] ELSE scored
  /\ UNCHANGED <<team, now, settings>>

Report(x) == Observe({x[1]}, x[2])
Summarize(x) == team \in Covered[x[1].source] /\ Observe(Quoted(x[1]), x[2])

Next == \/ \E x \in Listings : Report(x)
        \/ \E x \in Summaries : Summarize(x)
        \/ \E d \in Waits : Wait(d)
        \/ \E s \in Submissions : Submit(s)
        \/ \E p \in Pairs : Score(p)

Spec == Init /\ [][Next]_vars

-----------------------------------------------------------------------------
\* AlertPolicy.decide, as far as the numbers go, at the moment of the alert.
Alerted == /\ scored.worth.actionable
           /\ now - scored.at <= settings.freshness
           /\ scored.worth.acquisition \in 1..settings.cap
           /\ scored.worth.profit >= settings.threshold
           /\ scored.worth.confidence > 0

Evidence(p) == Comparables(At(p, now, 0), Fresh(rows, now, settings.freshness), now)
OfMarket(p, m) == {o \in Evidence(p) : o.source = m}
PriceOf(p, S) == Quantile(At(p, now, 0), S)

-----------------------------------------------------------------------------
(* Properties                                                              *)

\* A row that names a listing is a listing.
TypeOK == /\ rows \subseteq Observations /\ IsFiniteSet(rows)
          /\ \A o \in rows : o.listing # Unknown => IsListing(o)
          /\ now \in Nat
          /\ settings \in Settings /\ InRange(settings)

\* estimate_opportunity and select_comparables: the profit of an actionable
\* pair is asked for by somebody who still asks it.  Whatever was reported, in
\* which order and with which stamps, and however the percentile, the haircuts
\* and the fee come out, an ask of the recommended marketplace, at most a day
\* old, covers the cost and the profit; it is not the pair's own, and no report
\* up to this moment replaced or withdrew it.
Superseded(o, rs) ==
  \E r \in rs : SameListing(o, r) /\ Newer(r, o) /\ Age(r, now) >= -ClockSkew
PromisesAreBacked ==
  [][scored' # scored =>
       \E o \in rows' :
         /\ o.source = scored'.worth.exit
         /\ Within(o, now, MaxAge)
         /\ scored'.worth.profit <= o.price - scored'.worth.acquisition
         /\ \A pair \in rows' \ rows : ~SameListing(pair, o)
         /\ ~Superseded(o, rows')]_vars

\* What weighted_quantile finds by adding up is the 40th percentile of the
\* asks, with ties, single rows and equal weights: the asks below it have less
\* than 40 per cent of the weight, those above it at most 60.
QuantileIsAQuantile ==
  \A p \in Pairs, m \in Marketplaces :
    LET S == OfMarket(p, m)
        price == PriceOf(p, S)
        weight(T) == Weight(At(p, now, 0), T)
    IN  S # {} => /\ \E o \in S : o.price = price
                  /\ 100 * weight({o \in S : o.price < price}) < 40 * weight(S)
                  /\ 100 * weight({o \in S : o.price > price}) <= 60 * weight(S)

\* Evidence only gets worse by waiting: with the same rows, none of them ahead
\* of the clock, a pair seen later is not scored with more confidence.
AgingNeverRaisesConfidence ==
  [][now' > now /\ (\A o \in rows : o.at <= now) =>
       \A p \in Pairs : Worth(p, rows, now', settings).confidence
                          <= Worth(p, rows, now, settings).confidence]_vars

\* New reports that ask no more than the price assumed for their marketplace do
\* not raise that price, also when they replace a listing's last report, unless
\* that was closer to the pair's seats and so weighed more; and they leave the
\* other marketplaces' prices alone.
NoCloser(p, r, S) == \A o \in S : SameListing(o, r) => Relevance(p, o) <= Relevance(p, r)
CheapReportsNeverRaisePrices ==
  [][rows' # rows =>
       \A p \in Pairs, m \in Marketplaces :
         LET new == {r \in rows' \ rows : r.source = m}
             S == OfMarket(p, m)
             T == OfMarket(p, m)'
             price == PriceOf(p, S)
         IN  (S # {} /\ T # {}) =>
               IF new = {} THEN PriceOf(p, T) = price
               ELSE (\A r \in new : r.price \in 1..price /\ NoCloser(p, r, S))
                      => PriceOf(p, T) <= price]_vars

\* README.md:7: whatever the user sends and whenever, between the scoring and
\* the alert too, an alert is for a pair of at most $400 that was scored less
\* than a day ago with at least $50 of profit.
HardLimitsHold ==
  Alerted => /\ scored.worth.acquisition <= BudgetLimit
             /\ scored.worth.profit >= LeastThreshold
             /\ now - scored.at <= 24 * Hour
===============================================================================
