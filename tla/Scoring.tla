------------------------------- MODULE Scoring -------------------------------
(***************************************************************************)
(* What a pair is worth (domain/pricing.py, comparables.py, scoring.py,    *)
(* eligibility.py): the asking prices of the same game that count, their   *)
(* weighted 40th percentile per marketplace, the haircuts, the confidence  *)
(* and the best place to sell.                                             *)
(*                                                                         *)
(* Times are in minutes, money in cents, fee rates in per cent.  Rows are  *)
(* observations of one game.  price is 0 when a row gives no positive      *)
(* price in dollars or is for parking.                                     *)
(* Reasons and popularity, which change no number, are left out.           *)
(***************************************************************************)
EXTENDS Rounding, FiniteSetsExt

CONSTANT Names     \* of listings, sections and rows

Marketplaces == {"seatgeek", "stubhub", "ticketmaster"}
Sources == Marketplaces \cup {"manual"}
Unknown == "unknown"           \* a listing, section or row that is not given
NotGiven == -1                 \* an amount or a count that is not given
None == "none"                 \* no exit scenario

Amounts == Nat \cup {NotGiven}
GivenOrNot == Names \cup {Unknown}
Observations ==
  [id : Nat, source : Sources, kind : {"listing", "aggregate", "floor"},
   listing : GivenOrNot, section : GivenOrNot, row : GivenOrNot, price : Nat,
   fees : Amounts, tax : Amounts, quantity : Amounts, canBuy : BOOLEAN,
   count : Amounts, at : Int]

Hour == 60
MaxAge == 24 * Hour
ClockSkew == 5

-----------------------------------------------------------------------------
(* Comparables                                                             *)

Age(o, now) == now - o.at
Within(o, now, limit) == Age(o, now) <= limit /\ Age(o, now) >= -ClockSkew

\* What the scan and the confirmation hand to the estimate (_fresh).
Fresh(rows, now, freshness) == {o \in rows : Within(o, now, freshness)}

\* _stable_listing_key
IsListing(o) == o.kind = "listing" /\ o.listing # Unknown
SameListing(o, p) == /\ IsListing(o) /\ IsListing(p)
                     /\ o.source = p.source /\ o.listing = p.listing

Newer(o, p) == o.at > p.at \/ (o.at = p.at /\ o.id > p.id)
\* A later snapshot of the listing hides this one, usable or not.  (The mutant
\* lets every snapshot stand.)
Hidden_Never(o, rows) == FALSE
Hidden(o, rows) == \E p \in rows : SameListing(o, p) /\ Newer(p, o)

SameSnapshot(pair, o) == /\ o.source = pair.source /\ o.listing = pair.listing
                         /\ o.at = pair.at

Comparables(pair, rows, now) ==
  {o \in rows : /\ ~SameListing(pair, o) /\ ~Hidden(o, rows)
                /\ o.price > 0
                /\ Within(o, now, MaxAge)
                /\ ~SameSnapshot(pair, o)}

SameSection(pair, o) == pair.section # Unknown /\ pair.section = o.section
SameRow(pair, o) == pair.row # Unknown /\ pair.row = o.row

\* comparable_weight and _QUALITY, in per cent
Elsewhere == [listing |-> 50, aggregate |-> 35, floor |-> 20]
Relevance(pair, o) == IF SameSection(pair, o) THEN IF SameRow(pair, o) THEN 100 ELSE 80
                      ELSE Elsewhere[o.kind]
Quality == [listing |-> 100, aggregate |-> 70, floor |-> 50]
Weight(pair, S) == MapThenSumSet(LAMBDA o : Relevance(pair, o) * Quality[o.kind], S)

-----------------------------------------------------------------------------
(* weighted_quantile                                                       *)

\* The rows added up when o is: they are taken by price, then by what tells them
\* apart.  (The mutant takes them as they came.)
UpTo_Unsorted(S, o) == {p \in S : p.id <= o.id}
UpTo(S, o) == {p \in S : p.price < o.price \/ (p.price = o.price /\ p.id <= o.id)}

\* 40 per cent of the weight.  (The mutant stops at the first row past it.)
Reaches_Past(pair, S, o) == 100 * Weight(pair, UpTo(S, o)) > 40 * Weight(pair, S)
Reaches(pair, S, o) == 100 * Weight(pair, UpTo(S, o)) >= 40 * Weight(pair, S)

\* The price of the first row that reaches it.
Quantile(pair, S) ==
  (CHOOSE o \in S : /\ Reaches(pair, S, o)
                    /\ \A p \in UpTo(S, o) \ {o} : ~Reaches(pair, S, p)).price

-----------------------------------------------------------------------------
(* Haircuts                                                                *)

\* Twice the median of the prices of a non-empty set of rows.
Median2(S) == LET nth(n) == (CHOOSE o \in S : Cardinality(UpTo(S, o)) = n).price
                  size == Cardinality(S)
              IN  nth((size + 1) \div 2) + nth(size \div 2 + 1)

\* _snapshot_trend: the first and the last of the latest three moments.
Moments(S) == {o.at : o \in S}
LastThree(S) == {t \in Moments(S) : Cardinality({u \in Moments(S) : u > t}) < 3}
MedianAt(S, t) == Median2({o \in S : o.at = t})
TrendKnown(S) == Cardinality(Moments(S)) >= 3
First(S) == MedianAt(S, Min(LastThree(S)))
Last(S) == MedianAt(S, Max(LastThree(S)))
Declining(S) == TrendKnown(S) /\ 10 * Last(S) < 9 * First(S)
NotRising(S) == TrendKnown(S) /\ Last(S) <= First(S)

\* _latest_listing_count
Counted(rows, now) == {o \in rows : o.count # NotGiven /\ Within(o, now, MaxAge)}
ListingCount(rows, now) ==
  LET latest == {o \in Counted(rows, now) : \A p \in Counted(rows, now) : p.at <= o.at}
  IN  Max({0} \cup {o.count : o \in latest})

One(condition) == IF condition THEN 1 ELSE 0
Sparse(S) == Cardinality({o \in S : o.kind = "listing"}) < 3
KickoffWithin(kickoff, now, days) == kickoff - now \in 0..(days * 24 * Hour)

\* How many of the three haircuts of 5 per cent apply.
FivePercents(S, rows, now, kickoff) ==
  One(Declining(S)) + One(NotRising(S) /\ KickoffWithin(kickoff, now, 7))
    + One(ListingCount(rows, now) > 500 /\ KickoffWithin(kickoff, now, 3))

\* A price less 10 per cent when the evidence is sparse and 5 per cent each time.
Reduced(price, sparse, times) ==
  RoundHalfUp(price * (IF sparse THEN 9 ELSE 10) * 19 ^ times, 10 * 20 ^ times)

-----------------------------------------------------------------------------
(* estimate_opportunity                                                    *)

Proceeds(gross, fee) == RoundHalfUp(gross * (100 - fee), 100)

\* One exit scenario per marketplace with evidence and a valid fee.
Exits(S, fees) == {m \in Marketplaces : /\ fees[m] \in 0..100
                                        /\ \E o \in S : o.source = m}

\* The most proceeds, then the first by name.
Precedence == [seatgeek |-> 1, stubhub |-> 2, ticketmaster |-> 3]
BestExit(exits, proceeds) ==
  IF exits = {} THEN None
  ELSE CHOOSE m \in exits : \A n \in exits :
         \/ proceeds[m] > proceeds[n]
         \/ proceeds[m] = proceeds[n] /\ Precedence[m] <= Precedence[n]

\* A pair is an observation too; its price is one in dollars.
Known(amount) == IF amount = NotGiven THEN 0 ELSE amount
Acquisition(pair) == pair.price + Known(pair.fees) + Known(pair.tax)

\* is_actionable_pair
Eligible(pair, cap) == /\ pair.kind = "listing" /\ pair.canBuy /\ pair.quantity >= 2
                       /\ Acquisition(pair) <= cap

\* The newest row is older than two hours.  (The mutant looks at the oldest.)
Outdated_Oldest(S, now) == \E o \in S : o.at < now - 2 * Hour
Outdated(S, now) == S # {} /\ \A o \in S : o.at < now - 2 * Hour

Drops(pair, S, now) ==
  One(Sparse(S))
    + One(pair.row = Unknown \/ \A o \in S : ~SameSection(pair, o))
    + One(NotGiven \in {pair.fees, pair.tax})
    + One(Outdated(S, now))
    + One(pair.source = "manual")

\* 2 is high, 1 medium, 0 low.
Confidence(pair, S, now) == 2 - Min({2, Drops(pair, S, now)})

Estimate(pair, rows, now, kickoff, settings) ==
  LET S == Comparables(pair, rows, now)
      exits == Exits(S, settings.fee)
      gross == [m \in exits |->
                  Reduced(Quantile(pair, {o \in S : o.source = m}), Sparse(S),
                          FivePercents(S, rows, now, kickoff))]
      proceeds == [m \in exits |-> Proceeds(gross[m], settings.fee[m])]
      best == BestExit(exits, proceeds)
      profit == IF best = None THEN 0 ELSE proceeds[best] - Acquisition(pair)
  IN  [acquisition |-> Acquisition(pair), exit |-> best, profit |-> profit,
       roi |-> IF Acquisition(pair) = 0 THEN 0
               ELSE RoundHalfUp(10000 * profit, Acquisition(pair)),
       confidence |-> Confidence(pair, S, now),
       actionable |-> Eligible(pair, settings.cap) /\ best # None]
===============================================================================
