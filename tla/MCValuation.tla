----------------------------- MODULE MCValuation -----------------------------
(***************************************************************************)
(* An instance of Valuation.  Four moments of 75 minutes; a row may be     *)
(* stamped ten minutes after the scan's clock.  One listing is seen at     *)
(* four prices, one of them in another section, where it weighs less, and  *)
(* the last unusable; with the pair's section and row known, two listings  *)
(* of its row and one of another section weigh exactly 40, 40 and 20 per   *)
(* cent.                                                                   *)
(***************************************************************************)
EXTENDS Valuation

Listing(source, id, section, price) ==
  [Summary(source, "listing", price, NotGiven) EXCEPT
     !.listing = id, !.section = section,
     !.row = IF section = "101" THEN "A" ELSE Unknown]
MCListings == {<<Listing("stubhub", "L1", "101", 9000), 0>>,
               <<Listing("stubhub", "L1", "101", 8000), 0>>,
               <<Listing("stubhub", "L1", "300", 8500), 0>>,
               <<Listing("stubhub", "L1", "101", 0), 10>>,
               <<Listing("stubhub", "L2", "101", 10000), 0>>,
               <<Listing("stubhub", "L3", "300", 10000), 0>>}
\* SeatGeek's average rounds to nothing, so its highest price counts; one of
\* Ticketmaster's minima is none.
MCSummaries == {<<[source |-> "stubhub", lowest |-> 40000], 0>>,
             <<[source |-> "ticketmaster", minima |-> {0, 40004, 50000}], 10>>,
             <<[source |-> "seatgeek", lowest |-> 39000, average |-> 2,
                highest |-> 49500, count |-> 600], 10>>}

For(source, id, price) ==
  [Listing(source, id, "101", price) EXCEPT !.fees = 0, !.tax = 0, !.quantity = 2,
                                            !.canBuy = TRUE]
MCPairs == {For("stubhub", "L1", 3000), For("manual", "M2", 2500)}

With(cap, threshold, freshness, fee) ==
  [cap |-> cap, threshold |-> threshold, freshness |-> freshness,
   fee |-> [m \in Marketplaces |-> fee]]
MCBase == With(40000, 5000, 150, 15)
MCSubmissions == {With(40000, 2000, 150, 15), With(2000, 5000, 60, 10)}
MCKickoff == 2 * 24 * Hour
===============================================================================
