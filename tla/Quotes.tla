-------------------------------- MODULE Quotes --------------------------------
(***************************************************************************)
(* What the connectors make of a game's price summary (fetch_observations  *)
(* of connectors/stubhub.py, ticketmaster.py and seatgeek.py): the rows    *)
(* for a pair; id and at are given when they are stored.                   *)
(*                                                                         *)
(* A quote gives prices of one ticket in tenths of a cent: the code keeps  *)
(* what the marketplace says as it is and rounds the pair's price.  An     *)
(* answer that cannot be read gives no rows and fails the source's scan.   *)
(* A row that only tells SeatGeek's popularity, which changes no number,   *)
(* is left out.                                                            *)
(***************************************************************************)
EXTENDS Scoring

\* The teams whose games a connector looks for.
Covered == [stubhub |-> {"texans", "aggies"}, ticketmaster |-> {"texans"},
            seatgeek |-> {"aggies"}]

\* 0: none, or one that rounds to nothing.
PairPrice(amount) == IF amount = NotGiven THEN 0 ELSE RoundHalfUp(2 * amount, 10)

Summary(source, kind, price, count) ==
  [id |-> 0, source |-> source, kind |-> kind, listing |-> Unknown,
   section |-> Unknown, row |-> Unknown, price |-> price, fees |-> NotGiven,
   tax |-> NotGiven, quantity |-> NotGiven, canBuy |-> FALSE, count |-> count,
   at |-> 0]
Priced(rows) == {o \in rows : o.price > 0}

\* min_ticket_price
StubHubRows(q) == Priced({Summary("stubhub", "floor", PairPrice(q.lowest), NotGiven)})

\* The least of the minima in dollars that are positive.
TicketmasterRows(q) ==
  LET positive == q.minima \ {0}
      least == {m \in positive : \A n \in positive : m <= n}
  IN  Priced({Summary("ticketmaster", "floor", PairPrice(m), NotGiven) : m \in least})

\* A floor, and an aggregate with the average or else the highest price, which
\* is there for the listing count alone too.
SeatGeekRows(q) ==
  LET average == PairPrice(q.average)
      price == IF average > 0 THEN average ELSE PairPrice(q.highest)
      aggregate == Summary("seatgeek", "aggregate", price, q.count)
  IN  Priced({Summary("seatgeek", "floor", PairPrice(q.lowest), NotGiven)})
        \cup (IF q.count # NotGiven THEN {aggregate} ELSE Priced({aggregate}))

Quoted(q) == IF q.source = "stubhub" THEN StubHubRows(q)
             ELSE IF q.source = "ticketmaster" THEN TicketmasterRows(q)
             ELSE SeatGeekRows(q)
===============================================================================
