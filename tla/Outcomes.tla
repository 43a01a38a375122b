------------------------------- MODULE Outcomes -------------------------------
(***************************************************************************)
(* What the user records of a listing: update_outcome (web/routes.py),     *)
(* OutcomeRepository.save, and the status a new snapshot inherits in       *)
(* OpportunityRepository.save_estimate (data/repositories.py).             *)
(*                                                                         *)
(* Outcomes are rows per opportunity, an opportunity being one snapshot of *)
(* a listing; for alerts the latest row of all snapshots of the listing    *)
(* counts.  The handler saves and commits while it holds the lock of the   *)
(* listing, and SQLite has one writer, so each operation is one step.      *)
(*                                                                         *)
(* updated_at is only compared: order lists the opportunities that have an *)
(* outcome row, the one stamped last at the end.  Stamps never tie and     *)
(* never go back: that is an assumption on the clock.  Proceeds and fees   *)
(* are required of a sale and of nothing else; only the cost of the        *)
(* acquisition travels between rows, so it is the only amount kept.        *)
(***************************************************************************)
EXTENDS SequencesExt

CONSTANTS
  Opps,       \* opportunity ids
  Lineage,    \* Opps -> listings
  Plain,      \* outcomes without amounts
  Costs,      \* amounts of an acquisition
  Notes       \* the user's notes

ASSUME OutcomeAssumption == /\ Opps \subseteq Nat \ {0}
                            /\ DOMAIN Lineage = Opps
                            /\ Plain \subseteq {"watching", "passed", "expired"}
                            /\ Costs \subseteq Nat \ {0}

VARIABLES
  known,      \* opportunities that were saved
  status,     \* OpportunityRow.status
  outcome,    \* OutcomeRow of an opportunity, or NoRow
  order       \* opportunities with a row, by updated_at

vars == <<known, status, outcome, order>>

Marks == Plain \cup {"purchased", "sold"}

NoCost == 0
NoRow == [status |-> "none", cost |-> NoCost, notes |-> "none"]
Rows == [status : Marks, cost : Costs \cup {NoCost}, notes : Notes]

Init == /\ known = {}
        /\ status = [o \in Opps |-> "new"]
        /\ outcome = [o \in Opps |-> NoRow]
        /\ order = <<>>

-------------------------------------------------------------------------------
Siblings(o) == {p \in Opps : Lineage[p] = Lineage[o]}

\* Where in the order the rows of o's listing are that belong to S.
Places(o, S) == {i \in DOMAIN order : order[i] \in Siblings(o) \cap S}
Latest(S) == {i \in S : \A j \in S : j <= i}

\* The status of the listing: of its latest outcome, "new" when there is none.
Standing(o) == IF Places(o, Opps) = {} THEN "new"
               ELSE LET i == CHOOSE i \in Latest(Places(o, Opps)) : TRUE
                    IN  outcome[order[i]].status

\* _load of the alert service, a query of its own: the gate goes by the row of
\* the listing that was stamped last, by the snapshot's status when there is none.
HasRow(p) == outcome[p] # NoRow
StampedBefore(p, q) ==
  \E i, j \in DOMAIN order : i < j /\ order[i] = p /\ order[j] = q
Gate(o) ==
  LET marked == {p \in Siblings(o) : HasRow(p)}
  IN  IF marked = {} THEN status[o]
      ELSE outcome[CHOOSE p \in marked : \A q \in marked \ {p} : StampedBefore(q, p)].status

\* A sale without a cost takes the latest cost on record for the listing.
\* (The mutant looks at the opportunity's own row only.)
WithCost == {p \in Opps : outcome[p].cost # NoCost}
CostOnRecord_OwnRow(o) == outcome[o].cost
CostOnRecord(o) == IF Places(o, WithCost) = {} THEN NoCost
                   ELSE LET i == CHOOSE i \in Latest(Places(o, WithCost)) : TRUE
                        IN  outcome[order[i]].cost

\* What a submission leaves in the row, when it is valid at all.
Accepted(s, cost) == \/ s \in Plain /\ cost = NoCost
                     \/ s = "purchased" /\ cost # NoCost
                     \/ s = "sold"

Written(o, s, cost, notes) ==
  [status |-> s, notes |-> notes,
   cost |-> IF s = "sold" /\ cost = NoCost THEN CostOnRecord(o) ELSE cost]

\* The row gets the current time.
Restamped(o) == Append(RemoveFirst(order, o), o)

\* The status of the snapshot follows.  (The mutant forgets it.)
StatusAfter_Kept(o, s) == status
StatusAfter(o, s) == [status EXCEPT ![o] = s]

\* update_outcome and OutcomeRepository.save.  A submission that is invalid,
\* whose transaction fails or that the snapshot has already leaves nothing
\* behind, not even a new stamp.
Save(o, s, cost, notes) ==
  /\ o \in known /\ Accepted(s, cost)
  /\ Written(o, s, cost, notes) # outcome[o] \/ status[o] # s
  /\ outcome' = [outcome EXCEPT ![o] = Written(o, s, cost, notes)]
  /\ status' = StatusAfter(o, s)
  /\ order' = IF Written(o, s, cost, notes) # outcome[o] THEN Restamped(o) ELSE order
  /\ UNCHANGED known

\* save_estimate: the new snapshot inherits the standing of its listing.  Ids
\* grow.  (The mutant inherits from the snapshot saved before.)
Inherited_FromPrevious(o) ==
  LET earlier == Siblings(o) \cap known
  IN  IF earlier = {} THEN "new"
      ELSE status[CHOOSE p \in earlier : \A q \in earlier : q <= p]
Inherited(o) == Standing(o)

Snapshot(o) == /\ o \notin known /\ \A p \in known : p < o
               /\ known' = known \cup {o}
               /\ status' = [status EXCEPT ![o] = Inherited(o)]
               /\ UNCHANGED <<outcome, order>>

Next == \E o \in Opps :
          \/ Snapshot(o)
          \/ \E s \in Marks, c \in Costs \cup {NoCost}, n \in Notes :
               Save(o, s, c, n)

Spec == Init /\ [][Next]_vars

-------------------------------------------------------------------------------
TypeOK ==
  /\ known \subseteq Opps
  /\ status \in [Opps -> Marks \cup {"new"}]
  /\ outcome \in [Opps -> Rows \cup {NoRow}]
  /\ order \in Seq(known)
  /\ \A i, j \in DOMAIN order : order[i] = order[j] => i = j

\* The two tables never disagree about a snapshot that has an outcome, a row has
\* its place in the order exactly when it exists, and a purchase has its cost.
TablesAgree ==
  \A o \in Opps :
    /\ outcome[o].status = "purchased" => o \in WithCost
    /\ outcome[o] # NoRow => status[o] = outcome[o].status
    /\ outcome[o] # NoRow <=> \E i \in DOMAIN order : order[i] = o

\* A sale lacks its cost only if the listing had none on record when the sale was
\* saved, on whatever snapshot it was bought.
SaleKnowsItsCost ==
  [][\A o \in Opps :
       outcome'[o] # outcome[o] /\ outcome'[o].status = "sold" /\ outcome'[o].cost = NoCost
         => \A p \in Siblings(o) : outcome[p].cost = NoCost]_vars

\* The user's last choice rules the listing, at the alert gate and on the page.
\* A choice saved for any snapshot is what the gate reads of all of them at once;
\* without one the gate's answer stays, and it is the same for a snapshot saved
\* now as for those before, so that a scan does not reopen a closed listing; and
\* what save_estimate writes into the new snapshot is what the gate reads.
ChoiceRulesTheListing ==
  [][\A o \in known' :
       /\ \A p \in Siblings(o) : outcome'[p] # outcome[p] => Gate(o)' = outcome'[p].status
       /\ (\A p \in Siblings(o) : outcome'[p] = outcome[p])
            => \A p \in Siblings(o) \cap known : Gate(o)' = Gate(p)
       /\ o \notin known => status'[o] = Gate(o)']_vars
===============================================================================
