----------------------------- MODULE AlertDelivery -----------------------------
(***************************************************************************)
(* AlertService (services/alerts.py) over its tables (data/repositories.py:*)
(* AlertRepository, OutcomeRepository): evaluation of an opportunity under *)
(* the lock of its listing lineage, the reservation committed before the   *)
(* push, the push, the result written back, single flight, the user's      *)
(* outcomes, crash, restart and the reconciliation at startup.             *)
(*                                                                         *)
(* An opportunity is a row of the opportunities table, named by its id; it *)
(* stands for one snapshot of a listing, so it has one fingerprint and the *)
(* alert row of a fingerprint is row[o].  Lineage[o] is the listing.       *)
(* Profit[o] stands for the estimated net profit in cents or in any unit.  *)
(*                                                                         *)
(* Two timestamps are only ever compared, so the model keeps the           *)
(* comparison: newer holds <<x, y>> when record x was stamped after y.     *)
(* Stamps never tie and never go back: that is an assumption on the clock. *)
(*                                                                         *)
(* Only actionable opportunities with a known profit are modelled: no      *)
(* other is handed over or reconciled.                                     *)
(***************************************************************************)
EXTENDS Naturals, FiniteSets

CONSTANTS
  Opps,           \* opportunity ids
  Lineages,       \* (source, event, listing identity) triples
  Lineage,        \* Opps -> Lineages
  Profit,         \* Opps -> Nat
  Improvement,    \* profit_improvement_threshold
  Manual,         \* opportunities from manual reviews: a repeated confirmation
                  \* evaluates them again
  Threads, Main,  \* Main is the event-loop thread, which also runs startup
  Nobody,
  Modes,          \* what the configuration at a start may be
  Statuses,       \* outcomes the user may choose
  PageSize        \* limit of reconcile_unattempted

ASSUME OppsAssumption == Opps \subseteq Nat \ {0} /\ Manual \subseteq Opps
ASSUME LineageAssumption == Lineage \in [Opps -> Lineages]
ASSUME ProfitAssumption == Profit \in [Opps -> Nat] /\ Improvement \in Nat
ASSUME ThreadsAssumption == Main \in Threads /\ Nobody \notin Threads
ASSUME ModesAssumption == Modes \subseteq {"live", "dry", "mute"}
ASSUME StatusAssumption == Statuses \subseteq {"watching", "passed"}
ASSUME PageAssumption == PageSize \in Nat \ {0}

VARIABLES
  phase,    \* "down", "reconciling", "serving": the process
  mode,     \* settings.dry_run and the publisher, fixed at a start
  known,    \* opportunities committed by a scan or by a confirmed review
  todo,     \* committed and handed over in memory, not evaluated yet
  row,      \* alerts table
  mark,     \* outcomes table: status of the OutcomeRow of an opportunity
  newer,    \* order of the timestamps of alert and outcome records
  owner,    \* lineage locks
  pc,       \* where each thread is in evaluate_and_send
  opp,      \* the opportunity it evaluates, 0 when none
  flight,   \* _delivery_flights
  wire,     \* requests sent and not yet taken, refused or lost
  accepts,  \* how often the provider accepted the push of an opportunity
  page,     \* rest of the page of ids being reconciled
  after,    \* after_id
  high,     \* high_water
  swept     \* the last reconciliation came to its end

process == <<phase, mode, page, after, high, swept>>
database == <<known, row, mark, newer>>
provider == <<wire, accepts>>
service == <<owner, pc, opp, flight, todo>>
vars == <<process, database, provider, service>>

-------------------------------------------------------------------------------
\* Alert rows: delivery_state, retryable, provider_message_id.
RowState == {"none",       \* no row
             "pending",    \* reserved; or ambiguous, for good
             "sent",       \* accepted by the provider
             "simulated",  \* "sent" with provider id dry-run
             "retry",      \* failed and retryable
             "rejected"}   \* failed and not retryable

\* Terminal outcomes (passed, purchased, sold) suppress alerts alike: "passed".
MarkState == {"none", "watching", "passed"}

Locations == {"idle", "want", "load", "flight", "wait", "claim", "send", "await",
              "confirm", "refuse", "giveup", "settle", "unlock", "leave"}

Holding == Locations \ {"idle", "want", "leave"}
Delivering == {"send", "await", "confirm", "refuse", "giveup"}

Records == {"alert", "outcome"} \X Opps
Alert(o) == <<"alert", o>>
Outcome(o) == <<"outcome", o>>
Lin(x) == Lineage[x[2]]

\* Record x gets the current time: newer than every record of its lineage.
Stamp(x) ==
  newer' = {p \in newer : p[1] # x /\ p[2] # x}
             \cup {<<x, y>> : y \in {r \in Records : Lin(r) = Lin(x) /\ r # x}}

Siblings(o) == {p \in Opps : Lineage[p] = Lineage[o]}

\* AlertRepository.latest_for_lineage: failed and retryable rows do not count.
Counts(p) == row[p] \notin {"none", "retry"}

LatestAlert(o) ==
  {p \in Siblings(o) : /\ Counts(p)
                       /\ \A q \in Siblings(o) \ {p} :
                            Counts(q) => <<Alert(p), Alert(q)>> \in newer}

\* The lineage's latest outcome in _load.
LatestMark(o) ==
  {p \in Siblings(o) : /\ mark[p] # "none"
                       /\ \A q \in Siblings(o) \ {p} :
                            mark[q] # "none" => <<Outcome(p), Outcome(q)>> \in newer}

\* authoritative_status
Status(o) == IF LatestMark(o) = {} THEN "new"
             ELSE mark[CHOOSE p \in LatestMark(o) : TRUE]

\* A WATCHING mark replaces the baseline when no alert is as new as the mark.
WatchedSince(o) ==
  {w \in LatestMark(o) : /\ mark[w] = "watching"
                         /\ \A p \in LatestAlert(o) : <<Outcome(w), Alert(p)>> \in newer}

\* The opportunities whose profit a new alert for o has to beat, and whether o
\* itself is the previous alert (the same fingerprint).
Baseline(o) == IF WatchedSince(o) # {} THEN WatchedSince(o) ELSE LatestAlert(o)
AlreadySent(o) == WatchedSince(o) = {} /\ o \in LatestAlert(o)

\* AlertPolicy.decide, what depends on stored state.
Eligible(o) == Status(o) \in {"new", "watching"}

Improves_AnyRise(o) == \A p \in Baseline(o) : Profit[o] > Profit[p]
Improves(o) == \A p \in Baseline(o) : Profit[o] >= Profit[p] + Improvement

Mutex == INSTANCE KeyedMutex WITH Keys <- Lineages

Active(t) == pc[t] # "idle"

Init == /\ phase = "down" /\ mode \in Modes
        /\ known = {} /\ todo = {}
        /\ row = [o \in Opps |-> "none"]
        /\ mark = [o \in Opps |-> "none"]
        /\ newer = {}
        /\ Mutex!Free
        /\ pc = [t \in Threads |-> "idle"]
        /\ opp = [t \in Threads |-> 0]
        /\ flight = [o \in Opps |-> "none"]
        /\ wire = {} /\ accepts = [o \in Opps |-> 0]
        /\ page = {} /\ after = 0 /\ high = 0 /\ swept = FALSE

-------------------------------------------------------------------------------
(* One evaluation: evaluate_and_send, _evaluate, _deliver.                 *)

Goto(t, from, to) == /\ pc[t] = from
                     /\ pc' = [pc EXCEPT ![t] = to]

\* evaluate_and_send: the evaluation counts as active before anything is read.
Begin(t, o) == /\ Goto(t, "idle", "want")
               /\ opp' = [opp EXCEPT ![t] = o]
               /\ UNCHANGED <<database, provider, owner, flight>>

\* While serving: what a scan handed over, or a repeated manual confirmation.
Evaluate(t) == /\ phase = "serving"
               /\ \E o \in todo \cup (Manual \cap known) :
                    Begin(t, o) /\ todo' = todo \ {o}
               /\ UNCHANGED process

\* _lineage_key fails: "invalid opportunity context" without any lock.
Unreadable(t) == /\ Goto(t, "want", "leave")
                 /\ UNCHANGED <<process, database, provider, owner, opp, flight, todo>>

\* "with self._lineage_locks.hold(lineage)"
EnterLineage(t) == /\ Goto(t, "want", "load")
                   /\ Mutex!Acquire(t, Lineage[opp[t]])
                   /\ UNCHANGED <<process, database, provider, opp, flight, todo>>

\* _load and decide.  Gates that do not depend on the modelled tables (stale,
\* not actionable, budget, threshold, confidence, no confirmed pair) and read
\* errors are one choice: the evaluation ends.
Reject(t) == /\ Goto(t, "load", "unlock")
             /\ UNCHANGED <<process, database, provider, owner, opp, flight, todo>>

Decide(t) == /\ \/ /\ Goto(t, "load", "flight")
                   /\ Eligible(opp[t]) /\ ~AlreadySent(opp[t]) /\ Improves(opp[t])
                \/ /\ Goto(t, "load", "unlock")
                   /\ ~(Eligible(opp[t]) /\ ~AlreadySent(opp[t]) /\ Improves(opp[t]))
             /\ UNCHANGED <<process, database, provider, owner, opp, flight, todo>>

\* The first caller for a fingerprint leads; the others share its decision,
\* which is kept until no evaluation is active.
Lead(t) == /\ Goto(t, "flight", "claim")
           /\ flight[opp[t]] = "none"
           /\ flight' = [flight EXCEPT ![opp[t]] = "open"]
           /\ UNCHANGED <<process, database, provider, owner, opp, todo>>

Follow(t) == /\ Goto(t, "flight", "wait")
             /\ flight[opp[t]] # "none"
             /\ UNCHANGED <<process, database, provider, owner, opp, flight, todo>>

\* flight.completed.wait(), holding the lineage lock
Shared(t) == /\ Goto(t, "wait", "unlock")
             /\ flight[opp[t]] = "closed"
             /\ UNCHANGED <<process, database, provider, owner, opp, flight, todo>>

\* claim_delivery: only a new or an explicitly retryable fingerprint is taken.
Claimable(o) == row[o] \in {"none", "retry"}

Claim(t) == /\ Goto(t, "claim", "send")
            /\ Claimable(opp[t])
            /\ row' = [row EXCEPT ![opp[t]] = "pending"]
            /\ Stamp(Alert(opp[t]))
            /\ UNCHANGED <<process, known, mark, provider, owner, opp, flight, todo>>

\* Not acquired, or the transaction fails: no reservation, no push.
Unclaimed_SendsAnyway(t) ==
  /\ Goto(t, "claim", "send")
  /\ UNCHANGED <<process, database, provider, owner, opp, flight, todo>>
Unclaimed(t) ==
  /\ Goto(t, "claim", "settle")
  /\ UNCHANGED <<process, database, provider, owner, opp, flight, todo>>

\* publisher.publish, or the branches that do not publish.
Send(t) ==
  /\ \/ mode = "live" /\ Goto(t, "send", "await") /\ wire' = wire \cup {opp[t]}
     \/ mode = "dry" /\ Goto(t, "send", "confirm") /\ UNCHANGED wire
     \/ mode = "mute" /\ Goto(t, "send", "giveup") /\ UNCHANGED wire
  /\ UNCHANGED <<process, database, accepts, owner, opp, flight, todo>>

\* A 2xx answer with a provider id.
Answered(t) == /\ Goto(t, "await", "confirm")
               /\ opp[t] \notin wire /\ accepts[opp[t]] > 0
               /\ UNCHANGED <<process, database, provider, owner, opp, flight, todo>>

\* A failure the code takes to have come before acceptance: no connection, 429
\* or 5xx (retryable), any other answer outside 2xx (not retryable).  That such
\* an answer means the message was not accepted is an assumption on ntfy.
Refused(t) == /\ Goto(t, "await", "refuse") \/ Goto(t, "await", "giveup")
              /\ opp[t] \in wire
              /\ wire' = wire \ {opp[t]}
              /\ UNCHANGED <<process, database, accepts, owner, opp, flight, todo>>

\* delivery_unknown: a read timeout, a broken connection, an unusable answer or
\* any other exception, and a BaseException before or after the send.
Unknown_Refuses(t) ==
  /\ Goto(t, "await", "refuse")
  /\ UNCHANGED <<process, database, provider, owner, opp, flight, todo>>
Unknown(t) == /\ Goto(t, "await", "settle") \/ Goto(t, "send", "settle")
              /\ UNCHANGED <<process, database, provider, owner, opp, flight, todo>>

\* mark_sent
Recorded == IF mode = "dry" THEN "simulated" ELSE "sent"

Confirm(t) ==
  /\ Goto(t, "confirm", "settle")
  /\ row[opp[t]] = "pending"
  /\ row' = [row EXCEPT ![opp[t]] = Recorded]
  /\ Stamp(Alert(opp[t]))
  /\ UNCHANGED <<process, known, mark, provider, owner, opp, flight, todo>>

\* mark_failed
Fail(t) == /\ \/ /\ Goto(t, "refuse", "settle")
                 /\ row' = [row EXCEPT ![opp[t]] = "retry"]
              \/ /\ Goto(t, "giveup", "settle")
                 /\ row' = [row EXCEPT ![opp[t]] = "rejected"]
           /\ row[opp[t]] = "pending"
           /\ UNCHANGED <<process, known, mark, newer, provider, owner, opp, flight, todo>>

\* The transaction that writes the result back fails: the row stays pending.
NotRecorded(t) == /\ \E from \in {"confirm", "refuse", "giveup"} : Goto(t, from, "settle")
                  /\ UNCHANGED <<process, database, provider, owner, opp, flight, todo>>

\* The leader publishes its decision, on every way out of _deliver.
Settle_OnReturnOnly(t) ==
  /\ Goto(t, "settle", "unlock")
  /\ \/ flight' = [flight EXCEPT ![opp[t]] = "closed"]
     \/ UNCHANGED flight
  /\ UNCHANGED <<process, database, provider, owner, opp, todo>>
Settle(t) == /\ Goto(t, "settle", "unlock")
             /\ flight' = [flight EXCEPT ![opp[t]] = "closed"]
             /\ UNCHANGED <<process, database, provider, owner, opp, todo>>

LeaveLineage(t) == /\ Goto(t, "unlock", "leave")
                   /\ Mutex!Release(t, Lineage[opp[t]])
                   /\ UNCHANGED <<process, database, provider, opp, flight, todo>>

\* The last active evaluation forgets the flights.
Leave(t) == /\ Goto(t, "leave", "idle")
            /\ opp' = [opp EXCEPT ![t] = 0]
            /\ flight' = IF \A u \in Threads \ {t} : ~Active(u)
                         THEN [o \in Opps |-> "none"] ELSE flight
            /\ UNCHANGED <<process, database, provider, owner, todo>>

Run(t) == \/ Unreadable(t) \/ EnterLineage(t) \/ Reject(t) \/ Decide(t)
          \/ Lead(t) \/ Follow(t) \/ Shared(t)
          \/ Claim(t) \/ Unclaimed(t) \/ Send(t)
          \/ Answered(t) \/ Refused(t) \/ Unknown(t)
          \/ Confirm(t) \/ Fail(t) \/ NotRecorded(t)
          \/ Settle(t) \/ LeaveLineage(t) \/ Leave(t)

-------------------------------------------------------------------------------
(* The provider and the network, external to the program.                  *)

Take(o) == /\ o \in wire
           /\ wire' = wire \ {o}
           /\ accepts' = [accepts EXCEPT ![o] = @ + 1]
           /\ UNCHANGED <<process, database, service>>

Lose(o) == /\ o \in wire
           /\ wire' = wire \ {o}
           /\ UNCHANGED <<process, database, accepts, service>>

-------------------------------------------------------------------------------
(* The rest of the program, as far as it writes what an evaluation reads.  *)

\* A scan or a manual confirmation commits an opportunity and hands it over in
\* memory.  Ids grow.
Save(o) == /\ phase = "serving"
           /\ \A p \in known : p < o
           /\ known' = known \cup {o}
           /\ todo' = todo \cup {o}
           /\ UNCHANGED <<process, row, mark, newer, provider, owner, pc, opp, flight>>

\* update_outcome: saved and committed while holding the lineage lock.  Saving
\* what is already recorded changes nothing (OutcomeRepository.save returns).
LineageQuiet_Unlocked(o) == TRUE
LineageQuiet(o) == owner[Lineage[o]] = Nobody

SaveOutcome(o, s) == /\ phase = "serving"
                     /\ o \in known
                     /\ LineageQuiet(o)
                     /\ mark' = [mark EXCEPT ![o] = s]
                     /\ Stamp(Outcome(o))
                     /\ UNCHANGED <<process, known, row, provider, service>>

-------------------------------------------------------------------------------
(* Start, reconciliation (reconcile_unattempted, called by the lifespan in  *)
(* main.py before requests and scans begin), crash.                         *)

Largest(S) == {x \in S : \A y \in S : y <= x}
Smallest(S) == {x \in S : \A y \in S : x <= y}

Start == /\ phase = "down"
         /\ phase' = "reconciling"
         /\ mode' \in Modes
         /\ after' = 0 /\ page' = {}
         /\ \/ known = {} /\ high' = 0
            \/ high' \in Largest(known)
         /\ UNCHANGED <<swept, database, provider, service>>

\* Opportunities the page query selects: no alert row, or failed and retryable.
Backlog == {o \in known : row[o] \in {"none", "retry"}}

Selected(from) == {o \in Backlog : from < o /\ o <= high}
FirstPage(from) == {o \in Selected(from) :
                      Cardinality({p \in Selected(from) : p < o}) < PageSize}

NextCursor_Skips(last) == last + 1
NextCursor(last) == last

ReconcileIdle == phase = "reconciling" /\ ~Active(Main) /\ page = {}

ReadPage == /\ ReconcileIdle
            /\ page' = FirstPage(after)
            /\ \E last \in Largest(page') : after' = NextCursor(last)
            /\ UNCHANGED <<phase, mode, high, swept, database, provider, service>>

ReconcileNext == /\ phase = "reconciling"
                 /\ \E o \in Smallest(page) : Begin(Main, o) /\ page' = page \ {o}
                 /\ UNCHANGED <<phase, mode, after, high, swept, todo>>

\* No more ids below the high-water mark; then requests and scans begin.
Swept == /\ ReconcileIdle
         /\ FirstPage(after) = {}
         /\ phase' = "serving"
         /\ swept' = TRUE
         /\ UNCHANGED <<mode, page, after, high, database, provider, service>>

\* A failed query or clock ends the pass; the lifespan swallows the error.
SweepFails == /\ phase = "reconciling" /\ ~Active(Main)
              /\ phase' = "serving"
              /\ page' = {} /\ swept' = FALSE
              /\ UNCHANGED <<mode, after, high, database, provider, service>>

\* The process dies: memory is lost, tables and requests on the wire are not.
Crash == /\ phase # "down"
         /\ phase' = "down"
         /\ todo' = {}
         /\ owner' = [l \in Lineages |-> Nobody]
         /\ pc' = [t \in Threads |-> "idle"]
         /\ opp' = [t \in Threads |-> 0]
         /\ flight' = [o \in Opps |-> "none"]
         /\ page' = {} /\ after' = 0 /\ high' = 0 /\ swept' = FALSE
         /\ UNCHANGED <<mode, database, provider>>

Next == \/ \E t \in Threads : Evaluate(t) \/ Run(t)
        \/ \E o \in Opps : Take(o) \/ Lose(o) \/ Save(o)
        \/ \E o \in Opps, s \in Statuses : SaveOutcome(o, s)
        \/ Start \/ ReadPage \/ ReconcileNext \/ Swept \/ SweepFails \/ Crash

Spec == Init /\ [][Next]_vars

(***************************************************************************)
(* A started process works on: a thread in an evaluation takes its next    *)
(* step (the push ends by the client's timeout at the latest) and the      *)
(* startup pass continues.  Nothing is assumed of the provider, of the     *)
(* user, of scans or of crashes, and nothing of the order in which waiting *)
(* threads get a lock.                                                     *)
(***************************************************************************)
FairSpec == /\ Spec
            /\ \A t \in Threads : WF_vars(Run(t))
            /\ WF_vars(ReadPage \/ ReconcileNext \/ Swept)

-------------------------------------------------------------------------------
TypeOK ==
  /\ phase \in {"down", "reconciling", "serving"}
  /\ mode \in Modes
  /\ known \in SUBSET Opps /\ todo \in SUBSET Opps
  /\ row \in [Opps -> RowState]
  /\ mark \in [Opps -> MarkState]
  /\ newer \in SUBSET (Records \X Records)
  /\ owner \in [Lineages -> Threads \cup {Nobody}]
  /\ pc \in [Threads -> Locations]
  /\ opp \in [Threads -> Opps \cup {0}]
  /\ flight \in [Opps -> {"none", "open", "closed"}]
  /\ wire \in SUBSET Opps /\ accepts \in [Opps -> Nat]
  /\ page \in SUBSET Opps /\ after \in Nat /\ high \in Nat /\ swept \in BOOLEAN

\* The provider never accepts the push of one fingerprint twice, through
\* crashes, late arrivals, retries and overlapping evaluations.
AtMostOnce == \A o \in Opps : accepts[o] <= 1

\* "Before any live publication, the app commits a reservation": whatever is or
\* was on the wire has a row that no evaluation will claim again, and what is
\* about to be sent is reserved and never was on the wire.
ReservedBeforeSent ==
  /\ \A o \in Opps : o \in wire \/ accepts[o] > 0 => row[o] \notin {"none", "retry"}
  /\ \A t \in Threads : pc[t] = "send" =>
       row[opp[t]] = "pending" /\ opp[t] \notin wire /\ accepts[opp[t]] = 0

\* The table tells the truth: "sent" was accepted, a failed row never was.
TableIsTrue ==
  \A o \in Opps : /\ row[o] = "sent" => accepts[o] = 1
                  /\ row[o] \in {"retry", "rejected", "simulated"} =>
                       accepts[o] = 0 /\ o \notin wire

\* No push goes out for a listing whose latest outcome is terminal, also when
\* the user records it while an evaluation is under way.
NoPushAfterTerminalOutcome ==
  [][\A o \in wire' \ wire : Status(o) \in {"new", "watching"}]_vars

\* A push must beat by Improvement every earlier push of its listing that may
\* have reached the user, unless the user put the listing on the watch list
\* after that push.
RepeatNeedsImprovement ==
  [][\A o \in wire' \ wire : \A p \in Siblings(o) \ {o} :
       p \in wire \/ accepts[p] > 0 =>
         \/ Profit[o] >= Profit[p] + Improvement
         \/ \E w \in LatestMark(o) : /\ mark[w] = "watching"
                                     /\ <<Outcome(w), Alert(p)>> \in newer]_vars

\* The rule as the documentation has it, without the exception.
RepeatAlwaysNeedsImprovement ==
  [][\A o \in wire' \ wire : \A p \in Siblings(o) \ {o} :
       accepts[p] > 0 => Profit[o] >= Profit[p] + Improvement]_vars

\* No evaluation ever waits for a flight: it would wait inside the lineage lock
\* that the leader needs to finish.
NobodyWaitsInsideTheLock ==
  \A t \in Threads : pc[t] = "wait" => flight[opp[t]] = "closed"

\* A started sweep that is not cut short evaluates every opportunity that was
\* left without an attempt or with a retryable failure, page after page.
SweepReachesBacklog ==
  \A o \in Opps :
    (/\ phase = "reconciling" /\ after = 0 /\ page = {}
     /\ o \in known /\ row[o] \in {"none", "retry"})
      ~> \/ opp[Main] = o
         \/ phase = "down"
         \/ phase = "serving" /\ ~swept

\* A lineage lock is always given back, whatever the provider, the database or
\* an exception does.
LocksComeBack ==
  \A l \in Lineages : owner[l] # Nobody ~> owner[l] = Nobody

-------------------------------------------------------------------------------
\* Delivery implements the ledger: a reservation is "reserved" while its
\* evaluation has not sent it, "open" from then on until a result is on record.
Sending(o) == \E t \in Threads : pc[t] = "send" /\ opp[t] = o

Book(o) == IF row[o] = "pending" THEN IF Sending(o) THEN "reserved" ELSE "open"
           ELSE IF row[o] = "sent" THEN "delivered" ELSE row[o]

book == [o \in Opps |-> Book(o)]

Ledger == INSTANCE AlertLedger WITH Alerts <- Opps

ImplementsLedger == Ledger!Spec
===============================================================================
