----------------------------- MODULE EventStore -----------------------------
(***************************************************************************)
(* The tables events and source_events (data/repositories.py).  Several    *)
(* sources report the same game with slightly different data; what they    *)
(* report is filed under one stored event when it is alike, so that their  *)
(* prices can be compared.  A stored event is never changed or deleted;    *)
(* only the binding of a source's event moves.                             *)
(*                                                                         *)
(* The scan thread and the event loop store events.  Each reads the tables *)
(* first; SQLite takes its write lock at the first insert, so another      *)
(* thread may commit between the reading (Look) and the writing (Store).   *)
(***************************************************************************)
EXTENDS Naturals, Sequences, FiniteSets

CONSTANTS
  Games,      \* what can be reported of a game: team, opponent, venue, start
  Alike,      \* pairs of reports whose score reaches the match threshold
  Keys,       \* (source, external_id): identities of a source's event
  Writers,    \* the threads that store events
  Nothing     \* no report under way

ASSUME AlikeAssumption ==
  /\ Games # {}
  /\ Alike \in SUBSET (Games \X Games)
  /\ \A g \in Games : <<g, g>> \in Alike
ASSUME NothingAssumption ==
  Nothing \notin [key : Keys, game : Games, target : Nat]

VARIABLES
  events,     \* events: the reports stored, by id
  bound,      \* source_events: the event of each key, 0 for no row
  said,       \* source_events: the report each key was last stored with
  look        \* what each writer found out and has not written yet

store == <<events, bound, said, look>>

StoreInit == /\ events = <<>>
             /\ bound = [k \in Keys |-> 0]
             /\ said = [k \in Keys |-> CHOOSE g \in Games : TRUE]
             /\ look = [w \in Writers |-> Nothing]

-----------------------------------------------------------------------------
\* Stored events a report matches (list_for_team and event_match_score), and
\* the one that is exactly the report (uq_events_identity).
AlikeTo(g) == {i \in DOMAIN events : <<g, events[i]>> \in Alike}
Exactly(g) == {i \in DOMAIN events : events[i] = g}

\* The event to bind to when the set leaves no choice, 0 to insert a new one.
Only(S) == IF Cardinality(S) = 1 THEN CHOOSE i \in S : TRUE ELSE 0
Whichever(S) == IF S = {} THEN 0 ELSE CHOOSE i \in S : TRUE

\* upsert of a key that has a row: it keeps its event while that is alike,
\* else it moves to the only other one that is, else to a new one.  (The mutant
\* keeps a known source where it is.)
KnownTarget_Stays(k, g) == bound[k]
KnownTarget(k, g) == IF bound[k] \in AlikeTo(g) THEN bound[k]
                     ELSE Only(AlikeTo(g) \ {bound[k]})

\* upsert of a new key: the caller's canonical event, or the very same one.
NewTarget(g, canonical) == IF canonical # 0 THEN canonical ELSE Whichever(Exactly(g))

\* Where a report goes.  Both callers (_upsert_matched_event and _manual_event)
\* pass the only alike event as the canonical one.
Target(k, g) == IF bound[k] # 0 THEN KnownTarget(k, g)
                ELSE NewTarget(g, Only(AlikeTo(g)))

Look(w, k, g) == /\ look[w] = Nothing
                 /\ look' = [look EXCEPT ![w] = [key |-> k, game |-> g,
                                                 target |-> Target(k, g)]]
                 /\ UNCHANGED <<events, bound, said>>

\* The insert meets the unique identity: somebody stored the same event since,
\* or a known source moves into a crowd of alike events that holds it already.
Collides(w) == look[w].target = 0 /\ Exactly(look[w].game) # {}

StoredAs(w) == IF look[w].target # 0 THEN look[w].target ELSE Len(events) + 1

Store(w) == /\ look[w] # Nothing /\ ~Collides(w)
            /\ events' = IF look[w].target # 0 THEN events
                         ELSE Append(events, look[w].game)
            /\ bound' = [bound EXCEPT ![look[w].key] = StoredAs(w)]
            /\ said' = [said EXCEPT ![look[w].key] = look[w].game]
            /\ look' = [look EXCEPT ![w] = Nothing]

\* Rolled back: by the collision or by any other failure of the transaction.
RollBack(w) == /\ look[w] # Nothing
               /\ look' = [look EXCEPT ![w] = Nothing]
               /\ UNCHANGED <<events, bound, said>>

-----------------------------------------------------------------------------
(* Properties                                                              *)

StoreTypeOK ==
  /\ events \in Seq(Games)
  /\ bound \in [Keys -> 0..Len(events)]
  /\ said \in [Keys -> Games]
  /\ look \in [Writers -> [key : Keys, game : Games, target : 0..Len(events)]
                          \cup {Nothing}]

\* What a source last reported of a game is alike to the event it is filed
\* under, whatever it reported before and whatever other sources stored in
\* between: prices of two games are never compared.
FiledUnderItsGame ==
  \A k \in Keys : bound[k] # 0 => <<said[k], events[bound[k]]>> \in Alike
=============================================================================
