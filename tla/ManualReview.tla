---------------------------- MODULE ManualReview ----------------------------
(***************************************************************************)
(* Manual reviews (web/routes.py): the user uploads a screenshot of a      *)
(* pair, corrects what was read from it and confirms; the confirmation     *)
(* stores the game, the pair and its estimate in one transaction.  Staged  *)
(* uploads that were never confirmed are purged a day later, before the    *)
(* next upload.  A screenshot is a file, its review a row; no transaction  *)
(* spans both, and the process may die between them.                       *)
(*                                                                         *)
(* The handlers run on one event loop and wait for nothing between the     *)
(* look at a row and the end of their work, so one of them is under way at *)
(* a time (pc); the confirmation lock is never contended.  Only the body   *)
(* of an upload is awaited (receiving).  The scan thread stores events     *)
(* meanwhile.                                                              *)
(*                                                                         *)
(* Row ids are SQLite's: INTEGER PRIMARY KEY without AUTOINCREMENT gives a *)
(* new row the id after the largest one there is, so the id of a deleted   *)
(* last row comes back.                                                    *)
(***************************************************************************)
EXTENDS EventStore, FiniteSetsExt

CONSTANTS
  Uploads,     \* screenshots; the random name of its file goes with each
  ScanKeys,    \* keys of the marketplaces' events
  PurgeLimit   \* rows a purge looks at: .limit(50)

Loop == "loop"
Scan == "scan"
\* The key, and the listing, of the review with this id: "manual-review:{id}".
ManualKey(id) == <<"manual", id>>

ASSUME UploadsAssumption ==
  /\ IsFiniteSet(Uploads) /\ Nothing \notin Uploads
  /\ Writers = {Loop, Scan}
  /\ Keys = ScanKeys \cup {ManualKey(i) : i \in 1..Cardinality(Uploads)}
ASSUME LimitAssumption == PurgeLimit \in Nat \ {0}

VARIABLES
  reviews,     \* manual_reviews: id -> row
  opps,        \* opportunities: one per confirmation, never deleted
  marked,      \* opportunities the user gave a terminal outcome
  files,       \* screenshots on the disk
  drawn,       \* file names drawn so far
  pc,          \* where the handler under way is; "idle": none is
  cur,         \* the upload whose handler is under way
  todo,        \* rows a purge has still to visit
  gone,        \* snapshot of the row just deleted
  receiving,   \* uploads whose body is being received
  strays       \* files whose removal failed for good or was cut short

tables == <<reviews, opps, marked>>
work == <<pc, cur, todo, gone, receiving>>
vars == <<store, tables, files, drawn, work, strays>>

Rows == [file : Uploads, state : {"staged", "confirmed"}, old : BOOLEAN, opp : Nat]

Ids == DOMAIN reviews
NewId == Max(Ids \cup {0}) + 1
Without(id) == [i \in Ids \ {id} |-> reviews[i]]
With(id, row) == [i \in Ids \cup {id} |-> IF i = id THEN row ELSE reviews[i]]

Init == /\ StoreInit
        /\ reviews = <<>> /\ opps = <<>> /\ marked = {}
        /\ files = {} /\ drawn = {} /\ strays = {}
        /\ pc = "idle" /\ cur = Nothing /\ todo = {} /\ gone = Nothing
        /\ receiving = {}

-----------------------------------------------------------------------------
(* Upload: manual_extract                                                  *)

\* More than _STAGED_TTL old.  (The mutant does not ask.)
Expired_Whatever(i) == TRUE
Expired(i) == reviews[i].old

\* The first unconfirmed rows, of which the expired ones are visited.
Looked == {i \in Ids : /\ reviews[i].state = "staged"
                       /\ Cardinality({j \in Ids : j < i /\ reviews[j].state = "staged"})
                            < PurgeLimit}

BeginUpload(u) == /\ pc = "idle" /\ u \notin drawn \cup receiving
                  /\ pc' = "purge" /\ cur' = u
                  /\ todo' = {i \in Looked : Expired(i)}
                  /\ UNCHANGED <<store, tables, files, drawn, gone, receiving, strays>>

\* Any failure leaves a row for the next purge.
PurgeSkips == /\ pc = "purge" /\ todo # {}
              /\ todo' = todo \ {Min(todo)}
              /\ UNCHANGED <<store, tables, files, drawn, pc, cur, gone, receiving, strays>>

DeleteRow(id) == /\ reviews' = Without(id)
                 /\ gone' = [id |-> id, row |-> reviews[id]]
                 /\ pc' = "unlink"

PurgeDeletes == /\ pc = "purge" /\ todo # {}
                /\ LET id == Min(todo) IN
                     /\ id \in Ids /\ reviews[id].state = "staged"
                     /\ DeleteRow(id)
                     /\ todo' = todo \ {id}
                /\ UNCHANGED <<store, opps, marked, files, drawn, cur, receiving, strays>>

\* The loop is free while the body comes in.
PurgeEnds == /\ pc = "purge" /\ todo = {}
             /\ pc' = "idle" /\ cur' = Nothing
             /\ receiving' = receiving \cup {cur}
             /\ UNCHANGED <<store, tables, files, drawn, todo, gone, strays>>

\* Too large, not an image, or the client is gone.
BodyIsRefused(u) == /\ pc = "idle" /\ u \in receiving
                    /\ receiving' = receiving \ {u}
                    /\ UNCHANGED <<store, tables, files, drawn, pc, cur, todo, gone, strays>>

\* _write_screenshot, under a name nobody has
WriteFile(u) == /\ pc = "idle" /\ u \in receiving
                /\ receiving' = receiving \ {u}
                /\ files' = files \cup {u} /\ drawn' = drawn \cup {u}
                /\ pc' = "written" /\ cur' = u
                /\ UNCHANGED <<store, tables, todo, gone, strays>>

\* The text is recognised and the row committed.
StoreRow == /\ pc = "written"
            /\ reviews' = With(NewId, [file |-> cur, state |-> "staged",
                                       old |-> FALSE, opp |-> 0])
            /\ pc' = "idle" /\ cur' = Nothing
            /\ UNCHANGED <<store, opps, marked, files, drawn, todo, gone, receiving, strays>>

\* Writing, recognition or the transaction failed; the file is removed, unless
\* that fails too, which is ignored.  (The mutant forgets it.)
UploadFails_Leaves ==
  /\ pc = "written"
  /\ pc' = "idle" /\ cur' = Nothing
  /\ UNCHANGED <<store, tables, files, drawn, todo, gone, receiving, strays>>
UploadFails == /\ pc = "written"
               /\ \/ files' = files \ {cur} /\ UNCHANGED strays
                  \/ strays' = strays \cup {cur} /\ UNCHANGED files
               /\ pc' = "idle" /\ cur' = Nothing
               /\ UNCHANGED <<store, tables, drawn, todo, gone, receiving>>

-----------------------------------------------------------------------------
(* Deletion: manual_delete and _delete_private_review                      *)

Delete(id) == /\ pc = "idle" /\ id \in Ids
              /\ DeleteRow(id)
              /\ UNCHANGED <<store, opps, marked, files, drawn, cur, todo, receiving, strays>>

\* A purge goes on with its next row; a deletion is over.
Return == pc' = (IF cur = Nothing THEN "idle" ELSE "purge") /\ gone' = Nothing

\* (The mutant restores the row whatever became of the file.)
Unlink_ThenRestored == /\ pc = "unlink"
                       /\ files' = files \ {gone.row.file}
                       /\ reviews' = With(gone.id, gone.row)
                       /\ Return
                       /\ UNCHANGED <<store, opps, marked, drawn, cur, todo, receiving, strays>>
Unlink == /\ pc = "unlink"
          /\ files' = files \ {gone.row.file}
          /\ Return
          /\ UNCHANGED <<store, tables, drawn, cur, todo, receiving, strays>>

\* The file stays, so the row comes back as it was.
Restore == /\ pc = "unlink"
           /\ reviews' = With(gone.id, gone.row)
           /\ Return
           /\ UNCHANGED <<store, opps, marked, files, drawn, cur, todo, receiving, strays>>

\* "manual review compensation failed"
RestoreFails == /\ pc = "unlink"
                /\ strays' = strays \cup {gone.row.file}
                /\ Return
                /\ UNCHANGED <<store, tables, files, drawn, cur, todo, receiving>>

-----------------------------------------------------------------------------
(* Confirmation: manual_confirm                                            *)

\* A review that is confirmed already is answered with what it has.  (The mutant
\* scores it again.)
Unconfirmed_Whatever(id) == TRUE
Unconfirmed(id) == reviews[id].state = "staged"

\* The game the user typed in must not match two stored events.
Confirm(id, g) == /\ pc = "idle" /\ id \in Ids
                  /\ Unconfirmed(id)
                  /\ bound[ManualKey(id)] = 0 => Cardinality(AlikeTo(g)) <= 1
                  /\ Look(Loop, ManualKey(id), g)
                  /\ pc' = "confirm"
                  /\ UNCHANGED <<tables, files, drawn, cur, todo, gone, receiving, strays>>

Confirming == look[Loop].key[2]

\* save_estimate gives the status of the latest outcome of the same listing.
Inherited(id) == IF \E n \in marked : opps[n].review = id THEN "passed" ELSE "new"

\* Event, observation, opportunity and the confirmed row: one transaction.
ConfirmCommits ==
  /\ pc = "confirm" /\ Store(Loop)
  /\ opps' = Append(opps, [review |-> Confirming, file |-> reviews[Confirming].file,
                           game |-> look[Loop].game, event |-> StoredAs(Loop),
                           status |-> Inherited(Confirming)])
  /\ reviews' = [reviews EXCEPT ![Confirming].state = "confirmed",
                                ![Confirming].opp = Len(opps) + 1]
  /\ pc' = "idle"
  /\ UNCHANGED <<marked, files, drawn, cur, todo, gone, receiving, strays>>

ConfirmFails == /\ pc = "confirm" /\ RollBack(Loop)
                /\ pc' = "idle"
                /\ UNCHANGED <<tables, files, drawn, cur, todo, gone, receiving, strays>>

-----------------------------------------------------------------------------
(* What happens besides                                                    *)

\* update_outcome with a terminal status
Mark(n) == /\ pc = "idle" /\ n \in DOMAIN opps
           /\ marked' = marked \cup {n}
           /\ UNCHANGED <<store, reviews, opps, files, drawn, work, strays>>

\* More than _STAGED_TTL passes.
DayPasses == /\ reviews' = [i \in Ids |-> [reviews[i] EXCEPT !.old = TRUE]]
             /\ UNCHANGED <<store, opps, marked, files, drawn, work, strays>>

ScanSteps == /\ \/ \E k \in ScanKeys, g \in Games : Look(Scan, k, g)
                \/ Store(Scan)
                \/ RollBack(Scan)
             /\ UNCHANGED <<tables, files, drawn, work, strays>>

\* The process dies and is started again.
Crash == /\ look' = [w \in Writers |-> Nothing]
         /\ strays' = strays \cup (CASE pc = "written" -> {cur}
                                     [] pc = "unlink" -> {gone.row.file}
                                     [] OTHER -> {})
         /\ pc' = "idle" /\ cur' = Nothing /\ todo' = {} /\ gone' = Nothing
         /\ receiving' = {}
         /\ UNCHANGED <<events, bound, said, tables, files, drawn>>

Next == \/ \E u \in Uploads : BeginUpload(u) \/ BodyIsRefused(u) \/ WriteFile(u)
        \/ PurgeSkips \/ PurgeDeletes \/ PurgeEnds \/ StoreRow \/ UploadFails
        \/ \E id \in Ids : Delete(id) \/ \E g \in Games : Confirm(id, g)
        \/ Unlink \/ Restore \/ RestoreFails
        \/ ConfirmCommits \/ ConfirmFails
        \/ \E n \in DOMAIN opps : Mark(n)
        \/ DayPasses \/ ScanSteps \/ Crash

Spec == Init /\ [][Next]_vars

-----------------------------------------------------------------------------
(* Properties                                                              *)

TypeOK ==
  /\ StoreTypeOK
  /\ Ids \subseteq 1..Cardinality(Uploads)
  /\ reviews \in [Ids -> Rows]
  /\ opps \in Seq([review : Nat, file : Uploads, game : Games, event : Nat,
                   status : {"new", "passed"}])
  /\ marked \subseteq DOMAIN opps
  /\ files \subseteq drawn /\ strays \subseteq files /\ drawn \subseteq Uploads
  /\ pc \in {"idle", "purge", "written", "unlink", "confirm"}
  /\ cur \in Uploads \cup {Nothing} /\ receiving \subseteq Uploads \ drawn
  /\ todo \subseteq 1..Cardinality(Uploads)
  /\ pc = "unlink" => gone \in [id : 1..Cardinality(Uploads), row : Rows]
  /\ pc # "unlink" => gone = Nothing
  /\ pc = "confirm" <=> look[Loop] # Nothing

\* A screenshot is scored once, however often its form is sent, whatever fails
\* and whenever the process dies: a staged review has no opportunity, a
\* confirmed one exactly the one its row names, and no two are of one upload.
OneScorePerUpload ==
  /\ \A i \in Ids : {n \in DOMAIN opps : opps[n].file = reviews[i].file}
                      = IF reviews[i].state = "staged" THEN {} ELSE {reviews[i].opp}
  /\ \A m, n \in DOMAIN opps : opps[m].file = opps[n].file => m = n

\* No review points to a missing file or to another review's.
RowsHaveTheirFiles ==
  \A i, j \in Ids : /\ reviews[i].file \in files
                    /\ reviews[i].file = reviews[j].file => i = j

\* A private screenshot whose review is gone is on the disk only while its
\* handler is under way, or after a crash or a removal that failed twice.
FilesHaveTheirRows ==
  \A f \in files \ strays : \/ \E i \in Ids : reviews[i].file = f
                            \/ pc = "written" /\ cur = f
                            \/ pc = "unlink" /\ gone.row.file = f

\* What was scored is filed under the event of the game the user typed in, also
\* when the scan stored that game in between or the review's id was used
\* before, and so are the reports of the marketplaces.
FiledRight ==
  /\ FiledUnderItsGame
  /\ \A n \in DOMAIN opps : <<opps[n].game, events[opps[n].event]>> \in Alike

\* An upload takes nothing from the user but staged uploads of an earlier day.
UploadsOnlyPurgeOldOnes ==
  [][\A i \in Ids : (pc = "purge" /\ i \notin DOMAIN reviews')
                      => reviews[i].state = "staged" /\ reviews[i].old]_vars

\* The design (docs, 2026-08-07, :206 and :209): a newly discovered opportunity is
\* alerted; only its own outcome stops that.  The pair on a new screenshot was
\* never given an outcome.
NewPairsStartAfresh == \A n \in DOMAIN opps : opps[n].status = "new"
=============================================================================
