-------------------------- MODULE ManualReviewProofs --------------------------
(***************************************************************************)
(* Proofs about ManualReview and the EventStore it stores its games in,    *)
(* for any screenshots, any games and any number of rows that a purge      *)
(* looks at.                                                               *)
(*                                                                         *)
(* A row that is being deleted is neither in the table nor gone: its file  *)
(* may stay, and then the row comes back.  The invariant is stated over    *)
(* Held, the table with that row in it: no step of a deletion changes Held *)
(* before the file is gone or given up.  Over Held, rows and files belong  *)
(* together (Kept), a staged row was never scored and a confirmed one once *)
(* (Scored), and an id is at most the number of uploads that have come to  *)
(* a row, although ids come back (Counted).  Visited says what a purge     *)
(* still has before it, and Aimed that a thread that is about to store a   *)
(* report has an event in mind that is alike to it: stored events never    *)
(* change, so this outlives whatever the other thread stores.              *)
(*                                                                         *)
(* The last section is about the score of Matching, which makes games      *)
(* alike: what EventStore assumes of the relation holds of the code's.     *)
(***************************************************************************)
EXTENDS ManualReview, Matching, FiniteSetTheorems, SequenceTheorems, TLAPS

\* What a writer of events found out.
Aimed ==
  \A w \in Writers : look[w] # Nothing /\ look[w].target # 0
    => <<look[w].game, events[look[w].target]>> \in Alike

StoreInv == StoreTypeOK /\ Aimed /\ FiledUnderItsGame

\* reviews, with the row that is being deleted
Held == IF pc = "unlink" THEN With(gone.id, gone.row) ELSE reviews

Recorded == drawn \ (IF pc = "written" THEN {cur} ELSE {})
Counted == \A i \in DOMAIN Held : i \in 1..Cardinality(Recorded)

Kept ==
  /\ pc = "unlink" => gone.id \notin Ids
  /\ \A i \in DOMAIN Held : Held[i].file \in files \ strays
  /\ \A i, j \in DOMAIN Held : Held[i].file = Held[j].file => i = j
  /\ \A f \in files \ strays : \/ \E i \in DOMAIN Held : Held[i].file = f
                               \/ pc = "written" /\ cur = f
  /\ pc = "written" => /\ cur \in files \ strays
                       /\ \A i \in Ids : reviews[i].file # cur

Scored ==
  /\ \A i \in DOMAIN Held : {n \in DOMAIN opps : opps[n].file = Held[i].file}
                              = IF Held[i].state = "staged" THEN {} ELSE {Held[i].opp}
  /\ \A m, n \in DOMAIN opps : opps[m].file = opps[n].file => m = n
  /\ \A n \in DOMAIN opps : opps[n].file \in Recorded
  /\ pc = "confirm" => \E id \in Ids : /\ reviews[id].state = "staged"
                                       /\ look[Loop].key = ManualKey(id)

Filed == \A n \in DOMAIN opps : /\ opps[n].event \in DOMAIN events
                                /\ <<opps[n].game, events[opps[n].event]>> \in Alike

Visited ==
  /\ \A i \in todo \cap Ids : reviews[i].old
  /\ pc = "unlink" => gone.id \notin todo
  /\ cur = Nothing \/ pc = "written" => todo = {}
  /\ pc \in {"idle", "confirm"} => cur = Nothing
  /\ pc \in {"purge", "written"} => cur # Nothing
  /\ pc \in {"purge", "unlink"} => cur \notin drawn

IInv == TypeOK /\ StoreInv /\ Counted /\ Kept /\ Scored /\ Filed /\ Visited

-------------------------------------------------------------------------------
(* Stored events                                                           *)

LEMMA OnlyOne == ASSUME NEW S \in SUBSET Nat PROVE Only(S) = 0 \/ Only(S) \in S
<1>1. Cardinality(S) = 1 => S # {}
  BY FS_EmptySet
<1> QED
  BY <1>1 DEF Only

\* Whatever the tables hold, a report is filed under an event it is alike to,
\* or under a new one.
LEMMA TargetIsAlike ==
  ASSUME StoreTypeOK, NEW k \in Keys, NEW g \in Games
  PROVE  /\ Target(k, g) \in 0..Len(events)
         /\ Target(k, g) # 0 => <<g, events[Target(k, g)]>> \in Alike
<1>1. /\ Len(events) \in Nat /\ DOMAIN events = 1..Len(events) /\ bound[k] \in 0..Len(events)
      /\ \A i \in 1..Len(events) : events[i] \in Games
  BY LenProperties, ElementOfSeq DEF StoreTypeOK
<1>2. AlikeTo(g) \subseteq 1..Len(events) /\ \A i \in AlikeTo(g) : <<g, events[i]>> \in Alike
  BY <1>1 DEF AlikeTo
<1>3. Exactly(g) \subseteq 1..Len(events) /\ \A i \in Exactly(g) : <<g, events[i]>> \in Alike
  BY <1>1, AlikeAssumption DEF Exactly
<1>4. \A S \in SUBSET (1..Len(events)) : Only(S) = 0 \/ Only(S) \in S
  BY <1>1, OnlyOne
<1>5. Whichever(Exactly(g)) = 0 \/ Whichever(Exactly(g)) \in Exactly(g)
  BY DEF Whichever
<1>6. KnownTarget(k, g) = 0 \/ KnownTarget(k, g) \in AlikeTo(g)
  BY <1>2, <1>4 DEF KnownTarget
<1>7. NewTarget(g, Only(AlikeTo(g))) = 0 \/ NewTarget(g, Only(AlikeTo(g))) \in AlikeTo(g) \cup Exactly(g)
  BY <1>2, <1>4, <1>5 DEF NewTarget
<1> QED
  BY <1>1, <1>2, <1>3, <1>6, <1>7 DEF Target

LEMMA LookStep ==
  ASSUME StoreInv, NEW w \in Writers, NEW k \in Keys, NEW g \in Games, Look(w, k, g)
  PROVE  /\ StoreInv' /\ events' = events
         /\ look'[w] # Nothing /\ look'[w].key = k
         /\ \A v \in Writers \ {w} : look'[v] = look[v]
<1> DEFINE r == [key |-> k, game |-> g, target |-> Target(k, g)]
<1>1. r \in [key : Keys, game : Games, target : 0..Len(events)] /\ r # Nothing
  <2>1. Target(k, g) \in 0..Len(events)
    BY TargetIsAlike DEF StoreInv
  <2>2. Len(events) \in Nat
    BY LenProperties DEF StoreInv, StoreTypeOK
  <2>3. Target(k, g) \in Nat
    BY <2>1, <2>2
  <2>4. r \in [key : Keys, game : Games, target : Nat]
    BY <2>3
  <2> QED
    BY <2>1, <2>4, NothingAssumption
<1>2. r.key = k /\ r.game = g /\ r.target = Target(k, g)
  OBVIOUS
<1>3. look' = [look EXCEPT ![w] = r] /\ UNCHANGED <<events, bound, said>>
  BY DEF Look
<1> HIDE DEF r
<1>4. StoreTypeOK' /\ \A v \in Writers : look'[v] = IF v = w THEN r ELSE look[v]
  BY <1>1, <1>3 DEF StoreInv, StoreTypeOK
<1>5. r.target # 0 => <<r.game, events[r.target]>> \in Alike
  BY <1>2, TargetIsAlike DEF StoreInv
<1>6. Aimed' /\ FiledUnderItsGame'
  BY <1>3, <1>4, <1>5 DEF StoreInv, Aimed, FiledUnderItsGame
<1> QED
  BY <1>1, <1>2, <1>3, <1>4, <1>6 DEF StoreInv

LEMMA StoreStep ==
  ASSUME StoreInv, NEW w \in Writers, Store(w)
  PROVE  /\ StoreInv' /\ look'[w] = Nothing /\ look[w].game \in Games
         /\ \A v \in Writers \ {w} : look'[v] = look[v]
         /\ \A i \in DOMAIN events : i \in DOMAIN events' /\ events'[i] = events[i]
         /\ StoredAs(w) \in DOMAIN events' /\ <<look[w].game, events'[StoredAs(w)]>> \in Alike
<1> DEFINE k == look[w].key
           g == look[w].game
           e == look[w].target
<1>1. k \in Keys /\ g \in Games /\ e \in 0..Len(events) /\ look[w] # Nothing
  BY DEF StoreInv, StoreTypeOK, Store
<1>2. /\ bound' = [bound EXCEPT ![k] = StoredAs(w)] /\ said' = [said EXCEPT ![k] = g]
      /\ look' = [look EXCEPT ![w] = Nothing]
      /\ events' = IF e # 0 THEN events ELSE Append(events, g)
  BY DEF Store
<1>3. StoredAs(w) = IF e # 0 THEN e ELSE Len(events) + 1
  BY DEF StoredAs
<1>4. e # 0 => <<g, events[e]>> \in Alike
  BY <1>1 DEF StoreInv, Aimed
<1> HIDE DEF k, g, e
<1>5. events \in Seq(Games) /\ Len(events) \in Nat /\ DOMAIN events = 1..Len(events)
  BY LenProperties DEF StoreInv, StoreTypeOK
<1>6. /\ events' \in Seq(Games) /\ Len(events') >= Len(events) /\ DOMAIN events' = 1..Len(events')
      /\ \A i \in 1..Len(events) : events'[i] = events[i]
      /\ StoredAs(w) \in 1..Len(events') /\ <<g, events'[StoredAs(w)]>> \in Alike
  <2>1. CASE e # 0
    BY <1>1, <1>2, <1>3, <1>4, <1>5, <2>1
  <2>2. CASE e = 0
    <3>1. /\ events' \in Seq(Games) /\ Len(events') = Len(events) + 1 /\ events'[Len(events) + 1] = g
          /\ \A i \in 1..Len(events) : events'[i] = events[i]
      BY <1>1, <1>2, <1>5, <2>2, AppendProperties
    <3>2. <<g, g>> \in Alike
      BY <1>1, AlikeAssumption
    <3> QED
      BY <1>3, <1>5, <2>2, <3>1, <3>2, LenProperties
  <2> QED
    BY <2>1, <2>2
<1>7. \A v \in Writers : look'[v] = IF v = w THEN Nothing ELSE look[v]
  BY <1>2 DEF StoreInv, StoreTypeOK
<1>8. StoreTypeOK'
  <2>1. \A i : i \in 0..Len(events) => i \in 0..Len(events')
    BY <1>5, <1>6
  <2>2. bound' \in [Keys -> 0..Len(events')] /\ said' \in [Keys -> Games]
    BY <1>1, <1>2, <1>6, <2>1 DEF StoreInv, StoreTypeOK
  <2>3. look' \in [Writers -> [key : Keys, game : Games, target : 0..Len(events')] \cup {Nothing}]
    BY <1>2, <2>1 DEF StoreInv, StoreTypeOK
  <2> QED
    BY <1>6, <2>2, <2>3 DEF StoreTypeOK
<1>9. Aimed'
  <2>1. ASSUME NEW v \in Writers, look'[v] # Nothing, look'[v].target # 0
        PROVE  <<look'[v].game, events'[look'[v].target]>> \in Alike
    <3>1. look'[v] = look[v] /\ look[v].target \in 1..Len(events)
      BY <1>5, <1>7, <2>1 DEF StoreInv, StoreTypeOK
    <3> QED
      BY <1>6, <2>1, <3>1 DEF StoreInv, Aimed
  <2> QED
    BY <2>1 DEF Aimed
<1>10. FiledUnderItsGame'
  <2>1. ASSUME NEW j \in Keys, bound'[j] # 0 PROVE <<said'[j], events'[bound'[j]]>> \in Alike
    <3>1. CASE j = k
      BY <1>1, <1>2, <1>6, <3>1 DEF StoreInv, StoreTypeOK
    <3>2. CASE j # k
      <4>1. bound'[j] = bound[j] /\ said'[j] = said[j] /\ bound[j] \in 1..Len(events)
        BY <1>2, <1>5, <2>1, <3>2 DEF StoreInv, StoreTypeOK
      <4> QED
        BY <1>6, <2>1, <4>1 DEF StoreInv, FiledUnderItsGame
    <3> QED
      BY <3>1, <3>2
  <2> QED
    BY <2>1 DEF FiledUnderItsGame
<1> QED
  BY <1>1, <1>5, <1>6, <1>7, <1>8, <1>9, <1>10 DEF StoreInv, g

LEMMA RollBackStep ==
  ASSUME StoreInv, NEW w \in Writers, RollBack(w)
  PROVE  /\ StoreInv' /\ look'[w] = Nothing /\ events' = events
         /\ \A v \in Writers \ {w} : look'[v] = look[v]
<1>1. \A v \in Writers : look'[v] = IF v = w THEN Nothing ELSE look[v]
  BY DEF RollBack, StoreInv, StoreTypeOK
<1> QED
  BY <1>1 DEF RollBack, StoreInv, StoreTypeOK, Aimed, FiledUnderItsGame

LEMMA SameStore == ASSUME StoreInv, UNCHANGED store PROVE StoreInv'
BY DEF StoreInv, StoreTypeOK, Aimed, FiledUnderItsGame, store

-------------------------------------------------------------------------------
(* Rows                                                                    *)

USE DEF Ids

LEMMA Threads == Loop \in Writers /\ Scan \in Writers /\ Loop # Scan
BY UploadsAssumption DEF Loop, Scan

LEMMA UploadsType ==
  /\ Cardinality(Uploads) \in Nat
  /\ \A S \in SUBSET Uploads : IsFiniteSet(S) /\ Cardinality(S) \in 0..Cardinality(Uploads)
<1>1. IsFiniteSet(Uploads) /\ Cardinality(Uploads) \in Nat
  BY UploadsAssumption, FS_CardinalityType
<1> QED
  BY <1>1, FS_Subset, FS_CardinalityType

LEMMA HeldRows ==
  ASSUME TypeOK
  PROVE  /\ pc # "unlink" => Held = reviews
         /\ pc = "unlink" => /\ DOMAIN Held = Ids \cup {gone.id} /\ Held[gone.id] = gone.row
                             /\ \A i \in Ids \ {gone.id} : Held[i] = reviews[i]
         /\ \A i \in DOMAIN Held : Held[i] \in Rows
BY DEF TypeOK, Held, With

\* Nothing happens to rows and files.
LEMMA SameRows ==
  ASSUME IInv, UNCHANGED <<reviews, gone, files, strays, drawn>>,
         pc' = "unlink" <=> pc = "unlink", pc' = "written" <=> pc = "written",
         pc = "written" => cur' = cur
  PROVE  Held' = Held /\ Recorded' = Recorded /\ Counted' /\ Kept'
<1>1. Held' = Held
  BY DEF Held, With
<1>2. Recorded' = Recorded
  BY DEF Recorded
<1>3. Counted'
  BY <1>1, <1>2 DEF IInv, Counted
<1>4. Kept'
  BY <1>1 DEF IInv, Kept
<1> QED
  BY <1>1, <1>2, <1>3, <1>4

\* Nor to opportunities, outside a confirmation.
LEMMA SameScores ==
  ASSUME IInv, Held' = Held, Recorded \subseteq Recorded', UNCHANGED opps, pc' # "confirm"
  PROVE  Scored'
BY DEF IInv, Scored

LEMMA BeginUploadInv == ASSUME IInv, NEW u \in Uploads, BeginUpload(u) PROVE IInv'
<1> USE DEF BeginUpload
<1>1. pc = "idle" /\ pc' = "purge" /\ cur' = u
  OBVIOUS
<1>2. TypeOK'
  <2>1. todo' \subseteq Ids
    BY DEF Looked
  <2> QED
    BY <1>1, <2>1, SameStore DEF IInv, TypeOK, StoreInv, store, tables
<1>3. Held' = Held /\ Recorded' = Recorded /\ Counted' /\ Kept'
  BY <1>1, SameRows DEF tables
<1>4. Scored'
  BY <1>1, <1>3, SameScores DEF tables
<1>5. StoreInv' /\ Filed'
  BY SameStore DEF IInv, Filed, store, tables
<1>6. Visited'
  <2>1. u # Nothing /\ u \notin drawn
    BY UploadsAssumption
  <2>2. \A i \in todo' : reviews[i].old
    BY DEF Expired
  <2> QED
    BY <1>1, <2>1, <2>2 DEF Visited, tables
<1> QED
  BY <1>2, <1>3, <1>4, <1>5, <1>6 DEF IInv

LEMMA PurgeInv == ASSUME IInv, PurgeSkips \/ PurgeEnds PROVE IInv'
<1> USE DEF PurgeSkips, PurgeEnds
<1>1. /\ pc = "purge" /\ pc' \in {"purge", "idle"} /\ todo' \subseteq todo
      /\ UNCHANGED <<store, tables, files, drawn, gone, strays>>
  OBVIOUS
<1>2. TypeOK'
  <2>1. cur \in Uploads \ drawn
    BY <1>1 DEF IInv, TypeOK, Visited
  <2>2. receiving' \subseteq Uploads \ drawn /\ cur' \in Uploads \cup {Nothing}
    BY <1>1, <2>1 DEF IInv, TypeOK
  <2> QED
    BY <1>1, <2>2, SameStore DEF IInv, TypeOK, StoreInv, store, tables
<1>3. Held' = Held /\ Recorded' = Recorded /\ Counted' /\ Kept'
  BY <1>1, SameRows DEF tables
<1>4. Scored'
  BY <1>1, <1>3, SameScores DEF tables
<1>5. StoreInv' /\ Filed'
  BY <1>1, SameStore DEF IInv, Filed, store, tables
<1>6. Visited'
  BY <1>1 DEF IInv, Visited, tables
<1> QED
  BY <1>2, <1>3, <1>4, <1>5, <1>6 DEF IInv

LEMMA RefusedInv == ASSUME IInv, NEW u \in Uploads, BodyIsRefused(u) PROVE IInv'
<1> USE DEF BodyIsRefused
<1>1. TypeOK'
  BY SameStore DEF IInv, TypeOK, StoreInv, store, tables
<1>2. Held' = Held /\ Recorded' = Recorded /\ Counted' /\ Kept'
  BY SameRows DEF tables
<1>3. Scored'
  BY <1>2, SameScores DEF tables
<1>4. StoreInv' /\ Filed' /\ Visited'
  BY SameStore DEF IInv, Filed, Visited, store, tables
<1> QED
  BY <1>1, <1>2, <1>3, <1>4 DEF IInv

LEMMA MarkInv == ASSUME IInv, NEW n \in DOMAIN opps, Mark(n) PROVE IInv'
<1> USE DEF Mark
<1>1. TypeOK'
  BY SameStore DEF IInv, TypeOK, StoreInv, store, work
<1>2. Held' = Held /\ Recorded' = Recorded /\ Counted' /\ Kept'
  BY SameRows DEF work
<1>3. Scored'
  BY <1>2, SameScores DEF work
<1>4. StoreInv' /\ Filed' /\ Visited'
  BY SameStore DEF IInv, Filed, Visited, store, work
<1> QED
  BY <1>1, <1>2, <1>3, <1>4 DEF IInv

-------------------------------------------------------------------------------
(* Events stored and looked up                                             *)

LEMMA ConfirmInv == ASSUME IInv, NEW id \in Ids, NEW g \in Games, Confirm(id, g) PROVE IInv'
<1> USE DEF Confirm
<1>1. /\ StoreInv' /\ events' = events
      /\ look'[Loop] # Nothing /\ look'[Loop].key = ManualKey(id)
  <2>1. ManualKey(id) \in Keys
    BY UploadsAssumption DEF IInv, TypeOK
  <2> QED
    BY <2>1, Threads, LookStep DEF IInv
<1>2. TypeOK'
  BY <1>1 DEF IInv, TypeOK, StoreInv, tables
<1>3. Held' = Held /\ Recorded' = Recorded /\ Counted' /\ Kept'
  BY SameRows DEF tables
<1>4. Scored'
  <2>1. reviews'[id].state = "staged" /\ id \in Ids'
    BY DEF Unconfirmed, tables
  <2> QED
    BY <1>1, <1>3, <2>1 DEF IInv, Scored, tables
<1>5. Filed' /\ Visited'
  BY <1>1 DEF IInv, Filed, Visited, tables
<1> QED
  BY <1>1, <1>2, <1>3, <1>4, <1>5 DEF IInv

LEMMA ConfirmFailsInv == ASSUME IInv, ConfirmFails PROVE IInv'
<1> USE DEF ConfirmFails
<1>1. StoreInv' /\ events' = events /\ look'[Loop] = Nothing
  BY Threads, RollBackStep DEF IInv
<1>2. TypeOK'
  BY <1>1 DEF IInv, TypeOK, StoreInv, tables
<1>3. Held' = Held /\ Recorded' = Recorded /\ Counted' /\ Kept'
  BY SameRows DEF tables
<1>4. Scored'
  BY <1>3, SameScores DEF tables
<1>5. Filed' /\ Visited'
  BY <1>1 DEF IInv, Filed, Visited, tables
<1> QED
  BY <1>1, <1>2, <1>3, <1>4, <1>5 DEF IInv

\* The scan neither takes the event that the loop has in mind nor changes it.
LEMMA ScanInv == ASSUME IInv, ScanSteps PROVE IInv'
<1>0. UNCHANGED <<tables, files, drawn, work, strays>>
  BY DEF ScanSteps
<1>1. /\ StoreInv' /\ look'[Loop] = look[Loop]
      /\ \A i \in DOMAIN events : i \in DOMAIN events' /\ events'[i] = events[i]
  <2>1. ASSUME NEW k \in ScanKeys, NEW g \in Games, Look(Scan, k, g)
        PROVE  StoreInv' /\ look'[Loop] = look[Loop] /\ events' = events
    <3>1. k \in Keys
      BY UploadsAssumption
    <3> QED
      BY <2>1, <3>1, Threads, LookStep DEF IInv
  <2>2. ASSUME Store(Scan)
        PROVE  /\ StoreInv' /\ look'[Loop] = look[Loop]
               /\ \A i \in DOMAIN events : i \in DOMAIN events' /\ events'[i] = events[i]
    BY <2>2, Threads, StoreStep DEF IInv
  <2>3. ASSUME RollBack(Scan)
        PROVE  StoreInv' /\ look'[Loop] = look[Loop] /\ events' = events
    BY <2>3, Threads, RollBackStep DEF IInv
  <2> QED
    BY <2>1, <2>2, <2>3 DEF ScanSteps
<1>2. TypeOK'
  BY <1>0, <1>1 DEF IInv, TypeOK, StoreInv, tables, work
<1>3. Held' = Held /\ Recorded' = Recorded /\ Counted' /\ Kept'
  BY <1>0, SameRows DEF tables, work
<1>4. Scored'
  BY <1>0, <1>1, <1>3 DEF IInv, Scored, tables, work
<1>5. Filed' /\ Visited'
  BY <1>0, <1>1 DEF IInv, Filed, Visited, tables, work
<1> QED
  BY <1>1, <1>2, <1>3, <1>4, <1>5 DEF IInv

-------------------------------------------------------------------------------
(* Rows deleted                                                            *)

\* The row is held until its file is gone.
LEMMA DeleteRowStep ==
  ASSUME IInv, NEW id \in Ids, pc # "unlink", DeleteRow(id), UNCHANGED <<files, strays, drawn, opps>>,
         pc # "written"
  PROVE  /\ Held' = Held /\ Recorded' = Recorded /\ Counted' /\ Kept' /\ Scored'
         /\ gone' \in [id : 1..Cardinality(Uploads), row : Rows] /\ gone'.id = id
         /\ pc' = "unlink" /\ Ids' = Ids \ {id} /\ \A i \in Ids' : reviews'[i] = reviews[i]
<1>1. /\ Ids' = Ids \ {id} /\ \A i \in Ids' : reviews'[i] = reviews[i]
      /\ pc' = "unlink" /\ gone' = [id |-> id, row |-> reviews[id]]
  BY DEF DeleteRow, Without
<1>2. id \in 1..Cardinality(Uploads) /\ reviews[id] \in Rows
  BY DEF IInv, TypeOK
<1>3. gone' \in [id : 1..Cardinality(Uploads), row : Rows] /\ gone'.id = id /\ gone'.row = reviews[id]
  BY <1>1, <1>2
<1>4. Held' = Held
  <2>1. Held = reviews
    BY DEF Held
  <2>2. Held' = [i \in Ids' \cup {id} |-> IF i = id THEN reviews[id] ELSE reviews'[i]]
    BY <1>1, <1>3 DEF Held, With
  <2>3. Ids' \cup {id} = Ids
    BY <1>1
  <2>4. \A i \in Ids : (IF i = id THEN reviews[id] ELSE reviews'[i]) = reviews[i]
    BY <1>1
  <2>5. reviews = [i \in Ids |-> reviews[i]]
    BY DEF IInv, TypeOK
  <2> QED
    BY <2>1, <2>2, <2>3, <2>4, <2>5
<1>5. Recorded' = Recorded
  BY <1>1 DEF Recorded
<1>6. Counted'
  BY <1>4, <1>5 DEF IInv, Counted
<1>7. Kept'
  BY <1>1, <1>3, <1>4 DEF IInv, Kept
<1>8. Scored'
  BY <1>1, <1>4, <1>5, SameScores
<1> QED
  BY <1>1, <1>3, <1>4, <1>5, <1>6, <1>7, <1>8

LEMMA Least ==
  ASSUME NEW S, S \subseteq Nat, S # {}
  PROVE  \E i \in S : \A j \in S : i <= j
<1>1. IsWellFoundedOn(OpToRel(<, Nat), Nat)
  BY NatLessThanWellFounded
<1>2. PICK i \in S : \A j \in S : <<j, i>> \notin OpToRel(<, Nat)
  BY <1>1, WFMin
<1>3. \A j \in S : ~(j < i)
  BY <1>2 DEF OpToRel
<1> QED
  BY <1>3

LEMMA DeleteInv ==
  ASSUME IInv, (\E id \in Ids : Delete(id)) \/ PurgeDeletes
  PROVE  IInv'
<1>1. PICK id \in Ids :
        /\ DeleteRow(id) /\ todo' \subseteq todo \ {id}
        /\ pc = "idle" \/ pc = "purge"
        /\ UNCHANGED <<store, opps, marked, files, drawn, cur, receiving, strays>>
  <2>1. ASSUME NEW id \in Ids, Delete(id) PROVE todo = {}
    BY <2>1 DEF Delete, IInv, Visited
  <2> QED
    BY <2>1 DEF Delete, PurgeDeletes
<1>2. pc # "unlink" /\ pc # "written"
  BY <1>1
<1>3. /\ Held' = Held /\ Counted' /\ Kept' /\ Scored'
      /\ gone' \in [id : 1..Cardinality(Uploads), row : Rows] /\ gone'.id = id
      /\ pc' = "unlink" /\ Ids' = Ids \ {id} /\ \A i \in Ids' : reviews'[i] = reviews[i]
  BY <1>1, <1>2, DeleteRowStep
<1>4. TypeOK'
  <2>1. reviews' \in [Ids' -> Rows]
    BY <1>1 DEF DeleteRow, Without, IInv, TypeOK
  <2>2. pc # "confirm"
    BY <1>1
  <2> QED
    BY <1>1, <1>3, <2>1, <2>2, SameStore DEF IInv, TypeOK, StoreInv, store
<1>5. StoreInv' /\ Filed'
  BY <1>1, SameStore DEF IInv, Filed, store
<1>6. Visited'
  <2>1. pc = "purge" => cur \notin drawn
    BY DEF IInv, Visited
  <2>2. pc = "idle" => cur = Nothing
    BY DEF IInv, Visited
  <2>3. Nothing \notin drawn
    BY UploadsAssumption DEF IInv, TypeOK
  <2> QED
    BY <1>1, <1>3, <2>1, <2>2, <2>3 DEF IInv, Visited
<1> QED
  BY <1>3, <1>4, <1>5, <1>6 DEF IInv

\* A deletion returns to its purge, or to nobody.
LEMMA ReturnStep ==
  ASSUME IInv, pc = "unlink", Return
  PROVE  /\ pc' \in {"idle", "purge"} /\ gone' = Nothing
         /\ pc' = "idle" => cur = Nothing
         /\ pc' = "purge" => cur # Nothing /\ cur \notin drawn
         /\ Recorded = drawn /\ look[Loop] = Nothing
BY DEF Return, IInv, Visited, Recorded, TypeOK

LEMMA RestoreInv == ASSUME IInv, Restore PROVE IInv'
<1>1. /\ pc = "unlink" /\ reviews' = With(gone.id, gone.row) /\ Return
      /\ UNCHANGED <<store, opps, marked, files, drawn, cur, todo, receiving, strays>>
  BY DEF Restore
<1>2. /\ pc' \in {"idle", "purge"} /\ gone' = Nothing
      /\ pc' = "idle" => cur = Nothing
      /\ pc' = "purge" => cur # Nothing /\ cur \notin drawn
      /\ Recorded = drawn /\ look[Loop] = Nothing
  BY <1>1, ReturnStep
<1>3. Held' = Held /\ reviews' = Held
  BY <1>1, <1>2 DEF Held
<1>4. Recorded' = Recorded
  BY <1>1, <1>2 DEF Recorded
<1>5. gone.id \in 1..Cardinality(Uploads) /\ gone.row \in Rows
  BY <1>1 DEF IInv, TypeOK
<1>6. /\ Ids' = Ids \cup {gone.id} /\ reviews' \in [Ids' -> Rows]
      /\ \A i \in Ids \ {gone.id} : reviews'[i] = reviews[i]
  BY <1>1, <1>5 DEF With, IInv, TypeOK
<1>7. TypeOK'
  BY <1>1, <1>2, <1>5, <1>6, SameStore DEF IInv, TypeOK, StoreInv, store
<1>8. Counted' /\ Kept'
  BY <1>1, <1>2, <1>3, <1>4 DEF IInv, Counted, Kept
<1>9. Scored'
  BY <1>1, <1>2, <1>3, <1>4, SameScores
<1>10. StoreInv' /\ Filed'
  BY <1>1, SameStore DEF IInv, Filed, store
<1>11. Visited'
  <2>1. gone.id \notin todo
    BY <1>1 DEF IInv, Visited
  <2> QED
    BY <1>1, <1>2, <1>6, <2>1 DEF IInv, Visited
<1> QED
  BY <1>7, <1>8, <1>9, <1>10, <1>11 DEF IInv

\* The row is gone, and its file is gone or given up.
LEMMA GoneInv == ASSUME IInv, Unlink \/ RestoreFails PROVE IInv'
<1>1. /\ pc = "unlink" /\ Return
      /\ UNCHANGED <<store, tables, drawn, cur, todo, receiving>>
      /\ \/ files' = files \ {gone.row.file} /\ strays' = strays
         \/ strays' = strays \cup {gone.row.file} /\ files' = files
  BY DEF Unlink, RestoreFails
<1>2. /\ pc' \in {"idle", "purge"} /\ gone' = Nothing
      /\ pc' = "idle" => cur = Nothing
      /\ pc' = "purge" => cur # Nothing /\ cur \notin drawn
      /\ Recorded = drawn /\ look[Loop] = Nothing
  BY <1>1, ReturnStep
<1>3. Recorded' = Recorded
  BY <1>1, <1>2 DEF Recorded
<1>4. /\ Held' = reviews /\ gone.id \notin Ids /\ DOMAIN Held = Ids \cup {gone.id}
      /\ Held[gone.id] = gone.row /\ \A i \in Ids : Held[i] = reviews[i]
  <2>1. gone.id \notin Ids
    BY <1>1 DEF IInv, Kept
  <2> QED
    BY <1>1, <1>2, <2>1, HeldRows DEF Held, IInv, tables
<1>5. gone.row.file \in files \ strays /\ \A i \in Ids : reviews[i].file # gone.row.file
  BY <1>1, <1>4 DEF IInv, Kept
<1>6. files' \ strays' = (files \ strays) \ {gone.row.file} /\ strays' \subseteq files' /\ files' \subseteq files
  BY <1>1, <1>5 DEF IInv, TypeOK
<1>7. TypeOK'
  BY <1>1, <1>2, <1>6, SameStore DEF IInv, TypeOK, StoreInv, store, tables
<1>8. Counted'
  BY <1>3, <1>4 DEF IInv, Counted
<1>9. Kept'
  BY <1>1, <1>2, <1>4, <1>5, <1>6 DEF IInv, Kept
<1>10. Scored'
  BY <1>1, <1>2, <1>3, <1>4 DEF IInv, Scored, tables
<1>11. StoreInv' /\ Filed'
  BY <1>1, SameStore DEF IInv, Filed, store, tables
<1>12. Visited'
  BY <1>1, <1>2 DEF IInv, Visited, tables
<1> QED
  BY <1>7, <1>8, <1>9, <1>10, <1>11, <1>12 DEF IInv

-------------------------------------------------------------------------------
(* Rows written                                                            *)

\* A new id is the next one after those of a table that may have lost rows.
LEMMA NewIdIsFree ==
  ASSUME NEW n \in Nat, Ids \subseteq 1..n
  PROVE  NewId \in 1..(n + 1) /\ NewId \notin Ids
<1> DEFINE S == Ids \cup {0}
           D == {d \in Nat : n - d \in S}
<1>1. n - (n - 0) = 0 /\ n - 0 \in Nat
  OBVIOUS
<1>2. D # {}
  BY <1>1
<1>3. PICK d \in D : \A e \in D : d <= e
  BY <1>2, Least
<1>4. ASSUME NEW j \in S PROVE n - d >= j
  <2>1. j \in 0..n
    OBVIOUS
  <2>2. n - j \in Nat /\ n - (n - j) = j
    BY <2>1
  <2>3. d <= n - j
    BY <1>3, <2>2
  <2> QED
    BY <1>3, <2>1, <2>3
<1>5. Max(S) \in S /\ \A j \in S : Max(S) >= j
  BY <1>3, <1>4 DEF Max
<1>6. Max(S) \in 0..n
  BY <1>5
<1>7. NewId = Max(S) + 1
  BY DEF NewId
<1>8. \A j \in Ids : j # Max(S) + 1
  <2>1. \A j \in Ids : j \in S /\ j \in Int
    OBVIOUS
  <2> HIDE DEF S
  <2> QED
    BY <1>5, <1>6, <2>1
<1> HIDE DEF S
<1> QED
  BY <1>6, <1>7, <1>8

LEMMA WriteFileInv == ASSUME IInv, NEW u \in Uploads, WriteFile(u) PROVE IInv'
<1> USE DEF WriteFile
<1>1. /\ pc = "idle" /\ pc' = "written" /\ cur' = u /\ u \notin drawn /\ u # Nothing
      /\ u \notin strays /\ u \notin files /\ todo = {}
  BY UploadsAssumption DEF IInv, TypeOK, Visited
<1>2. TypeOK'
  BY <1>1, SameStore DEF IInv, TypeOK, StoreInv, store, tables
<1>3. Held' = reviews /\ Held = reviews /\ reviews' = reviews
  BY <1>1 DEF Held, tables
<1>4. Recorded' = Recorded
  BY <1>1 DEF Recorded
<1>5. Counted'
  BY <1>3, <1>4 DEF IInv, Counted
<1>6. Kept'
  BY <1>1, <1>3 DEF IInv, TypeOK, Kept
<1>7. Scored'
  BY <1>1, <1>3, <1>4, SameScores DEF tables
<1>8. StoreInv' /\ Filed' /\ Visited'
  BY <1>1, SameStore DEF IInv, Filed, Visited, store, tables
<1> QED
  BY <1>2, <1>5, <1>6, <1>7, <1>8 DEF IInv

\* The ids stay within the uploads that have come to a row.
LEMMA RecordedGrows ==
  ASSUME IInv, pc = "written", pc' # "written", drawn' = drawn
  PROVE  /\ Recorded' = drawn /\ Recorded' = Recorded \cup {cur}
         /\ Cardinality(Recorded') = Cardinality(Recorded) + 1
         /\ Cardinality(Recorded) \in Nat /\ Cardinality(Recorded') <= Cardinality(Uploads)
<1>1. cur \in drawn /\ drawn \subseteq Uploads /\ Recorded \subseteq Uploads
  BY DEF IInv, TypeOK, Kept, Recorded
<1>2. Recorded' = drawn /\ Recorded' = Recorded \cup {cur} /\ cur \notin Recorded
  BY <1>1 DEF Recorded
<1>3. IsFiniteSet(Recorded) /\ Cardinality(Recorded) \in Nat /\ Cardinality(drawn) <= Cardinality(Uploads)
  BY <1>1, UploadsType
<1> QED
  BY <1>2, <1>3, FS_AddElement

LEMMA StoreRowInv == ASSUME IInv, StoreRow PROVE IInv'
<1> DEFINE id == NewId
           row == [file |-> cur, state |-> "staged", old |-> FALSE, opp |-> 0]
<1>1. /\ pc = "written" /\ pc' = "idle" /\ cur' = Nothing /\ todo = {}
      /\ cur \in Uploads /\ cur \in drawn /\ cur \in files \ strays
      /\ reviews' = With(id, row)
      /\ UNCHANGED <<store, opps, marked, files, drawn, todo, gone, receiving, strays>>
  BY DEF StoreRow, IInv, TypeOK, Visited, Kept
<1>2. /\ Recorded' = drawn /\ Recorded' = Recorded \cup {cur}
      /\ Cardinality(Recorded') = Cardinality(Recorded) + 1
      /\ Cardinality(Recorded) \in Nat /\ Cardinality(Recorded') <= Cardinality(Uploads)
  BY <1>1, RecordedGrows
<1>3. Held = reviews /\ Held' = reviews'
  BY <1>1 DEF Held
<1>4. /\ id \in 1..(Cardinality(Recorded) + 1) /\ id \notin Ids
      /\ \A i \in Ids : i \in 1..Cardinality(Recorded)
  <2>1. \A i \in Ids : i \in 1..Cardinality(Recorded)
    BY <1>3 DEF IInv, Counted
  <2> QED
    BY <1>2, <2>1, NewIdIsFree
<1>5. row \in Rows /\ row.file = cur /\ row.state = "staged"
  BY <1>1 DEF Rows
<1> HIDE DEF id, row
<1>6. /\ Ids' = Ids \cup {id} /\ reviews' \in [Ids' -> Rows] /\ reviews'[id] = row
      /\ \A i \in Ids : reviews'[i] = reviews[i]
  BY <1>1, <1>4, <1>5 DEF With, IInv, TypeOK
<1>7. TypeOK'
  <2>1. Ids' \subseteq 1..Cardinality(Uploads)
    BY <1>2, <1>4, <1>6, UploadsType
  <2> QED
    BY <1>1, <1>6, <2>1, SameStore DEF IInv, TypeOK, StoreInv, store
<1>8. Counted'
  BY <1>2, <1>3, <1>4, <1>6 DEF Counted
<1>9. Kept'
  <2>1. \A i \in Ids : reviews[i].file # cur /\ reviews[i].file \in files \ strays
    BY <1>1, <1>3 DEF IInv, Kept
  <2>2. \A i, j \in Ids : reviews[i].file = reviews[j].file => i = j
    BY <1>3 DEF IInv, Kept
  <2>3. \A f \in files \ strays : f = cur \/ \E i \in Ids : reviews[i].file = f
    BY <1>3 DEF IInv, Kept
  <2> QED
    BY <1>1, <1>3, <1>5, <1>6, <2>1, <2>2, <2>3 DEF Kept
<1>10. Scored'
  <2>1. {n \in DOMAIN opps : opps[n].file = cur} = {}
    BY <1>1 DEF IInv, Scored, Recorded
  <2>2. \A i \in Ids : {n \in DOMAIN opps : opps[n].file = reviews[i].file}
                         = IF reviews[i].state = "staged" THEN {} ELSE {reviews[i].opp}
    BY <1>3 DEF IInv, Scored
  <2> QED
    BY <1>1, <1>2, <1>3, <1>5, <1>6, <2>1, <2>2 DEF IInv, Scored
<1>11. StoreInv' /\ Filed' /\ Visited'
  BY <1>1, SameStore DEF IInv, Filed, Visited, store
<1> QED
  BY <1>7, <1>8, <1>9, <1>10, <1>11 DEF IInv

LEMMA UploadFailsInv == ASSUME IInv, UploadFails PROVE IInv'
<1>1. /\ pc = "written" /\ pc' = "idle" /\ cur' = Nothing /\ todo = {}
      /\ \/ files' = files \ {cur} /\ strays' = strays
         \/ strays' = strays \cup {cur} /\ files' = files
      /\ UNCHANGED <<store, tables, drawn, todo, gone, receiving>>
  BY DEF UploadFails, IInv, Visited
<1>2. /\ Recorded' = drawn /\ Recorded' = Recorded \cup {cur}
      /\ Cardinality(Recorded') = Cardinality(Recorded) + 1 /\ Cardinality(Recorded) \in Nat
  BY <1>1, RecordedGrows
<1>3. Held = reviews /\ Held' = reviews /\ reviews' = reviews
  BY <1>1 DEF Held, tables
<1>4. cur \in files \ strays /\ \A i \in Ids : reviews[i].file # cur
  BY <1>1 DEF IInv, Kept
<1>5. files' \ strays' = (files \ strays) \ {cur} /\ strays' \subseteq files' /\ files' \subseteq files
  BY <1>1, <1>4 DEF IInv, TypeOK
<1>6. TypeOK'
  BY <1>1, <1>5, SameStore DEF IInv, TypeOK, StoreInv, store, tables
<1>7. Counted'
  BY <1>2, <1>3 DEF IInv, Counted
<1>8. Kept'
  BY <1>1, <1>3, <1>4, <1>5 DEF IInv, Kept
<1>9. Scored'
  BY <1>1, <1>2, <1>3 DEF IInv, Scored, tables
<1>10. StoreInv' /\ Filed' /\ Visited'
  BY <1>1, SameStore DEF IInv, Filed, Visited, store, tables
<1> QED
  BY <1>6, <1>7, <1>8, <1>9, <1>10 DEF IInv

\* The row that is confirmed is still there and staged, so that its screenshot
\* was not scored before.
LEMMA ConfirmCommitsInv == ASSUME IInv, ConfirmCommits PROVE IInv'
<1>1. PICK id \in Ids : /\ reviews[id].state = "staged" /\ Confirming = id
                        /\ pc = "confirm" /\ pc' = "idle"
  <2>1. PICK id \in Ids : reviews[id].state = "staged" /\ look[Loop].key = ManualKey(id)
    BY DEF ConfirmCommits, IInv, Scored
  <2>2. Confirming = id
    BY <2>1 DEF Confirming, ManualKey
  <2> QED
    BY <2>1, <2>2 DEF ConfirmCommits
<1> DEFINE row == [[reviews[id] EXCEPT !.state = "confirmed"] EXCEPT !.opp = Len(opps) + 1]
           opp == [review |-> id, file |-> reviews[id].file, game |-> look[Loop].game,
                   event |-> StoredAs(Loop), status |-> Inherited(id)]
           Opps == [review : Nat, file : Uploads, game : Games, event : Nat,
                    status : {"new", "passed"}]
<1>2. /\ Store(Loop) /\ opps' = Append(opps, opp)
      /\ reviews' = [reviews EXCEPT ![id].state = "confirmed", ![id].opp = Len(opps) + 1]
      /\ UNCHANGED <<marked, files, drawn, cur, todo, gone, receiving, strays>>
  BY <1>1 DEF ConfirmCommits
<1>3. /\ StoreInv' /\ look'[Loop] = Nothing /\ look[Loop].game \in Games
      /\ \A i \in DOMAIN events : i \in DOMAIN events' /\ events'[i] = events[i]
      /\ StoredAs(Loop) \in DOMAIN events' /\ <<look[Loop].game, events'[StoredAs(Loop)]>> \in Alike
  BY <1>2, Threads, StoreStep DEF IInv
<1>4. /\ opps \in Seq(Opps) /\ Len(opps) \in Nat /\ DOMAIN opps = 1..Len(opps)
      /\ reviews \in [Ids -> Rows] /\ reviews[id] \in Rows /\ id \in Nat
  BY UploadsType, LenProperties DEF IInv, TypeOK
<1>5. /\ row \in Rows /\ row.file = reviews[id].file /\ row.state = "confirmed"
      /\ row.opp = Len(opps) + 1 /\ row.old = reviews[id].old
  <2> DEFINE old == reviews[id]
             mid == [old EXCEPT !.state = "confirmed"]
             new == [mid EXCEPT !.opp = Len(opps) + 1]
  <2>1. old \in Rows /\ Len(opps) + 1 \in Nat
    BY <1>4
  <2> HIDE DEF old
  <2>2. mid \in Rows /\ mid.state = "confirmed" /\ mid.file = old.file /\ mid.old = old.old
    BY <2>1 DEF Rows
  <2> HIDE DEF mid
  <2>3. /\ new \in Rows /\ new.state = mid.state /\ new.file = mid.file /\ new.old = mid.old
        /\ new.opp = Len(opps) + 1
    BY <2>1, <2>2 DEF Rows
  <2> QED
    BY <2>2, <2>3 DEF old, mid
<1>6. reviews' = [reviews EXCEPT ![id] = row]
  BY <1>2, <1>4
<1>7. /\ opp \in Opps /\ opp.file = reviews[id].file /\ opp.game = look[Loop].game
      /\ opp.event = StoredAs(Loop)
  <2>1. StoredAs(Loop) \in Nat
    <3>1. events' \in Seq(Games)
      BY <1>3 DEF StoreInv, StoreTypeOK
    <3>2. DOMAIN events' = 1..Len(events') /\ Len(events') \in Nat
      BY <3>1, LenProperties
    <3> QED
      BY <1>3, <3>2
  <2>2. Inherited(id) \in {"new", "passed"} /\ reviews[id].file \in Uploads
    BY <1>4 DEF Inherited, Rows
  <2> QED
    BY <1>3, <1>4, <2>1, <2>2
<1> HIDE DEF row, opp, Opps
<1>8. /\ Ids' = Ids /\ reviews' \in [Ids -> Rows]
      /\ \A i \in Ids : reviews'[i] = IF i = id THEN row ELSE reviews[i]
  BY <1>4, <1>5, <1>6
<1>9. /\ opps' \in Seq(Opps) /\ Len(opps') = Len(opps) + 1 /\ DOMAIN opps' = 1..(Len(opps) + 1)
      /\ opps'[Len(opps) + 1] = opp /\ \A n \in 1..Len(opps) : opps'[n] = opps[n]
  BY <1>2, <1>4, <1>7, AppendProperties, LenProperties
<1>10. Held = reviews /\ Held' = reviews' /\ Recorded' = Recorded /\ Recorded = drawn
  BY <1>1, <1>2 DEF Held, Recorded
<1>11. \A i \in Ids : reviews'[i].file = reviews[i].file
  BY <1>5, <1>8
<1>12. TypeOK'
  <2>1. marked' \subseteq DOMAIN opps'
    BY <1>2, <1>4, <1>9 DEF IInv, TypeOK
  <2> QED
    BY <1>1, <1>2, <1>3, <1>8, <1>9, <2>1 DEF IInv, TypeOK, StoreInv, Opps
<1>13. Counted'
  BY <1>8, <1>10 DEF IInv, Counted
<1>14. Kept'
  BY <1>1, <1>2, <1>8, <1>10, <1>11 DEF IInv, Kept
<1>15. Scored'
  <2>1. \A n \in 1..Len(opps) : opps[n].file # reviews[id].file
    BY <1>1, <1>4, <1>10 DEF IInv, Scored
  <2>2. ASSUME NEW i \in Ids
        PROVE  {n \in DOMAIN opps' : opps'[n].file = reviews'[i].file}
                 = IF reviews'[i].state = "staged" THEN {} ELSE {reviews'[i].opp}
    <3>1. CASE i = id
      <4>1. \A n \in DOMAIN opps' : opps'[n].file = reviews[id].file <=> n = Len(opps) + 1
        BY <1>4, <1>7, <1>9, <2>1
      <4>2. Len(opps) + 1 \in DOMAIN opps'
        BY <1>4, <1>9
      <4>3. {n \in DOMAIN opps' : opps'[n].file = reviews[id].file} = {Len(opps) + 1}
        BY <4>1, <4>2
      <4> QED
        BY <1>5, <1>8, <3>1, <4>3
    <3>2. CASE i # id
      <4>1. reviews[i].file # reviews[id].file
        BY <1>10, <3>2 DEF IInv, Kept
      <4>2. opps'[Len(opps) + 1].file # reviews[i].file
        BY <1>7, <1>9, <4>1
      <4>3. \A n : n \in DOMAIN opps' <=> n \in DOMAIN opps \/ n = Len(opps) + 1
        BY <1>4, <1>9
      <4>4. {n \in DOMAIN opps' : opps'[n].file = reviews[i].file}
              = {n \in DOMAIN opps : opps[n].file = reviews[i].file}
        BY <1>4, <1>9, <4>2, <4>3
      <4> QED
        BY <1>8, <1>10, <3>2, <4>4 DEF IInv, Scored
    <3> QED
      BY <3>1, <3>2
  <2>3. ASSUME NEW m \in DOMAIN opps', NEW n \in DOMAIN opps', opps'[m].file = opps'[n].file
        PROVE  m = n
    <3>1. \A x \in DOMAIN opps' : x \in 1..Len(opps) \/ x = Len(opps) + 1
      BY <1>4, <1>9
    <3>2. \A x, y \in 1..Len(opps) : opps[x].file = opps[y].file => x = y
      BY <1>4 DEF IInv, Scored
    <3> QED
      BY <1>7, <1>9, <2>1, <2>3, <3>1, <3>2
  <2>4. ASSUME NEW n \in DOMAIN opps' PROVE opps'[n].file \in Recorded
    <3>1. n \in 1..Len(opps) \/ n = Len(opps) + 1
      BY <1>4, <1>9
    <3>2. reviews[id].file \in drawn
      BY <1>10 DEF IInv, Kept, TypeOK
    <3> QED
      BY <1>4, <1>7, <1>9, <1>10, <3>1, <3>2 DEF IInv, Scored
  <2> QED
    BY <1>1, <1>8, <1>10, <2>2, <2>3, <2>4 DEF Scored
<1>16. Filed'
  <2>1. ASSUME NEW n \in DOMAIN opps'
        PROVE  opps'[n].event \in DOMAIN events' /\ <<opps'[n].game, events'[opps'[n].event]>> \in Alike
    <3>1. n \in 1..Len(opps) \/ n = Len(opps) + 1
      BY <1>4, <1>9
    <3> QED
      BY <1>3, <1>4, <1>7, <1>9, <3>1 DEF IInv, Filed
  <2> QED
    BY <2>1 DEF Filed
<1>17. Visited'
  BY <1>1, <1>2, <1>8 DEF IInv, Visited
<1> QED
  BY <1>3, <1>12, <1>13, <1>14, <1>15, <1>16, <1>17 DEF IInv

LEMMA DayInv == ASSUME IInv, DayPasses PROVE IInv'
<1>1. /\ reviews' = [i \in Ids |-> [reviews[i] EXCEPT !.old = TRUE]]
      /\ UNCHANGED <<store, opps, marked, files, drawn, work, strays>>
  BY DEF DayPasses
<1>2. \A r \in Rows : /\ [r EXCEPT !.old = TRUE] \in Rows
                      /\ [r EXCEPT !.old = TRUE].file = r.file
                      /\ [r EXCEPT !.old = TRUE].state = r.state
                      /\ [r EXCEPT !.old = TRUE].opp = r.opp
                      /\ [r EXCEPT !.old = TRUE].old = TRUE
  BY DEF Rows
<1>3. /\ Ids' = Ids /\ reviews' \in [Ids -> Rows]
      /\ \A i \in Ids : /\ reviews'[i].file = reviews[i].file /\ reviews'[i].state = reviews[i].state
                        /\ reviews'[i].opp = reviews[i].opp /\ reviews'[i].old
  BY <1>1, <1>2 DEF IInv, TypeOK
<1>4. TypeOK'
  BY <1>1, <1>3, SameStore DEF IInv, TypeOK, StoreInv, store, work
<1>5. /\ DOMAIN Held' = DOMAIN Held
      /\ \A i \in DOMAIN Held : /\ Held'[i].file = Held[i].file /\ Held'[i].state = Held[i].state
                                /\ Held'[i].opp = Held[i].opp
  <2>1. CASE pc # "unlink"
    BY <1>1, <1>3, <2>1 DEF Held, work
  <2>2. CASE pc = "unlink"
    <3>1. gone' = gone /\ pc' = "unlink" /\ gone.id \notin Ids
      BY <1>1, <2>2 DEF work, IInv, Kept
    <3>2. /\ DOMAIN Held = Ids \cup {gone.id} /\ Held[gone.id] = gone.row
          /\ \A i \in Ids : Held[i] = reviews[i]
      BY <2>2, <3>1, HeldRows DEF IInv
    <3>3. Held' = [i \in Ids \cup {gone.id} |-> IF i = gone.id THEN gone.row ELSE reviews'[i]]
      BY <1>3, <3>1 DEF Held, With
    <3>4. /\ DOMAIN Held' = Ids \cup {gone.id} /\ Held'[gone.id] = gone.row
          /\ \A i \in Ids : Held'[i] = reviews'[i]
      BY <3>1, <3>3
    <3> QED
      BY <1>3, <3>2, <3>4
  <2> QED
    BY <2>1, <2>2
<1>6. Recorded' = Recorded
  BY <1>1 DEF Recorded, work
<1>7. Counted' /\ Kept'
  BY <1>1, <1>3, <1>5, <1>6 DEF IInv, Counted, Kept, work
<1>8. Scored'
  BY <1>1, <1>3, <1>5, <1>6 DEF IInv, Scored, store, work
<1>9. StoreInv' /\ Filed' /\ Visited'
  BY <1>1, <1>3, SameStore DEF IInv, Filed, Visited, store, work
<1> QED
  BY <1>4, <1>7, <1>8, <1>9 DEF IInv

\* A crash gives up the file of the handler that was under way.
LEMMA CrashInv == ASSUME IInv, Crash PROVE IInv'
<1>1. /\ pc' = "idle" /\ cur' = Nothing /\ todo' = {} /\ gone' = Nothing /\ receiving' = {}
      /\ look' = [w \in Writers |-> Nothing]
      /\ UNCHANGED <<events, bound, said, tables, files, drawn>>
  BY DEF Crash
<1> DEFINE lost == IF pc = "written" THEN {cur} ELSE IF pc = "unlink" THEN {gone.row.file} ELSE {}
<1>2. strays' = strays \cup lost
  BY DEF Crash
<1>3. \A w \in Writers : look'[w] = Nothing
  BY <1>1
<1>4. StoreInv'
  BY <1>1, <1>3 DEF IInv, StoreInv, StoreTypeOK, Aimed, FiledUnderItsGame
<1>5. /\ Held' = reviews /\ reviews' = reviews
      /\ \A i \in Ids : i \in DOMAIN Held /\ Held[i] = reviews[i]
      /\ pc = "unlink" => /\ DOMAIN Held = Ids \cup {gone.id} /\ gone.id \notin Ids
                          /\ Held[gone.id] = gone.row
  <2>1. pc = "unlink" => gone.id \notin Ids
    BY DEF IInv, Kept
  <2> QED
    BY <1>1, <2>1, HeldRows DEF Held, IInv, tables
<1>6. /\ lost \subseteq files \ strays /\ \A i \in Ids : reviews[i].file \notin lost
      /\ \A f \in files \ strays : f \in lost \/ \E i \in Ids : reviews[i].file = f
  <2>1. CASE pc = "written"
    BY <1>5, <2>1 DEF IInv, Kept, Held
  <2>2. CASE pc = "unlink"
    BY <1>5, <2>2 DEF IInv, Kept
  <2>3. CASE pc \notin {"written", "unlink"}
    BY <1>5, <2>3 DEF IInv, Kept, Held
  <2> QED
    BY <2>1, <2>2, <2>3
<1> HIDE DEF lost
<1>7. TypeOK'
  BY <1>1, <1>2, <1>3, <1>4, <1>6, Threads DEF IInv, TypeOK, StoreInv, tables
<1>8. Recorded \subseteq Recorded' /\ Recorded' = drawn
  BY <1>1 DEF Recorded
<1>9. Counted'
  <2>1. Recorded \subseteq Recorded' /\ Recorded' \subseteq Uploads
    BY <1>8 DEF IInv, TypeOK
  <2>2. /\ Cardinality(Recorded) <= Cardinality(Recorded')
        /\ Cardinality(Recorded) \in Nat /\ Cardinality(Recorded') \in Nat
    <3>1. IsFiniteSet(Recorded')
      BY <2>1, UploadsType
    <3> QED
      BY <2>1, <3>1, FS_Subset, FS_CardinalityType
  <2> QED
    BY <1>5, <2>2 DEF IInv, Counted
<1>10. Kept'
  BY <1>1, <1>2, <1>5, <1>6 DEF IInv, Kept, tables
<1>11. Scored'
  BY <1>1, <1>5, <1>8 DEF IInv, Scored, tables
<1>12. Filed' /\ Visited'
  BY <1>1 DEF IInv, Filed, Visited, tables
<1> QED
  BY <1>4, <1>7, <1>9, <1>10, <1>11, <1>12 DEF IInv

-------------------------------------------------------------------------------
LEMMA InitInv == ASSUME Init PROVE IInv
<1>1. Ids = {} /\ DOMAIN opps = {} /\ DOMAIN events = {} /\ Len(events) = 0
  BY DEF Init, StoreInit
<1>2. Held = reviews /\ pc = "idle"
  BY DEF Init, Held
<1>3. StoreInv
  <2>1. (CHOOSE g \in Games : TRUE) \in Games
    BY AlikeAssumption
  <2>2. events \in Seq(Games) /\ said \in [Keys -> Games] /\ \A S : look \in [Writers -> S \cup {Nothing}]
    BY <2>1, EmptySeq DEF Init, StoreInit
  <2>3. bound \in [Keys -> 0..Len(events)]
    BY <1>1 DEF Init, StoreInit
  <2> QED
    BY <2>2, <2>3 DEF Init, StoreInit, StoreInv, StoreTypeOK, Aimed, FiledUnderItsGame
<1>4. TypeOK
  <2>1. \A S : opps \in Seq(S)
    BY EmptySeq DEF Init
  <2>2. reviews \in [Ids -> Rows]
    BY <1>1 DEF Init
  <2>3. look[Loop] = Nothing
    BY Threads DEF Init, StoreInit
  <2> QED
    BY <1>1, <1>3, <2>1, <2>2, <2>3 DEF Init, TypeOK, StoreInv
<1>5. Counted /\ Kept /\ Scored /\ Filed /\ Visited
  BY <1>1, <1>2 DEF Init, Counted, Kept, Scored, Filed, Visited
<1> QED
  BY <1>3, <1>4, <1>5 DEF IInv

LEMMA NextInv == ASSUME IInv, [Next]_vars PROVE IInv'
<1>1. CASE Next
  BY <1>1, BeginUploadInv, RefusedInv, WriteFileInv, PurgeInv, DeleteInv, StoreRowInv,
     UploadFailsInv, ConfirmInv, GoneInv, RestoreInv, ConfirmCommitsInv, ConfirmFailsInv,
     MarkInv, DayInv, ScanInv, CrashInv DEF Next
<1>2. CASE UNCHANGED vars
  <2> USE <1>2 DEF vars, tables, work
  <2>1. Held' = Held /\ Recorded' = Recorded /\ Counted' /\ Kept'
    BY SameRows
  <2>2. StoreInv' /\ look' = look /\ events' = events
    BY SameStore DEF IInv, store
  <2>3. TypeOK'
    BY <2>2 DEF IInv, TypeOK, StoreInv
  <2>4. Scored' /\ Filed' /\ Visited'
    BY <2>1, <2>2 DEF IInv, Scored, Filed, Visited
  <2> QED
    BY <2>1, <2>2, <2>3, <2>4 DEF IInv
<1> QED
  BY <1>1, <1>2

LEMMA Invariant == Spec => []IInv
<1>1. IInv /\ [Next]_vars => IInv'
  BY NextInv
<1> QED
  BY InitInv, <1>1, PTL DEF Spec

\* What holds of the rows held holds of the rows in the table.
LEMMA RowsAreHeld ==
  ASSUME IInv
  PROVE  \A i \in Ids : i \in DOMAIN Held /\ Held[i] = reviews[i]
<1>1. pc = "unlink" => gone.id \notin Ids
  BY DEF IInv, Kept
<1> QED
  BY <1>1, HeldRows DEF IInv

-------------------------------------------------------------------------------
\* The types of tables, files and handlers; ids stay within the number of
\* uploads, although they come back.
THEOREM TypeCorrect == Spec => []TypeOK
<1>1. IInv => TypeOK
  BY DEF IInv
<1> QED
  BY <1>1, Invariant, PTL

\* manual_confirm: a screenshot is scored once.
THEOREM EachUploadScoredOnce == Spec => []OneScorePerUpload
<1>1. ASSUME IInv PROVE OneScorePerUpload
  BY <1>1, RowsAreHeld DEF IInv, Scored, OneScorePerUpload
<1> QED
  BY <1>1, Invariant, PTL

\* _delete_private_review: a row has its file, also when a deletion failed and
\* the row was restored.
THEOREM NoRowWithoutItsFile == Spec => []RowsHaveTheirFiles
<1>1. ASSUME IInv PROVE RowsHaveTheirFiles
  BY <1>1, RowsAreHeld DEF IInv, Kept, RowsHaveTheirFiles
<1> QED
  BY <1>1, Invariant, PTL

\* manual_extract and _delete_private_review: a screenshot without its row is a
\* handler's own, or was given up.
THEOREM NoFileWithoutItsRow == Spec => []FilesHaveTheirRows
<1>1. ASSUME IInv PROVE FilesHaveTheirRows
  <2>1. pc = "unlink" => DOMAIN Held = Ids \cup {gone.id} /\ Held[gone.id] = gone.row
    BY <1>1, HeldRows DEF IInv
  <2>2. pc # "unlink" => Held = reviews
    BY DEF Held
  <2> QED
    BY <1>1, <2>1, <2>2, RowsAreHeld DEF IInv, Kept, FilesHaveTheirRows
<1> QED
  BY <1>1, Invariant, PTL

\* EventRepository.upsert and its callers: reports and confirmed pairs are filed
\* under an event they are alike to.
THEOREM GamesAreNotMixed == Spec => []FiledRight
<1>1. IInv => FiledRight
  BY DEF IInv, StoreInv, Filed, FiledRight
<1> QED
  BY <1>1, Invariant, PTL

\* _purge_stale_reviews: a purge deletes what was expired when it began, under
\* ids that are not given to another row before it ends.
THEOREM OnlyOldUploadsArePurged == Spec => UploadsOnlyPurgeOldOnes
<1> DEFINE A == \A i \in Ids : (pc = "purge" /\ i \notin DOMAIN reviews')
                                 => reviews[i].state = "staged" /\ reviews[i].old
<1>1. ASSUME IInv, PurgeDeletes PROVE A
  <2>1. Min(todo) \in todo
    <3>1. todo \subseteq Nat /\ todo # {}
      BY <1>1, UploadsType DEF IInv, TypeOK, PurgeDeletes
    <3> QED
      BY <3>1, Least DEF Min
  <2>2. PICK id \in todo \cap Ids : reviews[id].state = "staged" /\ DeleteRow(id)
    BY <1>1, <2>1 DEF PurgeDeletes
  <2>3. reviews[id].old
    BY <1>1, <2>2 DEF IInv, Visited
  <2>4. DOMAIN reviews' = Ids \ {id}
    BY <2>2 DEF DeleteRow, Without
  <2> QED
    BY <2>2, <2>3, <2>4
<1>2. ASSUME pc = "purge", [Next]_vars, ~PurgeDeletes PROVE DOMAIN reviews' = Ids
  <2>1. CASE DayPasses
    BY <2>1 DEF DayPasses
  <2>2. CASE UNCHANGED reviews
    BY <2>2
  <2> QED
    BY <1>2, <2>1, <2>2
    DEF Next, BeginUpload, BodyIsRefused, WriteFile, PurgeSkips, PurgeEnds, StoreRow,
        UploadFails, Delete, Confirm, Unlink, Restore, RestoreFails, ConfirmCommits,
        ConfirmFails, Mark, ScanSteps, Crash, tables, vars
<1>3. IInv /\ [Next]_vars => [A]_vars
  BY <1>1, <1>2
<1> HIDE DEF A
<1>4. Spec => [][A]_vars
  BY <1>3, Invariant, PTL DEF Spec
<1> QED
  BY <1>4 DEF A, UploadsOnlyPurgeOldOnes

-----------------------------------------------------------------------------
(* The score of a match (Matching), for any games and venues.              *)

LEMMA LikenessType ==
  ASSUME NEW e, NEW f, IsFiniteSet(e.opponent), IsFiniteSet(f.opponent)
  PROVE  /\ Shared(e, f) \in Nat /\ Either(e, f) \in Nat /\ Either(e, f) > 0
         /\ Shared(e, f) <= Either(e, f)
         /\ Shared(e, f) = Shared(f, e) /\ Either(e, f) = Either(f, e)
<1> DEFINE both == e.opponent \cap f.opponent
           all == e.opponent \cup f.opponent
<1>1. IsFiniteSet(all) /\ IsFiniteSet(both) /\ both \subseteq all
  <2>1. IsFiniteSet(all)
    BY FS_Union
  <2>2. both \subseteq e.opponent
    OBVIOUS
  <2>3. IsFiniteSet(both)
    BY <2>2, FS_Subset
  <2> QED
    BY <2>1, <2>3
<1>2. Shared(e, f) = Cardinality(both) /\ Shared(f, e) = Cardinality(both)
  <2>1. f.opponent \cap e.opponent = both
    OBVIOUS
  <2> QED
    BY <2>1 DEF Shared
<1>3. CASE e.opponent = {} \/ f.opponent = {}
  <2>1. Either(e, f) = 1 /\ Either(f, e) = 1
    BY <1>3 DEF Either
  <2>2. both = {}
    BY <1>3
  <2>3. Shared(e, f) = 0 /\ Shared(f, e) = 0
    BY <1>2, <2>2, FS_EmptySet
  <2> QED
    BY <2>1, <2>3
<1>4. CASE ~(e.opponent = {} \/ f.opponent = {})
  <2>1. f.opponent \cup e.opponent = all /\ all # {}
    BY <1>4
  <2>2. Either(e, f) = Cardinality(all) /\ Either(f, e) = Cardinality(all)
    BY <1>4, <2>1 DEF Either
  <2> HIDE DEF all, both
  <2>3. /\ Cardinality(all) \in Nat /\ Cardinality(both) \in Nat
        /\ Cardinality(both) <= Cardinality(all)
    BY <1>1, FS_CardinalityType, FS_Subset
  <2>4. Cardinality(all) # 0
    BY <1>1, <2>1, FS_EmptySet
  <2> QED
    BY <1>2, <2>2, <2>3, <2>4
<1> QED
  BY <1>3, <1>4

LEMMA GapType ==
  ASSUME NEW e, NEW f, e.start \in Int, f.start \in Int
  PROVE  Apart(e, f) \in Nat /\ Apart(e, f) = Apart(f, e)
BY DEF Apart

\* event_match_score does not depend on which of two reports is looked at.
LEMMA ScoreIsSymmetric ==
  ASSUME NEW e, NEW f, IsFiniteSet(e.opponent), IsFiniteSet(f.opponent),
         e.start \in Int, f.start \in Int
  PROVE  Score(e, f) = Score(f, e)
<1>1. Apart(e, f) = Apart(f, e)
  BY GapType
<1>2. Comparable(e, f) <=> Comparable(f, e)
  BY <1>1 DEF Comparable
<1>3. Shared(e, f) = Shared(f, e) /\ Either(e, f) = Either(f, e)
  BY LikenessType
<1>4. CASE Comparable(e, f)
  BY <1>1, <1>2, <1>3, <1>4 DEF Score
<1>5. CASE ~Comparable(e, f)
  BY <1>2, <1>5 DEF Score
<1> QED
  BY <1>4, <1>5

\* A report of a home game whose opponent has a name scores a full match with
\* itself.
LEMMA ScoreOfItself ==
  ASSUME NEW e, IsFiniteSet(e.opponent), e.opponent # {}, e.start \in Int,
         IsSupportedHomeGame(e)
  PROVE  Score(e, e) = 10000
<1> DEFINE a == Cardinality(e.opponent)
<1>1. a \in Nat /\ a > 0
  <2>1. a \in Nat /\ a # 0
    BY FS_CardinalityType, FS_EmptySet
  <2> QED
    BY <2>1
<1>2. e.opponent \cap e.opponent = e.opponent /\ e.opponent \cup e.opponent = e.opponent
  OBVIOUS
<1>3. Shared(e, e) = a /\ Either(e, e) = a
  BY <1>2 DEF Shared, Either
<1>4. Apart(e, e) = 0
  BY DEF Apart
<1>5. Comparable(e, e)
  BY <1>4 DEF Comparable, MaxKickoffDifference
<1> HIDE DEF a
<1>6. Score(e, e) = RoundHalfUp(
                      (3000 + 2000) * MaxKickoffDifference * a
                        + 5000 * MaxKickoffDifference * a - 2000 * 0 * a,
                      MaxKickoffDifference * a)
  BY <1>3, <1>4, <1>5 DEF Score
<1>7. MaxKickoffDifference = 720
  BY DEF MaxKickoffDifference
<1>8. Score(e, e) = RoundHalfUp(7200000 * a, 720 * a)
  BY <1>1, <1>6, <1>7
<1>9. RoundHalfUp(7200000 * a, 720 * a) = (14400720 * a) \div (1440 * a)
  BY <1>1 DEF RoundHalfUp
<1>10. (14400720 * a) \div (1440 * a) = 10000
  <2> DEFINE d == 1440 * a
             q == (14400720 * a) \div (1440 * a)
  <2>1. d \in Nat /\ d > 0
    BY <1>1
  <2>2. q \in Int /\ d * q <= 14400720 * a /\ 14400720 * a < d * (q + 1)
    BY <1>1, <2>1
  <2>3. 14400720 * a = 10000 * d + 720 * a /\ 720 * a < d
    BY <1>1
  <2> HIDE DEF d, q
  <2>4. d * q < d * 10001 /\ d * 10000 < d * (q + 1)
    BY <1>1, <2>1, <2>2, <2>3
  <2>5. q < 10001 /\ 10000 < q + 1
    BY <2>1, <2>2, <2>4
  <2>6. q = 10000
    BY <2>2, <2>5
  <2> QED
    BY <2>6 DEF q
<1> QED
  BY <1>8, <1>9, <1>10

\* event_match_score: reports that reach the threshold are of home games of one
\* team on one date of UTC, at most nine hours apart, and share seven tenths of
\* the names of the opponent (at least 69.99 per cent, since scores are rounded).
THEOREM MatchesAreClose ==
  ASSUME NEW e, NEW f, IsFiniteSet(e.opponent), IsFiniteSet(f.opponent),
         e.start \in Int, f.start \in Int, Matches(e, f)
  PROVE  /\ e.team = f.team /\ IsSupportedHomeGame(e) /\ IsSupportedHomeGame(f)
         /\ Day(e) = Day(f) /\ Apart(e, f) <= 9 * 60
         /\ 6999 * Either(e, f) <= 10000 * Shared(e, f)
<1>1. Comparable(e, f)
  BY DEF Matches, Score, Threshold
<1>2. /\ Shared(e, f) \in Nat /\ Either(e, f) \in Nat /\ Either(e, f) > 0
      /\ Shared(e, f) <= Either(e, f) /\ Apart(e, f) \in Nat
  BY LikenessType, GapType
<1>3. MaxKickoffDifference = 720
  BY DEF MaxKickoffDifference
<1>4. Apart(e, f) <= 720
  BY <1>1, <1>3 DEF Comparable
<1>5. RoundHalfUp((3000 + 2000) * 720 * Either(e, f) + 5000 * 720 * Shared(e, f)
                    - 2000 * Apart(e, f) * Either(e, f), 720 * Either(e, f)) >= 8500
  BY <1>1, <1>3 DEF Matches, Score, Threshold
<1>6. PICK a, s, d \in Nat, score, unit \in Int :
        /\ a = Either(e, f) /\ s = Shared(e, f) /\ d = Apart(e, f)
        /\ score = (3000 + 2000) * 720 * a + 5000 * 720 * s - 2000 * d * a
        /\ unit = 720 * a /\ RoundHalfUp(score, unit) >= 8500
  BY <1>2, <1>5
<1>7. a > 0 /\ s <= a /\ d <= 720
  BY <1>2, <1>4, <1>6
<1> DEFINE x == d * a
           n == 3600000 * a + 3600000 * s - 2000 * x
           q == (2 * n + 720 * a) \div (1440 * a)
<1>8. x \in Nat /\ x <= 720 * a
  BY <1>7
<1>9. score = n
  BY <1>6
<1>10. n \in Nat
  <2> HIDE DEF x
  <2> QED
    BY <1>8
<1>11. RoundHalfUp(n, 720 * a) = q
  <2> HIDE DEF x, n
  <2> QED
    BY <1>10 DEF RoundHalfUp
<1>12. q \in Int /\ (1440 * a) * q <= 2 * n + 720 * a
  <2>1. 1440 * a \in Nat /\ 1440 * a > 0
    BY <1>7
  <2> HIDE DEF n
  <2> QED
    BY <1>10, <2>1
<1>13. q >= 8500
  <2> HIDE DEF q, n
  <2> QED
    BY <1>6, <1>9, <1>11
<1> HIDE DEF q
<1>14. 12240000 * a <= 2 * n + 720 * a
  <2>1. (1440 * a) * 8500 <= (1440 * a) * q /\ (1440 * a) * q \in Int
    BY <1>12, <1>13
  <2> HIDE DEF n
  <2> QED
    BY <1>10, <1>12, <2>1
<1>15. d <= 9 * 60
  <2> SUFFICES ASSUME d >= 541 PROVE FALSE
    OBVIOUS
  <2>1. x >= 541 * a
    OBVIOUS
  <2> HIDE DEF x
  <2> QED
    BY <1>7, <1>8, <1>14, <2>1
<1>16. 6999 * a <= 10000 * s
  <2> HIDE DEF x
  <2> QED
    BY <1>8, <1>14
<1> QED
  BY <1>1, <1>6, <1>15, <1>16 DEF Comparable

\* Whatever home games are reported, the relation the threshold makes of them is
\* one EventStore can work with, provided that every opponent has a name.
THEOREM MatchingIsALikeness ==
  ASSUME NEW G, NEW R, G # {},
         \A g \in G : /\ IsSupportedHomeGame(g) /\ g.start \in Int
                      /\ IsFiniteSet(g.opponent) /\ g.opponent # {},
         R = {x \in G \X G : Matches(x[1], x[2])}
  PROVE  /\ R \in SUBSET (G \X G)
         /\ \A g \in G : <<g, g>> \in R
         /\ \A f, g \in G : <<f, g>> \in R <=> <<g, f>> \in R
<1>1. \A g \in G : Matches(g, g)
  BY ScoreOfItself DEF Matches, Threshold
<1>2. \A f, g \in G : Matches(f, g) <=> Matches(g, f)
  BY ScoreIsSymmetric DEF Matches
<1> QED
  BY <1>1, <1>2
===============================================================================
