------------------------- MODULE AlertDeliveryProofs -------------------------
(***************************************************************************)
(* Proofs about AlertDelivery for any opportunities, listings, profits,    *)
(* threads, modes and page size: type correctness, at most one accepted    *)
(* push per fingerprint, the reservation before the push, the truth of the *)
(* table, and the refinement of AlertLedger.                               *)
(*                                                                         *)
(* AtMostOnce is not inductive.  A reservation is made for a fingerprint   *)
(* that was never sent (Told), and from the reservation to the result no   *)
(* other evaluation touches the row, because the lineage lock is held      *)
(* (Local): what the thread learnt about the wire stays true.  Local, Told *)
(* and the silence of a process that is down are IInv.                     *)
(***************************************************************************)
EXTENDS AlertDelivery, FiniteSetTheorems, NaturalsInduction, WellFoundedInduction, TLAPS

Unsent(o) == o \notin wire /\ accepts[o] = 0

\* What an evaluation may rely on at each point.
Local(t) ==
  /\ Active(t) => opp[t] \in Opps
  /\ pc[t] \in Holding => owner[Lineage[opp[t]]] = t
  /\ pc[t] \in Delivering => row[opp[t]] = "pending"
  /\ pc[t] \in {"send", "refuse", "giveup"} => Unsent(opp[t])
  /\ pc[t] = "await" => mode = "live"
  /\ pc[t] = "confirm" => IF mode = "dry" THEN Unsent(opp[t])
                          ELSE accepts[opp[t]] = 1

\* What the row of a fingerprint tells about its push.
Told(o) ==
  /\ accepts[o] = 0 \/ (accepts[o] = 1 /\ o \notin wire)
  /\ row[o] \in {"none", "retry", "rejected", "simulated"} => Unsent(o)
  /\ row[o] = "sent" => accepts[o] = 1

DownIsQuiet == phase = "down" => \A t \in Threads : ~Active(t)

IInv == /\ TypeOK
        /\ DownIsQuiet
        /\ \A t \in Threads : Local(t)
        /\ \A o \in Opps : Told(o)
-------------------------------------------------------------------------------
\* The order of stamps stays a relation between records.
LEMMA StampType ==
  ASSUME NEW x \in Records, newer \in SUBSET (Records \X Records), Stamp(x)
  PROVE  newer' \in SUBSET (Records \X Records)
BY DEF Stamp, Records

\* Two evaluations that hold a lineage lock are about different opportunities.
LEMMA Apart ==
  ASSUME IInv, NEW t \in Threads, NEW u \in Threads, t # u,
         pc[t] \in Holding, pc[u] \in Holding
  PROVE  opp[t] # opp[u]
BY DEF IInv, Local

\* Init establishes the invariant.
LEMMA InitIInv == Init => IInv
<1> SUFFICES ASSUME Init PROVE IInv
  OBVIOUS
<1> USE DEF Init
<1>1. TypeOK
  BY DEF TypeOK, RowState, MarkState, Locations, Mutex!Free
<1>2. DownIsQuiet
  BY DEF DownIsQuiet, Active
<1>3. \A t \in Threads : Local(t)
  BY DEF Local, Active, Locations, Holding, Delivering
<1>4. \A o \in Opps : Told(o)
  BY DEF Told, Unsent
<1>. QED
  BY <1>1, <1>2, <1>3, <1>4 DEF IInv

\* A step inside an evaluation: what moves is the program counter of t, from
\* one place to another, and the rest of what Local speaks of stays.
LEMMA LocalSteps ==
  ASSUME IInv, NEW t \in Threads, NEW from, NEW to \in Locations,
         Goto(t, from, to), UNCHANGED <<process, database, provider, owner, opp>>,
         from # "idle",
         to \in Holding => from \in Holding,
         to \notin Delivering
  PROVE  /\ pc' \in [Threads -> Locations]
         /\ DownIsQuiet'
         /\ \A u \in Threads : Local(u)'
         /\ \A o \in Opps : Told(o)'
<1> USE DEF IInv, Goto, process, database, provider
<1>1. pc' \in [Threads -> Locations]
  BY DEF TypeOK
<1>2. DownIsQuiet'
  BY DEF DownIsQuiet, Active, TypeOK
<1>3. \A u \in Threads : Local(u)'
  BY DEF Local, Active, Unsent, TypeOK, Delivering
<1>4. \A o \in Opps : Told(o)'
  BY DEF Told, Unsent
<1>. QED
  BY <1>1, <1>2, <1>3, <1>4

\* The steps of an evaluation that touch neither the tables nor the wire.
LEMMA QuietSteps ==
  ASSUME IInv, NEW t \in Threads,
         \/ Unreadable(t) \/ Reject(t) \/ Decide(t) \/ Lead(t) \/ Follow(t)
         \/ Shared(t) \/ Unclaimed(t) \/ Unknown(t) \/ NotRecorded(t) \/ Settle(t)
  PROVE  IInv'
<1>1. /\ \E from, to \in Locations :
           /\ Goto(t, from, to) /\ from # "idle"
           /\ to \in Holding => from \in Holding
           /\ to \notin Delivering
      /\ UNCHANGED <<process, database, provider, owner, opp, todo>>
      /\ flight' \in [Opps -> {"none", "open", "closed"}]
  BY DEF IInv, TypeOK, Unreadable, Reject, Decide, Lead, Follow, Shared, Unclaimed,
         Unknown, NotRecorded, Settle, Goto, Locations, Holding, Delivering
<1>2. PICK from \in Locations, to \in Locations :
        /\ Goto(t, from, to) /\ from # "idle"
        /\ to \in Holding => from \in Holding
        /\ to \notin Delivering
  BY <1>1
<1>3. /\ pc' \in [Threads -> Locations]
      /\ DownIsQuiet'
      /\ \A u \in Threads : Local(u)'
      /\ \A o \in Opps : Told(o)'
  BY <1>1, <1>2, LocalSteps
<1>4. TypeOK'
  BY <1>1, <1>3 DEF IInv, TypeOK, process, database, provider
<1>. QED
  BY <1>3, <1>4 DEF IInv

\* An evaluation starts, for an opportunity.
LEMMA BeginIInv ==
  ASSUME IInv, NEW t \in Threads, NEW o \in Opps, Begin(t, o),
         phase # "down", phase' = phase, mode' = mode, todo' \in SUBSET Opps,
         page' \in SUBSET Opps, UNCHANGED <<after, high, swept>>
  PROVE  IInv'
<1> USE DEF IInv, Begin, Goto, database, provider
<1>1. TypeOK'
  BY DEF TypeOK, Locations
<1>2. DownIsQuiet'
  BY DEF DownIsQuiet
<1>3. \A u \in Threads : Local(u)'
  BY DEF Local, Active, Unsent, TypeOK, Holding, Delivering
<1>4. \A p \in Opps : Told(p)'
  BY DEF Told, Unsent
<1>. QED
  BY <1>1, <1>2, <1>3, <1>4

\* The lineage lock is taken and given back.
LEMMA LineageIInv ==
  ASSUME IInv, NEW t \in Threads, EnterLineage(t) \/ LeaveLineage(t)
  PROVE  IInv'
<1> USE DEF IInv, EnterLineage, LeaveLineage, Goto, process, database, provider
<1>0. pc[t] \in {"want", "unlock"} /\ opp[t] \in Opps /\ Lineage[opp[t]] \in Lineages
  BY LineageAssumption DEF Local, Active
<1>1. TypeOK'
  BY <1>0 DEF TypeOK, Locations, Mutex!Acquire, Mutex!Release
<1>2. DownIsQuiet'
  BY DEF DownIsQuiet, Active, TypeOK
<1>3. \A u \in Threads : Local(u)'
  <2> SUFFICES ASSUME NEW u \in Threads PROVE Local(u)'
    OBVIOUS
  <2>1. CASE EnterLineage(t)
    <3>1. /\ owner[Lineage[opp[t]]] = Nobody
          /\ owner' = [owner EXCEPT ![Lineage[opp[t]]] = t]
      BY <2>1 DEF Mutex!Acquire
    <3>2. u # t /\ pc[u] \in Holding => Lineage[opp[u]] # Lineage[opp[t]]
      BY <3>1, ThreadsAssumption DEF Local
    <3>3. pc[u] \in Holding => Lineage[opp[u]] \in Lineages
      BY LineageAssumption DEF Local, Active, Holding
    <3>. QED
      BY <1>0, <2>1, <3>1, <3>2, <3>3
      DEF Local, Active, Unsent, TypeOK, Holding, Delivering, Locations
  <2>2. CASE LeaveLineage(t)
    <3>1. /\ owner[Lineage[opp[t]]] = t
          /\ owner' = [owner EXCEPT ![Lineage[opp[t]]] = Nobody]
      BY <2>2 DEF Mutex!Release
    <3>2. u # t /\ pc[u] \in Holding => Lineage[opp[u]] # Lineage[opp[t]]
      BY <3>1 DEF Local
    <3>3. pc[u] \in Holding => Lineage[opp[u]] \in Lineages
      BY LineageAssumption DEF Local, Active, Holding
    <3>. QED
      BY <1>0, <2>2, <3>1, <3>2, <3>3
      DEF Local, Active, Unsent, TypeOK, Holding, Delivering, Locations
  <2>. QED
    BY <2>1, <2>2
<1>4. \A o \in Opps : Told(o)'
  BY DEF Told, Unsent
<1>. QED
  BY <1>1, <1>2, <1>3, <1>4

\* The last step of an evaluation.
LEMMA LeaveIInv ==
  ASSUME IInv, NEW t \in Threads, Leave(t)
  PROVE  IInv'
<1> USE DEF IInv, Leave, Goto, process, database, provider
<1>1. TypeOK'
  BY DEF TypeOK, Locations
<1>2. DownIsQuiet'
  BY DEF DownIsQuiet, Active, TypeOK
<1>3. \A u \in Threads : Local(u)'
  BY DEF Local, Active, Unsent, TypeOK, Holding, Delivering
<1>4. \A o \in Opps : Told(o)'
  BY DEF Told, Unsent
<1>. QED
  BY <1>1, <1>2, <1>3, <1>4

\* The reservation: only a row of a fingerprint that was never sent is taken.
LEMMA ClaimIInv ==
  ASSUME IInv, NEW t \in Threads, Claim(t)
  PROVE  IInv'
<1> USE DEF IInv, Claim, Goto, process, provider
<1>0. pc[t] = "claim" /\ opp[t] \in Opps /\ Unsent(opp[t])
  BY DEF Local, Active, Told, Claimable
<1>1. TypeOK'
  <2>1. Alert(opp[t]) \in Records
    BY <1>0 DEF Alert, Records
  <2>. QED
    BY <1>0, <2>1, StampType DEF TypeOK, Locations, RowState
<1>2. DownIsQuiet'
  BY DEF DownIsQuiet, Active, TypeOK
<1>3. \A u \in Threads : Local(u)'
  <2>1. \A u \in Threads \ {t} : pc[u] \in Delivering => opp[u] # opp[t]
    BY <1>0, Apart DEF Holding, Delivering, Locations
  <2>. QED
    BY <1>0, <2>1 DEF Local, Active, Unsent, TypeOK, Holding, Delivering, Locations
<1>4. \A o \in Opps : Told(o)'
  BY <1>0 DEF Told, Unsent, TypeOK
<1>. QED
  BY <1>1, <1>2, <1>3, <1>4

\* The request goes out, or nothing is published.
LEMMA SendIInv ==
  ASSUME IInv, NEW t \in Threads, Send(t)
  PROVE  IInv'
<1> USE DEF IInv, Send, Goto, process, database
<1>0. /\ pc[t] = "send" /\ opp[t] \in Opps
      /\ Unsent(opp[t]) /\ row[opp[t]] = "pending"
  BY DEF Local, Active, Delivering
<1>1. TypeOK'
  BY <1>0 DEF TypeOK, Locations
<1>2. DownIsQuiet'
  BY DEF DownIsQuiet, Active, TypeOK
<1>3. \A u \in Threads : Local(u)'
  <2>1. \A u \in Threads \ {t} : pc[u] \in Delivering => opp[u] # opp[t]
    BY <1>0, Apart DEF Holding, Delivering, Locations
  <2>. QED
    BY <1>0, <2>1 DEF Local, Active, Unsent, TypeOK, Holding, Delivering, Locations
<1>4. \A o \in Opps : Told(o)'
  BY <1>0 DEF Told, Unsent, TypeOK
<1>. QED
  BY <1>1, <1>2, <1>3, <1>4

\* The answer: accepted, or refused before acceptance.
LEMMA AnswerIInv ==
  ASSUME IInv, NEW t \in Threads, Answered(t) \/ Refused(t)
  PROVE  IInv'
<1> USE DEF IInv, Answered, Refused, Goto, process, database, provider
<1>0. pc[t] = "await" /\ opp[t] \in Opps /\ row[opp[t]] = "pending"
  BY DEF Local, Active, Delivering
<1>1. TypeOK'
  BY <1>0 DEF TypeOK, Locations
<1>2. DownIsQuiet'
  BY DEF DownIsQuiet, Active, TypeOK
<1>3. \A u \in Threads : Local(u)'
  <2>1. \A u \in Threads \ {t} : pc[u] \in Delivering => opp[u] # opp[t]
    BY <1>0, Apart DEF Holding, Delivering, Locations
  <2>2. opp[t] \in wire => accepts[opp[t]] = 0
    BY <1>0 DEF Told
  <2>3. CASE Refused(t)
    BY <1>0, <2>1, <2>2, <2>3
    DEF Local, Active, Unsent, TypeOK, Holding, Delivering, Locations
  <2>4. CASE Answered(t)
    <3>1. accepts[opp[t]] = 1
      BY <1>0, <2>4 DEF Told, TypeOK
    <3>2. mode # "dry"
      BY <1>0 DEF Local
    <3>. QED
      BY <1>0, <2>1, <2>4, <3>1, <3>2
      DEF Local, Active, Unsent, TypeOK, Holding, Delivering, Locations
  <2>. QED
    BY <2>3, <2>4
<1>4. \A o \in Opps : Told(o)'
  BY <1>0 DEF Told, Unsent, TypeOK
<1>. QED
  BY <1>1, <1>2, <1>3, <1>4

\* The result is written back.
LEMMA RecordIInv ==
  ASSUME IInv, NEW t \in Threads, Confirm(t) \/ Fail(t)
  PROVE  IInv'
<1> USE DEF IInv, Confirm, Fail, Recorded, Goto, process, provider
<1>0. /\ pc[t] \in {"confirm", "refuse", "giveup"}
      /\ opp[t] \in Opps /\ row[opp[t]] = "pending"
  BY DEF Local, Active, Delivering
<1>1. TypeOK'
  <2>1. Alert(opp[t]) \in Records
    BY <1>0 DEF Alert, Records
  <2>. QED
    BY <1>0, <2>1, StampType DEF TypeOK, Locations, RowState
<1>2. DownIsQuiet'
  BY DEF DownIsQuiet, Active, TypeOK
<1>3. \A u \in Threads : Local(u)'
  <2>1. \A u \in Threads \ {t} : pc[u] \in Delivering => opp[u] # opp[t]
    BY <1>0, Apart DEF Holding, Delivering, Locations
  <2>. QED
    BY <1>0, <2>1 DEF Local, Active, Unsent, TypeOK, Holding, Delivering, Locations
<1>4. \A o \in Opps : Told(o)'
  <2>1. pc[t] \in {"refuse", "giveup"} => Unsent(opp[t])
    BY DEF Local
  <2>2. pc[t] = "confirm" => IF mode = "dry" THEN Unsent(opp[t])
                             ELSE accepts[opp[t]] = 1
    BY DEF Local
  <2>. QED
    BY <1>0, <2>1, <2>2 DEF Told, Unsent, TypeOK
<1>. QED
  BY <1>1, <1>2, <1>3, <1>4

\* The provider accepts a request, or the network loses it.
LEMMA ProviderIInv ==
  ASSUME IInv, NEW o \in Opps, Take(o) \/ Lose(o)
  PROVE  IInv'
<1> USE DEF IInv, Take, Lose, process, database, service
<1>0. accepts[o] = 0
  BY DEF Told
<1>1. TypeOK'
  BY <1>0 DEF TypeOK
<1>2. DownIsQuiet'
  BY DEF DownIsQuiet, Active
<1>3. \A u \in Threads : Local(u)'
  BY <1>0 DEF Local, Active, Unsent, TypeOK, Told
<1>4. \A p \in Opps : Told(p)'
  BY <1>0 DEF Told, Unsent, TypeOK
<1>. QED
  BY <1>1, <1>2, <1>3, <1>4

\* What the rest of the program writes: opportunities, outcomes, the cursor of
\* the startup pass.
LEMMA OutsideIInv ==
  ASSUME IInv,
         \/ \E o \in Opps : Save(o)
         \/ \E o \in Opps, s \in Statuses : SaveOutcome(o, s)
         \/ Start \/ ReadPage \/ Swept \/ SweepFails
  PROVE  IInv'
<1> USE DEF IInv, process, database, provider, service
<1>1. TypeOK'
  <2>1. CASE \E o \in Opps, s \in Statuses : SaveOutcome(o, s)
    <3>1. PICK o \in Opps, s \in Statuses : SaveOutcome(o, s)
      BY <2>1
    <3>. USE DEF SaveOutcome
    <3>2. Outcome(o) \in Records
      BY DEF Outcome, Records
    <3>3. newer' \in SUBSET (Records \X Records)
      <4>1. newer \in SUBSET (Records \X Records) /\ Stamp(Outcome(o))
        BY <3>1 DEF TypeOK
      <4>. QED
        BY <3>2, <4>1, StampType
    <3>4. mark' \in [Opps -> MarkState]
      BY <3>1, StatusAssumption DEF TypeOK, MarkState
    <3>5. UNCHANGED <<process, known, row, provider, service>>
      BY <3>1
    <3>. QED
      BY <3>3, <3>4, <3>5 DEF TypeOK
  <2>2. CASE Start
    <3>1. high' \in Nat
      <4>1. \A o \in known : o \in Nat
        BY OppsAssumption DEF TypeOK
      <4>2. high' = 0 \/ high' \in Largest(known)
        BY <2>2 DEF Start
      <4>3. high' \in Largest(known) => high' \in known
        BY Zenon DEF Largest
      <4>. QED
        BY <4>1, <4>2, <4>3
    <3>2. /\ phase' = "reconciling" /\ mode' \in Modes /\ after' = 0 /\ page' = {}
          /\ UNCHANGED <<swept, database, provider, service>>
      BY <2>2 DEF Start
    <3>. QED
      BY <3>1, <3>2 DEF TypeOK
  <2>3. CASE ReadPage
    <3>1. FirstPage(after) \subseteq Opps
      BY DEF FirstPage, Selected, Backlog, TypeOK
    <3>2. after' \in Nat
      <4>1. PICK last \in Largest(page') : after' = NextCursor(last)
        BY <2>3 DEF ReadPage
      <4>2. last \in Opps
        BY <2>3, <3>1, <4>1 DEF ReadPage, Largest
      <4>. QED
        BY <4>1, <4>2, OppsAssumption DEF NextCursor
    <3>. QED
      BY <2>3, <3>1, <3>2 DEF ReadPage, TypeOK
  <2>4. CASE (\E o \in Opps : Save(o)) \/ Swept \/ SweepFails
    BY <2>4 DEF Save, Swept, SweepFails, TypeOK
  <2>. QED
    BY <2>1, <2>2, <2>3, <2>4
<1>2. DownIsQuiet'
  BY DEF DownIsQuiet, Active, ReconcileIdle,
         Save, SaveOutcome, Start, ReadPage, Swept, SweepFails
<1>3. UNCHANGED <<row, wire, accepts, owner, pc, opp>>
  BY DEF Save, SaveOutcome, Start, ReadPage, Swept, SweepFails
<1>4. \A u \in Threads : Local(u)'
  <2>1. mode' = mode \/ \A u \in Threads : ~Active(u)
    BY DEF DownIsQuiet, Save, SaveOutcome, Start, ReadPage, Swept, SweepFails
  <2>. QED
    BY <1>3, <2>1 DEF Local, Active, Unsent, Holding, Delivering
<1>5. \A o \in Opps : Told(o)'
  BY <1>3 DEF Told, Unsent
<1>. QED
  BY <1>1, <1>2, <1>4, <1>5

\* The process dies: memory is back at its start, tables and wire are not.
LEMMA CrashIInv ==
  ASSUME IInv, Crash
  PROVE  IInv'
<1> USE DEF IInv, Crash, database, provider
<1>1. TypeOK'
  BY DEF TypeOK, Locations
<1>2. DownIsQuiet'
  BY DEF DownIsQuiet, Active
<1>3. \A u \in Threads : Local(u)'
  BY DEF Local, Active, Holding, Delivering
<1>4. \A o \in Opps : Told(o)'
  BY DEF Told, Unsent
<1>. QED
  BY <1>1, <1>2, <1>3, <1>4

\* Every step keeps the invariant.
LEMMA NextIInv == IInv /\ [Next]_vars => IInv'
<1> SUFFICES ASSUME IInv, [Next]_vars PROVE IInv'
  OBVIOUS
<1>1. ASSUME NEW t \in Threads, Evaluate(t) PROVE IInv'
  <2>1. PICK o \in todo \cup (Manual \cap known) : Begin(t, o) /\ todo' = todo \ {o}
    BY <1>1 DEF Evaluate
  <2>2. o \in Opps /\ todo' \in SUBSET Opps
    BY <2>1 DEF IInv, TypeOK
  <2>3. phase # "down" /\ UNCHANGED process /\ page \in SUBSET Opps
    BY <1>1 DEF Evaluate, IInv, TypeOK
  <2>. QED
    BY <2>1, <2>2, <2>3, BeginIInv DEF process
<1>2. ASSUME NEW t \in Threads, Run(t) PROVE IInv'
  <2>1. CASE EnterLineage(t) \/ LeaveLineage(t)
    BY <2>1, LineageIInv
  <2>2. CASE Claim(t)
    BY <2>2, ClaimIInv
  <2>3. CASE Send(t)
    BY <2>3, SendIInv
  <2>4. CASE Answered(t) \/ Refused(t)
    BY <2>4, AnswerIInv
  <2>5. CASE Confirm(t) \/ Fail(t)
    BY <2>5, RecordIInv
  <2>6. CASE Leave(t)
    BY <2>6, LeaveIInv
  <2>7. CASE \/ Unreadable(t) \/ Reject(t) \/ Decide(t) \/ Lead(t) \/ Follow(t)
             \/ Shared(t) \/ Unclaimed(t) \/ Unknown(t) \/ NotRecorded(t) \/ Settle(t)
    BY <2>7, QuietSteps
  <2>. QED
    BY <1>2, <2>1, <2>2, <2>3, <2>4, <2>5, <2>6, <2>7 DEF Run
<1>3. ASSUME NEW o \in Opps, Take(o) \/ Lose(o) PROVE IInv'
  BY <1>3, ProviderIInv
<1>4. CASE \/ \E o \in Opps : Save(o)
           \/ \E o \in Opps, s \in Statuses : SaveOutcome(o, s)
           \/ Start \/ ReadPage \/ Swept \/ SweepFails
  BY <1>4, OutsideIInv
<1>5. CASE ReconcileNext
  <2>1. PICK o \in Smallest(page) : Begin(Main, o) /\ page' = page \ {o}
    BY <1>5 DEF ReconcileNext
  <2>2. /\ o \in Opps /\ page' \in SUBSET Opps /\ todo' \in SUBSET Opps
        /\ phase # "down" /\ UNCHANGED <<phase, mode, after, high, swept>>
    BY <1>5, <2>1 DEF ReconcileNext, Smallest, IInv, TypeOK
  <2>. QED
    BY <2>1, <2>2, ThreadsAssumption, BeginIInv
<1>6. CASE Crash
  BY <1>6, CrashIInv
<1>7. CASE UNCHANGED vars
  <2>. USE <1>7 DEF vars, process, database, provider, service
  <2>1. TypeOK'
    BY DEF IInv, TypeOK
  <2>2. DownIsQuiet' /\ \A t \in Threads : Local(t)'
    BY DEF IInv, DownIsQuiet, Active, Local, Unsent
  <2>3. \A o \in Opps : Told(o)'
    BY DEF IInv, Told, Unsent
  <2>. QED
    BY <2>1, <2>2, <2>3 DEF IInv
<1>. QED
  BY <1>1, <1>2, <1>3, <1>4, <1>5, <1>6, <1>7 DEF Next
-------------------------------------------------------------------------------
\* The invariant behind everything below.
THEOREM InvariantHolds == Spec => []IInv
BY InitIInv, NextIInv, PTL DEF Spec

\* Type correctness of alert delivery.
THEOREM TypeCorrect == Spec => []TypeOK
<1>1. IInv => TypeOK
  BY DEF IInv
<1>. QED
  BY <1>1, InvariantHolds, PTL

\* No fingerprint is accepted twice by the provider, whatever crashes, late
\* arrivals, retries, manual confirmations and overlapping evaluations do.
THEOREM NoDuplicatePush == Spec => []AtMostOnce
<1>1. IInv => AtMostOnce
  BY DEF IInv, Told, AtMostOnce
<1>. QED
  BY <1>1, InvariantHolds, PTL

\* What was sent is reserved, and what is about to be sent never was.
THEOREM ReservationFirst == Spec => []ReservedBeforeSent
<1>1. IInv => ReservedBeforeSent
  BY DEF IInv, Told, Local, Unsent, Delivering, ReservedBeforeSent, TypeOK, RowState
<1>. QED
  BY <1>1, InvariantHolds, PTL

\* A final row tells what really happened to the push.
THEOREM TableTellsTheTruth == Spec => []TableIsTrue
<1>1. IInv => TableIsTrue
  BY DEF IInv, Told, Unsent, TableIsTrue
<1>. QED
  BY <1>1, InvariantHolds, PTL
-------------------------------------------------------------------------------
(* Delivery implements the ledger: every step maps to a step of the ledger  *)
(* or leaves what it speaks of alone.                                       *)

\* Outside "send", a thread can move without changing what is being sent.
LEMMA SameSending ==
  ASSUME IInv, NEW t \in Threads, pc[t] # "send",
         NEW to \in Locations, to # "send", pc' = [pc EXCEPT ![t] = to],
         \A u \in Threads \ {t} : opp'[u] = opp[u]
  PROVE  \A o \in Opps : Sending(o)' = Sending(o)
BY DEF IInv, TypeOK, Sending

\* The opportunity a thread is about to send is sent by no other thread.
LEMMA OneSender ==
  ASSUME IInv, NEW t \in Threads, pc[t] \in Holding, NEW u \in Threads, u # t
  PROVE  ~(pc[u] = "send" /\ opp[u] = opp[t])
BY Apart DEF Holding, Locations

LEMMA SameBook ==
  ASSUME \A o \in Opps : Sending(o)' = Sending(o), row' = row
  PROVE  book' = book
BY DEF book, Book

\* The steps of an evaluation up to the reservation and after the result.
LEMMA QuietRefines ==
  ASSUME IInv, NEW t \in Threads, NEW from \in Locations, NEW to \in Locations,
         from # "send", to # "send", Goto(t, from, to), UNCHANGED <<row, opp, provider>>
  PROVE  UNCHANGED Ledger!vars
<1>1. \A o \in Opps : Sending(o)' = Sending(o)
  BY SameSending DEF Goto
<1>. QED
  BY <1>1, SameBook DEF Ledger!vars, provider

LEMMA ClaimRefines ==
  ASSUME IInv, NEW t \in Threads, Claim(t)
  PROVE  Ledger!Next
<1>1. PICK o \in Opps : o = opp[t]
  BY DEF IInv, Local, Active, Claim, Goto
<1>2. /\ pc[t] = "claim" /\ row[o] \in {"none", "retry"}
      /\ pc' = [pc EXCEPT ![t] = "send"] /\ opp' = opp
      /\ row' = [row EXCEPT ![o] = "pending"] /\ UNCHANGED <<wire, accepts>>
  BY <1>1 DEF Claim, Claimable, Goto, provider
<1>3. \A p \in Opps \ {o} : Sending(p)' = Sending(p)
  BY <1>1, <1>2 DEF IInv, TypeOK, Sending
<1>4. Sending(o)'
  BY <1>1, <1>2 DEF IInv, TypeOK, Sending
<1>5. book' = [book EXCEPT ![o] = "reserved"]
  BY <1>2, <1>3, <1>4 DEF IInv, TypeOK, book, Book
<1>6. book[o] \in {"none", "retry"}
  BY <1>2 DEF book, Book
<1>. QED
  BY <1>2, <1>5, <1>6 DEF Ledger!Next, Ledger!Reserve

\* The request goes out; or it never will (dry run, no publisher, an exception).
LEMMA SendRefines ==
  ASSUME IInv, NEW t \in Threads, Send(t) \/ Unknown(t), pc[t] = "send"
  PROVE  Ledger!Next
<1>1. PICK o \in Opps : o = opp[t]
  BY DEF IInv, Local, Active
<1>2. row[o] = "pending" /\ Sending(o)
  BY <1>1 DEF IInv, Local, Delivering, Sending
<1>3. PICK to \in Locations \ {"send"} : pc' = [pc EXCEPT ![t] = to]
  BY DEF Send, Unknown, Goto, Locations
<1>4. row' = row /\ opp' = opp /\ accepts' = accepts
  BY DEF Send, Unknown, database, provider
<1>5. \A p \in Opps \ {o} : Sending(p)' = Sending(p)
  BY <1>1, <1>3, <1>4 DEF IInv, TypeOK, Sending
<1>6. ~Sending(o)'
  <2>1. \A u \in Threads \ {t} : ~(pc[u] = "send" /\ opp[u] = o)
    BY <1>1, OneSender DEF Holding, Locations
  <2>. QED
    BY <1>3, <1>4, <2>1 DEF IInv, TypeOK, Sending
<1>7. book' = [book EXCEPT ![o] = "open"]
  BY <1>2, <1>4, <1>5, <1>6 DEF IInv, TypeOK, book, Book
<1>8. book[o] = "reserved"
  BY <1>2 DEF book, Book
<1>9. CASE wire' = wire \cup {o}
  BY <1>4, <1>7, <1>8, <1>9 DEF Ledger!Next, Ledger!Send
<1>10. CASE wire' = wire
  <2>1. Ledger!Abandon({o})
    BY <1>4, <1>7, <1>8, <1>10 DEF Ledger!Abandon, book
  <2>. QED
    BY <2>1 DEF Ledger!Next
<1>. QED
  BY <1>1, <1>9, <1>10 DEF Send, Unknown, provider

\* What goes on record is true.
LEMMA RecordRefines ==
  ASSUME IInv, NEW t \in Threads, Confirm(t) \/ Fail(t)
  PROVE  Ledger!Next
<1>1. PICK o \in Opps : o = opp[t]
  BY DEF IInv, Local, Active, Confirm, Fail, Goto
<1>2. /\ pc[t] \in {"confirm", "refuse", "giveup"} /\ row[o] = "pending"
      /\ pc' = [pc EXCEPT ![t] = "settle"] /\ opp' = opp
      /\ UNCHANGED <<wire, accepts>>
  BY <1>1 DEF Confirm, Fail, Goto, provider
<1>3. PICK result \in {"sent", "simulated", "retry", "rejected"} :
        /\ row' = [row EXCEPT ![o] = result]
        /\ IF result = "sent" THEN accepts[o] = 1 ELSE Unsent(o)
  BY <1>1 DEF IInv, Local, Confirm, Fail, Recorded, Goto
<1>4. \A p \in Opps : Sending(p)' = Sending(p)
  BY <1>2, SameSending DEF Locations
<1>5. ~Sending(o)
  BY <1>1, <1>2, OneSender DEF Sending, Holding, Locations
<1>6. book[o] = "open"
  BY <1>2, <1>5 DEF book, Book
<1>7. book' = [book EXCEPT ![o] = IF result = "sent" THEN "delivered" ELSE result]
  BY <1>3, <1>4 DEF IInv, TypeOK, book, Book
<1>. QED
  BY <1>2, <1>3, <1>6, <1>7 DEF Ledger!Next, Ledger!Confirm, Ledger!Refute, Unsent

\* The wire: a request is taken, lost or refused.
LEMMA WireRefines ==
  ASSUME IInv, NEW o \in Opps, o \in wire, UNCHANGED row,
         \A p \in Opps : Sending(p)' = Sending(p),
         wire' = wire \ {o},
         \/ accepts' = accepts
         \/ accepts' = [accepts EXCEPT ![o] = @ + 1]
  PROVE  Ledger!Next
<1>1. book' = book
  BY SameBook
<1>. QED
  BY <1>1 DEF Ledger!Next, Ledger!Take, Ledger!Lose

\* A crash turns every reservation that was about to be sent into one whose
\* request never goes out.
LEMMA CrashRefines ==
  ASSUME IInv, Crash
  PROVE  Ledger!Next
<1> DEFINE S == {o \in Opps : book[o] = "reserved"}
<1>1. \A o \in Opps : ~Sending(o)'
  BY DEF Crash, Sending
<1>2. row' = row /\ UNCHANGED <<wire, accepts>>
  BY DEF Crash, database, provider
<1>3. book' = [o \in Opps |-> IF o \in S THEN "open" ELSE book[o]]
  BY <1>1, <1>2 DEF IInv, TypeOK, RowState, book, Book
<1>4. Ledger!Abandon(S)
  BY <1>2, <1>3 DEF Ledger!Abandon
<1>. QED
  BY <1>4 DEF Ledger!Next

\* Every step of delivery is a step of the ledger or none of its business.
LEMMA NextRefines == IInv /\ [Next]_vars => [Ledger!Next]_(Ledger!vars)
<1> SUFFICES ASSUME IInv, [Next]_vars
             PROVE  Ledger!Next \/ UNCHANGED Ledger!vars
  OBVIOUS
<1>1. ASSUME NEW t \in Threads, NEW o \in Opps, Begin(t, o)
      PROVE  UNCHANGED Ledger!vars
  <2>1. pc[t] = "idle" /\ row' = row /\ UNCHANGED <<wire, accepts>>
    BY <1>1 DEF Begin, Goto, database, provider
  <2>2. \A p \in Opps : Sending(p)' = Sending(p)
    BY <1>1, <2>1, SameSending DEF Begin, Goto, Locations, IInv, TypeOK
  <2>. QED
    BY <2>1, <2>2, SameBook DEF Ledger!vars
<1>2. ASSUME NEW t \in Threads, Run(t)
      PROVE  Ledger!Next \/ UNCHANGED Ledger!vars
  <2>1. CASE \/ Unreadable(t) \/ EnterLineage(t) \/ Reject(t) \/ Decide(t)
             \/ Lead(t) \/ Follow(t) \/ Shared(t) \/ Unclaimed(t) \/ Answered(t)
             \/ (Unknown(t) /\ pc[t] # "send") \/ NotRecorded(t)
             \/ Settle(t) \/ LeaveLineage(t)
    <3>1. /\ \E from, to \in Locations \ {"send"} : Goto(t, from, to)
          /\ UNCHANGED <<row, opp, provider>>
      BY <2>1 DEF Unreadable, EnterLineage, Reject, Decide, Lead, Follow, Shared,
         Unclaimed, Answered, Unknown, NotRecorded, Settle, LeaveLineage, Goto,
         Locations, database, provider
    <3>. QED
      BY <3>1, QuietRefines
  <2>2. CASE Claim(t)
    BY <2>2, ClaimRefines
  <2>3. CASE Send(t) \/ (Unknown(t) /\ pc[t] = "send")
    BY <2>3, SendRefines DEF Send, Goto
  <2>4. CASE Refused(t)
    <3>1. /\ pc[t] = "await" /\ opp[t] \in Opps /\ opp[t] \in wire
          /\ UNCHANGED <<row, accepts, opp>> /\ wire' = wire \ {opp[t]}
      BY <2>4 DEF Refused, Goto, IInv, Local, Active, database
    <3>2. \A p \in Opps : Sending(p)' = Sending(p)
      BY <2>4, <3>1, SameSending DEF Refused, Goto, Locations
    <3>. QED
      BY <3>1, <3>2, WireRefines
  <2>5. CASE Confirm(t) \/ Fail(t)
    BY <2>5, RecordRefines
  <2>6. CASE Leave(t)
    <3>1. pc[t] = "leave" /\ row' = row /\ UNCHANGED <<wire, accepts>>
      BY <2>6 DEF Leave, Goto, database, provider
    <3>2. \A p \in Opps : Sending(p)' = Sending(p)
      BY <2>6, <3>1, SameSending DEF Leave, Goto, Locations, IInv, TypeOK
    <3>. QED
      BY <3>1, <3>2, SameBook DEF Ledger!vars
  <2>. QED
    BY <1>2, <2>1, <2>2, <2>3, <2>4, <2>5, <2>6 DEF Run
<1>3. ASSUME NEW o \in Opps, Take(o) \/ Lose(o)
      PROVE  Ledger!Next
  <2>1. /\ o \in wire /\ UNCHANGED <<row, pc, opp>> /\ wire' = wire \ {o}
        /\ \/ accepts' = accepts
           \/ accepts' = [accepts EXCEPT ![o] = @ + 1]
    BY <1>3 DEF Take, Lose, database, service
  <2>2. \A p \in Opps : Sending(p)' = Sending(p)
    BY <2>1 DEF Sending
  <2>. QED
    BY <2>1, <2>2, WireRefines
<1>4. CASE \/ \E o \in Opps : Save(o)
           \/ \E o \in Opps, s \in Statuses : SaveOutcome(o, s)
           \/ Start \/ ReadPage \/ Swept \/ SweepFails \/ UNCHANGED vars
  <2>1. UNCHANGED <<row, pc, opp, wire, accepts>>
    BY <1>4 DEF Save, SaveOutcome, Start, ReadPage, Swept, SweepFails, vars,
       database, provider, service
  <2>2. \A p \in Opps : Sending(p)' = Sending(p)
    BY <2>1 DEF Sending
  <2>. QED
    BY <2>1, <2>2, SameBook DEF Ledger!vars
<1>5. CASE Crash
  BY <1>5, CrashRefines
<1>6. CASE \E t \in Threads : Evaluate(t)
  <2>1. \E t \in Threads, o \in Opps : Begin(t, o)
    BY <1>6 DEF Evaluate, IInv, TypeOK
  <2>. QED
    BY <1>1, <2>1
<1>7. CASE ReconcileNext
  <2>1. \E o \in Opps : Begin(Main, o)
    BY <1>7 DEF ReconcileNext, Smallest, IInv, TypeOK
  <2>. QED
    BY <1>1, <2>1, ThreadsAssumption
<1>. QED
  BY <1>2, <1>3, <1>4, <1>5, <1>6, <1>7 DEF Next

\* The initial tables are the ledger's.
LEMMA InitRefines == Init => Ledger!Init
BY DEF Init, Ledger!Init, book, Book

\* Alert delivery, with its threads, locks, flights, restarts and two tables,
\* implements the ledger of fingerprints.
THEOREM DeliveryImplementsLedger == Spec => ImplementsLedger
BY InitRefines, NextRefines, InvariantHolds, PTL DEF Spec, ImplementsLedger, Ledger!Spec
-------------------------------------------------------------------------------
(* Single flight never blocks: an open flight has a leader inside the        *)
(* lineage lock, so a thread inside that lock only ever finds closed ones.   *)

Leading == Delivering \cup {"claim", "settle"}

FlightsAreLed == \A o \in Opps :
                   flight[o] = "open" => \E t \in Threads : pc[t] \in Leading /\ opp[t] = o

FInv == FlightsAreLed /\ NobodyWaitsInsideTheLock

\* The steps of an evaluation that leave the flights alone.
LEMMA FlightsAlone ==
  ASSUME IInv, FInv, NEW t \in Threads, NEW from, NEW to \in Locations,
         Goto(t, from, to), UNCHANGED <<opp, flight>>,
         from \in Leading => to \in Leading, to # "wait"
  PROVE  FInv'
<1>1. FlightsAreLed'
  BY DEF FInv, FlightsAreLed, Goto, IInv, TypeOK
<1>2. NobodyWaitsInsideTheLock'
  BY DEF FInv, NobodyWaitsInsideTheLock, Goto, IInv, TypeOK
<1>. QED
  BY <1>1, <1>2 DEF FInv

\* The steps that open, find, close and forget a flight.
LEMMA FlightSteps ==
  ASSUME IInv, FInv, NEW t \in Threads,
         Lead(t) \/ Follow(t) \/ Settle(t) \/ Leave(t)
  PROVE  FInv'
<1> USE DEF Goto, IInv, TypeOK
<1>0. opp[t] \in Opps
  BY DEF Lead, Follow, Settle, Leave, Local, Active
<1>1. CASE Lead(t)
  <2>1. FlightsAreLed'
    BY <1>0, <1>1 DEF Lead, FInv, FlightsAreLed, Leading
  <2>2. NobodyWaitsInsideTheLock'
    BY <1>0, <1>1 DEF Lead, FInv, NobodyWaitsInsideTheLock
  <2>. QED
    BY <2>1, <2>2 DEF FInv
<1>2. CASE Follow(t)
  <2>1. flight[opp[t]] # "open"
    <3>1. SUFFICES ASSUME flight[opp[t]] = "open" PROVE FALSE
      OBVIOUS
    <3>2. PICK u \in Threads : pc[u] \in Leading /\ opp[u] = opp[t]
      BY <1>0, <3>1 DEF FInv, FlightsAreLed
    <3>3. pc[t] = "flight" /\ u # t
      BY <1>2, <3>2 DEF Follow, Leading, Delivering
    <3>. QED
      BY <3>2, <3>3, Apart DEF Leading, Delivering, Holding, Locations
  <2>2. flight[opp[t]] = "closed"
    BY <1>0, <1>2, <2>1 DEF Follow
  <2>3. FlightsAreLed'
    BY <1>2 DEF Follow, FInv, FlightsAreLed, Leading, Delivering
  <2>4. NobodyWaitsInsideTheLock'
    BY <1>2, <2>2 DEF Follow, FInv, NobodyWaitsInsideTheLock
  <2>. QED
    BY <2>3, <2>4 DEF FInv
<1>3. CASE Settle(t)
  <2>1. FlightsAreLed'
    BY <1>0, <1>3 DEF Settle, FInv, FlightsAreLed
  <2>2. NobodyWaitsInsideTheLock'
    BY <1>0, <1>3 DEF Settle, FInv, NobodyWaitsInsideTheLock, Local, Active
  <2>. QED
    BY <2>1, <2>2 DEF FInv
<1>4. CASE Leave(t)
  <2>1. FlightsAreLed'
    BY <1>4 DEF Leave, FInv, FlightsAreLed, Leading, Delivering
  <2>2. NobodyWaitsInsideTheLock'
    BY <1>4 DEF Leave, FInv, NobodyWaitsInsideTheLock, Active
  <2>. QED
    BY <2>1, <2>2 DEF FInv
<1>. QED
  BY <1>1, <1>2, <1>3, <1>4

LEMMA NextFInv == IInv /\ FInv /\ [Next]_vars => FInv'
<1> SUFFICES ASSUME IInv, FInv, [Next]_vars PROVE FInv'
  OBVIOUS
<1>1. ASSUME NEW t \in Threads, NEW o \in Opps, Begin(t, o)
      PROVE  FInv'
  BY <1>1 DEF Begin, Goto, IInv, TypeOK, FInv, FlightsAreLed, Leading, Delivering,
              NobodyWaitsInsideTheLock
<1>2. ASSUME NEW t \in Threads, Run(t)
      PROVE  FInv'
  <2>1. CASE Lead(t) \/ Follow(t) \/ Settle(t) \/ Leave(t)
    BY <2>1, FlightSteps
  <2>2. CASE ~(Lead(t) \/ Follow(t) \/ Settle(t) \/ Leave(t))
    <3>1. /\ \E from, to \in Locations :
               /\ Goto(t, from, to)
               /\ from \in Leading => to \in Leading
               /\ to # "wait"
          /\ UNCHANGED <<opp, flight>>
      BY <1>2, <2>2 DEF Run, Unreadable, EnterLineage, Reject, Decide, Shared, Claim,
         Unclaimed, Send, Answered, Refused, Unknown, Confirm, Fail, NotRecorded,
         LeaveLineage, Goto, Locations, Leading, Delivering
    <3>. QED
      BY <3>1, FlightsAlone
  <2>. QED
    BY <2>1, <2>2
<1>3. ASSUME UNCHANGED <<pc, opp, flight>> PROVE FInv'
  BY <1>3 DEF FInv, FlightsAreLed, NobodyWaitsInsideTheLock
<1>4. CASE Crash
  BY <1>4 DEF Crash, FInv, FlightsAreLed, NobodyWaitsInsideTheLock
<1>5. CASE \/ \E o \in Opps : Take(o) \/ Lose(o) \/ Save(o)
           \/ \E o \in Opps, s \in Statuses : SaveOutcome(o, s)
           \/ Start \/ ReadPage \/ Swept \/ SweepFails \/ UNCHANGED vars
  BY <1>3, <1>5 DEF Take, Lose, Save, SaveOutcome, Start, ReadPage, Swept, SweepFails,
     vars, service
<1>6. CASE \E t \in Threads : Evaluate(t)
  <2>1. \E t \in Threads, o \in Opps : Begin(t, o)
    BY <1>6 DEF Evaluate, IInv, TypeOK
  <2>. QED
    BY <1>1, <2>1
<1>7. CASE ReconcileNext
  <2>1. \E o \in Opps : Begin(Main, o)
    BY <1>7 DEF ReconcileNext, Smallest, IInv, TypeOK
  <2>. QED
    BY <1>1, <2>1, ThreadsAssumption
<1>. QED
  BY <1>2, <1>4, <1>5, <1>6, <1>7 DEF Next

\* A thread that waits for a flight finds it completed: nobody waits for a
\* leader that needs the lock the waiter holds.
THEOREM FlightsNeverBlock == Spec => []NobodyWaitsInsideTheLock
<1>1. Init => FInv
  BY DEF Init, FInv, FlightsAreLed, NobodyWaitsInsideTheLock
<1>2. FInv => NobodyWaitsInsideTheLock
  BY DEF FInv
<1>. QED
  BY <1>1, <1>2, NextFInv, InvariantHolds, PTL DEF Spec
-------------------------------------------------------------------------------
(* No push after a terminal outcome: what an evaluation decided about the   *)
(* outcome of its listing stays true while it holds the lineage lock.       *)

\* The outcomes of the listing of o, and their order, stay as they are.
OutcomesKept(o) ==
  \A p, q \in Siblings(o) :
    /\ mark'[p] = mark[p]
    /\ <<Outcome(p), Outcome(q)>> \in newer' <=> <<Outcome(p), Outcome(q)>> \in newer

LEMMA StatusKept ==
  ASSUME NEW o \in Opps, OutcomesKept(o)
  PROVE  Eligible(o)' <=> Eligible(o)
<1>1. Siblings(o)' = Siblings(o)
  BY DEF Siblings
<1>2. LatestMark(o)' = LatestMark(o)
  BY <1>1 DEF LatestMark, OutcomesKept, Outcome
<1>3. \A p \in LatestMark(o) : mark'[p] = mark[p]
  BY DEF LatestMark, OutcomesKept
<1>4. CASE LatestMark(o) = {}
  BY <1>2, <1>4 DEF Eligible, Status
<1>5. CASE LatestMark(o) # {}
  <2>1. PICK p \in LatestMark(o) : p = CHOOSE q \in LatestMark(o) : TRUE
    BY <1>5
  <2>. QED
    BY <1>2, <1>3, <1>5, <2>1 DEF Eligible, Status
<1>. QED
  BY <1>4, <1>5

\* A stamp of an alert, or of an outcome of another listing, is no outcome here.
LEMMA StampElsewhere ==
  ASSUME NEW o \in Opps, NEW x \in Records, Stamp(x),
         x[1] = "alert" \/ Lin(x) # Lineage[o],
         \A p \in Siblings(o) : mark'[p] = mark[p]
  PROVE  OutcomesKept(o)
<1>1. ASSUME NEW p \in Siblings(o) PROVE Outcome(p) # x
  BY <1>1 DEF Outcome, Records, Lin, Siblings
<1>2. ASSUME NEW p \in Siblings(o), NEW q \in Siblings(o)
      PROVE  <<Outcome(p), Outcome(q)>> \in newer' <=> <<Outcome(p), Outcome(q)>> \in newer
  <2>1. Outcome(p) # x /\ Outcome(q) # x
    BY <1>1
  <2> DEFINE P == Outcome(p)
             Q == Outcome(q)
  <2>2. <<P, Q>> \in newer' <=> <<P, Q>> \in newer
    <3> HIDE DEF P, Q
    <3>1. P # x /\ Q # x
      BY <2>1 DEF P, Q
    <3>. QED
      BY <3>1 DEF Stamp
  <2>. QED
    BY <2>2
<1>. QED
  BY <1>2 DEF OutcomesKept

Decided == {"flight", "claim", "send"}

EInv == \A t \in Threads, o \in Opps :
          pc[t] \in Decided /\ opp[t] = o => Eligible(o)

\* A step of an evaluation writes no outcome.
LEMMA RunKeepsOutcomes ==
  ASSUME IInv, NEW t \in Threads, Run(t), NEW o \in Opps
  PROVE  OutcomesKept(o)
<1>1. CASE Claim(t) \/ Confirm(t)
  <2>1. opp[t] \in Opps
    BY <1>1 DEF Claim, Confirm, Goto, IInv, Local, Active
  <2>2. Stamp(Alert(opp[t])) /\ mark' = mark
    BY <1>1 DEF Claim, Confirm
  <2>3. Alert(opp[t]) \in Records /\ Alert(opp[t])[1] = "alert"
    BY <2>1 DEF Alert, Records
  <2>. QED
    BY <2>2, <2>3, StampElsewhere
<1>2. CASE ~(Claim(t) \/ Confirm(t))
  <2>1. UNCHANGED <<mark, newer>>
    BY <1>2 DEF Run, Unreadable, EnterLineage, Reject, Decide, Lead, Follow, Shared,
       Unclaimed, Send, Answered, Refused, Unknown, Fail, NotRecorded, Settle,
       LeaveLineage, Leave, database
  <2>. QED
    BY <2>1 DEF OutcomesKept
<1>. QED
  BY <1>1, <1>2

\* Nobody writes an outcome of a listing whose lock is held.
LEMMA SaveElsewhere ==
  ASSUME IInv, NEW p \in Opps, NEW s \in Statuses, SaveOutcome(p, s),
         NEW t \in Threads, pc[t] \in Holding, NEW o \in Opps, opp[t] = o
  PROVE  OutcomesKept(o)
<1>1. owner[Lineage[o]] = t
  BY DEF IInv, Local
<1>2. Lineage[p] # Lineage[o]
  BY <1>1, ThreadsAssumption DEF SaveOutcome, LineageQuiet
<1>3. Outcome(p) \in Records /\ Lin(Outcome(p)) = Lineage[p]
  BY DEF Outcome, Records, Lin
<1>4. \A q \in Siblings(o) : mark'[q] = mark[q]
  BY <1>2 DEF SaveOutcome, Siblings, IInv, TypeOK
<1>5. Stamp(Outcome(p))
  BY DEF SaveOutcome
<1>. QED
  BY <1>2, <1>3, <1>4, <1>5, StampElsewhere

LEMMA NextEInv == IInv /\ EInv /\ [Next]_vars => EInv'
<1> SUFFICES ASSUME IInv, EInv, [Next]_vars, NEW u \in Threads, NEW o \in Opps,
                    pc'[u] \in Decided, opp'[u] = o
             PROVE  Eligible(o)'
  BY DEF EInv
<1>1. CASE \E t \in Threads : Run(t)
  <2>1. PICK t \in Threads : Run(t)
    BY <1>1
  <2>2. opp' = opp \/ (t # u /\ opp'[u] = opp[u])
               \/ (t = u /\ pc'[u] = "idle")
    BY <2>1 DEF Run, Unreadable, EnterLineage, Reject, Decide, Lead, Follow, Shared,
       Claim, Unclaimed, Send, Answered, Refused, Unknown, Confirm, Fail, NotRecorded,
       Settle, LeaveLineage, Leave, Goto, IInv, TypeOK
  <2>3. opp[u] = o
    BY <2>2 DEF Decided
  <2>4. pc[u] \in Decided \/ (pc[u] = "load" /\ Eligible(opp[u]))
    BY <2>1 DEF Run, Unreadable, EnterLineage, Reject, Decide, Lead, Follow, Shared,
       Claim, Unclaimed, Send, Answered, Refused, Unknown, Confirm, Fail, NotRecorded,
       Settle, LeaveLineage, Leave, Goto, Decided, IInv, TypeOK
  <2>5. Eligible(o)
    BY <2>3, <2>4 DEF EInv
  <2>. QED
    BY <2>1, <2>5, RunKeepsOutcomes, StatusKept
<1>2. CASE \E p \in Opps, s \in Statuses : SaveOutcome(p, s)
  <2>1. pc[u] \in Decided /\ opp[u] = o
    BY <1>2 DEF SaveOutcome, service
  <2>2. Eligible(o) /\ pc[u] \in Holding
    BY <2>1 DEF EInv, Decided, Holding, Locations
  <2>. QED
    BY <1>2, <2>1, <2>2, SaveElsewhere, StatusKept
<1>3. CASE \/ \E t \in Threads : Evaluate(t)
           \/ \E p \in Opps : Take(p) \/ Lose(p) \/ Save(p)
           \/ Start \/ ReadPage \/ ReconcileNext \/ Swept \/ SweepFails \/ Crash
           \/ UNCHANGED vars
  <2>1. /\ UNCHANGED <<mark, newer>>
        /\ pc[u] \in Decided /\ opp[u] = o
    BY <1>3, ThreadsAssumption
    DEF Evaluate, Take, Lose, Save, Start, ReadPage, ReconcileNext, Swept, SweepFails,
        Crash, Begin, Goto, vars, database, service, Decided, IInv, TypeOK
  <2>2. Eligible(o)
    BY <2>1 DEF EInv
  <2>3. OutcomesKept(o)
    BY <2>1 DEF OutcomesKept
  <2>. QED
    BY <2>2, <2>3, StatusKept
<1>. QED
  BY <1>1, <1>2, <1>3 DEF Next

\* A push goes out only for a listing whose latest outcome is not terminal, also
\* when the user records one while the listing is being evaluated.
THEOREM TerminalOutcomeStopsPushes == Spec => NoPushAfterTerminalOutcome
<1>1. Init => EInv
  BY DEF Init, EInv, Decided
<1>2. IInv /\ EInv /\ [Next]_vars
        => [\A o \in wire' \ wire : Status(o) \in {"new", "watching"}]_vars
  <2> SUFFICES ASSUME IInv, EInv, Next, NEW o \in wire' \ wire
               PROVE  Status(o) \in {"new", "watching"}
    OBVIOUS
  <2>1. o \in Opps /\ \E t \in Threads : pc[t] = "send" /\ opp[t] = o
    BY DEF Next, Evaluate, Begin, Run, Unreadable, EnterLineage, Reject, Decide, Lead,
       Follow, Shared, Claim, Unclaimed, Send, Answered, Refused, Unknown, Confirm, Fail,
       NotRecorded, Settle, LeaveLineage, Leave, Goto, Take, Lose, Save, SaveOutcome,
       Start, ReadPage, ReconcileNext, Swept, SweepFails, Crash, database, provider, IInv,
       Local, Active
  <2>. QED
    BY <2>1 DEF EInv, Decided, Eligible
<1>. QED
  BY <1>1, <1>2, NextEInv, InvariantHolds, PTL DEF Spec, NoPushAfterTerminalOutcome
-------------------------------------------------------------------------------
(* A push improves on what its listing was offered before.  An evaluation   *)
(* compares with the latest alert only; that this covers all earlier ones   *)
(* rests on the order of the stamps and on what the earlier evaluations     *)
(* compared with in their turn.                                             *)

\* The stamps order the records of a listing, ...
Strict ==
  /\ \A x, y \in Records : <<x, y>> \in newer => <<y, x>> \notin newer /\ Lin(x) = Lin(y)
  /\ \A x, y, z \in Records :
       <<x, y>> \in newer /\ <<y, z>> \in newer => <<x, z>> \in newer

\* ... every two of those that were ever written.
Ever == {Alert(p) : p \in {q \in Opps : row[q] # "none"}}
          \cup {Outcome(p) : p \in {q \in Opps : mark[q] # "none"}}

Total == \A x, y \in Ever : Lin(x) = Lin(y) /\ x # y => <<x, y>> \in newer \/ <<y, x>> \in newer

Finite == /\ IsFiniteSet({p \in Opps : row[p] # "none"})
          /\ IsFiniteSet({p \in Opps : mark[p] # "none"})

\* The user marked the listing after the alert of p.
Marked(p) == \E m \in Siblings(p) : mark[m] # "none" /\ <<Outcome(m), Alert(p)>> \in newer

Beats(o, p) == Profit[o] >= Profit[p] + Improvement \/ Marked(p)

\* Every alert beats the earlier ones of its listing, ...
Chain == \A o \in Opps : \A p \in Siblings(o) \ {o} :
           Counts(o) /\ Counts(p) /\ <<Alert(o), Alert(p)>> \in newer => Beats(o, p)

\* ... and so will the one that is being made.
Better(o) == \A p \in Siblings(o) \ {o} : Counts(p) => Beats(o, p)

Chosen == \A t \in Threads :
            pc[t] \in {"flight", "claim", "send", "await", "confirm"} => Better(opp[t])

RInv == Strict /\ Total /\ Finite /\ Chain /\ Chosen

\* A strict total order on a finite set has a greatest element.
LEMMA Greatest ==
  ASSUME NEW S, NEW R, IsFiniteSet(S), S # {},
         \A x, y \in S : <<x, y>> \in R => <<y, x>> \notin R,
         \A x, y, z \in S : <<x, y>> \in R /\ <<y, z>> \in R => <<x, z>> \in R,
         \A x, y \in S : x # y => <<x, y>> \in R \/ <<y, x>> \in R
  PROVE  \E x \in S : \A y \in S \ {x} : <<x, y>> \in R
<1> DEFINE Above(x) == {y \in S : <<y, x>> \in R}
           Sizes == {n \in Nat : \E x \in S : n = Cardinality(Above(x))}
<1>1. \A x \in S : IsFiniteSet(Above(x)) /\ Cardinality(Above(x)) \in Nat
  <2> SUFFICES ASSUME NEW x \in S
               PROVE  IsFiniteSet(Above(x)) /\ Cardinality(Above(x)) \in Nat
    OBVIOUS
  <2>1. Above(x) \in SUBSET S
    OBVIOUS
  <2> HIDE DEF Above
  <2>. QED
    BY <2>1, FS_Subset, FS_CardinalityType
<1>2. Sizes # {} /\ Sizes \subseteq Nat
  <2>1. PICK x \in S : TRUE
    OBVIOUS
  <2>2. Cardinality(Above(x)) \in Sizes
    BY <1>1
  <2>. QED
    BY <2>2
<1>3. IsWellFoundedOn(OpToRel(<, Nat), Nat)
  BY NatLessThanWellFounded
<1>4. PICK n \in Sizes : \A m \in Sizes : <<m, n>> \notin OpToRel(<, Nat)
  <2> HIDE DEF Sizes
  <2>. QED
    BY <1>2, <1>3, WFMin
<1>5. PICK x \in S : n = Cardinality(Above(x))
  BY <1>4
<1>6. ASSUME NEW y \in S \ {x}, <<y, x>> \in R PROVE FALSE
  <2>1. Above(y) \in SUBSET Above(x) /\ y \in Above(x) /\ y \notin Above(y)
    BY <1>6
  <2>2. Cardinality(Above(y)) <= Cardinality(Above(x))
        /\ Cardinality(Above(y)) # Cardinality(Above(x))
    <3> HIDE DEF Above
    <3>. QED
      BY <1>1, <2>1, FS_Subset
  <2>3. Cardinality(Above(y)) \in Sizes /\ Cardinality(Above(y)) \in Nat
    BY <1>1, <1>6
  <2>4. ~(Cardinality(Above(y)) < n)
    <3> HIDE DEF Above, Sizes
    <3>. QED
      BY <1>2, <1>4, <2>3 DEF OpToRel
  <2>5. n \in Nat
    BY <1>4
  <2> HIDE DEF Above, Sizes
  <2>. QED
    BY <1>5, <2>2, <2>3, <2>4, <2>5
<1>7. \A y \in S \ {x} : <<x, y>> \in R
  BY <1>6
<1>. QED
  BY <1>7

\* A stamp makes its record the newest of the listing and moves no other.
LEMMA StampNewest ==
  ASSUME NEW x \in Records, Stamp(x)
  PROVE  /\ \A y, z \in Records : y # x /\ z # x =>
              (<<y, z>> \in newer' <=> <<y, z>> \in newer)
         /\ \A y \in Records : <<x, y>> \in newer' <=> y # x /\ Lin(y) = Lin(x)
         /\ \A y \in Records : <<y, x>> \notin newer'
BY DEF Stamp

LEMMA StampStrict ==
  ASSUME NEW x \in Records, Stamp(x), Strict
  PROVE  Strict'
<1>1. \A y, z \in Records : <<y, z>> \in newer' =>
        IF y = x THEN z # x /\ Lin(z) = Lin(x) ELSE z # x /\ <<y, z>> \in newer
  BY StampNewest
<1>2. \A y \in Records : <<x, y>> \in newer' <=> y # x /\ Lin(y) = Lin(x)
  BY StampNewest
<1>3. \A y, z \in Records : y # x /\ z # x =>
        (<<y, z>> \in newer' <=> <<y, z>> \in newer)
  BY StampNewest
<1>4. \A y : Lin(y)' = Lin(y)
  BY DEF Lin
<1>5. ASSUME NEW y \in Records, NEW z \in Records, <<y, z>> \in newer'
      PROVE  <<z, y>> \notin newer' /\ Lin(y) = Lin(z)
  BY <1>1, <1>5 DEF Strict
<1>6. ASSUME NEW u \in Records, NEW y \in Records, NEW z \in Records,
             <<u, y>> \in newer', <<y, z>> \in newer'
      PROVE  <<u, z>> \in newer'
  <2>1. CASE u = x
    BY <1>1, <1>2, <1>5, <1>6, <2>1
  <2>2. CASE u # x
    <3>1. y # x /\ z # x /\ <<u, y>> \in newer /\ <<y, z>> \in newer
      BY <1>1, <1>6, <2>2
    <3>. QED
      BY <1>3, <2>2, <3>1 DEF Strict
  <2>. QED
    BY <2>1, <2>2
<1>. QED
  BY <1>4, <1>5, <1>6 DEF Strict

LEMMA StampTotal ==
  ASSUME NEW x \in Records, Stamp(x), Total, Ever \subseteq Records,
         Ever' \subseteq Ever \cup {x}
  PROVE  Total'
<1>1. \A y : Lin(y)' = Lin(y)
  BY DEF Lin
<1>2. ASSUME NEW y \in Ever', NEW z \in Ever', Lin(y) = Lin(z), y # z
      PROVE  <<y, z>> \in newer' \/ <<z, y>> \in newer'
  <2>1. CASE y = x \/ z = x
    BY <1>2, <2>1, StampNewest
  <2>2. CASE y # x /\ z # x
    BY <1>2, <2>2, StampNewest DEF Total
  <2>. QED
    BY <2>1, <2>2
<1>. QED
  BY <1>1, <1>2 DEF Total

LEMMA EverRecords == Ever \subseteq Records
BY DEF Ever, Records, Alert, Outcome

\* Where something counts there is a latest alert, and it is as new as any.
LEMMA LatestAlertExists ==
  ASSUME IInv, RInv, NEW o \in Opps, NEW p \in Siblings(o), Counts(p)
  PROVE  \E l \in LatestAlert(o) : l \in Siblings(o) /\ Counts(l)
                                   /\ (l = p \/ <<Alert(l), Alert(p)>> \in newer)
<1> DEFINE S == {s \in Siblings(o) : Counts(s)}
           R == {e \in S \X S : <<Alert(e[1]), Alert(e[2])>> \in newer}
<1>1. IsFiniteSet(S) /\ p \in S
  <2>1. S \in SUBSET {q \in Opps : row[q] # "none"}
    BY DEF Counts, Siblings
  <2> HIDE DEF S
  <2>2. IsFiniteSet(S)
    BY <2>1, FS_Subset DEF RInv, Finite
  <2>. QED
    BY <2>2 DEF S
<1>2. \A q \in S : Alert(q) \in Records /\ Alert(q) \in Ever /\ Lin(Alert(q)) = Lineage[o]
  BY DEF Records, Alert, Ever, Lin, Siblings, Counts
<1>3. \A q, r \in S : q # r => Alert(q) # Alert(r)
  BY DEF Alert
<1>4. \A q, r \in S : <<q, r>> \in R <=> <<Alert(q), Alert(r)>> \in newer
  OBVIOUS
<1>5. PICK l \in S : \A q \in S \ {l} : <<l, q>> \in R
  <2>1. \A x, y \in S : <<x, y>> \in R => <<y, x>> \notin R
    <3> HIDE DEF S, R
    <3>. QED
      BY <1>2, <1>4 DEF RInv, Strict
  <2>2. \A x, y, z \in S : <<x, y>> \in R /\ <<y, z>> \in R => <<x, z>> \in R
    <3> HIDE DEF S, R
    <3>. QED
      BY <1>2, <1>4 DEF RInv, Strict
  <2>3. \A x, y \in S : x # y => <<x, y>> \in R \/ <<y, x>> \in R
    <3> HIDE DEF S, R
    <3>. QED
      BY <1>2, <1>3, <1>4 DEF RInv, Total
  <2> HIDE DEF S, R
  <2>. QED
    BY <1>1, <2>1, <2>2, <2>3, Greatest
<1>. QED
  BY <1>1, <1>5 DEF LatestAlert

\* Where a listing was ever marked there is a latest mark.
LEMMA LatestMarkExists ==
  ASSUME IInv, RInv, NEW o \in Opps, NEW p \in Siblings(o), mark[p] # "none"
  PROVE  \E l \in LatestMark(o) : l \in Siblings(o) /\ mark[l] # "none"
                                  /\ (l = p \/ <<Outcome(l), Outcome(p)>> \in newer)
<1> DEFINE S == {s \in Siblings(o) : mark[s] # "none"}
           R == {e \in S \X S : <<Outcome(e[1]), Outcome(e[2])>> \in newer}
<1>1. IsFiniteSet(S) /\ p \in S
  <2>1. S \in SUBSET {q \in Opps : mark[q] # "none"}
    BY DEF Siblings
  <2> HIDE DEF S
  <2>2. IsFiniteSet(S)
    BY <2>1, FS_Subset DEF RInv, Finite
  <2>. QED
    BY <2>2 DEF S
<1>2. \A q \in S : Outcome(q) \in Records /\ Outcome(q) \in Ever
                   /\ Lin(Outcome(q)) = Lineage[o]
  BY DEF Records, Outcome, Ever, Lin, Siblings
<1>3. \A q, r \in S : q # r => Outcome(q) # Outcome(r)
  BY DEF Outcome
<1>4. \A q, r \in S : <<q, r>> \in R <=> <<Outcome(q), Outcome(r)>> \in newer
  OBVIOUS
<1>5. PICK l \in S : \A q \in S \ {l} : <<l, q>> \in R
  <2>1. \A x, y \in S : <<x, y>> \in R => <<y, x>> \notin R
    <3> HIDE DEF S, R
    <3>. QED
      BY <1>2, <1>4 DEF RInv, Strict
  <2>2. \A x, y, z \in S : <<x, y>> \in R /\ <<y, z>> \in R => <<x, z>> \in R
    <3> HIDE DEF S, R
    <3>. QED
      BY <1>2, <1>4 DEF RInv, Strict
  <2>3. \A x, y \in S : x # y => <<x, y>> \in R \/ <<y, x>> \in R
    <3> HIDE DEF S, R
    <3>. QED
      BY <1>2, <1>3, <1>4 DEF RInv, Total
  <2> HIDE DEF S, R
  <2>. QED
    BY <1>1, <2>1, <2>2, <2>3, Greatest
<1>. QED
  BY <1>1, <1>5 DEF LatestMark

\* What the decision compares with covers every earlier alert of the listing.
LEMMA DecisionCovers ==
  ASSUME IInv, RInv, NEW o \in Opps, ~AlreadySent(o), Improves(o)
  PROVE  Better(o)
<1> SUFFICES ASSUME NEW p \in Siblings(o) \ {o}, Counts(p) PROVE Beats(o, p)
  BY DEF Better
<1>1. PICK l \in LatestAlert(o) : /\ l \in Siblings(o) /\ Counts(l)
                                  /\ l = p \/ <<Alert(l), Alert(p)>> \in newer
  BY LatestAlertExists
<1>2. p \in Opps /\ l \in Opps /\ Lineage[p] = Lineage[o] /\ Lineage[l] = Lineage[o]
  BY <1>1 DEF Siblings
<1>3. Alert(p) \in Records /\ Alert(l) \in Records
  BY <1>2 DEF Alert, Records
<1>4. CASE WatchedSince(o) # {}
  <2>1. PICK w \in WatchedSince(o) : TRUE
    BY <1>4
  <2>2. w \in Siblings(p) /\ mark[w] # "none" /\ <<Outcome(w), Alert(l)>> \in newer
    BY <1>1, <1>2, <2>1 DEF WatchedSince, LatestMark, Siblings
  <2>3. Outcome(w) \in Records
    BY <2>2 DEF Outcome, Records, Siblings
  <2>4. <<Outcome(w), Alert(p)>> \in newer
    BY <1>1, <1>3, <2>2, <2>3 DEF RInv, Strict
  <2>. QED
    BY <2>2, <2>4 DEF Beats, Marked
<1>5. CASE WatchedSince(o) = {}
  <2>1. l # o /\ Profit[o] >= Profit[l] + Improvement
    BY <1>1, <1>5 DEF AlreadySent, Improves, Baseline
  <2>2. CASE l = p
    BY <2>1, <2>2 DEF Beats
  <2>3. CASE l # p
    <3>1. Beats(l, p)
      BY <1>1, <1>2, <2>3 DEF RInv, Chain, Siblings
    <3>2. Profit[o] \in Nat /\ Profit[l] \in Nat /\ Profit[p] \in Nat /\ Improvement \in Nat
      BY <1>2, ProfitAssumption
    <3>. QED
      BY <2>1, <3>1, <3>2 DEF Beats
  <2>. QED
    BY <2>2, <2>3
<1>. QED
  BY <1>4, <1>5

\* The stamps and marks stay and no alert starts to count.
LEMMA TablesShrink ==
  ASSUME RInv, UNCHANGED <<mark, newer>>,
         \A p \in Opps : (row'[p] = "none" <=> row[p] = "none") /\ (Counts(p)' => Counts(p))
  PROVE  /\ Strict' /\ Total' /\ Finite' /\ Chain'
         /\ \A q \in Opps : Better(q) => Better(q)'
<1>1. Strict'
  BY DEF RInv, Strict, Lin
<1>2. Ever' = Ever
  BY DEF Ever, Alert, Outcome
<1>3. Total'
  BY <1>2 DEF RInv, Total, Lin
<1>4. Finite'
  <2>1. {p \in Opps : row'[p] # "none"} = {p \in Opps : row[p] # "none"}
    OBVIOUS
  <2>. QED
    BY <2>1 DEF RInv, Finite
<1>5. \A q \in Opps : Siblings(q)' = Siblings(q) /\ Siblings(q) \subseteq Opps
  BY DEF Siblings
<1>6. \A q, p \in Opps : Beats(q, p)' <=> Beats(q, p)
  BY <1>5 DEF Beats, Marked, Outcome, Alert
<1>7. Chain'
  BY <1>5, <1>6 DEF RInv, Chain, Alert
<1>8. \A q \in Opps : Better(q) => Better(q)'
  BY <1>5, <1>6 DEF Better
<1>. QED
  BY <1>1, <1>3, <1>4, <1>7, <1>8

\* An alert is stamped that beats the earlier ones.
LEMMA AlertStamped ==
  ASSUME IInv, RInv, NEW o \in Opps, NEW s, row' = [row EXCEPT ![o] = s], s # "none",
         mark' = mark, Stamp(Alert(o)), Better(o)
  PROVE  /\ Strict' /\ Total' /\ Finite' /\ Chain'
         /\ \A q \in Opps : Better(q) /\ (q = o \/ Lineage[q] # Lineage[o]) => Better(q)'
<1>1. Alert(o) \in Records
  BY DEF Alert, Records
<1>2. Strict'
  BY <1>1, StampStrict DEF RInv
<1>3. row \in [Opps -> RowState]
  BY DEF IInv, TypeOK
<1>4. Total'
  <2>1. Ever' \subseteq Ever \cup {Alert(o)}
    BY <1>3 DEF Ever, Alert, Outcome
  <2>. QED
    BY <1>1, <2>1, StampTotal, EverRecords DEF RInv
<1>5. Finite'
  <2>1. {p \in Opps : row'[p] # "none"} = {p \in Opps : row[p] # "none"} \cup {o}
    BY <1>3
  <2>2. IsFiniteSet({p \in Opps : row[p] # "none"} \cup {o})
    BY FS_AddElement DEF RInv, Finite
  <2>. QED
    BY <2>1, <2>2 DEF RInv, Finite
<1>6. \A q \in Opps : Siblings(q)' = Siblings(q) /\ Siblings(q) \subseteq Opps
  BY DEF Siblings
<1>7. ASSUME NEW p \in Opps, p # o, Marked(p) PROVE Marked(p)'
  <2>1. PICK m \in Siblings(p) : mark[m] # "none" /\ <<Outcome(m), Alert(p)>> \in newer
    BY <1>7 DEF Marked
  <2>2. Outcome(m) \in Records /\ Alert(p) \in Records
        /\ Outcome(m) # Alert(o) /\ Alert(p) # Alert(o)
    BY <1>7, <2>1 DEF Outcome, Alert, Records, Siblings
  <2>3. <<Outcome(m), Alert(p)>> \in newer'
    BY <1>1, <2>1, <2>2, StampNewest
  <2>. QED
    BY <1>6, <2>1, <2>3 DEF Marked, Outcome, Alert
<1>8. \A q, p \in Opps : p # o /\ Beats(q, p) => Beats(q, p)'
  BY <1>7 DEF Beats
<1>9. \A p \in Opps : p # o => (Counts(p)' <=> Counts(p))
  BY <1>3 DEF Counts
<1>10. \A q \in Opps : Better(q) /\ (q = o \/ Lineage[q] # Lineage[o]) => Better(q)'
  <2> SUFFICES ASSUME NEW q \in Opps, Better(q), q = o \/ Lineage[q] # Lineage[o],
                      NEW p \in Siblings(q) \ {q}, Counts(p)'
               PROVE  Beats(q, p)'
    BY <1>6 DEF Better
  <2>1. p \in Opps /\ p # o
    BY DEF Siblings
  <2>. QED
    BY <1>8, <1>9, <2>1 DEF Better
<1>11. Chain'
  <2> SUFFICES ASSUME NEW q \in Opps, NEW p \in Siblings(q) \ {q}, Counts(q)', Counts(p)',
                      <<Alert(q), Alert(p)>> \in newer'
               PROVE  Beats(q, p)'
    BY <1>6 DEF Chain, Alert
  <2>1. p \in Opps /\ Alert(q) \in Records /\ Alert(p) \in Records
    BY DEF Siblings, Alert, Records
  <2>2. Alert(p) # Alert(o) /\ p # o
    BY <1>1, <2>1, StampNewest
  <2>3. CASE q = o
    BY <1>8, <1>9, <2>1, <2>2, <2>3 DEF Better
  <2>4. CASE q # o
    <3>1. Alert(q) # Alert(o)
      BY <2>4 DEF Alert
    <3>2. <<Alert(q), Alert(p)>> \in newer
      BY <1>1, <2>1, <2>2, <3>1, StampNewest
    <3>. QED
      BY <1>8, <1>9, <2>1, <2>2, <2>4, <3>2 DEF RInv, Chain
  <2>. QED
    BY <2>3, <2>4
<1>. QED
  BY <1>2, <1>4, <1>5, <1>10, <1>11

\* The user marks a listing: every alert of it is older than the mark.
LEMMA OutcomeStamped ==
  ASSUME IInv, RInv, NEW o \in Opps, NEW s \in Statuses, SaveOutcome(o, s)
  PROVE  /\ Strict' /\ Total' /\ Finite' /\ Chain'
         /\ \A q \in Opps : Better(q) => Better(q)'
<1> DEFINE x == Outcome(o)
<1>1. x \in Records /\ Lin(x) = Lineage[o] /\ Stamp(x)
  BY DEF Outcome, Records, Lin, SaveOutcome
<1>2. Strict'
  BY <1>1, StampStrict DEF RInv
<1>3. mark \in [Opps -> MarkState] /\ mark' = [mark EXCEPT ![o] = s] /\ row' = row
      /\ s # "none"
  BY StatusAssumption DEF IInv, TypeOK, SaveOutcome
<1>4. Total'
  <2>1. Ever' \subseteq Ever \cup {x}
    BY <1>3 DEF Ever, Alert, Outcome
  <2>. QED
    BY <1>1, <2>1, StampTotal, EverRecords DEF RInv
<1>5. Finite'
  <2>1. {p \in Opps : mark'[p] # "none"} = {p \in Opps : mark[p] # "none"} \cup {o}
    BY <1>3
  <2>2. IsFiniteSet({p \in Opps : mark[p] # "none"} \cup {o})
    BY FS_AddElement DEF RInv, Finite
  <2>. QED
    BY <1>3, <2>1, <2>2 DEF RInv, Finite
<1>6. \A q \in Opps : Siblings(q)' = Siblings(q) /\ Siblings(q) \subseteq Opps
  BY DEF Siblings
<1>7. \A p \in Opps : Alert(p) \in Records /\ Alert(p) # x /\ Lin(Alert(p)) = Lineage[p]
  BY DEF Alert, Outcome, Records, Lin
<1>8. ASSUME NEW p \in Opps, Lineage[p] = Lineage[o] PROVE Marked(p)'
  <2>1. <<x, Alert(p)>> \in newer'
    BY <1>1, <1>7, <1>8, StampNewest
  <2>2. o \in Siblings(p) /\ mark'[o] # "none"
    BY <1>3, <1>8 DEF Siblings
  <2>. QED
    BY <1>6, <2>1, <2>2 DEF Marked, Outcome, Alert
<1>9. ASSUME NEW p \in Opps, Lineage[p] # Lineage[o], Marked(p) PROVE Marked(p)'
  <2>1. PICK m \in Siblings(p) : mark[m] # "none" /\ <<Outcome(m), Alert(p)>> \in newer
    BY <1>9 DEF Marked
  <2>2. m # o /\ m \in Opps
    BY <1>9 DEF Siblings
  <2>3. Outcome(m) \in Records /\ Outcome(m) # x
    BY <2>2 DEF Outcome, Records
  <2>4. <<Outcome(m), Alert(p)>> \in newer'
    <3> HIDE DEF x
    <3>. QED
      BY <1>1, <1>7, <2>1, <2>3, StampNewest
  <2>. QED
    BY <1>3, <1>6, <2>1, <2>2, <2>4 DEF Marked, Outcome, Alert
<1>10. \A q, p \in Opps : Beats(q, p) => Beats(q, p)'
  BY <1>8, <1>9 DEF Beats
<1>11. \A p \in Opps : Counts(p)' <=> Counts(p)
  BY <1>3 DEF Counts
<1>12. \A q, p \in Opps : <<Alert(q), Alert(p)>> \in newer' <=> <<Alert(q), Alert(p)>> \in newer
  <2> SUFFICES ASSUME NEW q \in Opps, NEW p \in Opps
               PROVE  <<Alert(q), Alert(p)>> \in newer' <=> <<Alert(q), Alert(p)>> \in newer
    OBVIOUS
  <2> HIDE DEF x
  <2>. QED
    BY <1>1, <1>7, StampNewest
<1>13. Chain'
  BY <1>6, <1>10, <1>11, <1>12 DEF RInv, Chain, Alert
<1>14. \A q \in Opps : Better(q) => Better(q)'
  BY <1>6, <1>10, <1>11 DEF Better
<1>. QED
  BY <1>2, <1>4, <1>5, <1>13, <1>14

Choice == {"flight", "claim", "send", "await", "confirm"}

\* Only Decide brings an evaluation to where its choice matters; every other
\* step that leaves the tables alone leaves the choices alone.
LEMMA ChoicesFromBefore ==
  ASSUME IInv, [Next]_vars, NEW u \in Threads, pc'[u] \in Choice
  PROVE  /\ opp'[u] = opp[u]
         /\ \/ pc[u] \in Choice
            \/ Decide(u) /\ ~AlreadySent(opp[u]) /\ Improves(opp[u])
<1> USE DEF Choice, Goto, IInv, TypeOK
<1>1. CASE \E t \in Threads : Run(t)
  <2>1. PICK t \in Threads : Run(t)
    BY <1>1
  <2>2. CASE Decide(t)
    BY <2>2 DEF Decide
  <2>3. CASE ~Decide(t)
    BY <2>1, <2>3
    DEF Run, Unreadable, EnterLineage, Reject, Lead, Follow, Shared, Claim, Unclaimed,
        Send, Answered, Refused, Unknown, Confirm, Fail, NotRecorded, Settle,
        LeaveLineage, Leave
  <2>. QED
    BY <2>2, <2>3
<1>2. CASE ~(\E t \in Threads : Run(t))
  BY <1>2, ThreadsAssumption
  DEF Next, Evaluate, Begin, Take, Lose, Save, SaveOutcome, Start, ReadPage,
      ReconcileNext, Swept, SweepFails, Crash, vars, service
<1>. QED
  BY <1>1, <1>2

\* The tables of a step that neither stamps nor fails an alert.
LEMMA TablesStay ==
  ASSUME IInv, [Next]_vars,
         \A t \in Threads : ~Claim(t) /\ ~Confirm(t) /\ ~Fail(t),
         \A o \in Opps, s \in Statuses : ~SaveOutcome(o, s)
  PROVE  UNCHANGED <<row, mark, newer>>
BY DEF Next, Run, Unreadable, EnterLineage, Reject, Decide, Lead, Follow, Shared,
   Unclaimed, Send, Answered, Refused, Unknown, NotRecorded, Settle, LeaveLineage, Leave,
   Evaluate, Begin, Take, Lose, Save, Start, ReadPage, ReconcileNext, Swept, SweepFails,
   Crash, vars, database

\* The choices after a step, one evaluation at a time.
LEMMA ChosenAgain ==
  ASSUME \A u \in Threads : pc'[u] \in Choice =>
           \E q \in Opps : q = opp'[u] /\ Better(q)'
  PROVE  Chosen'
BY DEF Chosen, Choice, Better, Siblings, Beats

LEMMA NextRInv == IInv /\ RInv /\ [Next]_vars => RInv'
<1> SUFFICES ASSUME IInv, RInv, [Next]_vars PROVE RInv'
  OBVIOUS
<1>1. ASSUME NEW u \in Threads, pc'[u] \in Choice
      PROVE  opp'[u] = opp[u] /\ opp[u] \in Opps /\ Better(opp[u])
             /\ pc[u] \in Holding
  <2>1. opp'[u] = opp[u] /\ pc[u] \in Holding /\ opp[u] \in Opps
    BY <1>1, ChoicesFromBefore
    DEF Choice, Decide, Goto, IInv, Local, Active, Holding, Locations
  <2>2. Better(opp[u])
    BY <1>1, <2>1, ChoicesFromBefore, DecisionCovers DEF RInv, Chosen, Choice
  <2>. QED
    BY <2>1, <2>2
<1>2. CASE \E t \in Threads : Claim(t) \/ Confirm(t)
  <2>1. PICK t \in Threads : Claim(t) \/ Confirm(t)
    BY <1>2
  <2>2. opp[t] \in Opps /\ pc[t] \in Holding /\ Better(opp[t])
        /\ \A u \in Threads \ {t} : pc'[u] = pc[u]
    BY <2>1 DEF Claim, Confirm, Goto, IInv, TypeOK, Local, Active, Holding, Locations,
       RInv, Chosen
  <2>3. \E s : row' = [row EXCEPT ![opp[t]] = s] /\ s # "none"
    BY <2>1 DEF Claim, Confirm, Recorded
  <2>4. mark' = mark /\ Stamp(Alert(opp[t]))
    BY <2>1 DEF Claim, Confirm
  <2>5. /\ Strict' /\ Total' /\ Finite' /\ Chain'
        /\ \A q \in Opps : Better(q) /\ (q = opp[t] \/ Lineage[q] # Lineage[opp[t]])
             => Better(q)'
    BY <2>2, <2>3, <2>4, AlertStamped
  <2>6. ASSUME NEW u \in Threads, pc'[u] \in Choice
        PROVE  opp[u] = opp[t] \/ Lineage[opp[u]] # Lineage[opp[t]]
    <3>1. pc[u] \in Holding
      BY <1>1, <2>6
    <3>2. owner[Lineage[opp[u]]] = u /\ owner[Lineage[opp[t]]] = t
      BY <2>2, <3>1 DEF IInv, Local
    <3>. QED
      BY <3>2
  <2>7. ASSUME NEW u \in Threads, pc'[u] \in Choice
        PROVE  \E q \in Opps : q = opp'[u] /\ Better(q)'
    <3>1. PICK q \in Opps : q = opp[u]
      BY <1>1, <2>7
    <3>2. Better(q)'
      BY <1>1, <2>5, <2>6, <2>7, <3>1
    <3>. QED
      BY <1>1, <2>7, <3>1, <3>2
  <2>8. Chosen'
    BY <2>7, ChosenAgain
  <2>. QED
    BY <2>5, <2>8 DEF RInv
<1>3. CASE \E o \in Opps, s \in Statuses : SaveOutcome(o, s)
  <2>1. /\ Strict' /\ Total' /\ Finite' /\ Chain'
        /\ \A q \in Opps : Better(q) => Better(q)'
    BY <1>3, OutcomeStamped
  <2>2. ASSUME NEW u \in Threads, pc'[u] \in Choice
        PROVE  \E q \in Opps : q = opp'[u] /\ Better(q)'
    <3>1. PICK q \in Opps : q = opp[u]
      BY <1>1, <2>2
    <3>. QED
      BY <1>1, <2>1, <2>2, <3>1
  <2>3. Chosen'
    BY <2>2, ChosenAgain
  <2>. QED
    BY <2>1, <2>3 DEF RInv
<1>4. CASE ~(\E t \in Threads : Claim(t) \/ Confirm(t))
           /\ ~(\E o \in Opps, s \in Statuses : SaveOutcome(o, s))
  <2>1. /\ UNCHANGED <<mark, newer>>
        /\ \A p \in Opps : (row'[p] = "none" <=> row[p] = "none") /\ (Counts(p)' => Counts(p))
    <3>1. CASE \E t \in Threads : Fail(t)
      BY <3>1 DEF Fail, Goto, IInv, TypeOK, Local, Active, Counts
    <3>2. CASE ~(\E t \in Threads : Fail(t))
      BY <1>4, <3>2, TablesStay DEF Counts
    <3>. QED
      BY <3>1, <3>2
  <2>2. /\ Strict' /\ Total' /\ Finite' /\ Chain'
        /\ \A q \in Opps : Better(q) => Better(q)'
    BY <2>1, TablesShrink
  <2>3. ASSUME NEW u \in Threads, pc'[u] \in Choice
        PROVE  \E q \in Opps : q = opp'[u] /\ Better(q)'
    <3>1. PICK q \in Opps : q = opp[u]
      BY <1>1, <2>3
    <3>. QED
      BY <1>1, <2>2, <2>3, <3>1
  <2>4. Chosen'
    BY <2>3, ChosenAgain
  <2>. QED
    BY <2>2, <2>4 DEF RInv
<1>. QED
  BY <1>2, <1>3, <1>4

LEMMA InitRInv == Init => RInv
<1> SUFFICES ASSUME Init PROVE RInv
  OBVIOUS
<1>1. newer = {} /\ \A o \in Opps : row[o] = "none" /\ mark[o] = "none"
  BY DEF Init
<1>2. Strict /\ Chain /\ Total
  BY <1>1 DEF Strict, Chain, Total, Counts, Ever
<1>3. {p \in Opps : row[p] # "none"} = {} /\ {p \in Opps : mark[p] # "none"} = {}
  BY <1>1
<1>4. Finite
  BY <1>3, FS_EmptySet DEF Finite
<1>5. Chosen
  BY DEF Init, Chosen
<1>. QED
  BY <1>2, <1>4, <1>5 DEF RInv

\* A push beats by Improvement every earlier push of its listing that may have
\* reached the user, or the listing went on the watch list after that push.
THEOREM RepeatsImprove == Spec => RepeatNeedsImprovement
<1> DEFINE Justified(o, p) ==
             \/ Profit[o] >= Profit[p] + Improvement
             \/ \E w \in LatestMark(o) : /\ mark[w] = "watching"
                                         /\ <<Outcome(w), Alert(p)>> \in newer
<1>1. IInv /\ EInv /\ RInv /\ [Next]_vars
        => [\A o \in wire' \ wire : \A p \in Siblings(o) \ {o} :
              p \in wire \/ accepts[p] > 0 => Justified(o, p)]_vars
  <2> SUFFICES ASSUME IInv, EInv, RInv, Next, NEW o \in wire' \ wire,
                      NEW p \in Siblings(o) \ {o}, p \in wire \/ accepts[p] > 0
               PROVE  Justified(o, p)
    OBVIOUS
  <2>1. o \in Opps /\ \E t \in Threads : pc[t] = "send" /\ opp[t] = o
    BY DEF Next, Evaluate, Begin, Run, Unreadable, EnterLineage, Reject, Decide, Lead,
       Follow, Shared, Claim, Unclaimed, Send, Answered, Refused, Unknown, Confirm, Fail,
       NotRecorded, Settle, LeaveLineage, Leave, Goto, Take, Lose, Save, SaveOutcome,
       Start, ReadPage, ReconcileNext, Swept, SweepFails, Crash, database, provider, IInv,
       Local, Active
  <2>2. Better(o) /\ Eligible(o)
    BY <2>1 DEF RInv, Chosen, EInv, Decided
  <2>3. p \in Opps /\ Lineage[p] = Lineage[o]
    BY DEF Siblings
  <2>4. Counts(p)
    BY <2>3 DEF IInv, TypeOK, Told, Unsent, Counts
  <2>5. Beats(o, p)
    BY <2>2, <2>4 DEF Better
  <2>6. CASE Marked(p)
    <3>1. PICK m \in Siblings(p) : mark[m] # "none" /\ <<Outcome(m), Alert(p)>> \in newer
      BY <2>6 DEF Marked
    <3>2. m \in Siblings(o)
      BY <2>3, <3>1 DEF Siblings
    <3>3. PICK l \in LatestMark(o) : /\ l \in Siblings(o) /\ mark[l] # "none"
                                     /\ l = m \/ <<Outcome(l), Outcome(m)>> \in newer
      BY <2>1, <3>1, <3>2, LatestMarkExists
    <3>4. PICK w \in LatestMark(o) : w = CHOOSE x \in LatestMark(o) : TRUE
      BY <3>3
    <3>5. mark[w] \in {"new", "watching"} /\ w \in Opps
      BY <2>2, <3>3, <3>4 DEF Eligible, Status, LatestMark, Siblings
    <3>6. mark[w] = "watching"
      BY <3>5 DEF IInv, TypeOK, MarkState
    <3>7. Outcome(l) \in Records /\ Outcome(w) \in Records /\ Outcome(m) \in Records
          /\ Alert(p) \in Records
      BY <2>3, <3>1, <3>3, <3>5 DEF Outcome, Alert, Records, Siblings
    <3>8. w = l
      <4> SUFFICES ASSUME w # l PROVE FALSE
        OBVIOUS
      <4>1. <<Outcome(w), Outcome(l)>> \in newer /\ <<Outcome(l), Outcome(w)>> \in newer
        BY <3>3, <3>4, <3>6 DEF LatestMark
      <4>. QED
        BY <3>7, <4>1 DEF RInv, Strict
    <3>9. <<Outcome(w), Alert(p)>> \in newer
      BY <3>1, <3>3, <3>7, <3>8 DEF RInv, Strict
    <3>. QED
      BY <3>6, <3>9
  <2>. QED
    BY <2>5, <2>6 DEF Beats
<1>2. Init => EInv
  BY DEF Init, EInv, Decided
<1> HIDE DEF Justified
<1>3. Spec => [][\A o \in wire' \ wire : \A p \in Siblings(o) \ {o} :
                   p \in wire \/ accepts[p] > 0 => Justified(o, p)]_vars
  BY <1>1, <1>2, InitRInv, NextRInv, NextEInv, InvariantHolds, PTL DEF Spec
<1>. QED
  BY <1>3 DEF RepeatNeedsImprovement, Justified
===============================================================================
