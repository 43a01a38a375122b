---------------------------- MODULE ScannerProofs ----------------------------
(***************************************************************************)
(* Proofs about Scanner, for any connectors, snapshots, events and number  *)
(* of runs.                                                                *)
(*                                                                         *)
(* That a run row tells the truth is not inductive: a commit is right only *)
(* because its run is still open (OpenRun), because no stored snapshot     *)
(* belongs to an open run (Books), and because the open transaction holds  *)
(* only snapshots that are not stored and scores each of them once, its    *)
(* event being processed once (OpenTransaction).                           *)
(***************************************************************************)
EXTENDS Scanner, FiniteSetTheorems, TLAPS

Working == {"collect", "persist", "finish", "again"}
Running == Working \cup {"start", "record", "offer"}

Turns == pc \in Running => turn \in DOMAIN Connectors

OpenRun == pc \in Working => run \in DOMAIN runs /\ runs[run].state = "open"

Books ==
  /\ \A s \in Snapshots : savedBy[s] # 0 =>
       savedBy[s] \in DOMAIN runs /\ runs[savedBy[s]].state = "ok"
  /\ \A r \in DOMAIN runs : runs[r].state = "ok" => runs[r].count = Cardinality(Stored(r))
  /\ \A o \in opps : o.run # 0 /\ savedBy[o.snap] = o.run
  /\ \A o, p \in opps : o.snap = p.snap => o = p

OpenTransaction ==
  /\ pc # "persist" => txSnaps = {} /\ txOpps = {}
  /\ \A s \in txSnaps : savedBy[s] = 0 /\ EventOf[s] \notin left
  /\ \A o \in txOpps : o.run = run /\ o.snap \in txSnaps
  /\ \A o, p \in txOpps : o.snap = p.snap => o = p

IInv == TypeOK /\ Turns /\ OpenRun /\ Books /\ OpenTransaction

-------------------------------------------------------------------------------
(* Parts of steps                                                          *)

\* The steps that touch neither the tables nor the transaction.
LEMMA Bystanders ==
  ASSUME IInv, UNCHANGED <<tables, tx>>, TypeOK', Turns',
         pc = "persist" <=> pc' = "persist", pc' \in Working => pc \in Working /\ run' = run,
         pc = "persist" => run' = run
  PROVE  IInv'
<1>1. OpenRun'
  BY DEF IInv, OpenRun, tables
<1>2. Books'
  BY DEF IInv, Books, Stored, tables
<1>3. OpenTransaction'
  BY DEF IInv, OpenTransaction, tables, tx
<1> QED
  BY <1>1, <1>2, <1>3 DEF IInv

LEMMA CurrentIsSource == ASSUME IInv, pc \in Running PROVE Current \in Sources
BY ConnectorsAssumption DEF IInv, Turns, Current, Sources

LEMMA RowType == ASSUME NEW s \in Sources, NEW st \in {"open", "failed"} PROVE Row(s, st) \in RunRows
BY DEF Row, RunRows

\* The next turn is one of a connector, or the scan is over.
LEMMA NextTurn ==
  ASSUME IInv, pc \in Running, NextConnector
  PROVE  turn' \in Nat /\ run' = 0 /\ pc' \in {"start", "idle"} /\ Turns'
<1>1. turn \in 1..Len(Connectors) /\ Len(Connectors) \in Nat
  BY ConnectorsAssumption DEF IInv, Turns
<1>2. turn' = turn + 1 /\ run' = 0 /\ pc' = IF turn < Len(Connectors) THEN "start" ELSE "idle"
  BY DEF NextConnector
<1>3. DOMAIN Connectors = 1..Len(Connectors)
  BY ConnectorsAssumption
<1> QED
  BY <1>1, <1>2, <1>3 DEF Turns, Running, Working

\* Adding a run row that is not finished well disturbs no books.
LEMMA RowAdded ==
  ASSUME IInv, NEW row \in RunRows, row.state # "ok", runs' = Append(runs, row),
         UNCHANGED <<savedBy, opps>>
  PROVE  Books' /\ runs' \in Seq(RunRows)
<1>1. runs \in Seq(RunRows) /\ savedBy \in [Snapshots -> Nat]
  BY DEF IInv, TypeOK
<1>2. /\ DOMAIN runs' = 1..(Len(runs) + 1) /\ runs'[Len(runs) + 1] = row
      /\ \A r \in DOMAIN runs : r \in DOMAIN runs' /\ runs'[r] = runs[r]
      /\ \A r \in DOMAIN runs' : r \in DOMAIN runs \/ r = Len(runs) + 1
      /\ runs' \in Seq(RunRows)
  BY <1>1
<1>3. \A r : Stored(r)' = Stored(r)
  BY DEF Stored
<1> QED
  BY <1>1, <1>2, <1>3 DEF IInv, Books

\* An open run that fails disturbs no books either.
LEMMA RunFailed ==
  ASSUME IInv, pc \in Working, NEW row \in RunRows, row.state = "failed",
         runs' = [runs EXCEPT ![run] = row], UNCHANGED <<savedBy, opps>>
  PROVE  Books' /\ runs' \in Seq(RunRows)
<1>1. /\ runs \in Seq(RunRows) /\ savedBy \in [Snapshots -> Nat]
      /\ run \in DOMAIN runs /\ runs[run].state = "open"
  BY DEF IInv, TypeOK, OpenRun
<1>2. /\ DOMAIN runs' = DOMAIN runs /\ runs' \in Seq(RunRows)
      /\ \A r \in DOMAIN runs \ {run} : runs'[r] = runs[r]
      /\ runs'[run].state = "failed"
  BY <1>1
<1>3. \A r : Stored(r)' = Stored(r)
  BY DEF Stored
<1> QED
  BY <1>1, <1>2, <1>3 DEF IInv, Books

-------------------------------------------------------------------------------
(* The open transaction                                                    *)

LEMMA EventPersisted ==
  ASSUME IInv, NEW e \in Events, PersistEvent(e)
  PROVE  IInv'
<1> DEFINE new == NewOf(e)
<1>1. /\ pc = "persist" /\ e \in left /\ left' = left \ {e} /\ txSnaps' = txSnaps \cup new
      /\ UNCHANGED <<tables, pc, turn, base, run, got, queue, offered, report>>
  BY DEF PersistEvent
<1>2. PICK candidates \in SUBSET (new \cap Pairs) : Scored(e, candidates)
  BY DEF PersistEvent
<1>0. PICK good \in SUBSET candidates :
        txOpps' = txOpps \cup {[run |-> run, snap |-> s, good |-> s \in good] : s \in candidates}
  BY <1>2 DEF Scored
<1>3. \A s \in new : s \in got /\ s \in Snapshots /\ EventOf[s] = e /\ savedBy[s] = 0
  BY DEF NewOf, IInv, TypeOK
<1> DEFINE estimate(s) == [run |-> run, snap |-> s, good |-> s \in good]
           fresh == {estimate(s) : s \in candidates}
<1>4. \A o \in fresh : /\ o.run = run /\ o.snap \in new
                       /\ o \in Opportunities(Nat, Snapshots)
                       /\ o = estimate(o.snap)
  <2>1. ASSUME NEW s \in candidates
        PROVE  /\ estimate(s).run = run /\ estimate(s).snap = s /\ s \in new
               /\ estimate(s) \in Opportunities(Nat, Snapshots)
    <3>1. run \in Nat /\ s \in new /\ s \in Snapshots /\ (s \in good) \in BOOLEAN
      BY <1>3 DEF IInv, TypeOK
    <3>2. estimate(s).run = run /\ estimate(s).snap = s
      OBVIOUS
    <3>3. estimate(s) \in Opportunities(Nat, Snapshots)
      BY <3>1 DEF Opportunities
    <3> QED
      BY <3>1, <3>2, <3>3
  <2> HIDE DEF estimate
  <2> QED
    BY <2>1 DEF fresh
<1>5. txOpps' = txOpps \cup fresh
  BY <1>0
<1> HIDE DEF new, fresh, estimate
<1>6. TypeOK'
  <2>1. txSnaps' \subseteq Snapshots /\ left' \subseteq Events
    BY <1>1, <1>3 DEF IInv, TypeOK
  <2>2. txOpps' \subseteq Opportunities(Nat, Snapshots)
    BY <1>4, <1>5 DEF IInv, TypeOK
  <2> QED
    BY <1>1, <2>1, <2>2 DEF IInv, TypeOK, tables, report
<1>7. Turns' /\ OpenRun'
  BY <1>1 DEF IInv, Turns, OpenRun, Working, Running, tables
<1>8. Books'
  BY <1>1 DEF IInv, Books, Stored, tables
<1>9. OpenTransaction'
  <2>1. \A s \in txSnaps' : savedBy'[s] = 0 /\ EventOf[s] \notin left'
    BY <1>1, <1>3 DEF IInv, OpenTransaction, tables
  <2>2. \A o \in txOpps' : o.run = run' /\ o.snap \in txSnaps'
    BY <1>1, <1>4, <1>5 DEF IInv, OpenTransaction
  <2>3. \A o, p \in fresh : o.snap = p.snap => o = p
    BY <1>4
  <2>4. \A o \in txOpps, p \in fresh : o.snap # p.snap
    BY <1>1, <1>3, <1>4 DEF IInv, OpenTransaction
  <2>5. \A o, p \in txOpps' : o.snap = p.snap => o = p
    BY <1>5, <2>3, <2>4 DEF IInv, OpenTransaction
  <2> QED
    BY <1>1, <2>1, <2>2, <2>5 DEF OpenTransaction
<1> QED
  BY <1>6, <1>7, <1>8, <1>9 DEF IInv

\* A commit stores and scores what was not stored, for a run that had nothing.
LEMMA Committed == ASSUME IInv, Commit PROVE IInv'
<1> DEFINE row == [[runs[run] EXCEPT !.state = "ok"] EXCEPT !.count = Cardinality(txSnaps)]
<1>1. /\ pc = "persist" /\ pc' = "offer" /\ left = {}
      /\ runs' = [runs EXCEPT ![run].state = "ok", ![run].count = Cardinality(txSnaps)]
      /\ savedBy' = [s \in Snapshots |-> IF s \in txSnaps THEN run ELSE savedBy[s]]
      /\ opps' = opps \cup txOpps /\ queue' = HandedOver
      /\ got' = {} /\ left' = {} /\ txSnaps' = {} /\ txOpps' = {}
      /\ UNCHANGED <<turn, base, run, offered, report>>
  BY DEF Commit, EndTransaction, Goto
<1>2. /\ runs \in Seq(RunRows) /\ savedBy \in [Snapshots -> Nat] /\ run \in DOMAIN runs
      /\ runs[run].state = "open" /\ runs[run] \in RunRows /\ run \in Nat \ {0}
  BY <1>1 DEF IInv, TypeOK, OpenRun, Working
<1>3. txSnaps \subseteq Snapshots /\ IsFiniteSet(txSnaps) /\ Cardinality(txSnaps) \in Nat
  BY SnapshotsAssumption, FS_Subset, FS_CardinalityType DEF IInv, TypeOK
<1>4. row \in RunRows /\ row.state = "ok" /\ row.count = Cardinality(txSnaps)
  BY <1>2, <1>3 DEF RunRows
<1>5. runs' = [runs EXCEPT ![run] = row]
  BY <1>1, <1>2
<1> HIDE DEF row
<1>6. /\ DOMAIN runs' = DOMAIN runs /\ runs' \in Seq(RunRows) /\ runs'[run] = row
      /\ \A r \in DOMAIN runs \ {run} : runs'[r] = runs[r]
  BY <1>2, <1>4, <1>5
<1>7. HandedOver \subseteq txOpps
  BY DEF HandedOver
<1>8. TypeOK'
  BY <1>1, <1>2, <1>6, <1>7 DEF IInv, TypeOK, report
<1>9. \A s \in Snapshots : savedBy[s] # run
  BY <1>2 DEF IInv, Books
<1>10. {s \in Snapshots : savedBy'[s] = run} = txSnaps
  BY <1>1, <1>3, <1>9 DEF Stored
<1>11. \A r \in DOMAIN runs \ {run} : {s \in Snapshots : savedBy'[s] = r} = Stored(r)
  <2>1. \A r \in DOMAIN runs : r # 0
    BY <1>2
  <2>2. \A s \in txSnaps : savedBy[s] = 0
    BY DEF IInv, OpenTransaction
  <2> QED
    BY <1>1, <2>1, <2>2 DEF Stored
<1>12. Books'
  <2>1. \A s \in Snapshots : savedBy'[s] # 0 =>
          savedBy'[s] \in DOMAIN runs' /\ runs'[savedBy'[s]].state = "ok"
    BY <1>1, <1>2, <1>4, <1>6 DEF IInv, Books
  <2>2. \A r \in DOMAIN runs' : runs'[r].state = "ok" =>
          runs'[r].count = Cardinality({s \in Snapshots : savedBy'[s] = r})
    <3>1. runs'[run].count = Cardinality({s \in Snapshots : savedBy'[s] = run})
      BY <1>4, <1>6, <1>10
    <3>2. ASSUME NEW r \in DOMAIN runs \ {run}, runs'[r].state = "ok"
          PROVE  runs'[r].count = Cardinality({s \in Snapshots : savedBy'[s] = r})
      BY <3>2, <1>6, <1>11 DEF IInv, Books
    <3> QED
      BY <3>1, <3>2, <1>6
  <2>3. \A o \in txOpps : o.run # 0 /\ savedBy'[o.snap] = o.run /\ savedBy[o.snap] = 0
    BY <1>1, <1>2, <1>3 DEF IInv, OpenTransaction
  <2>4. \A o \in opps : o.run # 0 /\ o.snap \in Snapshots /\ savedBy[o.snap] = o.run
    BY DEF IInv, Books, TypeOK, Opportunities
  <2>5. \A o \in opps : savedBy'[o.snap] = o.run
    BY <1>1, <2>4 DEF IInv, OpenTransaction
  <2>6. \A o \in opps, p \in txOpps : o.snap # p.snap
    BY <2>3, <2>4
  <2>7. \A o, p \in opps' : o.snap = p.snap => o = p
    BY <1>1, <2>6 DEF IInv, Books, OpenTransaction
  <2>8. \A o \in opps' : o.run # 0 /\ savedBy'[o.snap] = o.run
    BY <1>1, <2>3, <2>4, <2>5
  <2> QED
    BY <2>1, <2>2, <2>7, <2>8 DEF Books, Stored
<1>13. Turns' /\ OpenRun' /\ OpenTransaction'
  BY <1>1 DEF IInv, Turns, OpenRun, OpenTransaction, Working, Running
<1> QED
  BY <1>8, <1>12, <1>13 DEF IInv

-------------------------------------------------------------------------------
(* The invariant                                                           *)

LEMMA InitInv == ASSUME Init PROVE IInv
<1>1. runs = <<>> /\ savedBy = [s \in Snapshots |-> 0] /\ opps = {} /\ pc = "idle"
      /\ turn = 0 /\ base = 0 /\ run = 0 /\ got = {} /\ left = {} /\ txSnaps = {}
      /\ txOpps = {} /\ queue = {} /\ offered = {} /\ succeeded = {} /\ failed = {}
  BY DEF Init
<1>2. TypeOK
  BY <1>1 DEF TypeOK
<1>3. Books
  BY <1>1 DEF Books
<1> QED
  BY <1>1, <1>2, <1>3 DEF IInv, Turns, OpenRun, OpenTransaction, Working, Running

\* Giving up a connector keeps the types of the report.
LEMMA GivenUp ==
  ASSUME IInv, pc \in Running, GiveUp
  PROVE  /\ turn' \in Nat /\ run' = 0 /\ pc' \in {"start", "idle"} /\ Turns'
         /\ succeeded' \subseteq Sources /\ failed' \subseteq Sources
BY NextTurn, CurrentIsSource DEF GiveUp, IInv, TypeOK

LEMMA RunStarted == ASSUME IInv, StartRun PROVE IInv'
<1>1. /\ pc = "start" /\ pc' = "collect" /\ runs' = Append(runs, Row(Current, "open"))
      /\ run' = Len(runs) + 1
      /\ UNCHANGED <<savedBy, opps, turn, base, tx, queue, offered, report>>
  BY DEF StartRun, Goto
<1>2. Row(Current, "open") \in RunRows /\ Row(Current, "open").state = "open"
  BY <1>1, CurrentIsSource, RowType DEF Running, Row
<1>3. Books' /\ runs' \in Seq(RunRows)
  BY <1>1, <1>2, RowAdded
<1>4. run' \in Nat /\ run' \in DOMAIN runs' /\ runs'[run'] = Row(Current, "open")
  BY <1>1, <1>2 DEF IInv, TypeOK
<1>5. TypeOK'
  BY <1>1, <1>3, <1>4 DEF IInv, TypeOK, tx, report
<1>6. Turns' /\ OpenRun' /\ OpenTransaction'
  BY <1>1, <1>2, <1>4 DEF IInv, Turns, OpenRun, OpenTransaction, Working, Running, tx
<1> QED
  BY <1>3, <1>5, <1>6 DEF IInv

LEMMA FailureRecorded == ASSUME IInv, RecordFailedRun PROVE IInv'
<1>1. /\ pc = "record" /\ GiveUp
      /\ runs' = Append(runs, Row(Current, "failed")) \/ UNCHANGED runs
      /\ UNCHANGED <<savedBy, opps, base, tx, queue, offered>>
  BY DEF RecordFailedRun
<1>2. /\ turn' \in Nat /\ run' = 0 /\ pc' \in {"start", "idle"} /\ Turns'
      /\ succeeded' \subseteq Sources /\ failed' \subseteq Sources
  BY <1>1, GivenUp DEF Running
<1>3. Books' /\ runs' \in Seq(RunRows)
  <2>1. CASE runs' = Append(runs, Row(Current, "failed"))
    <3>1. Row(Current, "failed") \in RunRows /\ Row(Current, "failed").state = "failed"
      BY <1>1, CurrentIsSource, RowType DEF Running, Row
    <3> QED
      BY <1>1, <2>1, <3>1, RowAdded
  <2>2. CASE UNCHANGED runs
    BY <1>1, <2>2 DEF IInv, TypeOK, Books, Stored
  <2> QED
    BY <1>1, <2>1, <2>2
<1>4. TypeOK'
  BY <1>1, <1>2, <1>3 DEF IInv, TypeOK, tx
<1>5. OpenRun' /\ OpenTransaction'
  BY <1>1, <1>2 DEF IInv, OpenRun, OpenTransaction, Working, tx
<1> QED
  BY <1>2, <1>3, <1>4, <1>5 DEF IInv

LEMMA Collected == ASSUME IInv, Collect PROVE IInv'
<1>1. /\ pc = "collect" /\ pc' = "persist"
      /\ got' \in SUBSET {s \in Snapshots : SourceOf[s] = Current}
      /\ left' = {EventOf[s] : s \in got'}
      /\ UNCHANGED <<tables, turn, base, run, txSnaps, txOpps, queue, offered, report>>
  BY DEF Collect, Goto
<1>2. got' \subseteq Snapshots /\ left' \subseteq Events
  BY <1>1 DEF Events
<1>3. TypeOK'
  BY <1>1, <1>2 DEF IInv, TypeOK, tables, report
<1>4. Turns' /\ OpenRun' /\ OpenTransaction'
  BY <1>1 DEF IInv, Turns, OpenRun, OpenTransaction, Working, Running, tables
<1>5. Books'
  BY <1>1 DEF IInv, Books, Stored, tables
<1> QED
  BY <1>3, <1>4, <1>5 DEF IInv

LEMMA RolledBack == ASSUME IInv, Rollback PROVE IInv'
<1>1. /\ pc = "persist" /\ pc' = "finish"
      /\ got' = {} /\ left' = {} /\ txSnaps' = {} /\ txOpps' = {}
      /\ UNCHANGED <<tables, turn, base, run, queue, offered, report>>
  BY DEF Rollback, Goto, EndTransaction
<1>2. TypeOK'
  BY <1>1 DEF IInv, TypeOK, tables, report
<1>3. Turns' /\ OpenRun' /\ OpenTransaction'
  BY <1>1 DEF IInv, Turns, OpenRun, OpenTransaction, Working, Running, tables
<1>4. Books'
  BY <1>1 DEF IInv, Books, Stored, tables
<1> QED
  BY <1>2, <1>3, <1>4 DEF IInv

LEMMA FailureFinished == ASSUME IInv, FinishFailed PROVE IInv'
<1> DEFINE row == [runs[run] EXCEPT !.state = "failed"]
<1>1. /\ pc \in {"finish", "again"} /\ runs' = [runs EXCEPT ![run].state = "failed"] /\ GiveUp
      /\ UNCHANGED <<savedBy, opps, base, tx, queue, offered>>
  BY DEF FinishFailed
<1>2. /\ turn' \in Nat /\ run' = 0 /\ pc' \in {"start", "idle"} /\ Turns'
      /\ succeeded' \subseteq Sources /\ failed' \subseteq Sources
  BY <1>1, GivenUp DEF Running, Working
<1>3. runs \in Seq(RunRows) /\ run \in DOMAIN runs /\ runs[run] \in RunRows
  BY <1>1 DEF IInv, TypeOK, OpenRun, Working
<1>4. row \in RunRows /\ row.state = "failed"
  BY <1>3 DEF RunRows
<1>5. runs' = [runs EXCEPT ![run] = row]
  BY <1>1, <1>3
<1> HIDE DEF row
<1>6. Books' /\ runs' \in Seq(RunRows)
  BY <1>1, <1>4, <1>5, RunFailed DEF Working
<1>7. TypeOK'
  BY <1>1, <1>2, <1>6 DEF IInv, TypeOK, tx
<1>8. OpenRun' /\ OpenTransaction'
  BY <1>1, <1>2 DEF IInv, OpenRun, OpenTransaction, Working, tx
<1> QED
  BY <1>2, <1>6, <1>7, <1>8 DEF IInv

LEMMA Crashed == ASSUME IInv, Crash PROVE IInv'
<1>1. /\ pc' = "down" /\ turn' = 0 /\ base' = 0 /\ run' = 0
      /\ queue' = {} /\ offered' = {} /\ succeeded' = {} /\ failed' = {}
      /\ got' = {} /\ left' = {} /\ txSnaps' = {} /\ txOpps' = {}
      /\ UNCHANGED tables
  BY DEF Crash, EndTransaction
<1>2. TypeOK'
  BY <1>1 DEF IInv, TypeOK, tables
<1>3. Turns' /\ OpenRun' /\ OpenTransaction'
  BY <1>1 DEF Turns, OpenRun, OpenTransaction, Working, Running
<1>4. Books'
  BY <1>1 DEF IInv, Books, Stored, tables
<1> QED
  BY <1>2, <1>3, <1>4 DEF IInv

LEMMA NextInv == ASSUME IInv, [Next]_vars PROVE IInv'
<1>1. CASE Begin
  <2>1. /\ pc = "idle" /\ pc' = "start" /\ turn' = 1 /\ base' = Len(runs) /\ run' = 0
        /\ Connectors # <<>> /\ succeeded' = {} /\ failed' = {}
        /\ UNCHANGED <<tables, tx, queue, offered>>
    BY <1>1 DEF Begin
  <2>2. TypeOK'
    BY <2>1 DEF IInv, TypeOK, tables, tx
  <2>3. Turns'
    BY <2>1, ConnectorsAssumption DEF Turns
  <2> QED
    BY <2>1, <2>2, <2>3, Bystanders DEF Working
<1>2. CASE StartRun
  BY <1>2, RunStarted
<1>3. CASE StartRunFails
  <2>1. /\ pc = "start" /\ pc' = "record"
        /\ UNCHANGED <<tables, turn, base, run, tx, queue, offered, report>>
    BY <1>3 DEF StartRunFails, Goto
  <2>2. TypeOK' /\ Turns'
    BY <2>1 DEF IInv, TypeOK, Turns, Running, tables, tx, report
  <2> QED
    BY <2>1, <2>2, Bystanders DEF Working
<1>4. CASE RecordFailedRun
  BY <1>4, FailureRecorded
<1>5. CASE Collect
  BY <1>5, Collected
<1>6. CASE CollectFails
  <2>1. /\ pc = "collect" /\ pc' = "finish"
        /\ UNCHANGED <<tables, turn, base, run, tx, queue, offered, report>>
    BY <1>6 DEF CollectFails, Goto
  <2>2. TypeOK' /\ Turns'
    BY <2>1 DEF IInv, TypeOK, Turns, Running, Working, tables, tx, report
  <2> QED
    BY <2>1, <2>2, Bystanders DEF Working
<1>7. CASE \E e \in Events : PersistEvent(e)
  BY <1>7, EventPersisted
<1>8. CASE Commit
  BY <1>8, Committed
<1>9. CASE Rollback
  BY <1>9, RolledBack
<1>10. CASE FinishFailed
  BY <1>10, FailureFinished
<1>11. CASE FinishFails
  <2>1. pc \in {"finish", "again"} /\ UNCHANGED <<tables, base, tx, queue, offered>>
    BY <1>11 DEF FinishFails, Goto
  <2>2. CASE Goto("finish", "again") /\ UNCHANGED <<turn, run, report>>
    <3>1. TypeOK' /\ Turns'
      BY <2>1, <2>2 DEF IInv, TypeOK, Turns, Running, Working, tables, tx, report, Goto
    <3> QED
      BY <2>1, <2>2, <3>1, Bystanders DEF Working, Goto
  <2>3. CASE pc = "again" /\ GiveUp
    <3>1. /\ turn' \in Nat /\ run' = 0 /\ pc' \in {"start", "idle"} /\ Turns'
          /\ succeeded' \subseteq Sources /\ failed' \subseteq Sources
      BY <2>3, GivenUp DEF Running, Working
    <3>2. TypeOK'
      BY <2>1, <3>1 DEF IInv, TypeOK, tables, tx
    <3> QED
      BY <2>1, <2>3, <3>1, <3>2, Bystanders DEF Working
  <2> QED
    BY <1>11, <2>2, <2>3 DEF FinishFails
<1>12. CASE \E o \in queue : Offer(o)
  <2>1. PICK o \in queue : Offer(o)
    BY <1>12
  <2>2. /\ pc = "offer" /\ queue' = queue \ {o} /\ offered' = offered \cup {o}
        /\ UNCHANGED <<tables, pc, turn, base, run, tx, report>>
    BY <2>1 DEF Offer
  <2>3. TypeOK' /\ Turns'
    BY <2>2 DEF IInv, TypeOK, Turns, Running, tables, tx, report
  <2> QED
    BY <2>2, <2>3, Bystanders DEF Working
<1>13. CASE Succeed
  <2>1. /\ pc = "offer" /\ succeeded' = succeeded \cup {Current} /\ NextConnector
        /\ UNCHANGED <<tables, base, tx, queue, offered, failed>>
    BY <1>13 DEF Succeed
  <2>2. turn' \in Nat /\ run' = 0 /\ pc' \in {"start", "idle"} /\ Turns' /\ Current \in Sources
    BY <2>1, NextTurn, CurrentIsSource DEF Running
  <2>3. TypeOK'
    BY <2>1, <2>2 DEF IInv, TypeOK, tables, tx
  <2> QED
    BY <2>1, <2>2, <2>3, Bystanders DEF Working
<1>14. CASE Crash
  BY <1>14, Crashed
<1>15. CASE Restart
  <2>1. /\ pc = "down" /\ pc' = "idle"
        /\ UNCHANGED <<tables, turn, base, run, tx, queue, offered, report>>
    BY <1>15 DEF Restart, Goto
  <2>2. TypeOK' /\ Turns'
    BY <2>1 DEF IInv, TypeOK, Turns, Running, Working, tables, tx, report
  <2> QED
    BY <2>1, <2>2, Bystanders DEF Working
<1>16. CASE UNCHANGED vars
  <2>1. TypeOK' /\ Turns'
    BY <1>16 DEF IInv, TypeOK, Turns, vars, tables, tx, report
  <2> QED
    BY <1>16, <2>1, Bystanders DEF vars
<1> QED
  BY <1>1, <1>2, <1>3, <1>4, <1>5, <1>6, <1>7, <1>8, <1>9, <1>10, <1>11, <1>12,
     <1>13, <1>14, <1>15, <1>16 DEF Next, Work

LEMMA Invariant == Spec => []IInv
<1>1. Init => IInv
  BY InitInv
<1>2. IInv /\ [Next]_vars => IInv'
  BY NextInv
<1> QED
  BY <1>1, <1>2, PTL DEF Spec

-------------------------------------------------------------------------------
(* The theorems                                                            *)

\* The variables keep their types: the rows written by scanner.py are rows of
\* connector_runs whatever fails.
THEOREM TypeCorrect == Spec => []TypeOK
<1>1. IInv => TypeOK
  BY DEF IInv
<1> QED
  BY <1>1, Invariant, PTL

\* A run row of scanner.py's two transactions tells what the run left behind,
\* whatever failed and whenever the process died.
THEOREM RunRowsTellTheTruth == Spec => []RunRowTellsTruth
<1>1. ASSUME IInv PROVE RunRowTellsTruth
  <2>1. \A r \in DOMAIN runs : r # 0
    BY <1>1 DEF IInv, TypeOK
  <2>2. ASSUME NEW r \in DOMAIN runs, runs[r].state # "ok"
        PROVE  Stored(r) = {} /\ \A o \in opps : o.run # r
    <3>1. \A s \in Snapshots : savedBy[s] # r
      BY <1>1, <2>1, <2>2 DEF IInv, Books
    <3>2. \A o \in opps : o.snap \in Snapshots /\ savedBy[o.snap] = o.run
      BY <1>1 DEF IInv, TypeOK, Opportunities, Books
    <3> QED
      BY <3>1, <3>2 DEF Stored
  <2> QED
    BY <1>1, <2>2 DEF RunRowTellsTruth, IInv, Books
<1>2. IInv => RunRowTellsTruth
  BY <1>1
<1> QED
  BY <1>2, Invariant, PTL

\* _persist_collection scores a snapshot once at most, however often scans
\* collect it.
THEOREM EachSnapshotScoredOnce == Spec => []ScoredOnce
<1>1. IInv => ScoredOnce
  BY DEF IInv, Books, ScoredOnce
<1> QED
  BY <1>1, Invariant, PTL

\* evaluate_and_send is only ever called for what the commit made durable.
THEOREM OnlyCommittedIsOffered == Spec => []OfferedIsCommitted
<1>1. Init => OfferedIsCommitted
  BY DEF Init, OfferedIsCommitted
<1>2. ASSUME OfferedIsCommitted, [Next]_vars PROVE OfferedIsCommitted'
  <2>1. CASE Commit
    BY <1>2, <2>1 DEF OfferedIsCommitted, Commit, HandedOver
  <2>2. CASE \E o \in queue : Offer(o)
    BY <1>2, <2>2 DEF OfferedIsCommitted, Offer, tables
  <2>3. CASE Crash
    BY <1>2, <2>3 DEF OfferedIsCommitted, Crash
  <2>4. CASE UNCHANGED <<queue, offered, opps>>
    BY <1>2, <2>4 DEF OfferedIsCommitted
  <2> QED
    BY <1>2, <2>1, <2>2, <2>3, <2>4
    DEF Next, Work, Begin, StartRun, StartRunFails, RecordFailedRun, Collect, CollectFails,
        PersistEvent, Rollback, FinishFailed, FinishFails, Succeed, Restart, vars, tables
<1>3. OfferedIsCommitted /\ [Next]_vars => OfferedIsCommitted'
  BY <1>2
<1> QED
  BY <1>1, <1>3, PTL DEF Spec

-------------------------------------------------------------------------------
(* The summary.  While a connector has its turn, those before it are in    *)
(* the report, and any other row of this scan is one of theirs.            *)

Before == {Connectors[i] : i \in 1..(turn - 1)}
Owning == Working \cup {"offer"}

Turn ==
  pc \in Running =>
    /\ succeeded \cup failed = Before
    /\ base \in 0..Len(runs)
    /\ \A r \in DOMAIN runs : r > base /\ r # run => runs[r].source \in Before
    /\ IF pc \in Owning
       THEN run \in DOMAIN runs /\ run > base /\ runs[run].source = Current
       ELSE run = 0
    /\ pc = "offer" => runs[run].state = "ok"

SummaryInv == SummaryIsRight /\ Turn /\ (pc = "down" => turn = 0)

\* The connector whose turn it is has no part in the report yet.
LEMMA CurrentIsNew ==
  ASSUME IInv, pc \in Running
  PROVE  /\ Current \notin Before
         /\ {Connectors[i] : i \in 1..turn} = Before \cup {Current}
<1>1. turn \in 1..Len(Connectors) /\ Len(Connectors) \in Nat /\ DOMAIN Connectors = 1..Len(Connectors)
  BY ConnectorsAssumption DEF IInv, Turns
<1>2. \A i \in 1..(turn - 1) : Connectors[i] # Connectors[turn]
  BY <1>1, ConnectorsAssumption
<1>3. 1..turn = (1..(turn - 1)) \cup {turn}
  BY <1>1
<1> QED
  BY <1>2, <1>3 DEF Before, Current

\* A connector's turn ends, in the report on the right side.
LEMMA TurnEnds ==
  ASSUME IInv, SummaryInv, TypeOK', pc \in Running, NextConnector, base' = base,
         DOMAIN runs \subseteq DOMAIN runs',
         \A r \in DOMAIN runs : r # run => runs'[r] = runs[r],
         \A r \in DOMAIN runs' : r \notin DOMAIN runs => runs'[r] = Row(Current, "failed"),
         \A r \in DOMAIN runs : runs'[r].source = runs[r].source,
         \/ /\ succeeded' = succeeded \cup {Current} /\ failed' = failed
            /\ pc = "offer" /\ runs' = runs
         \/ /\ failed' = failed \cup {Current} /\ succeeded' = succeeded
            /\ run \in DOMAIN runs => runs'[run].state # "ok"
  PROVE  SummaryInv'
<1>1. /\ Current \notin Before
      /\ {Connectors[i] : i \in 1..turn} = Before \cup {Current}
      /\ Current \in Sources
  BY CurrentIsNew, CurrentIsSource
<1>2. /\ turn' = turn + 1 /\ run' = 0 /\ turn \in 1..Len(Connectors) /\ Len(Connectors) \in Nat
      /\ pc' = IF turn < Len(Connectors) THEN "start" ELSE "idle"
      /\ DOMAIN Connectors = 1..Len(Connectors)
  BY ConnectorsAssumption DEF NextConnector, IInv, Turns
<1>3. Before' = Before \cup {Current}
  <2>1. Before' = {Connectors[i] : i \in 1..turn}
    BY <1>2 DEF Before
  <2> QED
    BY <1>1, <2>1
<1>4. succeeded' \cup failed' = Before' /\ succeeded' \cap failed' = {}
  BY <1>1, <1>3 DEF SummaryInv, SummaryIsRight, Turn
<1>5. /\ runs \in Seq(RunRows) /\ runs' \in Seq(RunRows) /\ base \in Nat
      /\ Len(runs) \in Nat /\ DOMAIN runs = 1..Len(runs)
      /\ Len(runs') \in Nat /\ DOMAIN runs' = 1..Len(runs')
  BY DEF IInv, TypeOK
<1>6. \A r \in DOMAIN runs' : r > base => runs'[r].source \in Before'
  <2>1. ASSUME NEW r \in DOMAIN runs, r > base PROVE runs'[r].source \in Before'
    <3>1. CASE r # run
      BY <2>1, <3>1, <1>3 DEF SummaryInv, Turn
    <3>2. CASE r = run
      <4>1. run # 0
        BY <3>2, <1>5
      <4> QED
        BY <2>1, <3>2, <4>1, <1>3 DEF SummaryInv, Turn
    <3> QED
      BY <3>1, <3>2
  <2>2. ASSUME NEW r \in DOMAIN runs', r \notin DOMAIN runs PROVE runs'[r].source \in Before'
    BY <2>2, <1>3 DEF Row
  <2> QED
    BY <2>1, <2>2
<1>7. base' \in 0..Len(runs')
  <2>1. base \in 0..Len(runs)
    BY DEF SummaryInv, Turn
  <2>2. Len(runs) <= Len(runs')
    <3>1. CASE Len(runs) = 0
      BY <3>1, <1>5
    <3>2. CASE Len(runs) # 0
      <4>1. Len(runs) \in DOMAIN runs'
        BY <3>2, <1>5
      <4> QED
        BY <4>1, <1>5
    <3> QED
      BY <3>1, <3>2
  <2> QED
    BY <2>1, <2>2, <1>5
<1>8. Turn'
  BY <1>2, <1>4, <1>6, <1>7 DEF Turn, Running, Working, Owning
<1>9. \A s \in succeeded' : \E r \in InThisScan(s)' : runs'[r].state = "ok"
  <2>1. ASSUME NEW s \in succeeded PROVE \E r \in InThisScan(s)' : runs'[r].state = "ok"
    <3>1. PICK r \in InThisScan(s) : runs[r].state = "ok"
      BY DEF SummaryInv, SummaryIsRight
    <3>2. r \in DOMAIN runs /\ r > base /\ runs[r].source = s
      BY <3>1 DEF InThisScan
    <3>3. s # Current
      BY <1>1 DEF SummaryInv, Turn
    <3>4. r # run
      <4>1. SUFFICES ASSUME r = run PROVE FALSE
        OBVIOUS
      <4>2. run # 0
        BY <3>2, <4>1, <1>5
      <4> QED
        BY <3>2, <3>3, <4>1, <4>2 DEF SummaryInv, Turn
    <3>5. r \in DOMAIN runs' /\ runs'[r] = runs[r]
      BY <3>2, <3>4
    <3> QED
      BY <3>1, <3>2, <3>5 DEF InThisScan
  <2>2. CASE pc = "offer" /\ succeeded' = succeeded \cup {Current} /\ runs' = runs
    <3>1. runs'[run].state = "ok" /\ \A s : s = Current => run \in InThisScan(s)'
      BY <2>2 DEF SummaryInv, Turn, InThisScan, Owning
    <3> QED
      BY <2>1, <2>2, <3>1
  <2>3. CASE succeeded' = succeeded
    BY <2>1, <2>3
  <2> QED
    BY <2>2, <2>3
<1>10. \A s \in failed' : \A r \in InThisScan(s)' : runs'[r].state # "ok"
  <2> SUFFICES ASSUME NEW s \in failed', NEW r \in InThisScan(s)'
               PROVE  runs'[r].state # "ok"
    OBVIOUS
  <2>1. r \in DOMAIN runs' /\ r > base /\ runs'[r].source = s
    BY DEF InThisScan
  <2>2. CASE r \notin DOMAIN runs
    BY <2>1, <2>2 DEF Row
  <2>3. CASE r \in DOMAIN runs /\ s \in failed
    <3>1. s \in Before /\ runs[r].source = s
      BY <2>1, <2>3 DEF SummaryInv, Turn
    <3>2. r # run
      <4>1. SUFFICES ASSUME r = run PROVE FALSE
        OBVIOUS
      <4>2. run # 0
        BY <2>3, <4>1, <1>5
      <4> QED
        BY <1>1, <2>3, <3>1, <4>1, <4>2 DEF SummaryInv, Turn
    <3>3. r \in InThisScan(s)
      BY <2>1, <2>3, <3>1 DEF InThisScan
    <3> QED
      BY <2>3, <3>2, <3>3 DEF SummaryInv, SummaryIsRight
  <2>4. CASE r \in DOMAIN runs /\ s \notin failed
    <3>1. s = Current /\ failed' = failed \cup {Current} /\ (run \in DOMAIN runs => runs'[run].state # "ok")
      BY <2>4
    <3>2. r = run
      BY <1>1, <2>1, <2>4, <3>1 DEF SummaryInv, Turn
    <3> QED
      BY <2>4, <3>1, <3>2
  <2> QED
    BY <2>2, <2>3, <2>4
<1>11. pc' = "idle" /\ turn' # 0 => succeeded' \cup failed' = Sources
  <2> SUFFICES ASSUME pc' = "idle" PROVE succeeded' \cup failed' = Sources
    OBVIOUS
  <2>0. ~(turn < Len(Connectors))
    BY <1>2
  <2>1. turn = Len(Connectors)
    <3>1. turn \in Nat /\ Len(Connectors) \in Nat /\ turn <= Len(Connectors)
      BY <1>2
    <3> QED
      BY <2>0, <3>1
  <2>2. Sources = {Connectors[i] : i \in 1..turn}
    BY <1>2, <2>1 DEF Sources
  <2> QED
    BY <1>1, <1>3, <1>4, <2>2
<1> QED
  BY <1>2, <1>4, <1>8, <1>9, <1>10, <1>11 DEF SummaryInv, SummaryIsRight

\* A row of the scan is added or completed for the connector whose turn it is.
LEMMA TurnGoesOn ==
  ASSUME IInv, SummaryInv, TypeOK', pc \in Running, pc' \in Running, pc' # "offer",
         UNCHANGED <<turn, base, report>>,
         \/ runs' = runs /\ run' = run /\ (pc' \in Owning <=> pc \in Owning)
         \/ /\ runs' = Append(runs, Row(Current, "open")) /\ run' = Len(runs) + 1
            /\ pc = "start" /\ pc' = "collect"
  PROVE  SummaryInv'
<1>1. Before' = Before /\ Current' = Current
  BY DEF Before, Current
<1>2. CASE runs' = runs /\ run' = run /\ (pc' \in Owning <=> pc \in Owning)
  <2>1. Turn'
    BY <1>1, <1>2 DEF SummaryInv, Turn, report
  <2>2. \A s : InThisScan(s)' = InThisScan(s)
    BY <1>2 DEF InThisScan
  <2>3. SummaryIsRight'
    BY <1>2, <2>2 DEF SummaryInv, SummaryIsRight, Running, Working, report
  <2> QED
    BY <2>1, <2>3 DEF SummaryInv, Running, Working
<1>3. CASE /\ runs' = Append(runs, Row(Current, "open")) /\ run' = Len(runs) + 1
           /\ pc = "start" /\ pc' = "collect"
  <2>1. runs \in Seq(RunRows) /\ base \in Nat
    BY DEF IInv, TypeOK
  <2>2. /\ DOMAIN runs = 1..Len(runs) /\ Len(runs) \in Nat /\ Len(runs') = Len(runs) + 1
        /\ DOMAIN runs' = 1..(Len(runs) + 1) /\ runs'[Len(runs) + 1] = Row(Current, "open")
        /\ \A r \in DOMAIN runs : runs'[r] = runs[r]
    BY <1>3, <2>1
  <2>3. /\ base \in 0..Len(runs) /\ run = 0 /\ succeeded \cup failed = Before
        /\ \A r \in DOMAIN runs : r > base => runs[r].source \in Before
    <3>1. run = 0
      BY <1>3 DEF SummaryInv, Turn, Owning, Working
    <3> QED
      BY <2>2, <3>1 DEF SummaryInv, Turn
  <2>4. Turn'
    BY <1>1, <1>3, <2>2, <2>3 DEF Turn, report, Row, Owning, Working
  <2>5. \A s \in Before : InThisScan(s)' = InThisScan(s)
    <3>1. Current \notin Before
      BY CurrentIsNew
    <3> QED
      BY <2>2, <3>1 DEF InThisScan, Row
  <2>6. SummaryIsRight'
    <3>1. \A s, r : r \in InThisScan(s) => runs'[r] = runs[r]
      BY <2>2 DEF InThisScan
    <3>2. \A s \in succeeded : \E r \in InThisScan(s)' : runs'[r].state = "ok"
      BY <2>3, <2>5, <3>1 DEF SummaryInv, SummaryIsRight
    <3>3. \A s \in failed : \A r \in InThisScan(s)' : runs'[r].state # "ok"
      BY <2>3, <2>5, <3>1 DEF SummaryInv, SummaryIsRight
    <3> QED
      BY <1>3, <3>2, <3>3 DEF SummaryInv, SummaryIsRight, report
  <2> QED
    BY <1>3, <2>4, <2>6 DEF SummaryInv
<1> QED
  BY <1>2, <1>3

LEMMA SummaryNext == ASSUME IInv, SummaryInv, [Next]_vars PROVE SummaryInv'
<1>0. IInv' /\ TypeOK'
  BY NextInv DEF IInv
<1>1. CASE Begin
  <2>1. /\ pc' = "start" /\ turn' = 1 /\ base' = Len(runs) /\ run' = 0
        /\ succeeded' = {} /\ failed' = {} /\ runs' = runs
    BY <1>1 DEF Begin, tables
  <2>2. runs \in Seq(RunRows)
    BY DEF IInv, TypeOK
  <2>3. Before' = {}
    BY <2>1 DEF Before
  <2>4. Turn'
    BY <2>1, <2>2, <2>3 DEF Turn, Owning, Working
  <2> QED
    BY <2>1, <2>4 DEF SummaryInv, SummaryIsRight
<1>2. CASE StartRun
  BY <1>0, <1>2, TurnGoesOn DEF StartRun, Goto, Running, Working, report
<1>3. CASE StartRunFails \/ Collect \/ CollectFails \/ Rollback
  <2>1. /\ UNCHANGED <<runs, run, turn, base, report>> /\ pc \in Running
        /\ pc' \in Running /\ pc' # "offer" /\ (pc' \in Owning <=> pc \in Owning)
    BY <1>3 DEF StartRunFails, Collect, CollectFails, Rollback, Goto, Running, Working,
                Owning, tables
  <2> QED
    BY <1>0, <2>1, TurnGoesOn
<1>4. CASE \E e \in Events : PersistEvent(e)
  <2>1. /\ UNCHANGED <<runs, run, turn, base, report, pc>> /\ pc = "persist"
    BY <1>4 DEF PersistEvent, tables
  <2> QED
    BY <1>0, <2>1, TurnGoesOn DEF Running, Working
<1>5. CASE RecordFailedRun
  <2>1. /\ pc = "record" /\ base' = base /\ GiveUp
        /\ runs' = Append(runs, Row(Current, "failed")) \/ runs' = runs
    BY <1>5 DEF RecordFailedRun
  <2>2. runs \in Seq(RunRows) /\ run = 0
    BY <2>1 DEF IInv, TypeOK, SummaryInv, Turn, Running, Owning, Working
  <2>3. /\ DOMAIN runs \subseteq DOMAIN runs'
        /\ \A r \in DOMAIN runs : r # 0 /\ runs'[r] = runs[r]
        /\ \A r \in DOMAIN runs' : r \notin DOMAIN runs => runs'[r] = Row(Current, "failed")
    BY <2>1, <2>2
  <2> QED
    BY <1>0, <2>1, <2>2, <2>3, TurnEnds DEF GiveUp, Running
<1>6. CASE FinishFailed
  <2>1. /\ pc \in Working /\ base' = base /\ GiveUp
        /\ runs' = [runs EXCEPT ![run].state = "failed"]
    BY <1>6 DEF FinishFailed, Working
  <2>2. runs \in Seq(RunRows) /\ run \in DOMAIN runs /\ runs[run] \in RunRows
    BY <2>1 DEF IInv, TypeOK, OpenRun
  <2> DEFINE row == [runs[run] EXCEPT !.state = "failed"]
  <2>3. row.state = "failed" /\ row.source = runs[run].source
    BY <2>2 DEF RunRows
  <2>4. runs' = [runs EXCEPT ![run] = row]
    BY <2>1, <2>2
  <2> HIDE DEF row
  <2>5. /\ DOMAIN runs' = DOMAIN runs /\ runs'[run].state = "failed"
        /\ \A r \in DOMAIN runs : r # run => runs'[r] = runs[r]
        /\ \A r \in DOMAIN runs : runs'[r].source = runs[r].source
    BY <2>2, <2>3, <2>4
  <2> QED
    BY <1>0, <2>1, <2>5, TurnEnds DEF GiveUp, Running
<1>7. CASE FinishFails
  <2>1. CASE Goto("finish", "again") /\ UNCHANGED <<turn, run, report>>
    <3>1. UNCHANGED <<runs, run, turn, base, report>> /\ pc = "finish" /\ pc' = "again"
      BY <1>7, <2>1 DEF FinishFails, Goto, tables
    <3> QED
      BY <1>0, <3>1, TurnGoesOn DEF Running, Working, Owning
  <2>2. CASE pc = "again" /\ GiveUp
    <3>1. runs' = runs /\ base' = base
      BY <1>7 DEF FinishFails, tables
    <3>2. run \in DOMAIN runs => runs'[run].state # "ok"
      BY <2>2, <3>1 DEF IInv, OpenRun, Working
    <3> QED
      BY <1>0, <2>2, <3>1, <3>2, TurnEnds DEF GiveUp, Running, Working
  <2> QED
    BY <1>7, <2>1, <2>2 DEF FinishFails
<1>8. CASE Succeed
  <2>1. /\ pc = "offer" /\ runs' = runs /\ base' = base /\ NextConnector
        /\ succeeded' = succeeded \cup {Current} /\ failed' = failed
    BY <1>8 DEF Succeed, tables
  <2> QED
    BY <1>0, <2>1, TurnEnds DEF Running
<1>9. CASE Commit
  <2>1. /\ pc = "persist" /\ pc' = "offer" /\ UNCHANGED <<turn, base, run, report>>
        /\ runs' = [runs EXCEPT ![run].state = "ok", ![run].count = Cardinality(txSnaps)]
    BY <1>9 DEF Commit, Goto
  <2>2. runs \in Seq(RunRows) /\ run \in DOMAIN runs /\ runs[run] \in RunRows
    BY <2>1 DEF IInv, TypeOK, OpenRun, Working
  <2> DEFINE row == [[runs[run] EXCEPT !.state = "ok"] EXCEPT !.count = Cardinality(txSnaps)]
  <2>3. row.state = "ok" /\ row.source = runs[run].source
    BY <2>2 DEF RunRows
  <2>4. runs' = [runs EXCEPT ![run] = row]
    BY <2>1, <2>2
  <2> HIDE DEF row
  <2>5. /\ DOMAIN runs' = DOMAIN runs /\ runs'[run].state = "ok" /\ Len(runs') = Len(runs)
        /\ \A r \in DOMAIN runs : r # run => runs'[r] = runs[r]
        /\ \A r \in DOMAIN runs : runs'[r].source = runs[r].source
    BY <2>2, <2>3, <2>4
  <2>6. Before' = Before /\ Current' = Current
    BY <2>1 DEF Before, Current
  <2>7. Turn'
    BY <2>1, <2>5, <2>6 DEF SummaryInv, Turn, Running, Owning, Working, report
  <2>8. \A s : InThisScan(s)' = InThisScan(s)
    BY <2>1, <2>5 DEF InThisScan
  <2>9. \A s \in succeeded \cup failed : \A r \in InThisScan(s) : runs'[r] = runs[r]
    <3>1. runs[run].source \notin Before
      BY <2>1, CurrentIsNew DEF SummaryInv, Turn, Running, Owning, Working
    <3>2. succeeded \cup failed = Before
      BY <2>1 DEF SummaryInv, Turn, Running, Working
    <3> QED
      BY <2>5, <3>1, <3>2 DEF InThisScan
  <2>10. SummaryIsRight'
    BY <2>1, <2>8, <2>9 DEF SummaryInv, SummaryIsRight, report
  <2> QED
    BY <2>1, <2>7, <2>10 DEF SummaryInv
<1>10. CASE Crash
  BY <1>10 DEF Crash, SummaryInv, SummaryIsRight, Turn, Running, Working
<1>11. CASE UNCHANGED <<runs, run, turn, base, report>> /\ (pc' = pc \/ (pc = "down" /\ pc' = "idle"))
  <2>1. Before' = Before /\ Current' = Current /\ \A s : InThisScan(s)' = InThisScan(s)
    BY <1>11 DEF Before, Current, InThisScan
  <2> QED
    BY <1>11, <2>1 DEF SummaryInv, SummaryIsRight, Turn, Running, Working, Owning, report
<1>12. CASE Restart \/ (\E o \in queue : Offer(o)) \/ UNCHANGED vars
  <2>1. UNCHANGED <<runs, run, turn, base, report>> /\ (pc' = pc \/ (pc = "down" /\ pc' = "idle"))
    BY <1>12 DEF Restart, Offer, Goto, vars, tables
  <2> QED
    BY <1>11, <2>1
<1> QED
  BY <1>1, <1>2, <1>3, <1>4, <1>5, <1>6, <1>7, <1>8, <1>9, <1>10, <1>12 DEF Next, Work

\* The summary of run(): every connector has its turn in spite of the others'
\* failures, and is in succeeded if and only if this scan finished a run of it.
THEOREM SummaryTellsTheTruth == Spec => []SummaryIsRight
<1>1. Init => SummaryInv
  BY DEF Init, SummaryInv, SummaryIsRight, Turn, Running, Working
<1>2. IInv /\ SummaryInv /\ [Next]_vars => SummaryInv'
  BY SummaryNext
<1>3. SummaryInv => SummaryIsRight
  BY DEF SummaryInv
<1> QED
  BY <1>1, <1>2, <1>3, Invariant, PTL DEF Spec
===============================================================================
