------------------------------- MODULE Scanner -------------------------------
(***************************************************************************)
(* ScanCoordinator (services/scanner.py): a scan runs the connectors one   *)
(* after the other.  For each it commits a run row, collects from the      *)
(* marketplace without a transaction, then stores observations,            *)
(* opportunities and the finished run in one transaction, and only then    *)
(* hands actionable opportunities to the alert service.  Any failure ends  *)
(* that connector only, and is recorded in its run row if it can be.       *)
(*                                                                         *)
(* A snapshot stands for an observation with its identity (source, event,  *)
(* listing identity, time); whether it is scored and whether its estimate  *)
(* is actionable depends on time and on the other rows, and is a choice.   *)
(* A failure anywhere in the transaction (a busy or broken database, an    *)
(* event that matches badly, a clock that went back) is one choice, at     *)
(* every step.                                                             *)
(***************************************************************************)
EXTENDS Naturals, Sequences, FiniteSets

CONSTANTS
  Connectors,   \* the sources in the order of the scan: a sequence
  Snapshots,    \* observations the marketplaces may ever show
  SourceOf,     \* Snapshots -> sources
  EventOf,      \* Snapshots -> events
  Pairs,        \* snapshots that are confirmed listings of a pair
  MaxRuns       \* bound on the rows of connector_runs

Sources == {Connectors[i] : i \in DOMAIN Connectors}
Events == {EventOf[s] : s \in Snapshots}

ASSUME ConnectorsAssumption ==
  /\ Connectors \in Seq(Sources)
  /\ \A i, j \in DOMAIN Connectors : Connectors[i] = Connectors[j] => i = j
ASSUME SnapshotsAssumption ==
  /\ IsFiniteSet(Snapshots)
  /\ SourceOf \in [Snapshots -> Sources] /\ DOMAIN EventOf = Snapshots
  /\ Pairs \in SUBSET Snapshots
ASSUME BoundAssumption == MaxRuns \in Nat

VARIABLES
  runs,      \* connector_runs: [source, state, count], named by position
  savedBy,   \* observations: the run that stored a snapshot, 0 if none did
  opps,      \* opportunities: [run, snap, good]; good: actionable
  pc,        \* where the scan thread is; "idle": no scan; "down": no process
  turn,      \* position in Connectors
  base,      \* run rows before this scan
  run,       \* run_id, 0 for None
  got,       \* collected snapshots
  left,      \* events of the collection not yet processed
  txSnaps,   \* snapshots inserted in the open transaction
  txOpps,    \* opportunities inserted in the open transaction
  queue,     \* persisted[3]: opportunities to hand over
  offered,   \* handed over by this process
  succeeded, failed   \* sources of this scan

tables == <<runs, savedBy, opps>>
tx == <<got, left, txSnaps, txOpps>>
report == <<succeeded, failed>>
vars == <<tables, pc, turn, base, run, tx, queue, offered, report>>

Opportunities(R, S) == [run : R, snap : S, good : BOOLEAN]
RunRows == [source : Sources, state : {"open", "ok", "failed"}, count : Nat]

Init == /\ runs = <<>>
        /\ savedBy = [s \in Snapshots |-> 0]
        /\ opps = {}
        /\ pc = "idle" /\ turn = 0 /\ base = 0 /\ run = 0
        /\ got = {} /\ left = {} /\ txSnaps = {} /\ txOpps = {}
        /\ queue = {} /\ offered = {}
        /\ succeeded = {} /\ failed = {}

-------------------------------------------------------------------------------
Goto(from, to) == pc = from /\ pc' = to
Current == Connectors[turn]
Row(s, state) == [source |-> s, state |-> state, count |-> 0]

\* run(): once the effective settings are read.  The scheduler never runs two
\* scans at a time (max_instances=1).
Begin == /\ pc = "idle" /\ Len(runs) + Len(Connectors) <= MaxRuns
         /\ Connectors # <<>>
         /\ pc' = "start" /\ turn' = 1 /\ base' = Len(runs) /\ run' = 0
         /\ succeeded' = {} /\ failed' = {}
         /\ UNCHANGED <<tables, tx, queue, offered>>

\* The for loop of run() goes on with the next connector, or the scan ends.
NextConnector == /\ turn' = turn + 1 /\ run' = 0
                 /\ pc' = IF turn < Len(Connectors) THEN "start" ELSE "idle"

\* "except Exception: failed.append(source); continue"
GiveUp == /\ failed' = failed \cup {Current}
          /\ NextConnector
          /\ UNCHANGED succeeded

\* _start_run, a transaction of its own
StartRun == /\ Goto("start", "collect")
            /\ runs' = Append(runs, Row(Current, "open"))
            /\ run' = Len(runs) + 1
            /\ UNCHANGED <<savedBy, opps, turn, base, tx, queue, offered, report>>

StartRunFails == /\ Goto("start", "record")
                 /\ UNCHANGED <<tables, turn, base, run, tx, queue, offered, report>>

\* _record_failed_run: the row begins and ends in one transaction, which may
\* fail too; the first error goes on either way.
RecordFailedRun == /\ pc = "record"
                   /\ \/ runs' = Append(runs, Row(Current, "failed"))
                      \/ UNCHANGED runs
                   /\ GiveUp
                   /\ UNCHANGED <<savedBy, opps, base, tx, queue, offered>>

\* _collect_remote
Collect == /\ Goto("collect", "persist")
           /\ got' \in SUBSET {s \in Snapshots : SourceOf[s] = Current}
           /\ left' = {EventOf[s] : s \in got'}
           /\ UNCHANGED <<tables, turn, base, run, txSnaps, txOpps, queue, offered, report>>

CollectFails == /\ Goto("collect", "finish")
                /\ UNCHANGED <<tables, turn, base, run, tx, queue, offered, report>>

\* One event of _persist_collection: its new observations are inserted, then
\* some of the inserted pairs are fresh and scored.
NewOf_Replayed(e) == {s \in got : EventOf[s] = e}
NewOf(e) == {s \in got : EventOf[s] = e /\ savedBy[s] = 0}

Scored(e, candidates) ==
  \E good \in SUBSET candidates :
    txOpps' = txOpps \cup {[run |-> run, snap |-> s, good |-> s \in good] : s \in candidates}

PersistEvent(e) ==
  /\ pc = "persist" /\ e \in left
  /\ left' = left \ {e}
  /\ txSnaps' = txSnaps \cup NewOf(e)
  /\ \E candidates \in SUBSET (NewOf(e) \cap Pairs) : Scored(e, candidates)
  /\ UNCHANGED <<tables, pc, turn, base, run, got, queue, offered, report>>

\* The transaction ends: nothing of it stays in memory.
EndTransaction == got' = {} /\ left' = {} /\ txSnaps' = {} /\ txOpps' = {}

\* The ids handed over, persisted[3].  (The mutant hands over every estimate.)
HandedOver_All == txOpps
HandedOver == {o \in txOpps : o.good}

\* runs.finish and session.commit.  Closing the session after the commit is
\* taken not to fail.
Commit ==
  /\ Goto("persist", "offer") /\ left = {}
  /\ runs' = [runs EXCEPT ![run].state = "ok", ![run].count = Cardinality(txSnaps)]
  /\ savedBy' = [s \in Snapshots |-> IF s \in txSnaps THEN run ELSE savedBy[s]]
  /\ opps' = opps \cup txOpps
  /\ queue' = HandedOver
  /\ EndTransaction
  /\ UNCHANGED <<turn, base, run, offered, report>>

\* Any exception before the commit: rollback.  (The mutant has one commit per
\* event, so that what was stored stays.)
Rollback_KeepsEvents ==
  /\ Goto("persist", "finish")
  /\ savedBy' = [s \in Snapshots |-> IF s \in txSnaps THEN run ELSE savedBy[s]]
  /\ opps' = opps \cup txOpps
  /\ EndTransaction
  /\ UNCHANGED <<runs, turn, base, run, queue, offered, report>>
Rollback == /\ Goto("persist", "finish")
            /\ EndTransaction
            /\ UNCHANGED <<tables, turn, base, run, queue, offered, report>>

\* _finish_failed_run, tried twice and then given up.
FinishFailed == /\ pc \in {"finish", "again"}
                /\ runs' = [runs EXCEPT ![run].state = "failed"]
                /\ GiveUp
                /\ UNCHANGED <<savedBy, opps, base, tx, queue, offered>>

FinishFails_Retries ==
  /\ \/ Goto("finish", "again")
     \/ Goto("again", "finish")
  /\ UNCHANGED <<tables, turn, base, run, tx, queue, offered, report>>
FinishFails == /\ \/ Goto("finish", "again") /\ UNCHANGED <<turn, run, report>>
                  \/ pc = "again" /\ GiveUp
               /\ UNCHANGED <<tables, base, tx, queue, offered>>

\* evaluate_and_send, whose exceptions are swallowed.  (The mutant stops at the
\* first exception.)
Offer_StopsAtException(o) ==
  /\ pc = "offer" /\ o \in queue
  /\ \/ queue' = queue \ {o} /\ offered' = offered \cup {o}
     \/ queue' = {} /\ UNCHANGED offered
  /\ UNCHANGED <<tables, pc, turn, base, run, tx, report>>
Offer(o) == /\ pc = "offer" /\ o \in queue
            /\ queue' = queue \ {o}
            /\ offered' = offered \cup {o}
            /\ UNCHANGED <<tables, pc, turn, base, run, tx, report>>

Succeed == /\ pc = "offer" /\ queue = {}
           /\ succeeded' = succeeded \cup {Current}
           /\ NextConnector
           /\ UNCHANGED <<tables, base, tx, queue, offered, failed>>

\* The process dies and is started again; the startup pass over the backlog is
\* in AlertDelivery.
Crash == /\ pc # "down"
         /\ pc' = "down"
         /\ turn' = 0 /\ base' = 0 /\ run' = 0
         /\ queue' = {} /\ offered' = {} /\ succeeded' = {} /\ failed' = {}
         /\ EndTransaction
         /\ UNCHANGED tables

Restart == /\ Goto("down", "idle")
           /\ UNCHANGED <<tables, turn, base, run, tx, queue, offered, report>>

Work == \/ StartRun \/ StartRunFails \/ RecordFailedRun
        \/ Collect \/ CollectFails
        \/ (\E e \in Events : PersistEvent(e)) \/ Commit \/ Rollback
        \/ FinishFailed \/ FinishFails
        \/ (\E o \in queue : Offer(o)) \/ Succeed

Next == Begin \/ Work \/ Crash \/ Restart

Spec == Init /\ [][Next]_vars

\* The scan thread keeps working: every remote call ends by its timeout, every
\* transaction commits or fails.
FairSpec == Spec /\ WF_vars(Work)

-------------------------------------------------------------------------------
TypeOK ==
  /\ runs \in Seq(RunRows)
  /\ savedBy \in [Snapshots -> Nat]
  /\ opps \subseteq Opportunities(Nat, Snapshots)
  /\ pc \in {"down", "idle", "start", "record", "collect", "persist",
             "finish", "again", "offer"}
  /\ turn \in Nat /\ base \in Nat /\ run \in Nat
  /\ got \subseteq Snapshots /\ left \subseteq Events /\ txSnaps \subseteq Snapshots
  /\ txOpps \subseteq Opportunities(Nat, Snapshots)
  /\ queue \subseteq Opportunities(Nat, Snapshots)
  /\ offered \subseteq Opportunities(Nat, Snapshots)
  /\ succeeded \subseteq Sources /\ failed \subseteq Sources

\* The health page believes run rows: a finished run stored as many
\* observations as it says, and any other run left nothing behind, whatever
\* failed and whenever the process died.
Stored(r) == {s \in Snapshots : savedBy[s] = r}
RunRowTellsTruth ==
  \A r \in DOMAIN runs :
    IF runs[r].state = "ok"
    THEN runs[r].count = Cardinality(Stored(r))
    ELSE Stored(r) = {} /\ \A o \in opps : o.run # r

\* However often a snapshot is collected, by failed, repeated and interrupted
\* scans, it is scored once at most, by the run that stored it.
ScoredOnce ==
  \A o \in opps : /\ savedBy[o.snap] = o.run
                  /\ \A p \in opps : p.snap = o.snap => p = o

\* The alert service only ever sees committed, actionable opportunities.
OfferedIsCommitted == queue \cup offered \subseteq {o \in opps : o.good}

\* The summary of a scan: each connector had its turn in spite of the others'
\* failures; one that succeeded finished a run in this scan, one that failed
\* did not.
InThisScan(s) == {r \in DOMAIN runs : r > base /\ runs[r].source = s}
SummaryIsRight ==
  /\ succeeded \cap failed = {}
  /\ \A s \in succeeded : \E r \in InThisScan(s) : runs[r].state = "ok"
  /\ \A s \in failed : \A r \in InThisScan(s) : runs[r].state # "ok"
  /\ pc = "idle" /\ turn # 0 => succeeded \cup failed = Sources

\* What a scan committed as actionable it hands over, unless the process dies;
\* an exception of the alert service does not stop the rest.
EverythingIsOffered ==
  \A r \in 1..MaxRuns, s \in Pairs :
    LET o == [run |-> r, snap |-> s, good |-> TRUE]
    IN  o \in queue ~> (o \in offered \/ pc = "down")

\* Every scan comes to its end.
ScanEnds == pc # "idle" ~> pc \in {"idle", "down"}
===============================================================================
