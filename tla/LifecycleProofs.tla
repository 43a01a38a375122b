--------------------------- MODULE LifecycleProofs ---------------------------
(***************************************************************************)
(* Proofs about Lifecycle, for any number of processes and resources.      *)
(*                                                                         *)
(* The guard, the resources and the scheduler are tied to the stage of a   *)
(* process: the guard is held exactly in the stages of the application     *)
(* (Guarded), resources are open only between build and close (Held), and  *)
(* the scheduler runs only after the startup pass and until it is shut     *)
(* down (Scheduled).  A push of a scan that outlives its application       *)
(* fails at Held: without an open client there is no push.                 *)
(***************************************************************************)
EXTENDS Lifecycle, TLAPS

Guarded == \A p \in Processes : pc[p] \in Application <=> holder = p

Holding == {"build", "reconcile", "schedule", "start", "serve", "shutdown", "close"}
Held == \A p \in Processes : open[p] # {} => pc[p] \in Holding

Scheduled ==
  \A p \in Processes :
    /\ job[p] = "added" => pc[p] \in {"start", "shutdown"}
    /\ job[p] = "running" => pc[p] \in {"serve", "shutdown"} /\ ready[p]
    /\ pc[p] \in {"schedule", "start", "serve"} => ready[p]

IInv == TypeOK /\ Guarded /\ Held /\ Scheduled

-------------------------------------------------------------------------------
LEMMA InitInv == ASSUME Init PROVE IInv
BY ProcessesAssumption DEF Init, IInv, TypeOK, Guarded, Held, Scheduled, Application, Stages

LEMMA StartupInv ==
  ASSUME IInv, NEW p \in Processes, Launch(p) \/ Startup(p)
  PROVE  IInv'
<1> USE ProcessesAssumption DEF IInv, TypeOK, Guarded, Held, Scheduled, Stages, Application,
        Holding, Goto
<1>1. CASE Launch(p)
  BY <1>1 DEF Launch
<1>2. CASE Acquire(p)
  BY <1>2 DEF Acquire, Locked
<1>3. CASE AcquireFails(p)
  BY <1>3 DEF AcquireFails
<1>4. CASE Migrate(p)
  <2>1. CASE Goto(p, "migrate", "build")
    BY <1>4, <2>1 DEF Migrate
  <2>2. CASE Goto(p, "migrate", "release")
    BY <1>4, <2>2 DEF Migrate
  <2> QED
    BY <1>4, <2>1, <2>2 DEF Migrate
<1>5. CASE Build(p)
  <2>1. built[p] \in 0..Len(Resources) /\ Len(Resources) \in Nat /\ built[p] < Len(Resources)
    BY <1>5, ResourcesAssumption DEF Build
  <2>2. built[p] + 1 \in 1..Len(Resources)
    BY <2>1
  <2>3. NextResource(p) \in Owned
    BY <2>2, ResourcesAssumption DEF NextResource, Owned
  <2> HIDE DEF NextResource
  <2> QED
    BY <1>5, <2>1, <2>2, <2>3 DEF Build
<1>6. CASE BuildFails(p)
  BY <1>6 DEF BuildFails
<1>7. CASE Built(p)
  BY <1>7 DEF Built
<1>8. CASE Reconcile(p)
  <2>1. CASE Goto(p, "reconcile", "schedule") /\ ready' = [ready EXCEPT ![p] = TRUE]
    BY <1>8, <2>1 DEF Reconcile
  <2>2. CASE Goto(p, "reconcile", "close") /\ UNCHANGED ready
    BY <1>8, <2>2 DEF Reconcile
  <2> QED
    BY <1>8, <2>1, <2>2 DEF Reconcile
<1>9. CASE Schedule(p)
  <2>1. CASE Goto(p, "schedule", "start") /\ job' = [job EXCEPT ![p] = "added"]
    BY <1>9, <2>1 DEF Schedule
  <2>2. CASE Goto(p, "schedule", "close") /\ UNCHANGED job
    BY <1>9, <2>2 DEF Schedule
  <2> QED
    BY <1>9, <2>1, <2>2 DEF Schedule
<1>10. CASE StartScheduler(p)
  <2>1. CASE Goto(p, "start", "serve") /\ job' = [job EXCEPT ![p] = "running"]
    BY <1>10, <2>1 DEF StartScheduler
  <2>2. CASE Goto(p, "start", "shutdown") /\ UNCHANGED job
    BY <1>10, <2>2 DEF StartScheduler
  <2> QED
    BY <1>10, <2>1, <2>2 DEF StartScheduler
<1> QED
  BY <1>1, <1>2, <1>3, <1>4, <1>5, <1>6, <1>7, <1>8, <1>9, <1>10 DEF Startup

LEMMA CleanupInv ==
  ASSUME IInv, NEW p \in Processes, Stop(p) \/ Cleanup(p) \/ Kill(p)
  PROVE  IInv'
<1> USE ProcessesAssumption DEF IInv, TypeOK, Guarded, Held, Scheduled, Stages, Application,
        Holding, Goto
<1>1. CASE Stop(p)
  BY <1>1 DEF Stop
<1>2. CASE Shutdown(p)
  BY <1>2 DEF Shutdown
<1>3. CASE Close(p)
  BY <1>3 DEF Close
<1>4. CASE Release(p)
  BY <1>4 DEF Release
<1>5. CASE Exit(p)
  BY <1>5, ResourcesAssumption DEF Exit
<1>6. CASE Kill(p)
  BY <1>6, ResourcesAssumption DEF Kill
<1> QED
  BY <1>1, <1>2, <1>3, <1>4, <1>5, <1>6 DEF Cleanup

LEMMA ThreadInv ==
  ASSUME IInv, NEW p \in Processes, BeginScan(p) \/ BeginPush(p) \/ Thread(p)
  PROVE  IInv'
BY DEF IInv, TypeOK, Guarded, Held, Scheduled, BeginScan, BeginPush, Thread, EndScan, EndPush

LEMMA NextInv == ASSUME IInv, [Next]_vars PROVE IInv'
<1>1. CASE Next
  BY <1>1, StartupInv, CleanupInv, ThreadInv DEF Next
<1>2. CASE UNCHANGED vars
  BY <1>2 DEF IInv, TypeOK, Guarded, Held, Scheduled, vars
<1> QED
  BY <1>1, <1>2

LEMMA Invariant == Spec => []IInv
<1>1. IInv /\ [Next]_vars => IInv'
  BY NextInv
<1> QED
  BY InitInv, <1>1, PTL DEF Spec

-------------------------------------------------------------------------------
\* The state of every process keeps its type, for any number of resources.
THEOREM TypeCorrect == Spec => []TypeOK
<1>1. IInv => TypeOK
  BY DEF IInv
<1> QED
  BY <1>1, Invariant, PTL

\* instance_guard: whoever migrates, serves or cleans up holds the guard, so
\* that no two applications do.
THEOREM OneAtATime == Spec => []OneApplication
<1>1. IInv => OneApplication
  BY DEF IInv, Guarded, OneApplication
<1> QED
  BY <1>1, Invariant, PTL

\* _cleanup: however start-up failed, what is over has no client, no scheduler
\* and no guard.
THEOREM EverythingIsClosed == Spec => []NothingIsLeft
<1>1. IInv => NothingIsLeft
  BY DEF IInv, Guarded, Held, Scheduled, NothingIsLeft, Application, Stages, Holding
<1> QED
  BY <1>1, Invariant, PTL

\* A scan begins under the guard and after reconcile_unattempted, and a push
\* under the guard.
THEOREM GuardBeforeWork == Spec => ScansAndPushesNeedTheGuard
<1> DEFINE A == \A p \in Processes :
                  /\ ~scan[p] /\ scan'[p] => holder = p /\ ready[p]
                  /\ ~pushing[p] /\ pushing'[p] => holder = p
<1>1. ASSUME IInv, [Next]_vars PROVE A
  <2>0. scan \in [Processes -> BOOLEAN] /\ pushing \in [Processes -> BOOLEAN]
    BY <1>1 DEF IInv, TypeOK
  <2>1. ASSUME NEW q \in Processes, BeginScan(q) PROVE A
    <3>1. job[q] = "running" /\ scan' = [scan EXCEPT ![q] = TRUE] /\ pushing' = pushing
      BY <2>1 DEF BeginScan
    <3>2. holder = q /\ ready[q]
      BY <1>1, <3>1 DEF IInv, Scheduled, Guarded, Application, Stages
    <3> QED
      BY <2>0, <3>1, <3>2
  <2>2. ASSUME NEW q \in Processes, BeginPush(q) PROVE A
    <3>1. open[q] # {} /\ pushing' = [pushing EXCEPT ![q] = TRUE] /\ scan' = scan
      BY <2>2 DEF BeginPush, ClientOpen
    <3>2. holder = q
      BY <1>1, <3>1 DEF IInv, Held, Guarded, Application, Stages, Holding
    <3> QED
      BY <2>0, <3>1, <3>2
  <2>3. ASSUME NEW q \in Processes, EndScan(q) \/ EndPush(q) \/ Kill(q) PROVE A
    BY <2>0, <2>3 DEF EndScan, EndPush, Kill
  <2>4. CASE UNCHANGED <<scan, pushing>>
    BY <2>0, <2>4
  <2> QED
    BY <1>1, <2>1, <2>2, <2>3, <2>4
    DEF Next, Launch, Startup, Acquire, AcquireFails, Migrate, Build, BuildFails, Built,
        Reconcile, Schedule, StartScheduler, Stop, Cleanup, Shutdown, Close, Release, Exit,
        Thread, vars
<1>2. IInv /\ [Next]_vars => [A]_vars
  BY <1>1
<1> HIDE DEF A
<1>3. Spec => [][A]_vars
  BY <1>2, Invariant, PTL DEF Spec
<1> QED
  BY <1>3 DEF A, ScansAndPushesNeedTheGuard
===============================================================================
