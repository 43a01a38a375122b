------------------------------ MODULE Lifecycle ------------------------------
(***************************************************************************)
(* Start and stop of the application: lifespan and _cleanup (main.py),     *)
(* build_services and ApplicationServices.close (bootstrap.py), the        *)
(* instance guard (services/instance_guard.py) and the scheduler           *)
(* (services/scheduler.py), for several processes started on one database. *)
(*                                                                         *)
(* The scheduler runs a scan in a thread of its own and is shut down       *)
(* without waiting for it; the interpreter waits for that thread before    *)
(* the process is gone.  A step of start-up fails by an exception of its   *)
(* own or by an interrupt.                                                 *)
(***************************************************************************)
EXTENDS Naturals, Sequences, FiniteSets

CONSTANTS
  Processes, Nobody,
  Resources,   \* what build_services opens, in order: a sequence
  Publisher    \* the client of ntfy, one of them

Owned == {Resources[i] : i \in DOMAIN Resources}

ASSUME ProcessesAssumption == Nobody \notin Processes
ASSUME ResourcesAssumption ==
  /\ Resources \in Seq(Owned)
  /\ \A i, j \in DOMAIN Resources : Resources[i] = Resources[j] => i = j
  /\ Publisher \in Owned

VARIABLES
  holder,    \* the OS lock beside the database
  pc,        \* where the lifespan of each process is
  built,     \* how many of Resources build_services has opened
  open,      \* resources opened and not yet closed
  job,       \* scheduler: "none", "added", "running", "stopped"
  scan,      \* the scheduler's thread is inside a scan
  ready,     \* the startup pass over undelivered alerts is over
  pushing    \* a request to ntfy is under way

vars == <<holder, pc, built, open, job, scan, ready, pushing>>

Stages == {"off", "guard", "migrate", "build", "reconcile", "schedule", "start",
           "serve", "shutdown", "close", "release", "over"}

\* Between the guard and its release: the application proper.
Application == Stages \ {"off", "guard", "over"}

Init == /\ holder = Nobody
        /\ pc = [p \in Processes |-> "off"]
        /\ built = [p \in Processes |-> 0]
        /\ open = [p \in Processes |-> {}]
        /\ job = [p \in Processes |-> "none"]
        /\ scan = [p \in Processes |-> FALSE]
        /\ ready = [p \in Processes |-> FALSE]
        /\ pushing = [p \in Processes |-> FALSE]

Goto(p, from, to) == /\ pc[p] = from
                     /\ pc' = [pc EXCEPT ![p] = to]

-------------------------------------------------------------------------------
(* Start-up *)

Launch(p) == /\ Goto(p, "off", "guard")
             /\ UNCHANGED <<holder, built, open, job, scan, ready, pushing>>

\* instance_guard.acquire never waits (the mutant does).  If it raises there is nothing to clean
\* up: the guard object holds no file and releasing it does nothing.
Locked_Ignored(p) == TRUE
Locked(p) == holder = Nobody

Acquire(p) == /\ Goto(p, "guard", "migrate")
              /\ Locked(p)
              /\ holder' = p
              /\ UNCHANGED <<built, open, job, scan, ready, pushing>>

AcquireFails_Waits(p) ==
  /\ Goto(p, "guard", "over") /\ holder = Nobody
  /\ UNCHANGED <<holder, built, open, job, scan, ready, pushing>>
AcquireFails(p) == /\ Goto(p, "guard", "over")
                   /\ UNCHANGED <<holder, built, open, job, scan, ready, pushing>>

\* migration_runner; on failure there are no services and no scheduler.
Migrate(p) == /\ \/ Goto(p, "migrate", "build")
                 \/ Goto(p, "migrate", "release")
              /\ UNCHANGED <<holder, built, open, job, scan, ready, pushing>>

\* build_services opens one resource after the other.
NextResource(p) == Resources[built[p] + 1]

Build(p) == /\ pc[p] = "build" /\ built[p] < Len(Resources)
            /\ built' = [built EXCEPT ![p] = @ + 1]
            /\ open' = [open EXCEPT ![p] = @ \cup {NextResource(p)}]
            /\ UNCHANGED <<holder, pc, job, scan, ready, pushing>>

\* A client cannot be made, or the connector around a client that was made; or
\* the validation before or the coordinator after.  _cleanup_without_masking
\* closes all that is open, the client included; the lifespan gets no services.
\* (The mutant leaves the client behind.)
BuildFails_LeavesClient(p) ==
  /\ Goto(p, "build", "release")
  /\ \E more \in SUBSET (IF built[p] < Len(Resources) THEN {NextResource(p)} ELSE {}) :
       open' = [open EXCEPT ![p] = more]
  /\ UNCHANGED <<holder, built, job, scan, ready, pushing>>
BuildFails(p) == /\ Goto(p, "build", "release")
                 /\ open' = [open EXCEPT ![p] = {}]
                 /\ UNCHANGED <<holder, built, job, scan, ready, pushing>>

Built(p) == /\ Goto(p, "build", "reconcile")
            /\ built[p] = Len(Resources)
            /\ UNCHANGED <<holder, built, open, job, scan, ready, pushing>>

\* reconcile_unattempted: its exceptions are swallowed, an interrupt is not.
Reconcile(p) == /\ \/ Goto(p, "reconcile", "schedule") /\ ready' = [ready EXCEPT ![p] = TRUE]
                   \/ Goto(p, "reconcile", "close") /\ UNCHANGED ready
                /\ ~pushing[p]
                /\ UNCHANGED <<holder, built, open, job, scan, pushing>>

\* build_scheduler adds the job; while it fails there is no scheduler to stop.
Schedule(p) == /\ \/ Goto(p, "schedule", "start") /\ job' = [job EXCEPT ![p] = "added"]
                  \/ Goto(p, "schedule", "close") /\ UNCHANGED job
               /\ UNCHANGED <<holder, built, open, scan, ready, pushing>>

StartScheduler(p) ==
  /\ \/ Goto(p, "start", "serve") /\ job' = [job EXCEPT ![p] = "running"]
     \/ Goto(p, "start", "shutdown") /\ UNCHANGED job
  /\ UNCHANGED <<holder, built, open, scan, ready, pushing>>

-------------------------------------------------------------------------------
(* Cleanup, the same after a failure and after a stop: every step is tried  *)
(* whatever the earlier ones raised.                                        *)

\* Ctrl+C: uvicorn ends the lifespan.
Stop(p) == /\ Goto(p, "serve", "shutdown")
           /\ UNCHANGED <<holder, built, open, job, scan, ready, pushing>>

\* scheduler.shutdown(wait=False): no scan begins from now on.  On a scheduler
\* that was not started it raises.
Shutdown(p) == /\ Goto(p, "shutdown", "close")
               /\ job' = [job EXCEPT ![p] = "stopped"]
               /\ UNCHANGED <<holder, built, open, scan, ready, pushing>>

\* services.close tries every resource; one that raises is closed all the same.
\* (The mutant ends at the first exception.)
Close_StopsAtException(p) ==
  /\ Goto(p, "close", "release")
  /\ \E rest \in SUBSET open[p] : open' = [open EXCEPT ![p] = rest]
  /\ UNCHANGED <<holder, built, job, scan, ready, pushing>>
Close(p) == /\ Goto(p, "close", "release")
            /\ open' = [open EXCEPT ![p] = {}]
            /\ UNCHANGED <<holder, built, job, scan, ready, pushing>>

Release(p) == /\ Goto(p, "release", "over")
              /\ holder' = Nobody
              /\ UNCHANGED <<built, open, job, scan, ready, pushing>>

\* The interpreter joins the scan thread, then the process is gone.
Exit(p) == /\ Goto(p, "over", "off")
           /\ ~scan[p] /\ ~pushing[p]
           /\ built' = [built EXCEPT ![p] = 0]
           /\ job' = [job EXCEPT ![p] = "none"]
           /\ ready' = [ready EXCEPT ![p] = FALSE]
           /\ UNCHANGED <<holder, open, scan, pushing>>

\* The process is killed; the OS gives back what it held.
Kill(p) == /\ pc[p] # "off"
           /\ pc' = [pc EXCEPT ![p] = "off"]
           /\ holder' = IF holder = p THEN Nobody ELSE holder
           /\ built' = [built EXCEPT ![p] = 0]
           /\ open' = [open EXCEPT ![p] = {}]
           /\ job' = [job EXCEPT ![p] = "none"]
           /\ scan' = [scan EXCEPT ![p] = FALSE]
           /\ ready' = [ready EXCEPT ![p] = FALSE]
           /\ pushing' = [pushing EXCEPT ![p] = FALSE]

-------------------------------------------------------------------------------
(* The scheduler's thread, and pushes from it, from requests and from the   *)
(* startup pass.                                                            *)

BeginScan(p) == /\ job[p] = "running" /\ ~scan[p]
                /\ scan' = [scan EXCEPT ![p] = TRUE]
                /\ UNCHANGED <<holder, pc, built, open, job, ready, pushing>>

EndScan(p) == /\ scan[p] /\ ~pushing[p]
              /\ scan' = [scan EXCEPT ![p] = FALSE]
              /\ UNCHANGED <<holder, pc, built, open, job, ready, pushing>>

\* A closed client refuses to send.
ClientOpen(p) == Publisher \in open[p]

BeginPush(p) == /\ scan[p] \/ pc[p] \in {"reconcile", "serve"}
                /\ ClientOpen(p) /\ ~pushing[p]
                /\ pushing' = [pushing EXCEPT ![p] = TRUE]
                /\ UNCHANGED <<holder, pc, built, open, job, scan, ready>>

EndPush(p) == /\ pushing[p]
              /\ pushing' = [pushing EXCEPT ![p] = FALSE]
              /\ UNCHANGED <<holder, pc, built, open, job, scan, ready>>

Startup(p) == \/ Acquire(p) \/ AcquireFails(p) \/ Migrate(p)
              \/ Build(p) \/ BuildFails(p) \/ Built(p)
              \/ Reconcile(p) \/ Schedule(p) \/ StartScheduler(p)
Cleanup(p) == Shutdown(p) \/ Close(p) \/ Release(p) \/ Exit(p)
Thread(p) == EndScan(p) \/ EndPush(p)

Next == \E p \in Processes : \/ Launch(p) \/ Startup(p) \/ Stop(p) \/ Cleanup(p) \/ Kill(p)
                             \/ BeginScan(p) \/ BeginPush(p) \/ Thread(p)

Spec == Init /\ [][Next]_vars

\* Steps of start-up and cleanup end, the startup pass too: it may push many
\* times, but its backlog is finite (hence SF).  Scans and pushes end by their
\* timeouts.  Nothing makes anybody start or stop the application.
FairSpec == /\ Spec
            /\ \A p \in Processes : /\ SF_vars(Startup(p)) /\ WF_vars(Cleanup(p))
                                    /\ WF_vars(EndPush(p)) /\ WF_vars(EndScan(p))

-------------------------------------------------------------------------------
TypeOK ==
  /\ holder \in Processes \cup {Nobody}
  /\ pc \in [Processes -> Stages]
  /\ built \in [Processes -> 0..Len(Resources)]
  /\ open \in [Processes -> SUBSET Owned]
  /\ job \in [Processes -> {"none", "added", "running", "stopped"}]
  /\ scan \in [Processes -> BOOLEAN] /\ ready \in [Processes -> BOOLEAN]
  /\ pushing \in [Processes -> BOOLEAN]

\* One application at a time migrates, serves and cleans up: it holds the guard
\* all the while.
OneApplication == \A p \in Processes : pc[p] \in Application => holder = p

\* However far start-up came and whatever cleanup raised, the application ends
\* with every client and the engine closed, no scheduler and no guard.
NothingIsLeft ==
  \A p \in Processes : pc[p] \in {"off", "over"} =>
    open[p] = {} /\ job[p] \notin {"added", "running"} /\ holder # p

\* A scan begins only under the guard and after the startup pass over the
\* undelivered alerts, and no new push begins once the guard is given back:
\* a scan that outlives its application cannot notify the user.
ScansAndPushesNeedTheGuard ==
  [][\A p \in Processes :
       /\ ~scan[p] /\ scan'[p] => holder = p /\ ready[p]
       /\ ~pushing[p] /\ pushing'[p] => holder = p]_vars

\* "an OS lock beside the database allows one application process": no process
\* works on the database while another application has the guard.
OneProcessUsesTheDatabase ==
  \A p, q \in Processes : p # q => ~(scan[p] /\ pc[q] \in Application)

\* A started process serves or ends, and a stopped one ends: a second instance
\* does not wait for the first, and nothing in cleanup hangs.
StartAndStopEnd ==
  \A p \in Processes : pc[p] \notin {"serve", "off"} ~> pc[p] \in {"serve", "off"}
===============================================================================
