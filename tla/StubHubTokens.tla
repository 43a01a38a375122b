---------------------------- MODULE StubHubTokens ----------------------------
(***************************************************************************)
(* StubHubTokenProvider and the calls StubHubConnector._catalog_json makes *)
(* to it (connectors/stubhub.py): a cached bearer token, refreshed by one  *)
(* caller at a time while the others wait for the result of that           *)
(* generation, and dropped when the catalog rejects it.                    *)
(*                                                                         *)
(* What happens under _condition is one step, a remote call is another; a  *)
(* wait on the condition ends when its test is false.  Tokens are numbered *)
(* in the order the marketplace issued them.  Each caller has a time of    *)
(* its own, read before it asked; Until(t, l) is _safe_reuse_deadline.     *)
(***************************************************************************)
EXTENDS Naturals, FiniteSets

CONSTANTS
  Callers,     \* threads that use the connector
  Times,       \* Callers -> the times at which it may ask
  Lifetimes,   \* expires_in of a token, less 60 seconds; 0: not reusable
  MaxCalls     \* bound on the requests of one caller

ASSUME CallersAssumption == IsFiniteSet(Callers)
ASSUME TimesAssumption == Times \in [Callers -> SUBSET Nat] /\ Lifetimes \subseteq Nat /\ MaxCalls \in Nat

VARIABLES
  cached, until,    \* _token (0: None) and _reuse_before
  refreshing,       \* _refreshing
  generation,       \* _generation
  waiters,          \* _generation_waiters: callers counted, by generation
  results,          \* _generation_results, by generation
  pc, now, token,   \* of each caller: where it is, its time, the token it has
  waitsFor,         \* the generation it waits for
  rejected,         \* the token that this request was refused with, 0: none
  calls,            \* the requests it began
  issued, revoked   \* the marketplace: tokens issued and no longer accepted

provider == <<cached, until, refreshing, generation, waiters, results>>
caller == <<now, rejected, calls>>
marketplace == <<issued, revoked>>
vars == <<provider, pc, caller, token, waitsFor, marketplace>>

\* No request leads more than two refreshes: get_token is called twice at most.
MaxGenerations == 2 * MaxCalls * Cardinality(Callers)
Generations == 0..MaxGenerations

NoResult == [kind |-> "missing", token |-> 0, until |-> 0]
Failure == [kind |-> "failure", token |-> 0, until |-> 0]
Token(k, u) == [kind |-> "token", token |-> k, until |-> u]

Locations == {"out", "ask", "wait", "fetch", "store", "abort", "use", "drop"}

Init == /\ cached = 0 /\ until = 0
        /\ refreshing = FALSE /\ generation = 0
        /\ waiters = [g \in Generations |-> 0]
        /\ results = [g \in Generations |-> NoResult]
        /\ pc = [t \in Callers |-> "out"]
        /\ now = [t \in Callers |-> 0]
        /\ token = [t \in Callers |-> 0]
        /\ waitsFor = [t \in Callers |-> 0]
        /\ rejected = [t \in Callers |-> 0]
        /\ calls = [t \in Callers |-> 0]
        /\ issued = 0 /\ revoked = {}

Goto(t, from, to) == /\ pc[t] = from
                     /\ pc' = [pc EXCEPT ![t] = to]
Take(t, k) == token' = [token EXCEPT ![t] = k]

-------------------------------------------------------------------------------
(* get_token *)

\* _catalog_json reads the clock and asks for a token.
Call(t) == /\ Goto(t, "out", "ask")
           /\ calls[t] < MaxCalls
           /\ calls' = [calls EXCEPT ![t] = @ + 1]
           /\ \E x \in Times[t] : now' = [now EXCEPT ![t] = x]
           /\ rejected' = [rejected EXCEPT ![t] = 0]
           /\ UNCHANGED <<provider, token, waitsFor, marketplace>>

Reusable(t) == cached # 0 /\ now[t] < until

Reuse(t) == /\ Goto(t, "ask", "use")
            /\ Reusable(t)
            /\ Take(t, cached)
            /\ UNCHANGED <<provider, caller, waitsFor, marketplace>>

Wait(t) == /\ Goto(t, "ask", "wait")
           /\ ~Reusable(t) /\ refreshing
           /\ waiters' = [waiters EXCEPT ![generation] = @ + 1]
           /\ waitsFor' = [waitsFor EXCEPT ![t] = generation]
           /\ UNCHANGED <<cached, until, refreshing, generation, results, caller, token, marketplace>>

Lead(t) == /\ Goto(t, "ask", "fetch")
           /\ ~Reusable(t) /\ ~refreshing
           /\ generation' = generation + 1
           /\ refreshing' = TRUE
           /\ UNCHANGED <<cached, until, waiters, results, caller, token, waitsFor, marketplace>>

\* The waiter takes the result of its generation, however many generations
\* followed, and the last one clears it away.  A failure is raised again; a
\* token that is no longer good for this caller's time makes it ask again.
Woken(t) == ~(refreshing /\ generation = waitsFor[t])
GoodFor(t, r) == r.kind = "token" /\ now[t] < r.until
Given(t) == results[waitsFor[t]]

\* The last waiter clears its generation.  (The mutants: nobody does; the
\* first one does.)
Cleared_Kept(g) == results
Cleared_First(g) == [results EXCEPT ![g] = NoResult]
Cleared(g) == IF waiters[g] = 1 THEN [results EXCEPT ![g] = NoResult] ELSE results

Wake(t) == /\ Woken(t)
           /\ \/ /\ Given(t).kind = "failure" /\ Goto(t, "wait", "out")
                 /\ UNCHANGED token
              \/ /\ GoodFor(t, Given(t)) /\ Goto(t, "wait", "use")
                 /\ Take(t, Given(t).token)
              \/ /\ Given(t).kind = "token" /\ ~GoodFor(t, Given(t)) /\ Goto(t, "wait", "ask")
                 /\ UNCHANGED token
           /\ waiters' = [waiters EXCEPT ![waitsFor[t]] = @ - 1]
           /\ results' = Cleared(waitsFor[t])
           /\ waitsFor' = [waitsFor EXCEPT ![t] = 0]
           /\ UNCHANGED <<cached, until, refreshing, generation, caller, marketplace>>

\* _acquire_token, with its retries: the marketplace issues a token, or not.
Fetch(t) == /\ \/ /\ Goto(t, "fetch", "store")
                  /\ issued' = issued + 1
                  /\ Take(t, issued + 1)
               \/ Goto(t, "fetch", "abort") /\ UNCHANGED <<issued, token>>
            /\ UNCHANGED <<provider, caller, waitsFor, revoked>>

\* A result is kept only when somebody waits for it.
Published(r) == IF waiters[generation] > 0
                THEN [results EXCEPT ![generation] = r] ELSE results

\* A token of 60 seconds or less has no deadline.
Until(t, l) == IF l = 0 THEN 0 ELSE now[t] + l

Store(t) == /\ Goto(t, "store", "use")
            /\ \E l \in Lifetimes :
                 /\ cached' = token[t] /\ until' = Until(t, l)
                 /\ results' = Published(Token(token[t], Until(t, l)))
            /\ refreshing' = FALSE
            /\ UNCHANGED <<generation, waiters, caller, token, waitsFor, marketplace>>

\* except BaseException: the waiters get the failure.  (The mutant leaves the
\* refresh open.)
Abort_StaysOpen(t) ==
  /\ Goto(t, "abort", "out")
  /\ results' = Published(Failure)
  /\ UNCHANGED <<cached, until, refreshing, generation, waiters, caller, token, waitsFor, marketplace>>
Abort(t) == /\ Goto(t, "abort", "out")
            /\ results' = Published(Failure)
            /\ refreshing' = FALSE
            /\ UNCHANGED <<cached, until, generation, waiters, caller, token, waitsFor, marketplace>>

-------------------------------------------------------------------------------
(* The catalog request and invalidate *)

\* An answer other than 401, or a second 401, ends the call.
Use(t) == /\ \/ Goto(t, "use", "out") /\ Take(t, 0)
             \/ /\ Goto(t, "use", "drop") /\ UNCHANGED token
                /\ token[t] \in revoked /\ rejected[t] = 0
          /\ UNCHANGED <<provider, caller, waitsFor, marketplace>>

\* invalidate(token) spares a token that replaced the rejected one.  (The
\* mutants drop whatever is cached; keep the rejected token.)
IsCached_Whatever(t) == TRUE
IsCached_Kept(t) == FALSE
IsCached(t) == cached = token[t]

Drop(t) == /\ Goto(t, "drop", "ask")
           /\ IF IsCached(t) THEN cached' = 0 /\ until' = 0 ELSE UNCHANGED <<cached, until>>
           /\ rejected' = [rejected EXCEPT ![t] = token[t]]
           /\ Take(t, 0)
           /\ UNCHANGED <<refreshing, generation, waiters, results, now, calls, waitsFor, marketplace>>

\* The marketplace stops accepting a token.
Revoke == /\ \E k \in 1..issued : k \notin revoked /\ revoked' = revoked \cup {k}
          /\ UNCHANGED <<provider, pc, caller, token, waitsFor, issued>>

Work(t) == \/ Reuse(t) \/ Wait(t) \/ Lead(t) \/ Wake(t)
           \/ Fetch(t) \/ Store(t) \/ Abort(t) \/ Use(t) \/ Drop(t)

Next == Revoke \/ \E t \in Callers : Call(t) \/ Work(t)

Spec == Init /\ [][Next]_vars
\* Remote calls end by their timeouts; a notified waiter wakes.
FairSpec == Spec /\ \A t \in Callers : WF_vars(Work(t))

-------------------------------------------------------------------------------
Tokens == 0..issued

\* The state of the provider, of its callers and of the marketplace; the
\* generations stay within two per request.
TypeOK ==
  /\ issued \in Nat /\ cached \in Tokens /\ until \in Nat
  /\ refreshing \in BOOLEAN /\ generation \in Generations
  /\ waiters \in [Generations -> 0..Cardinality(Callers)]
  /\ results \in [Generations -> {NoResult, Failure}
                                 \cup [kind : {"token"}, token : 1..issued, until : Nat]]
  /\ pc \in [Callers -> Locations] /\ now \in [Callers -> Nat]
  /\ token \in [Callers -> Tokens] /\ rejected \in [Callers -> Tokens]
  /\ waitsFor \in [Callers -> Generations]
  /\ calls \in [Callers -> 0..MaxCalls]
  /\ revoked \subseteq 1..issued

\* A caller whose generation is over finds a result, however late it wakes and
\* whatever generations followed: the lookup in _generation_results never
\* fails (stubhub.py:144).
WaiterFindsItsResult ==
  \A t \in Callers : pc[t] = "wait" /\ Woken(t) => Given(t).kind # "missing"

\* A result is kept only while somebody still waits for it: the tables of a
\* provider that lives for months do not grow (stubhub.py:148-153).
NothingIsKept ==
  \A g \in Generations : results[g] # NoResult => waiters[g] > 0

\* The second attempt of a request never carries the token the first one was
\* refused with, nor an older one, whichever thread fetched it.
RetryHasANewerToken ==
  \A t \in Callers : pc[t] = "use" /\ rejected[t] # 0 => token[t] > rejected[t]

\* A new token is issued only when the last one was refused or is past the time
\* of the thread that asks: threads refused together cost one token, not one
\* each.
NewTokenIsNeeded ==
  [][issued' # issued =>
       \E t \in Callers : /\ pc[t] = "fetch" /\ pc'[t] = "store"
                          /\ \/ issued \in revoked \cup {0}
                             \/ cached # 0 /\ now[t] >= until]_vars

\* Every request ends, with an answer or an error: no thread waits for a
\* refresh that is over.
CallsEnd == \A t \in Callers : pc[t] # "out" ~> pc[t] = "out"
===============================================================================
