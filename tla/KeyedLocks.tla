------------------------------ MODULE KeyedLocks ------------------------------
(***************************************************************************)
(* KeyedLockRegistry.hold (services/keyed_locks.py).  A table maps a key   *)
(* to an _Entry (a lock and a count of users) only while somebody uses or  *)
(* waits for the key; the table and the counts are protected by one guard  *)
(* lock.  The reads and the writes under the guard are separate steps      *)
(* here, so that the guard is what makes them atomic and not the model.    *)
(*                                                                         *)
(* An _Entry is a heap object: Entries is a pool of identities, and an     *)
(* identity may be used again once neither the table nor a thread refers   *)
(* to it.                                                                  *)
(***************************************************************************)
EXTENDS Naturals, FiniteSets

CONSTANTS Threads, Keys, Entries, Nobody, NoEntry

ASSUME ThreadsFinite == IsFiniteSet(Threads)
ASSUME NobodyAssumption == Nobody \notin Threads
ASSUME NoEntryAssumption == NoEntry \notin Entries

VARIABLES
  guard,    \* the thread that holds _guard, or Nobody
  table,    \* _entries: key -> entry, NoEntry when the key is absent
  users,    \* _Entry.users
  holder,   \* _Entry.lock: the thread that holds it, or Nobody
  pc,       \* where each thread is in hold()
  key,      \* the key each thread asked for
  mine      \* the entry each thread refers to, NoEntry when none

vars == <<guard, table, users, holder, pc, key, mine>>

Locations == {"outside", "enter", "lookup", "join", "acquire",
              "inside", "exit", "drop", "reap"}

\* The threads counted in users: between Join and Drop.
Users(e) == {t \in Threads : /\ mine[t] = e
                             /\ pc[t] \in {"acquire", "inside", "exit", "drop"}}

Referenced(e) == \/ \E k \in Keys : table[k] = e
                 \/ \E t \in Threads : mine[t] = e

Init == /\ guard = Nobody
        /\ table = [k \in Keys |-> NoEntry]
        /\ users = [e \in Entries |-> 0]
        /\ holder = [e \in Entries |-> Nobody]
        /\ pc = [t \in Threads |-> "outside"]
        /\ key \in [Threads -> Keys]
        /\ mine = [t \in Threads |-> NoEntry]

Goto(t, from, to) == /\ pc[t] = from
                     /\ pc' = [pc EXCEPT ![t] = to]

\* The guard as the code has it, and the same code without "with self._guard".
GuardFree_Unguarded(t) == TRUE
GuardFree(t) == guard = Nobody

\* The test before "del", and the same code that forgets the other users.
LastUser_Any(e) == TRUE
LastUser_Never(e) == FALSE
LastUser(e) == users[e] = 0

-------------------------------------------------------------------------------
\* A thread calls hold(k).
Call(t, k) == /\ Goto(t, "outside", "enter")
              /\ key' = [key EXCEPT ![t] = k]
              /\ UNCHANGED <<guard, table, users, holder, mine>>

\* "with self._guard", on the way in and on the way out.
TakeGuard(t, from, to) == /\ Goto(t, from, to)
                          /\ GuardFree(t)
                          /\ guard' = t
                          /\ UNCHANGED <<table, users, holder, key, mine>>

\* entry = self._entries.get(key)
Lookup(t) == /\ Goto(t, "lookup", "join")
             /\ mine' = [mine EXCEPT ![t] = table[key[t]]]
             /\ UNCHANGED <<guard, table, users, holder, key>>

\* A new _Entry(Lock()) goes into the table: nobody holds it, one user.
JoinNew(t, e) == /\ mine[t] = NoEntry
                 /\ ~Referenced(e)
                 /\ mine' = [mine EXCEPT ![t] = e]
                 /\ table' = [table EXCEPT ![key[t]] = e]
                 /\ users' = [users EXCEPT ![e] = 1]
                 /\ holder' = [holder EXCEPT ![e] = Nobody]

JoinFound(t) == /\ mine[t] # NoEntry
                /\ users' = [users EXCEPT ![mine[t]] = @ + 1]
                /\ UNCHANGED <<table, holder, mine>>

\* entry.users += 1, and the end of the guarded block.
Join(t) == /\ Goto(t, "join", "acquire")
           /\ JoinFound(t) \/ \E e \in Entries : JoinNew(t, e)
           /\ guard' = Nobody
           /\ UNCHANGED key

\* "with entry.lock", and the same with a time limit on the wait.
Acquire_OrTimeOut(t) == /\ \/ /\ Goto(t, "acquire", "inside")
                              /\ holder[mine[t]] = Nobody
                              /\ holder' = [holder EXCEPT ![mine[t]] = t]
                           \/ Goto(t, "acquire", "exit") /\ UNCHANGED holder
                        /\ UNCHANGED <<guard, table, users, key, mine>>
Acquire(t) == /\ Goto(t, "acquire", "inside")
              /\ holder[mine[t]] = Nobody
              /\ holder' = [holder EXCEPT ![mine[t]] = t]
              /\ UNCHANGED <<guard, table, users, key, mine>>

\* The caller's block ends, by return or by exception: entry.lock is released.
Unlock(t) == /\ Goto(t, "inside", "exit")
             /\ holder' = [holder EXCEPT ![mine[t]] = Nobody]
             /\ UNCHANGED <<guard, table, users, key, mine>>

\* entry.users -= 1
Drop(t) == /\ Goto(t, "drop", "reap")
           /\ users' = [users EXCEPT ![mine[t]] = @ - 1]
           /\ UNCHANGED <<guard, table, holder, key, mine>>

\* The last user of a registered entry deletes it; the guard is released.
Reap(t) == /\ Goto(t, "reap", "outside")
           /\ table' = IF LastUser(mine[t]) /\ table[key[t]] = mine[t]
                       THEN [table EXCEPT ![key[t]] = NoEntry]
                       ELSE table
           /\ mine' = [mine EXCEPT ![t] = NoEntry]
           /\ guard' = Nobody
           /\ UNCHANGED <<users, holder, key>>

Step(t) == \/ TakeGuard(t, "enter", "lookup")
           \/ Lookup(t)
           \/ Join(t)
           \/ Acquire(t)
           \/ Unlock(t)
           \/ TakeGuard(t, "exit", "drop")
           \/ Drop(t)
           \/ Reap(t)

Next == \E t \in Threads : Step(t) \/ \E k \in Keys : Call(t, k)

(***************************************************************************)
(* A thread that is runnable runs; nothing is assumed of the order in      *)
(* which threading.Lock lets waiters in, and nobody has to call hold().    *)
(* That a thread leaves the guarded block is WF of Unlock: every block in  *)
(* the program ends, the one that publishes by the client's timeout.       *)
(***************************************************************************)
Spec == Init /\ [][Next]_vars

FairSpec == Spec /\ \A t \in Threads : WF_vars(Step(t))

-------------------------------------------------------------------------------
TypeOK == /\ guard \in Threads \cup {Nobody}
          /\ table \in [Keys -> Entries \cup {NoEntry}]
          /\ users \in [Entries -> Nat]
          /\ holder \in [Entries -> Threads \cup {Nobody}]
          /\ pc \in [Threads -> Locations]
          /\ key \in [Threads -> Keys]
          /\ mine \in [Threads -> Entries \cup {NoEntry}]

\* Two threads are never inside hold() for the same key.  It is the table's
\* business, not the lock's: it fails as soon as two entries serve one key.
MutualExclusion ==
  \A t, u \in Threads :
    pc[t] = "inside" /\ pc[u] = "inside" /\ key[t] = key[u] => t = u

\* "retaining state only for active users/waiters": a key stays in the table
\* only while some thread is between its call of hold() and its return.
RetainedOnlyWhileUsed ==
  \A k \in Keys :
    table[k] # NoEntry => \E t \in Threads : key[t] = k /\ pc[t] # "outside"

\* The registry implements the abstract keyed mutex: the owner of a key is
\* the thread inside hold() for it.
Inside(k) == {t \in Threads : pc[t] = "inside" /\ key[t] = k}

OneOf(S) == CHOOSE t \in S : TRUE

owner == [k \in Keys |-> IF Inside(k) = {} THEN Nobody ELSE OneOf(Inside(k))]

Mutex == INSTANCE KeyedMutex

ImplementsKeyedMutex == Mutex!Spec

\* A key somebody waits for is not lost: some waiter gets in.  (Which one is
\* up to threading.Lock, so no single waiter is promised anything.)
WaitersGetIn ==
  \A k \in Keys :
    (\E t \in Threads : key[t] = k /\ pc[t] = "acquire")
      ~> (\E t \in Threads : key[t] = k /\ pc[t] = "inside")
===============================================================================
