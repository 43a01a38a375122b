--------------------------- MODULE KeyedLocksProofs ---------------------------
(***************************************************************************)
(* Proofs about KeyedLocks: type correctness, mutual exclusion per key, no *)
(* retained entry without a user, and the refinement of KeyedMutex, for    *)
(* every finite set of threads and every set of keys and entries.          *)
(*                                                                         *)
(* Mutual exclusion is not inductive.  It holds because two threads inside *)
(* for one key share an entry, which holds because a user's entry stays in *)
(* the table (InTable), which holds because nobody deletes an entry whose  *)
(* count is the number of its users (Counted) while it is not zero.  That  *)
(* chain is IInv.                                                          *)
(***************************************************************************)
EXTENDS KeyedLocks, FiniteSetTheorems, TLAPS

Guarded == {"lookup", "join", "drop", "reap"}
Counting == {"acquire", "inside", "exit", "drop"}

GuardHeld == \A t \in Threads : pc[t] \in Guarded <=> guard = t

Refers == \A t \in Threads :
            /\ pc[t] \in {"outside", "enter", "lookup"} => mine[t] = NoEntry
            /\ pc[t] = "join" => mine[t] = table[key[t]]
            /\ pc[t] \in Counting \cup {"reap"} => mine[t] \in Entries

InTable == \A t \in Threads :
             pc[t] \in Counting \cup {"reap"} => table[key[t]] = mine[t]

OneKeyPerEntry == \A j, k \in Keys :
                    table[j] = table[k] /\ table[j] # NoEntry => j = k

Counted == \A e \in Entries : users[e] = Cardinality(Users(e))

HoldsItsLock == \A t \in Threads : pc[t] = "inside" => holder[mine[t]] = t

HasUser == \A k \in Keys :
             table[k] # NoEntry =>
               \E t \in Threads : /\ key[t] = k
                                  /\ mine[t] = table[k]
                                  /\ pc[t] \in Counting \cup {"reap"}

IInv == /\ TypeOK
        /\ GuardHeld
        /\ Refers
        /\ InTable
        /\ OneKeyPerEntry
        /\ Counted
        /\ HoldsItsLock
        /\ HasUser
-------------------------------------------------------------------------------
\* The users of an entry are finitely many, and the count tells whether there
\* is one: what "entry.users == 0" in hold() relies on.
LEMMA UsersFinite ==
  ASSUME NEW e
  PROVE  /\ IsFiniteSet(Users(e))
         /\ Cardinality(Users(e)) \in Nat
         /\ Cardinality(Users(e)) = 0 <=> Users(e) = {}
<1>1. Users(e) \in SUBSET Threads
  BY DEF Users
<1>2. IsFiniteSet(Users(e))
  BY <1>1, ThreadsFinite, FS_Subset
<1>. QED
  BY <1>2, FS_CardinalityType, FS_EmptySet

\* Init establishes the invariant.
LEMMA InitIInv == Init => IInv
<1> SUFFICES ASSUME Init PROVE IInv
  OBVIOUS
<1>1. \A e \in Entries : Users(e) = {}
  BY DEF Init, Users
<1>2. Counted
  BY <1>1, FS_EmptySet DEF Init, Counted
<1>. QED
  BY <1>2, NobodyAssumption
  DEF Init, IInv, TypeOK, Locations, GuardHeld, Guarded, Refers, Counting, InTable,
      OneKeyPerEntry, HoldsItsLock, HasUser

\* A step that leaves the guarded data and the set of users alone keeps the
\* counts right.
LEMMA SameUsers ==
  ASSUME Counted, users' = users, \A e \in Entries : Users(e)' = Users(e)
  PROVE  Counted'
BY DEF Counted

\* hold() is called: nothing shared changes.
LEMMA CallIInv ==
  ASSUME NEW t \in Threads, NEW k \in Keys, IInv, Call(t, k)
  PROVE  IInv'
<1> USE DEF IInv, Call, Goto
<1>1. TypeOK'
  BY DEF TypeOK, Locations
<1>2. Counted'
  <2>1. \A e \in Entries : Users(e)' = Users(e)
    BY DEF Users, TypeOK
  <2>. QED
    BY <2>1, SameUsers
<1>3. HasUser'
  BY DEF HasUser, TypeOK, Counting
<1>. QED
  BY <1>1, <1>2, <1>3
  DEF TypeOK, GuardHeld, Guarded, Refers, Counting, InTable, OneKeyPerEntry, HoldsItsLock

\* Taking the guard, on the way in or out: only a free guard is taken.
LEMMA TakeGuardIInv ==
  ASSUME NEW t \in Threads, IInv,
         \/ TakeGuard(t, "enter", "lookup")
         \/ TakeGuard(t, "exit", "drop")
  PROVE  IInv'
<1> USE DEF IInv, TakeGuard, Goto, GuardFree
<1>1. TypeOK'
  BY DEF TypeOK, Locations
<1>2. GuardHeld'
  BY NobodyAssumption DEF GuardHeld, Guarded, TypeOK
<1>3. Counted'
  <2>1. \A e \in Entries : Users(e)' = Users(e)
    BY DEF Users, TypeOK
  <2>. QED
    BY <2>1, SameUsers
<1>4. HasUser'
  BY DEF HasUser, TypeOK, Counting
<1>. QED
  BY <1>1, <1>2, <1>3, <1>4
  DEF TypeOK, Refers, Counting, InTable, OneKeyPerEntry, HoldsItsLock

\* Lookup reads the table under the guard.
LEMMA LookupIInv ==
  ASSUME NEW t \in Threads, IInv, Lookup(t)
  PROVE  IInv'
<1> USE DEF IInv, Lookup, Goto
<1>1. TypeOK'
  BY DEF TypeOK, Locations
<1>2. GuardHeld'
  BY DEF GuardHeld, Guarded, TypeOK
<1>3. Counted'
  <2>1. \A e \in Entries : Users(e)' = Users(e)
    BY DEF Users, TypeOK
  <2>. QED
    BY <2>1, SameUsers
<1>4. HasUser'
  BY DEF HasUser, TypeOK, Counting
<1>. QED
  BY <1>1, <1>2, <1>3, <1>4
  DEF TypeOK, Refers, Counting, InTable, OneKeyPerEntry, HoldsItsLock

\* Joining an entry that is in the table adds one user to its count.
LEMMA JoinFoundIInv ==
  ASSUME NEW t \in Threads, IInv, Join(t), JoinFound(t)
  PROVE  IInv'
<1> USE DEF IInv, Join, JoinFound, Goto
<1> DEFINE m == mine[t]
<1>0. m \in Entries /\ m = table[key[t]]
  BY DEF TypeOK, Refers
<1>1. TypeOK'
  BY <1>0 DEF TypeOK, Locations
<1>2. GuardHeld'
  BY NobodyAssumption DEF GuardHeld, Guarded, TypeOK
<1>3. Counted'
  <2>1. Users(m)' = Users(m) \cup {t} /\ t \notin Users(m)
    BY DEF Users, TypeOK
  <2>2. \A e \in Entries \ {m} : Users(e)' = Users(e)
    BY DEF Users, TypeOK
  <2>3. Cardinality(Users(m) \cup {t}) = Cardinality(Users(m)) + 1
    BY <2>1, UsersFinite, FS_AddElement
  <2>. QED
    BY <1>0, <2>1, <2>2, <2>3 DEF Counted, TypeOK
<1>4. HasUser'
  BY <1>0 DEF HasUser, TypeOK, Counting
<1>. QED
  BY <1>0, <1>1, <1>2, <1>3, <1>4
  DEF TypeOK, Refers, Counting, InTable, OneKeyPerEntry, HoldsItsLock

\* Joining with a new entry: the key was not in the table, so nobody uses it,
\* and nobody refers to the new entry.
LEMMA JoinNewIInv ==
  ASSUME NEW t \in Threads, NEW e \in Entries, IInv, Join(t), JoinNew(t, e)
  PROVE  IInv'
<1> USE DEF IInv, Join, JoinNew, Goto
<1>0. /\ table[key[t]] = NoEntry
      /\ \A k \in Keys : table[k] # e
      /\ \A u \in Threads : mine[u] # e
  BY DEF TypeOK, Refers, Referenced
<1>1. TypeOK'
  BY DEF TypeOK, Locations
<1>2. GuardHeld'
  BY NobodyAssumption DEF GuardHeld, Guarded, TypeOK
<1>3. Counted'
  <2>1. Users(e) = {} /\ Users(e)' = {t}
    BY <1>0 DEF Users, TypeOK
  <2>2. \A d \in Entries \ {e} : Users(d)' = Users(d)
    BY NoEntryAssumption DEF Users, TypeOK
  <2>3. Cardinality({t}) = 1
    BY FS_Singleton
  <2>. QED
    BY <2>1, <2>2, <2>3 DEF Counted, TypeOK
<1>4. InTable'
  <2> SUFFICES ASSUME NEW u \in Threads, pc'[u] \in Counting \cup {"reap"}
               PROVE  table'[key'[u]] = mine'[u]
    BY DEF InTable
  <2>1. CASE u = t
    BY <2>1 DEF TypeOK
  <2>2. CASE u # t
    <3>1. mine[u] = table[key[u]] /\ mine[u] \in Entries
      BY <2>2 DEF InTable, Refers, TypeOK
    <3>2. key[u] # key[t]
      BY <1>0, <3>1, NoEntryAssumption
    <3>. QED
      BY <2>2, <3>1, <3>2 DEF TypeOK
  <2>. QED
    BY <2>1, <2>2
<1>5. OneKeyPerEntry'
  BY <1>0 DEF OneKeyPerEntry, TypeOK
<1>6. HoldsItsLock'
  BY <1>0 DEF HoldsItsLock, TypeOK
<1>7. HasUser'
  <2> SUFFICES ASSUME NEW k \in Keys, table'[k] # NoEntry
               PROVE  \E u \in Threads : /\ key'[u] = k
                                         /\ mine'[u] = table'[k]
                                         /\ pc'[u] \in Counting \cup {"reap"}
    BY DEF HasUser
  <2>1. CASE k = key[t]
    BY <2>1 DEF TypeOK, Counting
  <2>2. CASE k # key[t]
    <3>1. PICK u \in Threads : /\ key[u] = k
                               /\ mine[u] = table[k]
                               /\ pc[u] \in Counting \cup {"reap"}
      BY <2>2 DEF HasUser, TypeOK
    <3>. QED
      BY <2>2, <3>1 DEF TypeOK, Counting
  <2>. QED
    BY <2>1, <2>2
<1>8. Refers'
  <2> SUFFICES ASSUME NEW u \in Threads
               PROVE  /\ pc'[u] \in {"outside", "enter", "lookup"} => mine'[u] = NoEntry
                      /\ pc'[u] = "join" => mine'[u] = table'[key'[u]]
                      /\ pc'[u] \in Counting \cup {"reap"} => mine'[u] \in Entries
    BY DEF Refers
  <2>1. CASE u = t
    BY <2>1 DEF TypeOK, Counting
  <2>2. CASE u # t
    <3>1. pc[u] # "join"
      BY <2>2 DEF GuardHeld, Guarded
    <3>. QED
      BY <2>2, <3>1 DEF TypeOK, Refers
  <2>. QED
    BY <2>1, <2>2
<1>. QED
  BY <1>1, <1>2, <1>3, <1>4, <1>5, <1>6, <1>7, <1>8

\* Taking the lock of the entry: it was free.
LEMMA AcquireIInv ==
  ASSUME NEW t \in Threads, IInv, Acquire(t)
  PROVE  IInv'
<1> USE DEF IInv, Acquire, Goto
<1>1. TypeOK'
  BY DEF TypeOK, Locations
<1>2. GuardHeld'
  BY DEF GuardHeld, Guarded, TypeOK
<1>3. Counted'
  <2>1. \A e \in Entries : Users(e)' = Users(e)
    BY DEF Users, TypeOK
  <2>. QED
    BY <2>1, SameUsers
<1>4. HoldsItsLock'
  <2>1. mine[t] \in Entries
    BY DEF Refers, Counting
  <2>. QED
    BY <2>1, NobodyAssumption DEF HoldsItsLock, Refers, Counting, TypeOK
<1>5. HasUser'
  BY DEF HasUser, TypeOK, Counting
<1>. QED
  BY <1>1, <1>2, <1>3, <1>4, <1>5
  DEF TypeOK, Refers, Counting, InTable, OneKeyPerEntry

\* Releasing the lock of the entry: only its holder does.
LEMMA UnlockIInv ==
  ASSUME NEW t \in Threads, IInv, Unlock(t)
  PROVE  IInv'
<1> USE DEF IInv, Unlock, Goto
<1>1. TypeOK'
  BY DEF TypeOK, Locations
<1>2. GuardHeld'
  BY DEF GuardHeld, Guarded, TypeOK
<1>3. Counted'
  <2>1. \A e \in Entries : Users(e)' = Users(e)
    BY DEF Users, TypeOK
  <2>. QED
    BY <2>1, SameUsers
<1>4. HoldsItsLock'
  <2>1. \A u \in Threads : pc[u] = "inside" => mine[u] \in Entries /\ holder[mine[u]] = u
    BY DEF HoldsItsLock, Refers, Counting
  <2>. QED
    BY <2>1 DEF HoldsItsLock, TypeOK
<1>5. HasUser'
  BY DEF HasUser, TypeOK, Counting
<1>. QED
  BY <1>1, <1>2, <1>3, <1>4, <1>5
  DEF TypeOK, Refers, Counting, InTable, OneKeyPerEntry

\* Dropping the count: it was not zero, because the thread itself was in it.
LEMMA DropIInv ==
  ASSUME NEW t \in Threads, IInv, Drop(t)
  PROVE  IInv'
<1> USE DEF IInv, Drop, Goto
<1> DEFINE m == mine[t]
<1>0. m \in Entries
  BY DEF Refers, Counting
<1>1. /\ Users(m)' = Users(m) \ {t}
      /\ t \in Users(m)
      /\ \A e \in Entries \ {m} : Users(e)' = Users(e)
  BY DEF Users, TypeOK
<1>2. /\ Cardinality(Users(m) \ {t}) = Cardinality(Users(m)) - 1
      /\ Cardinality(Users(m)) \in Nat \ {0}
  BY <1>1, UsersFinite, FS_RemoveElement
<1>3. Counted'
  BY <1>0, <1>1, <1>2 DEF Counted, TypeOK
<1>4. TypeOK'
  BY <1>0, <1>2 DEF TypeOK, Locations, Counted
<1>5. GuardHeld'
  BY DEF GuardHeld, Guarded, TypeOK
<1>6. HasUser'
  BY DEF HasUser, TypeOK, Counting
<1>. QED
  BY <1>3, <1>4, <1>5, <1>6
  DEF TypeOK, Refers, Counting, InTable, OneKeyPerEntry, HoldsItsLock

\* Leaving the guarded block.  An entry is deleted only when its count is zero,
\* hence when it has no user; a deleted entry is the thread's own.
LEMMA ReapIInv ==
  ASSUME NEW t \in Threads, IInv, Reap(t)
  PROVE  IInv'
<1> USE DEF IInv, Reap, Goto, LastUser
<1> DEFINE m == mine[t]
<1>0. /\ m \in Entries
      /\ table[key[t]] = m
      /\ \A u \in Threads \ {t} : pc[u] \notin Guarded
  BY DEF Refers, InTable, Counting, GuardHeld, Guarded
<1>1. TypeOK'
  BY DEF TypeOK, Locations
<1>2. GuardHeld'
  BY NobodyAssumption DEF GuardHeld, Guarded, TypeOK
<1>3. Counted'
  <2>1. \A e \in Entries : Users(e)' = Users(e)
    BY NoEntryAssumption DEF Users, TypeOK
  <2>. QED
    BY <2>1, SameUsers
<1>4. Refers'
  BY <1>0 DEF Refers, TypeOK, Counting, Guarded
<1>5. OneKeyPerEntry'
  BY DEF OneKeyPerEntry, TypeOK
<1>6. HoldsItsLock'
  BY DEF HoldsItsLock, TypeOK
<1>7. users[m] = 0 <=> Users(m) = {}
  BY <1>0, UsersFinite DEF Counted
<1>8. InTable'
  <2> SUFFICES ASSUME NEW u \in Threads, pc'[u] \in Counting \cup {"reap"}
               PROVE  table'[key'[u]] = mine'[u]
    BY DEF InTable
  <2>1. u # t /\ pc[u] \in Counting /\ pc[u] \in Counting \cup {"reap"}
    BY <1>0 DEF TypeOK, Counting, Guarded
  <2>2. table[key[u]] = mine[u] /\ mine'[u] = mine[u]
    BY <2>1 DEF InTable, TypeOK
  <2>3. CASE key[u] = key[t]
    <3>1. u \in Users(m)
      BY <1>0, <2>1, <2>2, <2>3 DEF Users, Counting
    <3>. QED
      BY <1>7, <2>2, <3>1
  <2>4. CASE key[u] # key[t]
    BY <2>2, <2>4 DEF TypeOK
  <2>. QED
    BY <2>3, <2>4
<1>9. HasUser'
  <2> SUFFICES ASSUME NEW k \in Keys, table'[k] # NoEntry
               PROVE  \E u \in Threads : /\ key'[u] = k
                                         /\ mine'[u] = table'[k]
                                         /\ pc'[u] \in Counting \cup {"reap"}
    BY DEF HasUser
  <2>1. table'[k] = table[k] /\ table[k] # NoEntry
    BY DEF TypeOK
  <2>2. CASE k = key[t]
    <3>1. users[m] # 0
      BY <1>0, <2>1, <2>2 DEF TypeOK
    <3>2. PICK u \in Threads : mine[u] = m /\ pc[u] \in Counting
      BY <1>7, <3>1 DEF Users, Counting
    <3>3. key[u] = k /\ u # t
      BY <1>0, <2>2, <3>2, NoEntryAssumption
      DEF InTable, OneKeyPerEntry, TypeOK, Counting
    <3>. QED
      BY <1>0, <2>1, <2>2, <3>2, <3>3 DEF TypeOK, Counting
  <2>3. CASE k # key[t]
    <3>1. PICK u \in Threads : /\ key[u] = k
                               /\ mine[u] = table[k]
                               /\ pc[u] \in Counting \cup {"reap"}
      BY <2>1 DEF HasUser
    <3>. QED
      BY <2>1, <2>3, <3>1 DEF TypeOK, Counting
  <2>. QED
    BY <2>2, <2>3
<1>. QED
  BY <1>1, <1>2, <1>3, <1>4, <1>5, <1>6, <1>8, <1>9

\* Stuttering changes nothing.
LEMMA StutterIInv == IInv /\ UNCHANGED vars => IInv'
BY DEF vars, IInv, TypeOK, GuardHeld, Refers, InTable, OneKeyPerEntry, Counted,
       HoldsItsLock, HasUser, Users

\* Every step preserves the invariant.
LEMMA NextIInv == IInv /\ [Next]_vars => IInv'
<1> SUFFICES ASSUME IInv, [Next]_vars PROVE IInv'
  OBVIOUS
<1>1. CASE UNCHANGED vars
  BY <1>1, StutterIInv
<1>2. ASSUME NEW t \in Threads, NEW k \in Keys, Call(t, k) PROVE IInv'
  BY <1>2, CallIInv
<1>3. ASSUME NEW t \in Threads, Step(t) PROVE IInv'
  <2>1. CASE TakeGuard(t, "enter", "lookup") \/ TakeGuard(t, "exit", "drop")
    BY <2>1, TakeGuardIInv
  <2>2. CASE Lookup(t)
    BY <2>2, LookupIInv
  <2>3. CASE Join(t)
    BY <2>3, JoinFoundIInv, JoinNewIInv DEF Join
  <2>4. CASE Acquire(t)
    BY <2>4, AcquireIInv
  <2>5. CASE Unlock(t)
    BY <2>5, UnlockIInv
  <2>6. CASE Drop(t)
    BY <2>6, DropIInv
  <2>7. CASE Reap(t)
    BY <2>7, ReapIInv
  <2>. QED
    BY <1>3, <2>1, <2>2, <2>3, <2>4, <2>5, <2>6, <2>7 DEF Step
<1>. QED
  BY <1>1, <1>2, <1>3 DEF Next

\* The inductive invariant holds in every reachable state.
THEOREM InvariantHolds == Spec => []IInv
BY InitIInv, NextIInv, PTL DEF Spec

-------------------------------------------------------------------------------
\* Type correctness of the registry.
THEOREM TypeCorrect == Spec => []TypeOK
<1>1. IInv => TypeOK
  BY DEF IInv
<1>. QED
  BY <1>1, InvariantHolds, PTL

\* Two threads inside hold() for one key hold the lock of one entry.
LEMMA IInvMutex == IInv => MutualExclusion
BY DEF IInv, InTable, HoldsItsLock, MutualExclusion, Counting

\* hold() never lets two threads into the block of one key, whatever the
\* interleaving of registration, deletion and re-creation of entries.
THEOREM MutexHolds == Spec => []MutualExclusion
BY IInvMutex, InvariantHolds, PTL

\* A key is in the table only while some thread is in hold() for it.
THEOREM NothingLeaks == Spec => []RetainedOnlyWhileUsed
<1>1. IInv => RetainedOnlyWhileUsed
  BY DEF IInv, HasUser, RetainedOnlyWhileUsed, Counting
<1>. QED
  BY <1>1, InvariantHolds, PTL

-------------------------------------------------------------------------------
\* The choice from a singleton.
LEMMA OneOfSingleton == \A t : OneOf({t}) = t
BY DEF OneOf

\* The owner of a key follows from the set of threads inside it.
LEMMA OwnerOfSet ==
  ASSUME NEW k \in Keys
  PROVE  owner[k] = IF Inside(k) = {} THEN Nobody ELSE OneOf(Inside(k))
BY DEF owner

\* A step that leaves the threads inside every key alone leaves the owners alone.
LEMMA SameOwner ==
  ASSUME \A k \in Keys : Inside(k)' = Inside(k)
  PROVE  owner' = owner
BY DEF owner

\* The registry implements the abstract keyed mutex: letting a thread in is
\* Mutex!Acquire, its leaving is Mutex!Release, everything else is invisible.
THEOREM RegistryImplementsMutex == Spec => ImplementsKeyedMutex
<1>1. Init => Mutex!Free
  BY DEF Init, Mutex!Free, owner, Inside
<1>2. ASSUME IInv, [Next]_vars PROVE [Mutex!Next]_owner
  <2>1. CASE UNCHANGED vars
    BY <2>1, SameOwner DEF vars, Inside
  <2>2. ASSUME NEW t \in Threads, Acquire(t) PROVE Mutex!Next
    <3>0. PICK k \in Keys : k = key[t]
      BY <1>2 DEF IInv, TypeOK
    <3>1. key[t] = k /\ pc[t] = "acquire"
      BY <2>2, <3>0 DEF Acquire, Goto
    <3>2. Inside(k) = {}
      BY <1>2, <2>2, <3>1, NobodyAssumption
      DEF Acquire, IInv, InTable, HoldsItsLock, Counting, Inside
    <3>3. Inside(k)' = {t} /\ \A j \in Keys \ {k} : Inside(j)' = Inside(j)
      BY <1>2, <2>2, <3>1, <3>2 DEF Acquire, Goto, IInv, TypeOK, Inside
    <3>4. owner[k] = Nobody
      BY <3>1, <3>2, OwnerOfSet, OneOfSingleton
    <3>5. owner' = [owner EXCEPT ![k] = t]
      BY <3>1, <3>3, OneOfSingleton DEF owner
    <3>. QED
      BY <3>1, <3>4, <3>5 DEF Mutex!Next, Mutex!Acquire
  <2>3. ASSUME NEW t \in Threads, Unlock(t) PROVE Mutex!Next
    <3>0. PICK k \in Keys : k = key[t]
      BY <1>2 DEF IInv, TypeOK
    <3>1. key[t] = k /\ pc[t] = "inside"
      BY <2>3, <3>0 DEF Unlock, Goto
    <3>2. Inside(k) = {t}
      BY <1>2, <3>1, IInvMutex DEF MutualExclusion, Inside
    <3>3. Inside(k)' = {} /\ \A j \in Keys \ {k} : Inside(j)' = Inside(j)
      BY <1>2, <2>3, <3>1, <3>2 DEF Unlock, Goto, IInv, TypeOK, Inside
    <3>4. owner[k] = t
      BY <3>1, <3>2, OwnerOfSet, OneOfSingleton
    <3>5. owner' = [owner EXCEPT ![k] = Nobody]
      BY <3>1, <3>3, OneOfSingleton DEF owner
    <3>. QED
      BY <3>1, <3>4, <3>5 DEF Mutex!Next, Mutex!Release
  <2>4. ASSUME NEW t \in Threads,
               \/ \E k \in Keys : Call(t, k)
               \/ TakeGuard(t, "enter", "lookup")
               \/ Lookup(t)
               \/ Join(t)
               \/ TakeGuard(t, "exit", "drop")
               \/ Drop(t)
               \/ Reap(t)
        PROVE  UNCHANGED owner
    <3>1. \A j \in Keys : Inside(j)' = Inside(j)
      BY <1>2, <2>4
      DEF Call, TakeGuard, Lookup, Join, Drop, Reap, Goto, IInv, TypeOK, Inside
    <3>. QED
      BY <3>1, SameOwner
  <2>. QED
    BY <1>2, <2>1, <2>2, <2>3, <2>4 DEF Next, Step
<1>. QED
  BY <1>1, <1>2, InvariantHolds, PTL DEF Spec, ImplementsKeyedMutex, Mutex!Spec
===============================================================================
