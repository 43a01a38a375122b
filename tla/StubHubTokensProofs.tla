------------------------- MODULE StubHubTokensProofs -------------------------
(***************************************************************************)
(* Proofs about StubHubTokens, for any finite set of callers, any times,   *)
(* any lifetimes of tokens and any number of requests.                     *)
(*                                                                         *)
(* Three arguments make up IInv.  One caller at a time refreshes (Leader). *)
(* The count of a generation is the number of callers that wait for it     *)
(* (Counted), so that a result is published when somebody waits and        *)
(* cleared when the last one has it (Found).  And every token that the     *)
(* provider knows is at most the last one it was given (Newest), which is  *)
(* how a token that replaced a rejected one is known to be newer (Newer).  *)
(*                                                                         *)
(* That the generations stay within two per request is an argument of its  *)
(* own: Spent.                                                             *)
(***************************************************************************)
EXTENDS StubHubTokens, FiniteSetTheorems, TLAPS

Leading == {"fetch", "store", "abort"}
Leader ==
  /\ \A t \in Callers : pc[t] \in Leading => refreshing
  /\ \A s, t \in Callers : pc[s] \in Leading /\ pc[t] \in Leading => s = t

Waiting(g) == {t \in Callers : pc[t] = "wait" /\ waitsFor[t] = g}
Counted == \A g \in Generations : waiters[g] = Cardinality(Waiting(g))

Found ==
  /\ NothingIsKept
  /\ refreshing => results[generation] = NoResult
  /\ \A t \in Callers : pc[t] = "wait" =>
       /\ waitsFor[t] <= generation
       /\ (refreshing /\ generation = waitsFor[t]) \/ results[waitsFor[t]] # NoResult

\* The last token that the provider was given: the newest one, unless its
\* leader has it and has not stored it yet.
Storing == \E t \in Callers : pc[t] = "store"
Last == IF Storing THEN issued - 1 ELSE issued

Newest ==
  /\ Last \in Nat
  /\ cached \in {0, Last}
  /\ cached = 0 => Last \in revoked \cup {0}
  /\ \A g \in Generations : results[g].token <= Last
  /\ \A t \in Callers :
       /\ pc[t] = "store" => token[t] = issued
       /\ pc[t] \in {"use", "drop"} => token[t] \in 1..Last
       /\ pc[t] = "drop" => token[t] \in revoked /\ rejected[t] = 0
       /\ pc[t] = "fetch" => cached = 0 \/ now[t] >= until
       /\ rejected[t] <= Last

Newer ==
  \A t \in Callers : rejected[t] # 0 =>
    /\ pc[t] \in {"ask", "wait"} => cached = 0 \/ cached > rejected[t]
    /\ pc[t] = "wait" /\ results[waitsFor[t]].kind = "token"
         => results[waitsFor[t]].token > rejected[t]
    /\ pc[t] = "use" => token[t] > rejected[t]

\* What a caller may still lead in its request, and the refreshes it has spent
\* of the two that each of its requests may cost.
Owed(t) == IF pc[t] = "out" THEN 0
           ELSE IF pc[t] \in {"ask", "wait"} THEN (IF rejected[t] = 0 THEN 2 ELSE 1)
           ELSE (IF rejected[t] = 0 THEN 1 ELSE 0)
SpentBy(t) == 2 * calls[t] - Owed(t)
Allowed == Callers \X (1..(2 * MaxCalls))
Spent == {x \in Allowed : x[2] <= SpentBy(x[1])}
Budget == /\ generation <= Cardinality(Spent)
          /\ \A t \in Callers : pc[t] # "out" => calls[t] > 0

IInv == TypeOK /\ Leader /\ Counted /\ Found /\ Newest /\ Newer /\ Budget

-------------------------------------------------------------------------------
(* Counting                                                                *)

LEMMA SomeCallers ==
  ASSUME NEW S \in SUBSET Callers
  PROVE  /\ IsFiniteSet(S) /\ Cardinality(S) \in 0..Cardinality(Callers)
         /\ Cardinality(S) = 0 <=> S = {}
<1>1. IsFiniteSet(S) /\ Cardinality(S) <= Cardinality(Callers)
  BY CallersAssumption, FS_Subset
<1>2. Cardinality(S) \in Nat /\ Cardinality(Callers) \in Nat
  BY <1>1, CallersAssumption, FS_CardinalityType
<1> QED
  BY <1>1, <1>2, FS_EmptySet

LEMMA WaitingFinite ==
  ASSUME NEW g
  PROVE  /\ IsFiniteSet(Waiting(g)) /\ Cardinality(Waiting(g)) \in 0..Cardinality(Callers)
         /\ Cardinality(Waiting(g)) = 0 <=> Waiting(g) = {}
<1>1. Waiting(g) \in SUBSET Callers
  BY DEF Waiting
<1> QED
  BY <1>1, SomeCallers

LEMMA SpentFinite ==
  /\ IsFiniteSet(Allowed) /\ Cardinality(Allowed) = MaxGenerations /\ MaxGenerations \in Nat
  /\ IsFiniteSet(Spent) /\ Cardinality(Spent) \in 0..MaxGenerations
<1>1. 2 * MaxCalls \in Nat /\ Cardinality(Callers) \in Nat
  BY CallersAssumption, TimesAssumption, FS_CardinalityType
<1>2. IsFiniteSet(1..(2 * MaxCalls)) /\ Cardinality(1..(2 * MaxCalls)) = 2 * MaxCalls
  BY <1>1, FS_Interval
<1>3. IsFiniteSet(Allowed) /\ Cardinality(Allowed) = Cardinality(Callers) * (2 * MaxCalls)
  BY <1>2, CallersAssumption, FS_Product DEF Allowed
<1>4. Cardinality(Callers) * (2 * MaxCalls) = MaxGenerations /\ MaxGenerations \in Nat
  BY <1>1, TimesAssumption DEF MaxGenerations
<1>5. Spent \in SUBSET Allowed
  BY DEF Spent
<1>6. IsFiniteSet(Spent) /\ Cardinality(Spent) <= Cardinality(Allowed)
  BY <1>3, <1>5, FS_Subset
<1>7. Cardinality(Spent) \in Nat
  BY <1>6, FS_CardinalityType
<1> QED
  BY <1>3, <1>4, <1>6, <1>7

\* A step in which nobody starts a refresh keeps the budget when no caller
\* gets back what it has spent.
LEMMA SameGeneration ==
  ASSUME IInv, generation' = generation, \A t \in Callers : SpentBy(t) <= SpentBy(t)',
         \A t \in Callers : SpentBy(t) \in Int /\ SpentBy(t)' \in Int,
         \A t \in Callers : pc'[t] # "out" => calls'[t] > 0
  PROVE  Budget'
<1>1. Spent \subseteq Spent'
  <2>1. \A x \in Allowed : x[1] \in Callers /\ x[2] \in Int
    BY DEF Allowed
  <2> QED
    BY <2>1 DEF Spent
<1>2. IsFiniteSet(Spent) /\ Cardinality(Spent) \in Nat
  BY SpentFinite
<1>3. Spent' \in SUBSET Allowed
  BY DEF Spent
<1>4. IsFiniteSet(Spent')
  BY <1>3, SpentFinite, FS_Subset
<1>5. Cardinality(Spent) <= Cardinality(Spent') /\ Cardinality(Spent') \in Nat
  BY <1>1, <1>4, FS_Subset, FS_CardinalityType
<1>6. generation \in Nat /\ generation <= Cardinality(Spent)
  BY SpentFinite DEF IInv, TypeOK, Budget, Generations
<1> QED
  BY <1>2, <1>5, <1>6 DEF Budget

\* A leader spends one.
LEMMA NextGeneration ==
  ASSUME IInv, generation' = generation + 1, NEW t \in Callers,
         \A s \in Callers : SpentBy(s) \in Int, SpentBy(t) \in 0..(2 * MaxCalls - 1),
         \A s \in Callers : SpentBy(s)' = IF s = t THEN SpentBy(s) + 1 ELSE SpentBy(s),
         \A s \in Callers : pc'[s] # "out" => calls'[s] > 0
  PROVE  Budget' /\ generation' \in Generations
<1> DEFINE new == <<t, SpentBy(t) + 1>>
<1>0. MaxCalls \in Nat
  BY TimesAssumption
<1>1. new \in Allowed /\ new \notin Spent
  BY <1>0 DEF Allowed, Spent
<1>2. Spent \cup {new} \subseteq Spent'
  <2>1. \A x \in Allowed : x[1] \in Callers /\ x[2] \in Int
    BY DEF Allowed
  <2>2. Spent \subseteq Spent'
    BY <2>1 DEF Spent
  <2>3. new \in Spent'
    BY <1>1 DEF Spent
  <2> QED
    BY <2>2, <2>3
<1> HIDE DEF new
<1>3. IsFiniteSet(Spent) /\ Cardinality(Spent) \in Nat
  BY SpentFinite
<1>4. IsFiniteSet(Spent \cup {new}) /\ Cardinality(Spent \cup {new}) = Cardinality(Spent) + 1
  BY <1>1, <1>3, FS_AddElement
<1>5. Spent' \in SUBSET Allowed
  BY DEF Spent
<1>6. IsFiniteSet(Spent') /\ Cardinality(Spent') <= MaxGenerations /\ MaxGenerations \in Nat
  BY <1>5, SpentFinite, FS_Subset
<1>7. Cardinality(Spent) + 1 <= Cardinality(Spent') /\ Cardinality(Spent') \in Nat
  BY <1>2, <1>4, <1>6, FS_Subset, FS_CardinalityType
<1>8. generation \in Nat /\ generation <= Cardinality(Spent)
  BY SpentFinite DEF IInv, TypeOK, Budget, Generations
<1> QED
  BY <1>3, <1>6, <1>7, <1>8 DEF Budget, Generations

-------------------------------------------------------------------------------
(* The parts of the invariant under a step                                 *)

LEMMA GenerationsType == Generations \subseteq Nat /\ 0 \in Generations
BY SpentFinite DEF Generations

LEMMA ResultType ==
  ASSUME TypeOK, NEW g \in Generations
  PROVE  /\ results[g].token \in Tokens /\ results[g].until \in Nat
         /\ results[g].kind \in {"missing", "failure", "token"}
         /\ results[g].kind = "token" => results[g].token \in 1..issued
         /\ results[g].kind = "missing" <=> results[g] = NoResult
BY DEF TypeOK, NoResult, Failure, Tokens

LEMMA OwedType ==
  ASSUME TypeOK, NEW t \in Callers
  PROVE  Owed(t) \in 0..2 /\ SpentBy(t) \in Int /\ 2 * calls[t] \in 0..(2 * MaxCalls)
<1>1. calls[t] \in 0..MaxCalls /\ MaxCalls \in Nat
  BY TimesAssumption DEF TypeOK
<1>2. Owed(t) \in 0..2
  BY DEF Owed
<1> QED
  BY <1>1, <1>2 DEF SpentBy

\* Nobody begins or ends a wait.
LEMMA SameWaiters ==
  ASSUME IInv, waiters' = waiters,
         \A t \in Callers : (pc'[t] = "wait" <=> pc[t] = "wait")
                            /\ (pc[t] = "wait" => waitsFor'[t] = waitsFor[t])
  PROVE  Counted'
<1>1. ASSUME NEW g \in Generations
      PROVE  waiters'[g] = Cardinality({t \in Callers : pc'[t] = "wait" /\ waitsFor'[t] = g})
  <2>1. {t \in Callers : pc'[t] = "wait" /\ waitsFor'[t] = g} = Waiting(g)
    BY DEF Waiting
  <2> QED
    BY <2>1 DEF IInv, Counted
<1> QED
  BY <1>1 DEF Counted, Waiting

LEMMA InitInv == ASSUME Init PROVE IInv
<1>0. 0 \in 0..Cardinality(Callers) /\ 0 \in 0..MaxCalls
  BY CallersAssumption, TimesAssumption, FS_CardinalityType
<1>1. TypeOK
  <2>1. \A S : results \in [Generations -> {NoResult, Failure} \cup S]
    BY DEF Init
  <2>2. pc \in [Callers -> Locations] /\ now \in [Callers -> Nat] /\ revoked \subseteq 1..issued
    BY DEF Init, Locations
  <2>3. token \in [Callers -> Tokens] /\ rejected \in [Callers -> Tokens] /\ cached \in Tokens
    BY DEF Init, Tokens
  <2>4. waitsFor \in [Callers -> Generations] /\ generation \in Generations
    BY GenerationsType DEF Init
  <2>5. /\ waiters \in [Generations -> 0..Cardinality(Callers)] /\ calls \in [Callers -> 0..MaxCalls]
        /\ issued \in Nat /\ until \in Nat /\ refreshing \in BOOLEAN
    BY <1>0 DEF Init
  <2> QED
    BY <2>1, <2>2, <2>3, <2>4, <2>5 DEF TypeOK
<1>2. Counted
  <2>1. ASSUME NEW g \in Generations PROVE Waiting(g) = {}
    BY DEF Init, Waiting
  <2> QED
    BY <2>1, FS_EmptySet DEF Init, Counted
<1>3. Leader /\ Newer
  BY DEF Init, Leader, Newer, Leading
<1>4. Found
  BY DEF Init, Found, NothingIsKept
<1>5. Newest
  <2>1. ~Storing /\ Last = 0
    BY DEF Init, Storing, Last
  <2>2. \A g \in Generations : results[g].token = 0
    BY DEF Init, NoResult
  <2> QED
    BY <2>1, <2>2 DEF Init, Newest
<1>6. Budget
  <2>1. Cardinality(Spent) \in Nat
    BY SpentFinite
  <2> QED
    BY <2>1 DEF Init, Budget
<1> QED
  BY <1>1, <1>2, <1>3, <1>4, <1>5, <1>6 DEF IInv

-------------------------------------------------------------------------------
(* Steps                                                                   *)

LEMMA Moves ==
  ASSUME TypeOK, NEW t \in Callers, NEW from, NEW to \in Locations, Goto(t, from, to)
  PROVE  /\ pc[t] = from /\ pc' \in [Callers -> Locations]
         /\ \A s \in Callers : pc'[s] = IF s = t THEN to ELSE pc[s]
BY DEF TypeOK, Goto

LEMMA CallInv == ASSUME IInv, NEW t \in Callers, Call(t) PROVE IInv'
<1>1. /\ pc[t] = "out" /\ pc' \in [Callers -> Locations]
      /\ \A s \in Callers : pc'[s] = IF s = t THEN "ask" ELSE pc[s]
  BY Moves DEF IInv, Call, Locations
<1>2. TypeOK'
  <2>1. calls' \in [Callers -> 0..MaxCalls]
    BY TimesAssumption DEF IInv, TypeOK, Call
  <2>2. now' \in [Callers -> Nat] /\ rejected' \in [Callers -> 0..issued]
    <3>1. PICK x \in Times[t] : now' = [now EXCEPT ![t] = x]
      BY DEF Call
    <3>2. x \in Nat
      BY TimesAssumption
    <3>3. now \in [Callers -> Nat] /\ rejected \in [Callers -> 0..issued] /\ 0 \in 0..issued
      BY DEF IInv, TypeOK, Tokens
    <3> QED
      BY <3>1, <3>2, <3>3 DEF Call
  <2> QED
    BY <1>1, <2>1, <2>2 DEF IInv, TypeOK, Tokens, Call, provider, marketplace
<1>3. Leader'
  BY <1>1 DEF IInv, Leader, Leading, Call, provider
<1>4. Counted'
  BY <1>1, SameWaiters DEF Call, provider
<1>5. Found'
  BY <1>1 DEF IInv, Found, NothingIsKept, Call, provider
<1>6. Storing' = Storing /\ Last' = Last
  BY <1>1 DEF Storing, Last, Call, marketplace
<1>7. \A s \in Callers : rejected'[s] = IF s = t THEN 0 ELSE rejected[s]
  BY DEF IInv, TypeOK, Call
<1>8. \A s \in Callers \ {t} : now'[s] = now[s]
  BY DEF IInv, TypeOK, Call
<1>9. Newest'
  BY <1>1, <1>6, <1>7, <1>8 DEF IInv, Newest, Call, provider, marketplace
<1>10. Newer'
  BY <1>1, <1>7 DEF IInv, Newer, Call, provider
<1>11. Budget'
  <2>1. \A s \in Callers : calls'[s] = IF s = t THEN calls[s] + 1 ELSE calls[s]
    BY DEF IInv, TypeOK, Call
  <2>2. \A s \in Callers : calls[s] \in 0..MaxCalls /\ MaxCalls \in Nat
    BY TimesAssumption DEF IInv, TypeOK
  <2>3. \A s \in Callers : SpentBy(s) <= SpentBy(s)' /\ SpentBy(s) \in Int /\ SpentBy(s)' \in Int
    BY <1>1, <1>7, <2>1, <2>2 DEF SpentBy, Owed
  <2>4. \A s \in Callers : pc'[s] # "out" => calls'[s] > 0
    BY <1>1, <2>1, <2>2 DEF IInv, Budget
  <2> QED
    BY <2>3, <2>4, SameGeneration DEF Call, provider
<1> QED
  BY <1>2, <1>3, <1>4, <1>5, <1>9, <1>10, <1>11 DEF IInv

LEMMA ReuseInv == ASSUME IInv, NEW t \in Callers, Reuse(t) PROVE IInv'
<1>1. /\ pc[t] = "ask" /\ pc' \in [Callers -> Locations]
      /\ \A s \in Callers : pc'[s] = IF s = t THEN "use" ELSE pc[s]
  BY Moves DEF IInv, Reuse, Locations
<1>2. /\ token' \in [Callers -> Tokens]
      /\ \A s \in Callers : token'[s] = IF s = t THEN cached ELSE token[s]
  BY DEF IInv, TypeOK, Reuse, Take
<1>3. TypeOK'
  BY <1>1, <1>2 DEF IInv, TypeOK, Tokens, Reuse, provider, caller, marketplace
<1>4. Leader'
  BY <1>1 DEF IInv, Leader, Leading, Reuse, provider
<1>5. Counted'
  BY <1>1, SameWaiters DEF Reuse, provider
<1>6. Found'
  BY <1>1 DEF IInv, Found, NothingIsKept, Reuse, provider
<1>7. Storing' = Storing /\ Last' = Last
  BY <1>1 DEF Storing, Last, Reuse, marketplace
<1>8. Newest'
  <2>1. cached \in 1..Last
    BY DEF IInv, Newest, Reuse, Reusable
  <2> QED
    BY <1>1, <1>2, <1>7, <2>1 DEF IInv, Newest, Reuse, provider, caller, marketplace
<1>9. Newer'
  BY <1>1, <1>2 DEF IInv, Newer, Reuse, Reusable, provider, caller
<1>10. Budget'
  <2>1. \A s \in Callers : calls[s] \in 0..MaxCalls /\ MaxCalls \in Nat
    BY TimesAssumption DEF IInv, TypeOK
  <2>2. \A s \in Callers : SpentBy(s) <= SpentBy(s)' /\ SpentBy(s) \in Int /\ SpentBy(s)' \in Int
    BY <1>1, <2>1 DEF SpentBy, Owed, Reuse, caller
  <2>3. \A s \in Callers : pc'[s] # "out" => calls'[s] > 0
    BY <1>1 DEF IInv, Budget, Reuse, caller
  <2> QED
    BY <2>2, <2>3, SameGeneration DEF Reuse, provider
<1> QED
  BY <1>3, <1>4, <1>5, <1>6, <1>8, <1>9, <1>10 DEF IInv

LEMMA LeadInv == ASSUME IInv, NEW t \in Callers, Lead(t) PROVE IInv'
<1>1. /\ pc[t] = "ask" /\ pc' \in [Callers -> Locations]
      /\ \A s \in Callers : pc'[s] = IF s = t THEN "fetch" ELSE pc[s]
  BY Moves DEF IInv, Lead, Locations
<1>2. Budget' /\ generation' \in Generations
  <2>1. \A s \in Callers : calls[s] \in 0..MaxCalls /\ MaxCalls \in Nat
    BY TimesAssumption DEF IInv, TypeOK
  <2>2. \A s \in Callers : SpentBy(s) \in Int
                           /\ SpentBy(s)' = IF s = t THEN SpentBy(s) + 1 ELSE SpentBy(s)
    BY <1>1, <2>1 DEF SpentBy, Owed, Lead, caller
  <2>3. SpentBy(t) \in 0..(2 * MaxCalls - 1)
    BY <1>1, <2>1 DEF IInv, Budget, SpentBy, Owed
  <2>4. \A s \in Callers : pc'[s] # "out" => calls'[s] > 0
    BY <1>1 DEF IInv, Budget, Lead, caller
  <2> QED
    BY <2>2, <2>3, <2>4, NextGeneration DEF Lead
<1>3. TypeOK'
  BY <1>1, <1>2 DEF IInv, TypeOK, Tokens, Lead, caller, marketplace
<1>4. Leader'
  BY <1>1 DEF IInv, Leader, Leading, Lead
<1>5. Counted'
  BY <1>1, SameWaiters DEF Lead
<1>6. Found'
  <2>1. \A s \in Callers : pc[s] = "wait" => results[waitsFor[s]] # NoResult
    BY DEF IInv, Found, Lead
  <2>2. \A s \in Callers : waitsFor[s] \in Nat /\ generation \in Nat
    BY GenerationsType DEF IInv, TypeOK
  <2>3. results[generation'] = NoResult
    <3>1. \A s \in Callers : ~(pc[s] = "wait" /\ waitsFor[s] = generation')
      BY <2>2 DEF IInv, Found, Lead
    <3>2. Waiting(generation') = {}
      BY <3>1 DEF Waiting
    <3>3. waiters[generation'] = 0
      BY <1>2, <3>2, FS_EmptySet DEF IInv, Counted
    <3> QED
      BY <1>2, <3>3 DEF IInv, Found, NothingIsKept
  <2> QED
    BY <1>1, <2>1, <2>2, <2>3 DEF IInv, Found, NothingIsKept, Lead
<1>7. Storing' = Storing /\ Last' = Last
  BY <1>1 DEF Storing, Last, Lead, marketplace
<1>8. Newest'
  <2>1. cached = 0 \/ now[t] >= until
    BY DEF IInv, TypeOK, Lead, Reusable
  <2> QED
    BY <1>1, <1>7, <2>1 DEF IInv, Newest, Lead, caller, marketplace
<1>9. Newer'
  BY <1>1 DEF IInv, Newer, Lead, caller
<1> QED
  BY <1>2, <1>3, <1>4, <1>5, <1>6, <1>8, <1>9 DEF IInv

\* Nobody has a token that the provider was not given while another fetches.
LEMMA FetchInv == ASSUME IInv, NEW t \in Callers, Fetch(t) PROVE IInv'
<1>1. PICK to \in {"store", "abort"} :
        /\ Goto(t, "fetch", to)
        /\ \/ to = "store" /\ issued' = issued + 1 /\ Take(t, issued + 1)
           \/ to = "abort" /\ UNCHANGED <<issued, token>>
  BY DEF Fetch
<1>2. /\ pc[t] = "fetch" /\ pc' \in [Callers -> Locations]
      /\ \A s \in Callers : pc'[s] = IF s = t THEN to ELSE pc[s]
  BY <1>1, Moves DEF IInv, Locations
<1>3. /\ issued \in Nat /\ issued' \in Nat /\ issued' >= issued
      /\ token' \in [Callers -> 0..issued']
      /\ \A s \in Callers : token'[s] = IF s = t /\ to = "store" THEN issued' ELSE token[s]
  BY <1>1 DEF IInv, TypeOK, Tokens, Take
<1>4. TypeOK'
  <2>1. \A k : k \in 0..issued => k \in 0..issued'
    BY <1>3
  <2>2. \A k : k \in 1..issued => k \in 1..issued'
    BY <1>3
  <2>3. results' \in [Generations -> {NoResult, Failure}
                                     \cup [kind : {"token"}, token : 1..issued', until : Nat]]
    BY <2>2 DEF IInv, TypeOK, Fetch, provider
  <2> QED
    BY <1>2, <1>3, <2>1, <2>2, <2>3 DEF IInv, TypeOK, Tokens, Fetch, provider, caller
<1>5. Leader'
  BY <1>2 DEF IInv, Leader, Leading, Fetch, provider
<1>6. Counted'
  BY <1>2, SameWaiters DEF Fetch, provider
<1>7. Found'
  BY <1>2 DEF IInv, Found, NothingIsKept, Fetch, provider
<1>8. Last' = Last
  <2>1. ~Storing
    BY <1>2 DEF IInv, Leader, Leading, Storing
  <2>2. Storing' <=> to = "store"
    BY <1>2, <2>1 DEF Storing
  <2>3. issued' = IF to = "store" THEN issued + 1 ELSE issued
    BY <1>1
  <2>4. Last = issued /\ issued \in Nat
    BY <1>3, <2>1 DEF Last
  <2>5. Last' = IF Storing' THEN issued' - 1 ELSE issued'
    BY DEF Last
  <2> QED
    BY <2>2, <2>3, <2>4, <2>5
<1>9. Newest'
  <2>1. \A s \in Callers \ {t} : pc[s] # "store"
    BY <1>2 DEF IInv, Leader, Leading
  <2> QED
    BY <1>2, <1>3, <1>8, <2>1 DEF IInv, Newest, Fetch, provider, caller
<1>10. Newer'
  BY <1>2, <1>3 DEF IInv, Newer, Fetch, provider, caller
<1>11. Budget'
  <2>1. \A s \in Callers : calls[s] \in 0..MaxCalls /\ MaxCalls \in Nat
    BY TimesAssumption DEF IInv, TypeOK
  <2>2. \A s \in Callers : SpentBy(s) <= SpentBy(s)' /\ SpentBy(s) \in Int /\ SpentBy(s)' \in Int
    BY <1>2, <2>1 DEF SpentBy, Owed, Fetch, caller
  <2>3. \A s \in Callers : pc'[s] # "out" => calls'[s] > 0
    BY <1>2 DEF IInv, Budget, Fetch, caller
  <2> QED
    BY <2>2, <2>3, SameGeneration DEF Fetch, provider
<1> QED
  BY <1>4, <1>5, <1>6, <1>7, <1>9, <1>10, <1>11 DEF IInv

LEMMA UseInv == ASSUME IInv, NEW t \in Callers, Use(t) PROVE IInv'
<1>1. PICK to \in {"out", "drop"} :
        /\ Goto(t, "use", to)
        /\ \/ to = "out" /\ Take(t, 0)
           \/ to = "drop" /\ UNCHANGED token /\ token[t] \in revoked /\ rejected[t] = 0
  BY DEF Use
<1>2. /\ pc[t] = "use" /\ pc' \in [Callers -> Locations]
      /\ \A s \in Callers : pc'[s] = IF s = t THEN to ELSE pc[s]
  BY <1>1, Moves DEF IInv, Locations
<1>3. /\ token' \in [Callers -> Tokens]
      /\ \A s \in Callers : token'[s] = IF s = t /\ to = "out" THEN 0 ELSE token[s]
  BY <1>1 DEF IInv, TypeOK, Tokens, Take
<1>4. TypeOK'
  BY <1>2, <1>3 DEF IInv, TypeOK, Tokens, Use, provider, caller, marketplace
<1>5. Leader'
  BY <1>2 DEF IInv, Leader, Leading, Use, provider
<1>6. Counted'
  BY <1>2, SameWaiters DEF Use, provider
<1>7. Found'
  BY <1>2 DEF IInv, Found, NothingIsKept, Use, provider
<1>8. Storing' = Storing /\ Last' = Last
  BY <1>2 DEF Storing, Last, Use, marketplace
<1>9. Newest'
  BY <1>1, <1>2, <1>3, <1>8 DEF IInv, Newest, Use, provider, caller, marketplace
<1>10. Newer'
  BY <1>2, <1>3 DEF IInv, Newer, Use, provider, caller
<1>11. Budget'
  <2>1. \A s \in Callers : calls[s] \in 0..MaxCalls /\ MaxCalls \in Nat
    BY TimesAssumption DEF IInv, TypeOK
  <2>2. \A s \in Callers : SpentBy(s) <= SpentBy(s)' /\ SpentBy(s) \in Int /\ SpentBy(s)' \in Int
    BY <1>2, <2>1 DEF SpentBy, Owed, Use, caller
  <2>3. \A s \in Callers : pc'[s] # "out" => calls'[s] > 0
    BY <1>2 DEF IInv, Budget, Use, caller
  <2> QED
    BY <2>2, <2>3, SameGeneration DEF Use, provider
<1> QED
  BY <1>4, <1>5, <1>6, <1>7, <1>9, <1>10, <1>11 DEF IInv

\* invalidate leaves a token that replaced the rejected one: that one is newer.
LEMMA DropInv == ASSUME IInv, NEW t \in Callers, Drop(t) PROVE IInv'
<1>1. /\ pc[t] = "drop" /\ pc' \in [Callers -> Locations]
      /\ \A s \in Callers : pc'[s] = IF s = t THEN "ask" ELSE pc[s]
  BY Moves DEF IInv, Drop, Locations
<1>2. /\ token' \in [Callers -> Tokens] /\ rejected' \in [Callers -> Tokens]
      /\ \A s \in Callers : token'[s] = IF s = t THEN 0 ELSE token[s]
      /\ \A s \in Callers : rejected'[s] = IF s = t THEN token[t] ELSE rejected[s]
  BY DEF IInv, TypeOK, Tokens, Drop, Take
<1>3. /\ cached' = (IF cached = token[t] THEN 0 ELSE cached)
      /\ until' = (IF cached = token[t] THEN 0 ELSE until)
  BY DEF Drop, IsCached
<1>4. TypeOK'
  BY <1>1, <1>2, <1>3 DEF IInv, TypeOK, Tokens, Drop, marketplace
<1>5. Leader'
  BY <1>1 DEF IInv, Leader, Leading, Drop
<1>6. Counted'
  BY <1>1, SameWaiters DEF Drop
<1>7. Found'
  BY <1>1 DEF IInv, Found, NothingIsKept, Drop
<1>8. Storing' = Storing /\ Last' = Last
  BY <1>1 DEF Storing, Last, Drop, marketplace
<1>9. Last \in Nat /\ cached \in {0, Last} /\ token[t] \in 1..Last /\ token[t] \in revoked /\ rejected[t] = 0
  BY <1>1 DEF IInv, Newest
<1>10. Newest'
  <2>1. \A g \in Generations : results[g].token <= Last
    BY DEF IInv, Newest
  <2>2. cached' \in {0, Last} /\ (cached' = 0 => Last \in revoked \cup {0})
    BY <1>3, <1>9 DEF IInv, Newest
  <2> QED
    BY <1>1, <1>2, <1>3, <1>8, <1>9, <2>1, <2>2 DEF IInv, Newest, Drop, marketplace
<1>11. Newer'
  BY <1>1, <1>2, <1>3, <1>9 DEF IInv, Newer, Drop
<1>12. Budget'
  <2>1. \A s \in Callers : calls[s] \in 0..MaxCalls /\ MaxCalls \in Nat
    BY TimesAssumption DEF IInv, TypeOK
  <2>2. \A s \in Callers : SpentBy(s) <= SpentBy(s)' /\ SpentBy(s) \in Int /\ SpentBy(s)' \in Int
    BY <1>1, <1>2, <1>9, <2>1 DEF SpentBy, Owed, Drop
  <2>3. \A s \in Callers : pc'[s] # "out" => calls'[s] > 0
    BY <1>1 DEF IInv, Budget, Drop
  <2> QED
    BY <2>2, <2>3, SameGeneration DEF Drop
<1> QED
  BY <1>4, <1>5, <1>6, <1>7, <1>10, <1>11, <1>12 DEF IInv

LEMMA RevokeInv == ASSUME IInv, Revoke PROVE IInv'
<1>1. revoked' \subseteq 1..issued /\ revoked \subseteq revoked'
  BY DEF IInv, TypeOK, Revoke
<1>2. TypeOK'
  BY <1>1 DEF IInv, TypeOK, Tokens, Revoke, provider, caller
<1>3. Leader'
  BY DEF IInv, Leader, Revoke, provider
<1>4. Counted'
  BY SameWaiters DEF Revoke, provider
<1>5. Found'
  BY DEF IInv, Found, NothingIsKept, Revoke, provider
<1>6. Storing' = Storing /\ Last' = Last
  BY DEF Storing, Last, Revoke
<1>7. Newest' /\ Newer'
  BY <1>1, <1>6 DEF IInv, Newest, Newer, Revoke, provider, caller
<1>8. Budget'
  <2>1. \A s \in Callers : calls[s] \in 0..MaxCalls /\ MaxCalls \in Nat
    BY TimesAssumption DEF IInv, TypeOK
  <2>2. \A s \in Callers : SpentBy(s) <= SpentBy(s)' /\ SpentBy(s) \in Int /\ SpentBy(s)' \in Int
    BY <2>1 DEF SpentBy, Owed, Revoke, caller
  <2>3. \A s \in Callers : pc'[s] # "out" => calls'[s] > 0
    BY DEF IInv, Budget, Revoke, caller
  <2> QED
    BY <2>2, <2>3, SameGeneration DEF Revoke, provider
<1> QED
  BY <1>2, <1>3, <1>4, <1>5, <1>7, <1>8 DEF IInv

\* A result is published to the callers that wait for the generation.
LEMMA PublishedResult ==
  ASSUME IInv, NEW r, results' = Published(r), r # NoResult, waiters' = waiters, generation' = generation
  PROVE  /\ \A g \in Generations : results'[g] \in {results[g], r}
         /\ NothingIsKept'
         /\ \A t \in Callers : pc[t] = "wait" => results'[waitsFor[t]] # NoResult
<1>1. generation \in Generations /\ results \in [Generations -> {results[g] : g \in Generations}]
  BY DEF IInv, TypeOK
<1>2. \A g \in Generations : results'[g] = IF waiters[generation] > 0 /\ g = generation THEN r ELSE results[g]
  BY <1>1 DEF Published
<1>3. NothingIsKept'
  BY <1>2 DEF IInv, Found, NothingIsKept
<1>4. ASSUME NEW t \in Callers, pc[t] = "wait" PROVE results'[waitsFor[t]] # NoResult
  <2>1. waitsFor[t] \in Generations
    BY DEF IInv, TypeOK
  <2>2. waiters[waitsFor[t]] > 0
    <3>1. t \in Waiting(waitsFor[t])
      BY <1>4 DEF Waiting
    <3>2. Cardinality(Waiting(waitsFor[t])) # 0 /\ Cardinality(Waiting(waitsFor[t])) \in 0..Cardinality(Callers)
      BY <3>1, WaitingFinite
    <3> QED
      BY <2>1, <3>2, CallersAssumption, FS_CardinalityType DEF IInv, Counted
  <2> QED
    BY <1>2, <1>4, <2>1, <2>2 DEF IInv, Found
<1> QED
  BY <1>2, <1>3, <1>4

LEMMA StoreInv == ASSUME IInv, NEW t \in Callers, Store(t) PROVE IInv'
<1>1. /\ pc[t] = "store" /\ pc' \in [Callers -> Locations]
      /\ \A s \in Callers : pc'[s] = IF s = t THEN "use" ELSE pc[s]
  BY Moves DEF IInv, Store, Locations
<1>2. PICK u \in Nat : cached' = token[t] /\ until' = u /\ results' = Published(Token(token[t], u))
  <2>1. PICK l \in Lifetimes : /\ cached' = token[t] /\ until' = Until(t, l)
                               /\ results' = Published(Token(token[t], Until(t, l)))
    BY DEF Store
  <2>2. l \in Nat /\ now[t] \in Nat
    BY TimesAssumption DEF IInv, TypeOK
  <2>3. Until(t, l) \in Nat
    BY <2>2 DEF Until
  <2> QED
    BY <2>1, <2>3
<1> DEFINE r == Token(token[t], u)
<1>3. r # NoResult /\ r.token = token[t] /\ r.kind = "token" /\ r.until = u
  BY DEF Token, NoResult
<1>4. /\ Storing /\ Last = issued - 1 /\ token[t] = issued /\ issued \in Nat /\ Last \in Nat
      /\ \A s \in Callers \ {t} : pc[s] \notin Leading
  BY <1>1 DEF IInv, Leader, Leading, Newest, Storing, Last, TypeOK
<1>5. ~Storing' /\ Last' = issued /\ issued \in 1..issued
  <2>1. ~Storing'
    BY <1>1, <1>4 DEF Storing, Leading
  <2> QED
    BY <1>4, <2>1 DEF Last, Store, marketplace
<1>6. /\ \A g \in Generations : results'[g] \in {results[g], r}
      /\ NothingIsKept'
      /\ \A s \in Callers : pc[s] = "wait" => results'[waitsFor[s]] # NoResult
  BY <1>2, <1>3, PublishedResult DEF Store
<1>7. TypeOK'
  <2>1. r \in [kind : {"token"}, token : 1..issued, until : Nat]
    BY <1>4, <1>5 DEF Token
  <2>2. results' \in [Generations -> {NoResult, Failure} \cup [kind : {"token"}, token : 1..issued, until : Nat]]
    BY <1>2, <2>1 DEF IInv, TypeOK, Published
  <2> QED
    BY <1>1, <1>2, <1>4, <2>2 DEF IInv, TypeOK, Tokens, Store, caller, marketplace
<1> HIDE DEF r
<1>8. Leader'
  BY <1>1, <1>4 DEF Leader, Leading
<1>9. Counted'
  BY <1>1, SameWaiters DEF Store
<1>10. Found'
  BY <1>1, <1>6 DEF IInv, Found, Store
<1>11. Newest'
  <2>1. \A g \in Generations : results'[g].token <= Last'
    <3>1. \A g \in Generations : results[g].token \in Nat /\ results[g].token <= Last
      BY ResultType DEF IInv, Newest, Tokens
    <3> QED
      BY <1>3, <1>4, <1>5, <1>6, <3>1
  <2>2. cached' = Last' /\ cached' # 0 /\ Last' \in Nat
    BY <1>2, <1>4, <1>5
  <2>3. \A s \in Callers : rejected[s] \in Nat /\ token[s] \in Nat
    BY <1>4 DEF IInv, TypeOK, Tokens
  <2>4. \A s \in Callers : pc'[s] \notin {"fetch", "store"}
    BY <1>1, <1>4 DEF Leading
  <2> QED
    BY <1>1, <1>4, <1>5, <2>1, <2>2, <2>3, <2>4 DEF IInv, Newest, Store, caller, marketplace
<1>12. Newer'
  <2>1. \A s \in Callers : rejected[s] \in Nat /\ rejected[s] <= Last
    BY <1>4 DEF IInv, TypeOK, Tokens, Newest
  <2>2. ASSUME NEW s \in Callers, rejected[s] # 0, pc[s] = "wait", results'[waitsFor[s]].kind = "token"
        PROVE  results'[waitsFor[s]].token > rejected[s]
    <3>1. waitsFor[s] \in Generations
      BY DEF IInv, TypeOK
    <3>2. CASE results'[waitsFor[s]] = r
      BY <1>3, <1>4, <2>1, <3>2
    <3>3. CASE results'[waitsFor[s]] = results[waitsFor[s]]
      BY <2>2, <3>3 DEF IInv, Newer
    <3> QED
      BY <1>6, <3>1, <3>2, <3>3
  <2> QED
    BY <1>1, <1>2, <1>4, <2>1, <2>2 DEF IInv, Newer, Store, caller
<1>13. Budget'
  <2>1. \A s \in Callers : calls[s] \in 0..MaxCalls /\ MaxCalls \in Nat
    BY TimesAssumption DEF IInv, TypeOK
  <2>2. \A s \in Callers : SpentBy(s) <= SpentBy(s)' /\ SpentBy(s) \in Int /\ SpentBy(s)' \in Int
    BY <1>1, <2>1 DEF SpentBy, Owed, Store, caller
  <2>3. \A s \in Callers : pc'[s] # "out" => calls'[s] > 0
    BY <1>1 DEF IInv, Budget, Store, caller
  <2> QED
    BY <2>2, <2>3, SameGeneration DEF Store
<1> QED
  BY <1>7, <1>8, <1>9, <1>10, <1>11, <1>12, <1>13 DEF IInv

LEMMA AbortInv == ASSUME IInv, NEW t \in Callers, Abort(t) PROVE IInv'
<1>1. /\ pc[t] = "abort" /\ pc' \in [Callers -> Locations]
      /\ \A s \in Callers : pc'[s] = IF s = t THEN "out" ELSE pc[s]
  BY Moves DEF IInv, Abort, Locations
<1>2. \A s \in Callers \ {t} : pc[s] \notin Leading
  BY <1>1 DEF IInv, Leader, Leading
<1>3. Failure # NoResult /\ Failure.kind = "failure" /\ Failure.token = 0
  BY DEF Failure, NoResult
<1>4. /\ \A g \in Generations : results'[g] \in {results[g], Failure}
      /\ NothingIsKept'
      /\ \A s \in Callers : pc[s] = "wait" => results'[waitsFor[s]] # NoResult
  BY <1>3, PublishedResult DEF Abort
<1>5. TypeOK'
  <2>1. results' \in [Generations -> {NoResult, Failure} \cup [kind : {"token"}, token : 1..issued, until : Nat]]
    BY DEF IInv, TypeOK, Published, Abort
  <2> QED
    BY <1>1, <2>1 DEF IInv, TypeOK, Tokens, Abort, caller, marketplace
<1>6. Leader'
  BY <1>1, <1>2 DEF Leader, Leading
<1>7. Counted'
  BY <1>1, SameWaiters DEF Abort
<1>8. Found'
  BY <1>1, <1>4 DEF IInv, Found, Abort
<1>9. Storing' = Storing /\ Last' = Last
  BY <1>1 DEF Storing, Last, Abort, marketplace
<1>10. Newest'
  <2>1. \A g \in Generations : results'[g].token <= Last'
    BY <1>3, <1>4, <1>9 DEF IInv, Newest
  <2> QED
    BY <1>1, <1>9, <2>1 DEF IInv, Newest, Abort, caller, marketplace
<1>11. Newer'
  <2>1. \A s \in Callers : waitsFor[s] \in Generations
    BY DEF IInv, TypeOK
  <2>2. \A s \in Callers : results'[waitsFor[s]].kind = "token" => results'[waitsFor[s]] = results[waitsFor[s]]
    BY <1>3, <1>4, <2>1
  <2> QED
    BY <1>1, <2>2 DEF IInv, Newer, Abort, caller
<1>12. Budget'
  <2>1. \A s \in Callers : calls[s] \in 0..MaxCalls /\ MaxCalls \in Nat
    BY TimesAssumption DEF IInv, TypeOK
  <2>2. \A s \in Callers : SpentBy(s) <= SpentBy(s)' /\ SpentBy(s) \in Int /\ SpentBy(s)' \in Int
    BY <1>1, <2>1 DEF SpentBy, Owed, Abort, caller
  <2>3. \A s \in Callers : pc'[s] # "out" => calls'[s] > 0
    BY <1>1 DEF IInv, Budget, Abort, caller
  <2> QED
    BY <2>2, <2>3, SameGeneration DEF Abort
<1> QED
  BY <1>5, <1>6, <1>7, <1>8, <1>10, <1>11, <1>12 DEF IInv

LEMMA WaitInv == ASSUME IInv, NEW t \in Callers, Wait(t) PROVE IInv'
<1>1. /\ pc[t] = "ask" /\ pc' \in [Callers -> Locations]
      /\ \A s \in Callers : pc'[s] = IF s = t THEN "wait" ELSE pc[s]
  BY Moves DEF IInv, Wait, Locations
<1>2. /\ generation \in Generations /\ waitsFor' \in [Callers -> Generations]
      /\ \A s \in Callers : waitsFor'[s] = IF s = t THEN generation ELSE waitsFor[s]
  BY DEF IInv, TypeOK, Wait
<1>3. \A g \in Generations : waiters'[g] = IF g = generation THEN waiters[g] + 1 ELSE waiters[g]
  BY DEF IInv, TypeOK, Wait
<1>4. ASSUME NEW g \in Generations
      PROVE  LET W == {s \in Callers : pc'[s] = "wait" /\ waitsFor'[s] = g}
             IN  waiters'[g] = Cardinality(W) /\ waiters'[g] \in 0..Cardinality(Callers)
  <2> DEFINE W == {s \in Callers : pc'[s] = "wait" /\ waitsFor'[s] = g}
  <2>1. IsFiniteSet(Waiting(g)) /\ Cardinality(Waiting(g)) \in Nat
    BY WaitingFinite, CallersAssumption, FS_CardinalityType
  <2>2. waiters[g] = Cardinality(Waiting(g))
    BY DEF IInv, Counted
  <2>3. CASE g = generation
    <3>1. t \notin Waiting(g) /\ W = Waiting(g) \cup {t}
      BY <1>1, <1>2, <2>3 DEF Waiting
    <3>2. Cardinality(W) = Cardinality(Waiting(g)) + 1
      BY <2>1, <3>1, FS_AddElement
    <3> QED
      BY <1>3, <2>2, <2>3, <3>2, SomeCallers
  <2>4. CASE g # generation
    <3>1. W = Waiting(g)
      BY <1>1, <1>2, <2>4 DEF Waiting
    <3> QED
      BY <1>3, <2>2, <2>4, <3>1, SomeCallers
  <2> QED
    BY <2>3, <2>4
<1>5. Counted'
  BY <1>4 DEF Counted, Waiting
<1>6. TypeOK'
  <2>1. waiters' \in [Generations -> 0..Cardinality(Callers)]
    BY <1>4 DEF IInv, TypeOK, Wait
  <2> QED
    BY <1>1, <1>2, <2>1 DEF IInv, TypeOK, Tokens, Wait, caller, marketplace
<1>7. Leader'
  BY <1>1 DEF IInv, Leader, Leading, Wait
<1>8. Found'
  <2>1. \A g \in Generations : waiters[g] \in Nat /\ generation \in Nat
    BY GenerationsType, CallersAssumption, FS_CardinalityType DEF IInv, TypeOK
  <2> QED
    BY <1>1, <1>2, <1>3, <2>1 DEF IInv, Found, NothingIsKept, Wait
<1>9. Storing' = Storing /\ Last' = Last
  BY <1>1 DEF Storing, Last, Wait, marketplace
<1>10. Newest'
  BY <1>1, <1>9 DEF IInv, Newest, Wait, caller, marketplace
<1>11. Newer'
  <2>1. results[generation].kind # "token"
    BY DEF IInv, Found, Wait, NoResult
  <2> QED
    BY <1>1, <1>2, <2>1 DEF IInv, Newer, Wait, caller
<1>12. Budget'
  <2>1. \A s \in Callers : calls[s] \in 0..MaxCalls /\ MaxCalls \in Nat
    BY TimesAssumption DEF IInv, TypeOK
  <2>2. \A s \in Callers : SpentBy(s) <= SpentBy(s)' /\ SpentBy(s) \in Int /\ SpentBy(s)' \in Int
    BY <1>1, <2>1 DEF SpentBy, Owed, Wait, caller
  <2>3. \A s \in Callers : pc'[s] # "out" => calls'[s] > 0
    BY <1>1 DEF IInv, Budget, Wait, caller
  <2> QED
    BY <2>2, <2>3, SameGeneration DEF Wait
<1> QED
  BY <1>5, <1>6, <1>7, <1>8, <1>10, <1>11, <1>12 DEF IInv

\* The last waiter of a generation clears its result, and no other waiter of
\* that generation is left.
LEMMA WakeInv == ASSUME IInv, NEW t \in Callers, Wake(t) PROVE IInv'
<1> DEFINE w == waitsFor[t]
<1>1. PICK to \in {"out", "use", "ask"} :
        /\ Goto(t, "wait", to)
        /\ \/ to = "use" /\ Given(t).kind = "token" /\ Take(t, Given(t).token)
           \/ to # "use" /\ UNCHANGED token
  BY DEF Wake, GoodFor
<1>2. /\ pc[t] = "wait" /\ pc' \in [Callers -> Locations]
      /\ \A s \in Callers : pc'[s] = IF s = t THEN to ELSE pc[s]
  BY <1>1, Moves DEF IInv, Locations
<1>3. /\ w \in Generations /\ waitsFor' \in [Callers -> Generations]
      /\ \A s \in Callers : waitsFor'[s] = IF s = t THEN 0 ELSE waitsFor[s]
  BY GenerationsType DEF IInv, TypeOK, Wake
<1>4. \A g \in Generations : waiters'[g] = IF g = w THEN waiters[g] - 1 ELSE waiters[g]
  BY <1>3 DEF IInv, TypeOK, Wake
<1>5. \A g \in Generations : results'[g] = IF g = w /\ waiters[w] = 1 THEN NoResult ELSE results[g]
  BY <1>3 DEF IInv, TypeOK, Wake, Cleared
<1>6. /\ token' \in [Callers -> Tokens]
      /\ \A s \in Callers : token'[s] = IF s = t /\ to = "use" THEN results[w].token ELSE token[s]
      /\ to = "use" => results[w].kind = "token"
  <2>1. results[w].token \in Tokens
    BY <1>3, ResultType DEF IInv
  <2> QED
    BY <1>1, <2>1 DEF IInv, TypeOK, Take, Given
<1>7. ASSUME NEW g \in Generations
      PROVE  LET W == {s \in Callers : pc'[s] = "wait" /\ waitsFor'[s] = g}
             IN  waiters'[g] = Cardinality(W) /\ waiters'[g] \in 0..Cardinality(Callers)
  <2> DEFINE W == {s \in Callers : pc'[s] = "wait" /\ waitsFor'[s] = g}
  <2>1. IsFiniteSet(Waiting(g)) /\ Cardinality(Waiting(g)) \in Nat
    BY WaitingFinite, CallersAssumption, FS_CardinalityType
  <2>2. waiters[g] = Cardinality(Waiting(g))
    BY DEF IInv, Counted
  <2>3. CASE g = w
    <3>1. t \in Waiting(g) /\ W = Waiting(g) \ {t}
      BY <1>2, <1>3, <2>3 DEF Waiting
    <3>2. Cardinality(W) = Cardinality(Waiting(g)) - 1
      BY <2>1, <3>1, FS_RemoveElement
    <3> QED
      BY <1>4, <2>2, <2>3, <3>2, SomeCallers
  <2>4. CASE g # w
    <3>1. W = Waiting(g)
      BY <1>2, <1>3, <2>4 DEF Waiting
    <3> QED
      BY <1>4, <2>2, <2>4, <3>1, SomeCallers
  <2> QED
    BY <2>3, <2>4
<1>8. Counted'
  BY <1>7 DEF Counted, Waiting
<1>9. ASSUME NEW s \in Callers, pc'[s] = "wait" PROVE results'[waitsFor[s]] = results[waitsFor[s]]
  <2>1. waitsFor[s] \in Generations
    BY DEF IInv, TypeOK
  <2>2. CASE waitsFor[s] = w
    <3> DEFINE W == {x \in Callers : pc'[x] = "wait" /\ waitsFor'[x] = w}
    <3>1. s \in W
      BY <1>2, <1>3, <1>9, <2>2
    <3>2. Cardinality(W) # 0
      BY <3>1, SomeCallers
    <3>3. waiters[w] # 1
      BY <1>3, <1>4, <1>7, <3>2
    <3> QED
      BY <1>5, <2>1, <3>3
  <2>3. CASE waitsFor[s] # w
    BY <1>5, <2>1, <2>3
  <2> QED
    BY <2>2, <2>3
<1>10. TypeOK'
  <2>1. waiters' \in [Generations -> 0..Cardinality(Callers)]
    BY <1>7 DEF IInv, TypeOK, Wake
  <2>2. results' \in [Generations -> {NoResult, Failure} \cup [kind : {"token"}, token : 1..issued, until : Nat]]
    BY <1>3 DEF IInv, TypeOK, Wake, Cleared
  <2> QED
    BY <1>2, <1>3, <1>6, <2>1, <2>2 DEF IInv, TypeOK, Tokens, Wake, caller, marketplace
<1>11. Leader'
  BY <1>2 DEF IInv, Leader, Leading, Wake
<1>12. Found'
  <2>1. \A g \in Generations : waiters[g] \in Nat
    BY CallersAssumption, FS_CardinalityType DEF IInv, TypeOK
  <2>2. NothingIsKept'
    BY <1>4, <1>5, <2>1 DEF IInv, Found, NothingIsKept
  <2>3. refreshing' => results'[generation'] = NoResult
    BY <1>5 DEF IInv, TypeOK, Found, Wake
  <2> QED
    BY <1>2, <1>3, <1>9, <2>2, <2>3 DEF IInv, Found, Wake
<1>13. Storing' = Storing /\ Last' = Last
  BY <1>2 DEF Storing, Last, Wake, marketplace
<1>14. to = "use" => results[w].token \in 1..Last
  <2>1. to = "use" => results[w].token \in 1..issued
    BY <1>3, <1>6, ResultType DEF IInv
  <2> QED
    BY <1>3, <2>1 DEF IInv, Newest, TypeOK
<1>15. Newest'
  <2>1. \A g \in Generations : results'[g].token <= Last'
    <3>1. NoResult.token = 0 /\ 0 <= Last
      BY DEF NoResult, IInv, Newest
    <3> QED
      BY <1>5, <1>13, <3>1 DEF IInv, Newest
  <2> QED
    BY <1>2, <1>6, <1>13, <1>14, <2>1 DEF IInv, Newest, Wake, caller, marketplace
<1>16. Newer'
  BY <1>2, <1>3, <1>6, <1>9 DEF IInv, Newer, Wake, caller
<1>17. Budget'
  <2>1. \A s \in Callers : calls[s] \in 0..MaxCalls /\ MaxCalls \in Nat
    BY TimesAssumption DEF IInv, TypeOK
  <2>2. \A s \in Callers : SpentBy(s) <= SpentBy(s)' /\ SpentBy(s) \in Int /\ SpentBy(s)' \in Int
    BY <1>2, <2>1 DEF SpentBy, Owed, Wake, caller
  <2>3. \A s \in Callers : pc'[s] # "out" => calls'[s] > 0
    BY <1>2 DEF IInv, Budget, Wake, caller
  <2> QED
    BY <2>2, <2>3, SameGeneration DEF Wake
<1> QED
  BY <1>8, <1>10, <1>11, <1>12, <1>15, <1>16, <1>17 DEF IInv

LEMMA NextInv == ASSUME IInv, [Next]_vars PROVE IInv'
<1>1. CASE Revoke
  BY <1>1, RevokeInv
<1>2. ASSUME NEW t \in Callers, Call(t) \/ Work(t) PROVE IInv'
  BY <1>2, CallInv, ReuseInv, WaitInv, LeadInv, WakeInv, FetchInv, StoreInv, AbortInv, UseInv,
     DropInv DEF Work
<1>3. CASE UNCHANGED vars
  <2> USE <1>3 DEF vars, provider, caller, marketplace
  <2>1. TypeOK' /\ Leader' /\ Found' /\ Newer'
    BY DEF IInv, TypeOK, Tokens, Leader, Found, NothingIsKept, Newer
  <2>2. Counted'
    BY SameWaiters
  <2>3. Storing' = Storing /\ Last' = Last
    BY DEF Storing, Last
  <2>4. Newest'
    BY <2>3 DEF IInv, Newest
  <2>5. Spent' = Spent
    BY DEF Spent, SpentBy, Owed
  <2>6. Budget'
    BY <2>5 DEF IInv, Budget
  <2> QED
    BY <2>1, <2>2, <2>4, <2>6 DEF IInv
<1> QED
  BY <1>1, <1>2, <1>3 DEF Next

LEMMA Invariant == Spec => []IInv
<1>1. IInv /\ [Next]_vars => IInv'
  BY NextInv
<1> QED
  BY InitInv, <1>1, PTL DEF Spec

-------------------------------------------------------------------------------
\* The generations stay within two for each request of a caller, whatever the
\* threads and whenever they ask; the rest is the type of the state.
THEOREM TypeCorrect == Spec => []TypeOK
<1>1. IInv => TypeOK
  BY DEF IInv
<1> QED
  BY <1>1, Invariant, PTL

\* get_token: a waiter whose generation is over finds a result, although a
\* result is published only when somebody waits and cleared by the last one.
THEOREM WaitersAreServed == Spec => []WaiterFindsItsResult
<1>1. ASSUME IInv PROVE WaiterFindsItsResult
  <2>1. \A t \in Callers : waitsFor[t] \in Generations
    BY <1>1 DEF IInv, TypeOK
  <2> QED
    BY <1>1, <2>1, ResultType DEF IInv, Found, WaiterFindsItsResult, Woken, Given
<1> QED
  BY <1>1, Invariant, PTL

\* get_token: no result outlives its waiters.
THEOREM TablesStaySmall == Spec => []NothingIsKept
<1>1. IInv => NothingIsKept
  BY DEF IInv, Found
<1> QED
  BY <1>1, Invariant, PTL

\* _catalog_json and invalidate: a request that was refused comes back with a
\* newer token, whoever fetched it.
THEOREM RetryIsNewer == Spec => []RetryHasANewerToken
<1>1. IInv => RetryHasANewerToken
  BY DEF IInv, Newer, RetryHasANewerToken
<1> QED
  BY <1>1, Invariant, PTL

\* get_token: only the leader of a refresh is issued a token, and only when the
\* last one was refused or is past the leader's time.
THEOREM TokensAreNeeded == Spec => NewTokenIsNeeded
<1> DEFINE Needed == issued' # issued =>
                       \E t \in Callers : /\ pc[t] = "fetch" /\ pc'[t] = "store"
                                          /\ \/ issued \in revoked \cup {0}
                                             \/ cached # 0 /\ now[t] >= until
<1>1. ASSUME IInv, NEW t \in Callers, Fetch(t) PROVE Needed
  <2>1. SUFFICES ASSUME issued' # issued PROVE Needed
    OBVIOUS
  <2>2. Goto(t, "fetch", "store")
    BY <1>1, <2>1 DEF Fetch
  <2>3. pc[t] = "fetch" /\ pc'[t] = "store"
    BY <1>1, <2>2 DEF IInv, TypeOK, Goto
  <2>4. Last = issued
    BY <1>1, <2>3 DEF IInv, Leader, Leading, Storing, Last
  <2>5. cached = 0 \/ now[t] >= until
    BY <1>1, <2>3 DEF IInv, Newest
  <2>6. cached = 0 => issued \in revoked \cup {0}
    BY <1>1, <2>4 DEF IInv, Newest
  <2> QED
    BY <2>3, <2>5, <2>6
<1>2. ASSUME [Next]_vars, \A t \in Callers : ~Fetch(t) PROVE issued' = issued
  BY <1>2 DEF Next, Work, vars, marketplace, Revoke, Call, Reuse, Wait, Lead, Wake, Store, Abort,
     Use, Drop
<1>3. IInv /\ [Next]_vars => [Needed]_vars
  BY <1>1, <1>2
<1> HIDE DEF Needed
<1>4. Spec => [][Needed]_vars
  BY <1>3, Invariant, PTL DEF Spec
<1> QED
  BY <1>4 DEF Needed, NewTokenIsNeeded
===============================================================================
