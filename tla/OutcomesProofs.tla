---------------------------- MODULE OutcomesProofs ----------------------------
(***************************************************************************)
(* Proofs about Outcomes, for any opportunities, any listings, any amounts *)
(* and any notes.                                                          *)
(*                                                                         *)
(* TablesAgree is inductive with the types: a row has its place in the     *)
(* order, so a look into the order for the latest row of a listing finds   *)
(* one whenever there is one (LatestExists).  The order is kept by the     *)
(* lemmas about RemoveFirst and Append: a row stamped again is listed once,*)
(* at the end.  ChoiceRulesTheListing needs Untouched in addition: before  *)
(* there is a row, the gate goes by what each snapshot was saved with.     *)
(***************************************************************************)
EXTENDS Outcomes, FiniteSetTheorems, SequenceTheorems, TLAPS

Listed(q, x) == \E i \in DOMAIN q : q[i] = x
Once(q) == \A i, j \in DOMAIN q : q[i] = q[j] => i = j
Precedes(q, x, y) == \E i, j \in DOMAIN q : i < j /\ q[i] = x /\ q[j] = y

\* A listing the user has said nothing of is new on every snapshot.
Untouched == \A o \in known : (\A p \in Siblings(o) : ~HasRow(p)) => status[o] = "new"

IInv == TypeOK /\ TablesAgree /\ Untouched

-------------------------------------------------------------------------------
(* The order                                                               *)

LEMMA Least ==
  ASSUME NEW S, S \subseteq Nat, S # {}
  PROVE  \E i \in S : \A j \in S : i <= j
<1>1. IsWellFoundedOn(OpToRel(<, Nat), Nat)
  BY NatLessThanWellFounded
<1>2. PICK i \in S : \A j \in S : <<j, i>> \notin OpToRel(<, Nat)
  BY <1>1, WFMin
<1>3. \A j \in S : ~(j < i)
  BY <1>2 DEF OpToRel
<1> QED
  BY <1>3

\* The latest of some places in a sequence.
LEMMA LatestExists ==
  ASSUME NEW n \in Nat, NEW S \in SUBSET (1..n), S # {}
  PROVE  Latest(S) # {} /\ Latest(S) \subseteq S
<1> DEFINE D == {d \in Nat : n - d \in S}
<1>1. D # {}
  <2>1. PICK i \in S : TRUE
    OBVIOUS
  <2>2. n - i \in Nat /\ n - (n - i) = i
    BY <2>1
  <2> QED
    BY <2>1, <2>2
<1>2. PICK d \in D : \A e \in D : d <= e
  BY <1>1, Least
<1>3. ASSUME NEW j \in S PROVE j <= n - d
  <2>1. n - j \in Nat /\ n - (n - j) = j
    OBVIOUS
  <2>2. d <= n - j
    BY <1>2, <2>1
  <2> QED
    BY <1>2, <2>1, <2>2
<1> QED
  BY <1>2, <1>3 DEF Latest

\* Without its first occurrence, an element of a sequence that lists it once is
\* not listed; the others are, once each and in the same order.
LEMMA Removed ==
  ASSUME NEW T, NEW q \in Seq(T), NEW x, Once(q)
  PROVE  LET r == RemoveFirst(q, x)
         IN  /\ r \in Seq(T) /\ Once(r) /\ \A y : Listed(r, y) <=> Listed(q, y) /\ y # x
             /\ \A y, z : y # x /\ z # x /\ Precedes(q, y, z) => Precedes(r, y, z)
<1> DEFINE r == RemoveFirst(q, x)
<1>0. Len(q) \in Nat /\ DOMAIN q = 1..Len(q) /\ \A i \in 1..Len(q) : q[i] \in T
  BY LenProperties, ElementOfSeq
<1>1. CASE ~Listed(q, x)
  <2>1. r = q
    BY <1>0, <1>1 DEF RemoveFirst, Listed
  <2> HIDE DEF r
  <2> QED
    BY <1>1, <2>1 DEF r
<1>2. CASE Listed(q, x)
  <2>1. PICK k \in 1..Len(q) : r = RemoveAt(q, k) /\ q[k] = x
    <3> DEFINE I == {i \in 1..Len(q) : q[i] = x}
    <3>1. I # {} /\ I \subseteq Nat
      BY <1>0, <1>2 DEF Listed
    <3>2. Min(I) \in I
      BY <3>1, Least DEF Min
    <3>3. SelectInSeq(q, LAMBDA v : v = x) = Min(I)
      BY <3>1 DEF SelectInSeq
    <3>4. r = RemoveAt(q, Min(I))
      BY <1>0, <3>1, <3>3 DEF RemoveFirst
    <3> QED
      BY <3>2, <3>4
  <2> DEFINE a == SubSeq(q, 1, k - 1)
             b == SubSeq(q, k + 1, Len(q))
  <2>2. /\ a \in Seq(T) /\ Len(a) = k - 1
        /\ \A i \in 1..(k - 1) : a[i] = q[i]
    BY <1>0, SubSeqProperties
  <2> HIDE DEF a
  <2>3. /\ b \in Seq(T) /\ Len(b) = Len(q) - k
        /\ \A i \in 1..(Len(q) - k) : b[i] = q[k + i]
    <3>1. k + 1 \in Int /\ Len(q) \in Int /\ \A i \in (k + 1)..Len(q) : q[i] \in T
      BY <1>0
    <3>2. /\ b \in Seq(T) /\ Len(b) = IF k + 1 <= Len(q) THEN Len(q) - (k + 1) + 1 ELSE 0
          /\ \A i \in 1..(Len(q) - (k + 1) + 1) : b[i] = q[k + 1 + i - 1]
      BY <3>1, SubSeqProperties
    <3> HIDE DEF b
    <3>3. \A i \in 1..(Len(q) - k) : b[i] = q[k + i]
      <4>1. ASSUME NEW i \in 1..(Len(q) - k) PROVE k + 1 + i - 1 = k + i /\ i \in 1..(Len(q) - (k + 1) + 1)
        BY <1>0
      <4> QED
        BY <3>2, <4>1
    <3>4. Len(b) = Len(q) - k
      <4>1. Len(q) \in Nat /\ k \in 1..Len(q)
        BY <1>0
      <4> QED
        BY <3>2, <4>1
    <3> QED
      BY <3>2, <3>3, <3>4
  <2>4. /\ r \in Seq(T) /\ Len(r) = Len(q) - 1
        /\ \A i \in 1..(Len(q) - 1) : r[i] = IF i < k THEN q[i] ELSE q[i + 1]
    <3>0. Len(q) \in Nat /\ k \in 1..Len(q)
      BY <1>0
    <3>1. r = a \o b
      BY <2>1 DEF RemoveAt, a
    <3> HIDE DEF b, r
    <3>2. /\ r \in Seq(T) /\ Len(r) = (k - 1) + (Len(q) - k)
          /\ \A i \in 1..((k - 1) + (Len(q) - k)) : r[i] = IF i <= k - 1 THEN a[i] ELSE b[i - (k - 1)]
      <4>1. /\ r \in Seq(T) /\ Len(r) = Len(a) + Len(b)
            /\ \A i \in 1..(Len(a) + Len(b)) : r[i] = IF i <= Len(a) THEN a[i] ELSE b[i - Len(a)]
        BY <2>2, <2>3, <3>1, ConcatProperties
      <4> QED
        BY <2>2, <2>3, <4>1
    <3>3. ASSUME NEW i \in 1..(Len(q) - 1) PROVE r[i] = IF i < k THEN q[i] ELSE q[i + 1]
      <4>1. CASE i < k
        <5>1. i \in 1..(k - 1) /\ i <= k - 1 /\ i \in 1..((k - 1) + (Len(q) - k))
          BY <3>0, <4>1
        <5> QED
          BY <2>2, <3>2, <4>1, <5>1
      <4>2. CASE ~(i < k)
        <5>1. /\ i - (k - 1) \in 1..(Len(q) - k) /\ k + (i - (k - 1)) = i + 1
              /\ ~(i <= k - 1) /\ i \in 1..((k - 1) + (Len(q) - k))
          BY <3>0, <4>2
        <5>2. r[i] = b[i - (k - 1)]
          BY <3>2, <5>1
        <5> QED
          BY <2>3, <4>2, <5>1, <5>2
      <4> QED
        BY <4>1, <4>2
    <3> QED
      BY <3>0, <3>2, <3>3
  <2> HIDE DEF r
  <2>5. DOMAIN r = 1..(Len(q) - 1)
    BY <2>4, LenProperties
  <2>6. Once(r)
    BY <1>0, <2>4, <2>5 DEF Once
  <2>7. ASSUME NEW y PROVE Listed(r, y) <=> Listed(q, y) /\ y # x
    <3>1. ASSUME NEW i \in 1..(Len(q) - 1), r[i] = y PROVE Listed(q, y) /\ y # x
      BY <1>0, <2>1, <2>4, <3>1 DEF Listed, Once
    <3>2. ASSUME NEW i \in 1..Len(q), q[i] = y, y # x PROVE Listed(r, y)
      <4>1. i # k
        BY <2>1, <3>2
      <4>2. CASE i < k
        BY <1>0, <2>4, <2>5, <3>2, <4>2 DEF Listed
      <4>3. CASE i > k
        <5>1. i - 1 \in 1..(Len(q) - 1) /\ ~(i - 1 < k) /\ (i - 1) + 1 = i
          BY <1>0, <4>3
        <5> QED
          BY <2>4, <2>5, <3>2, <5>1 DEF Listed
      <4> QED
        BY <4>1, <4>2, <4>3
    <3> QED
      BY <1>0, <2>5, <3>1, <3>2 DEF Listed
  <2>8. ASSUME NEW y, NEW z, y # x, z # x, Precedes(q, y, z) PROVE Precedes(r, y, z)
    <3> DEFINE place(i) == IF i < k THEN i ELSE i - 1
    <3>1. ASSUME NEW i \in 1..Len(q), q[i] # x
          PROVE  place(i) \in 1..(Len(q) - 1) /\ r[place(i)] = q[i]
      <4>1. i # k
        BY <2>1, <3>1
      <4>2. CASE i < k
        BY <1>0, <2>4, <4>2
      <4>3. CASE i > k
        <5>1. i - 1 \in 1..(Len(q) - 1) /\ ~(i - 1 < k) /\ (i - 1) + 1 = i /\ ~(i < k)
          BY <1>0, <4>3
        <5> QED
          BY <2>4, <5>1
      <4> QED
        BY <4>1, <4>2, <4>3
    <3>2. PICK i \in 1..Len(q), j \in 1..Len(q) : i < j /\ q[i] = y /\ q[j] = z
      BY <1>0, <2>8 DEF Precedes
    <3>3. i # k /\ j # k
      BY <2>1, <2>8, <3>2
    <3>4. place(i) < place(j)
      BY <1>0, <3>2, <3>3
    <3>5. /\ place(i) \in 1..(Len(q) - 1) /\ r[place(i)] = y
          /\ place(j) \in 1..(Len(q) - 1) /\ r[place(j)] = z
      BY <2>8, <3>1, <3>2
    <3> HIDE DEF place
    <3> QED
      BY <2>5, <3>4, <3>5 DEF Precedes
  <2> QED
    BY <2>4, <2>6, <2>7, <2>8 DEF r
<1> QED
  BY <1>1, <1>2

\* A row that is stamped again is listed once, at the end; the others keep their
\* order.
LEMMA Stamped ==
  ASSUME NEW T, order \in Seq(T), Once(order), NEW o \in T
  PROVE  /\ Restamped(o) \in Seq(T) /\ Once(Restamped(o))
         /\ \A p : Listed(Restamped(o), p) <=> Listed(order, p) \/ p = o
         /\ LET n == Len(Restamped(o)) IN n \in DOMAIN Restamped(o) /\ Restamped(o)[n] = o
         /\ \A x, y : x # o /\ y # o /\ Precedes(order, x, y) => Precedes(Restamped(o), x, y)
         /\ \A x : x # o /\ Listed(order, x) => Precedes(Restamped(o), x, o)
<1> DEFINE r == RemoveFirst(order, o)
           s == Append(r, o)
<1>1. /\ r \in Seq(T) /\ Once(r) /\ \A y : Listed(r, y) <=> Listed(order, y) /\ y # o
      /\ \A x, y : x # o /\ y # o /\ Precedes(order, x, y) => Precedes(r, x, y)
  BY Removed
<1> HIDE DEF r
<1>2. /\ s \in Seq(T) /\ Len(s) = Len(r) + 1 /\ s[Len(r) + 1] = o
      /\ \A i \in 1..Len(r) : s[i] = r[i]
  BY <1>1, AppendProperties
<1>3. Len(r) \in Nat /\ DOMAIN r = 1..Len(r) /\ DOMAIN s = 1..(Len(r) + 1)
  BY <1>1, <1>2, LenProperties
<1> HIDE DEF s
<1>4. \A i \in DOMAIN s : i \in DOMAIN r \/ i = Len(r) + 1
  BY <1>3
<1>5. \A i \in DOMAIN r : i \in DOMAIN s /\ r[i] # o /\ s[i] = r[i]
  <2>1. ASSUME NEW i \in DOMAIN r PROVE r[i] # o
    <3>1. Listed(r, r[i])
      BY DEF Listed
    <3> QED
      BY <1>1, <3>1
  <2> QED
    BY <1>2, <1>3, <2>1
<1>6. Once(s)
  BY <1>1, <1>2, <1>4, <1>5 DEF Once
<1>7. \A p : Listed(s, p) <=> Listed(order, p) \/ p = o
  <2>1. Len(r) + 1 \in DOMAIN s
    BY <1>3
  <2>2. ASSUME NEW p PROVE Listed(s, p) <=> Listed(r, p) \/ p = o
    BY <1>2, <1>4, <1>5, <2>1 DEF Listed
  <2> QED
    BY <1>1, <2>2
<1>8. Restamped(o) = s
  BY DEF Restamped, s, r
<1>9. \A x, y : Precedes(r, x, y) => Precedes(s, x, y)
  BY <1>5 DEF Precedes
<1>10. ASSUME NEW x, Listed(r, x) PROVE Precedes(s, x, o)
  <2>1. PICK i \in DOMAIN r : r[i] = x
    BY <1>10 DEF Listed
  <2>2. i < Len(r) + 1 /\ Len(r) + 1 \in DOMAIN s
    BY <1>3
  <2> QED
    BY <1>2, <1>5, <2>1, <2>2 DEF Precedes
<1> QED
  BY <1>1, <1>2, <1>3, <1>6, <1>7, <1>8, <1>9, <1>10

-------------------------------------------------------------------------------
(* The invariant                                                           *)

LEMMA OrderType ==
  ASSUME TypeOK
  PROVE  /\ order \in Seq(known) /\ Once(order) /\ Len(order) \in Nat
         /\ DOMAIN order = 1..Len(order)
         /\ \A i \in DOMAIN order : order[i] \in known /\ order[i] \in Opps
<1>1. order \in Seq(known) /\ Once(order) /\ known \subseteq Opps
  BY DEF TypeOK, Once
<1> QED
  BY <1>1, LenProperties, ElementOfSeq

\* The latest place of the rows of a listing that belong to S, if there is one.
LEMMA LatestPlace ==
  ASSUME TypeOK, NEW o, NEW S, Places(o, S) # {}
  PROVE  LET i == CHOOSE i \in Latest(Places(o, S)) : TRUE
         IN  i \in DOMAIN order /\ order[i] \in Siblings(o) \cap S
<1>1. Places(o, S) \in SUBSET (1..Len(order)) /\ Len(order) \in Nat
  BY OrderType DEF Places
<1>2. Latest(Places(o, S)) # {} /\ Latest(Places(o, S)) \subseteq Places(o, S)
  BY <1>1, LatestExists
<1>3. (CHOOSE i \in Latest(Places(o, S)) : TRUE) \in Places(o, S)
  BY <1>2
<1> QED
  BY <1>3 DEF Places

LEMMA StandingType == ASSUME IInv, NEW o PROVE Standing(o) \in Marks \cup {"new"}
<1>1. CASE Places(o, Opps) = {}
  BY <1>1 DEF Standing
<1>2. CASE Places(o, Opps) # {}
  <2> DEFINE i == CHOOSE i \in Latest(Places(o, Opps)) : TRUE
  <2>1. i \in DOMAIN order /\ order[i] \in Opps
    BY <1>2, LatestPlace DEF IInv
  <2>2. Standing(o) = outcome[order[i]].status
    BY <1>2 DEF Standing
  <2> HIDE DEF i
  <2>3. outcome[order[i]] # NoRow
    BY <2>1 DEF IInv, TablesAgree
  <2>4. outcome[order[i]] \in Rows
    BY <2>1, <2>3 DEF IInv, TypeOK
  <2> QED
    BY <2>2, <2>4 DEF Rows
<1> QED
  BY <1>1, <1>2

LEMMA CostType == ASSUME IInv, NEW o PROVE CostOnRecord(o) \in Costs \cup {NoCost}
<1>1. CASE Places(o, WithCost) = {}
  BY <1>1 DEF CostOnRecord
<1>2. CASE Places(o, WithCost) # {}
  <2> DEFINE i == CHOOSE i \in Latest(Places(o, WithCost)) : TRUE
  <2>1. i \in DOMAIN order /\ order[i] \in WithCost
    BY <1>2, LatestPlace DEF IInv
  <2>2. CostOnRecord(o) = outcome[order[i]].cost
    BY <1>2 DEF CostOnRecord
  <2> HIDE DEF i
  <2>3. outcome[order[i]] \in Rows \cup {NoRow}
    BY <2>1 DEF IInv, TypeOK, WithCost
  <2> QED
    BY <2>2, <2>3 DEF Rows, NoRow
<1> QED
  BY <1>1, <1>2

\* A sale keeps no cost only when no sibling has one: a sibling that has one has
\* a row, and a row has a place.
LEMMA NoCostOnRecord ==
  ASSUME IInv, NEW o \in Opps, CostOnRecord(o) = NoCost, NEW p \in Siblings(o)
  PROVE  outcome[p].cost = NoCost
<1>1. CASE Places(o, WithCost) # {}
  <2> DEFINE i == CHOOSE i \in Latest(Places(o, WithCost)) : TRUE
  <2>1. i \in DOMAIN order /\ order[i] \in WithCost
    BY <1>1, LatestPlace DEF IInv
  <2>2. CostOnRecord(o) = outcome[order[i]].cost
    BY <1>1 DEF CostOnRecord
  <2> QED
    BY <2>1, <2>2 DEF WithCost
<1>2. CASE Places(o, WithCost) = {}
  <2>1. SUFFICES ASSUME outcome[p].cost # NoCost PROVE FALSE
    OBVIOUS
  <2>2. p \in WithCost /\ outcome[p] # NoRow
    BY <2>1 DEF WithCost, NoRow, Siblings
  <2>3. PICK i \in DOMAIN order : order[i] = p
    BY <2>2 DEF IInv, TablesAgree, WithCost
  <2>4. i \in Places(o, WithCost)
    BY <2>2, <2>3 DEF Places
  <2> QED
    BY <1>2, <2>4
<1> QED
  BY <1>1, <1>2

LEMMA InitInv == ASSUME Init PROVE IInv
<1>1. order \in Seq(known) /\ DOMAIN order = {}
  BY EmptySeq DEF Init
<1> QED
  BY <1>1 DEF Init, IInv, TypeOK, TablesAgree, Untouched, NoRow

LEMMA SaveInv ==
  ASSUME IInv, NEW o \in Opps, NEW s \in Marks, NEW c \in Costs \cup {NoCost}, NEW n \in Notes,
         Save(o, s, c, n)
  PROVE  IInv'
<1> DEFINE row == Written(o, s, c, n)
<1>1. /\ row \in Rows /\ row # NoRow /\ row.status = s
      /\ s = "purchased" => row.cost # NoCost
  <2>1. s # "none"
    BY OutcomeAssumption DEF Marks
  <2> QED
    BY <2>1, CostType, OutcomeAssumption DEF Save, Written, Rows, NoRow, Accepted
<1>2. /\ o \in known /\ known' = known /\ known \subseteq Opps
      /\ outcome' = [outcome EXCEPT ![o] = row] /\ status' = [status EXCEPT ![o] = s]
      /\ order' = IF row # outcome[o] THEN Restamped(o) ELSE order
  BY DEF Save, StatusAfter, IInv, TypeOK
<1> HIDE DEF row
<1>3. /\ outcome' \in [Opps -> Rows \cup {NoRow}] /\ status' \in [Opps -> Marks \cup {"new"}]
      /\ \A p \in Opps : /\ outcome'[p] = IF p = o THEN row ELSE outcome[p]
                         /\ status'[p] = IF p = o THEN s ELSE status[p]
  BY <1>1, <1>2 DEF IInv, TypeOK
<1>4. /\ order' \in Seq(known) /\ Once(order')
      /\ \A p \in Opps : Listed(order', p) <=> Listed(order, p) \/ p = o
  <2>1. CASE row # outcome[o]
    BY <1>2, <2>1, OrderType, Stamped DEF IInv
  <2>2. CASE row = outcome[o]
    <3>1. Listed(order, o)
      BY <1>1, <2>2 DEF IInv, TablesAgree, Listed
    <3> QED
      BY <1>2, <2>2, <3>1, OrderType DEF IInv
  <2> QED
    BY <2>1, <2>2
<1>5. TypeOK'
  BY <1>2, <1>3, <1>4 DEF TypeOK, Once
<1>6. TablesAgree'
  <2>1. \A p \in Opps : outcome'[p].status = "purchased" => outcome'[p].cost # NoCost
    BY <1>1, <1>3 DEF IInv, TablesAgree, WithCost
  <2>2. \A p \in Opps : outcome'[p] # NoRow => status'[p] = outcome'[p].status
    BY <1>1, <1>3 DEF IInv, TablesAgree
  <2>3. \A p \in Opps : outcome'[p] # NoRow <=> Listed(order', p)
    BY <1>1, <1>3, <1>4 DEF IInv, TablesAgree, Listed
  <2> QED
    BY <2>1, <2>2, <2>3 DEF TablesAgree, WithCost, Listed
<1>7. Untouched'
  <2> SUFFICES ASSUME NEW q \in known, \A p \in Siblings(q) : outcome'[p] = NoRow
               PROVE  status'[q] = "new"
    BY <1>2 DEF Untouched, HasRow, Siblings
  <2>1. o \notin Siblings(q) /\ q \in Opps /\ q \in Siblings(q)
    BY <1>1, <1>2, <1>3 DEF Siblings
  <2>2. \A p \in Siblings(q) : outcome[p] = NoRow
    BY <1>3, <2>1 DEF Siblings
  <2>3. status[q] = "new"
    BY <2>2 DEF IInv, Untouched, HasRow
  <2> QED
    BY <1>3, <2>1, <2>3
<1> QED
  BY <1>5, <1>6, <1>7 DEF IInv

LEMMA SnapshotInv == ASSUME IInv, NEW o \in Opps, Snapshot(o) PROVE IInv'
<1>1. /\ known' = known \cup {o} /\ status' = [status EXCEPT ![o] = Standing(o)]
      /\ outcome' = outcome /\ order' = order /\ o \notin known
  BY DEF Snapshot, Inherited
<1>2. TypeOK'
  <2>1. order' \in Seq(known')
    BY <1>1, OrderType, SeqMonotonic DEF IInv
  <2> QED
    BY <1>1, <2>1, StandingType DEF IInv, TypeOK
<1>3. outcome[o] = NoRow
  BY <1>1, OrderType DEF IInv, TablesAgree
<1>4. TablesAgree'
  BY <1>1, <1>3 DEF IInv, TypeOK, TablesAgree, WithCost
<1>5. Untouched'
  <2> SUFFICES ASSUME NEW q \in known \cup {o}, \A p \in Siblings(q) : outcome[p] = NoRow
               PROVE  status'[q] = "new"
    BY <1>1 DEF Untouched, HasRow, Siblings
  <2>1. CASE q = o
    <3>1. Places(o, Opps) = {}
      BY <2>1 DEF Places, IInv, TablesAgree
    <3> QED
      BY <1>1, <2>1, <3>1 DEF Standing, IInv, TypeOK
  <2>2. CASE q # o
    BY <1>1, <2>2 DEF IInv, TypeOK, Untouched, HasRow
  <2> QED
    BY <2>1, <2>2
<1> QED
  BY <1>2, <1>4, <1>5 DEF IInv

LEMMA NextInv == ASSUME IInv, [Next]_vars PROVE IInv'
<1>1. CASE Next
  BY <1>1, SaveInv, SnapshotInv DEF Next
<1>2. CASE UNCHANGED vars
  BY <1>2 DEF IInv, TypeOK, TablesAgree, Untouched, HasRow, Siblings, WithCost, vars
<1> QED
  BY <1>1, <1>2

LEMMA Invariant == Spec => []IInv
<1>1. IInv /\ [Next]_vars => IInv'
  BY NextInv
<1> QED
  BY InitInv, <1>1, PTL DEF Spec

-------------------------------------------------------------------------------
\* The types of the rows, and an order that lists saved opportunities once each.
THEOREM TypeCorrect == Spec => []TypeOK
<1>1. IInv => TypeOK
  BY DEF IInv
<1> QED
  BY <1>1, Invariant, PTL

\* save: the two tables say the same of an opportunity.
THEOREM RowsAndSnapshotsAgree == Spec => []TablesAgree
<1>1. IInv => TablesAgree
  BY DEF IInv
<1> QED
  BY <1>1, Invariant, PTL

\* save: a sale lacks its cost only if no snapshot of the listing had one.
THEOREM SalesFindTheirCost == Spec => SaleKnowsItsCost
<1> DEFINE A == \A o \in Opps :
                  outcome'[o] # outcome[o] /\ outcome'[o].status = "sold" /\ outcome'[o].cost = NoCost
                    => \A p \in Siblings(o) : outcome[p].cost = NoCost
<1>1. ASSUME IInv, NEW o \in Opps, NEW s \in Marks, NEW c \in Costs \cup {NoCost}, NEW n \in Notes,
             Save(o, s, c, n)
      PROVE  A
  <2>1. ASSUME NEW q \in Opps, outcome'[q] # outcome[q], outcome'[q].status = "sold",
               outcome'[q].cost = NoCost, NEW p \in Siblings(q)
        PROVE  outcome[p].cost = NoCost
    <3>1. outcome' = [outcome EXCEPT ![o] = Written(o, s, c, n)] /\ outcome \in [Opps -> Rows \cup {NoRow}]
      BY <1>1 DEF Save, IInv, TypeOK
    <3>2. q = o /\ outcome'[o] = Written(o, s, c, n)
      BY <2>1, <3>1
    <3>3. s = "sold" /\ CostOnRecord(o) = NoCost
      BY <2>1, <3>2 DEF Written
    <3> QED
      BY <1>1, <2>1, <3>2, <3>3, NoCostOnRecord
  <2> QED
    BY <2>1
<1>2. ASSUME outcome' = outcome PROVE A
  BY <1>2
<1>3. IInv /\ [Next]_vars => [A]_vars
  BY <1>1, <1>2 DEF Next, Snapshot
<1> HIDE DEF A
<1>4. Spec => [][A]_vars
  BY <1>3, Invariant, PTL DEF Spec
<1> QED
  BY <1>4 DEF A, SaleKnowsItsCost

-------------------------------------------------------------------------------
(* The gate                                                                *)

LEMMA SamePlaces == ASSUME NEW x, NEW y PROVE StampedBefore(x, y) <=> Precedes(order, x, y)
BY DEF StampedBefore, Precedes

\* The row that rules o's listing.
LastChoice(o, p) == /\ p \in Siblings(o) /\ HasRow(p)
                    /\ \A r \in Siblings(o) \ {p} : HasRow(r) => StampedBefore(r, p)

\* The gate reads it, and there is no other.
GateRule == IInv => \A o, p \in Opps : LastChoice(o, p) => Gate(o) = outcome[p].status

LEMMA GateReadsIt == GateRule
<1> SUFFICES ASSUME IInv, NEW o \in Opps, NEW p \in Opps, LastChoice(o, p)
             PROVE  Gate(o) = outcome[p].status
  BY DEF GateRule
<1> DEFINE marked == {q \in Siblings(o) : HasRow(q)}
           last(q) == \A r \in marked \ {q} : StampedBefore(r, q)
<1>1. p \in marked /\ last(p)
  BY DEF LastChoice
<1>2. ASSUME NEW q \in marked, last(q), q # p PROVE FALSE
  <2>1. StampedBefore(p, q) /\ StampedBefore(q, p)
    BY <1>1, <1>2
  <2>2. PICK i \in DOMAIN order, j \in DOMAIN order : i < j /\ order[i] = p /\ order[j] = q
    BY <2>1 DEF StampedBefore
  <2>3. PICK k \in DOMAIN order, l \in DOMAIN order : k < l /\ order[k] = q /\ order[l] = p
    BY <2>1 DEF StampedBefore
  <2>4. k = j /\ l = i
    BY <2>2, <2>3 DEF IInv, TypeOK
  <2> QED
    BY <2>2, <2>3, <2>4, OrderType DEF IInv
<1>3. Gate(o) = outcome[CHOOSE q \in marked : last(q)].status
  BY <1>1 DEF Gate
<1> HIDE DEF marked, last
<1> QED
  BY <1>1, <1>2, <1>3

\* A listing with a row has one that rules it, which save_estimate reads too.
LEMMA StandingReadsIt ==
  IInv => \A o \in Opps : (\E p \in Siblings(o) : HasRow(p)) =>
            \E p \in Opps : LastChoice(o, p) /\ Standing(o) = outcome[p].status
<1> SUFFICES ASSUME IInv, NEW o \in Opps, NEW q \in Siblings(o), HasRow(q)
             PROVE  \E p \in Opps : LastChoice(o, p) /\ Standing(o) = outcome[p].status
  OBVIOUS
<1> DEFINE places == Places(o, Opps)
           i == CHOOSE i \in Latest(places) : TRUE
<1>1. ASSUME NEW r \in Siblings(o), HasRow(r) PROVE \E j \in places : order[j] = r
  BY <1>1 DEF IInv, TablesAgree, HasRow, Siblings, Places
<1>2. places # {}
  BY <1>1
<1>3. places \in SUBSET (1..Len(order)) /\ Len(order) \in Nat
  BY OrderType DEF Places, IInv
<1>4. i \in Latest(places)
  <2> HIDE DEF places
  <2>1. Latest(places) # {}
    BY <1>2, <1>3, LatestExists
  <2> QED
    BY <2>1
<1>5. Standing(o) = outcome[order[i]].status
  BY <1>2 DEF Standing
<1> HIDE DEF i
<1>6. i \in places /\ \A j \in places : j <= i
  BY <1>4 DEF Latest
<1>7. i \in DOMAIN order /\ order[i] \in Siblings(o) /\ order[i] \in Opps
  BY <1>6 DEF Places
<1>8. HasRow(order[i])
  BY <1>7 DEF IInv, TablesAgree, HasRow
<1>9. ASSUME NEW r \in Siblings(o), r # order[i], HasRow(r) PROVE StampedBefore(r, order[i])
  <2>1. PICK j \in places : order[j] = r
    BY <1>1, <1>9
  <2>2. j < i /\ j \in DOMAIN order
    <3>1. j <= i /\ j # i /\ j \in Nat /\ i \in Nat
      BY <1>3, <1>6, <1>9, <2>1
    <3> QED
      BY <3>1, <2>1 DEF Places
  <2> QED
    BY <1>7, <2>1, <2>2 DEF StampedBefore
<1> QED
  BY <1>5, <1>7, <1>8, <1>9 DEF LastChoice

NoRowRule == IInv => \A o \in known : (\A p \in Siblings(o) : ~HasRow(p)) => Gate(o) = "new"

LEMMA GateWithoutRows == NoRowRule
BY DEF NoRowRule, Gate, IInv, Untouched

\* What leaves the rows of a listing and their order alone leaves the gate's
\* answer, and it is the same for all its snapshots.
LEMMA GateStays ==
  ASSUME IInv, IInv', NEW o \in known', NEW p \in Siblings(o) \cap known,
         \A q \in Siblings(o) : outcome'[q] = outcome[q],
         \A x, y \in Siblings(o) : StampedBefore(x, y) => StampedBefore(x, y)'
  PROVE  Gate(o)' = Gate(p)
<1>1. o \in Opps /\ p \in Opps /\ Siblings(p) = Siblings(o)
  BY DEF IInv, TypeOK, Siblings
<1>2. \A q \in Siblings(o) : HasRow(q)' <=> HasRow(q)
  BY DEF HasRow
<1>3. CASE \E q \in Siblings(o) : HasRow(q)
  <2>1. PICK q \in Opps : LastChoice(o, q)
    BY <1>1, <1>3, StandingReadsIt
  <2>2. q \in Siblings(o) /\ LastChoice(p, q)
    BY <1>1, <2>1 DEF LastChoice
  <2>3. Gate(p) = outcome[q].status
    BY <1>1, <2>2, GateReadsIt DEF GateRule
  <2>4. LastChoice(o, q)'
    <3>1. HasRow(q)'
      BY <1>2, <2>1 DEF LastChoice
    <3>2. ASSUME NEW r \in Siblings(o) \ {q}, HasRow(r)' PROVE StampedBefore(r, q)'
      BY <1>2, <2>1, <2>2, <3>2 DEF LastChoice
    <3>3. LastChoice(o, q)' <=> /\ q \in Siblings(o) /\ HasRow(q)'
                                /\ \A r \in Siblings(o) \ {q} : HasRow(r)' => StampedBefore(r, q)'
      BY DEF LastChoice, Siblings
    <3> QED
      BY <2>2, <3>1, <3>2, <3>3
  <2>5. GateRule'
    BY GateReadsIt, PTL
  <2>6. Gate(o)' = outcome'[q].status
    BY <1>1, <2>1, <2>4, <2>5 DEF GateRule
  <2> QED
    BY <2>2, <2>3, <2>6
<1>4. CASE \A q \in Siblings(o) : ~HasRow(q)
  <2>1. Gate(p) = "new"
    BY <1>1, <1>4, GateWithoutRows DEF NoRowRule
  <2>2. NoRowRule'
    BY GateWithoutRows, PTL
  <2>3. Gate(o)' = "new"
    BY <1>2, <1>4, <2>2 DEF NoRowRule, Siblings
  <2> QED
    BY <2>1, <2>3
<1> QED
  BY <1>3, <1>4

\* A choice that changes a row rules its listing, whatever was chosen before.
LEMMA GateAfterSave ==
  ASSUME IInv, IInv', NEW o \in Opps, NEW s \in Marks, NEW c \in Costs \cup {NoCost},
         NEW n \in Notes, Save(o, s, c, n)
  PROVE  /\ \A q \in known : \A p \in Siblings(q) :
              outcome'[p] # outcome[p] => Gate(q)' = outcome'[p].status
         /\ \A q \in known : (\A p \in Siblings(q) : outcome'[p] = outcome[p])
              => \A p \in Siblings(q) \cap known : Gate(q)' = Gate(p)
<1> DEFINE row == Written(o, s, c, n)
<1>1. /\ o \in known /\ known' = known /\ known \subseteq Opps
      /\ outcome' = [outcome EXCEPT ![o] = row] /\ outcome \in [Opps -> Rows \cup {NoRow}]
      /\ order' = IF row # outcome[o] THEN Restamped(o) ELSE order
  BY DEF Save, IInv, TypeOK
<1>2. row # outcome[o]
  <2>1. SUFFICES ASSUME row = outcome[o] PROVE FALSE
    OBVIOUS
  <2>2. row.status = s /\ status[o] # s
    BY <2>1 DEF Save, Written
  <2>3. s # "none"
    BY OutcomeAssumption DEF Marks
  <2> HIDE DEF row
  <2>4. outcome[o] # NoRow
    BY <2>1, <2>2, <2>3 DEF NoRow
  <2> QED
    BY <2>1, <2>2, <2>4 DEF IInv, TablesAgree
<1> HIDE DEF row
<1>3. /\ \A x, y : x # o /\ y # o /\ StampedBefore(x, y) => StampedBefore(x, y)'
      /\ \A x : x # o /\ Listed(order', x) => StampedBefore(x, o)'
  <2>1. order' = Restamped(o)
    BY <1>1, <1>2
  <2>2. /\ \A x, y : x # o /\ y # o /\ Precedes(order, x, y) => Precedes(order', x, y)
        /\ \A x : x # o /\ Listed(order, x) => Precedes(order', x, o)
        /\ \A x : Listed(order', x) <=> Listed(order, x) \/ x = o
    BY <1>1, <2>1, OrderType, Stamped DEF IInv
  <2>3. \A x, y : StampedBefore(x, y)' <=> Precedes(order', x, y)
    BY DEF StampedBefore, Precedes
  <2> QED
    BY <2>2, <2>3, SamePlaces
<1>4. \A p \in Opps : outcome'[p] # outcome[p] <=> p = o
  BY <1>1, <1>2
<1>5. ASSUME NEW q \in known, o \in Siblings(q) PROVE Gate(q)' = outcome'[o].status
  <2>1. HasRow(o)'
    <3>1. s # "none"
      BY OutcomeAssumption DEF Marks
    <3>2. row # NoRow
      BY <3>1 DEF row, Written, NoRow
    <3> QED
      BY <1>1, <3>2 DEF HasRow
  <2>2. ASSUME NEW r \in Siblings(q) \ {o}, HasRow(r)' PROVE StampedBefore(r, o)'
    <3>1. Listed(order', r)
      BY <2>2 DEF HasRow, IInv, TablesAgree, Listed, Siblings
    <3> QED
      BY <1>3, <3>1
  <2>3. LastChoice(q, o)'
    BY <1>5, <2>1, <2>2 DEF LastChoice, Siblings
  <2>4. GateRule'
    BY GateReadsIt, PTL
  <2> QED
    BY <1>1, <2>3, <2>4 DEF GateRule
<1>6. ASSUME NEW q \in known, \A p \in Siblings(q) : outcome'[p] = outcome[p],
             NEW p \in Siblings(q) \cap known
      PROVE  Gate(q)' = Gate(p)
  <2>1. o \notin Siblings(q)
    BY <1>4, <1>6
  <2>2. \A x, y \in Siblings(q) : StampedBefore(x, y) => StampedBefore(x, y)'
    BY <1>3, <2>1
  <2> QED
    BY <1>1, <1>6, <2>2, GateStays
<1> QED
  BY <1>4, <1>5, <1>6 DEF Siblings

LEMMA GateAfterSnapshot ==
  ASSUME IInv, IInv', NEW o \in Opps, Snapshot(o)
  PROVE  /\ \A q \in known' : \A p \in Siblings(q) \cap known : Gate(q)' = Gate(p)
         /\ status'[o] = Gate(o)'
<1>1. /\ known' = known \cup {o} /\ status'[o] = Standing(o)
      /\ outcome' = outcome /\ order' = order
  BY DEF Snapshot, Inherited, IInv, TypeOK
<1>2. \A x, y : StampedBefore(x, y) => StampedBefore(x, y)'
  BY <1>1 DEF StampedBefore
<1>3. \A q \in known' : \A p \in Siblings(q) \cap known : Gate(q)' = Gate(p)
  BY <1>1, <1>2, GateStays
<1>4. Gate(o)' = IF {p \in Siblings(o) : HasRow(p)} = {} THEN status'[o] ELSE Gate(o)
  BY <1>1 DEF Gate, HasRow, StampedBefore, Siblings
<1>5. CASE \E p \in Siblings(o) : HasRow(p)
  <2>1. PICK p \in Opps : LastChoice(o, p) /\ Standing(o) = outcome[p].status
    BY <1>5, StandingReadsIt
  <2>2. Gate(o) = Standing(o)
    BY <2>1, GateReadsIt DEF GateRule
  <2> QED
    BY <1>1, <1>3, <1>4, <1>5, <2>2
<1>6. CASE ~\E p \in Siblings(o) : HasRow(p)
  BY <1>3, <1>4, <1>6
<1> QED
  BY <1>5, <1>6

\* save and save_estimate: the user's last choice is what the gate reads of every
\* snapshot of the listing, and a scan neither changes it nor contradicts it.
THEOREM TheLastChoiceRules == Spec => ChoiceRulesTheListing
<1> DEFINE A == \A o \in known' :
                  /\ \A p \in Siblings(o) : outcome'[p] # outcome[p] => Gate(o)' = outcome'[p].status
                  /\ (\A p \in Siblings(o) : outcome'[p] = outcome[p])
                       => \A p \in Siblings(o) \cap known : Gate(o)' = Gate(p)
                  /\ o \notin known => status'[o] = Gate(o)'
<1>1. ASSUME IInv, IInv', NEW o \in Opps, NEW s \in Marks, NEW c \in Costs \cup {NoCost},
             NEW n \in Notes, Save(o, s, c, n)
      PROVE  A
  <2>1. known' = known
    BY <1>1 DEF Save
  <2> QED
    BY <1>1, <2>1, GateAfterSave
<1>2. ASSUME IInv, IInv', NEW o \in Opps, Snapshot(o) PROVE A
  <2>1. outcome' = outcome /\ known' = known \cup {o}
    BY <1>2 DEF Snapshot
  <2> QED
    BY <1>2, <2>1, GateAfterSnapshot
<1>3. IInv /\ IInv' /\ [Next]_vars => [A]_vars
  BY <1>1, <1>2 DEF Next
<1> HIDE DEF A
<1>4. Spec => [][A]_vars
  BY <1>3, Invariant, PTL DEF Spec
<1> QED
  BY <1>4 DEF A, ChoiceRulesTheListing
===============================================================================
