---------------------- MODULE TransactionManagerProofs ----------------------
(***************************************************************************)
(* Proofs about a queue and its sessions, for any set of messages, any     *)
(* size of files and any number of handles and sessions.                   *)
(*                                                                         *)
(* First the queue, with any caller (QStorage).  TypeOK is not inductive:  *)
(* erase() keeps the index a list of messages only if the entry it is      *)
(* given is in the list, so every position that an operation may be given  *)
(* has to be on an entry, at the end, or marked invalid; and so is the     *)
(* entry whose record is marked already, because nothing else happens in   *)
(* between.  PositionsInIndex says so; the two are proved together.  What  *)
(* the index and the storage files say of each other comes next, with a    *)
(* strengthening of its own, and last the order and the cursors.           *)
(*                                                                         *)
(* Before that come the operators of IndexQueue, for lists of any length:  *)
(* lower_bound() answers a place in the list, enqueue() adds one entry and *)
(* erase() takes one away, and neither disturbs the others.                *)
(*                                                                         *)
(* Then the sessions (TransactionManager): the server uses QStorage only   *)
(* through its operations, so that what is proved of a queue holds of the  *)
(* queue of the server.                                                    *)
(***************************************************************************)
EXTENDS TransactionManager, SequenceTheorems, FiniteSetTheorems, WellFoundedInduction, TLAPS

(* A finite set of integers that is not empty has a greatest element.      *)
LEMMA MaxExists ==
  ASSUME NEW I, I \subseteq Int, IsFiniteSet(I), I # {}
  PROVE  \E x \in I : \A y \in I : x >= y
<1> DEFINE Above(k) == {j \in I : j > k}
           T == {Above(k) : k \in I}
<1>1. T \subseteq FiniteSubsetsOf(I)
  BY FS_Subset DEF FiniteSubsetsOf
<1>2. T # {}
  OBVIOUS
<1> HIDE DEF T
<1>3. PICK J \in T : \A K \in T : ~(<<K, J>> \in StrictSubsetOrdering(I))
  BY <1>1, <1>2, FS_StrictSubsetOrderingWellFounded, WFMin
<1>4. PICK x \in I : J = Above(x)
  BY DEF T
<1>5. ASSUME NEW y \in I, ~(x >= y) PROVE FALSE
  <2>1. Above(y) \in T
    BY DEF T
  <2>2. x \in Int /\ y \in Int /\ y > x
    BY <1>5
  <2>3. {j \in I : j > y} \subseteq {j \in I : j > x}
    <3>1. \A j \in I : j \in Int /\ (j > y => j > x)
      BY <2>2
    <3> QED BY <3>1
  <2>4. y \in {j \in I : j > x} /\ y \notin {j \in I : j > y}
    BY <2>2
  <2>5. <<Above(y), J>> \in StrictSubsetOrdering(I)
    BY <2>3, <2>4, <1>4 DEF StrictSubsetOrdering
  <2> QED BY <2>1, <2>5, <1>3
<1> QED BY <1>5

(* InsertAt moves the entries from position i on by one.                   *)
LEMMA InsertAtProperties ==
  ASSUME NEW S, NEW q \in Seq(S), NEW i \in 1 .. Len(q) + 1, NEW m \in S
  PROVE  /\ InsertAt(q, i, m) \in Seq(S)
         /\ Len(InsertAt(q, i, m)) = Len(q) + 1
         /\ \A k \in 1 .. Len(q) + 1 :
               InsertAt(q, i, m)[k] = IF k < i THEN q[k] ELSE IF k = i THEN m ELSE q[k - 1]
<1> DEFINE a == SubSeq(q, 1, i - 1)
           b == SubSeq(q, i, Len(q))
<1>0. Len(q) \in Nat /\ i \in Nat /\ i >= 1 /\ i <= Len(q) + 1
  OBVIOUS
<1>1. a \in Seq(S) /\ Len(a) = i - 1 /\ \A k \in 1 .. i - 1 : a[k] = q[k]
  BY SubSeqProperties
<1>2. b \in Seq(S) /\ Len(b) = Len(q) - i + 1 /\ \A k \in 1 .. Len(b) : b[k] = q[k + i - 1]
  BY SubSeqProperties
<1>3. <<m>> \in Seq(S) /\ Len(<<m>>) = 1 /\ <<m>>[1] = m
  OBVIOUS
<1> DEFINE c == <<m>>
           d == a \o c
<1>4. InsertAt(q, i, m) = d \o b
  BY DEF InsertAt
<1> HIDE DEF a, b, c
<1>5. d \in Seq(S) /\ Len(d) = i /\ \A k \in 1 .. i : d[k] = IF k < i THEN q[k] ELSE m
  BY <1>1, <1>3, ConcatProperties DEF c
<1> HIDE DEF d
<1>6. d \in Seq(S) /\ b \in Seq(S)
  BY <1>5, <1>2
<1>7. Len(d) = i /\ Len(d) + Len(b) = Len(q) + 1
  BY <1>0, <1>5, <1>2
<1>8. /\ d \o b \in Seq(S)
      /\ Len(d \o b) = Len(q) + 1
      /\ \A k \in 1 .. Len(q) + 1 : (d \o b)[k] = IF k <= i THEN d[k] ELSE b[k - i]
  BY <1>6, <1>7, ConcatProperties
<1>9. ASSUME NEW k \in 1 .. Len(q) + 1
      PROVE  (d \o b)[k] = IF k < i THEN q[k] ELSE IF k = i THEN m ELSE q[k - 1]
  <2>1. CASE k <= i
    BY <2>1, <1>5, <1>8
  <2>2. CASE k > i
    <3>1. k - i \in 1 .. Len(b) /\ b[k - i] = q[k - 1]
      BY <2>2, <1>2, <1>0
    <3> QED BY <2>2, <3>1, <1>8
  <2>3. k <= i \/ k > i
    BY <1>0
  <2> QED BY <2>1, <2>2, <2>3
<1> QED BY <1>4, <1>8, <1>9

(* RemoveAt moves the entries behind position i back by one.               *)
LEMMA RemoveAtProperties ==
  ASSUME NEW S, NEW q \in Seq(S), NEW i \in 1 .. Len(q)
  PROVE  /\ RemoveAt(q, i) \in Seq(S)
         /\ Len(RemoveAt(q, i)) = Len(q) - 1
         /\ \A k \in 1 .. Len(q) - 1 :
               RemoveAt(q, i)[k] = IF k < i THEN q[k] ELSE q[k + 1]
<1> DEFINE a == SubSeq(q, 1, i - 1)
           b == SubSeq(q, i + 1, Len(q))
<1>0. Len(q) \in Nat /\ Len(q) > 0
  OBVIOUS
<1>1. a \in Seq(S) /\ Len(a) = i - 1 /\ \A k \in 1 .. i - 1 : a[k] = q[k]
  BY SubSeqProperties
<1>2. b \in Seq(S) /\ Len(b) = Len(q) - i /\ \A k \in 1 .. Len(b) : b[k] = q[k + i]
  BY SubSeqProperties
<1>3. RemoveAt(q, i) = a \o b
  BY DEF RemoveAt
<1> HIDE DEF a, b
<1>4. /\ a \o b \in Seq(S)
      /\ Len(a \o b) = Len(q) - 1
      /\ \A k \in 1 .. Len(q) - 1 : (a \o b)[k] = IF k <= i - 1 THEN a[k] ELSE b[k - (i - 1)]
  BY <1>0, <1>1, <1>2, ConcatProperties
<1>5. \A k \in 1 .. Len(q) - 1 : (a \o b)[k] = IF k < i THEN q[k] ELSE q[k + 1]
  BY <1>1, <1>2, <1>4
<1> QED BY <1>3, <1>4, <1>5

(* lower_bound() answers the end of the entries whose priority is at least *)
(* that of m, whatever the list; the list need not be in order.            *)
LEMMA LowerBoundProperties ==
  ASSUME NEW q \in Seq(Msgs), NEW m \in Msgs
  PROVE  /\ LowerBound(q, m) \in 0 .. Len(q)
         /\ LowerBound(q, m) # 0 => Priority[q[LowerBound(q, m)]] >= Priority[m]
         /\ \A k \in 1 .. Len(q) :
               k > LowerBound(q, m) => ~ (Priority[q[k]] >= Priority[m])
<1> DEFINE I == {i \in 1 .. Len(q) : Priority[q[i]] >= Priority[m]}
<1>0. Len(q) \in Nat
  OBVIOUS
<1>1. LowerBound(q, m) = IF I # {} THEN CHOOSE x \in I : \A y \in I : x >= y ELSE 0
  BY DEF LowerBound, SelectLastInSeq, Max
<1>2. CASE I = {}
  BY <1>0, <1>1, <1>2
<1>3. CASE I # {}
  <2>1. IsFiniteSet(I) /\ I \subseteq Int
    <3>1. IsFiniteSet(1 .. Len(q)) /\ I \subseteq 1 .. Len(q)
      BY <1>0, FS_Interval
    <3> QED BY <3>1, FS_Subset
  <2>2. \E x \in I : \A y \in I : x >= y
    BY <2>1, <1>3, MaxExists
  <2>3. LowerBound(q, m) \in I /\ \A y \in I : LowerBound(q, m) >= y
    BY <2>2, <1>1, <1>3
  <2> QED BY <2>3, <2>1, <1>0
<1> QED BY <1>2, <1>3

(* An entry found by its position is one of the list, or End.              *)
LEMMA EntryAtType ==
  ASSUME NEW q \in Seq(Msgs), NEW i
  PROVE  EntryAt(q, i) \in Range(q) \cup {End} /\ Range(q) \subseteq Msgs
BY DEF EntryAt, Range

(* enqueue() adds m to the entries, and no other.                          *)
LEMMA InsertProperties ==
  ASSUME NEW q \in Seq(Msgs), NEW m \in Msgs
  PROVE  /\ Insert(q, m) \in Seq(Msgs)
         /\ Range(Insert(q, m)) = Range(q) \cup {m}
<1> DEFINE i == LowerBound(q, m) + 1
           r == InsertAt(q, i, m)
<1>0. Len(q) \in Nat
  OBVIOUS
<1>1. i \in 1 .. Len(q) + 1
  BY <1>0, LowerBoundProperties
<1> HIDE DEF i
<1>2. /\ r \in Seq(Msgs) /\ Len(r) = Len(q) + 1
      /\ \A k \in 1 .. Len(q) + 1 : r[k] = IF k < i THEN q[k] ELSE IF k = i THEN m ELSE q[k - 1]
  BY <1>1, InsertAtProperties
<1>3. Insert(q, m) = r
  BY DEF Insert, i
<1> HIDE DEF r
<1>4. ASSUME NEW k \in 1 .. Len(q) + 1 PROVE r[k] \in Range(q) \cup {m}
  <2>1. k < i => k \in DOMAIN q
    BY <1>0, <1>1
  <2>2. k > i => k - 1 \in DOMAIN q
    BY <1>0, <1>1
  <2>3. k < i \/ k = i \/ k > i
    BY <1>1
  <2> QED BY <1>2, <2>1, <2>2, <2>3 DEF Range
<1>5. ASSUME NEW k \in 1 .. Len(q) PROVE q[k] \in Range(r)
  <2>1. CASE k < i
    BY <2>1, <1>0, <1>2 DEF Range
  <2>2. CASE k >= i
    <3>1. k + 1 \in DOMAIN r /\ r[k + 1] = q[k]
      BY <2>2, <1>0, <1>1, <1>2
    <3> QED BY <3>1 DEF Range
  <2> QED BY <2>1, <2>2, <1>1
<1>6. m \in Range(r)
  BY <1>1, <1>2 DEF Range
<1> QED BY <1>2, <1>3, <1>4, <1>5, <1>6 DEF Range

(* erase() takes away m and no other entry, and the position it returns,   *)
(* the one behind m, is one of the list that remains.                      *)
LEMMA EraseProperties ==
  ASSUME NEW q \in Seq(Msgs), NEW m \in Range(q)
  PROVE  /\ Erase(q, m) \in Seq(Msgs)
         /\ Range(q) \ {m} \subseteq Range(Erase(q, m))
         /\ Range(Erase(q, m)) \subseteq Range(q)
         /\ Successor(q, m) \in Range(Erase(q, m)) \cup {End}
<1> DEFINE i == IndexOf(q, m)
           r == RemoveAt(q, i)
<1>0. Len(q) \in Nat
  OBVIOUS
<1>1. i \in 1 .. Len(q) /\ q[i] = m
  BY DEF IndexOf, Range
<1> HIDE DEF i
<1>2. /\ r \in Seq(Msgs) /\ Len(r) = Len(q) - 1
      /\ \A k \in 1 .. Len(q) - 1 : r[k] = IF k < i THEN q[k] ELSE q[k + 1]
  BY <1>1, RemoveAtProperties
<1>3. Erase(q, m) = r /\ Successor(q, m) = EntryAt(q, i + 1)
  BY DEF Erase, Successor, i
<1> HIDE DEF r
<1>4. ASSUME NEW k \in 1 .. Len(q), k # i PROVE q[k] \in Range(r)
  <2>1. CASE k < i
    BY <2>1, <1>0, <1>1, <1>2 DEF Range
  <2>2. CASE k > i
    <3>1. k - 1 \in DOMAIN r /\ r[k - 1] = q[k]
      BY <2>2, <1>0, <1>1, <1>2
    <3> QED BY <3>1 DEF Range
  <2> QED BY <2>1, <2>2, <1>1, <1>4
<1>5. ASSUME NEW k \in 1 .. Len(q) - 1 PROVE r[k] \in Range(q)
  BY <1>0, <1>1, <1>2 DEF Range
<1>6. EntryAt(q, i + 1) \in Range(r) \cup {End}
  <2>1. i + 1 # i
    BY <1>1
  <2> QED BY <2>1, <1>4 DEF EntryAt
<1>7. Range(q) \ {m} \subseteq Range(r) /\ Range(r) \subseteq Range(q)
  <2>1. DOMAIN q = 1 .. Len(q) /\ DOMAIN r = 1 .. Len(q) - 1
    BY <1>0, <1>2
  <2> QED BY <2>1, <1>1, <1>4, <1>5 DEF Range
<1> QED BY <1>2, <1>3, <1>6, <1>7

(* A message that is not in the list yet is in it once afterwards.         *)
LEMMA InsertInjective ==
  ASSUME NEW q \in Seq(Msgs), NEW m \in Msgs, m \notin Range(q), IsInjective(q)
  PROVE  IsInjective(Insert(q, m))
<1> DEFINE i == LowerBound(q, m) + 1
           r == InsertAt(q, i, m)
<1>0. Len(q) \in Nat
  OBVIOUS
<1>1. i \in 1 .. Len(q) + 1
  BY <1>0, LowerBoundProperties
<1> HIDE DEF i
<1>2. /\ DOMAIN r = 1 .. Len(q) + 1
      /\ \A k \in 1 .. Len(q) + 1 : r[k] = IF k < i THEN q[k] ELSE IF k = i THEN m ELSE q[k - 1]
  <2>1. /\ r \in Seq(Msgs) /\ Len(r) = Len(q) + 1
        /\ \A k \in 1 .. Len(q) + 1 :
              r[k] = IF k < i THEN q[k] ELSE IF k = i THEN m ELSE q[k - 1]
    BY <1>1, InsertAtProperties
  <2> HIDE DEF r
  <2>2. DOMAIN r = 1 .. Len(q) + 1
    BY <2>1
  <2> QED BY <2>1, <2>2
<1>3. Insert(q, m) = r
  BY DEF Insert, i
<1> HIDE DEF r
<1> DEFINE From(k) == IF k < i THEN k ELSE k - 1
<1>4. ASSUME NEW k \in 1 .. Len(q) + 1, k # i
      PROVE  From(k) \in 1 .. Len(q) /\ r[k] = q[From(k)] /\ r[k] # m
  <2>1. From(k) \in 1 .. Len(q) /\ r[k] = q[From(k)]
    <3>1. CASE k < i
      BY <3>1, <1>0, <1>1, <1>2
    <3>2. CASE k > i
      BY <3>2, <1>0, <1>1, <1>2
    <3> QED BY <3>1, <3>2, <1>1, <1>4
  <2> QED BY <2>1 DEF Range
<1>5. ASSUME NEW k \in 1 .. Len(q) + 1, NEW l \in 1 .. Len(q) + 1, r[k] = r[l]
      PROVE  k = l
  <2>1. CASE k = i \/ l = i
    <3>1. r[i] = m
      BY <1>1, <1>2
    <3> QED BY <2>1, <3>1, <1>4, <1>5
  <2>2. CASE k # i /\ l # i
    <3>1. From(k) = From(l)
      BY <2>2, <1>4, <1>5 DEF IsInjective
    <3> QED BY <2>2, <3>1, <1>1
  <2> QED BY <2>1, <2>2
<1> QED BY <1>2, <1>3, <1>5 DEF IsInjective

(* An entry that is in the list once is not in it after erase().           *)
LEMMA EraseInjective ==
  ASSUME NEW q \in Seq(Msgs), NEW m \in Range(q), IsInjective(q)
  PROVE  /\ IsInjective(Erase(q, m))
         /\ Range(Erase(q, m)) = Range(q) \ {m}
<1> DEFINE i == IndexOf(q, m)
           r == RemoveAt(q, i)
<1>0. Len(q) \in Nat
  OBVIOUS
<1>1. i \in 1 .. Len(q) /\ q[i] = m
  BY DEF IndexOf, Range
<1> HIDE DEF i
<1>2. /\ DOMAIN r = 1 .. Len(q) - 1
      /\ \A k \in 1 .. Len(q) - 1 : r[k] = IF k < i THEN q[k] ELSE q[k + 1]
  <2>1. r \in Seq(Msgs) /\ Len(r) = Len(q) - 1
    BY <1>1, RemoveAtProperties
  <2>2. DOMAIN r = 1 .. Len(q) - 1
    BY <2>1
  <2> QED BY <1>1, <2>2, RemoveAtProperties
<1>3. Erase(q, m) = r
  BY DEF Erase, i
<1> HIDE DEF r
<1> DEFINE From(k) == IF k < i THEN k ELSE k + 1
<1>4. ASSUME NEW k \in 1 .. Len(q) - 1
      PROVE  From(k) \in 1 .. Len(q) /\ From(k) # i /\ r[k] = q[From(k)]
  BY <1>0, <1>1, <1>2
<1>5. ASSUME NEW k \in 1 .. Len(q) - 1 PROVE r[k] # m
  BY <1>1, <1>4 DEF IsInjective
<1>6. ASSUME NEW k \in 1 .. Len(q) - 1, NEW l \in 1 .. Len(q) - 1, r[k] = r[l]
      PROVE  k = l
  <2>1. From(k) = From(l)
    BY <1>4, <1>6 DEF IsInjective
  <2> QED BY <2>1, <1>1
<1>7. IsInjective(r) /\ m \notin Range(r)
  BY <1>2, <1>5, <1>6 DEF IsInjective, Range
<1> QED BY <1>3, <1>7, EraseProperties

(* The order the index promises, for an order given as a set of pairs.     *)
InOrder(q, R) == Ordered(q, LAMBDA m, n : <<m, n>> \in R)

(* enqueue() keeps the order, if m comes after the entries of its priority.*)
LEMMA InsertOrdered ==
  ASSUME NEW q \in Seq(Msgs), NEW m \in Msgs, NEW R, InOrder(q, R),
         \A n \in Range(q) : Priority[n] = Priority[m] => <<n, m>> \in R
  PROVE  InOrder(Insert(q, m), R)
<1> DEFINE i == LowerBound(q, m) + 1
           r == InsertAt(q, i, m)
<1>0. /\ Len(q) \in Nat /\ DOMAIN q = 1 .. Len(q)
      /\ Priority[m] \in Nat /\ \A k \in 1 .. Len(q) : Priority[q[k]] \in Nat
  BY IndexAssumption
<1>1. /\ i \in 1 .. Len(q) + 1
      /\ i > 1 => Priority[q[i - 1]] >= Priority[m]
      /\ \A k \in 1 .. Len(q) : k >= i => Priority[m] > Priority[q[k]]
  <2>1. /\ LowerBound(q, m) \in 0 .. Len(q)
        /\ LowerBound(q, m) # 0 => Priority[q[LowerBound(q, m)]] >= Priority[m]
        /\ \A k \in 1 .. Len(q) :
              k > LowerBound(q, m) => ~ (Priority[q[k]] >= Priority[m])
    BY LowerBoundProperties
  <2>2. i \in 1 .. Len(q) + 1 /\ i - 1 = LowerBound(q, m)
    BY <2>1, <1>0
  <2>3. i > 1 => Priority[q[i - 1]] >= Priority[m]
    BY <2>1, <2>2
  <2>4. ASSUME NEW k \in 1 .. Len(q), k >= i PROVE Priority[m] > Priority[q[k]]
    <3>1. Priority[q[k]] \in Nat /\ k > LowerBound(q, m)
      BY <2>1, <2>2, <2>4, <1>0
    <3> QED BY <3>1, <2>1, <1>0
  <2> QED BY <2>2, <2>3, <2>4
<1>2. ASSUME NEW k \in 1 .. Len(q), NEW l \in 1 .. Len(q), k < l
      PROVE  \/ Priority[q[k]] > Priority[q[l]]
             \/ Priority[q[k]] = Priority[q[l]] /\ <<q[k], q[l]>> \in R
  BY <1>0, <1>2 DEF InOrder, Ordered
<1>3. Insert(q, m) = r
  BY DEF Insert
<1> HIDE DEF i
<1>4. /\ DOMAIN r = 1 .. Len(q) + 1
      /\ \A k \in 1 .. Len(q) + 1 :
            r[k] = IF k < i THEN q[k] ELSE IF k = i THEN m ELSE q[k - 1]
  <2>1. /\ r \in Seq(Msgs) /\ Len(r) = Len(q) + 1
        /\ \A k \in 1 .. Len(q) + 1 :
              r[k] = IF k < i THEN q[k] ELSE IF k = i THEN m ELSE q[k - 1]
    BY <1>1, InsertAtProperties
  <2> HIDE DEF r
  <2>2. DOMAIN r = 1 .. Len(q) + 1
    BY <2>1
  <2> QED BY <2>1, <2>2
<1> HIDE DEF r
<1>5. ASSUME NEW k \in 1 .. Len(q), k < i PROVE Priority[q[k]] >= Priority[m]
  <2>1. CASE k = i - 1
    BY <2>1, <1>0, <1>1, <1>5
  <2>2. CASE k < i - 1
    <3>1. PICK l \in 1 .. Len(q) : l = i - 1 /\ i > 1
      BY <2>2, <1>0, <1>1
    <3>2. Priority[q[k]] \in Nat /\ Priority[q[l]] \in Nat
      BY <1>0
    <3>3. Priority[q[k]] > Priority[q[l]] \/ Priority[q[k]] = Priority[q[l]]
      BY <3>1, <2>2, <1>2
    <3> QED BY <3>1, <3>2, <3>3, <1>0, <1>1
  <2> QED BY <2>1, <2>2, <1>1, <1>5
<1>6. ASSUME NEW k \in 1 .. Len(q) + 1, NEW l \in 1 .. Len(q) + 1, k < l
      PROVE  \/ Priority[r[k]] > Priority[r[l]]
             \/ Priority[r[k]] = Priority[r[l]] /\ <<r[k], r[l]>> \in R
  <2>1. CASE l < i
    <3>1. k \in 1 .. Len(q) /\ l \in 1 .. Len(q) /\ r[k] = q[k] /\ r[l] = q[l]
      BY <2>1, <1>0, <1>1, <1>4, <1>6
    <3> QED BY <3>1, <1>2, <1>6
  <2>2. CASE l = i
    <3>1. k \in 1 .. Len(q) /\ k < i /\ r[k] = q[k] /\ r[l] = m
      BY <2>2, <1>0, <1>1, <1>4, <1>6
    <3>2. Priority[q[k]] >= Priority[m] /\ q[k] \in Range(q)
      BY <3>1, <1>0, <1>5 DEF Range
    <3>3. Priority[q[k]] = Priority[m] => <<q[k], m>> \in R
      BY <3>2
    <3>4. Priority[q[k]] \in Nat /\ Priority[m] \in Nat
      BY <3>1, <1>0
    <3> HIDE DEF r
    <3> QED BY <3>1, <3>2, <3>3, <3>4
  <2>3. CASE l > i
    <3>1. l - 1 \in 1 .. Len(q) /\ r[l] = q[l - 1] /\ l - 1 >= i
      BY <2>3, <1>0, <1>1, <1>4
    <3>2. CASE k < i
      <4>1. k \in 1 .. Len(q) /\ r[k] = q[k] /\ k < l - 1
        BY <3>2, <2>3, <1>0, <1>1, <1>4
      <4> QED BY <4>1, <3>1, <1>2
    <3>3. CASE k = i
      <4>1. r[k] = m
        BY <3>3, <1>4
      <4>2. Priority[m] > Priority[q[l - 1]]
        BY <3>1, <1>1
      <4> QED BY <4>1, <4>2, <3>1
    <3>4. CASE k > i
      <4>1. k - 1 \in 1 .. Len(q) /\ r[k] = q[k - 1] /\ k - 1 < l - 1
        BY <3>4, <1>0, <1>1, <1>4, <1>6
      <4> QED BY <4>1, <3>1, <1>2
    <3> QED BY <3>2, <3>3, <3>4, <1>1
  <2> QED BY <2>1, <2>2, <2>3, <1>1
<1> QED BY <1>3, <1>4, <1>6 DEF InOrder, Ordered

(* erase() keeps the order of the entries that remain.                     *)
LEMMA EraseOrdered ==
  ASSUME NEW q \in Seq(Msgs), NEW m \in Range(q), NEW R, InOrder(q, R)
  PROVE  InOrder(Erase(q, m), R)
<1> DEFINE i == IndexOf(q, m)
           r == RemoveAt(q, i)
<1>0. Len(q) \in Nat /\ DOMAIN q = 1 .. Len(q)
  OBVIOUS
<1>1. i \in 1 .. Len(q)
  BY DEF IndexOf, Range
<1>2. Erase(q, m) = r
  BY DEF Erase
<1> HIDE DEF i
<1>3. /\ r \in Seq(Msgs) /\ Len(r) = Len(q) - 1
      /\ \A k \in 1 .. Len(q) - 1 : r[k] = IF k < i THEN q[k] ELSE q[k + 1]
  BY <1>1, RemoveAtProperties
<1> HIDE DEF r
<1> DEFINE From(k) == IF k < i THEN k ELSE k + 1
<1>4. ASSUME NEW k \in 1 .. Len(q) - 1
      PROVE  From(k) \in 1 .. Len(q) /\ r[k] = q[From(k)]
  BY <1>0, <1>1, <1>3
<1>5. \A k, l \in 1 .. Len(q) - 1 : k < l => From(k) < From(l)
  BY <1>0, <1>1
<1>6. DOMAIN r = 1 .. Len(q) - 1
  BY <1>3
<1>7. ASSUME NEW k \in 1 .. Len(q) - 1, NEW l \in 1 .. Len(q) - 1, k < l
      PROVE  \/ Priority[r[k]] > Priority[r[l]]
             \/ Priority[r[k]] = Priority[r[l]] /\ <<r[k], r[l]>> \in R
  <2>1. From(k) < From(l)
    BY <1>5, <1>7
  <2>2. \/ Priority[q[From(k)]] > Priority[q[From(l)]]
        \/ /\ Priority[q[From(k)]] = Priority[q[From(l)]]
           /\ <<q[From(k)], q[From(l)]>> \in R
    BY <2>1, <1>0, <1>4 DEF InOrder, Ordered
  <2> QED BY <2>2, <1>4
<1> QED BY <1>2, <1>6, <1>7 DEF InOrder, Ordered
-----------------------------------------------------------------------------
PositionsInIndex ==
    /\ begin \in Range(index) \cup {End, Invalid}
    /\ \A h \in Handles : cursors[h] \in Range(index) \cup {End, Invalid, Tied, Closed}
    /\ purgeAt \in Range(index) \cup {End}
    /\ mode \notin {"purging", "expiring"} => purgeAt = End
    /\ mode = "removing" => Where(removing) \in Range(index)
    /\ mode = "expiring" => purgeAt \in Range(index)

MemoryInv == TypeOK /\ PositionsInIndex

(* The special positions are no messages, and differ from each other.      *)
LEMMA SpecialPositions ==
  /\ End \notin Msgs /\ Invalid \notin Msgs /\ Tied \notin Msgs /\ Closed \notin Msgs
  /\ End # Invalid /\ End # Tied /\ End # Closed
  /\ Invalid # Tied /\ Invalid # Closed /\ Tied # Closed
BY IndexAssumption

(* Where a search of the index can end.                                    *)
LEMMA SearchType ==
  ASSUME TypeOK
  PROVE  /\ Range(index) \subseteq Msgs
         /\ Foremost(index) \in Range(index) \cup {End}
         /\ FirstVisible \in Range(index) \cup {End}
         /\ FreshCursor \in Range(index) \cup {End, Tied}
         /\ \A id, p : FirstWithID(id, p) \in Range(index) \cup {End}
         /\ \A m : Successor(index, m) \in Range(index) \cup {End}
<1>1. index \in Seq(Msgs)
  BY DEF TypeOK
<1>2. \A i : EntryAt(index, i) \in Range(index) \cup {End}
  BY <1>1, EntryAtType
<1>3. Range(index) \subseteq Msgs
  BY <1>1, EntryAtType
<1>4. Foremost(index) \in Range(index) \cup {End}
  BY <1>2 DEF Foremost
<1>5. FirstVisible \in Range(index) \cup {End}
  BY <1>2 DEF FirstVisible, FirstFrom
<1>6. \A id, p : FirstWithID(id, p) \in Range(index) \cup {End}
  BY <1>2 DEF FirstWithID, FirstFrom
<1>7. \A m : Successor(index, m) \in Range(index) \cup {End}
  BY <1>2 DEF Successor
<1> QED BY <1>3, <1>4, <1>5, <1>6, <1>7 DEF FreshCursor

(* Marking a record changes the state of that record only.                 *)
LEMMA MarkPurgedType ==
  ASSUME TypeOK, NEW f \in FileIds, NEW i
  PROVE  /\ MarkPurged(f, i) \in Seq(Records)
         /\ DOMAIN MarkPurged(f, i) = DOMAIN files[f]
         /\ \A j \in DOMAIN files[f] :
               /\ MarkPurged(f, i)[j].msg = files[f][j].msg
               /\ MarkPurged(f, i)[j].state = IF j = i THEN "purged" ELSE files[f][j].state
<1> DEFINE s == files[f]
           r == [s[i] EXCEPT !.state = "purged"]
<1>1. s \in Seq(Records) /\ DOMAIN s = 1 .. Len(s)
  BY DEF TypeOK
<1>2. MarkPurged(f, i) = [s EXCEPT ![i] = r]
  BY DEF MarkPurged
<1> HIDE DEF s, r
<1>3. CASE i \in 1 .. Len(s)
  <2>1. s[i] \in Records
    BY <1>1, <1>3
  <2>2. r \in Records /\ r.msg = s[i].msg /\ r.state = "purged"
    BY <2>1 DEF r, Records
  <2>3. /\ [s EXCEPT ![i] = r] \in Seq(Records)
        /\ Len([s EXCEPT ![i] = r]) = Len(s)
        /\ \A j \in 1 .. Len(s) : [s EXCEPT ![i] = r][j] = IF j = i THEN r ELSE s[j]
    BY <1>1, <1>3, <2>2, ExceptSeq
  <2>4. DOMAIN [s EXCEPT ![i] = r] = 1 .. Len(s)
    BY <2>3
  <2> QED BY <2>2, <2>3, <2>4, <1>1, <1>2 DEF s
<1>4. CASE i \notin 1 .. Len(s)
  <2>1. [s EXCEPT ![i] = r] = s
    BY <1>1, <1>4
  <2> QED BY <2>1, <1>1, <1>2, <1>4 DEF s
<1> QED BY <1>3, <1>4

(* Marking the record of an entry, as the first half of a removal.         *)
LEMMA MarkMessageKeeps ==
  ASSUME MemoryInv, NEW m \in Range(index), MarkMessage(m),
         UNCHANGED <<ttlVars, reading>>, removing' \in Handles,
         \/ mode' = "removing" /\ purgeAt = End /\ m = Where(removing')
         \/ mode' = "expiring" /\ m = purgeAt
  PROVE  MemoryInv'
<1>1. TypeOK /\ PositionsInIndex /\ m \in Msgs
  BY SearchType DEF MemoryInv
<1>2. files' \in [FileIds -> Seq(Records)]
  <2>1. place[m].file \in FileIds
    BY <1>1 DEF TypeOK, Places
  <2>2. MarkPurged(place[m].file, place[m].offset) \in Seq(Records)
    BY <1>1, <2>1, MarkPurgedType
  <2> QED BY <2>1, <2>2, <1>1 DEF TypeOK, MarkMessage
<1>3. hidden' \in SUBSET Msgs
  BY <1>1 DEF TypeOK, MarkMessage
<1>4. TypeOK'
  BY <1>1, <1>2, <1>3 DEF TypeOK, MarkMessage, ttlVars
<1>5. PositionsInIndex'
  <2>1. UNCHANGED <<index, begin, cursors, purgeAt>>
    BY DEF MarkMessage, ttlVars
  <2>2. CASE mode' = "removing"
    BY <1>1, <2>1, <2>2 DEF PositionsInIndex, Where
  <2>3. CASE mode' = "expiring"
    BY <1>1, <2>1, <2>3 DEF PositionsInIndex
  <2> QED BY <2>2, <2>3
<1> QED BY <1>4, <1>5 DEF MemoryInv

(* Erasing an entry leaves every other position on its entry.              *)
LEMMA EraseMessageKeeps ==
  ASSUME MemoryInv, NEW m \in Range(index), EraseMessage(m)
  PROVE  /\ index' \in Seq(Msgs)
         /\ Range(index') \subseteq Range(index)
         /\ Range(index) \ {m} \subseteq Range(index')
         /\ Successor(index, m) \in Range(index') \cup {End}
         /\ hidden' \in SUBSET Msgs
         /\ begin' \in Positions /\ begin' \in Range(index') \cup {End, Invalid}
         /\ files' \in [FileIds -> Seq(Records)]
         /\ fileutilization' \in [FileIds -> Int]
         /\ InvalidateAll(m) \in [Handles -> Cursors \cup {Closed}]
         /\ \A h \in Handles :
               InvalidateAll(m)[h] \in Range(index') \cup {End, Invalid, Tied, Closed}
<1> USE SpecialPositions DEF MemoryInv
<1>1. index \in Seq(Msgs) /\ Range(index) \subseteq Msgs /\ m \in Msgs
  BY SearchType DEF TypeOK
<1>2. index' = Erase(index, m)
  BY DEF EraseMessage, EraseEntry
<1>3. /\ index' \in Seq(Msgs)
      /\ Range(index') \subseteq Range(index)
      /\ Range(index) \ {m} \subseteq Range(index')
      /\ Successor(index, m) \in Range(index') \cup {End}
  BY <1>1, <1>2, EraseProperties
<1>4. place[m].file \in FileIds /\ place[m].offset \in Nat
  BY <1>1 DEF TypeOK, Places
<1>5. fileutilization' \in [FileIds -> Int]
  BY <1>4 DEF TypeOK, EraseMessage
<1>6. files' \in [FileIds -> Seq(Records)]
  <2>1. <<>> \in Seq(Records)
    OBVIOUS
  <2> QED BY <2>1, <1>4 DEF TypeOK, EraseMessage
<1>7. begin' \in Positions /\ begin' \in Range(index') \cup {End, Invalid}
  BY <1>1, <1>3 DEF EraseMessage, EraseEntry, Invalidated, PositionsInIndex, TypeOK, Positions
<1>8. InvalidateAll(m) \in [Handles -> Cursors \cup {Closed}]
  BY DEF InvalidateAll, Invalidated, TypeOK, Cursors, Positions
<1>9. \A h \in Handles :
        InvalidateAll(m)[h] \in Range(index') \cup {End, Invalid, Tied, Closed}
  BY <1>3 DEF InvalidateAll, Invalidated, PositionsInIndex
<1>10. hidden' \in SUBSET Msgs
  BY DEF EraseMessage, EraseEntry, TypeOK
<1> QED BY <1>3, <1>5, <1>6, <1>7, <1>8, <1>9, <1>10

(* Each kind of step keeps MemoryInv: the operations that only move        *)
(* cursors and hide or reveal entries.                                     *)
LEMMA CursorStepKeeps ==
  ASSUME MemoryInv, mode = "running",
         UNCHANGED <<mode, index, storageVars, ttlVars, scanVars>>,
         hidden' \in SUBSET Msgs,
         begin' \in Range(index) \cup {End, Invalid},
         cursors' \in [Handles -> Range(index) \cup {End, Invalid, Tied, Closed}]
  PROVE  MemoryInv'
<1>1. Range(index) \subseteq Msgs
  BY SearchType DEF MemoryInv
<1>2. TypeOK'
  BY <1>1 DEF MemoryInv, TypeOK, storageVars, ttlVars, scanVars, Cursors, Positions
<1>3. PositionsInIndex'
  BY DEF MemoryInv, PositionsInIndex, ttlVars
<1> QED BY <1>2, <1>3 DEF MemoryInv

(* The queue starts with its positions in the index.                       *)
LEMMA InitMemory == Init => MemoryInv
<1> SUFFICES ASSUME Init PROVE MemoryInv
  OBVIOUS
<1>1. <<>> \in Seq(Msgs) /\ <<>> \in Seq(Records)
  OBVIOUS
<1>2. 0 \in FileIds /\ 0 \in Handles
  BY StorageAssumption DEF FileIds, Handles
<1>3. TypeOK
  <2>1. /\ cursors \in [Handles -> Cursors \cup {Closed}]
        /\ place \in [Msgs -> Places]
        /\ files \in [FileIds -> Seq(Records)]
        /\ fileutilization \in [FileIds -> Int]
    BY <1>1, <1>2 DEF Init, Places
  <2>2. 0 \in 0 .. MaxFile + 1 /\ reading \in [file : 0 .. MaxFile + 1, offset : Nat]
    BY StorageAssumption DEF Init
  <2> QED BY <1>1, <1>2, <2>1, <2>2 DEF Init, TypeOK, Positions
<1>4. PositionsInIndex
  BY DEF Init, PositionsInIndex
<1> QED BY <1>3, <1>4 DEF MemoryInv

(* Opening, moving and closing cursors, and handing messages out, leaves   *)
(* every position on an entry, at the end, or invalid.                     *)
LEMMA CursorOperationKeeps == MemoryInv /\ CursorOperation => MemoryInv'
<1> SUFFICES ASSUME MemoryInv, CursorOperation PROVE MemoryInv'
  OBVIOUS
<1> DEFINE Standing == Range(index) \cup {End, Invalid, Tied, Closed}
<1>1. /\ TypeOK /\ hidden \subseteq Msgs
      /\ begin \in Range(index) \cup {End, Invalid}
      /\ cursors \in [Handles -> Standing]
  BY DEF MemoryInv, TypeOK, PositionsInIndex
<1>2. /\ Range(index) \subseteq Msgs
      /\ Foremost(index) \in Range(index) \cup {End}
      /\ FirstVisible \in Range(index) \cup {End}
      /\ FreshCursor \in Range(index) \cup {End, Tied}
      /\ \A id, p : FirstWithID(id, p) \in Range(index) \cup {End}
      /\ \A m : Successor(index, m) \in Range(index) \cup {End}
  BY <1>1, SearchType
<1>3. \A h \in Handles : Where(h) \in Standing
  BY <1>1 DEF Where
<1>4. CASE OpenCursor
  BY <1>1, <1>2, <1>4, CursorStepKeeps DEF OpenCursor, ResetBegin, Register
<1>5. CASE PeekFront
  BY <1>1, <1>2, <1>5, CursorStepKeeps DEF PeekFront, ResetBegin
<1>6. CASE BeginRetrieve
  BY <1>1, <1>2, <1>6, CursorStepKeeps DEF BeginRetrieve, ResetBegin, Register
<1>7. ASSUME NEW id \in Ids, BeginRetrieveID(id) \/ WaitForID(id) PROVE MemoryInv'
  <2>1. FirstWithID(id, FirstVisible) \in Range(index) \cup {End}
    BY <1>2
  <2>2. CASE BeginRetrieveID(id)
    BY <1>1, <1>2, <2>1, <2>2, CursorStepKeeps DEF BeginRetrieveID, ResetBegin, Register
  <2>3. CASE WaitForID(id)
    BY <1>1, <1>2, <2>1, <2>3, CursorStepKeeps DEF WaitForID, ResetBegin, Register
  <2> QED BY <1>7, <2>2, <2>3
<1>8. ASSUME NEW h \in Handles, CloseCursor(h) PROVE MemoryInv'
  BY <1>1, <1>8, CursorStepKeeps DEF CloseCursor
<1>9. ASSUME NEW h \in Handles, AdvanceCursor(h) PROVE MemoryInv'
  BY <1>1, <1>2, <1>9, CursorStepKeeps DEF AdvanceCursor
<1>10. ASSUME NEW h \in Handles, BeginRetrieveCursor(h) PROVE MemoryInv'
  BY <1>1, <1>10, CursorStepKeeps DEF BeginRetrieveCursor, Usable
<1>11. ASSUME NEW h \in Handles, FinalizeEnqueue(h) \/ CancelRetrieve(h) PROVE MemoryInv'
  BY <1>1, <1>11, CursorStepKeeps DEF FinalizeEnqueue, CancelRetrieve, Reveal
<1>12. ASSUME NEW h \in Handles, CancelEnqueue(h) \/ FinalizeRetrieve(h) PROVE MemoryInv'
  <2>1. Consume(h) /\ Where(h) \in Msgs
    BY <1>12 DEF CancelEnqueue, FinalizeRetrieve, Consume, Usable
  <2>2. PICK m \in Range(index) : m = Where(h)
    BY <2>1, <1>3, SpecialPositions
  <2>3. /\ MarkMessage(m) /\ mode = "running" /\ mode' = "removing"
        /\ removing' = h /\ m = Where(h)
        /\ UNCHANGED <<ttlVars, reading>>
    BY <2>1, <2>2 DEF Consume
  <2>4. purgeAt = End
    BY <1>1, <2>3 DEF MemoryInv, PositionsInIndex
  <2> QED BY <2>3, <2>4, MarkMessageKeeps
<1>13. ASSUME NEW h \in Handles, NEW src \in Handles, CursorCopy(h, src) PROVE MemoryInv'
  BY <1>1, <1>13, CursorStepKeeps DEF CursorCopy
<1>14. ASSUME NEW h \in Handles, NEW id \in Ids, SeekID(id, h) PROVE MemoryInv'
  <2>1. FirstWithID(id, Where(h)) \in Range(index) \cup {End}
    BY <1>2
  <2> QED BY <1>1, <1>14, <2>1, CursorStepKeeps DEF SeekID
<1> QED
  BY <1>4, <1>5, <1>6, <1>7, <1>8, <1>9, <1>10, <1>11, <1>12, <1>13, <1>14
     DEF CursorOperation

(* So does Enqueue(), which adds an entry and a cursor on it.              *)
LEMMA EnqueueKeeps == ASSUME MemoryInv, NEW m \in Msgs, Enqueue(m) PROVE MemoryInv'
<1> DEFINE f == currentfileid
           s == Append(files[f], [msg |-> m, state |-> "live"])
<1>1. f \in FileIds /\ files[f] \in Seq(Records)
  BY DEF MemoryInv, TypeOK, Enqueue
<1>2. s \in Seq(Records) /\ Len(s) \in Nat
  <2>1. [msg |-> m, state |-> "live"] \in Records
    BY DEF Records
  <2> QED BY <2>1, <1>1
<1>3. /\ files' = [files EXCEPT ![f] = s]
      /\ place' = [place EXCEPT ![m] = [file |-> f, offset |-> Len(s)]]
      /\ currentfileid' = IF Len(s) > FileLimit THEN f + 1 ELSE f
      /\ fileutilization' = [fileutilization EXCEPT ![f] = @ + 1]
      /\ index' = Insert(index, m)
      /\ hidden' = hidden \cup {m}
      /\ hasTTL' = (hasTTL \/ m \in TTLMsgs)
      /\ expired' = expired \ {m}
      /\ cursors' = [cursors EXCEPT ![NextCursorID] = m]
      /\ mode = "running"
      /\ UNCHANGED <<mode, begin, purgeAt, scanVars>>
  BY DEF Enqueue, Register
<1> HIDE DEF s
<1>4. /\ index' \in Seq(Msgs)
      /\ Range(index') = Range(index) \cup {m}
  BY <1>3, InsertProperties DEF MemoryInv, TypeOK
<1>5. currentfileid' \in 0 .. MaxFile + 1
  BY <1>1, <1>3, StorageAssumption DEF FileIds
<1>6. TypeOK'
  <2>1. files' \in [FileIds -> Seq(Records)]
    BY <1>1, <1>2, <1>3 DEF MemoryInv, TypeOK
  <2>2. place' \in [Msgs -> Places]
    BY <1>1, <1>2, <1>3 DEF MemoryInv, TypeOK, Places
  <2>3. fileutilization' \in [FileIds -> Int]
    BY <1>1, <1>3 DEF MemoryInv, TypeOK
  <2>4. cursors' \in [Handles -> Cursors \cup {Closed}]
    BY <1>3 DEF MemoryInv, TypeOK, Cursors, Positions
  <2>5. hasTTL' \in BOOLEAN
    BY <1>3 DEF MemoryInv, TypeOK
  <2>6. hidden' \in SUBSET Msgs /\ expired' \in SUBSET TTLMsgs
    BY <1>3 DEF MemoryInv, TypeOK
  <2>7. UNCHANGED <<mode, begin, purgeAt, scanVars>>
    BY <1>3
  <2> QED BY <1>4, <1>5, <2>1, <2>2, <2>3, <2>4, <2>5, <2>6, <2>7 DEF MemoryInv, TypeOK, scanVars
<1>7. PositionsInIndex'
  <2>1. cursors \in [Handles -> Cursors \cup {Closed}] /\ PositionsInIndex
    BY DEF MemoryInv, TypeOK
  <2>2. /\ cursors' = [cursors EXCEPT ![NextCursorID] = m]
        /\ mode = "running"
        /\ UNCHANGED <<mode, begin, purgeAt>>
    BY <1>3
  <2>3. \A h \in Handles : cursors'[h] = cursors[h] \/ cursors'[h] = m
    BY <2>1, <2>2
  <2> QED BY <2>1, <2>2, <2>3, <1>4 DEF PositionsInIndex
<1> QED BY <1>6, <1>7 DEF MemoryInv

(* So does TTLPurge(), whose own cursor is erased under it and moved on.   *)
LEMMA ExpiryKeeps == MemoryInv /\ Expiry => MemoryInv'
<1> SUFFICES ASSUME MemoryInv, Expiry PROVE MemoryInv'
  OBVIOUS
<1>1. TypeOK /\ PositionsInIndex
  BY DEF MemoryInv
<1>2. /\ Range(index) \subseteq Msgs
      /\ Foremost(index) \in Range(index) \cup {End}
      /\ \A m : Successor(index, m) \in Range(index) \cup {End}
  BY <1>1, SearchType
<1>3. CASE BeginTTLPurge
  <2>1. TypeOK'
    BY <1>1, <1>2, <1>3
       DEF BeginTTLPurge, ResetBegin, TypeOK, storageVars, scanVars, Positions
  <2>2. PositionsInIndex'
    BY <1>1, <1>2, <1>3 DEF BeginTTLPurge, ResetBegin, PositionsInIndex
  <2> QED BY <2>1, <2>2 DEF MemoryInv
<1>4. CASE PurgeExpired
  <2>1. PICK m \in Range(index) : m = purgeAt
    <3>1. purgeAt \in Msgs
      BY <1>1, <1>4, StorageAssumption DEF PurgeExpired, TypeOK
    <3> QED BY <3>1, <1>1, SpecialPositions DEF PositionsInIndex
  <2>2. /\ MarkMessage(m) /\ mode' = "expiring" /\ removing' = removing
        /\ UNCHANGED <<ttlVars, reading>>
    BY <1>4, <2>1 DEF PurgeExpired, scanVars
  <2> QED BY <2>1, <2>2, <1>1, MarkMessageKeeps DEF TypeOK
<1>8. CASE EraseExpired
  <2>1. PICK m \in Range(index) : m = purgeAt
    BY <1>1, <1>8 DEF EraseExpired, PositionsInIndex
  <2>2. /\ EraseMessage(m)
        /\ cursors' = InvalidateAll(m)
        /\ purgeAt' = Successor(index, m)
        /\ mode' = "purging"
        /\ UNCHANGED <<place, currentfileid, hasTTL, expired, reading, removing>>
    BY <1>8, <2>1 DEF EraseExpired, EraseMessage, EraseEntry, scanVars
  <2>3. purgeAt' \in Range(index') \cup {End} /\ Range(index') \subseteq Msgs
    BY <2>2, <1>2, EraseMessageKeeps
  <2>4. TypeOK'
    BY <1>1, <2>2, <2>3, EraseMessageKeeps DEF TypeOK
  <2>5. PositionsInIndex'
    BY <2>2, <2>3, EraseMessageKeeps DEF PositionsInIndex
  <2> QED BY <2>4, <2>5 DEF MemoryInv
<1>5. CASE PurgeSkip
  <2>1. TypeOK'
    BY <1>1, <1>2, <1>5 DEF PurgeSkip, TypeOK, memoryVars, storageVars, scanVars
  <2>2. PositionsInIndex'
    BY <1>1, <1>2, <1>5 DEF PurgeSkip, PositionsInIndex, memoryVars, Where, scanVars
  <2> QED BY <2>1, <2>2 DEF MemoryInv
<1>6. CASE EndTTLPurge
  <2>1. TypeOK'
    BY <1>1, <1>6 DEF EndTTLPurge, TypeOK, memoryVars, storageVars, ttlVars, scanVars
  <2>2. PositionsInIndex'
    BY <1>1, <1>6 DEF EndTTLPurge, PositionsInIndex, memoryVars, ttlVars
  <2> QED BY <2>1, <2>2 DEF MemoryInv
<1>7. ASSUME NEW m \in Msgs, Age(m) PROVE MemoryInv'
  <2>1. TypeOK'
    BY <1>1, <1>7 DEF Age, TypeOK, memoryVars, storageVars, scanVars
  <2>2. PositionsInIndex'
    BY <1>1, <1>7 DEF Age, PositionsInIndex, memoryVars, Where, scanVars
  <2> QED BY <2>1, <2>2 DEF MemoryInv
<1> QED BY <1>3, <1>4, <1>5, <1>6, <1>7, <1>8 DEF Expiry

(* The second half of a removal.                                           *)
LEMMA FinishRemovalKeeps == MemoryInv /\ FinishRemoval => MemoryInv'
<1> SUFFICES ASSUME MemoryInv, FinishRemoval PROVE MemoryInv'
  OBVIOUS
<1>1. TypeOK /\ PositionsInIndex
  BY DEF MemoryInv
<1>2. PICK m \in Range(index) : m = Where(removing)
  BY <1>1 DEF FinishRemoval, PositionsInIndex
<1>3. /\ EraseMessage(m)
      /\ cursors' = [InvalidateAll(m) EXCEPT ![removing] = Closed]
      /\ mode = "removing" /\ mode' = "running" /\ removing' = 0
      /\ UNCHANGED <<place, currentfileid, ttlVars, reading>>
  BY <1>2 DEF FinishRemoval, EraseMessage, EraseEntry
<1>4. 0 \in Handles
  BY StorageAssumption DEF Handles
<1>5. TypeOK'
  BY <1>1, <1>3, <1>4, EraseMessageKeeps DEF TypeOK, ttlVars
<1>6. PositionsInIndex'
  BY <1>1, <1>3, EraseMessageKeeps DEF TypeOK, PositionsInIndex, ttlVars
<1> QED BY <1>5, <1>6 DEF MemoryInv

(* A crash leaves no entry and no cursor.                                  *)
LEMMA CrashKeeps == MemoryInv /\ Crash => MemoryInv'
<1> SUFFICES ASSUME MemoryInv, Crash PROVE MemoryInv'
  OBVIOUS
<1>2. <<>> \in Seq(Msgs)
  OBVIOUS
<1>3. TypeOK'
  <2>1. /\ mode' = "recovering" /\ index' = <<>> /\ hidden' = {} /\ begin' = End
        /\ cursors' = [h \in Handles |-> Closed]
        /\ fileutilization' = [f \in FileIds |-> 0]
        /\ currentfileid' = 0 /\ hasTTL' = FALSE /\ purgeAt' = End
        /\ reading' = [file |-> 0, offset |-> 1]
        /\ removing' = 0
        /\ UNCHANGED <<place, files, expired>>
    BY DEF Crash
  <2>2. 0 \in 0 .. MaxFile + 1 /\ 0 \in Handles
    BY StorageAssumption DEF Handles
  <2>3. reading' \in [file : 0 .. MaxFile + 1, offset : Nat]
    BY <2>1, <2>2
  <2>4. /\ cursors' \in [Handles -> Cursors \cup {Closed}]
        /\ fileutilization' \in [FileIds -> Int]
    BY <2>1
  <2> QED BY <1>2, <2>1, <2>2, <2>3, <2>4 DEF MemoryInv, TypeOK, Positions
<1>4. PositionsInIndex'
  BY DEF Crash, PositionsInIndex
<1> QED BY <1>3, <1>4 DEF MemoryInv

(* Recovery adds entries only, while no cursor is open.                    *)
LEMMA RecoveryKeeps == MemoryInv /\ Recovery => MemoryInv'
<1> SUFFICES ASSUME MemoryInv, Recovery PROVE MemoryInv'
  OBVIOUS
<1> USE DEF MemoryInv
<1>1. CASE RecoverRecord
  <2> DEFINE f == reading.file
             r == files[f][reading.offset]
  <2>1. f \in FileIds /\ f \in 0 .. MaxFile + 1 /\ reading.offset \in Nat
    BY <1>1 DEF RecoverRecord, TypeOK
  <2>2. r \in Records
    BY <1>1, <2>1 DEF RecoverRecord, TypeOK
  <2>3. r.msg \in Msgs
    BY <2>2 DEF Records
  <2>4. reading' \in [file : 0 .. MaxFile + 1, offset : Nat] /\ currentfileid' = f
    <3>1. reading' = [reading EXCEPT !.offset = @ + 1] /\ currentfileid' = f
      BY <1>1 DEF RecoverRecord
    <3>2. reading.offset + 1 \in Nat
      BY <2>1
    <3> QED BY <3>1, <3>2 DEF TypeOK
  <2>5. mode = "recovering" /\ UNCHANGED <<mode, hidden, begin, cursors, files, expired, purgeAt, removing>>
    BY <1>1 DEF RecoverRecord
  <2>6. CASE r.state = "live"
    <3>1. /\ index' = Insert(index, r.msg)
          /\ place' = [place EXCEPT ![r.msg] = reading]
          /\ fileutilization' = [fileutilization EXCEPT ![f] = @ + 1]
          /\ hasTTL' = (hasTTL \/ r.msg \in TTLMsgs)
      BY <1>1, <2>6 DEF RecoverRecord
    <3> HIDE DEF f, r
    <3>2. index' \in Seq(Msgs) /\ Range(index') = Range(index) \cup {r.msg}
      BY <2>3, <3>1, InsertProperties DEF TypeOK
    <3>3. reading \in Places
      BY <2>1 DEF f, TypeOK, Places
    <3>4. place' \in [Msgs -> Places] /\ fileutilization' \in [FileIds -> Int]
      BY <2>1, <2>3, <3>1, <3>3 DEF TypeOK
    <3>5. hasTTL' \in BOOLEAN
      BY <3>1 DEF TypeOK
    <3>6. TypeOK'
      BY <2>1, <2>4, <2>5, <3>2, <3>4, <3>5 DEF TypeOK
    <3>7. PositionsInIndex'
      BY <2>5, <3>2 DEF PositionsInIndex
    <3> QED BY <3>6, <3>7
  <2>7. CASE r.state # "live"
    <3>1. UNCHANGED <<index, place, fileutilization, hasTTL>>
      BY <1>1, <2>7 DEF RecoverRecord
    <3> HIDE DEF f, r
    <3>2. TypeOK'
      BY <2>1, <2>4, <2>5, <3>1 DEF TypeOK
    <3>3. PositionsInIndex'
      BY <2>5, <3>1 DEF PositionsInIndex
    <3> QED BY <3>2, <3>3
  <2> QED BY <2>6, <2>7
<1>2. CASE RecoverNextFile
  <2>1. reading' \in [file : 0 .. MaxFile + 1, offset : Nat]
    BY <1>2, StorageAssumption DEF RecoverNextFile, TypeOK, FileIds
  <2>2. mode = "recovering" /\ UNCHANGED <<mode, memoryVars, storageVars, ttlVars, removing>>
    BY <1>2 DEF RecoverNextFile
  <2>3. TypeOK'
    BY <2>1, <2>2 DEF TypeOK, memoryVars, storageVars, ttlVars
  <2>4. PositionsInIndex'
    BY <2>2 DEF PositionsInIndex, memoryVars, ttlVars
  <2> QED BY <2>3, <2>4
<1>3. CASE Recovered
  <2>1. TypeOK'
    BY <1>3 DEF Recovered, TypeOK, memoryVars, storageVars, ttlVars, scanVars
  <2>2. PositionsInIndex'
    BY <1>3 DEF Recovered, PositionsInIndex, memoryVars, ttlVars
  <2> QED BY <2>1, <2>2
<1> QED BY <1>1, <1>2, <1>3 DEF Recovery

(* Every step of the queue keeps the types and the positions.              *)
LEMMA NextKeepsMemory == MemoryInv /\ [Next]_vars => MemoryInv'
<1> SUFFICES ASSUME MemoryInv, [Next]_vars PROVE MemoryInv'
  OBVIOUS
<1>1. CASE UNCHANGED vars
  <2>1. TypeOK'
    BY <1>1 DEF vars, MemoryInv, TypeOK, memoryVars, storageVars, ttlVars, scanVars
  <2>2. PositionsInIndex'
    BY <1>1 DEF vars, MemoryInv, PositionsInIndex, memoryVars, ttlVars, scanVars, Where
  <2> QED BY <2>1, <2>2 DEF MemoryInv
<1>2. CASE Next
  BY <1>2, CursorOperationKeeps, EnqueueKeeps, ExpiryKeeps, FinishRemovalKeeps, CrashKeeps,
     RecoveryKeeps DEF Next
<1> QED BY <1>1, <1>2

(* In every reachable state the variables have their types and every       *)
(* position is on an entry of the index, at the end, or marked invalid.    *)
THEOREM MemoryInvariant == Spec => []MemoryInv
BY InitMemory, NextKeepsMemory, PTL DEF Spec

(* Every variable keeps its type, whatever the clients do with the handles *)
(* and however often the server dies.                                      *)
THEOREM TypeCorrect == Spec => []TypeOK
<1>1. MemoryInv => TypeOK
  BY DEF MemoryInv
<1> QED BY <1>1, MemoryInvariant, PTL

(* No cursor of the queue, not the one TTLPurge() walks with either, ever  *)
(* stands on an entry that has been erased from the index: erase() reaches *)
(* every cursor that was on it.                                            *)
THEOREM NoCursorDangles == Spec => []NoDanglingCursor
<1>1. MemoryInv => NoDanglingCursor
  BY SpecialPositions
     DEF MemoryInv, PositionsInIndex, NoDanglingCursor, OpenHandles, Where
<1> QED BY <1>1, MemoryInvariant, PTL
-----------------------------------------------------------------------------
(***************************************************************************)
(* Proofs that the index of a queue and its storage files agree, for any   *)
(* number of messages and files and any size of files: no operation, crash *)
(* or recovery loses a message, brings one in twice, or miscounts a file.  *)
(*                                                                         *)
(* None of the properties is inductive alone.  A file is deleted when its  *)
(* count is used up, so that an entry keeps its record only if the counts  *)
(* are exact; the counts are exact only if a message is in the index once; *)
(* recovery brings it in once only if it is on disk once; and what is true *)
(* of the records holds during recovery for those read so far.             *)
(***************************************************************************)

(* Has recovery dealt with record i of file f?                             *)
Read(f, i) ==
    \/ mode # "recovering"
    \/ f < reading.file
    \/ f = reading.file /\ i < reading.offset

Live(f, i) == i \in DOMAIN files[f] /\ files[f][i].state = "live"

RecordsUnique ==
    \A f, g \in FileIds : \A i \in DOMAIN files[f], j \in DOMAIN files[g] :
        files[f][i].msg = files[g][j].msg => f = g /\ i = j

EntriesStored ==
    \A m \in Range(index) :
        /\ place[m].file \in FileIds
        /\ place[m].offset \in DOMAIN files[place[m].file]
        /\ files[place[m].file][place[m].offset].msg = m
        /\ Live(place[m].file, place[m].offset) <=> m \notin Leaving
        /\ Read(place[m].file, place[m].offset)

RecordsIndexed ==
    \A f \in FileIds : \A i \in DOMAIN files[f] :
        Live(f, i) /\ Read(f, i) =>
            /\ files[f][i].msg \in Range(index)
            /\ place[files[f][i].msg] = [file |-> f, offset |-> i]

(* What FileGoesWithLast asks of a step.                                   *)
GoesWithLast ==
    mode' # "recovering" => \A f \in FileIds : LastEntryGoes(f) <=> FileGoes(f)

StorageInv ==
    /\ reading.offset >= 1
    /\ IsInjective(index)
    /\ RecordsUnique
    /\ EntriesStored
    /\ RecordsIndexed
    /\ UtilizationExact

(* A file is a sequence of records.                                        *)
LEMMA FilesType ==
  ASSUME TypeOK
  PROVE  \A f \in FileIds : /\ files[f] \in Seq(Records)
                            /\ Len(files[f]) \in Nat
                            /\ DOMAIN files[f] = 1 .. Len(files[f])
                            /\ \A i \in DOMAIN files[f] : files[f][i] \in Records
<1>1. \A f \in FileIds : files[f] \in Seq(Records)
  BY DEF TypeOK
<1> QED BY <1>1

(* The messages of a file can be counted.                                  *)
LEMMA StoredInFinite ==
  ASSUME TypeOK, NEW f
  PROVE  IsFiniteSet(StoredIn(f)) /\ Cardinality(StoredIn(f)) \in Nat
<1>1. StoredIn(f) \subseteq Msgs /\ IsFiniteSet(Msgs)
  BY SearchType, IndexAssumption DEF StoredIn
<1>2. IsFiniteSet(StoredIn(f))
  BY <1>1, FS_Subset
<1> QED BY <1>2, FS_CardinalityType

(* The queue starts with no files and no entries.                          *)
LEMMA InitStorage == Init => StorageInv
<1> SUFFICES ASSUME Init PROVE StorageInv
  OBVIOUS
<1>1. index = <<>> /\ Range(index) = {} /\ \A f \in FileIds : files[f] = <<>>
  BY DEF Init, Range
<1>2. \A f \in FileIds : StoredIn(f) = {} /\ fileutilization[f] = 0
  BY <1>1 DEF StoredIn, Init
<1>3. UtilizationExact
  BY <1>2, FS_EmptySet DEF UtilizationExact
<1>4. reading.offset >= 1 /\ IsInjective(index)
  BY <1>1 DEF Init, IsInjective
<1>5. RecordsUnique /\ EntriesStored /\ RecordsIndexed
  BY <1>1 DEF RecordsUnique, EntriesStored, RecordsIndexed
<1> QED BY <1>3, <1>4, <1>5 DEF StorageInv

(* A step that touches neither index nor files, and changes neither which  *)
(* records recovery has read nor which message is leaving.                 *)
LEMMA OtherStepKeepsStorage ==
  ASSUME StorageInv, UNCHANGED <<index, place, files, fileutilization>>,
         reading'.offset >= 1, Leaving' = Leaving,
         \A f \in FileIds : \A i \in DOMAIN files[f] : Read(f, i)' <=> Read(f, i)
  PROVE  StorageInv' /\ GoesWithLast
<1>1. IsInjective(index)' /\ RecordsUnique'
  BY DEF StorageInv, RecordsUnique, IsInjective
<1>2. \A f, i : Live(f, i)' <=> Live(f, i)
  BY DEF Live
<1>3. EntriesStored'
  BY <1>2 DEF StorageInv, EntriesStored
<1>4. RecordsIndexed'
  BY <1>2 DEF StorageInv, RecordsIndexed
<1>5. UtilizationExact' /\ \A f : StoredIn(f)' = StoredIn(f)
  BY DEF StorageInv, UtilizationExact, StoredIn
<1>6. GoesWithLast
  BY <1>5 DEF GoesWithLast, LastEntryGoes, FileGoes
<1> QED BY <1>1, <1>3, <1>4, <1>5, <1>6 DEF StorageInv

(* The record of an entry is the entry's alone.                            *)
LEMMA OwnRecord ==
  ASSUME MemoryInv, StorageInv, NEW m \in Range(index),
         NEW f, NEW i, f = place[m].file, i = place[m].offset
  PROVE  /\ m \in Msgs /\ f \in FileIds /\ i \in DOMAIN files[f]
         /\ files[f][i].msg = m /\ Read(f, i)
         /\ \A g \in FileIds : \A j \in DOMAIN files[g] :
               files[g][j].msg = m => g = f /\ j = i
<1>1. m \in Msgs
  BY SearchType DEF MemoryInv
<1>2. f \in FileIds /\ i \in DOMAIN files[f] /\ files[f][i].msg = m /\ Read(f, i)
  BY DEF StorageInv, EntriesStored
<1> QED BY <1>1, <1>2 DEF StorageInv, RecordsUnique

(* Marking a message's record makes it the one that is leaving.            *)
LEMMA MarkMessageKeepsStorage ==
  ASSUME MemoryInv, StorageInv, mode # "recovering", mode' # "recovering",
         NEW m \in Range(index), MarkMessage(m), UNCHANGED reading,
         Leaving = {}, Leaving' = {m}
  PROVE  StorageInv' /\ GoesWithLast
<1> PICK f, i : f = place[m].file /\ i = place[m].offset
  OBVIOUS
<1>0. TypeOK
  BY DEF MemoryInv
<1>1. /\ f \in FileIds /\ i \in DOMAIN files[f] /\ files[f][i].msg = m
      /\ \A g \in FileIds : \A j \in DOMAIN files[g] :
            files[g][j].msg = m => g = f /\ j = i
  BY OwnRecord
<1>2. UNCHANGED <<index, place, fileutilization>>
  BY DEF MarkMessage
<1>3. /\ files'[f] = MarkPurged(f, i)
      /\ \A g \in FileIds : g # f => files'[g] = files[g]
  BY <1>0, <1>1 DEF MarkMessage, TypeOK
<1>4. ASSUME NEW g \in FileIds
      PROVE  /\ DOMAIN files'[g] = DOMAIN files[g]
             /\ \A j \in DOMAIN files[g] :
                   /\ files'[g][j].msg = files[g][j].msg
                   /\ Live(g, j)' <=> Live(g, j) /\ ~ (g = f /\ j = i)
  <2>1. CASE g # f
    BY <2>1, <1>3 DEF Live
  <2>2. CASE g = f
    BY <2>2, <1>0, <1>1, <1>3, MarkPurgedType DEF Live
  <2> QED BY <2>1, <2>2
<1>5. \A g, j : Read(g, j)' /\ Read(g, j)
  BY DEF Read
<1>6. RecordsUnique'
  BY <1>4 DEF StorageInv, RecordsUnique
<1>7. EntriesStored'
  <2> SUFFICES ASSUME NEW n \in Range(index), NEW g, NEW j,
                      g = place[n].file, j = place[n].offset
               PROVE  /\ g \in FileIds /\ j \in DOMAIN files'[g]
                      /\ files'[g][j].msg = n
                      /\ Live(g, j)' <=> n # m
    BY <1>2, <1>5 DEF EntriesStored, Live
  <2>1. /\ g \in FileIds /\ j \in DOMAIN files[g] /\ files[g][j].msg = n
        /\ Live(g, j)
    BY DEF StorageInv, EntriesStored
  <2>2. g = f /\ j = i <=> n = m
    BY <2>1, <1>1
  <2> QED BY <2>1, <2>2, <1>4
<1>8. RecordsIndexed'
  BY <1>2, <1>4, <1>5 DEF StorageInv, RecordsIndexed, Live
<1>9. /\ UtilizationExact' /\ IsInjective(index)' /\ reading'.offset >= 1
      /\ \A g : StoredIn(g)' = StoredIn(g)
  BY <1>2 DEF StorageInv, UtilizationExact, StoredIn, IsInjective
<1>10. \A g \in FileIds : ~ FileGoes(g)
  <2> SUFFICES ASSUME NEW g \in FileIds, files[g] # <<>>, files'[g] = <<>>
               PROVE  FALSE
    BY DEF FileGoes
  <2>1. DOMAIN files[g] = {}
    BY <1>4
  <2>2. DOMAIN files[g] # {}
    BY <1>0, FilesType
  <2> QED BY <2>1, <2>2
<1>11. GoesWithLast
  BY <1>9, <1>10 DEF GoesWithLast, LastEntryGoes
<1> QED BY <1>6, <1>7, <1>8, <1>9, <1>11 DEF StorageInv

(* Erasing an entry whose record is marked: its file goes only with its    *)
(* last entry.                                                             *)
LEMMA EraseMessageKeepsStorage ==
  ASSUME MemoryInv, StorageInv, mode # "recovering", mode' # "recovering",
         NEW m \in Range(index), EraseMessage(m), UNCHANGED reading,
         Leaving = {m}, Leaving' = {}
  PROVE  StorageInv' /\ GoesWithLast
<1> PICK f, i : f = place[m].file /\ i = place[m].offset
  OBVIOUS
<1>0. TypeOK /\ index \in Seq(Msgs)
  BY DEF MemoryInv, TypeOK
<1>1. /\ f \in FileIds /\ i \in DOMAIN files[f] /\ files[f][i].msg = m
      /\ \A g \in FileIds : \A j \in DOMAIN files[g] :
            files[g][j].msg = m => g = f /\ j = i
  BY OwnRecord
<1>2. IsInjective(index') /\ Range(index') = Range(index) \ {m} /\ UNCHANGED place
  BY <1>0, EraseInjective DEF EraseMessage, EraseEntry, StorageInv
<1>3. /\ \A g : StoredIn(g)' = StoredIn(g) \ {m}
      /\ m \in StoredIn(f)
      /\ \A g : g # f => StoredIn(g) \ {m} = StoredIn(g)
  BY <1>2 DEF StoredIn
<1>4. fileutilization'[f] = Cardinality(StoredIn(f) \ {m})
  <2>1. Cardinality(StoredIn(f) \ {m}) = Cardinality(StoredIn(f)) - 1
    BY <1>0, <1>3, StoredInFinite, FS_RemoveElement
  <2>2. fileutilization'[f] = fileutilization[f] - 1
    BY <1>0, <1>1 DEF EraseMessage, TypeOK
  <2> QED BY <2>1, <2>2, <1>1 DEF StorageInv, UtilizationExact
<1>5. UtilizationExact'
  <2>1. \A g \in FileIds \ {f} : fileutilization'[g] = fileutilization[g]
    BY <1>0, <1>1 DEF EraseMessage, TypeOK
  <2>2. \A g \in FileIds : fileutilization'[g] = Cardinality(StoredIn(g)')
    BY <2>1, <1>3, <1>4 DEF StorageInv, UtilizationExact
  <2> QED BY <2>2 DEF UtilizationExact
<1>6. /\ \A g \in FileIds : g # f => files'[g] = files[g]
      /\ files'[f] = IF StoredIn(f) \ {m} = {} THEN <<>> ELSE files[f]
  <2>1. IsFiniteSet(StoredIn(f) \ {m})
    BY <1>0, StoredInFinite, FS_Subset
  <2>2. /\ Cardinality(StoredIn(f) \ {m}) \in Nat
        /\ Cardinality(StoredIn(f) \ {m}) = 0 <=> StoredIn(f) \ {m} = {}
    BY <2>1, FS_CardinalityType, FS_EmptySet
  <2>3. fileutilization'[f] <= 0 <=> StoredIn(f) \ {m} = {}
    BY <2>2, <1>4
  <2> QED BY <2>3, <1>0, <1>1 DEF EraseMessage, TypeOK
(* What a record of files' was before.                                     *)
<1>7. ASSUME NEW g \in FileIds, NEW j \in DOMAIN files'[g]
      PROVE  /\ j \in DOMAIN files[g] /\ files'[g][j].msg = files[g][j].msg
             /\ Live(g, j)' <=> Live(g, j)
  <2>1. CASE files'[g] = files[g]
    BY <2>1 DEF Live
  <2>2. CASE files'[g] = <<>>
    BY <2>2
  <2> QED BY <2>1, <2>2, <1>6
<1>8. \A g, j : Read(g, j)' /\ Read(g, j)
  BY DEF Read
<1>9. RecordsUnique'
  BY <1>7 DEF StorageInv, RecordsUnique
<1>10. EntriesStored'
  <2> SUFFICES ASSUME NEW n \in Range(index'), NEW g, NEW j,
                      g = place[n].file, j = place[n].offset
               PROVE  /\ g \in FileIds /\ j \in DOMAIN files'[g]
                      /\ files'[g][j].msg = n /\ Live(g, j)'
    BY <1>2, <1>8 DEF EntriesStored, Live
  <2>1. n \in Range(index) /\ n # m
    BY <1>2
  <2>2. /\ g \in FileIds /\ j \in DOMAIN files[g] /\ files[g][j].msg = n
        /\ Live(g, j)
    BY <2>1 DEF StorageInv, EntriesStored
  <2>3. g = f => n \in StoredIn(f) \ {m}
    BY <2>1 DEF StoredIn
  <2>4. files'[g] = files[g]
    BY <2>2, <2>3, <1>6
  <2> QED BY <2>2, <2>4 DEF Live
<1>11. RecordsIndexed'
  <2> SUFFICES ASSUME NEW g \in FileIds, NEW j \in DOMAIN files'[g], Live(g, j)'
               PROVE  /\ files'[g][j].msg \in Range(index')
                      /\ place[files'[g][j].msg] = [file |-> g, offset |-> j]
    BY <1>2 DEF RecordsIndexed
  <2>1. /\ j \in DOMAIN files[g] /\ files'[g][j].msg = files[g][j].msg /\ Live(g, j)
    BY <1>7
  <2>2. /\ files[g][j].msg \in Range(index)
        /\ place[files[g][j].msg] = [file |-> g, offset |-> j]
    BY <2>1, <1>8 DEF StorageInv, RecordsIndexed
  <2>3. files[g][j].msg # m
    <3>1. ~ Live(f, i)
      BY DEF StorageInv, EntriesStored
    <3> QED BY <3>1, <2>1, <1>1
  <2> QED BY <2>1, <2>2, <2>3, <1>2
<1>12. ASSUME NEW g \in FileIds PROVE LastEntryGoes(g) <=> FileGoes(g)
  <2>1. CASE g # f
    BY <2>1, <1>3, <1>6 DEF LastEntryGoes, FileGoes
  <2>2. CASE g = f
    <3>1. files[f] # <<>> /\ StoredIn(f) # {}
      BY <1>1, <1>3
    <3> QED BY <3>1, <2>2, <1>3, <1>6 DEF LastEntryGoes, FileGoes
  <2> QED BY <2>1, <2>2
<1>13. reading'.offset >= 1
  BY DEF StorageInv
<1> QED BY <1>2, <1>5, <1>9, <1>10, <1>11, <1>12, <1>13 DEF StorageInv, GoesWithLast

(* Storing a message that is not on disk yet gives it the place behind the *)
(* last record, and counts it once.                                        *)
LEMMA EnqueueKeepsStorage ==
  ASSUME MemoryInv, StorageInv, NEW m \in Msgs, Enqueue(m)
  PROVE  StorageInv' /\ GoesWithLast
<1> PICK f : f = currentfileid
  OBVIOUS
<1> PICK last : last = Len(files[f]) + 1
  OBVIOUS
<1> DEFINE s == Append(files[f], [msg |-> m, state |-> "live"])
<1>0. TypeOK /\ index \in Seq(Msgs)
  BY DEF MemoryInv, TypeOK
<1>1. f \in FileIds /\ files[f] \in Seq(Records) /\ Len(files[f]) \in Nat
      /\ DOMAIN files[f] = 1 .. Len(files[f])
  BY <1>0, FilesType DEF Enqueue
<1>2. /\ DOMAIN s = 1 .. last /\ Len(s) = last
      /\ s[last].msg = m /\ s[last].state = "live"
      /\ \A j \in DOMAIN files[f] : s[j] = files[f][j]
  <2>1. [msg |-> m, state |-> "live"] \in Records
    BY DEF Records
  <2> QED BY <2>1, <1>1
<1>3. /\ files' = [files EXCEPT ![f] = s]
      /\ place' = [place EXCEPT ![m] = [file |-> f, offset |-> last]]
      /\ fileutilization' = [fileutilization EXCEPT ![f] = @ + 1]
      /\ index' = Insert(index, m)
      /\ mode = "running"
      /\ UNCHANGED <<mode, reading>>
      /\ Leaving = {} /\ Leaving' = {}
      /\ ~ OnDisk(m)
  BY <1>2 DEF Enqueue, scanVars, Leaving
<1> HIDE DEF s
<1>4. /\ files'[f] = s
      /\ \A g \in FileIds : g # f => files'[g] = files[g]
      /\ place'[m] = [file |-> f, offset |-> last]
      /\ \A n \in Msgs : n # m => place'[n] = place[n]
  BY <1>0, <1>1, <1>3 DEF TypeOK
<1>5. \A g \in FileIds : \A j \in DOMAIN files[g] : files[g][j].msg # m
  BY <1>3 DEF OnDisk
<1>6. m \notin Range(index) /\ Range(index) \subseteq Msgs
  BY <1>0, <1>5, SearchType DEF StorageInv, EntriesStored, Live
<1>7. IsInjective(index') /\ Range(index') = Range(index) \cup {m}
  BY <1>0, <1>3, <1>6, InsertInjective, InsertProperties DEF StorageInv
<1>8. \A g \in FileIds : \A j : Read(g, j)' /\ Read(g, j)
  BY <1>3 DEF Read
(* What a record of files' was before.                                     *)
<1>9. ASSUME NEW g \in FileIds, NEW j \in DOMAIN files'[g], ~ (g = f /\ j = last)
      PROVE  /\ j \in DOMAIN files[g] /\ files'[g][j].msg = files[g][j].msg
             /\ Live(g, j)' <=> Live(g, j)
  <2>1. CASE g # f
    BY <2>1, <1>4 DEF Live
  <2>2. CASE g = f
    <3>1. j \in DOMAIN files[f]
      BY <2>2, <1>1, <1>2, <1>4, <1>9
    <3> QED BY <3>1, <2>2, <1>2, <1>4 DEF Live
  <2> QED BY <2>1, <2>2
<1>10. last \in DOMAIN files'[f] /\ files'[f][last].msg = m /\ Live(f, last)'
  <2>1. last \in 1 .. last
    BY <1>1
  <2> QED BY <2>1, <1>2, <1>4 DEF Live
<1>11. ASSUME NEW g \in FileIds, NEW j \in DOMAIN files[g]
       PROVE  /\ j \in DOMAIN files'[g] /\ files'[g][j].msg = files[g][j].msg
              /\ Live(g, j)' <=> Live(g, j)
  <2>1. CASE g # f
    BY <2>1, <1>4 DEF Live
  <2>2. CASE g = f
    <3>1. j \in 1 .. last
      BY <2>2, <1>1
    <3> QED BY <3>1, <2>2, <1>2, <1>4 DEF Live
  <2> QED BY <2>1, <2>2
<1>12. RecordsUnique'
  <2> SUFFICES ASSUME NEW g \in FileIds, NEW h \in FileIds,
                      NEW i \in DOMAIN files'[g], NEW j \in DOMAIN files'[h],
                      files'[g][i].msg = files'[h][j].msg
               PROVE  g = h /\ i = j
    BY DEF RecordsUnique
  <2>1. CASE (g = f /\ i = last) \/ (h = f /\ j = last)
    BY <2>1, <1>5, <1>9, <1>10
  <2>2. CASE ~ (g = f /\ i = last) /\ ~ (h = f /\ j = last)
    BY <2>2, <1>9 DEF StorageInv, RecordsUnique
  <2> QED BY <2>1, <2>2
<1>13. EntriesStored'
  <2> SUFFICES ASSUME NEW n \in Range(index'), NEW g, NEW j,
                      g = place'[n].file, j = place'[n].offset
               PROVE  /\ g \in FileIds /\ j \in DOMAIN files'[g]
                      /\ files'[g][j].msg = n /\ Live(g, j)'
    BY <1>3, <1>8 DEF EntriesStored, Live
  <2>1. CASE n = m
    BY <2>1, <1>1, <1>4, <1>10
  <2>2. CASE n # m
    <3>1. n \in Range(index) /\ g = place[n].file /\ j = place[n].offset
      BY <2>2, <1>4, <1>6, <1>7
    <3>2. /\ g \in FileIds /\ j \in DOMAIN files[g] /\ files[g][j].msg = n
          /\ Live(g, j)
      BY <3>1, <1>3 DEF StorageInv, EntriesStored
    <3> QED BY <3>2, <1>11
  <2> QED BY <2>1, <2>2
<1>14. RecordsIndexed'
  <2> SUFFICES ASSUME NEW g \in FileIds, NEW j \in DOMAIN files'[g], Live(g, j)'
               PROVE  /\ files'[g][j].msg \in Range(index')
                      /\ place'[files'[g][j].msg] = [file |-> g, offset |-> j]
    BY DEF RecordsIndexed
  <2>1. CASE g = f /\ j = last
    BY <2>1, <1>4, <1>7, <1>10
  <2>2. CASE ~ (g = f /\ j = last)
    <3>1. /\ j \in DOMAIN files[g] /\ files'[g][j].msg = files[g][j].msg
          /\ Live(g, j) /\ Read(g, j)
      BY <2>2, <1>8, <1>9
    <3>2. /\ files[g][j].msg \in Range(index)
          /\ place[files[g][j].msg] = [file |-> g, offset |-> j]
      BY <3>1 DEF StorageInv, RecordsIndexed
    <3> QED BY <3>1, <3>2, <1>4, <1>5, <1>6, <1>7
  <2> QED BY <2>1, <2>2
<1>15. GoesWithLast
  <2> SUFFICES ASSUME NEW g \in FileIds PROVE ~ LastEntryGoes(g) /\ ~ FileGoes(g)
    BY DEF GoesWithLast
  <2>1. files[g] # <<>> => files'[g] # <<>>
    <3>1. ASSUME files[g] # <<>> PROVE DOMAIN files[g] # {}
      BY <3>1, <1>0, FilesType
    <3> QED BY <3>1, <1>11
  <2>2. StoredIn(g) \subseteq StoredIn(g)'
    BY <1>4, <1>6, <1>7 DEF StoredIn
  <2> QED BY <2>1, <2>2 DEF LastEntryGoes, FileGoes
<1>16. UtilizationExact'
  <2>1. StoredIn(f)' = StoredIn(f) \cup {m} /\ m \notin StoredIn(f)
    BY <1>4, <1>6, <1>7 DEF StoredIn
  <2>2. Cardinality(StoredIn(f)') = Cardinality(StoredIn(f)) + 1
    BY <2>1, <1>0, StoredInFinite, FS_AddElement
  <2>3. fileutilization'[f] = Cardinality(StoredIn(f)')
    BY <2>2, <1>0, <1>1, <1>3 DEF StorageInv, UtilizationExact, TypeOK
  <2>4. ASSUME NEW g \in FileIds, g # f
        PROVE  fileutilization'[g] = Cardinality(StoredIn(g)')
    <3>1. StoredIn(g)' = StoredIn(g)
      BY <2>4, <1>4, <1>6, <1>7 DEF StoredIn
    <3>2. fileutilization'[g] = fileutilization[g]
      BY <2>4, <1>0, <1>3 DEF TypeOK
    <3> QED BY <3>1, <3>2 DEF StorageInv, UtilizationExact
  <2> QED BY <2>3, <2>4 DEF UtilizationExact
<1>17. reading'.offset >= 1
  BY <1>3 DEF StorageInv
<1> QED BY <1>7, <1>12, <1>13, <1>14, <1>15, <1>16, <1>17 DEF StorageInv

(* A crash leaves no entry and nothing read, and the files as they are.    *)
LEMMA CrashKeepsStorage ==
  ASSUME MemoryInv, StorageInv, Crash
  PROVE  StorageInv' /\ GoesWithLast
<1>0. TypeOK
  BY DEF MemoryInv
<1>1. /\ index' = <<>> /\ mode' = "recovering" /\ UNCHANGED files
      /\ reading' = [file |-> 0, offset |-> 1]
      /\ fileutilization' = [f \in FileIds |-> 0]
  BY DEF Crash
<1>2. Range(index') = {} /\ \A f \in FileIds : StoredIn(f)' = {}
  BY <1>1 DEF StoredIn, Range
<1>3. ASSUME NEW f \in FileIds, NEW i \in DOMAIN files'[f]
      PROVE  ~ Read(f, i)'
  <2>1. i \in Nat /\ i >= 1 /\ f \in Nat
    BY <1>0, <1>1, FilesType DEF FileIds
  <2>2. /\ reading'.file = 0 /\ reading'.offset = 1
    BY <1>1
  <2> QED BY <2>1, <2>2, <1>1 DEF Read
<1>4. RecordsUnique'
  BY <1>1 DEF StorageInv, RecordsUnique
<1>5. EntriesStored' /\ RecordsIndexed'
  BY <1>2, <1>3 DEF EntriesStored, RecordsIndexed
<1>6. UtilizationExact'
  BY <1>1, <1>2, FS_EmptySet DEF UtilizationExact
<1>7. reading'.offset >= 1 /\ IsInjective(index)'
  BY <1>1 DEF IsInjective
<1>8. GoesWithLast
  BY <1>1 DEF GoesWithLast
<1> QED BY <1>4, <1>5, <1>6, <1>7, <1>8 DEF StorageInv

(* Recovery reads a record and, when it is live, brings its message in: it *)
(* was not in the index, whose entries have their records among those read *)
(* before.                                                                 *)
LEMMA RecoverRecordKeepsStorage ==
  ASSUME MemoryInv, StorageInv, RecoverRecord
  PROVE  StorageInv' /\ GoesWithLast
<1> PICK f : f = reading.file
  OBVIOUS
<1> PICK i : i = reading.offset
  OBVIOUS
<1> PICK m : m = files[f][i].msg
  OBVIOUS
<1>0. TypeOK /\ index \in Seq(Msgs)
  BY DEF MemoryInv, TypeOK
<1>1. /\ mode = "recovering" /\ mode' = "recovering"
      /\ f \in FileIds /\ i \in DOMAIN files[f]
      /\ reading' = [reading EXCEPT !.offset = i + 1]
      /\ UNCHANGED files
      /\ reading = [file |-> f, offset |-> i]
      /\ Leaving = {} /\ Leaving' = {}
  BY <1>0 DEF RecoverRecord, TypeOK, Leaving
<1>2. /\ f \in Nat /\ i \in Nat /\ i >= 1
      /\ reading'.file = f /\ reading'.offset = i + 1
  BY <1>0, <1>1, FilesType DEF FileIds
<1>3. m \in Msgs /\ files[f][i] \in Records
  BY <1>0, <1>1, FilesType DEF Records
<1>4. ASSUME NEW g \in FileIds, NEW j \in DOMAIN files[g]
      PROVE  /\ Live(g, j)' <=> Live(g, j)
             /\ Read(g, j)' <=> Read(g, j) \/ (g = f /\ j = i)
  <2>1. j \in Nat /\ g \in Nat
    BY <1>0, FilesType DEF FileIds
  <2>2. Read(g, j)' <=> Read(g, j) \/ (g = f /\ j = i)
    BY <2>1, <1>1, <1>2 DEF Read
  <2> QED BY <2>2, <1>1 DEF Live
<1>5. ~ Read(f, i)
  BY <1>1, <1>2 DEF Read
<1>6. RecordsUnique'
  BY <1>1 DEF StorageInv, RecordsUnique
<1>7. reading'.offset >= 1 /\ GoesWithLast
  BY <1>1, <1>2 DEF GoesWithLast
<1>8. CASE files[f][i].state = "live"
  <2>1. /\ index' = Insert(index, m)
        /\ place' = [place EXCEPT ![m] = [file |-> f, offset |-> i]]
        /\ fileutilization' = [fileutilization EXCEPT ![f] = @ + 1]
    BY <1>8, <1>1 DEF RecoverRecord
  <2>2. /\ place'[m] = [file |-> f, offset |-> i]
        /\ \A n \in Msgs : n # m => place'[n] = place[n]
    BY <2>1, <1>0, <1>3 DEF TypeOK
  <2>3. m \notin Range(index) /\ Range(index) \subseteq Msgs
    <3>1. ASSUME m \in Range(index) PROVE FALSE
      <4>1. PICK g, j : g = place[m].file /\ j = place[m].offset
        OBVIOUS
      <4>2. /\ g \in FileIds /\ j \in DOMAIN files[g] /\ files[g][j].msg = m
            /\ Read(g, j)
        BY <3>1, <4>1 DEF StorageInv, EntriesStored, Live
      <4>3. g = f /\ j = i
        BY <4>2, <1>1 DEF StorageInv, RecordsUnique
      <4> QED BY <4>2, <4>3, <1>5
    <3> QED BY <3>1, <1>0, SearchType
  <2>4. IsInjective(index') /\ Range(index') = Range(index) \cup {m}
    BY <2>1, <2>3, <1>0, <1>3, InsertInjective, InsertProperties DEF StorageInv
  <2>5. EntriesStored'
    <3> SUFFICES ASSUME NEW n \in Range(index'), NEW g, NEW j,
                        g = place'[n].file, j = place'[n].offset
                 PROVE  /\ g \in FileIds /\ j \in DOMAIN files[g]
                        /\ files[g][j].msg = n /\ Live(g, j)' /\ Read(g, j)'
      BY <1>1 DEF EntriesStored, Live, Read
    <3>1. CASE n = m
      BY <3>1, <2>2, <1>1, <1>4, <1>8 DEF Live
    <3>2. CASE n # m
      <4>1. n \in Range(index) /\ g = place[n].file /\ j = place[n].offset
        BY <3>2, <2>2, <2>3, <2>4
      <4>2. /\ g \in FileIds /\ j \in DOMAIN files[g] /\ files[g][j].msg = n
            /\ Live(g, j) /\ Read(g, j)
        BY <4>1, <1>1 DEF StorageInv, EntriesStored
      <4> QED BY <4>2, <1>4
    <3> QED BY <3>1, <3>2
  <2>6. RecordsIndexed'
    <3> SUFFICES ASSUME NEW g \in FileIds, NEW j \in DOMAIN files[g], Live(g, j), Read(g, j)'
                 PROVE  /\ files[g][j].msg \in Range(index')
                        /\ place'[files[g][j].msg] = [file |-> g, offset |-> j]
      BY <1>1, <1>4 DEF RecordsIndexed
    <3>1. CASE g = f /\ j = i
      BY <3>1, <2>2, <2>4
    <3>2. CASE ~ (g = f /\ j = i)
      <4>1. /\ files[g][j].msg \in Range(index)
            /\ place[files[g][j].msg] = [file |-> g, offset |-> j]
        BY <3>2, <1>4 DEF StorageInv, RecordsIndexed
      <4> QED BY <4>1, <2>2, <2>3, <2>4
    <3> QED BY <3>1, <3>2
  <2>7. UtilizationExact'
    <3>1. StoredIn(f)' = StoredIn(f) \cup {m} /\ m \notin StoredIn(f)
      BY <2>2, <2>3, <2>4 DEF StoredIn
    <3>2. Cardinality(StoredIn(f)') = Cardinality(StoredIn(f)) + 1
      BY <3>1, <1>0, StoredInFinite, FS_AddElement
    <3>3. fileutilization'[f] = Cardinality(StoredIn(f)')
      BY <3>2, <2>1, <1>0, <1>1 DEF StorageInv, UtilizationExact, TypeOK
    <3>4. ASSUME NEW g \in FileIds, g # f
          PROVE  fileutilization'[g] = Cardinality(StoredIn(g)')
      <4>1. StoredIn(g)' = StoredIn(g)
        BY <3>4, <2>2, <2>3, <2>4 DEF StoredIn
      <4>2. fileutilization'[g] = fileutilization[g]
        BY <3>4, <2>1, <1>0 DEF TypeOK
      <4> QED BY <4>1, <4>2 DEF StorageInv, UtilizationExact
    <3> QED BY <3>3, <3>4 DEF UtilizationExact
  <2> QED BY <2>4, <2>5, <2>6, <2>7, <1>6, <1>7 DEF StorageInv
<1>9. CASE files[f][i].state # "live"
  <2>1. UNCHANGED <<index, place, fileutilization>>
    BY <1>9, <1>1 DEF RecoverRecord
  <2>2. EntriesStored'
    <3> SUFFICES ASSUME NEW n \in Range(index), NEW g, NEW j,
                        g = place[n].file, j = place[n].offset
                 PROVE  /\ g \in FileIds /\ j \in DOMAIN files[g]
                        /\ files[g][j].msg = n /\ Live(g, j)' /\ Read(g, j)'
      BY <2>1, <1>1 DEF EntriesStored, Live, Read
    <3>1. /\ g \in FileIds /\ j \in DOMAIN files[g] /\ files[g][j].msg = n
          /\ Live(g, j) /\ Read(g, j)
      BY <1>1 DEF StorageInv, EntriesStored
    <3> QED BY <3>1, <1>4
  <2>3. RecordsIndexed'
    <3> SUFFICES ASSUME NEW g \in FileIds, NEW j \in DOMAIN files[g], Live(g, j), Read(g, j)'
                 PROVE  /\ files[g][j].msg \in Range(index)
                        /\ place[files[g][j].msg] = [file |-> g, offset |-> j]
      BY <2>1, <1>1, <1>4 DEF RecordsIndexed
    <3>1. Read(g, j)
      BY <1>4, <1>9 DEF Live
    <3> QED BY <3>1 DEF StorageInv, RecordsIndexed
  <2>4. UtilizationExact' /\ IsInjective(index)'
    BY <2>1 DEF StorageInv, UtilizationExact, StoredIn, IsInjective
  <2> QED BY <2>2, <2>3, <2>4, <1>6, <1>7 DEF StorageInv
<1> QED BY <1>8, <1>9

(* The steps of recover() between records leave index and files alone.     *)
LEMMA RecoveryKeepsStorage ==
  ASSUME MemoryInv, StorageInv, Recovery
  PROVE  StorageInv' /\ GoesWithLast
<1>0. TypeOK
  BY DEF MemoryInv
<1>1. CASE RecoverNextFile
  <2>1. /\ UNCHANGED <<index, place, files, fileutilization, mode>>
        /\ reading'.file = reading.file + 1 /\ reading'.offset = 1
        /\ reading.file \in FileIds /\ mode = "recovering"
        /\ reading.offset \notin DOMAIN files[reading.file]
        /\ Leaving' = Leaving
    BY <1>1 DEF RecoverNextFile, memoryVars, storageVars, Leaving
  <2>2. ASSUME NEW f \in FileIds, NEW i \in DOMAIN files[f]
        PROVE  Read(f, i)' <=> Read(f, i)
    <3>1. i \in Nat /\ i >= 1 /\ f \in Nat /\ reading.file \in Nat
      BY <2>1, <1>0, FilesType DEF FileIds
    <3>2. f = reading.file => i < reading.offset
      BY <2>1, <1>0, FilesType DEF StorageInv, TypeOK
    <3> QED BY <3>1, <3>2, <2>1 DEF Read
  <2> QED BY <2>1, <2>2, OtherStepKeepsStorage
<1>2. CASE Recovered
  <2>1. /\ UNCHANGED <<index, place, files, fileutilization, reading>>
        /\ reading.file \notin FileIds /\ mode' = "running"
        /\ Leaving' = Leaving
    BY <1>2 DEF Recovered, memoryVars, storageVars, scanVars, Leaving
  <2>2. ASSUME NEW f \in FileIds, NEW i \in DOMAIN files[f]
        PROVE  Read(f, i)' /\ Read(f, i)
    <3>1. reading.file = MaxFile + 1 /\ f < MaxFile + 1
      BY <2>1, <1>0, StorageAssumption DEF TypeOK, FileIds
    <3> QED BY <3>1, <2>1 DEF Read
  <2>3. reading'.offset >= 1
    BY <2>1 DEF StorageInv
  <2> QED BY <2>1, <2>2, <2>3, OtherStepKeepsStorage
<1> QED BY <1>1, <1>2, RecoverRecordKeepsStorage DEF Recovery

(* The steps that neither store nor remove a message.                      *)
LEMMA QuietStepKeepsStorage ==
  ASSUME StorageInv, UNCHANGED <<index, storageVars, reading>>,
         mode \in {"running", "purging"}, mode' \in {"running", "purging"}
  PROVE  StorageInv' /\ GoesWithLast
<1>1. /\ UNCHANGED <<index, place, files, fileutilization>>
      /\ reading'.offset >= 1
      /\ \A f \in FileIds : \A i \in DOMAIN files[f] : Read(f, i)' <=> Read(f, i)
  BY DEF storageVars, Read, StorageInv
<1>2. Leaving' = Leaving
  BY DEF Leaving
<1> QED BY <1>1, <1>2, OtherStepKeepsStorage

(* Of the cursor operations, only CancelEnqueue() and FinalizeRetrieve()   *)
(* touch the files: they mark the record of the message.                   *)
LEMMA CursorOperationKeepsStorage ==
  ASSUME MemoryInv, StorageInv, CursorOperation
  PROVE  StorageInv' /\ GoesWithLast
<1>1. ASSUME NEW h \in Handles, Consume(h) PROVE StorageInv' /\ GoesWithLast
  <2>1. PICK m : m = Where(h)
    OBVIOUS
  <2>2. m \in Range(index)
    BY <1>1, <2>1, SpecialPositions
       DEF Consume, Usable, Where, MemoryInv, PositionsInIndex
  <2>3. mode = "running" /\ mode' = "removing" /\ MarkMessage(m) /\ UNCHANGED reading
    BY <1>1, <2>1 DEF Consume
  <2>4. Leaving = {} /\ Leaving' = {m}
    BY <1>1, <2>1, <2>3 DEF Leaving, Consume, MarkMessage, Where
  <2> QED BY <2>2, <2>3, <2>4, MarkMessageKeepsStorage
<1>2. CASE \E h \in Handles : CancelEnqueue(h) \/ FinalizeRetrieve(h)
  BY <1>1, <1>2 DEF CancelEnqueue, FinalizeRetrieve
<1>3. CASE ~ \E h \in Handles : CancelEnqueue(h) \/ FinalizeRetrieve(h)
  <2>1. /\ UNCHANGED <<index, storageVars, reading>>
        /\ mode = "running" /\ mode' = "running"
    BY <1>3 DEF CursorOperation, OpenCursor, PeekFront, BeginRetrieve, BeginRetrieveID,
       WaitForID, CloseCursor, AdvanceCursor, BeginRetrieveCursor, FinalizeEnqueue,
       CancelRetrieve, Reveal, CursorCopy, SeekID, scanVars
  <2> QED BY <2>1, QuietStepKeepsStorage
<1> QED BY <1>2, <1>3

(* They then erase its entry.                                              *)
LEMMA FinishRemovalKeepsStorage ==
  ASSUME MemoryInv, StorageInv, FinishRemoval
  PROVE  StorageInv' /\ GoesWithLast
<1>1. PICK m : m = Where(removing)
  OBVIOUS
<1>2. m \in Range(index)
  BY <1>1, SpecialPositions
     DEF FinishRemoval, Usable, Where, MemoryInv, PositionsInIndex
<1>3. mode = "removing" /\ mode' = "running" /\ EraseMessage(m) /\ UNCHANGED reading
  BY <1>1 DEF FinishRemoval
<1>4. Leaving = {m} /\ Leaving' = {}
  BY <1>1, <1>3 DEF Leaving
<1> QED BY <1>2, <1>3, <1>4, EraseMessageKeepsStorage

(* TTLPurge() marks and erases in the same way.                            *)
LEMMA ExpiryKeepsStorage ==
  ASSUME MemoryInv, StorageInv, Expiry
  PROVE  StorageInv' /\ GoesWithLast
<1> PICK m : m = purgeAt
  OBVIOUS
<1>1. m \in Msgs => m \in Range(index)
  BY SpecialPositions DEF MemoryInv, PositionsInIndex
<1>2. CASE PurgeExpired
  <2>1. mode = "purging" /\ mode' = "expiring" /\ MarkMessage(m) /\ UNCHANGED <<purgeAt, reading>>
    BY <1>2 DEF PurgeExpired, ttlVars, scanVars
  <2>2. m \in Range(index)
    BY <1>1, <1>2, StorageAssumption DEF PurgeExpired, MemoryInv, TypeOK
  <2>3. Leaving = {} /\ Leaving' = {m}
    BY <2>1 DEF Leaving
  <2> QED BY <2>1, <2>2, <2>3, MarkMessageKeepsStorage
<1>3. CASE EraseExpired
  <2>1. mode = "expiring" /\ mode' = "purging" /\ EraseMessage(m) /\ UNCHANGED reading
    BY <1>3 DEF EraseExpired, scanVars
  <2>2. m \in Range(index)
    BY <2>1, SpecialPositions DEF MemoryInv, PositionsInIndex
  <2>3. Leaving = {m} /\ Leaving' = {}
    BY <2>1 DEF Leaving
  <2> QED BY <2>1, <2>2, <2>3, EraseMessageKeepsStorage
<1>4. CASE BeginTTLPurge \/ PurgeSkip \/ EndTTLPurge \/ \E n \in Msgs : Age(n)
  <2>1. /\ UNCHANGED <<index, storageVars, reading>>
        /\ mode \in {"running", "purging"} /\ mode' \in {"running", "purging"}
    BY <1>4 DEF BeginTTLPurge, PurgeSkip, EndTTLPurge, Age, memoryVars, scanVars
  <2> QED BY <2>1, QuietStepKeepsStorage
<1> QED BY <1>2, <1>3, <1>4 DEF Expiry

(* Every step of the queue keeps index and files in agreement.             *)
LEMMA NextKeepsStorage ==
  MemoryInv /\ StorageInv /\ [Next]_vars => StorageInv' /\ GoesWithLast
<1> SUFFICES ASSUME MemoryInv, StorageInv, [Next]_vars
             PROVE  StorageInv' /\ GoesWithLast
  OBVIOUS
<1>1. CASE UNCHANGED vars
  <2>1. /\ UNCHANGED <<index, place, files, fileutilization>>
        /\ reading'.offset >= 1
        /\ \A f \in FileIds : \A i \in DOMAIN files[f] : Read(f, i)' <=> Read(f, i)
    BY <1>1 DEF vars, memoryVars, storageVars, scanVars, Read, StorageInv
  <2>2. Leaving' = Leaving
    BY <1>1 DEF vars, memoryVars, ttlVars, scanVars, Leaving, Where
  <2> QED BY <2>1, <2>2, OtherStepKeepsStorage
<1>2. CASE Next
  BY <1>2, CursorOperationKeepsStorage, EnqueueKeepsStorage, FinishRemovalKeepsStorage,
     ExpiryKeepsStorage, CrashKeepsStorage, RecoveryKeepsStorage DEF Next
<1> QED BY <1>1, <1>2

(* The index and the storage files agree in every reachable state, through *)
(* crashes and recoveries.                                                 *)
THEOREM StorageInvariant == Spec => [](MemoryInv /\ StorageInv)
BY InitMemory, NextKeepsMemory, InitStorage, NextKeepsStorage, PTL DEF Spec

(* The count of a file, which decides when it is deleted, is the number of *)
(* its messages that are in the index.                                     *)
THEOREM CountsAreExact == Spec => []UtilizationExact
<1>1. StorageInv => UtilizationExact
  BY DEF StorageInv
<1> QED BY <1>1, StorageInvariant, PTL

(* No operation but the one that removes a message deletes or marks its    *)
(* record while it is in the index.                                        *)
THEOREM NoMessageLost == Spec => []EntryHasRecord
<1>1. MemoryInv /\ StorageInv => EntryHasRecord
  <2> SUFFICES ASSUME MemoryInv, StorageInv, NEW m \in Range(index)
               PROVE  /\ place[m].file \in FileIds
                      /\ place[m].offset \in DOMAIN files[place[m].file]
                      /\ files[place[m].file][place[m].offset] =
                            [msg |-> m, state |-> IF m \in Leaving THEN "purged" ELSE "live"]
    BY DEF EntryHasRecord
  <2>1. PICK f, i : f = place[m].file /\ i = place[m].offset
    OBVIOUS
  <2>2. /\ f \in FileIds /\ i \in DOMAIN files[f] /\ files[f][i].msg = m
        /\ files[f][i].state = "live" <=> m \notin Leaving
    BY <2>1 DEF StorageInv, EntriesStored, Live
  <2>3. files[f][i] \in Records
    BY <2>2, FilesType DEF MemoryInv
  <2>4. files[f][i] = [msg |-> m, state |-> IF m \in Leaving THEN "purged" ELSE "live"]
    BY <2>2, <2>3 DEF Records
  <2> QED BY <2>1, <2>2, <2>4
<1> QED BY <1>1, StorageInvariant, PTL

(* No live record is missing from the index of a running queue.            *)
THEOREM NoRecordForgotten == Spec => []RecordHasEntry
<1>1. StorageInv => RecordHasEntry
  BY DEF StorageInv, RecordsIndexed, RecordHasEntry, Live, Read
<1> QED BY <1>1, StorageInvariant, PTL

(* A storage file is deleted with the last entry kept in it, at no other   *)
(* time, and never later.                                                  *)
THEOREM FilesGoWithLast == Spec => FileGoesWithLast
<1>1. MemoryInv /\ StorageInv /\ [Next]_vars =>
          [mode' # "recovering" => \A f \in FileIds : LastEntryGoes(f) <=> FileGoes(f)]_vars
  BY NextKeepsStorage DEF GoesWithLast
<1> QED BY <1>1, StorageInvariant, PTL DEF Spec, FileGoesWithLast

(* The order of the index is that of the records, which recovery reads in  *)
(* turn: no entry's record is in a file behind the one written last.       *)
OrderInv ==
    /\ PriorityFifo
    /\ \A m \in Range(index) : place[m].file <= currentfileid

(* An entry whose record is the last one written keeps the order.          *)
LEMMA InsertKeepsFifo ==
  ASSUME TypeOK, PriorityFifo, NEW m \in Msgs, index' = Insert(index, m),
         \A n \in Range(index) : place'[n] = place[n],
         \A n \in Range(index) : WrittenBefore(n, m)'
  PROVE  PriorityFifo'
<1> DEFINE R == {p \in Msgs \X Msgs : WrittenBefore(p[1], p[2])'}
<1>0. index \in Seq(Msgs) /\ Range(index) \subseteq Msgs
  BY SearchType DEF TypeOK
<1>1. ASSUME NEW i \in DOMAIN index, NEW j \in DOMAIN index, i < j
      PROVE  \/ Priority[index[i]] > Priority[index[j]]
             \/ Priority[index[i]] = Priority[index[j]] /\ <<index[i], index[j]>> \in R
  <2>1. PICK n, o : n = index[i] /\ o = index[j] /\ n \in Range(index) /\ o \in Range(index)
    BY DEF Range
  <2>2. WrittenBefore(n, o) => WrittenBefore(n, o)'
    BY <2>1 DEF WrittenBefore
  <2>3. Priority[n] > Priority[o] \/ (Priority[n] = Priority[o] /\ WrittenBefore(n, o))
    BY <2>1, <1>1 DEF PriorityFifo, Ordered
  <2> QED BY <2>1, <2>2, <2>3, <1>0
<1>2. InOrder(index, R)
  BY <1>1 DEF InOrder, Ordered
<1>3. \A n \in Range(index) : <<n, m>> \in R
  BY <1>0
<1>4. \A n, o : <<n, o>> \in R => WrittenBefore(n, o)'
  OBVIOUS
<1> HIDE DEF R
<1>5. InOrder(index', R)
  BY <1>0, <1>2, <1>3, InsertOrdered
<1>6. ASSUME NEW i \in DOMAIN index', NEW j \in DOMAIN index', i < j
      PROVE  \/ Priority[index'[i]] > Priority[index'[j]]
             \/ /\ Priority[index'[i]] = Priority[index'[j]]
                /\ \/ place'[index'[i]].file < place'[index'[j]].file
                   \/ /\ place'[index'[i]].file = place'[index'[j]].file
                      /\ place'[index'[i]].offset < place'[index'[j]].offset
  <2>1. PICK n, o : n = index'[i] /\ o = index'[j]
    OBVIOUS
  <2>2. Priority[n] > Priority[o] \/ (Priority[n] = Priority[o] /\ <<n, o>> \in R)
    BY <2>1, <1>5, <1>6 DEF InOrder, Ordered
  <2>3. <<n, o>> \in R => WrittenBefore(n, o)'
    BY <1>4
  <2> QED BY <2>1, <2>2, <2>3 DEF WrittenBefore
<1> QED BY <1>6 DEF Ordered, PriorityFifo, WrittenBefore

(* Erasing an entry keeps the order of the others.                         *)
LEMMA EraseKeepsOrder ==
  ASSUME MemoryInv, OrderInv, NEW m \in Range(index), EraseEntry(m)
  PROVE  OrderInv'
<1> DEFINE R == {p \in Msgs \X Msgs : WrittenBefore(p[1], p[2])}
<1>0. index \in Seq(Msgs) /\ UNCHANGED <<place, currentfileid>> /\ index' = Erase(index, m)
  BY DEF MemoryInv, TypeOK, EraseEntry
<1>1. InOrder(index, R)
  BY <1>0 DEF OrderInv, PriorityFifo, InOrder, Ordered
<1> HIDE DEF R
<1>2. InOrder(index', R) /\ Range(index') \subseteq Range(index)
  BY <1>0, <1>1, EraseOrdered, EraseProperties
<1>3. \A n, o : <<n, o>> \in R => WrittenBefore(n, o)'
  BY <1>0 DEF WrittenBefore, R
<1>4. PriorityFifo'
  BY <1>2, <1>3 DEF InOrder, Ordered, PriorityFifo, WrittenBefore
<1> QED BY <1>0, <1>2, <1>4 DEF OrderInv

(* Enqueue() writes behind every record of the queue.                      *)
LEMMA EnqueueKeepsOrder ==
  ASSUME MemoryInv, StorageInv, OrderInv, NEW m \in Msgs, Enqueue(m)
  PROVE  OrderInv'
<1> PICK f : f = currentfileid
  OBVIOUS
<1> DEFINE last == Len(Append(files[f], [msg |-> m, state |-> "live"]))
<1>0. TypeOK /\ f \in FileIds /\ f \in Nat /\ files[f] \in Seq(Records)
  BY FilesType DEF MemoryInv, Enqueue, FileIds
<1>1. /\ index' = Insert(index, m)
      /\ place' = [place EXCEPT ![m] = [file |-> f, offset |-> last]]
      /\ currentfileid' \in {f, f + 1}
      /\ ~ OnDisk(m)
  BY DEF Enqueue
<1>2. last = Len(files[f]) + 1 /\ Len(files[f]) \in Nat
  <2>1. [msg |-> m, state |-> "live"] \in Records
    BY DEF Records
  <2> QED BY <2>1, <1>0
<1> HIDE DEF last
<1>3. m \notin Range(index) /\ Range(index) \subseteq Msgs
  BY <1>0, <1>1, SearchType DEF StorageInv, EntriesStored, OnDisk
<1>4. /\ place'[m] = [file |-> f, offset |-> last]
      /\ \A n \in Range(index) : place'[n] = place[n]
  BY <1>0, <1>1, <1>3 DEF TypeOK
<1>5. ASSUME NEW n \in Range(index) PROVE WrittenBefore(n, m)' /\ place[n].file <= f
  <2>1. /\ place[n].file \in FileIds /\ place[n].file <= f
        /\ place[n].offset \in DOMAIN files[place[n].file]
    BY DEF StorageInv, EntriesStored, OrderInv
  <2>2. place[n].file \in Nat
    BY <2>1 DEF FileIds
  <2>3. place[n].file = f => place[n].offset < last
    BY <2>1, <1>0, <1>2
  <2> QED BY <2>1, <2>2, <2>3, <1>0, <1>4 DEF WrittenBefore
<1>6. PriorityFifo'
  BY <1>0, <1>1, <1>4, <1>5, InsertKeepsFifo DEF OrderInv
<1>7. Range(index') = Range(index) \cup {m}
  BY <1>0, <1>1, InsertProperties DEF TypeOK
<1>8. ASSUME NEW n \in Range(index') PROVE place'[n].file <= currentfileid'
  <2>1. CASE n = m
    BY <2>1, <1>0, <1>1, <1>4
  <2>2. CASE n \in Range(index)
    <3>1. place'[n].file <= f /\ place[n].file \in Nat
      BY <2>2, <1>4, <1>5 DEF StorageInv, EntriesStored, FileIds
    <3> QED BY <3>1, <2>2, <1>0, <1>1, <1>4
  <2> QED BY <2>1, <2>2, <1>7
<1> QED BY <1>6, <1>8 DEF OrderInv

(* recover_file() reads behind every record it has read.                   *)
LEMMA RecoverRecordKeepsOrder ==
  ASSUME MemoryInv, StorageInv, OrderInv, RecoverRecord
  PROVE  OrderInv'
<1> PICK f, i, m : f = reading.file /\ i = reading.offset /\ m = files[f][i].msg
  OBVIOUS
<1>0. TypeOK /\ f \in FileIds /\ f \in Nat /\ i \in DOMAIN files[f]
  BY DEF MemoryInv, RecoverRecord, FileIds
<1>1. m \in Msgs /\ reading = [file |-> f, offset |-> i] /\ currentfileid' = f
  BY <1>0, FilesType DEF Records, RecoverRecord, TypeOK
<1>2. ASSUME NEW n \in Range(index)
      PROVE  /\ place[n].file \in FileIds /\ place[n].file <= f
             /\ place[n].file = f => place[n].offset < i
             /\ n # m \/ files[f][i].state # "live"
  <2>1. PICK g, j : g = place[n].file /\ j = place[n].offset
    OBVIOUS
  <2>2. /\ g \in FileIds /\ g \in Nat /\ j \in DOMAIN files[g] /\ Read(g, j)
        /\ files[f][i].msg = n => f = g /\ i = j
    BY <2>1, <1>0, OwnRecord DEF FileIds
  <2>3. g < f \/ (g = f /\ j < i)
    BY <2>2 DEF Read, RecoverRecord
  <2>4. i \in Nat
    BY <1>0, FilesType
  <2> QED BY <2>1, <2>2, <2>3, <2>4, <1>0
<1>3. CASE files[f][i].state # "live"
  <2>1. UNCHANGED <<index, place>>
    BY <1>3 DEF RecoverRecord
  <2> QED BY <2>1, <1>1, <1>2 DEF OrderInv, PriorityFifo, Ordered, WrittenBefore
<1>4. CASE files[f][i].state = "live"
  <2>1. index' = Insert(index, m) /\ place' = [place EXCEPT ![m] = [file |-> f, offset |-> i]]
    BY <1>1, <1>4 DEF RecoverRecord
  <2>2. Range(index) \subseteq Msgs /\ Range(index') = Range(index) \cup {m}
    BY <2>1, <1>0, <1>1, SearchType, InsertProperties DEF TypeOK
  <2>3. /\ place'[m] = [file |-> f, offset |-> i]
        /\ \A n \in Range(index) : place'[n] = place[n]
    BY <2>1, <2>2, <1>0, <1>1, <1>2, <1>4 DEF TypeOK
  <2>4. \A n \in Range(index) : WrittenBefore(n, m)'
    <3> SUFFICES ASSUME NEW n \in Range(index) PROVE WrittenBefore(n, m)'
      OBVIOUS
    <3>1. place[n].file \in Nat
      BY <1>2 DEF FileIds
    <3> QED BY <3>1, <2>3, <1>0, <1>2 DEF WrittenBefore
  <2>5. PriorityFifo'
    BY <2>1, <2>3, <2>4, <1>0, <1>1, InsertKeepsFifo DEF OrderInv
  <2>6. \A n \in Range(index') : place'[n].file <= currentfileid'
    BY <2>2, <2>3, <1>0, <1>1, <1>2
  <2> QED BY <2>5, <2>6 DEF OrderInv
<1> QED BY <1>3, <1>4

(* The other steps leave entries and places alone, or erase an entry.      *)
LEMMA NextKeepsOrder ==
  MemoryInv /\ StorageInv /\ OrderInv /\ [Next]_vars => OrderInv'
<1> SUFFICES ASSUME MemoryInv, StorageInv, OrderInv, [Next]_vars
             PROVE  OrderInv'
  OBVIOUS
<1>1. ASSUME UNCHANGED <<index, place, currentfileid>> PROVE OrderInv'
  BY <1>1 DEF OrderInv, PriorityFifo, Ordered, WrittenBefore
<1>2. CASE UNCHANGED vars
  BY <1>1, <1>2 DEF vars, memoryVars, storageVars
<1>3. CASE CursorOperation
  BY <1>1, <1>3 DEF CursorOperation, OpenCursor, PeekFront, BeginRetrieve, BeginRetrieveID,
     WaitForID, CloseCursor, AdvanceCursor, BeginRetrieveCursor, FinalizeEnqueue,
     CancelRetrieve, CancelEnqueue, FinalizeRetrieve, Reveal, Consume, MarkMessage,
     CursorCopy, SeekID, storageVars
<1>4. CASE \E m \in Msgs : Enqueue(m)
  BY <1>4, EnqueueKeepsOrder
<1>5. CASE FinishRemoval
  <2>1. PICK m : m = Where(removing) /\ EraseEntry(m) /\ mode = "removing"
    BY <1>5 DEF FinishRemoval, EraseMessage
  <2>2. m \in Range(index)
    BY <2>1 DEF MemoryInv, PositionsInIndex
  <2> QED BY <2>1, <2>2, EraseKeepsOrder
<1>6. CASE Expiry
  <2>1. CASE EraseExpired
    <3>1. purgeAt \in Range(index) /\ EraseEntry(purgeAt)
      BY <2>1 DEF EraseExpired, EraseMessage, MemoryInv, PositionsInIndex
    <3> QED BY <3>1, EraseKeepsOrder
  <2>2. CASE ~ EraseExpired
    BY <1>1, <1>6, <2>2 DEF Expiry, BeginTTLPurge, PurgeExpired, PurgeSkip, EndTTLPurge,
       Age, MarkMessage, memoryVars, storageVars
  <2> QED BY <2>1, <2>2
<1>7. CASE Crash
  <2>1. index' = <<>>
    BY <1>7 DEF Crash
  <2> QED BY <2>1 DEF OrderInv, PriorityFifo, Ordered, Range
<1>8. CASE Recovery
  BY <1>1, <1>8, RecoverRecordKeepsOrder
     DEF Recovery, RecoverNextFile, Recovered, memoryVars, storageVars
<1> QED BY <1>2, <1>3, <1>4, <1>5, <1>6, <1>7, <1>8 DEF Next

(* Whatever was enqueued, retrieved or put back, and however often the     *)
(* queue was recovered, the index is in order of priority and, within a    *)
(* priority, in the order the messages were written.                       *)
THEOREM FifoThroughCrashes == Spec => []PriorityFifo
<1>1. Init => OrderInv
  BY DEF Init, OrderInv, PriorityFifo, Ordered, Range
<1>2. OrderInv => PriorityFifo
  BY DEF OrderInv
<1> QED BY <1>1, <1>2, InitMemory, NextKeepsMemory, InitStorage, NextKeepsStorage,
           NextKeepsOrder, PTL DEF Spec

(* What OwnCursorStable asks of a step.                                    *)
CursorKept(h) ==
    \/ cursors'[h] = cursors[h]
    \/ cursors'[h] = Invalid /\ cursors[h] \notin Range(index')
    \/ cursors'[h] = Closed
    \/ AdvanceCursor(h)
    \/ \E src \in Handles : CursorCopy(h, src)
    \/ \E id \in Ids : SeekID(id, h)

(* The handle of a new cursor is not in use.                               *)
LEMMA NewHandleIsFree ==
  ASSUME TypeOK, NextCursorID \in Handles
  PROVE  cursors[NextCursorID] = Closed
<1> SUFFICES ASSUME NextCursorID \in OpenHandles PROVE FALSE
  BY DEF OpenHandles
<1>1. OpenHandles \subseteq Handles /\ Handles = 0 .. MaxHandle /\ MaxHandle \in Nat
  BY StorageAssumption DEF OpenHandles, Handles
<1>2. IsFiniteSet(OpenHandles) /\ OpenHandles \subseteq Int
  <2>1. IsFiniteSet(0 .. MaxHandle)
    BY <1>1, FS_Interval
  <2>2. OpenHandles \subseteq Int
    BY <1>1
  <2> QED BY <2>1, <2>2, <1>1, FS_Subset
<1>3. \E x \in OpenHandles : \A y \in OpenHandles : x >= y
  BY <1>2, MaxExists
<1>4. Max(OpenHandles) \in OpenHandles /\ \A y \in OpenHandles : Max(OpenHandles) >= y
  BY <1>3 DEF Max
<1>5. NextCursorID = Max(OpenHandles) + 1 /\ Max(OpenHandles) \in Int
  BY <1>2, <1>4 DEF NextCursorID
<1> QED BY <1>4, <1>5

(* Opening a cursor moves no other.                                        *)
LEMMA RegisterKeepsCursors ==
  ASSUME TypeOK, NEW c, Register(c), NEW h \in Handles, cursors[h] \in Msgs
  PROVE  cursors'[h] = cursors[h]
<1>1. h # NextCursorID
  BY NewHandleIsFree, SpecialPositions DEF Register
<1> QED BY <1>1 DEF Register, TypeOK

(* The operations on cursors move the one they are given.                  *)
LEMMA CursorOperationKeepsCursors ==
  ASSUME TypeOK, CursorOperation, NEW h \in Handles, cursors[h] \in Msgs
  PROVE  CursorKept(h)
<1>1. CASE UNCHANGED cursors
  BY <1>1 DEF CursorKept
<1>2. CASE \E c : Register(c)
  BY <1>2, RegisterKeepsCursors DEF CursorKept
<1>3. CASE \E k \in Handles :
          CloseCursor(k) \/ FinalizeEnqueue(k) \/ CancelRetrieve(k)
  <2>1. PICK k \in Handles : cursors' = [cursors EXCEPT ![k] = Closed]
    BY <1>3 DEF CloseCursor, FinalizeEnqueue, CancelRetrieve, Reveal
  <2> QED BY <2>1 DEF CursorKept, TypeOK
<1>4. CASE \E k \in Handles : AdvanceCursor(k)
  <2>1. PICK k \in Handles : AdvanceCursor(k)
    BY <1>4
  <2>2. k # h => cursors'[h] = cursors[h]
    BY <2>1 DEF AdvanceCursor, TypeOK
  <2> QED BY <2>1, <2>2 DEF CursorKept
<1>5. CASE \E k, src \in Handles : CursorCopy(k, src)
  <2>1. PICK k \in Handles, src \in Handles : CursorCopy(k, src)
    BY <1>5
  <2>2. k # h => cursors'[h] = cursors[h]
    BY <2>1 DEF CursorCopy, TypeOK
  <2> QED BY <2>1, <2>2 DEF CursorKept
<1>6. CASE \E k \in Handles, id \in Ids : SeekID(id, k)
  <2>1. PICK k \in Handles, id \in Ids : SeekID(id, k)
    BY <1>6
  <2>2. k # h => cursors'[h] = cursors[h]
    BY <2>1 DEF SeekID, TypeOK
  <2> QED BY <2>1, <2>2 DEF CursorKept
<1>7. ASSUME PeekFront \/ \E k \in Handles :
                 BeginRetrieveCursor(k) \/ CancelEnqueue(k) \/ FinalizeRetrieve(k)
      PROVE  UNCHANGED cursors
  BY <1>7 DEF PeekFront, BeginRetrieveCursor, CancelEnqueue, FinalizeRetrieve, Consume,
     MarkMessage
<1>8. ASSUME OpenCursor \/ BeginRetrieve \/ \E id \in Ids : BeginRetrieveID(id) \/ WaitForID(id)
      PROVE  \E c : Register(c)
  BY <1>8 DEF OpenCursor, BeginRetrieve, BeginRetrieveID, WaitForID
<1> QED BY <1>1, <1>2, <1>3, <1>4, <1>5, <1>6, <1>7, <1>8 DEF CursorOperation

(* Erasing an entry invalidates the cursors on it, and moves no other.     *)
LEMMA EraseKeepsCursors ==
  ASSUME MemoryInv, StorageInv, NEW m \in Range(index), EraseEntry(m),
         NEW h \in Handles, cursors[h] \in Msgs,
         \/ cursors'[h] = InvalidateAll(m)[h]
         \/ cursors'[h] = Closed
  PROVE  CursorKept(h)
<1>1. Range(index') = Range(index) \ {m}
  BY EraseInjective DEF EraseEntry, StorageInv, MemoryInv, TypeOK
<1>2. InvalidateAll(m)[h] = IF cursors[h] = m THEN Invalid ELSE cursors[h]
  BY DEF InvalidateAll, Invalidated
<1> QED BY <1>1, <1>2 DEF CursorKept

(* A cursor with a position of its own is moved by nobody else.            *)
LEMMA NextKeepsCursors ==
  ASSUME MemoryInv, StorageInv, Next, NEW h \in Handles, cursors[h] \in Msgs,
         mode' # "recovering"
  PROVE  CursorKept(h)
<1>0. TypeOK
  BY DEF MemoryInv
<1>1. CASE CursorOperation
  BY <1>0, <1>1, CursorOperationKeepsCursors
<1>2. CASE \E m \in Msgs : Enqueue(m)
  BY <1>0, <1>2, RegisterKeepsCursors DEF Enqueue, CursorKept
<1>3. CASE FinishRemoval
  <2>1. PICK m : m = Where(removing) /\ m \in Range(index) /\ EraseEntry(m)
    BY <1>3 DEF FinishRemoval, EraseMessage, MemoryInv, PositionsInIndex
  <2>2. cursors' = [InvalidateAll(m) EXCEPT ![removing] = Closed]
    BY <1>3, <2>1 DEF FinishRemoval
  <2>3. cursors'[h] = InvalidateAll(m)[h] \/ cursors'[h] = Closed
    BY <2>2 DEF InvalidateAll
  <2> QED BY <2>1, <2>3, EraseKeepsCursors
<1>4. CASE Expiry
  <2>1. CASE EraseExpired
    <3>1. purgeAt \in Range(index) /\ EraseEntry(purgeAt) /\ cursors' = InvalidateAll(purgeAt)
      BY <2>1 DEF EraseExpired, EraseMessage, MemoryInv, PositionsInIndex
    <3> QED BY <3>1, EraseKeepsCursors
  <2>2. CASE ~ EraseExpired
    BY <1>4, <2>2 DEF CursorKept, Expiry, BeginTTLPurge, PurgeExpired, PurgeSkip,
       EndTTLPurge, Age, MarkMessage, memoryVars
  <2> QED BY <2>1, <2>2
<1>5. CASE Crash
  BY <1>5 DEF Crash
<1>6. CASE Recovery
  BY <1>6 DEF CursorKept, Recovery, RecoverRecord, RecoverNextFile, Recovered, memoryVars
<1> QED BY <1>1, <1>2, <1>3, <1>4, <1>5, <1>6 DEF Next

(* A cursor with a position of its own stays where it is, whatever is done *)
(* through other handles, until its own entry is erased.                   *)
THEOREM CursorsStayPut == Spec => OwnCursorStable
<1>1. MemoryInv /\ StorageInv /\ [Next]_vars =>
          [\A h \in Handles :
              cursors[h] \in Msgs /\ mode' # "recovering" =>
                  \/ cursors'[h] = cursors[h]
                  \/ cursors'[h] = Invalid /\ cursors[h] \notin Range(index')
                  \/ cursors'[h] = Closed
                  \/ AdvanceCursor(h)
                  \/ \E src \in Handles : CursorCopy(h, src)
                  \/ \E id \in Ids : SeekID(id, h)]_vars
  BY NextKeepsCursors DEF CursorKept
<1> QED BY <1>1, StorageInvariant, PTL DEF Spec, OwnCursorStable
-----------------------------------------------------------------------------
(* The sessions.                                                           *)

SessionsInv ==
    /\ open \in [Sessions -> BOOLEAN]
    /\ inTransaction \in [Sessions -> BOOLEAN]
    /\ trans \in [Sessions -> [Msgs -> TData]]
    /\ browse \in [Sessions -> SUBSET Handles]
    /\ task \in [Sessions -> Tasks]

ServerInv == MemoryInv /\ SessionsInv

(* What the task of a session holds, by the kind of the task.              *)
LEMMA TaskFields ==
  ASSUME SessionsInv, NEW s \in Sessions
  PROVE  /\ task[s].op \in {"publish", "send"} =>
               task[s].msg \in Msgs /\ task[s].handle \in Handles
         /\ task[s].op \in {"sendCursor", "copyCursor", "advanceCursor"} =>
               task[s].msg \in Msgs /\ task[s].from \in Handles
         /\ task[s].op \in {"copyCursor", "advanceCursor"} => task[s].handle \in Handles
         /\ task[s].op \in {"commit", "rollback", "shutdown"} => task[s].todo \in SUBSET Msgs
         /\ task[s].op = "commit" => task[s].end \in BOOLEAN
         /\ task[s].op = "shutdown" => task[s].leave \in BOOLEAN
<1>1. task[s] \in Tasks
  BY DEF SessionsInv
<1> QED BY <1>1 DEF Tasks, Idle

(* A call by way of a handle is a step of QStorage, or does nothing.       *)
LEMMA CallIsStorageStep ==
  ASSUME NEW h \in Handles,
         commitEnqueue(h) \/ commitRetrieve(h) \/ rollbackEnqueue(h) \/ rollbackRetrieve(h)
  PROVE  [Next]_vars
<1>1. CursorOperation \/ UNCHANGED vars
  BY DEF commitEnqueue, commitRetrieve, rollbackEnqueue, rollbackRetrieve, Unless,
         CursorOperation
<1> QED BY <1>1 DEF Next

(* Every step of a session is a step of QStorage, or does nothing to it.   *)
LEMMA SessionStepIsStorageStep ==
  ASSUME SessionsInv, NEW s \in Sessions, SessionStep(s)
  PROVE  [Next]_vars
<1>1. \A m \in Msgs : trans[s][m].cursor \in Handles
  BY DEF SessionsInv, TData
<1>2. browse[s] \subseteq Handles
  BY DEF SessionsInv
<1>3. CASE OpenQueueCmd(s) \/ PeekFrontCmd(s) \/ Send(s) \/ CopyCursorFails(s)
           \/ BeginTransactionCmd(s) \/ Committed(s) \/ RollbackTransactionCmd(s)
           \/ RolledBack(s) \/ ShutdownDone(s)
           \/ \E b \in BOOLEAN : CommitTransactionCmd(s, b) \/ ShutdownCmd(s, b)
  BY <1>3 DEF OpenQueueCmd, PeekFrontCmd, Send, CopyCursorFails, BeginTransactionCmd,
     Committed, RollbackTransactionCmd, RolledBack, ShutdownDone, CommitTransactionCmd,
     ShutdownCmd, Next, CursorOperation
<1>4. ASSUME NEW m \in Msgs, EnqueueCmd(s, m) PROVE [Next]_vars
  BY <1>4 DEF EnqueueCmd, Next
<1>5. ASSUME NEW m \in Msgs, RetrieveAckCmd(s, m) PROVE [Next]_vars
  <2>1. commitRetrieve(trans[s][m].cursor) \/ UNCHANGED vars
    BY <1>5 DEF RetrieveAckCmd
  <2> QED BY <2>1, <1>1, CallIsStorageStep
<1>6. CASE Publish(s)
  <2>1. task[s].handle \in Handles /\ commitEnqueue(task[s].handle)
    BY <1>6, TaskFields DEF Publish, Doing
  <2> QED BY <2>1, CallIsStorageStep
<1>7. CASE RetrieveCmd(s)
  BY <1>7 DEF RetrieveCmd, Next, CursorOperation
<1>8. CASE SendFails(s)
  <2>1. task[s].handle \in Handles /\ rollbackRetrieve(task[s].handle)
    BY <1>8, TaskFields DEF SendFails, Doing
  <2> QED BY <2>1, CallIsStorageStep
<1>9. CASE OpenCursorCmd(s)
  BY <1>9 DEF OpenCursorCmd, Next, CursorOperation
<1>10. ASSUME NEW h \in Handles,
              CloseCursorCmd(s, h) \/ AdvanceCursorCmd(s, h) \/ RetrieveCursorCmd(s, h)
       PROVE  [Next]_vars
  BY <1>10 DEF CloseCursorCmd, AdvanceCursorCmd, RetrieveCursorCmd, Next, CursorOperation
<1>11. CASE SendCursor(s)
  BY <1>11 DEF SendCursor, Next, CursorOperation
<1>12. CASE SendCursorFails(s)
  <2>1. task[s].from \in Handles /\ rollbackRetrieve(task[s].from)
    BY <1>12, TaskFields DEF SendCursorFails, Doing
  <2> QED BY <2>1, CallIsStorageStep
<1>13. CASE CopyCursor(s)
  <2>1. /\ task[s].from \in Handles /\ task[s].handle \in Handles
        /\ CursorCopy(task[s].handle, task[s].from)
    BY <1>13, TaskFields DEF CopyCursor, Doing
  <2> QED BY <2>1 DEF Next, CursorOperation
<1>14. CASE MoveCursorOn(s)
  <2>1. /\ task[s].from \in Handles
        /\ AdvanceCursor(task[s].from) \/ UNCHANGED vars
    BY <1>14, TaskFields DEF MoveCursorOn, Doing, Unless
  <2> QED BY <2>1 DEF Next, CursorOperation
<1>15. CASE CommitOne(s)
  <2>1. PICK m \in task[s].todo : commitEnqueue(trans[s][m].cursor)
                                  \/ commitRetrieve(trans[s][m].cursor)
    BY <1>15 DEF CommitOne
  <2>2. m \in Msgs
    BY <1>15, TaskFields DEF CommitOne, Doing
  <2> QED BY <2>1, <2>2, <1>1, CallIsStorageStep
<1>16. CASE RollbackOne(s)
  <2>1. PICK m \in task[s].todo : rollbackEnqueue(trans[s][m].cursor)
                                  \/ rollbackRetrieve(trans[s][m].cursor)
    BY <1>16 DEF RollbackOne
  <2>2. m \in Msgs
    BY <1>16, TaskFields DEF RollbackOne, Doing
  <2> QED BY <2>1, <2>2, <1>1, CallIsStorageStep
<1>17. CASE ShutdownEntry(s)
  <2>1. PICK m \in task[s].todo : \/ rollbackEnqueue(trans[s][m].cursor)
                                  \/ rollbackRetrieve(trans[s][m].cursor)
                                  \/ UNCHANGED vars
    BY <1>17 DEF ShutdownEntry
  <2>2. m \in Msgs
    BY <1>17, TaskFields DEF ShutdownEntry, Doing
  <2> QED BY <2>1, <2>2, <1>1, CallIsStorageStep
<1>18. CASE ShutdownCursor(s)
  <2>1. PICK h \in browse[s] : CloseCursor(h) \/ UNCHANGED vars
    BY <1>18 DEF ShutdownCursor
  <2> QED BY <2>1, <1>2 DEF Next, CursorOperation
<1> QED
  BY <1>3, <1>4, <1>5, <1>6, <1>7, <1>8, <1>9, <1>10, <1>11, <1>12, <1>13, <1>14, <1>15,
     <1>16, <1>17, <1>18 DEF SessionStep

(* What the queue does by itself is a step of QStorage.                    *)
LEMMA StorageStepIsStorageStep == StorageStep => [Next]_vars
BY DEF StorageStep, Next

(* The entries of a transaction have their type.                           *)
LEMMA EntryType ==
  /\ NoEntry \in TData
  /\ \A h \in Handles : Entry(h, "enqueue") \in TData /\ Entry(h, "retrieve") \in TData
<1>1. 0 \in Handles
  BY StorageAssumption DEF Handles
<1> QED BY <1>1 DEF NoEntry, Entry, TData

(* Every step of a session keeps the types of the sessions.                *)
LEMMA SessionStepKeeps ==
  ASSUME ServerInv, NEW s \in Sessions, SessionStep(s)
  PROVE  SessionsInv'
<1>1. /\ SessionsInv
      /\ open \in [Sessions -> BOOLEAN] /\ inTransaction \in [Sessions -> BOOLEAN]
      /\ trans \in [Sessions -> [Msgs -> TData]]
      /\ browse \in [Sessions -> SUBSET Handles] /\ task \in [Sessions -> Tasks]
  BY DEF ServerInv, SessionsInv
<1>2. FirstVisible \in Msgs \cup {End} /\ \A h \in Handles : Usable(h) => Where(h) \in Msgs
  BY SearchType DEF ServerInv, MemoryInv, Usable
<1>3. Pending(s) \in SUBSET Msgs /\ Commitable(s) \in SUBSET Msgs
  BY DEF Pending, Commitable
<1>4. Idle \in Tasks
  BY DEF Tasks
<1>5. \A b \in BOOLEAN : Shutdown(s, b) \in Tasks
  BY <1>3 DEF Shutdown, Tasks
<1>6. NoEntry \in TData
  BY EntryType
<1>7. CASE OpenQueueCmd(s)
  BY <1>1, <1>7 DEF OpenQueueCmd, SessionsInv
<1>8. ASSUME NEW m \in Msgs, EnqueueCmd(s, m) PROVE SessionsInv'
  <2>1. NextCursorID \in Handles /\ UNCHANGED <<open, inTransaction, browse>>
    BY <1>8 DEF EnqueueCmd, Enqueue, Register
  <2>2. CASE inTransaction[s]
    <3>1. SetEntry(s, m, Entry(NextCursorID, "enqueue")) /\ UNCHANGED task
      BY <1>8, <2>2 DEF EnqueueCmd
    <3>2. Entry(NextCursorID, "enqueue") \in TData
      BY <2>1, EntryType
    <3>3. trans' \in [Sessions -> [Msgs -> TData]]
      BY <3>1, <3>2, <1>1 DEF SetEntry
    <3> QED BY <3>1, <3>3, <2>1, <1>1 DEF SessionsInv
  <2>3. CASE ~ inTransaction[s]
    <3>1. /\ SetTask(s, [op |-> "publish", msg |-> m, handle |-> NextCursorID])
          /\ UNCHANGED trans
      BY <1>8, <2>3 DEF EnqueueCmd
    <3>2. [op |-> "publish", msg |-> m, handle |-> NextCursorID] \in Tasks
      BY <2>1 DEF Tasks
    <3>3. task' \in [Sessions -> Tasks]
      BY <3>1, <3>2, <1>1 DEF SetTask
    <3> QED BY <3>1, <3>3, <2>1, <1>1 DEF SessionsInv
  <2> QED BY <2>2, <2>3
<1>9. ASSUME NEW m \in Msgs, RetrieveAckCmd(s, m) PROVE SessionsInv'
  <2>1. UNCHANGED <<open, inTransaction, browse, task>>
    BY <1>9 DEF RetrieveAckCmd
  <2>2. CASE inTransaction[s]
    <3>1. trans' = [trans EXCEPT ![s][m].commitable = TRUE]
      BY <1>9, <2>2 DEF RetrieveAckCmd
    <3>2. [trans[s][m] EXCEPT !.commitable = TRUE] \in TData
      <4>1. trans[s][m] \in TData
        BY <1>1
      <4> QED BY <4>1 DEF TData
    <3>3. trans' = [trans EXCEPT ![s] = [trans[s] EXCEPT ![m] =
                       [trans[s][m] EXCEPT !.commitable = TRUE]]]
      BY <3>1
    <3>4. trans' \in [Sessions -> [Msgs -> TData]]
      BY <3>3, <3>2, <1>1
    <3> QED BY <3>4, <2>1, <1>1 DEF SessionsInv
  <2>3. CASE ~ inTransaction[s]
    <3>1. SetEntry(s, m, NoEntry)
      BY <1>9, <2>3 DEF RetrieveAckCmd
    <3>2. trans' \in [Sessions -> [Msgs -> TData]]
      BY <3>1, <1>1, <1>6 DEF SetEntry
    <3> QED BY <3>2, <2>1, <1>1 DEF SessionsInv
  <2> QED BY <2>2, <2>3
<1>10. CASE Publish(s)
  BY <1>1, <1>4, <1>10 DEF Publish, SetTask, SessionsInv
<1>11. CASE RetrieveCmd(s)
  <2>1. NextCursorID \in Handles /\ FirstVisible \in Msgs
    BY <1>2, <1>11 DEF RetrieveCmd, BeginRetrieve, Register
  <2>2. [op |-> "send", msg |-> FirstVisible, handle |-> NextCursorID] \in Tasks
    BY <2>1 DEF Tasks
  <2>3. task' \in [Sessions -> Tasks]
    BY <2>2, <1>1, <1>11 DEF RetrieveCmd, SetTask
  <2> QED BY <2>3, <1>1, <1>11 DEF RetrieveCmd, SessionsInv
<1>12. CASE PeekFrontCmd(s)
  BY <1>1, <1>12 DEF PeekFrontCmd, sessionVars, SessionsInv
<1>13. CASE Send(s)
  <2>1. task[s].msg \in Msgs /\ task[s].handle \in Handles
    BY <1>1, <1>13, TaskFields DEF Send, Doing
  <2>2. Entry(task[s].handle, "retrieve") \in TData
    BY <2>1, EntryType
  <2>3. trans' \in [Sessions -> [Msgs -> TData]]
    BY <2>1, <2>2, <1>1, <1>13 DEF Send, SetEntry
  <2>4. task' \in [Sessions -> Tasks]
    BY <1>1, <1>4, <1>13 DEF Send, SetTask
  <2> QED BY <2>3, <2>4, <1>1, <1>13 DEF Send, SessionsInv
<1>14. CASE SendFails(s)
  BY <1>1, <1>5, <1>14 DEF SendFails, SetTask, SessionsInv
<1>15. CASE OpenCursorCmd(s)
  <2>1. NextCursorID \in Handles
    BY <1>15 DEF OpenCursorCmd, OpenCursor, Register
  <2>2. browse' \in [Sessions -> SUBSET Handles]
    BY <2>1, <1>1, <1>15 DEF OpenCursorCmd
  <2> QED BY <2>2, <1>1, <1>15 DEF OpenCursorCmd, SessionsInv
<1>16. ASSUME NEW h \in Handles, CloseCursorCmd(s, h) PROVE SessionsInv'
  BY <1>1, <1>16 DEF CloseCursorCmd, SessionsInv
<1>17. ASSUME NEW h \in Handles, AdvanceCursorCmd(s, h) PROVE SessionsInv'
  BY <1>1, <1>17 DEF AdvanceCursorCmd, sessionVars, SessionsInv
<1>18. ASSUME NEW h \in Handles, RetrieveCursorCmd(s, h) PROVE SessionsInv'
  <2>1. Where(h) \in Msgs
    BY <1>2, <1>18 DEF RetrieveCursorCmd, BeginRetrieveCursor
  <2>2. [op |-> "sendCursor", msg |-> Where(h), from |-> h] \in Tasks
    BY <2>1 DEF Tasks
  <2>3. task' \in [Sessions -> Tasks]
    BY <2>2, <1>1, <1>18 DEF RetrieveCursorCmd, SetTask
  <2> QED BY <2>3, <1>1, <1>18 DEF RetrieveCursorCmd, SessionsInv
<1>19. CASE SendCursor(s)
  <2>1. task[s].msg \in Msgs /\ task[s].from \in Handles /\ NextCursorID \in Handles
    BY <1>1, <1>19, TaskFields DEF SendCursor, Doing, OpenCursor, Register
  <2>2. [op |-> "copyCursor", msg |-> task[s].msg, from |-> task[s].from,
         handle |-> NextCursorID] \in Tasks
    BY <2>1 DEF Tasks
  <2>3. task' \in [Sessions -> Tasks]
    BY <2>2, <1>1, <1>19 DEF SendCursor, SetTask
  <2> QED BY <2>3, <1>1, <1>19 DEF SendCursor, SessionsInv
<1>20. CASE SendCursorFails(s)
  BY <1>1, <1>5, <1>20 DEF SendCursorFails, SetTask, SessionsInv
<1>21. CASE CopyCursor(s)
  <2>1. task[s] \in [op : {"copyCursor", "advanceCursor"}, msg : Msgs, from : Handles,
                     handle : Handles]
    BY <1>1, <1>21 DEF CopyCursor, Doing, Tasks, Idle
  <2>2. [task[s] EXCEPT !.op = "advanceCursor"] \in Tasks
    BY <2>1 DEF Tasks
  <2>3. task' \in [Sessions -> Tasks]
    BY <2>2, <1>1, <1>21 DEF CopyCursor, SetTask
  <2> QED BY <2>3, <1>1, <1>21 DEF CopyCursor, SessionsInv
<1>22. CASE CopyCursorFails(s)
  BY <1>1, <1>4, <1>22 DEF CopyCursorFails, SetTask, SessionsInv
<1>23. CASE MoveCursorOn(s)
  <2>1. task[s].msg \in Msgs /\ task[s].handle \in Handles
    BY <1>1, <1>23, TaskFields DEF MoveCursorOn, Doing
  <2>2. Entry(task[s].handle, "retrieve") \in TData
    BY <2>1, EntryType
  <2>3. trans' \in [Sessions -> [Msgs -> TData]]
    BY <2>1, <2>2, <1>1, <1>23 DEF MoveCursorOn, SetEntry
  <2>4. task' \in [Sessions -> Tasks]
    BY <1>1, <1>4, <1>23 DEF MoveCursorOn, SetTask
  <2> QED BY <2>3, <2>4, <1>1, <1>23 DEF MoveCursorOn, SessionsInv
<1>24. CASE BeginTransactionCmd(s)
  BY <1>1, <1>24 DEF BeginTransactionCmd, SessionsInv
<1>25. ASSUME NEW b \in BOOLEAN, CommitTransactionCmd(s, b) PROVE SessionsInv'
  <2>1. [op |-> "commit", todo |-> Commitable(s), end |-> b] \in Tasks
    BY <1>3 DEF Tasks
  <2>2. task' \in [Sessions -> Tasks]
    BY <2>1, <1>1, <1>25 DEF CommitTransactionCmd, SetTask
  <2> QED BY <2>2, <1>1, <1>25 DEF CommitTransactionCmd, SessionsInv
<1>26. ASSUME NEW b \in BOOLEAN, ShutdownCmd(s, b) PROVE SessionsInv'
  BY <1>1, <1>5, <1>26 DEF ShutdownCmd, SetTask, SessionsInv
<1>27. CASE CommitOne(s) \/ RollbackOne(s) \/ ShutdownEntry(s)
  <2>1. task[s].op \in {"commit", "rollback", "shutdown"}
    BY <1>27 DEF CommitOne, RollbackOne, ShutdownEntry, Doing
  <2>2. PICK m \in task[s].todo : /\ SetEntry(s, m, NoEntry)
                                  /\ SetTask(s, [task[s] EXCEPT !.todo = @ \ {m}])
    BY <1>27 DEF CommitOne, RollbackOne, ShutdownEntry
  <2>3. m \in Msgs /\ [task[s] EXCEPT !.todo = @ \ {m}] \in Tasks
    <3>1. task[s].todo \in SUBSET Msgs
      BY <1>1, <2>1, TaskFields
    <3>2. [task[s] EXCEPT !.todo = @ \ {m}] \in Tasks
      <4>1. task[s] \in [op : {"commit"}, todo : SUBSET Msgs, end : BOOLEAN]
                     \cup [op : {"rollback"}, todo : SUBSET Msgs]
                     \cup [op : {"shutdown"}, todo : SUBSET Msgs, leave : BOOLEAN]
        BY <1>1, <2>1 DEF Tasks, Idle
      <4> QED BY <4>1 DEF Tasks
    <3> QED BY <3>1, <3>2
  <2>4. trans' \in [Sessions -> [Msgs -> TData]]
    BY <2>2, <2>3, <1>1, <1>6 DEF SetEntry
  <2>5. task' \in [Sessions -> Tasks]
    BY <2>2, <2>3, <1>1 DEF SetTask
  <2>6. UNCHANGED <<open, inTransaction, browse>>
    BY <1>27 DEF CommitOne, RollbackOne, ShutdownEntry
  <2> QED BY <2>4, <2>5, <2>6, <1>1 DEF SessionsInv
<1>28. CASE Committed(s)
  <2>1. task[s].end \in BOOLEAN
    BY <1>1, <1>28, TaskFields DEF Committed, Doing
  <2> QED BY <2>1, <1>1, <1>4, <1>28 DEF Committed, SetTask, SessionsInv
<1>29. CASE RollbackTransactionCmd(s)
  <2>1. [op |-> "rollback", todo |-> Commitable(s)] \in Tasks
    BY <1>3 DEF Tasks
  <2>2. task' \in [Sessions -> Tasks]
    BY <2>1, <1>1, <1>29 DEF RollbackTransactionCmd, SetTask
  <2> QED BY <2>2, <1>1, <1>29 DEF RollbackTransactionCmd, SessionsInv
<1>30. CASE RolledBack(s)
  BY <1>1, <1>4, <1>30 DEF RolledBack, SetTask, SessionsInv
<1>31. CASE ShutdownCursor(s)
  <2>1. browse' \in [Sessions -> SUBSET Handles]
    BY <1>1, <1>31 DEF ShutdownCursor
  <2> QED BY <2>1, <1>1, <1>31 DEF ShutdownCursor, SessionsInv
<1>32. CASE ShutdownDone(s)
  <2>1. inTransaction' \in [Sessions -> BOOLEAN] /\ open' \in [Sessions -> BOOLEAN]
    BY <1>1, <1>32 DEF ShutdownDone
  <2> QED BY <2>1, <1>1, <1>4, <1>32 DEF ShutdownDone, SetTask, SessionsInv
<1> QED
  BY <1>7, <1>8, <1>9, <1>10, <1>11, <1>12, <1>13, <1>14, <1>15, <1>16, <1>17, <1>18, <1>19,
     <1>20, <1>21, <1>22, <1>23, <1>24, <1>25, <1>26, <1>27, <1>28, <1>29, <1>30, <1>31,
     <1>32 DEF SessionStep

(* Every step of the server is a step of QStorage, or leaves it alone.     *)
LEMMA ServerStepIsStorageStep == ServerInv /\ [ServerNext]_allVars => [Next]_vars
<1> SUFFICES ASSUME ServerInv, [ServerNext]_allVars PROVE [Next]_vars
  OBVIOUS
<1>1. CASE UNCHANGED allVars
  BY <1>1 DEF allVars
<1>2. ASSUME NEW s \in Sessions, SessionStep(s) PROVE [Next]_vars
  BY <1>2, SessionStepIsStorageStep DEF ServerInv
<1>3. CASE StorageStep
  BY <1>3, StorageStepIsStorageStep
<1>4. CASE ServerCrash
  BY <1>4 DEF ServerCrash, Next
<1> QED BY <1>1, <1>2, <1>3, <1>4 DEF ServerNext

(* Every step of the server keeps the types of queue and sessions.         *)
LEMMA ServerStepKeeps == ServerInv /\ [ServerNext]_allVars => ServerInv'
<1> SUFFICES ASSUME ServerInv, [ServerNext]_allVars PROVE ServerInv'
  OBVIOUS
<1>1. MemoryInv'
  BY ServerStepIsStorageStep, NextKeepsMemory DEF ServerInv
<1>2. SessionsInv
  BY DEF ServerInv
<1>3. ASSUME UNCHANGED sessionVars PROVE SessionsInv'
  BY <1>2, <1>3 DEF SessionsInv, sessionVars
<1>4. ASSUME NEW s \in Sessions, SessionStep(s) PROVE SessionsInv'
  BY <1>4, SessionStepKeeps
<1>5. ASSUME ServerCrash PROVE SessionsInv'
  <2>1. NoEntry \in TData /\ Idle \in Tasks
    BY EntryType DEF Tasks
  <2> QED BY <2>1, <1>5 DEF ServerCrash, SessionsInv
<1>6. SessionsInv'
  BY <1>3, <1>4, <1>5 DEF ServerNext, StorageStep, allVars
<1> QED BY <1>1, <1>6 DEF ServerInv

(* The server starts with the types of queue and sessions.                 *)
LEMMA InitServer == Init /\ SessionInit => ServerInv
<1>1. NoEntry \in TData /\ Idle \in Tasks
  BY EntryType DEF Tasks
<1> QED BY <1>1, InitMemory DEF SessionInit, ServerInv, SessionsInv

(* In every reachable state of the server the queue keeps MemoryInv and    *)
(* the sessions their types.                                               *)
THEOREM ServerInvariant == ServerSpec => []ServerInv
BY InitServer, ServerStepKeeps, PTL DEF ServerSpec

(* The queue and its sessions keep their types, for any number of sessions *)
(* and messages.                                                           *)
THEOREM SessionTypeCorrect == ServerSpec => []SessionTypeOK
<1>1. ServerInv => SessionTypeOK
  BY DEF ServerInv, MemoryInv, SessionsInv, SessionTypeOK
<1> QED BY <1>1, ServerInvariant, PTL

(* Whatever the sessions do, in whatever order, and with cursors closed    *)
(* under them, the queue of the server behaves as QStorage does.           *)
THEOREM ServerUsesQStorage == ServerSpec => UsesQStorage
<1>1. ServerSpec => Init /\ [][Next]_vars
  BY ServerInvariant, ServerStepIsStorageStep, PTL DEF ServerSpec
<1> QED BY <1>1 DEF UsesQStorage, Spec
-----------------------------------------------------------------------------
(***************************************************************************)
(* Who holds what.  A session that works with a message goes by a handle   *)
(* it remembers, in an entry of its transaction or in the command it is    *)
(* busy with.  Handles are small numbers that are given out again, and a   *)
(* cursor may share its position with m_begin, so it takes an invariant    *)
(* that the handle is still on the message: HolderInv.  It needs that no   *)
(* response of RETRIEVE_CURSOR is lost, or the cursor it closes stays with *)
(* the client, and that all messages have one priority, or the position of *)
(* m_begin moves to a message that came later.                             *)
(***************************************************************************)

OneLevel == \A m, n \in Msgs : Priority[m] = Priority[n]

(* What a session holds, and the handle it goes by.                        *)
InTask(s, m, c) ==
    \/ /\ task[s].op \in {"publish", "send", "advanceCursor"}
       /\ m = task[s].msg /\ c = task[s].handle
    \/ /\ task[s].op \in {"sendCursor", "copyCursor"}
       /\ m = task[s].msg /\ c = task[s].from
InTrans(s, m, c) == trans[s][m].type # "none" /\ c = trans[s][m].cursor
Carries(s, m, c) == InTask(s, m, c) \/ InTrans(s, m, c)

(* The handles that are for its messages only, and those that are not.     *)
Mine(s, m, c) ==
    \/ /\ task[s].op \in {"publish", "send", "advanceCursor"}
       /\ m = task[s].msg /\ c = task[s].handle
    \/ InTrans(s, m, c)
Reserves(s, h) == h \in browse[s] \/ (task[s].op = "copyCursor" /\ h = task[s].handle)

(* The message is hidden and not being erased, and c is on it.             *)
HeldAt(m, c) ==
    /\ Where(c) = m
    /\ m \in Range(index) /\ m \in hidden
    /\ m \notin Leaving

Stays(h) == cursors[h] # Closed /\ (mode = "removing" => h # removing)

(* No other session holds m, or uses h.                                    *)
Unheld(s, m) == \A t \in Sessions \ {s}, d \in Handles : ~ Carries(t, m, d)
Unused(s, h) ==
    \A t \in Sessions \ {s} : ~ Reserves(t, h) /\ \A m \in Msgs : ~ Mine(t, m, h)

HoldsOwn(s) ==
    /\ \A m \in Msgs, c \in Handles : Carries(s, m, c) => HeldAt(m, c) /\ Unheld(s, m)
    /\ \A m \in Msgs, c \in Handles : InTask(s, m, c) => trans[s][m].type = "none"
    /\ \A h \in Handles : Reserves(s, h) => Stays(h) /\ Unused(s, h)
    /\ \A m \in Msgs, h \in Handles : Mine(s, m, h) => ~ Reserves(s, h)
    /\ task[s].op \in {"sendCursor", "copyCursor", "advanceCursor"} =>
           task[s].from \in browse[s]
    /\ task[s].op = "copyCursor" => task[s].handle \notin browse[s]

(* The kinds of a task that holds a message.                               *)
Holds == {"publish", "send", "sendCursor", "copyCursor", "advanceCursor"}

(* A step of s changes what s remembers and nothing that others do.        *)
Alone(s) ==
    \A t \in Sessions \ {s} :
        trans'[t] = trans[t] /\ browse'[t] = browse[t] /\ task'[t] = task[t]

(* What a step of s has to leave s with.                                   *)
HoldsAfter(s) ==
    /\ \A m \in Msgs, c \in Handles : Carries(s, m, c)' => HeldAt(m, c)' /\ Unheld(s, m)
    /\ \A m \in Msgs, c \in Handles : InTask(s, m, c)' => trans'[s][m].type = "none"
    /\ \A h \in Handles : Reserves(s, h)' => Stays(h)' /\ Unused(s, h)
    /\ \A m \in Msgs, h \in Handles :
           Mine(s, m, h)' => ~ Reserves(s, h)' /\ \A t \in Sessions \ {s} : ~ Reserves(t, h)
    /\ task'[s].op \in {"sendCursor", "copyCursor", "advanceCursor"} =>
           task'[s].from \in browse'[s]
    /\ task'[s].op = "copyCursor" => task'[s].handle \notin browse'[s]

(* A step that disturbs no hold and no handle but on M and H.              *)
Calm(M, H) ==
    /\ \A m \in Msgs \ M, c \in Handles \ H : HeldAt(m, c) => HeldAt(m, c)'
    /\ \A h \in Handles \ H : Stays(h) => Stays(h)'
    /\ mode' # "recovering"

(* m_begin is on the first entry, or on none.                              *)
FrontInv == begin \in Msgs => begin = Foremost(index)

(* Until the queue is recovered no session has begun anything.             *)
Quiet ==
    mode = "recovering" =>
        \A s \in Sessions : /\ task[s] = Idle /\ browse[s] = {}
                            /\ \A m \in Msgs : trans[s][m] = NoEntry

QueueInv == ServerInv /\ StorageInv /\ FrontInv
HolderInv == QueueInv /\ Quiet /\ \A s \in Sessions : HoldsOwn(s)

(* A list that is not empty has a first entry that satisfies a test, if    *)
(* any does.                                                               *)
LEMMA MinExists ==
  ASSUME NEW n \in Nat, NEW I, I \subseteq 1 .. n, I # {}
  PROVE  Min(I) \in I /\ \A i \in I : Min(I) <= i
<1> DEFINE J == {n - i : i \in I}
<1>1. \A i \in I : i \in Int /\ i <= n /\ i >= 1
  OBVIOUS
<1>2. J \subseteq Int /\ J \subseteq 0 .. n /\ J # {}
  <2>1. ASSUME NEW j \in J PROVE j \in 0 .. n
    <3>1. PICK i \in I : j = n - i
      OBVIOUS
    <3> QED BY <1>1, <3>1
  <2>2. J # {}
    OBVIOUS
  <2> HIDE DEF J
  <2> QED BY <2>1, <2>2
<1>3. IsFiniteSet(J)
  <2>1. IsFiniteSet(0 .. n)
    BY FS_Interval
  <2> QED BY <2>1, <1>2, FS_Subset
<1>4. \E x \in J : \A y \in J : x >= y
  <2> HIDE DEF J
  <2> QED BY <1>2, <1>3, MaxExists
<1>5. PICK x \in I : \A y \in I : n - x >= n - y
  BY <1>4
<1>6. \A y \in I : x <= y
  BY <1>1, <1>5
<1> QED BY <1>6 DEF Min

(* The search for a message passes over those that are handed out.         *)
LEMMA FirstVisibleIsVisible ==
  ASSUME TypeOK, FirstVisible \in Msgs
  PROVE  FirstVisible \in Range(index) /\ FirstVisible \notin hidden
<1> DEFINE q == index
           p == Foremost(q)
           I == {i \in IndexOf(q, p) .. Len(q) : IsVisible(q[i])}
<1>0. q \in Seq(Msgs) /\ Len(q) \in Nat /\ DOMAIN q = 1 .. Len(q)
  BY DEF TypeOK
<1>1. p \in Range(q) /\ FirstVisible = EntryAt(q, IF I # {} THEN Min(I) ELSE 0)
  BY SpecialPositions DEF FirstVisible, FirstFrom, SelectInSubSeq
<1>2. IndexOf(q, p) \in 1 .. Len(q)
  BY <1>0, <1>1 DEF IndexOf, Range
<1>3. I \subseteq 1 .. Len(q)
  BY <1>0, <1>2
<1>4. I # {}
  BY <1>0, <1>1, SpecialPositions DEF EntryAt
<1>5. Min(I) \in I
  <2> HIDE DEF I, q
  <2> QED BY <1>0, <1>3, <1>4, MinExists
<1>6. PICK k : k = Min(I)
  OBVIOUS
<1>7. k \in 1 .. Len(q) /\ IsVisible(q[k]) /\ FirstVisible = q[k]
  <2>1. k \in 1 .. Len(q) /\ IsVisible(q[k])
    BY <1>3, <1>5, <1>6
  <2>2. FirstVisible = EntryAt(q, k)
    BY <1>1, <1>4, <1>6
  <2> QED BY <2>1, <2>2, <1>0 DEF EntryAt
<1> QED BY <1>0, <1>7 DEF IsVisible, Range

(* Under one priority a new entry goes to the end.                         *)
LEMMA InsertKeepsForemost ==
  ASSUME OneLevel, NEW q \in Seq(Msgs), NEW m \in Msgs, Foremost(q) \in Msgs
  PROVE  Foremost(Insert(q, m)) = Foremost(q)
<1> DEFINE i == LowerBound(q, m) + 1
<1>0. Len(q) \in Nat /\ 1 \in DOMAIN q /\ DOMAIN q = 1 .. Len(q) /\ Foremost(q) = q[1]
  BY SpecialPositions DEF Foremost, EntryAt
<1>1. LowerBound(q, m) \in 0 .. Len(q) /\ LowerBound(q, m) # 0
  <2>1. q[1] \in Msgs /\ Priority[q[1]] = Priority[m] /\ Priority[m] \in Nat
    BY <1>0, IndexAssumption DEF OneLevel
  <2> QED BY <2>1, <1>0, LowerBoundProperties
<1>2. i \in 1 .. Len(q) + 1 /\ i > 1
  BY <1>0, <1>1
<1> HIDE DEF i
<1> DEFINE r == InsertAt(q, i, m)
<1>3. /\ r \in Seq(Msgs) /\ Len(r) = Len(q) + 1
      /\ \A k \in 1 .. Len(q) + 1 : r[k] = IF k < i THEN q[k] ELSE IF k = i THEN m ELSE q[k - 1]
  BY <1>2, InsertAtProperties
<1>4. Insert(q, m) = r
  BY DEF Insert, i
<1> HIDE DEF r
<1>5. 1 \in DOMAIN r /\ r[1] = q[1]
  BY <1>0, <1>2, <1>3
<1> QED BY <1>0, <1>4, <1>5 DEF Foremost, EntryAt

(* Erasing another entry than the first leaves the first.                  *)
LEMMA EraseKeepsForemost ==
  ASSUME NEW q \in Seq(Msgs), NEW m \in Range(q), Foremost(q) # m, Foremost(q) \in Msgs
  PROVE  Foremost(Erase(q, m)) = Foremost(q)
<1> DEFINE i == IndexOf(q, m)
<1>0. Len(q) \in Nat /\ 1 \in DOMAIN q /\ DOMAIN q = 1 .. Len(q) /\ Foremost(q) = q[1]
  BY SpecialPositions DEF Foremost, EntryAt
<1>1. i \in 1 .. Len(q) /\ q[i] = m
  BY DEF IndexOf, Range
<1> HIDE DEF i
<1> DEFINE r == RemoveAt(q, i)
<1>2. /\ r \in Seq(Msgs) /\ Len(r) = Len(q) - 1
      /\ \A k \in 1 .. Len(q) - 1 : r[k] = IF k < i THEN q[k] ELSE q[k + 1]
  BY <1>1, RemoveAtProperties
<1>3. Erase(q, m) = r
  BY DEF Erase, i
<1> HIDE DEF r
<1>4. i > 1
  BY <1>0, <1>1
<1>5. 1 \in DOMAIN r /\ r[1] = q[1]
  BY <1>0, <1>1, <1>2, <1>4
<1> QED BY <1>0, <1>3, <1>5 DEF Foremost, EntryAt

(* m_begin leaves the first entry only for none.                           *)
LEMMA FrontKept ==
  ASSUME OneLevel, MemoryInv, FrontInv, [Next]_vars
  PROVE  FrontInv'
<1>0. index \in Seq(Msgs) /\ TypeOK
  BY DEF MemoryInv, TypeOK
<1>1. ASSUME index' = index, begin' = begin \/ ResetBegin PROVE FrontInv'
  BY <1>1 DEF FrontInv, ResetBegin
<1>2. ASSUME NEW m \in Msgs, index' = Insert(index, m), begin' = begin PROVE FrontInv'
  BY <1>0, <1>2, InsertKeepsForemost DEF FrontInv
<1>3. ASSUME NEW m \in Range(index), EraseEntry(m) PROVE FrontInv'
  <2> SUFFICES ASSUME begin' \in Msgs PROVE begin' = Foremost(index')
    BY DEF FrontInv
  <2>1. begin # m /\ begin' = begin /\ index' = Erase(index, m)
    BY <1>3, SpecialPositions DEF EraseEntry, Invalidated
  <2>2. begin = Foremost(index)
    BY <2>1 DEF FrontInv
  <2> QED BY <1>0, <2>1, <2>2, EraseKeepsForemost
<1>4. CASE UNCHANGED vars
  BY <1>1, <1>4 DEF vars, memoryVars
<1>5. CASE CursorOperation
  BY <1>1, <1>5 DEF CursorOperation, OpenCursor, PeekFront, BeginRetrieve, BeginRetrieveID,
     WaitForID, CloseCursor, AdvanceCursor, BeginRetrieveCursor, FinalizeEnqueue,
     CancelRetrieve, Reveal, CancelEnqueue, FinalizeRetrieve, Consume, MarkMessage,
     CursorCopy, SeekID
<1>6. CASE \E m \in Msgs : Enqueue(m)
  BY <1>2, <1>6 DEF Enqueue
<1>7. CASE FinishRemoval
  BY <1>3, <1>7 DEF FinishRemoval, EraseMessage, MemoryInv, PositionsInIndex
<1>8. CASE Expiry
  <2>1. CASE EraseExpired
    BY <1>3, <2>1 DEF EraseExpired, EraseMessage, MemoryInv, PositionsInIndex
  <2>2. CASE ~ EraseExpired
    BY <1>1, <1>8, <2>2 DEF Expiry, BeginTTLPurge, PurgeExpired, PurgeSkip, EndTTLPurge,
       Age, MarkMessage, memoryVars
  <2> QED BY <2>1, <2>2
<1>9. CASE Crash
  BY <1>9, SpecialPositions DEF Crash, FrontInv
<1>10. CASE Recovery
  <2>1. CASE RecoverRecord
    <3> DEFINE f == reading.file
               r == files[f][reading.offset]
    <3>1. r.msg \in Msgs
      <4>1. f \in FileIds /\ files[f] \in Seq(Records) /\ reading.offset \in DOMAIN files[f]
        BY <1>0, <2>1, FilesType DEF RecoverRecord
      <4>2. r \in Records
        BY <4>1
      <4> QED BY <4>2 DEF Records
    <3>2. begin' = begin /\ (index' = index \/ index' = Insert(index, r.msg))
      BY <2>1 DEF RecoverRecord
    <3> HIDE DEF r
    <3> QED BY <1>1, <1>2, <3>1, <3>2
  <2>2. CASE ~ RecoverRecord
    BY <1>1, <1>10, <2>2 DEF Recovery, RecoverNextFile, Recovered, memoryVars
  <2> QED BY <2>1, <2>2
<1> QED BY <1>4, <1>5, <1>6, <1>7, <1>8, <1>9, <1>10 DEF Next

(* A handle stays on its message while its cursor is left alone and the    *)
(* entry is neither revealed nor erased.                                   *)
LEMMA HeldStays ==
  ASSUME TypeOK, FrontInv, NEW m \in Msgs, NEW c \in Handles, HeldAt(m, c),
         cursors'[c] = cursors[c],
         \/ begin' = begin \/ ResetBegin
         \/ \E n \in Msgs \ {m} : begin' = Invalidated(begin, n),
         m \in Range(index'), m \in hidden', m \notin Leaving'
  PROVE  HeldAt(m, c)'
<1>1. Where(c)' = m
  BY SpecialPositions DEF HeldAt, Where, FrontInv, ResetBegin, Invalidated
<1> QED BY <1>1 DEF HeldAt

(* When a step is calm.                                                    *)
LEMMA CalmIf ==
  ASSUME TypeOK, FrontInv, NEW M, NEW H,
         mode' # "recovering", begin' = begin \/ ResetBegin,
         Range(index) \subseteq Range(index'), hidden \ M \subseteq hidden', Leaving' \subseteq M,
         \A c \in Handles \ H : cursors[c] # Closed => cursors'[c] = cursors[c],
         mode' = "removing" => removing' \in H
  PROVE  Calm(M, H)
<1>1. ASSUME NEW m \in Msgs \ M, NEW c \in Handles \ H, HeldAt(m, c) PROVE HeldAt(m, c)'
  <2>1. cursors'[c] = cursors[c]
    BY <1>1, SpecialPositions DEF HeldAt, Where
  <2>2. m \in Range(index') /\ m \in hidden' /\ m \notin Leaving'
    BY <1>1 DEF HeldAt
  <2> QED BY <1>1, <2>1, <2>2, HeldStays
<1>2. ASSUME NEW h \in Handles \ H, Stays(h) PROVE Stays(h)'
  BY <1>2 DEF Stays
<1> QED BY <1>1, <1>2 DEF Calm

(* Storing, finding and hiding a message, and opening a cursor, disturb    *)
(* nobody.                                                                 *)
LEMMA CalmGrowth ==
  ASSUME MemoryInv, FrontInv,
         \/ mode = "running" /\ UNCHANGED vars
         \/ OpenCursor \/ PeekFront \/ BeginRetrieve
         \/ (\E h \in Handles : BeginRetrieveCursor(h))
         \/ \E m \in Msgs : Enqueue(m)
  PROVE  Calm({}, {})
<1>0. TypeOK /\ index \in Seq(Msgs)
  BY DEF MemoryInv, TypeOK
<1>1. mode' = "running" /\ (begin' = begin \/ ResetBegin) /\ hidden \subseteq hidden'
  BY DEF vars, memoryVars, OpenCursor, PeekFront, BeginRetrieve, BeginRetrieveCursor, Enqueue
<1>2. Leaving' = {}
  BY <1>1 DEF Leaving
<1>3. Range(index) \subseteq Range(index')
  <2>1. index' = index \/ \E m \in Msgs : index' = Insert(index, m)
    BY DEF vars, memoryVars, OpenCursor, PeekFront, BeginRetrieve, BeginRetrieveCursor, Enqueue
  <2> QED BY <2>1, <1>0, InsertProperties
<1>4. ASSUME NEW c \in Handles, cursors[c] # Closed PROVE cursors'[c] = cursors[c]
  <2>1. cursors' = cursors \/ \E p : Register(p)
    BY DEF vars, memoryVars, OpenCursor, PeekFront, BeginRetrieve, BeginRetrieveCursor, Enqueue
  <2>2. ASSUME NEW p, Register(p) PROVE cursors'[c] = cursors[c]
    <3>1. c # NextCursorID
      BY <1>0, <1>4, <2>2, NewHandleIsFree DEF Register
    <3> QED BY <3>1, <2>2, <1>0 DEF Register, TypeOK
  <2> QED BY <2>1, <2>2
<1> QED BY <1>0, <1>1, <1>2, <1>3, <1>4, CalmIf

(* Moving a cursor disturbs who goes by it.                                *)
LEMMA CalmMove ==
  ASSUME MemoryInv, FrontInv, NEW h \in Handles,
         CloseCursor(h) \/ AdvanceCursor(h) \/ \E src \in Handles : CursorCopy(h, src)
  PROVE  /\ Calm({}, {h})
         /\ ~ CloseCursor(h) => Stays(h)'
<1>0. TypeOK
  BY DEF MemoryInv
<1>1. /\ mode' = "running" /\ UNCHANGED <<begin, index, hidden>>
      /\ \A c \in Handles \ {h} : cursors'[c] = cursors[c]
  BY <1>0 DEF CloseCursor, AdvanceCursor, CursorCopy, TypeOK
<1>2. Leaving' = {}
  BY <1>1 DEF Leaving
<1>3. Calm({}, {h})
  BY <1>0, <1>1, <1>2, CalmIf
<1>4. ASSUME AdvanceCursor(h) PROVE cursors'[h] # Closed
  <2>1. Successor(index, Where(h)) \in Msgs \cup {End}
    BY <1>0, SearchType
  <2> QED BY <2>1, <1>0, <1>4, SpecialPositions DEF AdvanceCursor, TypeOK
<1>5. ASSUME NEW src \in Handles, CursorCopy(h, src) PROVE cursors'[h] # Closed
  BY <1>0, <1>5, SpecialPositions DEF CursorCopy, Usable, Where, TypeOK
<1> QED BY <1>1, <1>3, <1>4, <1>5 DEF Stays

(* Dealing with a message disturbs who holds it, and who goes by the       *)
(* handle.                                                                 *)
LEMMA CalmRelease ==
  ASSUME MemoryInv, FrontInv, NEW m \in Msgs, NEW c \in Handles, HeldAt(m, c),
         commitEnqueue(c) \/ commitRetrieve(c) \/ rollbackEnqueue(c) \/ rollbackRetrieve(c)
  PROVE  Calm({m}, {c})
<1>0. TypeOK /\ Where(c) = m
  BY DEF MemoryInv, HeldAt
<1>1. Reveal(c) \/ Consume(c)
  BY <1>0 DEF commitEnqueue, commitRetrieve, rollbackEnqueue, rollbackRetrieve, Unless,
     FinalizeEnqueue, FinalizeRetrieve, CancelEnqueue, CancelRetrieve, Usable
<1>2. CASE Reveal(c)
  <2>1. /\ mode' = "running" /\ UNCHANGED <<begin, index>> /\ hidden' = hidden \ {m}
        /\ \A h \in Handles \ {c} : cursors'[h] = cursors[h]
    BY <1>0, <1>2 DEF Reveal, TypeOK
  <2>2. Leaving' = {}
    BY <2>1 DEF Leaving
  <2> QED BY <1>0, <2>1, <2>2, CalmIf
<1>3. CASE Consume(c)
  <2>1. /\ mode' = "removing" /\ removing' = c /\ UNCHANGED <<begin, index, cursors>>
        /\ hidden' = hidden \cup {m}
    BY <1>0, <1>3 DEF Consume, MarkMessage
  <2>2. Leaving' = {m}
    BY <1>0, <2>1 DEF Leaving, Where
  <2> QED BY <1>0, <2>1, <2>2, CalmIf
<1> QED BY <1>1, <1>2, <1>3

HoldsNext == mode' # "recovering" /\ \A t \in Sessions : HoldsOwn(t)'

(* What is true of one session stays true when another makes a calm step.  *)
LEMMA Exchange ==
  ASSUME \A t \in Sessions : HoldsOwn(t), NEW s \in Sessions, Alone(s), HoldsAfter(s),
         NEW M, NEW H, Calm(M, H),
         \A m \in M : Unheld(s, m), \A h \in H : Unused(s, h)
  PROVE  HoldsNext
<1>1. ASSUME NEW t \in Sessions \ {s}, NEW m, NEW c
      PROVE  /\ Carries(t, m, c)' <=> Carries(t, m, c)
             /\ InTask(t, m, c)' <=> InTask(t, m, c)
             /\ Mine(t, m, c)' <=> Mine(t, m, c)
             /\ Reserves(t, c)' <=> Reserves(t, c)
  BY DEF Alone, Carries, InTask, InTrans, Mine, Reserves
<1>2. ASSUME NEW t \in Sessions \ {s}, NEW m \in Msgs, NEW c \in Handles, Carries(t, m, c)
      PROVE  HeldAt(m, c)' /\ Unheld(t, m)'
  <2>1. HeldAt(m, c) /\ Unheld(t, m)
    BY <1>2 DEF HoldsOwn
  <2>2. m \notin M
    BY <1>2 DEF Unheld
  <2>3. Mine(t, m, c) \/ Reserves(t, c)
    BY <1>2 DEF HoldsOwn, Carries, InTask, Mine, Reserves
  <2>4. c \notin H
    BY <2>3 DEF Unused
  <2>5. \A d \in Handles : ~ Carries(s, m, d)'
    BY <1>2 DEF HoldsAfter, Unheld
  <2>6. Unheld(t, m)'
    BY <2>1, <2>5, <1>1 DEF Unheld
  <2> QED BY <2>1, <2>2, <2>4, <2>6 DEF Calm
<1>3. ASSUME NEW t \in Sessions \ {s}, NEW h \in Handles, Reserves(t, h)
      PROVE  Stays(h)' /\ Unused(t, h)'
  <2>1. Stays(h) /\ Unused(t, h)
    BY <1>3 DEF HoldsOwn
  <2>2. h \notin H
    BY <1>3 DEF Unused
  <2>3. ~ Reserves(s, h)' /\ \A m \in Msgs : ~ Mine(s, m, h)'
    BY <1>3 DEF HoldsAfter, Unused
  <2>4. Unused(t, h)'
    BY <2>1, <2>3, <1>1 DEF Unused
  <2> QED BY <2>1, <2>2, <2>4 DEF Calm
<1>4. ASSUME NEW t \in Sessions \ {s} PROVE HoldsOwn(t)'
  <2>1. HoldsOwn(t) /\ trans'[t] = trans[t] /\ browse'[t] = browse[t] /\ task'[t] = task[t]
    BY DEF Alone
  <2> QED BY <2>1, <1>1, <1>2, <1>3 DEF HoldsOwn
<1>5. \A m : Unheld(s, m)' <=> Unheld(s, m)
  BY <1>1 DEF Unheld
<1>6. \A h : Unused(s, h)' <=> Unused(s, h)
  BY <1>1 DEF Unused
<1>7. HoldsOwn(s)'
  BY <1>5, <1>6 DEF HoldsAfter, HoldsOwn
<1> QED BY <1>4, <1>7 DEF HoldsNext, Calm

(* A handle that is for a message of one session is used by no other.      *)
LEMMA MineIsUnused ==
  ASSUME \A t \in Sessions : HoldsOwn(t), NEW s \in Sessions, NEW m \in Msgs,
         NEW c \in Handles, Mine(s, m, c)
  PROVE  /\ Carries(s, m, c) /\ HeldAt(m, c) /\ Unheld(s, m)
         /\ Unused(s, c) /\ ~ Reserves(s, c)
<1>1. Carries(s, m, c)
  BY DEF Mine, Carries, InTask
<1>2. HeldAt(m, c) /\ Unheld(s, m) /\ ~ Reserves(s, c)
  BY <1>1 DEF HoldsOwn
<1>3. ASSUME NEW t \in Sessions \ {s} PROVE ~ Reserves(t, c)
  BY DEF HoldsOwn, Unused
<1>4. ASSUME NEW t \in Sessions \ {s}, NEW n \in Msgs, Mine(t, n, c) PROVE FALSE
  <2>1. Carries(t, n, c)
    BY <1>4 DEF Mine, Carries, InTask
  <2>2. HeldAt(n, c)
    BY <2>1 DEF HoldsOwn
  <2> QED BY <2>1, <2>2, <1>2 DEF HeldAt, Unheld
<1> QED BY <1>1, <1>2, <1>3, <1>4 DEF Unused

(* A step after which s holds nothing that is new, by its entries only.    *)
LEMMA Shed ==
  ASSUME \A t \in Sessions : HoldsOwn(t), NEW s \in Sessions, Alone(s),
         NEW M, NEW H, Calm(M, H),
         \A m \in M : Unheld(s, m), \A h \in H : Unused(s, h),
         task'[s].op \notin Holds,
         \A m \in Msgs, c \in Handles : InTrans(s, m, c)' => Mine(s, m, c) /\ m \notin M /\ c \notin H,
         \A h \in browse'[s] : h \in browse[s] /\ (h \in H => Stays(h)')
  PROVE  HoldsNext
<1>1. ASSUME NEW m, NEW c
      PROVE  /\ Carries(s, m, c)' <=> InTrans(s, m, c)'
             /\ Mine(s, m, c)' <=> InTrans(s, m, c)'
             /\ ~ InTask(s, m, c)'
             /\ Reserves(s, c)' <=> c \in browse'[s]
  BY DEF Carries, InTask, Mine, Reserves, Holds
<1>2. ASSUME NEW m \in Msgs, NEW c \in Handles, InTrans(s, m, c)'
      PROVE  /\ HeldAt(m, c)' /\ Unheld(s, m) /\ c \notin browse'[s]
             /\ \A t \in Sessions \ {s} : ~ Reserves(t, c)
  <2>1. Mine(s, m, c) /\ m \notin M /\ c \notin H
    BY <1>2
  <2>2. HeldAt(m, c) /\ Unheld(s, m) /\ Unused(s, c) /\ ~ Reserves(s, c)
    BY <2>1, MineIsUnused
  <2> QED BY <2>1, <2>2 DEF Calm, Unused, Reserves
<1>3. ASSUME NEW h \in Handles, h \in browse'[s] PROVE Stays(h)' /\ Unused(s, h)
  <2>1. Stays(h) /\ Unused(s, h)
    BY <1>3 DEF HoldsOwn, Reserves
  <2> QED BY <2>1, <1>3 DEF Calm
<1>4. HoldsAfter(s)
  BY <1>1, <1>2, <1>3 DEF HoldsAfter, Holds
<1> QED BY <1>4, Exchange

(* The commands that do nothing to the queue, or reset m_begin.            *)
LEMMA CommandsApart ==
  ASSUME HolderInv, NEW s \in Sessions,
         \/ OpenQueueCmd(s) \/ PeekFrontCmd(s) \/ Send(s) \/ CopyCursorFails(s)
         \/ BeginTransactionCmd(s) \/ Committed(s) \/ RollbackTransactionCmd(s)
         \/ RolledBack(s) \/ ShutdownDone(s)
         \/ \E b \in BOOLEAN : CommitTransactionCmd(s, b) \/ ShutdownCmd(s, b)
  PROVE  HoldsNext
<1>0. /\ trans \in [Sessions -> [Msgs -> TData]] /\ browse \in [Sessions -> SUBSET Handles]
      /\ task \in [Sessions -> Tasks] /\ MemoryInv /\ FrontInv
      /\ \A t \in Sessions : HoldsOwn(t)
  BY DEF HolderInv, QueueInv, ServerInv, SessionsInv
<1>1. (mode = "running" /\ UNCHANGED vars) \/ PeekFront
  BY DEF OpenQueueCmd, PeekFrontCmd, Send, CopyCursorFails, BeginTransactionCmd, Committed,
     RollbackTransactionCmd, RolledBack, ShutdownDone, CommitTransactionCmd, ShutdownCmd,
     Waiting, Doing
<1>2. Calm({}, {})
  BY <1>0, <1>1, CalmGrowth
<1>3. browse' = browse
  BY DEF OpenQueueCmd, PeekFrontCmd, Send, CopyCursorFails, BeginTransactionCmd, Committed,
     RollbackTransactionCmd, RolledBack, ShutdownDone, CommitTransactionCmd, ShutdownCmd,
     sessionVars
<1>4. /\ task'[s].op \notin Holds
      /\ \A t \in Sessions \ {s} : task'[t] = task[t]
  <2>1. CASE OpenQueueCmd(s) \/ PeekFrontCmd(s) \/ BeginTransactionCmd(s)
    BY <2>1 DEF OpenQueueCmd, PeekFrontCmd, BeginTransactionCmd, Ready, Waiting, Idle, Holds,
       sessionVars
  <2>2. CASE Send(s) \/ CopyCursorFails(s) \/ Committed(s) \/ RolledBack(s) \/ ShutdownDone(s)
    BY <2>2, <1>0 DEF Send, CopyCursorFails, Committed, RolledBack, ShutdownDone, SetTask,
       Idle, Holds
  <2>3. ASSUME NEW b \in BOOLEAN, CommitTransactionCmd(s, b) \/ ShutdownCmd(s, b)
        PROVE  /\ task'[s].op \notin Holds
               /\ \A t \in Sessions \ {s} : task'[t] = task[t]
    BY <2>3, <1>0 DEF CommitTransactionCmd, ShutdownCmd, Shutdown, SetTask, Holds
  <2>4. CASE RollbackTransactionCmd(s)
    BY <2>4, <1>0 DEF RollbackTransactionCmd, SetTask, Holds
  <2> QED BY <2>1, <2>2, <2>3, <2>4
<1>5. /\ \A m \in Msgs, c \in Handles : InTrans(s, m, c)' => Mine(s, m, c)
      /\ \A t \in Sessions \ {s} : trans'[t] = trans[t]
  <2>1. CASE Send(s)
    <3>1. task[s].op = "send" /\ task[s].msg \in Msgs
      BY <2>1, TaskFields DEF Send, Doing, HolderInv, QueueInv, ServerInv
    <3>2. PICK n \in Msgs : n = task[s].msg
      BY <3>1
    <3>3. trans' = [trans EXCEPT ![s][n] = Entry(task[s].handle, "retrieve")]
      BY <2>1, <3>2 DEF Send, SetEntry
    <3>4. /\ trans'[s][n] = Entry(task[s].handle, "retrieve")
          /\ \A m \in Msgs \ {n} : trans'[s][m] = trans[s][m]
          /\ \A t \in Sessions \ {s} : trans'[t] = trans[t]
      BY <3>3, <1>0
    <3> QED BY <3>1, <3>2, <3>4 DEF InTrans, Mine, Entry
  <2>2. CASE ~ Send(s)
    <3>1. trans' = trans
      BY <2>2 DEF OpenQueueCmd, PeekFrontCmd, CopyCursorFails, BeginTransactionCmd, Committed,
         RollbackTransactionCmd, RolledBack, ShutdownDone, CommitTransactionCmd, ShutdownCmd,
         sessionVars
    <3> QED BY <3>1 DEF InTrans, Mine
  <2> QED BY <2>1, <2>2
<1>6. Alone(s)
  BY <1>3, <1>4, <1>5 DEF Alone
<1> QED BY <1>0, <1>2, <1>3, <1>4, <1>5, <1>6, Shed

(* The commands that close or move the client's cursor.                    *)
LEMMA CommandsAtCursor ==
  ASSUME HolderInv, NEW s \in Sessions,
         \/ \E h \in Handles : CloseCursorCmd(s, h) \/ AdvanceCursorCmd(s, h)
         \/ MoveCursorOn(s) \/ ShutdownCursor(s)
  PROVE  HoldsNext
<1>0. /\ trans \in [Sessions -> [Msgs -> TData]] /\ browse \in [Sessions -> SUBSET Handles]
      /\ task \in [Sessions -> Tasks] /\ MemoryInv /\ FrontInv
      /\ \A t \in Sessions : HoldsOwn(t)
  BY DEF HolderInv, QueueInv, ServerInv, SessionsInv
<1>1. ASSUME NEW h \in browse[s],
             \/ CloseCursor(h) /\ h \notin browse'[s]
             \/ AdvanceCursor(h)
             \/ mode = "running" /\ UNCHANGED vars,
             Alone(s), browse'[s] \subseteq browse[s], task'[s].op \notin Holds,
             \A m \in Msgs, c \in Handles : InTrans(s, m, c)' => Mine(s, m, c)
      PROVE  HoldsNext
  <2>1. h \in Handles /\ Reserves(s, h) /\ Unused(s, h)
    BY <1>0, <1>1 DEF HoldsOwn, Reserves
  <2>2. \A m \in Msgs, c \in Handles : InTrans(s, m, c)' => Mine(s, m, c) /\ c # h
    BY <1>0, <1>1, <2>1, MineIsUnused
  <2>3. CASE CloseCursor(h) /\ h \notin browse'[s]
    <3>1. Calm({}, {h})
      BY <1>0, <2>1, <2>3, CalmMove
    <3> QED BY <3>1, <2>1, <2>2, <2>3, <1>0, <1>1, Shed
  <2>4. CASE AdvanceCursor(h)
    <3>1. ~ CloseCursor(h)
      BY <2>4, <1>0, <2>1, SearchType, SpecialPositions
         DEF AdvanceCursor, CloseCursor, MemoryInv, TypeOK
    <3>2. Calm({}, {h}) /\ Stays(h)'
      BY <1>0, <2>1, <2>4, <3>1, CalmMove
    <3> QED BY <3>2, <2>1, <2>2, <1>0, <1>1, Shed
  <2>5. CASE mode = "running" /\ UNCHANGED vars
    <3>1. Calm({}, {})
      BY <1>0, <2>5, CalmGrowth
    <3> QED BY <3>1, <1>0, <1>1, Shed
  <2> QED BY <1>1, <2>3, <2>4, <2>5
<1>2. ASSUME NEW h \in Handles, CloseCursorCmd(s, h) PROVE HoldsNext
  <2>1. /\ h \in browse[s] /\ CloseCursor(h) /\ trans' = trans /\ task' = task
        /\ browse' = [browse EXCEPT ![s] = @ \ {h}] /\ task[s] = Idle
    BY <1>2 DEF CloseCursorCmd, Ready, Waiting
  <2>2. /\ browse'[s] = browse[s] \ {h}
        /\ \A t \in Sessions \ {s} : browse'[t] = browse[t]
    BY <2>1, <1>0
  <2>3. task'[s].op \notin Holds
    BY <2>1 DEF Idle, Holds
  <2> QED BY <2>1, <2>2, <2>3, <1>1 DEF Alone, InTrans, Mine
<1>3. ASSUME NEW h \in Handles, AdvanceCursorCmd(s, h) PROVE HoldsNext
  <2>1. /\ h \in browse[s] /\ AdvanceCursor(h) /\ trans' = trans /\ task' = task
        /\ browse' = browse /\ task[s] = Idle
    BY <1>3 DEF AdvanceCursorCmd, Ready, Waiting, sessionVars
  <2>2. task'[s].op \notin Holds
    BY <2>1 DEF Idle, Holds
  <2> QED BY <2>1, <2>2, <1>1 DEF Alone, InTrans, Mine
<1>4. CASE MoveCursorOn(s)
  <2>1. /\ task[s].op = "advanceCursor" /\ task[s].from \in browse[s] /\ browse' = browse
        /\ task[s].msg \in Msgs
    BY <1>0, <1>4, TaskFields
       DEF MoveCursorOn, Doing, HoldsOwn, HolderInv, QueueInv, ServerInv
  <2>2. PICK n \in Msgs : n = task[s].msg
    BY <2>1
  <2>3. trans' = [trans EXCEPT ![s][n] = Entry(task[s].handle, "retrieve")]
    BY <1>4, <2>2 DEF MoveCursorOn, SetEntry
  <2>4. /\ trans'[s][n] = Entry(task[s].handle, "retrieve")
        /\ \A m \in Msgs \ {n} : trans'[s][m] = trans[s][m]
        /\ \A t \in Sessions \ {s} : trans'[t] = trans[t]
    BY <2>3, <1>0
  <2>5. task'[s] = Idle /\ \A t \in Sessions \ {s} : task'[t] = task[t]
    BY <1>4, <1>0 DEF MoveCursorOn, SetTask
  <2>6. AdvanceCursor(task[s].from) \/ (mode = "running" /\ UNCHANGED vars)
    BY <1>4 DEF MoveCursorOn, Unless
  <2>7. \A m \in Msgs, c \in Handles : InTrans(s, m, c)' => Mine(s, m, c)
    BY <2>1, <2>2, <2>4 DEF InTrans, Mine, Entry
  <2>8. Alone(s) /\ task'[s].op \notin Holds
    BY <2>1, <2>4, <2>5 DEF Alone, Idle, Holds
  <2> QED BY <2>1, <2>6, <2>7, <2>8, <1>1
<1>5. CASE ShutdownCursor(s)
  <2>1. PICK h \in browse[s] : /\ CloseCursor(h) \/ UNCHANGED vars
                               /\ browse' = [browse EXCEPT ![s] = @ \ {h}]
    BY <1>5 DEF ShutdownCursor
  <2>2. /\ trans' = trans /\ task' = task /\ mode = "running" /\ task[s].op = "shutdown"
    BY <1>5 DEF ShutdownCursor, Doing
  <2>3. /\ browse'[s] = browse[s] \ {h}
        /\ \A t \in Sessions \ {s} : browse'[t] = browse[t]
    BY <2>1, <1>0
  <2>4. task'[s].op \notin Holds
    BY <2>2 DEF Holds
  <2> QED BY <2>1, <2>2, <2>3, <2>4, <1>1 DEF Alone, InTrans, Mine
<1> QED BY <1>2, <1>3, <1>4, <1>5

(* The commands that publish, remove, or put back a message.               *)
LEMMA CommandsRelease ==
  ASSUME HolderInv, NEW s \in Sessions,
         \/ Publish(s) \/ SendFails(s) \/ CommitOne(s) \/ RollbackOne(s) \/ ShutdownEntry(s)
         \/ \E m \in Msgs : RetrieveAckCmd(s, m)
  PROVE  HoldsNext
<1>0. /\ trans \in [Sessions -> [Msgs -> TData]] /\ browse \in [Sessions -> SUBSET Handles]
      /\ task \in [Sessions -> Tasks] /\ MemoryInv /\ FrontInv /\ SessionsInv
      /\ \A t \in Sessions : HoldsOwn(t)
  BY DEF HolderInv, QueueInv, ServerInv, SessionsInv
<1>1. browse' = browse
  BY DEF Publish, SendFails, CommitOne, RollbackOne, ShutdownEntry, RetrieveAckCmd
<1>2. ASSUME NEW m \in Msgs, NEW c \in Handles, Mine(s, m, c),
             \/ commitEnqueue(c) \/ commitRetrieve(c) \/ rollbackEnqueue(c) \/ rollbackRetrieve(c)
             \/ mode = "running" /\ UNCHANGED vars,
             Alone(s), task'[s].op \notin Holds,
             trans'[s][m].type = "none",
             \A n \in Msgs \ {m} : trans'[s][n] = trans[s][n]
      PROVE  HoldsNext
  <2>1. HeldAt(m, c) /\ Unheld(s, m) /\ Unused(s, c) /\ ~ Reserves(s, c)
    BY <1>0, <1>2, MineIsUnused
  <2>2. ASSUME NEW n \in Msgs, NEW d \in Handles, InTrans(s, n, d)'
        PROVE  Mine(s, n, d) /\ n # m /\ d # c
    <3>1. n # m /\ Mine(s, n, d)
      BY <1>2, <2>2 DEF InTrans, Mine
    <3>2. HeldAt(n, d)
      BY <3>1, <1>0, MineIsUnused
    <3> QED BY <3>1, <3>2, <2>1 DEF HeldAt
  <2>3. CASE mode = "running" /\ UNCHANGED vars
    <3>1. Calm({}, {})
      BY <1>0, <2>3, CalmGrowth
    <3> QED BY <3>1, <2>2, <1>0, <1>1, <1>2, Shed
  <2>4. CASE ~ (mode = "running" /\ UNCHANGED vars)
    <3>1. Calm({m}, {c})
      BY <1>0, <1>2, <2>1, <2>4, CalmRelease
    <3>2. \A h \in browse[s] : h # c
      BY <2>1 DEF Reserves
    <3> QED BY <3>1, <3>2, <2>1, <2>2, <1>0, <1>1, <1>2, Shed
  <2> QED BY <2>3, <2>4
<1>3. CASE Publish(s) \/ SendFails(s)
  <2>1. /\ task[s].op \in {"publish", "send"} /\ task[s].msg \in Msgs /\ task[s].handle \in Handles
    BY <1>0, <1>3, TaskFields DEF Publish, SendFails, Doing
  <2>2. commitEnqueue(task[s].handle) \/ rollbackRetrieve(task[s].handle)
    BY <1>3 DEF Publish, SendFails
  <2>3. trans' = trans /\ \A t \in Sessions \ {s} : task'[t] = task[t]
    BY <1>0, <1>3 DEF Publish, SendFails, SetTask
  <2>4. task'[s].op \notin Holds
    BY <1>0, <1>3 DEF Publish, SendFails, SetTask, Idle, Shutdown, Holds
  <2>5. Mine(s, task[s].msg, task[s].handle) /\ InTask(s, task[s].msg, task[s].handle)
    BY <2>1 DEF Mine, InTask
  <2>6. trans[s][task[s].msg].type = "none"
    BY <2>1, <2>5, <1>0 DEF HoldsOwn
  <2>7. Alone(s)
    BY <2>3, <1>1 DEF Alone
  <2> QED BY <2>1, <2>2, <2>3, <2>4, <2>5, <2>6, <2>7, <1>2
<1>4. CASE CommitOne(s) \/ RollbackOne(s) \/ ShutdownEntry(s)
  <2>1. task[s].op \in {"commit", "rollback", "shutdown"} /\ mode = "running"
    BY <1>4 DEF CommitOne, RollbackOne, ShutdownEntry, Doing
  <2>2. PICK m \in task[s].todo :
           /\ \/ commitEnqueue(trans[s][m].cursor) \/ commitRetrieve(trans[s][m].cursor)
              \/ rollbackEnqueue(trans[s][m].cursor) \/ rollbackRetrieve(trans[s][m].cursor)
              \/ UNCHANGED vars
           /\ trans[s][m].type \in {"enqueue", "retrieve"}
           /\ SetEntry(s, m, NoEntry)
           /\ SetTask(s, [task[s] EXCEPT !.todo = @ \ {m}])
    BY <1>4 DEF CommitOne, RollbackOne, ShutdownEntry
  <2>3. m \in Msgs /\ trans[s][m].cursor \in Handles
    <3>1. m \in Msgs
      BY <1>0, <2>1, TaskFields
    <3> QED BY <3>1, <1>0 DEF TData
  <2>4. /\ trans'[s][m] = NoEntry /\ \A n \in Msgs \ {m} : trans'[s][n] = trans[s][n]
        /\ \A t \in Sessions \ {s} : trans'[t] = trans[t]
    BY <2>2, <2>3, <1>0 DEF SetEntry
  <2>5. task'[s].op \notin Holds /\ \A t \in Sessions \ {s} : task'[t] = task[t]
    <3>1. task'[s] = [task[s] EXCEPT !.todo = @ \ {m}]
      BY <2>2, <1>0 DEF SetTask
    <3>2. [task[s] EXCEPT !.todo = @ \ {m}].op = task[s].op
      <4>1. task[s] \in [op : {"commit"}, todo : SUBSET Msgs, end : BOOLEAN]
                     \cup [op : {"rollback"}, todo : SUBSET Msgs]
                     \cup [op : {"shutdown"}, todo : SUBSET Msgs, leave : BOOLEAN]
        BY <1>0, <2>1 DEF Tasks, Idle
      <4> QED BY <4>1
    <3>3. \A t \in Sessions \ {s} : task'[t] = task[t]
      BY <2>2, <1>0 DEF SetTask
    <3> QED BY <3>1, <3>2, <3>3, <2>1 DEF Holds
  <2>6. Mine(s, m, trans[s][m].cursor)
    BY <2>2 DEF Mine, InTrans
  <2>7. trans'[s][m].type = "none" /\ Alone(s)
    BY <2>4, <2>5, <1>1 DEF NoEntry, Alone
  <2> QED BY <2>1, <2>2, <2>3, <2>4, <2>5, <2>6, <2>7, <1>2
<1>5. ASSUME NEW m \in Msgs, RetrieveAckCmd(s, m) PROVE HoldsNext
  <2>1. /\ task' = task /\ task[s] = Idle /\ mode = "running" /\ trans[s][m].type # "none"
        /\ trans[s][m].cursor \in Handles /\ trans[s][m] \in TData
    BY <1>0, <1>5 DEF RetrieveAckCmd, Ready, Waiting, Pending, TData
  <2>2. task'[s].op \notin Holds
    BY <2>1 DEF Idle, Holds
  <2>3. CASE inTransaction[s]
    <3>1. trans' = [trans EXCEPT ![s][m].commitable = TRUE] /\ UNCHANGED vars
      BY <1>5, <2>3 DEF RetrieveAckCmd
    <3>2. trans' = [trans EXCEPT ![s] = [trans[s] EXCEPT ![m] =
                       [trans[s][m] EXCEPT !.commitable = TRUE]]]
      BY <3>1
    <3>3. /\ trans'[s][m] = [trans[s][m] EXCEPT !.commitable = TRUE]
          /\ \A n \in Msgs \ {m} : trans'[s][n] = trans[s][n]
          /\ \A t \in Sessions \ {s} : trans'[t] = trans[t]
      BY <3>2, <1>0
    <3>4. trans'[s][m].type = trans[s][m].type /\ trans'[s][m].cursor = trans[s][m].cursor
      BY <3>3, <2>1 DEF TData
    <3>5. \A n \in Msgs, c \in Handles : InTrans(s, n, c)' => Mine(s, n, c)
      BY <3>3, <3>4 DEF InTrans, Mine
    <3>6. Calm({}, {})
      BY <3>1, <2>1, <1>0, CalmGrowth
    <3>7. Alone(s)
      BY <3>3, <2>1, <1>1 DEF Alone
    <3> QED BY <3>5, <3>6, <3>7, <2>2, <1>0, <1>1, Shed
  <2>4. CASE ~ inTransaction[s]
    <3>1. commitRetrieve(trans[s][m].cursor) /\ SetEntry(s, m, NoEntry)
      BY <1>5, <2>4 DEF RetrieveAckCmd
    <3>2. /\ trans'[s][m] = NoEntry /\ \A n \in Msgs \ {m} : trans'[s][n] = trans[s][n]
          /\ \A t \in Sessions \ {s} : trans'[t] = trans[t]
      BY <3>1, <1>0 DEF SetEntry
    <3>3. Mine(s, m, trans[s][m].cursor)
      BY <2>1 DEF Mine, InTrans
    <3>4. trans'[s][m].type = "none" /\ Alone(s)
      BY <3>2, <2>1, <1>1 DEF NoEntry, Alone
    <3> QED BY <3>1, <3>2, <3>3, <3>4, <2>1, <2>2, <1>2
  <2> QED BY <2>3, <2>4
<1> QED BY <1>3, <1>4, <1>5

(* A handle that nextCursorID() gives out is in nobody's use, and a        *)
(* message that can be seen, or is not there, in nobody's hands.           *)
LEMMA NobodysHandle ==
  ASSUME TypeOK, \A t \in Sessions : HoldsOwn(t), NextCursorID \in Handles
  PROVE  \A t \in Sessions : /\ ~ Reserves(t, NextCursorID)
                             /\ \A m \in Msgs : /\ ~ Mine(t, m, NextCursorID)
                                                /\ ~ Carries(t, m, NextCursorID)
<1>1. cursors[NextCursorID] = Closed
  BY NewHandleIsFree
<1>2. ASSUME NEW m \in Msgs PROVE ~ HeldAt(m, NextCursorID)
  BY <1>1, SpecialPositions DEF HeldAt, Where
<1>3. ASSUME NEW t \in Sessions PROVE ~ Reserves(t, NextCursorID)
  BY <1>1 DEF HoldsOwn, Stays
<1>4. ASSUME NEW t \in Sessions, NEW m \in Msgs
      PROVE  ~ Carries(t, m, NextCursorID) /\ ~ Mine(t, m, NextCursorID)
  <2>1. ~ Carries(t, m, NextCursorID)
    BY <1>2 DEF HoldsOwn
  <2> QED BY <2>1 DEF Mine, Carries, InTask
<1> QED BY <1>3, <1>4

LEMMA NobodysMessage ==
  ASSUME \A t \in Sessions : HoldsOwn(t), SessionsInv,
         NEW m \in Msgs, m \notin Range(index) \/ m \notin hidden
  PROVE  \A t \in Sessions : /\ trans[t][m].type = "none"
                             /\ \A c \in Handles : ~ Carries(t, m, c)
<1> SUFFICES ASSUME NEW t \in Sessions
             PROVE  trans[t][m].type = "none" /\ \A c \in Handles : ~ Carries(t, m, c)
  OBVIOUS
<1>1. \A c \in Handles : ~ Carries(t, m, c)
  BY DEF HoldsOwn, HeldAt
<1>2. trans[t][m].cursor \in Handles
  BY DEF SessionsInv, TData
<1> QED BY <1>1, <1>2 DEF Carries, InTrans

(* A session takes hold of a message by a new handle.                      *)
LEMMA TakesHold ==
  ASSUME \A t \in Sessions : HoldsOwn(t), NEW s \in Sessions, Alone(s), Calm({}, {}),
         NEW m \in Msgs, NEW c \in Handles, HeldAt(m, c)',
         \A t \in Sessions : trans[t][m].type = "none" /\ \A d \in Handles : ~ Carries(t, m, d),
         \A t \in Sessions : ~ Reserves(t, c),
         browse'[s] = browse[s], task[s].op \notin Holds,
         \/ /\ trans'[s] = trans[s]
            /\ \E o \in {"publish", "send"} : task'[s] = [op |-> o, msg |-> m, handle |-> c]
         \/ /\ task'[s] = task[s]
            /\ trans'[s][m] = Entry(c, "enqueue")
            /\ \A n \in Msgs \ {m} : trans'[s][n] = trans[s][n]
  PROVE  HoldsNext
<1>1. ASSUME NEW n \in Msgs, NEW d \in Handles, Mine(s, n, d)' \/ Carries(s, n, d)'
      PROVE  (n = m /\ d = c) \/ (Mine(s, n, d) /\ Carries(s, n, d))
  BY <1>1 DEF Mine, Carries, InTask, InTrans, Entry, Holds
<1>2. ASSUME NEW n \in Msgs, NEW d \in Handles, InTask(s, n, d)' PROVE trans'[s][n].type = "none"
  BY <1>2 DEF InTask, Holds
<1>3. ASSUME NEW h \in Handles PROVE Reserves(s, h)' <=> Reserves(s, h)
  BY DEF Reserves, Holds
<1>4. task'[s].op \notin {"sendCursor", "copyCursor", "advanceCursor"}
  BY DEF Holds
<1>5. ASSUME NEW n \in Msgs, NEW d \in Handles, Carries(s, n, d)'
      PROVE  HeldAt(n, d)' /\ Unheld(s, n)
  <2>1. CASE n = m /\ d = c
    BY <2>1 DEF Unheld
  <2>2. CASE Carries(s, n, d)
    BY <2>2 DEF HoldsOwn, Calm
  <2> QED BY <1>1, <1>5, <2>1, <2>2
<1>6. ASSUME NEW h \in Handles, Reserves(s, h)' PROVE Stays(h)' /\ Unused(s, h)
  BY <1>3, <1>6 DEF HoldsOwn, Calm
<1>7. ASSUME NEW n \in Msgs, NEW d \in Handles, Mine(s, n, d)'
      PROVE  ~ Reserves(s, d)' /\ \A t \in Sessions \ {s} : ~ Reserves(t, d)
  <2>1. CASE n = m /\ d = c
    BY <2>1, <1>3
  <2>2. CASE Mine(s, n, d)
    BY <2>2, <1>3, MineIsUnused DEF Unused
  <2> QED BY <1>1, <1>7, <2>1, <2>2
<1>8. HoldsAfter(s)
  BY <1>2, <1>4, <1>5, <1>6, <1>7 DEF HoldsAfter
<1> QED BY <1>8, Exchange

(* ENQUEUE and RETRIEVE take hold of a message.                            *)
LEMMA CommandsTake ==
  ASSUME HolderInv, NEW s \in Sessions,
         RetrieveCmd(s) \/ \E m \in Msgs : EnqueueCmd(s, m)
  PROVE  HoldsNext
<1>0. /\ trans \in [Sessions -> [Msgs -> TData]] /\ browse \in [Sessions -> SUBSET Handles]
      /\ task \in [Sessions -> Tasks] /\ MemoryInv /\ FrontInv /\ SessionsInv /\ TypeOK
      /\ \A t \in Sessions : HoldsOwn(t)
  BY DEF HolderInv, QueueInv, ServerInv, SessionsInv, MemoryInv
<1>1. /\ browse' = browse /\ task[s].op \notin Holds /\ mode = "running" /\ mode' = "running"
      /\ NextCursorID \in Handles
  <2>1. task[s] = Idle /\ mode = "running" /\ browse' = browse
    BY DEF RetrieveCmd, EnqueueCmd, Ready, Waiting
  <2>2. BeginRetrieve \/ \E m \in Msgs : Enqueue(m)
    BY DEF RetrieveCmd, EnqueueCmd
  <2>3. mode' = mode /\ NextCursorID \in Handles
    BY <2>2 DEF BeginRetrieve, Enqueue, Register
  <2> QED BY <2>1, <2>3 DEF Idle, Holds
<1>2. PICK c \in Handles : c = NextCursorID
  BY <1>1
<1>3. \A t \in Sessions : ~ Reserves(t, c)
  BY <1>0, <1>2, NobodysHandle
<1>4. Calm({}, {})
  BY <1>0, CalmGrowth DEF RetrieveCmd, EnqueueCmd
<1>5. Leaving' = {}
  BY <1>1 DEF Leaving
<1>6. CASE RetrieveCmd(s)
  <2>1. PICK m \in Msgs : m = FirstVisible
    BY <1>0, <1>6, SearchType DEF RetrieveCmd, BeginRetrieve
  <2>2. m \in Range(index) /\ m \notin hidden
    BY <2>1, <1>0, FirstVisibleIsVisible
  <2>3. HeldAt(m, c)'
    <3>1. /\ cursors'[c] = FreshCursor /\ begin' = Foremost(index) /\ index' = index
          /\ hidden' = hidden \cup {m}
      BY <1>0, <1>2, <1>6, <2>1 DEF RetrieveCmd, BeginRetrieve, Register, ResetBegin, TypeOK
    <3>2. Where(c)' = m
      BY <3>1, <2>1, SpecialPositions DEF FreshCursor, Where
    <3> QED BY <3>1, <3>2, <2>2, <1>5 DEF HeldAt
  <2>4. /\ trans' = trans /\ task'[s] = [op |-> "send", msg |-> m, handle |-> c]
        /\ \A t \in Sessions \ {s} : task'[t] = task[t]
    BY <1>0, <1>2, <1>6, <2>1 DEF RetrieveCmd, SetTask
  <2>5. Alone(s)
    BY <2>4, <1>1 DEF Alone
  <2> QED BY <2>2, <2>3, <2>4, <2>5, <1>0, <1>1, <1>3, <1>4, TakesHold, NobodysMessage
<1>7. ASSUME NEW m \in Msgs, EnqueueCmd(s, m) PROVE HoldsNext
  <2>1. m \notin Range(index)
    BY <1>7 DEF EnqueueCmd, Enqueue, OnDisk, HolderInv, QueueInv, StorageInv, EntriesStored
  <2>2. HeldAt(m, c)'
    <3>1. cursors'[c] = m /\ index' = Insert(index, m) /\ hidden' = hidden \cup {m}
      BY <1>0, <1>2, <1>7 DEF EnqueueCmd, Enqueue, Register, TypeOK
    <3>2. m \in Range(index')
      BY <3>1, <1>0, InsertProperties DEF TypeOK
    <3>3. Where(c)' = m
      BY <3>1, SpecialPositions DEF Where
    <3> QED BY <3>1, <3>2, <3>3, <1>5 DEF HeldAt
  <2>3. CASE inTransaction[s]
    <3>1. trans' = [trans EXCEPT ![s][m] = Entry(c, "enqueue")] /\ task' = task
      BY <1>2, <1>7, <2>3 DEF EnqueueCmd, SetEntry
    <3>2. /\ trans'[s][m] = Entry(c, "enqueue")
          /\ \A n \in Msgs \ {m} : trans'[s][n] = trans[s][n]
          /\ \A t \in Sessions \ {s} : trans'[t] = trans[t]
      BY <3>1, <1>0
    <3>3. Alone(s)
      BY <3>1, <3>2, <1>1 DEF Alone
    <3> QED BY <3>1, <3>2, <3>3, <2>1, <2>2, <1>0, <1>1, <1>3, <1>4, TakesHold, NobodysMessage
  <2>4. CASE ~ inTransaction[s]
    <3>1. /\ trans' = trans /\ task'[s] = [op |-> "publish", msg |-> m, handle |-> c]
          /\ \A t \in Sessions \ {s} : task'[t] = task[t]
      BY <1>0, <1>2, <1>7, <2>4 DEF EnqueueCmd, SetTask
    <3>2. Alone(s)
      BY <3>1, <1>1 DEF Alone
    <3> QED BY <3>1, <3>2, <2>1, <2>2, <1>0, <1>1, <1>3, <1>4, TakesHold, NobodysMessage
  <2> QED BY <2>3, <2>4
<1> QED BY <1>6, <1>7

(* The commands that open a cursor, or hide a message at one.              *)
LEMMA CommandsBrowse ==
  ASSUME HolderInv, NEW s \in Sessions,
         \/ OpenCursorCmd(s) \/ SendCursor(s) \/ CopyCursor(s)
         \/ \E h \in Handles : RetrieveCursorCmd(s, h)
  PROVE  HoldsNext
<1>0. /\ trans \in [Sessions -> [Msgs -> TData]] /\ browse \in [Sessions -> SUBSET Handles]
      /\ task \in [Sessions -> Tasks] /\ MemoryInv /\ FrontInv /\ SessionsInv /\ TypeOK
      /\ \A t \in Sessions : HoldsOwn(t)
  BY DEF HolderInv, QueueInv, ServerInv, SessionsInv, MemoryInv
<1>1. trans' = trans
  BY DEF OpenCursorCmd, SendCursor, CopyCursor, RetrieveCursorCmd
<1>2. ASSUME NEW h \in Handles, h = NextCursorID, OpenCursor
      PROVE  /\ Calm({}, {}) /\ Stays(h)' /\ Unused(s, h) /\ ~ Reserves(s, h)
             /\ \A m \in Msgs : ~ Mine(s, m, h)
  <2>1. cursors'[h] = FreshCursor /\ mode' = "running"
    BY <1>0, <1>2 DEF OpenCursor, Register, TypeOK
  <2>2. FreshCursor # Closed
    BY <1>0, SearchType, SpecialPositions
  <2>3. Stays(h)'
    BY <2>1, <2>2 DEF Stays
  <2>4. Calm({}, {})
    BY <1>0, <1>2, CalmGrowth
  <2>5. \A t \in Sessions : ~ Reserves(t, h) /\ \A m \in Msgs : ~ Mine(t, m, h)
    BY <1>0, <1>2, NobodysHandle
  <2> QED BY <2>3, <2>4, <2>5 DEF Unused
<1>3. CASE OpenCursorCmd(s)
  <2>1. PICK h \in Handles : h = NextCursorID
    BY <1>3 DEF OpenCursorCmd, OpenCursor, Register
  <2>2. /\ Calm({}, {}) /\ Stays(h)' /\ Unused(s, h) /\ \A m \in Msgs : ~ Mine(s, m, h)
    BY <1>2, <1>3, <2>1 DEF OpenCursorCmd
  <2>3. /\ browse'[s] = browse[s] \cup {h} /\ task' = task /\ task[s].op \notin Holds
        /\ \A t \in Sessions \ {s} : browse'[t] = browse[t]
    BY <1>0, <1>3, <2>1 DEF OpenCursorCmd, Ready, Waiting, Idle, Holds
  <2>4. Alone(s)
    BY <2>3, <1>1 DEF Alone
  <2>5. ASSUME NEW m \in Msgs, NEW c \in Handles
        PROVE  /\ ~ InTask(s, m, c)'
               /\ Carries(s, m, c)' <=> Carries(s, m, c)
               /\ Mine(s, m, c)' <=> Mine(s, m, c)
               /\ Reserves(s, c)' => Reserves(s, c) \/ c = h
    BY <2>3, <1>1 DEF InTask, Carries, InTrans, Mine, Reserves, Holds
  <2>6. ASSUME NEW m \in Msgs, NEW c \in Handles, Carries(s, m, c)'
        PROVE  HeldAt(m, c)' /\ Unheld(s, m)
    <3>1. Carries(s, m, c)
      BY <2>5, <2>6
    <3> QED BY <3>1, <2>2, <1>0 DEF HoldsOwn, Calm
  <2>7. ASSUME NEW c \in Handles, Reserves(s, c)' PROVE Stays(c)' /\ Unused(s, c)
    <3>1. Reserves(s, c) \/ c = h
      BY <2>3, <2>7 DEF Reserves, Holds
    <3> QED BY <3>1, <2>2, <1>0 DEF HoldsOwn, Calm
  <2>8. ASSUME NEW m \in Msgs, NEW c \in Handles, Mine(s, m, c)'
        PROVE  ~ Reserves(s, c)' /\ \A t \in Sessions \ {s} : ~ Reserves(t, c)
    <3>1. Mine(s, m, c)
      BY <2>5, <2>8
    <3>2. Unused(s, c) /\ ~ Reserves(s, c) /\ c # h
      BY <3>1, <2>2, <1>0, MineIsUnused
    <3> QED BY <3>2, <2>5 DEF Unused
  <2>9. HoldsAfter(s)
    BY <2>3, <2>5, <2>6, <2>7, <2>8 DEF HoldsAfter, Holds
  <2> QED BY <2>2, <2>4, <2>9, <1>0, Exchange
<1>4. CASE SendCursor(s)
  <2>0. /\ task[s].op = "sendCursor" /\ task[s].from \in browse[s]
        /\ task[s].msg \in Msgs /\ task[s].from \in Handles
    BY <1>0, <1>4, TaskFields DEF SendCursor, Doing, HoldsOwn
  <2>1. PICK h \in Handles : h = NextCursorID
    BY <1>4 DEF SendCursor, OpenCursor, Register
  <2>2. /\ Calm({}, {}) /\ Stays(h)' /\ Unused(s, h) /\ ~ Reserves(s, h)
        /\ \A m \in Msgs : ~ Mine(s, m, h)
    BY <1>2, <1>4, <2>1 DEF SendCursor
  <2>3. /\ browse' = browse
        /\ task'[s] = [op |-> "copyCursor", msg |-> task[s].msg, from |-> task[s].from,
                       handle |-> h]
        /\ \A t \in Sessions \ {s} : task'[t] = task[t]
    BY <1>0, <1>4, <2>1 DEF SendCursor, SetTask
  <2>4. Alone(s)
    BY <2>3, <1>1 DEF Alone
  <2>5. ASSUME NEW m \in Msgs, NEW c \in Handles
        PROVE  /\ InTask(s, m, c)' <=> InTask(s, m, c)
               /\ Carries(s, m, c)' <=> Carries(s, m, c)
               /\ Mine(s, m, c)' <=> Mine(s, m, c)
               /\ Reserves(s, c)' => Reserves(s, c) \/ c = h
    BY <2>0, <2>3, <1>1 DEF InTask, Carries, InTrans, Mine, Reserves
  <2>6. ASSUME NEW m \in Msgs, NEW c \in Handles, Carries(s, m, c)'
        PROVE  HeldAt(m, c)' /\ Unheld(s, m)
    <3>1. Carries(s, m, c)
      BY <2>5, <2>6
    <3> QED BY <3>1, <2>2, <1>0 DEF HoldsOwn, Calm
  <2>7. ASSUME NEW c \in Handles, Reserves(s, c)' PROVE Stays(c)' /\ Unused(s, c)
    <3>1. Reserves(s, c) \/ c = h
      BY <2>3, <2>7 DEF Reserves, Holds
    <3> QED BY <3>1, <2>2, <1>0 DEF HoldsOwn, Calm
  <2>8. ASSUME NEW m \in Msgs, NEW c \in Handles, Mine(s, m, c)'
        PROVE  ~ Reserves(s, c)' /\ \A t \in Sessions \ {s} : ~ Reserves(t, c)
    <3>1. Mine(s, m, c)
      BY <2>5, <2>8
    <3>2. Unused(s, c) /\ ~ Reserves(s, c) /\ c # h
      BY <3>1, <2>2, <1>0, MineIsUnused
    <3> QED BY <3>2, <2>5 DEF Unused
  <2>9. ASSUME NEW m \in Msgs, NEW c \in Handles, InTask(s, m, c)'
        PROVE  trans'[s][m].type = "none"
    BY <2>5, <2>9, <1>0, <1>1 DEF HoldsOwn
  <2>10. task'[s].from \in browse'[s] /\ task'[s].handle \notin browse'[s]
    BY <2>0, <2>2, <2>3 DEF Reserves
  <2>11. HoldsAfter(s)
    BY <2>5, <2>6, <2>7, <2>8, <2>9, <2>10 DEF HoldsAfter
  <2> QED BY <2>2, <2>4, <2>11, <1>0, Exchange
<1>5. CASE CopyCursor(s)
  <2>0. PICK m \in Msgs, f \in Handles, h \in Handles :
           m = task[s].msg /\ f = task[s].from /\ h = task[s].handle
    BY <1>0, <1>5, TaskFields DEF CopyCursor, Doing
  <2>1. /\ task[s].op = "copyCursor" /\ f \in browse[s] /\ h \notin browse[s]
        /\ InTask(s, m, f) /\ Carries(s, m, f) /\ Reserves(s, h) /\ Unused(s, h)
    BY <1>0, <1>5, <2>0 DEF CopyCursor, Doing, HoldsOwn, InTask, Carries, Reserves
  <2>2. /\ browse' = browse /\ task'[s].op = "advanceCursor" /\ task'[s].msg = m
        /\ task'[s].from = f /\ task'[s].handle = h
        /\ \A t \in Sessions \ {s} : task'[t] = task[t]
    <3>1. task' = [task EXCEPT ![s] = [task[s] EXCEPT !.op = "advanceCursor"]] /\ browse' = browse
      BY <1>5 DEF CopyCursor, SetTask
    <3>2. task[s] \in [op : {"copyCursor", "advanceCursor"}, msg : Msgs, from : Handles,
                       handle : Handles]
      BY <1>0, <2>1 DEF Tasks, Idle
    <3>3. task'[s] = [task[s] EXCEPT !.op = "advanceCursor"]
      BY <3>1, <1>0
    <3>4. \A t \in Sessions \ {s} : task'[t] = task[t]
      BY <3>1, <1>0
    <3> QED BY <3>1, <3>2, <3>3, <3>4, <2>0
  <2>3. CursorCopy(h, f)
    BY <1>5, <2>0 DEF CopyCursor
  <2>4. Calm({}, {h})
    BY <1>0, <2>3, CalmMove
  <2>5. HeldAt(m, h)' /\ Unheld(s, m) /\ trans[s][m].type = "none"
    <3>1. HeldAt(m, f) /\ Unheld(s, m) /\ trans[s][m].type = "none"
      BY <1>0, <2>1 DEF HoldsOwn
    <3>2. HeldAt(m, f)'
      BY <3>1, <2>1, <2>4 DEF Calm
    <3>3. cursors'[h] = cursors'[f]
      BY <2>1, <2>3, <1>0 DEF CursorCopy, TypeOK
    <3> QED BY <3>1, <3>2, <3>3 DEF HeldAt, Where
  <2>6. Alone(s)
    BY <2>2, <1>1 DEF Alone
  <2>7. ASSUME NEW n \in Msgs, NEW c \in Handles
        PROVE  /\ InTask(s, n, c)' => n = m
               /\ Carries(s, n, c)' => (n = m /\ c = h) \/ Mine(s, n, c)
               /\ Mine(s, n, c)' => (n = m /\ c = h) \/ Mine(s, n, c)
               /\ Reserves(s, c)' => Reserves(s, c) /\ c # h
    BY <2>1, <2>2, <1>1 DEF InTask, Carries, InTrans, Mine, Reserves
  <2>8. ASSUME NEW n \in Msgs, NEW c \in Handles, Mine(s, n, c)
        PROVE  HeldAt(n, c)' /\ Unheld(s, n) /\ Unused(s, c) /\ ~ Reserves(s, c)
    <3>1. HeldAt(n, c) /\ Unheld(s, n) /\ Unused(s, c) /\ ~ Reserves(s, c)
      BY <1>0, <2>8, MineIsUnused
    <3> QED BY <3>1, <2>1, <2>4 DEF Calm
  <2>9. ASSUME NEW c \in Handles, Reserves(s, c)' PROVE Stays(c)' /\ Unused(s, c)
    <3>1. c # h /\ Stays(c) /\ Unused(s, c)
      BY <2>7, <2>9, <1>0 DEF HoldsOwn
    <3> QED BY <3>1, <2>4 DEF Calm
  <2>10. ASSUME NEW n \in Msgs, NEW c \in Handles, Mine(s, n, c)'
         PROVE  ~ Reserves(s, c)' /\ \A t \in Sessions \ {s} : ~ Reserves(t, c)
    BY <2>1, <2>7, <2>8, <2>10 DEF Unused
  <2>11. HoldsAfter(s)
    BY <2>1, <2>2, <2>5, <2>7, <2>8, <2>9, <2>10, <1>1 DEF HoldsAfter
  <2>12. \A c \in {h} : Unused(s, c)
    BY <2>1
  <2> QED BY <2>4, <2>6, <2>11, <2>12, <1>0, Exchange
<1>6. ASSUME NEW h \in Handles, RetrieveCursorCmd(s, h) PROVE HoldsNext
  <2>0. /\ h \in browse[s] /\ BeginRetrieveCursor(h) /\ browse' = browse /\ mode = "running"
        /\ task[s].op \notin Holds /\ Where(h) \notin hidden /\ Where(h) \in Msgs
    BY <1>6 DEF RetrieveCursorCmd, BeginRetrieveCursor, Ready, Waiting, Idle, Holds, Usable
  <2>1. PICK m \in Msgs : m = Where(h)
    BY <2>0
  <2>2. m \in Range(index)
    BY <1>0, <2>1, SpecialPositions DEF MemoryInv, PositionsInIndex, Where
  <2>3. HeldAt(m, h)' /\ Calm({}, {})
    <3>1. /\ UNCHANGED <<index, begin, cursors>> /\ mode' = "running" /\ hidden' = hidden \cup {m}
      BY <2>0, <2>1 DEF BeginRetrieveCursor
    <3>2. Leaving' = {}
      BY <3>1 DEF Leaving
    <3>3. Calm({}, {})
      BY <1>0, <2>0, CalmGrowth
    <3> QED BY <3>1, <3>2, <3>3, <2>1, <2>2 DEF HeldAt, Where
  <2>4. \A t \in Sessions : trans[t][m].type = "none" /\ \A d \in Handles : ~ Carries(t, m, d)
    BY <1>0, <2>0, <2>1, NobodysMessage
  <2>5. /\ task'[s] = [op |-> "sendCursor", msg |-> m, from |-> h]
        /\ \A t \in Sessions \ {s} : task'[t] = task[t]
    BY <1>0, <1>6, <2>1 DEF RetrieveCursorCmd, SetTask
  <2>6. Alone(s)
    BY <2>0, <2>5, <1>1 DEF Alone
  <2>7. ASSUME NEW n \in Msgs, NEW c \in Handles
        PROVE  /\ InTask(s, n, c)' => n = m
               /\ Carries(s, n, c)' => (n = m /\ c = h) \/ Mine(s, n, c)
               /\ Mine(s, n, c)' => Mine(s, n, c)
               /\ Reserves(s, c)' => Reserves(s, c)
    BY <2>0, <2>5, <1>1 DEF InTask, Carries, InTrans, Mine, Reserves, Holds
  <2>8. ASSUME NEW n \in Msgs, NEW c \in Handles, Mine(s, n, c)
        PROVE  /\ HeldAt(n, c)' /\ Unheld(s, n) /\ ~ Reserves(s, c)
               /\ \A t \in Sessions \ {s} : ~ Reserves(t, c)
    <3>1. HeldAt(n, c) /\ Unheld(s, n) /\ Unused(s, c) /\ ~ Reserves(s, c)
      BY <1>0, <2>8, MineIsUnused
    <3> QED BY <3>1, <2>3 DEF Calm, Unused
  <2>9. ASSUME NEW c \in Handles, Reserves(s, c) PROVE Stays(c)' /\ Unused(s, c)
    BY <2>3, <2>9, <1>0 DEF HoldsOwn, Calm
  <2>10. Unheld(s, m)
    BY <2>4 DEF Unheld
  <2>11. HoldsAfter(s)
    BY <2>0, <2>3, <2>4, <2>5, <2>7, <2>8, <2>9, <2>10, <1>1 DEF HoldsAfter
  <2> QED BY <2>3, <2>6, <2>11, <1>0, Exchange
<1> QED BY <1>3, <1>4, <1>5, <1>6

(* Every step of a session leaves each with holds of its own.              *)
LEMMA SessionStepHolds ==
  ASSUME HolderInv, ~ CursorSendFails, NEW s \in Sessions, SessionStep(s)
  PROVE  HoldsNext
<1>1. ~ SendCursorFails(s)
  BY DEF SendCursorFails
<1> QED BY <1>1, CommandsApart, CommandsAtCursor, CommandsRelease, CommandsTake, CommandsBrowse
        DEF SessionStep

(* Erasing the entry of another message leaves a hold alone.               *)
LEMMA EraseKeepsHold ==
  ASSUME MemoryInv, FrontInv, NEW m \in Msgs, NEW c \in Handles, HeldAt(m, c),
         NEW n \in Range(index), n # m, EraseEntry(n),
         cursors'[c] = InvalidateAll(n)[c], Leaving' = {}
  PROVE  HeldAt(m, c)'
<1>0. TypeOK /\ index \in Seq(Msgs) /\ n \in Msgs
  BY SearchType DEF MemoryInv, TypeOK
<1>1. cursors'[c] = cursors[c]
  BY <1>0, SpecialPositions DEF HeldAt, Where, InvalidateAll, Invalidated
<1>2. m \in Range(index') /\ m \in hidden'
  BY <1>0, EraseProperties DEF EraseEntry, HeldAt
<1>3. begin' = Invalidated(begin, n)
  BY DEF EraseEntry
<1> QED BY <1>0, <1>1, <1>2, <1>3, HeldStays

(* What the queue does by itself takes nothing from a session.             *)
LEMMA StorageStepHolds ==
  ASSUME HolderInv, StorageStep
  PROVE  Quiet' /\ \A t \in Sessions : HoldsOwn(t)'
<1>0. MemoryInv /\ FrontInv /\ TypeOK /\ Quiet /\ (\A t \in Sessions : HoldsOwn(t))
  BY DEF HolderInv, QueueInv, ServerInv, MemoryInv
<1>1. UNCHANGED sessionVars
  BY DEF StorageStep
<1>2. ASSUME \A t \in Sessions, m \in Msgs, c \in Handles : Carries(t, m, c) => HeldAt(m, c)',
             \A t \in Sessions, h \in Handles : Reserves(t, h) => Stays(h)'
      PROVE  \A t \in Sessions : HoldsOwn(t)'
  <2> SUFFICES ASSUME NEW t \in Sessions PROVE HoldsOwn(t)'
    OBVIOUS
  <2>1. ASSUME NEW u, NEW m, NEW c
        PROVE  /\ Carries(u, m, c)' <=> Carries(u, m, c)
               /\ InTask(u, m, c)' <=> InTask(u, m, c)
               /\ Mine(u, m, c)' <=> Mine(u, m, c)
               /\ Reserves(u, c)' <=> Reserves(u, c)
    BY <1>1 DEF Carries, InTask, InTrans, Mine, Reserves, sessionVars
  <2>2. \A m, h : /\ Unheld(t, m)' <=> Unheld(t, m)
                  /\ Unused(t, h)' <=> Unused(t, h)
    BY <2>1 DEF Unheld, Unused
  <2> QED BY <2>1, <2>2, <1>0, <1>1, <1>2 DEF HoldsOwn, sessionVars
<1>3. CASE mode = "recovering"
  <2>1. ASSUME NEW t \in Sessions, NEW m \in Msgs, NEW c \in Handles PROVE ~ Carries(t, m, c)
    BY <1>0, <1>3 DEF Quiet, Carries, InTask, InTrans, Idle, NoEntry
  <2>2. ASSUME NEW t \in Sessions, NEW c \in Handles PROVE ~ Reserves(t, c)
    BY <1>0, <1>3 DEF Quiet, Reserves, Idle
  <2>3. Quiet'
    BY <1>0, <1>1, <1>3 DEF Quiet, sessionVars
  <2> QED BY <2>1, <2>2, <2>3, <1>2
<1>4. CASE mode # "recovering"
  <2>1. FinishRemoval \/ Expiry
    BY <1>4 DEF StorageStep, Recovery, RecoverRecord, RecoverNextFile, Recovered
  <2>2. mode' # "recovering"
    BY <2>1 DEF FinishRemoval, Expiry, BeginTTLPurge, PurgeExpired, EraseExpired, PurgeSkip,
       EndTTLPurge, Age
  <2>3. Quiet'
    BY <2>2 DEF Quiet
  <2>4. CASE FinishRemoval
    <3>1. PICK n \in Range(index) : n = Where(removing)
      BY <1>0, <2>4 DEF FinishRemoval, MemoryInv, PositionsInIndex
    <3>2. /\ mode = "removing" /\ mode' = "running" /\ EraseEntry(n) /\ removing \in Handles
          /\ cursors' = [InvalidateAll(n) EXCEPT ![removing] = Closed]
      BY <1>0, <2>4, <3>1 DEF FinishRemoval, EraseMessage, TypeOK
    <3>3. \A h \in Handles \ {removing} : cursors'[h] = InvalidateAll(n)[h]
      BY <3>2 DEF InvalidateAll
    <3>4. Leaving = {n} /\ Leaving' = {}
      BY <3>1, <3>2 DEF Leaving
    <3>5. ASSUME NEW m \in Msgs, NEW c \in Handles, HeldAt(m, c) PROVE HeldAt(m, c)'
      <4>1. m # n /\ c # removing
        BY <3>1, <3>4, <3>5 DEF HeldAt
      <4> QED BY <4>1, <3>2, <3>3, <3>4, <3>5, <1>0, EraseKeepsHold
    <3>6. ASSUME NEW h \in Handles, Stays(h) PROVE Stays(h)'
      <4>1. cursors'[h] = InvalidateAll(n)[h] /\ cursors[h] # Closed
        BY <3>2, <3>3, <3>6 DEF Stays
      <4> QED BY <4>1, <3>2, SpecialPositions DEF InvalidateAll, Invalidated, Stays
    <3> QED BY <3>5, <3>6, <2>3, <1>0, <1>2 DEF HoldsOwn
  <2>5. CASE EraseExpired
    <3>1. PICK n \in Range(index) : n = purgeAt
      BY <1>0, <2>5 DEF EraseExpired, MemoryInv, PositionsInIndex
    <3>2. /\ mode = "expiring" /\ mode' = "purging" /\ EraseEntry(n)
          /\ cursors' = InvalidateAll(n)
      BY <2>5, <3>1 DEF EraseExpired, EraseMessage
    <3>3. Leaving = {n} /\ Leaving' = {}
      BY <3>1, <3>2 DEF Leaving
    <3>4. ASSUME NEW m \in Msgs, NEW c \in Handles, HeldAt(m, c) PROVE HeldAt(m, c)'
      <4>1. m # n
        BY <3>3, <3>4 DEF HeldAt
      <4> QED BY <4>1, <3>2, <3>3, <3>4, <1>0, EraseKeepsHold
    <3>5. ASSUME NEW h \in Handles, Stays(h) PROVE Stays(h)'
      BY <3>2, <3>5, SpecialPositions DEF InvalidateAll, Invalidated, Stays
    <3> QED BY <3>4, <3>5, <2>3, <1>0, <1>2 DEF HoldsOwn
  <2>6. CASE ~ FinishRemoval /\ ~ EraseExpired
    <3>1. /\ UNCHANGED <<index, cursors>> /\ (begin' = begin \/ ResetBegin)
          /\ hidden \subseteq hidden' /\ mode' # "removing" /\ mode # "removing"
      BY <2>1, <2>6 DEF Expiry, BeginTTLPurge, PurgeExpired, PurgeSkip, EndTTLPurge, Age,
         MarkMessage, memoryVars
    <3>2. \A m \in hidden : m \notin Leaving'
      <4>1. CASE PurgeExpired
        <5>1. mode' = "expiring" /\ purgeAt' = purgeAt /\ purgeAt \notin hidden
          BY <4>1 DEF PurgeExpired, ttlVars
        <5>2. Leaving' = {purgeAt}
          BY <5>1 DEF Leaving
        <5> QED BY <5>1, <5>2
      <4>2. CASE ~ PurgeExpired
        <5>1. mode' # "removing" /\ mode' # "expiring"
          BY <2>1, <2>6, <4>2 DEF Expiry, BeginTTLPurge, PurgeSkip, EndTTLPurge, Age
        <5> QED BY <5>1 DEF Leaving
      <4> QED BY <4>1, <4>2
    <3>3. ASSUME NEW m \in Msgs, NEW c \in Handles, HeldAt(m, c) PROVE HeldAt(m, c)'
      <4>1. m \in Range(index') /\ m \in hidden' /\ m \notin Leaving'
        BY <3>1, <3>2, <3>3 DEF HeldAt
      <4> QED BY <4>1, <3>1, <3>3, <1>0, HeldStays
    <3>4. ASSUME NEW h \in Handles, Stays(h) PROVE Stays(h)'
      BY <3>1, <3>4 DEF Stays
    <3> QED BY <3>3, <3>4, <2>3, <1>0, <1>2 DEF HoldsOwn
  <2> QED BY <2>4, <2>5, <2>6
<1> QED BY <1>3, <1>4

(* A session that has begun nothing holds nothing.                         *)
LEMMA IdleHoldsNothing ==
  (\A s \in Sessions : /\ task[s] = Idle /\ browse[s] = {}
                       /\ \A m \in Msgs : trans[s][m] = NoEntry)
      => \A s \in Sessions : HoldsOwn(s)
BY DEF HoldsOwn, Carries, InTask, InTrans, Mine, Reserves, Idle, NoEntry

(* The crash takes the sessions with it.                                   *)
LEMMA CrashHolds ==
  ASSUME ServerCrash
  PROVE  Quiet' /\ \A t \in Sessions : HoldsOwn(t)'
<1>1. \A s \in Sessions : /\ task'[s] = Idle /\ browse'[s] = {}
                          /\ \A m \in Msgs : trans'[s][m] = NoEntry
  BY DEF ServerCrash
<1>2. \A s \in Sessions : HoldsOwn(s)'
  BY <1>1 DEF HoldsOwn, Carries, InTask, InTrans, Mine, Reserves, Idle, NoEntry
<1> QED BY <1>1, <1>2 DEF Quiet

LEMMA InitHolds == Init /\ SessionInit => HolderInv
<1> SUFFICES ASSUME Init, SessionInit PROVE HolderInv
  OBVIOUS
<1>1. ServerInv /\ StorageInv
  BY InitServer, InitStorage
<1>2. FrontInv /\ Quiet
  BY SpecialPositions DEF Init, FrontInv, Quiet
<1>3. \A s \in Sessions : HoldsOwn(s)
  BY IdleHoldsNothing DEF SessionInit
<1> QED BY <1>1, <1>2, <1>3 DEF HolderInv, QueueInv

LEMMA ServerStepHolds ==
  ASSUME OneLevel, ~ CursorSendFails, HolderInv, [ServerNext]_allVars
  PROVE  HolderInv'
<1>0. ServerInv /\ MemoryInv /\ StorageInv /\ FrontInv
  BY DEF HolderInv, QueueInv, ServerInv
<1>1. [Next]_vars
  BY <1>0, ServerStepIsStorageStep
<1>2. QueueInv'
  <2>1. ServerInv'
    BY <1>0, ServerStepKeeps
  <2>2. StorageInv'
    BY <1>0, <1>1, NextKeepsStorage
  <2>3. FrontInv'
    BY <1>0, <1>1, FrontKept
  <2> QED BY <2>1, <2>2, <2>3 DEF QueueInv
<1>3. Quiet' /\ \A s \in Sessions : HoldsOwn(s)'
  <2>1. ASSUME NEW s \in Sessions, SessionStep(s) PROVE Quiet' /\ \A t \in Sessions : HoldsOwn(t)'
    BY <2>1, SessionStepHolds DEF HoldsNext, Quiet
  <2>2. CASE StorageStep
    BY <2>2, StorageStepHolds
  <2>3. CASE ServerCrash
    BY <2>3, CrashHolds
  <2>4. CASE UNCHANGED allVars
    <3>1. UNCHANGED <<mode, index, hidden, begin, cursors, purgeAt, removing>>
          /\ UNCHANGED <<trans, browse, task>>
      BY <2>4 DEF allVars, vars, memoryVars, ttlVars, scanVars, sessionVars
    <3> QED BY <3>1 DEF HolderInv, Quiet, HoldsOwn, Carries, InTask, InTrans, Mine, Reserves,
       HeldAt, Where, Leaving, Stays, Unheld, Unused
  <2> QED BY <2>1, <2>2, <2>3, <2>4 DEF ServerNext
<1> QED BY <1>2, <1>3 DEF HolderInv

LEMMA HolderInvariant ==
  ASSUME OneLevel, ~ CursorSendFails
  PROVE  ServerSpec => []HolderInv
<1>1. Init /\ SessionInit => HolderInv
  BY InitHolds
<1>2. HolderInv /\ [ServerNext]_allVars => HolderInv'
  BY ServerStepHolds
<1> QED BY <1>1, <1>2, PTL DEF ServerSpec

(* What a session claims it holds, by a handle of its own.                 *)
LEMMA ClaimsHeld ==
  ASSUME HolderInv, NEW s \in Sessions, NEW r \in Claims(s)
  PROVE  /\ r = [msg |-> r.msg, cursor |-> r.cursor]
         /\ r.msg \in Msgs /\ r.cursor \in Handles /\ Mine(s, r.msg, r.cursor)
         /\ HeldAt(r.msg, r.cursor) /\ Unheld(s, r.msg) /\ Unused(s, r.cursor)
         /\ ~ Reserves(s, r.cursor) /\ Carries(s, r.msg, r.cursor)
<1>1. /\ r = [msg |-> r.msg, cursor |-> r.cursor]
      /\ r.msg \in Msgs /\ r.cursor \in Handles /\ Mine(s, r.msg, r.cursor)
  <2>1. CASE \E m \in Msgs : /\ r = [msg |-> m, cursor |-> trans[s][m].cursor]
                             /\ trans[s][m].type \in {"enqueue", "retrieve"}
    BY <2>1 DEF HolderInv, QueueInv, ServerInv, SessionsInv, TData, Mine, InTrans
  <2>2. CASE /\ r = [msg |-> task[s].msg, cursor |-> task[s].handle]
             /\ task[s].op \in {"publish", "send", "advanceCursor"}
    BY <2>2, TaskFields DEF HolderInv, QueueInv, ServerInv, Mine
  <2> QED BY <2>1, <2>2 DEF Claims, Retrieved, Stored
<1> QED BY <1>1, MineIsUnused DEF HolderInv

(* Under one priority, and while no answer to RETRIEVE_CURSOR is lost, the *)
(* cursor a session will finish or cancel with is on the message it holds, *)
(* whatever the other sessions, expiry and the reuse of handles do.        *)
THEOREM HandleOnMessage ==
  OneLevel /\ ~ CursorSendFails => (ServerSpec => []PendingOnMessage)
<1> SUFFICES ASSUME OneLevel, ~ CursorSendFails PROVE ServerSpec => []PendingOnMessage
  OBVIOUS
<1>1. HolderInv => PendingOnMessage
  BY ClaimsHeld DEF PendingOnMessage, HeldAt
<1> QED BY <1>1, HolderInvariant, PTL

(* Under the same conditions no two holders go by one handle.              *)
THEOREM HandleOfOneHolder ==
  OneLevel /\ ~ CursorSendFails => (ServerSpec => []HandlesUnshared)
<1> SUFFICES ASSUME OneLevel, ~ CursorSendFails PROVE ServerSpec => []HandlesUnshared
  OBVIOUS
<1>1. HolderInv => HandlesUnshared
  <2> SUFFICES ASSUME HolderInv, NEW s \in Sessions, NEW t \in Sessions
               PROVE  /\ \A r \in Claims(s) :
                            /\ r.cursor \notin browse[t]
                            /\ \A q \in Claims(t) : r.cursor = q.cursor => s = t /\ r = q
                      /\ s # t => browse[s] \cap browse[t] = {}
    BY DEF HandlesUnshared
  <2>1. ASSUME NEW r \in Claims(s) PROVE r.cursor \notin browse[t]
    BY ClaimsHeld DEF Unused, Reserves
  <2>2. ASSUME NEW r \in Claims(s), NEW q \in Claims(t), r.cursor = q.cursor
        PROVE  s = t /\ r = q
    <3>1. r.msg = q.msg
      BY <2>2, ClaimsHeld DEF HeldAt
    <3>2. s = t
      BY <2>2, <3>1, ClaimsHeld DEF Unheld
    <3> QED BY <2>2, <3>1, <3>2, ClaimsHeld
  <2>3. ASSUME s # t, NEW h \in browse[s], h \in browse[t] PROVE FALSE
    <3>1. h \in Handles /\ Reserves(s, h) /\ Reserves(t, h)
      BY <2>3 DEF HolderInv, QueueInv, ServerInv, SessionsInv, Reserves
    <3> QED BY <3>1, <2>3 DEF HolderInv, HoldsOwn, Unused
  <2> QED BY <2>1, <2>2, <2>3
<1> QED BY <1>1, HolderInvariant, PTL

(* Under the same conditions a message that a session holds stays in the   *)
(* queue, hidden, and is held by no other, until that session has dealt    *)
(* with it.                                                                *)
THEOREM HeldByOne ==
  OneLevel /\ ~ CursorSendFails => (ServerSpec => []ExclusiveHold)
<1> SUFFICES ASSUME OneLevel, ~ CursorSendFails PROVE ServerSpec => []ExclusiveHold
  OBVIOUS
<1>1. HolderInv => ExclusiveHold
  <2> SUFFICES ASSUME HolderInv, NEW s \in Sessions
               PROVE  /\ Owned(s) \subseteq Range(index) \cap hidden
                      /\ \A t \in Sessions \ {s} : Owned(s) \cap Owned(t) = {}
    BY DEF ExclusiveHold
  <2>1. ASSUME NEW r \in Claims(s) PROVE r.msg \in Range(index) \cap hidden
    BY ClaimsHeld DEF HeldAt
  <2>2. ASSUME NEW t \in Sessions \ {s}, NEW r \in Claims(s), NEW q \in Claims(t)
        PROVE  r.msg # q.msg
    BY ClaimsHeld DEF Unheld
  <2> QED BY <2>1, <2>2 DEF Owned
<1> QED BY <1>1, HolderInvariant, PTL
-----------------------------------------------------------------------------
(***************************************************************************)
(* The server keeps the promise of MessageQueue.                           *)
(*                                                                         *)
(* Every step of the server is shown to be a step of the contract, seen    *)
(* through the mapping.  What the contract knows as one sequence, the      *)
(* messages accepted, is spread over the files; KeptInOrder chooses the    *)
(* list they make up, and the proof needs that there is exactly one.  That *)
(* there is one at most follows from the records (each message is on disk  *)
(* once); that there is one is kept up step by step (RecordsListed): a     *)
(* message stored comes behind the others, for no entry's record is in a   *)
(* file behind the one written (OrderInv), and one that is marked is taken *)
(* out.  Once the queue is recovered the list can be read off the index    *)
(* (KeptIsIndexed), so that no step has to be followed through the files.  *)
(***************************************************************************)

(* A list of the members of a finite set is injective and has them all.    *)
LEMMA ListOfSet ==
  ASSUME NEW S, IsFiniteSet(S), NEW q
  PROVE  q \in SetToSeqs(S) <=> q \in Seq(S) /\ IsInjective(q) /\ Range(q) = S
<1> DEFINE n == Cardinality(S)
<1>0. n \in Nat /\ IsFiniteSet(1 .. n) /\ Cardinality(1 .. n) = n
  BY FS_CardinalityType, FS_Interval
<1>1. ASSUME q \in SetToSeqs(S) PROVE q \in Seq(S) /\ IsInjective(q) /\ Range(q) = S
  <2>1. q \in [1 .. n -> S] /\ IsInjective(q)
    BY <1>1 DEF SetToSeqs, IsInjective
  <2> HIDE DEF n
  <2>2. q \in Seq(S)
    BY <1>0, <2>1
  <2>3. q \in Injection(1 .. n, S)
    BY <2>1 DEF Injection
  <2>4. q \in Surjection(1 .. n, S)
    BY <1>0, <2>3, FS_Injection DEF n
  <2>5. Range(q) = S
    BY <2>1, <2>4 DEF Surjection, Range
  <2> QED BY <2>1, <2>2, <2>5
<1>2. ASSUME q \in Seq(S), IsInjective(q), Range(q) = S PROVE q \in SetToSeqs(S)
  <2>1. Len(q) \in Nat /\ q \in [1 .. Len(q) -> S]
    BY <1>2
  <2>2. IsFiniteSet(1 .. Len(q)) /\ Cardinality(1 .. Len(q)) = Len(q)
    BY <2>1, FS_Interval
  <2>3. q \in Injection(1 .. Len(q), S) /\ q \in Surjection(1 .. Len(q), S)
    BY <1>2, <2>1 DEF Injection, Surjection, Range
  <2>4. n = Len(q)
    <3> HIDE DEF n
    <3> QED BY <2>2, <2>3, FS_Injection DEF n
  <2> QED BY <1>2, <2>1, <2>4 DEF SetToSeqs, IsInjective
<1> QED BY <1>1, <1>2

(* The lists of a set in the order of a relation.                          *)
Listed(q, S, R) ==
    /\ q \in Seq(S) /\ IsInjective(q) /\ Range(q) = S
    /\ \A i, j \in DOMAIN q : i < j => <<q[i], q[j]>> \in R

(* There is one at most, when no two members come before each other.       *)
LEMMA ListUnique ==
  ASSUME NEW S, IsFiniteSet(S), NEW R, \A m, n \in S : ~ (<<m, n>> \in R /\ <<n, m>> \in R),
         NEW p, NEW q, Listed(p, S, R), Listed(q, S, R)
  PROVE  p = q
<1> DEFINE n == Cardinality(S)
<1>1. n \in Nat /\ p \in [1 .. n -> S] /\ q \in [1 .. n -> S]
  <2>1. n \in Nat
    BY FS_CardinalityType
  <2>2. p \in SetToSeqs(S) /\ q \in SetToSeqs(S)
    BY ListOfSet DEF Listed
  <2> QED BY <2>1, <2>2 DEF SetToSeqs
<1> HIDE DEF n
<1> DEFINE D == {i \in 1 .. n : p[i] # q[i]}
<1>2. ASSUME D # {} PROVE FALSE
  <2>1. Min(D) \in D /\ \A i \in D : Min(D) <= i
    <3>1. D \subseteq 1 .. n
      OBVIOUS
    <3> HIDE DEF D
    <3> QED BY <1>1, <1>2, <3>1, MinExists
  <2> DEFINE k == Min(D)
  <2>2. k \in 1 .. n /\ p[k] # q[k] /\ \A i \in 1 .. n : i < k => p[i] = q[i]
    <3>1. \A i \in 1 .. n : i \notin D => p[i] = q[i]
      OBVIOUS
    <3>2. \A i \in 1 .. n : i < Min(D) => i \notin D
      <4>1. Min(D) \in 1 .. n
        BY <2>1
      <4> HIDE DEF D
      <4>2. ASSUME NEW i \in 1 .. n, i < Min(D), i \in D PROVE FALSE
        <5> DEFINE x == Min(D)
        <5>1. x \in 1 .. n /\ x <= i /\ i < x
          BY <2>1, <4>1, <4>2
        <5> HIDE DEF x
        <5> QED BY <1>1, <5>1
      <4> QED BY <4>2
    <3> QED BY <2>1, <3>1, <3>2
  <2> HIDE DEF k, D
  <2>3. p[k] \in S /\ q[k] \in S
    BY <1>1, <2>2
  <2>4. PICK j \in 1 .. n : q[j] = p[k]
    BY <1>1, <2>3 DEF Listed, Range
  <2>5. PICK l \in 1 .. n : p[l] = q[k]
    BY <1>1, <2>3 DEF Listed, Range
  <2>6. j > k
    BY <1>1, <2>2, <2>4 DEF Listed, IsInjective
  <2>7. l > k
    BY <1>1, <2>2, <2>5 DEF Listed, IsInjective
  <2>8. <<q[k], p[k]>> \in R
    BY <1>1, <2>2, <2>4, <2>6 DEF Listed
  <2>9. <<p[k], q[k]>> \in R
    BY <1>1, <2>2, <2>5, <2>7 DEF Listed
  <2> QED BY <2>3, <2>8, <2>9
<1>3. \A i \in 1 .. n : p[i] = q[i]
  BY <1>2
<1> QED BY <1>1, <1>3

(* One more member, behind all the others.                                 *)
LEMMA ListAppend ==
  ASSUME NEW S, NEW R, NEW q, Listed(q, S, R), NEW m, m \notin S,
         NEW T, T = S \cup {m}, NEW Q,
         \A k, l \in S : <<k, l>> \in R => <<k, l>> \in Q,
         \A k \in S : <<k, m>> \in Q
  PROVE  Listed(Append(q, m), T, Q)
<1> DEFINE r == Append(q, m)
<1>1. /\ q \in Seq(S) /\ Len(q) \in Nat /\ DOMAIN q = 1 .. Len(q) /\ Range(q) = S
      /\ IsInjective(q) /\ q \in Seq(T) /\ m \in T
  <2>1. q \in Seq(S)
    BY DEF Listed
  <2>2. S \subseteq T
    OBVIOUS
  <2>3. q \in Seq(T)
    BY <2>1, <2>2
  <2> QED BY <2>1, <2>3 DEF Listed
<1>2. /\ r \in Seq(T) /\ DOMAIN r = 1 .. Len(q) + 1 /\ r[Len(q) + 1] = m
      /\ \A k \in 1 .. Len(q) : r[k] = q[k]
  BY <1>1, AppendProperties
<1> HIDE DEF r
<1>3. \A k \in 1 .. Len(q) + 1 : k \in 1 .. Len(q) \/ k = Len(q) + 1
  BY <1>1
<1>4. \A k \in 1 .. Len(q) : q[k] \in S
  BY <1>1
<1>5. IsInjective(r)
  BY <1>1, <1>2, <1>3, <1>4 DEF IsInjective
<1>6. Range(r) = T
  <2>1. Range(r) \subseteq T
    BY <1>1, <1>2, <1>3, <1>4 DEF Range
  <2>2. S \subseteq Range(r)
    BY <1>1, <1>2 DEF Range
  <2>3. m \in Range(r)
    BY <1>1, <1>2 DEF Range
  <2> QED BY <2>1, <2>2, <2>3
<1>7. ASSUME NEW i \in DOMAIN r, NEW j \in DOMAIN r, i < j PROVE <<r[i], r[j]>> \in Q
  <2>1. i \in 1 .. Len(q) /\ r[i] = q[i] /\ q[i] \in S
    BY <1>1, <1>2, <1>4, <1>7
  <2>2. CASE j = Len(q) + 1
    BY <1>2, <2>1, <2>2
  <2>3. CASE j \in 1 .. Len(q)
    <3>1. <<q[i], q[j]>> \in R /\ q[j] \in S /\ r[j] = q[j]
      BY <1>1, <1>2, <1>4, <1>7, <2>1, <2>3 DEF Listed
    <3> QED BY <2>1, <3>1
  <2> QED BY <1>2, <1>3, <2>2, <2>3
<1> QED BY <1>2, <1>5, <1>6, <1>7 DEF Listed, r

(* One member less.                                                        *)
LEMMA ListRemove ==
  ASSUME NEW S, NEW R, NEW q, Listed(q, S, R), NEW i \in DOMAIN q,
         NEW T, T = S \ {q[i]}, NEW Q,
         \A k, l \in T : <<k, l>> \in R => <<k, l>> \in Q
  PROVE  Listed(RemoveAt(q, i), T, Q)
<1> DEFINE r == RemoveAt(q, i)
           From(k) == IF k < i THEN k ELSE k + 1
<1>1. /\ q \in Seq(S) /\ Len(q) \in Nat /\ DOMAIN q = 1 .. Len(q) /\ Range(q) = S
      /\ IsInjective(q) /\ i \in 1 .. Len(q)
  BY DEF Listed
<1>2. /\ r \in Seq(S) /\ DOMAIN r = 1 .. Len(q) - 1
      /\ \A k \in 1 .. Len(q) - 1 : r[k] = IF k < i THEN q[k] ELSE q[k + 1]
  <2>1. r \in Seq(S) /\ Len(r) = Len(q) - 1
    BY <1>1, RemoveAtProperties
  <2>2. DOMAIN r = 1 .. Len(q) - 1
    BY <2>1
  <2> QED BY <1>1, <2>1, <2>2, RemoveAtProperties
<1> HIDE DEF r
<1>3. ASSUME NEW k \in 1 .. Len(q) - 1
      PROVE  From(k) \in 1 .. Len(q) /\ From(k) # i /\ r[k] = q[From(k)]
  BY <1>1, <1>2
<1>4. ASSUME NEW j \in 1 .. Len(q), j # i PROVE \E k \in 1 .. Len(q) - 1 : From(k) = j
  <2>1. CASE j < i
    BY <1>1, <2>1
  <2>2. CASE j > i
    <3>1. j - 1 \in 1 .. Len(q) - 1 /\ From(j - 1) = j
      BY <1>1, <2>2
    <3> QED BY <3>1
  <2> QED BY <1>1, <1>4, <2>1, <2>2
<1>5. \A k, l \in 1 .. Len(q) - 1 : (From(k) = From(l) => k = l) /\ (k < l => From(k) < From(l))
  BY <1>1
<1> HIDE DEF From
<1>6. IsInjective(r)
  BY <1>1, <1>2, <1>3, <1>5 DEF IsInjective
<1>7. Range(r) = T
  <2>1. ASSUME NEW k \in 1 .. Len(q) - 1 PROVE r[k] \in T
    BY <1>1, <1>3 DEF IsInjective, Range
  <2>2. ASSUME NEW m \in T PROVE m \in Range(r)
    <3>1. PICK j \in 1 .. Len(q) : q[j] = m
      BY <1>1 DEF Range
    <3>2. PICK k \in 1 .. Len(q) - 1 : From(k) = j
      BY <1>4, <3>1
    <3> QED BY <1>2, <1>3, <3>1, <3>2 DEF Range
  <2> QED BY <1>2, <2>1, <2>2 DEF Range
<1>8. r \in Seq(T)
  <2>1. Len(q) - 1 \in Nat /\ r \in [1 .. Len(q) - 1 -> T]
    <3>1. \A k \in DOMAIN r : r[k] \in T
      BY <1>7 DEF Range
    <3> QED BY <1>1, <1>2, <3>1
  <2> QED BY <2>1
<1>9. ASSUME NEW k \in DOMAIN r, NEW l \in DOMAIN r, k < l PROVE <<r[k], r[l]>> \in Q
  <2>1. From(k) \in DOMAIN q /\ From(l) \in DOMAIN q /\ From(k) < From(l)
    BY <1>1, <1>2, <1>3, <1>5, <1>9
  <2>2. <<q[From(k)], q[From(l)]>> \in R
    BY <2>1 DEF Listed
  <2>3. r[k] = q[From(k)] /\ r[l] = q[From(l)] /\ r[k] \in T /\ r[l] \in T
    BY <1>2, <1>3, <1>7 DEF Range
  <2> QED BY <2>2, <2>3
<1> QED BY <1>6, <1>7, <1>8, <1>9 DEF Listed, r

(* The order of the records, as a relation, and the list they make up.     *)
KeptOrder == {p \in Msgs \X Msgs : KeptFirst(p[1], p[2])}

RecordsListed == \E q : Listed(q, Kept, KeptOrder)

(* No other list is in the order of the records than the one chosen.       *)
OneOrder == \A q : Listed(q, Kept, KeptOrder) => KeptInOrder = q

(* A message is on disk once, so that there is one such list at most.      *)
LEMMA KeptIs == TypeOK /\ RecordsUnique => OneOrder
<1> SUFFICES ASSUME TypeOK, RecordsUnique, NEW q, Listed(q, Kept, KeptOrder)
             PROVE  KeptInOrder = q
  BY DEF OneOrder
<1> DEFINE P(p) == \A i, j \in DOMAIN p : i < j => KeptFirst(p[i], p[j])
<1>1. IsFiniteSet(Kept) /\ Kept \subseteq Msgs
  <2>1. Kept \subseteq Msgs
    BY DEF Kept
  <2> QED BY <2>1, IndexAssumption, FS_Subset
<1>2. \A f \in FileIds : \A i : i \in DOMAIN files[f] => f \in Int /\ i \in Int
  <2>1. \A f \in FileIds : f \in Int
    BY StorageAssumption DEF FileIds
  <2> QED BY <2>1, FilesType
<1>3. \A m, n \in Kept : ~ (<<m, n>> \in KeptOrder /\ <<n, m>> \in KeptOrder)
  <2> SUFFICES ASSUME NEW m, NEW n, KeptFirst(m, n), KeptFirst(n, m) PROVE FALSE
    BY DEF KeptOrder
  <2>1. PICK f, g \in FileIds : \E i \in DOMAIN files[f], j \in DOMAIN files[g] :
            KeptAt(m, f, i) /\ KeptAt(n, g, j) /\ (f < g \/ (f = g /\ i < j))
    BY DEF KeptFirst
  <2>2. PICK i \in DOMAIN files[f], j \in DOMAIN files[g] :
            KeptAt(m, f, i) /\ KeptAt(n, g, j) /\ (f < g \/ (f = g /\ i < j))
    BY <2>1
  <2>3. PICK h, e \in FileIds : \E k \in DOMAIN files[h], l \in DOMAIN files[e] :
            KeptAt(n, h, k) /\ KeptAt(m, e, l) /\ (h < e \/ (h = e /\ k < l))
    BY DEF KeptFirst
  <2>4. PICK k \in DOMAIN files[h], l \in DOMAIN files[e] :
            KeptAt(n, h, k) /\ KeptAt(m, e, l) /\ (h < e \/ (h = e /\ k < l))
    BY <2>3
  <2>5. f = e /\ i = l /\ g = h /\ j = k
    BY <2>2, <2>4 DEF KeptAt, RecordsUnique
  <2> QED BY <2>2, <2>4, <2>5, <1>2
<1>4. q \in SetToSeqs(Kept) /\ P(q)
  BY <1>1, ListOfSet DEF Listed, KeptOrder
<1>5. KeptInOrder \in SetToSeqs(Kept) /\ P(KeptInOrder)
  BY <1>4 DEF KeptInOrder
<1>6. Listed(KeptInOrder, Kept, KeptOrder)
  <2> DEFINE p == KeptInOrder
  <2>1. p \in Seq(Kept) /\ IsInjective(p) /\ Range(p) = Kept
    BY <1>1, <1>5, ListOfSet
  <2>2. \A i \in DOMAIN p : p[i] \in Msgs
    BY <1>1, <2>1
  <2> HIDE DEF p
  <2>3. P(p)
    BY <1>5 DEF p
  <2> QED BY <2>1, <2>2, <2>3 DEF Listed, KeptOrder, p
<1> QED BY <1>1, <1>3, <1>6, ListUnique

(* The same of the state a step leads to.                                  *)
LEMMA KeptIsNext == (TypeOK /\ RecordsUnique => OneOrder)'
BY KeptIs, PTL

(* When the step leaves the list q, that is the one KeptInOrder chooses.   *)
LEMMA ListNow ==
  ASSUME TypeOK', RecordsUnique', NEW q, Listed(q, Kept', KeptOrder')
  PROVE  RecordsListed' /\ KeptInOrder' = q
BY KeptIsNext DEF RecordsListed, OneOrder

(* When there is a list, KeptInOrder is it.                                *)
LEMMA ListedNow ==
  ASSUME TypeOK, RecordsUnique, RecordsListed
  PROVE  Listed(KeptInOrder, Kept, KeptOrder)
BY KeptIs DEF RecordsListed, OneOrder

(* Once the queue is recovered, the files keep what the index has but for  *)
(* the message that is being removed.                                      *)
KeptByIndex ==
    mode # "recovering" =>
        /\ Kept = Range(index) \ Leaving
        /\ KeptOrder = {p \in Kept \X Kept : WrittenBefore(p[1], p[2])}

(* Each entry has a record of its own, and each live record an entry.      *)
LEMMA KeptIsIndexed == MemoryInv /\ StorageInv => KeptByIndex
<1> SUFFICES ASSUME MemoryInv, StorageInv, mode # "recovering"
             PROVE  /\ Kept = Range(index) \ Leaving
                    /\ KeptOrder = {p \in Kept \X Kept : WrittenBefore(p[1], p[2])}
  BY DEF KeptByIndex
<1>0. TypeOK /\ Range(index) \subseteq Msgs
  BY SearchType DEF MemoryInv
<1>1. ASSUME NEW m \in Msgs, NEW f \in FileIds, NEW i \in DOMAIN files[f], KeptAt(m, f, i)
      PROVE  m \in Range(index) \ Leaving /\ place[m] = [file |-> f, offset |-> i]
  <2>1. Live(f, i) /\ Read(f, i) /\ files[f][i].msg = m
    BY <1>1 DEF KeptAt, Live, Read
  <2>2. m \in Range(index) /\ place[m] = [file |-> f, offset |-> i]
    BY <2>1 DEF StorageInv, RecordsIndexed
  <2> QED BY <2>1, <2>2 DEF StorageInv, EntriesStored
<1>2. ASSUME NEW m \in Range(index) \ Leaving
      PROVE  /\ place[m].file \in FileIds /\ place[m].offset \in DOMAIN files[place[m].file]
             /\ KeptAt(m, place[m].file, place[m].offset)
  <2> PICK f, i : f = place[m].file /\ i = place[m].offset
    OBVIOUS
  <2>1. f \in FileIds /\ i \in DOMAIN files[f] /\ files[f][i].msg = m /\ Live(f, i)
    BY DEF StorageInv, EntriesStored
  <2>2. files[f][i] \in Records
    BY <2>1, <1>0, FilesType
  <2> QED BY <2>1, <2>2 DEF KeptAt, Live, Records
<1>3. Kept = Range(index) \ Leaving
  BY <1>0, <1>1, <1>2 DEF Kept
<1>4. ASSUME NEW m \in Msgs, NEW n \in Msgs, KeptFirst(m, n)
      PROVE  m \in Kept /\ n \in Kept /\ WrittenBefore(m, n)
  <2>1. PICK f, g \in FileIds : \E i \in DOMAIN files[f], j \in DOMAIN files[g] :
            KeptAt(m, f, i) /\ KeptAt(n, g, j) /\ (f < g \/ (f = g /\ i < j))
    BY <1>4 DEF KeptFirst
  <2>2. PICK i \in DOMAIN files[f], j \in DOMAIN files[g] :
            KeptAt(m, f, i) /\ KeptAt(n, g, j) /\ (f < g \/ (f = g /\ i < j))
    BY <2>1
  <2>3. /\ place[m] = [file |-> f, offset |-> i] /\ place[n] = [file |-> g, offset |-> j]
        /\ m \in Kept /\ n \in Kept
    BY <1>1, <1>3, <2>2
  <2> QED BY <2>2, <2>3 DEF WrittenBefore
<1>5. ASSUME NEW m \in Kept, NEW n \in Kept, WrittenBefore(m, n) PROVE KeptFirst(m, n)
  <2> PICK f, i, g, j : /\ f = place[m].file /\ i = place[m].offset
                        /\ g = place[n].file /\ j = place[n].offset
    OBVIOUS
  <2>1. /\ f \in FileIds /\ i \in DOMAIN files[f] /\ KeptAt(m, f, i)
        /\ g \in FileIds /\ j \in DOMAIN files[g] /\ KeptAt(n, g, j)
    BY <1>2, <1>3
  <2>2. f < g \/ (f = g /\ i < j)
    BY <1>5 DEF WrittenBefore
  <2> QED BY <2>1, <2>2 DEF KeptFirst
<1>6. Kept \subseteq Msgs
  BY DEF Kept
<1>7. KeptOrder = {p \in Kept \X Kept : WrittenBefore(p[1], p[2])}
  BY <1>4, <1>5, <1>6 DEF KeptOrder
<1> QED BY <1>3, <1>7

(* The same of the state a step leads to.                                  *)
LEMMA KeptIsIndexedNext == (MemoryInv /\ StorageInv => KeptByIndex)'
BY KeptIsIndexed, PTL

(* What a session has to answer for, by the kind of its task.              *)
HoldingByTask ==
    \A s \in Sessions :
        /\ task[s].op \in Holds => Holding(s) = Pending(s) \cup {task[s].msg}
        /\ task[s].op \notin Holds => Holding(s) = Pending(s)

(* A task has a message just when it is of a kind that holds one.          *)
LEMMA HoldingIs == SessionsInv => HoldingByTask
<1> SUFFICES ASSUME SessionsInv, NEW s \in Sessions
             PROVE  "msg" \in DOMAIN task[s] <=> task[s].op \in Holds
  BY DEF HoldingByTask, Holding
<1>1. task[s] \in Tasks
  BY DEF SessionsInv
<1> QED BY <1>1 DEF Tasks, Idle, Holds

(* The same of the state a step leads to.                                  *)
LEMMA HoldingIsNext == (SessionsInv => HoldingByTask)'
BY HoldingIs, PTL

(* Nothing is hidden before the queue is recovered, and no reader sees the *)
(* message that is being removed.                                          *)
HiddenInv == Leaving \subseteq hidden /\ (mode = "recovering" => hidden = {})

(* The inductive invariant of the refinement.                              *)
PromiseInv == HolderInv /\ OrderInv /\ RecordsListed /\ HiddenInv

(* Its parts, and what follows from them in the same state.                *)
LEMMA PromiseParts ==
  PromiseInv =>
    /\ MemoryInv /\ TypeOK /\ StorageInv /\ RecordsUnique /\ SessionsInv /\ FrontInv
    /\ OrderInv /\ Quiet /\ RecordsListed
    /\ \A s \in Sessions : HoldsOwn(s)
    /\ KeptByIndex /\ HoldingByTask
    /\ Listed(KeptInOrder, Kept, KeptOrder)
<1> SUFFICES ASSUME PromiseInv
             PROVE  /\ MemoryInv /\ TypeOK /\ StorageInv /\ RecordsUnique /\ SessionsInv /\ FrontInv
                    /\ OrderInv /\ Quiet /\ RecordsListed
                    /\ \A s \in Sessions : HoldsOwn(s)
                    /\ KeptByIndex /\ HoldingByTask
                    /\ Listed(KeptInOrder, Kept, KeptOrder)
  OBVIOUS
<1>1. /\ MemoryInv /\ TypeOK /\ StorageInv /\ RecordsUnique /\ SessionsInv /\ FrontInv
      /\ OrderInv /\ Quiet /\ RecordsListed
      /\ \A s \in Sessions : HoldsOwn(s)
  BY DEF PromiseInv, HolderInv, QueueInv, ServerInv, MemoryInv, StorageInv
<1>2. KeptByIndex
  BY <1>1, KeptIsIndexed
<1>3. HoldingByTask
  BY <1>1, HoldingIs
<1>4. Listed(KeptInOrder, Kept, KeptOrder)
  BY <1>1, ListedNow
<1> QED BY <1>1, <1>2, <1>3, <1>4

(* The same of what the step leaves.                                       *)
LEMMA PartsNext ==
  ASSUME HolderInv'
  PROVE  /\ MemoryInv' /\ TypeOK' /\ StorageInv' /\ RecordsUnique' /\ SessionsInv'
         /\ KeptByIndex' /\ HoldingByTask'
<1>1. MemoryInv' /\ TypeOK' /\ StorageInv' /\ RecordsUnique' /\ SessionsInv'
  BY DEF HolderInv, QueueInv, ServerInv, MemoryInv, StorageInv
<1> QED BY <1>1, KeptIsIndexedNext, HoldingIsNext

(* Recovery, and erasing the entry of a message that is marked, keep the   *)
(* list.                                                                   *)
LEMMA SameList ==
  ASSUME PromiseInv, HolderInv',
         \/ files' = files
         \/ /\ mode # "recovering" /\ mode' # "recovering" /\ place' = place
            /\ Range(index') \ Leaving' = Range(index) \ Leaving
  PROVE  RecordsListed' /\ KeptInOrder' = KeptInOrder
<1>1. Kept' = Kept /\ KeptOrder' = KeptOrder
  <2>1. CASE files' = files
    BY <2>1 DEF Kept, KeptOrder, KeptFirst, KeptAt
  <2>2. CASE /\ mode # "recovering" /\ mode' # "recovering" /\ place' = place
             /\ Range(index') \ Leaving' = Range(index) \ Leaving
    <3>1. \A m, n : WrittenBefore(m, n)' <=> WrittenBefore(m, n)
      BY <2>2 DEF WrittenBefore
    <3> QED BY <2>2, <3>1, PromiseParts, PartsNext DEF KeptByIndex
  <2> QED BY <2>1, <2>2
<1>2. Listed(KeptInOrder, Kept', KeptOrder')
  BY <1>1, PromiseParts
<1> QED BY <1>2, PartsNext, ListNow

(* A message that is stored comes behind the others.                       *)
LEMMA LongerList ==
  ASSUME PromiseInv, HolderInv', NEW m \in Msgs, Enqueue(m)
  PROVE  /\ RecordsListed' /\ KeptInOrder' = Append(KeptInOrder, m)
         /\ m \notin Range(index) /\ m \notin Range(KeptInOrder)
         /\ Range(index') = Range(index) \cup {m}
<1> PICK f : f = currentfileid
  OBVIOUS
<1> DEFINE last == Len(Append(files[f], [msg |-> m, state |-> "live"]))
<1>0. /\ TypeOK /\ f \in FileIds /\ f \in Nat /\ files[f] \in Seq(Records)
      /\ mode = "running" /\ mode' = "running"
  BY PromiseParts, FilesType DEF Enqueue, FileIds
<1>1. /\ index' = Insert(index, m)
      /\ place' = [place EXCEPT ![m] = [file |-> f, offset |-> last]]
      /\ ~ OnDisk(m)
  BY DEF Enqueue
<1>2. last = Len(files[f]) + 1 /\ Len(files[f]) \in Nat
  <2>1. [msg |-> m, state |-> "live"] \in Records
    BY DEF Records
  <2> QED BY <2>1, <1>0
<1> HIDE DEF last
<1>3. m \notin Range(index) /\ Range(index) \subseteq Msgs /\ Range(index') = Range(index) \cup {m}
  BY <1>0, <1>1, SearchType, InsertProperties, PromiseParts
     DEF StorageInv, EntriesStored, OnDisk, TypeOK
<1>4. /\ place'[m] = [file |-> f, offset |-> last]
      /\ \A n \in Range(index) : place'[n] = place[n]
  BY <1>0, <1>1, <1>3 DEF TypeOK
<1>5. ASSUME NEW n \in Range(index) PROVE WrittenBefore(n, m)'
  <2>1. /\ place[n].file \in FileIds /\ place[n].file <= f
        /\ place[n].offset \in DOMAIN files[place[n].file]
    BY PromiseParts DEF StorageInv, EntriesStored, OrderInv
  <2>2. place[n].file \in Nat
    BY <2>1 DEF FileIds
  <2>3. place[n].file = f => place[n].offset < last
    BY <2>1, <1>0, <1>2
  <2> QED BY <2>1, <2>2, <2>3, <1>0, <1>4 DEF WrittenBefore
<1>6. Leaving = {} /\ Leaving' = {}
  BY <1>0 DEF Leaving
<1>7. Kept = Range(index) /\ Kept' = Kept \cup {m} /\ m \notin Kept
  BY <1>0, <1>3, <1>6, PromiseParts, PartsNext DEF KeptByIndex
<1>8. ASSUME NEW k \in Kept, NEW l \in Kept, <<k, l>> \in KeptOrder PROVE <<k, l>> \in KeptOrder'
  <2>1. WrittenBefore(k, l)
    BY <1>0, <1>8, PromiseParts DEF KeptByIndex
  <2>2. WrittenBefore(k, l)'
    BY <2>1, <1>4, <1>7 DEF WrittenBefore
  <2> QED BY <2>2, <1>0, <1>7, PartsNext DEF KeptByIndex
<1>9. ASSUME NEW k \in Kept PROVE <<k, m>> \in KeptOrder'
  BY <1>0, <1>5, <1>7, PartsNext DEF KeptByIndex
<1>10. PICK S, R, q, T, Q :
           S = Kept /\ R = KeptOrder /\ q = KeptInOrder /\ T = Kept' /\ Q = KeptOrder'
  OBVIOUS
<1>11. Listed(Append(q, m), T, Q)
  BY <1>7, <1>8, <1>9, <1>10, PromiseParts, ListAppend
<1>12. RecordsListed' /\ KeptInOrder' = Append(KeptInOrder, m)
  BY <1>10, <1>11, PartsNext, ListNow
<1>13. Range(KeptInOrder) = Kept
  BY PromiseParts DEF Listed
<1> QED BY <1>3, <1>7, <1>12, <1>13

(* A message whose record is marked is taken out.                          *)
LEMMA ShorterList ==
  ASSUME PromiseInv, HolderInv', mode # "recovering", mode' # "recovering",
         NEW m \in Range(index), UNCHANGED <<index, place>>, Leaving = {}, Leaving' = {m}
  PROVE  /\ RecordsListed'
         /\ \E i \in DOMAIN KeptInOrder :
               KeptInOrder[i] = m /\ KeptInOrder' = RemoveAt(KeptInOrder, i)
<1>1. Kept = Range(index) /\ Kept' = Kept \ {m}
  BY PromiseParts, PartsNext DEF KeptByIndex
<1>2. PICK S, R, q, T, Q :
          S = Kept /\ R = KeptOrder /\ q = KeptInOrder /\ T = Kept' /\ Q = KeptOrder'
  OBVIOUS
<1>3. PICK i \in DOMAIN q : q[i] = m
  BY <1>1, <1>2, PromiseParts DEF Listed, Range
<1>4. ASSUME NEW k \in T, NEW l \in T, <<k, l>> \in R PROVE <<k, l>> \in Q
  <2>1. WrittenBefore(k, l)
    BY <1>2, <1>4, PromiseParts DEF KeptByIndex
  <2>2. WrittenBefore(k, l)'
    BY <2>1 DEF WrittenBefore
  <2> QED BY <2>2, <1>2, PartsNext DEF KeptByIndex
<1>5. Listed(RemoveAt(q, i), T, Q)
  BY <1>1, <1>2, <1>3, <1>4, PromiseParts, ListRemove
<1> QED BY <1>2, <1>3, <1>5, PartsNext, ListNow

(* The step is one the contract allows, and the records still make a list. *)
Promised == RecordsListed' /\ Contract!QueueNext

(* What the contract sees of a step of one session.                        *)
LEMMA OneSession ==
  ASSUME NEW s \in Sessions, Alone(s), NEW H, Holding(s)' = H, NEW w, Serving(s)' = w
  PROVE  /\ [t \in Sessions |-> Holding(t)]' = [[t \in Sessions |-> Holding(t)] EXCEPT ![s] = H]
         /\ [t \in Sessions |-> Serving(t)]' = [[t \in Sessions |-> Serving(t)] EXCEPT ![s] = w]
<1>1. ASSUME NEW t \in Sessions \ {s}
      PROVE  Holding(t)' = Holding(t) /\ Serving(t)' = Serving(t)
  BY DEF Alone, Holding, Pending, Serving
<1> QED BY <1>1

(* What it sees when no session remembers anything new.                    *)
LEMMA NoSession ==
  ASSUME UNCHANGED <<trans, task>>
  PROVE  /\ [t \in Sessions |-> Holding(t)]' = [t \in Sessions |-> Holding(t)]
         /\ [t \in Sessions |-> Serving(t)]' = [t \in Sessions |-> Serving(t)]
BY DEF Holding, Pending, Serving

(* A step the contract does not see.                                       *)
LEMMA Unseen ==
  ASSUME PromiseInv, HolderInv',
         files' = files \/
            (mode # "recovering" /\ mode' # "recovering" /\ place' = place
             /\ Range(index') \ Leaving' = Range(index) \ Leaving),
         Available' = Available, mode' = "recovering" <=> mode = "recovering",
         \/ UNCHANGED <<trans, task>>
         \/ \E s \in Sessions : /\ Alone(s) /\ Holding(s)' = Holding(s)
                                /\ Serving(s)' = Serving(s)
  PROVE  Promised
<1>1. RecordsListed' /\ KeptInOrder' = KeptInOrder
  BY SameList
<1>2. /\ [t \in Sessions |-> Holding(t)]' = [t \in Sessions |-> Holding(t)]
      /\ [t \in Sessions |-> Serving(t)]' = [t \in Sessions |-> Serving(t)]
  <2>1. CASE UNCHANGED <<trans, task>>
    BY <2>1, NoSession
  <2>2. ASSUME NEW s \in Sessions, Alone(s), Holding(s)' = Holding(s), Serving(s)' = Serving(s)
        PROVE  /\ [t \in Sessions |-> Holding(t)]' = [t \in Sessions |-> Holding(t)]
               /\ [t \in Sessions |-> Serving(t)]' = [t \in Sessions |-> Serving(t)]
    BY <2>2, OneSession
  <2> QED BY <2>1, <2>2
<1> QED BY <1>1, <1>2 DEF Promised, Contract!QueueNext, Contract!queueVars

(* The message is given back, or published.                                *)
LEMMA Revealed ==
  ASSUME PromiseInv, HolderInv', NEW s \in Sessions, NEW m \in Msgs, NEW c \in Handles,
         HeldAt(m, c), m \in Holding(s),
         commitEnqueue(c) \/ rollbackRetrieve(c),
         Alone(s), Holding(s)' = Holding(s) \ {m}, Serving(s)' = "nothing"
  PROVE  Promised
<1>1. /\ mode = "running" /\ mode' = "running" /\ files' = files /\ index' = index
      /\ hidden' = hidden \ {m}
  BY DEF HeldAt, commitEnqueue, rollbackRetrieve, Unless, FinalizeEnqueue, CancelRetrieve,
     Reveal, Usable, storageVars
<1>2. Available' = Available \cup {m}
  BY <1>1 DEF Available, HeldAt
<1>3. RecordsListed' /\ KeptInOrder' = KeptInOrder
  BY <1>1, SameList
<1>4. /\ [t \in Sessions |-> Holding(t)]'
           = [[t \in Sessions |-> Holding(t)] EXCEPT ![s] = Holding(s) \ {m}]
      /\ [t \in Sessions |-> Serving(t)]'
           = [[t \in Sessions |-> Serving(t)] EXCEPT ![s] = "nothing"]
  BY OneSession
<1>5. Contract!Release(s, m)
  BY <1>1, <1>2, <1>3, <1>4 DEF Contract!Release, Contract!Serve, Contract!Drop
<1> QED BY <1>3, <1>5 DEF Promised, Contract!QueueNext

(* The message is removed.                                                 *)
LEMMA Consumed ==
  ASSUME PromiseInv, HolderInv', NEW s \in Sessions, NEW m \in Msgs, NEW c \in Handles,
         HeldAt(m, c), m \in Holding(s),
         commitRetrieve(c) \/ rollbackEnqueue(c),
         Alone(s), Holding(s)' = Holding(s) \ {m}, Serving(s)' = Serving(s)
  PROVE  Promised
<1>1. /\ mode = "running" /\ mode' = "removing" /\ removing' = c
      /\ UNCHANGED <<index, place, begin, cursors>> /\ hidden' = hidden \cup {m}
  BY DEF HeldAt, commitRetrieve, rollbackEnqueue, Unless, FinalizeRetrieve, CancelEnqueue,
     Consume, Usable, MarkMessage
<1>2. Available' = Available
  BY <1>1 DEF Available, HeldAt
<1>3. Leaving = {} /\ Leaving' = {m} /\ m \in Range(index)
  BY <1>1 DEF Leaving, HeldAt, Where
<1>4. /\ RecordsListed'
      /\ \E i \in DOMAIN KeptInOrder :
            KeptInOrder[i] = m /\ KeptInOrder' = RemoveAt(KeptInOrder, i)
  BY <1>1, <1>3, ShorterList
<1>5. /\ [t \in Sessions |-> Holding(t)]'
           = [[t \in Sessions |-> Holding(t)] EXCEPT ![s] = Holding(s) \ {m}]
      /\ [t \in Sessions |-> Serving(t)]' = [t \in Sessions |-> Serving(t)]
  BY OneSession
<1>6. Contract!Forget(m)
  BY <1>4 DEF Contract!Forget, Contract!RemoveAt, RemoveAt
<1>7. Contract!Discard(s, m)
  BY <1>1, <1>2, <1>5, <1>6 DEF Contract!Discard, Contract!Drop
<1> QED BY <1>4, <1>7 DEF Promised, Contract!QueueNext

(* The message is forgotten by the session, and stays hidden.              *)
LEMMA Abandoned ==
  ASSUME PromiseInv, HolderInv', NEW s \in Sessions, NEW m \in Msgs, m \in Holding(s),
         mode = "running", UNCHANGED vars,
         Alone(s), Holding(s)' = Holding(s) \ {m}, Serving(s)' = "nothing"
  PROVE  Promised
<1>1. UNCHANGED <<mode, files, index, hidden>>
  BY DEF vars, memoryVars, storageVars
<1>2. Available' = Available
  BY <1>1 DEF Available
<1>3. RecordsListed' /\ KeptInOrder' = KeptInOrder
  BY <1>1, SameList
<1>4. /\ [t \in Sessions |-> Holding(t)]'
           = [[t \in Sessions |-> Holding(t)] EXCEPT ![s] = Holding(s) \ {m}]
      /\ [t \in Sessions |-> Serving(t)]'
           = [[t \in Sessions |-> Serving(t)] EXCEPT ![s] = "nothing"]
  BY OneSession
<1>5. Contract!Abandon(s, m)
  BY <1>1, <1>2, <1>3, <1>4 DEF Contract!Abandon, Contract!Serve, Contract!Drop
<1> QED BY <1>3, <1>5 DEF Promised, Contract!QueueNext

(* The session has what it was sent.                                       *)
LEMMA WasServed ==
  ASSUME PromiseInv, HolderInv', NEW s \in Sessions, mode = "running", mode' = "running",
         UNCHANGED <<files, index, hidden>>,
         Alone(s), Holding(s)' = Holding(s), Serving(s) # "nothing", Serving(s)' = "nothing"
  PROVE  Promised
<1>1. Available' = Available
  BY DEF Available
<1>2. RecordsListed' /\ KeptInOrder' = KeptInOrder
  BY SameList
<1>3. /\ [t \in Sessions |-> Holding(t)]' = [t \in Sessions |-> Holding(t)]
      /\ [t \in Sessions |-> Serving(t)]'
           = [[t \in Sessions |-> Serving(t)] EXCEPT ![s] = "nothing"]
  BY OneSession
<1>4. Contract!Served(s)
  BY <1>1, <1>2, <1>3 DEF Contract!Served, Contract!Serve
<1> QED BY <1>2, <1>4 DEF Promised, Contract!QueueNext

(* What a session has pending once an entry of it has changed.             *)
LEMMA NewEntry ==
  ASSUME SessionsInv, NEW s \in Sessions, NEW m \in Msgs, NEW d, SetEntry(s, m, d)
  PROVE  /\ Pending(s)' = IF d.type = "none" THEN Pending(s) \ {m} ELSE Pending(s) \cup {m}
         /\ \A t \in Sessions \ {s} : trans'[t] = trans[t]
<1>1. trans \in [Sessions -> [Msgs -> TData]] /\ trans' = [trans EXCEPT ![s][m] = d]
  BY DEF SessionsInv, SetEntry
<1>2. trans'[s][m] = d /\ \A n \in Msgs \ {m} : trans'[s][n] = trans[s][n]
  BY <1>1
<1>3. \A t \in Sessions \ {s} : trans'[t] = trans[t]
  BY <1>1
<1> QED BY <1>2, <1>3 DEF Pending

(* A session that turns to a task leaves those of the others alone.        *)
LEMMA NewTask ==
  ASSUME SessionsInv, NEW s \in Sessions, NEW x, SetTask(s, x)
  PROVE  task'[s] = x /\ \A t \in Sessions \ {s} : task'[t] = task[t]
BY DEF SessionsInv, SetTask

(* The commands the clients of the contract do not see.                    *)
LEMMA CommandsUnseen ==
  ASSUME PromiseInv, HolderInv', NEW s \in Sessions,
         \/ OpenQueueCmd(s) \/ PeekFrontCmd(s) \/ OpenCursorCmd(s)
         \/ \E h \in Handles : CloseCursorCmd(s, h) \/ AdvanceCursorCmd(s, h)
         \/ BeginTransactionCmd(s) \/ ShutdownCursor(s)
  PROVE  Promised
<1>1. UNCHANGED <<trans, task>>
  BY DEF OpenQueueCmd, PeekFrontCmd, OpenCursorCmd, CloseCursorCmd, AdvanceCursorCmd,
     BeginTransactionCmd, ShutdownCursor, sessionVars
<1>2. UNCHANGED <<mode, files, index, hidden>>
  BY DEF OpenQueueCmd, PeekFrontCmd, OpenCursorCmd, CloseCursorCmd, AdvanceCursorCmd,
     BeginTransactionCmd, ShutdownCursor, PeekFront, OpenCursor, CloseCursor, AdvanceCursor,
     vars, memoryVars, storageVars
<1>3. Available' = Available
  BY <1>2 DEF Available
<1> QED BY <1>1, <1>2, <1>3, Unseen

(* Those that begin or end a task that holds no message of its own.        *)
LEMMA CommandsTurn ==
  ASSUME PromiseInv, HolderInv', NEW s \in Sessions,
         \/ \E b \in BOOLEAN : CommitTransactionCmd(s, b) \/ ShutdownCmd(s, b)
         \/ RollbackTransactionCmd(s) \/ Committed(s) \/ RolledBack(s) \/ ShutdownDone(s)
  PROVE  Promised
<1>0. SessionsInv /\ SessionsInv' /\ HoldingByTask /\ HoldingByTask'
  BY PromiseParts, PartsNext
<1>1. /\ trans' = trans /\ browse' = browse
      /\ UNCHANGED <<mode, files, index, hidden>>
      /\ task[s].op \notin Holds
  <2>1. /\ trans' = trans /\ browse' = browse /\ UNCHANGED vars
        /\ task[s] = Idle \/ task[s].op \in {"commit", "rollback", "shutdown"}
    BY DEF CommitTransactionCmd, ShutdownCmd, RollbackTransactionCmd, Committed, RolledBack,
       ShutdownDone, Waiting, Doing
  <2> QED BY <2>1 DEF Idle, Holds, vars, memoryVars, storageVars
<1>2. task'[s].op \notin Holds /\ \A t \in Sessions \ {s} : task'[t] = task[t]
  <2>1. \E todo, leave : \/ SetTask(s, [op |-> "commit", todo |-> todo, end |-> leave])
                         \/ SetTask(s, [op |-> "shutdown", todo |-> todo, leave |-> leave])
                         \/ SetTask(s, [op |-> "rollback", todo |-> todo])
                         \/ SetTask(s, Idle)
    BY DEF CommitTransactionCmd, ShutdownCmd, RollbackTransactionCmd, Committed, RolledBack,
       ShutdownDone, Shutdown
  <2>2. PICK x : SetTask(s, x) /\ x.op \in {"commit", "shutdown", "rollback", "idle"}
    BY <2>1 DEF Idle
  <2> QED BY <2>2, <1>0, NewTask DEF Holds
<1>3. Alone(s)
  BY <1>1, <1>2 DEF Alone
<1>4. Holding(s)' = Holding(s)
  <2>1. Pending(s)' = Pending(s)
    BY <1>1 DEF Pending
  <2> QED BY <2>1, <1>0, <1>1, <1>2 DEF HoldingByTask
<1>5. Serving(s)' = Serving(s)
  BY <1>1, <1>2 DEF Serving, Holds
<1>6. Available' = Available
  BY <1>1 DEF Available
<1> QED BY <1>1, <1>3, <1>4, <1>5, <1>6, Unseen

(* RETRIEVE_CURSOR gets itself a cursor of its own.                        *)
LEMMA CommandsCopy ==
  ASSUME PromiseInv, HolderInv', NEW s \in Sessions, SendCursor(s) \/ CopyCursor(s)
  PROVE  Promised
<1>0. SessionsInv /\ SessionsInv' /\ HoldingByTask /\ HoldingByTask'
  BY PromiseParts, PartsNext
<1>1. /\ trans' = trans /\ browse' = browse
      /\ UNCHANGED <<mode, files, index, hidden>>
      /\ task[s].op \in {"sendCursor", "copyCursor"}
  BY DEF SendCursor, CopyCursor, Doing, OpenCursor, CursorCopy, storageVars
<1>2. /\ task'[s].op \in {"copyCursor", "advanceCursor"} /\ task'[s].msg = task[s].msg
      /\ \A t \in Sessions \ {s} : task'[t] = task[t]
  <2>1. CASE SendCursor(s)
    BY <1>0, <2>1, NewTask DEF SendCursor
  <2>2. CASE CopyCursor(s)
    <3>1. task[s].op = "copyCursor" /\ task[s] \in Tasks
      BY <1>0, <2>2 DEF CopyCursor, Doing, SessionsInv
    <3>2. DOMAIN task[s] = {"op", "msg", "from", "handle"}
      BY <3>1 DEF Tasks, Idle
    <3>3. /\ task'[s] = [task[s] EXCEPT !.op = "advanceCursor"]
          /\ \A t \in Sessions \ {s} : task'[t] = task[t]
      BY <1>0, <2>2, NewTask DEF CopyCursor
    <3> QED BY <3>2, <3>3
  <2> QED BY <2>1, <2>2
<1>3. Alone(s)
  BY <1>1, <1>2 DEF Alone
<1>4. Holding(s)' = Holding(s)
  <2>1. Pending(s)' = Pending(s)
    BY <1>1 DEF Pending
  <2> QED BY <2>1, <1>0, <1>1, <1>2 DEF HoldingByTask, Holds
<1>5. Serving(s)' = Serving(s)
  BY <1>1, <1>2 DEF Serving
<1>6. Available' = Available
  BY <1>1 DEF Available
<1> QED BY <1>1, <1>3, <1>4, <1>5, <1>6, Unseen

(* The client has the message it was sent.                                 *)
LEMMA CommandsServed ==
  ASSUME PromiseInv, HolderInv', NEW s \in Sessions, Send(s) \/ MoveCursorOn(s)
  PROVE  Promised
<1>0. SessionsInv /\ SessionsInv' /\ HoldingByTask /\ HoldingByTask'
  BY PromiseParts, PartsNext
<1>1. /\ browse' = browse /\ task[s].op \in {"send", "advanceCursor"}
      /\ mode = "running" /\ UNCHANGED <<mode, files, index, hidden>>
      /\ SetEntry(s, task[s].msg, Entry(task[s].handle, "retrieve"))
      /\ SetTask(s, Idle)
  BY DEF Send, MoveCursorOn, Doing, AdvanceCursor, Unless, vars, memoryVars, storageVars
<1>2. task[s].msg \in Msgs
  BY <1>0, <1>1, TaskFields
<1>3. task'[s] = Idle /\ \A t \in Sessions \ {s} : task'[t] = task[t]
  BY <1>0, <1>1, NewTask
<1>4. /\ Pending(s)' = Pending(s) \cup {task[s].msg}
      /\ \A t \in Sessions \ {s} : trans'[t] = trans[t]
  BY <1>0, <1>1, <1>2, NewEntry DEF Entry
<1>5. Alone(s)
  BY <1>1, <1>3, <1>4 DEF Alone
<1>6. Holding(s)' = Holding(s)
  <2>1. Holding(s) = Pending(s) \cup {task[s].msg}
    BY <1>0, <1>1 DEF HoldingByTask, Holds
  <2>2. Holding(s)' = Pending(s)'
    BY <1>0, <1>3 DEF HoldingByTask, Holds, Idle
  <2> QED BY <2>1, <2>2, <1>4
<1>7. Serving(s) # "nothing" /\ Serving(s)' = "nothing"
  BY <1>1, <1>3 DEF Serving, Idle
<1> QED BY <1>1, <1>5, <1>6, <1>7, WasServed

(* A session is done with an entry of its own.                             *)
LEMMA EntryGone ==
  ASSUME PromiseInv, HolderInv', NEW s \in Sessions, NEW m \in Msgs,
         trans[s][m].type # "none", SetEntry(s, m, NoEntry),
         task[s].op \notin Holds, browse' = browse,
         \/ task' = task
         \/ /\ task[s].op \in {"commit", "rollback", "shutdown"}
            /\ SetTask(s, [task[s] EXCEPT !.todo = @ \ {m}])
  PROVE  /\ Alone(s) /\ m \in Holding(s) /\ Holding(s)' = Holding(s) \ {m}
         /\ Serving(s) = "nothing" /\ Serving(s)' = "nothing"
         /\ trans[s][m].cursor \in Handles /\ HeldAt(m, trans[s][m].cursor)
<1>0. /\ SessionsInv /\ SessionsInv' /\ HoldingByTask /\ HoldingByTask'
      /\ HoldsOwn(s)
  BY PromiseParts, PartsNext
<1>1. /\ task'[s].op = task[s].op
      /\ \A t \in Sessions \ {s} : task'[t] = task[t]
  <2>1. CASE task' = task
    BY <2>1
  <2>2. CASE /\ task[s].op \in {"commit", "rollback", "shutdown"}
             /\ SetTask(s, [task[s] EXCEPT !.todo = @ \ {m}])
    <3>1. task[s] \in Tasks
      BY <1>0 DEF SessionsInv
    <3>2. "op" \in DOMAIN task[s]
      BY <3>1, <2>2 DEF Tasks, Idle
    <3>3. /\ task'[s] = [task[s] EXCEPT !.todo = @ \ {m}]
          /\ \A t \in Sessions \ {s} : task'[t] = task[t]
      BY <1>0, <2>2, NewTask
    <3> QED BY <3>2, <3>3
  <2> QED BY <2>1, <2>2
<1>2. /\ Pending(s)' = Pending(s) \ {m} /\ m \in Pending(s)
      /\ \A t \in Sessions \ {s} : trans'[t] = trans[t]
  BY <1>0, NewEntry DEF NoEntry, Pending
<1>3. Alone(s)
  BY <1>1, <1>2 DEF Alone
<1>4. m \in Holding(s) /\ Holding(s)' = Holding(s) \ {m}
  BY <1>0, <1>1, <1>2 DEF HoldingByTask
<1>5. Serving(s) = "nothing" /\ Serving(s)' = "nothing"
  BY <1>1 DEF Serving, Holds
<1>6. trans[s][m].cursor \in Handles
  BY <1>0 DEF SessionsInv, TData
<1>7. HeldAt(m, trans[s][m].cursor)
  BY <1>0, <1>6 DEF HoldsOwn, Carries, InTrans
<1> QED BY <1>3, <1>4, <1>5, <1>6, <1>7

(* The entries of a transaction, when it is ended or the queue is closed.  *)
LEMMA CommandsEntry ==
  ASSUME PromiseInv, HolderInv', NEW s \in Sessions,
         CommitOne(s) \/ RollbackOne(s) \/ ShutdownEntry(s)
  PROVE  Promised
<1>0. SessionsInv /\ MemoryInv
  BY PromiseParts
<1>1. /\ task[s].op \in {"commit", "rollback", "shutdown"} /\ task[s].op \notin Holds
      /\ mode = "running" /\ browse' = browse
  BY DEF CommitOne, RollbackOne, ShutdownEntry, Doing, Holds
<1>2. PICK m \in task[s].todo :
          /\ \/ commitEnqueue(trans[s][m].cursor) \/ rollbackRetrieve(trans[s][m].cursor)
             \/ commitRetrieve(trans[s][m].cursor) \/ rollbackEnqueue(trans[s][m].cursor)
             \/ UNCHANGED vars
          /\ trans[s][m].type # "none"
          /\ SetEntry(s, m, NoEntry)
          /\ SetTask(s, [task[s] EXCEPT !.todo = @ \ {m}])
  BY DEF CommitOne, RollbackOne, ShutdownEntry
<1>3. m \in Msgs
  BY <1>0, <1>1, TaskFields
<1>4. /\ Alone(s) /\ m \in Holding(s) /\ Holding(s)' = Holding(s) \ {m}
      /\ Serving(s) = "nothing" /\ Serving(s)' = "nothing"
      /\ trans[s][m].cursor \in Handles /\ HeldAt(m, trans[s][m].cursor)
  BY <1>1, <1>2, <1>3, EntryGone
<1> QED BY <1>1, <1>2, <1>3, <1>4, Revealed, Consumed, Abandoned

(* RETRIEVE_ACK removes the message, or has it removed at the end of the   *)
(* transaction.                                                            *)
LEMMA CommandsAck ==
  ASSUME PromiseInv, HolderInv', NEW s \in Sessions, NEW m \in Msgs, RetrieveAckCmd(s, m)
  PROVE  Promised
<1>0. SessionsInv /\ SessionsInv' /\ HoldingByTask /\ HoldingByTask'
  BY PromiseParts, PartsNext
<1>1. /\ mode = "running" /\ task[s].op \notin Holds /\ task' = task /\ browse' = browse
      /\ trans[s][m].type # "none"
  BY DEF RetrieveAckCmd, Ready, Waiting, Idle, Holds, Pending
<1>2. CASE inTransaction[s]
  <2>1. UNCHANGED <<mode, files, index, hidden>>
    BY <1>2 DEF RetrieveAckCmd, vars, memoryVars, storageVars
  <2>2. trans' = [trans EXCEPT ![s][m].commitable = TRUE]
    BY <1>2 DEF RetrieveAckCmd
  <2>3. trans \in [Sessions -> [Msgs -> TData]]
    BY <1>0 DEF SessionsInv
  <2>4. /\ trans'[s][m] = [trans[s][m] EXCEPT !.commitable = TRUE]
        /\ \A n \in Msgs \ {m} : trans'[s][n] = trans[s][n]
        /\ \A t \in Sessions \ {s} : trans'[t] = trans[t]
    BY <2>2, <2>3
  <2>5. trans'[s][m].type = trans[s][m].type
    BY <2>3, <2>4 DEF TData
  <2>6. Pending(s)' = Pending(s)
    BY <2>4, <2>5 DEF Pending
  <2>7. Alone(s)
    BY <1>1, <2>4 DEF Alone
  <2>8. Holding(s)' = Holding(s) /\ Serving(s)' = Serving(s)
    BY <1>0, <1>1, <2>6 DEF HoldingByTask, Serving
  <2>9. Available' = Available
    BY <2>1 DEF Available
  <2> QED BY <2>1, <2>7, <2>8, <2>9, Unseen
<1>3. CASE ~ inTransaction[s]
  <2>1. commitRetrieve(trans[s][m].cursor) /\ SetEntry(s, m, NoEntry)
    BY <1>3 DEF RetrieveAckCmd
  <2>2. /\ Alone(s) /\ m \in Holding(s) /\ Holding(s)' = Holding(s) \ {m}
        /\ Serving(s) = "nothing" /\ Serving(s)' = "nothing"
        /\ trans[s][m].cursor \in Handles /\ HeldAt(m, trans[s][m].cursor)
    BY <1>1, <2>1, EntryGone
  <2> QED BY <2>1, <2>2, Consumed
<1> QED BY <1>2, <1>3

(* ENQUEUE publishes its message; a retrieval whose answer is lost is      *)
(* cancelled; one whose cursor was erased under it is forgotten.           *)
LEMMA CommandsEnd ==
  ASSUME PromiseInv, HolderInv', NEW s \in Sessions,
         Publish(s) \/ SendFails(s) \/ CopyCursorFails(s)
  PROVE  Promised
<1>0. /\ SessionsInv /\ SessionsInv' /\ HoldingByTask /\ HoldingByTask' /\ MemoryInv
      /\ HoldsOwn(s)
  BY PromiseParts, PartsNext
<1>1. /\ mode = "running" /\ trans' = trans /\ browse' = browse
      /\ task[s].op \in {"publish", "send", "copyCursor"}
  BY DEF Publish, SendFails, CopyCursorFails, Doing
<1>2. task'[s].op \in {"idle", "shutdown"} /\ \A t \in Sessions \ {s} : task'[t] = task[t]
  <2>1. PICK x : SetTask(s, x) /\ x.op \in {"idle", "shutdown"}
    BY DEF Publish, SendFails, CopyCursorFails, Idle, Shutdown
  <2> QED BY <2>1, <1>0, NewTask
<1>3. PICK m : m = task[s].msg
  OBVIOUS
<1>4. m \in Msgs
  BY <1>0, <1>1, <1>3, TaskFields
<1>5. \E c \in Handles : InTask(s, m, c)
  BY <1>0, <1>1, <1>3, TaskFields DEF InTask
<1>6. trans[s][m].type = "none"
  BY <1>0, <1>4, <1>5 DEF HoldsOwn
<1>7. m \in Holding(s) /\ Holding(s)' = Holding(s) \ {m}
  <2>1. Pending(s)' = Pending(s) /\ m \notin Pending(s)
    BY <1>1, <1>6 DEF Pending
  <2> QED BY <2>1, <1>0, <1>1, <1>2, <1>3 DEF HoldingByTask, Holds
<1>8. Serving(s)' = "nothing"
  BY <1>2 DEF Serving
<1>9. Alone(s)
  BY <1>1, <1>2 DEF Alone
<1>10. CASE Publish(s) \/ SendFails(s)
  <2>1. PICK c : c = task[s].handle
    OBVIOUS
  <2>2. /\ task[s].op \in {"publish", "send"} /\ c \in Handles
        /\ commitEnqueue(c) \/ rollbackRetrieve(c)
    BY <1>0, <1>10, <2>1, TaskFields DEF Publish, SendFails, Doing
  <2>3. HeldAt(m, c)
    BY <1>0, <1>3, <1>4, <2>1, <2>2 DEF HoldsOwn, Carries, InTask
  <2> QED BY <2>2, <2>3, <1>4, <1>7, <1>8, <1>9, Revealed
<1>11. CASE CopyCursorFails(s)
  <2>1. UNCHANGED vars
    BY <1>11 DEF CopyCursorFails
  <2> QED BY <2>1, <1>1, <1>4, <1>7, <1>8, <1>9, Abandoned
<1> QED BY <1>10, <1>11

(* Every entry before the one the search finds is handed out.              *)
LEMMA FirstVisibleIsFirst ==
  ASSUME TypeOK, IsInjective(index), FirstVisible \in Msgs
  PROVE  \E k \in DOMAIN index : /\ FirstVisible = index[k] /\ index[k] \notin hidden
                                 /\ \A j \in DOMAIN index : j < k => index[j] \in hidden
<1> DEFINE q == index
           p == Foremost(q)
           I == {i \in IndexOf(q, p) .. Len(q) : IsVisible(q[i])}
<1>0. q \in Seq(Msgs) /\ Len(q) \in Nat /\ DOMAIN q = 1 .. Len(q)
  BY DEF TypeOK
<1>1. p \in Range(q) /\ FirstVisible = EntryAt(q, IF I # {} THEN Min(I) ELSE 0)
  BY SpecialPositions DEF FirstVisible, FirstFrom, SelectInSubSeq
<1>2. 1 \in DOMAIN q /\ p = q[1]
  <2>1. (q[1] = p /\ 1 \in DOMAIN q) \/ p = End
    BY DEF Foremost, EntryAt
  <2> QED BY <2>1, <1>0, <1>1, SpecialPositions DEF Range
<1>3. IndexOf(q, p) = 1
  BY <1>2 DEF IndexOf, IsInjective
<1>4. I = {i \in 1 .. Len(q) : IsVisible(q[i])}
  BY <1>3
<1>5. I # {}
  BY <1>0, <1>1, SpecialPositions DEF EntryAt
<1>6. PICK k : k = Min(I)
  OBVIOUS
<1>7. I \subseteq 1 .. Len(q)
  BY <1>4
<1>8. k \in I /\ \A i \in I : k <= i
  <2> HIDE DEF I, q
  <2> QED BY <1>0, <1>5, <1>6, <1>7, MinExists
<1>9. FirstVisible = EntryAt(q, k)
  BY <1>1, <1>5, <1>6
<1>10. k \in 1 .. Len(q) /\ IsVisible(q[k])
  BY <1>4, <1>8
<1>11. ASSUME NEW j \in DOMAIN q, j < k PROVE q[j] \in hidden
  <2>1. j \in 1 .. Len(q) /\ k \in Int
    BY <1>0, <1>10
  <2>2. j \notin I
    BY <2>1, <1>8, <1>11
  <2> QED BY <2>1, <2>2, <1>4 DEF IsVisible
<1> QED BY <1>0, <1>9, <1>10, <1>11 DEF EntryAt, IsVisible

(* ENQUEUE stores the message and holds it.                                *)
LEMMA CommandsStore ==
  ASSUME PromiseInv, HolderInv', NEW s \in Sessions, NEW m \in Msgs, EnqueueCmd(s, m)
  PROVE  Promised
<1>0. SessionsInv /\ SessionsInv' /\ HoldingByTask /\ HoldingByTask'
  BY PromiseParts, PartsNext
<1>1. /\ mode = "running" /\ mode' = "running" /\ task[s] = Idle /\ browse' = browse
      /\ Enqueue(m) /\ hidden' = hidden \cup {m}
  BY DEF EnqueueCmd, Enqueue, Ready, Waiting
<1>2. /\ RecordsListed' /\ KeptInOrder' = Append(KeptInOrder, m)
      /\ m \notin Range(index) /\ m \notin Range(KeptInOrder)
      /\ Range(index') = Range(index) \cup {m}
  BY <1>1, LongerList
<1>3. Available' = Available
  BY <1>1, <1>2 DEF Available
<1>4. Alone(s) /\ Holding(s)' = Holding(s) \cup {m} /\ Serving(s)' = Serving(s)
  <2>1. CASE inTransaction[s]
    <3>1. task' = task /\ \E h \in Handles : SetEntry(s, m, Entry(h, "enqueue"))
      BY <1>1, <2>1 DEF EnqueueCmd, Enqueue, Register
    <3>2. /\ Pending(s)' = Pending(s) \cup {m}
          /\ \A t \in Sessions \ {s} : trans'[t] = trans[t]
      BY <3>1, <1>0, NewEntry DEF Entry
    <3>3. Holding(s)' = Holding(s) \cup {m}
      BY <1>0, <1>1, <3>1, <3>2 DEF HoldingByTask, Idle, Holds
    <3> QED BY <3>1, <3>2, <3>3, <1>1 DEF Alone, Serving
  <2>2. CASE ~ inTransaction[s]
    <3>1. /\ trans' = trans
          /\ SetTask(s, [op |-> "publish", msg |-> m, handle |-> NextCursorID])
      BY <2>2 DEF EnqueueCmd
    <3>2. /\ task'[s].op = "publish" /\ task'[s].msg = m
          /\ \A t \in Sessions \ {s} : task'[t] = task[t]
      BY <3>1, <1>0, NewTask
    <3>3. Pending(s)' = Pending(s)
      BY <3>1 DEF Pending
    <3>4. Holding(s)' = Holding(s) \cup {m}
      BY <1>0, <1>1, <3>2, <3>3 DEF HoldingByTask, Idle, Holds
    <3>5. Serving(s)' = Serving(s)
      BY <1>1, <3>2 DEF Serving, Idle
    <3> QED BY <3>1, <3>2, <3>4, <3>5, <1>1 DEF Alone
  <2> QED BY <2>1, <2>2
<1>5. /\ [t \in Sessions |-> Holding(t)]'
           = [[t \in Sessions |-> Holding(t)] EXCEPT ![s] = Holding(s) \cup {m}]
      /\ [t \in Sessions |-> Serving(t)]' = [t \in Sessions |-> Serving(t)]
  BY <1>4, OneSession
<1>6. Contract!Store(s, m)
  BY <1>1, <1>2, <1>3, <1>5 DEF Contract!Store, Contract!Hold, Contract!Range, Range
<1> QED BY <1>2, <1>6 DEF Promised, Contract!QueueNext

(* The message the search finds is the one the contract calls for.         *)
LEMMA FirstIsBest ==
  ASSUME PromiseInv, mode = "running", FirstVisible \in Msgs
  PROVE  Contract!Best(FirstVisible)
<1>0. /\ TypeOK /\ IsInjective(index) /\ index \in Seq(Msgs) /\ PriorityFifo /\ KeptByIndex
      /\ Listed(KeptInOrder, Kept, KeptOrder)
  BY PromiseParts DEF StorageInv, OrderInv, TypeOK
<1>1. PICK k \in DOMAIN index : /\ FirstVisible = index[k] /\ index[k] \notin hidden
                                /\ \A j \in DOMAIN index : j < k => index[j] \in hidden
  BY <1>0, FirstVisibleIsFirst
<1>2. Kept = Range(index) /\ Available = Range(index) \ hidden
  BY <1>0 DEF KeptByIndex, Leaving, Available
<1>3. \A i \in DOMAIN KeptInOrder : i \in Int
  BY <1>0 DEF Listed
<1>4. PICK m : m = FirstVisible
  OBVIOUS
<1>5. m \in Available /\ m \in Kept
  BY <1>1, <1>2, <1>4 DEF Range
<1>6. ASSUME NEW n \in Available \ {m}
      PROVE  Priority[m] > Priority[n] \/ (Priority[m] = Priority[n] /\ Contract!Before(m, n))
  <2>1. PICK j \in DOMAIN index : index[j] = n
    BY <1>2 DEF Range
  <2>2. k < j
    BY <2>1, <1>0, <1>1, <1>2, <1>4
  <2>3. Priority[m] > Priority[n] \/ (Priority[m] = Priority[n] /\ WrittenBefore(m, n))
    BY <2>1, <2>2, <1>0, <1>1, <1>4 DEF PriorityFifo, Ordered
  <2>4. ASSUME WrittenBefore(m, n) PROVE Contract!Before(m, n)
    <3>1. n \in Kept /\ ~ WrittenBefore(n, m)
      <4>1. place \in [Msgs -> Places] /\ m \in Msgs /\ n \in Msgs
        BY <1>0, <1>2, <1>5, SearchType DEF TypeOK
      <4>2. /\ place[m].file \in Nat /\ place[m].offset \in Nat
            /\ place[n].file \in Nat /\ place[n].offset \in Nat
        BY <4>1 DEF Places, FileIds
      <4> QED BY <4>2, <1>2, <2>4 DEF WrittenBefore
    <3>2. PICK a, b \in DOMAIN KeptInOrder : KeptInOrder[a] = m /\ KeptInOrder[b] = n
      BY <1>0, <1>5, <3>1 DEF Listed, Range
    <3>3. ~ b < a
      BY <1>0, <3>1, <3>2 DEF Listed, KeptByIndex
    <3>4. a < b
      BY <3>2, <3>3, <1>3
    <3> QED BY <3>2, <3>4 DEF Contract!Before
  <2> QED BY <2>3, <2>4
<1> QED BY <1>4, <1>5, <1>6 DEF Contract!Best

(* A session takes hold of a message that is available, to send it.        *)
LEMMA TakesOne ==
  ASSUME PromiseInv, HolderInv', NEW s \in Sessions, NEW m,
         task[s] = Idle, trans' = trans, browse' = browse, files' = files,
         NEW x, SetTask(s, x), x.op \in {"send", "sendCursor"}, x.msg = m
  PROVE  /\ Alone(s) /\ Holding(s)' = Holding(s) \cup {m}
         /\ Serving(s)' = IF x.op = "send" THEN "front" ELSE "cursor"
         /\ RecordsListed' /\ KeptInOrder' = KeptInOrder
<1>0. SessionsInv /\ SessionsInv' /\ HoldingByTask /\ HoldingByTask'
  BY PromiseParts, PartsNext
<1>1. task'[s] = x /\ \A t \in Sessions \ {s} : task'[t] = task[t]
  BY <1>0, NewTask
<1>2. Pending(s)' = Pending(s)
  BY DEF Pending
<1>3. Holding(s)' = Holding(s) \cup {m}
  <2>1. Holding(s) = Pending(s)
    BY <1>0 DEF HoldingByTask, Idle, Holds
  <2>2. Holding(s)' = Pending(s)' \cup {m}
    BY <1>0, <1>1 DEF HoldingByTask, Holds
  <2> QED BY <1>2, <2>1, <2>2
<1>4. Serving(s)' = IF x.op = "send" THEN "front" ELSE "cursor"
  BY <1>1 DEF Serving
<1> QED BY <1>1, <1>3, <1>4, SameList DEF Alone

(* RETRIEVE takes the best message, RETRIEVE_CURSOR the one at the cursor. *)
LEMMA CommandsFetch ==
  ASSUME PromiseInv, HolderInv', NEW s \in Sessions,
         RetrieveCmd(s) \/ \E h \in Handles : RetrieveCursorCmd(s, h)
  PROVE  Promised
<1>0. MemoryInv /\ TypeOK
  BY PromiseParts
<1>1. CASE RetrieveCmd(s)
  <2>1. /\ mode = "running" /\ mode' = "running" /\ task[s] = Idle
        /\ trans' = trans /\ browse' = browse /\ files' = files /\ index' = index
        /\ hidden' = hidden \cup {FirstVisible} /\ FirstVisible # End
        /\ SetTask(s, [op |-> "send", msg |-> FirstVisible, handle |-> NextCursorID])
    BY <1>1 DEF RetrieveCmd, BeginRetrieve, Ready, Waiting, storageVars
  <2>2. PICK m \in Msgs : m = FirstVisible
    BY <1>0, <2>1, SearchType
  <2>3. Contract!Best(m)
    BY <2>1, <2>2, FirstIsBest
  <2>4. Available' = Available \ {m}
    BY <2>1, <2>2 DEF Available
  <2>5. /\ Alone(s) /\ Holding(s)' = Holding(s) \cup {m} /\ Serving(s)' = "front"
        /\ RecordsListed' /\ KeptInOrder' = KeptInOrder
    <3> DEFINE x == [op |-> "send", msg |-> m, handle |-> NextCursorID]
    <3>1. SetTask(s, x) /\ x.op \in {"send", "sendCursor"} /\ x.msg = m /\ x.op = "send"
      BY <2>1, <2>2
    <3> HIDE DEF x
    <3> QED BY <2>1, <3>1, TakesOne
  <2>6. /\ [t \in Sessions |-> Holding(t)]'
             = [[t \in Sessions |-> Holding(t)] EXCEPT ![s] = Holding(s) \cup {m}]
        /\ [t \in Sessions |-> Serving(t)]'
             = [[t \in Sessions |-> Serving(t)] EXCEPT ![s] = "front"]
    BY <2>5, OneSession
  <2>7. Contract!Take(s, m)
    BY <2>1, <2>3, <2>4, <2>5, <2>6 DEF Contract!Take, Contract!Hold, Contract!Serve
  <2> QED BY <2>5, <2>7 DEF Promised, Contract!QueueNext
<1>2. ASSUME NEW h \in Handles, RetrieveCursorCmd(s, h) PROVE Promised
  <2>1. /\ mode = "running" /\ mode' = "running" /\ task[s] = Idle
        /\ trans' = trans /\ browse' = browse /\ files' = files /\ index' = index
        /\ Usable(h) /\ Where(h) \notin hidden /\ hidden' = hidden \cup {Where(h)}
        /\ SetTask(s, [op |-> "sendCursor", msg |-> Where(h), from |-> h])
    BY <1>2 DEF RetrieveCursorCmd, BeginRetrieveCursor, Ready, Waiting, storageVars
  <2>2. PICK m \in Msgs : m = Where(h)
    BY <2>1 DEF Usable
  <2>3. m \in Range(index)
    BY <1>0, <2>2, SpecialPositions DEF MemoryInv, PositionsInIndex, Where
  <2>4. m \in Available /\ Available' = Available \ {m}
    BY <2>1, <2>2, <2>3 DEF Available
  <2>5. /\ Alone(s) /\ Holding(s)' = Holding(s) \cup {m} /\ Serving(s)' = "cursor"
        /\ RecordsListed' /\ KeptInOrder' = KeptInOrder
    <3> DEFINE x == [op |-> "sendCursor", msg |-> m, from |-> h]
    <3>1. SetTask(s, x) /\ x.op \in {"send", "sendCursor"} /\ x.msg = m /\ x.op = "sendCursor"
      BY <2>1, <2>2
    <3> HIDE DEF x
    <3> QED BY <2>1, <3>1, TakesOne
  <2>6. /\ [t \in Sessions |-> Holding(t)]'
             = [[t \in Sessions |-> Holding(t)] EXCEPT ![s] = Holding(s) \cup {m}]
        /\ [t \in Sessions |-> Serving(t)]'
             = [[t \in Sessions |-> Serving(t)] EXCEPT ![s] = "cursor"]
    BY <2>5, OneSession
  <2>7. Contract!TakeAtCursor(s, m)
    BY <2>1, <2>4, <2>5, <2>6 DEF Contract!TakeAtCursor, Contract!Hold, Contract!Serve
  <2> QED BY <2>5, <2>7 DEF Promised, Contract!QueueNext
<1> QED BY <1>1, <1>2

(* Every step of a session is one the contract allows.                     *)
LEMMA SessionStepPromised ==
  ASSUME PromiseInv, ~ CursorSendFails, HolderInv', NEW s \in Sessions, SessionStep(s)
  PROVE  Promised
<1>1. ~ SendCursorFails(s)
  BY DEF SendCursorFails
<1> QED BY <1>1, CommandsUnseen, CommandsTurn, CommandsCopy, CommandsServed, CommandsEntry,
           CommandsAck, CommandsEnd, CommandsStore, CommandsFetch
        DEF SessionStep

(* Expiry takes a message nobody holds; the rest of what the queue does by *)
(* itself is not seen, but for the end of a recovery.                      *)
LEMMA StorageStepPromised ==
  ASSUME PromiseInv, HolderInv', StorageStep
  PROVE  Promised
<1>0. MemoryInv /\ StorageInv /\ TypeOK /\ KeptByIndex /\ KeptByIndex'
  BY PromiseParts, PartsNext
<1>1. UNCHANGED <<trans, task>>
  BY DEF StorageStep, sessionVars
<1>2. /\ [t \in Sessions |-> Holding(t)]' = [t \in Sessions |-> Holding(t)]
      /\ [t \in Sessions |-> Serving(t)]' = [t \in Sessions |-> Serving(t)]
  BY <1>1, NoSession
<1>3. ASSUME NEW m \in Range(index), mode # "recovering", mode' # "recovering",
             Leaving = {m}, Leaving' = {}, EraseEntry(m)
      PROVE  Promised
  <2>1. Range(index') = Range(index) \ {m} /\ place' = place /\ hidden' = hidden \ {m}
    BY <1>0, <1>3, EraseInjective DEF EraseEntry, TypeOK, StorageInv
  <2>2. m \in hidden
    BY <1>3 DEF PromiseInv, HiddenInv
  <2>3. Available' = Available
    BY <1>3, <2>1, <2>2 DEF Available
  <2> QED BY <2>1, <2>3, <1>1, <1>3, Unseen
<1>4. CASE FinishRemoval
  <2>1. /\ mode = "removing" /\ mode' = "running" /\ EraseEntry(Where(removing))
    BY <1>4 DEF FinishRemoval, EraseMessage
  <2>2. Leaving = {Where(removing)} /\ Leaving' = {} /\ Where(removing) \in Range(index)
    BY <1>0, <2>1 DEF Leaving, MemoryInv, PositionsInIndex
  <2> QED BY <2>1, <2>2, <1>3
<1>5. CASE EraseExpired
  <2>1. mode = "expiring" /\ mode' = "purging" /\ EraseEntry(purgeAt)
    BY <1>5 DEF EraseExpired, EraseMessage
  <2>2. Leaving = {purgeAt} /\ Leaving' = {} /\ purgeAt \in Range(index)
    BY <1>0, <2>1 DEF Leaving, MemoryInv, PositionsInIndex
  <2> QED BY <2>1, <2>2, <1>3
<1>6. CASE PurgeExpired
  <2>1. /\ mode = "purging" /\ mode' = "expiring" /\ purgeAt \in expired \ hidden
        /\ UNCHANGED <<index, place, purgeAt>> /\ hidden' = hidden \cup {purgeAt}
    BY <1>6 DEF PurgeExpired, MarkMessage, ttlVars
  <2>2. PICK m : m = purgeAt
    OBVIOUS
  <2>3. m \in Range(index) /\ m \in TTLMsgs /\ m \in Msgs
    BY <1>0, <2>1, <2>2, SpecialPositions, StorageAssumption, SearchType
       DEF MemoryInv, PositionsInIndex, TypeOK
  <2>4. Leaving = {} /\ Leaving' = {m}
    BY <2>1, <2>2 DEF Leaving
  <2>5. /\ RecordsListed'
        /\ \E i \in DOMAIN KeptInOrder :
              KeptInOrder[i] = m /\ KeptInOrder' = RemoveAt(KeptInOrder, i)
    BY <2>1, <2>3, <2>4, ShorterList
  <2>6. m \in Available /\ Available' = Available \ {m}
    BY <2>1, <2>2, <2>3 DEF Available
  <2>7. Contract!Forget(m)
    BY <2>5 DEF Contract!Forget, Contract!RemoveAt, RemoveAt
  <2>8. Contract!Expire(m)
    BY <2>1, <2>3, <2>6, <2>7, <1>2 DEF Contract!Expire
  <2> QED BY <2>3, <2>5, <2>8 DEF Promised, Contract!QueueNext
<1>7. CASE Recovered
  <2>1. /\ mode = "recovering" /\ mode' = "running" /\ UNCHANGED <<files, index, hidden>>
    BY <1>7 DEF Recovered, memoryVars, storageVars
  <2>2. RecordsListed' /\ KeptInOrder' = KeptInOrder
    BY <2>1, SameList
  <2>3. Kept' = Range(index') /\ Kept' = Kept
    <3>1. Leaving' = {}
      BY <2>1 DEF Leaving
    <3> QED BY <3>1, <2>1, <1>0 DEF KeptByIndex, Kept, KeptAt
  <2>4. Available' = Range(KeptInOrder)
    <3>1. hidden' = {}
      BY <2>1 DEF PromiseInv, HiddenInv
    <3>2. Range(KeptInOrder) = Kept
      BY PromiseParts DEF Listed
    <3> QED BY <3>1, <3>2, <2>1, <2>3 DEF Available
  <2>5. Contract!Restart
    BY <2>1, <2>2, <2>4, <1>2 DEF Contract!Restart, Contract!Range, Range
  <2> QED BY <2>2, <2>5 DEF Promised, Contract!QueueNext
<1>8. CASE RecoverRecord \/ RecoverNextFile
  <2>1. mode = "recovering" /\ mode' = "recovering" /\ files' = files
    BY <1>8 DEF RecoverRecord, RecoverNextFile, storageVars
  <2>2. Available' = Available
    BY <2>1 DEF Available
  <2> QED BY <2>1, <2>2, <1>1, Unseen
<1>9. CASE BeginTTLPurge \/ PurgeSkip \/ EndTTLPurge \/ \E m \in Msgs : Age(m)
  <2>1. /\ mode # "recovering" /\ mode' # "recovering" /\ UNCHANGED <<files, index, hidden>>
    BY <1>9 DEF BeginTTLPurge, PurgeSkip, EndTTLPurge, Age, memoryVars, storageVars
  <2>2. Available' = Available
    BY <2>1 DEF Available
  <2> QED BY <2>1, <2>2, <1>1, Unseen
<1> QED BY <1>4, <1>5, <1>6, <1>7, <1>8, <1>9 DEF StorageStep, Recovery, Expiry

(* A message is hidden before its record is marked, and until it is gone.  *)
LEMMA NextKeepsHidden ==
  ASSUME HiddenInv, [Next]_vars
  PROVE  HiddenInv'
<1>1. CASE UNCHANGED vars
  <2>1. UNCHANGED <<mode, hidden, begin, cursors, purgeAt, removing>>
    BY <1>1 DEF vars, memoryVars, ttlVars, scanVars
  <2>2. Leaving' = Leaving
    BY <2>1 DEF Leaving, Where
  <2> QED BY <2>1, <2>2 DEF HiddenInv
<1>2. ASSUME mode' \in {"running", "purging"} PROVE HiddenInv'
  BY <1>2 DEF HiddenInv, Leaving
<1>3. ASSUME mode' = "recovering", hidden' = {} PROVE HiddenInv'
  BY <1>3 DEF HiddenInv, Leaving
<1>4. ASSUME NEW h \in Handles, Consume(h) PROVE HiddenInv'
  <2>1. /\ mode' = "removing" /\ removing' = h /\ UNCHANGED <<begin, cursors>>
        /\ hidden' = hidden \cup {Where(h)}
    BY <1>4 DEF Consume, MarkMessage
  <2>2. Leaving' = {Where(h)}
    BY <2>1 DEF Leaving, Where
  <2> QED BY <2>1, <2>2 DEF HiddenInv
<1>5. CASE CursorOperation
  <2>1. mode' = "running" \/ \E h \in Handles : Consume(h)
    BY <1>5 DEF CursorOperation, OpenCursor, PeekFront, BeginRetrieve, BeginRetrieveID,
       WaitForID, CloseCursor, AdvanceCursor, BeginRetrieveCursor, FinalizeEnqueue,
       CancelRetrieve, CancelEnqueue, FinalizeRetrieve, Reveal, CursorCopy, SeekID
  <2> QED BY <2>1, <1>2, <1>4
<1>6. CASE (\E m \in Msgs : Enqueue(m)) \/ FinishRemoval
  BY <1>2, <1>6 DEF Enqueue, FinishRemoval
<1>7. CASE Expiry
  <2>1. CASE PurgeExpired
    <3>1. mode' = "expiring" /\ purgeAt' = purgeAt /\ hidden' = hidden \cup {purgeAt}
      BY <2>1 DEF PurgeExpired, MarkMessage, ttlVars
    <3>2. Leaving' = {purgeAt}
      BY <3>1 DEF Leaving
    <3> QED BY <3>1, <3>2 DEF HiddenInv
  <2>2. CASE ~ PurgeExpired
    BY <1>2, <1>7, <2>2 DEF Expiry, BeginTTLPurge, EraseExpired, PurgeSkip, EndTTLPurge, Age
  <2> QED BY <2>1, <2>2
<1>8. CASE Crash
  BY <1>3, <1>8 DEF Crash
<1>9. CASE Recovery
  BY <1>2, <1>3, <1>9 DEF Recovery, RecoverRecord, RecoverNextFile, Recovered, memoryVars, HiddenInv
<1> QED BY <1>1, <1>5, <1>6, <1>7, <1>8, <1>9 DEF Next

(* A crash takes the sessions, and leaves what was accepted.               *)
LEMMA CrashPromised ==
  ASSUME PromiseInv, HolderInv', ServerCrash
  PROVE  Promised
<1>1. /\ mode' = "recovering" /\ files' = files
      /\ trans' = [s \in Sessions |-> [m \in Msgs |-> NoEntry]]
      /\ task' = [s \in Sessions |-> Idle]
  BY DEF ServerCrash, Crash
<1>2. RecordsListed' /\ KeptInOrder' = KeptInOrder
  BY <1>1, SameList
<1>3. Available' = {}
  BY <1>1 DEF Available
<1>4. ASSUME NEW s \in Sessions PROVE Holding(s)' = {} /\ Serving(s)' = "nothing"
  <2>1. task'[s] = Idle /\ \A m \in Msgs : trans'[s][m].type = "none"
    BY <1>1 DEF NoEntry
  <2>2. Pending(s)' = {}
    BY <2>1 DEF Pending
  <2>3. HoldingByTask'
    BY PartsNext
  <2>4. Holding(s)' = {}
    BY <2>1, <2>2, <2>3 DEF HoldingByTask, Idle, Holds
  <2> QED BY <2>1, <2>4 DEF Serving, Idle
<1>5. /\ [s \in Sessions |-> Holding(s)]' = [s \in Sessions |-> {}]
      /\ [s \in Sessions |-> Serving(s)]' = [s \in Sessions |-> "nothing"]
  BY <1>4
<1>6. Contract!Down
  BY <1>1, <1>2, <1>3, <1>5 DEF Contract!Down
<1> QED BY <1>2, <1>6 DEF Promised, Contract!QueueNext

(* The server starts with nothing accepted.                                *)
LEMMA InitPromised == Init /\ SessionInit => PromiseInv /\ Contract!Start
<1> SUFFICES ASSUME Init, SessionInit PROVE PromiseInv /\ Contract!Start
  OBVIOUS
<1>1. HolderInv /\ OrderInv /\ HiddenInv
  BY InitHolds DEF Init, OrderInv, PriorityFifo, Ordered, Range, HiddenInv, Leaving
<1>2. TypeOK /\ RecordsUnique /\ SessionsInv
  BY <1>1 DEF HolderInv, QueueInv, ServerInv, MemoryInv, StorageInv
<1>3. Kept = {}
  BY DEF Init, Kept
<1>4. Listed(<<>>, Kept, KeptOrder)
  BY <1>3 DEF Listed, IsInjective, Range
<1>5. RecordsListed /\ KeptInOrder = <<>>
  BY <1>2, <1>4, KeptIs DEF RecordsListed, OneOrder
<1>6. Available = {}
  BY DEF Init, Available, Range
<1>7. ASSUME NEW s \in Sessions PROVE Holding(s) = {} /\ Serving(s) = "nothing"
  <2>1. task[s] = Idle /\ \A m \in Msgs : trans[s][m].type = "none"
    BY DEF SessionInit, NoEntry
  <2>2. Pending(s) = {}
    BY <2>1 DEF Pending
  <2>3. Holding(s) = {}
    BY <1>2, <2>1, <2>2, HoldingIs DEF HoldingByTask, Idle, Holds
  <2> QED BY <2>1, <2>3 DEF Serving, Idle
<1>8. Contract!Start
  BY <1>5, <1>6, <1>7 DEF Contract!Start, Init
<1> QED BY <1>1, <1>5, <1>8 DEF PromiseInv

(* Every step of the server is a step of the contract.                     *)
LEMMA ServerStepPromised ==
  ASSUME OneLevel, ~ CursorSendFails, PromiseInv, [ServerNext]_allVars
  PROVE  PromiseInv' /\ Contract!QueueNext
<1>0. ServerInv /\ MemoryInv /\ StorageInv /\ OrderInv /\ HolderInv /\ HiddenInv
  BY DEF PromiseInv, HolderInv, QueueInv, ServerInv
<1>1. [Next]_vars
  BY <1>0, ServerStepIsStorageStep
<1>2. HolderInv' /\ OrderInv' /\ HiddenInv'
  BY <1>0, <1>1, ServerStepHolds, NextKeepsOrder, NextKeepsHidden
<1>3. Promised
  <2>1. ASSUME NEW s \in Sessions, SessionStep(s) PROVE Promised
    BY <2>1, <1>2, SessionStepPromised
  <2>2. CASE StorageStep
    BY <2>2, <1>2, StorageStepPromised
  <2>3. CASE ServerCrash
    BY <2>3, <1>2, CrashPromised
  <2>4. CASE UNCHANGED allVars
    <3>1. UNCHANGED <<mode, files, index, hidden, trans, task>>
      BY <2>4 DEF allVars, vars, memoryVars, storageVars, sessionVars
    <3>2. Available' = Available
      BY <3>1 DEF Available
    <3> QED BY <3>1, <3>2, <1>2, Unseen
  <2> QED BY <2>1, <2>2, <2>3, <2>4 DEF ServerNext
<1> QED BY <1>2, <1>3 DEF Promised, PromiseInv

(* Under one priority, and while no answer to RETRIEVE_CURSOR is lost, the *)
(* server implements MessageQueue: messages are kept in the order they     *)
(* were accepted, RETRIEVE gets the first of those available,              *)
(* RETRIEVE_CURSOR one of them, and nobody else gets it, only who holds a  *)
(* message publishes, removes or returns it, only what nobody holds        *)
(* expires, and after a crash every message accepted and not removed is    *)
(* available again, in its order.                                          *)
THEOREM ServerKeepsPromise ==
  OneLevel /\ ~ CursorSendFails => (ServerSpec => KeepsPromise)
<1> SUFFICES ASSUME OneLevel, ~ CursorSendFails PROVE ServerSpec => KeepsPromise
  OBVIOUS
<1>1. Init /\ SessionInit => PromiseInv /\ Contract!Start
  BY InitPromised
<1>2. PromiseInv /\ [ServerNext]_allVars => PromiseInv' /\ [Contract!QueueNext]_(Contract!queueVars)
  BY ServerStepPromised
<1> QED BY <1>1, <1>2, PTL DEF ServerSpec, KeepsPromise, Contract!Promise
=============================================================================
