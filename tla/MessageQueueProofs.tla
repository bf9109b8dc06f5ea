------------------------- MODULE MessageQueueProofs -------------------------
(***************************************************************************)
(* What holds of a queue that keeps the promise of MessageQueue, for any   *)
(* messages and sessions; with one lemma for each of its steps, for the    *)
(* proofs about what is built on it.                                       *)
(***************************************************************************)
EXTENDS MessageQueue, SequenceTheorems, TLAPS

(* A message is accepted once, and available, or held by one session, or   *)
(* forgotten by one until the server is started again.                     *)
QueueInv ==
    /\ accepted \in Seq(Msgs) /\ IsInjective(accepted)
    /\ ready \subseteq Range(accepted)
    /\ holds \in [Sessions -> SUBSET Msgs]
    /\ \A s \in Sessions : holds[s] \subseteq Range(accepted) \ ready
    /\ \A s, t \in Sessions : s # t => holds[s] \cap holds[t] = {}
    /\ up \in BOOLEAN
    /\ ~up => ready = {} /\ \A s \in Sessions : holds[s] = {}
-----------------------------------------------------------------------------
(* Sequences without double entries, when one entry comes or goes.         *)

LEMMA Appended ==
    ASSUME NEW S, NEW q \in Seq(S), IsInjective(q), NEW m \in S, m \notin Range(q)
    PROVE  /\ Append(q, m) \in Seq(S) /\ IsInjective(Append(q, m))
           /\ Range(Append(q, m)) = Range(q) \cup {m}
<1> DEFINE r == Append(q, m)
<1>1. /\ r \in Seq(S) /\ DOMAIN r = 1 .. Len(q) + 1
      /\ \A k \in 1 .. Len(q) : r[k] = q[k]
      /\ r[Len(q) + 1] = m
    BY AppendProperties
<1>2. Len(q) \in Nat /\ DOMAIN q = 1 .. Len(q)
    OBVIOUS
<1> HIDE DEF r
<1>3. \A k \in 1 .. Len(q) + 1 : k \in 1 .. Len(q) \/ k = Len(q) + 1
    BY <1>2
<1>4. IsInjective(r)
    BY <1>1, <1>2, <1>3 DEF IsInjective, Range
<1>5. Range(r) = Range(q) \cup {m}
  <2>1. Range(r) \subseteq Range(q) \cup {m} BY <1>1, <1>2, <1>3 DEF Range
  <2>2. Range(q) \subseteq Range(r) BY <1>1, <1>2 DEF Range
  <2>3. m \in Range(r) BY <1>1, <1>2 DEF Range
  <2> QED BY <2>1, <2>2, <2>3
<1> QED BY <1>1, <1>4, <1>5 DEF r

LEMMA TakenOut ==
    ASSUME NEW S, NEW q \in Seq(S), IsInjective(q), NEW i \in 1 .. Len(q)
    PROVE  /\ RemoveAt(q, i) \in Seq(S) /\ IsInjective(RemoveAt(q, i))
           /\ Range(RemoveAt(q, i)) = Range(q) \ {q[i]}
<1> DEFINE r == RemoveAt(q, i)
           a == SubSeq(q, 1, i - 1)
           b == SubSeq(q, i + 1, Len(q))
           from(k) == IF k < i THEN k ELSE k + 1
<1>1. Len(q) \in Nat /\ Len(q) > 0 /\ DOMAIN q = 1 .. Len(q)
    OBVIOUS
<1>2. a \in Seq(S) /\ Len(a) = i - 1 /\ \A k \in 1 .. i - 1 : a[k] = q[k]
    BY SubSeqProperties
<1>3. b \in Seq(S) /\ Len(b) = Len(q) - i /\ \A k \in 1 .. Len(b) : b[k] = q[k + i]
    BY SubSeqProperties
<1>4. r = a \o b
    BY DEF RemoveAt
<1> HIDE DEF a, b
<1>5. /\ a \o b \in Seq(S) /\ Len(a \o b) = Len(q) - 1
      /\ \A k \in 1 .. Len(q) - 1 :
            (a \o b)[k] = IF k <= i - 1 THEN a[k] ELSE b[k - (i - 1)]
  <2>1. /\ a \o b \in Seq(S) /\ Len(a \o b) = Len(a) + Len(b)
        /\ \A k \in 1 .. Len(a) + Len(b) :
              (a \o b)[k] = IF k <= Len(a) THEN a[k] ELSE b[k - Len(a)]
      BY <1>2, <1>3, ConcatProperties
  <2>2. Len(a) + Len(b) = Len(q) - 1 BY <1>1, <1>2, <1>3
  <2> QED BY <1>2, <2>1, <2>2
<1>6. /\ r \in Seq(S) /\ DOMAIN r = 1 .. Len(q) - 1
      /\ \A k \in 1 .. Len(q) - 1 : r[k] = q[from(k)]
  <2>1. \A k \in 1 .. Len(q) - 1 : (a \o b)[k] = q[from(k)]
      BY <1>1, <1>2, <1>3, <1>5
  <2>2. DOMAIN (a \o b) = 1 .. Len(q) - 1 BY <1>5
  <2> QED BY <1>4, <1>5, <2>1, <2>2
<1> HIDE DEF r
<1>7. \A k \in 1 .. Len(q) - 1 : from(k) \in DOMAIN q /\ from(k) # i
    BY <1>1
<1>8. \A k, l \in 1 .. Len(q) - 1 : from(k) = from(l) => k = l
    BY <1>1
<1>9. \A j \in DOMAIN q \ {i} : \E k \in 1 .. Len(q) - 1 : from(k) = j
  <2> SUFFICES ASSUME NEW j \in DOMAIN q \ {i}
               PROVE  \E k \in 1 .. Len(q) - 1 : from(k) = j
      OBVIOUS
  <2>1. CASE j < i BY <1>1, <2>1
  <2>2. CASE j > i
    <3>1. j - 1 \in 1 .. Len(q) - 1 /\ from(j - 1) = j BY <1>1, <2>2
    <3> QED BY <3>1
  <2> QED BY <1>1, <2>1, <2>2
<1> HIDE DEF from
<1>10. IsInjective(r)
    BY <1>6, <1>7, <1>8 DEF IsInjective
<1>11. Range(r) = Range(q) \ {q[i]}
  <2>1. Range(r) \subseteq Range(q) \ {q[i]}
      BY <1>1, <1>6, <1>7 DEF IsInjective, Range
  <2>2. Range(q) \ {q[i]} \subseteq Range(r)
    <3> SUFFICES ASSUME NEW j \in DOMAIN q, q[j] # q[i] PROVE q[j] \in Range(r)
        BY DEF Range
    <3>1. PICK k \in 1 .. Len(q) - 1 : from(k) = j BY <1>9
    <3> QED BY <1>6, <3>1 DEF Range
  <2> QED BY <2>1, <2>2
<1> QED BY <1>6, <1>10, <1>11 DEF r
-----------------------------------------------------------------------------
(* The steps of the queue.                                                 *)

LEMMA ForgetEffect ==
    ASSUME QueueInv, NEW m, Forget(m)
    PROVE  /\ accepted' \in Seq(Msgs) /\ IsInjective(accepted')
           /\ Range(accepted') = Range(accepted) \ {m}
<1>1. PICK i \in 1 .. Len(accepted) :
          accepted[i] = m /\ accepted' = RemoveAt(accepted, i)
    BY DEF Forget, QueueInv
<1> QED BY <1>1, TakenOut DEF QueueInv

LEMMA StoreInv ==
    ASSUME QueueInv, NEW s \in Sessions, NEW m \in Msgs, Store(s, m)
    PROVE  QueueInv' /\ Range(accepted') = Range(accepted) \cup {m}
<1>1. /\ accepted' \in Seq(Msgs) /\ IsInjective(accepted')
      /\ Range(accepted') = Range(accepted) \cup {m}
    BY Appended DEF QueueInv, Store
<1> QED BY <1>1 DEF QueueInv, Store, Hold

(* Taking a message that is available, in whatever way it was chosen.      *)
LEMMA TakeInv ==
    ASSUME QueueInv, up, NEW s \in Sessions, NEW m \in ready, Hold(s, m),
           ready' = ready \ {m}, UNCHANGED <<accepted, up>>
    PROVE  QueueInv'
<1>1. m \in Msgs BY DEF QueueInv, Range
<1> QED BY <1>1 DEF QueueInv, Hold

LEMMA ReleaseInv ==
    ASSUME QueueInv, NEW s \in Sessions, NEW m, Release(s, m)
    PROVE  QueueInv'
BY DEF QueueInv, Release, Drop

LEMMA DiscardInv ==
    ASSUME QueueInv, NEW s \in Sessions, NEW m, Discard(s, m)
    PROVE  QueueInv' /\ Range(accepted') = Range(accepted) \ {m}
<1>1. /\ accepted' \in Seq(Msgs) /\ IsInjective(accepted')
      /\ Range(accepted') = Range(accepted) \ {m}
    BY ForgetEffect DEF Discard
<1> QED BY <1>1 DEF QueueInv, Discard, Drop

LEMMA AbandonInv ==
    ASSUME QueueInv, NEW s \in Sessions, NEW m, Abandon(s, m)
    PROVE  QueueInv'
BY DEF QueueInv, Abandon, Drop

LEMMA ExpireInv ==
    ASSUME QueueInv, NEW m, Expire(m)
    PROVE  QueueInv'
<1>1. /\ accepted' \in Seq(Msgs) /\ IsInjective(accepted')
      /\ Range(accepted') = Range(accepted) \ {m}
    BY ForgetEffect DEF Expire
<1> QED BY <1>1 DEF QueueInv, Expire

LEMMA DownInv ==
    ASSUME QueueInv, Down
    PROVE  QueueInv'
BY DEF QueueInv, Down

LEMMA RestartInv ==
    ASSUME QueueInv, Restart
    PROVE  QueueInv'
BY DEF QueueInv, Restart

LEMMA StartInv == Start => QueueInv
<1> SUFFICES ASSUME Start PROVE QueueInv OBVIOUS
<1>1. <<>> \in Seq(Msgs) /\ IsInjective(<<>>) /\ Range(<<>>) = {}
    BY DEF IsInjective, Range
<1> QED BY <1>1 DEF Start, QueueInv

LEMMA SameQueue == QueueInv /\ UNCHANGED <<accepted, ready, holds, up>> => QueueInv'
BY DEF QueueInv
-----------------------------------------------------------------------------
(* No message is ever accepted twice, held by two sessions, or available   *)
(* while it is held.                                                       *)
THEOREM OneHolder == Promise => []QueueInv
<1>1. ASSUME QueueInv, NEW s \in Sessions, NEW m \in Msgs,
             \/ Store(s, m) \/ Take(s, m) \/ TakeAtCursor(s, m)
             \/ Release(s, m) \/ Discard(s, m) \/ Abandon(s, m)
      PROVE  QueueInv'
  <2>1. CASE Take(s, m) \/ TakeAtCursor(s, m)
      BY <1>1, <2>1, TakeInv DEF Take, TakeAtCursor, Best
  <2> QED BY <1>1, <2>1, StoreInv, ReleaseInv, DiscardInv, AbandonInv
<1>2. ASSUME QueueInv, [QueueNext]_queueVars PROVE QueueInv'
  <2>1. CASE \E s \in Sessions : Served(s)
      BY <1>2, <2>1, SameQueue DEF Served
  <2>2. CASE UNCHANGED queueVars
      BY <1>2, <2>2, SameQueue DEF queueVars
  <2> QED BY <1>1, <1>2, <2>1, <2>2, ExpireInv, DownInv, RestartInv DEF QueueNext
<1> QED BY <1>2, StartInv, PTL DEF Promise
=============================================================================
