-------------------------- MODULE ForwardingProofs --------------------------
(***************************************************************************)
(* Proofs about Forwarding, for any number of threads, messages and        *)
(* faults: no message just disappears, and none arrives more often than    *)
(* answers were lost.                                                      *)
(*                                                                         *)
(* The queue and the threads together have each message once: in the       *)
(* queue, or in the hand of one thread that has removed it.                *)
(***************************************************************************)
EXTENDS Forwarding, MessageQueueProofs

ThreadInv ==
    /\ submitted \subseteq Msgs /\ Range(accepted) \subseteq submitted
    /\ pc \in [Forwarders -> {"idle", "remove", "connect", "open", "send",
                               "requeue", "publish"}]
    /\ msg \in [Forwarders -> Msgs \cup {None}]
    /\ ~up => \A f \in Forwarders : pc[f] = "idle"
    /\ \A f \in Forwarders :
          /\ pc[f] # "idle" => msg[f] \in submitted
          /\ holds[f] = IF pc[f] \in {"remove", "publish"} THEN {msg[f]} ELSE {}
          /\ InHand(f) => msg[f] \notin Range(accepted)
    /\ \A f, g \in Forwarders :
          f # g /\ InHand(f) /\ InHand(g) => msg[f] # msg[g]

RestTypeOK ==
    /\ label \in [Msgs -> {"url", "own"}] /\ reachable \subseteq Msgs
    /\ delivered \in [Msgs -> Nat] /\ unanswered \in [Msgs -> Nat]
    /\ refused \subseteq submitted
    /\ errors \cup reported \subseteq refused \cap Replying
    /\ sending \in (refused \cap Replying) \cup {None}
    /\ lost \subseteq submitted
    /\ faults \in 0 .. MaxFaults

Accounts == /\ Accounted /\ AtMostOnce
            /\ \A m \in Msgs \ submitted : delivered[m] = 0

Inv == QueueInv /\ ThreadInv /\ RestTypeOK /\ Accounts
-----------------------------------------------------------------------------
(* The accounts, when every message goes on, one ends its way, or one sets *)
(* out.                                                                    *)

LEMMA AccountsKept ==
    ASSUME Accounts, \A m \in Msgs : Pending(m)' <=> Pending(m), submitted \subseteq Msgs,
           UNCHANGED <<submitted, delivered, unanswered, refused, errors, sending,
                       reported, lost>>
    PROVE  Accounts'
BY DEF Accounts, Accounted, AtMostOnce

LEMMA AccountClosed ==
    ASSUME Accounts, RestTypeOK, submitted \subseteq Msgs,
           NEW x \in submitted, Pending(x), ~Pending(x)',
           \A m \in Msgs \ {x} : Pending(m)' <=> Pending(m),
           UNCHANGED <<submitted, unanswered, sending, reported>>,
           \/ /\ refused' = refused \cup {x}
              /\ errors' = IF x \in Replying THEN errors \cup {x} ELSE errors
              /\ UNCHANGED <<delivered, lost>>
           \/ Deliver(x) /\ UNCHANGED <<refused, errors, lost>>
           \/ lost' = lost \cup {x} /\ UNCHANGED <<refused, errors, delivered>>
    PROVE  Accounts'
<1> USE DEF RestTypeOK
<1>1. /\ delivered' \in [Msgs -> Nat]
      /\ \A m \in Msgs \ {x} : delivered'[m] = delivered[m]
      /\ delivered'[x] = delivered[x] \/ delivered'[x] = delivered[x] + 1
    BY DEF Deliver
<1>2. Accounted'
  <2> SUFFICES ASSUME NEW m \in submitted
               PROVE  /\ Pending(m)' \/ delivered'[m] > 0 \/ m \in refused' \cup lost'
                      /\ m \in refused' \cap Replying =>
                            m \in errors' \cup {sending} \cup reported \cup lost'
      BY DEF Accounted
  <2>1. m \in Msgs OBVIOUS
  <2>2. CASE m # x BY <1>1, <2>1, <2>2 DEF Accounts, Accounted
  <2>3. CASE m = x BY <1>1, <2>1, <2>3 DEF Accounts, Accounted, Deliver
  <2> QED BY <2>2, <2>3
<1>3. AtMostOnce'
  <2> SUFFICES ASSUME NEW m \in Msgs
               PROVE  delivered'[m] + (IF Pending(m)' THEN 1 ELSE 0) <= 1 + unanswered[m]
      BY DEF AtMostOnce
  <2>1. delivered[m] + (IF Pending(m) THEN 1 ELSE 0) <= 1 + unanswered[m]
      BY DEF Accounts, AtMostOnce
  <2>2. delivered[m] \in Nat /\ unanswered[m] \in Nat OBVIOUS
  <2>3. CASE m # x BY <1>1, <2>1, <2>2, <2>3
  <2>4. CASE m = x
    <3>1. delivered[x] + 1 <= 1 + unanswered[x] BY <2>1, <2>4
    <3>2. delivered'[x] <= delivered[x] + 1
      <4>1. delivered[x] \in Nat OBVIOUS
      <4> QED BY ONLY <1>1, <4>1
    <3>3. delivered'[x] \in Nat BY <1>1
    <3>4. (IF Pending(m)' THEN 1 ELSE 0) = 0 BY <2>4
    <3> QED BY ONLY <2>2, <2>4, <3>1, <3>2, <3>3, <3>4
  <2> QED BY <2>3, <2>4
<1>4. \A m \in Msgs \ submitted : delivered'[m] = 0
    BY <1>1 DEF Accounts
<1> QED BY <1>2, <1>3, <1>4 DEF Accounts

LEMMA AccountOpened ==
    ASSUME Accounts, RestTypeOK, submitted \subseteq Msgs, NEW x \in Msgs \ submitted,
           Pending(x)', \A m \in Msgs \ {x} : Pending(m)' <=> Pending(m),
           submitted' = submitted \cup {x},
           UNCHANGED <<delivered, unanswered, refused, errors, sending, reported, lost>>
    PROVE  Accounts'
<1> USE DEF RestTypeOK, Accounts
<1>1. Accounted' BY DEF Accounted
<1>2. AtMostOnce'
  <2>1. delivered[x] = 0 /\ unanswered[x] \in Nat OBVIOUS
  <2> QED BY <2>1 DEF AtMostOnce
<1> QED BY <1>1, <1>2
-----------------------------------------------------------------------------
LEMMA InitInv == ForwardInit => Inv
<1> SUFFICES ASSUME ForwardInit PROVE Inv OBVIOUS
<1>1. QueueInv BY StartInv DEF ForwardInit
<1>2. Range(accepted) = {} BY DEF ForwardInit, Start, Range
<1>3. ThreadInv
    BY <1>2, ForwardingAssumption DEF ThreadInv, ForwardInit, Start, InHand
<1>4. RestTypeOK BY ForwardingAssumption DEF RestTypeOK, ForwardInit
<1>5. \A m \in Msgs : ~Pending(m) BY <1>2 DEF Pending, InHand, ForwardInit
<1>6. Accounts BY <1>5 DEF Accounts, Accounted, AtMostOnce, ForwardInit
<1> QED BY <1>1, <1>3, <1>4, <1>6 DEF Inv

(* A client.                                                               *)
LEMMA SubmitInv ==
    ASSUME Inv, NEW s \in Sessions \ Forwarders, NEW m \in Msgs, Submit(s, m)
    PROVE  Inv'
<1> USE ForwardingAssumption DEF Inv, Submit, threadVars, farVars, reportVars
<1>1. QueueInv' /\ Range(accepted') = Range(accepted) \cup {m} BY StoreInv
<1>2. \A f \in Forwarders : holds'[f] = holds[f] BY DEF Store, Hold, QueueInv
<1>3. up' = up BY DEF Store
<1>4. ThreadInv' BY <1>1, <1>2, <1>3 DEF ThreadInv, InHand
<1>5. RestTypeOK' BY DEF RestTypeOK
<1>6. Pending(m)' /\ \A n \in Msgs \ {m} : Pending(n)' <=> Pending(n)
    BY <1>1 DEF Pending, InHand
<1>7. Accounts' BY <1>6, AccountOpened DEF ThreadInv
<1> QED BY <1>1, <1>4, <1>5, <1>7

LEMMA CommitInv ==
    ASSUME Inv, NEW s \in Sessions \ Forwarders, NEW m \in Msgs, Commit(s, m)
    PROVE  Inv'
<1> USE ForwardingAssumption DEF Inv, Commit, threadVars, farVars, reportVars
<1>1. QueueInv' BY ReleaseInv
<1>2. \A f \in Forwarders : holds'[f] = holds[f] BY DEF Release, Drop, QueueInv
<1>3. UNCHANGED <<accepted, up>> BY DEF Release
<1>4. ThreadInv' BY <1>2, <1>3 DEF ThreadInv, InHand
<1>5. RestTypeOK' BY DEF RestTypeOK
<1>6. \A n \in Msgs : Pending(n)' <=> Pending(n) BY <1>3 DEF Pending, InHand
<1>7. Accounts' BY <1>6, AccountsKept DEF ThreadInv
<1> QED BY <1>1, <1>4, <1>5, <1>7
-----------------------------------------------------------------------------
(* A forwarding thread.  What one holds in the queue is held by no other,  *)
(* and is in nobody's hand.                                                *)

LEMMA BeginRetrieveInv ==
    ASSUME Inv, NEW f \in Forwarders, BeginRetrieve(f)
    PROVE  Inv'
<1> USE ForwardingAssumption DEF Inv, BeginRetrieve, farVars, reportVars, At, Goto
<1>1. PICK m \in Msgs : /\ m \in ready /\ ready' = ready \ {m} /\ Hold(f, m)
                        /\ msg' = [msg EXCEPT ![f] = m]
    BY DEF Best
<1>2. QueueInv' BY <1>1, TakeInv
<1>3. holds' = [holds EXCEPT ![f] = {m}]
    BY <1>1 DEF Hold, QueueInv, ThreadInv
<1>4. m \in submitted BY <1>1 DEF QueueInv, ThreadInv
<1>5. \A g \in Forwarders : /\ pc'[g] = IF g = f THEN "remove" ELSE pc[g]
                            /\ msg'[g] = IF g = f THEN m ELSE msg[g]
                            /\ holds'[g] = IF g = f THEN {m} ELSE holds[g]
    BY <1>1, <1>3 DEF ThreadInv, QueueInv
<1>6. ThreadInv'
  <2>1. /\ pc' \in [Forwarders -> {"idle", "remove", "connect", "open", "send",
                                    "requeue", "publish"}]
        /\ msg' \in [Forwarders -> Msgs \cup {None}]
      BY <1>1 DEF ThreadInv
  <2> QED BY <1>4, <1>5, <2>1 DEF ThreadInv, InHand
<1>7. RestTypeOK' BY DEF RestTypeOK
<1>8. \A n \in Msgs : Pending(n)' <=> Pending(n)
    BY <1>5 DEF Pending, InHand
<1>9. Accounts' BY <1>8, AccountsKept DEF ThreadInv
<1> QED BY <1>2, <1>6, <1>7, <1>9

LEMMA FinalizeRetrieveInv ==
    ASSUME Inv, NEW f \in Forwarders, FinalizeRetrieve(f)
    PROVE  Inv'
<1> USE ForwardingAssumption DEF Inv, FinalizeRetrieve, farVars, reportVars, At, Goto
<1>1. PICK m \in submitted : m = msg[f] BY DEF ThreadInv
<1>2. QueueInv' /\ Range(accepted') = Range(accepted) \ {m} BY <1>1, DiscardInv
<1>3. m \in Range(accepted) BY <1>1 DEF QueueInv, ThreadInv
<1>4. \A g \in Forwarders : /\ pc'[g] = IF g = f THEN "connect" ELSE pc[g]
                            /\ msg'[g] = msg[g]
                            /\ holds'[g] = IF g = f THEN {} ELSE holds[g]
    BY <1>1 DEF ThreadInv, QueueInv, Discard, Drop
<1>5. ThreadInv'
  <2>1. /\ pc' \in [Forwarders -> {"idle", "remove", "connect", "open", "send",
                                    "requeue", "publish"}]
        /\ UNCHANGED <<up, submitted, msg>>
      BY DEF ThreadInv, Discard
  <2>2. \A g \in Forwarders : InHand(g)' <=> g = f \/ InHand(g)
      BY <1>4 DEF InHand
  <2>3. \A g \in Forwarders \ {f} : InHand(g) => msg[g] # m
      BY <1>3 DEF ThreadInv
  <2> QED BY <1>1, <1>2, <1>4, <2>1, <2>2, <2>3 DEF ThreadInv
<1>6. RestTypeOK' BY DEF RestTypeOK
<1>7. \A n \in Msgs : Pending(n)' <=> Pending(n)
    BY <1>1, <1>2, <1>3, <1>4 DEF Pending, InHand
<1>8. Accounts' BY <1>7, AccountsKept DEF ThreadInv
<1> QED BY <1>2, <1>5, <1>6, <1>8

(* An attempt: the thread goes on with its message, or is done with it.    *)
LEMMA GoesOnInv ==
    ASSUME Inv, NEW f \in Forwarders, InHand(f), Attempt, UNCHANGED <<msg, refused, errors>>,
           NEW l \in {"open", "send", "requeue"}, Goto(f, l), faults' \in 0 .. MaxFaults,
           label' \in [Msgs -> {"url", "own"}],
           \/ UNCHANGED <<delivered, unanswered>>
           \/ /\ Deliver(msg[f])
              /\ unanswered' = [unanswered EXCEPT ![msg[f]] = @ + 1]
    PROVE  Inv'
<1> USE DEF Inv, Attempt, Goto, queueVars
<1>1. QueueInv' BY SameQueue
<1>2. \A g \in Forwarders : pc'[g] = IF g = f THEN l ELSE pc[g]
    BY DEF ThreadInv
<1>3. \A g \in Forwarders : InHand(g)' <=> InHand(g)
    BY <1>2 DEF InHand
<1>4. ThreadInv'
  <2>1. /\ pc' \in [Forwarders -> {"idle", "remove", "connect", "open", "send",
                                    "requeue", "publish"}]
        /\ \A g \in Forwarders : /\ pc'[g] = "idle" <=> pc[g] = "idle"
                                 /\ pc'[g] \in {"remove", "publish"}
                                       <=> pc[g] \in {"remove", "publish"}
      BY <1>2 DEF ThreadInv, InHand
  <2> QED BY <1>3, <2>1 DEF ThreadInv
<1>5. \A n \in Msgs : Pending(n)' <=> Pending(n)
    BY <1>3 DEF Pending
<1>6. CASE UNCHANGED <<delivered, unanswered>>
  <2>1. RestTypeOK' BY <1>6 DEF RestTypeOK
  <2>2. Accounts' BY <1>5, <1>6, AccountsKept DEF ThreadInv
  <2> QED BY <1>1, <1>4, <2>1, <2>2
<1>7. CASE /\ Deliver(msg[f])
           /\ unanswered' = [unanswered EXCEPT ![msg[f]] = @ + 1]
  <2>1. PICK m \in Msgs : m = msg[f] /\ m \in submitted BY DEF ThreadInv, InHand
  <2>2. delivered' = [delivered EXCEPT ![m] = @ + 1]
        /\ unanswered' = [unanswered EXCEPT ![m] = @ + 1]
      BY <1>7, <2>1 DEF Deliver
  <2>3. RestTypeOK' BY <2>2 DEF RestTypeOK
  <2>4. \A n \in Msgs : /\ delivered'[n] = IF n = m THEN delivered[n] + 1 ELSE delivered[n]
                        /\ unanswered'[n] = IF n = m THEN unanswered[n] + 1 ELSE unanswered[n]
                        /\ delivered[n] \in Nat /\ unanswered[n] \in Nat
      BY <2>2 DEF RestTypeOK
  <2>5. Accounted'
      BY <1>5, <2>4 DEF Accounts, Accounted, ThreadInv
  <2>6. AtMostOnce'
    <3> SUFFICES ASSUME NEW n \in Msgs
                 PROVE  delivered'[n] + (IF Pending(n)' THEN 1 ELSE 0) <= 1 + unanswered'[n]
        BY DEF AtMostOnce
    <3>1. delivered[n] + (IF Pending(n) THEN 1 ELSE 0) <= 1 + unanswered[n]
        BY DEF Accounts, AtMostOnce
    <3> QED BY ONLY <1>5, <2>4, <3>1
  <2>7. \A n \in Msgs \ submitted : delivered'[n] = 0
      BY <2>1, <2>4 DEF Accounts
  <2>8. Accounts' BY <2>5, <2>6, <2>7 DEF Accounts
  <2> QED BY <1>1, <1>4, <2>3, <2>8
<1> QED BY <1>6, <1>7

(* The thread leaves its message.                                          *)
LEMMA LeaveThreads ==
    ASSUME Inv, NEW f \in Forwarders, InHand(f), Leave(f), UNCHANGED <<queueVars, submitted>>
    PROVE  /\ QueueInv' /\ ThreadInv'
           /\ \E m \in submitted : /\ m = msg[f] /\ m \in Msgs
                                   /\ Pending(m) /\ ~Pending(m)'
                                   /\ \A n \in Msgs \ {m} : Pending(n)' <=> Pending(n)
<1> USE DEF Inv, Leave, Goto, queueVars
<1>1. QueueInv' BY SameQueue
<1>2. \A g \in Forwarders : /\ pc'[g] = IF g = f THEN "idle" ELSE pc[g]
                            /\ msg'[g] = IF g = f THEN None ELSE msg[g]
    BY DEF ThreadInv
<1>3. \A g \in Forwarders : InHand(g)' <=> g # f /\ InHand(g)
    BY <1>2 DEF InHand
<1>4. ThreadInv'
  <2>1. /\ pc' \in [Forwarders -> {"idle", "remove", "connect", "open", "send",
                                    "requeue", "publish"}]
        /\ msg' \in [Forwarders -> Msgs \cup {None}]
        /\ pc[f] \notin {"remove", "publish"}
      BY DEF ThreadInv, InHand
  <2> QED BY <1>2, <1>3, <2>1 DEF ThreadInv
<1>5. PICK m \in submitted : m = msg[f] /\ m \in Msgs
    BY DEF ThreadInv, InHand
<1>6. Pending(m) BY <1>5 DEF Pending
<1>7. ~Pending(m)' BY <1>2, <1>3, <1>5 DEF Pending, ThreadInv
<1>8. \A n \in Msgs \ {m} : Pending(n)' <=> Pending(n)
    BY <1>2, <1>3, <1>5 DEF Pending
<1> QED BY <1>1, <1>4, <1>5, <1>6, <1>7, <1>8

LEMMA LeavesInv ==
    ASSUME Inv, NEW f \in Forwarders, InHand(f), Attempt, UNCHANGED <<label, unanswered>>,
           \/ Refuse(f) /\ UNCHANGED delivered
           \/ /\ Deliver(msg[f]) /\ Leave(f) /\ NoFault
              /\ UNCHANGED <<refused, errors>>
    PROVE  Inv'
<1>1. Leave(f) /\ UNCHANGED <<queueVars, submitted, reachable, sending, reported, lost, faults>>
    BY DEF Attempt, Refuse, NoFault
<1>2. QueueInv' /\ ThreadInv' BY <1>1, LeaveThreads
<1>3. PICK m \in submitted : /\ m = msg[f] /\ m \in Msgs
                             /\ Pending(m) /\ ~Pending(m)'
                             /\ \A n \in Msgs \ {m} : Pending(n)' <=> Pending(n)
    BY <1>1, LeaveThreads
<1>4. \/ /\ refused' = refused \cup {m}
         /\ errors' = IF m \in Replying THEN errors \cup {m} ELSE errors
         /\ UNCHANGED delivered
      \/ Deliver(m) /\ UNCHANGED <<refused, errors>>
    BY <1>3 DEF Refuse
<1>5. RestTypeOK' BY <1>1, <1>3, <1>4 DEF Inv, RestTypeOK, Deliver
<1>6. Accounts' BY <1>1, <1>3, <1>4, AccountClosed DEF Inv, ThreadInv
<1> QED BY <1>2, <1>5, <1>6 DEF Inv

LEMMA TriesInv ==
    ASSUME Inv, NEW f \in Forwarders, Connect(f) \/ OpenQueue(f) \/ EnqueueForward(f)
    PROVE  Inv'
<1>1. InHand(f) /\ Attempt
    BY DEF Connect, OpenQueue, EnqueueForward, At, InHand
<1>2. msg[f] \in Msgs BY <1>1 DEF Inv, ThreadInv, InHand
<1>3. ASSUME TryAgain(f)
      PROVE  /\ Goto(f, "requeue") /\ faults' \in 0 .. MaxFaults
             /\ UNCHANGED <<msg, refused, errors>>
    BY <1>3, ForwardingAssumption DEF TryAgain, Fault, NoFault, Inv, RestTypeOK
<1>4. ASSUME NEW l, GoOn(f, l)
      PROVE  /\ Goto(f, l) /\ faults' \in 0 .. MaxFaults
             /\ UNCHANGED <<msg, refused, errors>>
    BY <1>4 DEF GoOn, NoFault, Inv, RestTypeOK
<1>5. label' \in [Msgs -> {"url", "own"}]
    BY <1>2 DEF Connect, OpenQueue, EnqueueForward, Inv, RestTypeOK
<1>6. CASE Connect(f)
  <2>1. UNCHANGED <<delivered, unanswered, label>> BY <1>6 DEF Connect
  <2>2. GoOn(f, "open") \/ Refuse(f) \/ TryAgain(f) BY <1>6 DEF Connect
  <2> QED BY <1>1, <1>3, <1>4, <1>5, <2>1, <2>2, GoesOnInv, LeavesInv
<1>7. CASE OpenQueue(f)
  <2>1. UNCHANGED <<delivered, unanswered>> BY <1>7 DEF OpenQueue
  <2>2. \/ GoOn(f, "send")
        \/ (Refuse(f) \/ TryAgain(f)) /\ UNCHANGED label
      BY <1>7 DEF OpenQueue
  <2> QED BY <1>1, <1>3, <1>4, <1>5, <2>1, <2>2, GoesOnInv, LeavesInv
<1>8. CASE EnqueueForward(f)
  <2>1. \/ /\ Deliver(msg[f]) /\ Leave(f) /\ NoFault
           /\ UNCHANGED <<unanswered, refused, errors>>
        \/ /\ Deliver(msg[f]) /\ TryAgain(f)
           /\ unanswered' = [unanswered EXCEPT ![msg[f]] = @ + 1]
        \/ (Refuse(f) \/ TryAgain(f)) /\ UNCHANGED <<delivered, unanswered>>
      BY <1>8 DEF EnqueueForward
  <2>2. UNCHANGED label BY <1>8 DEF EnqueueForward
  <2> QED BY <1>1, <1>3, <1>5, <2>1, <2>2, GoesOnInv, LeavesInv
<1> QED BY <1>6, <1>7, <1>8

LEMMA EnqueueInv ==
    ASSUME Inv, NEW f \in Forwarders, Enqueue(f)
    PROVE  Inv'
<1> USE ForwardingAssumption DEF Inv
<1>1. /\ pc[f] = "requeue" /\ InHand(f)
      /\ UNCHANGED <<submitted, reachable, delivered, unanswered, refused, errors,
                     sending, reported>>
    BY DEF Enqueue, At, InHand, farVars, reportVars
<1>2. PICK m \in submitted : m = msg[f] /\ m \in Msgs BY <1>1 DEF ThreadInv
<1>3. label' \in [Msgs -> {"url", "own"}] BY <1>2 DEF Enqueue, RestTypeOK
<1>4. CASE Store(f, m) /\ Goto(f, "publish") /\ NoFault /\ UNCHANGED <<msg, lost>>
  <2>1. QueueInv' /\ Range(accepted') = Range(accepted) \cup {m} BY <1>2, <1>4, StoreInv
  <2>2. \A g \in Forwarders : /\ pc'[g] = IF g = f THEN "publish" ELSE pc[g]
                              /\ holds'[g] = IF g = f THEN {m} ELSE holds[g]
      BY <1>1, <1>4 DEF Store, Hold, Goto, QueueInv, ThreadInv
  <2>3. \A g \in Forwarders : InHand(g)' <=> g # f /\ InHand(g)
      BY <2>2 DEF InHand
  <2>4. ThreadInv'
    <3>1. /\ pc' \in [Forwarders -> {"idle", "remove", "connect", "open", "send",
                                      "requeue", "publish"}]
          /\ up' = up /\ up
        BY <1>4 DEF ThreadInv, Goto, Store
    <3>2. \A g \in Forwarders \ {f} : InHand(g) => msg[g] # m
        BY <1>1, <1>2 DEF ThreadInv
    <3> QED BY <1>1, <1>2, <1>4, <2>1, <2>2, <2>3, <3>1, <3>2 DEF ThreadInv
  <2>5. RestTypeOK' BY <1>1, <1>3, <1>4 DEF RestTypeOK, NoFault
  <2>6. \A n \in Msgs : Pending(n)' <=> Pending(n)
      BY <1>1, <1>2, <1>4, <2>1, <2>3 DEF Pending
  <2>7. Accounts' BY <1>1, <1>4, <2>6, AccountsKept DEF ThreadInv
  <2> QED BY <2>1, <2>4, <2>5, <2>7
<1>5. CASE Leave(f) /\ Fault /\ lost' = lost \cup {m} /\ UNCHANGED queueVars
  <2>1. QueueInv' /\ ThreadInv' BY <1>1, <1>5, LeaveThreads
  <2>2. /\ Pending(m) /\ ~Pending(m)'
        /\ \A n \in Msgs \ {m} : Pending(n)' <=> Pending(n)
      BY <1>1, <1>2, <1>5, LeaveThreads
  <2>3. RestTypeOK' BY <1>1, <1>3, <1>5 DEF RestTypeOK, Fault
  <2>4. Accounts' BY <1>1, <1>5, <2>2, AccountClosed DEF ThreadInv
  <2> QED BY <2>1, <2>3, <2>4
<1> QED BY <1>2, <1>4, <1>5 DEF Enqueue

LEMMA FinalizeEnqueueInv ==
    ASSUME Inv, NEW f \in Forwarders, FinalizeEnqueue(f)
    PROVE  Inv'
<1> USE ForwardingAssumption
        DEF Inv, FinalizeEnqueue, farVars, reportVars, At, Goto, Leave
<1>1. QueueInv' BY ReleaseInv
<1>2. UNCHANGED <<accepted, up>> BY DEF Release
<1>3. \A g \in Forwarders : /\ pc'[g] = IF g = f THEN "idle" ELSE pc[g]
                            /\ msg'[g] = IF g = f THEN None ELSE msg[g]
                            /\ holds'[g] = IF g = f THEN {} ELSE holds[g]
    BY DEF Release, Drop, ThreadInv, QueueInv
<1>4. \A g \in Forwarders : /\ InHand(g)' <=> InHand(g)
                            /\ InHand(g) => g # f
    BY <1>3 DEF InHand
<1>5. ThreadInv'
  <2>1. /\ pc' \in [Forwarders -> {"idle", "remove", "connect", "open", "send",
                                    "requeue", "publish"}]
        /\ msg' \in [Forwarders -> Msgs \cup {None}]
      BY DEF ThreadInv
  <2> QED BY <1>2, <1>3, <1>4, <2>1 DEF ThreadInv
<1>6. RestTypeOK' BY DEF RestTypeOK
<1>7. \A n \in Msgs : Pending(n)' <=> Pending(n)
    BY <1>2, <1>3, <1>4 DEF Pending
<1>8. Accounts' BY <1>7, AccountsKept DEF ThreadInv
<1> QED BY <1>1, <1>5, <1>6, <1>8
-----------------------------------------------------------------------------
(* What leaves the queue and the threads alone.                            *)
LEMMA SameThreads ==
    ASSUME Inv, UNCHANGED <<queueVars, submitted, threadVars>>
    PROVE  /\ QueueInv' /\ ThreadInv' /\ label' = label
           /\ \A n \in Msgs : Pending(n)' <=> Pending(n)
<1> USE DEF Inv, queueVars, threadVars
<1>1. QueueInv' BY SameQueue
<1>2. ThreadInv' BY DEF ThreadInv, InHand
<1>3. \A n \in Msgs : Pending(n)' <=> Pending(n) BY DEF Pending, InHand
<1> QED BY <1>1, <1>2, <1>3

LEMMA DeliveryInv ==
    ASSUME Inv, PopError \/ SendError
    PROVE  Inv'
<1>1. UNCHANGED <<queueVars, submitted, threadVars, reachable, farVars>>
    BY DEF PopError, SendError
<1>2. /\ QueueInv' /\ ThreadInv' /\ label' = label
      /\ \A n \in Msgs : Pending(n)' <=> Pending(n)
    BY <1>1, SameThreads
<1>3. RestTypeOK'
    BY <1>1, <1>2, ForwardingAssumption
       DEF Inv, RestTypeOK, farVars, PopError, SendError, Fault, NoFault, ThreadInv
<1>4. Accounted'
  <2> SUFFICES ASSUME NEW m \in submitted
               PROVE  /\ Pending(m)' \/ delivered[m] > 0 \/ m \in refused \cup lost'
                      /\ m \in refused \cap Replying =>
                            m \in errors' \cup {sending'} \cup reported' \cup lost'
      BY <1>1 DEF Accounted, farVars
  <2>1. m \in Msgs /\ m # None BY ForwardingAssumption DEF Inv, ThreadInv
  <2>2. /\ lost \subseteq lost'
        /\ m \in errors \cup {sending} \cup reported =>
              m \in errors' \cup {sending'} \cup reported' \cup lost'
      BY <2>1 DEF PopError, SendError
  <2> QED BY <1>2, <2>1, <2>2 DEF Inv, Accounts, Accounted
<1>5. AtMostOnce' BY <1>1, <1>2 DEF Inv, Accounts, AtMostOnce, farVars
<1>6. Accounts' BY <1>1, <1>4, <1>5 DEF Inv, Accounts, farVars
<1> QED BY <1>2, <1>3, <1>6 DEF Inv

LEMMA CrashInv == Inv /\ Crash => Inv'
<1> SUFFICES ASSUME Inv, Crash PROVE Inv' OBVIOUS
<1> USE ForwardingAssumption DEF Inv, Crash, farVars
<1>1. QueueInv' BY DownInv
<1>2. accepted' = accepted /\ holds' = [s \in Sessions |-> {}] BY DEF Down
<1>3. ThreadInv' BY <1>2 DEF ThreadInv, InHand
<1>4. \A n \in Msgs :
          /\ Pending(n)' <=> n \in Range(accepted)
          /\ Pending(n) => Pending(n)' \/ n \in lost'
    BY <1>2 DEF Pending, InHand
<1>5. lost' \subseteq submitted
  <2>1. errors \subseteq submitted /\ {sending} \ {None} \subseteq submitted
      BY DEF RestTypeOK
  <2>2. {msg[f] : f \in {g \in Forwarders : InHand(g)}} \subseteq submitted
      BY DEF ThreadInv, InHand
  <2> QED BY <2>1, <2>2 DEF RestTypeOK
<1>6. RestTypeOK' BY <1>5 DEF RestTypeOK, Fault
<1>7. Accounted'
  <2> SUFFICES ASSUME NEW m \in submitted
               PROVE  /\ Pending(m)' \/ delivered[m] > 0 \/ m \in refused \cup lost'
                      /\ m \in refused \cap Replying => m \in reported \cup lost'
      BY DEF Accounted
  <2>1. m \in Msgs /\ m # None BY DEF ThreadInv
  <2>2. lost \cup errors \cup ({sending} \ {None}) \subseteq lost' OBVIOUS
  <2> QED BY <1>4, <2>1, <2>2 DEF Accounts, Accounted
<1>8. AtMostOnce'
  <2> SUFFICES ASSUME NEW m \in Msgs
               PROVE  delivered[m] + (IF Pending(m)' THEN 1 ELSE 0) <= 1 + unanswered[m]
      BY DEF AtMostOnce
  <2>1. delivered[m] + (IF Pending(m) THEN 1 ELSE 0) <= 1 + unanswered[m]
      BY DEF Accounts, AtMostOnce
  <2>2. Pending(m)' => Pending(m) BY <1>4 DEF Pending
  <2>3. delivered[m] \in Nat /\ unanswered[m] \in Nat BY DEF RestTypeOK
  <2> QED BY <2>1, <2>2, <2>3
<1>9. Accounts' BY <1>7, <1>8 DEF Accounts
<1> QED BY <1>1, <1>3, <1>6, <1>9

LEMMA StartAgainInv == Inv /\ StartAgain => Inv'
<1> SUFFICES ASSUME Inv, StartAgain PROVE Inv' OBVIOUS
<1> USE DEF Inv, StartAgain, threadVars, farVars, reportVars
<1>1. QueueInv' BY RestartInv
<1>2. UNCHANGED <<accepted, holds>> /\ ~up BY DEF Restart
<1>3. ThreadInv' BY <1>2 DEF ThreadInv, InHand
<1>4. RestTypeOK' BY DEF RestTypeOK
<1>5. \A n \in Msgs : Pending(n)' <=> Pending(n) BY <1>2 DEF Pending, InHand
<1>6. Accounts' BY <1>5, AccountsKept DEF ThreadInv
<1> QED BY <1>1, <1>3, <1>4, <1>6

LEMMA NetworkInv ==
    ASSUME Inv, NEW m \in Msgs, CutOff(m) \/ ComeBack(m)
    PROVE  Inv'
<1>1. UNCHANGED <<queueVars, submitted, threadVars, farVars, reportVars, lost>>
    BY DEF CutOff, ComeBack
<1>2. /\ QueueInv' /\ ThreadInv' /\ label' = label
      /\ \A n \in Msgs : Pending(n)' <=> Pending(n)
    BY <1>1, SameThreads
<1>3. RestTypeOK'
    BY <1>1, <1>2, ForwardingAssumption
       DEF Inv, RestTypeOK, farVars, reportVars, CutOff, ComeBack, Fault
<1>4. Accounts' BY <1>1, <1>2, AccountsKept DEF Inv, ThreadInv, farVars, reportVars
<1> QED BY <1>2, <1>3, <1>4 DEF Inv
-----------------------------------------------------------------------------
LEMMA StepInv == Inv /\ [ForwardNext]_forwardVars => Inv'
<1> SUFFICES ASSUME Inv, [ForwardNext]_forwardVars PROVE Inv' OBVIOUS
<1>1. ASSUME NEW f \in Forwarders, ForwarderNext(f) PROVE Inv'
    BY <1>1, BeginRetrieveInv, FinalizeRetrieveInv, TriesInv, EnqueueInv,
       FinalizeEnqueueInv DEF ForwarderNext
<1>2. CASE UNCHANGED forwardVars
  <2>1. UNCHANGED <<queueVars, submitted, threadVars, reachable, delivered, unanswered,
                    refused, errors, sending, reported, lost, faults>>
      BY <1>2 DEF forwardVars, farVars, reportVars
  <2>2. /\ QueueInv' /\ ThreadInv' /\ label' = label
        /\ \A n \in Msgs : Pending(n)' <=> Pending(n)
      BY <2>1, SameThreads
  <2>3. RestTypeOK' BY <2>1, <2>2 DEF Inv, RestTypeOK
  <2>4. Accounts' BY <2>1, <2>2, AccountsKept DEF Inv, ThreadInv
  <2> QED BY <2>2, <2>3, <2>4 DEF Inv
<1> QED BY <1>1, <1>2, SubmitInv, CommitInv, DeliveryInv, CrashInv, StartAgainInv,
           NetworkInv DEF ForwardNext

THEOREM Invariance == ForwardSpec => []Inv
    BY InitInv, StepInv, PTL DEF ForwardSpec

(* The threads hold what they are removing or publishing, and no variable  *)
(* leaves its range.                                                       *)
THEOREM ForwardTypeCorrect == ForwardSpec => []ForwardTypeOK
<1>1. Inv => ForwardTypeOK
  <2> SUFFICES ASSUME Inv PROVE ForwardTypeOK OBVIOUS
  <2>1. Range(accepted) \subseteq Msgs /\ ready \subseteq Range(accepted)
      BY DEF Inv, ThreadInv, QueueInv
  <2>2. sending \in (refused \cap Replying) \cup {None} BY DEF Inv, RestTypeOK
  <2> QED BY <2>1, <2>2 DEF Inv, ThreadInv, QueueInv, RestTypeOK, ForwardTypeOK
<1> QED BY <1>1, Invariance, PTL

(* ForwardThread and SystemDelivery never just drop a message or an error: *)
(* what did not arrive and is not on its way was refused or lost to a      *)
(* fault.                                                                  *)
THEOREM NothingDisappears == ForwardSpec => []Accounted
<1>1. Inv => Accounted BY DEF Inv, Accounts
<1> QED BY <1>1, Invariance, PTL

(* Without a lost answer no message arrives twice.                         *)
THEOREM NoMoreThanLostAnswers == ForwardSpec => []AtMostOnce
<1>1. Inv => AtMostOnce BY DEF Inv, Accounts
<1> QED BY <1>1, Invariance, PTL
=============================================================================
