----------------------- MODULE ClientConnectionProofs -----------------------
(***************************************************************************)
(* Proofs about ClientConnection, for any number of clients, messages and  *)
(* handles: what a client may conclude from the results of its calls.      *)
(*                                                                         *)
(* The invariant says, of each session, what is written in its books while *)
(* each call is served, and keeps the sessions apart: no message has two   *)
(* senders, and no removal is reported twice.  A step of one session then  *)
(* leaves the others in order (Bystander), and what remains to be shown of *)
(* it is the session itself.                                               *)
(***************************************************************************)
EXTENDS ClientConnection, MessageQueueProofs

Functions ==
    {"none", "open", "close", "enqueue", "retrieve", "ack", "begin", "commit", "rollback", "end"}
Ending == {"commit", "end"}
Stages == {"none", "request", "publish", "send", "entries", "response"}
Pairs  == Handles \X Msgs
Calls  == [fn : Functions, handle : 0 .. MaxHandle, msg : Msgs \cup {None}]
Exchanges == [at : Stages, cmd : Functions, handle : 0 .. MaxHandle,
              msg : Msgs \cup {None}, ok : BOOLEAN]
EntryRecords == [handle : Handles, msg : Msgs,
                 kind : {"enqueue", "retrieve"}, commitable : BOOLEAN]
Views == [began : BOOLEAN, handles : SUBSET Handles,
          pending : SUBSET Pairs, claims : SUBSET Pairs]
OutcomeValues == {"new", "calling", "pending", "kept", "withdrawn", "doubt"}

StateTypeOK ==
    /\ linked \in [Sessions -> BOOLEAN]
    /\ thread \in [Sessions -> {"none", "running", "ending"}]
    /\ call \in [Sessions -> Calls]
    /\ exchange \in [Sessions -> Exchanges]
    /\ opened \in [Sessions -> SUBSET Handles]
    /\ entries \in [Sessions -> SUBSET EntryRecords]
    /\ inTransaction \in [Sessions -> BOOLEAN]
    /\ view \in [Sessions -> Views]
    /\ outcome \in [Msgs -> OutcomeValues]
    /\ owned \in [Msgs -> Nat] /\ received \subseteq Msgs

Kept == Range(accepted) \cup received

Pending(p) == Entry(p[1], p[2], "enqueue", TRUE)
Claim(p)   == Entry(p[1], p[2], "retrieve", TRUE)
Expected(s) == {Pending(p) : p \in view[s].pending} \cup {Claim(p) : p \in view[s].claims}

Mine(s) == {m \in Msgs : \/ call[s].fn = "enqueue" /\ call[s].msg = m
                         \/ exchange[s].cmd = "enqueue" /\ exchange[s].msg = m
                         \/ \E p \in view[s].pending : p[2] = m
                         \/ \E e \in entries[s] : e.kind = "enqueue" /\ e.msg = m}

Gained(s) == {m \in Msgs : \/ /\ call[s].fn \in Ending
                              /\ \E p \in view[s].claims : p[2] = m /\ Claim(p) \notin entries[s]
                           \/ /\ call[s].fn = "ack" /\ exchange[s].at = "response"
                              /\ ~inTransaction[s] /\ call[s].msg = m}

Lifeline(s) ==
    /\ linked[s] => thread[s] = "running"
    /\ ~linked[s] => /\ call[s] = NoCall /\ exchange[s].at # "response"
                     /\ ~view[s].began /\ view[s].handles = {} /\ view[s].claims = {}
                     /\ exchange[s].cmd \in Ending => view[s].pending = {}
    /\ thread[s] # "running" => exchange[s] = Silence
    /\ thread[s] = "none" => /\ opened[s] = {} /\ entries[s] = {} /\ ~inTransaction[s]
                             /\ view[s].pending = {}

InHand(s) ==
    LET x == exchange[s] IN
    /\ x.at = "none" => x = Silence
    /\ x.at # "none" => x.cmd # "none"
    /\ x.at = "publish" => x.cmd = "enqueue"
    /\ x.at = "send" => x.cmd = "retrieve"
    /\ x.at = "entries" => x.cmd \in {"commit", "rollback", "end"} /\ inTransaction[s]
    /\ x.at \in {"publish", "send"} => /\ x.handle \in opened[s] /\ x.msg \in holds[s]
                                       /\ \A e \in entries[s] : e.msg # x.msg
    /\ x.cmd = "enqueue" => x.msg \in Msgs
    /\ x.cmd = "enqueue" /\ x.at = "request" => x.msg \notin Kept
    /\ x.at = "publish" => x.msg \notin received
    /\ x.cmd = "ack" => x.msg \in received

Books(s) ==
    /\ \A m \in holds[s] : \/ \E e \in entries[s] : e.msg = m
                           \/ exchange[s].at \in {"publish", "send"} /\ exchange[s].msg = m
    /\ \A e, f \in entries[s] : e.msg = f.msg => e = f
    /\ \A e \in entries[s] :
          /\ e.handle \in opened[s] /\ e.msg \in holds[s]
          /\ e.kind = "enqueue" => e.commitable /\ e.msg \notin received
          /\ e.kind = "retrieve" /\ e.commitable => e.msg \in received

Sender(s) ==
    /\ call[s].fn = "enqueue" => call[s].msg \in Msgs /\ outcome[call[s].msg] = "calling"
    /\ exchange[s].cmd = "enqueue" => outcome[exchange[s].msg] \in {"calling", "doubt"}
    /\ \A p \in view[s].pending : outcome[p[2]] = "pending"
    /\ \A e \in entries[s] : e.kind = "enqueue" => outcome[e.msg] \in {"calling", "pending", "doubt"}
    /\ \A p, q \in view[s].pending : p[2] = q[2] => p = q
    /\ \A p \in view[s].pending :
          Pending(p) \notin entries[s] => (p[2] \in Kept <=> call[s].fn \in Ending)

Winner(s) == \A m \in Gained(s) : m \notin Range(accepted) /\ m \in received /\ owned[m] = 0

Responded(s, fn) == call[s].fn = fn /\ exchange[s].at = "response"
Dialogue(s) ==
    LET c == call[s]
        x == exchange[s]
        v == view[s] IN
    linked[s] =>
    /\ c.fn = "none" => c = NoCall /\ x = Silence
    /\ c.fn # "none" => x.at # "none" /\ x.cmd = c.fn
    /\ c.fn \in {"open"} \/ x.handle = c.handle
    /\ c.fn \in {"enqueue", "ack"} => x.msg = c.msg
    /\ c.fn = "ack" => c.msg \in received
    /\ \A p \in v.pending \cup v.claims : p[1] \in v.handles
    /\ ~v.began => v.pending = {} /\ v.claims = {}
    /\ inTransaction[s] = (Responded(s, "begin") \/ (v.began /\ ~Responded(s, "end")))
    /\ opened[s] = IF Responded(s, "open") /\ x.ok THEN v.handles \cup {x.handle}
                   ELSE IF Responded(s, "close") /\ x.ok THEN v.handles \ {c.handle}
                   ELSE v.handles
    /\ Responded(s, "enqueue") => (x.ok /\ ~inTransaction[s] => c.msg \in Kept)
                               /\ (~x.ok => c.msg \notin Kept)
    /\ Responded(s, "retrieve") /\ x.ok => x.msg \in Msgs
    /\ Responded(s, "ack") => x.ok

Ledger(s) ==
    LET c == call[s]
        x == exchange[s]
        expected == Expected(s) IN
    linked[s] =>
    /\ c.fn \in {"none", "open", "begin"} => entries[s] = expected
    /\ c.fn = "enqueue" =>
          entries[s] = IF x.at = "response" /\ x.ok /\ inTransaction[s]
                       THEN expected \cup {Entry(c.handle, c.msg, "enqueue", TRUE)}
                       ELSE expected
    /\ c.fn = "retrieve" =>
          entries[s] = IF x.at = "response" /\ x.ok
                       THEN expected \cup {Entry(c.handle, x.msg, "retrieve", FALSE)}
                       ELSE expected
    /\ c.fn = "ack" =>
          entries[s] = IF x.at = "request"
                       THEN expected \cup {Entry(c.handle, c.msg, "retrieve", FALSE)}
                       ELSE IF inTransaction[s]
                       THEN expected \cup {Entry(c.handle, c.msg, "retrieve", TRUE)}
                       ELSE expected
    /\ c.fn = "close" =>
          /\ entries[s] \subseteq expected
          /\ \A e \in expected : e.handle # c.handle => e \in entries[s]
          /\ x.at = "response" =>
                IF x.ok THEN \A e \in entries[s] : e.handle # c.handle
                ELSE entries[s] = expected
    /\ c.fn \in {"commit", "end", "rollback"} =>
          /\ entries[s] \subseteq expected
          /\ x.at = "request" => entries[s] = expected
          /\ x.at = "response" => entries[s] = {}

SessionInv(s) ==
    Lifeline(s) /\ InHand(s) /\ Books(s) /\ Sender(s) /\ Winner(s) /\ Dialogue(s) /\ Ledger(s)

Outcomes ==
    \A m \in Msgs : /\ outcome[m] \in {"new", "withdrawn"} => m \notin Kept
                    /\ outcome[m] = "kept" => m \in Kept
                    /\ owned[m] > 0 => owned[m] = 1 /\ m \notin Range(accepted) /\ m \in received
Apart == \A s, t \in Sessions : s # t => /\ Mine(s) \cap Mine(t) = {}
                                         /\ Gained(s) \cap Gained(t) = {}

Inv == QueueInv /\ StateTypeOK /\ (\A s \in Sessions : SessionInv(s)) /\ Outcomes /\ Apart
-----------------------------------------------------------------------------
(* What a step of the session s leaves as it is for another one.           *)
SameAt(t) ==
    /\ linked'[t] = linked[t] /\ call'[t] = call[t] /\ exchange'[t] = exchange[t]
    /\ thread'[t] = thread[t] /\ opened'[t] = opened[t] /\ entries'[t] = entries[t]
    /\ inTransaction'[t] = inTransaction[t] /\ view'[t] = view[t]
    /\ holds'[t] = holds[t]

(* What the step may do to what the sessions share: it decides about the   *)
(* messages of its own client, receives what it holds, and removes.        *)
OwnAffairs(s) ==
    /\ \A t \in Sessions \ {s} : SameAt(t)
    /\ \A m \in Msgs \ (Mine(s) \cup Mine(s)') :
          outcome'[m] = outcome[m] /\ (m \in Kept' <=> m \in Kept)
    /\ \A m \in Msgs \ Gained(s) : owned'[m] = owned[m]
    /\ received \subseteq received' /\ received' \subseteq received \cup holds[s]
    /\ \A m \in received : m \in Range(accepted') => m \in Range(accepted)
    /\ \A m \in Mine(s)' : m \in Mine(s) \/ outcome[m] = "new"
    /\ \A m \in Gained(s)' : m \in Gained(s) \/ m \in Range(accepted)

OutcomeFits(m) == /\ outcome[m] \in {"new", "withdrawn"} => m \notin Kept
                  /\ outcome[m] = "kept" => m \in Kept
OwnedFits(m) == owned[m] > 0 => owned[m] = 1 /\ m \notin Range(accepted) /\ m \in received

LEMMA SameSets ==
    ASSUME NEW t \in Sessions, SameAt(t)
    PROVE  Expected(t)' = Expected(t) /\ Mine(t)' = Mine(t) /\ Gained(t)' = Gained(t)
BY DEF SameAt, Expected, Mine, Gained, Pending, Claim

(* A message of a client is not new, and its outcome is not decided.       *)
LEMMA MineUndecided ==
    ASSUME StateTypeOK, NEW s \in Sessions, Sender(s), NEW m \in Mine(s)
    PROVE  outcome[m] \in {"calling", "pending", "doubt"}
BY DEF Sender, Mine

LEMMA Bystander ==
    ASSUME Inv, NEW s \in Sessions, OwnAffairs(s), NEW t \in Sessions \ {s}
    PROVE  SessionInv(t)'
<1>1. SessionInv(t) /\ SameAt(t)
    BY DEF Inv, OwnAffairs
<1>2. Expected(t)' = Expected(t) /\ Mine(t)' = Mine(t) /\ Gained(t)' = Gained(t)
    BY <1>1, SameSets
<1>3. ASSUME NEW m \in Mine(t)
      PROVE  outcome'[m] = outcome[m] /\ (m \in Kept' <=> m \in Kept)
  <2>1. outcome[m] \in {"calling", "pending", "doubt"}
      BY <1>1, MineUndecided DEF Inv, SessionInv
  <2>2. m \in Msgs /\ m \notin Mine(s)
      BY DEF Inv, Apart, Mine
  <2>3. m \notin Mine(s)' BY <2>1, <2>2 DEF OwnAffairs
  <2> QED BY <2>2, <2>3 DEF OwnAffairs
<1>4. ASSUME NEW m \in holds[t]
      PROVE  m \in received' <=> m \in received
    BY DEF Inv, QueueInv, OwnAffairs
<1>5. Lifeline(t)'
    BY <1>1 DEF SessionInv, Lifeline, SameAt
<1>6. InHand(t)'
  <2>1. exchange[t].cmd = "enqueue" => exchange[t].msg \in Mine(t)
      BY <1>1 DEF SessionInv, InHand, Mine
  <2>2. exchange[t].cmd = "enqueue" =>
            (exchange[t].msg \in Kept' <=> exchange[t].msg \in Kept)
      BY <1>3, <2>1
  <2>3. exchange[t].at \in {"publish", "send"} => exchange[t].msg \in holds[t]
      BY <1>1 DEF SessionInv, InHand
  <2>4. exchange[t].at = "publish" =>
            (exchange[t].msg \in received' <=> exchange[t].msg \in received)
      BY <1>4, <2>3
  <2>5. received \subseteq received' BY DEF OwnAffairs
  <2> QED BY <1>1, <2>2, <2>4, <2>5 DEF SessionInv, InHand, SameAt
<1>7. Books(t)'
  <2>1. \A e \in entries[t] : e.msg \in received' <=> e.msg \in received
      BY <1>1, <1>4 DEF SessionInv, Books
  <2> QED BY <1>1, <2>1 DEF SessionInv, Books, SameAt
<1>8. Sender(t)'
  <2>1. /\ call[t].fn = "enqueue" => call[t].msg \in Mine(t)
        /\ exchange[t].cmd = "enqueue" => exchange[t].msg \in Mine(t)
      BY <1>1 DEF SessionInv, InHand, Sender, Mine
  <2>2. \A p \in view[t].pending : p[2] \in Mine(t)
    <3>1. \A p \in view[t].pending : p[2] \in Msgs BY DEF Inv, StateTypeOK, Pairs, Views
    <3> QED BY <3>1 DEF Mine
  <2>3. \A e \in entries[t] : e.kind = "enqueue" => e.msg \in Mine(t)
    <3>1. \A e \in entries[t] : e.msg \in Msgs BY DEF Inv, StateTypeOK, EntryRecords
    <3> QED BY <3>1 DEF Mine
  <2>4. /\ call[t].fn = "enqueue" => outcome'[call[t].msg] = outcome[call[t].msg]
        /\ exchange[t].cmd = "enqueue" => outcome'[exchange[t].msg] = outcome[exchange[t].msg]
      BY <1>3, <2>1
  <2>5. \A p \in view[t].pending : /\ outcome'[p[2]] = outcome[p[2]]
                                   /\ p[2] \in Kept' <=> p[2] \in Kept
      BY <1>3, <2>2
  <2>6. \A e \in entries[t] : e.kind = "enqueue" => outcome'[e.msg] = outcome[e.msg]
      BY <1>3, <2>3
  <2> QED BY <1>1, <2>4, <2>5, <2>6 DEF SessionInv, Sender, SameAt, Pending
<1>9. Winner(t)'
  <2> SUFFICES ASSUME NEW m \in Gained(t)
               PROVE  m \notin Range(accepted)' /\ m \in received' /\ owned'[m] = 0
      BY <1>2 DEF Winner
  <2>1. m \notin Range(accepted) /\ m \in received /\ owned[m] = 0
      BY <1>1 DEF SessionInv, Winner
  <2>2. m \in Msgs \ Gained(s) BY DEF Inv, Apart, Gained
  <2> QED BY <2>1, <2>2 DEF OwnAffairs
<1>10. Dialogue(t)'
  <2>1. Responded(t, "enqueue") /\ linked[t] => exchange[t].cmd = "enqueue" /\ call[t].msg \in Mine(t)
      BY <1>1 DEF SessionInv, Dialogue, Responded, Sender, Mine
  <2>2. Responded(t, "enqueue") /\ linked[t] => (call[t].msg \in Kept' <=> call[t].msg \in Kept)
      BY <1>3, <2>1
  <2>3. \A fn : Responded(t, fn)' = Responded(t, fn) BY <1>1 DEF Responded, SameAt
  <2>4. received \subseteq received' BY DEF OwnAffairs
  <2> QED BY <1>1, <2>2, <2>3, <2>4 DEF SessionInv, Dialogue, SameAt
<1>11. Ledger(t)'
    BY <1>1, <1>2 DEF SessionInv, Ledger, SameAt
<1> QED BY <1>5, <1>6, <1>7, <1>8, <1>9, <1>10, <1>11 DEF SessionInv
-----------------------------------------------------------------------------
LEMMA SessionStep ==
    ASSUME Inv, NEW s \in Sessions, OwnAffairs(s), QueueInv', StateTypeOK', SessionInv(s)',
           \A m \in Mine(s) \cup Mine(s)' : OutcomeFits(m)',
           \A m \in Gained(s) : OwnedFits(m)'
    PROVE  Inv'
<1>1. \A t \in Sessions : SessionInv(t)'
    BY Bystander
<1>2. Outcomes'
  <2> SUFFICES ASSUME NEW m \in Msgs PROVE OutcomeFits(m)' /\ OwnedFits(m)'
      BY DEF Outcomes, OutcomeFits, OwnedFits
  <2>1. OutcomeFits(m) /\ OwnedFits(m)
      BY DEF Inv, Outcomes, OutcomeFits, OwnedFits
  <2>2. OutcomeFits(m)'
      BY <2>1 DEF OwnAffairs, OutcomeFits
  <2>3. OwnedFits(m)'
      BY <2>1 DEF OwnAffairs, OwnedFits
  <2> QED BY <2>2, <2>3
<1>3. Apart'
  <2>1. \A t \in Sessions \ {s} : Mine(t)' = Mine(t) /\ Gained(t)' = Gained(t)
      BY SameSets DEF OwnAffairs
  <2>2. ASSUME NEW t \in Sessions \ {s}
        PROVE  Mine(s)' \cap Mine(t)' = {} /\ Gained(s)' \cap Gained(t)' = {}
    <3>1. \A m \in Mine(t) : outcome[m] # "new"
        BY MineUndecided DEF Inv, SessionInv
    <3>2. \A m \in Gained(t) : m \notin Range(accepted)
        BY DEF Inv, SessionInv, Winner
    <3> QED BY <2>1, <3>1, <3>2 DEF OwnAffairs, Inv, Apart
  <2>3. \A t, u \in Sessions \ {s} :
            t # u => Mine(t)' \cap Mine(u)' = {} /\ Gained(t)' \cap Gained(u)' = {}
      BY <2>1 DEF Inv, Apart
  <2> QED BY <2>2, <2>3 DEF Apart
<1> QED BY <1>1, <1>2, <1>3 DEF Inv

(* A step of which the queue and the messages do not notice anything.      *)
LEMMA QuietStep ==
    ASSUME Inv, NEW s \in Sessions, \A t \in Sessions \ {s} : SameAt(t),
           UNCHANGED <<accepted, ready, holds, up, outcome, owned, received>>,
           StateTypeOK', SessionInv(s)', Mine(s)' \subseteq Mine(s), Gained(s)' \subseteq Gained(s)
    PROVE  Inv'
<1>1. QueueInv' BY SameQueue DEF Inv
<1>2. OwnAffairs(s) BY DEF OwnAffairs, Kept
<1>3. \A m \in Mine(s) \cup Mine(s)' : OutcomeFits(m)'
    BY DEF Inv, Outcomes, OutcomeFits, Kept, Mine
<1>4. \A m \in Gained(s) : OwnedFits(m)'
    BY DEF Inv, Outcomes, OwnedFits, Gained
<1> QED BY <1>1, <1>2, <1>3, <1>4, SessionStep
-----------------------------------------------------------------------------
(* The client's side                                                       *)

LEMMA CallInv ==
    ASSUME Inv, NEW s \in Sessions, NEW fn \in Functions \ {"none", "ack"},
           NEW h \in 0 .. MaxHandle, NEW m, Call(s, fn, h, m),
           \/ fn # "enqueue" /\ m = None /\ UNCHANGED outcome
           \/ /\ fn = "enqueue" /\ m \in Msgs /\ outcome[m] = "new"
              /\ outcome' = [outcome EXCEPT ![m] = "calling"]
    PROVE  Inv'
<1> USE DEF Inv
<1>1. /\ call'[s] = [fn |-> fn, handle |-> h, msg |-> m]
      /\ exchange'[s] = [at |-> "request", cmd |-> fn, handle |-> h, msg |-> m, ok |-> FALSE]
      /\ linked[s] /\ linked' = linked /\ thread' = thread /\ opened' = opened
      /\ entries' = entries /\ inTransaction' = inTransaction /\ view' = view
      /\ accepted' = accepted /\ ready' = ready /\ holds' = holds /\ up' = up
      /\ owned' = owned /\ received' = received
    BY DEF Call, Write, StateTypeOK, queueVars, serverVars
<1>2. /\ call[s].fn = "none" /\ exchange[s] = Silence /\ call[s] = NoCall
      /\ entries[s] = Expected(s)
  <2>1. SessionInv(s) OBVIOUS
  <2>2. call[s] = NoCall BY DEF Call
  <2>3. call[s].fn = "none" BY <2>2 DEF NoCall
  <2> QED BY <1>1, <2>1, <2>2, <2>3 DEF SessionInv, Dialogue, Ledger
<1>3. StateTypeOK'
  <2>1. call' \in [Sessions -> Calls]
      BY DEF Call, StateTypeOK, Calls
  <2>2. exchange' \in [Sessions -> Exchanges]
      BY DEF Call, Write, StateTypeOK, Stages, Exchanges
  <2>3. outcome' \in [Msgs -> OutcomeValues]
      BY DEF StateTypeOK, OutcomeValues
  <2> QED BY <1>1, <2>1, <2>2, <2>3 DEF StateTypeOK
<1>4. \A t \in Sessions \ {s} : SameAt(t)
    BY <1>1 DEF SameAt, Call, Write, StateTypeOK
<1>5. QueueInv' BY <1>1, SameQueue
<1>6. Kept' = Kept BY <1>1 DEF Kept
<1>7. Gained(s)' = {} /\ Gained(s) = {} /\ Expected(s)' = Expected(s)
  <2>1. Expected(s)' = Expected(s) BY <1>1 DEF Expected, Pending, Claim
  <2>2. Gained(s) = {} BY <1>2 DEF Gained, Ending
  <2>3. \A p \in view[s].claims : Claim(p) \in entries[s]
      BY <1>2 DEF Expected
  <2>4. \A p \in view[s].claims : Claim(p)' \in entries'[s]
      BY <1>1, <2>3 DEF Claim
  <2>5. Gained(s)' = {}
    <3>1. exchange'[s].at # "response" BY <1>1
    <3>2. view'[s] = view[s] BY <1>1
    <3> QED BY <2>4, <3>1, <3>2 DEF Gained
  <2> QED BY <2>1, <2>2, <2>5
<1>8. Mine(s)' = IF fn = "enqueue" THEN Mine(s) \cup {m} ELSE Mine(s)
  <2>1. Mine(s) = {n \in Msgs : \/ \E p \in view[s].pending : p[2] = n
                                \/ \E e \in entries[s] : e.kind = "enqueue" /\ e.msg = n}
      BY <1>2 DEF Mine, Silence
  <2>2. Mine(s)' = {n \in Msgs : \/ fn = "enqueue" /\ m = n
                                 \/ \E p \in view[s].pending : p[2] = n
                                 \/ \E e \in entries[s] : e.kind = "enqueue" /\ e.msg = n}
      BY <1>1 DEF Mine
  <2> QED BY <2>1, <2>2
<1>9. OwnAffairs(s)
    BY <1>1, <1>4, <1>6, <1>7, <1>8 DEF OwnAffairs, StateTypeOK
<1>10. \A n \in Mine(s) \cup Mine(s)' : OutcomeFits(n)'
    BY <1>1, <1>6, <1>8 DEF OutcomeFits, Outcomes, Mine, StateTypeOK
<1>11. \A n \in Gained(s) : OwnedFits(n)'
    BY <1>7
<1>12. SessionInv(s)'
  <2>1. SessionInv(s) OBVIOUS
  <2>2. Lifeline(s)'
      BY <1>1, <2>1 DEF SessionInv, Lifeline
  <2>3. InHand(s)'
      BY <1>1, <1>6, <2>1 DEF SessionInv, InHand, Outcomes
  <2>4. Books(s)'
      BY <1>1, <1>2, <2>1 DEF SessionInv, Books, Silence
  <2>5. Sender(s)'
    <3>1. fn = "enqueue" => m \notin Mine(s)
        BY <2>1, MineUndecided DEF SessionInv
    <3>2. \A p \in view[s].pending : p[2] \in Mine(s) /\ p[2] \in Msgs
        BY DEF Mine, StateTypeOK, Pairs, Views
    <3>3. \A e \in entries[s] : e.kind = "enqueue" => e.msg \in Mine(s) /\ e.msg \in Msgs
        BY DEF Mine, StateTypeOK, EntryRecords
    <3>4. \A p \in view[s].pending : Pending(p) \in entries[s]
        BY <1>2 DEF Expected
    <3>5. \A n \in Mine(s) : n \in Msgs /\ outcome'[n] = outcome[n]
        BY <1>9, <3>1, <1>8 DEF OwnAffairs, StateTypeOK, Mine
    <3>6. fn = "enqueue" => m \in Msgs /\ outcome'[m] = "calling" BY DEF StateTypeOK
    <3>7. \A p \in view[s].pending : outcome'[p[2]] = "pending"
        BY <2>1, <3>2, <3>5 DEF SessionInv, Sender
    <3>8. \A e \in entries[s] : e.kind = "enqueue" =>
              outcome'[e.msg] \in {"calling", "pending", "doubt"}
        BY <2>1, <3>3, <3>5 DEF SessionInv, Sender
    <3>9. \A p, q \in view[s].pending : p[2] = q[2] => p = q
        BY <2>1 DEF SessionInv, Sender
    <3>10. \A p \in view[s].pending : Pending(p)' \in entries'[s]
        BY <1>1, <3>4 DEF Pending
    <3> QED BY <1>1, <3>6, <3>7, <3>8, <3>9, <3>10 DEF Sender
  <2>6. Winner(s)' BY <1>7 DEF Winner
  <2>7. Dialogue(s)'
      BY <1>1, <1>2, <2>1 DEF SessionInv, Dialogue, Responded, NoCall, Functions
  <2>8. Ledger(s)'
    <3>1. entries'[s] = Expected(s)' BY <1>1, <1>2, <1>7
    <3>2. exchange'[s].at = "request" /\ call'[s].fn \in Functions \ {"none", "ack"}
        BY <1>1
    <3> QED BY <3>1, <3>2 DEF Ledger
  <2> QED BY <2>2, <2>3, <2>4, <2>5, <2>6, <2>7, <2>8 DEF SessionInv
<1> QED BY <1>3, <1>5, <1>9, <1>10, <1>11, <1>12, SessionStep

(* A call returns: what the client knows of its session is what the        *)
(* session is, and what it says of its own messages is true.               *)
LEMMA ReturnInv ==
    ASSUME Inv, NEW s \in Sessions, linked[s], exchange[s].at = "response", Return(s),
           StateTypeOK', \A t \in Sessions \ {s} : view'[t] = view[t], received' = received,
           view'[s].began = inTransaction[s], view'[s].handles = opened[s],
           Expected(s)' = entries[s], inTransaction[s] \/ entries[s] = {},
           \A p \in view'[s].pending : outcome'[p[2]] = "pending",
           \A m \in Msgs \ Mine(s) : outcome'[m] = outcome[m],
           \A m \in Mine(s) : OutcomeFits(m)',
           \A m \in Msgs \ Gained(s) : owned'[m] = owned[m],
           \A m \in Gained(s) : owned'[m] \in {0, 1}
    PROVE  Inv'
<1> USE DEF Inv
<1>1. /\ call'[s] = NoCall /\ exchange'[s] = Silence
      /\ linked' = linked /\ thread' = thread /\ opened' = opened
      /\ entries' = entries /\ inTransaction' = inTransaction
      /\ accepted' = accepted /\ ready' = ready /\ holds' = holds /\ up' = up
    BY DEF Return, StateTypeOK, queueVars, serverVars
<1>2. SessionInv(s) OBVIOUS
<1>3. \A t \in Sessions \ {s} : SameAt(t)
    BY <1>1 DEF SameAt, Return, StateTypeOK
<1>4. QueueInv' BY <1>1, SameQueue
<1>5. Kept' = Kept BY <1>1 DEF Kept
<1>6. /\ \A p \in view'[s].pending : Pending(p) \in entries[s]
      /\ \A p \in view'[s].claims : Claim(p) \in entries[s]
      /\ \A e \in entries[s] : e.kind = "enqueue" =>
            \E p \in view'[s].pending : e = Pending(p)
  <2>1. entries[s] = {Pending(p) : p \in view'[s].pending} \cup {Claim(p) : p \in view'[s].claims}
      BY DEF Expected, Pending, Claim
  <2>2. \A p : Claim(p).kind = "retrieve" BY DEF Claim, Entry
  <2> QED BY <2>1, <2>2
<1>8. view'[s].pending \subseteq Pairs /\ view'[s].claims \subseteq Pairs
    BY DEF StateTypeOK, Views
<1>9. Gained(s)' = {} /\ Mine(s)' \subseteq Mine(s)
  <2>1. Gained(s)' = {} BY <1>1 DEF Gained, NoCall, Ending
  <2>2. ASSUME NEW m \in Mine(s)' PROVE m \in Mine(s)
    <3>1. m \in Msgs /\ (\/ \E p \in view'[s].pending : p[2] = m
                         \/ \E e \in entries[s] : e.kind = "enqueue" /\ e.msg = m)
        BY <1>1 DEF Mine, NoCall, Silence
    <3>2. \E e \in entries[s] : e.kind = "enqueue" /\ e.msg = m
        BY <1>6, <3>1 DEF Pending, Entry
    <3> QED BY <3>1, <3>2 DEF Mine
  <2> QED BY <2>1, <2>2
<1>10. OwnAffairs(s)
    BY <1>1, <1>3, <1>5, <1>9 DEF OwnAffairs
<1>11. \A m \in Gained(s) : OwnedFits(m)'
    BY <1>1, <1>2 DEF OwnedFits, SessionInv, Winner
<1>12. SessionInv(s)'
  <2>1. Lifeline(s)'
      BY <1>1, <1>2 DEF SessionInv, Lifeline
  <2>2. InHand(s)'
      BY <1>1 DEF InHand, Silence
  <2>3. Books(s)'
      BY <1>1, <1>2 DEF SessionInv, Books
  <2>4. Sender(s)'
    <3>1. \A e \in entries[s] : e.kind = "enqueue" => outcome'[e.msg] = "pending"
        BY <1>6 DEF Pending, Entry
    <3>2. \A p, q \in view'[s].pending : p[2] = q[2] => p = q
      <4> SUFFICES ASSUME NEW p \in view'[s].pending, NEW q \in view'[s].pending, p[2] = q[2]
                   PROVE  p = q
          OBVIOUS
      <4>1. Pending(p) = Pending(q) BY <1>2, <1>6 DEF SessionInv, Books, Pending, Entry
      <4>2. p[1] = q[1] BY <4>1 DEF Pending, Entry
      <4> QED BY <4>2, <1>8 DEF Pairs
    <3>3. \A p \in view'[s].pending : Pending(p)' \in entries'[s]
        BY <1>1, <1>6 DEF Pending
    <3> QED BY <1>1, <3>1, <3>2, <3>3 DEF Sender, NoCall, Silence
  <2>5. Winner(s)' BY <1>9 DEF Winner
  <2>6. Dialogue(s)'
    <3>1. \A p \in view'[s].pending \cup view'[s].claims : p[1] \in opened[s]
      <4>1. \A e \in entries[s] : e.handle \in opened[s]
          BY <1>2 DEF SessionInv, Books
      <4>2. \A p \in view'[s].pending : p[1] \in opened[s]
          BY <1>6, <4>1 DEF Pending, Entry
      <4>3. \A p \in view'[s].claims : p[1] \in opened[s]
          BY <1>6, <4>1 DEF Claim, Entry
      <4> QED BY <4>2, <4>3
    <3>2. ~inTransaction[s] => view'[s].pending = {} /\ view'[s].claims = {}
        BY <1>6
    <3>3. \A fn : ~Responded(s, fn)' BY <1>1 DEF Responded, Silence
    <3>4. call'[s].fn = "none" BY <1>1 DEF NoCall
    <3>5. opened'[s] = view'[s].handles /\ inTransaction'[s] = view'[s].began BY <1>1
    <3>6. exchange'[s].handle = call'[s].handle BY <1>1 DEF NoCall, Silence
    <3>7. ~view'[s].began => view'[s].pending = {} /\ view'[s].claims = {} BY <3>2
    <3>8. view'[s].began \in BOOLEAN BY DEF StateTypeOK
    <3> QED BY <1>1, <3>1, <3>3, <3>4, <3>5, <3>6, <3>7, <3>8 DEF Dialogue
  <2>7. Ledger(s)' BY <1>1 DEF Ledger, NoCall
  <2> QED BY <2>1, <2>2, <2>3, <2>4, <2>5, <2>6, <2>7 DEF SessionInv
<1> QED BY <1>4, <1>9, <1>10, <1>11, <1>12, SessionStep

LEMMA OutcomesStay ==
    ASSUME Inv, UNCHANGED <<accepted, received, outcome>>
    PROVE  \A m \in Msgs : OutcomeFits(m)'
BY DEF Inv, Outcomes, OutcomeFits, Kept

(* The session, when its client is about to read an answer that tells it   *)
(* nothing about whether it is in a transaction.                           *)
LEMMA AtAnswer ==
    ASSUME Inv, NEW s \in Sessions, NEW fn, Answered(s, fn), Return(s)
    PROVE  /\ linked[s] /\ exchange[s].at = "response" /\ call[s].fn = fn
           /\ SessionInv(s) /\ Dialogue(s) /\ Ledger(s) /\ Sender(s) /\ Winner(s)
           /\ accepted' = accepted
           /\ fn \notin {"begin", "end"} =>
                 /\ view[s].began = inTransaction[s]
                 /\ inTransaction[s] \/ Expected(s) = {}
<1>1. /\ linked[s] /\ exchange[s].at = "response" /\ call[s].fn = fn
      /\ SessionInv(s) /\ Dialogue(s) /\ Ledger(s) /\ Sender(s) /\ Winner(s)
      /\ accepted' = accepted
    BY DEF Inv, SessionInv, Answered, Return, queueVars
<1>2. inTransaction[s] \in BOOLEAN /\ view[s].began \in BOOLEAN
    BY DEF Inv, StateTypeOK, Views
<1>3. ASSUME fn \notin {"begin", "end"}
      PROVE  view[s].began = inTransaction[s]
    BY <1>1, <1>2, <1>3 DEF Dialogue, Responded
<1>4. ~view[s].began => Expected(s) = {}
    BY <1>1 DEF Dialogue, Expected
<1> QED BY <1>1, <1>3, <1>4

LEMMA TypesAtReturn ==
    ASSUME Inv, NEW s \in Sessions, Return(s), 
           view' \in [Sessions -> Views],
           outcome' \in [Msgs -> OutcomeValues],
           owned' \in [Msgs -> Nat], received' = received
    PROVE  StateTypeOK'
<1>1. call' \in [Sessions -> Calls]
    BY ClientAssumption DEF Inv, Return, StateTypeOK, NoCall, Functions, Calls
<1>2. exchange' \in [Sessions -> Exchanges]
    BY ClientAssumption DEF Inv, Return, StateTypeOK, Silence, Functions, Stages, Exchanges
<1> QED BY <1>1, <1>2 DEF Inv, Return, StateTypeOK, serverVars

LEMMA OpenQueueReturnsInv ==
    ASSUME Inv, NEW s \in Sessions, OpenQueueReturns(s)
    PROVE  Inv'
<1>1. Answered(s, "open") /\ Return(s) /\ UNCHANGED <<outcome, owned, received>>
    BY DEF OpenQueueReturns
<1>2. /\ linked[s] /\ exchange[s].at = "response" /\ call[s].fn = "open"
      /\ Dialogue(s) /\ Ledger(s) /\ Sender(s) /\ Winner(s) /\ accepted' = accepted
      /\ view[s].began = inTransaction[s] /\ (inTransaction[s] \/ Expected(s) = {})
    BY <1>1, AtAnswer
<1>3. /\ \A t \in Sessions \ {s} : view'[t] = view[t]
      /\ view'[s].began = view[s].began
      /\ view'[s].handles = IF exchange[s].ok THEN view[s].handles \cup {exchange[s].handle}
                            ELSE view[s].handles
      /\ view'[s].pending = view[s].pending /\ view'[s].claims = view[s].claims
    BY DEF Inv, StateTypeOK, OpenQueueReturns
<1>4. opened[s] = view'[s].handles
    BY <1>2, <1>3 DEF Dialogue, Responded
<1>5. view' \in [Sessions -> Views]
  <2>1. opened[s] \subseteq Handles BY DEF Inv, StateTypeOK
  <2>2. exchange[s].ok => exchange[s].handle \in Handles
      BY <1>3, <1>4, <2>1
  <2>3. view[s] \in Views
      BY DEF Inv, StateTypeOK
  <2>4. exchange[s].ok =>
            [view[s] EXCEPT !.handles = @ \cup {exchange[s].handle}]
                \in Views
      BY <2>2, <2>3 DEF Views
  <2> QED BY <2>4 DEF Inv, StateTypeOK, OpenQueueReturns
<1>6. StateTypeOK' BY <1>1, <1>5, TypesAtReturn DEF Inv, StateTypeOK
<1>7. Expected(s)' = Expected(s) BY <1>3 DEF Expected, Pending, Claim
<1>8. entries[s] = Expected(s) BY <1>2 DEF Ledger
<1>9. \A p \in view'[s].pending : outcome'[p[2]] = "pending"
    BY <1>1, <1>2, <1>3 DEF Sender
<1>10. \A m \in Mine(s) : OutcomeFits(m)'
    BY <1>1, <1>2, OutcomesStay DEF Mine
<1>11. \A m \in Gained(s) : owned'[m] \in {0, 1}
    BY <1>1, <1>2 DEF Winner
<1> QED BY <1>1, <1>2, <1>3, <1>4, <1>6, <1>7, <1>8, <1>9, <1>10, <1>11, ReturnInv

LEMMA EnqueueReturnsInv ==
    ASSUME Inv, NEW s \in Sessions, EnqueueReturns(s)
    PROVE  Inv'
<1> PICK m, h : m = call[s].msg /\ h = call[s].handle
    OBVIOUS
<1>1. Answered(s, "enqueue") /\ Return(s) /\ UNCHANGED <<owned, received>>
    BY DEF EnqueueReturns
<1>2. /\ linked[s] /\ exchange[s].at = "response" /\ call[s].fn = "enqueue"
      /\ Dialogue(s) /\ Ledger(s) /\ Sender(s) /\ Winner(s) /\ accepted' = accepted
      /\ view[s].began = inTransaction[s] /\ (inTransaction[s] \/ Expected(s) = {})
    BY <1>1, AtAnswer
<1>3. m \in Msgs /\ outcome[m] = "calling" /\ m \in Mine(s)
    BY <1>2 DEF Sender, Mine
<1>4. opened[s] = view[s].handles
    BY <1>2 DEF Dialogue, Responded
<1>5. \A what : Become({m}, what) => \A n \in Msgs : outcome'[n] = IF n = m THEN what ELSE outcome[n]
    BY DEF Become
<1>6. ASSUME NEW what \in {"pending", "kept", "withdrawn"}, Become({m}, what)
      PROVE  /\ outcome' \in [Msgs -> OutcomeValues]
             /\ \A n \in Msgs \ Mine(s) : outcome'[n] = outcome[n]
             /\ \A p \in view[s].pending : outcome'[p[2]] = "pending"
             /\ outcome'[m] = what
             /\ OutcomeFits(m)' => \A n \in Mine(s) : OutcomeFits(n)'
  <2>1. \A n \in Msgs : outcome'[n] = IF n = m THEN what ELSE outcome[n]
      BY <1>5, <1>6
  <2>2. outcome' \in [Msgs -> OutcomeValues]
      BY <1>6 DEF Become, Inv, StateTypeOK, OutcomeValues
  <2>3. \A p \in view[s].pending : p[2] \in Msgs /\ outcome[p[2]] = "pending"
      BY <1>2 DEF Sender, Inv, StateTypeOK, Pairs, Views
  <2>4. \A n \in Mine(s) : n # m => OutcomeFits(n)'
      BY <1>1, <1>2, <2>1 DEF Inv, Outcomes, OutcomeFits, Kept, Mine
  <2> QED BY <1>3, <2>1, <2>2, <2>3, <2>4
<1>7. \A n \in Gained(s) : owned'[n] \in {0, 1}
    BY <1>1, <1>2 DEF Winner
<1>8. CASE exchange[s].ok /\ view[s].began
  <2>1. entries[s] = Expected(s) \cup {Entry(h, m, "enqueue", TRUE)}
      BY <1>2, <1>8 DEF Ledger
  <2>2. h \in Handles
    <3>1. Entry(h, m, "enqueue", TRUE) \in entries[s] BY <2>1
    <3> QED BY <3>1 DEF Inv, StateTypeOK, Entry, EntryRecords
  <2>3. /\ Become({m}, "pending")
        /\ view' = [view EXCEPT ![s].pending = @ \cup {<<h, m>>}]
      BY <1>2, <1>8 DEF EnqueueReturns
  <2>4. /\ \A t \in Sessions \ {s} : view'[t] = view[t]
        /\ view'[s].began = view[s].began /\ view'[s].handles = view[s].handles
        /\ view'[s].pending = view[s].pending \cup {<<h, m>>}
        /\ view'[s].claims = view[s].claims
      BY <2>3 DEF Inv, StateTypeOK
  <2>5. view' \in [Sessions -> Views]
    <3>1. <<h, m>> \in Pairs BY <1>3, <2>2 DEF Pairs
    <3>2. view[s] \in Views BY DEF Inv, StateTypeOK
    <3>3. [view[s] EXCEPT !.pending = @ \cup {<<h, m>>}] \in Views
        BY <3>1, <3>2 DEF Views
    <3> QED BY <2>3, <3>3 DEF Inv, StateTypeOK
  <2>6. StateTypeOK' BY <1>1, <1>6, <2>3, <2>5, TypesAtReturn DEF Inv, StateTypeOK
  <2>7. Expected(s)' = Expected(s) \cup {Entry(h, m, "enqueue", TRUE)}
    <3>1. Expected(s)' = {Pending(p) : p \in view'[s].pending} \cup {Claim(p) : p \in view'[s].claims}
        BY DEF Expected, Pending, Claim
    <3>2. Pending(<<h, m>>) = Entry(h, m, "enqueue", TRUE) BY DEF Pending
    <3> QED BY <2>4, <3>1, <3>2 DEF Expected
  <2>8. \A p \in view'[s].pending : outcome'[p[2]] = "pending"
      BY <1>6, <2>3, <2>4
  <2>9. OutcomeFits(m)' BY <1>6, <2>3 DEF OutcomeFits
  <2> QED BY <1>1, <1>2, <1>4, <1>6, <1>7, <1>8, <2>1, <2>3, <2>4, <2>6, <2>7, <2>8, <2>9, ReturnInv
<1>9. CASE ~(exchange[s].ok /\ view[s].began)
  <2>1. PICK what \in {"kept", "withdrawn"} :
            /\ Become({m}, what) /\ view' = view
            /\ what = "kept" => m \in Kept
            /\ what = "withdrawn" => m \notin Kept
      BY <1>2, <1>9 DEF EnqueueReturns, Dialogue, Responded
  <2>2. entries[s] = Expected(s)
      BY <1>2, <1>9 DEF Ledger
  <2>3. StateTypeOK' BY <1>1, <1>6, <2>1, TypesAtReturn DEF Inv, StateTypeOK
  <2>4. Expected(s)' = Expected(s) BY <2>1 DEF Expected, Pending, Claim
  <2>5. OutcomeFits(m)' BY <1>1, <1>2, <1>6, <2>1 DEF OutcomeFits, Kept
  <2> QED BY <1>1, <1>2, <1>4, <1>6, <1>7, <2>1, <2>2, <2>3, <2>4, <2>5, ReturnInv
<1> QED BY <1>8, <1>9

LEMMA RetrieveReadsInv ==
    ASSUME Inv, NEW s \in Sessions, RetrieveReads(s)
    PROVE  Inv'
<1>1. /\ linked[s] /\ exchange[s].at = "response" /\ call[s].fn = "retrieve"
      /\ SessionInv(s) /\ Dialogue(s) /\ Ledger(s) /\ Sender(s) /\ Winner(s)
      /\ UNCHANGED <<view, outcome, owned>>
    BY DEF RetrieveReads, Answered, Inv, SessionInv
<1>2. CASE ~exchange[s].ok
  <2>1. Answered(s, "retrieve") /\ Return(s) /\ received' = received
      BY <1>2 DEF RetrieveReads
  <2>2. view[s].began = inTransaction[s] /\ (inTransaction[s] \/ Expected(s) = {})
      BY <2>1, AtAnswer
  <2>3. accepted' = accepted BY <2>1 DEF Return, queueVars
  <2>4. StateTypeOK' BY <1>1, <2>1, TypesAtReturn DEF Inv, StateTypeOK
  <2>5. entries[s] = Expected(s) BY <1>1, <1>2 DEF Ledger
  <2>6. opened[s] = view[s].handles BY <1>1 DEF Dialogue, Responded
  <2>7. Expected(s)' = Expected(s) BY <1>1 DEF Expected, Pending, Claim
  <2>8. \A p \in view'[s].pending : outcome'[p[2]] = "pending" BY <1>1 DEF Sender
  <2>9. \A m \in Mine(s) : OutcomeFits(m)'
      BY <1>1, <2>1, <2>3, OutcomesStay DEF Mine
  <2>10. \A m \in Gained(s) : owned'[m] \in {0, 1} BY <1>1 DEF Winner
  <2> QED BY <1>1, <2>1, <2>2, <2>4, <2>5, <2>6, <2>7, <2>8, <2>9, <2>10, ReturnInv
<1>3. CASE exchange[s].ok
  <2>1. PICK m, h : m = exchange[s].msg /\ h = call[s].handle
      OBVIOUS
  <2>2. /\ m \in Msgs /\ h \in 0 .. MaxHandle
        /\ entries[s] = Expected(s) \cup {Entry(h, m, "retrieve", FALSE)}
        /\ opened[s] = view[s].handles
        /\ inTransaction[s] = (view[s].began = TRUE)
    <3>1. m \in Msgs /\ opened[s] = view[s].handles
        BY <1>1, <1>3, <2>1 DEF Dialogue, Responded
    <3>2. h \in 0 .. MaxHandle BY <2>1 DEF Inv, StateTypeOK, Calls
    <3>3. entries[s] = Expected(s) \cup {Entry(h, m, "retrieve", FALSE)}
        BY <1>1, <1>3, <2>1 DEF Ledger
    <3>4. inTransaction[s] = (view[s].began = TRUE)
        BY <1>1 DEF Dialogue, Responded, Inv, StateTypeOK, Views
    <3> QED BY <3>1, <3>2, <3>3, <3>4
  <2>3. /\ call'[s].fn = "ack" /\ call'[s].msg = m /\ call'[s].handle = h
        /\ exchange'[s] = [at |-> "request", cmd |-> "ack", handle |-> h, msg |-> m, ok |-> FALSE]
        /\ received' = received \cup {m}
        /\ linked' = linked /\ thread' = thread /\ opened' = opened
        /\ entries' = entries /\ inTransaction' = inTransaction
        /\ accepted' = accepted /\ ready' = ready /\ holds' = holds /\ up' = up
    BY <1>3, <2>1 DEF RetrieveReads, Write, queueVars, serverVars, Inv, StateTypeOK, Calls
  <2>4. \A t \in Sessions \ {s} : SameAt(t)
      BY <1>1, <1>3, <2>3 DEF RetrieveReads, Write, SameAt, Inv, StateTypeOK
  <2>5. QueueInv' BY <2>3, SameQueue DEF Inv
  <2>6. StateTypeOK'
    <3>1. call' \in [Sessions -> Calls]
      <4>1. call[s] \in Calls BY DEF Inv, StateTypeOK
      <4>2. [call[s] EXCEPT !.fn = "ack", !.msg = m] \in Calls
          BY <2>2, <4>1 DEF Calls, Functions
      <4> QED BY <1>3, <2>1, <4>2 DEF RetrieveReads, Inv, StateTypeOK
    <3>2. exchange' \in [Sessions -> Exchanges]
      <4>1. exchange'[s] \in Exchanges
          BY <2>2, <2>3 DEF Exchanges, Stages, Functions
      <4> QED BY <1>3, <4>1 DEF RetrieveReads, Write, Inv, StateTypeOK
    <3> QED BY <1>1, <2>2, <2>3, <3>1, <3>2 DEF Inv, StateTypeOK
  <2>7. /\ Expected(s)' = Expected(s) /\ Mine(s)' = Mine(s)
        /\ Gained(s)' = {} /\ Gained(s) = {}
    <3>1. Expected(s)' = Expected(s) BY <1>1 DEF Expected, Pending, Claim
    <3>2. exchange[s].cmd = "retrieve" BY <1>1 DEF Dialogue
    <3>3. Mine(s) = {n \in Msgs : \/ \E p \in view[s].pending : p[2] = n
                                  \/ \E e \in entries[s] : e.kind = "enqueue" /\ e.msg = n}
        BY <1>1, <3>2 DEF Mine
    <3>4. Mine(s)' = {n \in Msgs : \/ \E p \in view[s].pending : p[2] = n
                                   \/ \E e \in entries[s] : e.kind = "enqueue" /\ e.msg = n}
        BY <1>1, <2>3 DEF Mine
    <3>5. Gained(s)' = {} BY <2>3 DEF Gained, Ending
    <3>6. Gained(s) = {} BY <1>1 DEF Gained, Ending
    <3> QED BY <3>1, <3>3, <3>4, <3>5, <3>6
  <2>8. /\ Entry(h, m, "retrieve", FALSE) \in entries[s]
        /\ m \in holds[s] /\ m \in Range(accepted)
    <3>1. Entry(h, m, "retrieve", FALSE) \in entries[s] BY <2>2
    <3>2. m \in holds[s] BY <1>1, <3>1 DEF SessionInv, Books, Entry
    <3> QED BY <3>1, <3>2 DEF Inv, QueueInv
  <2>9. Kept' = Kept BY <2>3, <2>8 DEF Kept
  <2>10. OwnAffairs(s)
      BY <1>1, <2>3, <2>4, <2>7, <2>8, <2>9 DEF OwnAffairs
  <2>11. \A n \in Mine(s) \cup Mine(s)' : OutcomeFits(n)'
      BY <1>1, <2>7, <2>9 DEF Inv, Outcomes, OutcomeFits, Mine
  <2>12. SessionInv(s)'
    <3>1. Lifeline(s)' BY <1>1, <2>3 DEF SessionInv, Lifeline
    <3>2. InHand(s)' BY <1>1, <2>3 DEF InHand
    <3>3. Books(s)'
      <4>1. \A e \in entries[s] : e.kind = "enqueue" => e.msg # m
          BY <1>1, <2>8 DEF SessionInv, Books, Entry
      <4>2. exchange[s].at \notin {"publish", "send"} BY <1>1
      <4> QED BY <1>1, <2>3, <4>1, <4>2 DEF SessionInv, Books
    <3>4. Sender(s)'
      <4>1. \A p \in view[s].pending : Pending(p) \in entries[s] BY <2>2 DEF Expected
      <4>2. \A p \in view[s].pending : Pending(p)' \in entries'[s]
          BY <2>3, <4>1 DEF Pending
      <4> QED BY <1>1, <2>3, <4>2 DEF Sender
    <3>5. Winner(s)' BY <2>7 DEF Winner
    <3>6. Dialogue(s)'
      <4>1. \A fn : ~Responded(s, fn)' BY <2>3 DEF Responded
      <4>2. /\ \A p \in view[s].pending \cup view[s].claims : p[1] \in view[s].handles
            /\ ~view[s].began => view[s].pending = {} /\ view[s].claims = {}
          BY <1>1 DEF Dialogue
      <4>3. inTransaction'[s] = (view'[s].began = TRUE) /\ view'[s].began \in BOOLEAN
          BY <1>1, <2>2, <2>3 DEF Inv, StateTypeOK, Views
      <4> QED BY <1>1, <2>2, <2>3, <4>1, <4>2, <4>3 DEF Dialogue
    <3>7. Ledger(s)'
      <4>1. entries'[s] = Expected(s)' \cup {Entry(h, m, "retrieve", FALSE)}
          BY <2>2, <2>3, <2>7
      <4>2. Entry(h, m, "retrieve", FALSE) = Entry(call[s].handle, call[s].msg, "retrieve", FALSE)'
          BY <2>3 DEF Entry
      <4> QED BY <2>3, <4>1, <4>2 DEF Ledger
    <3> QED BY <3>1, <3>2, <3>3, <3>4, <3>5, <3>6, <3>7 DEF SessionInv
  <2> QED BY <2>5, <2>6, <2>7, <2>10, <2>11, <2>12, SessionStep
<1> QED BY <1>2, <1>3

LEMMA RetrieveReturnsInv ==
    ASSUME Inv, NEW s \in Sessions, RetrieveReturns(s)
    PROVE  Inv'
<1> PICK m, h : m = call[s].msg /\ h = call[s].handle
    OBVIOUS
<1>1. Answered(s, "ack") /\ Return(s) /\ UNCHANGED <<outcome, received>>
    BY DEF RetrieveReturns
<1>2. /\ linked[s] /\ exchange[s].at = "response" /\ call[s].fn = "ack"
      /\ SessionInv(s) /\ Dialogue(s) /\ Ledger(s) /\ Sender(s) /\ Winner(s)
      /\ accepted' = accepted
      /\ view[s].began = inTransaction[s] /\ (inTransaction[s] \/ Expected(s) = {})
    BY <1>1, AtAnswer
<1>3. /\ exchange[s].ok /\ opened[s] = view[s].handles /\ m \in received
    BY <1>2 DEF Dialogue, Responded
<1>4. m \in Msgs BY <1>3 DEF Inv, StateTypeOK
<1>5. \A n \in Mine(s) : OutcomeFits(n)'
    BY <1>1, <1>2, OutcomesStay DEF Mine
<1>6. \A p \in view[s].pending : outcome'[p[2]] = "pending"
    BY <1>1, <1>2 DEF Sender
<1>7. CASE view[s].began
  <2>1. /\ view' = [view EXCEPT ![s].claims = @ \cup {<<h, m>>}] /\ owned' = owned
      BY <1>3, <1>7 DEF RetrieveReturns
  <2>2. entries[s] = Expected(s) \cup {Entry(h, m, "retrieve", TRUE)}
      BY <1>2, <1>7 DEF Ledger
  <2>3. h \in Handles
    <3>1. Entry(h, m, "retrieve", TRUE) \in entries[s] BY <2>2
    <3> QED BY <3>1 DEF Inv, StateTypeOK, Entry, EntryRecords
  <2>4. /\ \A t \in Sessions \ {s} : view'[t] = view[t]
        /\ view'[s].began = view[s].began /\ view'[s].handles = view[s].handles
        /\ view'[s].pending = view[s].pending
        /\ view'[s].claims = view[s].claims \cup {<<h, m>>}
      BY <2>1 DEF Inv, StateTypeOK, Views
  <2>5. view' \in [Sessions -> Views]
    <3>1. <<h, m>> \in Pairs BY <1>4, <2>3 DEF Pairs
    <3>2. view[s] \in Views BY DEF Inv, StateTypeOK
    <3>3. [view[s] EXCEPT !.claims = @ \cup {<<h, m>>}] \in Views
        BY <3>1, <3>2 DEF Views
    <3> QED BY <2>1, <3>3 DEF Inv, StateTypeOK
  <2>6. StateTypeOK' BY <1>1, <2>1, <2>5, TypesAtReturn DEF Inv, StateTypeOK
  <2>7. Expected(s)' = Expected(s) \cup {Entry(h, m, "retrieve", TRUE)}
    <3>1. Expected(s)' = {Pending(p) : p \in view'[s].pending} \cup {Claim(p) : p \in view'[s].claims}
        BY DEF Expected, Pending, Claim
    <3>2. Claim(<<h, m>>) = Entry(h, m, "retrieve", TRUE) BY DEF Claim
    <3> QED BY <2>4, <3>1, <3>2 DEF Expected
  <2>8. \A n \in Gained(s) : owned'[n] \in {0, 1} BY <1>2, <2>1 DEF Winner
  <2> QED BY <1>1, <1>2, <1>3, <1>5, <1>6, <1>7, <2>1, <2>2, <2>4, <2>6, <2>7, <2>8, ReturnInv
<1>8. CASE ~view[s].began
  <2>1. view' = view /\ Own({m}) BY <1>3, <1>8 DEF RetrieveReturns
  <2>2. entries[s] = Expected(s) BY <1>2, <1>8 DEF Ledger
  <2>3. m \in Gained(s) BY <1>2, <1>4, <1>8 DEF Gained
  <2>4. /\ \A n \in Msgs \ Gained(s) : owned'[n] = owned[n]
        /\ \A n \in Gained(s) : owned'[n] \in {0, 1}
        /\ owned' \in [Msgs -> Nat]
      BY <1>2, <2>1, <2>3 DEF Own, Winner, Gained, Inv, StateTypeOK
  <2>5. StateTypeOK' BY <1>1, <2>1, <2>4, TypesAtReturn DEF Inv, StateTypeOK
  <2>6. Expected(s)' = Expected(s) BY <2>1 DEF Expected, Pending, Claim
  <2> QED BY <1>1, <1>2, <1>3, <1>5, <1>6, <2>1, <2>2, <2>4, <2>5, <2>6, ReturnInv
<1> QED BY <1>7, <1>8

LEMMA CloseQueueReturnsInv ==
    ASSUME Inv, NEW s \in Sessions, CloseQueueReturns(s)
    PROVE  Inv'
<1> PICK h : h = call[s].handle
    OBVIOUS
<1> DEFINE On(pairs) == {p \in pairs : p[1] = h}
<1>1. Answered(s, "close") /\ Return(s) /\ UNCHANGED <<owned, received>>
    BY DEF CloseQueueReturns
<1>2. /\ linked[s] /\ exchange[s].at = "response" /\ call[s].fn = "close"
      /\ SessionInv(s) /\ Dialogue(s) /\ Ledger(s) /\ Sender(s) /\ Winner(s)
      /\ accepted' = accepted
      /\ view[s].began = inTransaction[s] /\ (inTransaction[s] \/ Expected(s) = {})
    BY <1>1, AtAnswer
<1>3. \A m \in Gained(s) : owned'[m] \in {0, 1}
    BY <1>1, <1>2 DEF Winner
<1>4. CASE ~exchange[s].ok
  <2>1. view' = view /\ outcome' = outcome BY <1>4 DEF CloseQueueReturns
  <2>2. entries[s] = Expected(s) BY <1>2, <1>4 DEF Ledger
  <2>3. opened[s] = view[s].handles BY <1>2, <1>4 DEF Dialogue, Responded
  <2>4. StateTypeOK' BY <1>1, <2>1, TypesAtReturn DEF Inv, StateTypeOK
  <2>5. Expected(s)' = Expected(s) BY <2>1 DEF Expected, Pending, Claim
  <2>6. \A p \in view'[s].pending : outcome'[p[2]] = "pending" BY <1>2, <2>1 DEF Sender
  <2>7. \A m \in Mine(s) : OutcomeFits(m)'
      BY <1>1, <1>2, <2>1, OutcomesStay DEF Mine
  <2> QED BY <1>1, <1>2, <1>3, <2>1, <2>2, <2>3, <2>4, <2>5, <2>6, <2>7, ReturnInv
<1>5. CASE exchange[s].ok
  <2>1. /\ Become(Messages(On(view[s].pending)), "withdrawn")
        /\ view' = [view EXCEPT ![s] = [view[s] EXCEPT !.handles = @ \ {h},
                                    !.pending = @ \ On(@), !.claims = @ \ On(@)]]
      BY <1>5 DEF CloseQueueReturns
  <2>2. /\ \A t \in Sessions \ {s} : view'[t] = view[t]
        /\ view'[s].began = view[s].began /\ view'[s].handles = view[s].handles \ {h}
        /\ view'[s].pending = {p \in view[s].pending : p[1] # h}
        /\ view'[s].claims = {p \in view[s].claims : p[1] # h}
      BY <2>1 DEF Inv, StateTypeOK, Views
  <2>3. view' \in [Sessions -> Views]
    <3>1. view[s] \in Views BY DEF Inv, StateTypeOK
    <3>2. [view[s] EXCEPT !.handles = @ \ {h}, !.pending = @ \ On(@), !.claims = @ \ On(@)]
              \in Views
      <4> HIDE DEF On
      <4> QED BY <3>1 DEF Views
    <3> QED BY <2>1, <3>2 DEF Inv, StateTypeOK
  <2>4. opened[s] = view'[s].handles BY <1>2, <1>5, <2>2 DEF Dialogue, Responded
  <2>5. Messages(On(view[s].pending)) = {p[2] : p \in {q \in view[s].pending : q[1] = h}}
      BY DEF Messages
  <2>6. \A m \in Msgs : outcome'[m] = IF \E p \in view[s].pending : p[1] = h /\ p[2] = m
                                       THEN "withdrawn" ELSE outcome[m]
      BY <2>1, <2>5 DEF Become
  <2>7. outcome' \in [Msgs -> OutcomeValues]
      BY <2>1 DEF Become, Inv, StateTypeOK, OutcomeValues
  <2>8. StateTypeOK' BY <1>1, <2>3, <2>7, TypesAtReturn DEF Inv, StateTypeOK
  <2>9. /\ entries[s] \subseteq Expected(s)
        /\ \A e \in Expected(s) : e.handle # h => e \in entries[s]
        /\ \A e \in entries[s] : e.handle # h
      BY <1>2, <1>5 DEF Ledger
  <2>10. Expected(s)' = entries[s]
    <3>1. Expected(s)' = {Pending(p) : p \in view'[s].pending} \cup {Claim(p) : p \in view'[s].claims}
        BY DEF Expected, Pending, Claim
    <3>2. \A p \in view[s].pending : (p[1] # h) <=> (Pending(p) \in entries[s])
        BY <2>9 DEF Expected, Pending, Entry
    <3>3. \A p \in view[s].claims : (p[1] # h) <=> (Claim(p) \in entries[s])
        BY <2>9 DEF Expected, Claim, Entry
    <3> QED BY <2>2, <2>9, <3>1, <3>2, <3>3 DEF Expected
  <2>11. \A p \in view'[s].pending : outcome'[p[2]] = "pending"
    <3>1. \A p \in view[s].pending : p[2] \in Msgs BY DEF Inv, StateTypeOK, Views, Pairs
    <3> QED BY <1>2, <2>2, <2>6, <3>1 DEF Sender
  <2>12. \A m \in Msgs \ Mine(s) : outcome'[m] = outcome[m]
      BY <2>6 DEF Mine
  <2>13. ASSUME NEW m \in Mine(s) PROVE OutcomeFits(m)'
    <3>1. m \in Msgs BY DEF Mine
    <3>2. CASE \E p \in view[s].pending : p[1] = h /\ p[2] = m
      <4>1. PICK p \in view[s].pending : p[1] = h /\ p[2] = m BY <3>2
      <4>2. Pending(p) \notin entries[s] BY <2>9, <4>1 DEF Pending, Entry
      <4>3. m \notin Kept BY <1>2, <4>1, <4>2 DEF Sender, Ending
      <4>4. outcome'[m] = "withdrawn" BY <2>6, <3>1, <3>2
      <4> QED BY <1>1, <1>2, <4>3, <4>4 DEF OutcomeFits, Kept
    <3>3. CASE ~\E p \in view[s].pending : p[1] = h /\ p[2] = m
      <4>1. outcome'[m] = outcome[m] BY <2>6, <3>1, <3>3
      <4> QED BY <1>1, <1>2, <3>1, <4>1 DEF Inv, Outcomes, OutcomeFits, Kept
    <3> QED BY <3>2, <3>3
  <2>14. inTransaction[s] \/ entries[s] = {} BY <1>2, <2>9
  <2> QED BY <1>1, <1>2, <1>3, <2>2, <2>4, <2>8, <2>10, <2>11, <2>12, <2>13, <2>14, ReturnInv
<1> QED BY <1>4, <1>5

LEMMA TransactionReturnsInv ==
    ASSUME Inv, NEW s \in Sessions, TransactionReturns(s)
    PROVE  Inv'
<1> PICK fn : fn = call[s].fn
    OBVIOUS
<1>1. /\ fn \in {"begin", "commit", "rollback", "end"}
      /\ Answered(s, fn) /\ Return(s) /\ received' = received
    BY DEF TransactionReturns
<1>2. /\ linked[s] /\ exchange[s].at = "response" /\ call[s].fn = fn
      /\ SessionInv(s) /\ Dialogue(s) /\ Ledger(s) /\ Sender(s) /\ Winner(s)
      /\ accepted' = accepted
    BY <1>1, AtAnswer
<1>3. opened[s] = view[s].handles
    BY <1>1, <1>2 DEF Dialogue, Responded
<1>4. CASE fn = "begin"
  <2>1. view' = [view EXCEPT ![s].began = TRUE] /\ outcome' = outcome /\ owned' = owned
      BY <1>4 DEF TransactionReturns
  <2>2. /\ \A t \in Sessions \ {s} : view'[t] = view[t]
        /\ view'[s].began = TRUE /\ view'[s].handles = view[s].handles
        /\ view'[s].pending = view[s].pending /\ view'[s].claims = view[s].claims
      BY <2>1 DEF Inv, StateTypeOK, Views
  <2>3. inTransaction[s] = TRUE
      BY <1>2, <1>4 DEF Dialogue, Responded
  <2>4. view' \in [Sessions -> Views]
    <3>1. view[s] \in Views BY DEF Inv, StateTypeOK
    <3>2. [view[s] EXCEPT !.began = TRUE] \in Views BY <3>1 DEF Views
    <3> QED BY <2>1, <3>2 DEF Inv, StateTypeOK
  <2>5. StateTypeOK' BY <1>1, <2>1, <2>4, TypesAtReturn DEF Inv, StateTypeOK
  <2>6. Expected(s)' = Expected(s) BY <2>2 DEF Expected, Pending, Claim
  <2>7. entries[s] = Expected(s) BY <1>2, <1>4 DEF Ledger
  <2>8. \A p \in view'[s].pending : outcome'[p[2]] = "pending" BY <1>2, <2>1, <2>2 DEF Sender
  <2>9. \A m \in Mine(s) : OutcomeFits(m)'
      BY <1>1, <1>2, <2>1, OutcomesStay DEF Mine
  <2>10. \A m \in Gained(s) : owned'[m] \in {0, 1} BY <1>2, <2>1 DEF Winner
  <2> QED BY <1>1, <1>2, <1>3, <2>1, <2>2, <2>3, <2>5, <2>6, <2>7, <2>8, <2>9, <2>10, ReturnInv
<1>5. CASE fn # "begin"
  <2>1. PICK what \in {"withdrawn", "kept"} :
            /\ what = IF fn = "rollback" THEN "withdrawn" ELSE "kept"
            /\ Become(Messages(view[s].pending), what)
      BY <1>5 DEF TransactionReturns
  <2>2. /\ view' = [view EXCEPT ![s] = [view[s] EXCEPT !.began = @ /\ fn # "end",
                                                       !.pending = {}, !.claims = {}]]
        /\ Own(IF fn = "rollback" THEN {} ELSE Messages(view[s].claims))
      BY <1>5 DEF TransactionReturns
  <2>3. /\ \A t \in Sessions \ {s} : view'[t] = view[t]
        /\ view'[s].began = (view[s].began /\ fn # "end") /\ view'[s].handles = view[s].handles
        /\ view'[s].pending = {} /\ view'[s].claims = {}
      BY <2>2 DEF Inv, StateTypeOK, Views
  <2>4. view' \in [Sessions -> Views]
    <3>1. view[s] \in Views BY DEF Inv, StateTypeOK
    <3>2. [view[s] EXCEPT !.began = @ /\ fn # "end", !.pending = {}, !.claims = {}] \in Views
        BY <3>1 DEF Views
    <3> QED BY <2>2, <3>2 DEF Inv, StateTypeOK
  <2>5. entries[s] = {} BY <1>1, <1>2, <1>5 DEF Ledger
  <2>6. view'[s].began = inTransaction[s]
    <3>1. inTransaction[s] \in BOOLEAN /\ view[s].began \in BOOLEAN
        BY DEF Inv, StateTypeOK, Views
    <3> QED BY <1>1, <1>2, <1>5, <2>3, <3>1 DEF Dialogue, Responded
  <2>7. Expected(s)' = {}
      BY <2>3 DEF Expected
  <2>8. \A m \in Msgs : outcome'[m] = IF \E p \in view[s].pending : p[2] = m
                                       THEN what ELSE outcome[m]
      BY <2>1 DEF Become, Messages
  <2>9. outcome' \in [Msgs -> OutcomeValues]
      BY <2>1 DEF Become, Inv, StateTypeOK, OutcomeValues
  <2>10. \A m \in Msgs \ Mine(s) : outcome'[m] = outcome[m] BY <2>8 DEF Mine
  <2>11. ASSUME NEW m \in Mine(s) PROVE OutcomeFits(m)'
    <3>1. m \in Msgs BY DEF Mine
    <3>2. CASE \E p \in view[s].pending : p[2] = m
      <4>1. PICK p \in view[s].pending : p[2] = m BY <3>2
      <4>2. m \in Kept <=> fn # "rollback"
          BY <1>1, <1>2, <1>5, <2>5, <4>1 DEF Sender, Ending
      <4>3. outcome'[m] = what BY <2>8, <3>1, <3>2
      <4> QED BY <1>1, <1>2, <2>1, <4>2, <4>3 DEF OutcomeFits, Kept
    <3>3. CASE ~\E p \in view[s].pending : p[2] = m
      <4>1. outcome'[m] = outcome[m] BY <2>8, <3>1, <3>3
      <4> QED BY <1>1, <1>2, <3>1, <4>1 DEF Inv, Outcomes, OutcomeFits, Kept
    <3> QED BY <3>2, <3>3
  <2>12. /\ \A m \in Msgs \ Gained(s) : owned'[m] = owned[m]
         /\ \A m \in Gained(s) : owned'[m] \in {0, 1}
         /\ owned' \in [Msgs -> Nat]
    <3>1. \A m \in Msgs : fn # "rollback" /\ (\E p \in view[s].claims : p[2] = m) => m \in Gained(s)
        BY <1>1, <1>2, <1>5, <2>5 DEF Gained, Ending
    <3>2. \A m \in Msgs : owned'[m] =
              IF fn # "rollback" /\ (\E p \in view[s].claims : p[2] = m) THEN owned[m] + 1 ELSE owned[m]
        BY <2>2 DEF Own, Messages
    <3>3. owned \in [Msgs -> Nat] BY DEF Inv, StateTypeOK
    <3>4. owned' \in [Msgs -> Nat] BY <2>2, <3>3 DEF Own
    <3> QED BY <1>2, <3>1, <3>2, <3>3, <3>4 DEF Winner, Gained
  <2>13. StateTypeOK' BY <1>1, <2>4, <2>9, <2>12, TypesAtReturn DEF Inv, StateTypeOK
  <2> QED BY <1>1, <1>2, <1>3, <2>3, <2>5, <2>6, <2>7, <2>10, <2>11, <2>12, <2>13, ReturnInv
<1> QED BY <1>4, <1>5

-----------------------------------------------------------------------------
(* The server's side                                                       *)

(* The thread serves its own session; the client is not told yet.          *)
LEMMA ServerStep ==
    ASSUME Inv, NEW s \in Sessions, Session(s), QueueInv', StateTypeOK', SessionInv(s)',
           \A t \in Sessions \ {s} :
              /\ exchange'[t] = exchange[t] /\ opened'[t] = opened[t]
              /\ entries'[t] = entries[t] /\ inTransaction'[t] = inTransaction[t]
              /\ holds'[t] = holds[t],
           Mine(s)' \subseteq Mine(s), Gained(s)' \subseteq Gained(s) \cup Range(accepted),
           \A m \in Msgs \ Mine(s) : m \in Kept' <=> m \in Kept,
           \A m \in received : m \in Range(accepted') => m \in Range(accepted)
    PROVE  Inv'
<1>1. UNCHANGED <<linked, call, thread, view, outcome, owned, received>>
    BY DEF Session, clientVars
<1>2. OwnAffairs(s)
    BY <1>1 DEF OwnAffairs, SameAt
<1>3. \A m \in Mine(s) \cup Mine(s)' : OutcomeFits(m)'
    BY <1>1, MineUndecided DEF Inv, SessionInv, OutcomeFits
<1>4. \A m \in Gained(s) : OwnedFits(m)'
    BY <1>1 DEF Inv, SessionInv, Winner, OwnedFits
<1> QED BY <1>2, <1>3, <1>4, SessionStep

LEMMA ServerTypes ==
    ASSUME Inv, NEW s \in Sessions, Session(s), exchange' \in [Sessions -> Exchanges],
           opened' \in [Sessions -> SUBSET Handles],
           entries' \in [Sessions -> SUBSET EntryRecords],
           inTransaction' \in [Sessions -> BOOLEAN]
    PROVE  StateTypeOK'
BY DEF Inv, StateTypeOK, Session, clientVars

LEMMA AnswerIs ==
    ASSUME Inv, NEW s \in Sessions, NEW ok \in BOOLEAN, Answer(s, ok)
    PROVE  /\ exchange' \in [Sessions -> Exchanges]
           /\ \A t \in Sessions \ {s} : exchange'[t] = exchange[t]
           /\ ~linked[s] => exchange'[s] = Silence
           /\ linked[s] => /\ exchange'[s].at = "response" /\ exchange'[s].ok = ok
                           /\ exchange'[s].cmd = exchange[s].cmd
                           /\ exchange'[s].handle = exchange[s].handle
                           /\ exchange'[s].msg = exchange[s].msg
<1>1. exchange \in [Sessions -> Exchanges] /\ exchange[s] \in Exchanges
    BY DEF Inv, StateTypeOK
<1>2. Silence \in Exchanges
    BY ClientAssumption DEF Silence, Exchanges, Stages, Functions
<1>3. [exchange[s] EXCEPT !.at = "response", !.ok = ok] \in Exchanges
    BY <1>1 DEF Exchanges, Stages
<1> QED BY <1>1, <1>2, <1>3 DEF Answer, Exchanges

(* What the session is like when its thread is at work for its client, who *)
(* does not notice.                                                        *)
AtWork(s) ==
    /\ SessionInv(s) /\ Lifeline(s) /\ InHand(s) /\ Books(s) /\ Sender(s)
    /\ Winner(s) /\ Dialogue(s) /\ Ledger(s)
    /\ linked'[s] = linked[s] /\ call'[s] = call[s] /\ thread'[s] = thread[s]
    /\ view'[s] = view[s] /\ outcome' = outcome /\ owned' = owned
    /\ received' = received
    /\ Expected(s)' = Expected(s)
    /\ view[s].began \in BOOLEAN /\ inTransaction[s] \in BOOLEAN
    /\ linked[s] /\ exchange[s].at # "none" => call[s].fn = exchange[s].cmd
    /\ ~linked[s] => call[s].fn = "none"

LEMMA WorkUnnoticed ==
    ASSUME Inv, NEW s \in Sessions, Session(s)
    PROVE  AtWork(s)
<1>1. UNCHANGED <<linked, call, thread, view, outcome, owned, received>>
    BY DEF Session, clientVars
<1>2. Expected(s)' = Expected(s)
    BY <1>1 DEF Expected, Pending, Claim
<1>3. SessionInv(s) BY DEF Inv
<1>4. ~linked[s] => call[s].fn = "none" BY <1>3 DEF SessionInv, Lifeline, NoCall
<1>5. linked[s] /\ exchange[s].at # "none" => call[s].fn = exchange[s].cmd
    BY <1>3 DEF SessionInv, Dialogue, Silence
<1>6. view[s].began \in BOOLEAN /\ inTransaction[s] \in BOOLEAN
    BY DEF Inv, StateTypeOK, Views
<1> QED BY <1>1, <1>2, <1>3, <1>4, <1>5, <1>6 DEF SessionInv, AtWork

(* Lifeline, and who sends and receives what, after a command was answered *)
(* or is being served.                                                     *)
LEMMA LifelineStays ==
    ASSUME Inv, NEW s \in Sessions, Session(s),
           thread[s] = "running" \/ (thread[s] = "ending" /\ exchange'[s] = exchange[s]),
           exchange'[s].cmd \in {exchange[s].cmd, "none"},
           linked[s] \/ exchange'[s].at # "response"
    PROVE  Lifeline(s)'
BY WorkUnnoticed DEF AtWork, Lifeline, Ending

LEMMA MineStays ==
    ASSUME Inv, NEW s \in Sessions, Session(s), entries'[s] = entries[s],
           exchange'[s].cmd = "enqueue" =>
               exchange[s].cmd = "enqueue" /\ exchange'[s].msg = exchange[s].msg
    PROVE  Mine(s)' \subseteq Mine(s)
BY WorkUnnoticed DEF AtWork, Mine

LEMMA QueueOpenCmdInv ==
    ASSUME Inv, NEW s \in Sessions, QueueOpenCmd(s)
    PROVE  Inv'
<1> PICK new : new = IF opened[s] = {} THEN 1 ELSE Max(opened[s]) + 1
    OBVIOUS
<1>1. /\ thread[s] = "running" /\ exchange[s].at = "request" /\ exchange[s].cmd = "open"
      /\ new \in Handles /\ opened' = [opened EXCEPT ![s] = @ \cup {new}]
      /\ exchange' = [exchange EXCEPT ![s] =
            IF linked[s] THEN [@ EXCEPT !.at = "response", !.ok = TRUE, !.handle = new]
            ELSE Silence]
      /\ Session(s) /\ UNCHANGED <<queueVars, entries, inTransaction>>
    BY DEF QueueOpenCmd, Asked
<1> USE DEF AtWork
<1>0. AtWork(s) BY <1>1, WorkUnnoticed
<1>2. exchange' \in [Sessions -> Exchanges]
  <2>1. Silence \in Exchanges
      BY ClientAssumption DEF Silence, Exchanges, Stages, Functions
  <2>2. exchange[s] \in Exchanges BY DEF Inv, StateTypeOK
  <2>3. new \in 0 .. MaxHandle BY <1>1, ClientAssumption DEF Handles
  <2>4. [exchange[s] EXCEPT !.at = "response", !.ok = TRUE, !.handle = new] \in Exchanges
      BY <2>2, <2>3 DEF Exchanges, Stages
  <2> QED BY <1>1, <2>1, <2>4 DEF Inv, StateTypeOK
<1>3. /\ \A t \in Sessions \ {s} : SameAt(t)
      /\ opened'[s] = opened[s] \cup {new} /\ entries'[s] = entries[s]
      /\ inTransaction'[s] = inTransaction[s]
      /\ holds'[s] = holds[s]
      /\ UNCHANGED <<accepted, ready, holds, up, outcome, owned, received>>
    BY <1>1 DEF SameAt, Session, Inv, StateTypeOK, queueVars, clientVars
<1>4. /\ ~linked[s] => exchange'[s] = Silence
      /\ linked[s] => /\ exchange'[s].at = "response" /\ exchange'[s].ok = TRUE
                      /\ exchange'[s].cmd = "open" /\ exchange'[s].handle = new
    BY <1>1 DEF Inv, StateTypeOK, Exchanges
<1>5. StateTypeOK'
  <2>1. opened' \in [Sessions -> SUBSET Handles] BY <1>1 DEF Inv, StateTypeOK
  <2>2. entries' \in [Sessions -> SUBSET EntryRecords] /\ inTransaction' \in [Sessions -> BOOLEAN]
      BY <1>1 DEF Inv, StateTypeOK
  <2>3. Session(s) BY <1>1
  <2> QED BY <1>2, <2>1, <2>2, <2>3, ServerTypes
<1>6. exchange'[s].cmd \in {"open", "none"} BY <1>4 DEF Silence
<1>7. Mine(s)' \subseteq Mine(s) BY <1>1, <1>3, <1>6, MineStays
<1>8. Gained(s)' = {}
  <2>1. call'[s].fn \in {"open", "none"} BY <1>1, <1>0
  <2> QED BY <2>1 DEF Gained, Ending
<1>9. SessionInv(s)'
  <2>1. Lifeline(s)'
    <3>1. exchange'[s].cmd \in {exchange[s].cmd, "none"} BY <1>1, <1>6
    <3>2. linked[s] \/ exchange'[s].at # "response" BY <1>4 DEF Silence
    <3>3. Session(s) /\ thread[s] = "running" BY <1>1
    <3> QED BY <3>1, <3>2, <3>3, LifelineStays
  <2>2. InHand(s)' BY <1>4 DEF InHand, Silence
  <2>3. Books(s)' BY <1>1, <1>3, <1>4, <1>0 DEF Books, Silence
  <2>4. Sender(s)'
    <3>1. \A p : Pending(p)' = Pending(p) BY DEF Pending
    <3> QED BY <1>1, <1>3, <1>6, <3>1, <1>0 DEF Sender, Kept
  <2>5. Winner(s)' BY <1>8 DEF Winner
  <2>6. ASSUME linked[s]
        PROVE  call'[s].fn = "open" /\ call[s].fn = "open" /\ exchange'[s].at = "response"
      BY <1>1, <1>4, <2>6, <1>0
  <2>7. Dialogue(s)'
    <3> SUFFICES ASSUME linked[s] PROVE Dialogue(s)'
        BY <1>1, <1>0 DEF Dialogue
    <3>1. /\ Responded(s, "open")'
          /\ \A fn \in {"begin", "end", "close", "enqueue", "retrieve", "ack"} : ~Responded(s, fn)'
        BY <2>6 DEF Responded
    <3>2. \A fn : ~Responded(s, fn) BY <1>1 DEF Responded
    <3>3. /\ inTransaction[s] = view[s].began /\ opened[s] = view[s].handles
          /\ \A p \in view[s].pending \cup view[s].claims : p[1] \in view[s].handles
          /\ ~view[s].began => view[s].pending = {} /\ view[s].claims = {}
        BY <1>1, <3>2, <1>0 DEF Dialogue
    <3>4. /\ view'[s] = view[s] /\ view[s].began \in BOOLEAN
        BY <1>1, <1>0
    <3>5. /\ call'[s].fn = "open" /\ exchange'[s].at = "response" /\ exchange'[s].ok
          /\ exchange'[s].cmd = "open"
        BY <1>4, <2>6
    <3>6. opened'[s] = view'[s].handles \cup {exchange'[s].handle} BY <1>3, <1>4, <3>3, <3>4
    <3>7. inTransaction'[s] = view'[s].began /\ view'[s].began \in BOOLEAN BY <1>3, <3>3, <3>4
    <3>8. /\ \A p \in view'[s].pending \cup view'[s].claims : p[1] \in view'[s].handles
          /\ ~view'[s].began => view'[s].pending = {} /\ view'[s].claims = {}
        BY <3>3, <3>4
    <3> QED BY <3>1, <3>5, <3>6, <3>7, <3>8 DEF Dialogue
  <2>8. Ledger(s)'
    <3> SUFFICES ASSUME linked[s] PROVE Ledger(s)'
        BY <1>1, <1>0 DEF Ledger
    <3>1. entries'[s] = Expected(s)' BY <1>1, <1>3, <2>6, <1>0 DEF Ledger
    <3> QED BY <2>6, <3>1 DEF Ledger
  <2> QED BY <2>1, <2>2, <2>3, <2>4, <2>5, <2>7, <2>8 DEF SessionInv
<1> QED BY <1>3, <1>5, <1>7, <1>8, <1>9, QuietStep

(* Nothing that a thread may change is changed for another session.        *)
Elsewhere(s) ==
    \A t \in Sessions \ {s} :
        /\ exchange'[t] = exchange[t] /\ opened'[t] = opened[t]
        /\ entries'[t] = entries[t] /\ inTransaction'[t] = inTransaction[t]
        /\ holds'[t] = holds[t]

(* What remains to be shown of a command in progress: how the books are    *)
(* kept, and that they are what the client will expect.                    *)
LEMMA WorkInv ==
    ASSUME Inv, NEW s \in Sessions, Session(s), QueueInv', StateTypeOK', Elsewhere(s),
           thread[s] = "running" \/ (thread[s] = "ending" /\ exchange'[s] = exchange[s]),
           exchange'[s].cmd \in {exchange[s].cmd, "none"}, exchange[s].cmd # "ack",
           linked[s] \/ exchange'[s].at # "response",
           exchange'[s].cmd = "enqueue" => exchange'[s].msg = exchange[s].msg,
           \A e \in entries'[s] : e.kind = "enqueue" =>
              e \in entries[s] \/ (exchange[s].cmd = "enqueue" /\ e.msg = exchange[s].msg),
           \A p \in view[s].pending : Pending(p) \notin entries'[s] =>
              (p[2] \in Kept' <=> call[s].fn \in Ending),
           \A p \in view[s].claims : Claim(p) \in entries[s] => Claim(p) \in entries'[s],
           \A m \in Msgs \ Mine(s) : m \in Kept' <=> m \in Kept,
           \A m \in received : m \in Range(accepted') => m \in Range(accepted),
           InHand(s)', Books(s)', Dialogue(s)', Ledger(s)'
    PROVE  Inv'
<1> USE DEF AtWork
<1>0. AtWork(s) BY WorkUnnoticed
<1>1. exchange'[s].cmd = "enqueue" => exchange[s].cmd = "enqueue"
    OBVIOUS
<1>2. Lifeline(s)' BY LifelineStays
<1>3. Mine(s)' \subseteq Mine(s)
    BY <1>0, <1>1 DEF Mine
<1>4. Sender(s)'
  <2>1. \A p : Pending(p)' = Pending(p) BY DEF Pending
  <2>2. \A e \in entries'[s] : e.kind = "enqueue" =>
            outcome[e.msg] \in {"calling", "pending", "doubt"}
      BY <1>0 DEF Sender
  <2> QED BY <1>0, <1>1, <2>1, <2>2 DEF Sender
<1>5. Gained(s)' \subseteq Gained(s)
  <2>1. \A p : Claim(p)' = Claim(p) BY DEF Claim
  <2>2. call[s].fn = "ack" => exchange'[s].at # "response"
    <3>1. CASE linked[s] /\ exchange[s].at # "none" BY <1>0, <3>1
    <3>2. CASE linked[s] /\ exchange[s].at = "none"
      <4>1. call[s].fn = "none" BY <1>0, <3>2 DEF Dialogue
      <4> QED BY <4>1
    <3>3. CASE ~linked[s] BY <1>0, <3>3
    <3> QED BY <3>1, <3>2, <3>3
  <2> QED BY <1>0, <2>1, <2>2 DEF Gained
<1>6. Winner(s)'
    BY <1>0, <1>5 DEF Winner
<1>7. SessionInv(s)' BY <1>2, <1>4, <1>6 DEF SessionInv
<1> QED BY <1>3, <1>5, <1>7, ServerStep DEF Elsewhere

(* A command goes on: the client has nothing to read.                      *)
LEMMA StillServing ==
    ASSUME Inv, NEW s \in Sessions, AtWork(s), exchange[s].at \notin {"none", "response"},
           exchange'[s].at \notin {"none", "response"}, exchange'[s].cmd = exchange[s].cmd,
           exchange'[s].handle = exchange[s].handle,
           exchange[s].cmd \in {"enqueue", "ack"} => exchange'[s].msg = exchange[s].msg,
           opened'[s] = opened[s], inTransaction'[s] = inTransaction[s]
    PROVE  Dialogue(s)'
<1> SUFFICES ASSUME linked[s] PROVE Dialogue(s)'
    BY DEF Dialogue, AtWork
<1>1. Dialogue(s) /\ call'[s] = call[s] /\ view'[s] = view[s] /\ received' = received
      /\ call[s].fn = exchange[s].cmd
    BY DEF AtWork
<1>2. \A fn : ~Responded(s, fn) /\ ~Responded(s, fn)'
    BY DEF Responded
<1>3. /\ inTransaction[s] = view[s].began /\ view[s].began \in BOOLEAN
      /\ opened[s] = view[s].handles
      /\ \A p \in view[s].pending \cup view[s].claims : p[1] \in view[s].handles
      /\ ~view[s].began => view[s].pending = {} /\ view[s].claims = {}
      /\ call[s].fn = "open" \/ exchange[s].handle = call[s].handle
      /\ call[s].fn \in {"enqueue", "ack"} => exchange[s].msg = call[s].msg
      /\ call[s].fn = "ack" => call[s].msg \in received
      /\ call[s].fn # "none"
    BY <1>1, <1>2 DEF Dialogue, AtWork, Silence
<1>4. /\ inTransaction'[s] = view'[s].began /\ view'[s].began \in BOOLEAN
      /\ opened'[s] = view'[s].handles
    BY <1>1, <1>3
<1> QED BY <1>1, <1>2, <1>3, <1>4 DEF Dialogue

(* A command is answered.                                                  *)
LEMMA AnsweredDialogue ==
    ASSUME Inv, NEW s \in Sessions, AtWork(s), exchange[s].at \notin {"none", "response"},
           exchange[s].cmd # "open", NEW ok \in BOOLEAN, Answer(s, ok), linked[s],
           inTransaction'[s] = (exchange[s].cmd = "begin" \/ (view[s].began /\ exchange[s].cmd # "end")),
           opened'[s] = IF exchange[s].cmd = "close" /\ ok THEN view[s].handles \ {exchange[s].handle}
                        ELSE view[s].handles,
           exchange[s].cmd = "enqueue" => /\ ok /\ ~inTransaction'[s] => exchange[s].msg \in Kept'
                                          /\ ~ok => exchange[s].msg \notin Kept',
           exchange[s].cmd = "retrieve" /\ ok => exchange[s].msg \in Msgs,
           exchange[s].cmd = "ack" => ok
    PROVE  Dialogue(s)'
<1>1. Dialogue(s) /\ call'[s] = call[s] /\ view'[s] = view[s] /\ received' = received
      /\ call[s].fn = exchange[s].cmd
    BY DEF AtWork
<1>2. /\ exchange'[s].at = "response" /\ exchange'[s].ok = ok
      /\ exchange'[s].cmd = exchange[s].cmd /\ exchange'[s].msg = exchange[s].msg
      /\ exchange'[s].handle = exchange[s].handle
    BY AnswerIs
<1>3. \A fn : Responded(s, fn)' <=> fn = exchange[s].cmd
    BY <1>1, <1>2 DEF Responded
<1>4. /\ \A p \in view[s].pending \cup view[s].claims : p[1] \in view[s].handles
      /\ ~view[s].began => view[s].pending = {} /\ view[s].claims = {}
      /\ exchange[s].handle = call[s].handle
      /\ call[s].fn \in {"enqueue", "ack"} => exchange[s].msg = call[s].msg
      /\ call[s].fn = "ack" => call[s].msg \in received
      /\ call[s].fn # "none"
    BY <1>1 DEF Dialogue, Silence
<1>5. inTransaction'[s] = (Responded(s, "begin")' \/ (view'[s].began /\ ~Responded(s, "end")'))
    BY <1>1, <1>3
<1>6. opened'[s] = IF Responded(s, "open")' /\ exchange'[s].ok THEN view'[s].handles \cup {exchange'[s].handle}
                   ELSE IF Responded(s, "close")' /\ exchange'[s].ok THEN view'[s].handles \ {call'[s].handle}
                   ELSE view'[s].handles
    BY <1>1, <1>2, <1>3, <1>4
<1>7. /\ Responded(s, "enqueue")' => (exchange'[s].ok /\ ~inTransaction'[s] => call'[s].msg \in Kept')
                                  /\ (~exchange'[s].ok => call'[s].msg \notin Kept')
      /\ Responded(s, "retrieve")' /\ exchange'[s].ok => exchange'[s].msg \in Msgs
      /\ Responded(s, "ack")' => exchange'[s].ok
    BY <1>1, <1>2, <1>3, <1>4
<1> QED BY <1>1, <1>2, <1>4, <1>5, <1>6, <1>7 DEF Dialogue

(* Nothing of this concerns a session without a client.                    *)
LEMMA Unheard ==
    ASSUME NEW s \in Sessions, AtWork(s), ~linked[s]
    PROVE  Dialogue(s)' /\ Ledger(s)'
BY DEF AtWork, Dialogue, Ledger

LEMMA NotOpenInv ==
    ASSUME Inv, NEW s \in Sessions, NotOpen(s)
    PROVE  Inv'
<1> USE DEF AtWork
<1>1. /\ thread[s] = "running" /\ exchange[s].at = "request"
      /\ exchange[s].cmd \in {"close", "enqueue", "retrieve"}
      /\ exchange[s].handle \notin opened[s] /\ Answer(s, FALSE) /\ Session(s)
      /\ UNCHANGED <<accepted, ready, holds, up, opened, entries, inTransaction>>
    BY DEF NotOpen, Asked, IsOpen, queueVars
<1>2. AtWork(s) BY <1>1, WorkUnnoticed
<1>3. /\ exchange' \in [Sessions -> Exchanges]
      /\ \A t \in Sessions \ {s} : exchange'[t] = exchange[t]
      /\ ~linked[s] => exchange'[s] = Silence
      /\ linked[s] => /\ exchange'[s].at = "response" /\ exchange'[s].ok = FALSE
                      /\ exchange'[s].cmd = exchange[s].cmd
                      /\ exchange'[s].handle = exchange[s].handle
                      /\ exchange'[s].msg = exchange[s].msg
    BY <1>1, AnswerIs
<1>4. QueueInv' BY <1>1, SameQueue DEF Inv
<1>5. StateTypeOK' BY <1>1, <1>3, ServerTypes DEF Inv, StateTypeOK
<1>6. Kept' = Kept BY <1>1, <1>2 DEF Kept
<1>7. Elsewhere(s) BY <1>1, <1>3 DEF Elsewhere
<1>8. InHand(s)' BY <1>1, <1>2, <1>3 DEF InHand, Silence
<1>9. Books(s)' BY <1>1, <1>2 DEF Books
<1>10. CASE ~linked[s]
  <2>1. Dialogue(s)' /\ Ledger(s)' BY <1>2, <1>10, Unheard
  <2> QED BY <1>1, <1>2, <1>3, <1>4, <1>5, <1>6, <1>7, <1>8, <1>9, <1>10, <2>1, WorkInv DEF Sender, Silence
<1>11. CASE linked[s]
  <2>1. /\ \A fn : ~Responded(s, fn) BY <1>1 DEF Responded
  <2>2. /\ opened[s] = view[s].handles /\ inTransaction[s] = view[s].began
        /\ exchange[s].handle = call[s].handle /\ call[s].fn = exchange[s].cmd
        /\ \A p \in view[s].pending \cup view[s].claims : p[1] \in view[s].handles
      BY <1>1, <1>2, <1>11, <2>1 DEF Dialogue
  <2>3. exchange[s].cmd = "enqueue" => exchange[s].msg \notin Kept BY <1>1, <1>2 DEF InHand
  <2>4. Dialogue(s)' BY <1>1, <1>2, <1>6, <1>11, <2>2, <2>3, AnsweredDialogue
  <2>5. entries[s] = Expected(s)
    <3>1. \A e \in Expected(s) : e.handle # call[s].handle
        BY <1>1, <2>2 DEF Expected, Pending, Claim, Entry
    <3> QED BY <1>1, <1>2, <1>11, <2>2, <3>1 DEF Ledger
  <2>6. \A e \in Expected(s) : e.handle # call[s].handle => e \in entries[s] BY <2>5
  <2>7. Ledger(s)'
    <3>1. entries'[s] = Expected(s)' BY <1>1, <1>2, <2>5
    <3>2. call'[s].fn \in {"close", "enqueue", "retrieve"} /\ exchange'[s].at = "response"
          /\ ~exchange'[s].ok
        BY <1>1, <1>2, <1>3, <1>11, <2>2
    <3> QED BY <3>1, <3>2 DEF Ledger
  <2> QED BY <1>1, <1>2, <1>3, <1>4, <1>5, <1>6, <1>7, <1>8, <1>9, <1>11, <2>4, <2>7, WorkInv DEF Sender
<1> QED BY <1>10, <1>11

LEMMA EnqueueCmdInv ==
    ASSUME Inv, NEW s \in Sessions, EnqueueCmd(s)
    PROVE  Inv'
<1> USE DEF AtWork
<1> PICK m : m = exchange[s].msg
    OBVIOUS
<1>1. /\ thread[s] = "running" /\ exchange[s].at = "request" /\ exchange[s].cmd = "enqueue"
      /\ exchange[s].handle \in opened[s] /\ Store(s, m) /\ Stage(s, "publish") /\ Session(s)
      /\ UNCHANGED <<opened, entries, inTransaction>>
    BY DEF EnqueueCmd, Asked, IsOpen
<1>2. AtWork(s) BY <1>1, WorkUnnoticed
<1>3. m \in Msgs /\ m \notin Kept BY <1>1, <1>2 DEF InHand
<1>4. QueueInv' /\ Range(accepted') = Range(accepted) \cup {m}
    BY <1>1, <1>3, StoreInv DEF Inv
<1>5. /\ exchange'[s].at = "publish" /\ exchange'[s].cmd = "enqueue"
      /\ exchange'[s].handle = exchange[s].handle /\ exchange'[s].msg = m
      /\ exchange' \in [Sessions -> Exchanges]
  <2>1. exchange[s] \in Exchanges BY DEF Inv, StateTypeOK
  <2>2. [exchange[s] EXCEPT !.at = "publish"] \in Exchanges BY <2>1 DEF Exchanges, Stages
  <2>3. exchange' = [exchange EXCEPT ![s] = [exchange[s] EXCEPT !.at = "publish"]]
      BY <1>1 DEF Stage
  <2>4. exchange' \in [Sessions -> Exchanges] BY <2>2, <2>3 DEF Inv, StateTypeOK
  <2>5. exchange'[s] = [exchange[s] EXCEPT !.at = "publish"] BY <2>3 DEF Inv, StateTypeOK
  <2> QED BY <1>1, <2>1, <2>4, <2>5 DEF Exchanges
<1>6. StateTypeOK' BY <1>1, <1>5, ServerTypes DEF Inv, StateTypeOK
<1>7. Elsewhere(s)
    BY <1>1 DEF Elsewhere, Stage, Store, Hold, Inv, StateTypeOK, QueueInv
<1>8. holds'[s] = holds[s] \cup {m} BY <1>1 DEF Store, Hold, Inv, QueueInv
<1>9. \A e \in entries[s] : e.msg # m
    BY <1>2, <1>3 DEF Books, Inv, QueueInv, Kept
<1>10. InHand(s)'
    BY <1>1, <1>2, <1>3, <1>5, <1>8, <1>9 DEF InHand, Kept
<1>11. Books(s)'
    BY <1>1, <1>2, <1>5, <1>8 DEF Books
<1>12. \A p \in view[s].pending : p[2] # m
    BY <1>1, <1>2 DEF Sender
<1>13. Dialogue(s)' BY <1>1, <1>2, <1>5, StillServing
<1>14. Ledger(s)'
  <2> SUFFICES ASSUME linked[s] PROVE Ledger(s)' BY <1>2 DEF Ledger
  <2>1. call[s].fn = "enqueue" /\ entries[s] = Expected(s) BY <1>1, <1>2 DEF Ledger
  <2> QED BY <1>1, <1>2, <1>5, <2>1 DEF Ledger
<1>15. \A n : n # m => (n \in Kept' <=> n \in Kept)
    BY <1>2, <1>4 DEF Kept
<1>16. m \in Mine(s) BY <1>1, <1>3 DEF Mine
<1>17. \A n \in received : n # m BY <1>3 DEF Kept
<1>18. /\ \A p \in view[s].pending : Pending(p) \notin entries'[s] =>
              (p[2] \in Kept' <=> call[s].fn \in Ending)
       /\ \A n \in Msgs \ Mine(s) : n \in Kept' <=> n \in Kept
       /\ \A n \in received : n \in Range(accepted') => n \in Range(accepted)
    BY <1>1, <1>2, <1>4, <1>12, <1>15, <1>16, <1>17 DEF Sender
<1> QED BY <1>1, <1>2, <1>4, <1>5, <1>6, <1>7, <1>10, <1>11, <1>13, <1>14, <1>18, WorkInv

(* What is in hand becomes an entry.                                       *)
LEMMA EntryAdded ==
    ASSUME NEW s \in Sessions, AtWork(s), exchange[s].at \in {"publish", "send"},
           NEW new, entries'[s] = entries[s] \cup {new}, opened'[s] = opened[s],
           holds'[s] = holds[s],
           new.msg = exchange[s].msg, new.handle = exchange[s].handle,
           \/ new.kind = "enqueue" /\ new.commitable /\ exchange[s].msg \notin received
           \/ new.kind = "retrieve" /\ ~new.commitable
    PROVE  Books(s)'
<1> USE DEF AtWork
<1>1. /\ exchange[s].handle \in opened[s] /\ exchange[s].msg \in holds[s]
      /\ \A e \in entries[s] : e.msg # exchange[s].msg
    BY DEF InHand
<1>2. \A n \in holds[s] : n # exchange[s].msg => \E e \in entries[s] : e.msg = n
    BY DEF Books
<1>3. \A e, f \in entries'[s] : e.msg = f.msg => e = f
    BY <1>1 DEF Books
<1>4. \A n \in holds'[s] : \E e \in entries'[s] : e.msg = n
    BY <1>2
<1>5. \A e \in entries[s] :
          /\ e.handle \in opened[s] /\ e.msg \in holds[s]
          /\ e.kind = "enqueue" => e.commitable /\ e.msg \notin received
          /\ e.kind = "retrieve" /\ e.commitable => e.msg \in received
    BY DEF Books
<1>6. \A e \in entries'[s] :
          /\ e.handle \in opened'[s] /\ e.msg \in holds'[s]
          /\ e.kind = "enqueue" => e.commitable /\ e.msg \notin received'
          /\ e.kind = "retrieve" /\ e.commitable => e.msg \in received'
    BY <1>1, <1>5
<1> QED BY <1>3, <1>4, <1>6 DEF Books

LEMMA PublishInv ==
    ASSUME Inv, NEW s \in Sessions, Publish(s)
    PROVE  Inv'
<1> USE DEF AtWork
<1> PICK m, h : m = exchange[s].msg /\ h = exchange[s].handle
    OBVIOUS
<1>1. /\ thread[s] = "running" /\ exchange[s].at = "publish"
      /\ Answer(s, TRUE) /\ Session(s) /\ UNCHANGED <<opened, inTransaction>>
    BY DEF Publish, At
<1>2. AtWork(s) BY <1>1, WorkUnnoticed
<1>3. /\ exchange[s].cmd = "enqueue" /\ m \in Msgs /\ m \in holds[s] /\ m \notin received
      /\ h \in opened[s] /\ h \in Handles /\ \A e \in entries[s] : e.msg # m
      /\ m \in Range(accepted)
  <2>1. /\ exchange[s].cmd = "enqueue" /\ m \in Msgs /\ m \in holds[s] /\ m \notin received
        /\ h \in opened[s] /\ \A e \in entries[s] : e.msg # m
      BY <1>1, <1>2 DEF InHand
  <2> QED BY <2>1 DEF Inv, StateTypeOK, QueueInv
<1>4. /\ exchange' \in [Sessions -> Exchanges]
      /\ \A t \in Sessions \ {s} : exchange'[t] = exchange[t]
      /\ ~linked[s] => exchange'[s] = Silence
      /\ linked[s] => /\ exchange'[s].at = "response" /\ exchange'[s].ok = TRUE
                      /\ exchange'[s].cmd = "enqueue" /\ exchange'[s].handle = h
                      /\ exchange'[s].msg = m
    BY <1>1, <1>3, AnswerIs
<1>5. /\ exchange'[s].cmd \in {"enqueue", "none"} /\ exchange'[s].at \in {"response", "none"}
      /\ exchange'[s].cmd = "enqueue" => exchange'[s].msg = m
      /\ linked[s] \/ exchange'[s].at # "response"
    BY <1>4 DEF Silence
<1>6. InHand(s)' BY <1>3, <1>4 DEF InHand, Silence
<1>7. linked[s] => /\ entries[s] = Expected(s) /\ call[s].fn = "enqueue"
                   /\ opened[s] = view[s].handles /\ inTransaction[s] = view[s].began
                   /\ call[s].handle = h /\ call[s].msg = m
  <2> SUFFICES ASSUME linked[s]
               PROVE  /\ entries[s] = Expected(s) /\ call[s].fn = "enqueue"
                      /\ opened[s] = view[s].handles /\ inTransaction[s] = view[s].began
                      /\ call[s].handle = h /\ call[s].msg = m
      OBVIOUS
  <2>1. call[s].fn = "enqueue" BY <1>1, <1>2, <1>3
  <2>2. \A fn : ~Responded(s, fn) BY <1>1 DEF Responded
  <2> QED BY <1>1, <1>2, <2>1, <2>2 DEF Dialogue, Ledger
<1>8. \A p \in view[s].pending : p[2] # m
    BY <1>2, <1>3 DEF Sender
<1>9. CASE inTransaction[s]
  <2>1. /\ entries' = [entries EXCEPT ![s] = @ \cup {Entry(h, m, "enqueue", TRUE)}]
        /\ UNCHANGED <<accepted, ready, holds, up>>
      BY <1>9 DEF Publish, Add, queueVars
  <2>2. entries'[s] = entries[s] \cup {Entry(h, m, "enqueue", TRUE)}
      BY <2>1 DEF Inv, StateTypeOK
  <2>3. entries' \in [Sessions -> SUBSET EntryRecords]
    <3>1. Entry(h, m, "enqueue", TRUE) \in EntryRecords BY <1>3 DEF Entry, EntryRecords
    <3> QED BY <2>1, <3>1 DEF Inv, StateTypeOK
  <2>4. QueueInv' BY <2>1, SameQueue DEF Inv
  <2>5. StateTypeOK' BY <1>1, <1>4, <2>3, ServerTypes DEF Inv, StateTypeOK
  <2>6. Elsewhere(s) BY <1>1, <1>4, <2>1 DEF Elsewhere, Inv, StateTypeOK
  <2>7. Books(s)'
    <3>1. Entry(h, m, "enqueue", TRUE).msg = m /\ Entry(h, m, "enqueue", TRUE).handle = h
          /\ Entry(h, m, "enqueue", TRUE).kind = "enqueue"
          /\ Entry(h, m, "enqueue", TRUE).commitable = TRUE
        BY DEF Entry
    <3> QED BY <1>1, <1>2, <1>3, <2>1, <2>2, <3>1, EntryAdded
  <2>8. Dialogue(s)' /\ Ledger(s)'
    <3>1. CASE ~linked[s] BY <1>2, <3>1, Unheard
    <3>2. CASE linked[s]
      <4>1. Dialogue(s)'
          BY <1>1, <1>2, <1>3, <1>7, <1>9, <3>2, AnsweredDialogue
      <4>2. entries'[s] = Expected(s)' \cup {Entry(h, m, "enqueue", TRUE)}
          BY <1>2, <1>7, <2>2, <3>2
      <4>3. /\ call'[s].fn = "enqueue" /\ call'[s].handle = h /\ call'[s].msg = m
            /\ inTransaction'[s]
          BY <1>1, <1>2, <1>7, <1>9, <3>2
      <4>4. Entry(h, m, "enqueue", TRUE) = Entry(call[s].handle, call[s].msg, "enqueue", TRUE)'
          BY <4>3 DEF Entry
      <4> QED BY <1>4, <3>2, <4>1, <4>2, <4>3, <4>4 DEF Ledger
    <3> QED BY <3>1, <3>2
  <2>9. Kept' = Kept BY <1>2, <2>1 DEF Kept
  <2>10. \A e \in entries'[s] : e.kind = "enqueue" => e \in entries[s] \/ e.msg = m
      BY <2>2 DEF Entry
  <2>11. /\ \A p \in view[s].pending : Pending(p) \notin entries'[s] =>
                (p[2] \in Kept' <=> call[s].fn \in Ending)
         /\ \A p \in view[s].claims : Claim(p) \in entries[s] => Claim(p) \in entries'[s]
      BY <1>2, <2>2, <2>9 DEF Sender
  <2> QED BY <1>1, <1>3, <1>5, <1>6, <2>1, <2>4, <2>5, <2>6, <2>7, <2>8, <2>9, <2>10, <2>11, WorkInv
<1>10. CASE ~inTransaction[s]
  <2>1. Release(s, m) /\ entries' = entries
      BY <1>10 DEF Publish
  <2>2. QueueInv' BY <2>1, ReleaseInv DEF Inv
  <2>3. /\ accepted' = accepted /\ holds'[s] = holds[s] \ {m}
        /\ \A t \in Sessions \ {s} : holds'[t] = holds[t]
      BY <2>1 DEF Release, Drop, Inv, QueueInv
  <2>4. StateTypeOK' BY <1>1, <1>4, <2>1, ServerTypes DEF Inv, StateTypeOK
  <2>5. Elsewhere(s) BY <1>1, <1>4, <2>1, <2>3 DEF Elsewhere
  <2>6. Books(s)' BY <1>1, <1>2, <1>3, <2>1, <2>3 DEF Books
  <2>7. Kept' = Kept BY <1>2, <2>3 DEF Kept
  <2>8. Dialogue(s)' /\ Ledger(s)'
    <3>1. CASE ~linked[s] BY <1>2, <3>1, Unheard
    <3>2. CASE linked[s]
      <4>1. m \in Kept' BY <1>3, <2>7 DEF Kept
      <4>2. Dialogue(s)'
          BY <1>1, <1>2, <1>3, <1>7, <3>2, <4>1, AnsweredDialogue
      <4>3. entries'[s] = Expected(s)' /\ call'[s].fn = "enqueue" /\ ~inTransaction'[s]
          BY <1>1, <1>2, <1>7, <1>10, <2>1, <3>2
      <4> QED BY <4>2, <4>3 DEF Ledger
    <3> QED BY <3>1, <3>2
  <2>9. /\ \A p \in view[s].pending : Pending(p) \notin entries'[s] =>
               (p[2] \in Kept' <=> call[s].fn \in Ending)
      BY <1>2, <2>1, <2>7 DEF Sender
  <2> QED BY <1>1, <1>3, <1>5, <1>6, <2>1, <2>2, <2>3, <2>4, <2>5, <2>6, <2>7, <2>8, <2>9, WorkInv
<1> QED BY <1>9, <1>10

(* A message is taken for the reader, or there is none.                    *)
LEMMA RetrieveCmdInv ==
    ASSUME Inv, NEW s \in Sessions, RetrieveCmd(s)
    PROVE  Inv'
<1> USE DEF AtWork
<1>1. /\ thread[s] = "running" /\ exchange[s].at = "request" /\ exchange[s].cmd = "retrieve"
      /\ exchange[s].handle \in opened[s] /\ Session(s)
      /\ UNCHANGED <<opened, entries, inTransaction>>
    BY DEF RetrieveCmd, Asked, IsOpen
<1>2. AtWork(s) BY <1>1, WorkUnnoticed
<1>3. linked[s] => /\ entries[s] = Expected(s) /\ call[s].fn = "retrieve"
                   /\ opened[s] = view[s].handles /\ inTransaction[s] = view[s].began
  <2> SUFFICES ASSUME linked[s]
               PROVE  /\ entries[s] = Expected(s) /\ call[s].fn = "retrieve"
                      /\ opened[s] = view[s].handles /\ inTransaction[s] = view[s].began
      OBVIOUS
  <2>1. call[s].fn = "retrieve" BY <1>1, <1>2
  <2>2. \A fn : ~Responded(s, fn) BY <1>1 DEF Responded
  <2> QED BY <1>1, <1>2, <2>1, <2>2 DEF Dialogue, Ledger
<1>4. ASSUME NEW m \in Msgs, Take(s, m),
             exchange' = [exchange EXCEPT ![s].at = "send", ![s].msg = m]
      PROVE  Inv'
  <2>1. m \in ready /\ Hold(s, m) /\ ready' = ready \ {m} /\ UNCHANGED <<accepted, up>> /\ up
      BY <1>4 DEF Take, Best
  <2>2. QueueInv' BY <2>1, TakeInv DEF Inv
  <2>3. /\ holds'[s] = holds[s] \cup {m} /\ \A t \in Sessions \ {s} : holds'[t] = holds[t]
        /\ m \notin holds[s]
      BY <2>1 DEF Hold, Inv, QueueInv
  <2>4. /\ exchange'[s].at = "send" /\ exchange'[s].cmd = "retrieve" /\ exchange'[s].msg = m
        /\ exchange'[s].handle = exchange[s].handle
        /\ \A t \in Sessions \ {s} : exchange'[t] = exchange[t]
        /\ exchange' \in [Sessions -> Exchanges]
    <3>1. exchange[s] \in Exchanges BY DEF Inv, StateTypeOK
    <3>2. [exchange[s] EXCEPT !.at = "send", !.msg = m] \in Exchanges
        BY <3>1 DEF Exchanges, Stages
    <3>3. exchange' = [exchange EXCEPT ![s] = [exchange[s] EXCEPT !.at = "send", !.msg = m]]
        BY <1>4, <3>1 DEF Inv, StateTypeOK, Exchanges
    <3>4. exchange' \in [Sessions -> Exchanges] BY <3>2, <3>3 DEF Inv, StateTypeOK
    <3>5. /\ exchange'[s] = [exchange[s] EXCEPT !.at = "send", !.msg = m]
          /\ \A t \in Sessions \ {s} : exchange'[t] = exchange[t]
        BY <3>3 DEF Inv, StateTypeOK
    <3> QED BY <1>1, <3>1, <3>4, <3>5 DEF Exchanges
  <2>5. StateTypeOK' BY <1>1, <2>4, ServerTypes DEF Inv, StateTypeOK
  <2>6. Elsewhere(s) BY <1>1, <2>3, <2>4 DEF Elsewhere
  <2>7. InHand(s)'
    <3>1. \A e \in entries[s] : e.msg # m BY <1>2, <2>3 DEF Books
    <3> QED BY <1>1, <2>3, <2>4, <3>1 DEF InHand
  <2>8. Books(s)' BY <1>1, <1>2, <2>3, <2>4 DEF Books
  <2>9. Dialogue(s)' BY <1>1, <1>2, <2>4, StillServing
  <2>10. Ledger(s)' BY <1>1, <1>2, <1>3, <2>4 DEF Ledger
  <2>11. Kept' = Kept BY <1>2, <2>1 DEF Kept
  <2>12. \A p \in view[s].pending : Pending(p) \notin entries'[s] =>
             (p[2] \in Kept' <=> call[s].fn \in Ending)
      BY <1>1, <1>2, <2>11 DEF Sender
  <2> QED BY <1>1, <2>1, <2>2, <2>4, <2>5, <2>6, <2>7, <2>8, <2>9, <2>10, <2>11, <2>12, WorkInv
<1>5. CASE Answer(s, FALSE) /\ UNCHANGED queueVars
  <2>1. UNCHANGED <<accepted, ready, holds, up>> BY <1>5 DEF queueVars
  <2>2. /\ exchange' \in [Sessions -> Exchanges]
        /\ \A t \in Sessions \ {s} : exchange'[t] = exchange[t]
        /\ ~linked[s] => exchange'[s] = Silence
        /\ linked[s] => /\ exchange'[s].at = "response" /\ exchange'[s].ok = FALSE
                        /\ exchange'[s].cmd = "retrieve"
      BY <1>1, <1>5, AnswerIs
  <2>3. /\ exchange'[s].cmd \in {"retrieve", "none"} /\ exchange'[s].at \in {"response", "none"}
        /\ linked[s] \/ exchange'[s].at # "response"
      BY <2>2 DEF Silence
  <2>4. QueueInv' BY <2>1, SameQueue DEF Inv
  <2>5. StateTypeOK' BY <1>1, <2>2, ServerTypes DEF Inv, StateTypeOK
  <2>6. Elsewhere(s) BY <1>1, <2>1, <2>2 DEF Elsewhere
  <2>7. InHand(s)' BY <2>2 DEF InHand, Silence
  <2>8. Books(s)' BY <1>1, <1>2, <2>1 DEF Books
  <2>9. Dialogue(s)' /\ Ledger(s)'
    <3>1. CASE ~linked[s] BY <1>2, <3>1, Unheard
    <3>2. CASE linked[s]
      <4>1. Dialogue(s)' BY <1>1, <1>2, <1>3, <1>5, <3>2, AnsweredDialogue
      <4>2. entries'[s] = Expected(s)' /\ call'[s].fn = "retrieve" BY <1>1, <1>2, <1>3, <3>2
      <4> QED BY <2>2, <3>2, <4>1, <4>2 DEF Ledger
    <3> QED BY <3>1, <3>2
  <2>10. Kept' = Kept BY <1>2, <2>1 DEF Kept
  <2>11. \A p \in view[s].pending : Pending(p) \notin entries'[s] =>
             (p[2] \in Kept' <=> call[s].fn \in Ending)
      BY <1>1, <1>2, <2>10 DEF Sender
  <2> QED BY <1>1, <2>1, <2>3, <2>4, <2>5, <2>6, <2>7, <2>8, <2>9, <2>10, <2>11, WorkInv
<1> QED BY <1>4, <1>5 DEF RetrieveCmd

LEMMA SendInv ==
    ASSUME Inv, NEW s \in Sessions, Send(s)
    PROVE  Inv'
<1> USE DEF AtWork
<1> PICK m, h : m = exchange[s].msg /\ h = exchange[s].handle
    OBVIOUS
<1>1. /\ thread[s] = "running" /\ exchange[s].at = "send"
      /\ Answer(s, TRUE) /\ Session(s) /\ UNCHANGED <<opened, inTransaction>>
      /\ entries' = [entries EXCEPT ![s] = @ \cup {Entry(h, m, "retrieve", FALSE)}]
      /\ UNCHANGED <<accepted, ready, holds, up>>
    BY DEF Send, At, Add, Served
<1>2. AtWork(s) BY <1>1, WorkUnnoticed
<1>3. /\ exchange[s].cmd = "retrieve" /\ m \in Msgs /\ m \in holds[s]
      /\ h \in opened[s] /\ h \in Handles
  <2>1. /\ exchange[s].cmd = "retrieve" /\ m \in holds[s] /\ h \in opened[s]
      BY <1>1, <1>2 DEF InHand
  <2> QED BY <2>1 DEF Inv, StateTypeOK, QueueInv
<1>4. /\ exchange' \in [Sessions -> Exchanges]
      /\ \A t \in Sessions \ {s} : exchange'[t] = exchange[t]
      /\ ~linked[s] => exchange'[s] = Silence
      /\ linked[s] => /\ exchange'[s].at = "response" /\ exchange'[s].ok = TRUE
                      /\ exchange'[s].cmd = "retrieve" /\ exchange'[s].handle = h
                      /\ exchange'[s].msg = m
    BY <1>1, <1>3, AnswerIs
<1>5. /\ exchange'[s].cmd \in {"retrieve", "none"} /\ exchange'[s].at \in {"response", "none"}
      /\ linked[s] \/ exchange'[s].at # "response"
    BY <1>4 DEF Silence
<1>6. InHand(s)' BY <1>3, <1>4 DEF InHand, Silence
<1>7. entries'[s] = entries[s] \cup {Entry(h, m, "retrieve", FALSE)}
    BY <1>1 DEF Inv, StateTypeOK
<1>8. StateTypeOK'
  <2>1. Entry(h, m, "retrieve", FALSE) \in EntryRecords BY <1>3 DEF Entry, EntryRecords
  <2>2. entries' \in [Sessions -> SUBSET EntryRecords] BY <1>1, <2>1 DEF Inv, StateTypeOK
  <2> QED BY <1>1, <1>4, <2>2, ServerTypes DEF Inv, StateTypeOK
<1>9. QueueInv' BY <1>1, SameQueue DEF Inv
<1>10. Elsewhere(s) BY <1>1, <1>4 DEF Elsewhere, Inv, StateTypeOK
<1>11. Books(s)'
  <2>1. Entry(h, m, "retrieve", FALSE).msg = m /\ Entry(h, m, "retrieve", FALSE).handle = h
        /\ Entry(h, m, "retrieve", FALSE).kind = "retrieve"
        /\ ~Entry(h, m, "retrieve", FALSE).commitable
      BY DEF Entry
  <2> QED BY <1>1, <1>2, <1>7, <2>1, EntryAdded
<1>12. Dialogue(s)' /\ Ledger(s)'
  <2>1. CASE ~linked[s] BY <1>2, <2>1, Unheard
  <2>2. CASE linked[s]
    <3>1. call[s].fn = "retrieve" BY <1>1, <1>2, <1>3, <2>2
    <3>2. \A fn : ~Responded(s, fn) BY <1>1 DEF Responded
    <3>3. /\ entries[s] = Expected(s) /\ opened[s] = view[s].handles
          /\ inTransaction[s] = view[s].began /\ call[s].handle = h
        BY <1>1, <1>2, <2>2, <3>1, <3>2 DEF Dialogue, Ledger
    <3>4. Dialogue(s)' BY <1>1, <1>2, <1>3, <2>2, <3>3, AnsweredDialogue
    <3>5. entries'[s] = Expected(s)' \cup {Entry(h, m, "retrieve", FALSE)}
        BY <1>2, <1>7, <3>3
    <3>6. call'[s].fn = "retrieve" /\ call'[s].handle = h BY <1>2, <3>1, <3>3
    <3>7. Entry(h, m, "retrieve", FALSE) = Entry(call[s].handle, exchange[s].msg, "retrieve", FALSE)'
        BY <1>4, <2>2, <3>6 DEF Entry
    <3> QED BY <1>4, <2>2, <3>4, <3>5, <3>6, <3>7 DEF Ledger
  <2> QED BY <2>1, <2>2
<1>13. Kept' = Kept BY <1>1, <1>2 DEF Kept
<1>14. /\ \A e \in entries'[s] : e.kind = "enqueue" => e \in entries[s]
       /\ \A p \in view[s].claims : Claim(p) \in entries[s] => Claim(p) \in entries'[s]
    BY <1>7 DEF Entry
<1>15. \A p \in view[s].pending : Pending(p) \notin entries'[s] =>
              (p[2] \in Kept' <=> call[s].fn \in Ending)
    BY <1>2, <1>7, <1>13 DEF Sender
<1> QED BY <1>1, <1>3, <1>5, <1>6, <1>8, <1>9, <1>10, <1>11, <1>12, <1>13, <1>14, <1>15, WorkInv

LEMMA SendFailsInv ==
    ASSUME Inv, NEW s \in Sessions, SendFails(s)
    PROVE  Inv'
<1> USE DEF AtWork
<1> PICK m : m = exchange[s].msg
    OBVIOUS
<1>1. /\ thread[s] = "running" /\ exchange[s].at = "send" /\ ~linked[s] /\ Release(s, m)
      /\ exchange' = [exchange EXCEPT ![s] = Silence]
      /\ Session(s) /\ UNCHANGED <<opened, entries, inTransaction>>
    BY DEF SendFails, At
<1>2. AtWork(s) BY <1>1, WorkUnnoticed
<1>3. exchange[s].cmd = "retrieve" /\ m \in holds[s] /\ \A e \in entries[s] : e.msg # m
    BY <1>1, <1>2 DEF InHand
<1>4. QueueInv' BY <1>1, ReleaseInv DEF Inv
<1>5. /\ accepted' = accepted /\ holds'[s] = holds[s] \ {m}
      /\ \A t \in Sessions \ {s} : holds'[t] = holds[t]
    BY <1>1 DEF Release, Drop, Inv, QueueInv
<1>6. /\ exchange'[s] = Silence /\ \A t \in Sessions \ {s} : exchange'[t] = exchange[t]
      /\ exchange' \in [Sessions -> Exchanges]
  <2>1. Silence \in Exchanges
      BY ClientAssumption DEF Silence, Exchanges, Stages, Functions
  <2> QED BY <1>1, <2>1 DEF Inv, StateTypeOK
<1>7. exchange'[s].cmd = "none" /\ exchange'[s].at = "none" BY <1>6 DEF Silence
<1>8. StateTypeOK' BY <1>1, <1>6, ServerTypes DEF Inv, StateTypeOK
<1>9. Elsewhere(s) BY <1>1, <1>5, <1>6 DEF Elsewhere
<1>10. InHand(s)' BY <1>6 DEF InHand, Silence
<1>11. Books(s)' BY <1>1, <1>2, <1>3, <1>5 DEF Books
<1>12. Dialogue(s)' /\ Ledger(s)' BY <1>1, <1>2, Unheard
<1>13. Kept' = Kept BY <1>2, <1>5 DEF Kept
<1>14. \A p \in view[s].pending : Pending(p) \notin entries'[s] =>
              (p[2] \in Kept' <=> call[s].fn \in Ending)
    BY <1>1, <1>2, <1>13 DEF Sender
<1> QED BY <1>1, <1>3, <1>4, <1>5, <1>7, <1>8, <1>9, <1>10, <1>11, <1>12, <1>13, <1>14, WorkInv

LEMMA BeginTransactionCmdInv ==
    ASSUME Inv, NEW s \in Sessions, BeginTransactionCmd(s)
    PROVE  Inv'
<1> USE DEF AtWork
<1>1. /\ thread[s] = "running" /\ exchange[s].at = "request" /\ exchange[s].cmd = "begin"
      /\ inTransaction' = [inTransaction EXCEPT ![s] = TRUE]
      /\ Answer(s, ~inTransaction[s]) /\ Session(s)
      /\ UNCHANGED <<accepted, ready, holds, up, opened, entries>>
    BY DEF BeginTransactionCmd, Asked, queueVars
<1>2. AtWork(s) BY <1>1, WorkUnnoticed
<1>3. /\ exchange' \in [Sessions -> Exchanges]
      /\ \A t \in Sessions \ {s} : exchange'[t] = exchange[t]
      /\ ~linked[s] => exchange'[s] = Silence
      /\ linked[s] => exchange'[s].at = "response" /\ exchange'[s].cmd = "begin"
    BY <1>1, <1>2, AnswerIs
<1>4. /\ exchange'[s].cmd \in {"begin", "none"} /\ exchange'[s].at \in {"response", "none"}
      /\ linked[s] \/ exchange'[s].at # "response"
    BY <1>3 DEF Silence
<1>5. inTransaction'[s] = TRUE /\ \A t \in Sessions \ {s} : inTransaction'[t] = inTransaction[t]
    BY <1>1 DEF Inv, StateTypeOK
<1>6. QueueInv' BY <1>1, SameQueue DEF Inv
<1>7. StateTypeOK'
  <2>1. inTransaction' \in [Sessions -> BOOLEAN] BY <1>1 DEF Inv, StateTypeOK
  <2> QED BY <1>1, <1>3, <2>1, ServerTypes DEF Inv, StateTypeOK
<1>8. Elsewhere(s) BY <1>1, <1>3, <1>5 DEF Elsewhere
<1>9. InHand(s)' BY <1>3 DEF InHand, Silence
<1>10. Books(s)' BY <1>1, <1>2 DEF Books
<1>11. Dialogue(s)' /\ Ledger(s)'
  <2>1. CASE ~linked[s] BY <1>2, <2>1, Unheard
  <2>2. CASE linked[s]
    <3>1. call[s].fn = "begin" BY <1>1, <1>2, <2>2
    <3>2. \A fn : ~Responded(s, fn) BY <1>1 DEF Responded
    <3>3. entries[s] = Expected(s) /\ opened[s] = view[s].handles
        BY <1>1, <1>2, <2>2, <3>1, <3>2 DEF Dialogue, Ledger
    <3>4. Dialogue(s)' BY <1>1, <1>2, <1>5, <2>2, <3>3, AnsweredDialogue
    <3>5. entries'[s] = Expected(s)' /\ call'[s].fn = "begin" BY <1>1, <1>2, <3>1, <3>3
    <3> QED BY <3>4, <3>5 DEF Ledger
  <2> QED BY <2>1, <2>2
<1>12. Kept' = Kept BY <1>1, <1>2 DEF Kept
<1>13. \A p \in view[s].pending : Pending(p) \notin entries'[s] =>
              (p[2] \in Kept' <=> call[s].fn \in Ending)
    BY <1>1, <1>2, <1>12 DEF Sender
<1> QED BY <1>1, <1>4, <1>6, <1>7, <1>8, <1>9, <1>10, <1>11, <1>12, <1>13, WorkInv

LEMMA BegunInv ==
    ASSUME Inv, NEW s \in Sessions, Begun(s)
    PROVE  Inv'
<1> USE DEF AtWork
<1>1. /\ thread[s] = "running" /\ exchange[s].at = "request"
      /\ exchange[s].cmd \in {"commit", "rollback", "end"} /\ Session(s)
      /\ UNCHANGED <<accepted, ready, holds, up, opened, entries, inTransaction>>
    BY DEF Begun, Asked, queueVars
<1>2. AtWork(s) BY <1>1, WorkUnnoticed
<1>3. linked[s] => /\ entries[s] = Expected(s) /\ opened[s] = view[s].handles
                   /\ inTransaction[s] = view[s].began /\ call[s].fn = exchange[s].cmd
                   /\ ~view[s].began => Expected(s) = {}
  <2> SUFFICES ASSUME linked[s]
               PROVE  /\ entries[s] = Expected(s) /\ opened[s] = view[s].handles
                      /\ inTransaction[s] = view[s].began /\ call[s].fn = exchange[s].cmd
                      /\ ~view[s].began => Expected(s) = {}
      OBVIOUS
  <2>1. call[s].fn = exchange[s].cmd BY <1>1, <1>2
  <2>2. \A fn : ~Responded(s, fn) BY <1>1 DEF Responded
  <2>3. ~view[s].began => view[s].pending = {} /\ view[s].claims = {} BY <1>2 DEF Dialogue
  <2>4. ~view[s].began => Expected(s) = {} BY <2>3 DEF Expected
  <2> QED BY <1>1, <1>2, <2>1, <2>2, <2>4 DEF Dialogue, Ledger
<1>4. QueueInv' BY <1>1, SameQueue DEF Inv
<1>5. Books(s)' \/ exchange'[s].at \in {"publish", "send"} BY <1>1, <1>2 DEF Books
<1>6. Kept' = Kept BY <1>1, <1>2 DEF Kept
<1>7. \A p \in view[s].pending : Pending(p) \notin entries'[s] =>
              (p[2] \in Kept' <=> call[s].fn \in Ending)
    BY <1>1, <1>2, <1>6 DEF Sender
<1>8. CASE inTransaction[s]
  <2>1. exchange' = [exchange EXCEPT ![s] = [exchange[s] EXCEPT !.at = "entries"]]
      BY <1>8 DEF Begun, Stage
  <2>2. /\ exchange' \in [Sessions -> Exchanges]
        /\ \A t \in Sessions \ {s} : exchange'[t] = exchange[t]
        /\ exchange'[s].at = "entries" /\ exchange'[s].cmd = exchange[s].cmd
        /\ exchange'[s].handle = exchange[s].handle
    <3>1. exchange[s] \in Exchanges BY DEF Inv, StateTypeOK
    <3>2. [exchange[s] EXCEPT !.at = "entries"] \in Exchanges BY <3>1 DEF Exchanges, Stages
    <3>3. exchange' \in [Sessions -> Exchanges] BY <2>1, <3>2 DEF Inv, StateTypeOK
    <3>4. /\ exchange'[s] = [exchange[s] EXCEPT !.at = "entries"]
          /\ \A t \in Sessions \ {s} : exchange'[t] = exchange[t]
        BY <2>1 DEF Inv, StateTypeOK
    <3> QED BY <3>1, <3>3, <3>4 DEF Exchanges
  <2>3. StateTypeOK' BY <1>1, <2>2, ServerTypes DEF Inv, StateTypeOK
  <2>4. Elsewhere(s) BY <1>1, <2>2 DEF Elsewhere
  <2>5. InHand(s)' BY <1>1, <1>8, <2>2 DEF InHand
  <2>6. Dialogue(s)' BY <1>1, <1>2, <2>2, StillServing
  <2>7. Ledger(s)' BY <1>1, <1>2, <1>3, <2>2 DEF Ledger
  <2> QED BY <1>1, <1>4, <1>5, <1>6, <1>7, <2>2, <2>3, <2>4, <2>5, <2>6, <2>7, WorkInv
<1>9. CASE ~inTransaction[s]
  <2>1. PICK ok \in BOOLEAN : Answer(s, ok) BY <1>9 DEF Begun
  <2>2. /\ exchange' \in [Sessions -> Exchanges]
        /\ \A t \in Sessions \ {s} : exchange'[t] = exchange[t]
        /\ ~linked[s] => exchange'[s] = Silence
        /\ linked[s] => exchange'[s].at = "response" /\ exchange'[s].cmd = exchange[s].cmd
      BY <2>1, AnswerIs
  <2>3. /\ exchange'[s].cmd \in {exchange[s].cmd, "none"}
        /\ exchange'[s].at \in {"response", "none"} /\ exchange'[s].cmd # "enqueue"
        /\ linked[s] \/ exchange'[s].at # "response"
      BY <1>1, <2>2 DEF Silence
  <2>4. StateTypeOK' BY <1>1, <2>2, ServerTypes DEF Inv, StateTypeOK
  <2>5. Elsewhere(s) BY <1>1, <2>2 DEF Elsewhere
  <2>6. InHand(s)' BY <1>1, <2>2 DEF InHand, Silence
  <2>7. Dialogue(s)' /\ Ledger(s)'
    <3>1. CASE ~linked[s] BY <1>2, <3>1, Unheard
    <3>2. CASE linked[s]
      <4>1. ~view[s].began /\ entries[s] = {} BY <1>3, <1>9, <3>2
      <4>2. Dialogue(s)' BY <1>1, <1>2, <1>3, <1>9, <2>1, <3>2, <4>1, AnsweredDialogue
      <4>3. entries'[s] = {} /\ Expected(s)' = {} /\ call'[s].fn \in {"commit", "rollback", "end"}
          BY <1>1, <1>2, <1>3, <3>2, <4>1
      <4> QED BY <4>2, <4>3 DEF Ledger
    <3> QED BY <3>1, <3>2
  <2> QED BY <1>1, <1>4, <1>5, <1>6, <1>7, <2>3, <2>4, <2>5, <2>6, <2>7, WorkInv
<1> QED BY <1>8, <1>9

LEMMA TransactionDoneInv ==
    ASSUME Inv, NEW s \in Sessions, TransactionDone(s)
    PROVE  Inv'
<1> USE DEF AtWork
<1>1. /\ thread[s] = "running" /\ exchange[s].at = "entries" /\ Commitable(s) = {}
      /\ inTransaction' = [inTransaction EXCEPT ![s] = exchange[s].cmd # "end"]
      /\ Answer(s, TRUE) /\ Session(s)
      /\ UNCHANGED <<accepted, ready, holds, up, opened, entries>>
    BY DEF TransactionDone, At, queueVars
<1>2. AtWork(s) BY <1>1, WorkUnnoticed
<1>3. exchange[s].cmd \in {"commit", "rollback", "end"} /\ inTransaction[s]
    BY <1>1, <1>2 DEF InHand
<1>4. /\ exchange' \in [Sessions -> Exchanges]
      /\ \A t \in Sessions \ {s} : exchange'[t] = exchange[t]
      /\ ~linked[s] => exchange'[s] = Silence
      /\ linked[s] => exchange'[s].at = "response" /\ exchange'[s].cmd = exchange[s].cmd
    BY <1>1, AnswerIs
<1>5. /\ exchange'[s].cmd \in {exchange[s].cmd, "none"}
      /\ exchange'[s].at \in {"response", "none"} /\ exchange'[s].cmd # "enqueue"
      /\ linked[s] \/ exchange'[s].at # "response"
    BY <1>3, <1>4 DEF Silence
<1>6. /\ inTransaction'[s] = (exchange[s].cmd # "end")
      /\ \A t \in Sessions \ {s} : inTransaction'[t] = inTransaction[t]
      /\ inTransaction' \in [Sessions -> BOOLEAN]
    BY <1>1 DEF Inv, StateTypeOK
<1>7. QueueInv' BY <1>1, SameQueue DEF Inv
<1>8. StateTypeOK' BY <1>1, <1>4, <1>6, ServerTypes DEF Inv, StateTypeOK
<1>9. Elsewhere(s) BY <1>1, <1>4, <1>6 DEF Elsewhere
<1>10. InHand(s)' BY <1>3, <1>4 DEF InHand, Silence
<1>11. Books(s)' BY <1>1, <1>2 DEF Books
<1>12. Dialogue(s)' /\ Ledger(s)'
  <2>1. CASE ~linked[s] BY <1>2, <2>1, Unheard
  <2>2. CASE linked[s]
    <3>1. call[s].fn = exchange[s].cmd BY <1>1, <1>2, <2>2
    <3>2. \A fn : ~Responded(s, fn) BY <1>1 DEF Responded
    <3>3. /\ opened[s] = view[s].handles /\ inTransaction[s] = view[s].began
          /\ entries[s] \subseteq Expected(s)
        BY <1>2, <1>3, <2>2, <3>1, <3>2 DEF Dialogue, Ledger
    <3>4. \A e \in Expected(s) : e.commitable BY DEF Expected, Pending, Claim, Entry
    <3>5. entries[s] = {} BY <1>1, <3>3, <3>4 DEF Commitable
    <3>6. Dialogue(s)' BY <1>1, <1>2, <1>3, <1>6, <2>2, <3>3, AnsweredDialogue
    <3>7. entries'[s] = {} /\ call'[s].fn \in {"commit", "rollback", "end"}
          /\ exchange'[s].at = "response"
        BY <1>1, <1>2, <1>3, <1>4, <2>2, <3>1, <3>5
    <3> QED BY <3>6, <3>7 DEF Ledger
  <2> QED BY <2>1, <2>2
<1>13. Kept' = Kept BY <1>1, <1>2 DEF Kept
<1>14. \A p \in view[s].pending : Pending(p) \notin entries'[s] =>
              (p[2] \in Kept' <=> call[s].fn \in Ending)
    BY <1>1, <1>2, <1>13 DEF Sender
<1> QED BY <1>1, <1>3, <1>5, <1>7, <1>8, <1>9, <1>10, <1>11, <1>12, <1>13, <1>14, WorkInv

LEMMA ShutdownDoneInv ==
    ASSUME Inv, NEW s \in Sessions, ShutdownDone(s)
    PROVE  Inv'
<1> USE DEF AtWork
<1> PICK h \in Handles :
        /\ Closing(s, h) /\ \A e \in entries[s] : e.handle # h
        /\ opened' = [opened EXCEPT ![s] = @ \ {h}]
        /\ IF thread[s] = "ending" THEN UNCHANGED exchange ELSE Answer(s, TRUE)
        /\ Session(s) /\ UNCHANGED <<queueVars, entries, inTransaction>>
    BY DEF ShutdownDone
<1>1. /\ Session(s) /\ UNCHANGED <<accepted, ready, holds, up, entries, inTransaction>>
      /\ h \in opened[s]
    BY DEF queueVars, Closing
<1>2. AtWork(s) BY <1>1, WorkUnnoticed
<1>3. /\ opened'[s] = opened[s] \ {h} /\ \A t \in Sessions \ {s} : opened'[t] = opened[t]
      /\ opened' \in [Sessions -> SUBSET Handles]
    BY DEF Inv, StateTypeOK
<1>4. QueueInv' BY <1>1, SameQueue DEF Inv
<1>5. Kept' = Kept BY <1>1, <1>2 DEF Kept
<1>6. \A p \in view[s].pending : Pending(p) \notin entries'[s] =>
              (p[2] \in Kept' <=> call[s].fn \in Ending)
    BY <1>1, <1>2, <1>5 DEF Sender
<1>7. CASE thread[s] = "ending"
  <2>1. exchange' = exchange /\ exchange[s] = Silence /\ ~linked[s]
      BY <1>2, <1>7 DEF Lifeline
  <2>2. exchange[s].cmd = "none" /\ exchange[s].at = "none" BY <2>1 DEF Silence
  <2>3. StateTypeOK' BY <1>1, <1>3, <2>1, ServerTypes DEF Inv, StateTypeOK
  <2>4. Elsewhere(s) BY <1>1, <1>3, <2>1 DEF Elsewhere
  <2>5. InHand(s)' BY <2>1 DEF InHand, Silence
  <2>6. Books(s)' BY <1>1, <1>2, <1>3, <2>2 DEF Books
  <2>7. Dialogue(s)' /\ Ledger(s)' BY <1>2, <2>1, Unheard
  <2> QED BY <1>1, <1>4, <1>5, <1>6, <1>7, <2>1, <2>2, <2>3, <2>4, <2>5, <2>6, <2>7, WorkInv
<1>8. CASE thread[s] # "ending"
  <2>1. /\ thread[s] = "running" /\ exchange[s].at = "request" /\ exchange[s].cmd = "close"
        /\ exchange[s].handle = h /\ Answer(s, TRUE)
      BY <1>8 DEF Closing, Asked
  <2>2. /\ exchange' \in [Sessions -> Exchanges]
        /\ \A t \in Sessions \ {s} : exchange'[t] = exchange[t]
        /\ ~linked[s] => exchange'[s] = Silence
        /\ linked[s] => /\ exchange'[s].at = "response" /\ exchange'[s].ok = TRUE
                        /\ exchange'[s].cmd = "close"
      BY <2>1, AnswerIs
  <2>3. /\ exchange'[s].cmd \in {"close", "none"} /\ exchange'[s].at \in {"response", "none"}
        /\ linked[s] \/ exchange'[s].at # "response"
      BY <2>2 DEF Silence
  <2>4. StateTypeOK' BY <1>1, <1>3, <2>2, ServerTypes DEF Inv, StateTypeOK
  <2>5. Elsewhere(s) BY <1>1, <1>3, <2>2 DEF Elsewhere
  <2>6. InHand(s)' BY <2>2 DEF InHand, Silence
  <2>7. Books(s)' BY <1>1, <1>2, <1>3, <2>1 DEF Books
  <2>8. Dialogue(s)' /\ Ledger(s)'
    <3>1. CASE ~linked[s] BY <1>2, <3>1, Unheard
    <3>2. CASE linked[s]
      <4>1. call[s].fn = "close" BY <1>2, <2>1, <3>2
      <4>2. \A fn : ~Responded(s, fn) BY <2>1 DEF Responded
      <4>3. /\ opened[s] = view[s].handles /\ inTransaction[s] = view[s].began
            /\ call[s].handle = h /\ entries[s] \subseteq Expected(s)
            /\ \A e \in Expected(s) : e.handle # h => e \in entries[s]
          BY <1>2, <2>1, <3>2, <4>1, <4>2 DEF Dialogue, Ledger
      <4>4. Dialogue(s)' BY <1>1, <1>2, <1>3, <2>1, <3>2, <4>3, AnsweredDialogue
      <4>5. /\ entries'[s] \subseteq Expected(s)'
            /\ \A e \in Expected(s)' : e.handle # h => e \in entries'[s]
            /\ \A e \in entries'[s] : e.handle # h
            /\ call'[s].fn = "close" /\ call'[s].handle = h
            /\ exchange'[s].at = "response" /\ exchange'[s].ok
          BY <1>1, <1>2, <2>2, <3>2, <4>1, <4>3
      <4> QED BY <4>4, <4>5 DEF Ledger
    <3> QED BY <3>1, <3>2
  <2> QED BY <1>1, <1>4, <1>5, <1>6, <2>1, <2>3, <2>4, <2>5, <2>6, <2>7, <2>8, WorkInv
<1> QED BY <1>7, <1>8

(* One entry is settled: its message is published, removed, put back or    *)
(* forgotten.                                                              *)
LEMMA EntryGone ==
    ASSUME Inv, NEW s \in Sessions, NEW e \in entries[s], Session(s), Erase(s, e),
           UNCHANGED <<exchange, opened, inTransaction>>,
           thread[s] # "none", exchange[s].at \notin {"publish", "send"},
           linked[s] => \/ /\ call[s].fn = "close" /\ exchange[s].at = "request"
                           /\ e.handle = call[s].handle
                        \/ /\ call[s].fn \in {"commit", "rollback", "end"}
                           /\ exchange[s].at = "entries",
           \/ e.kind = "enqueue" /\ call[s].fn \notin Ending /\ Discard(s, e.msg)
           \/ /\ e.kind = "enqueue" /\ Release(s, e.msg)
              /\ call[s].fn \in Ending \/ view[s].pending = {}
           \/ e.kind = "retrieve" /\ e.commitable /\ Discard(s, e.msg)
           \/ /\ e.kind = "retrieve" /\ call[s].fn \notin Ending
              /\ Release(s, e.msg) \/ Abandon(s, e.msg)
    PROVE  Inv'
<1> USE DEF AtWork
<1>0. AtWork(s) BY WorkUnnoticed
<1>1. /\ entries'[s] = entries[s] \ {e} /\ \A t \in Sessions \ {s} : entries'[t] = entries[t]
      /\ entries' \in [Sessions -> SUBSET EntryRecords]
    BY DEF Erase, Inv, StateTypeOK
<1>2. /\ e.msg \in Msgs /\ e.msg \in holds[s] /\ e.msg \in Range(accepted)
      /\ e.kind = "enqueue" => e.msg \notin received
      /\ e.kind = "retrieve" /\ e.commitable => e.msg \in received
    BY <1>0 DEF Books, Inv, QueueInv
<1>3. /\ holds'[s] = holds[s] \ {e.msg} /\ \A t \in Sessions \ {s} : holds'[t] = holds[t]
    BY DEF Discard, Release, Abandon, Drop, Inv, QueueInv
<1>4. /\ QueueInv'
      /\ \/ /\ Range(accepted') = Range(accepted) \ {e.msg}
            /\ \/ e.kind = "enqueue" /\ call[s].fn \notin Ending
               \/ e.kind = "retrieve" /\ e.commitable
         \/ /\ accepted' = accepted
            /\ \/ e.kind = "enqueue" /\ (call[s].fn \in Ending \/ view[s].pending = {})
               \/ e.kind = "retrieve" /\ call[s].fn \notin Ending
  <2>1. CASE Discard(s, e.msg) /\ (\/ e.kind = "enqueue" /\ call[s].fn \notin Ending
                                   \/ e.kind = "retrieve" /\ e.commitable)
      BY <2>1, DiscardInv DEF Inv
  <2>2. CASE /\ Release(s, e.msg) \/ Abandon(s, e.msg)
             /\ \/ e.kind = "enqueue" /\ (call[s].fn \in Ending \/ view[s].pending = {})
                \/ e.kind = "retrieve" /\ call[s].fn \notin Ending
    <3>1. QueueInv' BY <2>2, ReleaseInv, AbandonInv DEF Inv
    <3>2. accepted' = accepted BY <2>2 DEF Release, Abandon
    <3> QED BY <2>2, <3>1, <3>2
  <2> QED BY <2>1, <2>2
<1>5. StateTypeOK' BY <1>1, ServerTypes DEF Inv, StateTypeOK
<1>6. /\ \A m \in Msgs \ {e.msg} : m \in Kept' <=> m \in Kept
      /\ Kept' \subseteq Kept
      /\ e.kind = "enqueue" => (e.msg \in Kept' <=> call[s].fn \in Ending \/ accepted' = accepted)
      /\ e.kind = "retrieve" => e.msg \in Kept'
    BY <1>0, <1>2, <1>4 DEF Kept
<1>7. Mine(s)' \subseteq Mine(s) BY <1>0, <1>1 DEF Mine
<1>8. \A m \in Msgs \ Mine(s) : m \in Kept' <=> m \in Kept
  <2>1. e.kind = "enqueue" => e.msg \in Mine(s) BY <1>2 DEF Mine
  <2>2. e.kind = "retrieve" => (e.msg \in Kept' /\ e.msg \in Kept) BY <1>2, <1>6 DEF Kept
  <2>3. e.kind \in {"enqueue", "retrieve"} BY <1>4
  <2> QED BY <1>6, <2>1, <2>2, <2>3
<1>9. \A m \in Gained(s)' : m \in Gained(s) \/ (e.kind = "retrieve" /\ m = e.msg /\ call[s].fn \in Ending)
  <2> SUFFICES ASSUME NEW m \in Gained(s)', m \notin Gained(s)
               PROVE  e.kind = "retrieve" /\ m = e.msg /\ call[s].fn \in Ending
      OBVIOUS
  <2>1. m \in Msgs /\ call[s].fn \in Ending
        /\ \E p \in view[s].claims : p[2] = m /\ Claim(p) \notin entries'[s]
      BY <1>0 DEF Gained, Claim
  <2>2. PICK p \in view[s].claims : p[2] = m /\ Claim(p) \notin entries'[s]
      BY <2>1
  <2>3. Claim(p) \in entries[s] BY <2>1, <2>2 DEF Gained
  <2>4. Claim(p) = e BY <1>1, <2>2, <2>3
  <2> QED BY <2>1, <2>2, <2>4 DEF Claim, Entry
<1>10. Lifeline(s)' BY <1>0, <1>1 DEF Lifeline
<1>11. InHand(s)' BY <1>0, <1>6 DEF InHand
<1>12. Books(s)' BY <1>0, <1>1, <1>3 DEF Books
<1>13. Sender(s)'
  <2>1. ASSUME NEW p \in view[s].pending, Pending(p) \notin entries'[s]
        PROVE  p[2] \in Kept' <=> call[s].fn \in Ending
    <3>1. p[2] \in Msgs BY DEF Inv, StateTypeOK, Views, Pairs
    <3>2. CASE Pending(p) \in entries[s]
      <4>1. Pending(p) = e BY <1>1, <2>1, <3>2
      <4>2. e.kind = "enqueue" /\ e.msg = p[2] BY <4>1 DEF Pending, Entry
      <4>3. view[s].pending # {} BY <2>1
      <4> QED BY <1>2, <1>4, <1>6, <4>2, <4>3 DEF Kept
    <3>3. CASE Pending(p) \notin entries[s]
      <4>1. p[2] \in Kept <=> call[s].fn \in Ending BY <1>0, <3>3 DEF Sender
      <4>2. CASE p[2] # e.msg BY <1>6, <3>1, <4>1, <4>2
      <4>3. CASE p[2] = e.msg
        <5>1. e.msg \in Kept /\ call[s].fn \in Ending BY <1>2, <4>1, <4>3 DEF Kept
        <5>2. e.msg \in Kept' BY <1>4, <1>6, <5>1
        <5> QED BY <4>3, <5>1, <5>2
      <4> QED BY <4>2, <4>3
    <3> QED BY <3>2, <3>3
  <2>2. \A p : Pending(p)' = Pending(p) BY DEF Pending
  <2> QED BY <1>0, <1>1, <2>1, <2>2 DEF Sender
<1>14. Winner(s)'
  <2> SUFFICES ASSUME NEW m \in Gained(s)'
               PROVE  m \notin Range(accepted)' /\ m \in received' /\ owned'[m] = 0
      BY DEF Winner
  <2>1. CASE m \in Gained(s)
    <3>1. Range(accepted') \subseteq Range(accepted) BY <1>4
    <3> QED BY <1>0, <2>1, <3>1 DEF Winner
  <2>2. CASE e.kind = "retrieve" /\ m = e.msg /\ call[s].fn \in Ending
    <3>1. e.commitable /\ Range(accepted') = Range(accepted) \ {e.msg} BY <1>4, <2>2
    <3>2. owned[m] = 0 BY <1>2, <2>2 DEF Inv, Outcomes, StateTypeOK
    <3> QED BY <1>0, <1>2, <2>2, <3>1, <3>2
  <2> QED BY <1>9, <2>1, <2>2
<1>15. Dialogue(s)' /\ Ledger(s)'
  <2>1. CASE ~linked[s] BY <1>0, <2>1, Unheard
  <2>2. CASE linked[s]
    <3>1. \A fn : ~Responded(s, fn) /\ ~Responded(s, fn)' BY <2>2 DEF Responded
    <3>2. Dialogue(s)' BY <1>0, <2>2, <3>1 DEF Dialogue
    <3>3. Ledger(s)' BY <1>0, <1>1, <2>2 DEF Ledger
    <3> QED BY <3>2, <3>3
  <2> QED BY <2>1, <2>2
<1>16. SessionInv(s)' BY <1>10, <1>11, <1>12, <1>13, <1>14, <1>15 DEF SessionInv
<1>17. Gained(s)' \subseteq Gained(s) \cup Range(accepted) BY <1>2, <1>9
<1>18. \A m \in received : m \in Range(accepted') => m \in Range(accepted) BY <1>4
<1> QED BY <1>1, <1>3, <1>4, <1>5, <1>7, <1>8, <1>16, <1>17, <1>18, ServerStep

LEMMA RollbackOneInv ==
    ASSUME Inv, NEW s \in Sessions, RollbackOne(s)
    PROVE  Inv'
<1> USE DEF AtWork
<1>1. /\ thread[s] = "running" /\ exchange[s].at = "entries" /\ exchange[s].cmd = "rollback"
      /\ Session(s) /\ UNCHANGED <<exchange, opened, inTransaction>>
    BY DEF RollbackOne, At
<1>2. PICK e \in entries[s] : e.commitable /\ Undo(s, e) /\ Erase(s, e)
    BY DEF RollbackOne, Commitable
<1>3. AtWork(s) BY <1>1, WorkUnnoticed
<1>4. call[s].fn \in {"rollback", "none"} /\ (linked[s] => call[s].fn = "rollback")
    BY <1>1, <1>3
<1>5. e.kind \in {"enqueue", "retrieve"} BY DEF Inv, StateTypeOK, EntryRecords
<1>6. call[s].fn \notin Ending BY <1>4 DEF Ending
<1> QED BY <1>1, <1>2, <1>4, <1>5, <1>6, EntryGone DEF Undo

LEMMA CommitOneInv ==
    ASSUME Inv, NEW s \in Sessions, CommitOne(s)
    PROVE  Inv'
<1> USE DEF AtWork
<1>1. /\ thread[s] = "running" /\ exchange[s].at = "entries" /\ exchange[s].cmd \in Ending
      /\ Session(s) /\ UNCHANGED <<exchange, opened, inTransaction>>
    BY DEF CommitOne, At, Ending
<1>2. PICK e \in entries[s] : e.commitable /\ Do(s, e) /\ Erase(s, e)
    BY DEF CommitOne, Commitable
<1>3. AtWork(s) BY <1>1, WorkUnnoticed
<1>4. /\ linked[s] => call[s].fn \in Ending
      /\ ~linked[s] => view[s].pending = {}
    BY <1>1, <1>3 DEF Lifeline
<1>5. e.kind \in {"enqueue", "retrieve"} BY DEF Inv, StateTypeOK, EntryRecords
<1>6. linked[s] => call[s].fn \in {"commit", "rollback", "end"} BY <1>4 DEF Ending
<1> QED BY <1>1, <1>2, <1>4, <1>5, <1>6, EntryGone DEF Do

LEMMA ShutdownEntryInv ==
    ASSUME Inv, NEW s \in Sessions, ShutdownEntry(s)
    PROVE  Inv'
<1> USE DEF AtWork
<1>1. PICK e \in entries[s] :
          /\ Closing(s, e.handle)
          /\ IF e.commitable THEN Undo(s, e) ELSE Abandon(s, e.msg)
          /\ Erase(s, e)
    BY DEF ShutdownEntry
<1>2. Session(s) /\ UNCHANGED <<exchange, opened, inTransaction>>
    BY DEF ShutdownEntry
<1>3. AtWork(s) BY <1>2, WorkUnnoticed
<1>4. \/ thread[s] = "ending"
      \/ /\ thread[s] = "running" /\ exchange[s].at = "request" /\ exchange[s].cmd = "close"
         /\ exchange[s].handle = e.handle
    BY <1>1 DEF Closing, Asked
<1>5. /\ thread[s] # "none" /\ exchange[s].at \notin {"publish", "send"}
      /\ linked[s] => /\ call[s].fn = "close" /\ exchange[s].at = "request"
                      /\ e.handle = call[s].handle
      /\ call[s].fn \in {"close", "none"}
  <2>1. CASE thread[s] = "ending"
    <3>1. ~linked[s] /\ exchange[s] = Silence BY <1>3, <2>1 DEF Lifeline
    <3> QED BY <1>3, <2>1, <3>1 DEF Silence
  <2>2. CASE thread[s] # "ending"
    <3>1. linked[s] => call[s].fn = "close" BY <1>3, <1>4, <2>2
    <3>2. linked[s] => exchange[s].handle = call[s].handle BY <1>3, <3>1 DEF Dialogue
    <3> QED BY <1>3, <1>4, <2>2, <3>1, <3>2
  <2> QED BY <2>1, <2>2
<1>6. e.kind \in {"enqueue", "retrieve"} BY DEF Inv, StateTypeOK, EntryRecords
<1>7. e.kind = "enqueue" => e.commitable BY <1>3 DEF Books
<1>8. call[s].fn \notin Ending BY <1>5 DEF Ending
<1> QED BY <1>1, <1>2, <1>5, <1>6, <1>7, <1>8, EntryGone DEF Undo

(* The reader has the message: it is removed, or claimed for the commit.   *)
LEMMA RetrieveAckCmdInv ==
    ASSUME Inv, NEW s \in Sessions, RetrieveAckCmd(s)
    PROVE  Inv'
<1> USE DEF AtWork
<1> PICK m, h : m = exchange[s].msg /\ h = exchange[s].handle
    OBVIOUS
<1>1. /\ thread[s] = "running" /\ exchange[s].at = "request" /\ exchange[s].cmd = "ack"
      /\ Session(s) /\ UNCHANGED <<opened, inTransaction>>
    BY DEF RetrieveAckCmd, Asked
<1>2. AtWork(s) BY <1>1, WorkUnnoticed
<1>3. m \in received BY <1>1, <1>2 DEF InHand
<1>4. linked[s] => /\ call[s].fn = "ack" /\ call[s].handle = h /\ call[s].msg = m
                   /\ opened[s] = view[s].handles /\ inTransaction[s] = view[s].began
                   /\ entries[s] = Expected(s) \cup {Entry(h, m, "retrieve", FALSE)}
  <2> SUFFICES ASSUME linked[s]
               PROVE  /\ call[s].fn = "ack" /\ call[s].handle = h /\ call[s].msg = m
                      /\ opened[s] = view[s].handles /\ inTransaction[s] = view[s].began
                      /\ entries[s] = Expected(s) \cup {Entry(h, m, "retrieve", FALSE)}
      OBVIOUS
  <2>1. call[s].fn = "ack" BY <1>1, <1>2
  <2>2. \A fn : ~Responded(s, fn) BY <1>1 DEF Responded
  <2>3. /\ call[s].handle = h /\ call[s].msg = m
        /\ opened[s] = view[s].handles /\ inTransaction[s] = view[s].began
      BY <1>2, <2>1, <2>2 DEF Dialogue
  <2>4. entries[s] = Expected(s) \cup {Entry(h, m, "retrieve", FALSE)}
      BY <1>1, <1>2, <2>1, <2>3 DEF Ledger
  <2> QED BY <2>1, <2>3, <2>4
<1>5. ASSUME NEW ok \in BOOLEAN, Answer(s, ok)
      PROVE  /\ exchange' \in [Sessions -> Exchanges]
             /\ \A t \in Sessions \ {s} : exchange'[t] = exchange[t]
             /\ ~linked[s] => exchange'[s] = Silence
             /\ linked[s] => exchange'[s].at = "response" /\ exchange'[s].cmd = "ack"
             /\ exchange'[s].cmd \in {"ack", "none"} /\ exchange'[s].at \in {"response", "none"}
             /\ linked[s] \/ exchange'[s].at # "response"
             /\ Lifeline(s)' /\ InHand(s)'
  <2>1. /\ exchange' \in [Sessions -> Exchanges]
        /\ \A t \in Sessions \ {s} : exchange'[t] = exchange[t]
        /\ ~linked[s] => exchange'[s] = Silence
        /\ linked[s] => /\ exchange'[s].at = "response" /\ exchange'[s].cmd = "ack"
                        /\ exchange'[s].msg = m
      BY <1>1, <1>5, AnswerIs
  <2>2. /\ exchange'[s].cmd \in {"ack", "none"} /\ exchange'[s].at \in {"response", "none"}
        /\ linked[s] \/ exchange'[s].at # "response"
      BY <2>1 DEF Silence
  <2>3. exchange'[s].cmd \in {exchange[s].cmd, "none"} BY <1>1, <2>2
  <2>4. Lifeline(s)' BY <1>1, <2>2, <2>3, LifelineStays
  <2>5. InHand(s)' BY <1>2, <1>3, <2>1 DEF InHand, Silence
  <2> QED BY <2>1, <2>2, <2>4, <2>5
<1>6. ASSUME NEW e \in Retrieved(s), NEW rest, Answer(s, TRUE),
             entries' = [entries EXCEPT ![s] = (@ \ {e}) \cup rest],
             \/ /\ inTransaction[s] /\ rest = {[e EXCEPT !.commitable = TRUE]}
                /\ UNCHANGED queueVars
             \/ ~inTransaction[s] /\ rest = {} /\ Discard(s, e.msg)
      PROVE  Inv'
  <2>1. e \in entries[s] /\ e \in EntryRecords /\ e.msg = m /\ e.handle = h /\ e.kind = "retrieve"
    <3>1. e \in entries[s] /\ e.msg = m /\ e.handle = h BY DEF Retrieved
    <3>2. e \in EntryRecords BY <3>1 DEF Inv, StateTypeOK
    <3>3. e.kind # "enqueue" BY <1>2, <1>3, <3>1 DEF Books
    <3> QED BY <3>1, <3>2, <3>3 DEF EntryRecords
  <2>2. m \in Msgs /\ m \in holds[s] /\ m \in Range(accepted)
      BY <1>2, <2>1 DEF Books, Inv, QueueInv
  <2>3. [e EXCEPT !.commitable = TRUE] = Entry(h, m, "retrieve", TRUE)
    <3> DEFINE now == [e EXCEPT !.commitable = TRUE]
    <3>1. /\ now \in EntryRecords /\ now.handle = h /\ now.msg = m
          /\ now.kind = "retrieve" /\ now.commitable = TRUE
        BY <2>1 DEF EntryRecords
    <3> HIDE DEF now
    <3>2. now = Entry(h, m, "retrieve", TRUE) BY <3>1 DEF EntryRecords, Entry
    <3> QED BY <3>2 DEF now
  <2>4. /\ entries'[s] = (entries[s] \ {e}) \cup rest
        /\ \A t \in Sessions \ {s} : entries'[t] = entries[t]
      BY <1>6 DEF Inv, StateTypeOK
  <2>5. rest \subseteq {Entry(h, m, "retrieve", TRUE)} /\ rest \subseteq EntryRecords
    <3>1. Entry(h, m, "retrieve", TRUE) \in EntryRecords BY <2>1 DEF EntryRecords, Entry
    <3> QED BY <1>6, <2>3, <3>1
  <2>6. StateTypeOK'
    <3>1. entries' \in [Sessions -> SUBSET EntryRecords] BY <1>6, <2>5 DEF Inv, StateTypeOK
    <3> QED BY <1>1, <1>5, <1>6, <3>1, ServerTypes DEF Inv, StateTypeOK
  <2>7. /\ QueueInv'
        /\ \A t \in Sessions \ {s} : holds'[t] = holds[t]
        /\ \/ /\ inTransaction[s] /\ rest = {Entry(h, m, "retrieve", TRUE)}
              /\ accepted' = accepted /\ holds'[s] = holds[s]
           \/ /\ ~inTransaction[s] /\ rest = {}
              /\ Range(accepted') = Range(accepted) \ {m} /\ holds'[s] = holds[s] \ {m}
    <3>1. CASE inTransaction[s]
      <4>1. UNCHANGED <<accepted, ready, holds, up>> BY <1>6, <3>1 DEF queueVars
      <4>2. QueueInv' BY <4>1, SameQueue DEF Inv
      <4> QED BY <1>6, <2>3, <3>1, <4>1, <4>2
    <3>2. CASE ~inTransaction[s]
      <4>1. Discard(s, m) BY <1>6, <2>1, <3>2
      <4>2. QueueInv' /\ Range(accepted') = Range(accepted) \ {m} BY <4>1, DiscardInv DEF Inv
      <4>3. holds'[s] = holds[s] \ {m} /\ \A t \in Sessions \ {s} : holds'[t] = holds[t]
          BY <4>1 DEF Discard, Drop, Inv, QueueInv
      <4> QED BY <1>6, <3>2, <4>2, <4>3
    <3> QED BY <3>1, <3>2
  <2>8. Kept' = Kept BY <1>2, <1>3, <2>7 DEF Kept
  <2>9. /\ \A r \in rest : /\ r.msg = m /\ r.handle = h /\ r.kind = "retrieve" /\ r.commitable
      BY <2>5 DEF Entry
  <2>10. Books(s)'
    <3>1. /\ \A f, g \in entries[s] : f.msg = g.msg => f = g
          /\ \A f \in entries[s] :
                /\ f.handle \in opened[s] /\ f.msg \in holds[s]
                /\ f.kind = "enqueue" => f.commitable /\ f.msg \notin received
                /\ f.kind = "retrieve" /\ f.commitable => f.msg \in received
          /\ \A n \in holds[s] : \E f \in entries[s] : f.msg = n
        BY <1>1, <1>2 DEF Books
    <3>2. \A f \in entries[s] \ {e} : f.msg # m BY <2>1, <3>1
    <3>3. \A f, g \in entries'[s] : f.msg = g.msg => f = g
      <4>1. \A f, g \in rest : f = g BY <2>5
      <4> QED BY <2>4, <2>9, <3>1, <3>2, <4>1
    <3>4. \A n \in holds'[s] : \E f \in entries'[s] : f.msg = n
      <4>1. \A n \in holds[s] \ {m} : \E f \in entries[s] \ {e} : f.msg = n BY <2>1, <3>1
      <4>2. inTransaction[s] => \E f \in entries'[s] : f.msg = m BY <2>4, <2>7, <2>9
      <4> QED BY <2>4, <2>7, <4>1, <4>2
    <3>5. \A f \in entries'[s] : f.msg \in holds'[s]
      <4>1. CASE inTransaction[s] BY <2>1, <2>2, <2>4, <2>7, <2>9, <3>1, <4>1
      <4>2. CASE ~inTransaction[s] BY <2>4, <2>7, <3>1, <3>2, <4>2
      <4> QED BY <4>1, <4>2
    <3>6. \A f \in entries'[s] :
              /\ f.handle \in opened'[s]
              /\ f.kind = "enqueue" => f.commitable /\ f.msg \notin received'
              /\ f.kind = "retrieve" /\ f.commitable => f.msg \in received'
        BY <1>1, <1>2, <1>3, <2>1, <2>4, <2>9, <3>1
    <3> QED BY <3>3, <3>4, <3>5, <3>6 DEF Books
  <2>11. \A f : f.kind = "enqueue" => (f \in entries'[s] <=> f \in entries[s])
      BY <2>1, <2>4, <2>9
  <2>12. Mine(s)' \subseteq Mine(s)
      BY <1>2, <1>5, <1>6, <2>11 DEF Mine
  <2>13. Sender(s)'
    <3>1. \A p : Pending(p)' = Pending(p) /\ Pending(p).kind = "enqueue" BY DEF Pending, Entry
    <3>2. exchange'[s].cmd # "enqueue" BY <1>5, <1>6
    <3> QED BY <1>2, <2>8, <2>11, <3>1, <3>2 DEF Sender
  <2>14. \A n \in Gained(s)' : /\ linked[s] /\ n = m /\ ~inTransaction[s]
    <3>1. call[s].fn \in {"ack", "none"} BY <1>2, <1>4
    <3> QED BY <1>1, <1>2, <1>4, <3>1 DEF Gained, Ending
  <2>15. Winner(s)'
    <3>1. owned[m] = 0 BY <2>2 DEF Inv, Outcomes, StateTypeOK
    <3>2. \A n \in Gained(s)' : n \notin Range(accepted') BY <2>7, <2>14
    <3> QED BY <1>2, <1>3, <2>14, <3>1, <3>2 DEF Winner
  <2>16. Dialogue(s)' /\ Ledger(s)'
    <3>1. CASE ~linked[s] BY <1>2, <3>1, Unheard
    <3>2. CASE linked[s]
      <4>1. Dialogue(s)' BY <1>1, <1>2, <1>4, <1>6, <3>2, AnsweredDialogue
      <4>2. e = Entry(h, m, "retrieve", FALSE)
        <5>1. Entry(h, m, "retrieve", FALSE) \in entries[s] BY <1>4, <3>2
        <5>2. Entry(h, m, "retrieve", FALSE).msg = m BY DEF Entry
        <5> QED BY <1>2, <2>1, <5>1, <5>2 DEF Books
      <4>3. e \notin Expected(s)
        <5>1. ~e.commitable BY <4>2 DEF Entry
        <5>2. \A f \in Expected(s) : f.commitable BY DEF Expected, Pending, Claim, Entry
        <5> QED BY <5>1, <5>2
      <4>4. entries'[s] = Expected(s)' \cup rest BY <1>2, <1>4, <2>4, <3>2, <4>2, <4>3
      <4>5. /\ call'[s].fn = "ack" /\ call'[s].handle = h /\ call'[s].msg = m
            /\ exchange'[s].at = "response" /\ inTransaction'[s] = inTransaction[s]
          BY <1>1, <1>2, <1>4, <1>5, <1>6, <3>2
      <4>6. Entry(h, m, "retrieve", TRUE) = Entry(call[s].handle, call[s].msg, "retrieve", TRUE)'
          BY <4>5 DEF Entry
      <4>7. entries'[s] = IF inTransaction'[s]
                          THEN Expected(s)' \cup {Entry(call[s].handle, call[s].msg, "retrieve", TRUE)'}
                          ELSE Expected(s)'
          BY <2>7, <4>4, <4>5, <4>6
      <4>8. Ledger(s)' BY <4>5, <4>7 DEF Ledger
      <4> QED BY <4>1, <4>8
    <3> QED BY <3>1, <3>2
  <2>17. Lifeline(s)' /\ InHand(s)' BY <1>5, <1>6
  <2>18. SessionInv(s)' BY <2>10, <2>13, <2>15, <2>16, <2>17 DEF SessionInv
  <2>19. /\ Gained(s)' \subseteq Gained(s) \cup Range(accepted)
         /\ \A n \in received : n \in Range(accepted') => n \in Range(accepted)
      BY <2>2, <2>7, <2>14
  <2> QED BY <1>1, <1>5, <1>6, <2>4, <2>6, <2>7, <2>8, <2>12, <2>18, <2>19, ServerStep
<1>7. ASSUME Retrieved(s) = {}, Answer(s, FALSE), UNCHANGED <<queueVars, entries>>
      PROVE  Inv'
  <2>1. ~linked[s]
    <3> SUFFICES ASSUME linked[s] PROVE FALSE OBVIOUS
    <3>1. Entry(h, m, "retrieve", FALSE) \in entries[s] BY <1>4
    <3>2. Entry(h, m, "retrieve", FALSE).msg = m /\ Entry(h, m, "retrieve", FALSE).handle = h
        BY DEF Entry
    <3> QED BY <1>7, <3>1, <3>2 DEF Retrieved
  <2>2. UNCHANGED <<accepted, ready, holds, up, opened, entries, inTransaction>>
      BY <1>1, <1>7 DEF queueVars
  <2>3. exchange'[s] = Silence BY <1>5, <1>7, <2>1
  <2>4. exchange'[s].cmd = "none" /\ exchange'[s].at = "none" BY <2>3 DEF Silence
  <2>5. StateTypeOK' BY <1>1, <1>5, <1>7, <2>2, ServerTypes DEF Inv, StateTypeOK
  <2>6. \A t \in Sessions \ {s} : SameAt(t)
      BY <1>1, <1>5, <1>7, <2>2 DEF SameAt, Session, queueVars, clientVars
  <2>7. Mine(s)' \subseteq Mine(s) BY <1>1, <2>2, <2>4, MineStays
  <2>8. Gained(s)' = {} BY <1>2, <2>1 DEF Gained, Ending
  <2>9. SessionInv(s)'
    <3>1. Lifeline(s)' /\ InHand(s)' BY <1>5, <1>7
    <3>2. Books(s)' BY <1>1, <1>2, <2>2 DEF Books
    <3>3. Sender(s)'
      <4>1. \A p : Pending(p)' = Pending(p) BY DEF Pending
      <4> QED BY <1>2, <2>2, <2>4, <4>1 DEF Sender, Kept
    <3>4. Winner(s)' BY <2>8 DEF Winner
    <3>5. Dialogue(s)' /\ Ledger(s)' BY <1>2, <2>1, Unheard
    <3> QED BY <3>1, <3>2, <3>3, <3>4, <3>5 DEF SessionInv
  <2>10. UNCHANGED <<outcome, owned, received>> BY <1>2
  <2> QED BY <2>2, <2>5, <2>6, <2>7, <2>8, <2>9, <2>10, QuietStep
<1>8. CASE \E e \in Retrieved(s) :
              /\ \/ /\ inTransaction[s] /\ UNCHANGED queueVars
                    /\ entries' = [entries EXCEPT ![s] =
                                     (@ \ {e}) \cup {[e EXCEPT !.commitable = TRUE]}]
                 \/ ~inTransaction[s] /\ Discard(s, e.msg) /\ Erase(s, e)
              /\ Answer(s, TRUE)
  <2>1. PICK e \in Retrieved(s) :
            /\ \/ /\ inTransaction[s] /\ UNCHANGED queueVars
                  /\ entries' = [entries EXCEPT ![s] =
                                   (@ \ {e}) \cup {[e EXCEPT !.commitable = TRUE]}]
               \/ ~inTransaction[s] /\ Discard(s, e.msg) /\ Erase(s, e)
            /\ Answer(s, TRUE)
      BY <1>8
  <2>2. CASE inTransaction[s] BY <1>6, <2>1, <2>2
  <2>3. CASE ~inTransaction[s]
    <3>1. entries' = [entries EXCEPT ![s] = (@ \ {e}) \cup {}]
        BY <2>1, <2>3 DEF Erase
    <3> QED BY <1>6, <2>1, <2>3, <3>1
  <2> QED BY <2>2, <2>3
<1> QED BY <1>7, <1>8 DEF RetrieveAckCmd

-----------------------------------------------------------------------------
(* Connections that are made and break, the thread and the server.         *)

LEMMA Nothing == NoCall \in Calls /\ Silence \in Exchanges /\ NewView \in Views
BY ClientAssumption
   DEF NoCall, Calls, Functions, Silence, Exchanges, Stages, NewView, Views

LEMMA ConnectInv ==
    ASSUME Inv, NEW s \in Sessions, Connect(s)
    PROVE  Inv'
<1>1. /\ linked' = [linked EXCEPT ![s] = TRUE] /\ thread[s] = "none"
      /\ thread' = [thread EXCEPT ![s] = "running"]
      /\ UNCHANGED <<accepted, ready, holds, up, call, exchange, opened, entries,
                     inTransaction, view, outcome, owned, received>>
    BY DEF Connect, queueVars, clientVars
<1>2. /\ linked'[s] /\ thread'[s] = "running" /\ \A t \in Sessions \ {s} : SameAt(t)
    BY <1>1 DEF SameAt, Inv, StateTypeOK
<1>3. SessionInv(s) /\ Lifeline(s) /\ InHand(s) /\ Books(s) /\ Sender(s) /\ Winner(s)
    BY DEF Inv, SessionInv
<1>4. ~linked[s] BY <1>1, <1>3 DEF Lifeline, Inv, StateTypeOK
<1>5. /\ call[s] = NoCall /\ exchange[s] = Silence /\ opened[s] = {} /\ entries[s] = {}
      /\ ~inTransaction[s] /\ ~view[s].began /\ view[s].handles = {}
      /\ view[s].pending = {} /\ view[s].claims = {}
    BY <1>1, <1>3, <1>4 DEF Lifeline
<1>6. StateTypeOK' BY <1>1 DEF Inv, StateTypeOK
<1>7. Mine(s)' = Mine(s) /\ Gained(s)' = Gained(s)
    BY <1>1 DEF Mine, Gained, Claim
<1>8. SessionInv(s)'
  <2>1. Lifeline(s)' BY <1>1, <1>2, <1>3 DEF Lifeline
  <2>2. InHand(s)' BY <1>1, <1>3 DEF InHand, Kept
  <2>3. Books(s)' BY <1>1, <1>3 DEF Books
  <2>4. Sender(s)' BY <1>1, <1>3, <1>5 DEF Sender, Kept
  <2>5. Winner(s)' BY <1>1, <1>3, <1>7 DEF Winner
  <2>6. Dialogue(s)'
    <3>1. \A fn : ~Responded(s, fn)' BY <1>1, <1>5 DEF Responded, Silence
    <3>2. call'[s] = NoCall /\ exchange'[s] = Silence /\ call'[s].fn = "none"
          /\ call'[s].handle = exchange'[s].handle
        BY <1>1, <1>5 DEF NoCall, Silence
    <3>3. /\ inTransaction'[s] = view'[s].began /\ opened'[s] = view'[s].handles
          /\ view'[s].pending = {} /\ view'[s].claims = {}
        BY <1>1, <1>5 DEF Inv, StateTypeOK, Views
    <3>4. call'[s].fn \notin {"open", "enqueue", "ack"} /\ view'[s].began \in BOOLEAN
        BY <1>1, <3>2 DEF Inv, StateTypeOK, Views
    <3> QED BY <3>1, <3>2, <3>3, <3>4 DEF Dialogue
  <2>7. Ledger(s)'
    <3>1. Expected(s)' = {} /\ entries'[s] = {} /\ call'[s].fn = "none"
        BY <1>1, <1>5 DEF Expected, NoCall
    <3> QED BY <3>1 DEF Ledger
  <2> QED BY <2>1, <2>2, <2>3, <2>4, <2>5, <2>6, <2>7 DEF SessionInv
<1> QED BY <1>1, <1>2, <1>6, <1>7, <1>8, QuietStep

LEMMA HangUpInv ==
    ASSUME Inv, NEW s \in Sessions, HangUp(s)
    PROVE  Inv'
<1>1. /\ thread[s] = "running" /\ ~linked[s] /\ exchange[s].at \in {"none", "request"}
      /\ exchange' = [exchange EXCEPT ![s] = Silence]
      /\ thread' = [thread EXCEPT ![s] = "ending"]
      /\ UNCHANGED <<accepted, ready, holds, up, linked, call, opened, entries,
                     inTransaction, view, outcome, owned, received>>
    BY DEF HangUp, queueVars, clientVars
<1>2. /\ exchange'[s] = Silence /\ thread'[s] = "ending"
      /\ \A t \in Sessions \ {s} : SameAt(t)
    BY <1>1 DEF SameAt, Inv, StateTypeOK
<1>3. SessionInv(s) /\ Lifeline(s) /\ Books(s) /\ Sender(s)
    BY DEF Inv, SessionInv
<1>4. StateTypeOK' BY <1>1, Nothing DEF Inv, StateTypeOK
<1>5. exchange'[s].cmd = "none" /\ exchange'[s].at = "none" BY <1>2 DEF Silence
<1>6. call[s].fn = "none" BY <1>1, <1>3 DEF Lifeline, NoCall
<1>7. Mine(s)' \subseteq Mine(s) /\ Gained(s)' = {}
  <2>1. Mine(s)' \subseteq Mine(s) BY <1>1, <1>5 DEF Mine
  <2>2. Gained(s)' = {} BY <1>1, <1>6 DEF Gained, Ending
  <2> QED BY <2>1, <2>2
<1>8. SessionInv(s)'
  <2>1. Lifeline(s)' BY <1>1, <1>2, <1>3, <1>5 DEF Lifeline, Ending
  <2>2. InHand(s)' BY <1>2 DEF InHand, Silence
  <2>3. Books(s)' BY <1>1, <1>3 DEF Books
  <2>4. Sender(s)'
    <3>1. \A p : Pending(p)' = Pending(p) BY DEF Pending
    <3> QED BY <1>1, <1>3, <1>5, <3>1 DEF Sender, Kept
  <2>5. Winner(s)' BY <1>7 DEF Winner
  <2>6. Dialogue(s)' /\ Ledger(s)' BY <1>1 DEF Dialogue, Ledger
  <2> QED BY <2>1, <2>2, <2>3, <2>4, <2>5, <2>6 DEF SessionInv
<1> QED BY <1>1, <1>2, <1>4, <1>7, <1>8, QuietStep

(* The client gives up: it cannot tell what became of what it was          *)
(* enqueueing or committing.                                               *)
LEMMA BreakInv ==
    ASSUME Inv, NEW s \in Sessions, Break(s)
    PROVE  Inv'
<1>1. /\ linked[s] /\ linked' = [linked EXCEPT ![s] = FALSE]
      /\ call' = [call EXCEPT ![s] = NoCall]
      /\ exchange' = [exchange EXCEPT ![s] = IF @.at = "response" THEN Silence ELSE @]
      /\ Become(Doubtful(s), "doubt")
      /\ view' = [view EXCEPT ![s] = [NewView EXCEPT !.pending =
                        {p \in view[s].pending : p[2] \notin Doubtful(s)}]]
      /\ UNCHANGED <<accepted, ready, holds, up, thread, opened, entries,
                     inTransaction, owned, received>>
    BY DEF Break, queueVars, serverVars
<1>2. SessionInv(s) /\ Lifeline(s) /\ InHand(s) /\ Books(s) /\ Sender(s) /\ Dialogue(s)
    BY DEF Inv, SessionInv
<1>3. /\ ~linked'[s] /\ call'[s] = NoCall
      /\ \/ exchange'[s] = Silence /\ exchange[s].at = "response"
         \/ exchange'[s] = exchange[s] /\ exchange[s].at # "response"
      /\ \A t \in Sessions \ {s} : SameAt(t)
    BY <1>1 DEF SameAt, Inv, StateTypeOK
<1>4. call'[s].fn = "none" BY <1>3 DEF NoCall
<1>5. /\ view'[s].pending = {p \in view[s].pending : p[2] \notin Doubtful(s)}
      /\ ~view'[s].began /\ view'[s].handles = {} /\ view'[s].claims = {}
    BY <1>1 DEF NewView, Inv, StateTypeOK
<1>6. \A m \in Msgs : outcome'[m] = IF m \in Doubtful(s) THEN "doubt" ELSE outcome[m]
    BY <1>1 DEF Become
<1>7. Doubtful(s) \subseteq Mine(s)
  <2>1. call[s].fn = "enqueue" => call[s].msg \in Mine(s) BY <1>2 DEF Sender, Mine
  <2>2. \A p \in view[s].pending : p[2] \in Mine(s)
    <3>1. \A p \in view[s].pending : p[2] \in Msgs BY DEF Inv, StateTypeOK, Pairs, Views
    <3> QED BY <3>1 DEF Mine
  <2> QED BY <2>1, <2>2 DEF Doubtful, Messages
<1>8. StateTypeOK'
  <2>1. view' \in [Sessions -> Views]
    <3> DEFINE rest == {p \in view[s].pending : p[2] \notin Doubtful(s)}
    <3>1. rest \subseteq Pairs BY DEF Inv, StateTypeOK, Views
    <3> HIDE DEF rest
    <3>2. [NewView EXCEPT !.pending = rest] \in Views BY <3>1, Nothing DEF Views
    <3>3. view' = [view EXCEPT ![s] = [NewView EXCEPT !.pending = rest]] BY <1>1 DEF rest
    <3> QED BY <3>2, <3>3 DEF Inv, StateTypeOK
  <2>2. outcome' \in [Msgs -> OutcomeValues]
      BY <1>1 DEF Become, Inv, StateTypeOK, OutcomeValues
  <2>3. exchange' \in [Sessions -> Exchanges] BY <1>1, Nothing DEF Inv, StateTypeOK
  <2>4. call' \in [Sessions -> Calls] BY <1>1, Nothing DEF Inv, StateTypeOK
  <2> QED BY <1>1, <2>1, <2>2, <2>3, <2>4 DEF Inv, StateTypeOK
<1>9. /\ exchange'[s].at # "response"
      /\ exchange'[s].cmd # "none" => exchange'[s] = exchange[s]
      /\ exchange'[s].cmd = "enqueue" => exchange'[s] = exchange[s]
      /\ exchange'[s].cmd \in Ending => exchange'[s] = exchange[s]
    BY <1>3 DEF Silence, Ending
<1>10. Mine(s)' \subseteq Mine(s) /\ Gained(s)' = {}
  <2>1. Mine(s)' \subseteq Mine(s) BY <1>1, <1>4, <1>5, <1>9 DEF Mine
  <2>2. Gained(s)' = {} BY <1>4 DEF Gained, Ending
  <2> QED BY <2>1, <2>2
<1>11. Kept' = Kept BY <1>1 DEF Kept
<1>12. OwnAffairs(s)
    BY <1>1, <1>3, <1>6, <1>7, <1>10, <1>11 DEF OwnAffairs
<1>13. \A m \in Mine(s) \cup Mine(s)' : OutcomeFits(m)'
    BY <1>6, <1>10, <1>11 DEF OutcomeFits, Inv, Outcomes, Mine
<1>14. \A m \in Gained(s) : OwnedFits(m)'
    BY <1>1 DEF OwnedFits, Inv, Outcomes, Gained
<1>15. QueueInv' BY <1>1, SameQueue DEF Inv
<1>16. call[s].fn \in Ending => view'[s].pending = {}
    BY <1>5 DEF Doubtful, Messages, Ending
<1>17. SessionInv(s)'
  <2>1. Lifeline(s)'
    <3>1. exchange'[s].cmd \in Ending => view'[s].pending = {}
      <4> SUFFICES ASSUME exchange'[s].cmd \in Ending PROVE view'[s].pending = {}
          OBVIOUS
      <4>1. exchange[s].cmd \in Ending BY <1>9
      <4>2. call[s].fn = exchange[s].cmd BY <1>1, <1>2, <4>1 DEF Dialogue, Silence, Ending
      <4> QED BY <1>16, <4>1, <4>2
    <3>2. thread'[s] = "running" BY <1>1, <1>2 DEF Lifeline
    <3> QED BY <1>3, <1>5, <1>9, <3>1, <3>2 DEF Lifeline
  <2>2. InHand(s)'
    <3>1. CASE exchange'[s] = Silence BY <3>1 DEF InHand, Silence
    <3>2. CASE exchange'[s] = exchange[s] BY <1>1, <1>2, <1>11, <3>2 DEF InHand
    <3> QED BY <1>3, <3>1, <3>2
  <2>3. Books(s)' BY <1>1, <1>2, <1>3 DEF Books
  <2>4. Sender(s)'
    <3>1. \A m \in Msgs : outcome'[m] \in {outcome[m], "doubt"} BY <1>6
    <3>2. exchange'[s].cmd = "enqueue" => /\ exchange'[s].msg \in Msgs
                                          /\ outcome'[exchange'[s].msg] \in {"calling", "doubt"}
        BY <1>2, <1>9, <3>1 DEF Sender, InHand
    <3>3. \A p \in view'[s].pending : p \in view[s].pending /\ outcome'[p[2]] = "pending"
      <4>1. \A p \in view[s].pending : p[2] \in Msgs BY DEF Inv, StateTypeOK, Pairs, Views
      <4> QED BY <1>2, <1>5, <1>6, <4>1 DEF Sender
    <3>4. \A e \in entries[s] : e.kind = "enqueue" =>
              outcome'[e.msg] \in {"calling", "pending", "doubt"}
      <4>1. \A e \in entries[s] : e.msg \in Msgs BY DEF Inv, StateTypeOK, EntryRecords
      <4> QED BY <1>2, <3>1, <4>1 DEF Sender
    <3>5. \A p, q \in view'[s].pending : p[2] = q[2] => p = q BY <1>2, <3>3 DEF Sender
    <3>6. \A p : Pending(p)' = Pending(p) BY DEF Pending
    <3>7. ASSUME NEW p \in view'[s].pending, Pending(p) \notin entries[s]
          PROVE  p[2] \notin Kept
      <4>1. call[s].fn \notin Ending BY <1>16, <3>7
      <4> QED BY <1>2, <3>3, <3>7, <4>1 DEF Sender
    <3>8. call'[s].fn \notin Ending BY <1>4 DEF Ending
    <3> QED BY <1>1, <1>4, <1>11, <3>2, <3>3, <3>4, <3>5, <3>6, <3>7, <3>8 DEF Sender
  <2>5. Winner(s)' BY <1>10 DEF Winner
  <2>6. Dialogue(s)' /\ Ledger(s)' BY <1>3 DEF Dialogue, Ledger
  <2> QED BY <2>1, <2>2, <2>3, <2>4, <2>5, <2>6 DEF SessionInv
<1> QED BY <1>8, <1>12, <1>13, <1>14, <1>15, <1>17, SessionStep

(* By the time the thread ends, what was not committed is off the queue.   *)
LEMMA ThreadEndsInv ==
    ASSUME Inv, NEW s \in Sessions, ThreadEnds(s)
    PROVE  Inv'
<1>1. /\ thread[s] = "ending" /\ opened[s] = {}
      /\ thread' = [thread EXCEPT ![s] = "none"]
      /\ inTransaction' = [inTransaction EXCEPT ![s] = FALSE]
      /\ Become(Messages(view[s].pending), "withdrawn")
      /\ view' = [view EXCEPT ![s] = NewView]
      /\ UNCHANGED <<accepted, ready, holds, up, linked, call, exchange, opened, entries,
                     owned, received>>
    BY DEF ThreadEnds, queueVars, wireVars
<1>2. SessionInv(s) /\ Lifeline(s) /\ InHand(s) /\ Books(s) /\ Sender(s)
    BY DEF Inv, SessionInv
<1>3. /\ thread'[s] = "none" /\ ~inTransaction'[s] /\ view'[s] = NewView
      /\ \A t \in Sessions \ {s} : SameAt(t)
    BY <1>1 DEF SameAt, Inv, StateTypeOK
<1>4. /\ ~linked[s] /\ call[s] = NoCall /\ exchange[s] = Silence /\ entries[s] = {}
    BY <1>1, <1>2 DEF Lifeline, Books
<1>5. /\ view'[s].pending = {} /\ view'[s].claims = {} /\ view'[s].handles = {}
      /\ ~view'[s].began
    BY <1>3 DEF NewView
<1>6. \A m \in Msgs : outcome'[m] = IF \E p \in view[s].pending : p[2] = m
                                     THEN "withdrawn" ELSE outcome[m]
    BY <1>1 DEF Become, Messages
<1>7. call[s].fn = "none" /\ exchange[s].cmd = "none" /\ exchange[s].at = "none"
    BY <1>4 DEF NoCall, Silence
<1>8. StateTypeOK'
  <2>1. view' \in [Sessions -> Views] BY <1>1, Nothing DEF Inv, StateTypeOK
  <2>2. outcome' \in [Msgs -> OutcomeValues]
      BY <1>1 DEF Become, Inv, StateTypeOK, OutcomeValues
  <2> QED BY <1>1, <2>1, <2>2 DEF Inv, StateTypeOK
<1>9. Mine(s)' = {} /\ Gained(s)' = {}
  <2>1. Mine(s)' = {} BY <1>1, <1>4, <1>5, <1>7 DEF Mine
  <2>2. Gained(s)' = {} BY <1>1, <1>7 DEF Gained, Ending
  <2> QED BY <2>1, <2>2
<1>10. Kept' = Kept BY <1>1 DEF Kept
<1>11. \A m \in Msgs \ Mine(s) : outcome'[m] = outcome[m] BY <1>6 DEF Mine
<1>12. OwnAffairs(s) BY <1>1, <1>3, <1>9, <1>10, <1>11 DEF OwnAffairs
<1>13. ASSUME NEW m \in Mine(s) PROVE OutcomeFits(m)'
  <2>1. m \in Msgs BY DEF Mine
  <2>2. CASE \E p \in view[s].pending : p[2] = m
    <3>1. m \notin Kept BY <1>2, <1>4, <1>7, <2>2 DEF Sender, Ending
    <3>2. outcome'[m] = "withdrawn" BY <1>6, <2>1, <2>2
    <3> QED BY <1>10, <3>1, <3>2 DEF OutcomeFits
  <2>3. CASE ~\E p \in view[s].pending : p[2] = m
    <3>1. outcome'[m] = outcome[m] BY <1>6, <2>1, <2>3
    <3> QED BY <1>10, <2>1, <3>1 DEF Inv, Outcomes, OutcomeFits
  <2> QED BY <2>2, <2>3
<1>14. \A m \in Gained(s) : OwnedFits(m)'
    BY <1>1 DEF OwnedFits, Inv, Outcomes, Gained
<1>15. QueueInv' BY <1>1, SameQueue DEF Inv
<1>16. SessionInv(s)'
  <2>1. Lifeline(s)' BY <1>1, <1>3, <1>4, <1>5, <1>7 DEF Lifeline
  <2>2. InHand(s)' BY <1>1, <1>4 DEF InHand, Silence
  <2>3. Books(s)' BY <1>1, <1>2 DEF Books
  <2>4. Sender(s)' BY <1>1, <1>4, <1>5, <1>7 DEF Sender
  <2>5. Winner(s)' BY <1>9 DEF Winner
  <2>6. Dialogue(s)' /\ Ledger(s)' BY <1>1, <1>4 DEF Dialogue, Ledger
  <2> QED BY <2>1, <2>2, <2>3, <2>4, <2>5, <2>6 DEF SessionInv
<1> QED BY <1>8, <1>9, <1>12, <1>13, <1>14, <1>15, <1>16, SessionStep

(* A session that nobody serves and nobody uses.                           *)
Idle(s) ==
    /\ ~linked[s] /\ call[s] = NoCall /\ exchange[s] = Silence /\ thread[s] = "none"
    /\ opened[s] = {} /\ entries[s] = {} /\ ~inTransaction[s] /\ view[s] = NewView
    /\ holds[s] = {}

LEMMA IdleSession ==
    ASSUME NEW s \in Sessions, Idle(s)
    PROVE  SessionInv(s) /\ Mine(s) = {} /\ Gained(s) = {}
<1>1. /\ call[s].fn = "none" /\ exchange[s].cmd = "none" /\ exchange[s].at = "none"
      /\ view[s].pending = {} /\ view[s].claims = {} /\ view[s].handles = {}
      /\ ~view[s].began
    BY DEF Idle, NoCall, Silence, NewView
<1>2. Mine(s) = {} BY <1>1 DEF Mine, Idle
<1>3. Gained(s) = {} BY <1>1 DEF Gained, Ending
<1>4. Lifeline(s) BY <1>1 DEF Lifeline, Idle
<1>5. InHand(s) BY <1>1 DEF InHand, Idle
<1>6. Books(s) BY DEF Books, Idle
<1>7. Sender(s) BY <1>1 DEF Sender, Idle
<1>8. Winner(s) BY <1>3 DEF Winner
<1>9. Dialogue(s) /\ Ledger(s) BY DEF Dialogue, Ledger, Idle
<1> QED BY <1>2, <1>3, <1>4, <1>5, <1>6, <1>7, <1>8, <1>9 DEF SessionInv

LEMMA InitInv == ConnInit => Inv
<1> SUFFICES ASSUME ConnInit PROVE Inv
    OBVIOUS
<1>1. QueueInv BY StartInv DEF ConnInit
<1>2. StateTypeOK BY Nothing DEF ConnInit, StateTypeOK, OutcomeValues
<1>3. \A s \in Sessions : Idle(s) BY DEF ConnInit, Start, Idle
<1>4. Outcomes
  <2>1. Kept = {} BY DEF ConnInit, Start, Kept, Range
  <2> QED BY <2>1 DEF ConnInit, Outcomes
<1>5. (\A s \in Sessions : SessionInv(s)) /\ Apart
    BY <1>3, IdleSession DEF Apart
<1> QED BY <1>1, <1>2, <1>4, <1>5 DEF Inv

LEMMA CrashInv ==
    ASSUME Inv, Crash
    PROVE  Inv'
<1>1. QueueInv' BY DownInv DEF Inv, Crash
<1>2. StateTypeOK'
  <2>1. outcome' \in [Msgs -> OutcomeValues]
      BY DEF Crash, Become, Inv, StateTypeOK, OutcomeValues
  <2> QED BY <2>1, Nothing DEF Crash, Inv, StateTypeOK
<1>3. ASSUME NEW s \in Sessions PROVE SessionInv(s)' /\ Mine(s)' = {} /\ Gained(s)' = {}
  <2>1. Idle(s)' BY DEF Crash, Down, Idle
  <2>2. /\ call'[s].fn = "none" /\ exchange'[s].cmd = "none" /\ exchange'[s].at = "none"
        /\ view'[s].pending = {} /\ view'[s].claims = {} /\ view'[s].handles = {}
        /\ ~view'[s].began
      BY <2>1 DEF Idle, NoCall, Silence, NewView
  <2>3. Mine(s)' = {} BY <2>1, <2>2 DEF Mine, Idle
  <2>4. Gained(s)' = {} BY <2>2 DEF Gained, Ending
  <2>5. Lifeline(s)' BY <2>1, <2>2 DEF Lifeline, Idle
  <2>6. InHand(s)' BY <2>1, <2>2 DEF InHand, Idle
  <2>7. Books(s)' BY <2>1 DEF Books, Idle
  <2>8. Sender(s)' BY <2>1, <2>2 DEF Sender, Idle
  <2>9. Winner(s)' BY <2>4 DEF Winner
  <2>10. Dialogue(s)' /\ Ledger(s)' BY <2>1 DEF Dialogue, Ledger, Idle
  <2> QED BY <2>3, <2>4, <2>5, <2>6, <2>7, <2>8, <2>9, <2>10 DEF SessionInv
<1>4. Outcomes'
  <2>1. Kept' = Kept /\ UNCHANGED <<owned, received, accepted>> BY DEF Crash, Down, Kept
  <2>2. \A m \in Msgs : outcome'[m] \in {outcome[m], "doubt"} BY DEF Crash, Become
  <2> QED BY <2>1, <2>2 DEF Inv, Outcomes
<1>5. Apart' BY <1>3 DEF Apart
<1> QED BY <1>1, <1>2, <1>3, <1>4, <1>5 DEF Inv

(* What neither the sessions nor the order of the queue notice.            *)
LEMMA Unnoticed ==
    ASSUME Inv, QueueInv',
           UNCHANGED <<accepted, holds, wireVars, serverVars, clientVars>>
    PROVE  Inv'
<1>1. UNCHANGED <<accepted, holds, linked, call, exchange, thread, opened, entries,
                  inTransaction, view, outcome, owned, received>>
    BY DEF wireVars, serverVars, clientVars
<1>2. StateTypeOK' BY <1>1 DEF Inv, StateTypeOK
<1>3. Kept' = Kept BY <1>1 DEF Kept
<1>4. ASSUME NEW s \in Sessions
      PROVE  SessionInv(s)' /\ Mine(s)' = Mine(s) /\ Gained(s)' = Gained(s)
  <2>1. Expected(s)' = Expected(s) /\ Mine(s)' = Mine(s) /\ Gained(s)' = Gained(s)
      BY <1>1 DEF Expected, Mine, Gained, Pending, Claim
  <2>2. SessionInv(s) BY DEF Inv
  <2>3. Lifeline(s)' BY <1>1, <2>2 DEF SessionInv, Lifeline
  <2>4. InHand(s)' BY <1>1, <1>3, <2>2 DEF SessionInv, InHand
  <2>5. Books(s)' BY <1>1, <2>2 DEF SessionInv, Books
  <2>6. Sender(s)'
    <3>1. \A p : Pending(p)' = Pending(p) BY DEF Pending
    <3> QED BY <1>1, <1>3, <2>2, <3>1 DEF SessionInv, Sender
  <2>7. Winner(s)' BY <1>1, <2>1, <2>2 DEF SessionInv, Winner
  <2>8. Dialogue(s)'
    <3>1. \A fn : Responded(s, fn)' = Responded(s, fn) BY <1>1 DEF Responded
    <3> QED BY <1>1, <1>3, <2>2, <3>1 DEF SessionInv, Dialogue
  <2>9. Ledger(s)' BY <1>1, <2>1, <2>2 DEF SessionInv, Ledger
  <2> QED BY <2>1, <2>3, <2>4, <2>5, <2>6, <2>7, <2>8, <2>9 DEF SessionInv
<1>5. Outcomes' BY <1>1, <1>3 DEF Inv, Outcomes
<1>6. Apart' BY <1>4 DEF Inv, Apart
<1> QED BY <1>2, <1>4, <1>5, <1>6 DEF Inv

-----------------------------------------------------------------------------
(* The theorems                                                            *)

LEMMA ClientStep ==
    ASSUME Inv, NEW s \in Sessions, ClientNext(s)
    PROVE  Inv'
<1>1. /\ \A h \in Handles : h \in 0 .. MaxHandle
      /\ 0 \in 0 .. MaxHandle
    BY ClientAssumption DEF Handles
<1>2. CASE OpenQueue(s)
    BY <1>1, <1>2, CallInv DEF OpenQueue, Functions
<1>3. CASE TransactionCall(s)
  <2>1. PICK fn \in {"begin", "commit", "rollback", "end"} :
            Call(s, fn, 0, None) /\ UNCHANGED outcome
      BY <1>3 DEF TransactionCall
  <2> QED BY <1>1, <2>1, CallInv DEF Functions
<1>4. ASSUME NEW h \in Handles, CloseQueue(s, h) \/ Retrieve(s, h) PROVE Inv'
    BY <1>1, <1>4, CallInv DEF CloseQueue, Retrieve, Functions
<1>5. ASSUME NEW h \in Handles, NEW m \in Msgs, Enqueue(s, h, m) PROVE Inv'
    BY <1>1, <1>5, CallInv DEF Enqueue, Functions
<1>6. CASE Connect(s) BY <1>6, ConnectInv
<1>7. CASE OpenQueueReturns(s) BY <1>7, OpenQueueReturnsInv
<1>8. CASE CloseQueueReturns(s) BY <1>8, CloseQueueReturnsInv
<1>9. CASE EnqueueReturns(s) BY <1>9, EnqueueReturnsInv
<1>10. CASE RetrieveReads(s) BY <1>10, RetrieveReadsInv
<1>11. CASE RetrieveReturns(s) BY <1>11, RetrieveReturnsInv
<1>12. CASE TransactionReturns(s) BY <1>12, TransactionReturnsInv
<1> QED BY <1>2, <1>3, <1>4, <1>5, <1>6, <1>7, <1>8, <1>9, <1>10, <1>11, <1>12 DEF ClientNext

LEMMA ThreadStep ==
    ASSUME Inv, NEW s \in Sessions, ThreadNext(s)
    PROVE  Inv'
<1>1. CASE QueueOpenCmd(s) BY <1>1, QueueOpenCmdInv
<1>2. CASE NotOpen(s) BY <1>2, NotOpenInv
<1>3. CASE EnqueueCmd(s) BY <1>3, EnqueueCmdInv
<1>4. CASE Publish(s) BY <1>4, PublishInv
<1>5. CASE RetrieveCmd(s) BY <1>5, RetrieveCmdInv
<1>6. CASE Send(s) BY <1>6, SendInv
<1>7. CASE SendFails(s) BY <1>7, SendFailsInv
<1>8. CASE RetrieveAckCmd(s) BY <1>8, RetrieveAckCmdInv
<1>9. CASE BeginTransactionCmd(s) BY <1>9, BeginTransactionCmdInv
<1>10. CASE Begun(s) BY <1>10, BegunInv
<1>11. CASE CommitOne(s) BY <1>11, CommitOneInv
<1>12. CASE RollbackOne(s) BY <1>12, RollbackOneInv
<1>13. CASE TransactionDone(s) BY <1>13, TransactionDoneInv
<1>14. CASE ShutdownEntry(s) BY <1>14, ShutdownEntryInv
<1>15. CASE ShutdownDone(s) BY <1>15, ShutdownDoneInv
<1>16. CASE HangUp(s) BY <1>16, HangUpInv
<1>17. CASE ThreadEnds(s) BY <1>17, ThreadEndsInv
<1> QED BY <1>1, <1>2, <1>3, <1>4, <1>5, <1>6, <1>7, <1>8, <1>9, <1>10, <1>11, <1>12,
           <1>13, <1>14, <1>15, <1>16, <1>17 DEF ThreadNext

(* The books of every session are in order, and no two sessions share a    *)
(* message that one of them sends, or is being told it has removed,        *)
(* whatever breaks.                                                        *)
THEOREM BooksInOrder == ConnSpec => []Inv
<1>1. ASSUME Inv, [ConnNext]_vars PROVE Inv'
  <2>1. CASE \E s \in Sessions : ClientNext(s) BY <1>1, <2>1, ClientStep
  <2>2. CASE \E s \in Sessions : ThreadNext(s) BY <1>1, <2>2, ThreadStep
  <2>3. CASE \E s \in Sessions : Break(s) BY <1>1, <2>3, BreakInv
  <2>4. CASE Crash BY <1>1, <2>4, CrashInv
  <2>5. CASE StartAgain
    <3>1. QueueInv' BY <1>1, <2>5, RestartInv DEF Inv, StartAgain
    <3> QED BY <1>1, <2>5, <3>1, Unnoticed DEF StartAgain, Restart
  <2>6. CASE UNCHANGED vars
    <3>1. QueueInv' BY <1>1, <2>6, SameQueue DEF Inv, vars, queueVars
    <3> QED BY <1>1, <2>6, <3>1, Unnoticed DEF vars, queueVars
  <2> QED BY <1>1, <2>1, <2>2, <2>3, <2>4, <2>5, <2>6 DEF ConnNext
<1> QED BY <1>1, InitInv, PTL DEF ConnSpec

(* The results of its calls tell a client what its session is: whether it  *)
(* is in a transaction, which handles it has, and what the commit will     *)
(* publish and remove, although the thread that serves it does every one   *)
(* of these things in several steps, and not when the client is told.      *)
THEOREM ClientsKnowTheirSession == ConnSpec => []ViewsAgree
<1>1. ASSUME Inv PROVE ViewsAgree
  <2>1. ConnTypeOK
    <3>1. \A s \in Sessions : \A e \in entries[s] :
              e.handle \in opened[s] /\ e.msg \in holds[s] \cap Range(accepted)
        BY <1>1 DEF Inv, SessionInv, Books, QueueInv
    <3> QED BY <1>1, <3>1 DEF Inv, StateTypeOK, OutcomeValues, ConnTypeOK
  <2>2. ASSUME NEW s \in Sessions, linked[s]
        PROVE  IF call[s] = NoCall
               THEN /\ exchange[s] = Silence
                    /\ view[s].began = inTransaction[s]
                    /\ view[s].handles = opened[s]
                    /\ Expected(s) = entries[s]
               ELSE exchange[s].at # "none" /\ exchange[s].cmd = call[s].fn
    <3>1. Dialogue(s) /\ Ledger(s) BY <1>1 DEF Inv, SessionInv
    <3>2. CASE call[s] = NoCall
      <4>1. call[s].fn = "none" BY <3>2 DEF NoCall
      <4>2. exchange[s] = Silence /\ \A fn : ~Responded(s, fn)
          BY <2>2, <3>1, <4>1 DEF Dialogue, Responded, Silence
      <4>3. view[s].began \in BOOLEAN BY <1>1 DEF Inv, StateTypeOK, Views
      <4>4. view[s].began = inTransaction[s] /\ view[s].handles = opened[s]
          BY <2>2, <3>1, <4>2, <4>3 DEF Dialogue
      <4>5. Expected(s) = entries[s] BY <2>2, <3>1, <4>1 DEF Ledger
      <4> QED BY <3>2, <4>2, <4>4, <4>5
    <3>3. CASE call[s] # NoCall
        BY <2>2, <3>1, <3>3 DEF Dialogue
    <3> QED BY <3>2, <3>3
  <2> QED BY <2>1, <2>2 DEF ViewsAgree, Expected, Pending, Claim
<1> QED BY <1>1, BooksInOrder, PTL

(* What the sender of a message was told is on the queue, by the result of *)
(* an enqueue or of a commit, stays there until somebody has read it, over *)
(* broken connections, ends of sessions and crashes.                       *)
THEOREM PromisesKept == ConnSpec => []PromiseKept
<1>1. Inv => PromiseKept BY DEF Inv, Outcomes, PromiseKept, Kept
<1> QED BY <1>1, BooksInOrder, PTL

(* No two clients are told they have removed the same message, nor is one  *)
(* told so twice; and what it was told it removed does not come back.      *)
THEOREM RemovedOnce == ConnSpec => []OwnedOnce
<1>1. Inv => OwnedOnce BY DEF Inv, Outcomes, OwnedOnce
<1> QED BY <1>1, BooksInOrder, PTL

(* Nobody can have a message before its sender has asked for the commit of *)
(* the transaction it belongs to, nor one that was withdrawn by a rollback,*)
(* by the close of the queue or by the end of the session.                 *)
THEOREM NothingBeforeCommit == ConnSpec => []Isolation
<1>1. ASSUME Inv PROVE Isolation
  <2>1. ASSUME NEW s \in Sessions, NEW p \in view[s].pending, ~Committing(s)
        PROVE  p[2] \notin ready \cup received
    <3>1. Books(s) /\ Sender(s) BY <1>1 DEF Inv, SessionInv
    <3>2. CASE Pending(p) \in entries[s]
      <4>1. p[2] \in holds[s] /\ p[2] \notin received
          BY <3>1, <3>2 DEF Books, Pending, Entry
      <4> QED BY <1>1, <4>1 DEF Inv, QueueInv
    <3>3. CASE Pending(p) \notin entries[s]
      <4>1. p[2] \notin Kept
          BY <2>1, <3>1, <3>3 DEF Sender, Committing, Ending
      <4> QED BY <1>1, <4>1 DEF Inv, QueueInv, Kept
    <3> QED BY <3>2, <3>3
  <2>2. \A m \in Msgs : outcome[m] = "withdrawn" => m \notin Range(accepted) \cup received
      BY <1>1 DEF Inv, Outcomes, Kept
  <2> QED BY <2>1, <2>2 DEF Isolation
<1> QED BY <1>1, BooksInOrder, PTL
=============================================================================
