--------------------------- MODULE ClientConnection ---------------------------
(***************************************************************************)
(* A client and its session, end to end: the calls of the client library   *)
(* (src/lib/MQConnection.cpp), the requests and responses they exchange    *)
(* with the thread that serves the connection (src/ServiceThread.cpp), and *)
(* the transaction that thread keeps (src/TransactionManager.cpp), on top  *)
(* of a queue that keeps the promise of MessageQueue.                      *)
(*                                                                         *)
(* A connection may break at any moment: a response not yet read is gone,  *)
(* a request may still be read, much later, and a response written may     *)
(* seem to have been sent.  The server may crash at any moment.            *)
(*                                                                         *)
(* All handles are on one queue.  What a client may conclude from the      *)
(* results of its calls is kept in view, outcome and owned.                *)
(***************************************************************************)
EXTENDS MessageQueue

CONSTANTS MaxHandle,  \* bound: handles of one session
          None        \* no message

ASSUME ClientAssumption == MaxHandle \in Nat \ {0} /\ None \notin Msgs

Handles == 1 .. MaxHandle

VARIABLES
    linked,         \* is the connection of a session up?
    call,           \* what its client is calling
    exchange,       \* the request or response on the way, or being served
    thread,         \* the thread of the session: "none", "running", "ending"
    opened,         \* ServiceThread::queues
    entries,        \* TransactionManager::transactions
    inTransaction,
    view,           \* what the client knows of its session
    outcome,        \* what the sender of a message knows of it
    owned,          \* how many clients were told they have removed a message
    received        \* the messages some client has read

wireVars   == <<linked, call, exchange>>
serverVars == <<thread, opened, entries, inTransaction>>
clientVars == <<view, outcome, owned, received>>
vars == <<queueVars, wireVars, serverVars, clientVars>>

NoCall   == [fn |-> "none", handle |-> 0, msg |-> None]
Silence  == [at |-> "none", cmd |-> "none", handle |-> 0, msg |-> None, ok |-> FALSE]
NewView  == [began |-> FALSE, handles |-> {}, pending |-> {}, claims |-> {}]
Entry(h, m, kind, commitable) ==
    [handle |-> h, msg |-> m, kind |-> kind, commitable |-> commitable]

ConnInit ==
    /\ Start
    /\ linked = [s \in Sessions |-> FALSE]
    /\ call = [s \in Sessions |-> NoCall]
    /\ exchange = [s \in Sessions |-> Silence]
    /\ thread = [s \in Sessions |-> "none"]
    /\ opened = [s \in Sessions |-> {}]
    /\ entries = [s \in Sessions |-> {}]
    /\ inTransaction = [s \in Sessions |-> FALSE]
    /\ view = [s \in Sessions |-> NewView]
    /\ outcome = [m \in Msgs |-> "new"]
    /\ owned = [m \in Msgs |-> 0]
    /\ received = {}
-----------------------------------------------------------------------------
(* The client's side.  A call writes its request and waits for the answer. *)

Connect(s) ==
    /\ up
    /\ thread[s] = "none"
    /\ linked' = [linked EXCEPT ![s] = TRUE]
    /\ thread' = [thread EXCEPT ![s] = "running"]
    /\ UNCHANGED <<queueVars, call, exchange, opened, entries, inTransaction, clientVars>>

Write(s, cmd, h, m) ==
    exchange' = [exchange EXCEPT ![s] = [at |-> "request", cmd |-> cmd, handle |-> h,
                                         msg |-> m, ok |-> FALSE]]

Call(s, fn, h, m) ==
    /\ linked[s] /\ call[s] = NoCall
    /\ call' = [call EXCEPT ![s] = [fn |-> fn, handle |-> h, msg |-> m]]
    /\ Write(s, fn, h, m)
    /\ UNCHANGED <<queueVars, linked, serverVars, view, owned, received>>

OpenQueue(s)   == Call(s, "open", 0, None) /\ UNCHANGED outcome
CloseQueue(s, h) == Call(s, "close", h, None) /\ UNCHANGED outcome
Retrieve(s, h) == Call(s, "retrieve", h, None) /\ UNCHANGED outcome
Enqueue(s, h, m) ==
    /\ outcome[m] = "new"
    /\ outcome' = [outcome EXCEPT ![m] = "calling"]
    /\ Call(s, "enqueue", h, m)
TransactionCall(s) ==
    \E fn \in {"begin", "commit", "rollback", "end"} :
        Call(s, fn, 0, None) /\ UNCHANGED outcome

(* The answer is read, and the call returns.                               *)
Answered(s, fn) ==
    /\ linked[s] /\ call[s].fn = fn /\ exchange[s].at = "response"
    /\ exchange[s].cmd = fn

Return(s) ==
    /\ call' = [call EXCEPT ![s] = NoCall]
    /\ exchange' = [exchange EXCEPT ![s] = Silence]
    /\ UNCHANGED <<queueVars, linked, serverVars>>

Messages(pairs) == {p[2] : p \in pairs}
Become(ms, what) == outcome' = [m \in Msgs |-> IF m \in ms THEN what ELSE outcome[m]]
Own(ms) == owned' = [m \in Msgs |-> IF m \in ms THEN owned[m] + 1 ELSE owned[m]]

OpenQueueReturns(s) ==
    /\ Answered(s, "open")
    /\ view' = IF exchange[s].ok
               THEN [view EXCEPT ![s].handles = @ \cup {exchange[s].handle}] ELSE view
    /\ Return(s) /\ UNCHANGED <<outcome, owned, received>>

CloseQueueReturns(s) ==
    LET h == call[s].handle
        v == view[s]
        On(pairs) == {p \in pairs : p[1] = h}
        left == [v EXCEPT !.handles = @ \ {h}, !.pending = @ \ On(@), !.claims = @ \ On(@)] IN
    /\ Answered(s, "close")
    /\ IF exchange[s].ok
       THEN /\ Become(Messages(On(v.pending)), "withdrawn")
            /\ view' = [view EXCEPT ![s] = left]
       ELSE UNCHANGED <<view, outcome>>
    /\ Return(s) /\ UNCHANGED <<owned, received>>

EnqueueReturns(s) ==
    LET m == call[s].msg IN
    /\ Answered(s, "enqueue")
    /\ \/ /\ exchange[s].ok /\ view[s].began
          /\ view' = [view EXCEPT ![s].pending = @ \cup {<<call[s].handle, m>>}]
          /\ Become({m}, "pending")
       \/ exchange[s].ok /\ ~view[s].began /\ Become({m}, "kept") /\ UNCHANGED view
       \/ ~exchange[s].ok /\ Become({m}, "withdrawn") /\ UNCHANGED view
    /\ Return(s) /\ UNCHANGED <<owned, received>>

(* Retrieve() reads the message and acknowledges it at once.               *)
RetrieveReads(s) ==
    LET m == exchange[s].msg IN
    /\ Answered(s, "retrieve")
    /\ IF exchange[s].ok
       THEN /\ received' = received \cup {m}
            /\ call' = [call EXCEPT ![s].fn = "ack", ![s].msg = m]
            /\ Write(s, "ack", call[s].handle, m)
            /\ UNCHANGED <<queueVars, linked, serverVars>>
       ELSE Return(s) /\ UNCHANGED received
    /\ UNCHANGED <<view, outcome, owned>>

RetrieveReturns(s) ==
    LET m == call[s].msg IN
    /\ Answered(s, "ack")
    /\ \/ /\ exchange[s].ok /\ view[s].began
          /\ view' = [view EXCEPT ![s].claims = @ \cup {<<call[s].handle, m>>}]
          /\ UNCHANGED owned
       \/ exchange[s].ok /\ ~view[s].began /\ Own({m}) /\ UNCHANGED view
       \/ ~exchange[s].ok /\ UNCHANGED <<view, owned>>
    /\ Return(s) /\ UNCHANGED <<outcome, received>>

TransactionReturns(s) ==
    LET fn == call[s].fn
        v == view[s]
        done == [v EXCEPT !.began = @ /\ fn # "end", !.pending = {}, !.claims = {}] IN
    /\ fn \in {"begin", "commit", "rollback", "end"} /\ Answered(s, fn)
    /\ IF fn = "begin"
       THEN /\ view' = [view EXCEPT ![s].began = TRUE]
            /\ UNCHANGED <<outcome, owned>>
       ELSE /\ view' = [view EXCEPT ![s] = done]
            /\ Become(Messages(v.pending), IF fn = "rollback" THEN "withdrawn" ELSE "kept")
            /\ Own(IF fn = "rollback" THEN {} ELSE Messages(v.claims))
    /\ Return(s) /\ UNCHANGED received
-----------------------------------------------------------------------------
(* The server's side.  ServiceThread::run() reads a command, performs it,  *)
(* and writes the response.                                                *)
Asked(s, cmd) == /\ up /\ thread[s] = "running"
                 /\ exchange[s].at = "request" /\ exchange[s].cmd = cmd
IsOpen(s)     == exchange[s].handle \in opened[s]
Answer(s, ok) == exchange' = [exchange EXCEPT ![s] =
                    IF linked[s] THEN [@ EXCEPT !.at = "response", !.ok = ok] ELSE Silence]
Stage(s, at)  == exchange' = [exchange EXCEPT ![s].at = at]
At(s, at)     == up /\ thread[s] = "running" /\ exchange[s].at = at
Erase(s, e)   == entries' = [entries EXCEPT ![s] = @ \ {e}]
Add(s, e)     == entries' = [entries EXCEPT ![s] = @ \cup {e}]
Session(s)    == UNCHANGED <<linked, call, thread, clientVars>>

(* registerQueue(): one more than the last handle.                         *)
QueueOpenCmd(s) ==
    LET new == IF opened[s] = {} THEN 1 ELSE Max(opened[s]) + 1 IN
    /\ Asked(s, "open") /\ new \in Handles
    /\ opened' = [opened EXCEPT ![s] = @ \cup {new}]
    /\ exchange' = [exchange EXCEPT ![s] =
          IF linked[s] THEN [@ EXCEPT !.at = "response", !.ok = TRUE, !.handle = new]
          ELSE Silence]
    /\ Session(s) /\ UNCHANGED <<queueVars, entries, inTransaction>>

(* A command on a handle that is not open is answered EC_NOTOPEN.          *)
NotOpen(s) ==
    /\ \E cmd \in {"close", "enqueue", "retrieve"} : Asked(s, cmd)
    /\ ~IsOpen(s)
    /\ Answer(s, FALSE)
    /\ Session(s) /\ UNCHANGED <<queueVars, opened, entries, inTransaction>>

EnqueueCmd(s) ==
    /\ Asked(s, "enqueue") /\ IsOpen(s)
    /\ Store(s, exchange[s].msg)
    /\ Stage(s, "publish")
    /\ Session(s) /\ UNCHANGED <<opened, entries, inTransaction>>

(* Mutant of Publish: what is enqueued in a transaction is seen by all.    *)
PublishAnyway(s) ==
    /\ At(s, "publish")
    /\ Release(s, exchange[s].msg)
    /\ IF inTransaction[s]
       THEN Add(s, Entry(exchange[s].handle, exchange[s].msg, "enqueue", TRUE))
       ELSE UNCHANGED entries
    /\ Answer(s, TRUE)
    /\ Session(s) /\ UNCHANGED <<opened, inTransaction>>

(* TransactionManager::Enqueue()                                           *)
Publish(s) ==
    LET m == exchange[s].msg IN
    /\ At(s, "publish")
    /\ IF inTransaction[s]
       THEN /\ Add(s, Entry(exchange[s].handle, m, "enqueue", TRUE))
            /\ UNCHANGED queueVars
       ELSE Release(s, m) /\ UNCHANGED entries
    /\ Answer(s, TRUE)
    /\ Session(s) /\ UNCHANGED <<opened, inTransaction>>

RetrieveCmd(s) ==
    /\ Asked(s, "retrieve") /\ IsOpen(s)
    /\ \/ \E m \in Msgs :
             /\ Take(s, m)
             /\ exchange' = [exchange EXCEPT ![s].at = "send", ![s].msg = m]
       \/ ready = {} /\ Answer(s, FALSE) /\ UNCHANGED queueVars
    /\ Session(s) /\ UNCHANGED <<opened, entries, inTransaction>>

(* RetrieveCmd::writeResponse(): on a broken connection the write may seem *)
(* to succeed.                                                             *)
Send(s) ==
    /\ At(s, "send")
    /\ Served(s)
    /\ Add(s, Entry(exchange[s].handle, exchange[s].msg, "retrieve", FALSE))
    /\ Answer(s, TRUE)
    /\ Session(s) /\ UNCHANGED <<opened, inTransaction>>

(* Mutant of SendFails: the message is taken off the queue all the same.   *)
SendFailsRemoves(s) ==
    /\ At(s, "send") /\ ~linked[s]
    /\ up /\ Drop(s, exchange[s].msg)
    /\ Serve(s, "nothing")
    /\ accepted' = SelectSeq(accepted, LAMBDA n : n # exchange[s].msg)
    /\ UNCHANGED <<ready, up>>
    /\ exchange' = [exchange EXCEPT ![s] = Silence]
    /\ Session(s) /\ UNCHANGED <<opened, entries, inTransaction>>

SendFails(s) ==
    /\ At(s, "send") /\ ~linked[s]
    /\ Release(s, exchange[s].msg)
    /\ exchange' = [exchange EXCEPT ![s] = Silence]
    /\ Session(s) /\ UNCHANGED <<opened, entries, inTransaction>>

Retrieved(s) == {e \in entries[s] : /\ e.handle = exchange[s].handle
                                    /\ e.msg = exchange[s].msg}

(* Mutant of RetrieveAckCmd: forgets the entry, leaves the message.        *)
AckForgets(s) ==
    /\ Asked(s, "ack")
    /\ \/ \E e \in Retrieved(s) :
             /\ entries' = [entries EXCEPT ![s] = (@ \ {e}) \cup
                   (IF inTransaction[s] THEN {[e EXCEPT !.commitable = TRUE]} ELSE {})]
             /\ Answer(s, TRUE)
       \/ Retrieved(s) = {} /\ Answer(s, FALSE) /\ UNCHANGED entries
    /\ Session(s) /\ UNCHANGED <<queueVars, opened, inTransaction>>

(* TransactionManager::FinalizeRetrieve()                                  *)
RetrieveAckCmd(s) ==
    /\ Asked(s, "ack")
    /\ \/ \E e \in Retrieved(s) :
             /\ \/ /\ inTransaction[s] /\ UNCHANGED queueVars
                   /\ entries' = [entries EXCEPT ![s] =
                                     (@ \ {e}) \cup {[e EXCEPT !.commitable = TRUE]}]
                \/ ~inTransaction[s] /\ Discard(s, e.msg) /\ Erase(s, e)
             /\ Answer(s, TRUE)
       \/ Retrieved(s) = {} /\ Answer(s, FALSE) /\ UNCHANGED <<queueVars, entries>>
    /\ Session(s) /\ UNCHANGED <<opened, inTransaction>>

BeginTransactionCmd(s) ==
    /\ Asked(s, "begin")
    /\ inTransaction' = [inTransaction EXCEPT ![s] = TRUE]
    /\ Answer(s, ~inTransaction[s])
    /\ Session(s) /\ UNCHANGED <<queueVars, opened, entries>>

(* Commit, rollback and end go entry by entry, in a transaction.           *)
Begun(s) ==
    /\ \E cmd \in {"commit", "rollback", "end"} : Asked(s, cmd)
    /\ IF inTransaction[s] THEN Stage(s, "entries") ELSE Answer(s, exchange[s].cmd # "end")
    /\ Session(s) /\ UNCHANGED <<queueVars, opened, entries, inTransaction>>

Commitable(s) == {e \in entries[s] : e.commitable}
Undo(s, e) == IF e.kind = "enqueue" THEN Discard(s, e.msg) ELSE Release(s, e.msg)
Do(s, e)   == IF e.kind = "enqueue" THEN Release(s, e.msg) ELSE Discard(s, e.msg)

RollbackOne(s) ==
    /\ At(s, "entries") /\ exchange[s].cmd = "rollback"
    /\ \E e \in Commitable(s) : Undo(s, e) /\ Erase(s, e)
    /\ Session(s) /\ UNCHANGED <<exchange, opened, inTransaction>>

CommitOne(s) ==
    /\ At(s, "entries") /\ exchange[s].cmd \in {"commit", "end"}
    /\ \E e \in Commitable(s) : Do(s, e) /\ Erase(s, e)
    /\ Session(s) /\ UNCHANGED <<exchange, opened, inTransaction>>

(* Mutant of TransactionDone: the transaction goes on after its end.       *)
NeverEnds(s) ==
    /\ At(s, "entries") /\ Commitable(s) = {}
    /\ Answer(s, TRUE)
    /\ Session(s) /\ UNCHANGED <<queueVars, opened, entries, inTransaction>>

TransactionDone(s) ==
    /\ At(s, "entries") /\ Commitable(s) = {}
    /\ inTransaction' = [inTransaction EXCEPT ![s] = exchange[s].cmd # "end"]
    /\ Answer(s, TRUE)
    /\ Session(s) /\ UNCHANGED <<queueVars, opened, entries>>

(* shutdownQueue(), for a command or for the end of the session: entries   *)
(* are undone; one the client never acknowledged is forgotten.             *)
Closing(s, h) ==
    /\ up /\ h \in opened[s]
    /\ \/ thread[s] = "ending"
       \/ Asked(s, "close") /\ exchange[s].handle = h

ShutdownEntry(s) ==
    /\ \E e \in entries[s] :
          /\ Closing(s, e.handle)
          /\ IF e.commitable THEN Undo(s, e) ELSE Abandon(s, e.msg)
          /\ Erase(s, e)
    /\ Session(s) /\ UNCHANGED <<exchange, opened, inTransaction>>

(* Mutant of ShutdownDone: the entries of the handle are left behind.      *)
ShutdownEarly(s) ==
    \E h \in Handles :
        /\ Closing(s, h)
        /\ opened' = [opened EXCEPT ![s] = @ \ {h}]
        /\ IF thread[s] = "ending" THEN UNCHANGED exchange ELSE Answer(s, TRUE)
        /\ Session(s) /\ UNCHANGED <<queueVars, entries, inTransaction>>

ShutdownDone(s) ==
    \E h \in Handles :
        /\ Closing(s, h)
        /\ \A e \in entries[s] : e.handle # h
        /\ opened' = [opened EXCEPT ![s] = @ \ {h}]
        /\ IF thread[s] = "ending" THEN UNCHANGED exchange ELSE Answer(s, TRUE)
        /\ Session(s) /\ UNCHANGED <<queueVars, entries, inTransaction>>
-----------------------------------------------------------------------------
(* The connection breaks, or the client closes it.  A call that is under   *)
(* way returns EC_NETWORKERROR: the client cannot tell what became of what *)
(* it was enqueueing or committing.                                        *)
Doubtful(s) == IF call[s].fn = "enqueue" THEN {call[s].msg}
               ELSE IF call[s].fn \in {"commit", "end"} THEN Messages(view[s].pending)
               ELSE {}

Break(s) ==
    /\ linked[s]
    /\ linked' = [linked EXCEPT ![s] = FALSE]
    /\ call' = [call EXCEPT ![s] = NoCall]
    /\ exchange' = [exchange EXCEPT ![s] = IF @.at = "response" THEN Silence ELSE @]
    /\ Become(Doubtful(s), "doubt")
    /\ view' = [view EXCEPT ![s] = [NewView EXCEPT !.pending =
                    {p \in view[s].pending : p[2] \notin Doubtful(s)}]]
    /\ UNCHANGED <<queueVars, serverVars, owned, received>>

(* The thread finds it broken between two commands, a request lost or not. *)
HangUp(s) ==
    /\ up /\ thread[s] = "running" /\ ~linked[s]
    /\ exchange[s].at \in {"none", "request"}
    /\ exchange' = [exchange EXCEPT ![s] = Silence]
    /\ thread' = [thread EXCEPT ![s] = "ending"]
    /\ UNCHANGED <<queueVars, linked, call, opened, entries, inTransaction, clientVars>>

(* What the client left uncommitted is withdrawn by then.                  *)
ThreadEnds(s) ==
    /\ up /\ thread[s] = "ending" /\ opened[s] = {}
    /\ thread' = [thread EXCEPT ![s] = "none"]
    /\ inTransaction' = [inTransaction EXCEPT ![s] = FALSE]
    /\ Become(Messages(view[s].pending), "withdrawn")
    /\ view' = [view EXCEPT ![s] = NewView]
    /\ UNCHANGED <<queueVars, wireVars, opened, entries, owned, received>>

(* After a crash nobody can tell what became of a transaction.             *)
Crash ==
    /\ up /\ Down
    /\ linked' = [s \in Sessions |-> FALSE]
    /\ call' = [s \in Sessions |-> NoCall]
    /\ exchange' = [s \in Sessions |-> Silence]
    /\ thread' = [s \in Sessions |-> "none"]
    /\ opened' = [s \in Sessions |-> {}]
    /\ entries' = [s \in Sessions |-> {}]
    /\ inTransaction' = [s \in Sessions |-> FALSE]
    /\ view' = [s \in Sessions |-> NewView]
    /\ Become({m \in Msgs : outcome[m] \in {"calling", "pending"}}, "doubt")
    /\ UNCHANGED <<owned, received>>

StartAgain == Restart /\ UNCHANGED <<wireVars, serverVars, clientVars>>
-----------------------------------------------------------------------------
ClientNext(s) ==
    \/ Connect(s) \/ OpenQueue(s) \/ TransactionCall(s)
    \/ \E h \in Handles : \/ CloseQueue(s, h) \/ Retrieve(s, h)
                          \/ \E m \in Msgs : Enqueue(s, h, m)
    \/ OpenQueueReturns(s) \/ CloseQueueReturns(s) \/ EnqueueReturns(s)
    \/ RetrieveReads(s) \/ RetrieveReturns(s) \/ TransactionReturns(s)

ThreadNext(s) ==
    \/ QueueOpenCmd(s) \/ NotOpen(s) \/ EnqueueCmd(s) \/ Publish(s)
    \/ RetrieveCmd(s) \/ Send(s) \/ SendFails(s) \/ RetrieveAckCmd(s)
    \/ BeginTransactionCmd(s) \/ Begun(s) \/ CommitOne(s) \/ RollbackOne(s)
    \/ TransactionDone(s) \/ ShutdownEntry(s) \/ ShutdownDone(s)
    \/ HangUp(s) \/ ThreadEnds(s)

ConnNext == \/ \E s \in Sessions : ClientNext(s) \/ ThreadNext(s) \/ Break(s)
            \/ Crash \/ StartAgain

ConnSpec == ConnInit /\ [][ConnNext]_vars
-----------------------------------------------------------------------------
(* Properties *)

(* The entries of a session are on handles it has open.                    *)
ConnTypeOK ==
    /\ linked \in [Sessions -> BOOLEAN]
    /\ thread \in [Sessions -> {"none", "running", "ending"}]
    /\ opened \in [Sessions -> SUBSET Handles]
    /\ inTransaction \in [Sessions -> BOOLEAN]
    /\ \A s \in Sessions : \A e \in entries[s] :
          e.handle \in opened[s] /\ e.msg \in holds[s] \cap Range(accepted)
    /\ outcome \in [Msgs -> {"new", "calling", "pending", "kept", "withdrawn", "doubt"}]
    /\ owned \in [Msgs -> Nat] /\ received \subseteq Msgs

(* Types; between two calls, what the client takes its session to be is    *)
(* what it is: the transaction, the open handles, what is pending and what *)
(* is claimed.  While it waits, its own request is being served.           *)
ViewsAgree ==
    /\ ConnTypeOK
    /\ \A s \in Sessions : linked[s] =>
           IF call[s] = NoCall
           THEN /\ exchange[s] = Silence
                /\ view[s].began = inTransaction[s]
                /\ view[s].handles = opened[s]
                /\ {Entry(p[1], p[2], "enqueue", TRUE) : p \in view[s].pending}
                    \cup {Entry(p[1], p[2], "retrieve", TRUE) : p \in view[s].claims}
                    = entries[s]
           ELSE exchange[s].at # "none" /\ exchange[s].cmd = call[s].fn

(* A message its sender was told is on the queue stays there until some    *)
(* client has read it, whatever breaks.                                    *)
PromiseKept ==
    \A m \in Msgs : outcome[m] = "kept" => m \in Range(accepted) \cup received

(* A message a client was told it removed is removed for good: nobody else *)
(* is told so, and no restart brings it back.                              *)
OwnedOnce ==
    \A m \in Msgs : owned[m] > 0 => owned[m] = 1 /\ m \notin Range(accepted)

(* Nobody can have a message before the transaction it was sent in is      *)
(* committed, nor one that was withdrawn.                                  *)
Committing(s) == call[s].fn \in {"commit", "end"}
Isolation ==
    /\ \A s \in Sessions : \A p \in view[s].pending :
          ~Committing(s) => p[2] \notin ready \cup received
    /\ \A m \in Msgs :
          outcome[m] = "withdrawn" => m \notin Range(accepted) \cup received
=============================================================================
