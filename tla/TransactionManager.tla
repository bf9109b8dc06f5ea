-------------------------- MODULE TransactionManager --------------------------
(***************************************************************************)
(* The sessions of one queue: ServiceThread and TransactionManager, and    *)
(* the commands of MessageCmds.h, CursorCmds.h and XactCmds.h, composed    *)
(* with QStorage.                                                          *)
(*                                                                         *)
(* A session is one thread: it performs a command, writes the response and *)
(* reads the next command.  Only the calls into QStorage are atomic, so a  *)
(* command that makes several of them, or one before and one after the     *)
(* response, takes several steps, kept in task[s].                         *)
(***************************************************************************)
EXTENDS QStorage

CONSTANTS
    Sessions,          \* the client sessions
    CursorSendFails    \* may the response of RETRIEVE_CURSOR be lost?

ASSUME SessionAssumption == CursorSendFails \in BOOLEAN

VARIABLES
    open,           \* does the session have the queue open?
    inTransaction,  \* TransactionManager::inTransaction
    trans,          \* TransactionManager::transactions, by message
    browse,         \* ServiceThread::cursors, the cursors the client opened
    task            \* what the thread still has to do for its command

sessionVars == <<open, inTransaction, trans, browse, task>>
allVars == <<vars, sessionVars>>

TData == [cursor : Handles, type : {"none", "enqueue", "retrieve"}, commitable : BOOLEAN]
NoEntry == [cursor |-> 0, type |-> "none", commitable |-> FALSE]
Entry(h, t) == [cursor |-> h, type |-> t, commitable |-> FALSE]

Pending(s) == {m \in Msgs : trans[s][m].type # "none"}

(* The entries CommitTransaction() and RollbackTransaction() deal with.    *)
Commitable(s) ==
    {m \in Pending(s) : trans[s][m].type = "enqueue" \/ trans[s][m].commitable}

Idle == [op |-> "idle"]

Tasks ==
    {Idle}
    \cup [op : {"publish", "send"}, msg : Msgs, handle : Handles]
    \cup [op : {"sendCursor"}, msg : Msgs, from : Handles]
    \cup [op : {"copyCursor", "advanceCursor"}, msg : Msgs, from : Handles, handle : Handles]
    \cup [op : {"commit"}, todo : SUBSET Msgs, end : BOOLEAN]
    \cup [op : {"rollback"}, todo : SUBSET Msgs]
    \cup [op : {"shutdown"}, todo : SUBSET Msgs, leave : BOOLEAN]

SessionInit ==
    /\ open = [s \in Sessions |-> FALSE]
    /\ inTransaction = [s \in Sessions |-> FALSE]
    /\ trans = [s \in Sessions |-> [m \in Msgs |-> NoEntry]]
    /\ browse = [s \in Sessions |-> {}]
    /\ task = [s \in Sessions |-> Idle]

Waiting(s) == task[s] = Idle /\ mode = "running"
Ready(s) == open[s] /\ Waiting(s)

Doing(s, op) == task[s].op = op /\ mode = "running"

SetTask(s, t) == task' = [task EXCEPT ![s] = t]
SetEntry(s, m, d) == trans' = [trans EXCEPT ![s][m] = d]

Shutdown(s, leave) == [op |-> "shutdown", todo |-> Pending(s), leave |-> leave]
-----------------------------------------------------------------------------
(* The calls into QStorage, which do nothing when the cursor is not, or no *)
(* longer, on a message.                                                   *)

Unless(h) == mode = "running" /\ ~ Usable(h) /\ UNCHANGED vars

commitEnqueue(h)    == FinalizeEnqueue(h) \/ Unless(h)
commitRetrieve(h)   == FinalizeRetrieve(h) \/ Unless(h)
rollbackEnqueue(h)  == CancelEnqueue(h) \/ Unless(h)
rollbackRetrieve(h) == CancelRetrieve(h) \/ Unless(h)
-----------------------------------------------------------------------------
OpenQueueCmd(s) ==
    /\ ~ open[s]
    /\ Waiting(s)
    /\ open' = [open EXCEPT ![s] = TRUE]
    /\ UNCHANGED <<vars, inTransaction, trans, browse, task>>

(* ENQUEUE stores the message, and outside a transaction publishes it in a *)
(* second call.                                                            *)
EnqueueCmd(s, m) ==
    /\ Ready(s)
    /\ Enqueue(m)
    /\ IF inTransaction[s]
       THEN SetEntry(s, m, Entry(NextCursorID, "enqueue")) /\ UNCHANGED task
       ELSE SetTask(s, [op |-> "publish", msg |-> m, handle |-> NextCursorID]) /\ UNCHANGED trans
    /\ UNCHANGED <<open, inTransaction, browse>>

(* Mutant of Publish: the entry is revealed by its id, and keeps a cursor. *)
PublishByID(s) ==
    /\ Doing(s, "publish")
    /\ hidden' = hidden \ {task[s].msg}
    /\ SetTask(s, Idle)
    /\ UNCHANGED <<mode, index, begin, cursors, storageVars, ttlVars, scanVars>>
    /\ UNCHANGED <<open, inTransaction, trans, browse>>

Publish(s) ==
    /\ Doing(s, "publish")
    /\ commitEnqueue(task[s].handle)
    /\ SetTask(s, Idle)
    /\ UNCHANGED <<open, inTransaction, trans, browse>>

(* RETRIEVE hides the message, sends it, and only then records it.         *)
RetrieveCmd(s) ==
    /\ Ready(s)
    /\ BeginRetrieve
    /\ SetTask(s, [op |-> "send", msg |-> FirstVisible, handle |-> NextCursorID])
    /\ UNCHANGED <<open, inTransaction, trans, browse>>

(* PEEK_FRONT, PEEK_ID, and a RETRIEVE that finds no message.              *)
PeekFrontCmd(s) ==
    /\ Ready(s)
    /\ PeekFront
    /\ UNCHANGED sessionVars

Send(s) ==
    /\ Doing(s, "send")
    /\ SetEntry(s, task[s].msg, Entry(task[s].handle, "retrieve"))
    /\ SetTask(s, Idle)
    /\ UNCHANGED <<vars, open, inTransaction, browse>>

(* The client is gone: the retrieval is cancelled and the session ends.    *)
SendFails(s) ==
    /\ Doing(s, "send")
    /\ rollbackRetrieve(task[s].handle)
    /\ SetTask(s, Shutdown(s, TRUE))
    /\ UNCHANGED <<open, inTransaction, trans, browse>>

(* Mutant of RetrieveAckCmd: the type of the entry says it is commitable.  *)
AckOverwritesType(s, m) ==
    /\ Ready(s)
    /\ m \in Pending(s)
    /\ IF inTransaction[s]
       THEN trans' = [trans EXCEPT ![s][m].type = "commitable"] /\ UNCHANGED vars
       ELSE commitRetrieve(trans[s][m].cursor) /\ SetEntry(s, m, NoEntry)
    /\ UNCHANGED <<open, inTransaction, browse, task>>

(* RETRIEVE_ACK: TransactionManager::FinalizeRetrieve().                   *)
RetrieveAckCmd(s, m) ==
    /\ Ready(s)
    /\ m \in Pending(s)
    /\ IF inTransaction[s]
       THEN trans' = [trans EXCEPT ![s][m].commitable = TRUE] /\ UNCHANGED vars
       ELSE commitRetrieve(trans[s][m].cursor) /\ SetEntry(s, m, NoEntry)
    /\ UNCHANGED <<open, inTransaction, browse, task>>
-----------------------------------------------------------------------------
(* Browsing.                                                               *)

OpenCursorCmd(s) ==
    /\ Ready(s)
    /\ OpenCursor
    /\ browse' = [browse EXCEPT ![s] = @ \cup {NextCursorID}]
    /\ UNCHANGED <<open, inTransaction, trans, task>>

CloseCursorCmd(s, h) ==
    /\ Ready(s)
    /\ h \in browse[s]
    /\ CloseCursor(h)
    /\ browse' = [browse EXCEPT ![s] = @ \ {h}]
    /\ UNCHANGED <<open, inTransaction, trans, task>>

AdvanceCursorCmd(s, h) ==
    /\ Ready(s)
    /\ h \in browse[s]
    /\ AdvanceCursor(h)
    /\ UNCHANGED sessionVars

(* RETRIEVE_CURSOR hides the message at the cursor, sends it, and then     *)
(* copies the cursor for the transaction and advances the client's.        *)
RetrieveCursorCmd(s, h) ==
    /\ Ready(s)
    /\ h \in browse[s]
    /\ BeginRetrieveCursor(h)
    /\ SetTask(s, [op |-> "sendCursor", msg |-> Where(h), from |-> h])
    /\ UNCHANGED <<open, inTransaction, trans, browse>>

SendCursor(s) ==
    /\ Doing(s, "sendCursor")
    /\ OpenCursor
    /\ SetTask(s, [op |-> "copyCursor", msg |-> task[s].msg, from |-> task[s].from,
                   handle |-> NextCursorID])
    /\ UNCHANGED <<open, inTransaction, trans, browse>>

(* CancelRetrieve() closes the client's cursor, which stays in browse.     *)
SendCursorFails(s) ==
    /\ CursorSendFails
    /\ Doing(s, "sendCursor")
    /\ rollbackRetrieve(task[s].from)
    /\ SetTask(s, Shutdown(s, TRUE))
    /\ UNCHANGED <<open, inTransaction, trans, browse>>

CopyCursor(s) ==
    /\ Doing(s, "copyCursor")
    /\ CursorCopy(task[s].handle, task[s].from)
    /\ SetTask(s, [task[s] EXCEPT !.op = "advanceCursor"])
    /\ UNCHANGED <<open, inTransaction, trans, browse>>

CopyCursorFails(s) ==
    /\ Doing(s, "copyCursor")
    /\ ~ (Usable(task[s].from) /\ Where(task[s].handle) \in Msgs \cup {End})
    /\ SetTask(s, Idle)
    /\ UNCHANGED <<vars, open, inTransaction, trans, browse>>

MoveCursorOn(s) ==
    /\ Doing(s, "advanceCursor")
    /\ AdvanceCursor(task[s].from) \/ Unless(task[s].from)
    /\ SetEntry(s, task[s].msg, Entry(task[s].handle, "retrieve"))
    /\ SetTask(s, Idle)
    /\ UNCHANGED <<open, inTransaction, browse>>
-----------------------------------------------------------------------------
(* Transactions.  The entries are dealt with one by one in the order of    *)
(* their message ids, which is any order.                                  *)

BeginTransactionCmd(s) ==
    /\ Waiting(s)
    /\ ~ inTransaction[s]
    /\ inTransaction' = [inTransaction EXCEPT ![s] = TRUE]
    /\ UNCHANGED <<vars, open, trans, browse, task>>

(* COMMIT_TRANSACTION, and END_TRANSACTION, which also leaves it.          *)
CommitTransactionCmd(s, end) ==
    /\ Waiting(s)
    /\ inTransaction[s]
    /\ SetTask(s, [op |-> "commit", todo |-> Commitable(s), end |-> end])
    /\ UNCHANGED <<vars, open, inTransaction, trans, browse>>

CommitOne(s) ==
    /\ Doing(s, "commit")
    /\ \E m \in task[s].todo :
          /\ \/ trans[s][m].type = "enqueue" /\ commitEnqueue(trans[s][m].cursor)
             \/ trans[s][m].type = "retrieve" /\ commitRetrieve(trans[s][m].cursor)
          /\ SetEntry(s, m, NoEntry)
          /\ SetTask(s, [task[s] EXCEPT !.todo = @ \ {m}])
    /\ UNCHANGED <<open, inTransaction, browse>>

Committed(s) ==
    /\ Doing(s, "commit")
    /\ task[s].todo = {}
    /\ inTransaction' = [inTransaction EXCEPT ![s] = ~ task[s].end]
    /\ SetTask(s, Idle)
    /\ UNCHANGED <<vars, open, trans, browse>>

RollbackTransactionCmd(s) ==
    /\ Waiting(s)
    /\ inTransaction[s]
    /\ SetTask(s, [op |-> "rollback", todo |-> Commitable(s)])
    /\ UNCHANGED <<vars, open, inTransaction, trans, browse>>

RollbackOne(s) ==
    /\ Doing(s, "rollback")
    /\ \E m \in task[s].todo :
          /\ \/ trans[s][m].type = "enqueue" /\ rollbackEnqueue(trans[s][m].cursor)
             \/ trans[s][m].type = "retrieve" /\ rollbackRetrieve(trans[s][m].cursor)
          /\ SetEntry(s, m, NoEntry)
          /\ SetTask(s, [task[s] EXCEPT !.todo = @ \ {m}])
    /\ UNCHANGED <<open, inTransaction, browse>>

RolledBack(s) ==
    /\ Doing(s, "rollback")
    /\ task[s].todo = {}
    /\ SetTask(s, Idle)
    /\ UNCHANGED <<vars, open, inTransaction, trans, browse>>
-----------------------------------------------------------------------------
(* CLOSE_QUEUE, and the end of the session, which takes what the session   *)
(* has open with it: shutdownQueue().                                      *)
ShutdownCmd(s, leave) ==
    /\ Waiting(s)
    /\ open[s] \/ leave
    /\ SetTask(s, Shutdown(s, leave))
    /\ UNCHANGED <<vars, open, inTransaction, trans, browse>>

(* A retrieval the client has not acknowledged is forgotten, not undone.   *)
ShutdownEntry(s) ==
    /\ Doing(s, "shutdown")
    /\ \E m \in task[s].todo :
          /\ \/ trans[s][m].type = "enqueue" /\ rollbackEnqueue(trans[s][m].cursor)
             \/ /\ trans[s][m].type = "retrieve"
                /\ trans[s][m].commitable
                /\ rollbackRetrieve(trans[s][m].cursor)
             \/ /\ trans[s][m].type = "retrieve"
                /\ ~ trans[s][m].commitable
                /\ UNCHANGED vars
          /\ SetEntry(s, m, NoEntry)
          /\ SetTask(s, [task[s] EXCEPT !.todo = @ \ {m}])
    /\ UNCHANGED <<open, inTransaction, browse>>

ShutdownCursor(s) ==
    /\ Doing(s, "shutdown")
    /\ task[s].todo = {}
    /\ \E h \in browse[s] :
          /\ CloseCursor(h) \/ (cursors[h] = Closed /\ UNCHANGED vars)
          /\ browse' = [browse EXCEPT ![s] = @ \ {h}]
    /\ UNCHANGED <<open, inTransaction, trans, task>>

ShutdownDone(s) ==
    /\ Doing(s, "shutdown")
    /\ task[s].todo = {}
    /\ browse[s] = {}
    /\ open' = [open EXCEPT ![s] = FALSE]
    /\ inTransaction' = [inTransaction EXCEPT ![s] = @ /\ ~ task[s].leave]
    /\ SetTask(s, Idle)
    /\ UNCHANGED <<vars, trans, browse>>

(* The process dies with every session, and recovers the queue.            *)
ServerCrash ==
    /\ Crash
    /\ open' = [s \in Sessions |-> FALSE]
    /\ inTransaction' = [s \in Sessions |-> FALSE]
    /\ trans' = [s \in Sessions |-> [m \in Msgs |-> NoEntry]]
    /\ browse' = [s \in Sessions |-> {}]
    /\ task' = [s \in Sessions |-> Idle]
-----------------------------------------------------------------------------
SessionStep(s) ==
    \/ OpenQueueCmd(s)
    \/ \E m \in Msgs : EnqueueCmd(s, m) \/ RetrieveAckCmd(s, m)
    \/ Publish(s)
    \/ RetrieveCmd(s) \/ PeekFrontCmd(s) \/ Send(s) \/ SendFails(s)
    \/ OpenCursorCmd(s)
    \/ \E h \in Handles : \/ CloseCursorCmd(s, h)
                          \/ AdvanceCursorCmd(s, h)
                          \/ RetrieveCursorCmd(s, h)
    \/ SendCursor(s) \/ SendCursorFails(s)
    \/ CopyCursor(s) \/ CopyCursorFails(s) \/ MoveCursorOn(s)
    \/ BeginTransactionCmd(s)
    \/ \E b \in BOOLEAN : CommitTransactionCmd(s, b) \/ ShutdownCmd(s, b)
    \/ CommitOne(s) \/ Committed(s)
    \/ RollbackTransactionCmd(s) \/ RollbackOne(s) \/ RolledBack(s)
    \/ ShutdownEntry(s) \/ ShutdownCursor(s) \/ ShutdownDone(s)

StorageStep ==
    /\ FinishRemoval \/ Recovery \/ Expiry
    /\ UNCHANGED sessionVars

ServerNext == (\E s \in Sessions : SessionStep(s)) \/ StorageStep \/ ServerCrash

ServerSpec == Init /\ SessionInit /\ [][ServerNext]_allVars
-----------------------------------------------------------------------------
(* Properties.                                                             *)

(* Queue and sessions keep their types: what a thread remembers of a       *)
(* message between two calls into QStorage stays a message and a handle.   *)
SessionTypeOK ==
    /\ TypeOK
    /\ open \in [Sessions -> BOOLEAN]
    /\ inTransaction \in [Sessions -> BOOLEAN]
    /\ trans \in [Sessions -> [Msgs -> TData]]
    /\ browse \in [Sessions -> SUBSET Handles]
    /\ task \in [Sessions -> Tasks]

(* The messages a session has retrieved and neither removed nor put back,  *)
(* with the cursor it will use to do so.                                   *)
Retrieved(s) ==
    {[msg |-> m, cursor |-> trans[s][m].cursor] :
         m \in {n \in Msgs : trans[s][n].type = "retrieve"}}
    \cup (IF task[s].op \in {"send", "advanceCursor"}
          THEN {[msg |-> task[s].msg, cursor |-> task[s].handle]}
          ELSE {})

(* The messages a session has stored and neither published nor withdrawn.  *)
Stored(s) ==
    {[msg |-> m, cursor |-> trans[s][m].cursor] :
         m \in {n \in Msgs : trans[s][n].type = "enqueue"}}
    \cup (IF task[s].op = "publish"
          THEN {[msg |-> task[s].msg, cursor |-> task[s].handle]}
          ELSE {})

Claims(s) == Retrieved(s) \cup Stored(s)

(* FinalizeRetrieve() and CancelRetrieve() are passed "a cursor pointing   *)
(* to the message" that was retrieved, and FinalizeEnqueue() and           *)
(* CancelEnqueue() one pointing to the message that was stored.            *)
PendingOnMessage ==
    \A s \in Sessions : \A r \in Claims(s) : Where(r.cursor) = r.msg

Owned(s) == {r.msg : r \in Claims(s)}

(* A message that a session holds stays in the queue, hidden, and held by  *)
(* no other session, until that session deals with it: it is neither       *)
(* delivered twice nor expired, removed or revealed by someone else.       *)
ExclusiveHold ==
    \A s \in Sessions :
        /\ Owned(s) \subseteq Range(index) \cap hidden
        /\ \A t \in Sessions \ {s} : Owned(s) \cap Owned(t) = {}

(* No two holders share a cursor handle, though handles are reused as soon *)
(* as the highest is closed (nextCursorID).                                *)
HandlesUnshared ==
    \A s, t \in Sessions :
        /\ \A r \in Claims(s) :
              /\ r.cursor \notin browse[t]
              /\ \A q \in Claims(t) : r.cursor = q.cursor => s = t /\ r = q
        /\ s # t => browse[s] \cap browse[t] = {}

(* "Cancel all pending transactions": once no session has the queue open,  *)
(* every message of the queue is back for the next reader.                 *)
ClosedLeavesNothingHidden ==
    (\A s \in Sessions : ~ open[s]) => hidden = {}

(* QStorage is only ever used through its operations, whatever becomes of  *)
(* the handles: what is proved of QStorage holds of the server.            *)
UsesQStorage == Spec

(* The messages a session has to answer for, those it is just retrieving   *)
(* at a cursor included.                                                   *)
Holding(s) ==
    Pending(s) \cup (IF "msg" \in DOMAIN task[s] THEN {task[s].msg} ELSE {})

KeptAt(m, f, i) ==
    i \in DOMAIN files[f] /\ files[f][i] = [msg |-> m, state |-> "live"]

(* The messages the files keep, and which of two comes first in them.      *)
Kept == {m \in Msgs : \E f \in FileIds : \E i \in DOMAIN files[f] : KeptAt(m, f, i)}

KeptFirst(m, n) ==
    \E f, g \in FileIds : \E i \in DOMAIN files[f], j \in DOMAIN files[g] :
        KeptAt(m, f, i) /\ KeptAt(n, g, j) /\ (f < g \/ (f = g /\ i < j))

(* What the files keep, in the order it was accepted.                      *)
KeptInOrder ==
    CHOOSE q \in SetToSeqs(Kept) : \A i, j \in DOMAIN q : i < j => KeptFirst(q[i], q[j])

(* The messages the next reader may take, once the queue is recovered.     *)
Available == IF mode = "recovering" THEN {} ELSE Range(index) \ hidden

(* How the message a session is being sent was chosen.                     *)
Serving(s) ==
    CASE task[s].op = "send" -> "front"
      [] task[s].op \in {"sendCursor", "copyCursor", "advanceCursor"} -> "cursor"
      [] OTHER -> "nothing"

(* The server keeps the promise of MessageQueue.                           *)
Contract == INSTANCE MessageQueue WITH
    accepted <- KeptInOrder,
    ready    <- Available,
    holds    <- [s \in Sessions |-> Holding(s)],
    serving  <- [s \in Sessions |-> Serving(s)],
    up       <- mode # "recovering"

(* Under one priority, the server implements MessageQueue: every step is   *)
(* one the contract allows, or invisible to it.                            *)
KeepsPromise == Contract!Promise
=============================================================================
