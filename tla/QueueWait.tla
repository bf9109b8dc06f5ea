----------------------------- MODULE QueueWait ------------------------------
(***************************************************************************)
(* Waiting for a message: the loops of RETRIEVE and RETRIEVE_ID, waitset,  *)
(* enqsignal and idsignal of QStorage, and Signal on POSIX threads.        *)
(*                                                                         *)
(* A thread looks for a message under the queue's mutex, releases it, and  *)
(* only then waits for a signal.  A signal is not remembered: it wakes the *)
(* threads that wait at that moment (enqsignal one, idsignal all of them)  *)
(* and no others.  The messages are a set: which one is in front does not  *)
(* matter here.                                                            *)
(***************************************************************************)
EXTENDS Integers, FiniteSets

CONSTANTS
    Threads,   \* the threads that may retrieve
    Msgs,
    Ids,       \* the ids messages answer, and threads may wait for
    ReciptID,
    AnyMessage      \* what a thread wants that takes any message

ASSUME WaitAssumption ==
    /\ ReciptID \in [Msgs -> Ids]
    /\ AnyMessage \notin Ids \cup Msgs

Wants == Ids \cup {AnyMessage}

VARIABLES
    visible,   \* the messages in the queue and not hidden
    held,      \* the messages hidden by a retrieval
    waitset,   \* the ids some thread waits for
    pc,        \* where a thread is in its loop
    want,      \* AnyMessage, or the id a thread wants
    patience,  \* its timeout: "none" (0), "some", or "forever" (-1)
    late,      \* has its timeout passed?
    found      \* the message WaitForID() put its cursor on, or else AnyMessage

waitVars == <<visible, held, waitset, pc, want, patience, late, found>>
queueVars == <<visible, held>>
requestVars == <<want, patience, late, found>>

WaitInit ==
    /\ visible = {}
    /\ held = {}
    /\ waitset = {}
    /\ pc = [t \in Threads |-> "idle"]
    /\ want = [t \in Threads |-> AnyMessage]
    /\ patience = [t \in Threads |-> "none"]
    /\ late = [t \in Threads |-> FALSE]
    /\ found = [t \in Threads |-> AnyMessage]

Goto(t, l) == pc' = [pc EXCEPT ![t] = l] /\ UNCHANGED requestVars

(* The request returns, with whatever result.                              *)
Answer(t) ==
    /\ pc' = [pc EXCEPT ![t] = "idle"]
    /\ want' = [want EXCEPT ![t] = AnyMessage]
    /\ patience' = [patience EXCEPT ![t] = "none"]
    /\ late' = [late EXCEPT ![t] = FALSE]
    /\ found' = [found EXCEPT ![t] = AnyMessage]

Request(t) ==
    /\ pc[t] = "idle"
    /\ pc' = [pc EXCEPT ![t] = "look"]
    /\ \E w \in Wants, p \in {"none", "some", "forever"} :
          /\ want' = [want EXCEPT ![t] = w]
          /\ patience' = [patience EXCEPT ![t] = p]
    /\ UNCHANGED <<queueVars, waitset, late, found>>

(* The clock: a finite timeout runs out.                                   *)
Tick(t) ==
    /\ pc[t] # "idle"
    /\ patience[t] = "some"
    /\ ~ late[t]
    /\ late' = [late EXCEPT ![t] = TRUE]
    /\ UNCHANGED <<queueVars, waitset, pc, want, patience, found>>

Matches(t, m) == want[t] = AnyMessage \/ ReciptID[m] = want[t]

(* Where the search of a thread may stop.  The one for an id starts at the *)
(* first visible message, and does not pass over the hidden ones behind.   *)
Sought(t) ==
    {m \in visible \cup (IF want[t] = AnyMessage \/ visible = {} THEN {} ELSE held) : Matches(t, m)}

(* BeginRetrieveCursor() hides the message, unless another has it by now.  *)
Grab(t, m) ==
    /\ visible' = visible \ {m}
    /\ held' = IF m \in visible THEN held \cup {m} ELSE held
    /\ Answer(t)
    /\ UNCHANGED waitset

(* BeginRetrieve() or BeginRetrieveID() finds a message.                   *)
Find(t) ==
    /\ pc[t] = "look"
    /\ \E m \in Sought(t) : Grab(t, m)

(* It finds none: return, or prepare to wait.                              *)
FindNone(t) ==
    /\ pc[t] = "look"
    /\ Sought(t) = {}
    /\ IF patience[t] = "none" \/ (want[t] = AnyMessage /\ late[t])
       THEN Answer(t)
       ELSE Goto(t, IF want[t] = AnyMessage THEN "gap" ELSE "lookID")
    /\ UNCHANGED <<queueVars, waitset>>

FoundID(t) ==
    /\ \E m \in Sought(t) : found' = [found EXCEPT ![t] = m]
    /\ pc' = [pc EXCEPT ![t] = "found"]
    /\ UNCHANGED <<queueVars, waitset, want, patience, late>>

(* The first part of WaitForID(): look again, or join the waitset.         *)
LookID(t) ==
    /\ pc[t] = "lookID"
    /\ \/ FoundID(t)
       \/ /\ Sought(t) = {}
          /\ waitset' = waitset \cup {want[t]}
          /\ Goto(t, "gap")
          /\ UNCHANGED queueVars

(* BeginRetrieveCursor() on the message WaitForID() found.                 *)
Claim(t) ==
    /\ pc[t] = "found"
    /\ Grab(t, found[t])

(* The mutex is released, and the thread is not yet waiting.               *)
Sleep(t) ==
    /\ pc[t] = "gap"
    /\ Goto(t, IF late[t] THEN "expired" ELSE "waiting")
    /\ UNCHANGED <<queueVars, waitset>>

(* pthread_cond_wait() may return without a signal.                        *)
WakeSpuriously(t) ==
    /\ pc[t] = "waiting"
    /\ Goto(t, "woken")
    /\ UNCHANGED <<queueVars, waitset>>

TimeOut(t) ==
    /\ pc[t] = "waiting"
    /\ late[t]
    /\ Goto(t, "expired")
    /\ UNCHANGED <<queueVars, waitset>>

(* Mutants of Expire: a wait that timed out is tried again; the id it was  *)
(* for stays in the waitset.                                               *)
ExpireRetries(t) ==
    /\ pc[t] = "expired"
    /\ Goto(t, IF want[t] = AnyMessage THEN "look" ELSE "lookID")
    /\ UNCHANGED <<queueVars, waitset>>
ExpireKeepsID(t) ==
    /\ pc[t] = "expired"
    /\ Answer(t)
    /\ UNCHANGED <<queueVars, waitset>>

Expire(t) ==
    /\ pc[t] = "expired"
    /\ Answer(t)
    /\ waitset' = waitset \ {want[t]}
    /\ UNCHANGED queueVars

WakeFront(t) ==
    /\ pc[t] = "woken"
    /\ want[t] = AnyMessage
    /\ Goto(t, "look")
    /\ UNCHANGED <<queueVars, waitset>>

(* A thread woken for an id goes back to wait if its id is still in the    *)
(* waitset, and else looks once more, and only once.                       *)
WakeID(t) ==
    /\ pc[t] = "woken"
    /\ want[t] # AnyMessage
    /\ \/ want[t] \in waitset /\ Goto(t, "gap") /\ UNCHANGED <<queueVars, waitset>>
       \/ want[t] \notin waitset /\ FoundID(t)
       \/ /\ want[t] \notin waitset /\ Sought(t) = {}
          /\ Answer(t)
          /\ UNCHANGED <<queueVars, waitset>>
-----------------------------------------------------------------------------
WaitingFront == {t \in Threads : pc[t] = "waiting" /\ want[t] = AnyMessage}
WaitingID    == {t \in Threads : pc[t] = "waiting" /\ want[t] # AnyMessage}

(* enqsignal.Set(): one of the threads waiting for any message.            *)
SignalFront ==
    IF WaitingFront = {} THEN UNCHANGED <<pc, requestVars>>
                         ELSE \E t \in WaitingFront : Goto(t, "woken")

(* idsignal.Set(): every thread waiting for an id, whichever it is.        *)
SignalID ==
    /\ pc' = [t \in Threads |-> IF t \in WaitingID THEN "woken" ELSE pc[t]]
    /\ UNCHANGED requestVars

(* FinalizeEnqueue().                                                      *)
Publish(m) ==
    /\ m \in Msgs \ (visible \cup held)
    /\ visible' = visible \cup {m}
    /\ IF ReciptID[m] \in waitset
       THEN waitset' = waitset \ {ReciptID[m]} /\ SignalID
       ELSE UNCHANGED waitset /\ SignalFront
    /\ UNCHANGED held

(* Mutant of PutBack: the message still counts as held.                    *)
PutBackHeld(m) ==
    /\ m \in held
    /\ visible' = visible \cup {m}
    /\ SignalFront
    /\ UNCHANGED <<held, waitset>>

(* CancelRetrieve().                                                       *)
PutBack(m) ==
    /\ m \in held
    /\ held' = held \ {m}
    /\ visible' = visible \cup {m}
    /\ SignalFront
    /\ UNCHANGED waitset

(* FinalizeRetrieve(), which invalidates every cursor on the message; m    *)
(* then stands for the next message of its id.                             *)
Forget(m) ==
    /\ m \in held
    /\ held' = held \ {m}
    /\ found' = [t \in Threads |-> IF found[t] = m THEN AnyMessage ELSE found[t]]
    /\ UNCHANGED <<visible, waitset, pc, want, patience, late>>

Run(t) ==
    \/ Find(t) \/ FindNone(t) \/ LookID(t) \/ Claim(t)
    \/ Sleep(t) \/ TimeOut(t) \/ Expire(t) \/ WakeFront(t) \/ WakeID(t)

WaitNext ==
    \/ \E t \in Threads : Request(t) \/ Tick(t) \/ Run(t) \/ WakeSpuriously(t)
    \/ \E m \in Msgs : Publish(m) \/ PutBack(m) \/ Forget(m)

(* Every thread that can run runs, and time passes.                        *)
WaitSpec ==
    /\ WaitInit /\ [][WaitNext]_waitVars
    /\ \A t \in Threads : WF_waitVars(Run(t)) /\ WF_waitVars(Tick(t))
-----------------------------------------------------------------------------
(* Every variable keeps its type, and no message is both visible and held  *)
(* (FinalizeEnqueue, CancelRetrieve).                                      *)
WaitTypeOK ==
    /\ visible \subseteq Msgs /\ held \subseteq Msgs \ visible
    /\ waitset \subseteq Ids
    /\ pc \in [Threads -> {"idle", "look", "lookID", "found", "gap", "waiting",
                           "woken", "expired"}]
    /\ want \in [Threads -> Wants]
    /\ patience \in [Threads -> {"none", "some", "forever"}]
    /\ late \in [Threads -> BOOLEAN]
    /\ found \in [Threads -> Msgs \cup {AnyMessage}]

(* Types; an id is in the waitset only while a thread waits: otherwise     *)
(* FinalizeEnqueue() would spend a wake-up on nobody and leave the threads *)
(* waiting for any message asleep (WaitForID, FinalizeEnqueue).            *)
WaitsetCovered ==
    /\ WaitTypeOK
    /\ \A id \in waitset : \E t \in Threads :
           want[t] = id /\ pc[t] \in {"gap", "waiting", "woken", "expired"}

(* A request with a finite timeout is answered, whatever other threads     *)
(* take from under it and whichever wake-ups are lost.                     *)
BoundedRequestEnds ==
    \A t \in Threads : pc[t] # "idle" /\ patience[t] # "forever" ~> pc[t] = "idle"

Overslept(t) == pc[t] = "waiting" /\ \E m \in visible : Matches(t, m)

(* "(-1) will cause the method to wait until a message is placed on the    *)
(* queue": no thread sleeps on while there is a message it wants.          *)
FrontWaitEnds ==
    \A t \in Threads : Overslept(t) /\ want[t] = AnyMessage ~> ~ Overslept(t)
=============================================================================
