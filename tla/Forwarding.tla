----------------------------- MODULE Forwarding -----------------------------
(***************************************************************************)
(* Messages for other servers: the threads that empty the queue _FORWARD_  *)
(* (src/ForwardThread.cpp) and the one that sends errors back              *)
(* (src/SystemDelivery.cpp), on top of a queue that keeps the promise of   *)
(* MessageQueue.                                                           *)
(*                                                                         *)
(* A forwarding thread removes a message from the queue before it sends    *)
(* it, and enqueues it again if that fails.  The label of the message is   *)
(* the url of its destination; it gives way to the label the message is to *)
(* arrive with while it is sent, and is restored before it is enqueued.    *)
(* A refused message is dropped, and an error sent to its response queue   *)
(* if it names one.                                                        *)
(*                                                                         *)
(* Destinations may be out of reach for a while; connections break, disks  *)
(* fill, and the server crashes, MaxFaults times in all.  The far server   *)
(* may refuse any message at any time.  The clients, the other servers     *)
(* and the network are the environment.                                    *)
(***************************************************************************)
EXTENDS MessageQueue

CONSTANTS
    Forwarders,  \* the forwarding threads, forward_threads of them
    Replying,    \* the messages with a response queue
    Unroutable,  \* those with a url that leads nowhere
    None,        \* no message
    MaxFaults    \* bound

ASSUME ForwardingAssumption ==
    /\ Forwarders \subseteq Sessions
    /\ Replying \subseteq Msgs /\ Unroutable \subseteq Msgs
    /\ None \notin Msgs
    /\ MaxFaults \in Nat

VARIABLES
    submitted,   \* the messages clients have enqueued to be forwarded
    pc, msg,     \* where a forwarding thread is, and the message it has
    label,       \* the label a message carries: its "url", or its "own"
    reachable,   \* the messages whose destination can be reached
    delivered,   \* how often a message has been put into its far queue
    unanswered,  \* how often it was, and the answer did not come back
    refused,     \* the messages refused and dropped
    errors,      \* SystemDelivery::que, the messages to report
    sending,     \* the message SystemDelivery is reporting, or None
    reported,    \* the messages whose error is in their response queue
    lost,        \* history: messages, or errors, lost to a fault
    faults

threadVars == <<pc, msg, label>>
farVars    == <<delivered, unanswered, refused>>
reportVars == <<errors, sending, reported>>
forwardVars == <<queueVars, submitted, threadVars, reachable, farVars, reportVars,
                 lost, faults>>

ForwardInit ==
    /\ Start
    /\ submitted = {}
    /\ pc = [f \in Forwarders |-> "idle"]
    /\ msg = [f \in Forwarders |-> None]
    /\ label = [m \in Msgs |-> "url"]
    /\ reachable \in SUBSET Msgs
    /\ delivered = [m \in Msgs |-> 0]
    /\ unanswered = [m \in Msgs |-> 0]
    /\ refused = {}
    /\ errors = {} /\ sending = None /\ reported = {}
    /\ lost = {}
    /\ faults = 0

Goto(f, l) == pc' = [pc EXCEPT ![f] = l]
Leave(f)   == Goto(f, "idle") /\ msg' = [msg EXCEPT ![f] = None]
At(f, l)   == up /\ pc[f] = l
Fault      == faults < MaxFaults /\ faults' = faults + 1
NoFault    == UNCHANGED faults
-----------------------------------------------------------------------------
(* A client enqueues a message to _FORWARD_, and commits.                  *)
Submit(s, m) ==
    /\ m \notin submitted
    /\ submitted' = submitted \cup {m}
    /\ Store(s, m)
    /\ UNCHANGED <<threadVars, reachable, farVars, reportVars, lost, faults>>

Commit(s, m) ==
    /\ Release(s, m)
    /\ UNCHANGED <<submitted, threadVars, reachable, farVars, reportVars, lost, faults>>

(* Mutant of BeginRetrieve: the message is not hidden from other threads.  *)
BeginRetrieveVisible(f) ==
    /\ At(f, "idle")
    /\ \E m \in Msgs : Best(m) /\ Hold(f, m) /\ msg' = [msg EXCEPT ![f] = m]
    /\ Goto(f, "remove")
    /\ UNCHANGED <<accepted, ready, serving, up, submitted, label, reachable, farVars,
                   reportVars, lost, faults>>

(* BeginRetrieve(): the thread is served at once, being no client.         *)
BeginRetrieve(f) ==
    /\ At(f, "idle")
    /\ \E m \in Msgs :
          /\ Best(m)
          /\ ready' = ready \ {m}
          /\ Hold(f, m)
          /\ msg' = [msg EXCEPT ![f] = m]
    /\ Goto(f, "remove")
    /\ UNCHANGED <<accepted, serving, up, submitted, label, reachable, farVars,
                   reportVars, lost, faults>>

(* Mutant of FinalizeRetrieve: the message stays in the queue.             *)
KeepRetrieved(f) ==
    /\ At(f, "remove")
    /\ Release(f, msg[f])
    /\ Goto(f, "connect")
    /\ UNCHANGED <<submitted, msg, label, reachable, farVars, reportVars, lost, faults>>

FinalizeRetrieve(f) ==
    /\ At(f, "remove")
    /\ Discard(f, msg[f])
    /\ Goto(f, "connect")
    /\ UNCHANGED <<submitted, msg, label, reachable, farVars, reportVars, lost, faults>>
-----------------------------------------------------------------------------
(* The ways an attempt may go: the next step, another attempt later, or    *)
(* SendError() and no more.                                                *)
GoOn(f, l) == Goto(f, l) /\ NoFault /\ UNCHANGED <<msg, refused, errors>>

TryAgain(f) ==
    /\ Goto(f, "requeue")
    /\ IF msg[f] \in reachable \ Unroutable THEN Fault ELSE NoFault
    /\ UNCHANGED <<msg, refused, errors>>

Refuse(f) ==
    /\ msg[f] \in reachable
    /\ Leave(f)
    /\ refused' = refused \cup {msg[f]}
    /\ errors' = IF msg[f] \in Replying THEN errors \cup {msg[f]} ELSE errors
    /\ NoFault

Attempt == UNCHANGED <<queueVars, submitted, reachable, sending, reported, lost>>

(* urldecode and BuildConnection(), with LOGIN.                            *)
Connect(f) ==
    /\ At(f, "connect")
    /\ LET m == msg[f]
           routed == m \in reachable \ Unroutable /\ label[m] = "url" IN
       \/ routed /\ GoOn(f, "open")
       \/ routed /\ Refuse(f)
       \/ TryAgain(f)
    /\ Attempt /\ UNCHANGED <<label, delivered, unanswered>>

OpenQueue(f) ==
    /\ At(f, "open")
    /\ \/ /\ msg[f] \in reachable
          /\ label' = [label EXCEPT ![msg[f]] = "own"]
          /\ GoOn(f, "send")
       \/ (Refuse(f) \/ TryAgain(f)) /\ UNCHANGED label
    /\ Attempt /\ UNCHANGED <<delivered, unanswered>>

Deliver(m) == delivered' = [delivered EXCEPT ![m] = @ + 1]

(* Mutant of EnqueueForward: an error of the network ends the matter.      *)
SendOnce(f) ==
    /\ At(f, "send")
    /\ \/ /\ msg[f] \in reachable
          /\ Deliver(msg[f])
          /\ Leave(f) /\ NoFault
          /\ UNCHANGED <<unanswered, refused, errors>>
       \/ /\ Leave(f) /\ Fault
          /\ UNCHANGED <<delivered, unanswered, refused, errors>>
    /\ Attempt /\ UNCHANGED label

(* EnqueueForward(): the message is in the far queue, with or without an   *)
(* answer that says so, or it is not.                                      *)
EnqueueForward(f) ==
    /\ At(f, "send")
    /\ \/ /\ msg[f] \in reachable
          /\ Deliver(msg[f])
          /\ Leave(f) /\ NoFault
          /\ UNCHANGED <<unanswered, refused, errors>>
       \/ /\ msg[f] \in reachable
          /\ Deliver(msg[f])
          /\ unanswered' = [unanswered EXCEPT ![msg[f]] = @ + 1]
          /\ TryAgain(f)
       \/ (Refuse(f) \/ TryAgain(f)) /\ UNCHANGED <<delivered, unanswered>>
    /\ Attempt /\ UNCHANGED label

(* Mutant of Enqueue: the message is given back to the front of the queue. *)
EnqueueInFront(f) ==
    /\ At(f, "requeue")
    /\ label' = [label EXCEPT ![msg[f]] = "url"]
    /\ Hold(f, msg[f])
    /\ accepted' = <<msg[f]>> \o accepted
    /\ Goto(f, "publish")
    /\ UNCHANGED <<ready, serving, up, submitted, msg, reachable, farVars,
                   reportVars, lost, faults>>

(* The message goes back to the queue, and is dropped if that fails.       *)
Enqueue(f) ==
    /\ At(f, "requeue")
    /\ label' = [label EXCEPT ![msg[f]] = "url"]
    /\ \/ /\ Store(f, msg[f])
          /\ Goto(f, "publish") /\ NoFault
          /\ UNCHANGED <<msg, lost>>
       \/ /\ Leave(f) /\ Fault
          /\ lost' = lost \cup {msg[f]}
          /\ UNCHANGED queueVars
    /\ UNCHANGED <<submitted, reachable, farVars, reportVars>>

FinalizeEnqueue(f) ==
    /\ At(f, "publish")
    /\ Release(f, msg[f])
    /\ Leave(f)
    /\ UNCHANGED <<submitted, label, reachable, farVars, reportVars, lost, faults>>
-----------------------------------------------------------------------------
(* SystemDelivery::sendMessages(): an error that cannot be sent is only    *)
(* logged.                                                                 *)
PopError ==
    /\ up /\ sending = None
    /\ \E m \in errors : sending' = m /\ errors' = errors \ {m}
    /\ UNCHANGED <<queueVars, submitted, threadVars, reachable, farVars, reported,
                   lost, faults>>

SendError ==
    /\ up /\ sending # None
    /\ sending' = None
    /\ \/ reported' = reported \cup {sending} /\ NoFault /\ UNCHANGED lost
       \/ lost' = lost \cup {sending} /\ Fault /\ UNCHANGED reported
    /\ UNCHANGED <<queueVars, submitted, threadVars, reachable, farVars, errors>>

(* The server stops, at once or orderly: what its threads have in hand and *)
(* what is in SystemDelivery::que is gone.                                 *)
InHand(f) == pc[f] \in {"connect", "open", "send", "requeue"}

Crash ==
    /\ up /\ Fault
    /\ Down
    /\ pc' = [f \in Forwarders |-> "idle"]
    /\ msg' = [f \in Forwarders |-> None]
    /\ errors' = {} /\ sending' = None
    /\ lost' = lost \cup errors \cup ({sending} \ {None})
               \cup {msg[f] : f \in {g \in Forwarders : InHand(g)}}
    /\ UNCHANGED <<submitted, label, reachable, farVars, reported>>

StartAgain ==
    /\ Restart
    /\ UNCHANGED <<submitted, threadVars, reachable, farVars, reportVars, lost, faults>>

(* A destination is cut off, or can be reached again.                      *)
CutOff(m) ==
    /\ m \in reachable /\ Fault
    /\ reachable' = reachable \ {m}
    /\ UNCHANGED <<queueVars, submitted, threadVars, farVars, reportVars, lost>>

ComeBack(m) ==
    /\ m \notin reachable
    /\ reachable' = reachable \cup {m}
    /\ UNCHANGED <<queueVars, submitted, threadVars, farVars, reportVars, lost, faults>>
-----------------------------------------------------------------------------
ForwarderNext(f) ==
    \/ BeginRetrieve(f) \/ FinalizeRetrieve(f)
    \/ Connect(f) \/ OpenQueue(f) \/ EnqueueForward(f)
    \/ Enqueue(f) \/ FinalizeEnqueue(f)

ForwardNext ==
    \/ \E s \in Sessions \ Forwarders, m \in Msgs : Submit(s, m) \/ Commit(s, m)
    \/ \E f \in Forwarders : ForwarderNext(f)
    \/ PopError \/ SendError
    \/ Crash \/ StartAgain
    \/ \E m \in Msgs : CutOff(m) \/ ComeBack(m)

(* The threads run, every call to a far server ends (with an error if need *)
(* be), and a server that went down is started again.                      *)
Fairness ==
    /\ \A f \in Forwarders : WF_forwardVars(ForwarderNext(f))
    /\ WF_forwardVars(PopError \/ SendError)
    /\ WF_forwardVars(StartAgain)

ForwardSpec == ForwardInit /\ [][ForwardNext]_forwardVars /\ Fairness
-----------------------------------------------------------------------------
(* Properties *)

(* A thread that is retrieving or publishing holds its message, no other   *)
(* thread does.                                                            *)
ForwardTypeOK ==
    /\ Range(accepted) \subseteq Msgs /\ ready \subseteq Range(accepted)
    /\ holds \in [Sessions -> SUBSET Msgs] /\ up \in BOOLEAN
    /\ submitted \subseteq Msgs /\ reachable \subseteq Msgs
    /\ pc \in [Forwarders -> {"idle", "remove", "connect", "open", "send",
                               "requeue", "publish"}]
    /\ msg \in [Forwarders -> Msgs \cup {None}]
    /\ \A f \in Forwarders :
          holds[f] = IF pc[f] \in {"remove", "publish"} THEN {msg[f]} ELSE {}
    /\ label \in [Msgs -> {"url", "own"}]
    /\ delivered \in [Msgs -> Nat] /\ unanswered \in [Msgs -> Nat]
    /\ refused \subseteq submitted
    /\ errors \cup reported \subseteq refused \cap Replying
    /\ sending \in (refused \cap Replying) \cup {None}
    /\ lost \subseteq submitted
    /\ faults \in 0 .. MaxFaults

Pending(m) == m \in Range(accepted) \/ \E f \in Forwarders : InHand(f) /\ msg[f] = m

(* No message just disappears: each is still on its way, in the far queue, *)
(* refused, or was lost to a fault; and an error of a message refused is   *)
(* on its way, in the response queue, or was lost to a fault.              *)
Accounted ==
    \A m \in submitted :
        /\ Pending(m) \/ delivered[m] > 0 \/ m \in refused \cup lost
        /\ m \in refused \cap Replying =>
              m \in errors \cup {sending} \cup reported \cup lost

(* A message arrives once, and once more for every answer that did not     *)
(* come back, whatever crashes: it is removed before it is sent.  None is  *)
(* on its way any more that has arrived and been answered for.             *)
AtMostOnce ==
    \A m \in Msgs : delivered[m] + (IF Pending(m) THEN 1 ELSE 0) <= 1 + unanswered[m]

(* A message whose destination stays in reach arrives, or is refused and   *)
(* reported, or is lost to a fault, whatever other messages keep returning *)
(* to the queue.                                                           *)
Settled(m) == delivered[m] > 0 \/ m \in reported \cup lost \cup (refused \ Replying)

Forwarded ==
    \A m \in Msgs \ Unroutable :
        <>[](m \in reachable) => (m \in ready ~> Settled(m))
=============================================================================
