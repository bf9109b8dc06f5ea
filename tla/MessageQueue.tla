---------------------------- MODULE MessageQueue ----------------------------
(***************************************************************************)
(* What a queue promises its clients, without index, cursors or files.     *)
(* Messages are accepted in some order and kept until one session has      *)
(* removed them.  A session holds a message from the moment it stores or   *)
(* retrieves it until it publishes, removes or returns it.  A crash makes  *)
(* every accepted message available again: delivery is at least once.      *)
(***************************************************************************)
EXTENDS Integers, SequencesExt

CONSTANTS Msgs, Priority, TTLMsgs, Sessions

VARIABLES
    accepted,  \* the messages kept, in the order they were accepted
    ready,     \* those the next reader may take
    holds,     \* the messages each session holds
    serving,   \* what a session is being sent: "nothing", the message in
               \* "front", or the one at a "cursor"
    up         \* is the server running?

queueVars == <<accepted, ready, holds, serving, up>>

Start ==
    /\ accepted = <<>>
    /\ ready = {}
    /\ holds = [s \in Sessions |-> {}]
    /\ serving = [s \in Sessions |-> "nothing"]
    /\ up = TRUE

Before(m, n) == \E i, j \in DOMAIN accepted :
                    i < j /\ accepted[i] = m /\ accepted[j] = n

(* "Retrieves the highest priority FIFO message present on the queue."     *)
Best(m) ==
    /\ m \in ready
    /\ \A n \in ready \ {m} :
          \/ Priority[m] > Priority[n]
          \/ Priority[m] = Priority[n] /\ Before(m, n)

(* The message m is taken out of the order.                                *)
Forget(m) == \E i \in DOMAIN accepted :
                 accepted[i] = m /\ accepted' = RemoveAt(accepted, i)

Hold(s, m) == holds' = [holds EXCEPT ![s] = @ \cup {m}]
Drop(s, m) == holds' = [holds EXCEPT ![s] = @ \ {m}]
Serve(s, what) == serving' = [serving EXCEPT ![s] = what]

Store(s, m) ==
    /\ up
    /\ Hold(s, m)
    /\ m \notin Range(accepted)
    /\ accepted' = Append(accepted, m)
    /\ UNCHANGED <<ready, serving, up>>

Take(s, m) ==
    /\ up
    /\ Serve(s, "front")
    /\ Hold(s, m)
    /\ Best(m)
    /\ ready' = ready \ {m}
    /\ UNCHANGED <<accepted, up>>

(* Retrieval at a cursor takes any message available.                      *)
TakeAtCursor(s, m) ==
    /\ up
    /\ Serve(s, "cursor")
    /\ Hold(s, m)
    /\ m \in ready
    /\ ready' = ready \ {m}
    /\ UNCHANGED <<accepted, up>>

(* The session has what it was sent, and holds it until it answers.        *)
Served(s) ==
    /\ up
    /\ serving[s] # "nothing"
    /\ Serve(s, "nothing")
    /\ UNCHANGED <<accepted, ready, holds, up>>

(* The holder publishes what it stored, or returns what it retrieved.     *)
Release(s, m) ==
    /\ up
    /\ Serve(s, "nothing")
    /\ m \in holds[s]
    /\ Drop(s, m)
    /\ ready' = ready \cup {m}
    /\ UNCHANGED <<accepted, up>>

(* The holder withdraws what it stored, or removes what it retrieved.     *)
Discard(s, m) ==
    /\ up
    /\ m \in holds[s]
    /\ Drop(s, m)
    /\ Forget(m)
    /\ UNCHANGED <<ready, serving, up>>

(* The holder leaves without a word: the message waits for a restart.     *)
Abandon(s, m) ==
    /\ up
    /\ Serve(s, "nothing")
    /\ m \in holds[s]
    /\ Drop(s, m)
    /\ UNCHANGED <<accepted, ready, up>>

(* A message may expire while nobody holds it.                             *)
Expire(m) ==
    /\ up
    /\ m \in TTLMsgs \cap ready
    /\ ready' = ready \ {m}
    /\ Forget(m)
    /\ UNCHANGED <<holds, serving, up>>

(* A crash, with whoever held a message.  Nothing accepted is lost, and    *)
(* nothing removed comes back.                                             *)
Down ==
    /\ up' = FALSE
    /\ ready' = {}
    /\ holds' = [s \in Sessions |-> {}]
    /\ serving' = [s \in Sessions |-> "nothing"]
    /\ UNCHANGED accepted

Restart ==
    /\ ~ up
    /\ up' = TRUE
    /\ ready' = Range(accepted)
    /\ UNCHANGED <<accepted, holds, serving>>

(* Most steps of an implementation do nothing the clients could see.       *)
QueueNext ==
    \/ UNCHANGED queueVars
    \/ \E s \in Sessions, m \in Msgs :
          \/ Store(s, m)
          \/ Take(s, m)
          \/ TakeAtCursor(s, m)
          \/ Release(s, m)
          \/ Discard(s, m)
          \/ Abandon(s, m)
    \/ \E s \in Sessions : Served(s)
    \/ \E m \in Msgs : Expire(m)
    \/ Down
    \/ Restart

Promise == Start /\ [][QueueNext]_queueVars
=============================================================================
