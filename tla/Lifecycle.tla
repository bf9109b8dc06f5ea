------------------------------ MODULE Lifecycle ------------------------------
(***************************************************************************)
(* Starting and stopping of the server (src/main.cpp): the main thread     *)
(* starts the others and joins them; a signal interrupts it wherever it is *)
(* and asks them to stop; the acceptors create sessions, which are         *)
(* detached and registered (src/ServerThread.cpp, src/SSLServerThread.cpp, *)
(* src/ServiceThread.cpp, src/SystemDelivery.cpp, src/QManager.cpp,        *)
(* src/ForwardThread.cpp, src/shared/thdlib.cpp).                          *)
(*                                                                         *)
(* The handlers of signals run in the main thread, each signal being       *)
(* blocked while its own handler runs.  The mutex of the log is the only   *)
(* one that both use.                                                      *)
(***************************************************************************)
EXTENDS Naturals, SequencesExt

CONSTANTS Forwarders,  \* the forwarding threads, in order
          Sessions,    \* ServiceThread objects, each used once: a bound
          Signals      \* signals that end the server, each sent once: a bound

ASSUME LifeAssumption ==
    Forwarders \in Seq(ToSet(Forwarders)) /\ Len(Forwarders) > 0

Acceptors     == {"ssl", "tcp"}
ServerThreads == Acceptors \cup {"deliver", "manager"} \cup ToSet(Forwarders)

VARIABLES
    mainPc,       \* where the main thread is in its program
    frames,       \* the handlers that interrupt it, the running one last
    sent,         \* the signals that were delivered
    logHeld,      \* does the main thread, or a handler, hold the mutex of the log?
    at,           \* where each thread is in its loop
    stop,         \* m_bStop of each thread
    manager,      \* is theQueueManager set?
    forwardthds,  \* the array of the forwarding threads: NULL, allocated, freed
    number,       \* numForwardThreads
    session,      \* the life of each session
    clients,      \* ClientRegistry::clients
    crashed       \* did the main thread use memory that is not there?

threadVars  == <<at, stop>>
arrayVars   == <<manager, forwardthds, number>>
sessionVars == <<session, clients>>
programVars == <<mainPc, frames>>
lifeVars    == <<programVars, sent, logHeld, threadVars, arrayVars, sessionVars, crashed>>

(* The programs of the main thread and of its handlers, as the steps whose *)
(* order matters.                                                          *)
Each(op, ts) == [i \in DOMAIN ts |-> <<op, ts[i]>>]
Logging      == <<<<"lock", "log">>, <<"unlock", "log">>>>

startSafmq ==
    <<<<"new", "manager">>>> \o Each("start", <<"deliver", "manager">>)
    \o <<<<"configure", "forwardthds">>, <<"new", "forwardthds">>>>
    \o Each("start", Forwarders \o <<"tcp", "ssl">>) \o Logging

shutdownSafmq ==
    Each("join", <<"ssl", "tcp">> \o Forwarders) \o <<<<"delete", "forwardthds">>>>
    \o Each("join", <<"deliver", "manager">>) \o Logging

stopSafmq == Each("stop", <<"ssl", "tcp">> \o Forwarders \o <<"deliver", "manager">>)

main   == startSafmq \o shutdownSafmq
sigint == Logging \o stopSafmq

LifeInit ==
    /\ mainPc = 1 /\ frames = <<>> /\ sent = {} /\ logHeld = FALSE
    /\ at = [t \in ServerThreads |-> "unborn"]
    /\ stop = [t \in ServerThreads |-> FALSE]
    /\ manager = FALSE /\ forwardthds = "NULL" /\ number = 1
    /\ session = [s \in Sessions |-> "none"] /\ clients = {}
    /\ crashed = FALSE

Returned == mainPc > Len(main)
Over     == Returned \/ crashed
-----------------------------------------------------------------------------
(* The main thread and its handlers *)

Interrupted == frames # <<>>
Top         == frames[Len(frames)]
Current     == IF Interrupted THEN sigint[Top.at] ELSE main[mainPc]

Advance ==
    IF ~Interrupted THEN mainPc' = mainPc + 1 /\ UNCHANGED frames
    ELSE /\ frames' = IF Top.at = Len(sigint) THEN Front(frames)
                      ELSE [frames EXCEPT ![Len(frames)].at = @ + 1]
         /\ UNCHANGED mainPc

Step(op, t) == ~Over /\ Current = <<op, t>> /\ Advance

(* The mutex is not recursive: locked below, it is never had.              *)
LogLock ==
    /\ Step("lock", "log")
    /\ ~logHeld /\ logHeld' = TRUE
    /\ UNCHANGED <<sent, threadVars, arrayVars, sessionVars, crashed>>

(* Mutant of LogUnlock: the mutex stays locked.                            *)
LogUnlockForgotten ==
    /\ Step("unlock", "log")
    /\ UNCHANGED <<sent, logHeld, threadVars, arrayVars, sessionVars, crashed>>

LogUnlock ==
    /\ Step("unlock", "log")
    /\ logHeld' = FALSE
    /\ UNCHANGED <<sent, threadVars, arrayVars, sessionVars, crashed>>

New ==
    /\ \/ Step("new", "manager") /\ manager' = TRUE /\ UNCHANGED <<forwardthds, number>>
       \/ /\ Step("configure", "forwardthds")
          /\ number' = Len(Forwarders) /\ UNCHANGED <<manager, forwardthds>>
       \/ /\ Step("new", "forwardthds")
          /\ forwardthds' = "allocated" /\ UNCHANGED <<manager, number>>
       \/ /\ Step("delete", "forwardthds")
          /\ forwardthds' = "freed" /\ UNCHANGED <<manager, number>>
    /\ UNCHANGED <<sent, logHeld, threadVars, sessionVars, crashed>>

(* Mutant of Start: a stop requested earlier is forgotten.                 *)
StartAfresh(t) ==
    /\ Step("start", t)
    /\ at' = [at EXCEPT ![t] = "check"]
    /\ stop' = [stop EXCEPT ![t] = FALSE]
    /\ UNCHANGED <<sent, logHeld, arrayVars, sessionVars, crashed>>

(* Thread::start().  Without a certificate, or with forwarding disabled,   *)
(* the thread ends at once.                                                *)
Start(t) ==
    /\ Step("start", t)
    /\ \/ at' = [at EXCEPT ![t] = "check"]
       \/ t \notin {"tcp", "deliver", "manager"} /\ at' = [at EXCEPT ![t] = "ended"]
    /\ UNCHANGED <<stop, sent, logHeld, arrayVars, sessionVars, crashed>>

(* Mutant of Join: only the acceptors are waited for.                      *)
JoinAcceptors(t) ==
    /\ Step("join", t)
    /\ t \in Acceptors => at[t] = "ended"
    /\ UNCHANGED <<sent, logHeld, threadVars, arrayVars, sessionVars, crashed>>

Join(t) ==
    /\ Step("join", t)
    /\ at[t] = "ended"
    /\ UNCHANGED <<sent, logHeld, threadVars, arrayVars, sessionVars, crashed>>

(* stop() of one thread.  The array of forwarding threads is used whether  *)
(* it is there or not; what was freed may still look as it did.            *)
IsForwarder(t) == t \in ToSet(Forwarders)
InRange(t)     == \E i \in 1 .. number : Forwarders[i] = t

Exists(t) == CASE IsForwarder(t) -> InRange(t)
               [] t = "manager"  -> manager
               [] OTHER          -> TRUE

Stop(t) ==
    /\ Step("stop", t)
    /\ \/ /\ Exists(t)
          /\ IsForwarder(t) => forwardthds # "NULL"
          /\ stop' = [stop EXCEPT ![t] = TRUE] /\ UNCHANGED crashed
       \/ /\ Exists(t) /\ IsForwarder(t) /\ forwardthds # "allocated"
          /\ crashed' = TRUE /\ UNCHANGED stop
       \/ ~Exists(t) /\ UNCHANGED <<stop, crashed>>
    /\ UNCHANGED <<at, sent, logHeld, arrayVars, sessionVars>>

MainNext == \/ LogLock \/ LogUnlock \/ New
            \/ \E t \in ServerThreads : Start(t) \/ Join(t) \/ Stop(t)

(* SIGINT, SIGTERM or SIGQUIT; the handler runs on top of what there is.   *)
Signal(g) ==
    /\ ~Over /\ g \notin sent
    /\ sent' = sent \cup {g}
    /\ frames' = Append(frames, [signal |-> g, at |-> 1])
    /\ UNCHANGED <<mainPc, logHeld, threadVars, arrayVars, sessionVars, crashed>>
-----------------------------------------------------------------------------
(* The other threads *)

MoveOn(t, place) == ~Over /\ at' = [at EXCEPT ![t] = place]
OthersUnchanged == UNCHANGED <<programVars, sent, logHeld, stop, arrayVars, crashed>>

Check(t) ==
    /\ at[t] = "check"
    /\ MoveOn(t, IF stop[t] THEN "ended" ELSE "wait")
    /\ UNCHANGED sessionVars /\ OthersUnchanged

(* select() of 500 ms, WaitFor() of 500 or 1000 ms, WaitFront(1): with     *)
(* work at hand or without, stop requested or not, it ends.  All but the   *)
(* forwarding threads look at m_bStop once more before they work.          *)
Wait(t) ==
    /\ at[t] = "wait"
    /\ \/ MoveOn(t, "check")
       \/ (stop[t] => IsForwarder(t)) /\ MoveOn(t, "work")
    /\ UNCHANGED sessionVars /\ OthersUnchanged

(* Sending, forwarding or purging, whatever it comes to.                   *)
Work(t) ==
    /\ at[t] = "work" /\ t \notin Acceptors
    /\ MoveOn(t, "check")
    /\ UNCHANGED sessionVars /\ OthersUnchanged

(* A session is registered by its constructor.  Nobody looks whether its   *)
(* thread could be started.                                                *)
Accept(t, s) ==
    /\ at[t] = "work" /\ t \in Acceptors /\ session[s] = "none"
    /\ clients' = clients \cup {s}
    /\ \E life \in {"running", "not started"} : session' = [session EXCEPT ![s] = life]
    /\ MoveOn(t, "check") /\ OthersUnchanged

(* A client without the certificate that is required is rejected.          *)
Reject(t) ==
    /\ at[t] = "work" /\ t = "ssl"
    /\ MoveOn(t, "check")
    /\ UNCHANGED sessionVars /\ OthersUnchanged

(* accept() fails: the exception is caught outside the loop.               *)
AcceptFails(t) ==
    /\ at[t] = "work" /\ t \in Acceptors
    /\ MoveOn(t, "ended")
    /\ UNCHANGED sessionVars /\ OthersUnchanged

(* Mutant of Unregister: the object goes first.                            *)
FreedFirst(s) ==
    /\ ~Over /\ session[s] = "running"
    /\ session' = [session EXCEPT ![s] = "freed"]
    /\ UNCHANGED <<clients, at>> /\ OthersUnchanged

(* run() ends with "delete this", whose first step is to unregister.       *)
Unregister(s) ==
    /\ ~Over /\ session[s] = "running"
    /\ clients' = clients \ {s}
    /\ session' = [session EXCEPT ![s] = "unregistered"]
    /\ UNCHANGED at /\ OthersUnchanged

Free(s) ==
    /\ ~Over /\ session[s] = "unregistered"
    /\ session' = [session EXCEPT ![s] = "freed"]
    /\ UNCHANGED <<clients, at>> /\ OthersUnchanged

ThreadNext(t) == \/ Check(t) \/ Wait(t) \/ Work(t) \/ Reject(t) \/ AcceptFails(t)
                 \/ \E s \in Sessions : Accept(t, s)

LifeNext == \/ MainNext
            \/ \E g \in Signals : Signal(g)
            \/ \E t \in ServerThreads : ThreadNext(t)
            \/ \E s \in Sessions : Unregister(s) \/ Free(s)

(* Every thread is scheduled, and every call it makes to the network ends. *)
LifeFairness ==
    WF_lifeVars(MainNext) /\ \A t \in ServerThreads : WF_lifeVars(ThreadNext(t))

LifeSpec == LifeInit /\ [][LifeNext]_lifeVars /\ LifeFairness
-----------------------------------------------------------------------------
(* Properties *)

Places == {"unborn", "check", "wait", "work", "ended"}
Lives  == {"none", "running", "not started", "unregistered", "freed"}

HoldsLog == \/ main[mainPc] = <<"unlock", "log">>
            \/ \E i \in DOMAIN frames : sigint[frames[i].at] = <<"unlock", "log">>

(* Types; the mutex of the log is held exactly between its two calls.      *)
LifeTypeOK ==
    /\ mainPc \in 1 .. Len(main) + 1
    /\ \A i \in DOMAIN frames :
          frames[i].signal \in sent /\ frames[i].at \in DOMAIN sigint
    /\ sent \subseteq Signals
    /\ at \in [ServerThreads -> Places] /\ stop \in [ServerThreads -> BOOLEAN]
    /\ manager \in BOOLEAN /\ number \in {1, Len(Forwarders)}
    /\ forwardthds \in {"NULL", "allocated", "freed"}
    /\ session \in [Sessions -> Lives] /\ clients \subseteq Sessions
    /\ crashed \in BOOLEAN
    /\ logHeld = (~Returned /\ HoldsLog)

(* SERVER_INFO reads the sessions of the registry: none of them may be one *)
(* that is being destroyed, in whatever order sessions come and go.  The   *)
(* array of forwarding threads is freed only when none of them runs.       *)
FreedUnused ==
    /\ LifeTypeOK
    /\ \A s \in clients : session[s] \in {"running", "not started"}
    /\ forwardthds = "freed" => \A t \in ToSet(Forwarders) : at[t] = "ended"

(* A handler waits for the mutex that what it interrupted holds.           *)
Stuck == ~Over /\ Current = <<"lock", "log">> /\ logHeld

(* A stop that reached every thread, also before the thread was started or *)
(* while it was between looking at its flag and waiting, ends the server.  *)
StopEnds == (\A t \in ServerThreads : stop[t]) ~> (Over \/ Stuck)

(* "Handles INT interrupt signals from the system, in the case the user    *)
(* has chosen to interrupt the program and terminate it."                  *)
NeverStuck == ~Stuck

(* "Stops the safmq server": it does not bring it down.                    *)
NeverCrashes == ~crashed

(* "Shutsdown the safmw server by ensuring started threads have            *)
(* terminated": also those of the sessions.                                *)
AllTerminated ==
    Returned => /\ \A t \in ServerThreads : at[t] = "ended"
                /\ \A s \in Sessions : session[s] \notin {"running", "unregistered"}
=============================================================================
