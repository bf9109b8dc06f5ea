----------------------------- MODULE QManager -----------------------------
(***************************************************************************)
(* The queue manager (src/QManager.cpp): the table of queues, how many     *)
(* sessions use each, the temporary ones, queues.dat, and the thread that  *)
(* purges expired messages; with the stream cache it owns (StreamCache)    *)
(* and, of each queue (src/QStorage.cpp), the files it reads and writes    *)
(* through that cache.                                                     *)
(*                                                                         *)
(* A path stands for the name of a queue and for its one file.  What the   *)
(* module QStorage models of a queue (order, cursors, flags, file          *)
(* rotation) is left out here; a queue is the set of its messages.         *)
(***************************************************************************)
EXTENDS StreamCache, Integers

CONSTANTS Stores,    \* addresses of QStorage objects
          Msgs,      \* messages
          Sessions,  \* service threads
          Purger,    \* the thread QManager::run()
          MaxOpen    \* bound: queue handles of one session

ASSUME ManagerAssumption ==
    /\ None \notin Stores /\ None \notin Msgs
    /\ Purger \notin Sessions
    /\ IsFiniteSet(Sessions)
    /\ MaxOpen \in Nat \ {0}

Actors  == Sessions \cup {Purger}
Handles == 1 .. MaxOpen

VARIABLES queues,       \* path -> the queue of that name, or None
          live,         \* the QStorage objects allocated
          utilization,  \* store -> number of GetQueue() not yet released
          tempQueues,   \* names created as temporary queues
          config,       \* names in queues.dat, on disk
          manager,      \* who holds mtx of the manager, and what is left to do
          opened,       \* session -> handle -> queue, or None
          index,        \* store -> messages in its index
          data,         \* inode -> records in it that are not purged
          io            \* actor -> its operation on a queue's file, or None

managerVars == <<queues, live, utilization, tempQueues, config, manager, opened>>
storeVars   == <<index, data, io>>
qmVars      == <<managerVars, storeVars, cacheVars>>

NameOf(p)   == CHOOSE q \in Paths : queues[q] = p
Existing    == {q \in Paths : queues[q] # None}
NoHandles   == [h \in Handles |-> None]
FreeManager == [by |-> None, step |-> "free", name |-> None]
IsFree      == manager.step = "free"
Idle(a)     == io[a].step = "none" /\ manager.by # a
NoIO        == [step |-> "none", kind |-> None, store |-> None, msg |-> None, stream |-> None]

OnDisk(q) == IF file[q] = None THEN {} ELSE data[file[q]]

QMInit ==
    /\ CacheInit
    /\ queues = [q \in Paths |-> None]
    /\ live = {}
    /\ utilization = [p \in Stores |-> 0]
    /\ tempQueues = {}
    /\ config = {}
    /\ manager = FreeManager
    /\ opened = [s \in Sessions |-> NoHandles]
    /\ index = [p \in Stores |-> {}]
    /\ data = [i \in Inodes |-> {}]
    /\ io = [a \in Actors |-> NoIO]
-----------------------------------------------------------------------------
(* The manager's operations.  Each holds mtx to its end; those that write  *)
(* queues.dat truncate it first and write it in a step of their own, and a *)
(* deletion removes the files before it erases the queue.                  *)

CreateQueue(s, q, temporary) ==
    /\ IsFree /\ queues[q] = None
    /\ \E p \in Stores \ live :
          /\ queues' = [queues EXCEPT ![q] = p]
          /\ live' = live \cup {p}
          /\ index' = [index EXCEPT ![p] = OnDisk(q)]
    /\ tempQueues' = IF temporary THEN tempQueues \cup {q} ELSE tempQueues
    /\ config' = {}
    /\ manager' = [by |-> s, step |-> "store", name |-> q]
    /\ UNCHANGED <<utilization, opened, data, io, cacheVars>>

(* Mutant of GetQueue: notes that the queue is used, does not count.       *)
GetQueueMarks(s, q, h) ==
    /\ IsFree /\ queues[q] # None
    /\ opened[s][h] = None
    /\ opened' = [opened EXCEPT ![s][h] = queues[q]]
    /\ utilization' = [utilization EXCEPT ![queues[q]] = 1]
    /\ UNCHANGED <<queues, live, tempQueues, config, manager, storeVars, cacheVars>>

GetQueue(s, q, h) ==
    /\ IsFree /\ queues[q] # None
    /\ opened[s][h] = None
    /\ opened' = [opened EXCEPT ![s][h] = queues[q]]
    /\ utilization' = [utilization EXCEPT ![queues[q]] = @ + 1]
    /\ UNCHANGED <<queues, live, tempQueues, config, manager, storeVars, cacheVars>>

(* deleteQueue(): the object and the files; the name is given to the cache *)
(* as QManager builds it.                                                  *)
RemoveQueue(s, q) ==
    /\ live' = live \ {queues[q]}
    /\ index' = [index EXCEPT ![queues[q]] = {}]
    /\ IF file[q] # None THEN Remove(Name(q, FALSE)) ELSE UNCHANGED cacheVars
    /\ manager' = [by |-> s, step |-> "erase", name |-> q]

(* Mutant of DeleteQueue: allows one session to have the queue open.       *)
DeleteUsedQueue(s, q) ==
    /\ IsFree /\ queues[q] # None
    /\ utilization[queues[q]] <= 1
    /\ RemoveQueue(s, q)
    /\ UNCHANGED <<queues, utilization, tempQueues, config, opened, data, io>>

DeleteQueue(s, q) ==
    /\ IsFree /\ queues[q] # None
    /\ utilization[queues[q]] <= 0
    /\ RemoveQueue(s, q)
    /\ UNCHANGED <<queues, utilization, tempQueues, config, opened, data, io>>

ReleaseQueue(s, h) ==
    LET p == opened[s][h]
        named == {q \in Paths : queues[q] = p} IN
    /\ IsFree /\ p # None
    /\ opened' = [opened EXCEPT ![s][h] = None]
    /\ utilization' = IF named = {} THEN utilization
                      ELSE [utilization EXCEPT ![p] = @ - 1]
    /\ \/ /\ \A q \in named : ~(utilization[p] = 1 /\ q \in tempQueues)
          /\ UNCHANGED <<live, manager, index, cacheVars>>
       \/ \E q \in named : /\ utilization[p] = 1 /\ q \in tempQueues
                           /\ RemoveQueue(s, q)
    /\ UNCHANGED <<queues, tempQueues, config, data, io>>

(* Mutant of Erase: the deletion is not written to queues.dat.             *)
EraseUnstored ==
    /\ manager.step = "erase"
    /\ queues' = [queues EXCEPT ![manager.name] = None]
    /\ manager' = FreeManager
    /\ UNCHANGED <<live, utilization, tempQueues, config, opened, storeVars, cacheVars>>

Erase ==
    /\ manager.step = "erase"
    /\ queues' = [queues EXCEPT ![manager.name] = None]
    /\ config' = {}
    /\ manager' = [manager EXCEPT !.step = "store"]
    /\ UNCHANGED <<live, utilization, tempQueues, opened, storeVars, cacheVars>>

StoreQueueConfig ==
    /\ manager.step = "store"
    /\ config' = Existing
    /\ manager' = FreeManager
    /\ UNCHANGED <<queues, live, utilization, tempQueues, opened, storeVars, cacheVars>>
-----------------------------------------------------------------------------
(* A queue's operations on its file, under the mutex of the queue:         *)
(* Enqueue() appends, peekCursor() reads, statMessage() marks a record     *)
(* purged, and the last record takes the file with it.                     *)
Locked(p) == \E a \in Actors : io[a].store = p

Start(a, p, kind, m) ==
    /\ ~Locked(p)
    /\ io' = [io EXCEPT ![a] = [step |-> "get", kind |-> kind, store |-> p,
                                msg |-> m, stream |-> None]]
    /\ UNCHANGED <<queues, live, utilization, tempQueues, config, opened,
                   index, data, cacheVars>>

Unused(m) == /\ \A p \in Stores : m \notin index[p]
             /\ \A i \in Reachable \cap Inodes : m \notin data[i]
             /\ \A a \in Actors : io[a].msg # m

Enqueue(s, p, m) == Unused(m) /\ Start(s, p, "append", m) /\ UNCHANGED manager
Peek(s, p, m)    == m \in index[p] /\ Start(s, p, "read", m) /\ UNCHANGED manager
Retrieve(s, p, m) == m \in index[p] /\ Start(s, p, "mark", m) /\ UNCHANGED manager

(* TTLPurge() of one message, called with mtx of the manager held; a pass  *)
(* over several messages is several passes here.                           *)
TTLPurge(p, m) ==
    /\ IsFree /\ m \in index[p]
    /\ manager' = [by |-> Purger, step |-> "purge", name |-> None]
    /\ Start(Purger, p, "read", m)

Mode(kind) == IF kind = "append" THEN AppendTo ELSE ReadWrite

GetStream(a) ==
    /\ io[a].step = "get"
    /\ \E s \in Streams :
          /\ Get(Name(NameOf(io[a].store), TRUE), Mode(io[a].kind), s)
          /\ io' = [io EXCEPT ![a].step = "use", ![a].stream = s]
          /\ data' = [i \in Inodes |-> IF i \in Reachable THEN data[i] ELSE {}]
    /\ UNCHANGED <<managerVars, index>>

(* The end of an operation: the purger goes on from reading to marking.    *)
Done(a) ==
    IF a = Purger /\ io[a].kind = "read"
    THEN /\ io' = [io EXCEPT ![a].step = "get", ![a].kind = "mark", ![a].stream = None]
         /\ UNCHANGED manager
    ELSE /\ io' = [io EXCEPT ![a] = NoIO]
         /\ manager' = IF a = Purger THEN FreeManager ELSE manager

GiveUp(a) == /\ io' = [io EXCEPT ![a] = NoIO]
             /\ manager' = IF a = Purger THEN FreeManager ELSE manager

UseAppend(a) ==
    LET s == io[a].stream  p == io[a].store  m == io[a].msg IN
    /\ io[a].step = "use" /\ io[a].kind = "append"
    /\ IF IsOpen(s)
       THEN /\ data' = [data EXCEPT ![stream[s]] = @ \cup {m}]
            /\ index' = [index EXCEPT ![p] = @ \cup {m}]
       ELSE UNCHANGED <<data, index>>
    /\ Release(s)
    /\ Done(a)
    /\ UNCHANGED <<queues, live, utilization, tempQueues, config, opened>>

(* A stream that cannot be read from is not released, and peekCursor()     *)
(* still answers EC_NOERROR.  Reading past the end of the file leaves the  *)
(* stream failed in the cache.                                             *)
Readable(a) == IsOpen(io[a].stream) /\ io[a].msg \in data[stream[io[a].stream]]

ReleaseFailed(s) ==
    /\ stream' = [stream EXCEPT ![s] = IF s \in Cached THEN "failed" ELSE "freed"]
    /\ entries' = [i \in DOMAIN entries |->
                      IF entries[i].stream = s
                      THEN [entries[i] EXCEPT !.inuse = FALSE] ELSE entries[i]]
    /\ UNCHANGED file

UseRead(a) ==
    LET s == io[a].stream IN
    /\ io[a].step = "use" /\ io[a].kind = "read"
    /\ \/ Readable(a) /\ Release(s) /\ Done(a)
       \/ ~IsOpen(s) /\ Done(a) /\ UNCHANGED cacheVars
       \/ IsOpen(s) /\ ~Readable(a) /\ ReleaseFailed(s) /\ GiveUp(a)
    /\ UNCHANGED <<queues, live, utilization, tempQueues, config, opened, index, data>>

(* Whether the record was marked is known to the purger only: a session    *)
(* erases the entry, and unlinks the file with the last one, all the same. *)
UseMark(a) ==
    LET s == io[a].stream  p == io[a].store  m == io[a].msg IN
    /\ io[a].step = "use" /\ io[a].kind = "mark"
    /\ \/ /\ Readable(a) /\ Release(s)
          /\ data' = [data EXCEPT ![stream[s]] = @ \ {m}]
       \/ ~IsOpen(s) /\ UNCHANGED <<data, cacheVars>>
       \/ IsOpen(s) /\ ~Readable(a) /\ ReleaseFailed(s) /\ UNCHANGED data
    /\ IF a = Purger /\ ~Readable(a)
       THEN GiveUp(a) /\ UNCHANGED index
       ELSE /\ index' = [index EXCEPT ![p] = @ \ {m}]
            /\ IF index[p] = {m}
               THEN io' = [io EXCEPT ![a].step = "unlink", ![a].stream = None]
                    /\ UNCHANGED manager
               ELSE Done(a)
    /\ UNCHANGED <<queues, live, utilization, tempQueues, config, opened>>

Unlink(a) ==
    /\ io[a].step = "unlink"
    /\ Remove(Name(NameOf(io[a].store), TRUE))
    /\ Done(a)
    /\ UNCHANGED <<queues, live, utilization, tempQueues, config, opened, index, data>>
-----------------------------------------------------------------------------
(* The server stops at any moment and starts again: LoadQueueConfig()      *)
(* makes every queue of queues.dat, none of them temporary, and each       *)
(* recovers what its file holds.                                           *)
Restart ==
    \E at \in [config -> Stores] :
    /\ \A q, r \in config : at[q] = at[r] => q = r
    /\ queues' = [q \in Paths |-> IF q \in config THEN at[q] ELSE None]
    /\ live' = {at[q] : q \in config}
    /\ utilization' = [p \in Stores |-> 0]
    /\ tempQueues' = {}
    /\ manager' = FreeManager
    /\ opened' = [s \in Sessions |-> NoHandles]
    /\ index' = [p \in Stores |-> UNION {OnDisk(q) : q \in {r \in config : at[r] = p}}]
    /\ io' = [a \in Actors |-> NoIO]
    /\ entries' = <<>>
    /\ stream' = [s \in Streams |-> "freed"]
    /\ UNCHANGED <<config, data, file>>

FileOperation(s, p, m) == Enqueue(s, p, m) \/ Peek(s, p, m) \/ Retrieve(s, p, m)

SessionNext(s) ==
    /\ Idle(s)
    /\ \/ \E q \in Paths, temporary \in BOOLEAN : CreateQueue(s, q, temporary)
       \/ \E q \in Paths : DeleteQueue(s, q)
       \/ \E q \in Paths, h \in Handles : GetQueue(s, q, h)
       \/ \E h \in Handles : ReleaseQueue(s, h)
       \/ \E h \in Handles, m \in Msgs :
             opened[s][h] # None /\ FileOperation(s, opened[s][h], m)

IONext(a) == GetStream(a) \/ UseAppend(a) \/ UseRead(a) \/ UseMark(a) \/ Unlink(a)

QMNext == \/ \E s \in Sessions : SessionNext(s)
          \/ \E p \in live, m \in Msgs : TTLPurge(p, m)
          \/ Erase \/ StoreQueueConfig
          \/ \E a \in Actors : IONext(a)
          \/ Restart

QMSpec == QMInit /\ [][QMNext]_qmVars
-----------------------------------------------------------------------------
(* Properties *)

ManagerTypeOK ==
    /\ CacheTypeOK
    /\ queues \in [Paths -> Stores \cup {None}]
    /\ live \subseteq Stores
    /\ utilization \in [Stores -> Int]
    /\ tempQueues \subseteq Paths /\ config \subseteq Paths
    /\ manager \in [by : Actors \cup {None}, name : Paths \cup {None},
                    step : {"free", "erase", "store", "purge"}]
    /\ opened \in [Sessions -> [Handles -> Stores \cup {None}]]
    /\ index \in [Stores -> SUBSET Msgs]
    /\ data \in [Inodes -> SUBSET Msgs]
    /\ io \in [Actors -> [step : {"none", "get", "use", "unlink"},
                          kind : {"append", "read", "mark", None},
                          store : Stores \cup {None}, msg : Msgs \cup {None},
                          stream : Streams \cup {None}]]

(* The count the deletion of a queue goes by is the number of handles that *)
(* sessions have on it, over any order of opening, closing, deleting and   *)
(* restarting (QManager::GetQueue, ReleaseQueue).                          *)
UtilizationExact ==
    \A p \in live : utilization[p]
                      = Cardinality({u \in Sessions \X Handles : opened[u[1]][u[2]] = p})

(* No session has a handle on a queue that was deleted: neither DeleteQueue *)
(* nor the closing of a temporary queue frees a QStorage somebody uses.     *)
OpenQueueLives ==
    \A s \in Sessions, h \in Handles :
        opened[s][h] # None => \E q \in Paths : queues[q] = opened[s][h]
                                                /\ opened[s][h] \in live

(* Whenever no operation of the manager is under way, queues.dat names the *)
(* queues there are: what a restart brings back is what there was.         *)
ConfigCurrent == manager.step \in {"free", "purge"} => config = Existing

(* A stream an operation works with is its own: it was not closed under    *)
(* it, and no other operation works with it (StreamCache evicts entries    *)
(* that are in use).  No stream stays open that neither the cache nor an   *)
(* operation has, and no entry of an open one stays in use by nobody.      *)
StreamInUse ==
    /\ ManagerTypeOK
    /\ \A a \in Actors : io[a].step = "use" =>
           /\ stream[io[a].stream] # "freed"
           /\ \A b \in Actors \ {a} : io[b].stream # io[a].stream
    /\ \A s \in Streams :
           IsOpen(s) => s \in Cached \/ \E a \in Actors : io[a].stream = s
    /\ \A i \in DOMAIN entries :
           entries[i].inuse /\ IsOpen(entries[i].stream)
               => \E a \in Actors : io[a].stream = entries[i].stream

(* The record of a message is never in the file of another queue.          *)
RecordInOwnFile ==
    \A q, r \in Existing : q # r => OnDisk(q) \cap index[queues[r]] = {}

(* What the comment of StreamCache::remove() says, "delete the file and    *)
(* remove from the cache", and what it takes for a queue to keep its       *)
(* messages: every message in the index is in the file of the queue.       *)
AcceptedOnDisk ==
    \A q \in Existing : manager.step \in {"free", "purge"} =>
        index[queues[q]] \subseteq OnDisk(q)
=============================================================================
