# SAFMQ in TLA+

SAFMQ is a store and forward message queue server.  Clients log in over TCP,
open queues, and enqueue, peek and retrieve messages, alone or in transactions;
the server keeps every message in files, delivers by priority, then first in
first out, and passes messages for other servers on.  This directory models the
part of it that decides what becomes of a message and who may have it: the
index and files of a queue, the sessions that use it, the threads that wait on
it, the manager of the queues and its cache of streams, the rights of users,
the threads that forward, the exchange between a client and its session, the
bytes of that exchange as four programs write and read them, and the starting
and stopping of the server.

## The system and its components

| component | source | state | operations | hard about it |
|---|---|---|---|---|
| queue index | `shared/randpq.h` | ordered list, `m_begin`, all positions ever handed out | enqueue, erase, begin, cursor ++/copy/write | positions are shared between cursors; erasing must reach every one |
| message storage | `QStorage.cpp/.h` | index, cursor map, `fileutilization`, `currentfileid`, `hasTTL`, `waitset`, files `*.q` | Enqueue, Begin/Finalize/Cancel Enqueue and Retrieve, cursors, TTLPurge, recover | hidden messages, reuse of handles, files deleted and written again, crashes between two writes |
| sessions, transactions | `ServiceThread`, `TransactionManager` | open queues, cursors of the client, pending entries | begin, commit, rollback, end, acknowledge, shut down | several calls into the queue with other threads in between; clients that disappear |
| commands | `MessageCmds.h`, `CursorCmds.h`, `XactCmds.h`, `QueueCmds.h` | none across requests | one `perform()` and one `writeResponse()` each | work done after the response is written, or because it could not be |
| waiting | `Signal.cpp`, wait loops of `QStorage` and `MessageCmds.h` | `waitset`, two condition variables | WaitForID, WaitFront, Signal::Set/WaitFor | signals are not remembered, several waiters share one entry |
| queue manager | `QManager`, `QueueCmds.h` | queues, `utilization`, `tempQueues`, `queues.dat` | create, delete, get, release, run | temporary queues, deletion while in use, restart |
| stream cache | `StreamCache.h` | open streams in LRU order | get, release, remove | a full cache, a stream of a removed file, streams that do not open |
| access control | `QAccessControl`, `UserCmds.h`, `GroupCmds.h` | users, groups, lists per queue | create, delete, set, test, store, load | check-then-act, lists that outlive their subject, files stored one by one |
| forwarding, system delivery | `ForwardThread`, `SystemDelivery`, `SystemConnection` | the queue `_FORWARD_`, an in-memory queue of errors | take, send, requeue, report | removal before sending, crashes, lost answers, messages that always fail |
| client library | `lib/MQConnection.cpp` | the connection, the handles the caller holds | write a request, read its answer | a connection that breaks: was it done or not? |
| wire protocol | `comdefs.h`, `server_operators.h`, `*Cmds.h`; `client_operators.h`, the C++, Java and .NET libraries | none but the bytes under way | write and read the parameters and the answer of each command | no framing: both ends know the layouts by heart; byte order of handles |
| start and stop | `main.cpp`, `ServerThread`, `SSLServerThread`, `thdlib` | the threads, `forwardthds`, `ClientRegistry` | start, stop, join, accept, handle a signal | a signal interrupts the thread that starts or stops; sessions are detached |
| the rest | logging, statistics, platform, tools | none that decides anything | | input and output |

A session thread (`ServiceThread::run`) reads a command, performs it, writes the
response.  Commands call `QStorage`, which is shared by all sessions and guarded
by one mutex per queue, `qmtx`; `TransactionManager`, which belongs to the
session; `QManager`, guarded by `mtx`; and `SecurityControl`, guarded by
`scmtx`.  All queues read and write their files through one `StreamCache`.
`QManager::run` calls `TTLPurge()` of every queue about once a second.  Waiting
threads hold no mutex and are woken by `FinalizeEnqueue()` and
`CancelRetrieve()`.  `ForwardThread` is a reader of `_FORWARD_` and a client of
another server; it hands the errors it meets to `SystemDelivery`.

What makes each part correct: every cursor stands on an entry, at the end, or
says that it is invalid; index, files and counts agree, also after a crash;
order of delivery survives removal and recovery; a message is held by one
session at a time, and nobody else removes, reveals or expires it; a session
that goes leaves nothing behind; what was accepted is delivered at least once;
waiting ends when it should; a queue in use is not deleted, and a stream in use
not closed; nobody keeps a right that was taken away or gains one by a restart;
a message to be forwarded is never just dropped; and what a client may conclude
from the answers it got is so.  `PROJECT.json` lists the hazards line by line
with the properties that watch them.

## Modules

    IndexQueue            operators: the index of a queue and its cursors
      QStorage            one queue: index, cursors, files, expiry, crash, recovery
        TransactionManager   the sessions of a queue, composed with QStorage
    MessageQueue          what a queue promises its clients
      (INSTANCE in TransactionManager, which implements it)
      Forwarding          forwarding threads and error reports, on that promise
      ClientConnection    clients, connections and sessions, on that promise
    QueueWait             the wait loops, waitset and signals
    RecordFile            the records of one file when writes fail or are torn
    StreamCache           the cache of streams and the directory
      QManager            the table of queues, queues.dat, purging, file operations
    SecurityControl       users, groups, rights, their commands and files
    Lifecycle             starting, stopping, signals, acceptors and sessions
    WireItems             how a request or an answer is described
      Protocol            a connection: bytes both ways, reading loop, any tables
      WireStructs         the structs and numbers server and C++ library share
        ServerProtocol    what the server reads and writes for each command
        CppClient         what the C++ library writes and reads,
      JavaClient          the Java library,
      DotNetClient        the .NET library (these are the tables, INSTANCE in ProtocolMC)
    ...MC                 values for TLC
    TransactionManagerProofs                     proofs about a queue and its sessions,
    ThreadProofs                                 about waiting, starting and stopping,
    RecordFileProofs                             about the records of a file,
    QManagerProofs                               about the manager,
    SecurityControlProofs                        about rights,
    MessageQueueProofs                           about the contract, and on top of it
      ForwardingProofs                           about forwarding,
      ClientConnectionProofs                     about clients and their sessions

Two layers are tied by a refinement: `TransactionManager` is shown to implement
`MessageQueue`, and `Forwarding` and `ClientConnection` are built on
`MessageQueue`, so that they need not carry cursors and files along.

**IndexQueue** (`ra_priority_queue`).  A queue is a sequence of messages.  A C++
cursor is a reference-counted position shared by its copies.  Every write
through a cursor duplicates a shared position first (`makeWritable`), with one
exception: `begin()` resets the position of `m_begin` in place.  So a cursor is
either `Tied`, sharing that position, or has a value of its own: an entry, `End`
or `Invalid`.  `Insert` is `enqueue()` with its `lower_bound`, `Invalidated` is
`invalidate()`.

**QStorage** (`QStorage`).  `index`, `begin`, `cursors`, `fileutilization`,
`currentfileid`, `hasTTL` are the members of that name; `hidden` is the `Purged`
flag of the index entries, `files` the records on disk with their own purged
mark, `place` the `FileID` and `DataOffset` of an entry.  Each public operation
takes `qmtx` at its start and is one action.  Three are taken apart, because a
crash can cut them: `recover()` goes record by record and file by file
(`RecoverRecord`, `RecoverNextFile`, `Recovered`), `TTLPurge()` entry by entry
(`BeginTTLPurge`, `PurgeExpired`, `EraseExpired`, `PurgeSkip`, `EndTTLPurge`),
and a removal marks the record first (`Consume`) and then takes the count down,
deletes the file, erases the entry and closes the cursor (`FinishRemoval`).
`mode` says which of them holds the mutex; no other operation runs meanwhile.
`Next` lets any caller pass any handle to any operation: what holds of it holds
whatever the callers do.

**TransactionManager** (`ServiceThread`, `TransactionManager`, the commands).
`trans`, `inTransaction`, `browse` and `open` are the members `transactions`,
`inTransaction`, `cursors` and `queues` of a session; `task` is what its thread
still has to do for the current command, so that other threads run between two
calls into the queue: between storing and publishing, between hiding a message,
sending it and entering it into the transaction, between two entries of a
commit, a rollback or a shutdown.  A response that cannot be written takes the
code's own path: the retrieval is cancelled and the session ends.  `ServerCrash`
takes all sessions down with the queue's memory.

**MessageQueue** is no code but the contract: the messages accepted and their
order, those ready for the next reader, those each session holds, and how the
message being sent was chosen.  RETRIEVE must take the best message, retrieval
at a cursor any message that is ready.  A crash makes everything accepted ready
again.  `TransactionManager!Contract` instantiates it; the accepted messages are
those with a live record on disk, in the order of the records.

**QueueWait** (`RetrieveCmd::perform`, `RetrieveIDCmd::perform`,
`QStorage::WaitForID`, `WaitFront`, `Signal` on POSIX threads).  `pc` is the
place of a thread in its loop.  In state `"gap"` the thread has released `qmtx`
and does not wait yet: a signal sent then is lost.  `Signal::Set` on `enqsignal`
wakes one thread, on `idsignal` all of them; waits may end spuriously.  The
queue is a set of messages here, since order does not matter for waking up;
after `Forget(m)` the name `m` stands for the next message of the same id.

**StreamCache** (`StreamCache`).  `entries` is the array in its order, `stream`
says what each `std::fstream` is open on, `file` is the directory.  A name is a
path and whether the string was ended by a NUL character (`std::ends`), because
`QStorage::getFileNameFromID` ends it and `QManager::deleteQueue` does not: the
same file, but different keys.  `get()` has its cases as actions of their own
(found, found with too few modes, not found with room, with an entry to evict,
with every entry in use), and `open()` may fail, for want of the file or, with
`OpenMayFail`, of descriptors.

**QManager** (`QManager`, the commands of `QueueCmds.h`, and of `QStorage` the
operations on files).  `queues`, `utilization`, `tempQueues` and `config`
(`queues.dat`) are the members of that name; `manager` says who holds `mtx` and
what he has still to do: `queues.dat` is truncated by one step and written by
the next, a deletion removes the files before it erases the queue.  `io` is the
operation on a file that an actor is in the middle of: the stream is got in one
step, used in another and released, while other queues use the cache.  A removal
erases the entry, and deletes the file with the last one, whether or not its
record could be marked; only the purger looks (`UseMark`).
`Restart` may come at any moment and makes the queues out of `queues.dat`.

**SecurityControl** (`SecurityControl`, `UserCmds.h`, `GroupCmds.h`,
`QueueCmds.h`).  `lists` are the users, groups, memberships, rights to
administer and lists of queues in memory, `disk` their files.  A command is two
or three steps of its session: the test of the right, for a queue the call of
the manager, the change.  `StoreSecurityLists` ends the change; `TornRestart` is
the crash before it ended, with some of the files new, one cut at any line, and
the rest old.  The two commands on identities (`ChangeIdentity`) store the lists
without `scmtx`, beside changes and other stores.  As long as every store writes
the lists as they are, the files end as just that; once a change comes while such
a store is under way (`overlap`), what the stores leave is any of `MixedLists`,
until the next store that overlaps none.  The constructor, which makes `admin` and
its group again, is part of every start.

**Forwarding** (`ForwardThread::run`, `SystemDelivery`,
`SystemConnection::EnqueueForward`).  `pc` is the place of a thread in its loop:
removing, connecting, opening, sending, putting back, publishing.  Each call to
a far server may succeed, be refused, or fail; a call that failed may have been
carried out (`unanswered`).  `label` is there because the label of the message
is its url, replaced while it is sent: a message put back without its url would
never arrive.  The sets `refused`, `errors`, `reported` and `lost` account for
what did not arrive.

**ClientConnection** (`lib/MQConnection.cpp`, `ServiceThread`,
`TransactionManager`).  `call` is what a client is calling, `exchange` the
request or response on the way, `thread`, `opened`, `entries` and
`inTransaction` what the session has, and `view`, `outcome` and `owned` what the
client concludes from answers alone: that it is in a transaction, which handles
it has, what it has sent and not committed, what became of a message it sent,
which messages it was told it has removed.  `Retrieve` is the library's: it
acknowledges at once.  A connection may break between any two steps.

**RecordFile** (`QStorage.cpp` and the stream the cache keeps) is one storage
file with the disk against it.  `file` are its records, of which any may lack
the end of its message or of its body; `stream` is the entry of the cache, which
stays failed once it has failed; `at`, `hidden`, `util` and `open` are the index
as far as this file goes; `told` is what the answers said.  The disk may be full
at any of the writes of a record, or the server may die in the middle; what a
failed stream still holds may be written later.  `RemoveMessage` erases the entry
whether its record could be marked (`MarkRecord`) or not (`LeaveRecord`):
`statMessage()` only says whether the handle is that of a cursor.  `Recover` is
`recover_file()`, which reads the bytes that are there: a torn record takes those
of the next.

**Lifecycle** (`main.cpp` and the threads it starts).  The main thread runs a
program, `startSafmq` and `shutdownSafmq` step by step, and a handler of a
signal, put on `frames`, interrupts it anywhere; both write to the log under a
mutex that is not recursive.  `at` and `stop` are the place and the flag of each
thread; `session` is the life of a `ServiceThread`, from the acceptor to the
destructor, and `clients` the registry.

**The wire protocol.**  `WireItems` describes a request or an answer as a
sequence of fields: the member, how many bytes it takes, whether it is in
network order, in the order of the machine, or bytes, and whether it may be read
short.  `WireStructs` has the packed structs of `comdefs.h` and the numbers of
the commands.  `ServerProtocol` has a row for each of the commands of
`Command.cpp`: the struct `readRequest()` reads and the members its `operator>>`
converts, whether the length before it is compared (`evalsize`), ignored or not
there, whether `perform()` may fail, and what `writeResponse()` writes.
`CppClient`, `JavaClient` and `DotNetClient` have a row for each call of their
library, written from its own sources: the Java and the .NET library have their
own structs and numbers.  **Protocol** is one connection; these tables are its
constants.  `Connect` and
`CallServer` put the request of a call into `toServer`; `Serve`, `RefuseSize`,
`UnknownMessage` and `Misread` are the outcomes of one turn of
`ServiceThread::run`; `ReadAnswer`, `ReadError` and `LoseStep` those of reading
the answer.  The reader takes the bytes by its own layout, not by the writer's:
where they differ, an end is `"lost"`.  `held` are the handles of the program.  A
library called `"later"` is the C++ one with one command more and one struct
longer, as a client newer than its server would be.

- A message is a model value with a priority, an id it answers and, or not, a
  time to live.  Bodies, labels and time stamps are left out; time is the action
  `Age`, which may happen at any moment.
- A crash is the death of the server process.  What was handed to the operating
  system stays: `StreamCache::release()` flushes each stream.  QStorage takes a
  record to be written whole; failed and torn writes of records are RecordFile's,
  cut files SecurityControl's, a truncated `queues.dat` QManager's.
- In RecordFile the nine bytes of a record's header are written whole or not at
  all, marking a record in place does not fail by itself, and a torn record that
  happens to be as long as a whole one does not occur.
- In Lifecycle a handler runs in the main thread, and a thread the server starts
  for itself does start.  The data race on the list of acceptors is left out.
- In Protocol a text is not its characters but its length, and identities by
  UUID are bytes; lengths that do not fit but happen to make sense are left out.
  All entries of a list are alike.  A program uses the handles it was given.
- A message has one record on disk at a time (`~ OnDisk(m)` in `Enqueue`): ids
  are unique, and a name is used again once its record is gone.
- `FinalizeEnqueue()` and `CancelRetrieve()` are not called with a cursor at the
  end of the queue, where the code dereferences the end of a list; no run
  reaches such a call.
- The entries of a commit are dealt with in any order (the code goes by message
  id, which is random).
- In TransactionManager a session has the queue open once and passes handles it
  was given.  In ClientConnection, after a crash too, it may pass any handle.
- The error message sent for an expired message, statistics and
  `FinalizeRetrieveCursor()`, which nothing calls, are left out.
- In QManager a queue has one file and is the set of its messages; order,
  cursors and rotation of files are QStorage's.  A pass of the purger over
  several messages is several passes.
- SecurityControl takes names to survive their file: no colon, no blanks at
  their ends.  A client logs in when it connects and not again.
- In ClientConnection a call under way fails at the moment the connection
  breaks.  In fact the client notices later; until then it does nothing, and
  only the server's side goes on, which it does here as well.  A response not
  yet read is gone; a request may be read, or not, long after.
- Forwarding does not model messages that expire in `_FORWARD_`.

## What TLC checks

| run | properties | instance | distinct states |
|---|---|---|---|
| QStorage | `TypeOK`, `UtilizationExact`, `EntryHasRecord`, `RecordHasEntry`, `PriorityFifo`, `NoDanglingCursor`, `OwnCursorStable`, `FileGoesWithLast` | 3 messages of 2 priorities, one with a time to live; 2 handles, 2 files of 2 records | 962,189 |
| KeepsPromise | `PendingOnMessage`, `HandlesUnshared`, `KeepsPromise`, `UsesQStorage` | 2 sessions, 2 messages of one priority, 2 handles | 182,605 |
| LostResponse | `KeepsPromise` | 2 sessions, 1 message that may expire, 2 handles, responses of RETRIEVE_CURSOR are lost | 1,202,134 |
| QueueWait | `WaitsetCovered`, `BoundedRequestEnds` | 2 threads, 2 messages of 2 ids | 48,373 |
| QManager | `UtilizationExact`, `OpenQueueLives`, `ConfigCurrent`, `StreamInUse`, `RecordInOwnFile` | 2 sessions and the purger, 2 queues, 2 messages, a cache of one stream | 1,276,932 |
| SecurityControl | `ListsClosed`, `RestartRestores`, `DeletionRevokes`, `NoGainByRestart` | 2 sessions, `admin` and a user, 3 groups, 1 queue, 2 commands, from the lists of a new server and of one in use | 221,094 |
| Forwarding | `Accounted`, `AtMostOnce`, `Forwarded` | 2 forwarding threads, 1 client, 3 messages, 2 faults | 190,590 |
| ClientConnection | `ViewsAgree`, `PromiseKept`, `OwnedOnce`, `Isolation` | 2 clients, 2 messages, 1 handle of each session | 1,515,679 |
| RecordFile | `KeptBefore`, `OwnRecord`, `ErasedStays` | 3 messages, 1 fault | 570,245 |
| Lifecycle | `FreedUnused`, `StopEnds` | 1 forwarding thread, 1 session, 1 signal | 87,106 |
| Protocol | `InStep`, `HandlesComeBack`, `SomebodyMoves` | 4 libraries, machines of both byte orders, every call and every kind of answer | 11,332 |
| TwoPriorities | `PendingOnMessage`, violated | two messages of different priority | |

Where a module's type invariant is not a property of its own it is the first
conjunct of one: of `WaitsetCovered`, `StreamInUse`, `ViewsAgree`, `OwnRecord`,
`FreedUnused` and `InStep`.

What the properties say is written above each in its module.  In short: QStorage,
that index, files, counts and cursors agree whatever is called in whatever order
and wherever a crash cuts it.  KeepsPromise and LostResponse, that the sessions
together are the queue of the contract, that the cursor kept for a held message
stays on it, and that no handle is shared.  QueueWait, that a thread that waits
for an id is in `waitset`, and that a request with a limit is answered.
QManager, that a queue somebody has open lives, that `queues.dat` names the
queues, and that whatever contention there is for the cache, a stream in use
stays open and its user's own, none is lost or kept in use by nobody, and no
record goes to the file of another queue.  SecurityControl, that although a command tests and changes in
two steps, nothing refers to what was deleted, a deleted user keeps no right,
the files hold what memory does when nobody stores, and a crash in the middle of
storing gives nobody a right he had neither before nor after; the last two unless
a change came while an identity command was storing.  Forwarding, that a message is accounted for wherever faults strike,
arrives once and once more only for each lost answer, and does arrive.
ClientConnection, that between calls the client and its session agree, that a
message its sender was told is kept stays until read, that a message is removed
for at most one client, and that nobody sees what is not committed.  RecordFile,
that a write that fails or is torn costs none of the messages accepted before,
that no message gets the record of another, and that a removal is for good where
it marked the record or deleted the file, as every one does until a write fails.  Lifecycle, that no session in the registry is being destroyed, that
the array of threads is freed only when they have ended, and that a stop that
reached every thread ends the server.  Protocol, that library and server agree
for every command where a request and an answer end, that a handle comes back as
what it was, and that the two never wait for each other.  The exceptions the
last three name are what the code does (below).

Every constant that bounds a run:

- `MaxHandle` and `MaxFile` of QStorage: handles 0 to MaxHandle, files 0 to
  MaxFile; `FileLimit`: a file is left for the next once it has more records.
  An operation that would need a handle or a file beyond is not enabled.  Three
  messages of two priorities make an insertion in front, between and behind;
  two files make one file empty while the other is in use, a gap for recovery,
  and a file written again after it was deleted; two handles make a handle that
  is reused while another is open.
- The sets of messages, sessions, threads, ids.  Two sessions and two messages
  make one session's message overtake or stand beside another's.  With two
  handles the two sessions cannot both hold a message while a third cursor is
  open; three are beyond the time of a run with the contract.
- `MaxOpen` of QManager: one handle of each session; a queue still has two
  users.  `CacheSize` is one, less than the queues, so that every access evicts
  or contends; three streams and three inodes are one more than can be in
  regular use, so that a lost one shows.
- `MaxCommands` of SecurityControl: two commands whose test was passed, so that
  one can come between the test and the change of another.  `GrantedActorRights`
  and `GrantedQueueRights` are some of the sets of rights, the empty one (taking
  the right away) among them.  `StoredLists` are what the server may start from;
  `MixedLists`, what stores that overlap a change may leave: one example with lines
  of two lists, missing ones, and a group that is in no list of groups.  A crash
  cuts a file for each of two sessions that were storing.
- `MaxFaults` of Forwarding: two connections broken, disks full or crashes; two
  are what it takes to lose an answer and then the message put back.
- `MaxFaults` of RecordFile: one write that fails; restarts, which may tear the
  last record, are not bounded.  Two faults make 3.7 million states and pass as
  well (165 s).
- `Forwarders`, `Sessions` and `Signals` of Lifecycle: one of each, each session
  and signal once.  Two forwarding threads with one session pass as well (376,906
  states, 203 s), and with two sessions without `StopEnds` (1.88 million, 84 s).
- `MaxCount`, `Lengths`, `BodySizes`, `Lengthening` of Protocol: lists of none,
  one and two entries, texts of two lengths, a body or none, a text with two
  bytes more than characters.  A layout that is wrong is wrong at any length.
  Requests and answers under way are not bounded: a client waits for its answer.
- `MaxHandle` of ClientConnection: one handle at a time for each session, closed
  and opened any number of times.  Two are beyond the time of a run.

Symmetry of sessions and of interchangeable messages is used in the runs of
invariants and of step properties only, never where a property is temporal
beyond a single step.

### Fairness

`WaitSpec` assumes that each thread that can go on does (threads are scheduled),
and that time passes (`Tick`); nothing is assumed of signals or of other clients.
`ForwardSpec` assumes that the forwarding threads and the thread of
SystemDelivery are scheduled, that every call to a far server ends, with an
error if need be, and that a server that went down is started again.  That calls
end is an assumption about the network: the sockets of the forwarder have no
timeout.  Nothing is assumed of clients or of when a destination is in reach;
`Forwarded` speaks of destinations that stay in reach from some moment on.  All
messages of that run have one priority: one that always fails comes back in
front of those of lower priority.  `LifeFairness` assumes that the threads of the
server and its main thread are scheduled and that their waits and calls end, as
the selects with their timeouts do; nothing is assumed of signals, of clients, or
of sessions, which are detached and which nobody waits for.  All other properties
are safety properties of specifications without fairness; that a call ends is
`SomebodyMoves` in Protocol: some end can always go on.  Forwarding, Lifecycle and
Protocol are run without the check for deadlock: when everything has arrived, the
process has ended, or a connection is closed or lost, they stop.

### Where code and documentation disagree

The violated run refutes a sentence of the repository.  *TwoPriorities*: the
cursor kept for a retrieved message may be tied to `m_begin`; a message of higher
priority arrives, any `begin()` moves the cursor to it, and the acknowledgement
removes the wrong message, which nobody has read.  This is why the other runs of
sessions give all messages one priority: there they hold, so sharing is the only
cause.

The following are violated too; each has its configuration, to be run by hand.

- `Disconnect.cfg` (TransactionManagerMC): retrievals that were not acknowledged
  are forgotten when the session ends and stay hidden until the server restarts.
- `StaleStream.cfg` (QManagerMC): `deleteQueue()` removes a file under a name
  that is not the key of the cache.  The stream stays in the cache, open on the
  unlinked file; a queue created under the same name gets it, and what that queue
  accepts is gone after a restart.  All other properties of QManager hold in
  spite of it.
- `FrontWaitEnds.cfg` (QueueWaitMC): a message published between the search and
  the wait wakes nobody.
- `AnsweredQueued.cfg` (RecordFileMC): when the body of a message cannot be
  written, ENQUEUE answers EC_NOERROR, with a handle that was never set and no
  entry; whether the flush succeeds nobody looks at.
- `AckRemoves.cfg`: FinalizeRetrieve() erases the entry and answers EC_NOERROR
  although the record could not be marked, as it cannot whenever the stream in the
  cache has failed before: the record stays live on disk, and the message is there
  again after a restart.  With a handle that was never set nothing is erased, and
  the answer is EC_NOERROR as well.
- `GivenBeforeErased.cfg`: with a failed stream a reader gets an empty message and
  EC_NOERROR, and its acknowledgement may remove the message.
- `NeverStuck.cfg` (LifecycleMC): a handler waits for the mutex of the log, which
  the code it interrupted holds.
- `NeverCrashes.cfg`: a handler goes through `forwardthds` before it is allocated
  or after it was freed.
- `AllTerminated.cfg`: the process ends while sessions are at work.

Met while modelling, without a run of its own:

- A failed response of RETRIEVE_CURSOR closes the client's cursor, the shutdown
  closes the handle once more, when it may belong to another session: with two
  messages and `CursorSendFails` the cursor of a held message is closed, and the
  contract is broken (LostResponse with `Msgs = {m1, m2}`, 14 steps): a session
  that has sent m2 in a transaction loses its handle this way and opens a cursor,
  which gets the same handle and stands on m1; when it ends, the rollback of m2
  removes m1, a message that was accepted and that nobody held.
- `addUserIdentity()` and `removeIdentity()` change the map of identities and store
  all lists without `scmtx`.  A change of another session meanwhile is a data race,
  and the files may keep old lists, or pieces of both, although nothing crashed:
  without its exception for `mixed`, `RestartRestores` is violated.
- `TTLPurge()` does not set `hasTTL` for a hidden message, which may then stay
  although its time is over until the next message with a time to live arrives.
- A transaction is not atomic over a crash: its uncommitted messages are records
  like others and are delivered after the restart, while its retrievals return.
  `PromiseKept` and `OwnedOnce` hold over crashes all the same, because a client
  that got no answer concludes nothing (`outcome` is "doubt").
- A `Retrieve()` returns EC_NETWORKERROR when the answer to its acknowledgement is
  lost, though the message is removed: the caller has its contents all the same.
- The server converts the handle CreateTempQueue() gives to network order, and in
  GetQueueStatistics() both ends convert the handle; everywhere else handles go as
  they lie in memory.  Between machines of different byte order, and so for the
  Java and .NET libraries with a server on a little-endian machine, the handle of
  a temporary queue works for nothing but its statistics, and that of another
  queue for all but its statistics (`HandlesComeBack`).
- The Java and .NET libraries announce the length of an identity in characters
  and send its bytes: with a name outside ASCII the ends lose each other.  The
  .NET library reads some texts by one `Read()`, which may return with less, and
  reads the body of a message whether it asked for it or not, which waits for
  ever when it did not (`InStep`, `SomebodyMoves`).
- The .NET library sends as body the whole buffer of its stream, padding included.
- A length that does not fit a struct is answered with EC_UNSUPPORTED_PROTOCOL and
  the connection closed; of the identities, the wrong number of bytes is then
  consumed, which nobody notices since it is closed.  A command without parameters
  that the server does not know leaves both ends waiting: the server for a length.
- QUEUE_ENUM_PERMS answers EC_NOERROR whatever `perform()` found.
- `EnqueueWithRelay()` within a transaction closes the queue it opened, which
  rolls the message back, and answers that all is well.

## What TLAPS proves

For every number of messages, handles, files and sessions:

- `TransactionManagerProofs!TypeCorrect`, `NoCursorDangles`: types, and no cursor, purge
  or removal stands on an entry that is gone.
- `TransactionManagerProofs!CountsAreExact`, `NoMessageLost`, `NoRecordForgotten`,
  `FilesGoWithLast`: index, files and counts agree, and a file is deleted exactly
  with its last entry.
- `TransactionManagerProofs!FifoThroughCrashes`: the index is in order of priority and then
  of writing, after every recovery too.  `CursorsStayPut`: no operation moves the
  cursor of another handle that has a position of its own.
- `ThreadProofs!NoWakeUpWasted`: for every number of threads and messages, an
  id is in the waitset only while a thread waits for it.
- `ThreadProofs!FreedUnusedSafe`: for every number of forwarding threads, sessions
  and signals, wherever the handlers interrupt starting and stopping, no session
  in the registry is being destroyed, the array of forwarding threads is freed
  only when all of them have ended, and the mutex of the log is held exactly
  between its two calls.
- `RecordFileProofs!EntriesAndRecordsInStep`, `AcceptedBeforeFaultsKept`,
  `RemovalIsForGood`: for every number of messages, writes that fail, torn
  records, crashes and restarts, no entry has the record of another message, what
  was accepted before the first fault stays until it is removed, and what was
  erased stays away but where its record could not be marked, which takes a fault.
- `TransactionManagerProofs!SessionTypeCorrect` and `ServerUsesQStorage`: the
  sessions implement `QStorage!Spec`, so that all of the above holds of the
  server, `CursorSendFails` or not.
- `TransactionManagerProofs!HandleOnMessage`, `HandleOfOneHolder`, `HeldByOne`: when
  all messages have one priority and no answer to RETRIEVE_CURSOR is lost, the
  cursor a session goes by is on its message, no other holder or client has that
  handle, and the message stays in the queue, hidden and held by that session
  alone.  Without either condition the code does not keep this: `TwoPriorities`
  shows it for the first, the findings below for the second.
- `TransactionManagerProofs!ServerKeepsPromise`: under the same two conditions, the
  sessions, the purger, crashes and recovery implement `MessageQueue`, the contract
  the models of forwarding and of clients are built on: messages stay in the order
  they were accepted, RETRIEVE takes the first that is available, RETRIEVE_CURSOR
  one that is, and takes it alone, only who holds a message publishes, removes or
  returns it, only what nobody holds expires, and after a crash what was accepted
  and not removed is available again.
- `SecurityControlProofs!SecurityTypeCorrect`, `ListsAlwaysClosed`: for every
  number of users, groups, queues, sessions and commands, the lists keep their
  type; and while the server never started from files cut or mixed, no membership
  and no right to administer names what does not exist.
- `SecurityControlProofs!RestartsRestore`, `DeletedHaveNoRights`,
  `CutStoreGivesNothing`: the files hold what is in memory whenever nobody stores,
  however many identity commands stored at once without `scmtx`; who is deleted
  keeps no right; and files cut at any place of any store give nobody a right he
  had neither before the command nor after it.  The first and the last unless a
  change overlapped the store of an identity command; what the files hold then is
  any lists with single entries (`MixedAssumption`).
- `QManagerProofs!UseCountsExact`, `NoOpenQueueFreed`, `ConfigNamesQueues`: for
  every number of sessions, queues, messages and streams, and whatever the cache
  does, the count of users of a queue is the number of handles on it, no handle
  is on a queue that was deleted, and `queues.dat` names the queues.
- `QManagerProofs!StreamsUnshared`, `FilesUnmixed`: for every size of the cache
  too, and although `open()` may fail, a stream an operation uses is open or failed
  and nobody else's, no open stream is lost or in use by nobody, and no record of one queue is in the
  file of another, also when a stream stays in the cache on a file that was
  unlinked (`StaleStream.cfg`).
- `MessageQueueProofs!OneHolder`: the contract implies that a message is
  accepted once, and available or held by one session.
- `ForwardingProofs!ForwardTypeCorrect`, `NothingDisappears`,
  `NoMoreThanLostAnswers`: for every number of threads, messages and faults, a
  message to be forwarded is accounted for, and arrives once and once more at
  most for each lost answer.
- `ClientConnectionProofs!ClientsKnowTheirSession`, `PromisesKept`, `RemovedOnce`,
  `NothingBeforeCommit`: for every number of clients, messages and handles, and
  whenever connections break and the server crashes, what a client concludes from
  the results of its calls is so: its session is as it believes, what it was told
  is on the queue stays until it is read, what it was told it removed is gone and
  nobody else's, and nothing uncommitted or withdrawn is ever read.

They rest on the assumptions `IndexAssumption`, `StorageAssumption`,
`SessionAssumption`, `WaitAssumption`, `LifeAssumption`, `RecordAssumption`,
`SecurityAssumption`, `StoredAssumption`, `MixedAssumption`, `ManagerAssumption`, `CacheAssumption`,
`ForwardingAssumption` and `ClientAssumption`: the messages
are finitely many, priorities are natural numbers, a file takes at least one
record, the special positions differ from each other and from messages; the
faults of a disk are finitely many, to bound the runs; what a thread wants that
takes any message is neither a message nor an id; the forwarding threads are a
sequence of one at least; `admin`
and the two built-in groups exist, users are not groups, and the server first
starts from lists without double entries that are closed; lists that stores have
mixed are lists, without double entries when they are read; the sessions of the
manager are finitely many; the forwarding threads are sessions of their queue; a
session may have a handle, and no message is none.

None of the invariants is inductive alone.  `MemoryInv` (of a queue, in TransactionManagerProofs) is
`TypeOK` and `PositionsInIndex`: every position an operation may be given is on
an entry, at the end or marked invalid, and so is the entry whose record is
marked already.  Without it `erase()` could be asked for an entry that is not
there, and the index would not stay a list of messages.  `StorageInv`
adds that the index has no entry twice, that no message has two
records on disk, that the entries and the records read so far by recovery point
at each other, and that the counts are exact.  They need each other: a file is
deleted when its count is used up, so an entry keeps its record only if the
counts are exact; the counts are exact only if a message is in the index once;
and recovery brings it in once only if it is on disk once.  The count of a file
is the cardinality of a set that each step changes by one element at most.
The first section of the module has the lemmas
about the operators: where `Insert` and `Erase` leave the other entries, and that
a search returns an entry or the end.  `OrderInv` is what `PriorityFifo` needs
besides: no entry is in a file behind the one written last, so that the next
record is behind all of them.  The proof of `ServerUsesQStorage` goes
through the session actions one by one, each of which is an operation of the
queue, or leaves the queue alone.

`HolderInv` is the invariant of the handles.  For each session `HoldsOwn` says that
its handles are on its messages (`HeldAt`), that these are held by no other, and
that the handles it browses with are open and nobody's.  `FrontInv` is where the
one priority comes in: `m_begin` is on the first entry or on none, so that the
cursors tied to it stay where they are when `begin()` resets it.  A handle that is
given out is one above all open ones, so it is nobody's, because every handle in
use is open; that is why a handle closed under a client (`CursorSendFails`)
breaks it.  A call into the queue disturbs at most the message and the handle it
is given (`Calm`), which are the session's own; what the others hold is carried
over once for all commands (`Exchange`), and most commands only let go of
something (`Shed`).

The refinement of `MessageQueue` (`PromiseInv`) needs the order of what is on disk.
The contract's `accepted` is `KeptInOrder`, the messages that have a record not
marked as purged, in the order of their files and of their places there.  It is
not put together by a recursion but chosen: a list of that set in that order.
There is one at most, since a message is on disk once (`KeptIs`), and that there
is one (`RecordsListed`) is part of the invariant: each step leaves the list as it
is, adds one message at its end or takes one out (`SameList`, `LongerList`,
`ShorterList`).  So no induction over the files is needed.  While the server runs,
what is on disk can be read off the index (`KeptIsIndexed`), whose order is that of
writing; then the entry a search returns is the first that is available
(`FirstVisibleIsFirst`), and one retrieved while it is visible is held by nobody.
`HiddenInv` adds that what is being removed is hidden and that recovery begins with
nothing hidden.  What a command does to the contract's state is shown by a few
lemmas (`Unseen`, `Revealed`, `Consumed`, `Abandoned`, `WasServed`, `NewEntry`,
`NewTask`), which cover the outcomes of all commands.

The invariant of QueueWait adds that a thread that comes to where it enters what
it wants in the waitset wants an id.

The invariant of Lifecycle, `LifeInv`, is about places in the programs of the main
thread and of its handlers, so what each step of these is must be known for every
number of forwarding threads first (`MainIs`, `SigintIs`).  Only one of the main
thread and its handlers is between the two calls of the mutex of the log
(`LogInv`), though any of them may be interrupted there: a handler that comes to
the mutex then waits for ever, as `NeverStuck` shows.  The main thread is behind
the join of a forwarding thread only if that thread has ended, and behind all
joins when the array goes (`ArrayInv`); a thread that ended is started by nobody,
as all starts come before.

The invariant of RecordFile, `RecordInv`, has a part for the file and a part for
what clients were told.  A record may be torn, and recovery stops at the first
torn record: of two records of one message the first must be torn, since what a
failed stream still holds is written again behind it (`RepeatedTorn`, `LeftInv`),
every record of a message in the index but the one it has is out of recovery's
sight (`EntryFirst`), and so is every record of an erased message that is not
marked, but where marking failed (`ErasedGone`).  What has an open cursor has an
entry (`Cursors`), so that each removal takes one off the count.  A message accepted before the first fault is safe because
nothing torn, and no entry without a record, comes before it (`Kept`); that such
an entry is not in front of it needs that nothing is amiss before the first
fault (`Flawless`).

The invariant of SecurityControl, `Inv` (SecurityControlProofs), says of the
files what `ListsClosed` says of memory, because a restart makes the one out of
the other, that lists and files have single entries, and that a session at work
has logged in.  One lemma for each operation of the lists shows that it keeps them
sound (`Sound`); the constructor is the longest of them.  A cut file has some of
the lines of a sound one, which keeps entries single but not the lists closed.
For the rights, `RightsInv` adds that files and lists agree while nobody has
changed them since the last store (`Agreed`), that an overlap ends with the last
of its stores (`Settled`), and what a command may change between two stores
(`OneChange`): either one list only, or several that all shrink (`Narrow`).  So a
file that mixes lines of before and after gives no right that neither gives.  An
identity command changes none of the lists, so its store alone leaves files that
agree; with one cut file or two the result is such a mixture (`CutOnceSound`).

The invariant of QManager (QManagerProofs) adds to the three properties that no
two names share a queue, that a queue in the table is allocated unless its
deletion is under way, and that the purger keeps `mtx` until it has finished
with the queue's file.  The count must be exact because deletion goes by it: a
queue with a count of zero has no handle, since the set of its handles is empty.
This part needs nothing of the cache, only that no operation on a file changes
the table.

For the streams, `StreamInv` adds that operations on files are on queues that
stay, one at a time on each, that the cache has one entry for a name and one for
a stream, that a stream in use which it has is under the name of its user's queue
and marked in use, and that an entry marked so has a user unless its stream has
failed.  What `get()`, `release()` and `remove()` do to the sequence of entries is
shown first (`GetGiven`, `ReleaseLetsGo`, `RemoveRemoves`): `get()` closes or gives
away no stream but that of the name itself or one not in use (`Disposable`).  For
the records, `RecordInv` says to which queue an inode belongs (`Belongs`): by the
directory, or by a stream on it that the cache keeps under the queue's name or an
operation on the queue uses.  The directory alone will not do, because of streams
on unlinked files.  An inode belongs to one queue, no message is in two inodes, and
what is being appended is nowhere yet.

The invariant of Forwarding (ForwardingProofs) says that the queue and the
threads together have each message once: it is in the queue, or in the hand of
one thread, which has removed it.  `Accounted` and `AtMostOnce` alone are not
inductive: two threads with the same message could deliver it twice.  Two of its
steps are proved once for all actions: a message that stays under way keeps the
accounts, a message that ends its way closes its own.

The invariant of ClientConnection, `Inv` (ClientConnectionProofs), has a part for
each session, `SessionInv`: what its connection and thread leave it (`Lifeline`),
what the command being served has in hand (`InHand`), what the entries of its
transaction hold (`Books`), what has become of the messages its client sends
(`Sender`) and is being told it removed (`Winner`), and how the client's view goes
with the state of the session at each stage of each call (`Dialogue`, `Ledger`).
The four properties only show between calls or at their end; while a commit goes
entry by entry, `Ledger` says that the entries left are some of those the client
expects, and `Sender` that what it sent is on the queue, entry or not, exactly as
its call is going to report.  `Apart` says that no two sessions send the same
message or gain the same removal, so that a step of one session leaves the
invariant of the others alone (`Bystander`, proved once for all actions).  A step
of a thread is shown by what it does to the books (`WorkInv`), and the four ways
to settle an entry, in a commit, a rollback, the close of a queue and the end of a
session, by one lemma (`EntryGone`).

Only model-checked: `KeepsPromise` where answers to RETRIEVE_CURSOR are lost, for
one message (run LostResponse); with two the code does not keep it (above), so
the theorem cannot do without its condition.  Also everything of Protocol, which compares tables
that are written out, so that little is left to prove for all values, and whose
layouts are folded from them; and liveness (`BoundedRequestEnds`, `Forwarded`,
`StopEnds`), which is out of the prover's reach.

## Not modelled

- Statistics, logging, configuration, wrappers of the platform, tools and tests:
  input and output that decides nothing.
- What enumerations list and identities by certificate decide (their bytes are in
  Protocol, the storing they cause in SecurityControl), the data race on their map,
  the rights of temporary queues.
- A cache of size zero, which writes in front of an array: undefined.
- The contents of a message's body.
- The Windows branches (events, services) and the parsing of urls.
- The PHP extension and `safmqclient`, built on the C++ library, and the Windows tools
  that use it.
- Requests no library makes, and commands before the log-in, which the libraries
  do not send.

## Plan

What is left, in this order:

1. RETRIEVE_ID and SEEK_ID as commands of a session, with the handles they leak
   or close twice.
2. Relay as a call of a client, which takes two handles in a session.
3. The counters of `Stats.cpp` and their windows of time.

## Running

    tlc -config QStorage.cfg QStorageMC
    tlc -config KeepsPromise.cfg TransactionManagerMC
    tlc -config QManager.cfg QManagerMC
    tlc -config Protocol.cfg ProtocolMC
    tlc -config StaleStream.cfg QManagerMC      (one of those run by hand)
    tlapm TransactionManagerProofs.tla
    tlapm ThreadProofs.tla
    tlapm ClientConnectionProofs.tla
    tlapm RecordFileProofs.tla
    tlapm SecurityControlProofs.tla
    tlapm QManagerProofs.tla
    tlapm ForwardingProofs.tla
