------------------------------ MODULE QStorage ------------------------------
(***************************************************************************)
(* One message queue: QStorage in src/QStorage.cpp, its in-memory index,   *)
(* the open cursors, and the storage files the messages are kept in.       *)
(*                                                                         *)
(* Every public operation holds the queue's mutex qmtx from its first      *)
(* statement to its last, so each is one action, but for those a crash may *)
(* cut in two: recover() and TTLPurge() go through the queue entry by      *)
(* entry, and whoever removes a message first marks its record and then    *)
(* erases its entry.  No other operation is enabled in between.            *)
(*                                                                         *)
(* A crash is the death of the server's process: what was handed to the    *)
(* operating system stays.  Every stream is flushed when it is released    *)
(* (StreamCache::release), so no record or mark is lost with the process.  *)
(*                                                                         *)
(* Next lets any caller pass any handle.  The callers in src/ are modelled *)
(* in TransactionManager; what holds here holds however they behave.       *)
(***************************************************************************)
EXTENDS IndexQueue

CONSTANTS
    Ids,        \* the ids messages may answer
    ReciptID,   \* the id each message answers
    TTLMsgs,    \* the messages with TimeToLiveSeconds > 0
    FileLimit,  \* maxfilesize, in records
    MaxFile,    \* bound: file ids the model has room for
    MaxHandle   \* bound: cursor handles the model has room for

ASSUME StorageAssumption ==
    /\ ReciptID \in [Msgs -> Ids]
    /\ TTLMsgs \subseteq Msgs
    /\ FileLimit \in Nat \ {0}
    /\ MaxFile \in Nat
    /\ MaxHandle \in Nat

Handles == 0 .. MaxHandle
FileIds == 0 .. MaxFile

VARIABLES
    mode,             \* what holds the queue: nothing, or an unfinished operation
    index,            \* the entries of the index, in order
    hidden,           \* the entries with the Purged flag of the index set
    begin,            \* the position of m_begin
    cursors,          \* handle -> cursor
    place,            \* FileID and DataOffset of an entry
    files,            \* file id -> its records; <<>> when there is no file
    fileutilization,  \* file id -> count of messages kept in it
    currentfileid,    \* the file new records go to
    hasTTL,           \* some message of the queue may expire
    expired,          \* the messages whose time to live has passed
    reading,          \* the next record recover_file() reads
    purgeAt,          \* the entry TTLPurge() visits next
    removing          \* the handle on the message being removed

storageVars == <<files, place, fileutilization, currentfileid>>
memoryVars  == <<index, hidden, begin, cursors>>
ttlVars     == <<hasTTL, expired, purgeAt>>
scanVars    == <<reading, removing>>
vars == <<mode, memoryVars, storageVars, ttlVars, scanVars>>

Records == [msg : Msgs, state : {"live", "purged"}]

Places == [file : FileIds, offset : Nat]

OnDisk(m) == \E f \in FileIds : \E i \in DOMAIN files[f] : files[f][i].msg = m

Init ==
    /\ mode = "running"
    /\ index = <<>>
    /\ hidden = {}
    /\ begin = End
    /\ cursors = [h \in Handles |-> Closed]
    /\ place = [m \in Msgs |-> [file |-> 0, offset |-> 0]]
    /\ files = [f \in FileIds |-> <<>>]
    /\ fileutilization = [f \in FileIds |-> 0]
    /\ currentfileid = 0
    /\ hasTTL = FALSE
    /\ expired = {}
    /\ reading = [file |-> 0, offset |-> 1]
    /\ purgeAt = End
    /\ removing = 0
-----------------------------------------------------------------------------
(* Cursors.                                                                *)

OpenHandles == {h \in Handles : cursors[h] # Closed}

(* Mutant of NextCursorID: the number of open cursors.                     *)
CountedCursorID == Cardinality(OpenHandles)

NextCursorID == IF OpenHandles = {} THEN 0 ELSE Max(OpenHandles) + 1

Where(h) == IF cursors[h] = Tied THEN begin ELSE cursors[h]

(* testCursor() answers EC_NOERROR.                                        *)
Usable(h) == Where(h) \in Msgs

IsVisible(m) == m \notin hidden

FirstVisible == FirstFrom(index, Foremost(index), IsVisible)

(* Mutant of FreshCursor: the hidden entries are not passed over.          *)
CursorAtBegin == Tied

(* The cursor of openCursor(): a copy of m_begin that is moved past the    *)
(* hidden entries, and shares m_begin's position if it never had to move.  *)
FreshCursor == IF FirstVisible = Foremost(index) THEN Tied ELSE FirstVisible

(* index.begin() resets m_begin, and with it every tied cursor.            *)
ResetBegin == begin' = Foremost(index)

Register(c) ==
    /\ NextCursorID \in Handles
    /\ cursors' = [cursors EXCEPT ![NextCursorID] = c]

FirstWithID(id, p) == FirstFrom(index, p, LAMBDA m : ReciptID[m] = id)

OpenCursor ==
    /\ mode = "running"
    /\ ResetBegin
    /\ Register(FreshCursor)
    /\ UNCHANGED <<mode, index, hidden, storageVars, ttlVars, scanVars>>

CloseCursor(h) ==
    /\ mode = "running"
    /\ cursors[h] # Closed
    /\ cursors' = [cursors EXCEPT ![h] = Closed]
    /\ UNCHANGED <<mode, index, hidden, begin, storageVars, ttlVars, scanVars>>

AdvanceCursor(h) ==
    /\ mode = "running"
    /\ Usable(h)
    /\ cursors' = [cursors EXCEPT ![h] = Successor(index, Where(h))]
    /\ UNCHANGED <<mode, index, hidden, begin, storageVars, ttlVars, scanVars>>

CursorCopy(dest, src) ==
    /\ mode = "running"
    /\ Usable(src)
    /\ cursors[dest] # Closed
    /\ Where(dest) # Invalid
    /\ cursors' = [cursors EXCEPT ![dest] = cursors[src]]
    /\ UNCHANGED <<mode, index, hidden, begin, storageVars, ttlVars, scanVars>>

SeekID(id, h) ==
    /\ mode = "running"
    /\ Usable(h)
    /\ FirstWithID(id, Where(h)) \notin {End, Where(h)}
    /\ cursors' = [cursors EXCEPT ![h] = FirstWithID(id, Where(h))]
    /\ UNCHANGED <<mode, index, hidden, begin, storageVars, ttlVars, scanVars>>

(* PeekFront(), PeekID() and a BeginRetrieve() or WaitForID() that finds   *)
(* nothing close the cursor they open again.                               *)
PeekFront ==
    /\ mode = "running"
    /\ ResetBegin
    /\ UNCHANGED <<mode, index, hidden, cursors, storageVars, ttlVars, scanVars>>
-----------------------------------------------------------------------------
(* Storing a message.                                                      *)

Enqueue(m) ==
    /\ mode = "running"
    /\ ~ OnDisk(m)
    /\ currentfileid \in FileIds
    /\ Register(m)
    /\ LET s == Append(files[currentfileid], [msg |-> m, state |-> "live"])
       IN  /\ files' = [files EXCEPT ![currentfileid] = s]
           /\ place' = [place EXCEPT ![m] = [file |-> currentfileid, offset |-> Len(s)]]
           /\ currentfileid' = IF Len(s) > FileLimit THEN currentfileid + 1
                                                     ELSE currentfileid
    /\ fileutilization' = [fileutilization EXCEPT ![currentfileid] = @ + 1]
    /\ index' = Insert(index, m)
    /\ hidden' = hidden \cup {m}
    /\ hasTTL' = (hasTTL \/ m \in TTLMsgs)
    /\ expired' = expired \ {m}
    /\ UNCHANGED <<mode, begin, purgeAt, scanVars>>

(* FinalizeEnqueue() and CancelRetrieve() both make the entry visible and  *)
(* close the cursor; the wake-ups they send are the subject of QueueWait.  *)
Reveal(h) ==
    /\ mode = "running"
    /\ Where(h) \in Msgs
    /\ hidden' = hidden \ {Where(h)}
    /\ cursors' = [cursors EXCEPT ![h] = Closed]
    /\ UNCHANGED <<mode, index, begin, storageVars, ttlVars, scanVars>>

FinalizeEnqueue(h) == Reveal(h)
CancelRetrieve(h)  == Reveal(h)
-----------------------------------------------------------------------------
(* Removing a message.                                                     *)

(* Mutant of MarkPurged: the stream is left at its end.                    *)
MarkLast(f, i) == [files[f] EXCEPT ![Len(files[f])].state = "purged"]

(* statMessage() writes the header at the entry's FileID and DataOffset.   *)
MarkPurged(f, i) == [files[f] EXCEPT ![i].state = "purged"]

MarkMessage(m) ==
    /\ files' = [files EXCEPT ![place[m].file] = MarkPurged(place[m].file, place[m].offset)]
    /\ hidden' = hidden \cup {m}
    /\ UNCHANGED <<index, begin, cursors, place, fileutilization, currentfileid>>

EraseEntry(m) ==
    /\ index' = Erase(index, m)
    /\ hidden' = hidden \ {m}
    /\ begin' = Invalidated(begin, m)
    /\ UNCHANGED <<place, currentfileid>>

(* Mutant of EraseMessage: the message is not taken off its file's count.  *)
EraseUncounted(m) == EraseEntry(m) /\ UNCHANGED <<files, fileutilization>>

EraseMessage(m) ==
    LET f == place[m].file
    IN  /\ fileutilization' = [fileutilization EXCEPT ![f] = @ - 1]
        /\ files' = IF fileutilization'[f] <= 0 THEN [files EXCEPT ![f] = <<>>] ELSE files
        /\ EraseEntry(m)

(* Mutants of InvalidateAll: erasing an entry invalidates no cursor; or,   *)
(* like erasing from a deque, all of them.                                 *)
InvalidateNone(m) == cursors
InvalidateEvery(m) == [h \in Handles |-> IF cursors[h] \in Msgs THEN Invalid ELSE cursors[h]]

InvalidateAll(m) == [h \in Handles |-> Invalidated(cursors[h], m)]

(* The first half, statMessage().                                          *)
Consume(h) ==
    /\ mode = "running"
    /\ Usable(h)
    /\ mode' = "removing"
    /\ removing' = h
    /\ MarkMessage(Where(h))
    /\ UNCHANGED <<ttlVars, reading>>

(* The second half: the count, the file, the entry and the cursor.         *)
FinishRemoval ==
    /\ mode = "removing"
    /\ mode' = "running"
    /\ EraseMessage(Where(removing))
    /\ cursors' = [InvalidateAll(Where(removing)) EXCEPT ![removing] = Closed]
    /\ removing' = 0
    /\ UNCHANGED <<ttlVars, reading>>

CancelEnqueue(h)    == Consume(h)
FinalizeRetrieve(h) == Consume(h)
-----------------------------------------------------------------------------
(* Handing a message out: the entry is hidden until the retrieval is       *)
(* finalized or cancelled.                                                 *)

BeginRetrieve ==
    /\ mode = "running"
    /\ ResetBegin
    /\ FirstVisible # End
    /\ Register(FreshCursor)
    /\ hidden' = hidden \cup {FirstVisible}
    /\ UNCHANGED <<mode, index, storageVars, ttlVars, scanVars>>

(* The seek starts at the first visible entry but may stop at a hidden     *)
(* one: the retrieval then fails and its cursor stays open.                *)
BeginRetrieveID(id) ==
    LET m == FirstWithID(id, FirstVisible)
    IN  /\ mode = "running"
        /\ ResetBegin
        /\ m # End
        /\ Register(IF m = Foremost(index) THEN Tied ELSE m)
        /\ hidden' = hidden \cup {m}
        /\ UNCHANGED <<mode, index, storageVars, ttlVars, scanVars>>

(* WaitForID() returns a cursor on the message it found.                   *)
WaitForID(id) ==
    LET m == FirstWithID(id, FirstVisible)
    IN  /\ mode = "running"
        /\ ResetBegin
        /\ m # End
        /\ Register(IF m = Foremost(index) THEN Tied ELSE m)
        /\ UNCHANGED <<mode, index, hidden, storageVars, ttlVars, scanVars>>

(* Mutant of BeginRetrieveCursor: a message already handed out is not      *)
(* refused.                                                                *)
RetrieveAnyway(h) ==
    /\ mode = "running"
    /\ Usable(h)
    /\ hidden' = hidden \cup {Where(h)}
    /\ UNCHANGED <<mode, index, begin, cursors, storageVars, ttlVars, scanVars>>

BeginRetrieveCursor(h) ==
    /\ mode = "running"
    /\ Usable(h)
    /\ Where(h) \notin hidden
    /\ hidden' = hidden \cup {Where(h)}
    /\ UNCHANGED <<mode, index, begin, cursors, storageVars, ttlVars, scanVars>>
-----------------------------------------------------------------------------
(* Expiry.                                                                 *)

(* Time passes: the time to live of m is over.                             *)
Age(m) ==
    /\ mode = "running"
    /\ m \in TTLMsgs \cap Range(index)
    /\ expired' = expired \cup {m}
    /\ UNCHANGED <<mode, memoryVars, storageVars, hasTTL, purgeAt, scanVars>>

(* Mutant of BeginTTLPurge: m_begin is used as the last operation left it. *)
PurgeFromOldBegin ==
    /\ mode = "running"
    /\ hasTTL
    /\ mode' = "purging"
    /\ hasTTL' = FALSE
    /\ purgeAt' = begin
    /\ UNCHANGED <<memoryVars, storageVars, expired, scanVars>>

BeginTTLPurge ==
    /\ mode = "running"
    /\ hasTTL
    /\ mode' = "purging"
    /\ hasTTL' = FALSE
    /\ ResetBegin
    /\ purgeAt' = Foremost(index)
    /\ UNCHANGED <<index, hidden, cursors, storageVars, expired, scanVars>>

(* Mutant of PurgeExpired: hidden messages expire too.                     *)
PurgeHidden ==
    /\ mode = "purging"
    /\ purgeAt \in expired
    /\ mode' = "expiring"
    /\ MarkMessage(purgeAt)
    /\ UNCHANGED <<ttlVars, scanVars>>

PurgeExpired ==
    /\ mode = "purging"
    /\ purgeAt \in expired \ hidden
    /\ mode' = "expiring"
    /\ MarkMessage(purgeAt)
    /\ UNCHANGED <<ttlVars, scanVars>>

EraseExpired ==
    /\ mode = "expiring"
    /\ mode' = "purging"
    /\ EraseMessage(purgeAt)
    /\ cursors' = InvalidateAll(purgeAt)
    /\ purgeAt' = Successor(index, purgeAt)
    /\ UNCHANGED <<hasTTL, expired, scanVars>>

PurgeSkip ==
    /\ mode = "purging"
    /\ purgeAt \in Msgs \ (expired \ hidden)
    /\ hasTTL' = (hasTTL \/ purgeAt \in TTLMsgs \ hidden)
    /\ purgeAt' = Successor(index, purgeAt)
    /\ UNCHANGED <<mode, memoryVars, storageVars, expired, scanVars>>

EndTTLPurge ==
    /\ mode = "purging"
    /\ purgeAt = End
    /\ mode' = "running"
    /\ UNCHANGED <<memoryVars, storageVars, ttlVars, scanVars>>
-----------------------------------------------------------------------------
(* The process dies, and recovers the queue from its files.                *)

Crash ==
    /\ mode' = "recovering"
    /\ index' = <<>>
    /\ hidden' = {}
    /\ begin' = End
    /\ cursors' = [h \in Handles |-> Closed]
    /\ fileutilization' = [f \in FileIds |-> 0]
    /\ currentfileid' = 0
    /\ hasTTL' = FALSE
    /\ purgeAt' = End
    /\ reading' = [file |-> 0, offset |-> 1]
    /\ removing' = 0
    /\ UNCHANGED <<place, files, expired>>

RecoverRecord ==
    LET f == reading.file
        r == files[f][reading.offset]
    IN  /\ mode = "recovering"
        /\ f \in FileIds
        /\ reading.offset \in DOMAIN files[f]
        /\ currentfileid' = f
        /\ reading' = [reading EXCEPT !.offset = @ + 1]
        /\ IF r.state = "live"
           THEN /\ index' = Insert(index, r.msg)
                /\ place' = [place EXCEPT ![r.msg] = reading]
                /\ fileutilization' = [fileutilization EXCEPT ![f] = @ + 1]
                /\ hasTTL' = (hasTTL \/ r.msg \in TTLMsgs)
           ELSE UNCHANGED <<index, place, fileutilization, hasTTL>>
        /\ UNCHANGED <<mode, hidden, begin, cursors, files, expired, purgeAt, removing>>

(* Mutant of RecoverNextFile: the first file that is missing ends it.      *)
RecoverUpToGap ==
    /\ mode = "recovering"
    /\ reading.file \in FileIds
    /\ reading.offset \notin DOMAIN files[reading.file]
    /\ reading' = [file |-> IF files[reading.file] = <<>> THEN MaxFile + 1
                                                         ELSE reading.file + 1,
                   offset |-> 1]
    /\ UNCHANGED <<mode, memoryVars, storageVars, ttlVars, removing>>

RecoverNextFile ==
    /\ mode = "recovering"
    /\ reading.file \in FileIds
    /\ reading.offset \notin DOMAIN files[reading.file]
    /\ reading' = [file |-> reading.file + 1, offset |-> 1]
    /\ UNCHANGED <<mode, memoryVars, storageVars, ttlVars, removing>>

Recovered ==
    /\ mode = "recovering"
    /\ reading.file \notin FileIds
    /\ mode' = "running"
    /\ UNCHANGED <<memoryVars, storageVars, ttlVars, scanVars>>
-----------------------------------------------------------------------------
CursorOperation ==
    \/ OpenCursor
    \/ PeekFront
    \/ BeginRetrieve
    \/ \E id \in Ids : BeginRetrieveID(id) \/ WaitForID(id)
    \/ \E h \in Handles :
          \/ CloseCursor(h)
          \/ AdvanceCursor(h)
          \/ BeginRetrieveCursor(h)
          \/ FinalizeEnqueue(h)
          \/ CancelRetrieve(h)
          \/ CancelEnqueue(h)
          \/ FinalizeRetrieve(h)
          \/ \E src \in Handles : CursorCopy(h, src)
          \/ \E id \in Ids : SeekID(id, h)

Recovery == RecoverRecord \/ RecoverNextFile \/ Recovered

Expiry ==
    \/ BeginTTLPurge
    \/ PurgeExpired
    \/ EraseExpired
    \/ PurgeSkip
    \/ EndTTLPurge
    \/ \E m \in Msgs : Age(m)

Next ==
    \/ CursorOperation
    \/ \E m \in Msgs : Enqueue(m)
    \/ FinishRemoval
    \/ Expiry
    \/ Crash
    \/ Recovery

Spec == Init /\ [][Next]_vars
-----------------------------------------------------------------------------
(* Properties.                                                             *)

(* Every variable keeps its type: no operation, given whatever handle,     *)
(* takes a position, a record or a count out of its range.                 *)
TypeOK ==
    /\ mode \in {"running", "recovering", "purging", "removing", "expiring"}
    /\ index \in Seq(Msgs)
    /\ hidden \in SUBSET Msgs
    /\ begin \in Positions
    /\ cursors \in [Handles -> Cursors \cup {Closed}]
    /\ place \in [Msgs -> Places]
    /\ files \in [FileIds -> Seq(Records)]
    /\ fileutilization \in [FileIds -> Int]
    /\ currentfileid \in 0 .. MaxFile + 1
    /\ hasTTL \in BOOLEAN
    /\ expired \in SUBSET TTLMsgs
    /\ reading \in [file : 0 .. MaxFile + 1, offset : Nat]
    /\ purgeAt \in Msgs \cup {End}
    /\ removing \in Handles

(* The message whose record is marked and whose entry is not yet erased.   *)
Leaving ==
    CASE mode = "removing" -> {Where(removing)}
      [] mode = "expiring" -> {purgeAt}
      [] OTHER -> {}

StoredIn(f) == {m \in Range(index) : place[m].file = f}

(* The count kept of each file is the number of its messages still in the  *)
(* index, whatever was enqueued, cancelled, retrieved, expired or          *)
(* recovered: it decides when the file is deleted (fileutilization).       *)
UtilizationExact ==
    \A f \in FileIds : fileutilization[f] = Cardinality(StoredIn(f))

(* Every entry of the index points at its own record, which is purged only *)
(* by the operation that removes the message: no other deletes or marks it *)
(* while it is in the index, and a deleted file that is written again does *)
(* not confuse the entries kept in it (FileID, DataOffset).                *)
EntryHasRecord ==
    \A m \in Range(index) :
        /\ place[m].file \in FileIds
        /\ place[m].offset \in DOMAIN files[place[m].file]
        /\ files[place[m].file][place[m].offset] =
              [msg |-> m, state |-> IF m \in Leaving THEN "purged" ELSE "live"]

(* Every record not purged has its entry, once recovery has read it: no    *)
(* message is on disk and missing from the queue (recover_file).           *)
RecordHasEntry ==
    mode # "recovering" =>
        \A f \in FileIds : \A i \in DOMAIN files[f] :
            files[f][i].state = "live" =>
                files[f][i].msg \in Range(index)
                /\ place[files[f][i].msg] = [file |-> f, offset |-> i]

WrittenBefore(m, n) ==
    \/ place[m].file < place[n].file
    \/ place[m].file = place[n].file /\ place[m].offset < place[n].offset

(* The index is in order of priority, and within a priority in the order   *)
(* the messages were written; recovery from the files restores that order  *)
(* (lower_bound, recover).                                                 *)
PriorityFifo == Ordered(index, WrittenBefore)

(* A cursor never stands on an entry that has been erased: it is on an     *)
(* entry of the index, at the end, or marked invalid (erase, invalidate).  *)
NoDanglingCursor ==
    \A p \in {begin, purgeAt} \cup {Where(h) : h \in OpenHandles} :
        p \in Range(index) \cup {End, Invalid}

LastEntryGoes(f) == StoredIn(f) # {} /\ StoredIn(f)' = {}
FileGoes(f) == files[f] # <<>> /\ files'[f] = <<>>

(* A storage file is deleted by the step that erases the last entry kept   *)
(* in it, and by no other (FinalizeRetrieve, CancelEnqueue, TTLPurge).     *)
FileGoesWithLast ==
    [][mode' # "recovering" => \A f \in FileIds : LastEntryGoes(f) <=> FileGoes(f)]_vars

(* An operation that does not touch a cursor leaves it where it is, unless *)
(* its entry is erased, provided the cursor has a position of its own.     *)
OwnCursorStable ==
    [][\A h \in Handles :
          cursors[h] \in Msgs /\ mode' # "recovering" =>
              \/ cursors'[h] = cursors[h]
              \/ cursors'[h] = Invalid /\ cursors[h] \notin Range(index')
              \/ cursors'[h] = Closed
              \/ AdvanceCursor(h)
              \/ \E src \in Handles : CursorCopy(h, src)
              \/ \E id \in Ids : SeekID(id, h)]_vars
=============================================================================
