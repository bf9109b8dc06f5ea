----------------------------- MODULE RecordFile -----------------------------
(***************************************************************************)
(* What a storage file holds when writes fail: the records of one file of  *)
(* a queue, the stream the cache keeps on it, and what the queue and its   *)
(* clients make of them (src/QStorage.cpp).  QStorage takes every record   *)
(* to be written whole; here the disk may be full, and the server may die  *)
(* while it writes.                                                        *)
(*                                                                         *)
(* A record is a header, the message and its body, written by three calls  *)
(* and a flush.  The nine bytes of the header are written whole or not at  *)
(* all; a record cut behind them has a torn "message" or a torn "body",    *)
(* and the next record follows directly.  Which call notices that the disk *)
(* is full depends on what the stream buffers, so it may be any.  A stream *)
(* that has failed stays so: nobody clears it.                             *)
(***************************************************************************)
EXTENDS Naturals, SequencesExt

CONSTANTS Msgs,
          MaxFaults   \* bound

ASSUME RecordAssumption == IsFiniteSet(Msgs) /\ MaxFaults \in Nat

VARIABLES
    file,     \* the records: [msg, part, purged], part the one that is torn
    stream,   \* the stream in the cache: its mode, is it good, what it still holds
    at,       \* the index: where the record of a message is, 0 if it has no entry
    hidden,   \* the entries marked Purged in memory
    util,     \* fileutilization of the file
    open,     \* the messages with an open cursor
    phase,    \* what a client is doing with a message
    told,     \* what the answers said of it
    early,    \* history: those accepted before any write failed
    phantom,  \* history: entries made of a record that was not written
    erased,   \* history: entries erased by a removal
    unmarked, \* history: those of them whose record is in the file as it was
    strayed,  \* history: was a handle used that was never set, or closed?
    faults

memoryVars  == <<at, hidden, util, open, phase>>
historyVars == <<early, phantom, erased, unmarked, strayed>>
recordVars  == <<file, stream, memoryVars, told, historyVars, faults>>

Whole           == "none"
Record(m, part) == [msg |-> m, part |-> part, purged |-> FALSE]
Opened(mode)    == [mode |-> mode, good |-> TRUE, left |-> {}]
NoStream        == Opened("none")

RecordInit ==
    /\ file = <<>> /\ stream = NoStream
    /\ at = [m \in Msgs |-> 0] /\ hidden = {} /\ util = 0 /\ open = {}
    /\ phase = [m \in Msgs |-> "free"]
    /\ told = [m \in Msgs |-> "nothing"]
    /\ early = {} /\ phantom = {} /\ erased = {} /\ unmarked = {} /\ strayed = FALSE
    /\ faults = 0

Fault == faults < MaxFaults /\ faults' = faults + 1

(* StreamCache::get(): a stream found is used as it is, good or not, but   *)
(* one that appends is opened again to read.                               *)
ToAppend == IF stream.mode = "none" THEN Opened("app") ELSE stream
ToRead   == IF stream.mode = "rw" THEN stream ELSE Opened("rw")
Failed(s) == [s EXCEPT !.good = FALSE]

Goto(m, p) == phase' = [phase EXCEPT ![m] = p]
Tell(m, what) == told' = [told EXCEPT ![m] = what]

(* The cursor that the handle kept for a message reaches.  One that was    *)
(* never set, or that was closed, is open nowhere or another's.            *)
Reached(m) == IF m \in open THEN {{m}} ELSE {{}} \cup {{o} : o \in open}
Stray(m, who) == strayed' = (strayed \/ \E o \in who : o # m)
-----------------------------------------------------------------------------
(* Enqueue(): the entry is hidden, the handle is the client's.             *)
Enter(m) ==
    /\ at' = [at EXCEPT ![m] = Len(file) + 1]
    /\ hidden' = hidden \cup {m}
    /\ util' = util + 1
    /\ open' = open \cup {m}
    /\ Goto(m, "stored")

(* Each message is stored once: a bound.                                   *)
IsNew(m) ==
    /\ phase[m] = "free" /\ told[m] = "nothing" /\ at[m] = 0 /\ m \notin erased
    /\ \A i \in DOMAIN file : file[i].msg # m

Refuse(m) == Tell(m, "refused") /\ UNCHANGED memoryVars

Enqueue(m) ==
    /\ IsNew(m)
    /\ stream' = ToAppend
    /\ \/ /\ ToAppend.good
          /\ file' = Append(file, Record(m, Whole))
          /\ Enter(m) /\ UNCHANGED told
       \/ /\ ~ToAppend.good
          /\ Refuse(m) /\ UNCHANGED file
    /\ UNCHANGED <<historyVars, faults>>

(* What is in the file of a record whose writing failed.                   *)
Torn(m) == {file, Append(file, Record(m, "message")), Append(file, Record(m, "body"))}

(* The write that fails may be that of header or message, which is told;   *)
(* that of the body: no entry, a handle that is not set, and EC_NOERROR;   *)
(* or the flush, whose outcome nobody looks at.                            *)
NoticedInMessage(m) == Refuse(m) /\ UNCHANGED phantom

(* Mutant of NoticedInBody: the entry is made all the same.                *)
EnteredThoughTorn(m) == Enter(m) /\ UNCHANGED <<told, phantom>>

NoticedInBody(m) == /\ Goto(m, "stored")
                    /\ UNCHANGED <<at, hidden, util, open, told, phantom>>

NotNoticed(m) == /\ Enter(m)
                 /\ phantom' = phantom \cup {m}
                 /\ UNCHANGED told

EnqueueFails(m) ==
    /\ IsNew(m) /\ Fault
    /\ ToAppend.good
    /\ \E left \in {{}, {m}} : stream' = [Failed(ToAppend) EXCEPT !.left = left]
    /\ file' \in Torn(m)
    /\ \/ NoticedInMessage(m) /\ file' # Append(file, Record(m, "body"))
       \/ NoticedInBody(m)
       \/ NotNoticed(m)
    /\ UNCHANGED <<early, erased, unmarked, strayed>>

(* What a failed stream still holds is written by a later flush of it, by  *)
(* release() or before it is closed, when the disk has space again.        *)
LateWrite ==
    /\ stream.left # {}
    /\ \E m \in stream.left : file' = Append(file, Record(m, Whole))
    /\ stream' = [stream EXCEPT !.left = {}]
    /\ UNCHANGED <<memoryVars, told, historyVars, faults>>

(* FinalizeEnqueue(), and the answer of ENQUEUE, which is EC_NOERROR       *)
(* whatever FinalizeEnqueue() found.                                       *)
FinalizeEnqueue(m) ==
    /\ phase[m] = "stored"
    /\ \E who \in Reached(m) : /\ hidden' = hidden \ who
                              /\ open' = open \ who
                              /\ Stray(m, who)
    /\ Goto(m, "free") /\ Tell(m, "queued")
    /\ early' = IF faults = 0 THEN early \cup {m} ELSE early
    /\ UNCHANGED <<file, stream, at, util, phantom, erased, unmarked, faults>>
-----------------------------------------------------------------------------
IsThere(i) == i \in DOMAIN file
IsLast(i)  == i = Len(file)
IsWhole(i) == IsThere(i) /\ file[i].part = Whole

(* What reading the record at i makes of a good stream.  Where a torn      *)
(* record is not the last, the next one is read for what is missing.       *)
ReadOutcomes(s, i) ==
    IF IsWhole(i) THEN {s}
    ELSE IF IsThere(i) /\ ~IsLast(i) THEN {s, Failed(s)}
    ELSE {Failed(s)}

(* BeginRetrieve() with peekCursor(): the answer is EC_NOERROR if there is *)
(* no good stream to read from, or only the body could not be read.        *)
Given(i) == \/ ~ToRead.good
            \/ IsWhole(i)
            \/ IsThere(i) /\ (file[i].part = "body" \/ ~IsLast(i))
Denied(i) == ToRead.good /\ (~IsThere(i) \/ (IsLast(i) /\ file[i].part = "message"))

BeginRetrieve(m) ==
    /\ phase[m] = "free" /\ at[m] # 0 /\ m \notin hidden
    /\ stream' \in IF ToRead.good THEN ReadOutcomes(ToRead, at[m]) ELSE {ToRead}
    /\ \/ /\ Given(at[m])
          /\ hidden' = hidden \cup {m} /\ open' = open \cup {m}
          /\ Goto(m, IF ToRead.good /\ IsWhole(at[m]) THEN "reading" ELSE "unread")
       \/ Denied(at[m]) /\ UNCHANGED <<hidden, open, phase>>
    /\ UNCHANGED <<file, at, util, told, historyVars, faults>>

CancelRetrieve(m) ==
    /\ phase[m] \in {"reading", "unread"}
    /\ \E who \in Reached(m) : /\ hidden' = hidden \ who
                              /\ open' = open \ who
                              /\ Stray(m, who)
    /\ Goto(m, "free")
    /\ UNCHANGED <<file, stream, at, util, told, early, phantom, erased, unmarked, faults>>

(* Mutant of EraseMessage: the count is not that of the entries.           *)
EraseTwice(m) ==
    /\ at' = [at EXCEPT ![m] = 0]
    /\ hidden' = hidden \ {m} /\ open' = open \ {m}
    /\ util' = IF util > 1 THEN util - 2 ELSE 0
    /\ erased' = erased \cup {m}

EraseMessage(m) ==
    /\ at' = [at EXCEPT ![m] = 0]
    /\ hidden' = hidden \ {m} /\ open' = open \ {m}
    /\ util' = util - 1
    /\ erased' = erased \cup {m}

Mark(i) == [file EXCEPT ![i].purged = TRUE]

(* What becomes of the file: it goes with the last entry, whatever else is *)
(* in it.  A record that is not marked stays live, its message gone from   *)
(* memory only.                                                            *)
DeleteFile ==
    /\ file' = <<>> /\ stream' = NoStream
    /\ unmarked' = {}

MarkRecord(m) ==
    /\ ToRead.good /\ IsThere(at[m])
    /\ file' = Mark(at[m]) /\ stream' = ToRead
    /\ unmarked' = unmarked \ {m}

LeaveRecord(m) ==
    /\ ~(ToRead.good /\ IsThere(at[m]))
    /\ stream' = Failed(ToRead)
    /\ unmarked' = unmarked \cup {m}
    /\ UNCHANGED file

(* FinalizeRetrieve() and CancelEnqueue(): statMessage() says whether the  *)
(* handle is that of a cursor, not whether the record was marked; with a   *)
(* cursor the entry is erased either way, and the answer is EC_NOERROR.    *)
RemoveMessage(m) ==
    /\ \E who \in Reached(m) :
          /\ Stray(m, who)
          /\ \/ /\ who = {}
                /\ UNCHANGED <<file, stream, at, hidden, util, open, erased, unmarked>>
             \/ \E o \in who :
                   /\ EraseMessage(o)
                   /\ \/ util' = 0 /\ DeleteFile
                      \/ util' # 0 /\ (MarkRecord(o) \/ LeaveRecord(o))
    /\ Goto(m, "free")
    /\ UNCHANGED <<early, phantom, faults>>

FinalizeRetrieve(m) ==
    /\ RemoveMessage(m)
    /\ \/ phase[m] = "reading" /\ Tell(m, "removed")
       \/ phase[m] = "unread" /\ Tell(m, "unseen")

CancelEnqueue(m) == phase[m] = "stored" /\ RemoveMessage(m) /\ UNCHANGED told

(* Another file takes the place of this one in the cache.                  *)
Replaced ==
    /\ stream.mode # "none"
    /\ stream' = NoStream
    /\ UNCHANGED <<file, memoryVars, told, historyVars, faults>>
-----------------------------------------------------------------------------
(* recover_file(): a torn record ends it.  The record is still taken if    *)
(* its message was read, be it with bytes of the next one.                 *)
Live(f, last) == {i \in 1 .. last : ~f[i].purged}

(* Mutant of Recovered: purged records are taken.                          *)
RecoveredPurged(f) == {1 .. Len(f)}

Recovered(f) ==
    LET cut == {i \in DOMAIN f : f[i].part # Whole} IN
    IF cut = {} THEN {Live(f, Len(f))}
    ELSE LET i == Min(cut) IN
         (IF f[i].part = "body" \/ i < Len(f) THEN {Live(f, i)} ELSE {})
         \cup (IF f[i].part = "message" THEN {Live(f, i - 1)} ELSE {})

Recover(f) ==
    /\ \E taken \in Recovered(f) :
          /\ at' = [m \in Msgs |-> IF \E i \in taken : f[i].msg = m
                                   THEN CHOOSE i \in taken : f[i].msg = m ELSE 0]
          /\ util' = Cardinality(taken)
    /\ file' = f
    /\ hidden' = {} /\ open' = {}
    /\ phase' = [m \in Msgs |-> "free"]
    /\ stream' = NoStream
    /\ phantom' = {}
    /\ UNCHANGED <<told, early, erased, unmarked, strayed>>

(* The server starts again; it may have died while it wrote a record.      *)
Restart == Recover(file) /\ UNCHANGED faults

DiesInEnqueue(m) ==
    /\ IsNew(m) /\ Fault /\ ToAppend.good
    /\ \E f \in Torn(m) \cup {Append(file, Record(m, Whole))} : Recover(f)

RecordNext ==
    \/ \E m \in Msgs :
          \/ Enqueue(m) \/ EnqueueFails(m) \/ FinalizeEnqueue(m) \/ CancelEnqueue(m)
          \/ BeginRetrieve(m) \/ CancelRetrieve(m) \/ FinalizeRetrieve(m)
          \/ DiesInEnqueue(m)
    \/ LateWrite \/ Replaced \/ Restart

RecordSpec == RecordInit /\ [][RecordNext]_recordVars
-----------------------------------------------------------------------------
(* Properties *)

Removed == {"removed", "unseen"}

RecordTypeOK ==
    /\ file \in Seq([msg : Msgs, part : {Whole, "message", "body"}, purged : BOOLEAN])
    /\ stream \in [mode : {"none", "app", "rw"}, good : BOOLEAN, left : SUBSET Msgs]
    /\ at \in [Msgs -> Nat]
    /\ util = Cardinality({m \in Msgs : at[m] # 0})
    /\ hidden \cup open \cup phantom \cup early \cup erased \cup unmarked \subseteq Msgs
    /\ phase \in [Msgs -> {"free", "stored", "reading", "unread"}]
    /\ told \in [Msgs -> {"nothing", "refused", "queued"} \cup Removed]
    /\ strayed \in BOOLEAN /\ faults \in 0 .. MaxFaults

(* What was accepted before any write failed stays in the queue until its  *)
(* removal is acknowledged, whatever fails or dies later, unless a handle  *)
(* that was never set happens to be that of its cursor.                    *)
KeptBefore ==
    ~strayed => \A m \in early :
        \/ told[m] \in Removed
        \/ at[m] # 0 /\ IsThere(at[m]) /\ file[at[m]] = Record(m, Whole)

(* Types; a message gets no other's record: entry and file stay in step    *)
(* over failures that are noticed, and over restarts whatever has failed.  *)
OwnRecord ==
    /\ RecordTypeOK
    /\ \A m \in Msgs \ phantom :
           at[m] # 0 => IsThere(at[m]) /\ file[at[m]].msg = m

(* A removal is for good where it marked the record or deleted the file,   *)
(* whatever fails, is written late or read back later; and while no write  *)
(* has failed, every removal does.                                         *)
ErasedStays ==
    /\ \A m \in erased \ unmarked : at[m] = 0
    /\ faults = 0 => unmarked = {}

(* "Places a message on the queue. ... EC_NOERROR on success"              *)
AnsweredQueued == \A m \in Msgs : told[m] = "queued" => at[m] # 0

(* "Note: Retrieved messages are removed from the queue": they are not     *)
(* there to be read again.                                                 *)
AckRemoves == \A m \in Msgs : told[m] \in Removed => at[m] = 0 \/ m \in hidden

(* "the resulting message is placed in msg": no message is removed by a    *)
(* client that was given an empty one for it.                              *)
GivenBeforeErased ==
    \A m \in early : told[m] = "unseen" => m \notin erased
=============================================================================
