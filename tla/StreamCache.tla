---------------------------- MODULE StreamCache ----------------------------
(***************************************************************************)
(* The cache of open file streams that all queues share                    *)
(* (src/StreamCache.h), with as much of the file system as decides what a  *)
(* stream reaches: a directory from paths to inodes.                       *)
(*                                                                         *)
(* A file name is a string: QStorage ends the names it builds with         *)
(* std::ends, QManager builds the same path without it.  Both designate    *)
(* the same file, and the cache compares the strings.                      *)
(***************************************************************************)
EXTENDS Naturals, FiniteSets, Sequences

CONSTANTS Paths,        \* paths of queue files
          Streams,      \* addresses of std::fstream objects
          Inodes,       \* files on the disk, whatever their names
          CacheSize,    \* entries of the cache (file_handle_cache_size)
          OpenMayFail,  \* may open() fail for want of descriptors?
          None          \* no file, no stream

ASSUME CacheAssumption ==
    /\ CacheSize \in Nat \ {0}
    /\ OpenMayFail \in BOOLEAN
    /\ None \notin Inodes /\ None \notin Streams
    /\ "freed" \notin Inodes /\ "failed" \notin Inodes

VARIABLES entries,  \* Seq of [name, stream, inuse, mode]
          stream,   \* what each stream object is: freed, failed, or open on an inode
          file      \* the directory: path -> inode or None

cacheVars == <<entries, stream, file>>

Name(path, ended) == [path |-> path, ended |-> ended]
Names == [path : Paths, ended : BOOLEAN]

(* The two ways QStorage opens a file: to read or mark a record, to append *)
ReadWrite == {"in", "out"}
AppendTo  == {"out", "app"}
Modes     == {ReadWrite, AppendTo}

CacheInit == /\ entries = <<>>
             /\ stream = [s \in Streams |-> "freed"]
             /\ file = [p \in Paths |-> None]

IsOpen(s)   == stream[s] \in Inodes
Cached      == {entries[i].stream : i \in DOMAIN entries}
Reachable   == {file[p] : p \in Paths} \cup {stream[s] : s \in Streams}
-----------------------------------------------------------------------------
(* std::fstream::open(): app creates the file, in|out wants it to exist.   *)
Open(path, mode, result) ==
    \/ /\ file[path] # None
       /\ result = file[path]
       /\ UNCHANGED file
    \/ /\ file[path] = None /\ "app" \in mode
       /\ result \in Inodes \ Reachable
       /\ file' = [file EXCEPT ![path] = result]
    \/ /\ \/ file[path] = None /\ "app" \notin mode
          \/ OpenMayFail
       /\ result = "failed"
       /\ UNCHANGED file

Holds(name)    == \E i \in DOMAIN entries : entries[i].name = name
Position(name) == CHOOSE i \in DOMAIN entries : entries[i].name = name

(* A found entry changes places with the one before it.                    *)
Moved(i) == IF i = 1 THEN entries
            ELSE [entries EXCEPT ![i] = entries[i - 1], ![i - 1] = entries[i]]
Before(i) == IF i = 1 THEN 1 ELSE i - 1

Covers(open, mode) == mode \cap ReadWrite \subseteq open

(* get() of a file in the cache whose open mode will do.                   *)
GetHit(name, mode, s) ==
    /\ Holds(name)
    /\ LET i == Position(name) IN
       /\ Covers(entries[i].mode, mode)
       /\ s = entries[i].stream
       /\ entries' = [Moved(i) EXCEPT ![Before(i)].inuse = TRUE]
    /\ UNCHANGED <<stream, file>>

(* get() of a file in the cache that must be opened again to be read.      *)
GetReopened(name, mode, s) ==
    /\ Holds(name)
    /\ LET i == Position(name)
           old == entries[i].stream IN
       /\ ~Covers(entries[i].mode, mode)
       /\ s = old \/ stream[s] = "freed"
       /\ \E result \in Inodes \cup {"failed"} :
             /\ Open(name.path, mode \ {"app"}, result)
             /\ stream' = [stream EXCEPT ![old] = "freed", ![s] = result]
       /\ entries' = [Moved(i) EXCEPT ![Before(i)].inuse = TRUE,
                                      ![Before(i)].stream = s,
                                      ![Before(i)].mode = ReadWrite]

(* Mutants of GetMissed: a cache one entry too large, an entry in use that *)
(* loses its stream, a replaced entry that keeps its file name.            *)
GetMissedTooMany(name, mode, s) ==
    /\ ~Holds(name)
    /\ LET full == Len(entries) > CacheSize
           last == entries[CacheSize]
           entry == [name |-> name, stream |-> s, inuse |-> TRUE, mode |-> mode] IN
       /\ stream[s] = "freed"
       /\ \E result \in Inodes \cup {"failed"} :
             /\ Open(name.path, mode, result)
             /\ stream' = [stream EXCEPT ![s] = result]
       /\ entries' = IF full THEN [entries EXCEPT ![CacheSize] = entry]
                     ELSE Append(entries, entry)

Evict(name, kept, mode, s, drop) ==
    LET last == entries[CacheSize]
        entry == [name |-> kept, stream |-> s, inuse |-> TRUE, mode |-> mode] IN
    /\ stream[s] = "freed" \/ (drop /\ s = last.stream)
    /\ \E result \in Inodes \cup {"failed"} :
          /\ Open(name.path, mode, result)
          /\ stream' = IF drop
                       THEN [stream EXCEPT ![last.stream] = "freed", ![s] = result]
                       ELSE [stream EXCEPT ![s] = result]
    /\ entries' = [entries EXCEPT ![CacheSize] = entry]

GetMissedEvictsUsed(name, mode, s) ==
    /\ ~Holds(name)
    /\ \/ Len(entries) < CacheSize /\ GetMissedTooMany(name, mode, s)
       \/ Len(entries) = CacheSize /\ Evict(name, name, mode, s, TRUE)

GetMissedKeepsName(name, mode, s) ==
    /\ ~Holds(name)
    /\ \/ Len(entries) < CacheSize /\ GetMissedTooMany(name, mode, s)
       \/ /\ Len(entries) = CacheSize
          /\ Evict(name, entries[CacheSize].name, mode, s, ~entries[CacheSize].inuse)

(* get() of a file that is not in the cache: a new entry, or the last one, *)
(* whose stream is left to its user when it is in use.                     *)
GetMissed(name, mode, s) ==
    /\ ~Holds(name)
    /\ LET full == Len(entries) = CacheSize
           last == entries[CacheSize]
           drop == full /\ ~last.inuse
           entry == [name |-> name, stream |-> s, inuse |-> TRUE, mode |-> mode] IN
       /\ stream[s] = "freed" \/ (drop /\ s = last.stream)
       /\ \E result \in Inodes \cup {"failed"} :
             /\ Open(name.path, mode, result)
             /\ stream' = IF drop
                          THEN [stream EXCEPT ![last.stream] = "freed", ![s] = result]
                          ELSE [stream EXCEPT ![s] = result]
       /\ entries' = IF full THEN [entries EXCEPT ![CacheSize] = entry]
                     ELSE Append(entries, entry)

Get(name, mode, s) == \/ GetHit(name, mode, s)
                      \/ GetReopened(name, mode, s)
                      \/ GetMissed(name, mode, s)

(* Mutant of Release: a stream the cache no longer knows is left open.     *)
ReleaseLeaks(s) ==
    /\ entries' = [i \in DOMAIN entries |->
                      IF entries[i].stream = s
                      THEN [entries[i] EXCEPT !.inuse = FALSE] ELSE entries[i]]
    /\ UNCHANGED <<stream, file>>

(* release(): a stream the cache no longer knows is closed.                *)
Release(s) ==
    /\ IF s \in Cached
       THEN /\ entries' = [i \in DOMAIN entries |->
                              IF entries[i].stream = s
                              THEN [entries[i] EXCEPT !.inuse = FALSE] ELSE entries[i]]
            /\ UNCHANGED stream
       ELSE /\ stream' = [stream EXCEPT ![s] = "freed"]
            /\ UNCHANGED entries
    /\ UNCHANGED file

(* remove(): drops the entry of the name and unlinks the path.             *)
Remove(name) ==
    /\ IF Holds(name)
       THEN LET i == Position(name) IN
            /\ stream' = IF entries[i].inuse THEN stream
                         ELSE [stream EXCEPT ![entries[i].stream] = "freed"]
            /\ entries' = SubSeq(entries, 1, i - 1)
                          \o SubSeq(entries, i + 1, Len(entries))
       ELSE UNCHANGED <<entries, stream>>
    /\ file' = [file EXCEPT ![name.path] = None]

-----------------------------------------------------------------------------
CacheTypeOK ==
    /\ entries \in Seq([name : Names, stream : Streams, inuse : BOOLEAN, mode : Modes])
    /\ Len(entries) <= CacheSize
    /\ stream \in [Streams -> Inodes \cup {"freed", "failed"}]
    /\ file \in [Paths -> Inodes \cup {None}]
=============================================================================
