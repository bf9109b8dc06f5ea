-------------------------- MODULE RecordFileProofs --------------------------
(***************************************************************************)
(* Proofs that failed writes and crashes confuse no entries of a storage   *)
(* file, for any number of messages and of faults.                         *)
(*                                                                         *)
(* What makes the properties inductive is the torn record.  Behind it,     *)
(* recovery reads nothing: so a message may be in the file twice, if its   *)
(* first record is torn (RepeatedTorn), an erased message may be there     *)
(* live, if a torn record is before it (ErasedGone) or its record could    *)
(* not be marked (unmarked), and what was accepted before the first fault  *)
(* is safe, because no torn record and no entry without a record comes     *)
(* before it (Kept).                                                       *)
(***************************************************************************)
EXTENDS RecordFile, SequenceTheorems, FiniteSetTheorems, WellFoundedInduction, TLAPS

RecordSet == [msg : Msgs, part : {Whole, "message", "body"}, purged : BOOLEAN]
StreamSet == [mode : {"none", "app", "rw"}, good : BOOLEAN, left : SUBSET Msgs]
Entries   == {m \in Msgs : at[m] # 0}

TornAt(f, i) == f[i].part # Whole
TornBefore(f, i) == \E k \in DOMAIN f : k < i /\ TornAt(f, k)

(* What a failed stream holds may be written behind a torn record of the   *)
(* same message, and never behind a whole one.                             *)
LeftInv ==
    /\ stream.left # {} => ~ stream.good
    /\ \A m \in stream.left :
          /\ m \notin erased \ unmarked
          /\ at[m] # 0 => at[m] = Len(file) + 1 \/ \E k \in DOMAIN file : TornAt(file, k)
          /\ \A i \in DOMAIN file : file[i].msg = m => TornAt(file, i)

RepeatedTorn(f) ==
    \A i, j \in DOMAIN f : i < j /\ f[i].msg = f[j].msg => TornAt(f, i)

(* Every record of m is at i, or out of recovery's sight.                  *)
FirstAt(f, m, i) ==
    \A j \in DOMAIN f : f[j].msg = m => j = i \/ (j > i /\ TornBefore(f, j))

EntryFirst ==
    \A m \in Msgs : at[m] # 0 => at[m] <= Len(file) + 1 /\ FirstAt(file, m, at[m])

Gone(f, m) == \A i \in DOMAIN f : f[i].msg = m => f[i].purged \/ TornBefore(f, i)

ErasedGone == \A m \in erased \ unmarked : at[m] = 0 /\ Gone(file, m)

(* What has an open cursor is in the index: erasing it takes an entry off. *)
Cursors == \A m \in open : at[m] # 0

Sound(f, m, i) ==
    /\ i \in DOMAIN f /\ f[i] = Record(m, Whole)
    /\ \A j \in DOMAIN f : j <= i => ~ TornAt(f, j)

Kept(m) ==
    /\ at[m] # 0 /\ Sound(file, m, at[m])
    /\ \A p \in phantom : at[p] # 0 => at[m] < at[p]

EarlyKept == ~ strayed => \A m \in early : told[m] \in Removed \/ Kept(m)

(* Before the first fault every entry has its record, whole and live, and  *)
(* every handle in use is that of an open cursor.                          *)
Flawless ==
    faults = 0 =>
        /\ stream.good /\ phantom = {} /\ unmarked = {}
        /\ \A i \in DOMAIN file : ~ TornAt(file, i)
        /\ \A m \in Msgs : at[m] # 0 => IsThere(at[m]) /\ ~ file[at[m]].purged
        /\ \A m \in Msgs : phase[m] # "free" => m \in open
        /\ \A m \in Msgs : phase[m] = "stored" => at[m] # 0

Answers ==
    /\ \A m \in early : told[m] # "nothing"
    /\ \A m \in Msgs : phase[m] = "stored" => told[m] = "nothing"

FileInv   ==
    OwnRecord /\ LeftInv /\ RepeatedTorn(file) /\ EntryFirst /\ ErasedGone /\ Cursors
ClientInv == EarlyKept /\ Flawless /\ Answers
-----------------------------------------------------------------------------
(* Records and streams.                                                    *)

(* The types, by the names used here.                                      *)
LEMMA Types ==
  ASSUME RecordTypeOK
  PROVE  /\ file \in Seq(RecordSet) /\ Len(file) \in Nat /\ DOMAIN file = 1 .. Len(file)
         /\ \A i \in DOMAIN file : file[i] \in RecordSet
         /\ stream \in StreamSet
         /\ at \in [Msgs -> Nat]
         /\ util = Cardinality(Entries) /\ IsFiniteSet(Entries) /\ util \in Nat
<1>1. file \in Seq(RecordSet) /\ stream \in StreamSet /\ at \in [Msgs -> Nat]
      /\ util = Cardinality(Entries)
  BY DEF RecordTypeOK, RecordSet, StreamSet, Entries
<1>2. IsFiniteSet(Entries)
  BY RecordAssumption, FS_Subset DEF Entries
<1> QED BY <1>1, <1>2, FS_CardinalityType

(* A record that is written next.                                          *)
LEMMA RecordType ==
  ASSUME NEW m \in Msgs, NEW part \in {Whole, "message", "body"}
  PROVE  /\ Record(m, part) \in RecordSet
         /\ Record(m, part).msg = m /\ Record(m, part).part = part
         /\ Record(m, part).purged = FALSE
BY DEF Record, RecordSet

(* A stream that has failed is the only one that holds anything.           *)
LEMMA StreamTypes ==
  ASSUME RecordTypeOK, LeftInv
  PROVE  /\ ToAppend \in StreamSet /\ ToRead \in StreamSet
         /\ Failed(ToAppend) \in StreamSet /\ Failed(ToRead) \in StreamSet
         /\ NoStream \in StreamSet /\ NoStream.left = {}
         /\ ToAppend.good => ToAppend.left = {}
         /\ ToRead.good => ToRead.left = {}
         /\ ToAppend.left \subseteq stream.left /\ ToRead.left \subseteq stream.left
         /\ Failed(ToRead).left = ToRead.left /\ ~ Failed(ToRead).good
         /\ Failed(ToAppend).left = ToAppend.left /\ ~ Failed(ToAppend).good
BY Types DEF StreamSet, ToAppend, ToRead, Opened, NoStream, Failed, LeftInv

(* The file f has become g by at most one record of m, written at its end. *)
Grown(f, g, m) ==
    /\ f \in Seq(RecordSet) /\ g \in Seq(RecordSet)
    /\ Len(g) = Len(f) \/ (Len(g) = Len(f) + 1 /\ g[Len(f) + 1].msg = m)
    /\ \A i \in DOMAIN f : g[i] = f[i]

(* Writing a record, or none.                                              *)
LEMMA AppendGrows ==
  ASSUME RecordTypeOK, NEW m \in Msgs, NEW part \in {Whole, "message", "body"}
  PROVE  /\ Grown(file, file, m)
         /\ Grown(file, Append(file, Record(m, part)), m)
         /\ Len(Append(file, Record(m, part))) = Len(file) + 1
         /\ Append(file, Record(m, part))[Len(file) + 1] = Record(m, part)
<1>1. file \in Seq(RecordSet) /\ Record(m, part) \in RecordSet /\ Record(m, part).msg = m
  BY Types, RecordType
<1> QED BY <1>1, AppendProperties DEF Grown

(* What growing leaves as it was.                                          *)
LEMMA GrownProperties ==
  ASSUME NEW f, NEW g, NEW m, Grown(f, g, m)
  PROVE  /\ Len(f) \in Nat /\ Len(g) \in Nat
         /\ DOMAIN f = 1 .. Len(f) /\ DOMAIN g = 1 .. Len(g)
         /\ DOMAIN f \subseteq DOMAIN g
         /\ \A i \in DOMAIN g : i \in DOMAIN f \/ (i = Len(f) + 1 /\ g[i].msg = m)
         /\ \A i \in DOMAIN f : g[i] = f[i] /\ i < Len(f) + 1
         /\ \A i \in DOMAIN f : TornBefore(f, i) => TornBefore(g, i)
<1>1. /\ Len(f) \in Nat /\ Len(g) \in Nat
      /\ DOMAIN f = 1 .. Len(f) /\ DOMAIN g = 1 .. Len(g)
  BY DEF Grown
<1> PICK k, l : k = Len(f) /\ l = Len(g)
  OBVIOUS
<1>2. /\ k \in Nat /\ DOMAIN f = 1 .. k /\ DOMAIN g = 1 .. l
      /\ l = k \/ (l = k + 1 /\ g[k + 1].msg = m)
      /\ \A i \in DOMAIN f : g[i] = f[i]
  BY <1>1 DEF Grown
<1>3. DOMAIN f \subseteq DOMAIN g /\ \A i \in DOMAIN f : g[i] = f[i] /\ i < Len(f) + 1
  BY <1>2
<1>4. \A i \in DOMAIN g : i \in DOMAIN f \/ (i = Len(f) + 1 /\ g[i].msg = m)
  BY <1>2
<1>5. \A i \in DOMAIN f : TornBefore(f, i) => TornBefore(g, i)
  BY <1>3 DEF TornBefore, TornAt
<1> QED BY <1>1, <1>3, <1>4, <1>5

(* Where every record of m is torn, one more may follow.                   *)
LEMMA GrownRepeats ==
  ASSUME NEW f, NEW g, NEW m, Grown(f, g, m), RepeatedTorn(f),
         \A i \in DOMAIN f : f[i].msg = m => TornAt(f, i)
  PROVE  /\ RepeatedTorn(g)
         /\ \A n : n # m /\ Gone(f, n) => Gone(g, n)
         /\ \A n, i : n # m /\ FirstAt(f, n, i) => FirstAt(g, n, i)
<1>1. RepeatedTorn(g)
  <2> SUFFICES ASSUME NEW i \in DOMAIN g, NEW j \in DOMAIN g, i < j, g[i].msg = g[j].msg
               PROVE  TornAt(g, i)
    BY DEF RepeatedTorn
  <2>1. i \in DOMAIN f /\ g[i] = f[i]
    BY GrownProperties
  <2>2. CASE j \in DOMAIN f
    BY <2>1, <2>2, GrownProperties DEF RepeatedTorn, TornAt
  <2>3. CASE j \notin DOMAIN f
    BY <2>1, <2>3, GrownProperties DEF TornAt
  <2> QED BY <2>2, <2>3
<1>2. ASSUME NEW n, n # m, Gone(f, n) PROVE Gone(g, n)
  BY <1>2, GrownProperties DEF Gone
<1>3. ASSUME NEW n, NEW i, n # m, FirstAt(f, n, i) PROVE FirstAt(g, n, i)
  BY <1>3, GrownProperties DEF FirstAt
<1> QED BY <1>1, <1>2, <1>3

(* A sound record stays sound when others are written behind it.           *)
LEMMA GrownSound ==
  ASSUME NEW f, NEW g, NEW m, Grown(f, g, m), NEW n, NEW i, Sound(f, n, i)
  PROVE  Sound(g, n, i)
BY GrownProperties DEF Sound, TornAt
-----------------------------------------------------------------------------
(* Steps that write a record, or leave the file alone.                     *)

(* What a step that grows the file by m's record may do else.              *)
Grows(m) ==
    /\ Grown(file, file', m)
    /\ RecordTypeOK' /\ Cursors' /\ UNCHANGED <<erased, unmarked>>
    /\ m \notin erased \ unmarked
    /\ \A i \in DOMAIN file : file[i].msg = m => TornAt(file, i)
    /\ \A n \in Msgs : n # m => at'[n] = at[n]
    /\ \/ at'[m] = at[m] /\ (at[m] = 0 \/ m \in stream.left) /\ phantom' = phantom
       \/ /\ at'[m] = Len(file) + 1
          /\ \A i \in DOMAIN file : file[i].msg # m
          /\ m \in phantom' \/ Len(file') = Len(file) + 1
          /\ phantom \subseteq phantom' /\ phantom' \subseteq phantom \cup {m}
    /\ stream'.left # {} =>
          /\ ~ stream'.good /\ stream'.left = {m}
          /\ Len(file') = Len(file) + 1 => TornAt(file', Len(file'))

(* The lengths, as numbers.                                                *)
LEMMA GrownLengths ==
  ASSUME NEW f, NEW g, NEW m, Grown(f, g, m)
  PROVE  \E k, l \in Nat :
            /\ Len(f) = k /\ Len(g) = l /\ DOMAIN f = 1 .. k /\ DOMAIN g = 1 .. l
            /\ l = k \/ (l = k + 1 /\ g[l].msg = m)
<1>1. /\ Len(f) \in Nat /\ Len(g) \in Nat
      /\ DOMAIN f = 1 .. Len(f) /\ DOMAIN g = 1 .. Len(g)
  BY DEF Grown
<1>2. Len(g) = Len(f) \/ (Len(g) = Len(f) + 1 /\ g[Len(g)].msg = m)
  BY DEF Grown
<1> QED BY <1>1, <1>2, Zenon

(* It keeps entries and records in step.                                   *)
LEMMA GrowsKeepsFile ==
  ASSUME FileInv, NEW m \in Msgs, Grows(m)
  PROVE  FileInv'
<1>1. Grown(file, file', m)
  BY DEF Grows
<1> PICK k \in Nat, l \in Nat :
          /\ Len(file) = k /\ Len(file') = l
          /\ DOMAIN file = 1 .. k /\ DOMAIN file' = 1 .. l
          /\ l = k \/ (l = k + 1 /\ file'[l].msg = m)
  BY <1>1, GrownLengths
<1> HIDE DEF Grows
<1>2. /\ DOMAIN file \subseteq DOMAIN file'
      /\ \A i \in DOMAIN file' : i \in DOMAIN file \/ (i = k + 1 /\ l = k + 1)
      /\ \A i \in DOMAIN file : file'[i] = file[i] /\ i < k + 1
  BY <1>1 DEF Grown
<1>3. /\ RepeatedTorn(file')
      /\ \A n : n # m /\ Gone(file, n) => Gone(file', n)
      /\ \A n, i : n # m /\ FirstAt(file, n, i) => FirstAt(file', n, i)
      /\ \A i \in DOMAIN file : TornBefore(file, i) => TornBefore(file', i)
  <2>1. RepeatedTorn(file) /\ \A i \in DOMAIN file : file[i].msg = m => TornAt(file, i)
    BY DEF FileInv, Grows
  <2> QED BY <1>1, <2>1, GrownRepeats, GrownProperties
<1>4. OwnRecord'
  <2>1. RecordTypeOK'
    BY DEF Grows
  <2>2. ASSUME NEW n \in Msgs, n \notin phantom', at'[n] # 0
        PROVE  at'[n] \in DOMAIN file' /\ file'[at'[n]].msg = n
    <3>1. CASE at'[n] = at[n] /\ phantom' = phantom
      BY <3>1, <2>2, <1>2 DEF FileInv, OwnRecord, IsThere
    <3>2. CASE n # m
      BY <3>2, <2>2, <1>2 DEF Grows, FileInv, OwnRecord, IsThere
    <3>3. CASE n = m /\ at'[m] = k + 1 /\ l = k + 1
      BY <3>3
    <3>4. \/ at'[m] = at[m] /\ phantom' = phantom
          \/ at'[m] = k + 1 /\ (m \in phantom' \/ l = k + 1)
      BY DEF Grows
    <3> QED BY <3>1, <3>2, <3>3, <3>4, <2>2
  <2> QED BY <2>1, <2>2 DEF OwnRecord, IsThere
<1>5. LeftInv'
  <2> SUFFICES ASSUME stream'.left # {}
               PROVE  /\ ~ stream'.good /\ m \notin erased' \ unmarked' /\ stream'.left = {m}
                      /\ at'[m] # 0 => \/ at'[m] = l + 1
                                       \/ \E i \in DOMAIN file' : TornAt(file', i)
                      /\ \A i \in DOMAIN file' : file'[i].msg = m => TornAt(file', i)
    BY DEF LeftInv
  <2>1. /\ ~ stream'.good /\ stream'.left = {m} /\ m \notin erased' \ unmarked'
        /\ l = k + 1 => TornAt(file', k + 1)
    BY DEF Grows
  <2>2. ASSUME NEW i \in DOMAIN file, TornAt(file, i)
        PROVE  i \in DOMAIN file' /\ TornAt(file', i)
    BY <2>2, <1>2 DEF TornAt
  <2>3. \A i \in DOMAIN file : file[i].msg = m => TornAt(file, i)
    BY DEF Grows
  <2>4. \A i \in DOMAIN file' : file'[i].msg = m => TornAt(file', i)
    BY <2>1, <2>2, <2>3, <1>2
  <2>5. at'[m] # 0 => \/ at'[m] = l + 1
                     \/ \E i \in DOMAIN file' : TornAt(file', i)
    <3>1. CASE l = k + 1
      BY <3>1, <2>1
    <3>2. CASE l = k
      <4>1. at'[m] = k + 1 \/ at'[m] = 0 \/ (at'[m] = at[m] /\ m \in stream.left)
        BY DEF Grows
      <4>2. ASSUME m \in stream.left, at[m] # 0
            PROVE  at[m] = k + 1 \/ \E i \in DOMAIN file : TornAt(file, i)
        BY <4>2 DEF FileInv, LeftInv
      <4> QED BY <4>1, <4>2, <2>2, <3>2
    <3> QED BY <3>1, <3>2
  <2> QED BY <2>1, <2>4, <2>5
<1>6. EntryFirst'
  <2> SUFFICES ASSUME NEW n \in Msgs, at'[n] # 0
               PROVE  at'[n] <= l + 1 /\ FirstAt(file', n, at'[n])
    BY DEF EntryFirst
  <2>1. at[n] \in Nat /\ (at[n] # 0 => at[n] <= k + 1 /\ FirstAt(file, n, at[n]))
    BY Types DEF FileInv, OwnRecord, EntryFirst
  <2>2. CASE n # m
    BY <2>1, <2>2, <1>3 DEF Grows
  <2>3. CASE n = m /\ at'[m] = k + 1 /\ \A i \in DOMAIN file : file[i].msg # m
    BY <2>3, <1>2 DEF FirstAt
  <2>4. CASE n = m /\ at'[m] = at[m] /\ m \in stream.left
    <3>1. ASSUME NEW i \in DOMAIN file', i = k + 1, i # at[m]
          PROVE  i > at[m] /\ TornBefore(file', i)
      <4>1. PICK j \in DOMAIN file : TornAt(file, j)
        BY <2>4, <3>1 DEF FileInv, LeftInv
      <4>2. j \in DOMAIN file' /\ j < i /\ TornAt(file', j)
        BY <4>1, <3>1, <1>2 DEF TornAt
      <4>3. TornBefore(file', i)
        BY <4>2 DEF TornBefore
      <4> QED BY <4>3, <2>1, <2>4, <3>1
    <3>2. FirstAt(file', m, at[m])
      <4> SUFFICES ASSUME NEW i \in DOMAIN file', file'[i].msg = m
                   PROVE  i = at[m] \/ (i > at[m] /\ TornBefore(file', i))
        BY DEF FirstAt
      <4>1. CASE i \in DOMAIN file
        BY <4>1, <2>1, <2>4, <1>2, <1>3 DEF FirstAt
      <4> QED BY <4>1, <3>1, <1>2
    <3> QED BY <2>1, <3>2, <2>4
  <2> QED BY <2>2, <2>3, <2>4 DEF Grows
<1>7. ErasedGone'
  <2>1. \A n \in erased \ unmarked : n \in Msgs /\ n # m /\ at[n] = 0 /\ Gone(file, n)
    BY DEF FileInv, OwnRecord, ErasedGone, Grows, RecordTypeOK
  <2> QED BY <2>1, <1>3 DEF ErasedGone, Grows
<1>8. Cursors'
  BY DEF Grows
<1> QED BY <1>3, <1>4, <1>5, <1>6, <1>7, <1>8 DEF FileInv

(* What was kept before the first fault stays kept.                        *)
LEMMA GrowsKeepsKept ==
  ASSUME FileInv, NEW m \in Msgs, Grows(m), NEW n \in Msgs, at'[n] = at[n], Kept(n)
  PROVE  Kept(n)'
<1>1. Sound(file', n, at[n])
  BY GrownSound DEF Kept, Grows
<1>2. at[n] \in DOMAIN file /\ DOMAIN file = 1 .. Len(file) /\ Len(file) \in Nat
  BY Types DEF Kept, Sound, FileInv, OwnRecord
<1>3. ASSUME NEW p \in phantom', at'[p] # 0 PROVE at[n] < at'[p]
  <2>1. p \in Msgs
    BY DEF Grows, RecordTypeOK
  <2>2. CASE at'[p] = at[p] /\ p \in phantom
    BY <2>2, <1>3 DEF Kept
  <2>3. CASE at'[p] = Len(file) + 1
    BY <2>3, <1>2
  <2> QED BY <2>1, <2>2, <2>3 DEF Grows
<1> QED BY <1>1, <1>3 DEF Kept
-----------------------------------------------------------------------------
(* Steps that leave the records as they are.                               *)

(* The cache may drop or reopen the stream.                                *)
Quiet ==
    /\ RecordTypeOK' /\ Cursors' /\ UNCHANGED <<file, at, phantom, erased, unmarked>>
    /\ stream'.left \subseteq stream.left
    /\ stream'.left # {} => ~ stream'.good

LEMMA QuietKeepsFile ==
  ASSUME FileInv, Quiet
  PROVE  FileInv' /\ \A n : Kept(n)' <=> Kept(n)
<1>1. OwnRecord'
  BY DEF FileInv, OwnRecord, Quiet, IsThere
<1>2. LeftInv'
  BY DEF FileInv, LeftInv, Quiet
<1>3. EntryFirst' /\ ErasedGone'
  BY DEF FileInv, EntryFirst, ErasedGone, Quiet
<1>4. \A n : Kept(n)' <=> Kept(n)
  BY DEF Kept, Quiet
<1>5. RepeatedTorn(file')
  BY DEF FileInv, Quiet
<1>6. Cursors'
  BY DEF Quiet
<1> QED BY <1>1, <1>2, <1>3, <1>4, <1>5, <1>6 DEF FileInv
-----------------------------------------------------------------------------
(* Erasing a message.                                                      *)

(* RemoveMessage() with the handle of a cursor.                            *)
Erases(o) ==
    /\ EraseMessage(o)
    /\ \/ util' = 0 /\ DeleteFile
       \/ util' # 0 /\ (MarkRecord(o) \/ LeaveRecord(o))

(* The records that are left are where they were, but for a mark.          *)
SameRecords(o) ==
    /\ DOMAIN file' = DOMAIN file /\ Len(file') = Len(file)
    /\ \A i \in DOMAIN file : /\ file'[i].msg = file[i].msg
                              /\ file'[i].part = file[i].part
                              /\ i # at[o] => file'[i] = file[i]
                              /\ file[i].purged => file'[i].purged

(* The entries that are left, and the file they are in.                    *)
LEMMA Erased ==
  ASSUME FileInv, NEW o \in Msgs, at[o] # 0, Erases(o)
  PROVE  /\ at' = [at EXCEPT ![o] = 0]
         /\ Entries' = Entries \ {o} /\ util' = Cardinality(Entries') /\ util' \in Nat
         /\ file' \in Seq(RecordSet) /\ unmarked' \subseteq Msgs
         /\ stream' \in StreamSet /\ stream'.left \subseteq stream.left
         /\ stream'.left # {} => ~ stream'.good
         /\ \/ Entries' = {} /\ file' = <<>> /\ stream' = NoStream /\ unmarked' = {}
            \/ /\ SameRecords(o) /\ stream'.good /\ stream'.left = {}
               /\ unmarked' = unmarked \ {o} /\ at[o] \in DOMAIN file /\ file'[at[o]].purged
            \/ /\ SameRecords(o) /\ stream' = Failed(ToRead)
               /\ unmarked' = unmarked \cup {o} /\ UNCHANGED file
               /\ ~ (ToRead.good /\ at[o] \in DOMAIN file)
<1>1. /\ RecordTypeOK /\ LeftInv /\ unmarked \subseteq Msgs
      /\ at' = [at EXCEPT ![o] = 0] /\ util' = util - 1
  BY DEF FileInv, OwnRecord, RecordTypeOK, Erases, EraseMessage
<1>2. /\ file \in Seq(RecordSet) /\ Len(file) \in Nat /\ DOMAIN file = 1 .. Len(file)
      /\ \A i \in DOMAIN file : file[i] \in RecordSet
      /\ at \in [Msgs -> Nat]
      /\ util = Cardinality(Entries) /\ IsFiniteSet(Entries) /\ util \in Nat
  BY <1>1, Types
<1>3. o \in Entries /\ Entries' = Entries \ {o}
  BY <1>1, <1>2 DEF Entries
<1>4. util' = Cardinality(Entries') /\ IsFiniteSet(Entries') /\ util' \in Nat
  <2>1. IsFiniteSet(Entries \ {o}) /\ Cardinality(Entries \ {o}) = Cardinality(Entries) - 1
    BY <1>2, <1>3, FS_RemoveElement
  <2>2. Cardinality(Entries \ {o}) \in Nat
    BY <2>1, FS_CardinalityType
  <2> QED BY <1>1, <1>2, <1>3, <2>1, <2>2
<1>5. CASE util' = 0 /\ DeleteFile
  <2>1. Entries' = {}
    BY <1>4, <1>5, FS_EmptySet
  <2>2. file' = <<>> /\ stream' = NoStream /\ unmarked' = {}
    BY <1>5 DEF DeleteFile
  <2> QED BY <1>1, <1>3, <1>4, <2>1, <2>2, StreamTypes
<1>6. CASE MarkRecord(o)
  <2>1. /\ at[o] \in DOMAIN file /\ file' = [file EXCEPT ![at[o]].purged = TRUE]
        /\ stream' = ToRead /\ ToRead.good /\ unmarked' = unmarked \ {o}
    BY <1>6 DEF MarkRecord, Mark, IsThere
  <2>2. stream' \in StreamSet /\ stream'.left = {}
    BY <1>1, <2>1, StreamTypes
  <2>3. file' \in Seq(RecordSet) /\ DOMAIN file' = DOMAIN file /\ Len(file') = Len(file)
    <3>1. [file[at[o]] EXCEPT !.purged = TRUE] \in RecordSet
      BY <1>2, <2>1 DEF RecordSet
    <3> QED BY <1>2, <2>1, <3>1
  <2>4. \A i \in DOMAIN file : /\ file'[i].msg = file[i].msg
                               /\ file'[i].part = file[i].part
                               /\ i # at[o] => file'[i] = file[i]
                               /\ file[i].purged => file'[i].purged
    BY <1>2, <2>1 DEF RecordSet
  <2>5. file'[at[o]].purged
    BY <1>2, <2>1 DEF RecordSet
  <2>6. SameRecords(o)
    BY <2>3, <2>4 DEF SameRecords
  <2> QED BY <1>1, <1>3, <1>4, <2>1, <2>2, <2>3, <2>5, <2>6
<1>7. CASE LeaveRecord(o)
  <2>1. /\ file' = file /\ stream' = Failed(ToRead) /\ unmarked' = unmarked \cup {o}
        /\ ~ (ToRead.good /\ at[o] \in DOMAIN file)
    BY <1>7 DEF LeaveRecord, IsThere
  <2>2. /\ stream' \in StreamSet /\ stream'.left \subseteq stream.left /\ ~ stream'.good
    BY <1>1, <2>1, StreamTypes
  <2>3. SameRecords(o)
    BY <2>1 DEF SameRecords
  <2> QED BY <1>1, <1>2, <1>3, <1>4, <2>1, <2>2, <2>3
<1> QED BY <1>5, <1>6, <1>7 DEF Erases

(* The records that are left stay where they were, and readable.           *)
LEMMA EraseKeepsFile ==
  ASSUME FileInv, NEW o \in open, Erases(o), RecordTypeOK', UNCHANGED phantom
  PROVE  FileInv' /\ \A n \in Msgs : n # o /\ Kept(n) => Kept(n)'
<1>1. /\ RecordTypeOK /\ at \in [Msgs -> Nat] /\ DOMAIN file \subseteq Nat \ {0}
      /\ o \in Msgs /\ at[o] # 0
      /\ erased' = erased \cup {o} /\ open' = open \ {o}
      /\ erased \subseteq Msgs /\ open \subseteq Msgs
  <2>1. RecordTypeOK /\ erased \subseteq Msgs /\ open \subseteq Msgs /\ at[o] # 0
    BY DEF FileInv, OwnRecord, RecordTypeOK, Cursors
  <2>2. erased' = erased \cup {o} /\ open' = open \ {o}
    BY DEF Erases, EraseMessage
  <2> QED BY <2>1, <2>2, Types
<1>2. /\ at' = [at EXCEPT ![o] = 0] /\ Entries' = Entries \ {o}
      /\ stream'.left \subseteq stream.left /\ (stream'.left # {} => ~ stream'.good)
  BY <1>1, Erased
<1>3. \A n \in Msgs : at'[n] # 0 => n # o /\ at'[n] = at[n]
  BY <1>1, <1>2
<1>4. Cursors'
  BY <1>1, <1>2 DEF FileInv, Cursors
<1>5. CASE Entries' = {} /\ file' = <<>> /\ stream' = NoStream /\ unmarked' = {}
  <2>1. \A n \in Msgs : at'[n] = 0
    BY <1>5 DEF Entries
  <2>2. DOMAIN file' = {}
    BY <1>5
  <2>3. RepeatedTorn(file') /\ OwnRecord' /\ EntryFirst' /\ ErasedGone'
    BY <1>1, <2>1, <2>2 DEF RepeatedTorn, OwnRecord, EntryFirst, ErasedGone, Gone
  <2>4. \A n \in Msgs : n # o => at[n] = 0
    BY <1>1, <1>2, <2>1
  <2>5. LeftInv'
    BY <1>5 DEF LeftInv, NoStream, Opened
  <2> QED BY <1>4, <2>3, <2>4, <2>5 DEF FileInv, Kept
<1>6. ASSUME SameRecords(o),
             \/ unmarked' = unmarked \ {o} /\ stream'.left = {}
                   /\ at[o] \in DOMAIN file /\ file'[at[o]].purged
             \/ unmarked' = unmarked \cup {o}
      PROVE  FileInv' /\ \A n \in Msgs : n # o /\ Kept(n) => Kept(n)'
  <2>0. /\ DOMAIN file' = DOMAIN file /\ Len(file') = Len(file)
        /\ \A i \in DOMAIN file : /\ file'[i].msg = file[i].msg
                                  /\ file'[i].part = file[i].part
                                  /\ i # at[o] => file'[i] = file[i]
                                  /\ file[i].purged => file'[i].purged
    BY <1>6 DEF SameRecords
  <2>1. \A i \in DOMAIN file : TornAt(file', i) <=> TornAt(file, i)
    BY <2>0 DEF TornAt
  <2>2. \A i : TornBefore(file', i) <=> TornBefore(file, i)
    BY <2>0, <2>1 DEF TornBefore
  <2>3. LeftInv'
    <3> SUFFICES ASSUME NEW n \in stream'.left
                 PROVE  /\ n \notin erased' \ unmarked'
                        /\ at'[n] # 0 => \/ at'[n] = Len(file') + 1
                                         \/ \E k \in DOMAIN file' : TornAt(file', k)
                        /\ \A i \in DOMAIN file' : file'[i].msg = n => TornAt(file', i)
      BY <1>2 DEF LeftInv
    <3>1. /\ n \in Msgs /\ n \notin erased \ unmarked /\ unmarked' = unmarked \cup {o}
          /\ at[n] # 0 => at[n] = Len(file) + 1 \/ \E k \in DOMAIN file : TornAt(file, k)
          /\ \A i \in DOMAIN file : file[i].msg = n => TornAt(file, i)
      BY <1>1, <1>2, <1>6, Types DEF FileInv, LeftInv, StreamSet
    <3>2. n \notin erased' \ unmarked'
      BY <1>1, <3>1
    <3>3. \A i \in DOMAIN file' : file'[i].msg = n => TornAt(file', i)
      BY <2>0, <2>1, <3>1
    <3>4. at'[n] # 0 => \/ at'[n] = Len(file') + 1
                       \/ \E k \in DOMAIN file' : TornAt(file', k)
      BY <1>3, <2>0, <2>1, <3>1
    <3> QED BY <3>2, <3>3, <3>4
  <2>4. OwnRecord'
    <3>1. ASSUME NEW n \in Msgs, n \notin phantom, at'[n] # 0
          PROVE  at'[n] \in DOMAIN file' /\ file'[at'[n]].msg = n
      BY <3>1, <1>3, <2>0 DEF FileInv, OwnRecord, IsThere
    <3> QED BY <3>1 DEF OwnRecord, IsThere
  <2>5. RepeatedTorn(file')
    BY <2>0, <2>1 DEF FileInv, RepeatedTorn
  <2>6. EntryFirst'
    <3>1. \A n, i : FirstAt(file', n, i) <=> FirstAt(file, n, i)
      BY <2>0, <2>2 DEF FirstAt
    <3> QED BY <3>1, <1>3, <2>0 DEF FileInv, EntryFirst
  <2>7. ErasedGone'
    <3>1. \A n \in erased \ unmarked : at[n] = 0 /\ Gone(file, n)
      BY DEF FileInv, ErasedGone
    <3>2. \A n \in erased \ unmarked : at'[n] = 0 /\ Gone(file', n)
      BY <3>1, <1>1, <1>3, <2>0, <2>2 DEF Gone
    <3>3. at[o] \in DOMAIN file /\ file'[at[o]].purged => Gone(file', o)
      <4>1. FirstAt(file, o, at[o])
        BY <1>1 DEF FileInv, EntryFirst
      <4> QED BY <4>1, <2>0, <2>2 DEF Gone, FirstAt
    <3>4. at'[o] = 0
      BY <1>1, <1>2
    <3> QED BY <3>2, <3>3, <3>4, <1>1, <1>6 DEF ErasedGone
  <2>8. ASSUME NEW n \in Msgs, n # o, Kept(n) PROVE Kept(n)'
    <3>1. at'[n] = at[n] /\ at[n] # 0 /\ Sound(file, n, at[n])
      BY <2>8, <1>1, <1>2 DEF Kept
    <3>2. at[n] # at[o]
      <4>1. CASE o \in phantom
        <5>1. at[n] < at[o]
          BY <4>1, <2>8, <1>1 DEF Kept
        <5> QED BY <5>1, <1>1
      <4>2. CASE o \notin phantom
        <5>1. file[at[o]].msg = o
          BY <4>2, <1>1 DEF FileInv, OwnRecord
        <5>2. file[at[n]].msg = n
          BY <3>1 DEF Sound, Record
        <5> QED BY <5>1, <5>2, <2>8
      <4> QED BY <4>1, <4>2
    <3>3. Sound(file', n, at[n])
      BY <3>1, <3>2, <2>0, <2>1 DEF Sound
    <3>4. \A p \in phantom' : at'[p] # 0 => at[n] < at'[p]
      BY <1>3, <2>8, <1>1 DEF Kept, RecordTypeOK
    <3> QED BY <3>1, <3>3, <3>4 DEF Kept
  <2> QED BY <1>4, <2>3, <2>4, <2>5, <2>6, <2>7, <2>8 DEF FileInv
<1> QED BY <1>1, <1>5, <1>6, Erased
-----------------------------------------------------------------------------
(* Recovery.                                                               *)

(* A set of numbers that is not empty has a least one.                     *)
LEMMA MinExists ==
  ASSUME NEW n \in Nat, NEW I, I \subseteq 1 .. n, I # {}
  PROVE  Min(I) \in I /\ \A y \in I : Min(I) <= y
<1> DEFINE Below(k) == {j \in I : j < k}
           T == {Below(k) : k \in I}
<1>1. IsFiniteSet(I)
  <2>1. IsFiniteSet(1 .. n)
    BY FS_Interval
  <2> QED BY <2>1, FS_Subset
<1>2. T \subseteq FiniteSubsetsOf(I)
  BY <1>1, FS_Subset DEF FiniteSubsetsOf
<1>3. T # {}
  OBVIOUS
<1> HIDE DEF T
<1>4. PICK J \in T : \A K \in T : ~(<<K, J>> \in StrictSubsetOrdering(I))
  BY <1>2, <1>3, FS_StrictSubsetOrderingWellFounded, WFMin
<1>5. PICK x \in I : J = Below(x)
  BY DEF T
<1>6. ASSUME NEW y \in I, ~(x <= y) PROVE FALSE
  <2>1. Below(y) \in T
    BY DEF T
  <2>2. y \in Below(x) /\ y \notin Below(y)
    BY <1>6
  <2>3. \A j \in I : j < y => j < x
    BY <1>6
  <2>4. Below(y) \subseteq Below(x)
    BY <2>3
  <2>5. <<Below(y), J>> \in StrictSubsetOrdering(I)
    BY <2>2, <2>4, <1>5 DEF StrictSubsetOrdering
  <2> QED BY <2>1, <2>5, <1>4
<1>7. \E z \in I : \A y \in I : z <= y
  BY <1>6
<1> QED BY <1>7 DEF Min

(* Recovery takes the live records up to the first that is torn, and that  *)
(* one perhaps.                                                            *)
LEMMA TakenProperties ==
  ASSUME NEW f \in Seq(RecordSet), NEW taken \in Recovered(f)
  PROVE  /\ taken \subseteq DOMAIN f
         /\ \A i \in taken : ~ f[i].purged /\ ~ TornBefore(f, i)
         /\ \A i \in DOMAIN f : ~ f[i].purged /\ ~ TornBefore(f, i) /\ ~ TornAt(f, i)
                                   => i \in taken
<1> PICK n \in Nat : DOMAIN f = 1 .. n /\ n = Len(f)
  OBVIOUS
<1> DEFINE cut == {i \in DOMAIN f : f[i].part # Whole}
<1>1. CASE cut = {}
  <2>1. taken = {i \in 1 .. n : ~ f[i].purged}
    BY <1>1 DEF Recovered, Live
  <2>2. \A i \in DOMAIN f : ~ TornAt(f, i)
    BY <1>1 DEF TornAt
  <2> QED BY <2>1, <2>2 DEF TornBefore
<1>2. ASSUME cut # {}
      PROVE  \E c \in DOMAIN f :
                /\ TornAt(f, c) /\ \A i \in DOMAIN f : TornAt(f, i) => c <= i
                /\ \/ taken = {i \in 1 .. c : ~ f[i].purged}
                   \/ taken = {i \in 1 .. c - 1 : ~ f[i].purged}
  <2>1. Min(cut) \in cut /\ \A i \in cut : Min(cut) <= i
    BY <1>2, MinExists
  <2>2. \/ taken = {i \in 1 .. Min(cut) : ~ f[i].purged}
        \/ taken = {i \in 1 .. Min(cut) - 1 : ~ f[i].purged}
    BY <1>2 DEF Recovered, Live
  <2> QED BY <2>1, <2>2 DEF TornAt
<1> HIDE DEF cut
<1>3. ASSUME NEW c \in DOMAIN f,
             TornAt(f, c), \A i \in DOMAIN f : TornAt(f, i) => c <= i,
             \/ taken = {i \in 1 .. c : ~ f[i].purged}
             \/ taken = {i \in 1 .. c - 1 : ~ f[i].purged}
      PROVE  /\ taken \subseteq DOMAIN f
             /\ \A i \in taken : ~ f[i].purged /\ ~ TornBefore(f, i)
             /\ \A i \in DOMAIN f : ~ f[i].purged /\ ~ TornBefore(f, i) /\ ~ TornAt(f, i)
                                       => i \in taken
  <2>3. ASSUME NEW i \in DOMAIN f PROVE TornBefore(f, i) <=> c < i
    <3>1. i \in Nat /\ c \in Nat /\ \A k \in DOMAIN f : k \in Nat
      BY <1>3
    <3>2. ASSUME TornBefore(f, i) PROVE c < i
      <4>1. PICK k \in DOMAIN f : k < i /\ TornAt(f, k)
        BY <3>2 DEF TornBefore
      <4>2. c <= k /\ k \in Nat
        BY <4>1, <3>1, <1>3
      <4> QED BY <4>1, <4>2, <3>1
    <3>3. ASSUME c < i PROVE TornBefore(f, i)
      BY <3>3, <1>3 DEF TornBefore
    <3> QED BY <3>2, <3>3
  <2>5. taken \subseteq DOMAIN f /\ \A i \in taken : i <= c /\ ~ f[i].purged
    BY <1>3
  <2>6. \A i \in DOMAIN f : ~ f[i].purged /\ i < c => i \in taken
    BY <1>3
  <2>7. \A i \in taken : ~ TornBefore(f, i)
    BY <1>3, <2>3, <2>5
  <2>8. \A i \in DOMAIN f : ~ TornBefore(f, i) /\ ~ TornAt(f, i) => i < c
    BY <1>3, <2>3
  <2> QED BY <2>5, <2>6, <2>7, <2>8
<1> QED BY <1>1, <1>2, <1>3

(* No two of the records taken are of one message.                         *)
LEMMA TakenOnce ==
  ASSUME NEW f \in Seq(RecordSet), RepeatedTorn(f), NEW taken \in Recovered(f)
  PROVE  /\ \A i, j \in taken : f[i].msg = f[j].msg => i = j
         /\ \A i \in taken : FirstAt(f, f[i].msg, i)
<1>1. DOMAIN f \subseteq Int
  OBVIOUS
<1>2. ASSUME NEW i \in taken, NEW j \in DOMAIN f, f[i].msg = f[j].msg
      PROVE  j = i \/ (j > i /\ TornBefore(f, j))
  <2>1. i \in DOMAIN f /\ ~ TornBefore(f, i) /\ i \in Int /\ j \in Int
    BY <1>1, TakenProperties
  <2>2. CASE j < i
    BY <2>1, <2>2, <1>2 DEF RepeatedTorn, TornBefore
  <2>3. CASE i < j
    BY <2>1, <2>3, <1>2 DEF RepeatedTorn, TornBefore
  <2> QED BY <2>1, <2>2, <2>3
<1>3. ASSUME NEW i \in taken, NEW j \in taken, f[i].msg = f[j].msg PROVE i = j
  BY <1>2, <1>3, TakenProperties
<1>4. \A i \in taken : FirstAt(f, f[i].msg, i)
  BY <1>2 DEF FirstAt
<1> QED BY <1>3, <1>4

(* The index of a recovered file, and the count of its entries.            *)
LEMMA RecoveredIndex ==
  ASSUME NEW f \in Seq(RecordSet), RepeatedTorn(f), NEW taken \in Recovered(f),
         at' = [m \in Msgs |-> IF \E i \in taken : f[i].msg = m
                               THEN CHOOSE i \in taken : f[i].msg = m ELSE 0]
  PROVE  /\ at' \in [Msgs -> Nat]
         /\ \A n \in Msgs : at'[n] # 0 => at'[n] \in taken /\ f[at'[n]].msg = n
         /\ \A i \in taken : f[i].msg \in Msgs /\ at'[f[i].msg] = i
         /\ Cardinality(taken) = Cardinality(Entries')
<1>1. taken \subseteq DOMAIN f /\ DOMAIN f = 1 .. Len(f) /\ Len(f) \in Nat
  BY TakenProperties
<1>2. DOMAIN f \subseteq Nat \ {0} /\ IsFiniteSet(taken)
  <2>1. IsFiniteSet(1 .. Len(f))
    BY <1>1, FS_Interval
  <2>2. DOMAIN f \subseteq Nat \ {0}
    BY <1>1
  <2>3. IsFiniteSet(taken)
    BY <1>1, <2>1, FS_Subset
  <2> QED BY <2>2, <2>3
<1>3. ASSUME NEW i \in taken PROVE f[i].msg \in Msgs /\ at'[f[i].msg] = i
  <2>1. i \in DOMAIN f /\ f[i].msg \in Msgs
    <3>1. i \in 1 .. Len(f)
      BY <1>1, Zenon
    <3>2. f[i] \in RecordSet
      BY <3>1, ElementOfSeq
    <3> QED BY <1>1, <3>1, <3>2 DEF RecordSet
  <2>2. \A j \in taken : f[j].msg = f[i].msg => j = i
    BY TakenOnce
  <2>3. (CHOOSE j \in taken : f[j].msg = f[i].msg) = i
    BY <2>2
  <2> QED BY <2>1, <2>3
<1>4. ASSUME NEW n \in Msgs
      PROVE  /\ at'[n] \in Nat
             /\ at'[n] # 0 => at'[n] \in taken /\ f[at'[n]].msg = n
  <2>1. CASE \E i \in taken : f[i].msg = n
    BY <2>1, <1>1, <1>2, <1>3
  <2>2. CASE ~ \E i \in taken : f[i].msg = n
    <3>1. at'[n] = 0
      BY <2>2
    <3>2. 0 \in Nat
      OBVIOUS
    <3> QED BY <3>1, <3>2, Zenon
  <2> QED BY <2>1, <2>2
<1>5. at' \in [Msgs -> Nat]
  BY <1>4
<1>6. Cardinality(taken) = Cardinality(Entries')
  <2> DEFINE h == [i \in taken |-> f[i].msg]
  <2>1. \A i \in taken : f[i].msg \in Entries'
    BY <1>1, <1>2, <1>3 DEF Entries
  <2>2. \A n \in Entries' : at'[n] \in taken /\ f[at'[n]].msg = n
    BY <1>4 DEF Entries
  <2>3. h \in Bijection(taken, Entries')
    <3>1. h \in [taken -> Entries']
      BY <2>1
    <3>2. \A i, j \in taken : h[i] = h[j] => i = j
      BY TakenOnce
    <3>3. \A n \in Entries' : \E i \in taken : h[i] = n
      BY <2>2
    <3> QED BY <3>1, <3>2, <3>3 DEF Bijection, Injection, Surjection, IsInjective
  <2>4. ExistsBijection(taken, Entries')
    BY <2>3 DEF ExistsBijection
  <2> QED BY <2>4, <1>2, FS_Bijection
<1> QED BY <1>3, <1>4, <1>5, <1>6

(* A restart reads entries that fit, of a file that fits.                  *)
LEMMA RecoverKeepsFile ==
  ASSUME FileInv, NEW f \in Seq(RecordSet), RepeatedTorn(f), \A n \in erased \ unmarked : Gone(f, n),
         Recover(f), faults' \in 0 .. MaxFaults
  PROVE  /\ FileInv'
         /\ \A n \in Msgs : Sound(f, n, at[n]) => Kept(n)'
         /\ \A n \in Msgs : at'[n] # 0 => at'[n] \in DOMAIN f /\ ~ f[at'[n]].purged
<1>1. PICK taken \in Recovered(f) :
         /\ at' = [m \in Msgs |-> IF \E i \in taken : f[i].msg = m
                                  THEN CHOOSE i \in taken : f[i].msg = m ELSE 0]
         /\ util' = Cardinality(taken)
  BY DEF Recover
<1>2. /\ file' = f /\ hidden' = {} /\ open' = {} /\ phantom' = {}
      /\ phase' = [m \in Msgs |-> "free"] /\ stream' = NoStream
      /\ told' = told /\ early' = early /\ erased' = erased /\ unmarked' = unmarked
      /\ strayed' = strayed
  BY DEF Recover
<1>3. /\ taken \subseteq DOMAIN f
      /\ \A i \in taken : ~ f[i].purged /\ ~ TornBefore(f, i)
      /\ \A i \in DOMAIN f : ~ f[i].purged /\ ~ TornBefore(f, i) /\ ~ TornAt(f, i)
                                => i \in taken
  BY TakenProperties
<1>4. /\ at' \in [Msgs -> Nat]
      /\ \A n \in Msgs : at'[n] # 0 => at'[n] \in taken /\ f[at'[n]].msg = n
      /\ \A i \in taken : f[i].msg \in Msgs /\ at'[f[i].msg] = i
      /\ util' = Cardinality(Entries')
  BY <1>1, RecoveredIndex
<1>5. PICK k \in Nat : Len(f) = k /\ DOMAIN f = 1 .. k
  OBVIOUS
<1>6. RecordTypeOK'
  <2>1. stream' \in StreamSet /\ stream'.left = {}
    BY <1>2, StreamTypes DEF FileInv, OwnRecord
  <2>2. /\ early \cup erased \cup unmarked \subseteq Msgs /\ strayed \in BOOLEAN
        /\ told \in [Msgs -> {"nothing", "refused", "queued"} \cup Removed]
    BY DEF FileInv, OwnRecord, RecordTypeOK
  <2>3. hidden' \cup open' \cup phantom' \cup early' \cup erased' \cup unmarked' \subseteq Msgs
    BY <1>2, <2>2
  <2>4. phase' \in [Msgs -> {"free", "stored", "reading", "unread"}]
    BY <1>2
  <2> QED BY <1>2, <1>4, <2>1, <2>2, <2>3, <2>4 DEF RecordTypeOK, RecordSet, StreamSet, Entries
<1>7. OwnRecord'
  BY <1>2, <1>3, <1>4, <1>6 DEF OwnRecord, IsThere
<1>8. LeftInv'
  BY <1>2 DEF LeftInv, NoStream, Opened
<1>9. EntryFirst'
  <2> SUFFICES ASSUME NEW n \in Msgs, at'[n] # 0
               PROVE  at'[n] <= k + 1 /\ FirstAt(f, n, at'[n])
    BY <1>2, <1>5 DEF EntryFirst
  <2>1. at'[n] \in taken /\ f[at'[n]].msg = n
    BY <1>4
  <2>2. FirstAt(f, n, at'[n])
    BY <2>1, TakenOnce
  <2>3. at'[n] <= k + 1
    BY <2>1, <1>3, <1>5
  <2> QED BY <2>2, <2>3
<1>10. ErasedGone'
  <2> SUFFICES ASSUME NEW n \in erased \ unmarked PROVE at'[n] = 0
    BY <1>2 DEF ErasedGone
  <2>1. n \in Msgs /\ Gone(f, n)
    BY DEF FileInv, OwnRecord, RecordTypeOK
  <2> QED BY <2>1, <1>3, <1>4 DEF Gone
<1>11. ASSUME NEW n \in Msgs, Sound(f, n, at[n]) PROVE Kept(n)'
  <2> PICK i : i = at[n]
    OBVIOUS
  <2>1. /\ i \in DOMAIN f /\ f[i] = Record(n, Whole)
        /\ \A j \in DOMAIN f : j <= i => ~ TornAt(f, j)
    BY <1>11 DEF Sound
  <2>2. i \in 1 .. k /\ ~ TornBefore(f, i) /\ ~ TornAt(f, i)
    BY <2>1, <1>5 DEF TornBefore
  <2>3. f[i].msg = n /\ ~ f[i].purged
    BY <2>1 DEF Record
  <2>4. i \in taken /\ at'[n] = i
    BY <2>1, <2>2, <2>3, <1>3, <1>4
  <2>5. Sound(f, n, i)
    BY <2>1 DEF Sound
  <2> QED BY <2>2, <2>4, <2>5, <1>2 DEF Kept
<1>12. \A n \in Msgs : at'[n] # 0 => at'[n] \in DOMAIN f /\ ~ f[at'[n]].purged
  BY <1>3, <1>4
<1>13. Cursors'
  BY <1>2 DEF Cursors
<1> QED BY <1>2, <1>7, <1>8, <1>9, <1>10, <1>11, <1>12, <1>13 DEF FileInv
-----------------------------------------------------------------------------
(* The actions.                                                            *)

(* What the variables that count nothing hold.                             *)
LEMMA OtherTypes ==
  ASSUME RecordTypeOK
  PROVE  /\ hidden \subseteq Msgs /\ open \subseteq Msgs /\ phantom \subseteq Msgs
         /\ early \subseteq Msgs /\ erased \subseteq Msgs /\ unmarked \subseteq Msgs
         /\ phase \in [Msgs -> {"free", "stored", "reading", "unread"}]
         /\ told \in [Msgs -> {"nothing", "refused", "queued"} \cup Removed]
         /\ strayed \in BOOLEAN /\ faults \in 0 .. MaxFaults
BY DEF RecordTypeOK

(* The types, part by part.                                                *)
LEMMA TypesNext ==
  ASSUME file' \in Seq(RecordSet), stream' \in StreamSet, at' \in [Msgs -> Nat],
         util' = Cardinality(Entries'),
         hidden' \subseteq Msgs, open' \subseteq Msgs, phantom' \subseteq Msgs,
         early' \subseteq Msgs, erased' \subseteq Msgs, unmarked' \subseteq Msgs,
         phase' \in [Msgs -> {"free", "stored", "reading", "unread"}],
         told' \in [Msgs -> {"nothing", "refused", "queued"} \cup Removed],
         strayed' \in BOOLEAN, faults' \in 0 .. MaxFaults
  PROVE  RecordTypeOK'
<1>1. hidden' \cup open' \cup phantom' \cup early' \cup erased' \cup unmarked' \subseteq Msgs
  OBVIOUS
<1> QED BY <1>1 DEF RecordTypeOK, RecordSet, StreamSet, Entries

(* A new entry, at the end of the file.                                    *)
LEMMA EnterTypes ==
  ASSUME RecordTypeOK, NEW m \in Msgs, at[m] = 0, Enter(m)
  PROVE  /\ at' \in [Msgs -> Nat] /\ at' = [at EXCEPT ![m] = Len(file) + 1]
         /\ util' = Cardinality(Entries')
         /\ hidden' \subseteq Msgs /\ open' = open \cup {m}
         /\ phase' = [phase EXCEPT ![m] = "stored"]
<1>1. /\ at' = [at EXCEPT ![m] = Len(file) + 1] /\ util' = util + 1
      /\ hidden' = hidden \cup {m} /\ open' = open \cup {m}
      /\ phase' = [phase EXCEPT ![m] = "stored"]
  BY DEF Enter, Goto
<1>2. /\ at \in [Msgs -> Nat] /\ Len(file) \in Nat
      /\ util = Cardinality(Entries) /\ IsFiniteSet(Entries) /\ util \in Nat
  BY Types
<1>3. Entries' = Entries \cup {m} /\ m \notin Entries
  <2>1. Len(file) + 1 # 0 /\ Len(file) + 1 \in Nat
    BY <1>2
  <2> PICK k \in Nat : k = Len(file) + 1
    BY <2>1
  <2>2. at' = [at EXCEPT ![m] = k] /\ k # 0
    BY <1>1, <2>1
  <2> QED BY <2>2, <1>2 DEF Entries
<1>4. Cardinality(Entries') = Cardinality(Entries) + 1
  BY <1>2, <1>3, FS_AddElement
<1>5. at' \in [Msgs -> Nat]
  BY <1>1, <1>2
<1>6. hidden' \subseteq Msgs
  BY <1>1, OtherTypes
<1> QED BY <1>1, <1>2, <1>4, <1>5, <1>6

(* Its cursor is on it.                                                    *)
LEMMA EnteredCursors ==
  ASSUME FileInv, NEW m \in Msgs, open' = open \cup {m},
         at'[m] = Len(file) + 1, \A n \in Msgs : n # m => at'[n] = at[n]
  PROVE  Cursors'
<1>1. Len(file) \in Nat /\ open \subseteq Msgs
  BY Types DEF FileInv, OwnRecord, RecordTypeOK
<1>2. Len(file) + 1 # 0
  BY <1>1
<1> QED BY <1>1, <1>2 DEF FileInv, Cursors

(* Writing a message, in whole or not at all.                              *)
LEMMA EnqueueStep ==
  ASSUME FileInv, NEW m \in Msgs, Enqueue(m)
  PROVE  FileInv' /\ \A n \in Msgs : Kept(n) => Kept(n)'
<1>1. /\ RecordTypeOK /\ LeftInv
      /\ phase[m] = "free" /\ told[m] = "nothing" /\ at[m] = 0 /\ m \notin erased
      /\ \A i \in DOMAIN file : file[i].msg # m
      /\ UNCHANGED <<early, phantom, erased, unmarked, strayed, faults>>
      /\ stream' = ToAppend
  BY DEF FileInv, OwnRecord, Enqueue, IsNew, historyVars
<1>2. /\ stream' \in StreamSet /\ stream'.left \subseteq stream.left
      /\ stream'.good => stream'.left = {}
  BY <1>1, StreamTypes
<1>3. CASE ToAppend.good /\ file' = Append(file, Record(m, Whole)) /\ Enter(m) /\ UNCHANGED told
  <2>1. /\ Grown(file, file', m) /\ Len(file') = Len(file) + 1
    BY <1>1, <1>3, AppendGrows
  <2>2. /\ at' \in [Msgs -> Nat] /\ at' = [at EXCEPT ![m] = Len(file) + 1]
        /\ util' = Cardinality(Entries')
        /\ hidden' \subseteq Msgs /\ open' = open \cup {m}
        /\ phase' = [phase EXCEPT ![m] = "stored"]
    BY <1>1, <1>3, EnterTypes
  <2>3. RecordTypeOK'
    <3>1. file' \in Seq(RecordSet)
      BY <2>1 DEF Grown
    <3>2. open' \subseteq Msgs /\ phase' \in [Msgs -> {"free", "stored", "reading", "unread"}]
      BY <1>1, <2>2, OtherTypes
    <3> QED BY <1>1, <1>2, <1>3, <2>2, <3>1, <3>2, OtherTypes, TypesNext
  <2>4. at'[m] = Len(file) + 1 /\ \A n \in Msgs : n # m => at'[n] = at[n]
    BY <1>1, <2>2, Types
  <2>5. Grows(m)
    <3>1. Cursors'
      BY <1>1, <2>2, <2>4, EnteredCursors
    <3> QED BY <1>1, <1>2, <1>3, <2>1, <2>3, <2>4, <3>1 DEF Grows
  <2>6. ASSUME NEW n \in Msgs, Kept(n) PROVE Kept(n)'
    <3>1. n # m
      BY <1>1, <2>6 DEF Kept
    <3> QED BY <2>4, <2>5, <2>6, <3>1, GrowsKeepsKept
  <2> QED BY <2>5, <2>6, GrowsKeepsFile
<1>4. CASE ~ ToAppend.good /\ Refuse(m) /\ UNCHANGED file
  <2>1. told' = [told EXCEPT ![m] = "refused"] /\ UNCHANGED <<at, hidden, util, open, phase>>
    BY <1>4 DEF Refuse, Tell, memoryVars
  <2>2. RecordTypeOK'
    <3>1. told' \in [Msgs -> {"nothing", "refused", "queued"} \cup Removed]
      BY <1>1, <2>1, OtherTypes
    <3>2. /\ file' \in Seq(RecordSet) /\ at' \in [Msgs -> Nat] /\ util' = Cardinality(Entries')
      BY <1>1, <1>4, <2>1, Types DEF Entries
    <3> QED BY <1>1, <1>2, <2>1, <3>1, <3>2, OtherTypes, TypesNext
  <2>3. Quiet
    BY <1>1, <1>2, <1>4, <2>1, <2>2 DEF Quiet, FileInv, Cursors
  <2> QED BY <2>3, QuietKeepsFile
<1> QED BY <1>3, <1>4 DEF Enqueue

(* What a failed write may leave in the file.                              *)
LEMMA TornProperties ==
  ASSUME RecordTypeOK, NEW m \in Msgs, NEW f \in Torn(m)
  PROVE  /\ Grown(file, f, m) /\ f \in Seq(RecordSet)
         /\ Len(f) = Len(file) + 1 => TornAt(f, Len(f))
<1>1. Len(file) \in Nat
  BY Types
<1>2. CASE f = file
  <2>1. Len(f) # Len(file) + 1
    BY <1>1, <1>2
  <2> QED BY <1>2, <2>1, AppendGrows DEF Grown
<1>3. ASSUME NEW part \in {"message", "body"}, f = Append(file, Record(m, part))
      PROVE  Grown(file, f, m) /\ TornAt(f, Len(file) + 1)
  <2>1. Grown(file, f, m) /\ f[Len(file) + 1] = Record(m, part)
    BY <1>3, AppendGrows
  <2>2. Record(m, part).part # Whole
    BY DEF Record, Whole
  <2> QED BY <2>1, <2>2 DEF TornAt
<1>4. CASE f = Append(file, Record(m, "message"))
  BY <1>3, <1>4 DEF Grown
<1>5. CASE f = Append(file, Record(m, "body"))
  BY <1>3, <1>5 DEF Grown
<1> QED BY <1>2, <1>4, <1>5 DEF Torn

LEMMA EnqueueFailsStep ==
  ASSUME FileInv, NEW m \in Msgs, EnqueueFails(m)
  PROVE  FileInv' /\ \A n \in Msgs : Kept(n) => Kept(n)'
<1>1. /\ RecordTypeOK /\ LeftInv
      /\ phase[m] = "free" /\ told[m] = "nothing" /\ at[m] = 0 /\ m \notin erased
      /\ \A i \in DOMAIN file : file[i].msg # m
      /\ UNCHANGED <<early, erased, unmarked, strayed>>
      /\ faults < MaxFaults /\ faults' = faults + 1
      /\ file' \in Torn(m)
  BY DEF FileInv, OwnRecord, EnqueueFails, IsNew, Fault
<1>2. stream' \in StreamSet /\ stream'.left \in {{}, {m}} /\ ~ stream'.good
  <2>1. PICK left \in {{}, {m}} : stream' = [Failed(ToAppend) EXCEPT !.left = left]
    BY DEF EnqueueFails
  <2>2. Failed(ToAppend) \in StreamSet /\ ~ Failed(ToAppend).good
    BY <1>1, StreamTypes
  <2> QED BY <2>1, <2>2 DEF StreamSet
<1>3. /\ Grown(file, file', m) /\ file' \in Seq(RecordSet)
      /\ Len(file') = Len(file) + 1 => TornAt(file', Len(file'))
  BY <1>1, TornProperties
<1>4. faults' \in 0 .. MaxFaults
  BY <1>1, RecordAssumption, OtherTypes
<1>5. CASE NotNoticed(m)
  <2>1. Enter(m) /\ phantom' = phantom \cup {m} /\ told' = told
    BY <1>5 DEF NotNoticed
  <2>2. /\ at' \in [Msgs -> Nat] /\ at' = [at EXCEPT ![m] = Len(file) + 1]
        /\ util' = Cardinality(Entries')
        /\ hidden' \subseteq Msgs /\ open' = open \cup {m}
        /\ phase' = [phase EXCEPT ![m] = "stored"]
    BY <1>1, <2>1, EnterTypes
  <2>3. RecordTypeOK'
    <3>1. /\ open' \subseteq Msgs /\ phase' \in [Msgs -> {"free", "stored", "reading", "unread"}]
          /\ phantom' \subseteq Msgs
      BY <1>1, <2>1, <2>2, OtherTypes
    <3> QED BY <1>1, <1>2, <1>3, <1>4, <2>1, <2>2, <3>1, OtherTypes, TypesNext
  <2>4. at'[m] = Len(file) + 1 /\ \A n \in Msgs : n # m => at'[n] = at[n]
    BY <1>1, <2>2, Types
  <2>5. Grows(m)
    <3>1. Cursors'
      BY <1>1, <2>2, <2>4, EnteredCursors
    <3> QED BY <1>1, <1>2, <1>3, <2>1, <2>3, <2>4, <3>1 DEF Grows
  <2>6. ASSUME NEW n \in Msgs, Kept(n) PROVE Kept(n)'
    <3>1. n # m
      BY <1>1, <2>6 DEF Kept
    <3> QED BY <2>4, <2>5, <2>6, <3>1, GrowsKeepsKept
  <2> QED BY <2>5, <2>6, GrowsKeepsFile
<1>6. CASE NoticedInMessage(m) \/ NoticedInBody(m)
  <2>1. /\ UNCHANGED <<at, hidden, util, open, phantom>>
        /\ told' = told \/ told' = [told EXCEPT ![m] = "refused"]
        /\ phase' = phase \/ phase' = [phase EXCEPT ![m] = "stored"]
    BY <1>6 DEF NoticedInMessage, NoticedInBody, Refuse, Tell, Goto, memoryVars
  <2>2. RecordTypeOK'
    <3>1. told' \in [Msgs -> {"nothing", "refused", "queued"} \cup Removed]
      BY <1>1, <2>1, OtherTypes
    <3>2. phase' \in [Msgs -> {"free", "stored", "reading", "unread"}]
      BY <1>1, <2>1, OtherTypes
    <3>3. /\ at' \in [Msgs -> Nat] /\ util' = Cardinality(Entries')
      BY <1>1, <2>1, Types DEF Entries
    <3> QED BY <1>1, <1>2, <1>3, <1>4, <2>1, <3>1, <3>2, <3>3, OtherTypes, TypesNext
  <2>3. Grows(m)
    <3>1. Cursors'
      BY <2>1 DEF FileInv, Cursors
    <3> QED BY <1>1, <1>2, <1>3, <2>1, <2>2, <3>1 DEF Grows
  <2> QED BY <2>1, <2>3, GrowsKeepsFile, GrowsKeepsKept
<1> QED BY <1>5, <1>6 DEF EnqueueFails

LEMMA LateWriteStep ==
  ASSUME FileInv, LateWrite
  PROVE  FileInv' /\ \A n \in Msgs : Kept(n) => Kept(n)'
<1>1. /\ RecordTypeOK /\ LeftInv
      /\ UNCHANGED <<at, hidden, util, open, phase, told, early, phantom, erased, unmarked,
                     strayed, faults>>
      /\ stream' = [stream EXCEPT !.left = {}]
  BY DEF FileInv, OwnRecord, LateWrite, memoryVars, historyVars
<1>2. PICK m \in stream.left : file' = Append(file, Record(m, Whole))
  BY DEF LateWrite
<1>3. stream \in StreamSet /\ m \in Msgs /\ stream' \in StreamSet /\ stream'.left = {}
  <2>1. stream \in StreamSet
    BY <1>1, Types
  <2> QED BY <1>1, <2>1 DEF StreamSet
<1>4. Grown(file, file', m) /\ file' \in Seq(RecordSet)
  BY <1>1, <1>2, <1>3, AppendGrows DEF Grown
<1>5. RecordTypeOK'
  <2>1. at' \in [Msgs -> Nat] /\ util' = Cardinality(Entries')
    BY <1>1, Types DEF Entries
  <2> QED BY <1>1, <1>3, <1>4, <2>1, OtherTypes, TypesNext
<1>6. /\ m \notin erased \ unmarked /\ Cursors'
      /\ \A i \in DOMAIN file : file[i].msg = m => TornAt(file, i)
  BY <1>1 DEF LeftInv, FileInv, Cursors
<1>7. Grows(m)
  BY <1>1, <1>3, <1>4, <1>5, <1>6 DEF Grows
<1> QED BY <1>1, <1>3, <1>7, GrowsKeepsFile, GrowsKeepsKept

(* A server that dies while it writes leaves a file that fits.             *)
LEMMA DiesStep ==
  ASSUME FileInv, NEW m \in Msgs, DiesInEnqueue(m)
  PROVE  FileInv' /\ \A n \in Msgs : Kept(n) => Kept(n)'
<1>1. /\ RecordTypeOK /\ m \notin erased
      /\ \A i \in DOMAIN file : file[i].msg = m => TornAt(file, i)
      /\ faults < MaxFaults /\ faults' = faults + 1
  BY DEF FileInv, OwnRecord, DiesInEnqueue, IsNew, Fault
<1>2. faults' \in 0 .. MaxFaults
  BY <1>1, RecordAssumption, OtherTypes
<1>3. PICK f : /\ f \in Torn(m) \/ f = Append(file, Record(m, Whole))
               /\ Recover(f)
  BY DEF DiesInEnqueue
<1>4. Grown(file, f, m) /\ f \in Seq(RecordSet)
  BY <1>1, <1>3, TornProperties, AppendGrows DEF Grown
<1>5. RepeatedTorn(f) /\ \A n \in erased \ unmarked : Gone(f, n)
  BY <1>1, <1>4, GrownRepeats DEF FileInv, ErasedGone
<1>6. \A n \in Msgs : Kept(n) => Sound(f, n, at[n])
  BY <1>4, GrownSound DEF Kept
<1> QED BY <1>2, <1>3, <1>4, <1>5, <1>6, RecoverKeepsFile

LEMMA RestartStep ==
  ASSUME FileInv, Restart
  PROVE  /\ FileInv' /\ \A n \in Msgs : Kept(n) => Kept(n)'
         /\ \A n \in Msgs : at'[n] # 0 => at'[n] \in DOMAIN file /\ ~ file[at'[n]].purged
<1>1. Recover(file) /\ faults' \in 0 .. MaxFaults
  BY DEF Restart, FileInv, OwnRecord, RecordTypeOK
<1>2. file \in Seq(RecordSet) /\ RepeatedTorn(file) /\ \A n \in erased \ unmarked : Gone(file, n)
  BY Types DEF FileInv, OwnRecord, ErasedGone
<1>3. \A n \in Msgs : Kept(n) => Sound(file, n, at[n])
  BY DEF Kept
<1> QED BY <1>1, <1>2, <1>3, RecoverKeepsFile

(* A step that leaves records and entries alone.                           *)
LEMMA QuietStep ==
  ASSUME FileInv, UNCHANGED <<file, at, util, phantom, erased, unmarked, faults>>,
         hidden' \subseteq Msgs, open' \subseteq open \cup Entries, early' \subseteq Msgs,
         phase' \in [Msgs -> {"free", "stored", "reading", "unread"}],
         told' \in [Msgs -> {"nothing", "refused", "queued"} \cup Removed],
         strayed' \in BOOLEAN,
         stream' \in StreamSet, stream'.left \subseteq stream.left,
         stream'.left # {} => ~ stream'.good
  PROVE  FileInv' /\ \A n \in Msgs : Kept(n) => Kept(n)'
<1>1. RecordTypeOK
  BY DEF FileInv, OwnRecord
<1>2. /\ file' \in Seq(RecordSet) /\ at' \in [Msgs -> Nat] /\ util' = Cardinality(Entries')
      /\ phantom' \subseteq Msgs /\ erased' \subseteq Msgs /\ unmarked' \subseteq Msgs
      /\ open' \subseteq Msgs /\ faults' \in 0 .. MaxFaults
  BY <1>1, Types, OtherTypes DEF Entries
<1>3. RecordTypeOK'
  BY <1>2, TypesNext
<1>4. Cursors'
  BY DEF FileInv, Cursors, Entries
<1>5. Quiet
  BY <1>3, <1>4 DEF Quiet
<1> QED BY <1>5, QuietKeepsFile

(* The streams a step may leave in the cache without writing to them.      *)
LEMMA StreamKept ==
  ASSUME FileInv, NEW s \in {stream, ToRead, Failed(ToRead), NoStream}
  PROVE  s \in StreamSet /\ s.left \subseteq stream.left /\ (s.left # {} => ~ s.good)
<1>1. RecordTypeOK /\ LeftInv
  BY DEF FileInv, OwnRecord
<1> QED BY <1>1, StreamTypes, Types DEF LeftInv

(* The message whose cursor a handle reaches.                              *)
LEMMA ReachedTypes ==
  ASSUME RecordTypeOK, NEW m \in Msgs, NEW who \in Reached(m)
  PROVE  /\ who \subseteq open /\ who \subseteq Msgs
         /\ (m \in open \/ ~ \E o \in who : o # m) => who \subseteq {m}
         /\ m \in open => who = {m}
BY OtherTypes DEF Reached

LEMMA FinalizeEnqueueStep ==
  ASSUME FileInv, NEW m \in Msgs, FinalizeEnqueue(m)
  PROVE  FileInv' /\ \A n \in Msgs : Kept(n) => Kept(n)'
<1>1. /\ RecordTypeOK
      /\ phase' = [phase EXCEPT ![m] = "free"] /\ told' = [told EXCEPT ![m] = "queued"]
      /\ UNCHANGED <<file, stream, at, util, phantom, erased, unmarked, faults>>
      /\ early' = IF faults = 0 THEN early \cup {m} ELSE early
  BY DEF FileInv, OwnRecord, FinalizeEnqueue, Goto, Tell
<1>2. /\ hidden' \subseteq Msgs /\ open' \subseteq open /\ early' \subseteq Msgs
      /\ strayed' \in BOOLEAN
  BY <1>1, OtherTypes DEF FinalizeEnqueue, Stray
<1>3. /\ phase' \in [Msgs -> {"free", "stored", "reading", "unread"}]
      /\ told' \in [Msgs -> {"nothing", "refused", "queued"} \cup Removed]
  BY <1>1, OtherTypes
<1> QED BY <1>1, <1>2, <1>3, QuietStep, StreamKept

LEMMA CancelRetrieveStep ==
  ASSUME FileInv, NEW m \in Msgs, CancelRetrieve(m)
  PROVE  FileInv' /\ \A n \in Msgs : Kept(n) => Kept(n)'
<1>1. /\ RecordTypeOK /\ phase' = [phase EXCEPT ![m] = "free"]
      /\ UNCHANGED <<file, stream, at, util, told, early, phantom, erased, unmarked, faults>>
  BY DEF FileInv, OwnRecord, CancelRetrieve, Goto
<1>2. hidden' \subseteq Msgs /\ open' \subseteq open /\ strayed' \in BOOLEAN
  BY <1>1, OtherTypes DEF CancelRetrieve, Stray
<1>3. phase' \in [Msgs -> {"free", "stored", "reading", "unread"}]
  BY <1>1, OtherTypes
<1> QED BY <1>1, <1>2, <1>3, OtherTypes, QuietStep, StreamKept

LEMMA BeginRetrieveStep ==
  ASSUME FileInv, NEW m \in Msgs, BeginRetrieve(m)
  PROVE  FileInv' /\ \A n \in Msgs : Kept(n) => Kept(n)'
<1>1. /\ RecordTypeOK
      /\ UNCHANGED <<file, at, util, told, early, phantom, erased, unmarked, strayed, faults>>
  BY DEF FileInv, OwnRecord, BeginRetrieve, historyVars
<1>2. stream' \in {stream, ToRead, Failed(ToRead), NoStream}
  BY DEF BeginRetrieve, ReadOutcomes
<1>3. /\ hidden' \subseteq Msgs /\ open' \subseteq open \cup Entries
      /\ phase' \in [Msgs -> {"free", "stored", "reading", "unread"}]
  BY <1>1, OtherTypes DEF BeginRetrieve, Goto, Entries
<1> QED BY <1>1, <1>2, <1>3, OtherTypes, QuietStep, StreamKept

LEMMA ReplacedStep ==
  ASSUME FileInv, Replaced
  PROVE  FileInv' /\ \A n \in Msgs : Kept(n) => Kept(n)'
<1>1. /\ RecordTypeOK /\ stream' = NoStream
      /\ UNCHANGED <<file, at, util, hidden, open, phase, told, early, phantom, erased,
                     unmarked, strayed, faults>>
  BY DEF FileInv, OwnRecord, Replaced, memoryVars, historyVars
<1> QED BY <1>1, OtherTypes, QuietStep, StreamKept

(* Removing a message: by its own handle, another's, or not at all.        *)
LEMMA RemoveMessageStep ==
  ASSUME FileInv, NEW m \in Msgs, RemoveMessage(m),
         told' \in [Msgs -> {"nothing", "refused", "queued"} \cup Removed]
  PROVE  /\ FileInv'
         /\ ~ strayed' => \A n \in Msgs : n # m /\ Kept(n) => Kept(n)'
<1>1. /\ RecordTypeOK /\ phase' = [phase EXCEPT ![m] = "free"]
      /\ UNCHANGED <<early, phantom, faults>>
  BY DEF FileInv, OwnRecord, RemoveMessage, Goto
<1>2. phase' \in [Msgs -> {"free", "stored", "reading", "unread"}]
  BY <1>1, OtherTypes
<1>3. PICK who \in Reached(m) :
         /\ Stray(m, who)
         /\ \/ UNCHANGED <<file, stream, at, hidden, util, open, erased, unmarked>>
            \/ \E o \in who : Erases(o)
  BY DEF RemoveMessage, Erases
<1>4. /\ who \subseteq open /\ who \subseteq Msgs /\ strayed' \in BOOLEAN
      /\ ~ strayed' => who \subseteq {m}
  <2>1. strayed' = (strayed \/ \E o \in who : o # m)
    BY <1>3 DEF Stray
  <2> QED BY <2>1, <1>1, OtherTypes, ReachedTypes
<1>5. CASE UNCHANGED <<file, stream, at, hidden, util, open, erased, unmarked>>
  BY <1>1, <1>2, <1>4, <1>5, OtherTypes, QuietStep, StreamKept
<1>6. ASSUME NEW o \in who, Erases(o)
      PROVE  FileInv' /\ \A n \in Msgs : n # o /\ Kept(n) => Kept(n)'
  <2>1. o \in Msgs /\ o \in open /\ at[o] # 0
    BY <1>4 DEF FileInv, Cursors
  <2>2. /\ at' = [at EXCEPT ![o] = 0] /\ util' = Cardinality(Entries')
        /\ file' \in Seq(RecordSet) /\ stream' \in StreamSet /\ unmarked' \subseteq Msgs
    BY <1>6, <2>1, Erased
  <2>3. /\ hidden' = hidden \ {o} /\ open' = open \ {o} /\ erased' = erased \cup {o}
    BY <1>6 DEF Erases, EraseMessage
  <2>4. /\ at' \in [Msgs -> Nat] /\ hidden' \subseteq Msgs /\ open' \subseteq Msgs
        /\ phantom' \subseteq Msgs /\ early' \subseteq Msgs /\ erased' \subseteq Msgs
        /\ faults' \in 0 .. MaxFaults
    BY <1>1, <2>1, <2>2, <2>3, OtherTypes, Types
  <2>5. RecordTypeOK'
    BY <1>2, <1>4, <2>2, <2>4, TypesNext
  <2> QED BY <1>1, <1>6, <2>1, <2>5, EraseKeepsFile
<1> QED BY <1>3, <1>4, <1>5, <1>6
-----------------------------------------------------------------------------
(* What the clients rely on.                                               *)

(* FileInv is kept by every step, and what was kept stays kept, but for    *)
(* the message a client removes.                                           *)
LEMMA StepKeepsFile ==
  ASSUME FileInv, [RecordNext]_recordVars
  PROVE  /\ FileInv'
         /\ \/ \A n \in Msgs : Kept(n) => Kept(n)'
            \/ \E m \in Msgs :
                  /\ FinalizeRetrieve(m) \/ CancelEnqueue(m)
                  /\ ~ strayed' => \A n \in Msgs : n # m /\ Kept(n) => Kept(n)'
<1>1. CASE UNCHANGED recordVars
  <2>1. RecordTypeOK
    BY DEF FileInv, OwnRecord
  <2> QED BY <1>1, <2>1, OtherTypes, QuietStep, StreamKept DEF recordVars, memoryVars, historyVars
<1>2. CASE LateWrite \/ Replaced \/ Restart
  BY <1>2, LateWriteStep, ReplacedStep, RestartStep
<1>3. ASSUME NEW m \in Msgs,
             \/ Enqueue(m) \/ EnqueueFails(m) \/ FinalizeEnqueue(m)
             \/ BeginRetrieve(m) \/ CancelRetrieve(m) \/ DiesInEnqueue(m)
      PROVE  FileInv' /\ \A n \in Msgs : Kept(n) => Kept(n)'
  BY <1>3, EnqueueStep, EnqueueFailsStep, FinalizeEnqueueStep, BeginRetrieveStep,
     CancelRetrieveStep, DiesStep
<1>4. ASSUME NEW m \in Msgs, FinalizeRetrieve(m) \/ CancelEnqueue(m)
      PROVE  /\ FileInv'
             /\ ~ strayed' => \A n \in Msgs : n # m /\ Kept(n) => Kept(n)'
  <2>1. told \in [Msgs -> {"nothing", "refused", "queued"} \cup Removed]
    BY OtherTypes DEF FileInv, OwnRecord
  <2>2. CASE FinalizeRetrieve(m)
    <3>1. RemoveMessage(m)
      BY <2>2 DEF FinalizeRetrieve
    <3>2. Tell(m, "removed") \/ Tell(m, "unseen")
      BY <2>2 DEF FinalizeRetrieve
    <3>3. told' \in [Msgs -> {"nothing", "refused", "queued"} \cup Removed]
      BY <2>1, <3>2 DEF Tell, Removed
    <3> QED BY <3>1, <3>3, RemoveMessageStep
  <2>3. CASE CancelEnqueue(m)
    <3>1. RemoveMessage(m) /\ UNCHANGED told
      BY <2>3 DEF CancelEnqueue
    <3> QED BY <2>1, <3>1, RemoveMessageStep
  <2> QED BY <1>4, <2>2, <2>3
<1> QED BY <1>1, <1>2, <1>3, <1>4 DEF RecordNext

(* What the answers say only grows.                                        *)
LEMMA StepKeepsAnswers ==
  ASSUME FileInv, Answers, [RecordNext]_recordVars
  PROVE  Answers'
<1>1. /\ phase \in [Msgs -> {"free", "stored", "reading", "unread"}]
      /\ told \in [Msgs -> {"nothing", "refused", "queued"} \cup Removed]
      /\ early \subseteq Msgs
  BY OtherTypes DEF FileInv, OwnRecord
<1>2. CASE UNCHANGED <<phase, told, early>>
  BY <1>2 DEF Answers
<1>3. ASSUME phase' = [m \in Msgs |-> "free"], UNCHANGED <<told, early>> PROVE Answers'
  BY <1>3 DEF Answers
<1>4. ASSUME NEW m \in Msgs,
             \/ UNCHANGED told
             \/ \E what \in {"refused", "queued"} \cup Removed : told' = [told EXCEPT ![m] = what],
             \/ early' = early
             \/ early' = early \cup {m} /\ told'[m] # "nothing",
             \/ UNCHANGED phase /\ phase[m] = "free"
             \/ phase' = [phase EXCEPT ![m] = "free"]
             \/ phase' = [phase EXCEPT ![m] = "reading"]
             \/ phase' = [phase EXCEPT ![m] = "unread"]
             \/ phase' = [phase EXCEPT ![m] = "stored"] /\ told'[m] = "nothing"
      PROVE  Answers'
  <2>1. \A n \in Msgs : n # m => told'[n] = told[n] /\ phase'[n] = phase[n]
    BY <1>1, <1>4
  <2>2. told'[m] = told[m] \/ told'[m] # "nothing"
    <3>1. ASSUME NEW what \in {"refused", "queued"} \cup Removed,
                 told' = [told EXCEPT ![m] = what]
          PROVE  told'[m] # "nothing"
      BY <1>1, <3>1 DEF Removed
    <3> QED BY <1>4, <3>1
  <2>3. phase'[m] = "stored" => told'[m] = "nothing"
    BY <1>1, <1>4
  <2>4. \A n \in early' : n \in early \/ (n = m /\ told'[m] # "nothing")
    BY <1>4
  <2> QED BY <1>1, <2>1, <2>2, <2>3, <2>4 DEF Answers
<1>5. ASSUME NEW m \in Msgs, Enqueue(m) PROVE Answers'
  <2>1. /\ told[m] = "nothing" /\ phase[m] = "free" /\ early' = early
        /\ \/ phase' = [phase EXCEPT ![m] = "stored"] /\ told' = told
           \/ phase' = phase /\ told' = [told EXCEPT ![m] = "refused"]
    BY <1>5 DEF Enqueue, IsNew, Enter, Goto, Refuse, Tell, memoryVars, historyVars
  <2> QED BY <2>1, <1>4
<1>6. ASSUME NEW m \in Msgs, EnqueueFails(m) PROVE Answers'
  <2>1. /\ told[m] = "nothing" /\ phase[m] = "free" /\ early' = early
        /\ \/ phase' = [phase EXCEPT ![m] = "stored"] /\ told' = told
           \/ phase' = phase /\ told' = [told EXCEPT ![m] = "refused"]
    BY <1>6 DEF EnqueueFails, IsNew, NoticedInMessage, NoticedInBody, NotNoticed, Enter,
                Goto, Refuse, Tell, memoryVars
  <2> QED BY <2>1, <1>4
<1>7. ASSUME NEW m \in Msgs, FinalizeEnqueue(m) PROVE Answers'
  <2>1. /\ told' = [told EXCEPT ![m] = "queued"] /\ phase' = [phase EXCEPT ![m] = "free"]
        /\ early' = early \/ early' = early \cup {m}
    BY <1>7 DEF FinalizeEnqueue, Goto, Tell
  <2>2. told'[m] # "nothing"
    BY <1>1, <2>1
  <2> QED BY <2>1, <2>2, <1>4
<1>8. ASSUME NEW m \in Msgs, BeginRetrieve(m) PROVE Answers'
  <2>1. /\ told' = told /\ early' = early /\ phase[m] = "free"
        /\ \/ phase' = phase
           \/ phase' = [phase EXCEPT ![m] = "reading"]
           \/ phase' = [phase EXCEPT ![m] = "unread"]
    BY <1>8 DEF BeginRetrieve, Goto, historyVars
  <2> QED BY <2>1, <1>4
<1>9. ASSUME NEW m \in Msgs, CancelRetrieve(m) \/ CancelEnqueue(m) PROVE Answers'
  <2>1. told' = told /\ early' = early /\ phase' = [phase EXCEPT ![m] = "free"]
    BY <1>9 DEF CancelRetrieve, CancelEnqueue, RemoveMessage, Goto
  <2> QED BY <2>1, <1>4
<1>10. ASSUME NEW m \in Msgs, FinalizeRetrieve(m) PROVE Answers'
  <2>1. RemoveMessage(m) /\ (Tell(m, "removed") \/ Tell(m, "unseen"))
    BY <1>10 DEF FinalizeRetrieve
  <2>2. early' = early /\ phase' = [phase EXCEPT ![m] = "free"]
    BY <2>1 DEF RemoveMessage, Goto
  <2>3. \/ told' = [told EXCEPT ![m] = "removed"]
        \/ told' = [told EXCEPT ![m] = "unseen"]
    BY <2>1 DEF Tell
  <2>4. \E what \in Removed : told' = [told EXCEPT ![m] = what]
    BY <2>3 DEF Removed
  <2> QED BY <2>2, <2>4, <1>4
<1>11. ASSUME NEW f, Recover(f) PROVE Answers'
  BY <1>11, <1>3 DEF Recover
<1>12. CASE LateWrite \/ Replaced \/ UNCHANGED recordVars
  BY <1>12, <1>2 DEF LateWrite, Replaced, recordVars, memoryVars, historyVars
<1> QED BY <1>5, <1>6, <1>7, <1>8, <1>9, <1>10, <1>11, <1>12
        DEF RecordNext, Restart, DiesInEnqueue

(* Before the first fault a handle reaches the cursor it is for.           *)
LEMMA OwnHandle ==
  ASSUME FileInv, Flawless, faults = 0, NEW m \in Msgs, phase[m] # "free"
  PROVE  Reached(m) = {{m}} /\ m \in open
BY DEF Flawless, Reached

(* Before the first fault every entry has a record of its own to read.     *)
LEMMA FlawlessKept ==
  ASSUME FileInv, Flawless, faults = 0, NEW m \in Msgs, at[m] # 0
  PROVE  Kept(m)
<1>1. /\ phantom = {} /\ \A i \in DOMAIN file : ~ TornAt(file, i)
      /\ at[m] \in DOMAIN file /\ ~ file[at[m]].purged
  BY DEF Flawless, IsThere
<1>2. file[at[m]].msg = m
  BY <1>1 DEF FileInv, OwnRecord
<1>3. file[at[m]] \in RecordSet
  BY <1>1, Types DEF FileInv, OwnRecord
<1>4. file[at[m]] = Record(m, Whole)
  BY <1>1, <1>2, <1>3 DEF RecordSet, Record, TornAt
<1> QED BY <1>1, <1>4 DEF Kept, Sound

(* What was accepted early stays until its removal is answered.            *)
LEMMA StepKeepsEarly ==
  ASSUME FileInv, ClientInv, [RecordNext]_recordVars
  PROVE  EarlyKept'
<1>1. /\ early \subseteq Msgs /\ strayed \in BOOLEAN
      /\ told \in [Msgs -> {"nothing", "refused", "queued"} \cup Removed]
      /\ \A n \in early : told[n] # "nothing"
      /\ \A n \in Msgs : phase[n] = "stored" => told[n] = "nothing"
      /\ ~ strayed => \A n \in early : told[n] \in Removed \/ Kept(n)
  BY OtherTypes DEF FileInv, OwnRecord, ClientInv, Answers, EarlyKept
<1>2. ASSUME strayed' = strayed \/ strayed',
             \A n \in early' : \/ told'[n] \in Removed \/ Kept(n)'
                               \/ n \in early /\ told'[n] = told[n] /\ (Kept(n) => Kept(n)')
      PROVE  EarlyKept'
  BY <1>1, <1>2 DEF EarlyKept
<1>3. ASSUME early' = early, strayed' = strayed \/ strayed',
             \A n \in early : told'[n] = told[n], \A n \in Msgs : Kept(n) => Kept(n)'
      PROVE  EarlyKept'
  BY <1>1, <1>2, <1>3
<1>4. ASSUME NEW m \in Msgs, told[m] = "nothing",
             told' = told \/ told' = [told EXCEPT ![m] = "refused"]
      PROVE  \A n \in early : told'[n] = told[n]
  BY <1>1, <1>4
<1>5. ASSUME NEW m \in Msgs, Enqueue(m) PROVE EarlyKept'
  <2>1. /\ told[m] = "nothing" /\ UNCHANGED <<early, strayed>>
        /\ told' = told \/ told' = [told EXCEPT ![m] = "refused"]
    BY <1>5 DEF Enqueue, IsNew, Refuse, Tell, historyVars
  <2> QED BY <2>1, <1>3, <1>4, <1>5, EnqueueStep
<1>6. ASSUME NEW m \in Msgs, EnqueueFails(m) PROVE EarlyKept'
  <2>1. /\ told[m] = "nothing" /\ UNCHANGED <<early, strayed>>
        /\ told' = told \/ told' = [told EXCEPT ![m] = "refused"]
    BY <1>6 DEF EnqueueFails, IsNew, NoticedInMessage, NoticedInBody, NotNoticed, Refuse, Tell
  <2> QED BY <2>1, <1>3, <1>4, <1>6, EnqueueFailsStep
<1>7. ASSUME NEW m \in Msgs, FinalizeEnqueue(m) PROVE EarlyKept'
  <2>1. PICK who \in Reached(m) : strayed' = (strayed \/ \E o \in who : o # m)
    BY <1>7 DEF FinalizeEnqueue, Stray
  <2>2. /\ phase[m] = "stored" /\ told' = [told EXCEPT ![m] = "queued"]
        /\ early' = early \/ (faults = 0 /\ early' = early \cup {m})
    BY <1>7 DEF FinalizeEnqueue, Tell
  <2>3. m \notin early /\ \A n \in early : told'[n] = told[n]
    BY <1>1, <2>2
  <2>4. \A n \in Msgs : Kept(n) => Kept(n)'
    BY <1>7, FinalizeEnqueueStep
  <2>5. faults = 0 => Kept(m)
    BY <2>2, FlawlessKept DEF ClientInv, Flawless
  <2>6. strayed' = strayed \/ strayed'
    BY <2>1, <1>1
  <2> QED BY <1>1, <1>2, <2>2, <2>3, <2>4, <2>5, <2>6
<1>8. ASSUME NEW m \in Msgs, BeginRetrieve(m) \/ CancelRetrieve(m) PROVE EarlyKept'
  <2>1. early' = early /\ told' = told /\ (strayed' = strayed \/ strayed')
    BY <1>1, <1>8 DEF BeginRetrieve, CancelRetrieve, historyVars, Stray
  <2>2. \A n \in Msgs : Kept(n) => Kept(n)'
    BY <1>8, BeginRetrieveStep, CancelRetrieveStep
  <2> QED BY <2>1, <2>2, <1>3
<1>9. ASSUME NEW m \in Msgs, FinalizeRetrieve(m) \/ CancelEnqueue(m) PROVE EarlyKept'
  <2>1. RemoveMessage(m)
    BY <1>9 DEF FinalizeRetrieve, CancelEnqueue
  <2>2. PICK who \in Reached(m) : strayed' = (strayed \/ \E o \in who : o # m)
    BY <2>1 DEF RemoveMessage, Stray
  <2>3. early' = early
    BY <2>1 DEF RemoveMessage
  <2>4. \/ \E what \in Removed : told' = [told EXCEPT ![m] = what]
        \/ told' = told /\ m \notin early
    <3>1. CASE FinalizeRetrieve(m)
      BY <3>1 DEF FinalizeRetrieve, Tell, Removed
    <3>2. CASE CancelEnqueue(m)
      BY <3>2, <1>1 DEF CancelEnqueue
    <3> QED BY <1>9, <3>1, <3>2
  <2>5. told' \in [Msgs -> {"nothing", "refused", "queued"} \cup Removed]
    BY <1>1, <2>4
  <2>6. ~ strayed' => \A n \in Msgs : n # m /\ Kept(n) => Kept(n)'
    BY <2>1, <2>5, RemoveMessageStep
  <2>7. \A n \in early : told'[n] \in Removed \/ (n # m /\ told'[n] = told[n])
    BY <1>1, <2>4
  <2>8. strayed' = strayed \/ strayed'
    BY <1>1, <2>2
  <2> QED BY <1>1, <2>3, <2>6, <2>7, <2>8 DEF EarlyKept
<1>10. ASSUME NEW m \in Msgs, DiesInEnqueue(m) PROVE EarlyKept'
  <2>1. early' = early /\ told' = told /\ strayed' = strayed
    BY <1>10 DEF DiesInEnqueue, Recover
  <2> QED BY <2>1, <1>3, <1>10, DiesStep
<1>11. CASE LateWrite \/ Replaced \/ Restart
  <2>1. early' = early /\ told' = told /\ strayed' = strayed
    BY <1>11 DEF LateWrite, Replaced, Restart, Recover, historyVars
  <2>2. \A n \in Msgs : Kept(n) => Kept(n)'
    BY <1>11, LateWriteStep, ReplacedStep, RestartStep
  <2> QED BY <2>1, <2>2, <1>3
<1>12. CASE UNCHANGED recordVars
  <2>1. early' = early /\ told' = told /\ strayed' = strayed /\ UNCHANGED <<file, at, phantom>>
    BY <1>12 DEF recordVars, memoryVars, historyVars
  <2>2. \A n \in Msgs : Kept(n) => Kept(n)'
    BY <2>1 DEF Kept
  <2> QED BY <2>1, <2>2, <1>3
<1> QED BY <1>5, <1>6, <1>7, <1>8, <1>9, <1>10, <1>11, <1>12 DEF RecordNext

(* Until the first fault nothing is torn, and no handle is used that is    *)
(* not that of an open cursor.                                             *)
LEMMA StepKeepsFlawless ==
  ASSUME FileInv, ClientInv, [RecordNext]_recordVars
  PROVE  Flawless'
<1> SUFFICES ASSUME faults' = 0
    PROVE  /\ stream'.good /\ phantom' = {} /\ unmarked' = {} /\ \A i \in DOMAIN file' : ~ TornAt(file', i)
           /\ \A m \in Msgs : at'[m] # 0 => at'[m] \in DOMAIN file' /\ ~ file'[at'[m]].purged
           /\ \A m \in Msgs : phase'[m] # "free" => m \in open'
           /\ \A m \in Msgs : phase'[m] = "stored" => at'[m] # 0
  BY DEF Flawless, IsThere
<1>1. faults = 0 /\ faults' = faults
  <2>1. faults \in Nat
    BY OtherTypes DEF FileInv, OwnRecord
  <2>2. faults' = faults \/ faults' = faults + 1
    BY DEF RecordNext, Enqueue, EnqueueFails, FinalizeEnqueue, CancelEnqueue, BeginRetrieve,
           CancelRetrieve, FinalizeRetrieve, RemoveMessage, DiesInEnqueue, LateWrite,
           Replaced, Restart, Fault, recordVars
  <2> QED BY <2>1, <2>2
<1>2. /\ stream.good /\ phantom = {} /\ unmarked = {} /\ \A i \in DOMAIN file : ~ TornAt(file, i)
      /\ \A m \in Msgs : at[m] # 0 => at[m] \in DOMAIN file /\ ~ file[at[m]].purged
      /\ \A m \in Msgs : phase[m] # "free" => m \in open
      /\ \A m \in Msgs : phase[m] = "stored" => at[m] # 0
  BY <1>1 DEF ClientInv, Flawless, IsThere
<1>3. /\ RecordTypeOK /\ at \in [Msgs -> Nat]
      /\ phase \in [Msgs -> {"free", "stored", "reading", "unread"}]
      /\ faults \in Nat
      /\ NoStream.good /\ ToAppend.good /\ ToRead.good /\ stream.left = {}
  <2>1. RecordTypeOK
    BY DEF FileInv, OwnRecord
  <2>2. NoStream.good /\ ToAppend.good /\ ToRead.good /\ stream.left = {}
    BY <1>2 DEF NoStream, ToAppend, ToRead, Opened, FileInv, LeftInv
  <2> QED BY <2>1, <2>2, Types, OtherTypes
<1> DEFINE Goal == /\ stream'.good /\ phantom' = {} /\ unmarked' = {}
                   /\ \A i \in DOMAIN file' : ~ TornAt(file', i)
                   /\ \A m \in Msgs : at'[m] # 0 => at'[m] \in DOMAIN file' /\ ~ file'[at'[m]].purged
                   /\ \A m \in Msgs : phase'[m] # "free" => m \in open'
                   /\ \A m \in Msgs : phase'[m] = "stored" => at'[m] # 0
<1>4. CASE UNCHANGED <<file, at, phantom, unmarked, open, phase>> /\ stream'.good
  BY <1>2, <1>4
<1>5. ASSUME NEW m \in Msgs, file' = Append(file, Record(m, Whole)) PROVE
        /\ DOMAIN file' = DOMAIN file \cup {Len(file) + 1}
        /\ \A i \in DOMAIN file' : ~ TornAt(file', i)
        /\ \A i \in DOMAIN file : file'[i] = file[i]
        /\ file'[Len(file) + 1] = Record(m, Whole)
  <2>1. file \in Seq(RecordSet) /\ Record(m, Whole) \in RecordSet
    BY <1>3, Types, RecordType
  <2>2. /\ DOMAIN file' = DOMAIN file \cup {Len(file) + 1}
        /\ \A i \in DOMAIN file : file'[i] = file[i]
        /\ file'[Len(file) + 1] = Record(m, Whole)
    BY <2>1, <1>5, AppendProperties
  <2>3. Record(m, Whole).part = Whole
    BY DEF Record
  <2> QED BY <2>2, <2>3, <1>2 DEF TornAt
<1>6. ASSUME NEW m \in Msgs, Enqueue(m) PROVE Goal
  <2>1. CASE file' = Append(file, Record(m, Whole)) /\ Enter(m)
    <3>1. /\ at[m] = 0 /\ phantom' = phantom /\ unmarked' = unmarked /\ stream'.good
      BY <1>3, <1>6 DEF Enqueue, IsNew, historyVars
    <3>2. /\ at' = [at EXCEPT ![m] = Len(file) + 1]
          /\ open' = open \cup {m} /\ phase' = [phase EXCEPT ![m] = "stored"]
      BY <2>1 DEF Enter, Goto
    <3>3. Len(file) + 1 # 0 /\ ~ Record(m, Whole).purged
      BY <1>3, Types DEF Record
    <3>4. \A n \in Msgs : at'[n] = IF n = m THEN Len(file) + 1 ELSE at[n]
      BY <3>2, <1>3
    <3>5. \A n \in Msgs : at'[n] # 0 => at'[n] \in DOMAIN file' /\ ~ file'[at'[n]].purged
      BY <3>3, <3>4, <2>1, <1>2, <1>5
    <3>6. \A n \in Msgs : phase'[n] # "free" => n \in open'
      BY <3>2, <1>2, <1>3
    <3>7. \A n \in Msgs : phase'[n] = "stored" => at'[n] # 0
      BY <3>2, <3>3, <3>4, <1>2, <1>3
    <3> QED BY <3>1, <3>5, <3>6, <3>7, <2>1, <1>2, <1>5
  <2>2. CASE Refuse(m) /\ UNCHANGED file
    BY <1>3, <1>4, <1>6, <2>2 DEF Enqueue, Refuse, memoryVars, historyVars
  <2> QED BY <2>1, <2>2, <1>6 DEF Enqueue
<1>7. ASSUME NEW m \in Msgs, FinalizeEnqueue(m) \/ CancelRetrieve(m) PROVE Goal
  <2>1. phase[m] # "free"
    BY <1>7 DEF FinalizeEnqueue, CancelRetrieve
  <2>2. Reached(m) = {{m}}
    BY <2>1, <1>1, OwnHandle DEF ClientInv
  <2>3. /\ UNCHANGED <<file, stream, at, phantom, unmarked>>
        /\ open' = open \ {m} /\ phase' = [phase EXCEPT ![m] = "free"]
    BY <2>2, <1>7 DEF FinalizeEnqueue, CancelRetrieve, Goto
  <2> QED BY <2>3, <1>2, <1>3
<1>8. ASSUME NEW m \in Msgs, BeginRetrieve(m) PROVE Goal
  <2>1. /\ UNCHANGED <<file, at, phantom, unmarked>>
        /\ \/ UNCHANGED <<open, phase>>
           \/ /\ open' = open \cup {m}
              /\ phase' = [phase EXCEPT ![m] = "reading"] \/ phase' = [phase EXCEPT ![m] = "unread"]
    BY <1>8 DEF BeginRetrieve, Goto, historyVars
  <2>2. IsWhole(at[m])
    <3>1. at[m] # 0
      BY <1>8 DEF BeginRetrieve
    <3> QED BY <3>1, <1>2 DEF IsWhole, IsThere, TornAt
  <2>3. stream' = ToRead
    BY <2>2, <1>3, <1>8 DEF BeginRetrieve, ReadOutcomes
  <2> QED BY <2>1, <2>3, <1>2, <1>3
<1>9. ASSUME NEW m \in Msgs, FinalizeRetrieve(m) \/ CancelEnqueue(m) PROVE Goal
  <2>1. phase[m] # "free" /\ RemoveMessage(m)
    BY <1>9 DEF FinalizeRetrieve, CancelEnqueue
  <2>2. Reached(m) = {{m}} /\ m \in open
    BY <2>1, <1>1, OwnHandle DEF ClientInv
  <2>3. /\ phase' = [phase EXCEPT ![m] = "free"] /\ phantom' = phantom
        /\ Erases(m) /\ open' = open \ {m}
    BY <2>1, <2>2 DEF RemoveMessage, Erases, EraseMessage, Goto
  <2>4. at[m] # 0 /\ ToRead.good /\ at[m] \in DOMAIN file
    BY <2>2, <1>2, <1>3 DEF FileInv, Cursors
  <2>5. at' = [at EXCEPT ![m] = 0] /\ Entries' = Entries \ {m}
    BY <2>3, <2>4, Erased
  <2>6. \A n \in Msgs : phase'[n] # "free" => n \in open'
    BY <2>3, <1>2, <1>3
  <2>7. \A n \in Msgs : phase'[n] = "stored" => at'[n] # 0
    BY <2>3, <2>5, <1>2, <1>3
  <2>8. CASE Entries' = {} /\ file' = <<>> /\ stream' = NoStream /\ unmarked' = {}
    <3>1. \A n \in Msgs : at'[n] = 0
      BY <2>8 DEF Entries
    <3>2. DOMAIN file' = {}
      BY <2>8
    <3> QED BY <2>3, <2>6, <2>7, <2>8, <3>1, <3>2, <1>2, <1>3
  <2>9. CASE SameRecords(m) /\ stream'.good /\ unmarked' = unmarked \ {m}
    <3>1. /\ DOMAIN file' = DOMAIN file
          /\ \A i \in DOMAIN file : /\ file'[i].part = file[i].part
                                    /\ i # at[m] => file'[i] = file[i]
      BY <2>9 DEF SameRecords
    <3>2. \A i \in DOMAIN file' : ~ TornAt(file', i)
      BY <3>1, <1>2 DEF TornAt
    <3>3. ASSUME NEW n \in Msgs, at'[n] # 0
          PROVE  at'[n] \in DOMAIN file' /\ ~ file'[at'[n]].purged
      <4>1. n # m /\ at'[n] = at[n]
        BY <3>3, <2>5, <1>3
      <4>2. at[n] # at[m]
        <5>1. file[at[n]].msg = n /\ file[at[m]].msg = m
          BY <3>3, <4>1, <2>4, <1>2 DEF FileInv, OwnRecord
        <5> QED BY <5>1, <4>1
      <4> QED BY <3>1, <3>3, <4>1, <4>2, <1>2
    <3> QED BY <2>3, <2>6, <2>7, <2>9, <3>2, <3>3, <1>2
  <2> QED BY <2>3, <2>4, <2>8, <2>9, Erased
<1>10. ASSUME NEW m \in Msgs, EnqueueFails(m) \/ DiesInEnqueue(m) PROVE FALSE
  BY <1>1, <1>3, <1>10 DEF EnqueueFails, DiesInEnqueue, Fault
<1>11. CASE LateWrite
  BY <1>3, <1>11 DEF LateWrite
<1>12. CASE Restart
  <2>1. /\ file' = file /\ phantom' = {} /\ phase' = [m \in Msgs |-> "free"]
        /\ stream' = NoStream /\ unmarked' = unmarked
    BY <1>12 DEF Restart, Recover
  <2>2. \A n \in Msgs : at'[n] # 0 => at'[n] \in DOMAIN file /\ ~ file[at'[n]].purged
    BY <1>12, RestartStep
  <2> QED BY <2>1, <2>2, <1>2, <1>3
<1>13. CASE Replaced \/ UNCHANGED recordVars
  BY <1>2, <1>3, <1>4, <1>13 DEF Replaced, recordVars, memoryVars, historyVars
<1> QED BY <1>6, <1>7, <1>8, <1>9, <1>10, <1>11, <1>12, <1>13 DEF RecordNext
-----------------------------------------------------------------------------
(* The theorems.                                                           *)

RecordInv == FileInv /\ ClientInv

LEMMA RecordInvariant == RecordSpec => []RecordInv
<1>1. ASSUME RecordInit PROVE RecordInv
  <2>1. /\ file = <<>> /\ stream = NoStream
        /\ at = [m \in Msgs |-> 0] /\ hidden = {} /\ util = 0 /\ open = {}
        /\ phase = [m \in Msgs |-> "free"] /\ told = [m \in Msgs |-> "nothing"]
        /\ early = {} /\ phantom = {} /\ erased = {} /\ unmarked = {} /\ strayed = FALSE
        /\ faults = 0
    BY <1>1 DEF RecordInit
  <2>2. DOMAIN file = {} /\ file \in Seq(RecordSet)
    BY <2>1
  <2>3. \A m \in Msgs : at[m] = 0
    BY <2>1
  <2>4. RecordTypeOK
    <3>1. {m \in Msgs : at[m] # 0} = {}
      BY <2>3
    <3>2. util = Cardinality({m \in Msgs : at[m] # 0})
      BY <2>1, <3>1, FS_EmptySet
    <3>3. stream \in StreamSet /\ at \in [Msgs -> Nat]
      BY <2>1 DEF StreamSet, NoStream, Opened
    <3>4. told \in [Msgs -> {"nothing", "refused", "queued"} \cup Removed]
      BY <2>1
    <3>5. hidden \cup open \cup phantom \cup early \cup erased \cup unmarked \subseteq Msgs
      BY <2>1
    <3>6. phase \in [Msgs -> {"free", "stored", "reading", "unread"}]
      BY <2>1
    <3>7. faults \in 0 .. MaxFaults
      BY <2>1, RecordAssumption
    <3>8. strayed \in BOOLEAN
      BY <2>1
    <3> QED BY <2>2, <3>2, <3>3, <3>4, <3>5, <3>6, <3>7, <3>8 DEF RecordTypeOK, RecordSet, StreamSet
  <2>5. OwnRecord /\ EntryFirst /\ ErasedGone /\ Cursors /\ RepeatedTorn(file)
    BY <2>1, <2>2, <2>3, <2>4 DEF OwnRecord, EntryFirst, ErasedGone, Cursors, RepeatedTorn
  <2>6. LeftInv
    BY <2>1 DEF LeftInv, NoStream, Opened
  <2>7. EarlyKept /\ Answers
    BY <2>1 DEF EarlyKept, Answers
  <2>8. Flawless
    BY <2>1, <2>2, <2>3 DEF Flawless, NoStream, Opened
  <2> QED BY <2>5, <2>6, <2>7, <2>8 DEF RecordInv, FileInv, ClientInv
<1>2. ASSUME RecordInv, [RecordNext]_recordVars PROVE RecordInv'
  <2>1. FileInv /\ ClientInv
    BY <1>2 DEF RecordInv
  <2>2. FileInv'
    BY <1>2, <2>1, StepKeepsFile
  <2>3. EarlyKept' /\ Flawless' /\ Answers'
    BY <1>2, <2>1, StepKeepsEarly, StepKeepsFlawless, StepKeepsAnswers DEF ClientInv
  <2> QED BY <2>2, <2>3 DEF RecordInv, ClientInv
<1> QED BY <1>1, <1>2, PTL DEF RecordSpec

(* A message gets no other's record, but where one was not written and     *)
(* nobody noticed: over failures that are noticed and over every restart   *)
(* the entries of the index and the records of the file stay in step.      *)
THEOREM EntriesAndRecordsInStep == RecordSpec => []OwnRecord
<1>1. RecordInv => OwnRecord
  BY DEF RecordInv, FileInv
<1> QED BY <1>1, RecordInvariant, PTL

(* What was accepted before any write failed outlives every failure and    *)
(* restart after it, until its removal is answered.                        *)
THEOREM AcceptedBeforeFaultsKept == RecordSpec => []KeptBefore
<1>1. RecordInv => KeptBefore
  BY DEF RecordInv, ClientInv, EarlyKept, Kept, Sound, KeptBefore, IsThere
<1> QED BY <1>1, RecordInvariant, PTL

(* A message comes back at a restart only if it was erased while its       *)
(* record could not be marked, and that takes a write that has failed.     *)
THEOREM RemovalIsForGood == RecordSpec => []ErasedStays
<1>1. RecordInv => ErasedStays
  BY DEF RecordInv, FileInv, ClientInv, ErasedGone, Flawless, ErasedStays
<1> QED BY <1>1, RecordInvariant, PTL
=============================================================================
