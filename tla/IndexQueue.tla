----------------------------- MODULE IndexQueue -----------------------------
(***************************************************************************)
(* The in-memory index of one queue, ra_priority_queue in                  *)
(* src/shared/randpq.h: a list of entries, and cursors into it that other  *)
(* operations may move or invalidate.                                      *)
(*                                                                         *)
(* A C++ cursor is a reference-counted position shared with its copies.    *)
(* The only position ever changed while it is shared is the one of         *)
(* m_begin (begin() resets it in place, every other writer duplicates it   *)
(* first), so a cursor is here either Tied, sharing that position, or a    *)
(* value of its own: an entry, End, or Invalid.                            *)
(***************************************************************************)
EXTENDS Integers, SequencesExt

CONSTANTS
    Msgs,      \* the messages, each standing for its MessageID
    Priority,  \* the priority of each message
    End,       \* the position behind the last entry, m_storage.end()
    Invalid,   \* a position whose entry has been erased
    Tied,      \* a cursor sharing the position of m_begin
    Closed     \* a handle that is not in the map of open cursors

ASSUME IndexAssumption ==
    /\ IsFiniteSet(Msgs)
    /\ Priority \in [Msgs -> Nat]
    /\ {End, Invalid, Tied, Closed} \cap Msgs = {}
    /\ End # Invalid /\ End # Tied /\ End # Closed
    /\ Invalid # Tied /\ Invalid # Closed /\ Tied # Closed

Positions == Msgs \cup {End, Invalid}
Cursors == Positions \cup {Tied}

(* Mutant of LowerBound: past the entries of the same priority as well.    *)
LowerBoundLifo(q, m) == SelectLastInSeq(q, LAMBDA n : Priority[n] > Priority[m])

(* How many entries stay in front of m: lower_bound walks back from the    *)
(* end past every entry of a lower priority.                               *)
LowerBound(q, m) == SelectLastInSeq(q, LAMBDA n : Priority[n] >= Priority[m])

Insert(q, m) == InsertAt(q, LowerBound(q, m) + 1, m)

IndexOf(q, m) == CHOOSE i \in DOMAIN q : q[i] = m

Erase(q, m) == RemoveAt(q, IndexOf(q, m))

EntryAt(q, i) == IF i \in DOMAIN q THEN q[i] ELSE End

Foremost(q) == EntryAt(q, 1)

Successor(q, m) == EntryAt(q, IndexOf(q, m) + 1)

(* The first entry, from the one at p on, that satisfies Test, else End.   *)
FirstFrom(q, p, Test(_)) ==
    IF p \in Range(q)
    THEN EntryAt(q, SelectInSubSeq(q, IndexOf(q, p), Len(q), Test))
    ELSE End

(* A position once the entry m is erased: invalidate() marks every         *)
(* position that is still valid and stands on m.                           *)
Invalidated(p, m) == IF p = m THEN Invalid ELSE p

(* The order the index promises: higher priorities first, and in one       *)
(* priority the order given by Before.                                     *)
Ordered(q, Before(_, _)) ==
    \A i, j \in DOMAIN q : i < j =>
        \/ Priority[q[i]] > Priority[q[j]]
        \/ Priority[q[i]] = Priority[q[j]] /\ Before(q[i], q[j])
=============================================================================
