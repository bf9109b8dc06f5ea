----------------------------- MODULE WireItems -----------------------------
(***************************************************************************)
(* How a request or an answer is described: a sequence of items in the     *)
(* order in which they are written or read.                                *)
(*                                                                         *)
(* An item carries what decides whether two ends understand each other:    *)
(* the member it holds, how many bytes it takes, and the byte order it is  *)
(* in.  "net" is network order, "host" the order of the machine that       *)
(* writes or reads, "bytes" has none; "some" is read by a call that may    *)
(* return before all the bytes are there.                                  *)
(***************************************************************************)
EXTENDS Integers, Sequences, SequencesExt

Item(kind, name, bytes, order, by, items) ==
  [kind |-> kind, name |-> name, bytes |-> bytes, order |-> order, by |-> by, items |-> items]

Chars(name, bytes) == Item("field", name, bytes, "bytes", "none", <<>>)
Some(name, bytes)  == Item("field", name, bytes, "some", "none", <<>>)
Host(name)         == Item("field", name, 4, "host", "none", <<>>)
Net(name)          == Item("field", name, 4, "net", "none", <<>>)
NetShort(name)     == Item("field", name, 2, "net", "none", <<>>)
\* As many bytes as the field "by" announces, read whole or by one call.
Text(name, by)     == Item("text", name, 0, "bytes", by, <<>>)
SomeText(name, by) == Item("text", name, 0, "some", by, <<>>)
\* "items" once for each of as many entries as the field "by" says.
Each(by, items)    == Item("each", "entries", 0, "bytes", by, items)
\* The body of a message: BodySize bytes, always or when it was asked for.
Body               == Item("body", "body", 0, "bytes", "always", <<>>)
BodyIfAsked        == Item("body", "body", 0, "bytes", "asked", <<>>)

\* The fields that decide how long the rest is.
Control == {"nQueues", "nUsers", "nGroups", "nPerms", "count",
            "subjectLen", "issuerLen", "userLen", "nameLen", "BodySize", "retrievebody"}

\* How many bytes an item stands for under the values of the control fields;
\* of "each" how many entries.  Texts are v.extra bytes longer than the length
\* announced for them.
Extent(item, v) ==
  CASE item.kind = "text" -> IF v[item.by] = 0 THEN 0 ELSE v[item.by] + v.extra
    [] item.kind = "body" -> IF item.by = "asked" /\ v.retrievebody = 0 THEN 0 ELSE v.BodySize
    [] item.kind = "each" -> v[item.by]
    [] OTHER -> item.bytes

\* The runs of bytes of a struct; those of "each" are alike, and one entry
\* stands for all of them.
RunsOf(items, v) ==
  LET Run(item, entry) ==
        [name |-> item.name, bytes |-> Extent(item, v), order |-> item.order, entry |-> entry]
  IN [i \in DOMAIN items |->
        Run(items[i], [k \in DOMAIN items[i].items |-> Run(items[i].items[k], <<>>)])]

Layout(items, v) == SelectSeq(RunsOf(items, v), LAMBDA run : run.bytes > 0)

Bytes(layout) == FoldLeft(LAMBDA n, run : n + run.bytes, 0, layout)

\* Some item of a struct, or of its entries, passes the test.
HasItem(items, Test(_)) ==
  \E i \in DOMAIN items : Test(items[i]) \/ \E k \in DOMAIN items[i].items : Test(items[i].items[k])
Has(items, name) == HasItem(items, LAMBDA item : item.name = name)
HasText(items)   == HasItem(items, LAMBDA item : item.kind = "text")
\* A call of a client library: the command, whether the length of the
\* parameters is sent before them, what is read after the code EC_NOERROR, and
\* the call that follows a retrieval.
Call(cmd, sized, sends, rest, ack) ==
  [cmd |-> cmd, sized |-> sized, sends |-> sends, rest |-> rest, ack |-> ack]
=============================================================================
