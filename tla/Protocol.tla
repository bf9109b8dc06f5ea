------------------------------ MODULE Protocol ------------------------------
(***************************************************************************)
(* One connection between a client library and the server, byte runs in    *)
(* both directions.  ServiceThread::run() takes a command byte, looks the  *)
(* command up, reads its parameters and writes its answer; the library     *)
(* writes the request of a call and reads the answer.  Nothing marks the   *)
(* end of a request or of an answer: each end has to know how many bytes   *)
(* the other one sent, and in which order the integers are.                *)
(*                                                                         *)
(* A run in a channel is a field as it was written: its name, its bytes,   *)
(* the order its integer is in, and its value where that matters (the      *)
(* handles, the code and the fields that decide how long the rest is).  A  *)
(* handle is 1 when it means what the server gave out, 2 when its bytes    *)
(* are reversed.                                                           *)
(***************************************************************************)
EXTENDS WireItems, FiniteSetsExt

CONSTANTS HandlerOf,  \* what the server reads and writes for each command
          IdOf,       \* the numbers of its commands
          CallsOf,    \* of each library: what its calls write and read
          IdsOf,      \* and the numbers it uses
          Machines,   \* the byte orders of the machines: "big", "little"
          MaxCount,   \* at most so many entries in a list
          Lengths,    \* the lengths announced for texts
          BodySizes,  \* the sizes of message bodies
          Lengthening \* how many bytes more than characters a text may have

Libraries == DOMAIN CallsOf

\* The codes the two ends act on; EC_ERROR stands for every other one.
EC_NOERROR == 0
EC_NOTIMPLEMENTED == 16
EC_UNSUPPORTED_PROTOCOL == 22
EC_ERROR == 10000

VARIABLES library, clientOrder, serverOrder,  \* who is connected, fixed for good
          toServer, toClient,                 \* the bytes under way
          stage,                              \* of the client: see Stages
          call,                               \* the call it is in
          held,                               \* the handles it was given
          serving                             \* the server has not closed the connection

ends == <<library, clientOrder, serverOrder>>
vars == <<library, clientOrder, serverOrder, toServer, toClient, stage, call, held, serving>>

\* "lost": an end has taken bytes for something they are not, or left some.
Stages == {"start", "ready", "sent", "lost", "closed"}
NoCall == [method |-> "none", asked |-> 0, accented |-> 0]
NoHandles == [queue |-> 0, from |-> "none", cursor |-> 0]

Init ==
  /\ library \in Libraries
  /\ clientOrder \in IF library \in {"Java", ".NET"} THEN {"big"} ELSE Machines
  /\ serverOrder \in Machines
  /\ toServer = <<>> /\ toClient = <<>>
  /\ stage = "start" /\ call = NoCall /\ held = NoHandles
  /\ serving = TRUE

-----------------------------------------------------------------------------
(* Fields on the wire *)

HandleNames == {"queueID", "cursorID"}
Flip(handle) == 3 - handle
NoValues == [name \in Control \cup {"extra"} |-> 0]

\* The fields of a layout as an end of byte order "order" writes them.
Written(layout, order, v) ==
  LET Field(run, entry) ==
        [name |-> run.name, bytes |-> run.bytes, entry |-> entry,
         order |-> CASE run.order = "net"  -> "big"
                     [] run.order = "host" -> order
                     [] OTHER -> "bytes",
         val |-> IF run.name \in DOMAIN v THEN v[run.name] ELSE 1]
  IN [i \in DOMAIN layout |->
        Field(layout[i], [k \in DOMAIN layout[i].entry |-> Field(layout[i].entry[k], <<>>)])]

\* The lengths and counts a reader meets in a channel.
ValuesIn(channel) ==
  LET fields == UNION {{channel[i]} \cup Range(channel[i].entry) : i \in DOMAIN channel}
      At(name) == {field \in fields : field.name = name}
  IN [name \in Control |-> IF At(name) = {} THEN 0 ELSE (CHOOSE field \in At(name) : TRUE).val]
     @@ [extra |-> 0]

\* The reader takes the integer for one in the other byte order.
Reversed(field, run, order) ==
  /\ run.order # "bytes"
  /\ run.order # IF field.order = "net" THEN "big" ELSE order

Understood(field, run, order) ==
  /\ field.name = run.name /\ field.bytes = run.bytes
  /\ (field.order \in {"net", "host"}) = (run.order # "bytes")
  /\ Reversed(field, run, order) => run.val = 0 \/ field.name \in HandleNames

UnderstoodWhole(field, run, order) ==
  /\ Understood(field, run, order)
  /\ Len(field.entry) = Len(run.entry)
  /\ \A k \in DOMAIN field.entry : Understood(field.entry[k], run.entry[k], order)

\* What becomes of reading "layout" at the head of a channel.
Verdict(layout, channel, order) ==
  CASE \E i \in DOMAIN layout \cap DOMAIN channel : ~UnderstoodWhole(layout[i], channel[i], order) -> "lost"
    [] Len(channel) < Len(layout) -> "wait"
    [] OTHER -> "read"

\* The handle in a run, as the reader understands it; 0 when it has none.
Handle(name, layout, channel, order) ==
  LET at == {i \in DOMAIN layout : layout[i].name = name}
  IN IF at = {} THEN 0
     ELSE LET i == Min(at)
          IN IF Reversed(layout[i], channel[i], order) THEN Flip(channel[i].val) ELSE channel[i].val

Rest(channel, n) == SubSeq(channel, n + 1, Len(channel))
Size == <<Net("size")>>

-----------------------------------------------------------------------------
(* The client *)

RowOf(method) == CallsOf[library][method]
Internal == {"MQConnection", "ackRetrieve", "ackRetrieveCursor"}
Identity(row) == \E i \in DOMAIN row.sends : row.sends[i].kind = "text"

\* The request as it is written: the length before the parameters counts
\* characters, the texts may have more bytes.
Request(row, v) ==
  LET announced == Bytes(Layout(row.sends, [v EXCEPT !.extra = 0]))
  IN Written(<<[name |-> "command", bytes |-> 1, order |-> "bytes", entry |-> <<>>]>>
             \o (IF row.sized THEN RunsOf(Size, v) ELSE <<>>) \o Layout(row.sends, v), clientOrder,
             v @@ [command |-> IdsOf[library][row.cmd], size |-> announced,
                   queueID |-> held.queue, cursorID |-> held.cursor])

Sends(method, v) ==
  /\ call' = [method |-> method, asked |-> v.retrievebody, accented |-> v.extra]
  /\ toServer' = toServer \o Request(RowOf(method), v)
  /\ stage' = "sent"

\* The constructor logs in.
Connect ==
  /\ stage = "start"
  /\ Sends("MQConnection", NoValues)
  /\ UNCHANGED <<library, clientOrder, serverOrder, toClient, held, serving>>

\* A program uses the handles it was given, and keeps one of each at a time.
MayCall(row) ==
  /\ Has(row.sends, "queueID") => held.queue # 0
  /\ Has(row.sends, "cursorID") => held.cursor # 0
  /\ Has(row.rest, "queueID") => held.queue = 0
  /\ Has(row.rest, "cursorID") => held.cursor = 0

CallServer ==
  /\ stage = "ready"
  /\ \E method \in DOMAIN CallsOf[library] \ Internal :
       /\ MayCall(RowOf(method))
       /\ \E asked \in IF Has(RowOf(method).sends, "retrievebody") THEN {0, 1} ELSE {0},
             size \in IF Has(RowOf(method).sends, "BodySize") THEN BodySizes ELSE {0},
             len \in IF Identity(RowOf(method)) THEN Lengths ELSE {0},
             extra \in IF Identity(RowOf(method)) /\ library \in {"Java", ".NET"}
                       THEN {0, Lengthening} ELSE {0} :
            Sends(method, [NoValues EXCEPT !.retrievebody = asked, !.BodySize = size, !.extra = extra,
                                           !.subjectLen = len, !.issuerLen = len, !.userLen = len])
  /\ UNCHANGED <<library, clientOrder, serverOrder, toClient, held, serving>>

-----------------------------------------------------------------------------
(* The server *)

\* CommandFactory::build() on the byte that was read
Known(id) == \E cmd \in DOMAIN HandlerOf : IdOf[cmd] = id
CommandOf(id) == CHOOSE cmd \in DOMAIN HandlerOf : IdOf[cmd] = id

Requested == serving /\ toServer # <<>>
Parameters(row) == (IF row.sized = "none" THEN <<>> ELSE RunsOf(Size, NoValues))
                   \o Layout(row.reads, ValuesIn(Rest(toServer, 1)))
Sized(row) == Bytes(Layout(row.reads, ValuesIn(Rest(toServer, 1))))

\* evalsize(): the length does not fit the struct.
Mismatch(row) == row.sized = "checked" /\ Len(toServer) > 1 /\ toServer[2].name = "size"
                 /\ toServer[2].val # Sized(row)

Found(layout, channel) ==
  /\ Handle("queueID", layout, channel, serverOrder) \in {0, 1}
  /\ Handle("cursorID", layout, channel, serverOrder) \in {0, 1}

Answer(layout, v) == toClient' = toClient \o Written(Layout(layout, v), serverOrder, v)
Code(code) == Answer(<<Net("errorcode")>>, NoValues @@ [errorcode |-> code])

\* One command: readRequest(), perform() and writeResponse().  A handle the
\* server does not know is an error; any other outcome is one of the queues,
\* users and groups.  Everything in the answer is as long as the program likes.
Serve ==
  /\ Requested /\ Known(toServer[1].val)
  /\ LET cmd == CommandOf(toServer[1].val)
         row == HandlerOf[cmd]
         request == Parameters(row)
         channel == Rest(toServer, 1)
     IN /\ ~Mismatch(row)
        /\ Verdict(request, channel, serverOrder) = "read"
        /\ toServer' = Rest(channel, Len(request))
        /\ \/ row.fails /\ Code(EC_ERROR)
           \/ /\ Found(request, channel)
              /\ \E n \in IF \E i \in DOMAIN row.answer : row.answer[i].kind = "each"
                         THEN 0 .. MaxCount ELSE {0},
                   len \in IF HasText(row.answer) THEN Lengths ELSE {0},
                   size \in IF Has(row.answer, "BodySize") THEN BodySizes ELSE {0} :
                   Answer(row.answer,
                          [retrievebody |-> ValuesIn(channel).retrievebody, BodySize |-> size,
                           errorcode |-> EC_NOERROR, extra |-> 0, queueID |-> 1, cursorID |-> 1,
                           nQueues |-> n, nUsers |-> n, nGroups |-> n, nPerms |-> n, count |-> n,
                           subjectLen |-> len, issuerLen |-> len, userLen |-> len, nameLen |-> len])
  /\ UNCHANGED <<library, clientOrder, serverOrder, stage, call, held, serving>>

\* The parameters are consumed by the length that came with them, and the
\* connection is closed.
RefuseSize ==
  /\ Requested /\ Known(toServer[1].val) /\ Mismatch(HandlerOf[CommandOf(toServer[1].val)])
  /\ toServer' = <<>>
  /\ Code(EC_UNSUPPORTED_PROTOCOL)
  /\ serving' = FALSE
  /\ UNCHANGED <<library, clientOrder, serverOrder, stage, call, held>>

\* A command the server has no handler for: its parameters are skipped.
UnknownMessage ==
  /\ Requested /\ ~Known(toServer[1].val)
  /\ Len(toServer) > 1
  /\ toServer' = <<>>
  /\ Code(EC_NOTIMPLEMENTED)
  /\ UNCHANGED <<library, clientOrder, serverOrder, stage, call, held, serving>>

\* The server takes the bytes for another request than was sent.
Misread ==
  /\ Requested /\ Known(toServer[1].val)
  /\ LET row == HandlerOf[CommandOf(toServer[1].val)]
         channel == Rest(toServer, 1)
     IN /\ ~Mismatch(row)
        /\ Verdict(Parameters(row), channel, serverOrder) = "lost"
  /\ stage' = "lost"
  /\ UNCHANGED <<library, clientOrder, serverOrder, toServer, toClient, call, held, serving>>

-----------------------------------------------------------------------------
(* The client reads the answer *)

\* What is read when the code is EC_NOERROR
Expected ==
  LET v == [ValuesIn(toClient) EXCEPT !.retrievebody = call.asked]
  IN Layout(<<Net("errorcode")>> \o RowOf(call.method).rest, v)
CodeRead == toClient[1].val

\* The handles after an answer: MQConnection keeps none, the program does.
Given(row) ==
  CASE Has(row.rest, "queueID") ->
         [held EXCEPT !.queue = Handle("queueID", Expected, toClient, clientOrder), !.from = row.cmd]
    [] Has(row.rest, "cursorID") ->
         [held EXCEPT !.cursor = Handle("cursorID", Expected, toClient, clientOrder)]
    [] row.cmd = "QUEUE_CLOSE"  -> NoHandles
    [] row.cmd = "CLOSE_CURSOR" -> [held EXCEPT !.cursor = 0]
    [] OTHER -> held

\* A field is taken with a single read, which may return with less.
ReadsSome == HasItem(RowOf(call.method).rest, LAMBDA item : item.order = "some")

ReadAnswer ==
  /\ stage = "sent" /\ toClient # <<>>
  /\ CodeRead = EC_NOERROR
  /\ Verdict(Expected, toClient, clientOrder) = "read"
  /\ toClient' = Rest(toClient, Len(Expected))
  /\ held' = Given(RowOf(call.method))
  /\ IF RowOf(call.method).ack = "none"
     THEN stage' = "ready" /\ UNCHANGED <<toServer, call>>
     ELSE Sends(RowOf(call.method).ack, NoValues)
  /\ UNCHANGED <<library, clientOrder, serverOrder, serving>>

\* A code is the whole of an answer that is an error.  Without a login, or when
\* the server has closed the connection, there is no call after it.
ReadError ==
  /\ stage = "sent" /\ toClient # <<>>
  /\ CodeRead # EC_NOERROR
  /\ ~Reversed(Net("errorcode"), toClient[1], clientOrder)
  /\ toClient' = Rest(toClient, 1)
  /\ stage' = IF call.method = "MQConnection" \/ ~serving THEN "closed" ELSE "ready"
  /\ UNCHANGED <<library, clientOrder, serverOrder, toServer, call, held, serving>>

\* The client takes the bytes for another answer, or Read() returns with less
\* than it was asked for and the next field is read from the middle of this one.
LoseStep ==
  /\ stage = "sent" /\ toClient # <<>>
  /\ \/ CodeRead = EC_NOERROR /\ Verdict(Expected, toClient, clientOrder) = "lost"
     \/ CodeRead # EC_NOERROR /\ Reversed(Net("errorcode"), toClient[1], clientOrder)
     \/ /\ CodeRead = EC_NOERROR /\ Verdict(Expected, toClient, clientOrder) = "read"
        /\ ReadsSome
  /\ stage' = "lost"
  /\ UNCHANGED <<library, clientOrder, serverOrder, toServer, toClient, call, held, serving>>

Next ==
  \/ Connect \/ CallServer
  \/ Serve \/ RefuseSize \/ UnknownMessage \/ Misread
  \/ ReadAnswer \/ ReadError \/ LoseStep

Spec == Init /\ [][Next]_vars

-----------------------------------------------------------------------------
(* Correctness *)

TypeOK ==
  /\ library \in Libraries /\ {clientOrder, serverOrder} \subseteq {"big", "little"}
  /\ stage \in Stages /\ serving \in BOOLEAN
  /\ held.queue \in 0 .. 2 /\ held.cursor \in 0 .. 2
  /\ call.method \in {"none"} \cup DOMAIN CallsOf[library]

(* The two ends stay in step.  Between two calls nothing is left in either   *)
(* direction, whatever was called, answered or refused (ServiceThread.cpp    *)
(* 176-231): a field too few or too many on one side would turn up as the    *)
(* first byte of the next request or answer.  They lose each other only where *)
(* a text is longer than the length announced for it (params.java:551,       *)
(* params.cs:428) or where a read may end early (params.cs:405, :535, :558   *)
(* and MQConnection.cs:1277).                                                *)
InStep ==
  /\ TypeOK
  /\ stage = "ready" => toServer = <<>> /\ toClient = <<>>
  /\ stage = "lost" => \/ call.accented > 0
                       \/ library = ".NET" /\ ReadsSome

(* A handle the server gave out finds its queue and its cursor when it comes *)
(* back, although neither end converts all handles: OPEN_QUEUE_RESPOSNE and  *)
(* the parameters carry them as they lie in memory, and only what is carried *)
(* both ways alike comes back as it was.  Between machines of different byte *)
(* order the handle of a temporary queue (server_operators.h:621 converts    *)
(* it) works for nothing but its statistics, and that of any other queue for *)
(* everything but its statistics (server_operators.h:443).                   *)
HandlesComeBack ==
  Requested /\ Known(toServer[1].val) =>
    LET cmd == CommandOf(toServer[1].val)
        request == Parameters(HandlerOf[cmd])
    IN Verdict(request, Rest(toServer, 1), serverOrder) = "read" =>
         \/ Found(request, Rest(toServer, 1))
         \/ /\ clientOrder # serverOrder
            /\ (held.from = "QUEUE_CREATE_TEMP") # (cmd = "QUEUE_STATS")

\* More bytes have to come before an end goes on.
ServerWaits ==
  \/ ~Requested
  \/ ~Known(toServer[1].val) /\ Len(toServer) = 1
  \/ /\ Known(toServer[1].val)
     /\ LET row == HandlerOf[CommandOf(toServer[1].val)]
        IN ~Mismatch(row) /\ Verdict(Parameters(row), Rest(toServer, 1), serverOrder) = "wait"
ClientWaits ==
  \/ toClient = <<>>
  \/ CodeRead = EC_NOERROR /\ Verdict(Expected, toClient, clientOrder) = "wait"

\* Where the caller does not want the body, Read() of the .NET library waits
\* for it (QueueMessage.cs:296).
BodyNotComing ==
  library = ".NET" /\ call.asked = 0 /\ Has(RowOf(call.method).rest, "BodySize")

(* The two ends never wait for each other: in a call either the server has a *)
(* whole request or the library the next field of the answer.  Each decides   *)
(* by itself how many bytes are to come: from a struct, a length it was sent, *)
(* or whether a body was asked for (MQConnection.cpp:390).                    *)
SomebodyMoves == stage = "sent" => ~ServerWaits \/ ~ClientWaits \/ BodyNotComing
=============================================================================
