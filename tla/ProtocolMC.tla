----------------------------- MODULE ProtocolMC -----------------------------
(***************************************************************************)
(* The instance of Protocol for TLC: the server of this repository and its *)
(* libraries.  "later" is a later release of the C++ one, with a command   *)
(* more and a struct longer.                                               *)
(***************************************************************************)
EXTENDS Protocol, TLC

Server == INSTANCE ServerProtocol
Cpp    == INSTANCE CppClient
Java   == INSTANCE JavaClient
DotNet == INSTANCE DotNetClient

\* The tables of the server, evaluated once.
HandlerTable == LET handlers == Server!Handlers IN handlers
NumberTable  == LET ids == Server!Ids IN ids

LibraryCalls ==
  LET Name == Chars("queuename", 1024)
      later == [Ping |-> Call("PING", TRUE, <<Chars("nonce", 16)>>, <<>>, "none"),
                CreateQueue |-> Call("QUEUE_CREATE", TRUE, <<Name, Chars("owner", 20)>>, <<>>, "none")]
               @@ Cpp!Calls
  IN ("C++" :> Cpp!Calls) @@ ("Java" :> Java!Calls) @@ (".NET" :> DotNet!Calls)
     @@ ("later" :> later)
LibraryIds == ("C++" :> Cpp!Ids) @@ ("Java" :> Java!Ids) @@ (".NET" :> DotNet!Ids)
              @@ ("later" :> ([PING |-> 104] @@ Cpp!Ids))

TextLengths == {1, 3}
Sizes == {0, 5}
=============================================================================
