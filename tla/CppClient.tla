------------------------------ MODULE CppClient ------------------------------
(***************************************************************************)
(* What the C++ library writes and reads in each call: the operators of    *)
(* src/lib/client_operators.h and the methods of src/lib/MQConnection.cpp. *)
(*                                                                         *)
(* A call writes its command byte, the length of its parameters if it has  *)
(* any (sized) and the parameters; it reads the code (getResponseCode())   *)
(* and, when that is EC_NOERROR, the rest; after a retrieval it makes the  *)
(* call ack.                                                               *)
(***************************************************************************)
EXTENDS WireStructs

\* The members each operator<< converts with htonl().
AccountConverts ==
  [LOGIN_PARAMS |-> {"major_version", "minor_version"},
   ENQUEUE_PARAMS |-> {"TimeStamp", "TimeToLiveSeconds", "BodySize"}]
  @@ [s \in DOMAIN AccountParams |-> {}]

QueueConverts ==
  [s \in {"QUEUE_OPEN_QUEUE_DELETE_QUEUE_CREATE_QUEUE_ENUM_PERMS_PARAMS",
          "QUEUE_SET_USER_PERMS_PARAMS", "QUEUE_DEL_USER_PERMS_PARAM",
          "QUEUE_SET_GROUP_PERMS_PARAMS", "QUEUE_DEL_GROUP_PERMS_PARAM"} |-> {}]

MessageConverts ==
  [QUEUE_CLOSE_OPEN_CURSOR_PARAMS |-> {},
   RETRIEVE_PEEK_FRONT_PARAMS |-> {"timeoutseconds"},
   RETRIEVE_ACK_PARAMS |-> {},
   RETRIEVE_ID_PEEK_ID_PARAMS |-> {"timeoutseconds"},
   PEEK_CURSOR_RETRIEVE_CURSOR_PARAMS |-> {},
   CLOSE_CURSOR_ADVANCE_CURSOR_TEST_CURSOR_PARAMS |-> {},
   SEEK_ID_PARAMS |-> {"timeoutseconds"}]

IdentityConverts ==
  [QUEUE_STATS_PARAMS |-> {"queueID"}]
  @@ [s \in DOMAIN IdentityParams |-> {"subjectLen", "issuerLen", "userLen"}]

Sends(struct) ==
  Image(Params[struct],
        (AccountConverts @@ QueueConverts @@ MessageConverts @@ IdentityConverts)[struct])

\* What the operators >> take from an answer after its code.
LOGIN_RESPONSE == <<Net("major_version"), Net("minor_version")>>
ENQUEUE_RESPONSE_DATA == <<Chars("msgID", 16), Net("timestamp")>>
X509Identities ==
  << Net("count"),
     Each("count", <<Net("subjectLen"), Text("subjectDN", "subjectLen"),
                     Net("issuerLen"), Text("issuerDN", "issuerLen")>>) >>
QUEUE_CREATE_TEMP_RESPONSE ==
  <<Net("queueID"), Net("nameLen"), Text("queueName", "nameLen")>>
CLIENT_INFO_RESPONSE ==
  << Net("count"),
     Each("count", <<Net("nameLen"), Text("username", "nameLen"), Net("address"),
                     NetShort("port")>>) >>
QUEUE_STATS_RESPONSE == Image(QueueStatistics, StatisticNames)

-----------------------------------------------------------------------------
Does(cmd, struct)           == Call(cmd, TRUE, Sends(struct), <<>>, "none")
Asks(cmd, struct, rest)     == Call(cmd, TRUE, Sends(struct), rest, "none")
Lists(cmd, rest)            == Call(cmd, FALSE, <<>>, rest, "none")
Takes(cmd, struct, rest, ack) == Call(cmd, TRUE, Sends(struct), rest, ack)
Zero(cmd)                   == Call(cmd, TRUE, <<>>, <<>>, "none")

(* Mutant of MessageRead: the body is awaited whether asked for or not.    *)
MessageReadWithBody == QMessageImage \o <<Body>>

\* operator>> of QMessage, and the body only when it was asked for
MessageRead == QMessageImage \o <<BodyIfAsked>>

Connecting ==
  [MQConnection |-> Asks("LOGIN", "LOGIN_PARAMS", LOGIN_RESPONSE)]

Handles ==
  [ackRetrieve |-> Does("RETRIEVE_ACK", "RETRIEVE_ACK_PARAMS"),
   ackRetrieveCursor |-> Does("RETRIEVE_CURSOR_ACK", "RETRIEVE_ACK_PARAMS"),
   OpenQueue |-> Asks("QUEUE_OPEN", "QUEUE_OPEN_QUEUE_DELETE_QUEUE_CREATE_QUEUE_ENUM_PERMS_PARAMS",
                      <<Host("queueID")>>),
   CloseQueue |-> Does("QUEUE_CLOSE", "QUEUE_CLOSE_OPEN_CURSOR_PARAMS"),
   GetQueueStatistics |-> Asks("QUEUE_STATS", "QUEUE_STATS_PARAMS", QUEUE_STATS_RESPONSE),
   GetServerStatistics |-> Lists("SERVER_STATS", QUEUE_STATS_RESPONSE)]

\* EnqueueWithRelay() is OpenQueue(), Enqueue() and CloseQueue().
Sending ==
  [GetClientInfo |-> Lists("CLIENT_INFO", CLIENT_INFO_RESPONSE),
   Enqueue |-> Asks("ENQUEUE", "ENQUEUE_PARAMS", ENQUEUE_RESPONSE_DATA)]

Retrieving ==
  [Retrieve |-> Takes("RETRIEVE", "RETRIEVE_PEEK_FRONT_PARAMS", MessageRead, "ackRetrieve"),
   RetrieveID |-> Takes("RETRIEVE_ID", "RETRIEVE_ID_PEEK_ID_PARAMS", MessageRead, "ackRetrieve"),
   RetrieveCursor |-> Takes("RETRIEVE_CURSOR", "PEEK_CURSOR_RETRIEVE_CURSOR_PARAMS", MessageRead,
                            "ackRetrieveCursor")]

Peeking ==
  [PeekFront |-> Asks("PEEK_FRONT", "RETRIEVE_PEEK_FRONT_PARAMS", MessageRead),
   PeekID |-> Asks("PEEK_ID", "RETRIEVE_ID_PEEK_ID_PARAMS", MessageRead),
   PeekCursor |-> Asks("PEEK_CURSOR", "PEEK_CURSOR_RETRIEVE_CURSOR_PARAMS", MessageRead)]

Cursors ==
  LET Cursor == "CLOSE_CURSOR_ADVANCE_CURSOR_TEST_CURSOR_PARAMS" IN
  [OpenCursor |-> Asks("OPEN_CURSOR", "QUEUE_CLOSE_OPEN_CURSOR_PARAMS", <<Host("cursorID")>>),
   CloseCursor |-> Does("CLOSE_CURSOR", Cursor),
   AdvanceCursor |-> Does("ADVANCE_CURSOR", Cursor),
   SeekID |-> Does("SEEK_ID", "SEEK_ID_PARAMS"),
   TestCursor |-> Does("TEST_CURSOR", Cursor)]

Transactions ==
  [BeginTransaction |-> Zero("BEGIN_TRANSACTION"),
   CommitTransaction |-> Zero("COMMIT_TRANSACTION"),
   RollbackTransaction |-> Zero("ROLLBACK_TRANSACTION"),
   EndTransaction |-> Zero("END_TRANSACTION")]

Listing ==
  [EnumerateQueues |-> Lists("ENUM_QUEUES",
     <<Net("nQueues"), Each("nQueues", QUEUE_CONFIG_ENTRY)>>),
   EnumerateUsers |-> Lists("ENUM_USERS",
     <<Net("nUsers"), Each("nUsers", <<Username, Chars("description", 100)>>)>>),
   EnumerateGroups |-> Lists("ENUM_GROUPS", <<Net("nGroups"), Each("nGroups", <<Groupname>>)>>)]

Users ==
  LET Name == "USER_DELETE_USER_GET_PERMS_USER_GET_GROUPS_PARAMS" IN
  [CreateUser |-> Does("USER_CREATE", "USER_CREATE_PARAMS"),
   DeleteUser |-> Does("USER_DELETE", Name),
   UserSetPermissions |-> Does("USER_SET_PERMS", "USER_SET_PERMS_PARAMS"),
   UserGetPermissions |-> Asks("USER_GET_PERMS", Name, ActorPerms),
   SetPassword |-> Does("USER_SET_PASSWORD", "USER_SET_PASSWORD_PARAMS")]

Groups ==
  LET Name == "GROUP_CREATE_GROUP_DELETE_GROUP_GET_USERS_GROUP_GET_PERMS_PARAMS"
      Pair == "GROUP_ADD_USER_GROUP_DELETE_USER_PARAMS" IN
  [CreateGroup |-> Does("GROUP_CREATE", Name),
   DeleteGroup |-> Does("GROUP_DELETE", Name),
   GroupSetPermissions |-> Does("GROUP_SET_PERMS", "GROUP_SET_PERMS_PARAMS"),
   GroupGetPermissions |-> Asks("GROUP_GET_PERMS", Name, ActorPerms),
   GroupAddUser |-> Does("GROUP_ADD_USER", Pair),
   GroupDeleteUser |-> Does("GROUP_DELETE_USER", Pair)]

Members ==
  [GroupGetUsers |-> Asks("GROUP_GET_USERS",
     "GROUP_CREATE_GROUP_DELETE_GROUP_GET_USERS_GROUP_GET_PERMS_PARAMS",
     <<Net("nUsers"), Each("nUsers", <<Username>>)>>),
   UserGetGroups |-> Asks("USER_GET_GROUPS", "USER_DELETE_USER_GET_PERMS_USER_GET_GROUPS_PARAMS",
     <<Net("nGroups"), Each("nGroups", <<Groupname>>)>>)]

Queues ==
  LET Name == "QUEUE_OPEN_QUEUE_DELETE_QUEUE_CREATE_QUEUE_ENUM_PERMS_PARAMS" IN
  [CreateQueue |-> Does("QUEUE_CREATE", Name),
   CreateTempQueue |-> Lists("QUEUE_CREATE_TEMP", QUEUE_CREATE_TEMP_RESPONSE),
   DeleteQueue |-> Does("QUEUE_DELETE", Name),
   QueueSetUserPermission |-> Does("QUEUE_SET_USER_PERMS", "QUEUE_SET_USER_PERMS_PARAMS"),
   QueueDeleteUserPermission |-> Does("QUEUE_DEL_USER_PERMS", "QUEUE_DEL_USER_PERMS_PARAM")]

GroupPerms ==
  [QueueSetGroupPermission |-> Does("QUEUE_SET_GROUP_PERMS", "QUEUE_SET_GROUP_PERMS_PARAMS"),
   QueueDeleteGroupPermission |-> Does("QUEUE_DEL_GROUP_PERMS", "QUEUE_DEL_GROUP_PERMS_PARAM"),
   QueueEnumeratePermissions |-> Asks("QUEUE_ENUM_PERMS",
     "QUEUE_OPEN_QUEUE_DELETE_QUEUE_CREATE_QUEUE_ENUM_PERMS_PARAMS",
     <<Net("nPerms"), Each("nPerms", QUEUE_PERM_DATA)>>)]

Identities ==
  [AddUserIdentity |-> Does("USER_ADD_IDENT", "ADD_USER_IDENTITY_PARAMS"),
   RemoveUserIdentity |-> Does("USER_DEL_IDENT", "REMOVE_USER_IDENTITY"),
   EnumerateUserIdentities |-> Asks("USER_ENUM_IDENT", "ENUM_USER_IDENTITY", X509Identities)]

Calls ==
  Connecting @@ Handles @@ Sending @@ Retrieving @@ Peeking @@ Cursors @@ Transactions
  @@ Listing @@ Users @@ Groups @@ Members @@ Queues @@ GroupPerms @@ Identities
=============================================================================
