---------------------------- MODULE DotNetClient ----------------------------
(***************************************************************************)
(* What the .NET library writes and reads in each call: the structs of     *)
(* params.cs, QueueMessage.cs and MQConnection.cs under                    *)
(* src/safmq.net/safmq.net.                                                *)
(*                                                                         *)
(* The library has its own numbers of the commands and its own structs.    *)
(* NetByteOrderWriter and NetByteOrderReader put every integer in network  *)
(* order, the handles too.  An array is read with ReadBytes(), which waits *)
(* for all of it, or with Read(), which may return with less (Some).       *)
(***************************************************************************)
EXTENDS WireItems

(* The constants CMD_... *)
Ids ==
  [LOGIN |-> 0, ENUM_QUEUES |-> 1, SERVER_STATS |-> 2, CLIENT_INFO |-> 3,
   USER_CREATE |-> 10, USER_DELETE |-> 11, ENUM_USERS |-> 12, USER_SET_PERMS |-> 13,
   USER_GET_PERMS |-> 14, USER_GET_GROUPS |-> 15, USER_SET_PASSWORD |-> 16,
   USER_ADD_IDENT |-> 17, USER_DEL_IDENT |-> 18, USER_ENUM_IDENT |-> 19,
   GROUP_CREATE |-> 20, GROUP_DELETE |-> 21, ENUM_GROUPS |-> 22, GROUP_ADD_USER |-> 30,
   GROUP_DELETE_USER |-> 31, GROUP_GET_USERS |-> 32, GROUP_SET_PERMS |-> 33,
   GROUP_GET_PERMS |-> 34, QUEUE_CREATE |-> 40, QUEUE_DELETE |-> 41,
   QUEUE_SET_USER_PERMS |-> 42, QUEUE_DEL_USER_PERMS |-> 43, QUEUE_SET_GROUP_PERMS |-> 44,
   QUEUE_DEL_GROUP_PERMS |-> 45, QUEUE_ENUM_PERMS |-> 46, QUEUE_CREATE_TEMP |-> 47,
   QUEUE_STATS |-> 48, QUEUE_OPEN |-> 50, QUEUE_CLOSE |-> 51,
   ENQUEUE |-> 70, RETRIEVE |-> 71, RETRIEVE_ACK |-> 72, RETRIEVE_ID |-> 73, PEEK_ID |-> 74,
   PEEK_FRONT |-> 75, RETRIEVE_CURSOR_ACK |-> 76, OPEN_CURSOR |-> 80, CLOSE_CURSOR |-> 81,
   ADVANCE_CURSOR |-> 82, SEEK_ID |-> 83, TEST_CURSOR |-> 84, PEEK_CURSOR |-> 85,
   RETRIEVE_CURSOR |-> 86, BEGIN_TRANSACTION |-> 100, COMMIT_TRANSACTION |-> 101,
   ROLLBACK_TRANSACTION |-> 102, END_TRANSACTION |-> 103]

Username  == Chars("username", 20)
Groupname == Chars("groupname", 20)
Queuename == Chars("queuename", 1024)
Password  == Chars("password", 20)
ActorPerms == <<Chars("modify_queues", 1), Chars("modify_users", 1), Chars("modify_groups", 1)>>
QueuePerms ==
  <<Chars("read", 1), Chars("write", 1), Chars("destroy", 1), Chars("change_security", 1)>>

(* QueueMessage.cs: Write() and the members of Read(), in one order *)
QueueMessage ==
  << Chars("MessageID", 16), Chars("MessageClass", 1), Chars("MessagePriority", 1),
     Chars("Label", 256), Net("TimeStamp"), Net("TimeToLiveSeconds"),
     Chars("TTLErrorWanted", 1), Chars("ResponseQueueName", 1024), Chars("ReciptID", 16),
     Chars("BodyType", 1), Net("BodySize") >>

(* params.cs: the parameters about queues, their messages and cursors *)
LoginParams == [LOGIN_PARAMS |-> <<Username, Password, Net("major_version"), Net("minor_version")>>]

MessageParams ==
  [QUEUE_OPEN_QUEUE_DELETE_QUEUE_CREATE_QUEUE_ENUM_PERMS_PARAMS |-> <<Queuename>>,
   QUEUE_CLOSE_OPEN_CURSOR_PARAMS |-> <<Net("queueID")>>,
   ENQUEUE_PARAMS |-> <<Net("queueID")>> \o QueueMessage \o <<Body>>,
   RETRIEVE_PEEK_FRONT_PARAMS |->
     <<Net("queueID"), Chars("retrievebody", 1), Net("timeoutseconds")>>,
   RETRIEVE_ACK_PARAMS |-> <<Net("queueID"), Chars("msgID", 16)>>,
   RETRIEVE_ID_PEEK_ID_PARAMS |->
     <<Net("queueID"), Chars("retrievebody", 1), Chars("reciptID", 16), Net("timeoutseconds")>>]

CursorParams ==
  [PEEK_CURSOR_RETRIEVE_CURSOR_PARAMS |->
     <<Net("queueID"), Chars("retrievebody", 1), Net("cursorID")>>,
   CLOSE_CURSOR_ADVANCE_CURSOR_TEST_CURSOR_PARAMS |-> <<Net("queueID"), Net("cursorID")>>,
   SEEK_ID_PARAMS |->
     <<Net("queueID"), Net("cursorID"), Chars("reciptID", 16), Net("timeoutseconds")>>]

(* ... about users, groups and permissions *)
AccountParams ==
  [USER_SET_PASSWORD_PARAMS |-> <<Username, Password>>,
   USER_CREATE_PARAMS |-> <<Username, Password, Chars("description", 100)>>,
   USER_SET_PERMS_PARAMS |-> <<Username>> \o ActorPerms,
   USER_DELETE_USER_GET_PERMS_USER_GET_GROUPS_PARAMS |-> <<Username>>,
   GROUP_CREATE_GROUP_DELETE_GROUP_GET_USERS_GROUP_GET_PERMS_PARAMS |-> <<Groupname>>,
   GROUP_SET_PERMS_PARAMS |-> <<Groupname>> \o ActorPerms,
   GROUP_ADD_USER_GROUP_DELETE_USER_PARAMS |-> <<Groupname, Username>>]

QueueParams ==
  [QUEUE_SET_USER_PERMS_PARAMS |-> <<Queuename, Username>> \o QueuePerms,
   QUEUE_DEL_USER_PERMS_PARAM |-> <<Queuename, Username>>,
   QUEUE_SET_GROUP_PERMS_PARAMS |-> <<Queuename, Groupname>> \o QueuePerms,
   QUEUE_DEL_GROUP_PERMS_PARAM |-> <<Queuename, Groupname>>]

(* ... and about certificates: a length counts characters, GetBytes() may be longer. *)
IdentityParams ==
  [ADD_USER_IDENTITY_PARAMS |->
     <<Net("subjectLen"), Net("issuerLen"), Net("userLen"),
       Text("subjectDN", "subjectLen"), Text("issuerDN", "issuerLen"), Text("username", "userLen")>>,
   REMOVE_USER_IDENTITY |->
     <<Net("subjectLen"), Net("issuerLen"),
       Text("subjectDN", "subjectLen"), Text("issuerDN", "issuerLen")>>,
   ENUM_USER_IDENTITY |-> <<Net("userLen"), Text("username", "userLen")>>]

StatsParams ==
  [QUEUE_STATS_PARAMS |->
     <<Net("queueID"), Chars("includeStorageBytes", 1), Chars("includeMessageBytes", 1)>>]

Params ==
  LoginParams @@ AccountParams @@ QueueParams @@ MessageParams @@ CursorParams
  @@ IdentityParams @@ StatsParams

(* What is read of an answer after its code *)
LOGIN_RESPONSE == <<Net("major_version"), Net("minor_version")>>
QUEUE_CONFIG_ENTRY == <<Queuename, Chars("owner", 20)>>
ENQUEUE_RESPONSE_DATA == <<Chars("msgID", 16), Net("timestamp")>>
QUEUE_PERM_DATA == <<Some("entityname", 20), Chars("isgroup", 1)>> \o QueuePerms
QUEUE_STATS_RESPONSE ==
  << Net("messageCount"), Net("storageBytes"), Net("messageBytes"),
     Net("enqueued10second"), Net("enqueued60second"), Net("enqueued300second"),
     Net("retrieved10second"), Net("retrieved60second"), Net("retrieved300second"),
     Net("peeked10second"), Net("peeked60second"), Net("peeked300second") >>
QUEUE_CREATE_TEMP_RESPONSE ==
  <<Net("queueID"), Net("nameLen"), SomeText("queueName", "nameLen")>>
CLIENT_INFO_RESPONSE ==
  << Net("count"),
     Each("count", <<Net("nameLen"), SomeText("username", "nameLen"), Net("address"),
                     NetShort("port")>>) >>
\* Read() is told retrievebody and does not look at it.
MessageRead == QueueMessage \o <<Body>>

-----------------------------------------------------------------------------
Does(cmd, struct)             == Call(cmd, TRUE, Params[struct], <<>>, "none")
Asks(cmd, struct, rest)       == Call(cmd, TRUE, Params[struct], rest, "none")
Lists(cmd, rest)              == Call(cmd, FALSE, <<>>, rest, "none")
Takes(cmd, struct, rest, ack) == Call(cmd, TRUE, Params[struct], rest, ack)
Zero(cmd)                     == Call(cmd, TRUE, <<>>, <<>>, "none")

Connecting == [MQConnection |-> Asks("LOGIN", "LOGIN_PARAMS", LOGIN_RESPONSE)]

Handles ==
  [OpenQueue |-> Asks("QUEUE_OPEN", "QUEUE_OPEN_QUEUE_DELETE_QUEUE_CREATE_QUEUE_ENUM_PERMS_PARAMS",
                      <<Net("queueID")>>),
   CloseQueue |-> Does("QUEUE_CLOSE", "QUEUE_CLOSE_OPEN_CURSOR_PARAMS"),
   GetQueueStatistics |-> Asks("QUEUE_STATS", "QUEUE_STATS_PARAMS", QUEUE_STATS_RESPONSE),
   GetServerStatistics |-> Lists("SERVER_STATS", QUEUE_STATS_RESPONSE),
   GetClientInfo |-> Lists("CLIENT_INFO", CLIENT_INFO_RESPONSE)]

\* EnqueueWithRelay() is OpenQueue(), Enqueue() and CloseQueue().
Sending == [Enqueue |-> Asks("ENQUEUE", "ENQUEUE_PARAMS", ENQUEUE_RESPONSE_DATA)]

Retrieving ==
  [Retrieve |-> Takes("RETRIEVE", "RETRIEVE_PEEK_FRONT_PARAMS", MessageRead, "ackRetrieve"),
   RetrieveID |-> Takes("RETRIEVE_ID", "RETRIEVE_ID_PEEK_ID_PARAMS", MessageRead,
                        "ackRetrieveCursor")]

RetrievingAtCursor ==
  [RetrieveCursor |-> Takes("RETRIEVE_CURSOR", "PEEK_CURSOR_RETRIEVE_CURSOR_PARAMS", MessageRead,
                            "ackRetrieveCursor")]

Acknowledging ==
  [ackRetrieve |-> Does("RETRIEVE_ACK", "RETRIEVE_ACK_PARAMS"),
   ackRetrieveCursor |-> Does("RETRIEVE_CURSOR_ACK", "RETRIEVE_ACK_PARAMS")]

Peeking ==
  [PeekFront |-> Asks("PEEK_FRONT", "RETRIEVE_PEEK_FRONT_PARAMS", MessageRead),
   PeekID |-> Asks("PEEK_ID", "RETRIEVE_ID_PEEK_ID_PARAMS", MessageRead)]

PeekingAtCursor ==
  [PeekCursor |-> Asks("PEEK_CURSOR", "PEEK_CURSOR_RETRIEVE_CURSOR_PARAMS", MessageRead)]

Cursors ==
  [OpenCursor |-> Asks("OPEN_CURSOR", "QUEUE_CLOSE_OPEN_CURSOR_PARAMS", <<Net("cursorID")>>),
   CloseCursor |-> Does("CLOSE_CURSOR", "CLOSE_CURSOR_ADVANCE_CURSOR_TEST_CURSOR_PARAMS")]

CursorMoves ==
  [AdvanceCursor |-> Does("ADVANCE_CURSOR", "CLOSE_CURSOR_ADVANCE_CURSOR_TEST_CURSOR_PARAMS"),
   SeekID |-> Does("SEEK_ID", "SEEK_ID_PARAMS"),
   TestCursor |-> Does("TEST_CURSOR", "CLOSE_CURSOR_ADVANCE_CURSOR_TEST_CURSOR_PARAMS")]

Transactions ==
  [BeginTransaction |-> Zero("BEGIN_TRANSACTION"),
   CommitTransaction |-> Zero("COMMIT_TRANSACTION"),
   RollbackTransaction |-> Zero("ROLLBACK_TRANSACTION"),
   EndTransaction |-> Zero("END_TRANSACTION")]

Listing ==
  [EnumerateQueues |-> Lists("ENUM_QUEUES",
     <<Net("nQueues"), Each("nQueues", QUEUE_CONFIG_ENTRY)>>),
   EnumerateUsers |-> Lists("ENUM_USERS",
     <<Net("nUsers"), Each("nUsers", <<Some("username", 20), Some("description", 100)>>)>>),
   EnumerateGroups |-> Lists("ENUM_GROUPS",
     <<Net("nGroups"), Each("nGroups", <<Some("groupname", 20)>>)>>)]

Users ==
  [CreateUser |-> Does("USER_CREATE", "USER_CREATE_PARAMS"),
   DeleteUser |-> Does("USER_DELETE", "USER_DELETE_USER_GET_PERMS_USER_GET_GROUPS_PARAMS"),
   UserSetPermissions |-> Does("USER_SET_PERMS", "USER_SET_PERMS_PARAMS")]

UserAccess ==
  [UserGetPermissions |-> Asks("USER_GET_PERMS",
     "USER_DELETE_USER_GET_PERMS_USER_GET_GROUPS_PARAMS", ActorPerms),
   SetPassword |-> Does("USER_SET_PASSWORD", "USER_SET_PASSWORD_PARAMS")]

Identities ==
  [AddUserIdentity |-> Does("USER_ADD_IDENT", "ADD_USER_IDENTITY_PARAMS"),
   RemoveUerIdentity |-> Does("USER_DEL_IDENT", "REMOVE_USER_IDENTITY"),
   EnumerateUserIdentities |-> Asks("USER_ENUM_IDENT", "ENUM_USER_IDENTITY",
     << Net("count"),
        Each("count", <<Net("subjectLen"), Text("subjectDN", "subjectLen"),
                        Net("issuerLen"), Text("issuerDN", "issuerLen")>>) >>)]

Groups ==
  LET Name == "GROUP_CREATE_GROUP_DELETE_GROUP_GET_USERS_GROUP_GET_PERMS_PARAMS" IN
  [CreateGroup |-> Does("GROUP_CREATE", Name),
   DeleteGroup |-> Does("GROUP_DELETE", Name),
   GroupSetPermissions |-> Does("GROUP_SET_PERMS", "GROUP_SET_PERMS_PARAMS")]

Members ==
  [GroupGetPermissions |-> Asks("GROUP_GET_PERMS",
     "GROUP_CREATE_GROUP_DELETE_GROUP_GET_USERS_GROUP_GET_PERMS_PARAMS", ActorPerms),
   GroupAddUser |-> Does("GROUP_ADD_USER", "GROUP_ADD_USER_GROUP_DELETE_USER_PARAMS"),
   GroupDeleteUser |-> Does("GROUP_DELETE_USER", "GROUP_ADD_USER_GROUP_DELETE_USER_PARAMS")]

MemberLists ==
  [GroupGetUsers |-> Asks("GROUP_GET_USERS",
     "GROUP_CREATE_GROUP_DELETE_GROUP_GET_USERS_GROUP_GET_PERMS_PARAMS",
     <<Net("nUsers"), Each("nUsers", <<Some("username", 20)>>)>>),
   UserGetGroups |-> Asks("USER_GET_GROUPS", "USER_DELETE_USER_GET_PERMS_USER_GET_GROUPS_PARAMS",
     <<Net("nGroups"), Each("nGroups", <<Some("groupname", 20)>>)>>)]

Queues ==
  LET Name == "QUEUE_OPEN_QUEUE_DELETE_QUEUE_CREATE_QUEUE_ENUM_PERMS_PARAMS" IN
  [CreateQueue |-> Does("QUEUE_CREATE", Name),
   CreateTempQueue |-> Lists("QUEUE_CREATE_TEMP", QUEUE_CREATE_TEMP_RESPONSE),
   DeleteQueue |-> Does("QUEUE_DELETE", Name)]

QueueAccess ==
  [QueueSetUserPermission |-> Does("QUEUE_SET_USER_PERMS", "QUEUE_SET_USER_PERMS_PARAMS"),
   QueueDeleteUserPermission |-> Does("QUEUE_DEL_USER_PERMS", "QUEUE_DEL_USER_PERMS_PARAM"),
   QueueSetGroupPermission |-> Does("QUEUE_SET_GROUP_PERMS", "QUEUE_SET_GROUP_PERMS_PARAMS")]

QueueAccessLists ==
  [QueueDeleteGroupPermission |-> Does("QUEUE_DEL_GROUP_PERMS", "QUEUE_DEL_GROUP_PERMS_PARAM"),
   QueueEnumeratePermissions |-> Asks("QUEUE_ENUM_PERMS",
     "QUEUE_OPEN_QUEUE_DELETE_QUEUE_CREATE_QUEUE_ENUM_PERMS_PARAMS",
     <<Net("nPerms"), Each("nPerms", QUEUE_PERM_DATA)>>)]

Calls ==
  Connecting @@ Handles @@ Sending @@ Retrieving @@ RetrievingAtCursor @@ Acknowledging
  @@ Peeking @@ PeekingAtCursor @@ Cursors @@ CursorMoves @@ Transactions @@ Listing
  @@ Users @@ UserAccess @@ Identities @@ Groups @@ Members @@ MemberLists
  @@ Queues @@ QueueAccess @@ QueueAccessLists
=============================================================================
