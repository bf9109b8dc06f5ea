--------------------------- MODULE ServerProtocol ---------------------------
(***************************************************************************)
(* What the server reads and writes for each command: the stream operators *)
(* of src/server_operators.h and the readRequest() and writeResponse() of  *)
(* the command classes in src/*Cmds.h.                                     *)
(*                                                                         *)
(* A row says which struct the command reads; whether the length before it *)
(* is compared with the struct ("checked", evalsize()), read and not used  *)
(* ("ignored"), the whole request ("zero") or not there ("none"); whether  *)
(* it may answer with an error; and what it writes when it does not.       *)
(***************************************************************************)
EXTENDS WireStructs

\* The members each operator>> converts with ntohl(); handles are not.
AccountReads ==
  [LOGIN_PARAMS |-> {"major_version", "minor_version"}] @@ [s \in DOMAIN AccountParams |-> {}]

QueueReads ==
  [s \in {"QUEUE_OPEN_QUEUE_DELETE_QUEUE_CREATE_QUEUE_ENUM_PERMS_PARAMS",
          "QUEUE_SET_USER_PERMS_PARAMS", "QUEUE_DEL_USER_PERMS_PARAM",
          "QUEUE_SET_GROUP_PERMS_PARAMS", "QUEUE_DEL_GROUP_PERMS_PARAM",
          "QUEUE_CLOSE_OPEN_CURSOR_PARAMS"} |-> {}]

MessageReads ==
  [ENQUEUE_PARAMS |-> {"TimeStamp", "TimeToLiveSeconds", "BodySize"},
   RETRIEVE_PEEK_FRONT_PARAMS |-> {"timeoutseconds"},
   RETRIEVE_ACK_PARAMS |-> {},
   RETRIEVE_ID_PEEK_ID_PARAMS |-> {"timeoutseconds"},
   PEEK_CURSOR_RETRIEVE_CURSOR_PARAMS |-> {},
   CLOSE_CURSOR_ADVANCE_CURSOR_TEST_CURSOR_PARAMS |-> {},
   SEEK_ID_PARAMS |-> {"timeoutseconds"}]

IdentityReads == [s \in DOMAIN IdentityParams |-> {"subjectLen", "issuerLen", "userLen"}]

StatsReads == [QUEUE_STATS_PARAMS |-> {"queueID"}]

Converted == AccountReads @@ QueueReads @@ MessageReads @@ IdentityReads @@ StatsReads
Reads(struct) == Image(Params[struct], Converted[struct])

\* The members each operator<< converts with htonl().
CountWrites ==
  [LOGIN_RESPONSE |-> {"major_version", "minor_version"},
   RESPONSE_RESPONSE |-> {"errorcode"},
   ENUM_QUEUES_RESPONSE |-> {"errorcode", "nQueues"},
   ENUM_USERS_RESPONSE |-> {"errorcode", "nUsers"},
   ENUM_GROUPS_RESPONSE |-> {"errorcode", "nGroups"},
   GROUP_GET_USERS_RESPONSE |-> {"errorcode", "nUsers"},
   USER_GET_GROUPS_RESPONSE |-> {"errorcode", "nGroups"},
   OPEN_QUEUE_RESPOSNE |-> {"errorcode"},
   ENQUEUE_RESPONSE |-> {"errorcode", "timestamp"},
   USER_GET_PERMS_GROUP_GET_PERMS_RESPONSE |-> {},
   QUEUE_ENUM_PERMS_RESPOSNE |-> {"nPerms"}]

(* Mutant of CursorWrites: the handle of a cursor is converted as well.    *)
CursorWritesHandle == [OPEN_CURSOR_RESPONSE |-> {"errorcode", "cursorID"}]

CursorWrites == [OPEN_CURSOR_RESPONSE |-> {"errorcode"}]

StatsWrites == [QUEUE_STATS_RESPONSE |-> {"errorcode"} \cup StatisticNames]

Writes(struct) == Image(Responses[struct], (CountWrites @@ CursorWrites @@ StatsWrites)[struct])

X509IdentitiesWritten ==
  << Net("count"),
     Each("count", <<Net("subjectLen"), Text("subjectDN", "subjectLen"),
                     Net("issuerLen"), Text("issuerDN", "issuerLen")>>) >>

QUEUE_CREATE_TEMP_RESPONSE ==
  <<Net("errorcode"), Net("queueID"), Net("nameLen"), Text("queueName", "nameLen")>>

CLIENT_INFO_RESPONSE ==
  << Net("errorcode"), Net("count"),
     Each("count", <<Net("nameLen"), Text("username", "nameLen"), Net("address"),
                     NetShort("port")>>) >>

-----------------------------------------------------------------------------
Done == Writes("RESPONSE_RESPONSE")

Row(reads, sized, fails, answer) ==
  [reads |-> reads, sized |-> sized, fails |-> fails, answer |-> answer]

Does(struct)                  == Row(Reads(struct), "checked", TRUE, Done)
Answers(struct, answer)       == Row(Reads(struct), "checked", TRUE, answer)
AlwaysAnswers(struct, answer) == Row(Reads(struct), "checked", FALSE, answer)
Lists(answer)                 == Row(<<>>, "none", FALSE, answer)

UserHandlers ==
  LET Name == "USER_DELETE_USER_GET_PERMS_USER_GET_GROUPS_PARAMS" IN
  [USER_CREATE |-> Does("USER_CREATE_PARAMS"),
   USER_DELETE |-> Does(Name),
   ENUM_USERS |-> Lists(Writes("ENUM_USERS_RESPONSE")
                        \o <<Each("nUsers", <<Username, Chars("description", 100)>>)>>)]

UserPermHandlers ==
  LET Name == "USER_DELETE_USER_GET_PERMS_USER_GET_GROUPS_PARAMS" IN
  [USER_SET_PERMS |-> Does("USER_SET_PERMS_PARAMS"),
   USER_GET_PERMS |-> Answers(Name, Writes("USER_GET_PERMS_GROUP_GET_PERMS_RESPONSE")),
   USER_GET_GROUPS |-> AlwaysAnswers(Name, Writes("USER_GET_GROUPS_RESPONSE")
                                           \o <<Each("nGroups", <<Groupname>>)>>)]

UserIdentityHandlers ==
  [USER_SET_PASSWORD |-> Does("USER_SET_PASSWORD_PARAMS"),
   USER_ADD_IDENT |-> Does("ADD_USER_IDENTITY_PARAMS"),
   USER_DEL_IDENT |-> Does("REMOVE_USER_IDENTITY"),
   USER_ENUM_IDENT |-> AlwaysAnswers("ENUM_USER_IDENTITY", Done \o X509IdentitiesWritten)]

GroupHandlers ==
  LET Name == "GROUP_CREATE_GROUP_DELETE_GROUP_GET_USERS_GROUP_GET_PERMS_PARAMS" IN
  [GROUP_CREATE |-> Does(Name),
   GROUP_DELETE |-> Does(Name),
   ENUM_GROUPS |-> Lists(Writes("ENUM_GROUPS_RESPONSE") \o <<Each("nGroups", <<Groupname>>)>>)]

GroupMemberHandlers ==
  LET Name == "GROUP_CREATE_GROUP_DELETE_GROUP_GET_USERS_GROUP_GET_PERMS_PARAMS" IN
  [GROUP_ADD_USER |-> Does("GROUP_ADD_USER_GROUP_DELETE_USER_PARAMS"),
   GROUP_DELETE_USER |-> Does("GROUP_ADD_USER_GROUP_DELETE_USER_PARAMS"),
   GROUP_GET_USERS |-> AlwaysAnswers(Name, Writes("GROUP_GET_USERS_RESPONSE")
                                           \o <<Each("nUsers", <<Username>>)>>)]

GroupPermHandlers ==
  LET Name == "GROUP_CREATE_GROUP_DELETE_GROUP_GET_USERS_GROUP_GET_PERMS_PARAMS" IN
  [GROUP_SET_PERMS |-> Does("GROUP_SET_PERMS_PARAMS"),
   GROUP_GET_PERMS |-> Answers(Name, Writes("USER_GET_PERMS_GROUP_GET_PERMS_RESPONSE"))]

QueueHandlers ==
  LET Name == "QUEUE_OPEN_QUEUE_DELETE_QUEUE_CREATE_QUEUE_ENUM_PERMS_PARAMS" IN
  [QUEUE_CREATE |-> Does(Name),
   QUEUE_DELETE |-> Does(Name),
   QUEUE_SET_USER_PERMS |-> Does("QUEUE_SET_USER_PERMS_PARAMS")]

QueuePermHandlers ==
  [QUEUE_DEL_USER_PERMS |-> Does("QUEUE_DEL_USER_PERMS_PARAM"),
   QUEUE_SET_GROUP_PERMS |-> Does("QUEUE_SET_GROUP_PERMS_PARAMS"),
   QUEUE_DEL_GROUP_PERMS |-> Does("QUEUE_DEL_GROUP_PERMS_PARAM")]

QueueOpenHandlers ==
  LET Name == "QUEUE_OPEN_QUEUE_DELETE_QUEUE_CREATE_QUEUE_ENUM_PERMS_PARAMS" IN
  [QUEUE_ENUM_PERMS |-> AlwaysAnswers(Name, Writes("QUEUE_ENUM_PERMS_RESPOSNE")
                                            \o <<Each("nPerms", QUEUE_PERM_DATA)>>),
   QUEUE_OPEN |-> Answers(Name, Writes("OPEN_QUEUE_RESPOSNE")),
   QUEUE_CLOSE |-> Does("QUEUE_CLOSE_OPEN_CURSOR_PARAMS")]

QueueListHandlers ==
  [ENUM_QUEUES |-> Lists(Writes("ENUM_QUEUES_RESPONSE") \o <<Each("nQueues", QUEUE_CONFIG_ENTRY)>>),
   QUEUE_CREATE_TEMP |-> Row(<<>>, "none", TRUE, QUEUE_CREATE_TEMP_RESPONSE),
   QUEUE_STATS |-> Row(Reads("QUEUE_STATS_PARAMS"), "ignored", TRUE, Writes("QUEUE_STATS_RESPONSE"))]

\* What is written of a message: the code, the QMessage, and the body only
\* when the request asked for it.
MessageWritten == Done \o QMessageImage \o <<BodyIfAsked>>

MessageHandlers ==
  [ENQUEUE |-> Row(Reads("ENQUEUE_PARAMS"), "ignored", TRUE, Writes("ENQUEUE_RESPONSE")),
   RETRIEVE |-> Answers("RETRIEVE_PEEK_FRONT_PARAMS", MessageWritten)]

RetrieveHandlers ==
  [RETRIEVE_ACK |-> Does("RETRIEVE_ACK_PARAMS"),
   RETRIEVE_CURSOR_ACK |-> Does("RETRIEVE_ACK_PARAMS"),
   RETRIEVE_ID |-> Answers("RETRIEVE_ID_PEEK_ID_PARAMS", MessageWritten)]

PeekHandlers ==
  [PEEK_ID |-> Answers("RETRIEVE_ID_PEEK_ID_PARAMS", MessageWritten),
   PEEK_FRONT |-> Answers("RETRIEVE_PEEK_FRONT_PARAMS", MessageWritten)]

MessageCursorHandlers ==
  [ENQUEUE_FORWARD |-> Row(Reads("ENQUEUE_PARAMS"), "ignored", TRUE, Writes("ENQUEUE_RESPONSE")),
   PEEK_CURSOR |-> Answers("PEEK_CURSOR_RETRIEVE_CURSOR_PARAMS", MessageWritten),
   RETRIEVE_CURSOR |-> Answers("PEEK_CURSOR_RETRIEVE_CURSOR_PARAMS", MessageWritten)]

CursorHandlers ==
  LET Cursor == "CLOSE_CURSOR_ADVANCE_CURSOR_TEST_CURSOR_PARAMS" IN
  [ADVANCE_CURSOR |-> Does(Cursor),
   OPEN_CURSOR |-> Answers("QUEUE_CLOSE_OPEN_CURSOR_PARAMS", Writes("OPEN_CURSOR_RESPONSE")),
   CLOSE_CURSOR |-> Does(Cursor),
   SEEK_ID |-> Does("SEEK_ID_PARAMS"),
   TEST_CURSOR |-> Does(Cursor)]

XactHandlers ==
  [BEGIN_TRANSACTION |-> Row(<<>>, "zero", TRUE, Done),
   COMMIT_TRANSACTION |-> Row(<<>>, "zero", FALSE, Done),
   ROLLBACK_TRANSACTION |-> Row(<<>>, "zero", FALSE, Done),
   END_TRANSACTION |-> Row(<<>>, "zero", TRUE, Done)]

ServerHandlers ==
  [CLIENT_INFO |-> Lists(CLIENT_INFO_RESPONSE),
   SERVER_STATS |-> Lists(Writes("QUEUE_STATS_RESPONSE"))]

\* ServiceThread::Login() is not in the table of commands.
LoginHandler == [LOGIN |-> Answers("LOGIN_PARAMS", Done \o Writes("LOGIN_RESPONSE"))]

Handlers ==
  UserHandlers @@ UserPermHandlers @@ UserIdentityHandlers
  @@ GroupHandlers @@ GroupMemberHandlers @@ GroupPermHandlers
  @@ QueueHandlers @@ QueuePermHandlers @@ QueueOpenHandlers @@ QueueListHandlers
  @@ MessageHandlers @@ RetrieveHandlers @@ PeekHandlers @@ MessageCursorHandlers
  @@ CursorHandlers @@ XactHandlers @@ ServerHandlers @@ LoginHandler
=============================================================================
