---------------------------- MODULE WireStructs ----------------------------
(***************************************************************************)
(* What src/comdefs.h and src/safmq.h fix for the server and the C++       *)
(* library: the numbers of the commands and the packed structs their       *)
(* parameters and answers are images of.  The operators << and >> of both  *)
(* write and read an image and convert some of its integers (Image).       *)
(***************************************************************************)
EXTENDS WireItems

\* The image of a struct with the integers "converted" put in network order.
Image(struct, converted) ==
  [i \in DOMAIN struct |->
     IF struct[i].name \in converted THEN [struct[i] EXCEPT !.order = "net"] ELSE struct[i]]

-----------------------------------------------------------------------------
(* enum SAFMQ_COM_CMD *)
Ids ==
  [LOGIN |-> 0, ENUM_QUEUES |-> 1, SERVER_STATS |-> 2, CLIENT_INFO |-> 3,
   USER_CREATE |-> 10, USER_DELETE |-> 11, ENUM_USERS |-> 12, USER_SET_PERMS |-> 13,
   USER_GET_PERMS |-> 14, USER_GET_GROUPS |-> 15, USER_SET_PASSWORD |-> 16,
   USER_ADD_IDENT |-> 17, USER_DEL_IDENT |-> 18, USER_ENUM_IDENT |-> 19,
   GROUP_CREATE |-> 20, GROUP_DELETE |-> 21, ENUM_GROUPS |-> 22, GROUP_ADD_USER |-> 30,
   GROUP_DELETE_USER |-> 31, GROUP_GET_USERS |-> 32, GROUP_SET_PERMS |-> 33,
   GROUP_GET_PERMS |-> 34, QUEUE_CREATE |-> 40, QUEUE_DELETE |-> 41,
   QUEUE_SET_USER_PERMS |-> 42, QUEUE_DEL_USER_PERMS |-> 43, QUEUE_SET_GROUP_PERMS |-> 44,
   QUEUE_DEL_GROUP_PERMS |-> 45, QUEUE_ENUM_PERMS |-> 46, QUEUE_CREATE_TEMP |-> 47,
   QUEUE_STATS |-> 48, QUEUE_OPEN |-> 50, QUEUE_CLOSE |-> 51, ENQUEUE_FORWARD |-> 60,
   ENQUEUE |-> 70, RETRIEVE |-> 71, RETRIEVE_ACK |-> 72, RETRIEVE_ID |-> 73, PEEK_ID |-> 74,
   PEEK_FRONT |-> 75, RETRIEVE_CURSOR_ACK |-> 76, OPEN_CURSOR |-> 80, CLOSE_CURSOR |-> 81,
   ADVANCE_CURSOR |-> 82, SEEK_ID |-> 83, TEST_CURSOR |-> 84, PEEK_CURSOR |-> 85,
   RETRIEVE_CURSOR |-> 86, BEGIN_TRANSACTION |-> 100, COMMIT_TRANSACTION |-> 101,
   ROLLBACK_TRANSACTION |-> 102, END_TRANSACTION |-> 103]

(* struct QMessage: what is sent of a message before its body *)
QMessage ==
  << Chars("MessageID", 16), Chars("MessageClass", 1), Chars("MessagePriority", 1),
     Chars("Label", 256), Host("TimeStamp"), Host("TimeToLiveSeconds"),
     Chars("TTLErrorWanted", 1), Chars("ResponseQueueName", 1024), Chars("ReciptID", 16),
     Chars("BodyType", 1), Host("BodySize") >>

\* operator<< and operator>> of QMessage convert the same three members.
QMessageImage == Image(QMessage, {"TimeStamp", "TimeToLiveSeconds", "BodySize"})

Username  == Chars("username", 20)
Groupname == Chars("groupname", 20)
Queuename == Chars("queuename", 1024)
Password  == Chars("password", 20)
ActorPerms == <<Chars("modify_queues", 1), Chars("modify_users", 1), Chars("modify_groups", 1)>>
QueuePerms == <<Chars("read", 1), Chars("write", 1), Chars("destroy", 1), Chars("change_security", 1)>>

(* The parameters of the commands about users and groups *)
AccountParams ==
  [LOGIN_PARAMS |-> <<Username, Password, Host("major_version"), Host("minor_version")>>,
   USER_SET_PASSWORD_PARAMS |-> <<Username, Password>>,
   USER_CREATE_PARAMS |-> <<Username, Password, Chars("description", 100)>>,
   USER_SET_PERMS_PARAMS |-> <<Username>> \o ActorPerms,
   USER_DELETE_USER_GET_PERMS_USER_GET_GROUPS_PARAMS |-> <<Username>>,
   GROUP_CREATE_GROUP_DELETE_GROUP_GET_USERS_GROUP_GET_PERMS_PARAMS |-> <<Groupname>>,
   GROUP_SET_PERMS_PARAMS |-> <<Groupname>> \o ActorPerms,
   GROUP_ADD_USER_GROUP_DELETE_USER_PARAMS |-> <<Groupname, Username>>]

(* ... about queues and the messages and cursors in them *)
QueueParams ==
  [QUEUE_OPEN_QUEUE_DELETE_QUEUE_CREATE_QUEUE_ENUM_PERMS_PARAMS |-> <<Queuename>>,
   QUEUE_SET_USER_PERMS_PARAMS |-> <<Queuename, Username>> \o QueuePerms,
   QUEUE_DEL_USER_PERMS_PARAM |-> <<Queuename, Username>>,
   QUEUE_SET_GROUP_PERMS_PARAMS |-> <<Queuename, Groupname>> \o QueuePerms,
   QUEUE_DEL_GROUP_PERMS_PARAM |-> <<Queuename, Groupname>>,
   QUEUE_CLOSE_OPEN_CURSOR_PARAMS |-> <<Host("queueID")>>,
   ENQUEUE_PARAMS |-> <<Host("queueID")>> \o QMessage \o <<Body>>,
   RETRIEVE_PEEK_FRONT_PARAMS |->
     <<Host("queueID"), Chars("retrievebody", 1), Host("timeoutseconds")>>,
   RETRIEVE_ACK_PARAMS |-> <<Host("queueID"), Chars("msgID", 16)>>,
   RETRIEVE_ID_PEEK_ID_PARAMS |->
     <<Host("queueID"), Chars("retrievebody", 1), Chars("reciptID", 16), Host("timeoutseconds")>>,
   PEEK_CURSOR_RETRIEVE_CURSOR_PARAMS |->
     <<Host("queueID"), Chars("retrievebody", 1), Host("cursorID")>>,
   CLOSE_CURSOR_ADVANCE_CURSOR_TEST_CURSOR_PARAMS |-> <<Host("queueID"), Host("cursorID")>>,
   SEEK_ID_PARAMS |->
     <<Host("queueID"), Host("cursorID"), Chars("reciptID", 16), Host("timeoutseconds")>>]

(* ... and about the certificates a user is known by: strings, not arrays *)
IdentityParams ==
  [ADD_USER_IDENTITY_PARAMS |->
     <<Host("subjectLen"), Host("issuerLen"), Host("userLen"),
       Text("subjectDN", "subjectLen"), Text("issuerDN", "issuerLen"), Text("username", "userLen")>>,
   REMOVE_USER_IDENTITY |->
     <<Host("subjectLen"), Host("issuerLen"),
       Text("subjectDN", "subjectLen"), Text("issuerDN", "issuerLen")>>,
   ENUM_USER_IDENTITY |-> <<Host("userLen"), Text("username", "userLen")>>]

StatsParams ==
  [QUEUE_STATS_PARAMS |->
     <<Host("queueID"), Chars("includeStorageBytes", 1), Chars("includeMessageBytes", 1)>>]

Params == AccountParams @@ QueueParams @@ IdentityParams @@ StatsParams

(* The answers, with the entries the comments of the structs say follow *)
QUEUE_CONFIG_ENTRY == <<Queuename, Chars("owner", 20)>>
QUEUE_PERM_DATA == <<Chars("entityname", 20), Chars("isgroup", 1)>> \o QueuePerms
QueueStatistics ==
  << Host("messageCount"), Host("storageBytes"), Host("messageBytes"),
     Host("enqueued10second"), Host("enqueued60second"), Host("enqueued300second"),
     Host("retrieved10second"), Host("retrieved60second"), Host("retrieved300second"),
     Host("peeked10second"), Host("peeked60second"), Host("peeked300second") >>
StatisticNames == {QueueStatistics[i].name : i \in DOMAIN QueueStatistics}

Responses ==
  [LOGIN_RESPONSE |-> <<Host("major_version"), Host("minor_version")>>,
   RESPONSE_RESPONSE |-> <<Host("errorcode")>>,
   ENUM_QUEUES_RESPONSE |-> <<Host("errorcode"), Host("nQueues")>>,
   ENUM_USERS_RESPONSE |-> <<Host("errorcode"), Host("nUsers")>>,
   ENUM_GROUPS_RESPONSE |-> <<Host("errorcode"), Host("nGroups")>>,
   GROUP_GET_USERS_RESPONSE |-> <<Host("errorcode"), Host("nUsers")>>,
   USER_GET_GROUPS_RESPONSE |-> <<Host("errorcode"), Host("nGroups")>>,
   OPEN_QUEUE_RESPOSNE |-> <<Host("errorcode"), Host("queueID")>>,
   ENQUEUE_RESPONSE |-> <<Host("errorcode"), Chars("msgID", 16), Host("timestamp")>>,
   OPEN_CURSOR_RESPONSE |-> <<Host("errorcode"), Host("cursorID")>>,
   USER_GET_PERMS_GROUP_GET_PERMS_RESPONSE |-> <<Host("errorcode")>> \o ActorPerms,
   QUEUE_ENUM_PERMS_RESPOSNE |-> <<Host("errorcode"), Host("nPerms")>>,
   QUEUE_STATS_RESPONSE |-> <<Host("errorcode")>> \o QueueStatistics]
=============================================================================
