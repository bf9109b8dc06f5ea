-------------------------- MODULE SecurityControl --------------------------
(***************************************************************************)
(* Users, groups, and the rights they have (src/QAccessControl.cpp), with  *)
(* the commands of sessions that use and change them (src/UserCmds.h,      *)
(* src/GroupCmds.h, src/QueueCmds.h).                                      *)
(*                                                                         *)
(* A command tests the right of its user, and changes the lists in a later *)
(* step: scmtx is released in between.  A change ends with the storing of  *)
(* every list in a file of its own, one after the other, under scmtx; a    *)
(* crash leaves the files before the current one new and those behind it   *)
(* old.  The two commands on identities store the lists as well, but       *)
(* without scmtx: while they do, others may change and store them.         *)
(*                                                                         *)
(* A list is a set of entries, one for each line of its file.  An entry    *)
(* that grants nothing is kept, as it is in the code.  Names are taken to  *)
(* survive the file (no colon, no blanks at their ends).                   *)
(***************************************************************************)
EXTENDS Naturals, FiniteSets

CONSTANTS Users, Groups, Queues, Passwords, Sessions,
          Admin,       \* "admin"
          AdminGroup,  \* "administration"
          AllUsers,    \* "safmq_all_users", a group everybody is in
          NoPassword,  \* the password admin is created with
          Nobody,      \* the name of a session that has not logged in
          StoredLists, \* what the files may hold when the server first starts
          MixedLists,  \* what stores that overlap a change may leave in them
          GrantedActorRights, GrantedQueueRights, \* bound: rights commands give
          MaxCommands  \* bound: commands whose test was passed

ActorRights == {"queues", "users", "groups"}
QueueRights == {"read", "write", "destroy", "security"}

ASSUME SecurityAssumption ==
    /\ Admin \in Users /\ {AdminGroup, AllUsers} \subseteq Groups
    /\ Users \cap Groups = {} /\ Nobody \notin Users
    /\ NoPassword \in Passwords
    /\ GrantedActorRights \subseteq SUBSET ActorRights
    /\ GrantedQueueRights \subseteq SUBSET QueueRights
    /\ MaxCommands \in Nat

Actors == Users \cup Groups

(* The commands, with what their parameters name.  An empty right is a     *)
(* right taken away.  The certificates themselves are left out.            *)
IdentityCommands == {<<"addUserIdentity">>, <<"removeIdentity">>}
UserCommands  == ({"createUser", "changePassword"} \X Users \X Passwords)
                 \cup ({"deleteUser"} \X Users)
                 \cup ({"setActorUser"} \X Users \X GrantedActorRights)
                 \cup IdentityCommands
GroupCommands == ({"createGroup", "deleteGroup"} \X Groups)
                 \cup ({"addUserGroup", "deleteUserGroup"} \X Users \X Groups)
                 \cup ({"setActorGroup"} \X Groups \X GrantedActorRights)
QueueCommands == ({"setQueue"} \X Queues \X Actors \X GrantedQueueRights)
                 \cup ({"deleteQueueEntry"} \X Queues \X Actors)
Commands == UserCommands \cup GroupCommands \cup QueueCommands
            \cup ({"createQueue", "deleteQueue"} \X Queues)
NoCommand == <<"none">>

Lists == [users    : SUBSET (Users \X Passwords),
          groups   : SUBSET Groups,
          members  : SUBSET (Users \X Groups),
          actoracl : SUBSET (Actors \X SUBSET ActorRights),
          qacl     : SUBSET (Queues \X Actors \X SUBSET QueueRights)]

VARIABLES lists,    \* the lists in memory
          disk,     \* their files
          exists,   \* the queues of the queue manager
          session,  \* what each session does, and for whom
          overlap,  \* did a change come while an identity command stored, and is that store,
                    \* or that of the change, still under way?
          mixed,    \* did such stores write the files last?
          torn,     \* did the server ever start from files that were cut or mixed?
          commands

storeVars == <<overlap, mixed, torn>>
vars      == <<lists, disk, exists, session, storeVars, commands>>

NoLists == [users |-> {}, groups |-> {}, members |-> {}, actoracl |-> {}, qacl |-> {}]

Named(l) == {e[1] : e \in l.users}

(* Lists that commands left; maps have one entry for a key, and take the   *)
(* first there is in a file.                                               *)
Closed(l) == /\ \A e \in l.members : e[2] \in l.groups
             /\ \A e \in l.actoracl : e[1] \in Named(l) \cup l.groups
Unique(l) == /\ \A d, e \in l.users : d[1] = e[1] => d = e
             /\ \A d, e \in l.actoracl : d[1] = e[1] => d = e
             /\ \A d, e \in l.qacl : d[1] = e[1] /\ d[2] = e[2] => d = e

ASSUME StoredAssumption ==
    /\ StoredLists \subseteq Lists
    /\ \A l \in StoredLists : Closed(l) /\ Unique(l)

ASSUME MixedAssumption ==
    /\ MixedLists \subseteq Lists
    /\ \A l \in MixedLists : Unique(l)
-----------------------------------------------------------------------------
(* What the lists say *)

GroupsOf(l, a) == {g \in Groups : <<a, g>> \in l.members}
Listed(acl, key, right) == \E e \in acl : e[1] = key /\ right \in e[2]
QueueList(l, q) == {<<e[2], e[3]>> : e \in {f \in l.qacl : f[1] = q}}

(* testActorOperation(): by the user's own entry, or one of his groups'.   *)
MayAdminister(l, a, right) ==
    \/ Listed(l.actoracl, a, right)
    \/ \E g \in GroupsOf(l, a) : Listed(l.actoracl, g, right)

(* testQueueOperation(): the same, with the administrators allowed all,    *)
(* and the entry of all users last.                                        *)
MayUse(l, a, q, right) ==
    \/ Listed(QueueList(l, q), a, right)
    \/ a = Admin /\ Admin \in Named(l)
    \/ \E g \in GroupsOf(l, a) : \/ Listed(QueueList(l, q), g, right)
                                 \/ g = AdminGroup /\ AdminGroup \in l.groups
    \/ Listed(QueueList(l, q), AllUsers, right)

(* The constructor: administrator and group of administrators are made     *)
(* again when they are missing, and not stored.                            *)
SetActor(acl, key, rights) == {e \in acl : e[1] # key} \cup {<<key, rights>>}

WithAdmin(l) ==
    IF Admin \in Named(l) THEN l
    ELSE [l EXCEPT !.users = @ \cup {<<Admin, NoPassword>>},
                   !.actoracl = SetActor(@, Admin, ActorRights)]
(* Mutant of WithAdmins: every user becomes an administrator.              *)
WithAllAdmins(l) ==
    IF AdminGroup \in l.groups THEN l
    ELSE [l EXCEPT !.groups = @ \cup {AdminGroup},
                   !.actoracl = SetActor(@, AdminGroup, ActorRights),
                   !.members = @ \cup (Named(l) \X {AdminGroup})]

WithAdmins(l) ==
    IF AdminGroup \in l.groups THEN l
    ELSE [l EXCEPT !.groups = @ \cup {AdminGroup},
                   !.actoracl = SetActor(@, AdminGroup, ActorRights),
                   !.members = @ \cup {<<Admin, AdminGroup>>}]
Constructed(l) == WithAdmins(WithAdmin(l))
-----------------------------------------------------------------------------
Idle == [user |-> Nobody, step |-> "idle", command |-> NoCommand]

Init == /\ disk \in StoredLists
        /\ lists = Constructed(disk)
        /\ exists = {e[1] : e \in disk.qacl}
        /\ session = [s \in Sessions |-> Idle]
        /\ overlap = FALSE /\ mixed = FALSE /\ torn = FALSE
        /\ commands = 0

Storing   == \E s \in Sessions : session[s].step = "store"
Unlocked  == ~Storing  \* scmtx is free
Rewriting == {s \in Sessions : session[s].step = "rewrite"}  \* those who store without it
Writers   == {s \in Sessions : session[s].step \in {"store", "rewrite"}}

(* LOGIN, sent once by a client, right after it has connected.             *)
Login(s, u, password) ==
    /\ Unlocked
    /\ session[s].user = Nobody
    /\ <<u, password>> \in lists.users
    /\ session' = [session EXCEPT ![s].user = u]
    /\ UNCHANGED <<lists, disk, exists, storeVars, commands>>

Logout(s) ==
    /\ session[s].user # Nobody /\ session[s].step = "idle"
    /\ session' = [session EXCEPT ![s] = Idle]
    /\ UNCHANGED <<lists, disk, exists, storeVars, commands>>

(* The first step of a command, the test of the right it takes.            *)
Begin(s, c) ==
    /\ Unlocked
    /\ session[s].user # Nobody /\ session[s].step = "idle"
    /\ session' = [session EXCEPT ![s].step = "granted", ![s].command = c]
    /\ commands < MaxCommands /\ commands' = commands + 1
    /\ UNCHANGED <<lists, disk, exists, storeVars>>

TestUserCommand(s, c) ==
    /\ \/ MayAdminister(lists, session[s].user, "users")
       \/ c[1] = "changePassword" /\ c[2] = session[s].user
    /\ Begin(s, c)

TestGroupCommand(s, c) ==
    MayAdminister(lists, session[s].user, "groups") /\ Begin(s, c)

TestQueueCommand(s, c) ==
    MayUse(lists, session[s].user, c[2], "security") /\ Begin(s, c)

TestCreateQueue(s, q) ==
    MayAdminister(lists, session[s].user, "queues") /\ Begin(s, <<"createQueue", q>>)

TestDeleteQueue(s, q) ==
    MayUse(lists, session[s].user, q, "destroy") /\ Begin(s, <<"deleteQueue", q>>)
-----------------------------------------------------------------------------
(* The second step: look up what the command names, change the lists, and  *)
(* go on to store them; or answer FAILED, or GRANTED with nothing changed. *)
Change(s, found, changed) ==
    /\ Unlocked
    /\ IF found
       THEN /\ lists' = changed
            /\ session' = [session EXCEPT ![s].step = "store"]
            /\ overlap' = (overlap \/ Rewriting # {})
       ELSE /\ session' = [session EXCEPT ![s].step = "idle", ![s].command = NoCommand]
            /\ UNCHANGED <<lists, overlap>>
    /\ UNCHANGED <<disk, exists, mixed, torn, commands>>

Does(s, command) == session[s].step = "granted" /\ session[s].command = command

SetEntry(acl, key, rights) == {e \in acl : e[1] # key} \cup {<<key, rights>>}

CreateUser(s, u, pw) ==
    /\ Does(s, <<"createUser", u, pw>>)
    /\ Change(s, u \notin Named(lists), [lists EXCEPT !.users = @ \cup {<<u, pw>>}])

ChangePassword(s, u, pw) ==
    /\ Does(s, <<"changePassword", u, pw>>)
    /\ Change(s, u \in Named(lists), [lists EXCEPT !.users = SetEntry(@, u, pw)])

(* Mutant of DeleteUser: the user stays in his groups.                     *)
DeleteUserKeepsGroups(s, u) ==
    /\ Does(s, <<"deleteUser", u>>)
    /\ Change(s, u \in Named(lists),
              [lists EXCEPT !.users    = {e \in @ : e[1] # u},
                            !.actoracl = {e \in @ : e[1] # u},
                            !.qacl     = {e \in @ : e[2] # u}])

DeleteUser(s, u) ==
    /\ Does(s, <<"deleteUser", u>>)
    /\ Change(s, u \in Named(lists),
              [lists EXCEPT !.users    = {e \in @ : e[1] # u},
                            !.members  = {e \in @ : e[1] # u},
                            !.actoracl = {e \in @ : e[1] # u},
                            !.qacl     = {e \in @ : e[2] # u}])

CreateGroup(s, g) ==
    /\ Does(s, <<"createGroup", g>>)
    /\ Change(s, g \notin lists.groups, [lists EXCEPT !.groups = @ \cup {g}])

DeleteGroup(s, g) ==
    /\ Does(s, <<"deleteGroup", g>>)
    /\ Change(s, g \in lists.groups,
              [lists EXCEPT !.groups   = @ \ {g},
                            !.members  = {e \in @ : e[2] # g},
                            !.actoracl = {e \in @ : e[1] # g},
                            !.qacl     = {e \in @ : e[2] # g}])

(* Mutant of AddUserGroup: goes by what was there when it was tested.      *)
AddUserAnyGroup(s, u, g) ==
    /\ Does(s, <<"addUserGroup", u, g>>)
    /\ Change(s, <<u, g>> \notin lists.members,
              [lists EXCEPT !.members = @ \cup {<<u, g>>}])

(* The group must exist; nobody asks whether the user does.                *)
AddUserGroup(s, u, g) ==
    /\ Does(s, <<"addUserGroup", u, g>>)
    /\ Change(s, g \in lists.groups /\ <<u, g>> \notin lists.members,
              [lists EXCEPT !.members = @ \cup {<<u, g>>}])

DeleteUserGroup(s, u, g) ==
    /\ Does(s, <<"deleteUserGroup", u, g>>)
    /\ Change(s, <<u, g>> \in lists.members,
              [lists EXCEPT !.members = @ \ {<<u, g>>}])

SetActorControlUser(s, u, rights) ==
    /\ Does(s, <<"setActorUser", u, rights>>)
    /\ Change(s, u \in Named(lists),
              [lists EXCEPT !.actoracl = SetEntry(@, u, rights)])

SetActorControlGroup(s, g, rights) ==
    /\ Does(s, <<"setActorGroup", g, rights>>)
    /\ Change(s, g \in lists.groups,
              [lists EXCEPT !.actoracl = SetEntry(@, g, rights)])

(* addUserIdentity() and removeIdentity(): scmtx is not taken, neither to  *)
(* change the map of identities nor to store the lists.                    *)
ChangeIdentity(s, command) ==
    /\ Does(s, command)
    /\ session' = [session EXCEPT ![s].step = "rewrite"]
    /\ UNCHANGED <<lists, disk, exists, storeVars, commands>>
-----------------------------------------------------------------------------
(* The access list of a queue.  It is kept by name, whether or not there   *)
(* is such a queue, user or group.                                         *)
WithoutEntry(q, a) == {e \in lists.qacl : e[1] # q \/ e[2] # a}

(* Mutant of SetQAccessControl: queue and actor of the key change places.  *)
SetSwappedControl(s, q, a, rights) ==
    /\ Does(s, <<"setQueue", q, a, rights>>)
    /\ Change(s, TRUE, [lists EXCEPT !.qacl = WithoutEntry(q, a) \cup {<<a, q, rights>>}])

SetQAccessControl(s, q, a, rights) ==
    /\ Does(s, <<"setQueue", q, a, rights>>)
    /\ Change(s, TRUE, [lists EXCEPT !.qacl = WithoutEntry(q, a) \cup {<<q, a, rights>>}])

DeleteQAccessControl(s, q, a) ==
    /\ Does(s, <<"deleteQueueEntry", q, a>>)
    /\ Change(s, WithoutEntry(q, a) # lists.qacl,
              [lists EXCEPT !.qacl = WithoutEntry(q, a)])

(* QueueCreateCmd and QueueDeleteCmd have a step in the queue manager      *)
(* before the one that changes the lists.  A deletion may be refused while *)
(* the queue is open.                                                      *)
InManager(s, done, queues) ==
    /\ exists' = IF done THEN queues ELSE exists
    /\ session' = IF done THEN [session EXCEPT ![s].step = "managed"]
                  ELSE [session EXCEPT ![s].step = "idle", ![s].command = NoCommand]
    /\ UNCHANGED <<lists, disk, storeVars, commands>>

CreateQueue(s, q) ==
    Does(s, <<"createQueue", q>>) /\ InManager(s, q \notin exists, exists \cup {q})

DeleteQueue(s, q) ==
    /\ Does(s, <<"deleteQueue", q>>)
    /\ \E open \in BOOLEAN : InManager(s, q \in exists /\ ~open, exists \ {q})

SetInitialQueueControl(s, q) ==
    /\ session[s].step = "managed" /\ session[s].command = <<"createQueue", q>>
    /\ LET a == session[s].user IN
       Change(s, TRUE,
              [lists EXCEPT !.qacl = WithoutEntry(q, a) \cup {<<q, a, QueueRights>>}])

PurgeQSecurity(s, q) ==
    /\ session[s].step = "managed" /\ session[s].command = <<"deleteQueue", q>>
    /\ Change(s, TRUE, [lists EXCEPT !.qacl = {e \in @ : e[1] # q}])
-----------------------------------------------------------------------------
(* storeSecurityLists() writes one file after the other, in this order.    *)
(* Where every store under way writes the lists as they are, the files     *)
(* come to hold just that.  Where a change came in between, a file may     *)
(* hold lines of the old list and the new, or pieces of lines.             *)
FileNumber == [users |-> 1, groups |-> 2, members |-> 3, actoracl |-> 4, qacl |-> 5]

Stored(s, written) ==
    /\ s \in Writers
    /\ disk' \in {written} \cup (IF overlap THEN MixedLists ELSE {})
    /\ session' = [session EXCEPT ![s].step = "idle", ![s].command = NoCommand]
    /\ mixed' = overlap
    /\ overlap' = (overlap /\ Writers # {s})
    /\ UNCHANGED <<lists, exists, torn, commands>>

(* Mutant of StoreSecurityLists: forgets the lists of the queues.          *)
StoreActorLists(s) == Stored(s, [lists EXCEPT !.qacl = disk.qacl])

StoreSecurityLists(s) == Stored(s, lists)

(* The files after a crash before a session wrote the first, or one that   *)
(* left only some lines of the last it was writing.                        *)
CutAt(files, last, written) ==
    [name \in DOMAIN FileNumber |->
        IF FileNumber[name] < FileNumber[last] THEN lists[name]
        ELSE IF name = last THEN written ELSE files[name]]

CutOnce(files) ==
    {files} \cup UNION {{CutAt(files, last, written) : written \in SUBSET lists[last]} :
                       last \in DOMAIN FileNumber}

(* The constructor reads the files.                                        *)
Load(files) ==
    /\ disk' = files
    /\ lists' = Constructed(files)
    /\ session' = [s \in Sessions |-> Idle]
    /\ overlap' = FALSE /\ mixed' = FALSE
    /\ UNCHANGED <<exists, commands>>

Restart == Writers = {} /\ Load(disk) /\ torn' = (torn \/ mixed)

(* A crash cuts a file for each session that was storing; bound: for two.  *)
TornRestart ==
    /\ Writers # {}
    /\ \E files \in IF overlap \/ mixed THEN MixedLists
                   ELSE IF Cardinality(Writers) = 1 THEN CutOnce(disk)
                   ELSE UNION {CutOnce(f) : f \in CutOnce(disk)} :
          Load(files)
    /\ torn' = TRUE
-----------------------------------------------------------------------------
SessionNext(s) ==
    \/ \E u \in Users, pw \in Passwords :
          Login(s, u, pw) \/ CreateUser(s, u, pw) \/ ChangePassword(s, u, pw)
    \/ Logout(s)
    \/ \E c \in UserCommands : TestUserCommand(s, c)
    \/ \E c \in GroupCommands : TestGroupCommand(s, c)
    \/ \E c \in QueueCommands : TestQueueCommand(s, c)
    \/ \E q \in Queues : \/ TestCreateQueue(s, q) \/ TestDeleteQueue(s, q)
                        \/ CreateQueue(s, q) \/ DeleteQueue(s, q)
                        \/ SetInitialQueueControl(s, q) \/ PurgeQSecurity(s, q)
    \/ \E u \in Users : \/ DeleteUser(s, u)
                       \/ \E r \in GrantedActorRights : SetActorControlUser(s, u, r)
                       \/ \E g \in Groups : AddUserGroup(s, u, g) \/ DeleteUserGroup(s, u, g)
    \/ \E g \in Groups : \/ CreateGroup(s, g) \/ DeleteGroup(s, g)
                        \/ \E r \in GrantedActorRights : SetActorControlGroup(s, g, r)
    \/ \E q \in Queues, a \in Actors :
          \/ DeleteQAccessControl(s, q, a)
          \/ \E r \in GrantedQueueRights : SetQAccessControl(s, q, a, r)
    \/ \E c \in IdentityCommands : ChangeIdentity(s, c)
    \/ StoreSecurityLists(s)

Next == (\E s \in Sessions : SessionNext(s)) \/ Restart \/ TornRestart

Spec == Init /\ [][Next]_vars
-----------------------------------------------------------------------------
(* Properties *)

SecurityTypeOK ==
    /\ lists \in Lists /\ disk \in Lists
    /\ exists \subseteq Queues
    /\ session \in [Sessions -> [user : Users \cup {Nobody},
                                  step : {"idle", "granted", "managed", "store", "rewrite"},
                                  command : Commands \cup {NoCommand}]]
    /\ overlap \in BOOLEAN /\ mixed \in BOOLEAN /\ torn \in BOOLEAN
    /\ commands \in 0 .. MaxCommands

(* Unless the server was started from files that were cut or mixed, nobody *)
(* is member of a group that does not exist and no right to administer is  *)
(* left to a user or group that does not exist, although a command tests   *)
(* and changes the lists in two steps, with the commands of others in      *)
(* between.                                                                *)
ListsClosed == ~torn => Closed(lists)

(* While nobody stores the lists, a restart brings back those there are,   *)
(* but for the administrators the constructor makes again, whatever stores *)
(* were under way together; unless the last of them overlapped a change.   *)
RestartRestores ==
    Writers = {} /\ ~mixed => Constructed(disk) = Constructed(lists)

(* A user who is deleted keeps no right of his own or of a group: on each  *)
(* queue he may do what anybody may.                                       *)
Changing == Unlocked /\ Storing'

DeletionRevokes ==
    [][\A u \in Named(lists) \ Named(lists') :
          Changing =>
          /\ \A r \in ActorRights : ~MayAdminister(lists', u, r)
          /\ \A q \in Queues, r \in QueueRights :
                MayUse(lists', u, q, r) => Listed(QueueList(lists', q), AllUsers, r)]_vars

(* A restart gives nobody a right he had neither before the command that   *)
(* was cut nor after it, but for admin and those who were in the group of  *)
(* administrators, which the constructor makes again; unless stores had    *)
(* overlapped a change.                                                    *)
Restarting == Writers # {} /\ Writers' = {} /\ torn' /\ ~overlap /\ ~mixed

NoGainByRestart ==
    [][Restarting =>
          \A u \in Users \ {Admin} :
             AdminGroup \notin GroupsOf(lists, u) \cup GroupsOf(disk, u) =>
             /\ \A r \in ActorRights : MayAdminister(lists', u, r) =>
                   MayAdminister(lists, u, r) \/ MayAdminister(disk, u, r)
             /\ \A q \in Queues, r \in QueueRights : MayUse(lists', u, q, r) =>
                   MayUse(lists, u, q, r) \/ MayUse(disk, u, q, r)]_vars
=============================================================================
