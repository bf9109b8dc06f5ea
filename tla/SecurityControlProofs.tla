----------------------- MODULE SecurityControlProofs -----------------------
(***************************************************************************)
(* Proofs about SecurityControl, for any users, groups, queues, sessions   *)
(* and commands, and any lists the server may start with.                  *)
(*                                                                         *)
(* The invariant says of the files what it says of the lists in memory, as *)
(* a restart makes the one out of the other; but for those that stores     *)
(* left which overlapped a change.                                         *)
(***************************************************************************)
EXTENDS SecurityControl, TLAPS

SessionRecord == [user : Users \cup {Nobody},
                  step : {"idle", "granted", "managed", "store", "rewrite"},
                  command : Commands \cup {NoCommand}]

(* A session at work has logged in.                                        *)
SessionType == {r \in SessionRecord : r.step # "idle" => r.user # Nobody}

ListsInv == /\ Unique(lists) /\ Unique(disk)
            /\ ~torn => Closed(lists)
            /\ ~torn /\ ~mixed => Closed(disk)

Inv == SecurityTypeOK /\ ListsInv /\ session \in [Sessions -> SessionType]

(* What a list keeps of being closed and without double entries.           *)
Sound(l, old) == l \in Lists /\ Unique(l) /\ (Closed(old) => Closed(l))
-----------------------------------------------------------------------------
(* The constructor.                                                        *)

LEMMA ListsMember ==
    ASSUME NEW l \in Lists
    PROVE  /\ l.users \subseteq Users \X Passwords
           /\ l.groups \subseteq Groups
           /\ l.members \subseteq Users \X Groups
           /\ l.actoracl \subseteq Actors \X SUBSET ActorRights
           /\ l.qacl \subseteq Queues \X Actors \X SUBSET QueueRights
    BY DEF Lists

(* Lists whose parts have the right type.                                  *)
LEMMA ListsBuilt ==
    ASSUME NEW l,
           l = [users |-> l.users, groups |-> l.groups, members |-> l.members,
                actoracl |-> l.actoracl, qacl |-> l.qacl],
           l.users \subseteq Users \X Passwords,
           l.groups \subseteq Groups,
           l.members \subseteq Users \X Groups,
           l.actoracl \subseteq Actors \X SUBSET ActorRights,
           l.qacl \subseteq Queues \X Actors \X SUBSET QueueRights
    PROVE  l \in Lists
<1> DEFINE u == l.users  g == l.groups  m == l.members  a == l.actoracl  q == l.qacl
<1>1. u \in SUBSET (Users \X Passwords) /\ g \in SUBSET Groups
      /\ m \in SUBSET (Users \X Groups) /\ a \in SUBSET (Actors \X SUBSET ActorRights)
      /\ q \in SUBSET (Queues \X Actors \X SUBSET QueueRights)
    OBVIOUS
<1>2. l = [users |-> u, groups |-> g, members |-> m, actoracl |-> a, qacl |-> q]
    OBVIOUS
<1> HIDE DEF u, g, m, a, q
<1> QED BY <1>1, <1>2 DEF Lists

(* An entry of an access list, set for an actor, is his only one.          *)
LEMMA SetActorUnique ==
    ASSUME NEW acl, NEW key, NEW rights,
           \A d, e \in acl : d[1] = e[1] => d = e
    PROVE  \A d, e \in SetActor(acl, key, rights) : d[1] = e[1] => d = e
BY DEF SetActor

(* An entry of the list of users names its user.                           *)
LEMMA NamedEntry ==
    ASSUME NEW l, NEW e \in l.users
    PROVE  e[1] \in Named(l)
BY DEF Named

(* WithAdmin() keeps lists sound, Admin being a user.                      *)
LEMMA WithAdminSound ==
    ASSUME NEW l \in Lists, Unique(l)
    PROVE  Sound(WithAdmin(l), l)
<1>1. CASE Admin \in Named(l)
    BY <1>1 DEF WithAdmin, Sound
<1>2. CASE Admin \notin Named(l)
    <2> DEFINE k == WithAdmin(l)
    <2>1. /\ k.users = l.users \cup {<<Admin, NoPassword>>}
          /\ k.groups = l.groups /\ k.members = l.members /\ k.qacl = l.qacl
          /\ k.actoracl = SetActor(l.actoracl, Admin, ActorRights)
          /\ k = [users |-> k.users, groups |-> k.groups, members |-> k.members,
                  actoracl |-> k.actoracl, qacl |-> k.qacl]
        BY <1>2 DEF WithAdmin, Lists
    <2> HIDE DEF k
    <2>2. /\ k.users \subseteq Users \X Passwords
          /\ k.actoracl \subseteq Actors \X SUBSET ActorRights
        BY <2>1, SecurityAssumption, ListsMember DEF SetActor, Actors
    <2>3. k \in Lists
        BY <2>1, <2>2, ListsMember, ListsBuilt
    <2>4. Unique(k)
        BY <1>2, <2>1, ListsMember DEF Unique, SetActor, Named
    <2>5. Named(l) \subseteq Named(k) /\ Admin \in Named(k)
        <3>1. <<Admin, NoPassword>> \in k.users /\ <<Admin, NoPassword>>[1] = Admin
            BY <2>1
        <3>2. Admin \in Named(k)
            BY <3>1, NamedEntry
        <3>3. l.users \subseteq k.users
            BY <2>1
        <3> QED BY <3>2, <3>3 DEF Named
    <2>6. Closed(l) => Closed(k)
        <3> SUFFICES ASSUME Closed(l) PROVE Closed(k)
            OBVIOUS
        <3>1. \A e \in k.members : e[2] \in k.groups
            BY <2>1 DEF Closed
        <3>2. \A e \in k.actoracl : e[1] \in Named(k) \cup k.groups
            BY <2>1, <2>5 DEF Closed, SetActor
        <3> QED BY <3>1, <3>2 DEF Closed
    <2> QED BY <2>3, <2>4, <2>6 DEF Sound, k
<1> QED BY <1>1, <1>2

(* WithAdmins() does, with the group in its list.                          *)
LEMMA WithAdminsSound ==
    ASSUME NEW l \in Lists, Unique(l)
    PROVE  Sound(WithAdmins(l), l)
<1>1. CASE AdminGroup \in l.groups
    BY <1>1 DEF WithAdmins, Sound
<1>2. CASE AdminGroup \notin l.groups
    <2> DEFINE k == WithAdmins(l)
    <2>1. /\ k.users = l.users /\ k.qacl = l.qacl
          /\ k.groups = l.groups \cup {AdminGroup}
          /\ k.members = l.members \cup {<<Admin, AdminGroup>>}
          /\ k.actoracl = SetActor(l.actoracl, AdminGroup, ActorRights)
          /\ k = [users |-> k.users, groups |-> k.groups, members |-> k.members,
                  actoracl |-> k.actoracl, qacl |-> k.qacl]
        BY <1>2 DEF WithAdmins, Lists
    <2> HIDE DEF k
    <2>2. /\ k.groups \subseteq Groups /\ k.members \subseteq Users \X Groups
          /\ k.actoracl \subseteq Actors \X SUBSET ActorRights
        BY <2>1, SecurityAssumption, ListsMember DEF SetActor, Actors
    <2>3. k \in Lists
        BY <2>1, <2>2, ListsMember, ListsBuilt
    <2>4. Unique(k)
        BY <1>2, <2>1, ListsMember DEF Unique, SetActor
    <2>5. Closed(l) => Closed(k)
        BY <2>1, ListsMember DEF Closed, SetActor, Named
    <2> QED BY <2>3, <2>4, <2>5 DEF Sound, k
<1> QED BY <1>1, <1>2

(* What a restart makes of files is as sound as they are.                  *)
LEMMA ConstructedSound ==
    ASSUME NEW l \in Lists, Unique(l)
    PROVE  Sound(Constructed(l), l)
BY WithAdminSound, WithAdminsSound DEF Constructed, Sound
-----------------------------------------------------------------------------
(* The steps.                                                              *)

(* The first lists are what the constructor makes of sound files.          *)
LEMMA InitInv == Init => Inv
<1> SUFFICES ASSUME Init PROVE Inv
    OBVIOUS
<1>1. disk \in Lists /\ Unique(disk) /\ Closed(disk)
    BY StoredAssumption DEF Init
<1>2. lists \in Lists /\ Unique(lists) /\ Closed(lists)
    BY <1>1, ConstructedSound DEF Init, Sound
<1>3. exists \subseteq Queues
    BY <1>1, ListsMember DEF Init
<1>4. /\ session \in [Sessions -> SessionType] /\ commands \in 0 .. MaxCommands
      /\ overlap = FALSE /\ mixed = FALSE /\ torn = FALSE
    BY SecurityAssumption DEF Init, Idle, SessionType, SessionRecord
<1>5. session \in [Sessions -> SessionRecord]
    BY <1>4 DEF SessionType
<1> QED BY <1>1, <1>2, <1>3, <1>4, <1>5 DEF Inv, ListsInv, SecurityTypeOK, SessionRecord

(* Where a session goes from one step of a command to the next.            *)
LEMMA SessionMoves ==
    ASSUME session \in [Sessions -> SessionType], NEW s \in Sessions,
           NEW step \in {"idle", "granted", "managed", "store", "rewrite"},
           NEW c \in Commands \cup {NoCommand},
           step = "idle" \/ session[s].user # Nobody
    PROVE  /\ [session EXCEPT ![s].step = step] \in [Sessions -> SessionType]
           /\ [session EXCEPT ![s].step = step, ![s].command = c]
                  \in [Sessions -> SessionType]
BY DEF SessionType, SessionRecord

(* A change of the lists that is sound keeps the invariant.                *)
LEMMA ChangeKeeps ==
    ASSUME Inv, Sound(lists', lists), session' \in [Sessions -> SessionType],
           exists' \subseteq Queues, UNCHANGED <<disk, mixed, torn, commands>>,
           overlap' \in BOOLEAN
    PROVE  Inv'
<1>1. /\ Unique(disk)' /\ (~torn' => Closed(lists)')
      /\ ~torn' /\ ~mixed' => Closed(disk)'
    BY DEF Inv, ListsInv, Sound, Unique, Closed, Named
<1>2. lists' \in Lists /\ Unique(lists)'
    BY DEF Sound, Unique
<1>3. session' \in [Sessions -> SessionRecord]
    BY DEF SessionType
<1> QED BY <1>1, <1>2, <1>3 DEF Inv, ListsInv, SecurityTypeOK, SessionRecord

(* The lists without the change.                                           *)
LEMMA OldSound ==
    ASSUME Inv
    PROVE  Sound(lists, lists)
BY DEF Inv, ListsInv, SecurityTypeOK, Sound

(* The lists after one of the commands, sound if those before were.        *)
LEMMA UsersSound ==
    ASSUME Inv, NEW u \in Users, NEW pw \in Passwords
    PROVE  /\ u \notin Named(lists) =>
                 Sound([lists EXCEPT !.users = @ \cup {<<u, pw>>}], lists)
           /\ u \in Named(lists) =>
                 Sound([lists EXCEPT !.users = SetEntry(@, u, pw)], lists)
<1>0. lists \in Lists /\ Unique(lists)
    BY DEF Inv, ListsInv, SecurityTypeOK
<1>1. ASSUME u \notin Named(lists)
      PROVE  Sound([lists EXCEPT !.users = @ \cup {<<u, pw>>}], lists)
    <2> DEFINE more == lists.users \cup {<<u, pw>>}
               l == [lists EXCEPT !.users = more]
    <2> HIDE DEF more
    <2>1. /\ l.users = more
          /\ l.groups = lists.groups /\ l.members = lists.members
          /\ l.actoracl = lists.actoracl /\ l.qacl = lists.qacl
          /\ l = [users |-> l.users, groups |-> l.groups, members |-> l.members,
                  actoracl |-> l.actoracl, qacl |-> l.qacl]
        BY <1>0 DEF Lists
    <2> HIDE DEF l
    <2>2. l \in Lists
        BY <1>0, <2>1, ListsMember, ListsBuilt DEF more
    <2>3. Unique(l)
        BY <1>0, <1>1, <2>1, ListsMember DEF Unique, Named, more
    <2>4. lists.users \subseteq l.users
        BY <2>1 DEF more
    <2>5. Closed(lists) => Closed(l)
        BY <2>1, <2>4 DEF Closed, Named
    <2> QED BY <2>2, <2>3, <2>5 DEF Sound, l, more
<1>2. ASSUME u \in Named(lists)
      PROVE  Sound([lists EXCEPT !.users = SetEntry(@, u, pw)], lists)
    <2> DEFINE l == [lists EXCEPT !.users = SetEntry(@, u, pw)]
    <2>1. /\ l.users = SetEntry(lists.users, u, pw)
          /\ l.groups = lists.groups /\ l.members = lists.members
          /\ l.actoracl = lists.actoracl /\ l.qacl = lists.qacl
          /\ l = [users |-> l.users, groups |-> l.groups, members |-> l.members,
                  actoracl |-> l.actoracl, qacl |-> l.qacl]
        BY <1>0 DEF Lists
    <2> HIDE DEF l
    <2>2. l.users \subseteq Users \X Passwords
        BY <1>0, <2>1, ListsMember DEF SetEntry
    <2>3. l \in Lists
        BY <1>0, <2>1, <2>2, ListsMember, ListsBuilt
    <2>4. Unique(l)
        BY <1>0, <2>1, ListsMember DEF Unique, SetEntry
    <2>5. ASSUME NEW e \in lists.users PROVE e[1] \in Named(l)
        <3>1. CASE e[1] # u
            BY <2>1, <3>1, NamedEntry DEF SetEntry
        <3>2. CASE e[1] = u
            <4>1. <<u, pw>> \in l.users /\ <<u, pw>>[1] = u
                BY <2>1 DEF SetEntry
            <4> QED BY <3>2, <4>1, NamedEntry
        <3> QED BY <3>1, <3>2
    <2>6. Named(lists) \subseteq Named(l)
        BY <2>5 DEF Named
    <2>7. Closed(lists) => Closed(l)
        BY <2>1, <2>6 DEF Closed
    <2> QED BY <2>3, <2>4, <2>7 DEF Sound, l
<1> QED BY <1>1, <1>2

(* All a user has goes with him.                                           *)
LEMMA UserGoneSound ==
    ASSUME Inv, NEW u \in Users
    PROVE  Sound([lists EXCEPT !.users    = {e \in @ : e[1] # u},
                               !.members  = {e \in @ : e[1] # u},
                               !.actoracl = {e \in @ : e[1] # u},
                               !.qacl     = {e \in @ : e[2] # u}], lists)
<1>0. lists \in Lists /\ Unique(lists)
    BY DEF Inv, ListsInv, SecurityTypeOK
<1> DEFINE users    == {e \in lists.users : e[1] # u}
           members  == {e \in lists.members : e[1] # u}
           actoracl == {e \in lists.actoracl : e[1] # u}
           qacl     == {e \in lists.qacl : e[2] # u}
<1> HIDE DEF users, members, actoracl, qacl
<1> DEFINE one == [lists EXCEPT !.users = users]
<1>a. one = [users |-> users, groups |-> lists.groups, members |-> lists.members,
           actoracl |-> lists.actoracl, qacl |-> lists.qacl]
    BY <1>0 DEF Lists
<1> HIDE DEF one
<1> DEFINE two == [one EXCEPT !.members = members]
<1>b. two = [users |-> users, groups |-> lists.groups, members |-> members,
           actoracl |-> lists.actoracl, qacl |-> lists.qacl]
    BY <1>a
<1> HIDE DEF two
<1> DEFINE three == [two EXCEPT !.actoracl = actoracl]
<1>c. three = [users |-> users, groups |-> lists.groups, members |-> members,
             actoracl |-> actoracl, qacl |-> lists.qacl]
    BY <1>b
<1> HIDE DEF three
<1> DEFINE l == [three EXCEPT !.qacl = qacl]
<1>d. l = [users |-> users, groups |-> lists.groups, members |-> members,
         actoracl |-> actoracl, qacl |-> qacl]
    BY <1>c
<1> HIDE DEF l
<1>1. /\ l.users = {e \in lists.users : e[1] # u}
      /\ l.groups = lists.groups
      /\ l.members = {e \in lists.members : e[1] # u}
      /\ l.actoracl = {e \in lists.actoracl : e[1] # u}
      /\ l.qacl = {e \in lists.qacl : e[2] # u}
      /\ l = [users |-> l.users, groups |-> l.groups, members |-> l.members,
              actoracl |-> l.actoracl, qacl |-> l.qacl]
    BY <1>d DEF users, members, actoracl, qacl
<1>2. l \in Lists
    BY <1>0, <1>1, ListsMember, ListsBuilt
<1>3. Unique(l)
    BY <1>0, <1>1 DEF Unique
<1>4. ASSUME Closed(lists) PROVE Closed(l)
    <2>1. ASSUME NEW e \in l.actoracl PROVE e[1] \in Named(l) \cup l.groups
        <3>1. e \in lists.actoracl /\ e[1] # u
            BY <1>1
        <3>2. CASE e[1] \in lists.groups
            BY <1>1, <3>2
        <3>3. CASE e[1] \in Named(lists)
            <4>1. PICK d \in lists.users : d[1] = e[1]
                BY <3>3 DEF Named
            <4> QED BY <1>1, <3>1, <4>1, NamedEntry
        <3> QED BY <1>4, <3>1, <3>2, <3>3 DEF Closed
    <2>2. \A e \in l.members : e[2] \in l.groups
        BY <1>1, <1>4 DEF Closed
    <2> QED BY <2>1, <2>2 DEF Closed
<1>5. Sound(l, lists)
    BY <1>2, <1>3, <1>4 DEF Sound
<1> QED BY <1>5, Zenon DEF l, three, two, one, users, members, actoracl, qacl

(* A group comes with nothing, and all it has goes with it.                *)
LEMMA GroupsSound ==
    ASSUME Inv, NEW g \in Groups
    PROVE  /\ Sound([lists EXCEPT !.groups = @ \cup {g}], lists)
           /\ Sound([lists EXCEPT !.groups   = @ \ {g},
                                  !.members  = {e \in @ : e[2] # g},
                                  !.actoracl = {e \in @ : e[1] # g},
                                  !.qacl     = {e \in @ : e[2] # g}], lists)
<1>0. lists \in Lists /\ Unique(lists)
    BY DEF Inv, ListsInv, SecurityTypeOK
<1>1. Sound([lists EXCEPT !.groups = @ \cup {g}], lists)
    <2> DEFINE l == [lists EXCEPT !.groups = @ \cup {g}]
    <2>1. /\ l.groups = lists.groups \cup {g}
          /\ l.users = lists.users /\ l.members = lists.members
          /\ l.actoracl = lists.actoracl /\ l.qacl = lists.qacl
          /\ l = [users |-> l.users, groups |-> l.groups, members |-> l.members,
                  actoracl |-> l.actoracl, qacl |-> l.qacl]
        BY <1>0 DEF Lists
    <2> HIDE DEF l
    <2>2. l \in Lists
        BY <1>0, <2>1, ListsMember, ListsBuilt
    <2>3. Unique(l) /\ (Closed(lists) => Closed(l))
        BY <1>0, <2>1 DEF Unique, Closed, Named
    <2> QED BY <2>2, <2>3 DEF Sound, l
<1>2. Sound([lists EXCEPT !.groups   = @ \ {g},
                          !.members  = {e \in @ : e[2] # g},
                          !.actoracl = {e \in @ : e[1] # g},
                          !.qacl     = {e \in @ : e[2] # g}], lists)
    <2> DEFINE groups   == lists.groups \ {g}
               members  == {e \in lists.members : e[2] # g}
               actoracl == {e \in lists.actoracl : e[1] # g}
               qacl     == {e \in lists.qacl : e[2] # g}
    <2> HIDE DEF groups, members, actoracl, qacl
    <2> DEFINE one == [lists EXCEPT !.groups = groups]
    <2>a. one = [users |-> lists.users, groups |-> groups, members |-> lists.members,
               actoracl |-> lists.actoracl, qacl |-> lists.qacl]
        BY <1>0 DEF Lists
    <2> HIDE DEF one
    <2> DEFINE two == [one EXCEPT !.members = members]
    <2>b. two = [users |-> lists.users, groups |-> groups, members |-> members,
               actoracl |-> lists.actoracl, qacl |-> lists.qacl]
        BY <2>a
    <2> HIDE DEF two
    <2> DEFINE three == [two EXCEPT !.actoracl = actoracl]
    <2>c. three = [users |-> lists.users, groups |-> groups, members |-> members,
                 actoracl |-> actoracl, qacl |-> lists.qacl]
        BY <2>b
    <2> HIDE DEF three
    <2> DEFINE l == [three EXCEPT !.qacl = qacl]
    <2>d. l = [users |-> lists.users, groups |-> groups, members |-> members,
             actoracl |-> actoracl, qacl |-> qacl]
        BY <2>c
    <2> HIDE DEF l
    <2>1. /\ l.users = lists.users /\ l.groups = lists.groups \ {g}
          /\ l.members = {e \in lists.members : e[2] # g}
          /\ l.actoracl = {e \in lists.actoracl : e[1] # g}
          /\ l.qacl = {e \in lists.qacl : e[2] # g}
          /\ l = [users |-> l.users, groups |-> l.groups, members |-> l.members,
                  actoracl |-> l.actoracl, qacl |-> l.qacl]
        BY <2>d DEF groups, members, actoracl, qacl
    <2>2. l \in Lists
        BY <1>0, <2>1, ListsMember, ListsBuilt
    <2>3. Unique(l) /\ (Closed(lists) => Closed(l))
        BY <1>0, <2>1 DEF Unique, Closed, Named
    <2>4. Sound(l, lists)
        BY <2>2, <2>3 DEF Sound
    <2> QED BY <2>4, Zenon DEF l, three, two, one, groups, members, actoracl, qacl
<1> QED BY <1>1, <1>2

(* Members join only groups there are.                                     *)
LEMMA MembersSound ==
    ASSUME Inv, NEW u \in Users, NEW g \in Groups
    PROVE  /\ g \in lists.groups =>
                 Sound([lists EXCEPT !.members = @ \cup {<<u, g>>}], lists)
           /\ Sound([lists EXCEPT !.members = @ \ {<<u, g>>}], lists)
<1>0. lists \in Lists /\ Unique(lists)
    BY DEF Inv, ListsInv, SecurityTypeOK
<1>1. ASSUME NEW members,
             \/ g \in lists.groups /\ members = lists.members \cup {<<u, g>>}
             \/ members = lists.members \ {<<u, g>>}
      PROVE  Sound([lists EXCEPT !.members = members], lists)
    <2> DEFINE l == [lists EXCEPT !.members = members]
    <2>1. /\ l.users = lists.users /\ l.groups = lists.groups /\ l.members = members
          /\ l.actoracl = lists.actoracl /\ l.qacl = lists.qacl
          /\ l = [users |-> l.users, groups |-> l.groups, members |-> l.members,
                  actoracl |-> l.actoracl, qacl |-> l.qacl]
        BY <1>0 DEF Lists
    <2> HIDE DEF l
    <2>2. l.members \subseteq Users \X Groups
        BY <1>0, <1>1, <2>1, ListsMember
    <2>3. l \in Lists
        BY <1>0, <2>1, <2>2, ListsMember, ListsBuilt
    <2>4. Unique(l) /\ (Closed(lists) => Closed(l))
        BY <1>0, <1>1, <2>1 DEF Unique, Closed, Named
    <2> QED BY <2>3, <2>4 DEF Sound, l
<1> QED BY <1>1

(* An actor's entry is set only for a user or group there is.              *)
LEMMA ActorSound ==
    ASSUME Inv, NEW a \in Actors, a \in Named(lists) \cup lists.groups,
           NEW rights \in GrantedActorRights
    PROVE  Sound([lists EXCEPT !.actoracl = SetEntry(@, a, rights)], lists)
<1>0. lists \in Lists /\ Unique(lists)
    BY DEF Inv, ListsInv, SecurityTypeOK
<1> DEFINE l == [lists EXCEPT !.actoracl = SetEntry(@, a, rights)]
<1>1. /\ l.users = lists.users /\ l.groups = lists.groups /\ l.members = lists.members
      /\ l.actoracl = SetEntry(lists.actoracl, a, rights) /\ l.qacl = lists.qacl
      /\ l = [users |-> l.users, groups |-> l.groups, members |-> l.members,
              actoracl |-> l.actoracl, qacl |-> l.qacl]
    BY <1>0 DEF Lists
<1> HIDE DEF l
<1>2. l.actoracl \subseteq Actors \X SUBSET ActorRights
    BY <1>0, <1>1, SecurityAssumption, ListsMember DEF SetEntry
<1>3. l \in Lists
    BY <1>0, <1>1, <1>2, ListsMember, ListsBuilt
<1>4. Unique(l)
    BY <1>0, <1>1, ListsMember DEF Unique, SetEntry
<1>5. ASSUME Closed(lists) PROVE Closed(l)
    <2>1. Named(l) = Named(lists)
        BY <1>1 DEF Named
    <2> QED BY <1>1, <1>5, <2>1 DEF Closed, SetEntry
<1> QED BY <1>3, <1>4, <1>5 DEF Sound, l

(* The lists of the queues: no more than one entry for a queue and actor.  *)
LEMMA QueueListSound ==
    ASSUME Inv, NEW acl \in SUBSET (Queues \X Actors \X SUBSET QueueRights),
           \A d, e \in acl : d[1] = e[1] /\ d[2] = e[2] => d = e
    PROVE  Sound([lists EXCEPT !.qacl = acl], lists)
<1>0. lists \in Lists /\ Unique(lists)
    BY DEF Inv, ListsInv, SecurityTypeOK
<1> DEFINE l == [lists EXCEPT !.qacl = acl]
<1>1. /\ l.users = lists.users /\ l.groups = lists.groups
      /\ l.members = lists.members /\ l.actoracl = lists.actoracl /\ l.qacl = acl
      /\ l = [users |-> l.users, groups |-> l.groups, members |-> l.members,
              actoracl |-> l.actoracl, qacl |-> l.qacl]
    BY <1>0 DEF Lists
<1> HIDE DEF l
<1>2. l \in Lists
    BY <1>0, <1>1, ListsMember, ListsBuilt
<1>3. Unique(l) /\ (Closed(lists) => Closed(l))
    BY <1>0, <1>1 DEF Unique, Closed, Named
<1> QED BY <1>2, <1>3 DEF Sound, l

(* An entry is set or deleted.                                             *)
LEMMA EntrySound ==
    ASSUME Inv, NEW q \in Queues, NEW a \in Actors, NEW rights \in SUBSET QueueRights
    PROVE  /\ Sound([lists EXCEPT !.qacl = WithoutEntry(q, a)], lists)
           /\ Sound([lists EXCEPT !.qacl = WithoutEntry(q, a) \cup {<<q, a, rights>>}],
                    lists)
<1>0. lists \in Lists /\ Unique(lists)
    BY DEF Inv, ListsInv, SecurityTypeOK
<1> DEFINE fewer == WithoutEntry(q, a)
           more  == WithoutEntry(q, a) \cup {<<q, a, rights>>}
<1>1. /\ fewer \in SUBSET (Queues \X Actors \X SUBSET QueueRights)
      /\ more \in SUBSET (Queues \X Actors \X SUBSET QueueRights)
    BY <1>0, ListsMember DEF WithoutEntry
<1>2. /\ \A d, e \in fewer : d[1] = e[1] /\ d[2] = e[2] => d = e
      /\ \A d, e \in more : d[1] = e[1] /\ d[2] = e[2] => d = e
    BY <1>0 DEF WithoutEntry, Unique
<1> HIDE DEF fewer, more
<1>3. /\ Sound([lists EXCEPT !.qacl = fewer], lists)
      /\ Sound([lists EXCEPT !.qacl = more], lists)
    BY <1>1, <1>2, QueueListSound
<1> QED BY <1>3 DEF fewer, more

(* The list of a queue goes with it.                                       *)
LEMMA PurgeSound ==
    ASSUME Inv, NEW q \in Queues
    PROVE  Sound([lists EXCEPT !.qacl = {e \in @ : e[1] # q}], lists)
<1>0. lists \in Lists /\ Unique(lists)
    BY DEF Inv, ListsInv, SecurityTypeOK
<1> DEFINE others == {e \in lists.qacl : e[1] # q}
<1>1. others \in SUBSET (Queues \X Actors \X SUBSET QueueRights)
    BY <1>0, ListsMember
<1>2. \A d, e \in others : d[1] = e[1] /\ d[2] = e[2] => d = e
    BY <1>0 DEF Unique
<1> HIDE DEF others
<1>3. Sound([lists EXCEPT !.qacl = others], lists)
    BY <1>1, <1>2, QueueListSound
<1> QED BY <1>3 DEF others

(* A command's change of the lists keeps the invariant when it is sound.   *)
LEMMA ChangeInv ==
    ASSUME Inv, NEW s \in Sessions, NEW found \in BOOLEAN, NEW changed,
           found => Sound(changed, lists), Change(s, found, changed),
           session[s].step # "idle"
    PROVE  Inv'
<1>0. session \in [Sessions -> SessionType] /\ exists \subseteq Queues
    BY DEF Inv, SecurityTypeOK
<1>a. session[s].user # Nobody
    BY <1>0 DEF SessionType
<1>1. UNCHANGED <<disk, exists, mixed, torn, commands>> /\ overlap' \in BOOLEAN
    BY DEF Change, Inv, SecurityTypeOK
<1>2. CASE found
    <2>1. lists' = changed /\ session' = [session EXCEPT ![s].step = "store"]
        BY <1>2 DEF Change
    <2>2. Sound(lists', lists)
        BY <1>2, <2>1
    <2>3. session' \in [Sessions -> SessionType]
        BY <1>0, <1>a, <2>1, SessionMoves
    <2> QED BY <1>0, <1>1, <2>2, <2>3, ChangeKeeps
<1>3. CASE ~found
    <2>1. lists' = lists
          /\ session' = [session EXCEPT ![s].step = "idle", ![s].command = NoCommand]
        BY <1>3 DEF Change
    <2>2. Sound(lists', lists)
        BY <2>1, OldSound
    <2>3. session' \in [Sessions -> SessionType]
        BY <1>0, <2>1, SessionMoves
    <2> QED BY <1>0, <1>1, <2>2, <2>3, ChangeKeeps
<1> QED BY <1>2, <1>3

(* The commands that change the lists.                                     *)
LEMMA CommandsInv ==
    ASSUME Inv, NEW s \in Sessions
    PROVE  /\ \A u \in Users, pw \in Passwords :
                 CreateUser(s, u, pw) \/ ChangePassword(s, u, pw) => Inv'
           /\ \A u \in Users : DeleteUser(s, u) => Inv'
           /\ \A g \in Groups : CreateGroup(s, g) \/ DeleteGroup(s, g) => Inv'
           /\ \A u \in Users, g \in Groups :
                 AddUserGroup(s, u, g) \/ DeleteUserGroup(s, u, g) => Inv'
           /\ \A u \in Users, r \in GrantedActorRights : SetActorControlUser(s, u, r) => Inv'
           /\ \A g \in Groups, r \in GrantedActorRights : SetActorControlGroup(s, g, r) => Inv'
           /\ \A q \in Queues, a \in Actors : DeleteQAccessControl(s, q, a) => Inv'
           /\ \A q \in Queues, a \in Actors, r \in GrantedQueueRights :
                 SetQAccessControl(s, q, a, r) => Inv'
           /\ \A q \in Queues : SetInitialQueueControl(s, q) \/ PurgeQSecurity(s, q) => Inv'
<1>1. ASSUME NEW u \in Users, NEW pw \in Passwords, CreateUser(s, u, pw)
      PROVE  Inv'
    <2> DEFINE found == u \notin Named(lists)
               changed == [lists EXCEPT !.users = @ \cup {<<u, pw>>}]
    <2>1. found \in BOOLEAN /\ session[s].step # "idle"
        BY <1>1 DEF CreateUser, Does
    <2>2. found => Sound(changed, lists)
        BY UsersSound, Zenon
    <2>3. Change(s, found, changed)
        BY <1>1, Zenon DEF CreateUser
    <2> HIDE DEF found, changed
    <2> QED BY <2>1, <2>2, <2>3, ChangeInv
<1>2. ASSUME NEW u \in Users, NEW pw \in Passwords, ChangePassword(s, u, pw)
      PROVE  Inv'
    <2> DEFINE found == u \in Named(lists)
               changed == [lists EXCEPT !.users = SetEntry(@, u, pw)]
    <2>1. found \in BOOLEAN /\ session[s].step # "idle"
        BY <1>2 DEF ChangePassword, Does
    <2>2. found => Sound(changed, lists)
        BY UsersSound, Zenon
    <2>3. Change(s, found, changed)
        BY <1>2, Zenon DEF ChangePassword
    <2> HIDE DEF found, changed
    <2> QED BY <2>1, <2>2, <2>3, ChangeInv
<1>3. ASSUME NEW u \in Users, DeleteUser(s, u)
      PROVE  Inv'
    <2> DEFINE found == u \in Named(lists)
               changed == [lists EXCEPT !.users    = {e \in @ : e[1] # u},
                                            !.members  = {e \in @ : e[1] # u},
                                            !.actoracl = {e \in @ : e[1] # u},
                                            !.qacl     = {e \in @ : e[2] # u}]
    <2>1. found \in BOOLEAN /\ session[s].step # "idle"
        BY <1>3 DEF DeleteUser, Does
    <2>2. found => Sound(changed, lists)
        BY UserGoneSound, Zenon
    <2>3. Change(s, found, changed)
        BY <1>3, Zenon DEF DeleteUser
    <2> HIDE DEF found, changed
    <2> QED BY <2>1, <2>2, <2>3, ChangeInv
<1>4. ASSUME NEW g \in Groups, CreateGroup(s, g)
      PROVE  Inv'
    <2> DEFINE found == g \notin lists.groups
               changed == [lists EXCEPT !.groups = @ \cup {g}]
    <2>1. found \in BOOLEAN /\ session[s].step # "idle"
        BY <1>4 DEF CreateGroup, Does
    <2>2. found => Sound(changed, lists)
        BY GroupsSound
    <2>3. Change(s, found, changed)
        BY <1>4, Zenon DEF CreateGroup
    <2> HIDE DEF found, changed
    <2> QED BY <2>1, <2>2, <2>3, ChangeInv
<1>5. ASSUME NEW g \in Groups, DeleteGroup(s, g)
      PROVE  Inv'
    <2> DEFINE found == g \in lists.groups
               changed == [lists EXCEPT !.groups   = @ \ {g},
                                            !.members  = {e \in @ : e[2] # g},
                                            !.actoracl = {e \in @ : e[1] # g},
                                            !.qacl     = {e \in @ : e[2] # g}]
    <2>1. found \in BOOLEAN /\ session[s].step # "idle"
        BY <1>5 DEF DeleteGroup, Does
    <2>2. found => Sound(changed, lists)
        BY GroupsSound, Zenon
    <2>3. Change(s, found, changed)
        BY <1>5, Zenon DEF DeleteGroup
    <2> HIDE DEF found, changed
    <2> QED BY <2>1, <2>2, <2>3, ChangeInv
<1>6. ASSUME NEW u \in Users, NEW g \in Groups, AddUserGroup(s, u, g)
      PROVE  Inv'
    <2> DEFINE found == g \in lists.groups /\ <<u, g>> \notin lists.members
               changed == [lists EXCEPT !.members = @ \cup {<<u, g>>}]
    <2>1. found \in BOOLEAN /\ session[s].step # "idle"
        BY <1>6 DEF AddUserGroup, Does
    <2>2. found => Sound(changed, lists)
        BY MembersSound
    <2>3. Change(s, found, changed)
        BY <1>6, Zenon DEF AddUserGroup
    <2> HIDE DEF found, changed
    <2> QED BY <2>1, <2>2, <2>3, ChangeInv
<1>7. ASSUME NEW u \in Users, NEW g \in Groups, DeleteUserGroup(s, u, g)
      PROVE  Inv'
    <2> DEFINE found == <<u, g>> \in lists.members
               changed == [lists EXCEPT !.members = @ \ {<<u, g>>}]
    <2>1. found \in BOOLEAN /\ session[s].step # "idle"
        BY <1>7 DEF DeleteUserGroup, Does
    <2>2. found => Sound(changed, lists)
        BY MembersSound
    <2>3. Change(s, found, changed)
        BY <1>7, Zenon DEF DeleteUserGroup
    <2> HIDE DEF found, changed
    <2> QED BY <2>1, <2>2, <2>3, ChangeInv
<1>8. ASSUME NEW u \in Users, NEW r \in GrantedActorRights, SetActorControlUser(s, u, r)
      PROVE  Inv'
    <2> DEFINE found == u \in Named(lists)
               changed == [lists EXCEPT !.actoracl = SetEntry(@, u, r)]
    <2>1. found \in BOOLEAN /\ session[s].step # "idle"
        BY <1>8 DEF SetActorControlUser, Does
    <2>2. found => Sound(changed, lists)
        BY ActorSound DEF Actors
    <2>3. Change(s, found, changed)
        BY <1>8, Zenon DEF SetActorControlUser
    <2> HIDE DEF found, changed
    <2> QED BY <2>1, <2>2, <2>3, ChangeInv
<1>9. ASSUME NEW g \in Groups, NEW r \in GrantedActorRights, SetActorControlGroup(s, g, r)
      PROVE  Inv'
    <2> DEFINE found == g \in lists.groups
               changed == [lists EXCEPT !.actoracl = SetEntry(@, g, r)]
    <2>1. found \in BOOLEAN /\ session[s].step # "idle"
        BY <1>9 DEF SetActorControlGroup, Does
    <2>2. found => Sound(changed, lists)
        BY ActorSound DEF Actors
    <2>3. Change(s, found, changed)
        BY <1>9, Zenon DEF SetActorControlGroup
    <2> HIDE DEF found, changed
    <2> QED BY <2>1, <2>2, <2>3, ChangeInv
<1>10. ASSUME NEW q \in Queues, NEW a \in Actors, DeleteQAccessControl(s, q, a)
      PROVE  Inv'
    <2> DEFINE found == WithoutEntry(q, a) # lists.qacl
               changed == [lists EXCEPT !.qacl = WithoutEntry(q, a)]
    <2>1. found \in BOOLEAN /\ session[s].step # "idle"
        BY <1>10 DEF DeleteQAccessControl, Does
    <2>2. found => Sound(changed, lists)
        BY EntrySound
    <2>3. Change(s, found, changed)
        BY <1>10, Zenon DEF DeleteQAccessControl
    <2> HIDE DEF found, changed
    <2> QED BY <2>1, <2>2, <2>3, ChangeInv
<1>11. ASSUME NEW q \in Queues, NEW a \in Actors, NEW r \in GrantedQueueRights,
             SetQAccessControl(s, q, a, r)
      PROVE  Inv'
    <2> DEFINE found == TRUE
               changed == [lists EXCEPT !.qacl = WithoutEntry(q, a) \cup {<<q, a, r>>}]
    <2>1. found \in BOOLEAN /\ session[s].step # "idle"
        BY <1>11 DEF SetQAccessControl, Does
    <2>2. found => Sound(changed, lists)
        BY SecurityAssumption, EntrySound
    <2>3. Change(s, found, changed)
        BY <1>11, Zenon DEF SetQAccessControl
    <2> HIDE DEF found, changed
    <2> QED BY <2>1, <2>2, <2>3, ChangeInv
<1>12. ASSUME NEW q \in Queues, SetInitialQueueControl(s, q)
      PROVE  Inv'
    <2> DEFINE a == session[s].user
               changed == [lists EXCEPT !.qacl = WithoutEntry(q, a) \cup {<<q, a, QueueRights>>}]
    <2>1. session[s].step # "idle"
        BY <1>12 DEF SetInitialQueueControl
    <2>2. a \in Actors
        BY <2>1 DEF Inv, SessionType, SessionRecord, Actors
    <2> HIDE DEF a
    <2>3. Sound(changed, lists)
        BY <2>2, EntrySound
    <2>4. Change(s, TRUE, changed)
        BY <1>12, Zenon DEF SetInitialQueueControl, a
    <2> HIDE DEF changed
    <2> QED BY <2>1, <2>3, <2>4, ChangeInv
<1>13. ASSUME NEW q \in Queues, PurgeQSecurity(s, q)
      PROVE  Inv'
    <2> DEFINE found == TRUE
               changed == [lists EXCEPT !.qacl = {e \in @ : e[1] # q}]
    <2>1. found \in BOOLEAN /\ session[s].step # "idle"
        BY <1>13 DEF PurgeQSecurity, Does
    <2>2. found => Sound(changed, lists)
        BY PurgeSound, Zenon
    <2>3. Change(s, found, changed)
        BY <1>13, Zenon DEF PurgeQSecurity
    <2> HIDE DEF found, changed
    <2> QED BY <2>1, <2>2, <2>3, ChangeInv
<1> QED BY <1>1, <1>2, <1>3, <1>4, <1>5, <1>6, <1>7, <1>8, <1>9, <1>10, <1>11, <1>12, <1>13
-----------------------------------------------------------------------------
(* The other steps.                                                        *)

(* A step that leaves the lists and their files alone.                     *)
LEMMA OthersInv ==
    ASSUME Inv, UNCHANGED <<lists, disk, storeVars>>, session' \in [Sessions -> SessionType],
           exists' \subseteq Queues, commands' \in 0 .. MaxCommands
    PROVE  Inv'
<1>1. session' \in [Sessions -> SessionRecord]
    BY DEF SessionType
<1> QED BY <1>1 DEF Inv, ListsInv, SecurityTypeOK, SessionRecord, Unique, Closed, Named,
                    storeVars

(* A user comes to a session that had none.                                *)
LEMMA LoginInv ==
    ASSUME Inv, NEW s \in Sessions, NEW u \in Users, NEW pw \in Passwords, Login(s, u, pw)
    PROVE  Inv'
<1>1. /\ session \in [Sessions -> SessionType] /\ exists \subseteq Queues
      /\ commands \in 0 .. MaxCommands
    BY DEF Inv, SecurityTypeOK
<1>2. [session EXCEPT ![s].user = u] \in [Sessions -> SessionType]
    BY <1>1, SecurityAssumption DEF SessionType, SessionRecord
<1> QED BY <1>1, <1>2, OthersInv DEF Login

(* The session is as it was before he came.                                *)
LEMMA LogoutInv ==
    ASSUME Inv, NEW s \in Sessions, Logout(s)
    PROVE  Inv'
<1>1. /\ session \in [Sessions -> SessionType] /\ exists \subseteq Queues
      /\ commands \in 0 .. MaxCommands
    BY DEF Inv, SecurityTypeOK
<1>2. [session EXCEPT ![s] = Idle] \in [Sessions -> SessionType]
    BY <1>1 DEF SessionType, SessionRecord, Idle
<1> QED BY <1>1, <1>2, OthersInv DEF Logout

(* Only a session that has logged in begins a command.                     *)
LEMMA BeginInv ==
    ASSUME Inv, NEW s \in Sessions, NEW c \in Commands, Begin(s, c)
    PROVE  Inv'
<1>1. /\ session \in [Sessions -> SessionType] /\ exists \subseteq Queues
      /\ commands \in 0 .. MaxCommands
    BY DEF Inv, SecurityTypeOK
<1>2. [session EXCEPT ![s].step = "granted", ![s].command = c] \in [Sessions -> SessionType]
    BY <1>1, SessionMoves DEF Begin
<1>3. commands' \in 0 .. MaxCommands
    BY <1>1, SecurityAssumption DEF Begin
<1> QED BY <1>1, <1>2, <1>3, OthersInv DEF Begin

(* Queues come and go before their lists do.                               *)
LEMMA InManagerInv ==
    ASSUME Inv, NEW s \in Sessions, session[s].step # "idle", NEW done \in BOOLEAN,
           NEW queues \in SUBSET Queues, InManager(s, done, queues)
    PROVE  Inv'
<1>1. /\ session \in [Sessions -> SessionType] /\ exists \subseteq Queues
      /\ commands \in 0 .. MaxCommands
    BY DEF Inv, SecurityTypeOK
<1>2. session[s].user # Nobody
    BY <1>1 DEF SessionType
<1>3. session' \in [Sessions -> SessionType]
    BY <1>1, <1>2, SessionMoves DEF InManager
<1> QED BY <1>1, <1>3, OthersInv DEF InManager

(* An identity is changed, and the lists are stored again.                 *)
LEMMA IdentityInv ==
    ASSUME Inv, NEW s \in Sessions, NEW c \in IdentityCommands, ChangeIdentity(s, c)
    PROVE  Inv'
<1>1. /\ session \in [Sessions -> SessionType] /\ exists \subseteq Queues
      /\ commands \in 0 .. MaxCommands
    BY DEF Inv, SecurityTypeOK
<1>2. session[s].user # Nobody
    BY <1>1 DEF SessionType, ChangeIdentity, Does
<1>3. [session EXCEPT ![s].step = "rewrite"] \in [Sessions -> SessionType]
    BY <1>1, <1>2, SessionMoves
<1> QED BY <1>1, <1>3, OthersInv DEF ChangeIdentity

(* The files become what the lists are, or what a change in between made   *)
(* of them.                                                                *)
LEMMA StoreInv ==
    ASSUME Inv, NEW s \in Sessions, StoreSecurityLists(s)
    PROVE  Inv'
<1>1. /\ session \in [Sessions -> SessionType] /\ exists \subseteq Queues
      /\ commands \in 0 .. MaxCommands /\ lists \in Lists /\ Unique(lists)
      /\ overlap \in BOOLEAN /\ torn \in BOOLEAN
    BY DEF Inv, ListsInv, SecurityTypeOK
<1>2. session' \in [Sessions -> SessionType]
    BY <1>1, SessionMoves DEF StoreSecurityLists, Stored
<1>3. session' \in [Sessions -> SessionRecord]
    BY <1>2 DEF SessionType
<1>4. UNCHANGED <<lists, exists, torn, commands>> /\ mixed' = overlap
      /\ overlap' \in BOOLEAN /\ (disk' = lists \/ (overlap /\ disk' \in MixedLists))
    BY <1>1 DEF StoreSecurityLists, Stored
<1>5. disk' \in Lists
    BY <1>1, <1>4, MixedAssumption
<1>6. SecurityTypeOK'
    BY <1>1, <1>3, <1>4, <1>5 DEF SecurityTypeOK, SessionRecord
<1>7. Unique(disk')
    BY <1>1, <1>4, MixedAssumption
<1>8. ~torn' => Closed(lists') /\ (~mixed' => Closed(disk'))
    BY <1>4 DEF Inv, ListsInv
<1>9. ListsInv'
    BY <1>1, <1>4, <1>7, <1>8 DEF ListsInv, Unique, Closed, Named
<1> QED BY <1>2, <1>6, <1>9 DEF Inv

(* A restart keeps what is true of the files it starts from.               *)
LEMMA LoadInv ==
    ASSUME Inv, NEW files \in Lists, Unique(files), torn' \in BOOLEAN,
           ~torn' => Closed(files), Load(files)
    PROVE  Inv'
<1>1. /\ exists' \subseteq Queues /\ commands' \in 0 .. MaxCommands
    BY DEF Inv, SecurityTypeOK, Load
<1>2. session' \in [Sessions -> SessionType]
    BY DEF Load, Idle, SessionType, SessionRecord
<1>3. session' \in [Sessions -> SessionRecord]
    BY <1>2 DEF SessionType
<1>4. disk' = files /\ lists' = Constructed(files) /\ overlap' = FALSE /\ mixed' = FALSE
    BY DEF Load
<1>5. Sound(Constructed(files), files)
    BY ConstructedSound
<1>6. SecurityTypeOK'
    BY <1>1, <1>3, <1>4, <1>5 DEF SecurityTypeOK, SessionRecord, Sound
<1>7. ListsInv'
    <2>1. Unique(lists') /\ Unique(disk') /\ (~torn' => Closed(lists') /\ Closed(disk'))
        BY <1>4, <1>5 DEF Sound
    <2> QED BY <2>1 DEF ListsInv, Unique, Closed, Named
<1> QED BY <1>2, <1>6, <1>7 DEF Inv

(* Files that a crash left: some new, one or two cut, and the others old.   *)
Mixture(files) ==
    /\ files.members \subseteq lists.members \/ files.members = disk.members
    /\ files.actoracl \subseteq lists.actoracl \/ files.actoracl = disk.actoracl
    /\ files.qacl \subseteq lists.qacl \/ files.qacl = disk.qacl

Readable(files) == files \in Lists /\ Unique(files) /\ Mixture(files)

LEMMA CutSound ==
    ASSUME Inv, NEW old, Readable(old), NEW last \in DOMAIN FileNumber,
           NEW written \in SUBSET lists[last]
    PROVE  Readable(CutAt(old, last, written))
<1> DEFINE files == CutAt(old, last, written)
<1>0. lists \in Lists /\ old \in Lists /\ Unique(lists) /\ Unique(old) /\ Mixture(old)
    BY DEF Inv, ListsInv, SecurityTypeOK, Readable
<1>1. DOMAIN FileNumber = {"users", "groups", "members", "actoracl", "qacl"}
    BY DEF FileNumber
<1>2. /\ files = [n \in DOMAIN FileNumber |-> files[n]]
      /\ \A n \in DOMAIN FileNumber : files[n] \subseteq lists[n] \/ files[n] = old[n]
    <2>1. \A n \in DOMAIN FileNumber :
             files[n] \in {lists[n], old[n]} \/ (n = last /\ files[n] = written)
        BY DEF CutAt
    <2>2. files = [n \in DOMAIN FileNumber |-> files[n]]
        BY DEF CutAt
    <2> QED BY <2>1, <2>2
<1> HIDE DEF files
<1>3. files = [users |-> files.users, groups |-> files.groups, members |-> files.members,
               actoracl |-> files.actoracl, qacl |-> files.qacl]
    BY <1>1, <1>2
<1>4. /\ files.users \subseteq lists.users \/ files.users = old.users
      /\ files.groups \subseteq lists.groups \/ files.groups = old.groups
      /\ files.members \subseteq lists.members \/ files.members = old.members
      /\ files.actoracl \subseteq lists.actoracl \/ files.actoracl = old.actoracl
      /\ files.qacl \subseteq lists.qacl \/ files.qacl = old.qacl
    BY <1>1, <1>2
<1>5. files \in Lists
    <2>1. /\ files.users \subseteq Users \X Passwords
          /\ files.groups \subseteq Groups
          /\ files.members \subseteq Users \X Groups
          /\ files.actoracl \subseteq Actors \X SUBSET ActorRights
          /\ files.qacl \subseteq Queues \X Actors \X SUBSET QueueRights
        BY <1>0, <1>4, ListsMember
    <2> QED BY <1>3, <2>1, ListsBuilt
<1>6. Unique(files)
    BY <1>0, <1>4 DEF Unique
<1>7. Mixture(files)
    BY <1>0, <1>4 DEF Mixture
<1> QED BY <1>5, <1>6, <1>7 DEF files, Readable

LEMMA CutOnceSound ==
    ASSUME Inv, NEW old, Readable(old), NEW files \in CutOnce(old)
    PROVE  Readable(files)
<1>1. CASE files = old
    BY <1>1
<1>2. CASE files # old
    <2>1. PICK last \in DOMAIN FileNumber :
             files \in {CutAt(old, last, written) : written \in SUBSET lists[last]}
        BY <1>2 DEF CutOnce
    <2>2. PICK written \in SUBSET lists[last] : files = CutAt(old, last, written)
        BY <2>1
    <2> QED BY <2>2, CutSound
<1> QED BY <1>1, <1>2

(* What a server starts from that was stopped while it stored.             *)
LEMMA TornFiles ==
    ASSUME Inv, TornRestart
    PROVE  \E files \in Lists : /\ Load(files) /\ Unique(files) /\ torn' = TRUE
                                /\ ~overlap /\ ~mixed => Mixture(files)
<1>1. Readable(disk)
    BY DEF Inv, ListsInv, SecurityTypeOK, Readable, Mixture
<1>2. CASE overlap \/ mixed
    <2>1. PICK files \in MixedLists : Load(files)
        BY <1>2 DEF TornRestart
    <2> QED BY <1>2, <2>1, MixedAssumption DEF TornRestart
<1>3. CASE ~(overlap \/ mixed)
    <2>1. PICK files \in CutOnce(disk) \cup UNION {CutOnce(f) : f \in CutOnce(disk)} :
             Load(files)
        BY <1>3 DEF TornRestart
    <2>2. CASE files \in CutOnce(disk)
        BY <1>1, <2>1, <2>2, CutOnceSound DEF TornRestart, Readable
    <2>3. CASE files \notin CutOnce(disk)
        <3>1. PICK f \in CutOnce(disk) : files \in CutOnce(f)
            BY <2>1, <2>3
        <3>2. Readable(files)
            BY <1>1, <3>1, CutOnceSound
        <3> QED BY <2>1, <3>2 DEF TornRestart, Readable
    <2> QED BY <2>2, <2>3
<1> QED BY <1>2, <1>3
-----------------------------------------------------------------------------
(* Theorems                                                                *)

(* Every step keeps the invariant.                                         *)
LEMMA StepInv == Inv /\ [Next]_vars => Inv'
<1> SUFFICES ASSUME Inv, [Next]_vars PROVE Inv'
    OBVIOUS
<1>0. /\ lists \in Lists /\ disk \in Lists /\ exists \subseteq Queues
      /\ commands \in 0 .. MaxCommands /\ torn \in BOOLEAN
      /\ session \in [Sessions -> SessionType]
    BY DEF Inv, SecurityTypeOK
<1>1. ASSUME NEW s \in Sessions, SessionNext(s)
      PROVE  Inv'
    <2>1. CASE \E u \in Users, pw \in Passwords : Login(s, u, pw)
        BY <2>1, LoginInv
    <2>2. CASE Logout(s)
        BY <2>2, LogoutInv
    <2>3. ASSUME NEW c, Begin(s, c),
                 c \in UserCommands \cup GroupCommands \cup QueueCommands
                        \cup ({"createQueue", "deleteQueue"} \X Queues)
          PROVE  Inv'
        BY <2>3, BeginInv DEF Commands
    <2>4. CASE \/ \E c \in UserCommands : TestUserCommand(s, c)
               \/ \E c \in GroupCommands : TestGroupCommand(s, c)
               \/ \E c \in QueueCommands : TestQueueCommand(s, c)
        BY <2>3, <2>4, Zenon DEF TestUserCommand, TestGroupCommand, TestQueueCommand
    <2>5. ASSUME NEW q \in Queues, TestCreateQueue(s, q) \/ TestDeleteQueue(s, q)
          PROVE  Inv'
        <3>1. /\ <<"createQueue", q>> \in {"createQueue", "deleteQueue"} \X Queues
              /\ <<"deleteQueue", q>> \in {"createQueue", "deleteQueue"} \X Queues
            OBVIOUS
        <3>2. Begin(s, <<"createQueue", q>>) \/ Begin(s, <<"deleteQueue", q>>)
            BY <2>5 DEF TestCreateQueue, TestDeleteQueue
        <3> QED BY <2>3, <3>1, <3>2, Zenon
    <2>6. ASSUME NEW q \in Queues, CreateQueue(s, q)
          PROVE  Inv'
        <3>1. session[s].step # "idle" /\ exists \cup {q} \in SUBSET Queues
            BY <1>0, <2>6 DEF CreateQueue, Does
        <3>2. InManager(s, q \notin exists, exists \cup {q})
            BY <2>6, Zenon DEF CreateQueue
        <3> QED BY <3>1, <3>2, InManagerInv
    <2>7. ASSUME NEW q \in Queues, DeleteQueue(s, q)
          PROVE  Inv'
        <3>1. session[s].step # "idle" /\ exists \ {q} \in SUBSET Queues
            BY <1>0, <2>7 DEF DeleteQueue, Does
        <3>2. PICK open \in BOOLEAN : InManager(s, q \in exists /\ ~open, exists \ {q})
            BY <2>7, Zenon DEF DeleteQueue
        <3> QED BY <3>1, <3>2, InManagerInv
    <2>8. CASE \E c \in IdentityCommands : ChangeIdentity(s, c)
        BY <2>8, IdentityInv
    <2>9. CASE StoreSecurityLists(s)
        BY <2>9, StoreInv
    <2> QED BY <1>1, <2>1, <2>2, <2>4, <2>5, <2>6, <2>7, <2>8, <2>9, CommandsInv, Zenon
            DEF SessionNext
<1>2. CASE Restart
    <2>1. Load(disk) /\ torn' = (torn \/ mixed)
        BY <1>2 DEF Restart
    <2>2. Unique(disk) /\ (~torn /\ ~mixed => Closed(disk))
        BY DEF Inv, ListsInv
    <2> QED BY <1>0, <2>1, <2>2, LoadInv
<1>3. CASE TornRestart
    <2>1. PICK files \in Lists : Load(files) /\ Unique(files) /\ torn' = TRUE
        BY <1>3, TornFiles
    <2> QED BY <2>1, LoadInv
<1>4. CASE UNCHANGED vars
    BY <1>0, <1>4, OthersInv DEF vars
<1> QED BY <1>1, <1>2, <1>3, <1>4 DEF Next

(* The lists, and the files a restart reads, are always sound.             *)
THEOREM Invariance == Spec => []Inv
<1>1. Inv /\ [Next]_vars => Inv'
    BY StepInv
<1> QED BY InitInv, <1>1, PTL DEF Spec

(* The variables have their types, whatever the commands and crashes.      *)
THEOREM SecurityTypeCorrect == Spec => []SecurityTypeOK
<1>1. Inv => SecurityTypeOK
    BY DEF Inv
<1> QED BY Invariance, <1>1, PTL

(* Without a cut or mixed store no member of a missing group and no right of a      *)
(* missing actor is left, however the steps of the commands interleave.    *)
THEOREM ListsAlwaysClosed == Spec => []ListsClosed
<1>1. Inv => ListsClosed
    BY DEF Inv, ListsInv, ListsClosed
<1> QED BY Invariance, <1>1, PTL
-----------------------------------------------------------------------------
(* Rights.  That the files say what the lists do is inductive with the     *)
(* constructor's lists a fixed point of it, and with what is known of a    *)
(* store without scmtx: it leaves the files as they should be unless a     *)
(* change comes in between.  That a cut store gives nobody a right takes   *)
(* more: the files are then a mixture of old and new, and a member from    *)
(* the one with a right from the other could do what neither allows.  It   *)
(* does not come to that, as one command either changes one list only, or  *)
(* takes away from all.                                                    *)

(* What of the lists is not the administrators'.                           *)
Mem(l) == {e \in l.members : e[1] # Admin}
Acl(l) == {e \in l.actoracl : e[1] \notin {Admin, AdminGroup}}

Narrow(l, old) ==
    \/ /\ Mem(l) \subseteq Mem(old) /\ Acl(l) \subseteq Acl(old)
       /\ l.qacl \subseteq old.qacl
    \/ Mem(l) = Mem(old) /\ Acl(l) = Acl(old)
    \/ Mem(l) = Mem(old) /\ l.qacl = old.qacl
    \/ Acl(l) = Acl(old) /\ l.qacl = old.qacl

Settled   == Writers = {} => ~overlap
Agreed    == ~Storing /\ ~overlap /\ ~mixed => Constructed(disk) = Constructed(lists)
OneChange == ~overlap /\ ~mixed => Narrow(lists, disk)

RightsInv == Inv /\ Settled /\ Agreed /\ OneChange

(* Nothing in the lists is about the user.                                 *)
Gone(l, u) == /\ \A e \in l.members : e[1] # u
              /\ \A e \in l.actoracl : e[1] # u
              /\ \A e \in l.qacl : e[2] # u

Effect(l) == Narrow(l, lists) /\ \A u \in Named(lists) \ Named(l) : Gone(l, u)

(* Lists of which some are replaced.                                       *)
LEMMA Replacing ==
    ASSUME NEW l \in Lists, NEW v
    PROVE  /\ [l EXCEPT !.users = v] =
                [users |-> v, groups |-> l.groups, members |-> l.members,
                 actoracl |-> l.actoracl, qacl |-> l.qacl]
           /\ [l EXCEPT !.groups = v] =
                [users |-> l.users, groups |-> v, members |-> l.members,
                 actoracl |-> l.actoracl, qacl |-> l.qacl]
           /\ [l EXCEPT !.members = v] =
                [users |-> l.users, groups |-> l.groups, members |-> v,
                 actoracl |-> l.actoracl, qacl |-> l.qacl]
           /\ [l EXCEPT !.actoracl = v] =
                [users |-> l.users, groups |-> l.groups, members |-> l.members,
                 actoracl |-> v, qacl |-> l.qacl]
           /\ [l EXCEPT !.qacl = v] =
                [users |-> l.users, groups |-> l.groups, members |-> l.members,
                 actoracl |-> l.actoracl, qacl |-> v]
<1>1. l = [users |-> l.users, groups |-> l.groups, members |-> l.members,
           actoracl |-> l.actoracl, qacl |-> l.qacl]
    BY DEF Lists
<1> DEFINE lu == l.users  lg == l.groups  lm == l.members  la == l.actoracl  lq == l.qacl
<1>2. l = [users |-> lu, groups |-> lg, members |-> lm, actoracl |-> la, qacl |-> lq]
    BY <1>1
<1> HIDE DEF lu, lg, lm, la, lq
<1>3. [l EXCEPT !.users = v] =
         [users |-> v, groups |-> lg, members |-> lm, actoracl |-> la, qacl |-> lq]
    BY <1>2
<1>4. [l EXCEPT !.groups = v] =
         [users |-> lu, groups |-> v, members |-> lm, actoracl |-> la, qacl |-> lq]
    BY <1>2
<1>5. [l EXCEPT !.members = v] =
         [users |-> lu, groups |-> lg, members |-> v, actoracl |-> la, qacl |-> lq]
    BY <1>2
<1>6. [l EXCEPT !.actoracl = v] =
         [users |-> lu, groups |-> lg, members |-> lm, actoracl |-> v, qacl |-> lq]
    BY <1>2
<1>7. [l EXCEPT !.qacl = v] =
         [users |-> lu, groups |-> lg, members |-> lm, actoracl |-> la, qacl |-> v]
    BY <1>2
<1> QED BY <1>3, <1>4, <1>5, <1>6, <1>7, Zenon DEF lu, lg, lm, la, lq

(* The constructor adds administrators, and once.                          *)
LEMMA ConstructedProperties ==
    ASSUME NEW l \in Lists, Unique(l)
    PROVE  /\ Constructed(l) \in Lists
           /\ Mem(Constructed(l)) = Mem(l) /\ Acl(Constructed(l)) = Acl(l)
           /\ Constructed(l).qacl = l.qacl
           /\ Named(l) \subseteq Named(Constructed(l))
           /\ Constructed(Constructed(l)) = Constructed(l)
<1> DEFINE k == WithAdmin(l)
           c == WithAdmins(k)
<1>1. /\ k \in Lists /\ Unique(k) /\ l.users \subseteq k.users /\ Admin \in Named(k)
      /\ k.members = l.members /\ k.qacl = l.qacl /\ Acl(k) = Acl(l)
    <2>1. k \in Lists /\ Unique(k)
        BY WithAdminSound DEF Sound
    <2>2. CASE Admin \in Named(l)
        BY <2>1, <2>2 DEF WithAdmin
    <2>3. CASE Admin \notin Named(l)
        <3> DEFINE a == SetActor(l.actoracl, Admin, ActorRights)
                   us == l.users \cup {<<Admin, NoPassword>>}
        <3>1. k = [l EXCEPT !.users = us, !.actoracl = a]
            BY <2>3, Zenon DEF WithAdmin
        <3> HIDE DEF a, us
        <3>2. k.users = us /\ k.members = l.members /\ k.qacl = l.qacl /\ k.actoracl = a
            BY <3>1 DEF Lists
        <3>3. Acl(k) = Acl(l)
            BY <3>2 DEF Acl, SetActor, a
        <3>4. <<Admin, NoPassword>> \in k.users /\ <<Admin, NoPassword>>[1] = Admin
            BY <3>2 DEF us
        <3>5. Admin \in Named(k)
            BY <3>4, NamedEntry
        <3> QED BY <2>1, <3>2, <3>3, <3>5 DEF us
    <2> QED BY <2>2, <2>3
<1> HIDE DEF k
<1>2. /\ c \in Lists /\ c.users = k.users /\ AdminGroup \in c.groups
      /\ c.qacl = k.qacl /\ Acl(c) = Acl(k) /\ Mem(c) = Mem(k)
    <2>1. c \in Lists
        BY <1>1, WithAdminsSound DEF Sound
    <2>2. CASE AdminGroup \in k.groups
        BY <2>1, <2>2 DEF WithAdmins
    <2>3. CASE AdminGroup \notin k.groups
        <3> DEFINE a == SetActor(k.actoracl, AdminGroup, ActorRights)
                   g == k.groups \cup {AdminGroup}
                   m == k.members \cup {<<Admin, AdminGroup>>}
        <3>1. c = [k EXCEPT !.groups = g, !.actoracl = a, !.members = m]
            BY <2>3, Zenon DEF WithAdmins
        <3> HIDE DEF a, g, m
        <3>2. /\ c.users = k.users /\ c.qacl = k.qacl
              /\ c.groups = g /\ c.members = m /\ c.actoracl = a
            BY <1>1, <3>1 DEF Lists
        <3>3. Acl(c) = Acl(k) /\ Mem(c) = Mem(k) /\ AdminGroup \in c.groups
            BY <3>2 DEF Acl, Mem, SetActor, a, g, m
        <3> QED BY <2>1, <3>2, <3>3
    <2> QED BY <2>2, <2>3
<1> HIDE DEF c
<1>3. Mem(k) = Mem(l) /\ Named(l) \subseteq Named(c) /\ Admin \in Named(c)
    BY <1>1, <1>2 DEF Mem, Named
<1>4. WithAdmins(WithAdmin(c)) = c
    <2>1. WithAdmin(c) = c
        BY <1>3 DEF WithAdmin
    <2> QED BY <1>2, <2>1 DEF WithAdmins
<1> QED BY <1>1, <1>2, <1>3, <1>4 DEF Constructed, c, k

(* What the commands do to lists: one of them is changed, or all are cut.  *)
LEMMA UsersEffect ==
    ASSUME lists \in Lists, NEW us, Named(lists) \subseteq {e[1] : e \in us}
    PROVE  Effect([lists EXCEPT !.users = us])
<1> PICK l : l = [users |-> us, groups |-> lists.groups, members |-> lists.members,
                  actoracl |-> lists.actoracl, qacl |-> lists.qacl]
    OBVIOUS
<1>1. l.users = us /\ l.members = lists.members /\ l.actoracl = lists.actoracl
      /\ l.qacl = lists.qacl
    OBVIOUS
<1>2. Effect(l)
    BY <1>1 DEF Effect, Narrow, Mem, Acl, Named
<1>3. l = [lists EXCEPT !.users = us]
    BY Replacing, Zenon
<1> QED BY <1>2, <1>3

LEMMA GroupsEffect ==
    ASSUME lists \in Lists, NEW gs
    PROVE  Effect([lists EXCEPT !.groups = gs])
<1> PICK l : l = [users |-> lists.users, groups |-> gs, members |-> lists.members,
                  actoracl |-> lists.actoracl, qacl |-> lists.qacl]
    OBVIOUS
<1>1. l.users = lists.users /\ l.members = lists.members /\ l.actoracl = lists.actoracl
      /\ l.qacl = lists.qacl
    OBVIOUS
<1>2. Effect(l)
    BY <1>1 DEF Effect, Narrow, Mem, Acl, Named
<1>3. l = [lists EXCEPT !.groups = gs]
    BY Replacing, Zenon
<1> QED BY <1>2, <1>3

LEMMA MembersEffect ==
    ASSUME lists \in Lists, NEW ms
    PROVE  Effect([lists EXCEPT !.members = ms])
<1> PICK l : l = [users |-> lists.users, groups |-> lists.groups, members |-> ms,
                  actoracl |-> lists.actoracl, qacl |-> lists.qacl]
    OBVIOUS
<1>1. l.users = lists.users /\ l.actoracl = lists.actoracl /\ l.qacl = lists.qacl
    OBVIOUS
<1>2. Effect(l)
    BY <1>1 DEF Effect, Narrow, Acl, Named
<1>3. l = [lists EXCEPT !.members = ms]
    BY Replacing, Zenon
<1> QED BY <1>2, <1>3

LEMMA ActorEffect ==
    ASSUME lists \in Lists, NEW acl
    PROVE  Effect([lists EXCEPT !.actoracl = acl])
<1> PICK l : l = [users |-> lists.users, groups |-> lists.groups, members |-> lists.members,
                  actoracl |-> acl, qacl |-> lists.qacl]
    OBVIOUS
<1>1. l.users = lists.users /\ l.members = lists.members /\ l.qacl = lists.qacl
    OBVIOUS
<1>2. Effect(l)
    BY <1>1 DEF Effect, Narrow, Mem, Named
<1>3. l = [lists EXCEPT !.actoracl = acl]
    BY Replacing, Zenon
<1> QED BY <1>2, <1>3

LEMMA QueueEffect ==
    ASSUME lists \in Lists, NEW acl
    PROVE  Effect([lists EXCEPT !.qacl = acl])
<1> PICK l : l = [users |-> lists.users, groups |-> lists.groups, members |-> lists.members,
                  actoracl |-> lists.actoracl, qacl |-> acl]
    OBVIOUS
<1>1. l.users = lists.users /\ l.members = lists.members /\ l.actoracl = lists.actoracl
    OBVIOUS
<1>2. Effect(l)
    BY <1>1 DEF Effect, Narrow, Mem, Acl, Named
<1>3. l = [lists EXCEPT !.qacl = acl]
    BY Replacing, Zenon
<1> QED BY <1>2, <1>3

(* A user or a group goes, from all lists at once.                         *)
LEMMA UserGoneEffect ==
    ASSUME lists \in Lists, NEW u
    PROVE  Effect([lists EXCEPT !.users    = {e \in @ : e[1] # u},
                                !.members  = {e \in @ : e[1] # u},
                                !.actoracl = {e \in @ : e[1] # u},
                                !.qacl     = {e \in @ : e[2] # u}])
<1> DEFINE us == {e \in lists.users : e[1] # u}
           ms == {e \in lists.members : e[1] # u}
           acl == {e \in lists.actoracl : e[1] # u}
           qs == {e \in lists.qacl : e[2] # u}
           l == [users |-> us, groups |-> lists.groups, members |-> ms, actoracl |-> acl,
                 qacl |-> qs]
<1>1. l.users = us /\ l.members = ms /\ l.actoracl = acl /\ l.qacl = qs
    OBVIOUS
<1> HIDE DEF l
<1>2. Narrow(l, lists)
    BY <1>1 DEF Narrow, Mem, Acl
<1>3. \A v \in Named(lists) \ Named(l) : v = u
    BY <1>1 DEF Named
<1>4. Gone(l, u)
    BY <1>1 DEF Gone
<1>5. Effect(l)
    BY <1>2, <1>3, <1>4 DEF Effect
<1> HIDE DEF us, ms, acl, qs
<1> DEFINE one == [lists EXCEPT !.users = us]
<1>6. one = [users |-> us, groups |-> lists.groups, members |-> lists.members,
             actoracl |-> lists.actoracl, qacl |-> lists.qacl]
    BY Replacing, Zenon
<1> HIDE DEF one
<1> DEFINE two == [one EXCEPT !.members = ms]
<1>7. two = [users |-> us, groups |-> lists.groups, members |-> ms,
             actoracl |-> lists.actoracl, qacl |-> lists.qacl]
    BY <1>6
<1> HIDE DEF two
<1> DEFINE three == [two EXCEPT !.actoracl = acl]
<1>8. three = [users |-> us, groups |-> lists.groups, members |-> ms,
               actoracl |-> acl, qacl |-> lists.qacl]
    BY <1>7
<1> HIDE DEF three
<1> DEFINE all == [three EXCEPT !.qacl = qs]
<1>9. all = l
    BY <1>8 DEF l
<1> HIDE DEF all
<1>10. Effect(all)
    BY <1>5, <1>9
<1> QED BY <1>10, Zenon DEF all, three, two, one, us, ms, acl, qs

LEMMA GroupGoneEffect ==
    ASSUME lists \in Lists, NEW g
    PROVE  Effect([lists EXCEPT !.groups   = @ \ {g},
                                !.members  = {e \in @ : e[2] # g},
                                !.actoracl = {e \in @ : e[1] # g},
                                !.qacl     = {e \in @ : e[2] # g}])
<1> DEFINE gs == lists.groups \ {g}
           ms == {e \in lists.members : e[2] # g}
           acl == {e \in lists.actoracl : e[1] # g}
           qs == {e \in lists.qacl : e[2] # g}
           l == [users |-> lists.users, groups |-> gs, members |-> ms, actoracl |-> acl,
                 qacl |-> qs]
<1>1. l.users = lists.users /\ l.members = ms /\ l.actoracl = acl /\ l.qacl = qs
    OBVIOUS
<1> HIDE DEF l
<1>2. Narrow(l, lists)
    BY <1>1 DEF Narrow, Mem, Acl
<1>3. Named(l) = Named(lists)
    BY <1>1 DEF Named
<1>4. Effect(l)
    BY <1>2, <1>3 DEF Effect
<1> HIDE DEF gs, ms, acl, qs
<1> DEFINE one == [lists EXCEPT !.groups = gs]
<1>5. one = [users |-> lists.users, groups |-> gs, members |-> lists.members,
             actoracl |-> lists.actoracl, qacl |-> lists.qacl]
    BY Replacing, Zenon
<1> HIDE DEF one
<1> DEFINE two == [one EXCEPT !.members = ms]
<1>6. two = [users |-> lists.users, groups |-> gs, members |-> ms,
             actoracl |-> lists.actoracl, qacl |-> lists.qacl]
    BY <1>5
<1> HIDE DEF two
<1> DEFINE three == [two EXCEPT !.actoracl = acl]
<1>7. three = [users |-> lists.users, groups |-> gs, members |-> ms,
               actoracl |-> acl, qacl |-> lists.qacl]
    BY <1>6
<1> HIDE DEF three
<1> DEFINE all == [three EXCEPT !.qacl = qs]
<1>8. all = l
    BY <1>7 DEF l
<1> HIDE DEF all
<1>9. Effect(all)
    BY <1>4, <1>8
<1> QED BY <1>9, Zenon DEF all, three, two, one, gs, ms, acl, qs

(* A command that changes the lists goes on to store them.                 *)
Changes == /\ Unlocked /\ UNCHANGED <<disk, mixed, torn>>
           /\ \/ UNCHANGED <<lists, overlap>> /\ Unlocked' /\ Writers \subseteq Writers'
              \/ /\ Storing' /\ Effect(lists')
                 /\ overlap' = (overlap \/ Rewriting # {})

LEMMA ChangeChanges ==
    ASSUME session \in [Sessions -> SessionType], NEW s \in Sessions,
           NEW found \in BOOLEAN, NEW changed, found => Effect(changed),
           Change(s, found, changed), session[s].step \in {"granted", "managed"}
    PROVE  Changes
<1>1. Unlocked /\ UNCHANGED <<disk, mixed, torn>>
    BY DEF Change
<1>2. CASE found
    <2>1. lists' = changed /\ session' = [session EXCEPT ![s].step = "store"]
        BY <1>2 DEF Change
    <2>2. session'[s].step = "store"
        BY <2>1 DEF SessionType, SessionRecord
    <2>3. overlap' = (overlap \/ Rewriting # {})
        BY <1>2 DEF Change
    <2> QED BY <1>1, <1>2, <2>1, <2>2, <2>3 DEF Changes, Storing
<1>3. CASE ~found
    <2>1. /\ lists' = lists /\ overlap' = overlap
          /\ session' = [session EXCEPT ![s].step = "idle", ![s].command = NoCommand]
        BY <1>3 DEF Change
    <2>2. \A r \in Sessions : session'[r].step = IF r = s THEN "idle" ELSE session[r].step
        BY <2>1 DEF SessionType, SessionRecord
    <2>3. Unlocked'
        BY <1>1, <2>2 DEF Unlocked, Storing
    <2>4. Writers \subseteq Writers'
        BY <2>2 DEF Writers
    <2> QED BY <1>1, <2>1, <2>3, <2>4 DEF Changes
<1> QED BY <1>2, <1>3

(* What the second step of each command does.                              *)
LEMMA CommandsChange ==
    ASSUME session \in [Sessions -> SessionType], lists \in Lists, NEW s \in Sessions
    PROVE  /\ \A u \in Users, pw \in Passwords :
                 CreateUser(s, u, pw) \/ ChangePassword(s, u, pw) => Changes
           /\ \A u \in Users : DeleteUser(s, u) => Changes
           /\ \A g \in Groups : CreateGroup(s, g) \/ DeleteGroup(s, g) => Changes
           /\ \A u \in Users, g \in Groups :
                 AddUserGroup(s, u, g) \/ DeleteUserGroup(s, u, g) => Changes
           /\ \A u \in Users, r \in GrantedActorRights : SetActorControlUser(s, u, r) => Changes
           /\ \A g \in Groups, r \in GrantedActorRights : SetActorControlGroup(s, g, r) => Changes
           /\ \A q \in Queues, a \in Actors : DeleteQAccessControl(s, q, a) => Changes
           /\ \A q \in Queues, a \in Actors, r \in GrantedQueueRights :
                 SetQAccessControl(s, q, a, r) => Changes
           /\ \A q \in Queues : SetInitialQueueControl(s, q) \/ PurgeQSecurity(s, q) => Changes
<1>1. ASSUME NEW u \in Users, NEW pw \in Passwords, CreateUser(s, u, pw)
      PROVE  Changes
    <2> DEFINE found == u \notin Named(lists)
               changed == [lists EXCEPT !.users = @ \cup {<<u, pw>>}]
    <2>1. found \in BOOLEAN /\ session[s].step \in {"granted", "managed"}
        BY <1>1 DEF CreateUser, Does
    <2>2. found => Effect(changed)
        <3> DEFINE us == lists.users \cup {<<u, pw>>}
        <3>1. Named(lists) \subseteq {e[1] : e \in us}
            BY DEF Named
        <3> HIDE DEF us
        <3>2. Effect([lists EXCEPT !.users = us])
            BY <3>1, UsersEffect
        <3> QED BY <3>2, Zenon DEF us
    <2>3. Change(s, found, changed)
        BY <1>1, Zenon DEF CreateUser
    <2> HIDE DEF found, changed
    <2> QED BY <2>1, <2>2, <2>3, ChangeChanges
<1>2. ASSUME NEW u \in Users, NEW pw \in Passwords, ChangePassword(s, u, pw)
      PROVE  Changes
    <2> DEFINE found == u \in Named(lists)
               changed == [lists EXCEPT !.users = SetEntry(@, u, pw)]
    <2>1. found \in BOOLEAN /\ session[s].step \in {"granted", "managed"}
        BY <1>2 DEF ChangePassword, Does
    <2>2. found => Effect(changed)
        <3> DEFINE us == SetEntry(lists.users, u, pw)
        <3>1. Named(lists) \subseteq {e[1] : e \in us}
            <4>1. ASSUME NEW d \in lists.users PROVE \E e \in us : e[1] = d[1]
                <5>1. CASE d[1] # u
                    BY <5>1 DEF SetEntry
                <5>2. <<u, pw>> \in us /\ <<u, pw>>[1] = u
                    BY DEF SetEntry
                <5> QED BY <5>1, <5>2
            <4> HIDE DEF us
            <4> QED BY <4>1 DEF Named
        <3> HIDE DEF us
        <3>2. Effect([lists EXCEPT !.users = us])
            BY <3>1, UsersEffect
        <3> QED BY <3>2, Zenon DEF us
    <2>3. Change(s, found, changed)
        BY <1>2, Zenon DEF ChangePassword
    <2> HIDE DEF found, changed
    <2> QED BY <2>1, <2>2, <2>3, ChangeChanges
<1>3. ASSUME NEW u \in Users, DeleteUser(s, u)
      PROVE  Changes
    <2> DEFINE found == u \in Named(lists)
               changed == [lists EXCEPT !.users    = {e \in @ : e[1] # u},
                                            !.members  = {e \in @ : e[1] # u},
                                            !.actoracl = {e \in @ : e[1] # u},
                                            !.qacl     = {e \in @ : e[2] # u}]
    <2>1. found \in BOOLEAN /\ session[s].step \in {"granted", "managed"}
        BY <1>3 DEF DeleteUser, Does
    <2>2. found => Effect(changed)
        BY UserGoneEffect, Zenon
    <2>3. Change(s, found, changed)
        BY <1>3, Zenon DEF DeleteUser
    <2> HIDE DEF found, changed
    <2> QED BY <2>1, <2>2, <2>3, ChangeChanges
<1>4. ASSUME NEW g \in Groups, CreateGroup(s, g)
      PROVE  Changes
    <2> DEFINE found == g \notin lists.groups
               changed == [lists EXCEPT !.groups = @ \cup {g}]
    <2>1. found \in BOOLEAN /\ session[s].step \in {"granted", "managed"}
        BY <1>4 DEF CreateGroup, Does
    <2>2. found => Effect(changed)
        BY GroupsEffect, Zenon
    <2>3. Change(s, found, changed)
        BY <1>4, Zenon DEF CreateGroup
    <2> HIDE DEF found, changed
    <2> QED BY <2>1, <2>2, <2>3, ChangeChanges
<1>5. ASSUME NEW g \in Groups, DeleteGroup(s, g)
      PROVE  Changes
    <2> DEFINE found == g \in lists.groups
               changed == [lists EXCEPT !.groups   = @ \ {g},
                                            !.members  = {e \in @ : e[2] # g},
                                            !.actoracl = {e \in @ : e[1] # g},
                                            !.qacl     = {e \in @ : e[2] # g}]
    <2>1. found \in BOOLEAN /\ session[s].step \in {"granted", "managed"}
        BY <1>5 DEF DeleteGroup, Does
    <2>2. found => Effect(changed)
        BY GroupGoneEffect, Zenon
    <2>3. Change(s, found, changed)
        BY <1>5, Zenon DEF DeleteGroup
    <2> HIDE DEF found, changed
    <2> QED BY <2>1, <2>2, <2>3, ChangeChanges
<1>6. ASSUME NEW u \in Users, NEW g \in Groups, AddUserGroup(s, u, g)
      PROVE  Changes
    <2> DEFINE found == g \in lists.groups /\ <<u, g>> \notin lists.members
               changed == [lists EXCEPT !.members = @ \cup {<<u, g>>}]
    <2>1. found \in BOOLEAN /\ session[s].step \in {"granted", "managed"}
        BY <1>6 DEF AddUserGroup, Does
    <2>2. found => Effect(changed)
        BY MembersEffect, Zenon
    <2>3. Change(s, found, changed)
        BY <1>6, Zenon DEF AddUserGroup
    <2> HIDE DEF found, changed
    <2> QED BY <2>1, <2>2, <2>3, ChangeChanges
<1>7. ASSUME NEW u \in Users, NEW g \in Groups, DeleteUserGroup(s, u, g)
      PROVE  Changes
    <2> DEFINE found == <<u, g>> \in lists.members
               changed == [lists EXCEPT !.members = @ \ {<<u, g>>}]
    <2>1. found \in BOOLEAN /\ session[s].step \in {"granted", "managed"}
        BY <1>7 DEF DeleteUserGroup, Does
    <2>2. found => Effect(changed)
        BY MembersEffect, Zenon
    <2>3. Change(s, found, changed)
        BY <1>7, Zenon DEF DeleteUserGroup
    <2> HIDE DEF found, changed
    <2> QED BY <2>1, <2>2, <2>3, ChangeChanges
<1>8. ASSUME NEW u \in Users, NEW r \in GrantedActorRights, SetActorControlUser(s, u, r)
      PROVE  Changes
    <2> DEFINE found == u \in Named(lists)
               changed == [lists EXCEPT !.actoracl = SetEntry(@, u, r)]
    <2>1. found \in BOOLEAN /\ session[s].step \in {"granted", "managed"}
        BY <1>8 DEF SetActorControlUser, Does
    <2>2. found => Effect(changed)
        BY ActorEffect, Zenon
    <2>3. Change(s, found, changed)
        BY <1>8, Zenon DEF SetActorControlUser
    <2> HIDE DEF found, changed
    <2> QED BY <2>1, <2>2, <2>3, ChangeChanges
<1>9. ASSUME NEW g \in Groups, NEW r \in GrantedActorRights, SetActorControlGroup(s, g, r)
      PROVE  Changes
    <2> DEFINE found == g \in lists.groups
               changed == [lists EXCEPT !.actoracl = SetEntry(@, g, r)]
    <2>1. found \in BOOLEAN /\ session[s].step \in {"granted", "managed"}
        BY <1>9 DEF SetActorControlGroup, Does
    <2>2. found => Effect(changed)
        BY ActorEffect, Zenon
    <2>3. Change(s, found, changed)
        BY <1>9, Zenon DEF SetActorControlGroup
    <2> HIDE DEF found, changed
    <2> QED BY <2>1, <2>2, <2>3, ChangeChanges
<1>10. ASSUME NEW q \in Queues, NEW a \in Actors, DeleteQAccessControl(s, q, a)
      PROVE  Changes
    <2> DEFINE found == WithoutEntry(q, a) # lists.qacl
               changed == [lists EXCEPT !.qacl = WithoutEntry(q, a)]
    <2>1. found \in BOOLEAN /\ session[s].step \in {"granted", "managed"}
        BY <1>10 DEF DeleteQAccessControl, Does
    <2>2. found => Effect(changed)
        BY QueueEffect, Zenon
    <2>3. Change(s, found, changed)
        BY <1>10, Zenon DEF DeleteQAccessControl
    <2> HIDE DEF found, changed
    <2> QED BY <2>1, <2>2, <2>3, ChangeChanges
<1>11. ASSUME NEW q \in Queues, NEW a \in Actors, NEW r \in GrantedQueueRights,
             SetQAccessControl(s, q, a, r)
      PROVE  Changes
    <2> DEFINE found == TRUE
               changed == [lists EXCEPT !.qacl = WithoutEntry(q, a) \cup {<<q, a, r>>}]
    <2>1. found \in BOOLEAN /\ session[s].step \in {"granted", "managed"}
        BY <1>11 DEF SetQAccessControl, Does
    <2>2. found => Effect(changed)
        BY QueueEffect, Zenon
    <2>3. Change(s, found, changed)
        BY <1>11, Zenon DEF SetQAccessControl
    <2> HIDE DEF found, changed
    <2> QED BY <2>1, <2>2, <2>3, ChangeChanges
<1>12. ASSUME NEW q \in Queues, SetInitialQueueControl(s, q)
      PROVE  Changes
    <2> DEFINE a == session[s].user
               changed == [lists EXCEPT !.qacl = WithoutEntry(q, a) \cup {<<q, a, QueueRights>>}]
    <2>0. session[s].step \in {"granted", "managed"}
        BY <1>12 DEF SetInitialQueueControl
    <2>1. Effect(changed)
        BY QueueEffect, Zenon
    <2>2. Change(s, TRUE, changed)
        BY <1>12, Zenon DEF SetInitialQueueControl
    <2> HIDE DEF changed
    <2> QED BY <2>0, <2>1, <2>2, ChangeChanges
<1>13. ASSUME NEW q \in Queues, PurgeQSecurity(s, q)
      PROVE  Changes
    <2> DEFINE found == TRUE
               changed == [lists EXCEPT !.qacl = {e \in @ : e[1] # q}]
    <2>1. found \in BOOLEAN /\ session[s].step \in {"granted", "managed"}
        BY <1>13 DEF PurgeQSecurity
    <2>2. found => Effect(changed)
        BY QueueEffect, Zenon
    <2>3. Change(s, found, changed)
        BY <1>13, Zenon DEF PurgeQSecurity
    <2> HIDE DEF found, changed
    <2> QED BY <2>1, <2>2, <2>3, ChangeChanges
<1> QED BY <1>1, <1>2, <1>3, <1>4, <1>5, <1>6, <1>7, <1>8, <1>9, <1>10, <1>11, <1>12, <1>13

(* What leaves the lists and their files alone leaves scmtx alone, and     *)
(* those who store.                                                        *)
Rests == /\ UNCHANGED <<lists, disk, storeVars>>
         /\ Storing' = Storing /\ Writers \subseteq Writers'

LEMMA StepRests ==
    ASSUME session \in [Sessions -> SessionType], NEW s \in Sessions,
           NEW new \in SessionRecord, session' = [session EXCEPT ![s] = new],
           session[s].step \notin {"store", "rewrite"}, new.step # "store"
    PROVE  Storing' = Storing /\ Writers \subseteq Writers'
<1>1. \A r \in Sessions : session'[r] = IF r = s THEN new ELSE session[r]
    BY DEF SessionType
<1>2. Storing' => Storing
    BY <1>1 DEF Storing
<1>3. Storing => Storing'
    BY <1>1 DEF Storing
<1>4. Writers \subseteq Writers'
    BY <1>1 DEF Writers
<1> QED BY <1>2, <1>3, <1>4 DEF Storing

(* Every step: a change, a store, a restart, or none of the lists' matter. *)
Stores == /\ UNCHANGED <<lists, torn>> /\ mixed' = overlap
          /\ disk' = lists \/ overlap
          /\ Writers' = {} => ~overlap'

LEMMA StoresSorted ==
    ASSUME session \in [Sessions -> SessionType], NEW s \in Sessions, StoreSecurityLists(s)
    PROVE  Stores
<1>1. /\ session' = [session EXCEPT ![s].step = "idle", ![s].command = NoCommand]
      /\ UNCHANGED <<lists, torn>> /\ mixed' = overlap /\ (disk' = lists \/ overlap)
      /\ overlap' = (overlap /\ Writers # {s}) /\ s \in Writers
    BY DEF StoreSecurityLists, Stored
<1>2. \A t \in Sessions : session'[t].step = IF t = s THEN "idle" ELSE session[t].step
    BY <1>1 DEF SessionType, SessionRecord
<1>3. \A t \in Writers : t # s => t \in Writers'
    BY <1>2 DEF Writers
<1> QED BY <1>1, <1>3 DEF Stores

LEMMA StepsSorted ==
    ASSUME Inv, Next
    PROVE  Changes \/ Stores \/ Rests \/ Restart \/ TornRestart
<1>0. lists \in Lists /\ session \in [Sessions -> SessionType]
    BY DEF Inv, SecurityTypeOK
<1>1. ASSUME NEW s \in Sessions, SessionNext(s)
      PROVE  Changes \/ Stores \/ Rests
    <2> DEFINE r == session[s]
    <2>0. r \in SessionType /\ r = [user |-> r.user, step |-> r.step, command |-> r.command]
        BY <1>0 DEF SessionType, SessionRecord
    <2>1. ASSUME NEW u \in Users, NEW pw \in Passwords, Login(s, u, pw)
          PROVE  Rests
        <3>1. session' = [session EXCEPT ![s] = [r EXCEPT !.user = u]]
            BY <2>1 DEF Login
        <3>2. [r EXCEPT !.user = u] \in SessionRecord
              /\ [r EXCEPT !.user = u].step = r.step
            BY <2>0 DEF SessionType, SessionRecord
        <3>3. r.step = "idle"
            BY <2>0, <2>1 DEF Login, SessionType
        <3>4. Storing' = Storing /\ Writers \subseteq Writers'
            BY <1>0, <3>1, <3>2, <3>3, StepRests
        <3> QED BY <2>1, <3>4 DEF Rests, Login
    <2>2. CASE Logout(s)
        <3>1. session' = [session EXCEPT ![s] = Idle] /\ r.step = "idle"
            BY <2>2 DEF Logout
        <3>2. Idle \in SessionRecord /\ Idle.step # "store"
            BY DEF Idle, SessionRecord
        <3>3. Storing' = Storing /\ Writers \subseteq Writers'
            BY <1>0, <3>1, <3>2, StepRests
        <3> QED BY <2>2, <3>3 DEF Rests, Logout
    <2>3. ASSUME NEW c, Begin(s, c),
                 c \in UserCommands \cup GroupCommands \cup QueueCommands
                        \cup ({"createQueue", "deleteQueue"} \X Queues)
          PROVE  Rests
        <3> DEFINE new == [r EXCEPT !.step = "granted", !.command = c]
        <3>0. c \in Commands
            BY <2>3, Zenon DEF Commands
        <3>1. session' = [session EXCEPT ![s] = new] /\ r.step = "idle"
            BY <2>3 DEF Begin
        <3>2. new \in SessionRecord /\ new.step # "store"
            BY <2>0, <3>0 DEF SessionType, SessionRecord
        <3> HIDE DEF new
        <3>3. Storing' = Storing /\ Writers \subseteq Writers'
            BY <1>0, <3>1, <3>2, StepRests
        <3> QED BY <2>3, <3>3 DEF Rests, Begin
    <2>4. CASE \/ \E c \in UserCommands : TestUserCommand(s, c)
               \/ \E c \in GroupCommands : TestGroupCommand(s, c)
               \/ \E c \in QueueCommands : TestQueueCommand(s, c)
        BY <2>3, <2>4, Zenon DEF TestUserCommand, TestGroupCommand, TestQueueCommand
    <2>5. ASSUME NEW q \in Queues, TestCreateQueue(s, q) \/ TestDeleteQueue(s, q)
          PROVE  Rests
        <3>1. /\ <<"createQueue", q>> \in {"createQueue", "deleteQueue"} \X Queues
              /\ <<"deleteQueue", q>> \in {"createQueue", "deleteQueue"} \X Queues
            OBVIOUS
        <3>2. Begin(s, <<"createQueue", q>>) \/ Begin(s, <<"deleteQueue", q>>)
            BY <2>5 DEF TestCreateQueue, TestDeleteQueue
        <3> QED BY <2>3, <3>1, <3>2, Zenon
    <2>6. ASSUME NEW done, NEW queues, r.step = "granted", InManager(s, done, queues)
          PROVE  Rests
        <3> DEFINE new == IF done THEN [r EXCEPT !.step = "managed"]
                          ELSE [r EXCEPT !.step = "idle", !.command = NoCommand]
        <3>1. session' = [session EXCEPT ![s] = new]
            BY <2>6 DEF InManager
        <3>2. new \in SessionRecord /\ new.step # "store"
            BY <2>0 DEF SessionType, SessionRecord
        <3> HIDE DEF new
        <3>3. Storing' = Storing /\ Writers \subseteq Writers'
            BY <1>0, <2>6, <3>1, <3>2, StepRests
        <3> QED BY <2>6, <3>3 DEF Rests, InManager
    <2>7. ASSUME NEW q \in Queues, CreateQueue(s, q) \/ DeleteQueue(s, q)
          PROVE  Rests
        <3>1. r.step = "granted"
            BY <2>7 DEF CreateQueue, DeleteQueue, Does
        <3> QED BY <2>6, <2>7, <3>1, Zenon DEF CreateQueue, DeleteQueue
    <2>8. ASSUME NEW c \in IdentityCommands, ChangeIdentity(s, c)
          PROVE  Rests
        <3> DEFINE new == [r EXCEPT !.step = "rewrite"]
        <3>1. session' = [session EXCEPT ![s] = new] /\ r.step = "granted"
            BY <2>8 DEF ChangeIdentity, Does
        <3>2. new \in SessionRecord /\ new.step # "store"
            BY <2>0 DEF SessionType, SessionRecord
        <3> HIDE DEF new
        <3>3. Storing' = Storing /\ Writers \subseteq Writers'
            BY <1>0, <3>1, <3>2, StepRests
        <3> QED BY <2>8, <3>3 DEF Rests, ChangeIdentity
    <2>9. CASE StoreSecurityLists(s)
        BY <1>0, <2>9, StoresSorted
    <2> QED BY <1>0, <1>1, <2>1, <2>2, <2>4, <2>5, <2>7, <2>8, <2>9, CommandsChange, Zenon
            DEF SessionNext
<1> QED BY <1>1 DEF Next
-----------------------------------------------------------------------------
(* While scmtx is free, the files say of everybody but the administrators  *)
(* what the lists do; unless stores overlapped a change.                   *)
LEMMA FilesAgree ==
    ASSUME RightsInv, ~Storing, ~overlap, ~mixed
    PROVE  Mem(disk) = Mem(lists) /\ Acl(disk) = Acl(lists) /\ disk.qacl = lists.qacl
<1>1. /\ lists \in Lists /\ Unique(lists) /\ disk \in Lists /\ Unique(disk)
      /\ Constructed(disk) = Constructed(lists)
    BY DEF RightsInv, Inv, ListsInv, SecurityTypeOK, Agreed
<1>2. /\ Mem(Constructed(disk)) = Mem(disk) /\ Acl(Constructed(disk)) = Acl(disk)
      /\ Constructed(disk).qacl = disk.qacl
    BY <1>1, ConstructedProperties
<1>3. /\ Mem(Constructed(lists)) = Mem(lists) /\ Acl(Constructed(lists)) = Acl(lists)
      /\ Constructed(lists).qacl = lists.qacl
    BY <1>1, ConstructedProperties
<1> QED BY <1>1, <1>2, <1>3, Zenon

(* What the files of a restart are.                                        *)
LEMMA FilesRead ==
    ASSUME Inv, Restart \/ TornRestart
    PROVE  /\ \A s \in Sessions : session'[s].step = "idle"
           /\ disk' \in Lists /\ Unique(disk') /\ lists' = Constructed(disk')
           /\ ~overlap' /\ ~mixed'
           /\ TornRestart /\ ~overlap /\ ~mixed => Mixture(disk')
<1>1. disk \in Lists /\ Unique(disk)
    BY DEF Inv, ListsInv, SecurityTypeOK
<1>2. ASSUME NEW files \in Lists, Unique(files), Load(files)
      PROVE  /\ \A s \in Sessions : session'[s].step = "idle"
             /\ disk' \in Lists /\ Unique(disk') /\ lists' = Constructed(disk')
             /\ ~overlap' /\ ~mixed'
    BY <1>2 DEF Load, Idle, Unique
<1>3. CASE Restart /\ ~TornRestart
    BY <1>1, <1>2, <1>3 DEF Restart
<1>4. CASE TornRestart
    <2>1. PICK files \in Lists : /\ Load(files) /\ Unique(files)
                                 /\ ~overlap /\ ~mixed => Mixture(files)
        BY <1>4, TornFiles
    <2>2. ~overlap /\ ~mixed => Mixture(disk')
        BY <2>1 DEF Load
    <2> QED BY <1>2, <2>1, <2>2
<1> QED BY <1>3, <1>4

(* What the constructor makes of files differs from them by administrators *)
(* only.                                                                   *)
LEMMA ConstructedAgrees ==
    ASSUME NEW l \in Lists, Unique(l)
    PROVE  /\ Constructed(l) = Constructed(Constructed(l))
           /\ Narrow(Constructed(l), l)
BY ConstructedProperties DEF Narrow

LEMMA InitRights == Init => RightsInv
<1> SUFFICES ASSUME Init PROVE RightsInv
    OBVIOUS
<1>1. Inv /\ ~overlap
    BY InitInv DEF Init
<1>2. disk \in Lists /\ Unique(disk) /\ lists = Constructed(disk)
    BY <1>1 DEF Inv, ListsInv, SecurityTypeOK, Init
<1>3. Constructed(lists) = Constructed(disk) /\ Narrow(lists, disk)
    BY <1>2, ConstructedAgrees
<1> QED BY <1>1, <1>3 DEF RightsInv, Settled, Agreed, OneChange

LEMMA StepRights == RightsInv /\ [Next]_vars => RightsInv'
<1> SUFFICES ASSUME RightsInv, [Next]_vars PROVE RightsInv'
    OBVIOUS
<1>0. Inv /\ Inv'
    BY StepInv DEF RightsInv
<1>1. CASE Changes
    <2>1. ~Storing /\ UNCHANGED <<disk, mixed>>
        BY <1>1 DEF Changes, Unlocked
    <2>2. CASE UNCHANGED <<lists, overlap>> /\ Unlocked' /\ Writers \subseteq Writers'
        BY <1>0, <2>1, <2>2 DEF RightsInv, Settled, Agreed, OneChange, Unlocked
    <2>3. CASE /\ Storing' /\ Effect(lists')
               /\ overlap' = (overlap \/ Rewriting # {})
        <3>1. Narrow(lists', lists)
            BY <2>3 DEF Effect
        <3>2. Settled' /\ Agreed'
            BY <2>3 DEF Settled, Agreed, Storing, Writers
        <3>3. ASSUME ~overlap', ~mixed' PROVE Narrow(lists', disk')
            <4>1. ~overlap /\ ~mixed
                BY <2>1, <2>3, <3>3
            <4>2. Mem(disk) = Mem(lists) /\ Acl(disk) = Acl(lists) /\ disk.qacl = lists.qacl
                BY <2>1, <4>1, FilesAgree
            <4>3. Narrow(lists', disk)
                BY <3>1, <4>2 DEF Narrow
            <4> QED BY <2>1, <4>3
        <3>4. OneChange'
            BY <3>3 DEF OneChange, Narrow, Mem, Acl
        <3> QED BY <1>0, <3>2, <3>4 DEF RightsInv
    <2> QED BY <1>1, <2>2, <2>3 DEF Changes
<1>2. CASE Stores
    <2>1. /\ lists' = lists /\ mixed' = overlap
          /\ disk' = lists \/ overlap
          /\ Writers' = {} => ~overlap'
        BY <1>2 DEF Stores
    <2>2. Narrow(lists, lists)
        BY DEF Narrow
    <2>3. Settled'
        BY <2>1 DEF Settled
    <2>4. ~mixed' => disk' = lists'
        BY <2>1
    <2>5. Agreed' /\ OneChange'
        BY <2>1, <2>2, <2>4 DEF Agreed, OneChange, Narrow, Mem, Acl
    <2> QED BY <1>0, <2>3, <2>5 DEF RightsInv
<1>3. CASE Rests
    BY <1>0, <1>3 DEF Rests, RightsInv, Settled, Agreed, OneChange, storeVars
<1>4. CASE Restart \/ TornRestart
    <2>1. /\ disk' \in Lists /\ Unique(disk') /\ lists' = Constructed(disk')
          /\ ~overlap'
        BY <1>0, <1>4, FilesRead
    <2>2. Constructed(lists') = Constructed(disk') /\ Narrow(lists', disk')
        <3> DEFINE files == disk'
        <3>1. files \in Lists /\ Unique(files)
            BY <2>1
        <3> HIDE DEF files
        <3>2. Constructed(Constructed(files)) = Constructed(files)
              /\ Narrow(Constructed(files), files)
            BY <3>1, ConstructedAgrees
        <3> QED BY <2>1, <3>2 DEF files
    <2> QED BY <1>0, <2>1, <2>2 DEF RightsInv, Settled, Agreed, OneChange
<1>5. CASE UNCHANGED vars
    BY <1>0, <1>5 DEF vars, storeVars, RightsInv, Settled, Agreed, OneChange, Writers, Storing
<1>6. CASE Next
    BY <1>0, <1>1, <1>2, <1>3, <1>4, <1>6, StepsSorted
<1> QED BY <1>5, <1>6

LEMMA RightsInvariance == Spec => []RightsInv
BY InitRights, StepRights, PTL DEF Spec

(* While nobody stores the lists, a restart brings back those there are,   *)
(* but for the administrators it makes again: however many identity        *)
(* commands stored them at once without scmtx, unless a change came in     *)
(* between the last time.                                                  *)
THEOREM RestartsRestore == Spec => []RestartRestores
<1>1. RightsInv => RestartRestores
    BY DEF RightsInv, Settled, Agreed, RestartRestores, Writers, Storing
<1> QED BY <1>1, RightsInvariance, PTL

(* A user who is gone has no right but the one everybody has.              *)
LEMMA GoneMayNothing ==
    ASSUME NEW l, NEW u, Gone(l, u), u \notin Named(l)
    PROVE  /\ \A r \in ActorRights : ~MayAdminister(l, u, r)
           /\ \A q \in Queues, r \in QueueRights :
                 MayUse(l, u, q, r) => Listed(QueueList(l, q), AllUsers, r)
<1>1. GroupsOf(l, u) = {}
    <2>1. \A g : <<u, g>>[1] = u
        OBVIOUS
    <2> QED BY <2>1 DEF GroupsOf, Gone
<1>2. \A r \in ActorRights : ~MayAdminister(l, u, r)
    BY <1>1 DEF MayAdminister, Listed, Gone
<1>3. ASSUME NEW q \in Queues, NEW r \in QueueRights
      PROVE  ~Listed(QueueList(l, q), u, r)
    <2>1. \A e \in QueueList(l, q) : e[1] # u
        BY DEF QueueList, Gone
    <2> QED BY <2>1 DEF Listed
<1>4. ~(u = Admin /\ Admin \in Named(l))
    OBVIOUS
<1> QED BY <1>1, <1>2, <1>3, <1>4 DEF MayUse

LEMMA StepRevokes ==
    ASSUME RightsInv, [Next]_vars, Changing,
           NEW u \in Named(lists) \ Named(lists')
    PROVE  /\ \A r \in ActorRights : ~MayAdminister(lists', u, r)
           /\ \A q \in Queues, r \in QueueRights :
                 MayUse(lists', u, q, r) => Listed(QueueList(lists', q), AllUsers, r)
<1>1. lists' # lists
    OBVIOUS
<1>2. Next
    BY <1>1 DEF vars
<1>3. CASE Changes
    <2>1. Effect(lists')
        BY <1>1, <1>3 DEF Changes
    <2>2. Gone(lists', u)
        BY <2>1 DEF Effect
    <2> QED BY <2>2, GoneMayNothing
<1>4. ~Restart /\ ~TornRestart
    BY FilesRead DEF RightsInv, Changing, Storing
<1>5. ~Stores /\ ~Rests
    BY <1>1 DEF Stores, Rests
<1> QED BY <1>2, <1>3, <1>4, <1>5, StepsSorted DEF RightsInv

(* A user who is deleted keeps no right of his own or of a group.          *)
THEOREM DeletedHaveNoRights == Spec => DeletionRevokes
<1>1. RightsInv /\ [Next]_vars =>
        [\A u \in Named(lists) \ Named(lists') :
           Changing =>
           /\ \A r \in ActorRights : ~MayAdminister(lists', u, r)
           /\ \A q \in Queues, r \in QueueRights :
                 MayUse(lists', u, q, r) => Listed(QueueList(lists', q), AllUsers, r)]_vars
    BY StepRevokes
<1> QED BY <1>1, RightsInvariance, PTL DEF Spec, DeletionRevokes

(* Who is a member and what a group may do are of one time in the files    *)
(* that a crash leaves, or the groups or their rights are the same in both.*)
LEMMA OfOneTime ==
    ASSUME Narrow(lists, disk), NEW files, Mixture(files), NEW m \in Mem(files)
    PROVE  /\ \A e \in Acl(files) : \/ m \in lists.members /\ e \in lists.actoracl
                                    \/ m \in disk.members /\ e \in disk.actoracl
           /\ \A e \in files.qacl : \/ m \in lists.members /\ e \in lists.qacl
                                    \/ m \in disk.members /\ e \in disk.qacl
<1>1. m \in Mem(lists) \/ m \in Mem(disk)
    BY DEF Mixture, Mem
<1>2. \A e \in Acl(files) : e \in Acl(lists) \/ e \in Acl(disk)
    BY DEF Mixture, Acl
<1>3. \A e \in files.qacl : e \in lists.qacl \/ e \in disk.qacl
    BY DEF Mixture
<1>4. /\ Mem(lists) \subseteq lists.members /\ Mem(disk) \subseteq disk.members
      /\ Acl(lists) \subseteq lists.actoracl /\ Acl(disk) \subseteq disk.actoracl
    BY DEF Mem, Acl
<1>5. \/ Mem(lists) \subseteq Mem(disk) /\ Acl(lists) \subseteq Acl(disk)
            /\ lists.qacl \subseteq disk.qacl
      \/ Mem(lists) = Mem(disk) /\ Acl(lists) = Acl(disk)
      \/ Mem(lists) = Mem(disk) /\ lists.qacl = disk.qacl
      \/ Acl(lists) = Acl(disk) /\ lists.qacl = disk.qacl
    BY DEF Narrow
<1> QED BY <1>1, <1>2, <1>3, <1>4, <1>5

(* A right on a queue is written for the actor in the list of the queue.   *)
LEMMA ListedOnQueue ==
    ASSUME NEW l, NEW a, NEW q, NEW r
    PROVE  Listed(QueueList(l, q), a, r) <=>
             \E e \in l.qacl : e[1] = q /\ e[2] = a /\ r \in e[3]
<1>1. ASSUME NEW e \in l.qacl, e[1] = q, e[2] = a, r \in e[3]
      PROVE  Listed(QueueList(l, q), a, r)
    <2>1. <<e[2], e[3]>> \in QueueList(l, q)
        BY <1>1 DEF QueueList
    <2>2. <<e[2], e[3]>>[1] = a /\ r \in <<e[2], e[3]>>[2]
        BY <1>1
    <2> QED BY <2>1, <2>2, Zenon DEF Listed
<1>2. ASSUME Listed(QueueList(l, q), a, r)
      PROVE  \E e \in l.qacl : e[1] = q /\ e[2] = a /\ r \in e[3]
    <2>1. PICK d \in QueueList(l, q) : d[1] = a /\ r \in d[2]
        BY <1>2 DEF Listed
    <2>2. PICK e \in l.qacl : e[1] = q /\ d = <<e[2], e[3]>>
        BY <2>1 DEF QueueList
    <2> QED BY <2>1, <2>2
<1> QED BY <1>1, <1>2

(* The lists of a restart from such files.                                 *)
LEMMA MixtureGainsNothing ==
    ASSUME Inv, OneChange, ~overlap, ~mixed, NEW files \in Lists, Unique(files), Mixture(files),
           NEW u \in Users \ {Admin},
           AdminGroup \notin GroupsOf(lists, u) \cup GroupsOf(disk, u)
    PROVE  LET l == Constructed(files) IN
           /\ \A r \in ActorRights : MayAdminister(l, u, r) =>
                 MayAdminister(lists, u, r) \/ MayAdminister(disk, u, r)
           /\ \A q \in Queues, r \in QueueRights : MayUse(l, u, q, r) =>
                 MayUse(lists, u, q, r) \/ MayUse(disk, u, q, r)
<1> DEFINE l == Constructed(files)
<1>1. Mem(l) = Mem(files) /\ Acl(l) = Acl(files) /\ l.qacl = files.qacl /\ Narrow(lists, disk)
    BY ConstructedProperties DEF OneChange
<1> HIDE DEF l
<1>2. u # Admin /\ u # AdminGroup /\ \A g \in Groups : g # Admin
    BY SecurityAssumption
<1>3. ASSUME NEW g \in GroupsOf(l, u)
      PROVE  <<u, g>> \in Mem(files) /\ g \in Groups
    BY <1>1, <1>2, <1>3 DEF GroupsOf, Mem
<1>4. ASSUME NEW g \in GroupsOf(l, u)
      PROVE  g # AdminGroup
    BY <1>3, <1>4 DEF GroupsOf, Mem, Mixture
<1>5. ASSUME NEW r \in ActorRights, MayAdminister(l, u, r)
      PROVE  MayAdminister(lists, u, r) \/ MayAdminister(disk, u, r)
    <2>1. CASE Listed(l.actoracl, u, r)
        <3>1. PICK e \in l.actoracl : e[1] = u /\ r \in e[2]
            BY <2>1 DEF Listed
        <3>2. e \in Acl(files)
            BY <1>1, <1>2, <3>1 DEF Acl
        <3>3. e \in lists.actoracl \/ e \in disk.actoracl
            BY <3>2 DEF Acl, Mixture
        <3> QED BY <3>1, <3>3 DEF MayAdminister, Listed
    <2>2. ASSUME NEW g \in GroupsOf(l, u), Listed(l.actoracl, g, r)
          PROVE  MayAdminister(lists, u, r) \/ MayAdminister(disk, u, r)
        <3>1. PICK e \in l.actoracl : e[1] = g /\ r \in e[2]
            BY <2>2 DEF Listed
        <3>2. <<u, g>> \in Mem(files) /\ g \in Groups /\ g # AdminGroup
            BY <1>3, <1>4
        <3>3. e \in Acl(files)
            BY <1>1, <1>2, <3>1, <3>2 DEF Acl
        <3>4. \/ <<u, g>> \in lists.members /\ e \in lists.actoracl
              \/ <<u, g>> \in disk.members /\ e \in disk.actoracl
            BY <1>1, <3>2, <3>3, OfOneTime
        <3> QED BY <3>1, <3>2, <3>4 DEF MayAdminister, Listed, GroupsOf
    <2> QED BY <1>5, <2>1, <2>2 DEF MayAdminister
<1>6. ASSUME NEW q \in Queues, NEW r \in QueueRights, MayUse(l, u, q, r)
      PROVE  MayUse(lists, u, q, r) \/ MayUse(disk, u, q, r)
    <2>1. ASSUME NEW a, a = u \/ a = AllUsers, Listed(QueueList(l, q), a, r)
          PROVE  MayUse(lists, u, q, r) \/ MayUse(disk, u, q, r)
        <3>1. PICK e \in l.qacl : e[1] = q /\ e[2] = a /\ r \in e[3]
            BY <2>1, ListedOnQueue
        <3>2. e \in lists.qacl \/ e \in disk.qacl
            BY <1>1 DEF Mixture
        <3>3. Listed(QueueList(lists, q), a, r) \/ Listed(QueueList(disk, q), a, r)
            BY <3>1, <3>2, ListedOnQueue
        <3> QED BY <2>1, <3>3 DEF MayUse
    <2>2. ASSUME NEW g \in GroupsOf(l, u), Listed(QueueList(l, q), g, r)
          PROVE  MayUse(lists, u, q, r) \/ MayUse(disk, u, q, r)
        <3>1. PICK e \in l.qacl : e[1] = q /\ e[2] = g /\ r \in e[3]
            BY <2>2, ListedOnQueue
        <3>2. <<u, g>> \in Mem(files) /\ g \in Groups /\ e \in files.qacl
            BY <1>1, <1>3
        <3>3. \/ <<u, g>> \in lists.members /\ e \in lists.qacl
              \/ <<u, g>> \in disk.members /\ e \in disk.qacl
            BY <1>1, <3>2, OfOneTime
        <3>4. \/ g \in GroupsOf(lists, u) /\ Listed(QueueList(lists, q), g, r)
              \/ g \in GroupsOf(disk, u) /\ Listed(QueueList(disk, q), g, r)
            BY <3>1, <3>2, <3>3, ListedOnQueue DEF GroupsOf
        <3> QED BY <3>4 DEF MayUse
    <2> QED BY <1>2, <1>4, <1>6, <2>1, <2>2 DEF MayUse
<1> QED BY <1>5, <1>6 DEF l

LEMMA StepGains ==
    ASSUME RightsInv, [Next]_vars, Restarting, NEW u \in Users \ {Admin},
           AdminGroup \notin GroupsOf(lists, u) \cup GroupsOf(disk, u)
    PROVE  /\ \A r \in ActorRights : MayAdminister(lists', u, r) =>
                 MayAdminister(lists, u, r) \/ MayAdminister(disk, u, r)
           /\ \A q \in Queues, r \in QueueRights : MayUse(lists', u, q, r) =>
                 MayUse(lists, u, q, r) \/ MayUse(disk, u, q, r)
<1>1. Writers # {} /\ Writers' = {} /\ ~overlap /\ ~mixed
    BY DEF Restarting
<1>2. Next
    BY <1>1 DEF vars, Writers
<1>3. CASE UNCHANGED lists
    BY <1>3
<1>4. CASE TornRestart
    <2>1. /\ disk' \in Lists /\ Unique(disk') /\ Mixture(disk')
          /\ lists' = Constructed(disk')
        BY <1>1, <1>4, FilesRead DEF RightsInv
    <2> DEFINE files == disk'
    <2> HIDE DEF files
    <2>2. files \in Lists /\ Unique(files) /\ Mixture(files) /\ lists' = Constructed(files)
        BY <2>1 DEF files
    <2> QED BY <1>1, <2>2, MixtureGainsNothing DEF RightsInv
<1>5. Changes \/ Stores \/ Rests => UNCHANGED lists
    <2>1. ~Storing'
        BY <1>1 DEF Storing, Writers
    <2> QED BY <2>1 DEF Changes, Stores, Rests
<1>6. ~Restart
    BY <1>1 DEF Restart
<1> QED BY <1>2, <1>3, <1>4, <1>5, <1>6, StepsSorted DEF RightsInv

(* The files of a cut store give nobody a right he did not have before or  *)
(* after the command that was cut, administrators excepted.                *)
THEOREM CutStoreGivesNothing == Spec => NoGainByRestart
<1>1. RightsInv /\ [Next]_vars =>
        [Restarting =>
          \A u \in Users \ {Admin} :
             AdminGroup \notin GroupsOf(lists, u) \cup GroupsOf(disk, u) =>
             /\ \A r \in ActorRights : MayAdminister(lists', u, r) =>
                   MayAdminister(lists, u, r) \/ MayAdminister(disk, u, r)
             /\ \A q \in Queues, r \in QueueRights : MayUse(lists', u, q, r) =>
                   MayUse(lists, u, q, r) \/ MayUse(disk, u, q, r)]_vars
    BY StepGains
<1> QED BY <1>1, RightsInvariance, PTL DEF Spec, NoGainByRestart
=============================================================================
