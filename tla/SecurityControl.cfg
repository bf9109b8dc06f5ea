CONSTANTS
    admin = admin
    u1 = u1
    administration = administration
    all = all
    q1 = q1
    none = none
    g1 = g1
    Users = {admin, u1}
    Groups = {administration, all, g1}
    Queues = {q1}
    Passwords = {none}
    Sessions = {s1, s2}
    Admin = admin
    AdminGroup = administration
    AllUsers = all
    NoPassword = none
    Nobody = Nobody
    GrantedActorRights <- SomeActorRights
    GrantedQueueRights <- SomeQueueRights
    MaxCommands = 2
    StoredLists <- NewOrInUse
    MixedLists <- OnceJumbled
SPECIFICATION Spec
SYMMETRY SecuritySymmetry
INVARIANTS
    ListsClosed
    RestartRestores
PROPERTIES
    DeletionRevokes
    NoGainByRestart
