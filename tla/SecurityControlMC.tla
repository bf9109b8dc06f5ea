-------------------------- MODULE SecurityControlMC --------------------------
(* Instances of SecurityControl for TLC.                                   *)
EXTENDS SecurityControl, TLC

SomeActorRights == {{}, {"users"}, {"queues", "groups"}}
SomeQueueRights == {{"read"}, {"destroy", "security"}}

(* The lists of a server in use, and those of a new one.                   *)
CONSTANTS admin, u1, administration, all, q1, none

InUse == [users    |-> {<<admin, none>>, <<u1, none>>},
          groups   |-> {administration, all},
          members  |-> {<<admin, administration>>, <<u1, administration>>},
          actoracl |-> {<<admin, ActorRights>>, <<administration, ActorRights>>,
                        <<u1, {"users"}>>},
          qacl     |-> {<<q1, u1, {"read", "security"}>>}]

(* Lines of several lists, and a spliced one of no list, that names g1.    *)
CONSTANT g1

Jumbled == [users    |-> {<<u1, none>>},
            groups   |-> {all},
            members  |-> {<<admin, administration>>, <<u1, g1>>},
            actoracl |-> {<<u1, {"users"}>>, <<g1, {"users", "groups"}>>},
            qacl     |-> {<<q1, g1, {"read"}>>}]

OnceJumbled == {Jumbled}

NewOrInUse == {NoLists, InUse}

SecuritySymmetry == Permutations(Sessions)
=============================================================================
