-------------------------- MODULE ClientConnectionMC --------------------------
(* Instances of ClientConnection for TLC.                                  *)
EXTENDS ClientConnection, TLC

OnePriority == [m \in Msgs |-> 0]
ClientSymmetry == Permutations(Sessions) \cup Permutations(Msgs)
=============================================================================
