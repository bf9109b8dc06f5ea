----------------------------- MODULE QManagerMC -----------------------------
(* Instances of QManager for TLC.                                          *)
EXTENDS QManager, TLC

ManagerSymmetry == Permutations(Sessions) \cup Permutations(Msgs)
                   \cup Permutations(Stores) \cup Permutations(Inodes)
=============================================================================
