------------------------ MODULE TransactionManagerMC ------------------------
(* Instances of TransactionManager for TLC.                                *)
EXTENDS TransactionManager

CONSTANTS m1, m2, m3, idA

OnePriority == [m \in Msgs |-> 0]
TwoPriorities == [m \in Msgs |-> IF m = m2 THEN 1 ELSE 0]
Symmetry == Permutations(Sessions) \cup Permutations(Msgs)
OneId == [m \in Msgs |-> idA]
=============================================================================
