----------------------------- MODULE QStorageMC -----------------------------
(* Instances of QStorage for TLC.                                          *)
EXTENDS QStorage

CONSTANTS m1, m2, m3, idA, idB

(* m2 overtakes m1 and m3.                                                 *)
TwoPriorities == [m \in Msgs |-> IF m = m2 THEN 1 ELSE 0]
TwoIds == [m \in Msgs |-> IF m = m2 THEN idB ELSE idA]
=============================================================================
