----------------------------- MODULE QueueWaitMC ----------------------------
(* Instances of QueueWait for TLC.                                         *)
EXTENDS QueueWait

CONSTANTS m1, m2, idA, idB

TwoIds == [m \in Msgs |-> IF m = m2 THEN idB ELSE idA]
=============================================================================
