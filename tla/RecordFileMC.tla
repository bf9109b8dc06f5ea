---------------------------- MODULE RecordFileMC ----------------------------
(* Instances of RecordFile for TLC.                                        *)
EXTENDS RecordFile

CONSTANTS m1, m2, m3

Interchangeable == Permutations(Msgs)
=============================================================================
