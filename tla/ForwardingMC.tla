---------------------------- MODULE ForwardingMC ----------------------------
(* Instances of Forwarding for TLC.                                        *)
EXTENDS Forwarding

OnePriority == [m \in Msgs |-> 0]
=============================================================================
