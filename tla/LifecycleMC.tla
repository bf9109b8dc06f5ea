---------------------------- MODULE LifecycleMC ----------------------------
(* Instances of Lifecycle for TLC.                                         *)
EXTENDS Lifecycle

TwoForwarders == <<"forward1", "forward2">>
OneForwarder  == <<"forward1">>
=============================================================================
