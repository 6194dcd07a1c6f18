---------------------------- MODULE MCDevtoolsRpc ----------------------------
(* DevtoolsRpc for TLC: two commands to a target, one to the browser. *)
EXTENDS DevtoolsRpc, TLC

CONSTANTS t1, c1, c2, c3

Sessions == c1 :> t1 @@ c2 :> t1 @@ c3 :> Root
AllHappenings == Happenings
=============================================================================
