---------------------------- MODULE MCMitmConnect ----------------------------
(***************************************************************************)
(* MitmConnect for TLC: two CONNECTs to one host, where everything may     *)
(* happen, or to two hosts, where processes and servers fail.              *)
(***************************************************************************)
EXTENDS MitmConnect, TLC

CONSTANTS c1, c2, h1, h2

MCScenarios ==
  {[hostOf |-> c1 :> h1 @@ c2 :> h1, happens |-> Happenings],
   [hostOf |-> c1 :> h1 @@ c2 :> h2, happens |-> {"proxyDies"}]}
=============================================================================
