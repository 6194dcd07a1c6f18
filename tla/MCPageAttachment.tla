-------------------------- MODULE MCPageAttachment --------------------------
(* PageAttachment for TLC: up to two calls of newPage and one popup. *)
EXTENDS PageAttachment, TLC

CONSTANTS c1, c2

\* The second call wants to be the popup of the first target.
Triggers == c1 :> 0 @@ c2 :> 1

MCEnvironments ==
  {{"anotherCall", "createFails", "initFails"}, {"anotherCall", "selfClose"},
   {"announces", "selfClose"}, {"selfClose", "popup"}, {"popup", "contextCloses"},
   {"userCloses", "contextCloses", "closeErrors"}, {"contextCloses", "closeErrors", "dialog"},
   {"silent", "contextCloses", "killed"}}
=============================================================================
