------------------------- MODULE MCRequestMatching -------------------------
(* RequestMatching for TLC: two requests, the first with a redirect or not. *)
EXTENDS RequestMatching
CONSTANTS r1, r2
Env(first, second, happens) ==
  [url |-> (r1 :> first @@ r2 :> second), happens |-> happens]
MCEnvironments ==
  {Env(<<"a">>, <<"a">>, {"alike", "password"}),
   Env(<<"b", "a">>, <<"a">>, {"alike", "password"}),
   Env(<<"a", "b">>, <<"a">>, {"insecure"}),
   Env(<<"a", "b">>, <<"a">>, {"alike", "outruns"}),
   Env(<<"b", "a">>, <<"a">>, {"overlaps", "outruns"}),
   Env(<<"b", "a">>, <<"a">>, {"overlaps", "outruns", "typed"}),
   Env(<<"a">>, <<"a">>, {"overlaps", "password", "typed"}),
   Env(<<"a">>, <<"a">>, {"overlaps", "password", "outruns", "alike"}),
   Env(<<"a", "a">>, <<"a">>, {"late", "outruns", "alike"}),
   Env(<<"a">>, <<"a">>, {"late", "alike", "password"}),
   Env(<<"a", "a">>, <<"a">>, {"insecure", "slow"}),
   Env(<<"a">>, <<"a">>, {"cached", "insecure"}),
   Env(<<"b", "a">>, <<"a">>, {"cancels", "alike"}),
   Env(<<"a">>, <<"a">>, {"errors", "overlaps", "insecure"}),
   Env(<<"a", "b">>, <<"a">>, {"closes", "overlaps", "outruns"})}
=============================================================================
