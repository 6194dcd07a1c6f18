---------------------------- MODULE MCSocketPool ----------------------------
(***************************************************************************)
(* SocketPool for TLC: four requests to an HTTP/1.1 origin or an HTTP/2    *)
(* one.  Requests of one kind are interchangeable.                         *)
(***************************************************************************)
EXTENDS SocketPool, TLC

CONSTANTS r1, r2, r3, r4

Kinds(k1, k2, k3, k4) == r1 :> k1 @@ r2 :> k2 @@ r3 :> k3 @@ r4 :> k4

MCOrigins ==
  {[alpn |-> "http/1.1", kindOf |-> Kinds("http", "http", "alpn", "alpn"), happens |-> Happenings],
   [alpn |-> "h2", kindOf |-> Kinds("http", "http", "websocket", "alpn"),
    happens |-> Happenings \ {"clientErrors"}],
   [alpn |-> "h2", kindOf |-> Kinds("http", "http", "alpn", "alpn"),
    happens |-> {"clientErrors", "serverCloses"}]}
=============================================================================
