----------------------------- MODULE SocketPool -----------------------------
(***************************************************************************)
(* The connections of one request session to one origin: the SocketPool of *)
(* agent/mitm/lib/SocketPool.ts and the requests that MitmRequestAgent.ts  *)
(* and the handlers run over it.  A request asks the serial queue of the   *)
(* pool for a socket, which is one of the HTTP/2 session, a free one, or a *)
(* new one, and waits while the origin has its maximum.  HTTP/1.1 sockets  *)
(* go back to the pool and are probed before they are used again; HTTP/2   *)
(* sockets are shared through a session; websockets keep theirs.           *)
(*                                                                         *)
(* One action is what runs between two awaits.  A socket closes when the   *)
(* server, the Go process or the proxy closes it.                          *)
(***************************************************************************)
EXTENDS Integers, Sequences, FiniteSets, SequencesExt

CONSTANTS
  Request,
  MaxConnections,   \* socketsPerOrigin
  SocketLimit,      \* bound: sockets created in one behaviour
  Origins           \* a behaviour has one of them: the protocol the origin negotiates, what
                    \* each request to it is, and what may go wrong

Happenings == {"connectFails", "serverCloses", "staleSocket", "clientErrors", "sessionClose",
               "connectorExits"}

ASSUME SocketPoolAssumption ==
  /\ IsFiniteSet(Request)
  /\ MaxConnections \in Nat \ {0} /\ SocketLimit \in Nat
  /\ \A o \in Origins :
       /\ o.kindOf \in [Request -> {"http", "websocket", "alpn"}]   \* alpn: a lookup of CONNECT
       /\ o.alpn \in {"h2", "http/1.1"}
       /\ o.happens \subseteq Happenings

Socket == 1..SocketLimit
NoSocket == 0

VARIABLES
  \* the requests
  phase,          \* how far it has got
  socketOf,       \* proxyToServerMitmSocket, and the socket being created for it
  carrier,        \* the connection its bytes travel on
  aborted,        \* requests cleaned up while they were waiting for a socket
  \* the sockets
  socket,
  forWebsocket,   \* created with isWebsocket, so without ALPN
  isReused,
  lost,           \* closed by the exit of the connector while they connected, so before the
                  \* pool listened: their close is never heard, their alpn is the default
  exited,         \* the Go process of the session is gone
  \* the pool
  queue, all, free, pooled, alpn, http2Sessions, isClosing,
  origin

requestVars == <<phase, socketOf, carrier, aborted>>
connectorVars == <<lost, exited>>
socketVars  == <<socket, forWebsocket, isReused, connectorVars>>
poolVars    == <<all, free, pooled, alpn, http2Sessions>>
systemVars == <<requestVars, socketVars, poolVars, queue, isClosing>>
vars == <<systemVars, origin>>

Phases == {"new", "peeking", "queued", "waiting", "woken", "connecting", "assigned",
           "probing", "registering", "sending", "done", "failed"}

TypeOK ==
  /\ phase \in [Request -> Phases]
  /\ socketOf \in [Request -> Socket \cup {NoSocket}]
  /\ carrier \in [Request -> Socket \cup {NoSocket}]
  /\ aborted \subseteq Request
  /\ socket \in [Socket -> {"unused", "connecting", "open", "closed"}]
  /\ forWebsocket \subseteq Socket /\ isReused \subseteq Socket /\ all \subseteq Socket
  /\ lost \subseteq Socket /\ exited \in BOOLEAN
  /\ queue \in Seq(Request) /\ free \in Seq(Socket) /\ http2Sessions \in Seq(Socket)
  /\ pooled \in Int
  /\ alpn \in {"none", "h2", "http/1.1"} /\ isClosing \in BOOLEAN

Init ==
  /\ phase = [r \in Request |-> "new"]
  /\ socketOf = [r \in Request |-> NoSocket] /\ carrier = [r \in Request |-> NoSocket]
  /\ socket = [s \in Socket |-> "unused"]
  /\ aborted = {} /\ forWebsocket = {} /\ isReused = {} /\ all = {}
  /\ lost = {} /\ exited = FALSE
  /\ queue = <<>> /\ free = <<>> /\ http2Sessions = <<>>
  /\ pooled = 0 /\ alpn = "none" /\ isClosing = FALSE
  /\ origin \in Origins

KindOf == origin.kindOf
Environment == origin.happens
IsWebsocket(r) == KindOf[r] = "websocket"
AlpnOf(s) == IF s \in forWebsocket \cup lost THEN "http/1.1" ELSE origin.alpn
IsHttp2(s) == AlpnOf(s) = "h2"

Becomes(r, p) == phase' = [phase EXCEPT ![r] = p]

-----------------------------------------------------------------------------
(* Asking for a socket *)

\* The request or lookup that holds the serial queue.
Running == {r \in Request : phase[r] \in {"waiting", "woken", "connecting"}}

Enqueue(r, p) == queue' = Append(queue, r) /\ Becomes(r, p)

\* isHttp2 trusts a known alpn; while the queue is active it first waits for
\* its turn, in the hope that the entry before it finds the alpn out.
LookupAlpn(r) ==
  /\ phase[r] = "new" /\ KindOf[r] = "alpn" /\ ~isClosing
  /\ \/ alpn # "none" /\ Becomes(r, "done") /\ UNCHANGED queue
     \/ alpn = "none" /\ (queue # <<>> \/ Running # {}) /\ Enqueue(r, "peeking")
     \/ alpn = "none" /\ queue = <<>> /\ Running = {} /\ Enqueue(r, "queued")
  /\ UNCHANGED <<socketOf, carrier, aborted, socketVars, poolVars, isClosing>>

AssignSocket(r) ==
  /\ phase[r] = "new" /\ KindOf[r] # "alpn" /\ ~isClosing
  /\ Enqueue(r, "queued")
  /\ UNCHANGED <<socketOf, carrier, aborted, socketVars, poolVars, isClosing>>

\* free.add(s): a set that remembers the order its members came in.
AddFree(f, s) == IF Contains(f, s) THEN f ELSE Append(f, s)

\* getSocket returns s.  The ALPN lookup puts it in the free set at once; a
\* request that was cleaned up meanwhile throws and never gives it back.
Give(r, s, rest) ==
  /\ socketOf' = [socketOf EXCEPT ![r] = s]
  /\ free' = IF KindOf[r] = "alpn" THEN AddFree(rest, s) ELSE rest
  /\ Becomes(r, IF KindOf[r] = "alpn" THEN "done" ELSE IF r \in aborted THEN "failed" ELSE "assigned")

ReuseKept(r) == free # <<>> /\ Give(r, Head(free), free) /\ UNCHANGED <<socket, forWebsocket>>

Reuse(r) == free # <<>> /\ Give(r, Head(free), Tail(free)) /\ UNCHANGED <<socket, forWebsocket>>

Create(r) ==
  /\ free = <<>>
  /\ \E s \in Socket :
       /\ socket[s] = "unused" /\ \A t \in 1..(s - 1) : socket[t] # "unused"
       /\ socket' = [socket EXCEPT ![s] = "connecting"]
       /\ forWebsocket' = IF IsWebsocket(r) THEN forWebsocket \cup {s} ELSE forWebsocket
       /\ socketOf' = [socketOf EXCEPT ![r] = s]
       /\ Becomes(r, "connecting")
  /\ UNCHANGED free

\* The first free socket, or a new one whose connection is then awaited.
Take(r) == Reuse(r) \/ Create(r)

\* The callback of getSocket up to its first await.
GetSocket(r) ==
  \/ /\ http2Sessions # <<>> /\ ~IsWebsocket(r)
     /\ Give(r, Head(http2Sessions), free)
     /\ UNCHANGED <<socket, forWebsocket>>
  \/ /\ http2Sessions = <<>> \/ IsWebsocket(r)
     /\ IF pooled >= MaxConnections /\ free = <<>>
          THEN Becomes(r, "waiting") /\ UNCHANGED <<socketOf, free, socket, forWebsocket>>
          ELSE Take(r)

RunQueue ==
  /\ queue # <<>> /\ Running = {}
  /\ LET r == Head(queue) IN
     \/ /\ phase[r] = "queued"
        /\ queue' = Tail(queue)
        /\ GetSocket(r)
     \/ /\ phase[r] = "peeking"
        /\ IF alpn # "none" THEN queue' = Tail(queue) /\ Becomes(r, "done")
                            ELSE queue' = Append(Tail(queue), r) /\ Becomes(r, "queued")
        /\ UNCHANGED <<socketOf, free, socket, forWebsocket>>
  /\ UNCHANGED <<carrier, aborted, isReused, connectorVars, all, pooled, alpn, http2Sessions, isClosing>>

\* getSocket after its wait for a free place.
Resume(r) ==
  /\ phase[r] = "woken"
  /\ Take(r)
  /\ UNCHANGED <<carrier, aborted, isReused, connectorVars, all, pooled, alpn, http2Sessions, queue, isClosing>>

CountsNever(r, s) == FALSE

Countable(s) == s \notin forWebsocket /\ ~IsHttp2(s)

\* "don't put connections that can't be reused into the pool"
Counts(r, s) == ~IsHttp2(s) /\ ~IsWebsocket(r)

\* connect() returns: the socket is open, or the exit of the connector resolved
\* connectPromise and closed it, which the pool does not notice.
Connected(r) ==
  LET s == socketOf[r] IN
  /\ phase[r] = "connecting" /\ ~isClosing
  /\ \/ socket[s] = "connecting" /\ ~exited /\ socket' = [socket EXCEPT ![s] = "open"]
     \/ s \in lost /\ ~IsWebsocket(r) /\ UNCHANGED socket
  /\ all' = all \cup {s}
  /\ alpn' = AlpnOf(s)
  /\ pooled' = IF Counts(r, s) THEN pooled + 1 ELSE pooled
  /\ Give(r, s, free)
  /\ UNCHANGED <<carrier, aborted, forWebsocket, isReused, connectorVars, http2Sessions, queue, isClosing>>

\* An error, the timer of connectPromise, a connector that is gone; or, for a
\* websocket, the use of the socket that connect() returned closed.
ConnectFails(r) ==
  LET s == socketOf[r] IN
  /\ phase[r] = "connecting" /\ ~isClosing
  /\ \/ /\ socket[s] = "connecting" /\ ("connectFails" \in Environment \/ exited)
        /\ socket' = [socket EXCEPT ![s] = "closed"]
     \/ s \in lost /\ IsWebsocket(r) /\ UNCHANGED socket
  /\ Becomes(r, "failed")
  /\ UNCHANGED <<socketOf, carrier, aborted, forWebsocket, isReused, connectorVars, poolVars, queue, isClosing>>

-----------------------------------------------------------------------------
(* Giving a socket back, and the close event of a socket *)

WakeNobody(ph) == ph

\* The phases after the one pending wait, if there is one, was resolved.
Wake(ph) == [r \in Request |-> IF ph[r] = "waiting" THEN "woken" ELSE ph[r]]

FreeNothing(s, ph) ==
  /\ isReused' = isReused \cup {s}
  /\ free' = Append(free, NoSocket)
  /\ phase' = Wake(ph)
  /\ UNCHANGED <<socket, all, pooled, http2Sessions>>

FreeSocket(s, ph) ==
  /\ isReused' = isReused \cup {s}
  /\ free' = AddFree(free, s)
  /\ phase' = Wake(ph)
  /\ UNCHANGED <<socket, all, pooled, http2Sessions>>

CloseHttp2Session(s) == http2Sessions' = RemoveFirst(http2Sessions, s)

KeepFree(s) == UNCHANGED free
DropFree(s) == free' = RemoveFirst(free, s)

\* The close event, heard by onSocketClosed and closeHttp2Session.
CloseSocket(s, ph) ==
  LET left == IF s \in all THEN pooled - 1 ELSE pooled IN
  /\ socket' = [socket EXCEPT ![s] = "closed"]
  /\ DropFree(s)
  /\ CloseHttp2Session(s)
  /\ all' = all \ {s}
  /\ pooled' = left
  /\ phase' = IF s \notin forWebsocket /\ ~IsHttp2(s) /\ left < MaxConnections
                THEN Wake(ph) ELSE ph
  /\ UNCHANGED isReused

SocketCloses(s) ==
  /\ "serverCloses" \in Environment /\ socket[s] = "open"
  /\ CloseSocket(s, phase)
  /\ UNCHANGED <<socketOf, carrier, aborted, forWebsocket, connectorVars, alpn, queue, isClosing>>

-----------------------------------------------------------------------------
(* The request over its socket *)

\* The hooks have run.  A socket that was used before is probed for 100 ms.
Http1Request(r) ==
  LET s == socketOf[r] IN
  /\ phase[r] = "assigned" /\ ~IsHttp2(s)
  /\ carrier' = [carrier EXCEPT ![r] = s]
  /\ Becomes(r, IF s \in isReused THEN "probing" ELSE "sending")
  /\ UNCHANGED <<socketOf, aborted, socketVars, poolVars, queue, isClosing>>

ProbeOk(r) ==
  /\ phase[r] = "probing" /\ socket[socketOf[r]] = "open"
  /\ Becomes(r, "sending")
  /\ UNCHANGED <<socketOf, carrier, aborted, socketVars, poolVars, queue, isClosing>>

\* The probe found the socket dead: it is closed and another one is asked for,
\* which throws once the session is closed.
ProbeFails(r) ==
  LET s == socketOf[r]
      retry == [phase EXCEPT ![r] = IF isClosing THEN "failed" ELSE "queued"]
  IN
  /\ phase[r] = "probing"
  /\ \/ /\ "staleSocket" \in Environment /\ socket[s] = "open"
        /\ CloseSocket(s, retry)
     \/ /\ socket[s] = "closed"
        /\ phase' = retry
        /\ UNCHANGED <<socket, isReused, all, free, pooled, http2Sessions>>
  /\ queue' = IF isClosing THEN queue ELSE Append(queue, r)
  /\ UNCHANGED <<socketOf, carrier, aborted, forWebsocket, connectorVars, alpn, isClosing>>

\* createHttp2Session: the client of the existing session, or the hooks for a new one.
Http2Request(r) ==
  /\ phase[r] = "assigned" /\ IsHttp2(socketOf[r])
  /\ \/ /\ http2Sessions # <<>>
        /\ carrier' = [carrier EXCEPT ![r] = Head(http2Sessions)]
        /\ Becomes(r, "sending")
     \/ http2Sessions = <<>> /\ Becomes(r, "registering") /\ UNCHANGED carrier
  /\ UNCHANGED <<socketOf, aborted, socketVars, poolVars, queue, isClosing>>

\* http2.connect throws on a socket that is gone; nobody looks for a session again.
RegisterHttp2Session(r) ==
  LET s == socketOf[r] IN
  /\ phase[r] = "registering"
  /\ \/ /\ socket[s] = "open"
        /\ http2Sessions' = Append(http2Sessions, s)
        /\ carrier' = [carrier EXCEPT ![r] = s]
        /\ Becomes(r, "sending")
     \/ socket[s] = "closed" /\ Becomes(r, "failed") /\ UNCHANGED <<http2Sessions, carrier>>
  /\ UNCHANGED <<socketOf, aborted, socketVars, all, free, pooled, alpn, queue, isClosing>>

\* The response is complete: freeSocket keeps an HTTP/1.1 socket unless one
\* side asked for "Connection: close", and leaves a session alone.
Respond(r) ==
  LET s == socketOf[r]
      done == [phase EXCEPT ![r] = "done"]
  IN
  /\ phase[r] = "sending" /\ ~IsWebsocket(r)
  /\ socket[carrier[r]] = "open" /\ socket[s] = "open"
  /\ IF IsHttp2(s)
       THEN phase' = done /\ UNCHANGED <<socket, isReused, all, free, pooled, http2Sessions>>
       ELSE FreeSocket(s, done) \/ CloseSocket(s, done)
  /\ UNCHANGED <<socketOf, carrier, aborted, forWebsocket, connectorVars, alpn, queue, isClosing>>

\* One end of the upgraded connection ends.
WebsocketEnds(r) ==
  /\ phase[r] = "sending" /\ IsWebsocket(r) /\ socket[socketOf[r]] = "open"
  /\ CloseSocket(socketOf[r], [phase EXCEPT ![r] = "done"])
  /\ UNCHANGED <<socketOf, carrier, aborted, forWebsocket, connectorVars, alpn, queue, isClosing>>

\* The handler races the request with closedPromise of the socket it was given.
SocketLost(r) ==
  /\ phase[r] = "sending"
  /\ socket[socketOf[r]] = "closed" \/ socket[carrier[r]] = "closed"
  /\ Becomes(r, "failed")
  /\ UNCHANGED <<socketOf, carrier, aborted, socketVars, poolVars, queue, isClosing>>

\* onError and cleanup: the socket is neither freed nor closed.
ClientError(r) ==
  /\ "clientErrors" \in Environment /\ KindOf[r] # "alpn"
  /\ \/ /\ phase[r] \in {"queued", "waiting", "woken", "connecting"} /\ r \notin aborted
        /\ aborted' = aborted \cup {r}
        /\ UNCHANGED phase
     \/ /\ phase[r] \in {"assigned", "probing", "registering", "sending"}
        /\ Becomes(r, "failed")
        /\ UNCHANGED aborted
  /\ UNCHANGED <<socketOf, carrier, socketVars, poolVars, queue, isClosing>>

\* Every socket of the session closes, and the open ones are heard.
CloseSockets ==
  /\ socket' = [s \in Socket |-> IF socket[s] \in {"open", "connecting"} THEN "closed" ELSE socket[s]]
  /\ pooled' = pooled - Cardinality({s \in all : socket[s] = "open"})
  /\ all' = {} /\ free' = <<>> /\ http2Sessions' = <<>>

\* MitmSocketSession.beforeExit: until now the pool holds open sockets only, so
\* it is empty afterwards.  A wait in the queue is resolved.
ConnectorExits ==
  /\ "connectorExits" \in Environment /\ ~exited /\ ~isClosing
  /\ exited' = TRUE
  /\ lost' = {s \in Socket : socket[s] = "connecting"}
  /\ CloseSockets
  /\ phase' = IF \E s \in all : Countable(s) THEN Wake(phase) ELSE phase
  /\ UNCHANGED <<socketOf, carrier, aborted, forWebsocket, isReused, alpn, queue, isClosing>>

\* RequestSession.close: the sockets of the session, then the pools.
CloseSession ==
  /\ "sessionClose" \in Environment /\ ~isClosing
  /\ isClosing' = TRUE
  /\ CloseSockets
  /\ queue' = <<>>
  /\ phase' = [r \in Request |-> IF phase[r] \in {"peeking", "queued"} \/ r \in Running
                                   THEN "failed" ELSE phase[r]]
  /\ UNCHANGED <<socketOf, carrier, aborted, forWebsocket, isReused, connectorVars, alpn>>

-----------------------------------------------------------------------------
UseSocket(r) == \/ Http1Request(r) \/ ProbeOk(r) \/ ProbeFails(r) \/ Http2Request(r)
                \/ RegisterHttp2Session(r) \/ Respond(r) \/ SocketLost(r)

RequestStep(r) == \/ LookupAlpn(r) \/ AssignSocket(r) \/ Resume(r) \/ Connected(r)
                  \/ ConnectFails(r) \/ UseSocket(r) \/ WebsocketEnds(r) \/ ClientError(r)

Next == /\ (\E r \in Request : RequestStep(r)) \/ (\E s \in Socket : SocketCloses(s))
             \/ RunQueue \/ ConnectorExits \/ CloseSession
        /\ UNCHANGED origin

Spec == Init /\ [][Next]_vars

(***************************************************************************)
(* The queue and the awaits go on, and a request that has a socket is      *)
(* answered or loses it.  A connection attempt has a timeout until the     *)
(* connector's exit resolves connectPromise: socketReadyPromise has none,  *)
(* so an attempt that the exit interrupts need never return.  Nothing      *)
(* makes a websocket end, nor the server close an idle socket.             *)
(***************************************************************************)
FairSpec ==
  /\ Spec
  /\ WF_systemVars(RunQueue)
  /\ \A r \in Request : /\ WF_systemVars(Resume(r)) /\ WF_systemVars(UseSocket(r))
                        /\ WF_systemVars(socketOf[r] \notin lost /\ (Connected(r) \/ ConnectFails(r)))

-----------------------------------------------------------------------------
(* Properties *)

\* "pooled", which throttles new connections, is the number of the sockets of the
\* pool that can be reused: it is raised by getSocket and lowered by another event
\* handler.  (The close of a socket that was never counted lowers it too.)
PooledIsExact ==
  ~isClosing /\ (\A s \in Socket : socket[s] # "unused" => Countable(s)) =>
    pooled = Cardinality({s \in all : Countable(s)})

Busy(r) == phase[r] \in {"assigned", "probing", "sending"}

\* An HTTP/1.1 connection serves one request at a time, and none of those the
\* pool would hand out again, through reuse, failed probes and retries.
OneRequestPerConnection ==
  \A r \in Request : Busy(r) /\ ~IsHttp2(socketOf[r]) =>
    /\ ~Contains(free, socketOf[r])
    /\ \A q \in Request \ {r} : Busy(q) => socketOf[q] # socketOf[r]

\* What the pool can hand out is open: a socket that closes while it is free or
\* while its session is registered leaves both collections.  The one exception is a
\* socket that the exit of the connector closed before the pool listened to it.
HandsOutOpenSockets ==
  \A s \in Socket : /\ Contains(http2Sessions, s) => socket[s] = "open"
                    /\ Contains(free, s) => socket[s] = "open" \/ s \in lost

IsUsing(r, s) == socketOf[r] = s /\ phase[r] \in {"assigned", "probing", "sending"}

\* Why an origin may be blocked for ever: an attempt to connect that the exit of the
\* connector interrupted holds the queue, or a place is taken by a socket that no
\* request uses and that is not free (its request was dropped by onError, or found
\* it closed by that exit).
Stranded ==
  \/ \E r \in Request : phase[r] = "connecting" /\ socketOf[r] \in lost
  \/ \E s \in all : Countable(s) /\ ~Contains(free, s) /\ \A r \in Request : ~IsUsing(r, s)

\* Every request that asks for a socket is given one or told it cannot have one,
\* although one request at a time waits inside the serial queue; unless a place or
\* the queue is Stranded, which at most the close of that socket or of the session ends.
SocketRequestsSettle ==
  \A r \in Request :
    phase[r] \in {"peeking", "queued", "waiting"}
      ~> phase[r] \in {"assigned", "done", "failed"} \/ Stranded
=============================================================================
