----------------------------- MODULE MitmConnect -----------------------------
(***************************************************************************)
(* A CONNECT of the browser, and the two Go processes it needs.  Before it *)
(* opens the tunnel MitmProxy.onHttpConnect awaits two things at once: the *)
(* protocol of the server, for which SocketPool.isHttp2 has a MitmSocket   *)
(* connected by the process of the request session ("proxy"), and a        *)
(* certificate for the host, generated by the process of the pool          *)
(* ("certs").  Each process is owned by a BaseIpcHandler that spawns it,   *)
(* writes requests to its socket, and hears its exit.                      *)
(*                                                                         *)
(* A MitmSocket is connected when its request is written, when the process *)
(* has connected to the local server of the socket, and when it has said   *)
(* "connected"; a Resolvable with a timer stands for the last.             *)
(*                                                                         *)
(* One action is what runs between two awaits; whoever awaits a promise    *)
(* that is settled goes on before the next event (Idle).                   *)
(***************************************************************************)
EXTENDS Sequences, FiniteSets

CONSTANTS
  Connect, Host,
  Scenarios         \* a behaviour has one: the host of each CONNECT, and what may happen

Happenings == {"spawnFails", "proxyDies", "certsDie", "remoteFails", "remoteCloses",
               "sessionClose", "poolClose"}

ASSUME ConnectAssumption ==
  /\ IsFiniteSet(Connect)
  /\ \A s \in Scenarios : s.hostOf \in [Connect -> Host] /\ s.happens \subseteq Happenings

Handler == {"proxy", "certs"}

VARIABLES
  \* BaseIpcHandler
  child, waitForConnect, isExited, isClosing,
  \* onHttpConnect, and the lookup of isHttp2 of each CONNECT
  phase, lookup, queue, alpn,
  \* the MitmSocket of each lookup
  request,              \* how far requestSocket is
  connectPromise, socketReady, told, closed, socketsById,
  remote,               \* what the Go process does for it
  \* CertificateGenerator, and the secure context of each host
  waitForInit, certificate, pendingCert, secureContext,
  mitmProxy,            \* the proxy of the session
  scenario

helperVars == <<child, waitForConnect, isExited, isClosing>>
lookupVars == <<lookup, queue, alpn>>
socketVars == <<request, connectPromise, socketReady, told, closed, socketsById, remote>>
certVars   == <<waitForInit, certificate, pendingCert, secureContext>>
systemVars == <<helperVars, phase, lookupVars, socketVars, certVars, mitmProxy>>
vars == <<systemVars, scenario>>

HostOf == scenario.hostOf
Environment == scenario.happens

Promise == {"none", "pending", "resolved", "rejected"}

TypeOK ==
  /\ child \in [Handler -> {"unborn", "alive", "failed", "dead"}]
  /\ waitForConnect \in [Handler -> Promise \ {"none"}]
  /\ isExited \subseteq Handler /\ isClosing \subseteq Handler
  /\ phase \in [Connect -> {"new", "awaiting", "tunnel", "dropped"}]
  /\ lookup \in [Connect -> {"none", "peeking", "queued", "dns", "listening", "connecting",
                             "done", "failed"}]
  /\ \A h \in Host : queue[h] \in Seq({c \in Connect : HostOf[c] = h})
  /\ alpn \in [Host -> {"none", "default", "server"}]
  /\ request \in [Connect -> {"none", "ipc", "done"}]
  /\ connectPromise \in [Connect -> Promise]
  /\ \A s \in {socketReady, told, closed, socketsById} : s \subseteq Connect
  /\ remote \in [Connect -> {"none", "asked", "dialed", "piping", "over"}]
  /\ waitForInit \in {"pending", "resolved"}
  /\ certificate \in [Host -> {"none", "ipc", "init", "writing", "written", "over"}]
  /\ pendingCert \in [Host -> Promise \cup {"canceled"}]
  /\ secureContext \in [Host -> {"none", "pending", "added", "canceled", "failed"}]
  /\ mitmProxy \in {"open", "closing", "closed"}

Init ==
  /\ child = [p \in Handler |-> "unborn"] /\ waitForConnect = [p \in Handler |-> "pending"]
  /\ isExited = {} /\ isClosing = {}
  /\ phase = [c \in Connect |-> "new"] /\ lookup = [c \in Connect |-> "none"]
  /\ queue = [h \in Host |-> <<>>] /\ alpn = [h \in Host |-> "none"]
  /\ request = [c \in Connect |-> "none"] /\ connectPromise = [c \in Connect |-> "none"]
  /\ socketReady = {} /\ told = {} /\ closed = {} /\ socketsById = {}
  /\ remote = [c \in Connect |-> "none"]
  /\ waitForInit = "pending" /\ certificate = [h \in Host |-> "none"]
  /\ pendingCert = [h \in Host |-> "none"] /\ secureContext = [h \in Host |-> "none"]
  /\ mitmProxy = "open"
  /\ scenario \in Scenarios

Enters(c, p) == lookup' = [lookup EXCEPT ![c] = p]

-----------------------------------------------------------------------------
(* MitmProxy.onHttpConnect and SocketPool.isHttp2 *)

Active(h) == \E c \in Connect : HostOf[c] = h /\ lookup[c] \in {"dns", "listening", "connecting"}

QueueOfAnother(c) ==
  /\ Enters(c, IF alpn[HostOf[c]] # "none" THEN "done" ELSE "queued")
  /\ queue' = [h \in Host |-> IF h # HostOf[c] THEN Append(queue[h], c) ELSE queue[h]]

\* isHttp2: once the session is closed there is no pool to ask, which isHttp2 of
\* the proxy takes for a no.
IsHttp2(c) ==
  LET h == HostOf[c] IN
  /\ Enters(c, IF "proxy" \in isClosing THEN "failed"
               ELSE IF alpn[h] # "none" THEN "done"
               ELSE IF Active(h) \/ queue[h] # <<>> THEN "peeking" ELSE "queued")
  /\ queue' = IF lookup'[c] \in {"peeking", "queued"}
                THEN [queue EXCEPT ![h] = Append(@, c)] ELSE queue

\* addSecureContext: the first CONNECT to a host has its certificate made, the
\* later ones await the same promise.  A closing generator gives none.
AddSecureContext(h) ==
  IF secureContext[h] # "none" THEN UNCHANGED <<certificate, secureContext>>
  ELSE IF "certs" \in isClosing
    THEN secureContext' = [secureContext EXCEPT ![h] = "added"] /\ UNCHANGED certificate
    ELSE /\ secureContext' = [secureContext EXCEPT ![h] = "pending"]
         /\ certificate' = [certificate EXCEPT ![h] = "ipc"]

OnHttpConnect(c) ==
  /\ phase[c] = "new" /\ mitmProxy # "closed"
  /\ phase' = [phase EXCEPT ![c] = "awaiting"]
  /\ IsHttp2(c)
  /\ AddSecureContext(HostOf[c])
  /\ UNCHANGED <<helperVars, alpn, socketVars, waitForInit, pendingCert, mitmProxy>>

\* The serial queue of the origin: an entry that only peeks takes the protocol the
\* one before it found out, else asks for a socket at the end of the line.  (Of two
\* CONNECTs to a host none that asks can find a socket the other has freed.)
RunQueue(h) ==
  /\ queue[h] # <<>> /\ ~Active(h)
  /\ LET c == Head(queue[h]) IN
     IF lookup[c] = "queued" THEN Enters(c, "dns") /\ queue' = [queue EXCEPT ![h] = Tail(@)]
     ELSE IF alpn[h] # "none" THEN Enters(c, "done") /\ queue' = [queue EXCEPT ![h] = Tail(@)]
     ELSE Enters(c, "queued") /\ queue' = [queue EXCEPT ![h] = Append(Tail(@), c)]
  /\ UNCHANGED <<helperVars, phase, alpn, socketVars, certVars, mitmProxy>>

\* Promise.all: a failed certificate drops the CONNECT at once, unless it was
\* canceled or the proxy is closing, which addSecureContext swallows.
ConnectGoesOn(c) ==
  LET context == secureContext[HostOf[c]] IN
  /\ phase[c] = "awaiting"
  /\ \/ /\ context = "failed" /\ mitmProxy # "closed"
        /\ phase' = [phase EXCEPT ![c] = "dropped"]
     \/ /\ lookup[c] \in {"done", "failed"} /\ context \notin {"none", "pending"}
        /\ context = "failed" => mitmProxy = "closed"
        /\ phase' = [phase EXCEPT ![c] = IF mitmProxy = "closed" THEN "dropped" ELSE "tunnel"]
  /\ UNCHANGED <<helperVars, lookupVars, socketVars, certVars, mitmProxy>>

-----------------------------------------------------------------------------
(* MitmSocket *)

\* createSocketConnection has its address, and the local server is not listening yet.
DnsAnswers(c) ==
  /\ lookup[c] = "dns"
  /\ Enters(c, "listening")
  /\ UNCHANGED <<helperVars, phase, queue, alpn, socketVars, certVars, mitmProxy>>

\* connect after its first await: the timer starts and requestSocket lists the socket.
StartConnect(c) ==
  /\ lookup[c] = "listening"
  /\ Enters(c, "connecting")
  /\ connectPromise' = [connectPromise EXCEPT ![c] = "pending"]
  /\ socketsById' = socketsById \cup {c}
  /\ request' = [request EXCEPT ![c] = "ipc"]
  /\ UNCHANGED <<helperVars, phase, queue, alpn, socketReady, told, closed, remote, certVars, mitmProxy>>

\* The message is written, or the write fails, which requestSocket only logs.
SendRequest(c) ==
  /\ request[c] = "ipc" /\ waitForConnect["proxy"] = "resolved"
  /\ request' = [request EXCEPT ![c] = "done"]
  /\ remote' = IF child["proxy"] = "alive" /\ "proxy" \notin isExited
                 THEN [remote EXCEPT ![c] = "asked"] ELSE remote
  /\ UNCHANGED <<helperVars, phase, lookupVars, connectPromise, socketReady, told, closed,
                 socketsById, certVars, mitmProxy>>

Rejected(s) == [c \in Connect |-> IF c \in s /\ connectPromise[c] = "pending"
                                    THEN "rejected" ELSE connectPromise[c]]

\* MitmSocket.close: a promise that pends is rejected; the session forgets the socket.
Close(c) ==
  /\ connectPromise' = Rejected({c})
  /\ closed' = closed \cup {c}
  /\ socketsById' = socketsById \ {c}

AwaitedTheSocket(c) == connectPromise[c] # "rejected" /\ c \in socketReady
Awaited(c) == connectPromise[c] = "resolved" /\ c \in socketReady

\* Promise.all of connect; the pool then remembers what protocol the socket says it
\* has, which is http/1.1 until the process says otherwise.
ConnectReturns(c) ==
  /\ lookup[c] = "connecting"
  /\ \/ connectPromise[c] = "rejected" /\ Enters(c, "failed") /\ UNCHANGED alpn
     \/ /\ Awaited(c) /\ request[c] = "done"
        /\ Enters(c, "done")
        /\ alpn' = [alpn EXCEPT ![HostOf[c]] = IF c \in told THEN "server" ELSE "default"]
  /\ UNCHANGED <<helperVars, phase, queue, socketVars, certVars, mitmProxy>>

\* The process has connected to the local server of the socket.
OnConnected(c) ==
  /\ remote[c] = "asked" /\ child["proxy"] = "alive" /\ c \notin closed
  /\ remote' = [remote EXCEPT ![c] = "dialed"]
  /\ socketReady' = socketReady \cup {c}
  /\ UNCHANGED <<helperVars, phase, lookupVars, request, connectPromise, told, closed,
                 socketsById, certVars, mitmProxy>>

\* "connected", which finds the socket only while it is listed.
OnConnectedMessage(c) ==
  /\ remote[c] = "dialed" /\ child["proxy"] = "alive"
  /\ remote' = [remote EXCEPT ![c] = "piping"]
  /\ IF c \in socketsById
       THEN /\ told' = told \cup {c}
            /\ connectPromise' = [connectPromise EXCEPT ![c] = IF @ = "pending" THEN "resolved" ELSE @]
       ELSE UNCHANGED <<told, connectPromise>>
  /\ UNCHANGED <<helperVars, phase, lookupVars, request, socketReady, closed, socketsById,
                 certVars, mitmProxy>>

\* "error", "closing", or the end of the local connection: the socket is closed.
RemoteEnds(c) ==
  /\ \/ /\ child["proxy"] = "alive" /\ remote[c] \in {"asked", "dialed"}
        /\ "remoteFails" \in Environment
     \/ /\ child["proxy"] = "alive" /\ remote[c] \in {"dialed", "piping"}
        /\ "remoteCloses" \in Environment
     \/ child["proxy"] = "dead" /\ c \in socketReady
  /\ c \in socketsById
  /\ remote' = [remote EXCEPT ![c] = "over"]
  /\ Close(c)
  /\ UNCHANGED <<helperVars, phase, lookupVars, request, socketReady, told, certVars, mitmProxy>>

NoConnectTimerOf(c) == connectPromise[c] = "pending" /\ remote[c] = "none"
ConnectTimerOf(c) == connectPromise[c] = "pending"

\* The Resolvable of connect rejects by itself; nobody closes the socket.
ConnectTimer(c) ==
  /\ ConnectTimerOf(c)
  /\ connectPromise' = Rejected({c})
  /\ UNCHANGED <<helperVars, phase, lookupVars, request, socketReady, told, closed, socketsById,
                 remote, certVars, mitmProxy>>

-----------------------------------------------------------------------------
(* CertificateGenerator *)

\* getCertificate after waitForConnected: the promise with its timer is made, and
\* the init message awaited.
AwaitInit(h) ==
  /\ certificate[h] = "ipc" /\ waitForConnect["certs"] # "pending"
  /\ IF waitForConnect["certs"] = "resolved"
       THEN /\ certificate' = [certificate EXCEPT ![h] = "init"]
            /\ pendingCert' = [pendingCert EXCEPT ![h] = "pending"]
            /\ UNCHANGED secureContext
       ELSE /\ certificate' = [certificate EXCEPT ![h] = "over"]
            /\ secureContext' = [secureContext EXCEPT ![h] = "canceled"]
            /\ UNCHANGED pendingCert
  /\ UNCHANGED <<helperVars, phase, lookupVars, socketVars, waitForInit, mitmProxy>>

GenerateCerts(h) ==
  /\ certificate[h] = "init" /\ waitForInit = "resolved"
  /\ certificate' = [certificate EXCEPT ![h] = "writing"]
  /\ UNCHANGED <<helperVars, phase, lookupVars, socketVars, waitForInit, pendingCert,
                 secureContext, mitmProxy>>

\* The write ends.  It may fail once the process is gone; what is thrown then is an
\* error, not a cancellation, also while the generator closes.
MessageWritten(h) ==
  /\ certificate[h] = "writing"
  /\ \/ certificate' = [certificate EXCEPT ![h] = "written"] /\ UNCHANGED secureContext
     \/ /\ child["certs"] = "dead" \/ "certs" \in isExited
        /\ certificate' = [certificate EXCEPT ![h] = "over"]
        /\ secureContext' = [secureContext EXCEPT ![h] = "failed"]
  /\ UNCHANGED <<helperVars, phase, lookupVars, socketVars, waitForInit, pendingCert, mitmProxy>>

\* The await of the promise, and addContext.
CertificateReturns(h) ==
  /\ certificate[h] = "written" /\ pendingCert[h] # "pending"
  /\ certificate' = [certificate EXCEPT ![h] = "over"]
  /\ secureContext' = [secureContext EXCEPT ![h] =
       CASE pendingCert[h] = "resolved" -> "added"
         [] pendingCert[h] = "canceled" -> "canceled"
         [] OTHER -> "failed"]
  /\ UNCHANGED <<helperVars, phase, lookupVars, socketVars, waitForInit, pendingCert, mitmProxy>>

\* The process answers with a certificate or an error, or the timer of 10 s fires,
\* which it also does while the init message is awaited.
CertificateSettles(h) ==
  /\ pendingCert[h] = "pending"
  /\ \E to \in {"resolved", "rejected"} :
       /\ to = "resolved" =>
            /\ certificate[h] \in {"writing", "written"}
            /\ child["certs"] = "alive" /\ "certs" \notin isClosing
       /\ pendingCert' = [pendingCert EXCEPT ![h] = to]
  /\ UNCHANGED <<helperVars, phase, lookupVars, socketVars, waitForInit, certificate,
                 secureContext, mitmProxy>>

OnInitMessage ==
  /\ child["certs"] = "alive" /\ waitForConnect["certs"] = "resolved"
  /\ "certs" \notin isClosing /\ waitForInit = "pending"
  /\ waitForInit' = "resolved"
  /\ UNCHANGED <<helperVars, phase, lookupVars, socketVars, certificate, pendingCert,
                 secureContext, mitmProxy>>

-----------------------------------------------------------------------------
(* BaseIpcHandler *)

\* The process runs, or cannot be started: that is an error event, which onError only
\* logs, and no exit.
SpawnChild(p) ==
  /\ child[p] = "unborn" /\ p \notin isClosing
  /\ \E to \in {"alive", "failed"} :
       /\ to = "failed" => "spawnFails" \in Environment
       /\ child' = [child EXCEPT ![p] = to]
  /\ UNCHANGED <<waitForConnect, isExited, isClosing, phase, lookupVars, socketVars, certVars, mitmProxy>>

OnIpcConnection(p) ==
  /\ child[p] = "alive" /\ waitForConnect[p] = "pending" /\ p \notin isExited
  /\ waitForConnect' = [waitForConnect EXCEPT ![p] = "resolved"]
  /\ UNCHANGED <<child, isExited, isClosing, phase, lookupVars, socketVars, certVars, mitmProxy>>

Dies(p) ==
  /\ (p = "proxy" /\ "proxyDies" \in Environment) \/ (p = "certs" /\ "certsDie" \in Environment)
  /\ child[p] = "alive"
  /\ child' = [child EXCEPT ![p] = "dead"]
  /\ UNCHANGED <<waitForConnect, isExited, isClosing, phase, lookupVars, socketVars, certVars, mitmProxy>>

ForgetListedSockets == socketsById' = {} /\ UNCHANGED <<connectPromise, closed>>

\* MitmSocketSession.beforeExit: an exit is no error for a socket that is still
\* connecting, its promise is resolved before it is closed.
CloseListedSockets ==
  /\ connectPromise' = [c \in Connect |->
       IF c \in socketsById /\ connectPromise[c] = "pending" THEN "resolved" ELSE connectPromise[c]]
  /\ closed' = closed \cup socketsById
  /\ socketsById' = {}

\* CertificateGenerator.beforeExit.  waitForInit is rejected only if somebody has
\* got past it, and then it is resolved: that is never.
CancelCertificates ==
  pendingCert' = [h \in Host |-> IF pendingCert[h] = "pending" THEN "canceled" ELSE pendingCert[h]]

BeforeExit(p) ==
  IF p = "proxy" THEN CloseListedSockets /\ UNCHANGED pendingCert
  ELSE CancelCertificates /\ UNCHANGED <<connectPromise, closed, socketsById>>

OnExit(p) ==
  /\ child[p] = "dead" /\ p \notin isExited
  /\ isExited' = isExited \cup {p}
  /\ BeforeExit(p)
  /\ UNCHANGED <<child, waitForConnect, isClosing, phase, lookupVars, request, socketReady, told,
                 remote, waitForInit, certificate, secureContext, mitmProxy>>

\* close: the child is killed, the exit is not waited for, and who waits for a
\* process that has not connected is told.  The generator cancels once more what
\* was asked of it after an earlier exit.
CloseHandler(p) ==
  /\ p \notin isClosing
  /\ isClosing' = isClosing \cup {p}
  /\ child' = [child EXCEPT ![p] = IF @ = "alive" THEN "dead" ELSE @]
  /\ isExited' = isExited \cup {p}
  /\ IF p \notin isExited THEN BeforeExit(p)
     ELSE /\ IF p = "certs" THEN CancelCertificates ELSE UNCHANGED pendingCert
          /\ UNCHANGED <<connectPromise, closed, socketsById>>
  /\ waitForConnect' = [waitForConnect EXCEPT ![p] = IF @ = "pending" THEN "rejected" ELSE @]

\* RequestSession.close: the process of the session and its socket pools, whose
\* queues cancel everything.
SessionCloses ==
  /\ "sessionClose" \in Environment
  /\ CloseHandler("proxy")
  /\ mitmProxy' = "closing"
  /\ lookup' = [c \in Connect |-> IF lookup[c] \in {"none", "done", "failed"} THEN lookup[c] ELSE "failed"]
  /\ queue' = [h \in Host |-> <<>>]
  /\ UNCHANGED <<phase, alpn, request, socketReady, told, remote, waitForInit, certificate, secureContext>>

\* The close event of the session, emitted by setImmediate.
ProxyCloses ==
  /\ mitmProxy = "closing"
  /\ mitmProxy' = "closed"
  /\ UNCHANGED <<helperVars, phase, lookupVars, socketVars, certVars>>

\* Pool.close closes the generator, whatever its agents are doing.
PoolCloses ==
  /\ "poolClose" \in Environment
  /\ CloseHandler("certs")
  /\ UNCHANGED <<phase, lookupVars, request, socketReady, told, remote, waitForInit, certificate,
                 secureContext, mitmProxy>>

-----------------------------------------------------------------------------
GoesOn == \/ \E c \in Connect : SendRequest(c) \/ ConnectReturns(c) \/ ConnectGoesOn(c)
          \/ \E h \in Host : RunQueue(h) \/ AwaitInit(h) \/ GenerateCerts(h) \/ CertificateReturns(h)

\* No promise that somebody awaits is settled.
Idle ==
  /\ \A c \in Connect :
       /\ ~(request[c] = "ipc" /\ waitForConnect["proxy"] = "resolved")
       /\ ~(lookup[c] = "connecting" /\ (connectPromise[c] = "rejected" \/ (Awaited(c) /\ request[c] = "done")))
       /\ phase[c] = "awaiting" =>
            /\ lookup[c] \in {"done", "failed"} => secureContext[HostOf[c]] = "pending"
            /\ secureContext[HostOf[c]] = "failed" => mitmProxy = "closed"
  /\ \A h \in Host :
       /\ queue[h] = <<>> \/ Active(h)
       /\ ~(certificate[h] = "ipc" /\ waitForConnect["certs"] # "pending")
       /\ ~(certificate[h] = "init" /\ waitForInit = "resolved")
       /\ ~(certificate[h] = "written" /\ pendingCert[h] # "pending")

\* What the event loop brings sooner or later: timers, the start and the exit of a
\* process, the end of a write.  A process need not answer.
Events == \/ \E c \in Connect : DnsAnswers(c) \/ StartConnect(c) \/ ConnectTimer(c)
          \/ \E h \in Host : MessageWritten(h) \/ CertificateSettles(h)
          \/ \E p \in Handler : SpawnChild(p) \/ OnIpcConnection(p) \/ OnExit(p)
          \/ OnInitMessage \/ ProxyCloses

Chance == \/ \E c \in Connect : OnHttpConnect(c) \/ OnConnected(c) \/ OnConnectedMessage(c) \/ RemoteEnds(c)
          \/ \E p \in Handler : Dies(p)
          \/ SessionCloses \/ PoolCloses

Next == (GoesOn \/ (Idle /\ (Events \/ Chance))) /\ UNCHANGED scenario

Spec == Init /\ [][Next]_vars
FairSpec == Spec /\ WF_systemVars(GoesOn) /\ WF_systemVars(Idle /\ Events)

-----------------------------------------------------------------------------
(* Properties *)

\* The promises nothing settles: of a socket that an exit resolved and closed before
\* its local connection came, and of a certificate that awaits a connection or a
\* message of a process that has exited or could not be started.
LeftUnsettled(h) ==
  \/ \E c \in Connect : /\ HostOf[c] = h /\ lookup[c] = "connecting" /\ c \in closed
                        /\ connectPromise[c] = "resolved" /\ ~(c \in socketReady /\ request[c] = "done")
  \/ /\ certificate[h] = "ipc" /\ waitForConnect["certs"] = "pending"
     /\ "certs" \in isExited \/ child["certs"] = "failed"
  \/ certificate[h] = "init" /\ "certs" \in isExited /\ waitForInit = "pending"

\* A CONNECT ends: whatever the two processes and the server do or fail to do, it gets
\* its tunnel or is given up, unless an exit, or a start that failed, came before what
\* connect or the generator awaits without a timer.
ConnectsEnd ==
  \A c \in Connect :
    phase[c] = "awaiting" ~> phase[c] # "awaiting" \/ LeftUnsettled(HostOf[c])

\* The protocol a pool remembers for an origin, which decides how every later CONNECT
\* and request is served, was told by the connector: through errors, timeouts and closes
\* the default of a socket is never taken for it, unless the connector has exited.
AlpnIsTheServers ==
  \A h \in Host : alpn[h] = "default" => "proxy" \in isExited

\* An exit reaches the sockets it concerns in whatever step of connect they are: none
\* that was asked of the dead process stays open, none that is closed stays listed.
SocketsEndWithTheirConnector ==
  /\ socketsById \cap closed = {}
  /\ "proxy" \in isExited => \A c \in Connect : remote[c] # "none" => c \in closed
=============================================================================
