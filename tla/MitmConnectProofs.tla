-------------------------- MODULE MitmConnectProofs --------------------------
(***************************************************************************)
(* Proofs about MitmConnect, for any CONNECTs, hosts and scenarios: the    *)
(* protocol a pool remembers is the server's, and the sockets of a process *)
(* end with it.                                                            *)
(***************************************************************************)
EXTENDS MitmConnect, FiniteSets, SequencesExt, SequenceTheorems, TLAPS

\* Sequences without repetition: the queues and the ordered sets, and what becomes of
\* their members.
Distinct(q) == \A i, j \in 1..Len(q) : q[i] = q[j] => i = j

\* Appending an element to a sequence adds it to the members.
LEMMA AppendMembers ==
  ASSUME NEW S, NEW q \in Seq(S), NEW e \in S
  PROVE  /\ Append(q, e) \in Seq(S)
         /\ \A x : Contains(Append(q, e), x) <=> Contains(q, x) \/ x = e
         /\ Distinct(q) /\ ~Contains(q, e) => Distinct(Append(q, e))
  <1> DEFINE a == Append(q, e)
  <1>1. /\ Len(q) \in Nat /\ Len(a) = Len(q) + 1
        /\ a \in Seq(S) /\ a[Len(q) + 1] = e
        /\ \A i \in 1..Len(q) : a[i] = q[i]
    BY AppendProperties, LenProperties
  <1> HIDE DEF a
  <1>2. \A x : Contains(a, x) <=> Contains(q, x) \/ x = e
    BY <1>1 DEF Contains
  <1>3. ASSUME Distinct(q), ~Contains(q, e) PROVE Distinct(a)
    BY <1>1, <1>3 DEF Contains, Distinct
  <1> QED BY <1>1, <1>2, <1>3 DEF a

\* The head of a sequence without repetition is not in its tail.
LEMMA TailMembers ==
  ASSUME NEW S, NEW q \in Seq(S), q # <<>>
  PROVE  /\ Head(q) \in S /\ Contains(q, Head(q)) /\ Tail(q) \in Seq(S)
         /\ Distinct(q) => /\ Distinct(Tail(q))
                           /\ \A x : Contains(Tail(q), x) <=> Contains(q, x) /\ x # Head(q)
  <1>1. /\ Head(q) \in S /\ Tail(q) \in Seq(S) /\ Len(Tail(q)) = Len(q) - 1
        /\ \A i \in 1..Len(Tail(q)) : Tail(q)[i] = q[i + 1]
        /\ Len(q) \in Nat \ {0} /\ Head(q) = q[1]
    BY HeadTailProperties, EmptySeq
  <1>2. Contains(q, Head(q))
    BY <1>1 DEF Contains
  <1>3. ASSUME Distinct(q) PROVE Distinct(Tail(q))
    <2> SUFFICES ASSUME NEW i \in 1..Len(Tail(q)), NEW j \in 1..Len(Tail(q)), Tail(q)[i] = Tail(q)[j]
                 PROVE  i = j
      BY DEF Distinct
    <2>1. i + 1 \in 1..Len(q) /\ j + 1 \in 1..Len(q) /\ q[i + 1] = q[j + 1]
      BY <1>1
    <2> QED BY <1>3, <2>1 DEF Distinct
  <1>4. ASSUME Distinct(q), NEW x PROVE Contains(Tail(q), x) <=> Contains(q, x) /\ x # Head(q)
    <2>1. ASSUME Contains(Tail(q), x) PROVE Contains(q, x) /\ x # Head(q)
      <3>1. PICK i \in 1..Len(Tail(q)) : Tail(q)[i] = x
        BY <2>1 DEF Contains
      <3>2. i + 1 \in 1..Len(q) /\ q[i + 1] = x /\ 1 \in 1..Len(q) /\ i + 1 # 1
        BY <1>1, <3>1
      <3> QED BY <1>1, <1>4, <3>2 DEF Contains, Distinct
    <2>2. ASSUME Contains(q, x), x # Head(q) PROVE Contains(Tail(q), x)
      <3>1. PICK i \in 1..Len(q) : q[i] = x
        BY <2>2 DEF Contains
      <3>2. i - 1 \in 1..Len(Tail(q)) /\ Tail(q)[i - 1] = x
        BY <1>1, <2>2, <3>1
      <3> QED BY <3>2 DEF Contains
    <2> QED BY <2>1, <2>2
  <1> QED BY <1>1, <1>2, <1>3, <1>4

\* The empty sequence has no members.
LEMMA EmptyMembers ==
  ASSUME NEW S
  PROVE  <<>> \in Seq(S) /\ Distinct(<<>>) /\ \A x : ~Contains(<<>>, x)
  BY EmptySeq DEF Distinct, Contains
-----------------------------------------------------------------------------

\* Where the lookups of a host stand.
Asking == {"dns", "listening", "connecting"}

QueuesOk ==
  /\ queue \in [Host -> Seq(Connect)]
  /\ \A h \in Host : /\ Distinct(queue[h])
                     /\ \A c \in Connect : Contains(queue[h], c) =>
                          HostOf[c] = h /\ lookup[c] \in {"peeking", "queued"}
  /\ \A c, d \in Connect :
       HostOf[c] = HostOf[d] /\ lookup[c] \in Asking /\ lookup[d] \in Asking => c = d

\* A socket is requested, listed and known to the process in this order.
SocketsOk ==
  /\ \A c \in Connect :
       /\ phase[c] = "new" => lookup[c] = "none"
       /\ lookup[c] \in {"none", "peeking", "queued", "dns", "listening"} => request[c] = "none"
       /\ request[c] = "none" <=> c \notin socketsById \cup closed
       /\ remote[c] # "none" => request[c] # "none"

\* A promise is resolved by the word of the process or by its exit.
PromisesOk ==
  \A c \in Connect : connectPromise[c] = "resolved" => c \in told \/ "proxy" \in isExited

\* The promise of a secure context pends while its certificate is being made.
ContextsOk ==
  \A h \in Host : secureContext[h] = "pending" <=> certificate[h] \in {"ipc", "init", "writing", "written"}

IInv == /\ TypeOK /\ scenario \in Scenarios
        /\ QueuesOk /\ SocketsOk /\ PromisesOk /\ ContextsOk
        /\ AlpnIsTheServers /\ SocketsEndWithTheirConnector

-----------------------------------------------------------------------------
\* Creating the proxy establishes the inductive invariant.
LEMMA InitIInv == Init => IInv
  <1> SUFFICES ASSUME Init PROVE IInv
    OBVIOUS
  <1>1. /\ queue \in [Host -> Seq(Connect)]
        /\ \A h \in Host : queue[h] = <<>> /\ queue[h] \in Seq({c \in Connect : HostOf[c] = h})
    BY EmptySeq DEF Init
  <1>2. TypeOK
    <2>1. /\ child \in [Handler -> {"unborn", "alive", "failed", "dead"}]
          /\ waitForConnect \in [Handler -> Promise \ {"none"}]
          /\ isExited \subseteq Handler /\ isClosing \subseteq Handler
          /\ waitForInit \in {"pending", "resolved"} /\ mitmProxy \in {"open", "closing", "closed"}
      BY DEF Init, Promise
    <2>2. /\ phase \in [Connect -> {"new", "awaiting", "tunnel", "dropped"}]
          /\ lookup \in [Connect -> {"none", "peeking", "queued", "dns", "listening", "connecting",
                                     "done", "failed"}]
          /\ request \in [Connect -> {"none", "ipc", "done"}]
          /\ connectPromise \in [Connect -> Promise]
          /\ remote \in [Connect -> {"none", "asked", "dialed", "piping", "over"}]
      BY DEF Init, Promise
    <2>3. /\ alpn \in [Host -> {"none", "default", "server"}]
          /\ certificate \in [Host -> {"none", "ipc", "init", "writing", "written", "over"}]
          /\ pendingCert \in [Host -> Promise \cup {"canceled"}]
          /\ secureContext \in [Host -> {"none", "pending", "added", "canceled", "failed"}]
      BY DEF Init, Promise
    <2>4. \A s \in {socketReady, told, closed, socketsById} : s \subseteq Connect
      BY DEF Init
    <2> QED BY <1>1, <2>1, <2>2, <2>3, <2>4 DEF TypeOK
  <1>3. QueuesOk
    <2>1. \A h \in Host : Distinct(queue[h]) /\ \A c \in Connect : ~Contains(queue[h], c)
      BY <1>1, EmptyMembers
    <2> QED BY <1>1, <2>1 DEF Init, QueuesOk, Asking
  <1>4. SocketsOk /\ PromisesOk /\ ContextsOk
    BY DEF Init, SocketsOk, PromisesOk, ContextsOk
  <1>5. AlpnIsTheServers /\ SocketsEndWithTheirConnector
    BY DEF Init, AlpnIsTheServers, SocketsEndWithTheirConnector
  <1> QED BY <1>2, <1>3, <1>4, <1>5 DEF IInv, Init

\* What a step leaves alone stays as the invariant wants it.
LEMMA Frame ==
  ASSUME IInv, scenario' = scenario
  PROVE  /\ UNCHANGED <<lookup, queue>> => QueuesOk'
         /\ UNCHANGED <<phase, lookup, request, socketsById, closed, remote>> => SocketsOk'
         /\ UNCHANGED connectPromise /\ told \subseteq told' /\ isExited \subseteq isExited' => PromisesOk'
         /\ UNCHANGED <<secureContext, certificate>> => ContextsOk'
         /\ UNCHANGED alpn /\ isExited \subseteq isExited' => AlpnIsTheServers'
         /\ UNCHANGED <<socketsById, closed, remote, isExited>> => SocketsEndWithTheirConnector'
  <1> USE DEF IInv
  <1>1. UNCHANGED <<lookup, queue>> => QueuesOk'
    BY DEF QueuesOk, HostOf
  <1>2. UNCHANGED <<phase, lookup, request, socketsById, closed, remote>> => SocketsOk'
    BY DEF SocketsOk
  <1>3. UNCHANGED connectPromise /\ told \subseteq told' /\ isExited \subseteq isExited' => PromisesOk'
    BY DEF PromisesOk
  <1>4. UNCHANGED <<secureContext, certificate>> => ContextsOk'
    BY DEF ContextsOk
  <1>5. UNCHANGED alpn /\ isExited \subseteq isExited' => AlpnIsTheServers'
    BY DEF AlpnIsTheServers
  <1>6. UNCHANGED <<socketsById, closed, remote, isExited>> => SocketsEndWithTheirConnector'
    BY DEF SocketsEndWithTheirConnector
  <1> QED BY <1>1, <1>2, <1>3, <1>4, <1>5, <1>6

\* The same for the types, in groups of variables.
HelperTypes ==
  /\ child \in [Handler -> {"unborn", "alive", "failed", "dead"}]
  /\ waitForConnect \in [Handler -> Promise \ {"none"}]
  /\ isExited \subseteq Handler /\ isClosing \subseteq Handler
  /\ waitForInit \in {"pending", "resolved"} /\ mitmProxy \in {"open", "closing", "closed"}

LookupTypes ==
  /\ lookup \in [Connect -> {"none", "peeking", "queued", "dns", "listening", "connecting",
                             "done", "failed"}]
  /\ \A h \in Host : queue[h] \in Seq({c \in Connect : HostOf[c] = h})
  /\ alpn \in [Host -> {"none", "default", "server"}]

SocketTypes ==
  /\ phase \in [Connect -> {"new", "awaiting", "tunnel", "dropped"}]
  /\ request \in [Connect -> {"none", "ipc", "done"}]
  /\ connectPromise \in [Connect -> Promise]
  /\ socketReady \subseteq Connect /\ told \subseteq Connect
  /\ closed \subseteq Connect /\ socketsById \subseteq Connect
  /\ remote \in [Connect -> {"none", "asked", "dialed", "piping", "over"}]

CertTypes ==
  /\ certificate \in [Host -> {"none", "ipc", "init", "writing", "written", "over"}]
  /\ pendingCert \in [Host -> Promise \cup {"canceled"}]
  /\ secureContext \in [Host -> {"none", "pending", "added", "canceled", "failed"}]

\* The four groups are what TypeOK says.
LEMMA Types ==
  /\ TypeOK <=> HelperTypes /\ LookupTypes /\ SocketTypes /\ CertTypes
  /\ TypeOK' <=> HelperTypes' /\ LookupTypes' /\ SocketTypes' /\ CertTypes'
  <1>1. /\ (\A s \in {socketReady, told, closed, socketsById} : s \subseteq Connect) <=>
             /\ socketReady \subseteq Connect /\ told \subseteq Connect
             /\ closed \subseteq Connect /\ socketsById \subseteq Connect
        /\ (\A s \in {socketReady', told', closed', socketsById'} : s \subseteq Connect) <=>
             /\ socketReady' \subseteq Connect /\ told' \subseteq Connect
             /\ closed' \subseteq Connect /\ socketsById' \subseteq Connect
    OBVIOUS
  <1>2. TypeOK <=> HelperTypes /\ LookupTypes /\ SocketTypes /\ CertTypes
    BY <1>1, Zenon DEF TypeOK, HelperTypes, LookupTypes, SocketTypes, CertTypes
  <1>3. TypeOK' <=> HelperTypes' /\ LookupTypes' /\ SocketTypes' /\ CertTypes'
    BY <1>1, Zenon DEF TypeOK, HelperTypes, LookupTypes, SocketTypes, CertTypes
  <1> QED BY <1>2, <1>3

\* Variables that stay keep their types.
LEMMA TypeFrame ==
  ASSUME TypeOK, scenario' = scenario
  PROVE  /\ UNCHANGED <<helperVars, waitForInit, mitmProxy>> => HelperTypes'
         /\ UNCHANGED lookupVars => LookupTypes'
         /\ UNCHANGED <<phase, socketVars>> => SocketTypes'
         /\ UNCHANGED <<certificate, pendingCert, secureContext>> => CertTypes'
  <1>1. UNCHANGED <<helperVars, waitForInit, mitmProxy>> => HelperTypes'
    BY Types DEF HelperTypes, helperVars
  <1>2. UNCHANGED lookupVars => LookupTypes'
    BY Types DEF LookupTypes, lookupVars, HostOf
  <1>3. UNCHANGED <<phase, socketVars>> => SocketTypes'
    BY Types DEF SocketTypes, socketVars
  <1>4. UNCHANGED <<certificate, pendingCert, secureContext>> => CertTypes'
    BY Types DEF CertTypes
  <1> QED BY <1>1, <1>2, <1>3, <1>4

\* The certificates: only the secure context of the host and what is done for it change.
LEMMA CertificateSteps ==
  ASSUME IInv, scenario' = scenario,
         \/ \E h \in Host : \/ AwaitInit(h) \/ GenerateCerts(h) \/ MessageWritten(h)
                            \/ CertificateReturns(h) \/ CertificateSettles(h)
         \/ OnInitMessage \/ ProxyCloses
  PROVE  IInv'
  <1> USE DEF IInv
  <1>1. /\ UNCHANGED <<helperVars, phase, lookupVars, socketVars>>
        /\ UNCHANGED mitmProxy \/ mitmProxy' = "closed"
        /\ UNCHANGED waitForInit \/ waitForInit' = "resolved"
    BY DEF AwaitInit, GenerateCerts, MessageWritten, CertificateReturns, CertificateSettles,
           OnInitMessage, ProxyCloses, certVars
  <1>2. /\ QueuesOk' /\ SocketsOk' /\ PromisesOk' /\ AlpnIsTheServers' /\ SocketsEndWithTheirConnector'
        /\ LookupTypes' /\ SocketTypes'
    BY <1>1, Frame, TypeFrame DEF helperVars, lookupVars, socketVars
  <1>3. HelperTypes'
    BY <1>1, Types DEF HelperTypes, helperVars
  <1>4. CertTypes /\ HelperTypes
    BY Types
  <1>5. CertTypes' /\ ContextsOk'
    <2>1. ASSUME NEW h \in Host, AwaitInit(h) PROVE CertTypes' /\ ContextsOk'
      BY <1>4, <2>1 DEF AwaitInit, CertTypes, ContextsOk, Promise
    <2>2. ASSUME NEW h \in Host, GenerateCerts(h) PROVE CertTypes' /\ ContextsOk'
      BY <1>4, <2>2 DEF GenerateCerts, CertTypes, ContextsOk, Promise
    <2>3. ASSUME NEW h \in Host, MessageWritten(h) PROVE CertTypes' /\ ContextsOk'
      BY <1>4, <2>3 DEF MessageWritten, CertTypes, ContextsOk, Promise
    <2>4. ASSUME NEW h \in Host, CertificateReturns(h) PROVE CertTypes' /\ ContextsOk'
      BY <1>4, <2>4 DEF CertificateReturns, CertTypes, ContextsOk, Promise
    <2>5. ASSUME NEW h \in Host, CertificateSettles(h) PROVE CertTypes' /\ ContextsOk'
      BY <1>4, <2>5 DEF CertificateSettles, CertTypes, ContextsOk, Promise
    <2>6. CASE OnInitMessage \/ ProxyCloses
      BY <1>4, <2>6 DEF OnInitMessage, ProxyCloses, CertTypes, ContextsOk, certVars
    <2> QED BY <2>1, <2>2, <2>3, <2>4, <2>5, <2>6
  <1> QED BY <1>2, <1>3, <1>5, Types

\* What the scenario says of a CONNECT.
LEMMA HostOk ==
  ASSUME scenario \in Scenarios
  PROVE  \A c \in Connect : HostOf[c] \in Host
  BY ConnectAssumption DEF ConnectAssumption, HostOf

\* A new CONNECT asks for the protocol and for a certificate.
LEMMA ConnectStarts ==
  ASSUME IInv, scenario' = scenario, NEW c \in Connect, OnHttpConnect(c)
  PROVE  IInv'
  <1> USE DEF IInv
  <1>1. PICK h \in Host : h = HostOf[c]
    BY HostOk
  <1>2. /\ phase[c] = "new" /\ phase' = [phase EXCEPT ![c] = "awaiting"]
        /\ IsHttp2(c) /\ AddSecureContext(h)
        /\ UNCHANGED <<helperVars, alpn, socketVars, waitForInit, pendingCert, mitmProxy>>
    BY <1>1 DEF OnHttpConnect
  <1>3. PICK p \in {"failed", "done", "peeking", "queued"} :
          /\ lookup' = [lookup EXCEPT ![c] = p]
          /\ \/ p \in {"peeking", "queued"} /\ queue' = [queue EXCEPT ![h] = Append(@, c)]
             \/ p \in {"failed", "done"} /\ UNCHANGED queue
    <2>1. lookup \in [Connect -> {"none", "peeking", "queued", "dns", "listening", "connecting", "done", "failed"}]
      BY DEF TypeOK
    <2> QED BY <1>1, <1>2, <2>1 DEF IsHttp2, Enters
  <1>4. /\ HelperTypes' /\ HelperTypes /\ LookupTypes /\ SocketTypes /\ CertTypes
        /\ PromisesOk' /\ AlpnIsTheServers' /\ SocketsEndWithTheirConnector'
    BY <1>2, Frame, Types, TypeFrame DEF helperVars, socketVars
  <1>5. lookup[c] = "none" /\ HostOf'[c] = h /\ \A d \in Connect : HostOf'[d] = HostOf[d]
    BY <1>1, <1>2 DEF SocketsOk, HostOf
  <1>6. \A d \in Connect : lookup'[d] = IF d = c THEN p ELSE lookup[d]
    BY <1>3, <1>4 DEF LookupTypes
  <1>7. queue[h] \in Seq({d \in Connect : HostOf[d] = h}) /\ queue[h] \in Seq(Connect) /\ Distinct(queue[h])
        /\ ~Contains(queue[h], c)
    BY <1>5 DEF QueuesOk, TypeOK
  <1>8. /\ queue' \in [Host -> Seq(Connect)]
        /\ \A g \in Host : /\ queue'[g] \in Seq({d \in Connect : HostOf[d] = g})
                           /\ Distinct(queue'[g])
                           /\ \A d \in Connect : Contains(queue'[g], d) =>
                                Contains(queue[g], d) \/ (g = h /\ d = c /\ p \in {"peeking", "queued"})
    <2>1. queue \in [Host -> Seq(Connect)] /\ \A g \in Host : queue[g] \in Seq({d \in Connect : HostOf[d] = g})
                                           /\ Distinct(queue[g])
      BY DEF QueuesOk, TypeOK
    <2>2. CASE UNCHANGED queue
      BY <2>1, <2>2
    <2>3. CASE p \in {"peeking", "queued"} /\ queue' = [queue EXCEPT ![h] = Append(@, c)]
      <3>1. c \in {d \in Connect : HostOf[d] = h}
        BY <1>1
      <3>2. /\ Append(queue[h], c) \in Seq({d \in Connect : HostOf[d] = h})
            /\ Append(queue[h], c) \in Seq(Connect) /\ Distinct(Append(queue[h], c))
            /\ \A d : Contains(Append(queue[h], c), d) => Contains(queue[h], d) \/ d = c
        BY <1>7, <3>1, AppendMembers
      <3> QED BY <2>1, <2>3, <3>2
    <2> QED BY <1>3, <2>2, <2>3
  <1>9. QueuesOk'
    <2>1. ASSUME NEW g \in Host, NEW d \in Connect, Contains(queue'[g], d)
          PROVE  HostOf'[d] = g /\ lookup'[d] \in {"peeking", "queued"}
      <3>1. CASE Contains(queue[g], d)
        BY <1>5, <1>6, <3>1 DEF QueuesOk
      <3>2. CASE g = h /\ d = c /\ p \in {"peeking", "queued"}
        BY <1>5, <1>6, <3>2
      <3> QED BY <1>8, <2>1, <3>1, <3>2
    <2>2. \A d, e \in Connect : HostOf'[d] = HostOf'[e] /\ lookup'[d] \in Asking /\ lookup'[e] \in Asking => d = e
      BY <1>5, <1>6 DEF QueuesOk, Asking
    <2> QED BY <1>8, <2>1, <2>2 DEF QueuesOk
  <1>10. LookupTypes'
    BY <1>2, <1>3, <1>4, <1>5, <1>8 DEF LookupTypes, HostOf
  <1>11. SocketTypes'
    BY <1>2, <1>4 DEF SocketTypes, socketVars
  <1>12. SocketsOk'
    <2>1. request[c] = "none" /\ UNCHANGED <<request, socketsById, closed, remote>>
      BY <1>2, <1>5 DEF SocketsOk, socketVars
    <2>2. \A d \in Connect : phase'[d] = IF d = c THEN "awaiting" ELSE phase[d]
      BY <1>2, <1>4 DEF SocketTypes
    <2> QED BY <1>6, <2>1, <2>2 DEF SocketsOk
  <1>13. CertTypes' /\ ContextsOk'
    <2>1. \/ UNCHANGED <<certificate, secureContext>>
          \/ secureContext[h] = "none" /\ secureContext' = [secureContext EXCEPT ![h] = "added"] /\ UNCHANGED certificate
          \/ /\ secureContext' = [secureContext EXCEPT ![h] = "pending"]
             /\ certificate' = [certificate EXCEPT ![h] = "ipc"]
      BY <1>2 DEF AddSecureContext
    <2> QED BY <1>2, <1>4, <2>1 DEF CertTypes, ContextsOk
  <1> QED BY <1>4, <1>9, <1>10, <1>11, <1>12, <1>13, Types

\* The queue of an origin runs its next entry.
LEMMA QueueRuns ==
  ASSUME IInv, scenario' = scenario, NEW h \in Host, RunQueue(h)
  PROVE  IInv'
  <1> USE DEF IInv
  <1>1. /\ queue[h] \in Seq({d \in Connect : HostOf[d] = h}) /\ queue[h] # <<>> /\ Distinct(queue[h])
        /\ queue[h] \in Seq(Connect)
    BY DEF RunQueue, QueuesOk, TypeOK
  <1>2. PICK c \in Connect : c = Head(queue[h]) /\ HostOf[c] = h /\ Contains(queue[h], c)
    BY <1>1, TailMembers
  <1>3. /\ UNCHANGED <<helperVars, phase, alpn, socketVars, certVars, mitmProxy>> /\ ~Active(h)
    BY DEF RunQueue
  <1>4. PICK p \in {"dns", "done", "queued"}, q \in Seq({d \in Connect : HostOf[d] = h}) :
          /\ lookup' = [lookup EXCEPT ![c] = p] /\ queue' = [queue EXCEPT ![h] = q]
          /\ Distinct(q) /\ q \in Seq(Connect)
          /\ \A d : Contains(q, d) => Contains(queue[h], d) /\ (d = c => p = "queued")
    <2> DEFINE S == {d \in Connect : HostOf[d] = h}
               t == Tail(queue[h])
    <2>1. /\ t \in Seq(S) /\ t \in Seq(Connect) /\ Distinct(t)
          /\ \A d : Contains(t, d) <=> Contains(queue[h], d) /\ d # c
      BY <1>1, <1>2, TailMembers
    <2>2. /\ Append(t, c) \in Seq(S) /\ Append(t, c) \in Seq(Connect) /\ Distinct(Append(t, c))
          /\ \A d : Contains(Append(t, c), d) <=> Contains(t, d) \/ d = c
      BY <1>2, <2>1, AppendMembers
    <2>3. \/ lookup' = [lookup EXCEPT ![c] = "dns"] /\ queue' = [queue EXCEPT ![h] = t]
          \/ lookup' = [lookup EXCEPT ![c] = "done"] /\ queue' = [queue EXCEPT ![h] = t]
          \/ lookup' = [lookup EXCEPT ![c] = "queued"] /\ queue' = [queue EXCEPT ![h] = Append(t, c)]
      BY <1>2 DEF RunQueue, Enters
    <2> HIDE DEF t
    <2>4. CASE \/ lookup' = [lookup EXCEPT ![c] = "dns"] /\ queue' = [queue EXCEPT ![h] = t]
               \/ lookup' = [lookup EXCEPT ![c] = "done"] /\ queue' = [queue EXCEPT ![h] = t]
      BY <2>1, <2>4
    <2>5. CASE lookup' = [lookup EXCEPT ![c] = "queued"] /\ queue' = [queue EXCEPT ![h] = Append(t, c)]
      <3>1. \A d : Contains(Append(t, c), d) => Contains(queue[h], d)
        BY <1>2, <2>1, <2>2
      <3> QED BY <2>2, <2>5, <3>1
    <2> QED BY <2>3, <2>4, <2>5
  <1>5. /\ HelperTypes' /\ SocketTypes' /\ CertTypes' /\ LookupTypes /\ SocketTypes
        /\ PromisesOk' /\ AlpnIsTheServers' /\ SocketsEndWithTheirConnector' /\ ContextsOk'
    BY <1>3, Frame, Types, TypeFrame DEF helperVars, socketVars, certVars
  <1>6. /\ lookup[c] \in {"peeking", "queued"}
        /\ \A d \in Connect : HostOf'[d] = HostOf[d]
        /\ \A d \in Connect : lookup'[d] = IF d = c THEN p ELSE lookup[d]
        /\ \A g \in Host : queue'[g] = IF g = h THEN q ELSE queue[g]
        /\ queue' \in [Host -> Seq(Connect)]
    BY <1>2, <1>4, <1>5 DEF QueuesOk, HostOf, LookupTypes
  <1>7. QueuesOk'
    <2>1. ASSUME NEW g \in Host, NEW d \in Connect, Contains(queue'[g], d)
          PROVE  HostOf'[d] = g /\ lookup'[d] \in {"peeking", "queued"}
      <3>1. Contains(queue[g], d) /\ (g = h /\ d = c => p = "queued")
        BY <1>4, <1>6, <2>1
      <3> QED BY <1>2, <1>6, <3>1 DEF QueuesOk
    <2>2. \A d, e \in Connect : HostOf'[d] = HostOf'[e] /\ lookup'[d] \in Asking /\ lookup'[e] \in Asking => d = e
      <3>1. \A d \in Connect : HostOf[d] = h => lookup[d] \notin Asking
        BY <1>3 DEF Active, Asking
      <3>2. \A d, e \in Connect : HostOf[d] = HostOf[e] /\ lookup[d] \in Asking /\ lookup[e] \in Asking => d = e
        BY DEF QueuesOk
      <3>3. \A d \in Connect : HostOf'[d] = HostOf[d] /\ lookup'[d] = IF d = c THEN p ELSE lookup[d]
        BY <1>6
      <3> QED BY <1>2, <3>1, <3>2, <3>3
    <2>3. \A g \in Host : Distinct(queue'[g])
      BY <1>4, <1>6 DEF QueuesOk
    <2> QED BY <1>6, <2>1, <2>2, <2>3 DEF QueuesOk
  <1>8. LookupTypes'
    <2>1. \A g \in Host : queue'[g] \in Seq({d \in Connect : HostOf[d] = g})
      BY <1>5, <1>6 DEF LookupTypes
    <2> QED BY <1>3, <1>4, <1>5, <2>1 DEF LookupTypes, HostOf
  <1>9. SocketsOk'
    <2>1. request[c] = "none" /\ UNCHANGED <<phase, request, socketsById, closed, remote>> /\ phase[c] # "new"
      BY <1>3, <1>6 DEF SocketsOk, socketVars
    <2> QED BY <1>6, <2>1 DEF SocketsOk
  <1> QED BY <1>5, <1>7, <1>8, <1>9, Types

\* A CONNECT goes on, and the steps of the lookup before its socket is listed.
LEMMA LookupSteps ==
  ASSUME IInv, scenario' = scenario, NEW c \in Connect,
         \/ ConnectGoesOn(c) \/ DnsAnswers(c) \/ StartConnect(c) \/ ConnectReturns(c)
  PROVE  IInv'
  <1> USE DEF IInv
  <1>1. /\ UNCHANGED <<helperVars, queue, socketReady, told, closed, remote, certVars, mitmProxy>>
        /\ HelperTypes' /\ CertTypes' /\ LookupTypes /\ SocketTypes /\ ContextsOk'
        /\ HostOf' = HostOf
    <2>1. UNCHANGED <<helperVars, queue, socketReady, told, closed, remote, certVars, mitmProxy>>
      BY DEF ConnectGoesOn, DnsAnswers, StartConnect, ConnectReturns, lookupVars, socketVars
    <2> QED BY <2>1, Frame, Types, TypeFrame DEF certVars, HostOf
  <1>2. CASE ConnectGoesOn(c)
    <2>1. /\ UNCHANGED <<lookupVars, socketVars>> /\ phase[c] = "awaiting"
          /\ \E p \in {"dropped", "tunnel"} : phase' = [phase EXCEPT ![c] = p]
      BY <1>2 DEF ConnectGoesOn
    <2>2. SocketTypes' /\ SocketsOk'
      BY <1>1, <2>1 DEF SocketTypes, SocketsOk, lookupVars, socketVars
    <2> QED BY <1>1, <2>1, <2>2, Frame, Types, TypeFrame DEF lookupVars, socketVars, helperVars
  <1>3. CASE DnsAnswers(c) \/ StartConnect(c) \/ ConnectReturns(c)
    <2>1. PICK p \in {"listening", "connecting", "failed", "done"} :
            /\ lookup' = [lookup EXCEPT ![c] = p]
            /\ \/ lookup[c] = "dns" /\ p = "listening"
               \/ lookup[c] = "listening" /\ p = "connecting"
               \/ lookup[c] = "connecting" /\ p \in {"failed", "done"}
      BY <1>3 DEF DnsAnswers, StartConnect, ConnectReturns, Enters
    <2>2. \A d \in Connect : lookup'[d] = IF d = c THEN p ELSE lookup[d]
      BY <1>1, <2>1 DEF LookupTypes
    <2>3. QueuesOk'
      <3>1. \A h \in Host, d \in Connect : Contains(queue[h], d) => HostOf[d] = h /\ d # c /\ lookup[d] \in {"peeking", "queued"}
        BY <2>1 DEF QueuesOk
      <3>2. \A d \in Connect : lookup'[d] \in Asking => lookup[d] \in Asking
        BY <2>1, <2>2 DEF Asking
      <3> QED BY <1>1, <2>2, <3>1, <3>2 DEF QueuesOk
    <2>4. PromisesOk' /\ AlpnIsTheServers' /\ LookupTypes'
      <3>1. CASE DnsAnswers(c) \/ StartConnect(c)
        <4>1. UNCHANGED alpn /\ \A d \in Connect : connectPromise'[d] = "resolved" => connectPromise[d] = "resolved"
          BY <1>1, <3>1 DEF DnsAnswers, StartConnect, socketVars, SocketTypes
        <4> QED BY <1>1, <2>1, <4>1 DEF PromisesOk, AlpnIsTheServers, LookupTypes, helperVars
      <3>2. CASE ConnectReturns(c)
        <4>1. UNCHANGED connectPromise
          BY <3>2 DEF ConnectReturns, socketVars
        <4>2. HostOf[c] \in Host
          BY HostOk
        <4>3. \/ UNCHANGED alpn
              \/ /\ connectPromise[c] = "resolved"
                 /\ alpn' = [alpn EXCEPT ![HostOf[c]] = IF c \in told THEN "server" ELSE "default"]
          BY <3>2 DEF ConnectReturns, Awaited
        <4>4. PromisesOk'
          BY <1>1, <4>1 DEF PromisesOk, helperVars
        <4>5. AlpnIsTheServers' /\ LookupTypes'
          BY <1>1, <2>1, <4>2, <4>3 DEF AlpnIsTheServers, LookupTypes, PromisesOk, helperVars
        <4> QED BY <4>4, <4>5
      <3> QED BY <1>3, <3>1, <3>2
    <2>5. SocketTypes' /\ SocketsOk' /\ SocketsEndWithTheirConnector'
      <3>1. CASE StartConnect(c)
        <4>1. /\ request' = [request EXCEPT ![c] = "ipc"] /\ socketsById' = socketsById \cup {c}
              /\ connectPromise' = [connectPromise EXCEPT ![c] = "pending"] /\ UNCHANGED phase
              /\ p = "connecting" /\ lookup[c] = "listening"
          BY <2>1, <3>1 DEF StartConnect, Enters
        <4>2. c \notin closed /\ remote[c] = "none"
          BY <4>1 DEF SocketsOk
        <4>3. SocketTypes'
          BY <1>1, <4>1 DEF SocketTypes, Promise
        <4>4. SocketsOk'
          BY <1>1, <2>2, <4>1 DEF SocketsOk, SocketTypes
        <4>5. SocketsEndWithTheirConnector'
          BY <1>1, <4>1, <4>2 DEF SocketsEndWithTheirConnector, helperVars
        <4> QED BY <4>3, <4>4, <4>5
      <3>2. CASE DnsAnswers(c) \/ ConnectReturns(c)
        <4>1. UNCHANGED <<phase, socketVars>> /\ (p = "listening" <=> lookup[c] = "dns")
              /\ p # "connecting"
          BY <2>1, <3>2 DEF DnsAnswers, ConnectReturns
        <4>2. SocketsOk'
          BY <2>1, <2>2, <4>1 DEF SocketsOk, socketVars
        <4> QED BY <1>1, <4>1, <4>2, Frame, TypeFrame DEF socketVars, helperVars
      <3> QED BY <1>3, <3>1, <3>2
    <2> QED BY <1>1, <2>3, <2>4, <2>5, Types
  <1> QED BY <1>2, <1>3

\* What the process is asked and what it says, and the timer of connect.
LEMMA SocketSteps ==
  ASSUME IInv, scenario' = scenario, NEW c \in Connect,
         \/ SendRequest(c) \/ OnConnected(c) \/ OnConnectedMessage(c) \/ RemoteEnds(c) \/ ConnectTimer(c)
  PROVE  IInv'
  <1> USE DEF IInv
  <1>1. /\ UNCHANGED <<helperVars, phase, lookupVars, certVars, mitmProxy>>
        /\ HelperTypes' /\ CertTypes' /\ LookupTypes' /\ SocketTypes /\ ContextsOk' /\ QueuesOk'
        /\ AlpnIsTheServers'
    <2>1. UNCHANGED <<helperVars, phase, lookupVars, certVars, mitmProxy>>
      BY DEF SendRequest, OnConnected, OnConnectedMessage, RemoteEnds, ConnectTimer
    <2> QED BY <2>1, Frame, Types, TypeFrame DEF certVars, lookupVars, helperVars
  <1>2. CASE SendRequest(c)
    <2>1. /\ request[c] = "ipc" /\ request' = [request EXCEPT ![c] = "done"]
          /\ UNCHANGED <<connectPromise, socketReady, told, closed, socketsById>>
          /\ UNCHANGED remote \/ ("proxy" \notin isExited /\ remote' = [remote EXCEPT ![c] = "asked"])
      BY <1>2 DEF SendRequest
    <2> QED BY <1>1, <2>1, Types
            DEF SocketTypes, SocketsOk, PromisesOk, SocketsEndWithTheirConnector, helperVars, lookupVars
  <1>3. CASE OnConnected(c)
    <2>1. /\ remote[c] = "asked" /\ remote' = [remote EXCEPT ![c] = "dialed"]
          /\ socketReady' = socketReady \cup {c}
          /\ UNCHANGED <<request, connectPromise, told, closed, socketsById>>
      BY <1>3 DEF OnConnected
    <2> QED BY <1>1, <2>1, Types
            DEF SocketTypes, SocketsOk, PromisesOk, SocketsEndWithTheirConnector, helperVars, lookupVars
  <1>4. CASE OnConnectedMessage(c)
    <2>1. /\ remote[c] = "dialed" /\ remote' = [remote EXCEPT ![c] = "piping"]
          /\ UNCHANGED <<request, socketReady, closed, socketsById>>
          /\ \/ UNCHANGED <<told, connectPromise>>
             \/ /\ told' = told \cup {c}
                /\ connectPromise' = [connectPromise EXCEPT ![c] = IF @ = "pending" THEN "resolved" ELSE @]
      BY <1>4 DEF OnConnectedMessage
    <2>2. SocketTypes'
      BY <1>1, <2>1 DEF SocketTypes, Promise
    <2>3. SocketsOk' /\ SocketsEndWithTheirConnector'
      BY <1>1, <2>1 DEF SocketTypes, SocketsOk, SocketsEndWithTheirConnector, helperVars, lookupVars
    <2>4. PromisesOk'
      BY <1>1, <2>1 DEF SocketTypes, PromisesOk, helperVars
    <2> QED BY <1>1, <2>2, <2>3, <2>4, Types
  <1>5. ASSUME connectPromise' = Rejected({c})
        PROVE  /\ connectPromise' \in [Connect -> Promise]
               /\ UNCHANGED told => PromisesOk'
    BY <1>1, <1>5 DEF Rejected, SocketTypes, Promise, PromisesOk, helperVars
  <1>6. CASE RemoteEnds(c)
    <2>1. /\ c \in socketsById /\ remote' = [remote EXCEPT ![c] = "over"]
          /\ connectPromise' = Rejected({c}) /\ closed' = closed \cup {c}
          /\ socketsById' = socketsById \ {c} /\ UNCHANGED <<request, socketReady, told>>
      BY <1>6 DEF RemoteEnds, Close
    <2>2. SocketTypes' /\ PromisesOk'
      BY <1>1, <1>5, <2>1 DEF SocketTypes
    <2>3. SocketsOk'
      BY <1>1, <2>1 DEF SocketTypes, SocketsOk, lookupVars
    <2>4. SocketsEndWithTheirConnector'
      BY <1>1, <2>1 DEF SocketTypes, SocketsEndWithTheirConnector, helperVars
    <2> QED BY <1>1, <2>2, <2>3, <2>4, Types
  <1>7. CASE ConnectTimer(c)
    <2>1. /\ connectPromise' = Rejected({c})
          /\ UNCHANGED <<request, socketReady, told, closed, socketsById, remote>>
      BY <1>7 DEF ConnectTimer
    <2>2. SocketTypes' /\ PromisesOk'
      BY <1>1, <1>5, <2>1 DEF SocketTypes
    <2>3. SocketsOk' /\ SocketsEndWithTheirConnector'
      BY <1>1, <2>1 DEF SocketsOk, SocketsEndWithTheirConnector, helperVars, lookupVars
    <2> QED BY <1>1, <2>2, <2>3, Types
  <1> QED BY <1>2, <1>3, <1>4, <1>6, <1>7

\* beforeExit of either process, called as it exits.
LEMMA ExitKeeps ==
  ASSUME IInv, scenario' = scenario, NEW p \in Handler, BeforeExit(p),
         isExited' = isExited \cup {p}, UNCHANGED <<phase, request, socketReady, told, remote, alpn>>,
         \A c \in Connect : lookup'[c] = lookup[c] \/ lookup'[c] \in {"done", "failed"},
         \A c \in Connect : lookup[c] = "none" => lookup'[c] = "none"
  PROVE  /\ SocketsOk' /\ PromisesOk' /\ SocketTypes' /\ AlpnIsTheServers' /\ SocketsEndWithTheirConnector'
         /\ pendingCert' \in [Host -> Promise \cup {"canceled"}]
  <1> USE DEF IInv
  <1>1. SocketTypes /\ CertTypes
    BY Types
  <1>2. AlpnIsTheServers'
    BY DEF AlpnIsTheServers
  <1>3. CASE p = "proxy"
    <2>1. /\ connectPromise' = [c \in Connect |->
               IF c \in socketsById /\ connectPromise[c] = "pending" THEN "resolved" ELSE connectPromise[c]]
          /\ closed' = closed \cup socketsById /\ socketsById' = {} /\ UNCHANGED pendingCert
      BY <1>3 DEF BeforeExit, CloseListedSockets
    <2>2. SocketTypes' /\ PromisesOk'
      BY <1>1, <1>3, <2>1 DEF SocketTypes, PromisesOk, Promise
    <2>3. SocketsOk' /\ SocketsEndWithTheirConnector'
      BY <1>1, <2>1 DEF SocketsOk, SocketsEndWithTheirConnector
    <2> QED BY <1>1, <1>2, <2>1, <2>2, <2>3 DEF CertTypes
  <1>4. CASE p = "certs"
    <2>1. UNCHANGED <<connectPromise, closed, socketsById>> /\ CancelCertificates
      BY <1>4 DEF BeforeExit
    <2>2. pendingCert' \in [Host -> Promise \cup {"canceled"}]
      BY <1>1, <2>1 DEF CancelCertificates, CertTypes
    <2>3. SocketTypes' /\ PromisesOk' /\ SocketsOk' /\ SocketsEndWithTheirConnector'
      BY <1>1, <1>4, <2>1 DEF SocketTypes, PromisesOk, SocketsOk, SocketsEndWithTheirConnector
    <2> QED BY <1>2, <2>2, <2>3
  <1> QED BY <1>3, <1>4 DEF Handler

\* A process is spawned, connects, dies, and is heard to exit.
LEMMA ProcessSteps ==
  ASSUME IInv, scenario' = scenario, NEW p \in Handler,
         SpawnChild(p) \/ OnIpcConnection(p) \/ Dies(p) \/ OnExit(p)
  PROVE  IInv'
  <1> USE DEF IInv
  <1>1. /\ UNCHANGED <<isClosing, phase, lookupVars, waitForInit, certificate, secureContext, mitmProxy>>
        /\ HelperTypes /\ LookupTypes' /\ CertTypes /\ ContextsOk' /\ QueuesOk'
    <2>1. UNCHANGED <<isClosing, phase, lookupVars, waitForInit, certificate, secureContext, mitmProxy>>
      BY DEF SpawnChild, OnIpcConnection, Dies, OnExit, certVars
    <2> QED BY <2>1, Frame, Types, TypeFrame DEF lookupVars
  <1>2. CASE SpawnChild(p) \/ OnIpcConnection(p) \/ Dies(p)
    <2>1. /\ UNCHANGED <<isExited, socketVars, certVars>>
          /\ \/ \E s \in {"alive", "failed", "dead"} : child' = [child EXCEPT ![p] = s] /\ UNCHANGED waitForConnect
             \/ waitForConnect' = [waitForConnect EXCEPT ![p] = "resolved"] /\ UNCHANGED child
      BY <1>2 DEF SpawnChild, OnIpcConnection, Dies
    <2>2. HelperTypes'
      BY <1>1, <2>1 DEF HelperTypes, Promise
    <2>3. SocketTypes' /\ CertTypes'
      BY <1>1, <2>1, TypeFrame DEF certVars
    <2>4. SocketsOk' /\ PromisesOk' /\ AlpnIsTheServers' /\ SocketsEndWithTheirConnector'
      BY <1>1, <2>1, Frame DEF socketVars, lookupVars
    <2> QED BY <1>1, <2>2, <2>3, <2>4, Types
  <1>3. CASE OnExit(p)
    <2>1. /\ BeforeExit(p) /\ isExited' = isExited \cup {p}
          /\ UNCHANGED <<child, waitForConnect, request, socketReady, told, remote>>
      BY <1>3 DEF OnExit
    <2>2. /\ SocketsOk' /\ PromisesOk' /\ SocketTypes' /\ AlpnIsTheServers' /\ SocketsEndWithTheirConnector'
          /\ pendingCert' \in [Host -> Promise \cup {"canceled"}]
      BY <1>1, <2>1, ExitKeeps DEF lookupVars
    <2>3. HelperTypes' /\ CertTypes'
      BY <1>1, <2>1, <2>2 DEF HelperTypes, CertTypes
    <2> QED BY <1>1, <2>2, <2>3, Types
  <1> QED BY <1>2, <1>3

\* The session closes its process, and the pool the generator.
LEMMA CloseSteps ==
  ASSUME IInv, scenario' = scenario, SessionCloses \/ PoolCloses
  PROVE  IInv'
  <1> USE DEF IInv
  <1>1. PICK p \in Handler :
          /\ CloseHandler(p)
          /\ UNCHANGED <<phase, alpn, request, socketReady, told, remote, waitForInit, certificate, secureContext>>
          /\ mitmProxy' \in {mitmProxy, "closing"}
          /\ \/ UNCHANGED <<lookup, queue>>
             \/ /\ lookup' = [c \in Connect |-> IF lookup[c] \in {"none", "done", "failed"} THEN lookup[c] ELSE "failed"]
                /\ queue' = [h \in Host |-> <<>>]
    BY DEF SessionCloses, PoolCloses, Handler, lookupVars
  <1>2. HelperTypes /\ LookupTypes /\ SocketTypes /\ CertTypes /\ ContextsOk' /\ HostOf' = HostOf
    BY <1>1, Types, Frame DEF HostOf
  <1>3. HelperTypes'
    BY <1>1, <1>2 DEF HelperTypes, CloseHandler, Promise
  <1>4. LookupTypes' /\ QueuesOk'
    <2>1. CASE UNCHANGED <<lookup, queue>>
      BY <1>1, <1>2, <2>1, Frame DEF LookupTypes
    <2>2. CASE /\ lookup' = [c \in Connect |-> IF lookup[c] \in {"none", "done", "failed"} THEN lookup[c] ELSE "failed"]
               /\ queue' = [h \in Host |-> <<>>]
      <3>1. /\ queue' \in [Host -> Seq(Connect)]
            /\ \A h \in Host : /\ queue'[h] \in Seq({c \in Connect : HostOf[c] = h})
                               /\ Distinct(queue'[h]) /\ \A c \in Connect : ~Contains(queue'[h], c)
        BY <2>2, EmptyMembers
      <3>2. \A c \in Connect : lookup'[c] \notin Asking
        BY <2>2 DEF Asking
      <3>3. lookup' \in [Connect -> {"none", "peeking", "queued", "dns", "listening", "connecting", "done", "failed"}]
        BY <1>2, <2>2 DEF LookupTypes
      <3> QED BY <1>1, <1>2, <3>1, <3>2, <3>3 DEF LookupTypes, QueuesOk
    <2> QED BY <1>1, <2>1, <2>2
  <1>5. /\ \A c \in Connect : lookup'[c] = lookup[c] \/ lookup'[c] \in {"done", "failed"}
        /\ \A c \in Connect : lookup[c] = "none" => lookup'[c] = "none"
    BY <1>1
  <1>6. /\ SocketsOk' /\ PromisesOk' /\ SocketTypes' /\ AlpnIsTheServers' /\ SocketsEndWithTheirConnector'
        /\ pendingCert' \in [Host -> Promise \cup {"canceled"}]
    <2>1. CASE p \notin isExited
      BY <1>1, <1>5, <2>1, ExitKeeps DEF CloseHandler
    <2>2. CASE p \in isExited
      <3>1. UNCHANGED <<connectPromise, closed, socketsById, isExited>>
        BY <1>1, <2>2 DEF CloseHandler
      <3>2. SocketsOk'
        BY <1>1, <1>5, <3>1 DEF SocketsOk
      <3>3. pendingCert' \in [Host -> Promise \cup {"canceled"}]
        BY <1>1, <1>2, <2>2 DEF CloseHandler, CancelCertificates, CertTypes
      <3> QED BY <1>1, <1>2, <3>1, <3>2, <3>3, Frame DEF SocketTypes, CertTypes
    <2> QED BY <2>1, <2>2
  <1>7. CertTypes'
    BY <1>1, <1>2, <1>6 DEF CertTypes
  <1> QED BY <1>2, <1>3, <1>4, <1>6, <1>7, Types

\* Every step keeps the inductive invariant.
LEMMA StepIInv == IInv /\ [Next]_vars => IInv'
  <1> SUFFICES ASSUME IInv, [Next]_vars PROVE IInv'
    OBVIOUS
  <1>1. CASE Next
    <2>1. scenario' = scenario
      BY <1>1 DEF Next
    <2>2. CASE GoesOn
      BY <2>1, <2>2, SocketSteps, LookupSteps, QueueRuns, CertificateSteps DEF GoesOn
    <2>3. CASE Events
      BY <2>1, <2>3, SocketSteps, LookupSteps, ProcessSteps, CertificateSteps DEF Events
    <2>4. CASE Chance
      BY <2>1, <2>4, ConnectStarts, SocketSteps, ProcessSteps, CloseSteps DEF Chance
    <2> QED BY <1>1, <2>2, <2>3, <2>4 DEF Next
  <1>2. CASE UNCHANGED vars
    <2>1. scenario' = scenario /\ UNCHANGED <<helperVars, phase, lookupVars, socketVars, certVars, mitmProxy>>
      BY <1>2 DEF vars, systemVars
    <2> QED BY <2>1, Frame, Types, TypeFrame DEF IInv, helperVars, lookupVars, socketVars, certVars
  <1> QED BY <1>1, <1>2

\* IInv is an invariant: the line of each origin, what becomes of a socket, what
\* resolves the promise of connect, and what a pending context waits for.
THEOREM Inductive == Spec => []IInv
  BY InitIInv, StepIInv, PTL DEF Spec

-----------------------------------------------------------------------------
\* Every variable keeps its type, whatever the CONNECTs, hosts and scenarios are.
THEOREM TypeCorrect == Spec => []TypeOK
  <1>1. IInv => TypeOK
    BY DEF IInv
  <1> QED BY <1>1, Inductive, PTL

\* SocketPool.alpn is what the connector said, for any CONNECTs, failures, timeouts and
\* closes in any order, unless the connector has exited.
THEOREM ProtocolIsToldNotGuessed == Spec => []AlpnIsTheServers
  <1>1. IInv => AlpnIsTheServers
    BY DEF IInv
  <1> QED BY <1>1, Inductive, PTL

\* The exit of the connector closes each socket that it was asked for, and no closed
\* socket stays in socketsById, whatever step of connect the sockets are in.
THEOREM ExitReachesSockets == Spec => []SocketsEndWithTheirConnector
  <1>1. IInv => SocketsEndWithTheirConnector
    BY DEF IInv
  <1> QED BY <1>1, Inductive, PTL

\* The serial queue of a pool: of the CONNECTs to one host at most one is creating
\* a socket, through peeks that go back to the end of the line.
THEOREM OneLookupAtATime ==
  Spec => [](\A c, d \in Connect :
               HostOf[c] = HostOf[d] /\ lookup[c] \in Asking /\ lookup[d] \in Asking => c = d)
  <1>1. IInv => \A c, d \in Connect :
                  HostOf[c] = HostOf[d] /\ lookup[c] \in Asking /\ lookup[d] \in Asking => c = d
    BY DEF IInv, QueuesOk
  <1> QED BY <1>1, Inductive, PTL

\* The promise kept for a host in secureContexts settles once: what later CONNECTs to
\* the host are given is what the first one was.
THEOREM ContextsSettleOnce ==
  Spec => [][\A h \in Host : secureContext[h] \notin {"none", "pending"} =>
               secureContext'[h] = secureContext[h]]_vars
  <1>1. IInv /\ [Next]_vars =>
          [\A h \in Host : secureContext[h] \notin {"none", "pending"} =>
             secureContext'[h] = secureContext[h]]_vars
    <2> SUFFICES ASSUME IInv, Next, NEW h \in Host, secureContext[h] \notin {"none", "pending"}
                 PROVE  secureContext'[h] = secureContext[h]
      OBVIOUS
    <2> USE DEF IInv
    <2>1. CertTypes /\ certificate[h] \notin {"ipc", "init", "writing", "written"}
      BY Types DEF ContextsOk
    <2>2. ASSUME NEW c \in Connect, OnHttpConnect(c) PROVE secureContext'[h] = secureContext[h]
      <3>1. PICK g \in Host : g = HostOf[c] /\ AddSecureContext(g)
        BY <2>2, HostOk DEF OnHttpConnect
      <3> QED BY <2>1, <3>1 DEF AddSecureContext, CertTypes
    <2>3. ASSUME NEW g \in Host, AwaitInit(g) \/ MessageWritten(g) \/ CertificateReturns(g)
          PROVE  secureContext'[h] = secureContext[h]
      <3>1. g # h
        BY <2>1, <2>3 DEF AwaitInit, MessageWritten, CertificateReturns
      <3> QED BY <2>1, <2>3, <3>1 DEF AwaitInit, MessageWritten, CertificateReturns, CertTypes
    <2>4. ASSUME NEW g \in Host, RunQueue(g) \/ GenerateCerts(g) \/ CertificateSettles(g)
          PROVE  UNCHANGED secureContext
      BY <2>4 DEF RunQueue, GenerateCerts, CertificateSettles, certVars
    <2>5. ASSUME NEW c \in Connect,
                 \/ SendRequest(c) \/ ConnectReturns(c) \/ ConnectGoesOn(c) \/ DnsAnswers(c) \/ StartConnect(c)
                 \/ ConnectTimer(c) \/ OnConnected(c) \/ OnConnectedMessage(c) \/ RemoteEnds(c)
          PROVE  UNCHANGED secureContext
      BY <2>5 DEF SendRequest, ConnectReturns, ConnectGoesOn, DnsAnswers, StartConnect, ConnectTimer,
                  OnConnected, OnConnectedMessage, RemoteEnds, certVars
    <2>6. ASSUME NEW p \in Handler, SpawnChild(p) \/ OnIpcConnection(p) \/ OnExit(p) \/ Dies(p)
          PROVE  UNCHANGED secureContext
      BY <2>6 DEF SpawnChild, OnIpcConnection, OnExit, Dies, certVars
    <2>7. CASE OnInitMessage \/ ProxyCloses \/ SessionCloses \/ PoolCloses
      BY <2>7 DEF OnInitMessage, ProxyCloses, SessionCloses, PoolCloses, certVars
    <2> QED BY <2>2, <2>3, <2>4, <2>5, <2>6, <2>7 DEF Next, GoesOn, Events, Chance
  <1> QED BY <1>1, Inductive, PTL DEF Spec
=============================================================================
