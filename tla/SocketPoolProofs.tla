--------------------------- MODULE SocketPoolProofs ---------------------------
(***************************************************************************)
(* Proofs about SocketPool, for any requests, limits and origins: what the *)
(* pool hands out is open, an HTTP/1.1 connection serves one request, and  *)
(* the count that throttles new connections is exact.                      *)
(***************************************************************************)
EXTENDS SocketPool, SequenceTheorems, FiniteSetTheorems, TLAPS

USE DEF connectorVars

\* Sequences without repetition: the queues and the ordered sets, and what becomes of
\* their members.
Distinct(q) == \A i, j \in 1..Len(q) : q[i] = q[j] => i = j

\* Appending an element to a sequence adds it to the members.
LEMMA AppendMembers ==
  ASSUME NEW S, NEW q \in Seq(S), NEW e \in S
  PROVE  /\ Append(q, e) \in Seq(S)
         /\ \A x : Contains(Append(q, e), x) <=> Contains(q, x) \/ x = e
         /\ Distinct(q) /\ ~Contains(q, e) => Distinct(Append(q, e))
  <1> DEFINE a == Append(q, e)
  <1>1. /\ Len(q) \in Nat /\ Len(a) = Len(q) + 1
        /\ a \in Seq(S) /\ a[Len(q) + 1] = e
        /\ \A i \in 1..Len(q) : a[i] = q[i]
    BY AppendProperties, LenProperties
  <1> HIDE DEF a
  <1>2. \A x : Contains(a, x) <=> Contains(q, x) \/ x = e
    BY <1>1 DEF Contains
  <1>3. ASSUME Distinct(q), ~Contains(q, e) PROVE Distinct(a)
    BY <1>1, <1>3 DEF Contains, Distinct
  <1> QED BY <1>1, <1>2, <1>3 DEF a

\* The head of a sequence without repetition is not in its tail.
LEMMA TailMembers ==
  ASSUME NEW S, NEW q \in Seq(S), q # <<>>
  PROVE  /\ Head(q) \in S /\ Contains(q, Head(q)) /\ Tail(q) \in Seq(S)
         /\ Distinct(q) => /\ Distinct(Tail(q))
                           /\ \A x : Contains(Tail(q), x) <=> Contains(q, x) /\ x # Head(q)
  <1>1. /\ Head(q) \in S /\ Tail(q) \in Seq(S) /\ Len(Tail(q)) = Len(q) - 1
        /\ \A i \in 1..Len(Tail(q)) : Tail(q)[i] = q[i + 1]
        /\ Len(q) \in Nat \ {0} /\ Head(q) = q[1]
    BY HeadTailProperties, EmptySeq
  <1>2. Contains(q, Head(q))
    BY <1>1 DEF Contains
  <1>3. ASSUME Distinct(q) PROVE Distinct(Tail(q))
    <2> SUFFICES ASSUME NEW i \in 1..Len(Tail(q)), NEW j \in 1..Len(Tail(q)), Tail(q)[i] = Tail(q)[j]
                 PROVE  i = j
      BY DEF Distinct
    <2>1. i + 1 \in 1..Len(q) /\ j + 1 \in 1..Len(q) /\ q[i + 1] = q[j + 1]
      BY <1>1
    <2> QED BY <1>3, <2>1 DEF Distinct
  <1>4. ASSUME Distinct(q), NEW x PROVE Contains(Tail(q), x) <=> Contains(q, x) /\ x # Head(q)
    <2>1. ASSUME Contains(Tail(q), x) PROVE Contains(q, x) /\ x # Head(q)
      <3>1. PICK i \in 1..Len(Tail(q)) : Tail(q)[i] = x
        BY <2>1 DEF Contains
      <3>2. i + 1 \in 1..Len(q) /\ q[i + 1] = x /\ 1 \in 1..Len(q) /\ i + 1 # 1
        BY <1>1, <3>1
      <3> QED BY <1>1, <1>4, <3>2 DEF Contains, Distinct
    <2>2. ASSUME Contains(q, x), x # Head(q) PROVE Contains(Tail(q), x)
      <3>1. PICK i \in 1..Len(q) : q[i] = x
        BY <2>2 DEF Contains
      <3>2. i - 1 \in 1..Len(Tail(q)) /\ Tail(q)[i - 1] = x
        BY <1>1, <2>2, <3>1
      <3> QED BY <3>2 DEF Contains
    <2> QED BY <2>1, <2>2
  <1> QED BY <1>1, <1>2, <1>3, <1>4

\* Taking an element out of a sequence without repetition leaves the others.
LEMMA RemoveFirstMembers ==
  ASSUME NEW S, NEW q \in Seq(S), NEW e, Distinct(q)
  PROVE  /\ RemoveFirst(q, e) \in Seq(S) /\ Distinct(RemoveFirst(q, e))
         /\ \A x : Contains(RemoveFirst(q, e), x) <=> Contains(q, x) /\ x # e
  <1>1. CASE ~Contains(q, e)
    <2>1. RemoveFirst(q, e) = q
      BY <1>1 DEF RemoveFirst, Contains
    <2> QED BY <1>1, <2>1
  <1>2. CASE Contains(q, e)
    <2>1. PICK k \in 1..Len(q) : q[k] = e
      BY <1>2 DEF Contains
    <2>2. \A i \in 1..Len(q) : q[i] = e <=> i = k
      BY <2>1 DEF Distinct
    <2> DEFINE I == {i \in 1..Len(q) : q[i] = e}
               u == SubSeq(q, 1, k - 1)
               v == SubSeq(q, k + 1, Len(q))
    <2>3. I = {k} /\ Len(q) \in Nat
      BY <2>2, LenProperties
    <2>4. Min(I) = k
      BY <2>3 DEF Min
    <2>5. RemoveFirst(q, e) = u \o v
      BY <1>2, <2>3, <2>4 DEF RemoveFirst, SelectInSeq, RemoveAt, Contains
    <2>6. /\ u \in Seq(S) /\ Len(u) = k - 1 /\ \A i \in 1..(k - 1) : u[i] = q[i]
          /\ v \in Seq(S) /\ Len(v) = Len(q) - k /\ \A i \in 1..(Len(q) - k) : v[i] = q[k + i]
      <3>1. \A i \in 1..Len(q) : q[i] \in S
        BY ElementOfSeq
      <3>2. \A i \in 1..(k - 1) : q[i] \in S
        BY <2>3, <3>1
      <3>3. \A i \in (k + 1)..Len(q) : q[i] \in S
        BY <2>3, <3>1
      <3>4. u \in Seq(S) /\ Len(u) = k - 1 /\ \A i \in 1..(k - 1) : u[i] = q[i]
        BY <2>3, <3>2, SubSeqProperties
      <3>5. v \in Seq(S) /\ Len(v) = Len(q) - k /\ \A i \in 1..(Len(q) - k) : v[i] = q[k + i]
        BY <2>3, <3>3, SubSeqProperties
      <3> QED BY <3>4, <3>5
    <2> DEFINE w == u \o v
    <2>7. /\ w \in Seq(S) /\ Len(w) = Len(q) - 1
          /\ \A i \in 1..Len(w) : w[i] = IF i < k THEN q[i] ELSE q[i + 1]
      <3>1. /\ w \in Seq(S) /\ Len(w) = Len(u) + Len(v)
            /\ \A i \in 1..(Len(u) + Len(v)) : w[i] = IF i <= Len(u) THEN u[i] ELSE v[i - Len(u)]
        BY <2>6, ConcatProperties
      <3> HIDE DEF u, v, w
      <3>2. Len(w) = Len(q) - 1
        BY <2>3, <2>6, <3>1
      <3>3. ASSUME NEW i \in 1..Len(w) PROVE w[i] = IF i < k THEN q[i] ELSE q[i + 1]
        <4>1. CASE i < k
          BY <2>3, <2>6, <3>1, <4>1
        <4>2. CASE i >= k
          <5>1. w[i] = v[i - (k - 1)] /\ i - (k - 1) \in 1..(Len(q) - k)
            BY <2>3, <2>6, <3>1, <3>2, <4>2
          <5>2. v[i - (k - 1)] = q[k + (i - (k - 1))]
            BY <2>6, <5>1
          <5> QED BY <2>3, <4>2, <5>1, <5>2
        <4> QED BY <2>3, <4>1, <4>2
      <3> QED BY <3>1, <3>2, <3>3
    <2> HIDE DEF w, u, v, I
    <2>8. Distinct(w)
      <3> SUFFICES ASSUME NEW i \in 1..Len(w), NEW j \in 1..Len(w), w[i] = w[j]
                   PROVE  i = j
        BY DEF Distinct
      <3> DEFINE at(n) == IF n < k THEN n ELSE n + 1
      <3>1. at(i) \in 1..Len(q) /\ at(j) \in 1..Len(q) /\ q[at(i)] = q[at(j)]
        BY <2>3, <2>7
      <3>2. at(i) = at(j)
        BY <3>1 DEF Distinct
      <3> QED BY <2>3, <3>2
    <2>9. ASSUME NEW x PROVE Contains(w, x) <=> Contains(q, x) /\ x # e
      <3>1. ASSUME Contains(w, x) PROVE Contains(q, x) /\ x # e
        <4>1. PICK i \in 1..Len(w) : w[i] = x
          BY <3>1 DEF Contains
        <4>2. PICK j \in 1..Len(q) : q[j] = x /\ j # k
          BY <2>3, <2>7, <4>1
        <4> QED BY <2>2, <4>2 DEF Contains
      <3>2. ASSUME Contains(q, x), x # e PROVE Contains(w, x)
        <4>1. PICK j \in 1..Len(q) : q[j] = x
          BY <3>2 DEF Contains
        <4>2. j # k
          BY <2>2, <3>2, <4>1
        <4>3. \E i \in 1..Len(w) : w[i] = x
          <5>1. CASE j < k
            BY <2>3, <2>7, <4>1, <5>1
          <5>2. CASE j > k
            <6>1. j - 1 \in 1..Len(w) /\ w[j - 1] = x
              BY <2>3, <2>7, <4>1, <5>2
            <6> QED BY <6>1
          <5> QED BY <2>3, <4>2, <5>1, <5>2
        <4> QED BY <4>3 DEF Contains
      <3> QED BY <3>1, <3>2
    <2> QED BY <2>5, <2>7, <2>8, <2>9 DEF w
  <1> QED BY <1>1, <1>2

\* The empty sequence has no members.
LEMMA EmptyMembers ==
  ASSUME NEW S
  PROVE  <<>> \in Seq(S) /\ Distinct(<<>>) /\ \A x : ~Contains(<<>>, x)
  BY EmptySeq DEF Distinct, Contains
-----------------------------------------------------------------------------

\* The phases in which a request has a socket, or waits for one to connect.
Holding == {"connecting", "assigned", "probing", "registering", "sending"}

CollectionsOk == Distinct(free) /\ Distinct(http2Sessions)

HoldersOk ==
  \A r \in Request : phase[r] \in Holding =>
    /\ socketOf[r] \in Socket /\ socket[socketOf[r]] # "unused"
    /\ phase[r] # "connecting" => socket[socketOf[r]] # "connecting"

ConnectingOk ==
  \A r \in Request : phase[r] = "connecting" =>
    /\ socket[socketOf[r]] = "connecting" \/ socketOf[r] \in lost
    /\ IsWebsocket(r) => socketOf[r] \in forWebsocket

LostOk == \A s \in lost : exited /\ socket[s] = "closed"

SessionsOk ==
  /\ \A s \in Socket : Contains(http2Sessions, s) => IsHttp2(s)
  /\ \A r \in Request : phase[r] = "registering" =>
       /\ IsHttp2(socketOf[r])
       /\ socket[socketOf[r]] = "open" => ~Contains(http2Sessions, socketOf[r])

Private(s) == \/ ~IsHttp2(s)
              \/ socket[s] # "closed" /\ ~Contains(http2Sessions, s)

OwnersOk ==
  \A r \in Request : phase[r] \in Holding /\ Private(socketOf[r]) =>
    /\ ~Contains(free, socketOf[r])
    /\ \A q \in Request \ {r} : phase[q] \in Holding => socketOf[q] # socketOf[r]

CountOk ==
  /\ \A s \in all : socket[s] = "open" \/ s \in lost
  /\ \A r \in Request : phase[r] = "connecting" => socketOf[r] \notin all
  /\ ~isClosing /\ (\A s \in Socket : socket[s] \in {"open", "closed"} => Countable(s)) =>
       pooled = Cardinality(all)

IInv == /\ TypeOK /\ origin \in Origins
        /\ CollectionsOk /\ HandsOutOpenSockets /\ HoldersOk /\ ConnectingOk
        /\ LostOk /\ SessionsOk /\ OwnersOk /\ CountOk
-----------------------------------------------------------------------------
\* Adding to a set that remembers its order.
LEMMA AddFreeMembers ==
  ASSUME NEW S, NEW f \in Seq(S), NEW s \in S, Distinct(f)
  PROVE  /\ AddFree(f, s) \in Seq(S) /\ Distinct(AddFree(f, s))
         /\ \A x : Contains(AddFree(f, s), x) <=> Contains(f, x) \/ x = s
  BY AppendMembers DEF AddFree

-----------------------------------------------------------------------------
(* What the steps do to the holders of sockets *)

\* The parts of the invariant that say which request holds which socket.
Held == HandsOutOpenSockets /\ HoldersOk /\ ConnectingOk /\ LostOk /\ SessionsOk /\ OwnersOk

\* Requests may let go of their sockets or go on with them; a session is
\* registered only where there was none.
Releases(ph) ==
  /\ ph \in [Request -> Phases]
  /\ \A r \in Request :
       /\ ph[r] \in Holding => phase[r] \in Holding
       /\ ph[r] \in Holding => (ph[r] = "connecting" <=> phase[r] = "connecting")
       /\ ph[r] = "registering" =>
            \/ phase[r] = "registering"
            \/ IsHttp2(socketOf[r]) /\ http2Sessions = <<>>

\* Resolving the pending wait gives nobody a socket.
LEMMA WakeReleases ==
  ASSUME NEW ph, Releases(ph)
  PROVE  Releases(Wake(ph))
  BY DEF Releases, Wake, Phases, Holding

\* The protocol of a socket does not change while those whose protocol is the default do not.
LEMMA SameProtocol ==
  ASSUME origin' = origin
  PROVE  /\ \A r : IsWebsocket(r)' = IsWebsocket(r)
         /\ \A s : /\ s \in forWebsocket' <=> s \in forWebsocket
                   /\ s \in lost' <=> s \in lost
                   => (IsHttp2(s)' <=> IsHttp2(s))
  BY DEF IsWebsocket, KindOf, IsHttp2, AlpnOf

\* A step that only moves phases.
LEMMA PhaseStep ==
  ASSUME IInv, origin' = origin, Releases(phase'),
         UNCHANGED <<socketOf, socket, forWebsocket, connectorVars, free, http2Sessions>>
  PROVE  Held'
  <1> USE DEF IInv
  <1>0. \A s : IsHttp2(s)' <=> IsHttp2(s)
    BY SameProtocol
  <1>1. HandsOutOpenSockets' 
    BY DEF HandsOutOpenSockets
  <1>2. HoldersOk' /\ LostOk'
    BY DEF HoldersOk, LostOk, Releases
  <1>3. ConnectingOk'
    BY SameProtocol DEF ConnectingOk, Releases, Holding
  <1>4. SessionsOk'
    <2>1. \A s : http2Sessions = <<>> => ~Contains(http2Sessions, s)
      BY EmptyMembers
    <2> QED BY <1>0, <2>1 DEF SessionsOk, Releases
  <1>5. OwnersOk'
    <2>1. \A s : Private(s)' <=> Private(s)
      BY <1>0 DEF Private
    <2> QED BY <2>1 DEF OwnersOk, Releases
  <1> QED BY <1>1, <1>2, <1>3, <1>4, <1>5 DEF Held

\* A socket closes and leaves both collections.
LEMMA CloseStep ==
  ASSUME IInv, origin' = origin, NEW ph, Releases(ph), NEW s \in Socket,
         socket[s] = "open", CloseSocket(s, ph), UNCHANGED <<socketOf, forWebsocket, connectorVars>>
  PROVE  Held' /\ CollectionsOk'
  <1> USE DEF IInv
  <1>0. \A t : IsHttp2(t)' <=> IsHttp2(t)
    BY SameProtocol
  <1>1. Releases(phase')
    BY WakeReleases DEF CloseSocket
  <1>2. /\ Distinct(free') /\ Distinct(http2Sessions')
        /\ \A t : Contains(free', t) <=> Contains(free, t) /\ t # s
        /\ \A t : Contains(http2Sessions', t) <=> Contains(http2Sessions, t) /\ t # s
    BY RemoveFirstMembers DEF CloseSocket, DropFree, CloseHttp2Session, TypeOK, CollectionsOk
  <1>3. socket' = [socket EXCEPT ![s] = "closed"] /\ socket \in [Socket -> {"unused", "connecting", "open", "closed"}]
    BY DEF CloseSocket, TypeOK
  <1>4. HandsOutOpenSockets'
    BY <1>2, <1>3 DEF HandsOutOpenSockets
  <1>5. HoldersOk'
    BY <1>1, <1>3 DEF HoldersOk, Releases
  <1>6. ConnectingOk' /\ LostOk'
    <2>1. s \notin lost
      BY DEF LostOk
    <2>2. LostOk'
      BY <1>3, <2>1 DEF LostOk
    <2> QED BY <1>1, <1>3, <2>1, <2>2, SameProtocol DEF ConnectingOk, Releases, Holding, HoldersOk
  <1>7. SessionsOk'
    <2>1. \A t : http2Sessions = <<>> => ~Contains(http2Sessions, t)
      BY EmptyMembers
    <2>2. \A r \in Request : phase'[r] = "registering" => phase[r] \in Holding
      BY <1>1 DEF Releases, Holding
    <2>3. \A r \in Request : phase'[r] = "registering" => socketOf[r] \in Socket
      BY <2>2 DEF HoldersOk
    <2> QED BY <1>0, <1>1, <1>2, <1>3, <2>1, <2>3 DEF SessionsOk, Releases
  <1>8. OwnersOk'
    <2>1. \A t \in Socket : Private(t)' => Private(t)
      BY <1>0, <1>2, <1>3 DEF Private
    <2> QED BY <1>1, <1>2, <2>1 DEF OwnersOk, Releases, HoldersOk
  <1> QED BY <1>2, <1>4, <1>5, <1>6, <1>7, <1>8 DEF Held, CollectionsOk

\* getSocket gives r an open socket: one that nobody holds, or a shared session.
LEMMA GiveStep ==
  ASSUME IInv, origin' = origin, NEW r \in Request, NEW s \in Socket, NEW rest \in Seq(Socket),
         Give(r, s, rest), UNCHANGED <<forWebsocket, connectorVars, http2Sessions>>,
         Distinct(rest), \A t : Contains(rest, t) => Contains(free, t),
         socket' \in [Socket -> {"unused", "connecting", "open", "closed"}],
         (socket'[s] = "open" /\ s \notin lost) \/ (socket'[s] = "closed" /\ s \in lost), \A t \in Socket : t # s => socket'[t] = socket[t],
         \A q \in Request : q # r /\ phase[q] = "connecting" => socketOf[q] # s,
         Private(s)' => /\ ~Contains(rest, s)
                        /\ \A q \in Request : q # r /\ phase[q] \in Holding => socketOf[q] # s
  PROVE  Held' /\ CollectionsOk'
  <1> USE DEF IInv
  <1>0. \A t : IsHttp2(t)' <=> IsHttp2(t)
    BY SameProtocol
  <1>1. /\ phase \in [Request -> Phases] /\ socketOf \in [Request -> Socket \cup {NoSocket}]
        /\ free \in Seq(Socket)
    BY DEF TypeOK
  <1>2. /\ socketOf'[r] = s /\ \A q \in Request : q # r => socketOf'[q] = socketOf[q] /\ phase'[q] = phase[q]
        /\ phase'[r] \in {"done", "failed", "assigned"}
        /\ phase'[r] = "assigned" => free' = rest
    BY <1>1 DEF Give, Becomes
  <1>3. /\ Distinct(free')
        /\ \A t : Contains(free', t) => Contains(free, t) \/ t = s
        /\ Contains(free', s) => Contains(rest, s) \/ phase'[r] = "done"
    BY <1>1, AddFreeMembers DEF Give, Becomes
  <1>4. HandsOutOpenSockets' /\ LostOk'
    BY <1>3 DEF HandsOutOpenSockets, LostOk, TypeOK
  <1>5. HoldersOk'
    BY <1>2 DEF HoldersOk, Holding
  <1>6. ConnectingOk'
    <2> SUFFICES ASSUME NEW q \in Request, phase'[q] = "connecting"
                 PROVE  /\ socket'[socketOf'[q]] = "connecting" \/ socketOf'[q] \in lost
                        /\ IsWebsocket(q) => socketOf'[q] \in forWebsocket
      BY SameProtocol DEF ConnectingOk
    <2>1. q # r /\ socketOf'[q] = socketOf[q] /\ phase[q] = "connecting"
      BY <1>2
    <2>2. socketOf[q] \in Socket /\ socketOf[q] # s
      BY <2>1 DEF HoldersOk, Holding
    <2> QED BY <2>1, <2>2 DEF ConnectingOk
  <1>7. SessionsOk'
    <2>1. \A t \in Socket : Contains(http2Sessions, t) => IsHttp2(t)'
      BY <1>0 DEF SessionsOk
    <2>2. ASSUME NEW q \in Request, phase'[q] = "registering"
          PROVE  /\ IsHttp2(socketOf[q])' /\ socketOf'[q] = socketOf[q]
                 /\ socket'[socketOf[q]] = "open" => ~Contains(http2Sessions, socketOf[q])
      <3>1. q # r /\ phase[q] = "registering" /\ socketOf'[q] = socketOf[q]
        BY <1>2, <2>2
      <3>2. socketOf[q] \in Socket
        BY <3>1 DEF HoldersOk, Holding
      <3>3. Contains(http2Sessions, s) => socket[s] = "open"
        BY DEF HandsOutOpenSockets
      <3> QED BY <1>0, <3>1, <3>2, <3>3 DEF SessionsOk
    <2> QED BY <1>0, <2>1, <2>2 DEF SessionsOk
  <1>8. OwnersOk'
    <2>1. \A t \in Socket : t # s => (Private(t)' <=> Private(t))
      BY <1>0 DEF Private
    <2>2. ASSUME NEW q \in Request, phase'[q] \in Holding, Private(socketOf[q])', q # r
          PROVE  /\ ~Contains(free', socketOf[q])
                 /\ \A p \in Request \ {q} : phase'[p] \in Holding => socketOf'[p] # socketOf[q]
      <3>1. phase[q] \in Holding /\ socketOf'[q] = socketOf[q] /\ socketOf[q] \in Socket
        BY <1>2, <2>2 DEF HoldersOk
      <3>2. socketOf[q] # s
        BY <2>2, <3>1
      <3> QED BY <1>2, <1>3, <2>1, <2>2, <3>1, <3>2 DEF OwnersOk
    <2>3. ASSUME phase'[r] \in Holding, Private(s)'
          PROVE  /\ ~Contains(free', s)
                 /\ \A p \in Request \ {r} : phase'[p] \in Holding => socketOf'[p] # s
      BY <1>2, <1>3, <2>3 DEF Holding
    <2> QED BY <1>2, <2>2, <2>3 DEF OwnersOk
  <1> QED BY <1>3, <1>4, <1>5, <1>6, <1>7, <1>8 DEF Held, CollectionsOk

\* getSocket starts a new connection for r.
LEMMA CreateStep ==
  ASSUME IInv, origin' = origin, NEW r \in Request, Create(r), UNCHANGED <<connectorVars, http2Sessions>>
  PROVE  Held' /\ CollectionsOk'
  <1> USE DEF IInv
  <1>1. PICK s \in Socket :
          /\ socket[s] = "unused" /\ socket' = [socket EXCEPT ![s] = "connecting"]
          /\ forWebsocket' = IF IsWebsocket(r) THEN forWebsocket \cup {s} ELSE forWebsocket
          /\ socketOf' = [socketOf EXCEPT ![r] = s] /\ phase' = [phase EXCEPT ![r] = "connecting"]
    BY DEF Create, Becomes
  <1>2. free' = free /\ ~Contains(free, s) /\ ~Contains(http2Sessions, s) /\ s \notin lost
    BY <1>1 DEF Create, HandsOutOpenSockets, LostOk
  <1>3. /\ phase \in [Request -> Phases] /\ socketOf \in [Request -> Socket \cup {NoSocket}]
        /\ socket \in [Socket -> {"unused", "connecting", "open", "closed"}]
    BY DEF TypeOK
  <1>4. \A t : t # s => (IsHttp2(t)' <=> IsHttp2(t))
    BY <1>1, SameProtocol
  <1>5. \A q \in Request : phase[q] \in Holding => socketOf[q] \in Socket \ {s}
    BY <1>1 DEF HoldersOk
  <1>6. /\ socketOf'[r] = s /\ phase'[r] = "connecting" /\ socket'[s] = "connecting"
        /\ \A q \in Request : q # r => socketOf'[q] = socketOf[q] /\ phase'[q] = phase[q]
        /\ \A t \in Socket : t # s => socket'[t] = socket[t]
        /\ \A t : t # s => (t \in forWebsocket' <=> t \in forWebsocket)
        /\ IsWebsocket(r) => s \in forWebsocket'
    BY <1>1, <1>3
  <1>7. HandsOutOpenSockets' /\ LostOk'
    BY <1>2, <1>6 DEF HandsOutOpenSockets, LostOk, TypeOK
  <1>8. HoldersOk'
    BY <1>5, <1>6 DEF HoldersOk
  <1>9. ConnectingOk'
    BY <1>5, <1>6, SameProtocol DEF ConnectingOk, Holding
  <1>10. SessionsOk'
    <2>1. \A t \in Socket : Contains(http2Sessions, t) => IsHttp2(t)'
      BY <1>2, <1>4 DEF SessionsOk
    <2>2. ASSUME NEW q \in Request, phase'[q] = "registering"
          PROVE  q # r /\ phase[q] = "registering" /\ socketOf[q] \in Socket \ {s}
      BY <1>5, <1>6, <2>2 DEF Holding
    <2> QED BY <1>4, <1>6, <2>1, <2>2 DEF SessionsOk
  <1>11. OwnersOk'
    <2>1. \A t \in Socket : t # s => (Private(t)' <=> Private(t))
      BY <1>4, <1>6 DEF Private
    <2> QED BY <1>2, <1>5, <1>6, <2>1 DEF OwnersOk
  <1> QED BY <1>2, <1>7, <1>8, <1>9, <1>10, <1>11 DEF Held, CollectionsOk

\* An HTTP/1.1 socket is given back by the one request that used it.
LEMMA FreeStep ==
  ASSUME IInv, origin' = origin, NEW r \in Request, phase[r] \in Holding, ~IsHttp2(socketOf[r]),
         socket[socketOf[r]] = "open", FreeSocket(socketOf[r], [phase EXCEPT ![r] = "done"]),
         UNCHANGED <<socketOf, forWebsocket, connectorVars>>
  PROVE  Held' /\ CollectionsOk'
  <1> USE DEF IInv
  <1> DEFINE s == socketOf[r]
  <1>0. \A t : IsHttp2(t)' <=> IsHttp2(t)
    BY SameProtocol
  <1>1. UNCHANGED <<socket, http2Sessions>> /\ s \in Socket /\ phase'[r] = "done"
    BY DEF FreeSocket, HoldersOk, TypeOK, Wake
  <1>2. Releases(phase')
    <2>1. Releases([phase EXCEPT ![r] = "done"])
      BY DEF Releases, TypeOK, Phases, Holding
    <2> QED BY <2>1, WakeReleases DEF FreeSocket
  <1>3. Distinct(free') /\ \A t : Contains(free', t) <=> Contains(free, t) \/ t = s
    BY <1>1, AddFreeMembers DEF FreeSocket, TypeOK, CollectionsOk
  <1>4. HandsOutOpenSockets'
    BY <1>1, <1>3 DEF HandsOutOpenSockets
  <1>5. HoldersOk' /\ ConnectingOk' /\ LostOk'
    BY <1>1, <1>2, SameProtocol DEF HoldersOk, ConnectingOk, LostOk, Releases, Holding
  <1>6. SessionsOk'
    <2>1. \A t : http2Sessions = <<>> => ~Contains(http2Sessions, t)
      BY EmptyMembers
    <2> QED BY <1>0, <1>1, <1>2, <2>1 DEF SessionsOk, Releases
  <1>7. OwnersOk'
    <2>1. Private(s) /\ \A t : Private(t)' <=> Private(t)
      BY <1>0, <1>1 DEF Private
    <2>2. \A q \in Request : q # r /\ phase[q] \in Holding => socketOf[q] # s
      BY <2>1 DEF OwnersOk
    <2> QED BY <1>1, <1>2, <1>3, <2>1, <2>2 DEF OwnersOk, Releases, Holding
  <1> QED BY <1>1, <1>3, <1>4, <1>5, <1>6, <1>7 DEF Held, CollectionsOk

\* The socket that did not connect was known to its request only.
LEMMA ConnectFailsStep ==
  ASSUME IInv, origin' = origin, NEW r \in Request, ConnectFails(r)
  PROVE  Held' /\ CollectionsOk'
  <1> USE DEF IInv
  <1> DEFINE s == socketOf[r]
  <1>0. \A t : IsHttp2(t)' <=> IsHttp2(t)
    BY SameProtocol DEF ConnectFails
  <1>1. /\ UNCHANGED <<socketOf, free, http2Sessions, forWebsocket, connectorVars>>
        /\ s \in Socket /\ phase[r] = "connecting"
        /\ socket[s] = "connecting" \/ (s \in lost /\ socket[s] = "closed")
    BY DEF ConnectFails, poolVars, HoldersOk, ConnectingOk, LostOk, Holding
  <1>2. /\ \A q \in Request : phase'[q] = IF q = r THEN "failed" ELSE phase[q]
        /\ \A t \in Socket : socket'[t] = IF t = s THEN "closed" ELSE socket[t]
    <2>1. /\ phase' = [phase EXCEPT ![r] = "failed"]
          /\ socket' = [socket EXCEPT ![s] = "closed"] \/ (s \in lost /\ socket' = socket)
      BY DEF ConnectFails, Becomes
    <2>2. s \in lost => socket[s] = "closed"
      BY DEF LostOk
    <2> QED BY <1>1, <2>1, <2>2 DEF TypeOK
  <1>3. ~Contains(free, s) /\ ~Contains(http2Sessions, s)
        /\ \A q \in Request : q # r /\ phase[q] \in Holding => socketOf[q] # s
    <2>1. Private(s) /\ ~Contains(http2Sessions, s)
      BY <1>1 DEF HandsOutOpenSockets, Private, IsHttp2, AlpnOf
    <2> QED BY <1>1, <2>1 DEF OwnersOk, Holding
  <1>4. \A q \in Request : q # r /\ phase[q] \in Holding => socketOf[q] # s
    BY <1>3
  <1>5. HandsOutOpenSockets'
    BY <1>1, <1>2, <1>3 DEF HandsOutOpenSockets
  <1>6. HoldersOk' /\ ConnectingOk' /\ LostOk'
    BY <1>1, <1>2, <1>4, SameProtocol DEF HoldersOk, ConnectingOk, LostOk, Holding, TypeOK
  <1>7. SessionsOk'
    BY <1>0, <1>1, <1>2, <1>4 DEF SessionsOk, HoldersOk, Holding
  <1>8. OwnersOk'
    <2>1. \A t \in Socket : Private(t)' => Private(t)
      BY <1>0, <1>1, <1>2 DEF Private
    <2> QED BY <1>1, <1>2, <2>1 DEF OwnersOk, HoldersOk, Holding
  <1> QED BY <1>1, <1>5, <1>6, <1>7, <1>8 DEF Held, CollectionsOk

\* A session is registered once, over a socket that only its request held.
LEMMA RegisterStep ==
  ASSUME IInv, origin' = origin, NEW r \in Request, phase[r] = "registering",
         socket[socketOf[r]] = "open", http2Sessions' = Append(http2Sessions, socketOf[r]),
         Becomes(r, "sending"), UNCHANGED <<socketOf, socket, forWebsocket, connectorVars, free>>
  PROVE  Held' /\ CollectionsOk'
  <1> USE DEF IInv
  <1> DEFINE s == socketOf[r]
  <1>0. \A t : IsHttp2(t)' <=> IsHttp2(t)
    BY SameProtocol
  <1>1. s \in Socket /\ IsHttp2(s) /\ ~Contains(http2Sessions, s)
    BY DEF HoldersOk, SessionsOk, Holding
  <1>2. \A q \in Request : phase'[q] = IF q = r THEN "sending" ELSE phase[q]
    BY DEF Becomes, TypeOK
  <1>3. /\ Distinct(http2Sessions')
        /\ \A t : Contains(http2Sessions', t) <=> Contains(http2Sessions, t) \/ t = s
    BY <1>1, AppendMembers DEF TypeOK, CollectionsOk
  <1>4. \A q \in Request : q # r /\ phase[q] \in Holding => socketOf[q] # s
    BY <1>1 DEF OwnersOk, Private, Holding
  <1>5. HandsOutOpenSockets'
    BY <1>3 DEF HandsOutOpenSockets
  <1>6. HoldersOk' /\ ConnectingOk' /\ LostOk'
    BY <1>2, SameProtocol DEF HoldersOk, ConnectingOk, LostOk, Holding
  <1>7. SessionsOk'
    BY <1>0, <1>1, <1>2, <1>3, <1>4 DEF SessionsOk, Holding
  <1>8. OwnersOk'
    <2>1. \A t : Private(t)' => Private(t)
      BY <1>0, <1>3 DEF Private
    <2> QED BY <1>2, <2>1 DEF OwnersOk, Holding
  <1> QED BY <1>3, <1>5, <1>6, <1>7, <1>8 DEF Held, CollectionsOk

\* Closing the session of the user closes every socket and empties the pool.
LEMMA CloseSessionStep ==
  ASSUME IInv, origin' = origin, CloseSession
  PROVE  Held' /\ CollectionsOk'
  <1> USE DEF IInv
  <1>0. \A t : IsHttp2(t)' <=> IsHttp2(t)
    BY SameProtocol DEF CloseSession
  <1>1. UNCHANGED <<socketOf, forWebsocket, connectorVars>> /\ free' = <<>> /\ http2Sessions' = <<>>
    BY DEF CloseSession, CloseSockets
  <1>2. Distinct(free') /\ Distinct(http2Sessions') /\ \A t : ~Contains(free', t) /\ ~Contains(http2Sessions', t)
    BY <1>1, EmptyMembers
  <1>3. \A q \in Request : phase'[q] # "connecting" /\ (phase'[q] # "failed" => phase'[q] = phase[q])
    BY DEF CloseSession, Running
  <1>4. \A t \in Socket : /\ socket'[t] \notin {"open", "connecting"}
                          /\ socket[t] # "unused" => socket'[t] # "unused"
                          /\ socket[t] = "closed" => socket'[t] = "closed"
    BY DEF CloseSession, CloseSockets, TypeOK
  <1>5. HandsOutOpenSockets' /\ HoldersOk' /\ ConnectingOk' /\ LostOk'
    BY <1>1, <1>2, <1>3, <1>4 DEF HandsOutOpenSockets, HoldersOk, ConnectingOk, LostOk, Holding, TypeOK
  <1>6. SessionsOk'
    BY <1>0, <1>1, <1>2, <1>3, <1>4 DEF SessionsOk
  <1>7. OwnersOk'
    <2>1. \A t \in Socket : IsHttp2(t) /\ socket[t] # "unused" => ~Private(t)'
      BY <1>0, <1>2 DEF Private, CloseSession, CloseSockets, TypeOK
    <2>2. \A q \in Request : phase'[q] \in Holding /\ Private(socketOf[q])' => ~IsHttp2(socketOf[q])
      BY <1>1, <1>3, <2>1 DEF HoldersOk, Holding
    <2> QED BY <1>1, <1>2, <1>3, <2>2 DEF OwnersOk, Private, Holding
  <1> QED BY <1>2, <1>5, <1>6, <1>7 DEF Held, CollectionsOk

\* The exit of the connector closes every socket and empties the pool; the sockets
\* that were connecting keep their requests.
LEMMA ConnectorExitsStep ==
  ASSUME IInv, origin' = origin, ConnectorExits
  PROVE  Held' /\ CollectionsOk'
  <1> USE DEF IInv
  <1>1. /\ UNCHANGED <<socketOf, forWebsocket>> /\ free' = <<>> /\ http2Sessions' = <<>>
        /\ exited' = TRUE /\ lost' = {t \in Socket : socket[t] = "connecting"}
    BY DEF ConnectorExits, CloseSockets
  <1>2. Distinct(free') /\ Distinct(http2Sessions') /\ \A t : ~Contains(free', t) /\ ~Contains(http2Sessions', t)
    BY <1>1, EmptyMembers
  <1>3. Releases(phase')
    <2>1. Releases(phase)
      BY DEF Releases, TypeOK
    <2> QED BY <2>1, WakeReleases DEF ConnectorExits
  <1>4. lost = {}
    BY DEF ConnectorExits, LostOk
  <1>5. \A t \in Socket : /\ socket'[t] = IF socket[t] \in {"open", "connecting"} THEN "closed" ELSE socket[t]
                          /\ socket[t] \in {"unused", "connecting", "open", "closed"}
    BY DEF ConnectorExits, CloseSockets, TypeOK
  <1>6. \A t \in Socket : IF socket[t] = "connecting" THEN ~IsHttp2(t)' ELSE IsHttp2(t)' <=> IsHttp2(t)
    <2>1. \A t \in Socket : socket[t] = "connecting" => AlpnOf(t)' = "http/1.1"
      BY <1>1 DEF AlpnOf
    <2> QED BY <1>1, <1>4, <2>1, SameProtocol DEF IsHttp2
  <1>7. HandsOutOpenSockets' /\ HoldersOk' /\ LostOk'
    BY <1>1, <1>2, <1>3, <1>5 DEF HandsOutOpenSockets, HoldersOk, LostOk, Releases
  <1>8. ConnectingOk'
    <2> SUFFICES ASSUME NEW r \in Request, phase'[r] = "connecting"
                 PROVE  socketOf[r] \in lost' /\ (IsWebsocket(r) => socketOf[r] \in forWebsocket)
      BY <1>1, SameProtocol DEF ConnectingOk
    <2>1. phase[r] = "connecting" /\ socketOf[r] \in Socket
      BY <1>3 DEF Releases, Holding, HoldersOk
    <2> QED BY <1>1, <1>4, <2>1 DEF ConnectingOk
  <1>9. SessionsOk'
    <2> SUFFICES ASSUME NEW r \in Request, phase'[r] = "registering"
                 PROVE  IsHttp2(socketOf[r])'
      BY <1>1, <1>2 DEF SessionsOk
    <2>1. /\ phase[r] \in Holding /\ phase[r] # "connecting"
          /\ phase[r] = "registering" \/ IsHttp2(socketOf[r])
      BY <1>3, Zenon DEF Releases, Holding
    <2>2. socketOf[r] \in Socket /\ socket[socketOf[r]] # "connecting"
      BY <2>1 DEF HoldersOk
    <2> QED BY <1>1, <1>6, <2>1, <2>2 DEF SessionsOk
  <1>10. OwnersOk'
    <2>1. \A t \in Socket : Private(t)' /\ socket[t] # "unused" => Private(t)
      BY <1>5, <1>6 DEF Private, HandsOutOpenSockets
    <2> QED BY <1>1, <1>2, <1>3, <2>1 DEF OwnersOk, Releases, HoldersOk
  <1> QED BY <1>2, <1>7, <1>8, <1>9, <1>10 DEF Held, CollectionsOk

-----------------------------------------------------------------------------
(* The inductive invariant *)

\* The pool and its closing state stay, sockets stay in use or come into use.
LEMMA CountStep ==
  ASSUME IInv, origin' = origin, UNCHANGED <<all, pooled, isClosing, connectorVars>>,
         \A s \in all : socket'[s] = socket[s], forWebsocket \subseteq forWebsocket',
         \A s \in Socket : socket[s] \in {"open", "closed"} => socket'[s] \in {"open", "closed"},
         \A r \in Request : phase'[r] = "connecting" =>
           \/ phase[r] = "connecting" /\ socketOf'[r] = socketOf[r]
           \/ socketOf'[r] \notin all
  PROVE  CountOk'
  <1> USE DEF IInv
  <1>1. (\A s \in all' : socket'[s] = "open" \/ s \in lost')
        /\ \A r \in Request : phase'[r] = "connecting" => socketOf'[r] \notin all'
    BY DEF CountOk
  <1>2. ASSUME ~isClosing', \A s \in Socket : socket'[s] \in {"open", "closed"} => Countable(s)'
        PROVE  pooled' = Cardinality(all')
    <2>1. \A s \in Socket : socket[s] \in {"open", "closed"} => Countable(s)
      BY <1>2 DEF Countable, IsHttp2, AlpnOf
    <2> QED BY <1>2, <2>1 DEF CountOk
  <1> QED BY <1>1, <1>2 DEF CountOk

\* The sockets of the pool are finitely many.
LEMMA AllFinite ==
  ASSUME TypeOK
  PROVE  /\ IsFiniteSet(all) /\ Cardinality(all) \in Nat
         /\ \A s : s \notin all => Cardinality(all \cup {s}) = Cardinality(all) + 1
         /\ \A s \in all : Cardinality(all \ {s}) = Cardinality(all) - 1
         /\ \A T \in SUBSET all : IsFiniteSet(T) /\ Cardinality(T) \in Nat /\ Cardinality(T) <= Cardinality(all)
  <1>1. IsFiniteSet(Socket)
    BY FS_Interval, SocketPoolAssumption DEF Socket, SocketPoolAssumption
  <1>2. IsFiniteSet(all)
    BY <1>1, FS_Subset DEF TypeOK
  <1>3. \A T \in SUBSET all : IsFiniteSet(T) /\ Cardinality(T) \in Nat /\ Cardinality(T) <= Cardinality(all)
    BY <1>2, FS_Subset, FS_CardinalityType
  <1> QED BY <1>2, <1>3, FS_CardinalityType, FS_AddElement, FS_RemoveElement

\* The count follows the close of a socket.
LEMMA CountCloses ==
  ASSUME IInv, origin' = origin, NEW ph, Releases(ph), NEW s \in Socket, socket[s] = "open",
         CloseSocket(s, ph), UNCHANGED <<socketOf, forWebsocket, isClosing, connectorVars>>
  PROVE  CountOk'
  <1> USE DEF IInv
  <1>1. /\ all' = all \ {s} /\ pooled' = IF s \in all THEN pooled - 1 ELSE pooled
        /\ \A t \in Socket : socket'[t] = IF t = s THEN "closed" ELSE socket[t]
        /\ all \subseteq Socket
    BY DEF CloseSocket, TypeOK
  <1>2. /\ \A t \in all' : socket'[t] = "open" \/ t \in lost'
        /\ \A r \in Request : phase'[r] = "connecting" => socketOf'[r] \notin all'
    <2>1. Releases(phase')
      BY WakeReleases DEF CloseSocket
    <2> QED BY <1>1, <2>1 DEF CountOk, Releases, Holding
  <1>3. ASSUME ~isClosing', \A t \in Socket : socket'[t] \in {"open", "closed"} => Countable(t)'
        PROVE  pooled' = Cardinality(all')
    <2>1. \A t \in Socket : socket[t] \in {"open", "closed"} => Countable(t)
      BY <1>1, <1>3 DEF Countable, IsHttp2, AlpnOf
    <2>2. pooled = Cardinality(all)
      BY <1>3, <2>1 DEF CountOk
    <2>3. s \notin all => all' = all
      BY <1>1
    <2> QED BY <1>1, <2>2, <2>3, AllFinite
  <1> QED BY <1>2, <1>3 DEF CountOk

\* A new connection is counted when it can be used again.
LEMMA CountConnects ==
  ASSUME IInv, origin' = origin, NEW r \in Request, Connected(r)
  PROVE  CountOk'
  <1> USE DEF IInv
  <1> DEFINE s == socketOf[r]
  <1>1. /\ s \in Socket /\ (IsWebsocket(r) => s \in forWebsocket) /\ phase[r] = "connecting"
        /\ socket[s] = "connecting" \/ (s \in lost /\ socket[s] = "closed")
    BY DEF Connected, HoldersOk, ConnectingOk, LostOk, Holding
  <1>2. /\ all' = all \cup {s} /\ UNCHANGED <<forWebsocket, isClosing, connectorVars>>
        /\ pooled' = IF Counts(r, s) THEN pooled + 1 ELSE pooled
        /\ \A t \in Socket : t # s => socket'[t] = socket[t]
        /\ socket'[s] = "open" \/ (s \in lost /\ socket'[s] = "closed")
        /\ all \subseteq Socket
    <2>1. s \in lost => socket[s] = "closed"
      BY DEF LostOk
    <2>2. socket' = [socket EXCEPT ![s] = "open"] \/ (s \in lost /\ socket' = socket)
      BY DEF Connected
    <2> QED BY <1>1, <2>1, <2>2 DEF Connected, TypeOK
  <1>3. s \notin all
    BY <1>1 DEF CountOk
  <1>4. /\ \A t \in all' : socket'[t] = "open" \/ t \in lost'
        /\ \A q \in Request : phase'[q] = "connecting" => socketOf'[q] \notin all'
    <2>1. \A q \in Request : q # r => socketOf'[q] = socketOf[q] /\ phase'[q] = phase[q]
      BY DEF Connected, Give, Becomes, TypeOK
    <2>2. phase'[r] # "connecting"
      BY DEF Connected, Give, Becomes, TypeOK
    <2>3. Private(s)
      BY <1>1 DEF Private, HandsOutOpenSockets, IsHttp2, AlpnOf
    <2>4. \A q \in Request : q # r /\ phase[q] = "connecting" => socketOf[q] # s
      BY <1>1, <2>3 DEF OwnersOk, Holding
    <2> QED BY <1>2, <2>1, <2>2, <2>4 DEF CountOk
  <1>5. ASSUME ~isClosing', \A t \in Socket : socket'[t] \in {"open", "closed"} => Countable(t)'
        PROVE  pooled' = Cardinality(all')
    <2>1. \A t \in Socket : Countable(t)' <=> Countable(t)
      BY <1>2 DEF Countable, IsHttp2, AlpnOf
    <2>2. Countable(s) /\ pooled = Cardinality(all)
      BY <1>1, <1>2, <1>5, <2>1 DEF CountOk
    <2>3. Counts(r, s)
      BY <1>1, <2>2 DEF Countable, Counts
    <2> QED BY <1>2, <1>3, <2>2, <2>3, AllFinite
  <1> QED BY <1>4, <1>5 DEF CountOk

\* Creating a session establishes the inductive invariant.
LEMMA InitIInv == Init => IInv
  <1> SUFFICES ASSUME Init PROVE IInv
    OBVIOUS
  <1>1. TypeOK
    <2>1. /\ phase \in [Request -> Phases] /\ aborted \subseteq Request
          /\ forWebsocket \subseteq Socket /\ isReused \subseteq Socket /\ all \subseteq Socket
          /\ lost \subseteq Socket
      BY DEF Init, Phases
    <2>2. /\ socketOf \in [Request -> Socket \cup {NoSocket}]
          /\ carrier \in [Request -> Socket \cup {NoSocket}]
          /\ socket \in [Socket -> {"unused", "connecting", "open", "closed"}]
      BY DEF Init
    <2>3. queue \in Seq(Request) /\ free \in Seq(Socket) /\ http2Sessions \in Seq(Socket)
      BY EmptySeq DEF Init
    <2>4. isClosing \in BOOLEAN /\ exited \in BOOLEAN
      BY DEF Init
    <2>5. pooled \in Int
      BY DEF Init
    <2>6. alpn \in {"none", "h2", "http/1.1"}
      BY DEF Init
    <2> QED BY <2>1, <2>2, <2>3, <2>4, <2>5, <2>6 DEF TypeOK
  <1>2. CollectionsOk /\ HandsOutOpenSockets /\ \A s : ~Contains(free, s)
    BY EmptyMembers DEF Init, CollectionsOk, HandsOutOpenSockets
  <1>3. HoldersOk /\ ConnectingOk /\ LostOk /\ SessionsOk /\ OwnersOk
    BY EmptyMembers DEF Init, HoldersOk, ConnectingOk, LostOk, SessionsOk, OwnersOk, Holding
  <1>4. CountOk
    BY FS_EmptySet DEF Init, CountOk
  <1> QED BY <1>1, <1>2, <1>3, <1>4 DEF IInv, Init

\* What the origin may be.
LEMMA OriginOk ==
  ASSUME origin \in Origins
  PROVE  /\ \A r \in Request : KindOf[r] \in {"http", "websocket", "alpn"}
         /\ \A s : AlpnOf(s) \in {"h2", "http/1.1"}
  BY SocketPoolAssumption DEF SocketPoolAssumption, KindOf, AlpnOf

\* Giving a socket keeps the types.
LEMMA GiveTypes ==
  ASSUME TypeOK, Distinct(free), NEW r \in Request, NEW s \in Socket, NEW rest \in Seq(Socket),
         Distinct(rest), Give(r, s, rest)
  PROVE  /\ phase' \in [Request -> Phases] /\ free' \in Seq(Socket)
         /\ socketOf' \in [Request -> Socket \cup {NoSocket}]
  BY AddFreeMembers DEF Give, TypeOK, Becomes, Phases

\* Closing a socket keeps the types.
LEMMA CloseTypes ==
  ASSUME TypeOK, CollectionsOk, NEW s \in Socket, NEW ph \in [Request -> Phases], CloseSocket(s, ph)
  PROVE  /\ phase' \in [Request -> Phases] /\ free' \in Seq(Socket) /\ http2Sessions' \in Seq(Socket)
         /\ socket' \in [Socket -> {"unused", "connecting", "open", "closed"}]
         /\ all' \subseteq Socket /\ pooled' \in Int /\ isReused' \subseteq Socket
  <1>1. free' \in Seq(Socket) /\ http2Sessions' \in Seq(Socket)
    BY RemoveFirstMembers DEF CloseSocket, DropFree, CloseHttp2Session, TypeOK, CollectionsOk
  <1>2. phase' \in [Request -> Phases]
    BY DEF CloseSocket, Wake, Phases
  <1> QED BY <1>1, <1>2 DEF CloseSocket, TypeOK

\* One step of the pool, for each thing a request or a socket can do.
StepOk == TypeOK' /\ Held' /\ CollectionsOk' /\ CountOk'

\* Steps in which a request only moves on.
LEMMA PhaseSteps ==
  ASSUME IInv, origin' = origin, Releases(phase'), carrier' \in [Request -> Socket \cup {NoSocket}],
         aborted' \subseteq Request, queue' \in Seq(Request),
         UNCHANGED <<socketOf, socketVars, poolVars, isClosing>>
  PROVE  StepOk
  <1> USE DEF IInv
  <1>1. Held' /\ CollectionsOk'
    BY PhaseStep DEF socketVars, poolVars, CollectionsOk
  <1>2. CountOk'
    BY CountStep DEF socketVars, poolVars, CountOk, Releases, Holding
  <1>3. TypeOK'
    BY DEF TypeOK, Releases, socketVars, poolVars
  <1> QED BY <1>1, <1>2, <1>3 DEF StepOk

\* Moving one request on.
LEMMA Moves ==
  ASSUME IInv, NEW r \in Request, NEW p \in Phases, p # "connecting",
         p \in Holding => phase[r] \in Holding /\ phase[r] # "connecting",
         p = "registering" => IsHttp2(socketOf[r]) /\ http2Sessions = <<>>
  PROVE  Releases([phase EXCEPT ![r] = p])
  BY DEF IInv, TypeOK, Releases

\* A request or a lookup joins the queue of the pool.
LEMMA Asks ==
  ASSUME IInv, origin' = origin, NEW r \in Request, LookupAlpn(r) \/ AssignSocket(r)
  PROVE  StepOk
  <1>1. PICK p \in {"done", "peeking", "queued"} : Becomes(r, p)
    BY DEF LookupAlpn, AssignSocket, Enqueue
  <1>2. Releases(phase')
    BY <1>1, Moves DEF Becomes, Phases, Holding
  <1>3. queue' \in Seq(Request)
    <2>1. queue \in Seq(Request) /\ Append(queue, r) \in Seq(Request)
      BY AppendProperties DEF IInv, TypeOK
    <2> QED BY <2>1 DEF LookupAlpn, AssignSocket, Enqueue
  <1>4. /\ carrier' \in [Request -> Socket \cup {NoSocket}] /\ aborted' \subseteq Request
        /\ UNCHANGED <<socketOf, socketVars, poolVars, isClosing>>
    BY DEF LookupAlpn, AssignSocket, IInv, TypeOK
  <1> QED BY <1>2, <1>3, <1>4, PhaseSteps

\* The request leaves the free sockets alone, and so gives or takes one.
LEMMA Takes ==
  ASSUME IInv, origin' = origin, NEW r \in Request, phase[r] \notin Holding,
         \/ Reuse(r) \/ Create(r)
         \/ /\ http2Sessions # <<>>
            /\ Give(r, Head(http2Sessions), free)
            /\ UNCHANGED <<socket, forWebsocket>>,
         queue' \in Seq(Request),
         UNCHANGED <<carrier, aborted, isReused, connectorVars, all, pooled, alpn, http2Sessions, isClosing>>
  PROVE  StepOk
  <1> USE DEF IInv
  <1>1. CASE Reuse(r)
    <2>1. PICK s \in Socket, rest \in Seq(Socket) :
            /\ Contains(free, s) /\ Distinct(rest)
            /\ \A t : Contains(rest, t) <=> Contains(free, t) /\ t # s
            /\ Give(r, s, rest) /\ UNCHANGED <<socket, forWebsocket>>
      BY <1>1, TailMembers DEF Reuse, TypeOK, CollectionsOk
    <2>2. (socket[s] = "open" /\ s \notin lost) \/ (socket[s] = "closed" /\ s \in lost)
      BY <2>1 DEF HandsOutOpenSockets, LostOk
    <2>3. Private(s)' => Private(s)
      BY <2>1, SameProtocol DEF Private
    <2>4. \A q \in Request : phase[q] \in Holding /\ Private(s) => socketOf[q] # s
      BY <2>1 DEF OwnersOk
    <2>5. \A q \in Request : phase[q] = "connecting" => socketOf[q] # s
      <3>1. s \in lost => Private(s)
        BY DEF Private, IsHttp2, AlpnOf
      <3> QED BY <2>2, <2>4, <3>1 DEF ConnectingOk, Holding
    <2>6. Held' /\ CollectionsOk'
      <3>1. /\ socket' \in [Socket -> {"unused", "connecting", "open", "closed"}]
            /\ (socket'[s] = "open" /\ s \notin lost) \/ (socket'[s] = "closed" /\ s \in lost)
            /\ \A t \in Socket : socket'[t] = socket[t]
        BY <2>1, <2>2 DEF TypeOK
      <3>2. \A q \in Request : q # r /\ phase[q] = "connecting" => socketOf[q] # s
        BY <2>5
      <3>3. Private(s)' => /\ ~Contains(rest, s)
                           /\ \A q \in Request : q # r /\ phase[q] \in Holding => socketOf[q] # s
        BY <2>1, <2>3, <2>4
      <3>4. \A t : Contains(rest, t) => Contains(free, t)
        BY <2>1
      <3> QED BY <2>1, <3>1, <3>2, <3>3, <3>4, GiveStep
    <2>7. CountOk'
      <3>1. \A q \in Request : phase'[q] = "connecting" => phase[q] = "connecting" /\ socketOf'[q] = socketOf[q]
        BY <2>1 DEF Give, Becomes, TypeOK
      <3> QED BY <2>1, <3>1, CountStep DEF CountOk
    <2>8. TypeOK'
      BY <2>1, GiveTypes DEF TypeOK, CollectionsOk
    <2> QED BY <2>6, <2>7, <2>8 DEF StepOk
  <1>2. CASE Create(r)
    <2>1. Held' /\ CollectionsOk'
      BY <1>2, CreateStep
    <2>2. PICK s \in Socket :
            /\ socket[s] = "unused" /\ socket' = [socket EXCEPT ![s] = "connecting"]
            /\ forWebsocket' = IF IsWebsocket(r) THEN forWebsocket \cup {s} ELSE forWebsocket
            /\ socketOf' = [socketOf EXCEPT ![r] = s] /\ phase' = [phase EXCEPT ![r] = "connecting"]
      BY <1>2 DEF Create, Becomes
    <2>3. free' = free
      BY <1>2 DEF Create
    <2>4. CountOk'
      <3>1. s \notin all
        BY <2>2 DEF CountOk, LostOk
      <3>2. /\ \A t \in all : socket'[t] = socket[t]
            /\ \A t \in Socket : socket[t] \in {"open", "closed"} => socket'[t] \in {"open", "closed"}
            /\ \A q \in Request : phase'[q] = "connecting" =>
                 \/ phase[q] = "connecting" /\ socketOf'[q] = socketOf[q]
                 \/ socketOf'[q] \notin all
        BY <2>2, <3>1 DEF TypeOK
      <3> QED BY <2>2, <3>2, CountStep
    <2>5. TypeOK'
      BY <2>2, <2>3 DEF TypeOK, Phases
    <2> QED BY <2>1, <2>4, <2>5 DEF StepOk
  <1>3. CASE /\ http2Sessions # <<>>
             /\ Give(r, Head(http2Sessions), free)
             /\ UNCHANGED <<socket, forWebsocket>>
    <2>1. PICK s \in Socket : s = Head(http2Sessions) /\ Contains(http2Sessions, s)
      BY <1>3, TailMembers DEF TypeOK
    <2>2. socket[s] = "open" /\ IsHttp2(s) /\ s \notin lost
      BY <2>1 DEF HandsOutOpenSockets, SessionsOk, LostOk
    <2>3. ~Private(s)'
      BY <1>3, <2>1, <2>2, SameProtocol DEF Private
    <2>4. \A q \in Request : phase[q] = "connecting" => socketOf[q] # s
      BY <2>2 DEF ConnectingOk
    <2>9. \A q \in Request : phase'[q] = "connecting" => phase[q] = "connecting" /\ socketOf'[q] = socketOf[q]
      BY <1>3 DEF Give, Becomes, TypeOK
    <2>5. Give(r, s, free) /\ UNCHANGED <<socket, forWebsocket>> /\ free \in Seq(Socket) /\ Distinct(free)
      BY <1>3, <2>1 DEF TypeOK, CollectionsOk
    <2>6. Held' /\ CollectionsOk'
      BY <2>1, <2>2, <2>3, <2>4, <2>5, GiveStep DEF TypeOK
    <2>7. CountOk'
      BY <2>5, <2>9, CountStep DEF CountOk
    <2>8. TypeOK'
      BY <2>1, <2>5, GiveTypes DEF TypeOK
    <2> QED BY <2>6, <2>7, <2>8 DEF StepOk
  <1> QED BY <1>1, <1>2, <1>3

\* The serial queue runs its next entry.
LEMMA QueueRuns ==
  ASSUME IInv, origin' = origin, RunQueue
  PROVE  StepOk
  <1> USE DEF IInv
  <1>1. PICK r \in Request : /\ r = Head(queue) /\ Tail(queue) \in Seq(Request)
                            /\ Append(Tail(queue), r) \in Seq(Request)
    BY HeadTailProperties, AppendProperties DEF RunQueue, TypeOK
  <1>2. /\ queue' \in Seq(Request)
        /\ UNCHANGED <<carrier, aborted, isReused, connectorVars, all, pooled, alpn, http2Sessions, isClosing>>
    BY <1>1 DEF RunQueue
  <1>3. \/ phase[r] = "queued" /\ GetSocket(r)
        \/ /\ \E p \in {"done", "queued"} : Becomes(r, p)
           /\ UNCHANGED <<socketOf, free, socket, forWebsocket>>
    BY <1>1 DEF RunQueue
  <1>4. CASE \/ phase[r] = "queued" /\ Becomes(r, "waiting") /\ UNCHANGED <<socketOf, free, socket, forWebsocket>>
             \/ /\ \E p \in {"done", "queued"} : Becomes(r, p)
                /\ UNCHANGED <<socketOf, free, socket, forWebsocket>>
    <2>1. PICK p \in {"waiting", "done", "queued"} : Becomes(r, p)
      BY <1>4
    <2>2. Releases(phase')
      BY <1>1, <2>1, Moves DEF Becomes, Phases, Holding
    <2> QED BY <1>2, <1>4, <2>2, PhaseSteps DEF socketVars, poolVars, TypeOK
  <1>5. CASE /\ phase[r] = "queued"
             /\ \/ Reuse(r) \/ Create(r)
                \/ /\ http2Sessions # <<>>
                   /\ Give(r, Head(http2Sessions), free)
                   /\ UNCHANGED <<socket, forWebsocket>>
    BY <1>1, <1>2, <1>5, Takes DEF Holding
  <1> QED BY <1>3, <1>4, <1>5 DEF GetSocket, Take

\* getSocket goes on after its wait for a free place.
LEMMA Resumes ==
  ASSUME IInv, origin' = origin, NEW r \in Request, Resume(r)
  PROVE  StepOk
  <1>1. phase[r] \notin Holding /\ (Reuse(r) \/ Create(r)) /\ queue' \in Seq(Request)
    BY DEF Resume, Take, Holding, IInv, TypeOK
  <1>2. UNCHANGED <<carrier, aborted, isReused, connectorVars, all, pooled, alpn, http2Sessions, isClosing>>
    BY DEF Resume
  <1> QED BY <1>1, <1>2, Takes

\* A connection is there, or is not.
LEMMA Connects ==
  ASSUME IInv, origin' = origin, NEW r \in Request, Connected(r) \/ ConnectFails(r)
  PROVE  StepOk
  <1> USE DEF IInv
  <1>1. CASE Connected(r)
    <2>1. PICK s \in Socket : /\ s = socketOf[r]
                              /\ socket[s] = "connecting" \/ (s \in lost /\ socket[s] = "closed")
      BY <1>1 DEF Connected, HoldersOk, ConnectingOk, LostOk, Holding
    <2>2. /\ \/ socket' = [socket EXCEPT ![s] = "open"] /\ socket[s] = "connecting"
             \/ socket' = socket /\ s \in lost
          /\ Give(r, s, free) /\ all' = all \cup {s}
          /\ alpn' = AlpnOf(s) /\ pooled' = (IF Counts(r, s) THEN pooled + 1 ELSE pooled)
          /\ UNCHANGED <<carrier, aborted, forWebsocket, isReused, connectorVars, http2Sessions, queue, isClosing>>
          /\ phase[r] = "connecting"
      BY <1>1, <2>1 DEF Connected
    <2>3. Private(s) /\ ~Contains(http2Sessions, s)
      BY <2>1 DEF HandsOutOpenSockets, Private, IsHttp2, AlpnOf
    <2>4. ~Contains(free, s) /\ \A q \in Request : q # r /\ phase[q] \in Holding => socketOf[q] # s
      BY <2>1, <2>2, <2>3 DEF OwnersOk, Holding
    <2>5. free \in Seq(Socket) /\ Distinct(free)
      BY DEF TypeOK, CollectionsOk
    <2>6. /\ socket' \in [Socket -> {"unused", "connecting", "open", "closed"}]
          /\ (socket'[s] = "open" /\ s \notin lost) \/ (socket'[s] = "closed" /\ s \in lost)
          /\ \A t \in Socket : t # s => socket'[t] = socket[t]
      BY <2>1, <2>2 DEF TypeOK, LostOk
    <2>7. Held' /\ CollectionsOk'
      <3>1. \A q \in Request : q # r /\ phase[q] = "connecting" => socketOf[q] # s
        BY <2>4 DEF Holding
      <3>2. Private(s)' => /\ ~Contains(free, s)
                           /\ \A q \in Request : q # r /\ phase[q] \in Holding => socketOf[q] # s
        BY <2>4
      <3> QED BY <2>2, <2>5, <2>6, <3>1, <3>2, GiveStep
    <2>8. CountOk'
      BY <1>1, CountConnects
    <2>9. TypeOK'
      <3>1. /\ phase' \in [Request -> Phases] /\ free' \in Seq(Socket)
            /\ socketOf' \in [Request -> Socket \cup {NoSocket}]
        BY <2>2, <2>5, GiveTypes
      <3>2. alpn' \in {"none", "h2", "http/1.1"} /\ pooled' \in Int
        BY <2>2, OriginOk DEF TypeOK
      <3> QED BY <2>2, <2>6, <3>1, <3>2 DEF TypeOK
    <2> QED BY <2>7, <2>8, <2>9 DEF StepOk
  <1>2. CASE ConnectFails(r)
    <2>1. Held' /\ CollectionsOk'
      BY <1>2, ConnectFailsStep
    <2>2. /\ socketOf[r] \in Socket /\ phase' = [phase EXCEPT ![r] = "failed"]
          /\ \/ socket[socketOf[r]] = "connecting" /\ socket' = [socket EXCEPT ![socketOf[r]] = "closed"]
             \/ socket' = socket
          /\ socketOf[r] \notin all
      BY <1>2 DEF ConnectFails, Becomes, HoldersOk, CountOk, Holding
    <2>3. UNCHANGED <<socketOf, carrier, aborted, forWebsocket, isReused, connectorVars, all, free, pooled, alpn,
                      http2Sessions, queue, isClosing>>
      BY <1>2 DEF ConnectFails, poolVars
    <2>4. CountOk'
      <3>1. /\ \A t \in all : socket'[t] = socket[t]
            /\ \A t \in Socket : socket[t] \in {"open", "closed"} => socket'[t] \in {"open", "closed"}
            /\ \A q \in Request : phase'[q] = "connecting" => phase[q] = "connecting"
        BY <2>2 DEF TypeOK
      <3> QED BY <2>3, <3>1, CountStep
    <2>5. TypeOK'
      BY <2>2, <2>3 DEF TypeOK, Phases
    <2> QED BY <2>1, <2>4, <2>5 DEF StepOk
  <1> QED BY <1>1, <1>2

\* A socket closes: the server, the Go process or the proxy closed it.
LEMMA Closes ==
  ASSUME IInv, origin' = origin, NEW ph, Releases(ph), NEW s \in Socket, socket[s] = "open",
         CloseSocket(s, ph), queue' \in Seq(Request),
         UNCHANGED <<socketOf, carrier, aborted, forWebsocket, connectorVars, alpn, isClosing>>
  PROVE  StepOk
  <1> USE DEF IInv
  <1>1. Held' /\ CollectionsOk'
    BY CloseStep
  <1>2. CountOk'
    BY CountCloses
  <1>3. TypeOK'
    BY CloseTypes DEF TypeOK, Releases
  <1> QED BY <1>1, <1>2, <1>3 DEF StepOk

\* The request over its socket.
LEMMA Uses ==
  ASSUME IInv, origin' = origin, NEW r \in Request,
         \/ Http1Request(r) \/ ProbeOk(r) \/ ProbeFails(r) \/ Http2Request(r) \/ SocketLost(r)
  PROVE  StepOk
  <1> USE DEF IInv
  <1>1. queue \in Seq(Request) /\ carrier \in [Request -> Socket \cup {NoSocket}] /\ aborted \subseteq Request
    BY DEF TypeOK
  <1>2. CASE Http1Request(r) \/ ProbeOk(r) \/ SocketLost(r)
    <2>1. PICK p \in {"probing", "sending", "failed"} : Becomes(r, p)
      BY <1>2 DEF Http1Request, ProbeOk, SocketLost
    <2>2. phase[r] \in Holding /\ phase[r] # "connecting"
      BY <1>2 DEF Http1Request, ProbeOk, SocketLost, Holding
    <2>3. Releases(phase')
      BY <2>1, <2>2, Moves DEF Becomes, Phases
    <2>4. carrier' \in [Request -> Socket \cup {NoSocket}]
      BY <1>1, <1>2 DEF Http1Request, ProbeOk, SocketLost, TypeOK
    <2>5. UNCHANGED <<socketOf, aborted, socketVars, poolVars, queue, isClosing>>
      BY <1>2 DEF Http1Request, ProbeOk, SocketLost
    <2> QED BY <1>1, <2>3, <2>4, <2>5, PhaseSteps
  <1>3. CASE Http2Request(r)
    <2>1. /\ phase[r] \in Holding /\ phase[r] # "connecting" /\ IsHttp2(socketOf[r])
          /\ UNCHANGED <<socketOf, aborted, socketVars, poolVars, queue, isClosing>>
      BY <1>3 DEF Http2Request, Holding
    <2>2. Releases(phase')
      BY <1>3, <2>1, Moves DEF Http2Request, Becomes, Phases
    <2>3. carrier' \in [Request -> Socket \cup {NoSocket}]
      <3>1. http2Sessions # <<>> => Head(http2Sessions) \in Socket
        BY HeadTailProperties DEF TypeOK
      <3> QED BY <1>1, <1>3, <3>1 DEF Http2Request
    <2> QED BY <1>1, <2>1, <2>2, <2>3, PhaseSteps
  <1>4. CASE ProbeFails(r)
    <2> DEFINE ph == [phase EXCEPT ![r] = IF isClosing THEN "failed" ELSE "queued"]
    <2>1. Releases(ph)
      BY Moves DEF Phases, Holding
    <2>2. queue' \in Seq(Request)
      BY <1>1, <1>4, AppendProperties DEF ProbeFails
    <2>3. UNCHANGED <<socketOf, carrier, aborted, forWebsocket, connectorVars, alpn, isClosing>>
      BY <1>4 DEF ProbeFails
    <2>4. PICK s \in Socket : s = socketOf[r]
      BY <1>4 DEF ProbeFails, HoldersOk, Holding
    <2>5. CASE socket[s] = "open" /\ CloseSocket(s, ph)
      BY <2>1, <2>2, <2>3, <2>5, Closes
    <2>6. CASE phase' = ph /\ UNCHANGED <<socket, isReused, all, free, pooled, http2Sessions>>
      BY <1>1, <2>1, <2>2, <2>3, <2>6, PhaseSteps DEF socketVars, poolVars
    <2> QED BY <1>4, <2>4, <2>5, <2>6 DEF ProbeFails
  <1> QED BY <1>2, <1>3, <1>4

\* A session of HTTP/2 is registered, or its socket was gone.
LEMMA Registers ==
  ASSUME IInv, origin' = origin, NEW r \in Request, RegisterHttp2Session(r)
  PROVE  StepOk
  <1> USE DEF IInv
  <1>1. /\ phase[r] = "registering" /\ socketOf[r] \in Socket
        /\ UNCHANGED <<socketOf, aborted, socketVars, all, free, pooled, alpn, queue, isClosing>>
    BY DEF RegisterHttp2Session, HoldersOk, Holding
  <1>2. CASE /\ socket[socketOf[r]] = "open"
             /\ http2Sessions' = Append(http2Sessions, socketOf[r])
             /\ carrier' = [carrier EXCEPT ![r] = socketOf[r]]
             /\ Becomes(r, "sending")
    <2>1. Held' /\ CollectionsOk'
      BY <1>1, <1>2, RegisterStep DEF socketVars
    <2>2. CountOk'
      BY <1>1, <1>2, CountStep DEF socketVars, CountOk, Becomes, TypeOK
    <2>3. http2Sessions' \in Seq(Socket)
      BY <1>1, <1>2, AppendProperties DEF TypeOK
    <2>4. TypeOK'
      BY <1>1, <1>2, <2>3 DEF TypeOK, socketVars, Becomes, Phases
    <2> QED BY <2>1, <2>2, <2>4 DEF StepOk
  <1>3. CASE Becomes(r, "failed") /\ UNCHANGED <<http2Sessions, carrier>>
    <2>1. Releases(phase')
      BY <1>3, Moves DEF Becomes, Phases, Holding
    <2> QED BY <1>1, <1>3, <2>1, PhaseSteps DEF poolVars, TypeOK
  <1> QED BY <1>2, <1>3 DEF RegisterHttp2Session

\* The end of a request, of a websocket, and of the client's patience.
LEMMA Ends ==
  ASSUME IInv, origin' = origin, NEW r \in Request, Respond(r) \/ WebsocketEnds(r) \/ ClientError(r)
  PROVE  StepOk
  <1> USE DEF IInv
  <1> DEFINE done == [phase EXCEPT ![r] = "done"]
  <1>1. Releases(done) /\ queue \in Seq(Request) /\ carrier \in [Request -> Socket \cup {NoSocket}]
        /\ aborted \subseteq Request
    BY Moves DEF Phases, Holding, TypeOK
  <1>2. CASE Respond(r)
    <2>1. /\ phase[r] \in Holding /\ UNCHANGED <<socketOf, carrier, aborted, forWebsocket, connectorVars, alpn, queue, isClosing>>
          /\ socket[socketOf[r]] = "open"
      BY <1>2 DEF Respond, Holding
    <2>2. PICK s \in Socket : s = socketOf[r]
      BY <2>1 DEF HoldersOk
    <2>3. CASE IsHttp2(s)
      <3>1. phase' = done /\ UNCHANGED <<socket, isReused, all, free, pooled, http2Sessions>>
        BY <1>2, <2>2, <2>3 DEF Respond
      <3> QED BY <1>1, <2>1, <3>1, PhaseSteps DEF socketVars, poolVars
    <2>4. CASE ~IsHttp2(s) /\ FreeSocket(s, done)
      <3>1. Held' /\ CollectionsOk'
        BY <2>1, <2>2, <2>4, FreeStep
      <3>2. CountOk'
        BY <1>1, <2>1, <2>4, WakeReleases, CountStep DEF FreeSocket, CountOk, Releases, Holding
      <3>3. free' \in Seq(Socket)
        BY <2>4, AddFreeMembers DEF FreeSocket, TypeOK, CollectionsOk
      <3>4. phase' \in [Request -> Phases]
        BY <1>1, <2>4, WakeReleases DEF FreeSocket, Releases
      <3>5. TypeOK'
        BY <2>1, <2>4, <3>3, <3>4 DEF TypeOK, FreeSocket
      <3> QED BY <3>1, <3>2, <3>5 DEF StepOk
    <2>5. CASE ~IsHttp2(s) /\ CloseSocket(s, done)
      BY <1>1, <2>1, <2>2, <2>5, Closes
    <2> QED BY <1>2, <2>2, <2>3, <2>4, <2>5 DEF Respond
  <1>3. CASE WebsocketEnds(r)
    <2>1. PICK s \in Socket : s = socketOf[r]
      BY <1>3 DEF WebsocketEnds, HoldersOk, Holding
    <2>2. socket[s] = "open" /\ CloseSocket(s, done)
          /\ UNCHANGED <<socketOf, carrier, aborted, forWebsocket, connectorVars, alpn, queue, isClosing>>
      BY <1>3, <2>1 DEF WebsocketEnds
    <2> QED BY <1>1, <2>2, Closes
  <1>4. CASE ClientError(r)
    <2>1. UNCHANGED <<socketOf, carrier, socketVars, poolVars, queue, isClosing>> /\ aborted' \subseteq Request
      BY <1>1, <1>4 DEF ClientError
    <2>2. Releases(phase')
      <3>1. Releases([phase EXCEPT ![r] = "failed"])
        BY Moves DEF Phases, Holding
      <3>2. Releases(phase)
        BY DEF Releases, TypeOK
      <3> QED BY <1>4, <3>1, <3>2 DEF ClientError, Becomes
    <2> QED BY <1>1, <2>1, <2>2, PhaseSteps
  <1> QED BY <1>2, <1>3, <1>4

\* The session of the user is closed.
LEMMA SessionCloses ==
  ASSUME IInv, origin' = origin, CloseSession
  PROVE  StepOk
  <1> USE DEF IInv
  <1>1. Held' /\ CollectionsOk'
    BY CloseSessionStep
  <1>2. CountOk'
    BY DEF CloseSession, CloseSockets, CountOk
  <1>3. /\ free' \in Seq(Socket) /\ http2Sessions' \in Seq(Socket) /\ queue' \in Seq(Request)
    BY EmptySeq DEF CloseSession, CloseSockets
  <1>4. pooled' \in Int
    BY AllFinite DEF CloseSession, CloseSockets, TypeOK
  <1>5. /\ phase' \in [Request -> Phases]
        /\ socket' \in [Socket -> {"unused", "connecting", "open", "closed"}]
    BY DEF CloseSession, CloseSockets, TypeOK, Phases
  <1>6. isClosing' \in BOOLEAN
    BY DEF CloseSession
  <1>7. TypeOK'
    BY <1>3, <1>4, <1>5, <1>6 DEF TypeOK, CloseSession, CloseSockets
  <1> QED BY <1>1, <1>2, <1>7 DEF StepOk

\* The connector exits.
LEMMA Exits ==
  ASSUME IInv, origin' = origin, ConnectorExits
  PROVE  StepOk
  <1> USE DEF IInv
  <1>1. Held' /\ CollectionsOk'
    BY ConnectorExitsStep
  <1>2. all' = {} /\ lost = {} /\ UNCHANGED <<isClosing, forWebsocket>>
    BY DEF ConnectorExits, CloseSockets, LostOk
  <1>3. pooled' = pooled - Cardinality(all) /\ pooled' \in Int
    <2>1. {s \in all : socket[s] = "open"} = all
      BY <1>2 DEF CountOk
    <2>2. Cardinality(all) \in Nat /\ pooled \in Int
      BY AllFinite DEF TypeOK
    <2>3. pooled' = pooled - Cardinality(all)
      BY <2>1 DEF ConnectorExits, CloseSockets
    <2> QED BY <2>2, <2>3
  <1>4. CountOk'
    <2> SUFFICES ASSUME ~isClosing', \A s \in Socket : socket'[s] \in {"open", "closed"} => Countable(s)'
                 PROVE  pooled' = Cardinality(all')
      BY <1>2 DEF CountOk
    <2>1. \A s \in Socket : socket[s] \in {"open", "closed"} => socket'[s] = "closed" /\ s \notin lost'
      BY DEF ConnectorExits, CloseSockets, TypeOK
    <2>2. \A s \in Socket : socket[s] \in {"open", "closed"} => Countable(s)
      BY <1>2, <2>1 DEF Countable, IsHttp2, AlpnOf
    <2>3. pooled = Cardinality(all)
      BY <1>2, <2>2 DEF CountOk
    <2> QED BY <1>2, <1>3, <2>3, AllFinite, FS_EmptySet
  <1>5. free' \in Seq(Socket) /\ http2Sessions' \in Seq(Socket)
    BY EmptySeq DEF ConnectorExits, CloseSockets
  <1>6. phase' \in [Request -> Phases]
    BY DEF ConnectorExits, TypeOK, Wake, Phases
  <1>7. socket' \in [Socket -> {"unused", "connecting", "open", "closed"}]
    BY DEF ConnectorExits, CloseSockets, TypeOK
  <1>8. TypeOK'
    BY <1>2, <1>3, <1>5, <1>6, <1>7 DEF TypeOK, ConnectorExits
  <1> QED BY <1>1, <1>4, <1>8 DEF StepOk

\* Every step keeps the inductive invariant.
LEMMA StepIInv == IInv /\ [Next]_vars => IInv'
  <1> SUFFICES ASSUME IInv, [Next]_vars PROVE IInv'
    OBVIOUS
  <1>1. CASE Next
    <2>1. origin' = origin
      BY <1>1 DEF Next
    <2>2. StepOk
      <3>1. ASSUME NEW r \in Request, RequestStep(r) PROVE StepOk
        BY <2>1, <3>1, Asks, Resumes, Connects, Uses, Registers, Ends DEF RequestStep, UseSocket
      <3>2. ASSUME NEW s \in Socket, SocketCloses(s) PROVE StepOk
        <4>1. Releases(phase) /\ queue' \in Seq(Request)
          BY <3>2 DEF Releases, IInv, TypeOK, SocketCloses
        <4> QED BY <2>1, <3>2, <4>1, Closes DEF SocketCloses
      <3> QED BY <1>1, <2>1, <3>1, <3>2, QueueRuns, SessionCloses, Exits DEF Next
    <2> QED BY <2>1, <2>2 DEF StepOk, Held, IInv
  <1>2. CASE UNCHANGED vars
    <2>1. Releases(phase')
      BY <1>2 DEF Releases, IInv, TypeOK, vars, systemVars, requestVars
    <2>2. StepOk
      BY <1>2, <2>1, PhaseSteps DEF vars, systemVars, requestVars, socketVars, poolVars, IInv, TypeOK
    <2> QED BY <1>2, <2>2 DEF StepOk, Held, IInv, vars
  <1> QED BY <1>1, <1>2

\* IInv is an invariant: who holds which socket, what the collections of the pool
\* hold, and what the count counts.
THEOREM Inductive == Spec => []IInv
  BY InitIInv, StepIInv, PTL DEF Spec

-----------------------------------------------------------------------------
\* Every variable of the pool keeps its type, whatever the requests, the
\* maximum of connections and the origin are.
THEOREM TypeCorrect == Spec => []TypeOK
  <1>1. IInv => TypeOK
    BY DEF IInv
  <1> QED BY <1>1, Inductive, PTL

\* What SocketPool.getSocket can hand out, a free socket or the session of the
\* origin, is open, for any requests, limits, origin and order of the closes, except
\* a free socket that the exit of the connector closed before the pool listened.
THEOREM OnlyOpenSockets == Spec => []HandsOutOpenSockets
  <1>1. IInv => HandsOutOpenSockets
    BY DEF IInv
  <1> QED BY <1>1, Inductive, PTL

\* A connection of HTTP/1.1 has one request at a time and is not free meanwhile,
\* through reuse, failed probes, retries and the clients' errors.
THEOREM NoSharedConnection == Spec => []OneRequestPerConnection
  <1>1. IInv => OneRequestPerConnection
    BY DEF IInv, OneRequestPerConnection, Busy, OwnersOk, Private, Holding
  <1> QED BY <1>1, Inductive, PTL

\* The count that throttles new connections is the number of the sockets in the pool,
\* for every origin whose sockets can all be used again: those that have connected and
\* whose close was not heard.  One that is being made is not counted.
THEOREM CountIsExact == Spec => []PooledIsExact
  <1>1. IInv => PooledIsExact
    <2> SUFFICES ASSUME IInv, ~isClosing, \A s \in Socket : socket[s] # "unused" => Countable(s)
                 PROVE  pooled = Cardinality({s \in all : Countable(s)})
      BY DEF PooledIsExact
    <2>1. \A s \in all : Countable(s)
      BY DEF IInv, CountOk, LostOk, TypeOK
    <2>2. {s \in all : Countable(s)} = all
      BY <2>1
    <2> QED BY <2>2 DEF IInv, CountOk
  <1> QED BY <1>1, Inductive, PTL

\* A session of HTTP/2 is registered at most once: no socket is twice in the
\* collections of the pool, and only HTTP/2 sockets carry a session.
THEOREM SessionsAreDistinct ==
  Spec => [](/\ Distinct(free) /\ Distinct(http2Sessions)
             /\ \A s \in Socket : Contains(http2Sessions, s) => IsHttp2(s))
  <1>1. IInv => /\ Distinct(free) /\ Distinct(http2Sessions)
                /\ \A s \in Socket : Contains(http2Sessions, s) => IsHttp2(s)
    BY DEF IInv, CollectionsOk, SessionsOk
  <1> QED BY <1>1, Inductive, PTL
-----------------------------------------------------------------------------
(* The limit of the origin *)

\* The connection that is being made has a place.  A request that was woken has
\* one too, or finds the socket that was freed for it.
LimitOk ==
  /\ pooled <= MaxConnections
  /\ \A s \in Socket : socket[s] = "open" => s \in all /\ ~isClosing
  /\ \A r, q \in Running : r = q
  /\ \A r \in Request : /\ phase[r] = "woken" => free # <<>> \/ pooled < MaxConnections
                        /\ phase[r] = "connecting" => pooled < MaxConnections

\* Requests that hold the queue let go of it or keep their place in it.
LEMMA LimitMoves ==
  ASSUME IInv, LimitOk, UNCHANGED <<pooled, socket, all, free, isClosing>>,
         \A r \in Request : phase'[r] \in {"waiting", "woken", "connecting"} => phase'[r] = phase[r]
  PROVE  LimitOk'
  BY DEF LimitOk, Running

\* The close of a socket gives a place, or leaves the free ones there.
LEMMA LimitCloses ==
  ASSUME IInv, LimitOk, NEW ph, ph \in [Request -> Phases],
         \A r \in Request : ph[r] \in {"waiting", "woken", "connecting"} => ph[r] = phase[r],
         NEW s \in Socket, socket[s] = "open", CloseSocket(s, ph), UNCHANGED isClosing
  PROVE  LimitOk'
  <1> USE DEF IInv, LimitOk
  <1>1. s \in all /\ pooled \in Int /\ MaxConnections \in Nat
    BY SocketPoolAssumption DEF TypeOK, SocketPoolAssumption
  <1>2. /\ pooled' = pooled - 1 /\ all' = all \ {s}
        /\ \A t \in Socket : socket'[t] = IF t = s THEN "closed" ELSE socket[t]
    BY <1>1 DEF CloseSocket, TypeOK
  <1>3. \A r \in Request : phase'[r] \in {"waiting", "woken", "connecting"} =>
          phase'[r] = phase[r] \/ (phase[r] = "waiting" /\ phase'[r] = "woken")
    BY DEF CloseSocket, Wake
  <1>4. \A r, q \in Running' : r = q
    BY <1>3 DEF Running
  <1>5. pooled' < MaxConnections
    BY <1>1, <1>2
  <1> QED BY <1>1, <1>2, <1>4, <1>5

\* getSocket takes a socket or starts a connection for the one request that
\* holds the queue.
LEMMA LimitTakes ==
  ASSUME IInv, LimitOk, NEW r \in Request, \A q \in Running : q = r,
         UNCHANGED <<pooled, all, isClosing>>,
         \/ Reuse(r)
         \/ Create(r) /\ pooled < MaxConnections
         \/ \E s : Give(r, s, free) /\ UNCHANGED socket
  PROVE  LimitOk'
  <1> USE DEF IInv, LimitOk
  <1>1. phase \in [Request -> Phases]
    BY DEF TypeOK
  <1>2. CASE Reuse(r) \/ \E s : Give(r, s, free) /\ UNCHANGED socket
    <2>1. /\ UNCHANGED socket
          /\ phase'[r] \in {"done", "failed", "assigned"}
          /\ \A q \in Request : q # r => phase'[q] = phase[q]
      BY <1>1, <1>2 DEF Reuse, Give, Becomes
    <2>2. \A q \in Request : phase'[q] \notin {"waiting", "woken", "connecting"}
      BY <2>1 DEF Running
    <2> QED BY <2>1, <2>2 DEF Running
  <1>3. CASE Create(r) /\ pooled < MaxConnections
    <2>1. /\ phase'[r] = "connecting" /\ free' = free
          /\ \A q \in Request : q # r => phase'[q] = phase[q]
      BY <1>1, <1>3 DEF Create, Becomes
    <2>2. \A t \in Socket : socket'[t] = "open" => socket[t] = "open"
      BY <1>3 DEF Create, TypeOK
    <2> QED BY <1>3, <2>1, <2>2 DEF Running
  <1> QED BY <1>2, <1>3

\* Every step keeps the limit.
LEMMA LimitStep == IInv /\ LimitOk /\ [Next]_vars => LimitOk'
  <1> SUFFICES ASSUME IInv, LimitOk, [Next]_vars PROVE LimitOk'
    OBVIOUS
  <1> USE DEF IInv
  <1>1. /\ phase \in [Request -> Phases] /\ pooled \in Int /\ MaxConnections \in Nat /\ all \subseteq Socket
        /\ socket \in [Socket -> {"unused", "connecting", "open", "closed"}]
    BY SocketPoolAssumption DEF TypeOK, SocketPoolAssumption
  <1>2. ASSUME NEW r \in Request,
               \/ LookupAlpn(r) \/ AssignSocket(r) \/ Http1Request(r) \/ ProbeOk(r)
               \/ Http2Request(r) \/ RegisterHttp2Session(r) \/ SocketLost(r) \/ ClientError(r)
        PROVE  LimitOk'
    <2>1. \E p \in {"done", "peeking", "queued", "probing", "sending", "registering", "failed"} :
            phase' = [phase EXCEPT ![r] = p] \/ phase' = phase
      BY <1>2 DEF LookupAlpn, AssignSocket, Http1Request, ProbeOk, Http2Request, RegisterHttp2Session,
                  SocketLost, ClientError, Becomes, Enqueue
    <2>2. UNCHANGED <<pooled, socket, all, free, isClosing>>
      BY <1>2 DEF LookupAlpn, AssignSocket, Http1Request, ProbeOk, Http2Request, RegisterHttp2Session,
                  SocketLost, ClientError, socketVars, poolVars
    <2> QED BY <1>1, <2>1, <2>2, LimitMoves
  <1>3. ASSUME NEW r \in Request, Resume(r) PROVE LimitOk'
    <2>1. \A q \in Running : q = r
      BY <1>3 DEF Resume, Running, LimitOk
    <2>2. Create(r) => pooled < MaxConnections
      BY <1>3 DEF Resume, Create, LimitOk
    <2>3. \/ Reuse(r)
          \/ Create(r) /\ pooled < MaxConnections
          \/ \E s : Give(r, s, free) /\ UNCHANGED socket
      BY <1>3, <2>2 DEF Resume, Take
    <2>4. UNCHANGED <<pooled, all, isClosing>>
      BY <1>3 DEF Resume
    <2> QED BY <2>1, <2>3, <2>4, LimitTakes
  <1>4. CASE RunQueue
    <2>1. PICK r \in Request : r = Head(queue)
      BY <1>4, HeadTailProperties DEF RunQueue, TypeOK
    <2>2. Running = {} /\ UNCHANGED <<pooled, all, isClosing>>
      BY <1>4 DEF RunQueue
    <2>3. CASE phase[r] = "queued" /\ GetSocket(r)
      <3>1. CASE Becomes(r, "waiting") /\ UNCHANGED <<socket, free>>
        BY <1>1, <2>2, <3>1 DEF LimitOk, Running, Becomes
      <3>2. CASE \/ Reuse(r)
                 \/ Create(r) /\ pooled < MaxConnections
                 \/ \E s : Give(r, s, free) /\ UNCHANGED socket
        BY <2>2, <3>2, LimitTakes
      <3>3. Create(r) /\ ~(pooled >= MaxConnections /\ free = <<>>) => pooled < MaxConnections
        BY <1>1 DEF Create
      <3> QED BY <2>3, <3>1, <3>2, <3>3 DEF GetSocket, Take
    <2>4. CASE (\E p \in {"done", "queued"} : Becomes(r, p)) /\ UNCHANGED <<free, socket>>
      BY <1>1, <2>2, <2>4, LimitMoves DEF Becomes
    <2> QED BY <1>4, <2>1, <2>3, <2>4 DEF RunQueue
  <1>5. ASSUME NEW r \in Request, Connected(r) PROVE LimitOk'
    <2>1. PICK s \in Socket : s = socketOf[r] /\ phase[r] = "connecting"
      BY <1>5 DEF Connected, HoldersOk, Holding
    <2>2. /\ socket' = [socket EXCEPT ![s] = "open"] \/ socket' = socket
          /\ all' = all \cup {s}
          /\ pooled' = (IF Counts(r, s) THEN pooled + 1 ELSE pooled) /\ Give(r, s, free)
          /\ ~isClosing /\ UNCHANGED isClosing
      BY <1>5, <2>1 DEF Connected
    <2>3. /\ phase'[r] \notin {"waiting", "woken", "connecting"}
          /\ \A q \in Request : q # r => phase'[q] = phase[q]
      BY <1>1, <2>2 DEF Give, Becomes
    <2>4. \A q \in Request : phase'[q] \notin {"waiting", "woken", "connecting"}
      BY <2>1, <2>3 DEF LimitOk, Running
    <2>5. pooled' <= MaxConnections
      BY <1>1, <2>1, <2>2 DEF LimitOk
    <2>6. \A t \in Socket : socket'[t] = "open" => t \in all' /\ ~isClosing'
      BY <1>1, <2>2 DEF LimitOk
    <2> QED BY <2>4, <2>5, <2>6 DEF LimitOk, Running
  <1>6. ASSUME NEW r \in Request, ConnectFails(r) PROVE LimitOk'
    <2>1. /\ \A q \in Request : phase'[q] = IF q = r THEN "failed" ELSE phase[q]
          /\ \A t \in Socket : socket'[t] = "open" => socket[t] = "open"
          /\ UNCHANGED <<pooled, all, free, isClosing>>
      BY <1>1, <1>6 DEF ConnectFails, Becomes, poolVars
    <2> QED BY <2>1 DEF LimitOk, Running
  <1>7. ASSUME NEW r \in Request, Respond(r) PROVE LimitOk'
    <2> DEFINE done == [phase EXCEPT ![r] = "done"]
    <2>1. /\ done \in [Request -> Phases]
          /\ \A q \in Request : done[q] \in {"waiting", "woken", "connecting"} => done[q] = phase[q]
      BY <1>1 DEF Phases
    <2>2. PICK s \in Socket : s = socketOf[r] /\ socket[s] = "open"
      BY <1>7 DEF Respond, HoldersOk, Holding
    <2> UNCHANGED isClosing
      BY <1>7 DEF Respond
    <2>3. CASE phase' = done /\ UNCHANGED <<socket, isReused, all, free, pooled, http2Sessions>>
      BY <2>1, <2>3, LimitMoves
    <2>4. CASE FreeSocket(s, done)
      <3>1. UNCHANGED <<socket, all, pooled>> /\ free' # <<>>
        <4>1. Contains(free', s)
          BY <2>4, AddFreeMembers DEF FreeSocket, TypeOK, CollectionsOk
        <4> QED BY <2>4, <4>1, EmptyMembers DEF FreeSocket
      <3>2. \A q \in Request : phase'[q] \in {"waiting", "woken", "connecting"} =>
              phase'[q] = phase[q] \/ (phase[q] = "waiting" /\ phase'[q] = "woken")
        BY <2>1, <2>4 DEF FreeSocket, Wake
      <3> QED BY <3>1, <3>2 DEF LimitOk, Running
    <2>5. CASE CloseSocket(s, done)
      BY <2>1, <2>2, <2>5, LimitCloses
    <2> QED BY <1>7, <2>2, <2>3, <2>4, <2>5 DEF Respond
  <1>8. ASSUME NEW r \in Request, WebsocketEnds(r) PROVE LimitOk'
    <2>1. PICK s \in Socket : s = socketOf[r] /\ socket[s] = "open"
      BY <1>8 DEF WebsocketEnds, HoldersOk, Holding
    <2>2. CloseSocket(s, [phase EXCEPT ![r] = "done"]) /\ UNCHANGED isClosing
      BY <1>8, <2>1 DEF WebsocketEnds
    <2> QED BY <1>1, <2>1, <2>2, LimitCloses DEF Phases
  <1>9. ASSUME NEW r \in Request, ProbeFails(r) PROVE LimitOk'
    <2> DEFINE p == IF isClosing THEN "failed" ELSE "queued"
    <2>1. PICK s \in Socket : s = socketOf[r]
      BY <1>9 DEF ProbeFails, HoldersOk, Holding
    <2>2. \/ socket[s] = "open" /\ CloseSocket(s, [phase EXCEPT ![r] = p])
          \/ phase' = [phase EXCEPT ![r] = p] /\ UNCHANGED <<pooled, socket, all, free, isClosing>>
      BY <1>9, <2>1 DEF ProbeFails
    <2>3. p \in {"failed", "queued"} /\ UNCHANGED isClosing
      BY <1>9 DEF ProbeFails
    <2> QED BY <1>1, <2>2, <2>3, LimitMoves, LimitCloses DEF Phases
  <1>10. ASSUME NEW s \in Socket, SocketCloses(s) PROVE LimitOk'
    BY <1>1, <1>10, LimitCloses DEF SocketCloses
  <1>11. CASE CloseSession
    <2>1. pooled' <= pooled /\ pooled' \in Int
      BY <1>1, <1>11, AllFinite DEF CloseSession, CloseSockets
    <2>2. /\ \A t \in Socket : socket'[t] # "open"
          /\ \A q \in Request : phase'[q] \notin {"waiting", "woken", "connecting"}
      BY <1>1, <1>11 DEF CloseSession, CloseSockets, Running
    <2>3. MaxConnections \in Nat
      BY <1>1
    <2> QED BY <1>1, <2>1, <2>2, <2>3 DEF LimitOk, Running
  <1>13. CASE ConnectorExits
    <2> DEFINE heard == {s \in all : socket[s] = "open"}
    <2>1. /\ pooled' = pooled - Cardinality(heard) /\ UNCHANGED isClosing
          /\ \A t \in Socket : socket'[t] # "open"
          /\ phase' = IF \E s \in all : Countable(s) THEN Wake(phase) ELSE phase
      BY <1>1, <1>13 DEF ConnectorExits, CloseSockets
    <2>2. Cardinality(heard) \in Nat /\ (heard # {} => Cardinality(heard) > 0)
      <3>1. IsFiniteSet(heard) /\ Cardinality(heard) \in Nat
        BY AllFinite
      <3> QED BY <3>1, FS_EmptySet
    <2>3. all = heard
      BY <1>13 DEF CountOk, LostOk, ConnectorExits
    <2>4. free # <<>> => heard # {}
      <3>1. free # <<>> => Contains(free, Head(free)) /\ Head(free) \in Socket
        BY TailMembers DEF TypeOK
      <3>2. lost = {}
        BY <1>13 DEF LostOk, ConnectorExits
      <3>3. free # <<>> => socket[Head(free)] = "open"
        BY <3>1, <3>2 DEF HandsOutOpenSockets
      <3> QED BY <3>1, <3>3 DEF LimitOk
    <2>5. \A q \in Request : phase'[q] \in {"waiting", "woken", "connecting"} =>
            \/ phase'[q] = phase[q]
            \/ phase[q] = "waiting" /\ phase'[q] = "woken" /\ heard # {}
      BY <2>1, <2>3 DEF Wake
    <2>6. \A q, w \in Running' : q = w
      BY <2>5 DEF Running, LimitOk
    <2>7. pooled' <= MaxConnections /\ (heard # {} => pooled' < MaxConnections)
      BY <1>1, <2>1, <2>2 DEF LimitOk
    <2>8. ASSUME NEW q \in Request, phase'[q] = "woken" PROVE pooled' < MaxConnections
      <3>1. CASE heard # {}
        BY <2>7, <3>1
      <3>2. CASE heard = {}
        <4>1. phase[q] = "woken" /\ free = <<>>
          BY <2>4, <2>5, <2>8, <3>2
        <4> QED BY <1>1, <2>1, <2>2, <4>1 DEF LimitOk
      <3> QED BY <3>1, <3>2
    <2>9. ASSUME NEW q \in Request, phase'[q] = "connecting" PROVE pooled' < MaxConnections
      BY <1>1, <2>1, <2>2, <2>5, <2>9 DEF LimitOk
    <2> QED BY <2>1, <2>6, <2>7, <2>8, <2>9 DEF LimitOk
  <1>12. CASE UNCHANGED vars
    BY <1>12 DEF LimitOk, Running, vars, systemVars, requestVars, socketVars, poolVars
  <1> QED BY <1>2, <1>3, <1>4, <1>5, <1>6, <1>7, <1>8, <1>9, <1>10, <1>11, <1>12, <1>13
          DEF Next, RequestStep, UseSocket

\* An origin never has more than socketsPerOrigin open connections that can be
\* used again, for every origin whose sockets all can; getSocket checks the limit
\* before an await and connects after it.
THEOREM LimitIsKept ==
  Spec => []((\A s \in Socket : socket[s] # "unused" => Countable(s)) =>
               Cardinality({s \in Socket : socket[s] = "open"}) <= MaxConnections)
  <1>1. Init => LimitOk
    <2> SUFFICES ASSUME Init PROVE LimitOk
      OBVIOUS
    <2>1. 0 <= MaxConnections
      BY SocketPoolAssumption DEF SocketPoolAssumption
    <2> QED BY <2>1 DEF Init, LimitOk, Running
  <1>2. IInv /\ LimitOk => ((\A s \in Socket : socket[s] # "unused" => Countable(s)) =>
               Cardinality({s \in Socket : socket[s] = "open"}) <= MaxConnections)
    <2> SUFFICES ASSUME IInv, LimitOk, \A s \in Socket : socket[s] # "unused" => Countable(s)
                 PROVE  Cardinality({s \in Socket : socket[s] = "open"}) <= MaxConnections
      OBVIOUS
    <2> DEFINE opened == {s \in Socket : socket[s] = "open"}
    <2>1. opened \subseteq all /\ Cardinality(opened) \in Nat /\ Cardinality(opened) <= Cardinality(all)
      <3>1. opened \in SUBSET all
        BY DEF LimitOk
      <3> QED BY <3>1, AllFinite DEF IInv
    <2>2. CASE isClosing
      <3>1. opened = {}
        BY <2>2 DEF LimitOk
      <3> QED BY <3>1, FS_EmptySet, SocketPoolAssumption DEF SocketPoolAssumption
    <2>3. CASE ~isClosing
      <3>1. pooled = Cardinality(all)
        BY <2>3 DEF IInv, CountOk
      <3> QED BY <2>1, <3>1, AllFinite, SocketPoolAssumption DEF IInv, LimitOk, SocketPoolAssumption
    <2> QED BY <2>2, <2>3
  <1> QED BY <1>1, <1>2, LimitStep, Inductive, PTL DEF Spec
=============================================================================
