-------------------------- MODULE DevtoolsRpcProofs --------------------------
(***************************************************************************)
(* Proofs about DevtoolsRpc, for any sessions, commands and environment.   *)
(***************************************************************************)
EXTENDS DevtoolsRpc, TLAPS

\* A close finds every promise that waits: what pends is known to a session, and
\* that session is open in an open connection.
IInv == TypeOK /\ NothingPendsOnClosedSession /\ PendingIsKnown

\* What the commands of a step have to keep.
CommandsOk == NothingPendsOnClosedSession /\ PendingIsKnown

-----------------------------------------------------------------------------
\* The close of sessions keeps the types and leaves nothing pending in them.
LEMMA CloseCancels ==
  ASSUME IInv, NEW S \in SUBSET Session, CloseSessions(S)
  PROVE  /\ promise' \in [Command -> {"unsent", "pending"} \cup Settled]
         /\ session' \in [Session -> {"none", "open", "closed"}]
         /\ pendingMessages' \in [Session -> SUBSET Command]
         /\ \A s \in Session : \A c \in pendingMessages'[s] : SessionOf[c] = s
         /\ \A c \in Command : promise'[c] = "pending" =>
              /\ promise[c] = "pending" /\ SessionOf[c] \notin S
              /\ session'[SessionOf[c]] = "open"
              /\ c \in pendingMessages'[SessionOf[c]]
  <1> USE DevtoolsAssumption DEF DevtoolsAssumption, IInv, TypeOK, CloseSessions
  <1>1. promise' \in [Command -> {"unsent", "pending"} \cup Settled]
    BY DEF Settled
  <1>2. /\ session' \in [Session -> {"none", "open", "closed"}]
        /\ pendingMessages' \in [Session -> SUBSET Command]
        /\ \A s \in Session : \A c \in pendingMessages'[s] : SessionOf[c] = s
    OBVIOUS
  <1>3. ASSUME NEW c \in Command, promise'[c] = "pending"
        PROVE  /\ promise[c] = "pending" /\ SessionOf[c] \notin S
               /\ session'[SessionOf[c]] = "open"
               /\ c \in pendingMessages'[SessionOf[c]]
    <2>1. promise[c] = "pending" /\ ~\E s \in S : c \in pendingMessages[s]
      BY <1>3
    <2>2. c \in pendingMessages[SessionOf[c]] /\ session[SessionOf[c]] = "open"
      BY <2>1 DEF PendingIsKnown, NothingPendsOnClosedSession
    <2> QED BY <2>1, <2>2
  <1> QED BY <1>1, <1>2, <1>3

\* Connection.onClosed leaves no promise pending at all.
LEMMA DisconnectCancels ==
  ASSUME IInv, Disconnect
  PROVE  /\ promise' \in [Command -> {"unsent", "pending"} \cup Settled]
         /\ session' \in [Session -> {"none", "open", "closed"}]
         /\ pendingMessages' \in [Session -> SUBSET Command]
         /\ \A s \in Session : \A c \in pendingMessages'[s] : SessionOf[c] = s
         /\ connectionClosed' = TRUE
         /\ \A c \in Command : promise'[c] # "pending"
  <1>1. CASE connectionClosed
    BY <1>1 DEF Disconnect, clientVars, IInv, TypeOK, NothingPendsOnClosedSession
  <1>2. CASE ~connectionClosed
    <2> DEFINE S == {s \in Session : session[s] = "open"}
    <2>1. S \in SUBSET Session /\ CloseSessions(S) /\ connectionClosed' = TRUE
      BY <1>2 DEF Disconnect
    <2>2. \A c \in Command : promise[c] = "pending" => SessionOf[c] \in S
      BY DevtoolsAssumption DEF DevtoolsAssumption, IInv, NothingPendsOnClosedSession
    <2> HIDE DEF S
    <2> QED BY <2>1, <2>2, CloseCancels
  <1> QED BY <1>1, <1>2

\* A step that changes nothing of the sessions, the connection and the transport keeps what
\* the commands need.
LEMMA CommandsUntouched ==
  ASSUME IInv, UNCHANGED clientVars, UNCHANGED <<connectionClosed, transportClosed, unheard>>
  PROVE  CommandsOk'
  BY DEF IInv, clientVars, CommandsOk, NothingPendsOnClosedSession, PendingIsKnown

\* Nor does the close of the transport alone break it: what pends then is unheard.
LEMMA TransportClosesOnly ==
  ASSUME IInv, UNCHANGED clientVars, UNCHANGED connectionClosed, TransportCloses
  PROVE  CommandsOk' /\ unheard' \subseteq Command
  BY DEF IInv, TypeOK, clientVars, CommandsOk, NothingPendsOnClosedSession, PendingIsKnown,
     TransportCloses

-----------------------------------------------------------------------------
\* A browser starts with its own session and no command.
THEOREM InitIInv == Init => IInv
  <1> SUFFICES ASSUME Init PROVE IInv
    OBVIOUS
  <1> USE DevtoolsAssumption DEF DevtoolsAssumption
  <1>1. TypeOK
    <2>1. Root \in Session
      BY DEF Session
    <2>2. /\ promise \in [Command -> {"unsent", "pending"} \cup Settled]
          /\ session \in [Session -> {"none", "open", "closed"}]
          /\ pendingMessages \in [Session -> SUBSET Command]
          /\ \A s \in Session : \A c \in pendingMessages[s] : SessionOf[c] = s
      BY DEF Init
    <2>3. /\ attached \subseteq Session /\ commands \subseteq Command
          /\ events \in 0..EventLimit
      BY <2>1 DEF Init
    <2>4. pipe \in Seq(Message) /\ immediates \in Seq(Message)
      BY DEF Init
    <2> QED BY <2>2, <2>3, <2>4 DEF Init, TypeOK
  <1>2. NothingPendsOnClosedSession /\ PendingIsKnown
    BY DEF Init, NothingPendsOnClosedSession, PendingIsKnown
  <1> QED BY <1>1, <1>2 DEF IInv

\* DevtoolsSession.send, and its timer.
LEMMA CommandSteps ==
  ASSUME IInv, NEW c \in Command, Send(c) \/ TimesOut(c)
  PROVE  IInv'
  <1> USE DevtoolsAssumption DEF DevtoolsAssumption
  <1>1. TypeOK'
    BY DEF IInv, TypeOK, Send, Post, TimesOut, closeVars, chromeVars, Settled
  <1>2. CommandsOk'
    <2>1. CASE TimesOut(c)
      BY <2>1 DEF IInv, TypeOK, CommandsOk, NothingPendsOnClosedSession, PendingIsKnown,
         TimesOut, closeVars
    <2>2. CASE Send(c)
      BY <2>2 DEF IInv, TypeOK, CommandsOk, NothingPendsOnClosedSession, PendingIsKnown,
         Send, Post, IsConnected, closeVars
    <2> QED BY <2>1, <2>2
  <1> QED BY <1>1, <1>2 DEF IInv, CommandsOk

\* What Chrome does by itself touches no session of the agent.
LEMMA ChromeSteps ==
  ASSUME IInv, ChromeActs
  PROVE  IInv'
  <1> USE DevtoolsAssumption DEF DevtoolsAssumption
  <1>1. UNCHANGED clientVars /\ UNCHANGED closeVars /\ immediates' = immediates
    BY DEF ChromeActs, Attaches, Detaches, Notifies, Answers, Crash
  <1>2. pipe' \in Seq(Message)
    <2>1. ASSUME NEW k \in {"attached", "detached", "answer", "event"}, NEW s \in Session,
                 NEW c \in Command \cup {NoCommand}, Writes(k, s, c)
          PROVE  pipe' \in Seq(Message)
      <3>1. [kind |-> k, session |-> s, command |-> c] \in Message
        BY DEF Message
      <3> QED BY <2>1, <3>1 DEF Writes, IInv, TypeOK
    <2>2. CASE Crash
      BY <2>2 DEF Crash, IInv, TypeOK
    <2>3. ASSUME NEW t \in Target, Attaches(t) \/ Detaches(t) PROVE pipe' \in Seq(Message)
      BY <2>1, <2>3 DEF Attaches, Detaches, Session
    <2>4. ASSUME NEW s \in Session, Notifies(s) PROVE pipe' \in Seq(Message)
      BY <2>1, <2>4 DEF Notifies
    <2>5. ASSUME NEW c \in Command, Answers(c) PROVE pipe' \in Seq(Message)
      BY <2>1, <2>5 DEF Answers
    <2> QED BY <2>2, <2>3, <2>4, <2>5 DEF ChromeActs
  <1>3. /\ chrome' \in {"running", "dead"} /\ attached' \subseteq Session
        /\ commands' \subseteq Command /\ events' \in 0..EventLimit
    BY DEF IInv, TypeOK, ChromeActs, Attaches, Detaches, Notifies, Answers, Crash, Session
  <1>4. TypeOK'
    BY <1>1, <1>2, <1>3 DEF IInv, TypeOK, clientVars, closeVars
  <1> QED BY <1>1, <1>4, CommandsUntouched DEF IInv, CommandsOk, closeVars

\* onData passes a message on.
LEMMA DataStep ==
  ASSUME IInv, OnData
  PROVE  IInv'
  <1>1. pipe' \in Seq(Message) /\ immediates' \in Seq(Message)
    <2>1. pipe \in Seq(Message) /\ pipe # <<>> /\ immediates \in Seq(Message)
      BY DEF IInv, TypeOK, OnData
    <2>2. Head(pipe) \in Message /\ Tail(pipe) \in Seq(Message)
      BY <2>1
    <2> QED BY <2>1, <2>2 DEF OnData
  <1>2. TypeOK'
    BY <1>1 DEF IInv, TypeOK, OnData, clientVars, closeVars, chromeVars
  <1> QED BY <1>2, CommandsUntouched DEF IInv, CommandsOk, OnData, closeVars

\* Connection.onMessage: an answer settles its command, a detachment cancels those of its
\* session.
LEMMA MessageStep ==
  ASSUME IInv, OnMessage
  PROVE  IInv'
  <1> USE DevtoolsAssumption DEF DevtoolsAssumption
  <1> DEFINE m == Head(immediates)
  <1>1. immediates' \in Seq(Message) /\ m \in Message /\ m.session \in Session
    <2>1. immediates \in Seq(Message) /\ immediates # <<>>
      BY DEF IInv, TypeOK, OnMessage
    <2>2. m \in Message /\ Tail(immediates) \in Seq(Message)
      BY <2>1
    <2> QED BY <2>2 DEF OnMessage, Message
  <1> DEFINE ClientOk ==
        /\ promise' \in [Command -> {"unsent", "pending"} \cup Settled]
        /\ session' \in [Session -> {"none", "open", "closed"}]
        /\ pendingMessages' \in [Session -> SUBSET Command]
        /\ \A s \in Session : \A c \in pendingMessages'[s] : SessionOf[c] = s
  <1>2. UNCHANGED <<connectionClosed, transportClosed, unheard>>
    BY DEF OnMessage, closeVars
  <1>3. CASE m.kind = "attached" /\ OpenSession(m.session) /\ UNCHANGED <<promise, pendingMessages>>
    <2>1. ClientOk
      BY <1>1, <1>3 DEF IInv, TypeOK, OpenSession
    <2>2. CommandsOk'
      BY <1>1, <1>2, <1>3 DEF IInv, TypeOK, OpenSession, CommandsOk, NothingPendsOnClosedSession,
         PendingIsKnown
    <2> QED BY <1>1, <2>1, <2>2 DEF IInv, TypeOK, CommandsOk, OnMessage, closeVars, chromeVars
  <1>4. CASE m.kind = "detached" /\ session[m.session] = "open" /\ CloseSessions({m.session})
    <2>1. ClientOk /\ \A c \in Command : promise'[c] = "pending" =>
            /\ promise[c] = "pending" /\ session'[SessionOf[c]] = "open"
            /\ c \in pendingMessages'[SessionOf[c]]
      BY <1>1, <1>4, CloseCancels
    <2>2. CommandsOk'
      BY <1>2, <2>1 DEF IInv, CommandsOk, NothingPendsOnClosedSession, PendingIsKnown
    <2> QED BY <1>1, <2>1, <2>2 DEF IInv, TypeOK, CommandsOk, OnMessage, closeVars, chromeVars
  <1>5. CASE /\ m.command \in pendingMessages[m.session]
             /\ Answered(m.command) /\ UNCHANGED session
    <2>1. m.command \in Command /\ SessionOf[m.command] = m.session
      BY <1>1, <1>5 DEF IInv, TypeOK
    <2>2. ClientOk
      BY <1>5, <2>1 DEF IInv, TypeOK, Answered, Settled
    <2>3. CommandsOk'
      <3>1. promise'[m.command] # "pending"
        BY <1>5, <2>1 DEF IInv, TypeOK, Answered
      <3>2. ASSUME NEW c \in Command, c # m.command
            PROVE  /\ promise'[c] = promise[c]
                   /\ c \in pendingMessages[SessionOf[c]] => c \in pendingMessages'[SessionOf[c]]
        BY <1>5, <2>1, <3>2 DEF IInv, TypeOK, Answered
      <3> QED BY <1>2, <1>5, <3>1, <3>2 DEF IInv, CommandsOk, NothingPendsOnClosedSession,
               PendingIsKnown
    <2> QED BY <1>1, <2>2, <2>3 DEF IInv, TypeOK, CommandsOk, OnMessage, closeVars, chromeVars
  <1>6. CASE UNCHANGED clientVars
    <2>1. TypeOK'
      BY <1>1, <1>6 DEF IInv, TypeOK, OnMessage, clientVars, closeVars, chromeVars
    <2> QED BY <1>2, <1>6, <2>1, CommandsUntouched DEF IInv, CommandsOk
  <1> QED BY <1>3, <1>4, <1>5, <1>6 DEF OnMessage

\* The end of the process, of the pipe and of Browser.close.
LEMMA CloseSteps ==
  ASSUME IInv, ProcessExits \/ PipeCloses \/ StartClose \/ KillChildProcess \/ Dispose
  PROVE  IInv'
  <1>1. CASE ProcessExits \/ KillChildProcess
    <2>1. /\ TransportCloses /\ UNCHANGED clientVars /\ UNCHANGED connectionClosed
          /\ transportClosed' = TRUE
      BY <1>1 DEF ProcessExits, KillChildProcess, OnChildProcessExit, TransportCloses
    <2>2. CommandsOk' /\ unheard' \subseteq Command
      BY <2>1, TransportClosesOnly
    <2>3. TypeOK'
      BY <1>1, <2>1, <2>2 DEF IInv, TypeOK, ProcessExits, KillChildProcess, OnChildProcessExit,
         clientVars, chromeVars
    <2> QED BY <2>2, <2>3 DEF IInv, CommandsOk
  <1>2. CASE StartClose
    <2>1. TypeOK'
      BY <1>2 DEF IInv, TypeOK, StartClose, clientVars, chromeVars
    <2> QED BY <1>2, <2>1, CommandsUntouched DEF IInv, CommandsOk, StartClose
  <1>3. CASE PipeCloses \/ Dispose
    <2>1. Disconnect
      BY <1>3 DEF PipeCloses, Dispose
    <2>2. CommandsOk'
      BY <2>1, DisconnectCancels DEF CommandsOk, NothingPendsOnClosedSession, PendingIsKnown
    <2>3. /\ {transportClosed', processKilled', closeEmitted'} \subseteq BOOLEAN
          /\ browserClose' \in {"no", "closing", "killed", "done"} /\ unheard' \subseteq Command
          /\ chrome' \in {"running", "dead"}
          /\ attached' \subseteq Session /\ commands' \subseteq Command
          /\ events' \in 0..EventLimit
          /\ pipe' \in Seq(Message) /\ immediates' \in Seq(Message)
      BY <1>3 DEF IInv, TypeOK, PipeCloses, Dispose, OnChildProcessExit, TransportCloses, chromeVars
    <2> QED BY <2>1, <2>2, <2>3, DisconnectCancels DEF IInv, TypeOK, CommandsOk
  <1> QED BY <1>1, <1>2, <1>3

\* Every step keeps the inductive invariant.
THEOREM Inductive == Spec => []IInv
  <1>1. IInv /\ [Next]_vars => IInv'
    <2> SUFFICES ASSUME IInv, [Next]_vars PROVE IInv'
      OBVIOUS
    <2>1. CASE UNCHANGED vars
      BY <2>1 DEF vars, clientVars, closeVars, chromeVars, IInv, TypeOK,
         NothingPendsOnClosedSession, PendingIsKnown
    <2>2. CASE Next
      BY <2>2, CommandSteps, ChromeSteps, DataStep, MessageStep, CloseSteps DEF Next
    <2> QED BY <2>1, <2>2
  <1> QED BY <1>1, InitIInv, PTL DEF Spec

\* Every variable keeps its type for any sessions and commands; pendingMessages of a session
\* holds its own commands only.
THEOREM TypeCorrect == Spec => []TypeOK
  BY Inductive, PTL DEF IInv

\* For any sessions, commands and order of events, no command waits on a session that is
\* closed or in a connection whose onClosed has run: DevtoolsSession.onClosed and
\* Connection.onClosed reach every promise of theirs.  Where only the transport is closed, no
\* command waits but those that pended when it closed: send refuses every later one.
THEOREM NobodyWaitsOnTheClosed == Spec => []NothingPendsOnClosedSession
  BY Inductive, PTL DEF IInv

\* For any sessions, commands and order of events, a promise that is pending can be settled:
\* pendingMessages of its session holds its id.
THEOREM PromisesStayKnown == Spec => []PendingIsKnown
  BY Inductive, PTL DEF IInv

-----------------------------------------------------------------------------
(* The order of messages *)

\* A queue q of messages that nobody has handled yet tells of the sessions f from their
\* attachment to their detachment; those of A have not been detached.
OrderOk(q, f, A) ==
  /\ f[Root] = "open" /\ Root \in A
  /\ \A i \in 1..Len(q) : q[i].kind = "attached" =>
       f[q[i].session] = "none" /\ \A j \in 1..(i - 1) : q[j].session # q[i].session
  /\ \A i \in 1..Len(q) : q[i].kind # "attached" =>
       /\ \/ f[q[i].session] = "open"
          \/ \E j \in 1..(i - 1) : q[j].session = q[i].session /\ q[j].kind = "attached"
       /\ \A j \in 1..(i - 1) : q[j].session = q[i].session => q[j].kind # "detached"
  /\ \A t \in A :
       /\ \/ f[t] = "open"
          \/ \E i \in 1..Len(q) : q[i].session = t /\ q[i].kind = "attached"
       /\ \A i \in 1..Len(q) : q[i].session = t => q[i].kind # "detached"

\* Until the connection closes, what is read and what is in the pipe make one such queue.
Queue == immediates \o pipe
InOrder == ~connectionClosed => OrderOk(Queue, session, attached)

\* Chrome attaches a session that nothing tells of.
LEMMA AppendAttached ==
  ASSUME NEW q \in Seq(Message), NEW f, NEW A, NEW m \in Message, OrderOk(q, f, A),
         m.kind = "attached", f[m.session] = "none", \A i \in 1..Len(q) : q[i].session # m.session
  PROVE  OrderOk(Append(q, m), f, A \cup {m.session})
  <1> DEFINE r == Append(q, m)
  <1>1. /\ Len(r) = Len(q) + 1 /\ Len(q) \in Nat /\ r[Len(q) + 1] = m
        /\ \A i \in 1..Len(q) : r[i] = q[i]
    OBVIOUS
  <1> HIDE DEF r
  <1> QED BY <1>1 DEF OrderOk

\* An answer or an event, of a session that is attached.
LEMMA AppendOther ==
  ASSUME NEW q \in Seq(Message), NEW f, NEW A, NEW m \in Message, OrderOk(q, f, A),
         m.kind \in {"answer", "event"}, m.session \in A
  PROVE  OrderOk(Append(q, m), f, A)
  <1> DEFINE r == Append(q, m)
  <1>1. /\ Len(r) = Len(q) + 1 /\ Len(q) \in Nat /\ r[Len(q) + 1] = m
        /\ \A i \in 1..Len(q) : r[i] = q[i]
    OBVIOUS
  <1> HIDE DEF r
  <1> QED BY <1>1 DEF OrderOk

\* The detachment of a session is its last message.
LEMMA AppendDetached ==
  ASSUME NEW q \in Seq(Message), NEW f, NEW A, NEW m \in Message, OrderOk(q, f, A),
         m.kind = "detached", m.session \in A, m.session # Root
  PROVE  OrderOk(Append(q, m), f, A \ {m.session})
  <1> DEFINE r == Append(q, m)
  <1>1. /\ Len(r) = Len(q) + 1 /\ Len(q) \in Nat /\ r[Len(q) + 1] = m
        /\ \A i \in 1..Len(q) : r[i] = q[i]
    OBVIOUS
  <1> HIDE DEF r
  <1> QED BY <1>1 DEF OrderOk

\* The order of the queue that has the head m and the tail r.
HeadFirst(m, r, f, A) ==
  /\ m \in Message /\ Len(r) \in Nat
  /\ \A i \in 1..Len(r) : r[i] \in Message
  /\ m.kind = "attached" => f[m.session] = "none"
  /\ m.kind # "attached" => f[m.session] = "open"
  /\ \A i \in 1..Len(r) : r[i].kind = "attached" =>
       /\ f[r[i].session] = "none" /\ m.session # r[i].session
       /\ \A j \in 1..(i - 1) : r[j].session # r[i].session
  /\ \A i \in 1..Len(r) : r[i].kind # "attached" =>
       /\ \/ f[r[i].session] = "open"
          \/ m.session = r[i].session /\ m.kind = "attached"
          \/ \E j \in 1..(i - 1) : r[j].session = r[i].session /\ r[j].kind = "attached"
       /\ m.session = r[i].session => m.kind # "detached"
       /\ \A j \in 1..(i - 1) : r[j].session = r[i].session => r[j].kind # "detached"
  /\ \A t \in A :
       /\ \/ f[t] = "open"
          \/ m.session = t /\ m.kind = "attached"
          \/ \E i \in 1..Len(r) : r[i].session = t /\ r[i].kind = "attached"
       /\ m.session = t => m.kind # "detached"
       /\ \A i \in 1..Len(r) : r[i].session = t => r[i].kind # "detached"

\* What the order of a queue says of its head and its tail.
LEMMA HeadAndTail ==
  ASSUME NEW q \in Seq(Message), q # <<>>, NEW f, NEW A, OrderOk(q, f, A)
  PROVE  HeadFirst(Head(q), Tail(q), f, A)
  <1> DEFINE m == Head(q)
             r == Tail(q)
  <1>1. /\ Len(q) \in Nat /\ Len(q) >= 1 /\ Len(r) = Len(q) - 1 /\ m = q[1]
        /\ \A i \in 1..Len(r) : r[i] = q[i + 1] /\ i + 1 \in 1..Len(q)
        /\ \A i \in 1..Len(q) : q[i] \in Message
    OBVIOUS
  <1>2. \A i \in 2..Len(q) : i - 1 \in 1..Len(r) /\ r[i - 1] = q[i]
    BY <1>1
  <1> HIDE DEF m, r
  <1>3. m.kind = "attached" => f[m.session] = "none"
    BY <1>1 DEF OrderOk
  <1>4. m.kind # "attached" => f[m.session] = "open"
    BY <1>1 DEF OrderOk
  <1>5. ASSUME NEW i \in 1..Len(r), r[i].kind = "attached"
        PROVE  /\ f[r[i].session] = "none" /\ m.session # r[i].session
               /\ \A j \in 1..(i - 1) : r[j].session # r[i].session
    <2>1. /\ f[q[i + 1].session] = "none"
          /\ \A j \in 1..((i + 1) - 1) : q[j].session # q[i + 1].session
      BY <1>1, <1>5 DEF OrderOk
    <2>2. f[r[i].session] = "none" /\ m.session # r[i].session
      BY <1>1, <2>1
    <2>3. ASSUME NEW j \in 1..(i - 1) PROVE r[j].session # r[i].session
      <3>1. j \in 1..Len(r) /\ j + 1 \in 1..((i + 1) - 1)
        BY <1>1
      <3> QED BY <1>1, <2>1, <3>1
    <2> QED BY <2>2, <2>3
  <1>6. ASSUME NEW i \in 1..Len(r), r[i].kind # "attached"
        PROVE  /\ \/ f[r[i].session] = "open"
                  \/ m.session = r[i].session /\ m.kind = "attached"
                  \/ \E j \in 1..(i - 1) : r[j].session = r[i].session /\ r[j].kind = "attached"
               /\ m.session = r[i].session => m.kind # "detached"
               /\ \A j \in 1..(i - 1) : r[j].session = r[i].session => r[j].kind # "detached"
    <2>1. \/ f[q[i + 1].session] = "open"
          \/ \E j \in 1..((i + 1) - 1) : q[j].session = q[i + 1].session /\ q[j].kind = "attached"
      BY <1>1, <1>6 DEF OrderOk
    <2>2. \A j \in 1..((i + 1) - 1) : q[j].session = q[i + 1].session => q[j].kind # "detached"
      BY <1>1, <1>6 DEF OrderOk
    <2>3. \/ f[r[i].session] = "open"
          \/ m.session = r[i].session /\ m.kind = "attached"
          \/ \E j \in 1..(i - 1) : r[j].session = r[i].session /\ r[j].kind = "attached"
      <3>1. CASE f[q[i + 1].session] = "open"
        BY <1>1, <3>1
      <3>2. ASSUME NEW j \in 1..i, q[j].session = q[i + 1].session, q[j].kind = "attached"
            PROVE  <2>3!2 \/ <2>3!3
        <4>1. CASE j = 1
          BY <1>1, <3>2, <4>1
        <4>2. CASE j # 1
          <5>1. j - 1 \in 1..(i - 1) /\ r[j - 1] = q[j]
            BY <1>1, <1>2, <4>2
          <5> QED BY <1>1, <3>2, <5>1
        <4> QED BY <4>1, <4>2
      <3> QED BY <1>1, <2>1, <3>1, <3>2
    <2>4. /\ m.session = r[i].session => m.kind # "detached"
          /\ \A j \in 1..(i - 1) : r[j].session = r[i].session => r[j].kind # "detached"
      <3>1. m.session = r[i].session => m.kind # "detached"
        BY <1>1, <2>2
      <3>2. ASSUME NEW j \in 1..(i - 1), r[j].session = r[i].session PROVE r[j].kind # "detached"
        <4>1. j + 1 \in 1..((i + 1) - 1) /\ j \in 1..Len(r)
          BY <1>1
        <4>2. q[j + 1].session = q[i + 1].session => q[j + 1].kind # "detached"
          BY <2>2, <4>1
        <4> QED BY <1>1, <3>2, <4>1, <4>2
      <3> QED BY <3>1, <3>2
    <2> QED BY <2>3, <2>4
  <1>7. ASSUME NEW t \in A
        PROVE  /\ \/ f[t] = "open"
                  \/ m.session = t /\ m.kind = "attached"
                  \/ \E i \in 1..Len(r) : r[i].session = t /\ r[i].kind = "attached"
               /\ m.session = t => m.kind # "detached"
               /\ \A i \in 1..Len(r) : r[i].session = t => r[i].kind # "detached"
    <2>1. /\ \/ f[t] = "open"
             \/ \E i \in 1..Len(q) : q[i].session = t /\ q[i].kind = "attached"
          /\ \A i \in 1..Len(q) : q[i].session = t => q[i].kind # "detached"
      BY DEF OrderOk
    <2>2. \A i \in 1..Len(q) : i = 1 \/ i \in 2..Len(q)
      BY <1>1
    <2> QED BY <1>1, <1>2, <2>1, <2>2
  <1>8. m \in Message /\ Len(r) \in Nat /\ \A i \in 1..Len(r) : r[i] \in Message
    BY <1>1
  <1> QED BY <1>3, <1>4, <1>5, <1>6, <1>7, <1>8 DEF m, r, HeadFirst

\* The head of the queue opens its session, closes it, or finds it open.
LEMMA RemoveHead ==
  ASSUME NEW q \in Seq(Message), q # <<>>, NEW f \in [Session -> {"none", "open", "closed"}],
         NEW A \in SUBSET Session, OrderOk(q, f, A),
         NEW m, NEW r, m = Head(q), r = Tail(q)
  PROVE  /\ m.kind = "attached" => OrderOk(r, [f EXCEPT ![m.session] = "open"], A)
         /\ m.kind = "detached" => OrderOk(r, [f EXCEPT ![m.session] = "closed"], A)
         /\ m.kind \in {"answer", "event"} => OrderOk(r, f, A)
  <1> HeadFirst(m, r, f, A)
    BY HeadAndTail
  <1>1. /\ m.session \in Session /\ \A i \in 1..Len(r) : r[i].session \in Session
        /\ f[Root] = "open" /\ Root \in A
    BY DEF HeadFirst, Message, OrderOk
  <1>2. ASSUME m.kind = "attached"
        PROVE  OrderOk(r, [f EXCEPT ![m.session] = "open"], A)
    <2> DEFINE g == [f EXCEPT ![m.session] = "open"]
    <2>1. g[m.session] = "open" /\ \A s \in Session : s # m.session => g[s] = f[s]
      BY <1>1
    <2> HIDE DEF g
    <2>2. OrderOk(r, g, A)
      BY <1>1, <1>2, <2>1 DEF HeadFirst, OrderOk
    <2> QED BY <2>2 DEF g
  <1>3. ASSUME m.kind = "detached"
        PROVE  OrderOk(r, [f EXCEPT ![m.session] = "closed"], A)
    <2> DEFINE g == [f EXCEPT ![m.session] = "closed"]
    <2>1. g[m.session] = "closed" /\ \A s \in Session : s # m.session => g[s] = f[s]
      BY <1>1
    <2> HIDE DEF g
    <2>2. OrderOk(r, g, A)
      BY <1>1, <1>3, <2>1 DEF HeadFirst, OrderOk
    <2> QED BY <2>2 DEF g
  <1>4. ASSUME m.kind \in {"answer", "event"}
        PROVE  OrderOk(r, f, A)
    BY <1>1, <1>4 DEF HeadFirst, OrderOk
  <1> QED BY <1>2, <1>3, <1>4
\* The messages of Chrome, at the end of the queue.
LEMMA ChromeKeepsOrder ==
  ASSUME IInv, InOrder, ChromeActs
  PROVE  InOrder'
  <1> SUFFICES ASSUME ~connectionClosed' PROVE OrderOk(Queue', session', attached')
    BY DEF InOrder
  <1> USE DevtoolsAssumption DEF DevtoolsAssumption
  <1>1. /\ session' = session /\ immediates' = immediates /\ connectionClosed' = connectionClosed
        /\ Queue \in Seq(Message) /\ OrderOk(Queue, session, attached)
    BY DEF ChromeActs, Attaches, Detaches, Notifies, Answers, Crash, clientVars, closeVars,
       Queue, IInv, TypeOK, InOrder
  <1>2. ASSUME NEW k \in {"attached", "detached", "answer", "event"}, NEW s \in Session,
               NEW c \in Command \cup {NoCommand}, Writes(k, s, c)
        PROVE  \E m \in Message : m.kind = k /\ m.session = s /\ Queue' = Append(Queue, m)
    <2> DEFINE m == [kind |-> k, session |-> s, command |-> c]
    <2>1. m \in Message
      BY DEF Message
    <2>2. immediates \in Seq(Message) /\ pipe \in Seq(Message) /\ pipe' = Append(pipe, m)
      BY <1>2 DEF IInv, TypeOK, Writes
    <2>3. immediates \o Append(pipe, m) = Append(immediates \o pipe, m)
      BY <2>1, <2>2
    <2> QED BY <1>1, <2>1, <2>2, <2>3 DEF Queue
  <1>3. ASSUME NEW t \in Target, Attaches(t)
        PROVE  OrderOk(Queue', session', attached')
    <2>1. PICK m \in Message : m.kind = "attached" /\ m.session = t /\ Queue' = Append(Queue, m)
      BY <1>2, <1>3 DEF Attaches, Session
    <2>2. \A i \in 1..Len(Queue) : Queue[i].session # t
      <3>1. immediates \in Seq(Message) /\ pipe \in Seq(Message)
        BY DEF IInv, TypeOK
      <3>2. /\ \A i \in 1..Len(pipe) : pipe[i].session # t
            /\ \A i \in 1..Len(immediates) : immediates[i].session # t
        BY <1>3, <3>1 DEF Attaches, OnTheWay
      <3> QED BY <3>1, <3>2 DEF Queue
    <2>3. session[t] = "none" /\ attached' = attached \cup {t}
      BY <1>3 DEF Attaches
    <2> QED BY <1>1, <2>1, <2>2, <2>3, AppendAttached
  <1>4. ASSUME NEW t \in Target, Detaches(t)
        PROVE  OrderOk(Queue', session', attached')
    <2>1. PICK m \in Message : m.kind = "detached" /\ m.session = t /\ Queue' = Append(Queue, m)
      BY <1>2, <1>4 DEF Detaches, Session
    <2>2. t \in attached /\ attached' = attached \ {t} /\ t # Root
      BY <1>4 DEF Detaches
    <2> QED BY <1>1, <2>1, <2>2, AppendDetached
  <1>5. ASSUME NEW s \in Session, Notifies(s)
        PROVE  OrderOk(Queue', session', attached')
    <2>1. PICK m \in Message : m.kind = "event" /\ m.session = s /\ Queue' = Append(Queue, m)
      BY <1>2, <1>5 DEF Notifies
    <2>2. s \in attached /\ attached' = attached
      BY <1>5 DEF Notifies
    <2> QED BY <1>1, <2>1, <2>2, AppendOther
  <1>6. ASSUME NEW c \in Command, Answers(c)
        PROVE  OrderOk(Queue', session', attached')
    <2>1. PICK m \in Message :
            m.kind = "answer" /\ m.session = SessionOf[c] /\ Queue' = Append(Queue, m)
      BY <1>2, <1>6 DEF Answers
    <2>2. SessionOf[c] \in attached /\ attached' = attached
      BY <1>6 DEF Answers
    <2> QED BY <1>1, <2>1, <2>2, AppendOther
  <1>7. CASE Crash
    BY <1>1, <1>7 DEF Crash, Queue
  <1> QED BY <1>3, <1>4, <1>5, <1>6, <1>7 DEF ChromeActs

\* Reading a message moves it within the queue.
LEMMA DataKeepsOrder ==
  ASSUME IInv, InOrder, OnData
  PROVE  InOrder'
  <1> SUFFICES ASSUME ~connectionClosed PROVE Queue' = Queue
    BY DEF InOrder, OnData, clientVars, closeVars, chromeVars
  <1>1. immediates \in Seq(Message) /\ pipe \in Seq(Message) /\ pipe # <<>>
    BY DEF IInv, TypeOK, OnData
  <1>2. Append(immediates, Head(pipe)) \o Tail(pipe) = immediates \o pipe
    BY <1>1
  <1> QED BY <1>2 DEF OnData, Queue

\* Connection.onMessage takes the head of the queue.
LEMMA MessageKeepsOrder ==
  ASSUME IInv, InOrder, OnMessage
  PROVE  InOrder'
  <1> SUFFICES ASSUME ~connectionClosed PROVE OrderOk(Queue', session', attached)
    BY DEF InOrder, OnMessage, closeVars, chromeVars
  <1> DEFINE m == Head(immediates)
  <1>1. immediates \in Seq(Message) /\ pipe \in Seq(Message) /\ immediates # <<>>
    BY DEF IInv, TypeOK, OnMessage
  <1>2. /\ Queue \in Seq(Message) /\ Queue # <<>> /\ m = Head(Queue)
        /\ Queue' = Tail(Queue)
    <2>1. immediates \o pipe \in Seq(Message) /\ immediates \o pipe # <<>>
      BY <1>1
    <2>2. Head(immediates) = Head(immediates \o pipe)
      BY <1>1
    <2>3. Tail(immediates) \o pipe = Tail(immediates \o pipe)
      BY <1>1
    <2> QED BY <2>1, <2>2, <2>3 DEF OnMessage, Queue
  <1>3. /\ session \in [Session -> {"none", "open", "closed"}] /\ attached \in SUBSET Session
        /\ OrderOk(Queue, session, attached)
    BY DEF IInv, TypeOK, InOrder
  <1>4. /\ m.kind = "attached" => OrderOk(Queue', [session EXCEPT ![m.session] = "open"], attached)
        /\ m.kind = "detached" => OrderOk(Queue', [session EXCEPT ![m.session] = "closed"], attached)
        /\ m.kind \in {"answer", "event"} => OrderOk(Queue', session, attached)
        /\ m.kind # "attached" => session[m.session] = "open"
        /\ m.kind \in {"attached", "detached", "answer", "event"} /\ m.session \in Session
    <2>1. HeadFirst(Head(Queue), Tail(Queue), session, attached)
      BY <1>2, <1>3, HeadAndTail
    <2>2. HeadFirst(m, Queue', session, attached)
      BY <1>2, <2>1
    <2> HIDE DEF m
    <2>3. /\ m.kind # "attached" => session[m.session] = "open"
          /\ m.kind \in {"attached", "detached", "answer", "event"} /\ m.session \in Session
      BY <2>2 DEF HeadFirst, Message
    <2>4. /\ m.kind = "attached" => OrderOk(Queue', [session EXCEPT ![m.session] = "open"], attached)
          /\ m.kind = "detached" => OrderOk(Queue', [session EXCEPT ![m.session] = "closed"], attached)
          /\ m.kind \in {"answer", "event"} => OrderOk(Queue', session, attached)
      BY <1>2, <1>3, RemoveHead
    <2> QED BY <2>3, <2>4
  <1>5. /\ m.kind = "attached" => session' = [session EXCEPT ![m.session] = "open"]
        /\ m.kind = "detached" => session' = [session EXCEPT ![m.session] = "closed"]
        /\ m.kind \in {"answer", "event"} => session' = session
    BY <1>3, <1>4 DEF OnMessage, OpenSession, CloseSessions, clientVars
  <1> QED BY <1>4, <1>5

\* Every step keeps the order until the connection closes.
THEOREM OrderInvariant == Spec => []InOrder
  <1>1. Init => InOrder
    <2> SUFFICES ASSUME Init PROVE OrderOk(Queue, session, attached)
      BY DEF InOrder
    <2>1. Len(Queue) = 0 /\ session[Root] = "open" /\ attached = {Root}
      BY DEF Init, Queue, Session
    <2> QED BY <2>1 DEF OrderOk
  <1>2. IInv /\ InOrder /\ [Next]_vars => InOrder'
    <2> SUFFICES ASSUME IInv, InOrder, [Next]_vars PROVE InOrder'
      OBVIOUS
    <2>1. CASE \/ UNCHANGED vars \/ ProcessExits \/ StartClose \/ KillChildProcess
               \/ \E c \in Command : Send(c) \/ TimesOut(c)
      BY <2>1 DEF vars, Send, TimesOut, ProcessExits, StartClose, KillChildProcess, clientVars, closeVars,
         chromeVars, InOrder, Queue
    <2>2. CASE PipeCloses \/ Dispose
      BY <2>2 DEF PipeCloses, Dispose, Disconnect, InOrder
    <2> QED BY <2>1, <2>2, ChromeKeepsOrder, DataKeepsOrder, MessageKeepsOrder DEF Next
  <1> QED BY <1>1, <1>2, Inductive, PTL DEF Spec

\* For any sessions, commands and order of events, setImmediate never brings a message to a
\* session the agent does not know yet, or knows no more, while the connection is open.
THEOREM SessionsAreFound == Spec => []MessagesFindTheirSession
  <1>1. IInv /\ InOrder => MessagesFindTheirSession
    <2> SUFFICES ASSUME IInv, InOrder, immediates # <<>>, ~connectionClosed
                 PROVE  LET m == Head(immediates)
                        IN  \/ m.kind = "attached" /\ session[m.session] = "none"
                            \/ session[m.session] = "open"
      BY DEF MessagesFindTheirSession
    <2>1. Queue \in Seq(Message) /\ Queue # <<>> /\ Head(Queue) = Head(immediates)
      <3>1. immediates \in Seq(Message) /\ pipe \in Seq(Message)
        BY DEF IInv, TypeOK
      <3> QED BY <3>1 DEF Queue
    <2>2. HeadFirst(Head(Queue), Tail(Queue), session, attached)
      BY <2>1, HeadAndTail DEF InOrder
    <2> QED BY <2>1, <2>2 DEF HeadFirst
  <1> QED BY <1>1, Inductive, OrderInvariant, PTL
=============================================================================
