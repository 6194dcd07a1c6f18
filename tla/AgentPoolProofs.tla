--------------------------- MODULE AgentPoolProofs ---------------------------
(***************************************************************************)
(* Proofs about AgentPool, for any agents, limits and environment.         *)
(***************************************************************************)
EXTENDS AgentPool, TLAPS, FiniteSetTheorems, SequenceTheorems

\* The agents in q are different, and the phase of each, as f gives it, is p.
AllIn(q, f, p) ==
  /\ \A i, j \in DOMAIN q : i # j => q[i] # q[j]
  /\ \A i \in DOMAIN q : f[q[i]] = p

\* The phase of an agent says in which of the two lines it stands.
LinesOk == AllIn(waiting, phase, "waiting") /\ AllIn(creationQueue, phase, "queued")

\* An agent is registered only once it has left the line.
ListenersOk == \A a \in listening : phase[a] \notin {"new", "created", "waiting"}

\* Until the pool is closed the count is the number of registered agents, and
\* afterwards never less: the closed pool forgets agents that it has counted.
CountOk ==
  /\ activeAgentsCount >= Cardinality(listening)
  /\ pool = "open" => activeAgentsCount = Cardinality(listening)

IInv == TypeOK /\ LinesOk /\ ListenersOk /\ CountOk /\ NoIdleCapacity

-----------------------------------------------------------------------------
\* Creating the pool establishes the inductive invariant.
THEOREM InitIInv == Init => IInv
  <1> SUFFICES ASSUME Init PROVE IInv OBVIOUS
  <1> USE PoolAssumption
  <1>1. TypeOK
    <2>1. (CHOOSE e \in Engine : TRUE) \in Engine
      BY DEF PoolAssumption
    <2>2. /\ phase \in [Agent -> Phases]
          /\ closing \in [Agent -> {"no", "context", "bare", "done"}]
          /\ browserOf \in [Agent -> Browser \cup {NoBrowser}]
          /\ browserIdByAgentId \in [Agent -> Browser \cup {NoBrowser}]
      BY DEF Init, Phases, NoBrowser
    <2>3. /\ browser \in [Browser -> {"unused", "launching", "failed", "up", "closing", "gone"}]
          /\ engine \in [Browser -> Engine]
          /\ agentsByBrowserId \in [Browser -> Nat]
      BY <2>1 DEF Init
    <2>4. waiting \in Seq(Agent) /\ creationQueue \in Seq(Agent)
      BY EmptySeq DEF Init
    <2> QED BY <2>2, <2>3, <2>4 DEF Init, TypeOK
  <1>2. LinesOk /\ ListenersOk
    BY DEF Init, LinesOk, AllIn, ListenersOk
  <1>3. CountOk /\ NoIdleCapacity
    BY FS_EmptySet DEF Init, CountOk, NoIdleCapacity, PoolAssumption
  <1> QED BY <1>1, <1>2, <1>3 DEF IInv

\* Closing agents keeps the type of the function "closing".
LEMMA CloseStartedType ==
  ASSUME TypeOK, NEW S
  PROVE  CloseStarted(S) \in [Agent -> {"no", "context", "bare", "done"}]
  BY DEF TypeOK, CloseStarted

\* An agent leaves and hands its slot to the head of the line, if there is one.
LEMMA GrantsToHead ==
  ASSUME IInv, NEW a \in Agent, a \in listening
  PROVE  /\ activeAgentsCount > 0
         /\ waiting = <<>> => Len(Grants) = 0 /\ Range(Grants) = {}
         /\ waiting # <<>> => Len(Grants) = 1 /\ Range(Grants) = {Head(waiting)}
         /\ SubSeq(waiting, Len(Grants) + 1, Len(waiting))
              = IF waiting = <<>> THEN <<>> ELSE Tail(waiting)
  <1> USE DEF IInv
  <1>1. activeAgentsCount >= Cardinality(listening)
    BY DEF CountOk
  <1>2. activeAgentsCount \in Nat /\ activeAgentsCount # 0
    <2>1. IsFiniteSet(listening)
      BY FS_Subset, PoolAssumption DEF TypeOK, PoolAssumption
    <2>2. Cardinality(listening) \in Nat /\ Cardinality(listening) # 0
      BY <2>1, FS_EmptySet, FS_CardinalityType
    <2> QED BY <1>1, <2>2 DEF TypeOK
  <1>3. waiting \in Seq(Agent) /\ Len(waiting) \in Nat
    BY DEF TypeOK
  <1>4. CASE waiting = <<>>
    <2>1. MaxAgents - (activeAgentsCount - 1) >= 0
      BY <1>2, PoolAssumption DEF NoIdleCapacity, PoolAssumption
    <2>2. Grants = SubSeq(waiting, 1, 0)
      BY <1>4, <2>1 DEF Grants
    <2>3. Grants = <<>>
      BY <2>2, <1>3, <1>4
    <2> QED BY <2>3, <1>2, <1>4 DEF Range
  <1>5. CASE waiting # <<>>
    <2>1. MaxAgents - (activeAgentsCount - 1) = 1
      BY <1>2, <1>5, PoolAssumption DEF NoIdleCapacity, PoolAssumption
    <2>2. Len(waiting) >= 1
      BY <1>3, <1>5
    <2>3. Grants = SubSeq(waiting, 1, 1)
      BY <1>3, <2>1, <2>2 DEF Grants
    <2>4. Grants = <<Head(waiting)>>
      <3>1. Grants \in Seq(Agent) /\ Len(Grants) = 1 /\ Grants[1] = waiting[1]
        BY <1>3, <2>2, <2>3, SubSeqProperties
      <3> QED BY <3>1, <1>3, <1>5
    <2>5. Len(Grants) = 1 /\ Range(Grants) = {Head(waiting)}
      BY <2>4 DEF Range
    <2>6. SubSeq(waiting, 2, Len(waiting)) = Tail(waiting)
      BY <1>3, <1>5, TailIsSubSeq
    <2> QED BY <2>5, <2>6, <1>2, <1>5
  <1> QED BY <1>4, <1>5

\* What onAgentClosed does to the slots, the line and the phases.
LEMMA HandOver ==
  ASSUME IInv, NEW a \in Agent, a \in listening, OnAgentClosed(a)
  PROVE  /\ waiting = <<>> => /\ \A x \in Agent : phase'[x] = phase[x]
                              /\ waiting' = <<>>
                              /\ listening' = listening \ {a}
                              /\ activeAgentsCount' = activeAgentsCount - 1
         /\ waiting # <<>> => /\ \A x \in Agent : phase'[x] = IF x = Head(waiting) THEN "granted" ELSE phase[x]
                              /\ waiting' = Tail(waiting)
                              /\ listening' = (listening \ {a}) \cup {Head(waiting)}
                              /\ activeAgentsCount' = activeAgentsCount
  <1>1. activeAgentsCount \in Nat
    BY DEF IInv, TypeOK
  <1>2. /\ activeAgentsCount' = activeAgentsCount - 1 + Len(Grants)
        /\ waiting' = SubSeq(waiting, Len(Grants) + 1, Len(waiting))
        /\ listening' = (listening \ {a}) \cup Range(Grants)
        /\ \A x \in Agent : phase'[x] = IF x \in Range(Grants) THEN "granted" ELSE phase[x]
    BY DEF OnAgentClosed
  <1> HIDE DEF OnAgentClosed
  <1>3. CASE waiting = <<>>
    <2>1. /\ Len(Grants) = 0 /\ Range(Grants) = {}
          /\ SubSeq(waiting, Len(Grants) + 1, Len(waiting)) = <<>>
      BY <1>3, GrantsToHead
    <2>2. waiting' = <<>>
      BY <1>2, <2>1
    <2>3. activeAgentsCount' = activeAgentsCount - 1
      BY <1>1, <1>2, <2>1
    <2>4. listening' = listening \ {a} /\ \A x \in Agent : phase'[x] = phase[x]
      BY <1>2, <2>1
    <2> QED BY <1>3, <2>2, <2>3, <2>4
  <1>4. CASE waiting # <<>>
    <2>1. /\ Len(Grants) = 1 /\ Range(Grants) = {Head(waiting)}
          /\ SubSeq(waiting, Len(Grants) + 1, Len(waiting)) = Tail(waiting)
      BY <1>4, GrantsToHead
    <2>2. waiting' = Tail(waiting)
      BY <1>2, <2>1
    <2>3. activeAgentsCount' = activeAgentsCount
      BY <1>1, <1>2, <2>1
    <2>4. listening' = (listening \ {a}) \cup {Head(waiting)}
      BY <1>2, <2>1
    <2>5. \A x \in Agent : phase'[x] = IF x = Head(waiting) THEN "granted" ELSE phase[x]
      BY <1>2, <2>1
    <2> QED BY <1>4, <2>2, <2>3, <2>4, <2>5
  <1> QED BY <1>3, <1>4
-----------------------------------------------------------------------------
\* Every step keeps the types; that of the count needs the rest of the invariant.
LEMMA TypeStep == IInv /\ [Next]_vars => TypeOK'
  <1> SUFFICES ASSUME IInv, [Next]_vars PROVE TypeOK' OBVIOUS
  <1> USE DEF Phases, NoBrowser, Becomes, vars, poolVars, slotVars, queueVars, loadVars, browserVars, agentVars
  <1>0. TypeOK BY DEF IInv
  <1>1. ASSUME NEW a \in Agent, CreateAgent(a) PROVE TypeOK'
    BY <1>0, <1>1 DEF TypeOK, CreateAgent
  <1>2. ASSUME NEW a \in Agent, Open(a) PROVE TypeOK'
    <2>1. Append(waiting, a) \in Seq(Agent)
      BY <1>0, AppendProperties DEF TypeOK
    <2>2. CASE Register(a) /\ Becomes(a, "granted") /\ UNCHANGED waiting
      BY <1>0, <1>2, <2>2 DEF TypeOK, Open, Register
    <2>3. CASE waiting' = Append(waiting, a) /\ Becomes(a, "waiting") /\ UNCHANGED <<activeAgentsCount, listening>>
      BY <1>0, <1>2, <2>1, <2>3 DEF TypeOK, Open
    <2> QED BY <1>2, <2>2, <2>3 DEF Open
  <1>3. ASSUME NEW a \in Agent, CloseByOwner(a) PROVE TypeOK'
    BY <1>0, <1>3, CloseStartedType DEF TypeOK, CloseByOwner
  <1>4. ASSUME NEW a \in Agent, Catch(a) PROVE TypeOK'
    BY <1>0, <1>4, CloseStartedType DEF TypeOK, Catch
  <1>5. ASSUME NEW a \in Agent, CloseFinish(a) PROVE TypeOK'
    <2>1. CASE a \notin listening
      BY <1>0, <1>5, <2>1 DEF TypeOK, CloseFinish
    <2>2. CASE a \in listening
      <3>1. OnAgentClosed(a)
        BY <1>5, <2>2 DEF CloseFinish
      <3>2. activeAgentsCount' \in Nat
        BY <1>0, <2>2, <3>1, GrantsToHead DEF TypeOK, OnAgentClosed
      <3>3. waiting' \in Seq(Agent)
        BY <1>0, <2>2, <3>1, GrantsToHead, EmptySeq, HeadTailProperties DEF TypeOK, OnAgentClosed
      <3>4. Range(Grants) \subseteq Agent
        <4>1. waiting # <<>> => Head(waiting) \in Agent
          BY <1>0, HeadTailProperties DEF TypeOK
        <4>2. \/ Range(Grants) = {}
              \/ waiting # <<>> /\ Range(Grants) = {Head(waiting)}
          BY <2>2, GrantsToHead
        <4> QED BY <4>1, <4>2
      <3>5. listening' \subseteq Agent /\ agentsById' \subseteq Agent /\ phase' \in [Agent -> Phases]
        BY <1>0, <3>1, <3>4 DEF TypeOK, OnAgentClosed
      <3>6. agentsByBrowserId' \in [Browser -> Nat] /\ browserIdByAgentId' \in [Agent -> Browser \cup {NoBrowser}]
        <4> DEFINE b == browserIdByAgentId[a]
        <4>1. b \in Browser \cup {NoBrowser}
          BY <1>0 DEF TypeOK
        <4>2. CASE b # NoBrowser /\ agentsByBrowserId[b] > 0
          <5>1. /\ agentsByBrowserId' = [agentsByBrowserId EXCEPT ![b] = @ - 1]
                /\ browserIdByAgentId' = [browserIdByAgentId EXCEPT ![a] = NoBrowser]
            BY <3>1, <4>2 DEF OnAgentClosed
          <5>2. agentsByBrowserId[b] - 1 \in Nat
            BY <1>0, <4>1, <4>2 DEF TypeOK
          <5> QED BY <1>0, <4>1, <5>1, <5>2 DEF TypeOK
        <4>3. CASE ~(b # NoBrowser /\ agentsByBrowserId[b] > 0)
          BY <1>0, <3>1, <4>3 DEF TypeOK, OnAgentClosed
        <4> QED BY <4>2, <4>3
      <3> QED BY <1>0, <1>5, <3>2, <3>3, <3>5, <3>6 DEF TypeOK, CloseFinish
    <2> QED BY <2>1, <2>2
  <1>6. ASSUME NEW a \in Agent, GetBrowser(a) PROVE TypeOK'
    <2>1. Append(creationQueue, a) \in Seq(Agent)
      BY <1>0, AppendProperties DEF TypeOK
    <2>2. CASE creationQueue' = Append(creationQueue, a) /\ Becomes(a, "queued")
      BY <1>0, <1>6, <2>1, <2>2 DEF TypeOK, GetBrowser
    <2>3. CASE Becomes(a, "throwing") /\ UNCHANGED creationQueue
      BY <1>0, <1>6, <2>3 DEF TypeOK, GetBrowser
    <2> QED BY <1>6, <2>2, <2>3 DEF GetBrowser
  <1>7. ASSUME NEW a \in Agent, LaunchOk(a) PROVE TypeOK'
    BY <1>0, <1>7 DEF TypeOK, LaunchOk
  <1>8. ASSUME NEW a \in Agent, Subscribe(a) PROVE TypeOK'
    BY <1>0, <1>8 DEF TypeOK, Subscribe
  <1>9. ASSUME NEW a \in Agent, ProxyReady(a) PROVE TypeOK'
    BY <1>0, <1>9 DEF TypeOK, ProxyReady
  <1>10. ASSUME NEW a \in Agent, ContextCreated(a) PROVE TypeOK'
    BY <1>0, <1>10 DEF TypeOK, ContextCreated
  <1>11. ASSUME NEW a \in Agent, KeepContext(a) PROVE TypeOK'
    BY <1>0, <1>11 DEF TypeOK, KeepContext
  <1>12. ASSUME NEW a \in Agent, Opened(a) PROVE TypeOK'
    BY <1>0, <1>12 DEF TypeOK, Opened
  <1>13. ASSUME NEW a \in Agent, Settle(a) PROVE TypeOK'
    BY <1>0, <1>13 DEF TypeOK, Settle
  <1>14. ASSUME NEW a \in Agent, LaunchFails(a) PROVE TypeOK'
    BY <1>0, <1>14 DEF TypeOK, LaunchFails
  <1>15. ASSUME NEW a \in Agent, StepFails(a) PROVE TypeOK'
    BY <1>0, <1>15 DEF TypeOK, StepFails
  <1>16. ASSUME NEW a \in Agent, ContextCloses(a) PROVE TypeOK'
    BY <1>0, <1>16, CloseStartedType DEF TypeOK, ContextCloses
  <1>17. ASSUME NEW b \in Browser, EmitClose(b) PROVE TypeOK'
    BY <1>0, <1>17, CloseStartedType DEF TypeOK, EmitClose
  <1>18. ASSUME NEW b \in Browser, Crash(b) PROVE TypeOK'
    BY <1>17, <1>18 DEF Crash
  <1>19. ASSUME NEW b \in Browser, FailedLaunchEvent(b) PROVE TypeOK'
    BY <1>17, <1>19 DEF FailedLaunchEvent
  <1>20. ASSUME NEW b \in Browser, BrowserCloseDone(b) PROVE TypeOK'
    BY <1>17, <1>20 DEF BrowserCloseDone
  <1>21. ASSUME NEW b \in Browser, BrowserClose(b) PROVE TypeOK'
    BY <1>0, <1>21 DEF TypeOK, BrowserClose
  <1>22. ASSUME NEW b \in Browser, Reap(b) PROVE TypeOK'
    BY <1>0, <1>22 DEF TypeOK, Reap
  <1>23. ASSUME NEW a \in Agent, PickBrowser(a)
         PROVE  /\ phase' \in [Agent -> Phases]
                /\ browserOf' \in [Agent -> Browser \cup {NoBrowser}]
                /\ browsersById' \subseteq Browser /\ watched' \subseteq Browser
                /\ agentsByBrowserId' \in [Browser -> Nat]
                /\ browserIdByAgentId' \in [Agent -> Browser \cup {NoBrowser}]
                /\ browser' \in [Browser -> {"unused", "launching", "failed", "up", "closing", "gone"}]
                /\ engine' \in [Browser -> Engine]
    <2>1. EngineOf[a] \in Engine
      BY PoolAssumption DEF PoolAssumption
    <2>2. ASSUME NEW b \in Browser, Assign(a, b)
          PROVE  /\ agentsByBrowserId' \in [Browser -> Nat]
                 /\ browserIdByAgentId' \in [Agent -> Browser \cup {NoBrowser}]
                 /\ browserOf' \in [Agent -> Browser \cup {NoBrowser}]
      BY <1>0, <2>2 DEF TypeOK, Assign
    <2>3. CASE \E b \in Reusable(a) : /\ Assign(a, b) /\ Becomes(a, "assigned")
                                      /\ UNCHANGED <<browsersById, browser, engine, watched>>
      <3>1. PICK b \in Browser : /\ Assign(a, b) /\ Becomes(a, "assigned")
                                 /\ UNCHANGED <<browsersById, browser, engine, watched>>
        BY <1>0, <2>3 DEF Reusable, TypeOK
      <3> QED BY <1>0, <2>2, <3>1 DEF TypeOK
    <2>4. CASE \E b \in Browser :
                 /\ Assign(a, b)
                 /\ browsersById' = browsersById \cup {b}
                 /\ watched' = watched \cup {b}
                 /\ browser' = [browser EXCEPT ![b] = "launching"]
                 /\ engine' = [engine EXCEPT ![b] = EngineOf[a]]
                 /\ Becomes(a, "launching")
      BY <1>0, <2>1, <2>2, <2>4 DEF TypeOK
    <2> QED BY <1>23, <2>3, <2>4 DEF PickBrowser
  <1>24. CASE RunQueue
    <2>1. Head(creationQueue) \in Agent /\ creationQueue' \in Seq(Agent)
      BY <1>0, <1>24, HeadTailProperties DEF TypeOK, RunQueue
    <2>2. CASE mitm = "up"
      BY <1>0, <1>24, <1>23, <2>1, <2>2 DEF TypeOK, RunQueue
    <2>3. CASE mitm # "up"
      BY <1>0, <1>24, <2>1, <2>3 DEF TypeOK, RunQueue
    <2> QED BY <2>2, <2>3
  <1>25. ASSUME NEW given \in BOOLEAN, MitmStarted(given) PROVE TypeOK'
    BY <1>0, <1>25, <1>23 DEF TypeOK, MitmStarted, Awaiting
  <1>26. CASE StartPool
    BY <1>0, <1>26 DEF TypeOK, StartPool
  <1>27. ASSUME NEW given \in BOOLEAN, MitmFails(given) PROVE TypeOK'
    BY <1>0, <1>27 DEF TypeOK, MitmFails
  <1>28. CASE PoolClosed
    BY <1>0, <1>28 DEF TypeOK, PoolClosed
  <1>31. ASSUME NEW a \in Agent, JoinOpen(a) PROVE TypeOK'
    BY <1>0, <1>31 DEF TypeOK, JoinOpen
  <1>29. CASE ClosePool
    <2>1. CloseStarted(agentsById) \in [Agent -> {"no", "context", "bare", "done"}]
      BY <1>0, CloseStartedType
    <2>2. waiting' \in Seq(Agent) /\ creationQueue' \in Seq(Agent)
      BY <1>29, EmptySeq DEF ClosePool
    <2> QED BY <1>0, <1>29, <2>1, <2>2 DEF TypeOK, ClosePool
  <1>30. CASE UNCHANGED vars
    BY <1>0, <1>30 DEF TypeOK
  <1> QED
    BY <1>1, <1>2, <1>3, <1>4, <1>5, <1>6, <1>7, <1>8, <1>9, <1>10, <1>11, <1>12, <1>13, <1>14, <1>15, <1>16, <1>18, <1>19, <1>20, <1>21, <1>22, <1>24, <1>25, <1>26, <1>27, <1>28, <1>29, <1>30, <1>31
    DEF Next, AgentStep, OpenStep, BrowserStep, PoolStep
-----------------------------------------------------------------------------
(* Lines whose agents change phase, and lines that grow or shrink *)

\* A line stays right when none of its agents leaves the phase of the line.
LEMMA AllInSame ==
  ASSUME NEW q \in Seq(Agent), NEW f, NEW g, NEW p, AllIn(q, f, p),
         \A a \in Agent : f[a] = p => g[a] = p
  PROVE  AllIn(q, g, p)
  BY DEF AllIn

\* An agent that enters the phase may be put at the end of the line.
LEMMA AllInAppend ==
  ASSUME NEW q \in Seq(Agent), NEW f, NEW g, NEW p, AllIn(q, f, p),
         NEW x \in Agent, f[x] # p, g[x] = p,
         \A a \in Agent : f[a] = p => g[a] = p
  PROVE  AllIn(Append(q, x), g, p)
  <1>1. /\ Append(q, x) \in Seq(Agent)
        /\ Len(Append(q, x)) = Len(q) + 1
        /\ \A i \in 1..Len(q) : Append(q, x)[i] = q[i]
        /\ Append(q, x)[Len(q) + 1] = x
    BY AppendProperties
  <1> DEFINE r == Append(q, x)
  <1>2. r \in Seq(Agent) /\ Len(r) = Len(q) + 1 /\ r[Len(q) + 1] = x
        /\ \A i \in 1..Len(q) : r[i] = q[i]
    BY <1>1
  <1> HIDE DEF r
  <1>3. Len(q) \in Nat /\ DOMAIN q = 1..Len(q) /\ DOMAIN r = 1..(Len(q) + 1)
    BY <1>2
  <1>4. \A i \in DOMAIN r : (i \in DOMAIN q /\ r[i] = q[i]) \/ (i = Len(q) + 1 /\ r[i] = x)
    BY <1>2, <1>3
  <1>5. \A i \in DOMAIN q : q[i] # x /\ q[i] \in Agent
    BY DEF AllIn
  <1>6. \A i, j \in DOMAIN r : i # j => r[i] # r[j]
    BY <1>4, <1>5 DEF AllIn
  <1>7. \A i \in DOMAIN r : g[r[i]] = p
    BY <1>4, <1>5 DEF AllIn
  <1> QED BY <1>6, <1>7 DEF AllIn, r

\* The head of the line may leave the phase when it leaves the line.
LEMMA AllInTail ==
  ASSUME NEW q \in Seq(Agent), q # <<>>, NEW f, NEW g, NEW p, AllIn(q, f, p),
         \A a \in Agent : a # Head(q) /\ f[a] = p => g[a] = p
  PROVE  AllIn(Tail(q), g, p)
  <1> DEFINE r == Tail(q)
  <1>1. r \in Seq(Agent) /\ Len(r) = Len(q) - 1 /\ \A i \in 1..Len(r) : r[i] = q[i + 1]
    BY HeadTailProperties
  <1>2. Len(q) \in Nat /\ Len(q) # 0 /\ Head(q) = q[1]
    OBVIOUS
  <1> HIDE DEF r
  <1>3. DOMAIN r = 1..Len(r) /\ DOMAIN q = 1..Len(q)
    BY <1>1
  <1>4. \A i \in DOMAIN r : i + 1 \in DOMAIN q /\ r[i] = q[i + 1] /\ r[i] # Head(q)
    BY <1>1, <1>2, <1>3 DEF AllIn
  <1>5. \A i, j \in DOMAIN r : i # j => r[i] # r[j]
    BY <1>1, <1>3, <1>4 DEF AllIn
  <1>6. \A i \in DOMAIN r : g[r[i]] = p
    BY <1>1, <1>3, <1>4 DEF AllIn
  <1> QED BY <1>5, <1>6 DEF AllIn, r

\* The empty line is right.
LEMMA AllInEmpty ==
  ASSUME NEW f, NEW p
  PROVE  AllIn(<<>>, f, p)
  BY DEF AllIn
-----------------------------------------------------------------------------
(* Steps that leave the slots alone *)

SlotsOk == LinesOk /\ ListenersOk /\ CountOk /\ NoIdleCapacity

\* Nothing but phases changes, and no agent joins or leaves a line or is
\* registered; agents of M are exempt from keeping their phase "queued".
Quiet(M) ==
  /\ UNCHANGED <<activeAgentsCount, waiting, listening>>
  /\ pool' = "open" => pool = "open"
  /\ \A a \in Agent : phase[a] = "waiting" => phase'[a] = "waiting"
  /\ \A a \in Agent \ M : phase[a] = "queued" => phase'[a] = "queued"
  /\ \A a \in Agent : \/ phase[a] \in {"new", "created", "waiting"}
                       \/ phase'[a] \notin {"new", "created", "waiting"}

\* A step that leaves the slots alone keeps the invariant on slots.
LEMMA QuietStep ==
  ASSUME IInv, NEW M, Quiet(M), AllIn(creationQueue', phase', "queued")
  PROVE  SlotsOk'
  <1>1. LinesOk'
    BY AllInSame DEF IInv, TypeOK, LinesOk, Quiet
  <1>2. ListenersOk'
    BY DEF IInv, TypeOK, ListenersOk, Quiet
  <1>3. CountOk' /\ NoIdleCapacity'
    BY DEF IInv, CountOk, NoIdleCapacity, Quiet
  <1> QED BY <1>1, <1>2, <1>3 DEF SlotsOk

\* The same for a step that leaves browserCreationQueue alone too.
LEMMA QuietSameQueue ==
  ASSUME IInv, Quiet({}), UNCHANGED creationQueue
  PROVE  SlotsOk'
  <1>1. AllIn(creationQueue', phase', "queued")
    BY AllInSame DEF IInv, TypeOK, LinesOk, Quiet
  <1> QED BY <1>1, QuietStep

-----------------------------------------------------------------------------
\* Every step keeps the invariant on slots, whoever opens, closes, fails or crashes.
LEMMA SlotStep == IInv /\ [Next]_vars => SlotsOk'
  <1> SUFFICES ASSUME IInv, [Next]_vars PROVE SlotsOk' OBVIOUS
  <1> USE DEF Becomes, vars, poolVars, slotVars, queueVars, loadVars, browserVars, agentVars
  <1>0. TypeOK /\ LinesOk /\ ListenersOk /\ CountOk /\ NoIdleCapacity
    BY DEF IInv
  <1>1. ASSUME NEW a \in Agent, CreateAgent(a) PROVE SlotsOk'
    BY <1>0, <1>1, QuietSameQueue DEF TypeOK, Quiet, CreateAgent
  <1>2. ASSUME NEW a \in Agent, CloseByOwner(a) PROVE SlotsOk'
    BY <1>0, <1>2, QuietSameQueue DEF TypeOK, Quiet, CloseByOwner
  <1>3. ASSUME NEW a \in Agent, Catch(a) PROVE SlotsOk'
    BY <1>0, <1>3, QuietSameQueue DEF TypeOK, Quiet, Catch
  <1>4. ASSUME NEW a \in Agent, LaunchOk(a) PROVE SlotsOk'
    BY <1>0, <1>4, QuietSameQueue DEF TypeOK, Quiet, LaunchOk
  <1>5. ASSUME NEW a \in Agent, Subscribe(a) PROVE SlotsOk'
    BY <1>0, <1>5, QuietSameQueue DEF TypeOK, Quiet, Subscribe
  <1>6. ASSUME NEW a \in Agent, ProxyReady(a) PROVE SlotsOk'
    BY <1>0, <1>6, QuietSameQueue DEF TypeOK, Quiet, ProxyReady
  <1>7. ASSUME NEW a \in Agent, ContextCreated(a) PROVE SlotsOk'
    BY <1>0, <1>7, QuietSameQueue DEF TypeOK, Quiet, ContextCreated
  <1>8. ASSUME NEW a \in Agent, KeepContext(a) PROVE SlotsOk'
    BY <1>0, <1>8, QuietSameQueue DEF TypeOK, Quiet, KeepContext
  <1>9. ASSUME NEW a \in Agent, Opened(a) PROVE SlotsOk'
    BY <1>0, <1>9, QuietSameQueue DEF TypeOK, Quiet, Opened
  <1>10. ASSUME NEW a \in Agent, Settle(a) PROVE SlotsOk'
    BY <1>0, <1>10, QuietSameQueue DEF TypeOK, Quiet, Settle
  <1>11. ASSUME NEW a \in Agent, LaunchFails(a) PROVE SlotsOk'
    BY <1>0, <1>11, QuietSameQueue DEF TypeOK, Quiet, LaunchFails
  <1>12. ASSUME NEW a \in Agent, StepFails(a) PROVE SlotsOk'
    BY <1>0, <1>12, QuietSameQueue DEF TypeOK, Quiet, StepFails
  <1>13. ASSUME NEW a \in Agent, ContextCloses(a) PROVE SlotsOk'
    BY <1>0, <1>13, QuietSameQueue DEF TypeOK, Quiet, ContextCloses
  <1>14. ASSUME NEW b \in Browser, Crash(b) PROVE SlotsOk'
    BY <1>0, <1>14, QuietSameQueue DEF TypeOK, Quiet, Crash, EmitClose
  <1>15. ASSUME NEW b \in Browser, FailedLaunchEvent(b) PROVE SlotsOk'
    BY <1>0, <1>15, QuietSameQueue DEF TypeOK, Quiet, FailedLaunchEvent, EmitClose
  <1>16. ASSUME NEW b \in Browser, BrowserCloseDone(b) PROVE SlotsOk'
    BY <1>0, <1>16, QuietSameQueue DEF TypeOK, Quiet, BrowserCloseDone, EmitClose
  <1>17. ASSUME NEW b \in Browser, BrowserClose(b) PROVE SlotsOk'
    BY <1>0, <1>17, QuietSameQueue DEF TypeOK, Quiet, BrowserClose
  <1>18. ASSUME NEW b \in Browser, Reap(b) PROVE SlotsOk'
    BY <1>0, <1>18, QuietSameQueue DEF TypeOK, Quiet, Reap
  <1>19. CASE StartPool
    BY <1>0, <1>19, QuietSameQueue DEF TypeOK, Quiet, StartPool
  <1>20. ASSUME NEW given \in BOOLEAN, MitmFails(given) PROVE SlotsOk'
    BY <1>0, <1>20, QuietSameQueue DEF TypeOK, Quiet, MitmFails, Awaiting
  <1>21. CASE UNCHANGED vars
    BY <1>0, <1>21, QuietSameQueue DEF TypeOK, Quiet
  <1>22. ASSUME NEW given \in BOOLEAN, MitmStarted(given) PROVE SlotsOk'
    <2>1. Quiet({})
      BY <1>0, <1>22 DEF TypeOK, Quiet, MitmStarted, PickBrowser, Awaiting
    <2> QED BY <1>22, <2>1, QuietSameQueue DEF MitmStarted
  <1>23. CASE RunQueue
    <2> DEFINE h == Head(creationQueue)
    <2>1. h \in Agent /\ phase[h] = "queued"
      BY <1>0, <1>23, HeadTailProperties DEF TypeOK, LinesOk, AllIn, RunQueue
    <2>2. \E p \in Phases \ {"new", "created", "waiting"} : phase' = [phase EXCEPT ![h] = p]
      BY <1>23 DEF RunQueue, PickBrowser, Phases
    <2>3. Quiet({h})
      BY <1>0, <1>23, <2>1, <2>2 DEF TypeOK, Quiet, RunQueue
    <2>4. AllIn(creationQueue', phase', "queued")
      BY <1>0, <1>23, <2>3, AllInTail DEF TypeOK, LinesOk, Quiet, RunQueue
    <2> QED BY <2>3, <2>4, QuietStep
  <1>24. ASSUME NEW a \in Agent, GetBrowser(a) PROVE SlotsOk'
    <2>1. Quiet({})
      BY <1>0, <1>24 DEF TypeOK, Quiet, GetBrowser
    <2>2. CASE creationQueue' = Append(creationQueue, a) /\ Becomes(a, "queued")
      <3>1. phase[a] # "queued" /\ phase'[a] = "queued"
        BY <1>0, <1>24, <2>2 DEF TypeOK, GetBrowser
      <3>2. AllIn(creationQueue', phase', "queued")
        BY <1>0, <2>1, <2>2, <3>1, AllInAppend DEF TypeOK, LinesOk, Quiet
      <3> QED BY <2>1, <3>2, QuietStep
    <2>3. CASE UNCHANGED creationQueue
      BY <2>1, <2>3, QuietSameQueue
    <2> QED BY <1>24, <2>2, <2>3 DEF GetBrowser
  <1>25. ASSUME NEW a \in Agent, Open(a) PROVE SlotsOk'
    <2>1. phase[a] = "created" /\ a \notin listening /\ pool' = pool
      BY <1>0, <1>25 DEF ListenersOk, Open
    <2>2. CASE activeAgentsCount < MaxAgents /\ Register(a) /\ Becomes(a, "granted") /\ UNCHANGED waiting
      <3>1. \A x \in Agent : x # a => phase'[x] = phase[x]
        BY <1>0, <2>2 DEF TypeOK
      <3>2. LinesOk'
        BY <1>0, <1>25, <2>1, <2>2, <3>1, AllInSame DEF TypeOK, LinesOk, Open
      <3>3. ListenersOk'
        BY <1>0, <2>2, <3>1 DEF TypeOK, ListenersOk, Register
      <3>4. CountOk'
        <4>1. IsFiniteSet(listening)
          BY <1>0, FS_Subset, PoolAssumption DEF TypeOK, PoolAssumption
        <4>2. Cardinality(listening \cup {a}) = Cardinality(listening) + 1
          BY <2>1, <4>1, FS_AddElement
        <4>3. Cardinality(listening) \in Nat /\ activeAgentsCount \in Nat
          BY <1>0, <4>1, FS_CardinalityType DEF TypeOK
        <4> QED BY <1>0, <1>25, <2>1, <2>2, <4>2, <4>3 DEF CountOk, Register, Open
      <3>5. NoIdleCapacity'
        BY <1>0, <2>2, PoolAssumption DEF TypeOK, NoIdleCapacity, Register, PoolAssumption
      <3> QED BY <3>2, <3>3, <3>4, <3>5 DEF SlotsOk
    <2>3. CASE /\ activeAgentsCount >= MaxAgents /\ waiting' = Append(waiting, a)
               /\ Becomes(a, "waiting") /\ UNCHANGED <<activeAgentsCount, listening>>
      <3>1. phase'[a] = "waiting" /\ \A x \in Agent : x # a => phase'[x] = phase[x]
        BY <1>0, <2>3 DEF TypeOK
      <3>2. AllIn(waiting', phase', "waiting")
        BY <1>0, <2>1, <2>3, <3>1, AllInAppend DEF TypeOK, LinesOk
      <3>3. AllIn(creationQueue', phase', "queued")
        BY <1>0, <1>25, <2>1, <3>1, AllInSame DEF TypeOK, LinesOk, Open
      <3>4. ListenersOk'
        BY <1>0, <2>1, <2>3, <3>1 DEF TypeOK, ListenersOk
      <3>5. CountOk' /\ NoIdleCapacity'
        BY <1>0, <1>25, <2>1, <2>3, PoolAssumption DEF TypeOK, CountOk, NoIdleCapacity, Open, PoolAssumption
      <3> QED BY <3>2, <3>3, <3>4, <3>5 DEF SlotsOk, LinesOk
    <2> QED BY <1>25, <2>2, <2>3 DEF Open
  <1>26. ASSUME NEW a \in Agent, CloseFinish(a) PROVE SlotsOk'
    <2>1. CASE a \notin listening
      <3>1. Quiet({}) /\ UNCHANGED creationQueue
        BY <1>0, <1>26, <2>1 DEF TypeOK, Quiet, CloseFinish
      <3> QED BY <3>1, QuietSameQueue
    <2>2. CASE a \in listening
      <3> DEFINE h == Head(waiting)
      <3>1. OnAgentClosed(a) /\ UNCHANGED <<pool, creationQueue>>
        BY <1>26, <2>2 DEF CloseFinish
      <3>2. /\ activeAgentsCount >= Cardinality(listening)
            /\ pool = "open" => activeAgentsCount = Cardinality(listening)
            /\ activeAgentsCount \in Nat
        BY <1>0, <2>2 DEF CountOk, TypeOK
      <3>3. /\ IsFiniteSet(listening \ {a})
            /\ Cardinality(listening \ {a}) = Cardinality(listening) - 1
            /\ Cardinality(listening) \in Nat /\ Cardinality(listening \ {a}) \in Nat
        <4>1. IsFiniteSet(listening)
          BY <1>0, FS_Subset, PoolAssumption DEF TypeOK, PoolAssumption
        <4>2. IsFiniteSet(listening \ {a})
          BY <4>1, FS_RemoveElement
        <4> QED BY <2>2, <4>1, <4>2, FS_RemoveElement, FS_CardinalityType
      <3>4. CASE waiting = <<>>
        <4>1. /\ \A x \in Agent : phase'[x] = phase[x]
              /\ waiting' = <<>>
              /\ listening' = listening \ {a}
              /\ activeAgentsCount' = activeAgentsCount - 1
          BY <2>2, <3>1, <3>4, HandOver
        <4>2. LinesOk'
          BY <1>0, <3>1, <4>1, AllInSame, AllInEmpty DEF TypeOK, LinesOk
        <4>3. ListenersOk'
          <5>1. listening \subseteq Agent
            BY <1>0 DEF TypeOK
          <5> HIDE DEF h
          <5> QED BY <1>0, <4>1, <5>1 DEF ListenersOk
        <4>4. CountOk' /\ NoIdleCapacity'
          BY <1>0, <3>1, <3>2, <3>3, <4>1, PoolAssumption DEF TypeOK, CountOk, NoIdleCapacity, PoolAssumption
        <4> QED BY <4>2, <4>3, <4>4 DEF SlotsOk
      <3>5. CASE waiting # <<>>
        <4>1. /\ \A x \in Agent : phase'[x] = IF x = h THEN "granted" ELSE phase[x]
              /\ waiting' = Tail(waiting)
              /\ listening' = (listening \ {a}) \cup {h}
              /\ activeAgentsCount' = activeAgentsCount
          BY <2>2, <3>1, <3>5, HandOver
        <4>2. h \in Agent /\ phase[h] = "waiting" /\ h \notin listening
          BY <1>0, <3>5, HeadTailProperties DEF TypeOK, LinesOk, AllIn, ListenersOk
        <4>3. LinesOk'
          <5>1. AllIn(waiting', phase', "waiting")
            BY <1>0, <3>5, <4>1, AllInTail DEF TypeOK, LinesOk
          <5>2. AllIn(creationQueue', phase', "queued")
            BY <1>0, <3>1, <4>1, <4>2, AllInSame DEF TypeOK, LinesOk
          <5> QED BY <5>1, <5>2 DEF LinesOk
        <4>4. ListenersOk'
          <5>1. listening \subseteq Agent
            BY <1>0 DEF TypeOK
          <5> HIDE DEF h
          <5> QED BY <1>0, <4>1, <4>2, <5>1 DEF ListenersOk
        <4>5. CountOk'
          <5>1. Cardinality((listening \ {a}) \cup {h}) = Cardinality(listening \ {a}) + 1
            BY <3>3, <4>2, FS_AddElement
          <5>2. Cardinality((listening \ {a}) \cup {h}) = Cardinality(listening)
            BY <3>3, <5>1
          <5> QED BY <3>1, <3>2, <4>1, <5>2 DEF CountOk
        <4>6. NoIdleCapacity'
          BY <1>0, <3>5, <4>1 DEF NoIdleCapacity
        <4> QED BY <4>3, <4>4, <4>5, <4>6 DEF SlotsOk
      <3> QED BY <3>4, <3>5
    <2> QED BY <2>1, <2>2
  <1>27. CASE ClosePool
    <2>1. LinesOk'
      BY <1>27, AllInEmpty DEF LinesOk, ClosePool
    <2>2. ListenersOk'
      BY <1>0, <1>27 DEF TypeOK, ListenersOk, ClosePool
    <2>3. CountOk' /\ NoIdleCapacity'
      BY <1>0, <1>27 DEF CountOk, NoIdleCapacity, ClosePool
    <2> QED BY <2>1, <2>2, <2>3 DEF SlotsOk
  <1>28. CASE PoolClosed
    <2>1. activeAgentsCount \in Nat /\ Cardinality({}) = 0
      BY <1>0, FS_EmptySet DEF TypeOK
    <2> QED BY <1>0, <1>28, <2>1 DEF SlotsOk, LinesOk, ListenersOk, CountOk, NoIdleCapacity, PoolClosed
  <1>29. ASSUME NEW a \in Agent, JoinOpen(a) PROVE SlotsOk'
    BY <1>0, <1>29, QuietSameQueue DEF TypeOK, Quiet, JoinOpen
  <1> QED
    BY <1>1, <1>2, <1>3, <1>4, <1>5, <1>6, <1>7, <1>8, <1>9, <1>10, <1>11, <1>12, <1>13, <1>14, <1>15, <1>16, <1>17, <1>18, <1>19, <1>20, <1>21, <1>22, <1>23, <1>24, <1>25, <1>26, <1>27, <1>28, <1>29
    DEF Next, AgentStep, OpenStep, BrowserStep, PoolStep

-----------------------------------------------------------------------------
(* The invariants *)

\* The inductive invariant: types, the two lines, the registered agents, the
\* count and the capacity (Pool.waitForAvailability, Pool.onAgentClosed).
THEOREM Inductive == Spec => []IInv
  <1>1. IInv /\ [Next]_vars => IInv'
    BY TypeStep, SlotStep DEF IInv, SlotsOk
  <1> QED BY InitIInv, <1>1, PTL DEF Spec

\* Every variable of the pool keeps its type; in particular the count never
\* drops below zero, whoever closes what.
THEOREM TypeCorrect == Spec => []TypeOK
  <1>1. IInv => TypeOK BY DEF IInv
  <1> QED BY <1>1, Inductive, PTL

\* For any number of agents, any limits and any behaviour of the owners and of
\* the browsers: at most maxConcurrentAgents in service, no idle slot.
THEOREM CapacityIsKept == Spec => []NoIdleCapacity
  <1>1. IInv => NoIdleCapacity BY DEF IInv
  <1> QED BY <1>1, Inductive, PTL
-----------------------------------------------------------------------------
(* The slots of the pool are the slots of AgentSlots *)

\* A step that leaves the slots alone is a stutter of AgentSlots.
LEMMA RefineQuiet ==
  ASSUME UNCHANGED <<waiting, listening>>, pool' = "open" <=> pool = "open"
  PROVE  UNCHANGED Slots!vars
  <1>1. (pool = "open")' = (pool = "open")
    BY Zenon
  <1> QED BY <1>1, Zenon DEF Slots!vars

\* The instance of AgentSlots counts as the pool does.
LEMMA SameCardinality == \A S : Slots!Cardinality(S) = Cardinality(S)
  BY Zenon DEF Slots!Cardinality, Cardinality

\* Every step of the pool is a step of AgentSlots or a stutter.
LEMMA RefineStep == IInv /\ [Next]_vars => [Slots!Next]_(Slots!vars)
  <1> SUFFICES ASSUME IInv, [Next]_vars PROVE [Slots!Next]_(Slots!vars) OBVIOUS
  <1> USE DEF poolVars, slotVars
  <1>0. TypeOK /\ LinesOk /\ ListenersOk /\ CountOk /\ NoIdleCapacity
    BY DEF IInv
  <1>1. ASSUME NEW a \in Agent, Open(a) PROVE Slots!Next
    <2>1. a \notin listening /\ pool' = pool
      BY <1>0, <1>1 DEF ListenersOk, Open
    <2>2. /\ activeAgentsCount >= Cardinality(listening)
          /\ pool = "open" => activeAgentsCount = Cardinality(listening)
          /\ activeAgentsCount \in Nat /\ MaxAgents \in Nat /\ Cardinality(listening) \in Nat
      <3>1. IsFiniteSet(listening)
        BY <1>0, FS_Subset, PoolAssumption DEF TypeOK, PoolAssumption
      <3> QED BY <1>0, <3>1, FS_CardinalityType, PoolAssumption DEF CountOk, TypeOK, PoolAssumption
    <2>3. CASE activeAgentsCount < MaxAgents /\ Register(a) /\ UNCHANGED waiting
      <3>1. waiting = <<>>
        BY <1>0, <2>2, <2>3 DEF NoIdleCapacity
      <3>2. Slots!Enter(a)
        <4>1. UNCHANGED <<waiting, pool = "open">>
          BY <2>1, <2>3, Zenon
        <4>2. Slots!Cardinality(listening) < MaxAgents
          <5>1. Cardinality(listening) < MaxAgents
            BY <2>2, <2>3
          <5> QED BY <5>1, SameCardinality
        <4>3. listening' = listening \cup {a}
          BY <2>3 DEF Register
        <4> QED BY <2>1, <3>1, <4>1, <4>2, <4>3, Zenon DEF Slots!Enter
      <3> QED BY <3>2 DEF Slots!Next
    <2>4. CASE activeAgentsCount >= MaxAgents /\ waiting' = Append(waiting, a) /\ UNCHANGED listening
      <3>1. a \notin Slots!Range(waiting)
        BY <1>0, <1>1 DEF TypeOK, LinesOk, AllIn, Slots!Range, Open
      <3>2. Slots!StandInLine(a)
        <4>1. UNCHANGED <<listening, pool = "open">>
          BY <2>1, <2>4, Zenon
        <4>2. pool = "open" => Slots!Cardinality(listening) >= MaxAgents
          <5>1. pool = "open" => Cardinality(listening) >= MaxAgents
            BY <2>2, <2>4
          <5> QED BY <5>1, SameCardinality
        <4>3. a \notin listening \cup Slots!Range(waiting)
          BY <2>1, <3>1
        <4> QED BY <2>1, <2>4, <4>1, <4>2, <4>3, Zenon DEF Slots!StandInLine
      <3> QED BY <3>2 DEF Slots!Next
    <2> QED BY <1>1, <2>3, <2>4 DEF Open
  <1>2. ASSUME NEW a \in Agent, CloseFinish(a) PROVE [Slots!Next]_(Slots!vars)
    <2>1. CASE a \notin listening
      BY <1>2, <2>1, RefineQuiet DEF CloseFinish
    <2>2. CASE a \in listening
      <3>1. OnAgentClosed(a) /\ UNCHANGED pool
        BY <1>2, <2>2 DEF CloseFinish
      <3>2. Slots!Leave(a)
        BY <2>2, <3>1, HandOver DEF Slots!Leave
      <3> QED BY <3>2 DEF Slots!Next
    <2> QED BY <2>1, <2>2
  <1>3. CASE ClosePool
    BY <1>3 DEF ClosePool, Slots!Next, Slots!SendAway
  <1>4. CASE PoolClosed
    BY <1>4 DEF PoolClosed, Slots!Next, Slots!Forget
  <1>5. ASSUME NEW a \in Agent,
               \/ CreateAgent(a) \/ JoinOpen(a) \/ CloseByOwner(a) \/ LaunchFails(a) \/ StepFails(a)
               \/ ContextCloses(a)
               \/ GetBrowser(a) \/ LaunchOk(a) \/ Subscribe(a) \/ ProxyReady(a) \/ ContextCreated(a)
               \/ KeepContext(a) \/ Opened(a) \/ Catch(a) \/ Settle(a)
        PROVE  UNCHANGED <<waiting, listening>> /\ (pool' = "open" <=> pool = "open")
    BY <1>5 DEF CreateAgent, JoinOpen, CloseByOwner, LaunchFails, StepFails, ContextCloses, GetBrowser, LaunchOk, Subscribe, ProxyReady, ContextCreated, KeepContext, Opened, Catch, Settle
  <1>6. ASSUME NEW b \in Browser,
               \/ Crash(b) \/ FailedLaunchEvent(b) \/ BrowserClose(b) \/ BrowserCloseDone(b) \/ Reap(b)
        PROVE  UNCHANGED <<waiting, listening>> /\ (pool' = "open" <=> pool = "open")
    BY <1>6 DEF Crash, FailedLaunchEvent, BrowserClose, BrowserCloseDone, Reap, EmitClose
  <1>7. ASSUME \/ RunQueue \/ StartPool
               \/ \E given \in BOOLEAN : MitmStarted(given) \/ MitmFails(given)
        PROVE  UNCHANGED <<waiting, listening>> /\ (pool' = "open" <=> pool = "open")
    BY <1>7 DEF RunQueue, StartPool, MitmStarted, MitmFails
  <1>8. CASE UNCHANGED vars
    BY <1>8, RefineQuiet DEF vars
  <1> QED
    BY <1>1, <1>2, <1>3, <1>4, <1>5, <1>6, <1>7, <1>8, RefineQuiet
    DEF Next, AgentStep, OpenStep, BrowserStep, PoolStep

\* Pool implements its abstract specification for any number of agents and any
\* limits: waitForAvailability and onAgentClosed let nobody pass the line, hand
\* every slot to its head in the step in which it is given back, and Pool.close
\* sends the line away.
THEOREM PoolImplementsSlots == Spec => ImplementsAgentSlots
  <1>1. Init => Slots!Init
    BY DEF Init, Slots!Init
  <1>2. IInv /\ [Next]_vars => [Slots!Next]_(Slots!vars)
    BY RefineStep
  <1> QED BY <1>1, <1>2, Inductive, PTL DEF Spec, ImplementsAgentSlots, Slots!Spec
-----------------------------------------------------------------------------
(* The load of the browsers *)

\* The phases before getBrowser has given the agent a browser.
Early == {"new", "created", "waiting", "granted", "queued", "starting"}
Expecting == {"waiting", "granted", "queued", "starting"}

\* The agents that count for browser b.
Load(b) == {a \in Agent : InService(a) /\ browserIdByAgentId[a] = b}

AssignedOk ==
  /\ \A a \in Agent : phase[a] \in Early =>
       browserIdByAgentId[a] = NoBrowser /\ a \notin subscribed \cup hasContext
  /\ \A b \in Browser : browser[b] = "unused" => agentsByBrowserId[b] = 0 /\ b \notin browsersById

\* Nobody closes an agent that expects a browser, and the pool hears of the
\* close of every agent in service.
ServedOk ==
  \A a \in Agent :
    /\ closing[a] # "no" => phase[a] \notin Expecting
    /\ InService(a) => a \in listening
    /\ phase[a] \in {"rejected", "void"} => closing[a] = "done"

LoadOk ==
  \A b \in Browser : /\ agentsByBrowserId[b] = Cardinality(Load(b))
                     /\ agentsByBrowserId[b] <= MaxAgentsPerBrowser

LoadIInv == pool = "open" => AssignedOk /\ ServedOk /\ LoadOk

\* Owners close agents they have not opened, or that are open; not in between.
Patient == \A world \in Environments : {"impatientOwner", "openAfterClose"} \cap world = {}

\* A step that neither assigns a browser nor ends the close of an agent.
LoadQuiet ==
  /\ UNCHANGED <<agentsByBrowserId, browserIdByAgentId>>
  /\ listening \subseteq listening' /\ browsersById' \subseteq browsersById
  /\ \A b \in Browser : browser'[b] = "unused" => browser[b] = "unused"
  /\ \A a \in Agent :
       /\ phase'[a] \in Early => phase[a] \in Early
       /\ a \in subscribed' \cup hasContext' =>
            a \in subscribed \cup hasContext \/ phase'[a] \notin Early
       /\ closing'[a] = closing[a] \/ (closing[a] = "no" /\ closing'[a] # "done"
                                         /\ phase'[a] \notin Expecting)
       /\ phase'[a] \in Expecting => phase[a] \in Expecting \/ closing[a] = "no"
       /\ phase'[a] \in Admitted => phase[a] \in Admitted \/ (phase[a] \in Early /\ a \in listening')
       /\ phase[a] \in Admitted => phase'[a] \in Admitted \/ closing[a] = "done"
       /\ phase'[a] \in {"rejected", "void"} => phase'[a] = phase[a] \/ closing[a] = "done"

\* Such a step keeps the load of every browser.
LEMMA QuietLoad ==
  ASSUME LoadIInv, pool = "open", LoadQuiet
  PROVE  LoadIInv'
  <1> USE DEF LoadIInv
  <1>1. AssignedOk'
    BY DEF AssignedOk, LoadQuiet
  <1>2. ServedOk'
    <2> SUFFICES ASSUME NEW a \in Agent
                 PROVE  /\ closing'[a] # "no" => phase'[a] \notin Expecting
                        /\ InService(a)' => a \in listening'
                        /\ phase'[a] \in {"rejected", "void"} => closing'[a] = "done"
      BY DEF ServedOk
    <2>1. closing'[a] # "no" => phase'[a] \notin Expecting
      BY DEF ServedOk, LoadQuiet
    <2>2. InService(a)' => a \in listening'
      BY DEF ServedOk, LoadQuiet, InService
    <2>3. phase'[a] \in {"rejected", "void"} => closing'[a] = "done"
      BY DEF ServedOk, LoadQuiet
    <2> QED BY <2>1, <2>2, <2>3
  <1>3. LoadOk'
    <2> SUFFICES ASSUME NEW b \in Browser
                 PROVE  Load(b)' = Load(b)
      BY DEF LoadOk, LoadQuiet
    <2> SUFFICES ASSUME NEW a \in Agent, browserIdByAgentId[a] = b
                 PROVE  InService(a)' <=> InService(a)
      BY DEF Load, LoadQuiet
    <2>1. phase[a] \notin Early
      BY DEF AssignedOk, Browser, NoBrowser
    <2> QED BY <2>1 DEF LoadQuiet, InService
  <1> QED BY <1>1, <1>2, <1>3

\* The steps of one agent that are quiet.
LEMMA AgentIsQuiet ==
  ASSUME IInv, LoadIInv, Patient, pool = "open", NEW a \in Agent,
         \/ CreateAgent(a) \/ Open(a) \/ JoinOpen(a) \/ CloseByOwner(a) \/ LaunchFails(a)
         \/ StepFails(a) \/ ContextCloses(a) \/ OpenStep(a)
  PROVE  LoadQuiet
  <1> USE DEF IInv, TypeOK, LoadIInv, Becomes, Early, Expecting, Admitted, Phases,
              poolVars, slotVars, loadVars, browserVars, agentVars, LoadQuiet
  <1>1. CASE CreateAgent(a) \/ JoinOpen(a)
    BY <1>1 DEF CreateAgent, JoinOpen
  <1>2. CASE Open(a)
    BY <1>2 DEF Open, Register, Patient
  <1>3. CASE CloseByOwner(a)
    BY <1>3 DEF CloseByOwner, CloseStarted, Patient
  <1>4. CASE LaunchFails(a)
    BY <1>4 DEF LaunchFails
  <1>5. CASE StepFails(a)
    BY <1>5 DEF StepFails
  <1>6. CASE ContextCloses(a)
    BY <1>6 DEF ContextCloses, CloseStarted, AssignedOk
  <1>7. CASE GetBrowser(a) \/ LaunchOk(a)
    BY <1>7 DEF GetBrowser, LaunchOk, ServedOk
  <1>8. CASE Subscribe(a) \/ ProxyReady(a) \/ ContextCreated(a) \/ KeepContext(a) \/ Opened(a)
    BY <1>8 DEF Subscribe, ProxyReady, ContextCreated, KeepContext, Opened
  <1>9. CASE Catch(a) \/ Settle(a)
    BY <1>9 DEF Catch, Settle, CloseStarted
  <1> QED BY <1>1, <1>2, <1>3, <1>4, <1>5, <1>6, <1>7, <1>8, <1>9 DEF OpenStep

\* The steps of the browsers, and those of the pool that assign no browser.
LEMMA OthersAreQuiet ==
  ASSUME IInv, LoadIInv, pool = "open",
         \/ \E b \in Browser : BrowserStep(b)
         \/ RunQueue /\ mitm # "up"
         \/ StartPool
         \/ \E given \in BOOLEAN : MitmFails(given)
         \/ \E given \in BOOLEAN :
              MitmStarted(given) /\ UNCHANGED <<phase, loadVars, browser, engine, watched, browserOf>>
         \/ UNCHANGED vars
  PROVE  LoadQuiet
  <1> USE DEF IInv, TypeOK, LoadIInv, Becomes, Early, Expecting, Admitted, Phases,
              poolVars, slotVars, loadVars, browserVars, agentVars, LoadQuiet
  <1>1. ASSUME NEW b \in Browser, EmitClose(b) PROVE LoadQuiet
    BY <1>1 DEF EmitClose, CloseStarted, AssignedOk
  <1>2. ASSUME NEW b \in Browser, BrowserStep(b) PROVE LoadQuiet
    BY <1>1, <1>2 DEF BrowserStep, Crash, FailedLaunchEvent, BrowserCloseDone, BrowserClose, Reap
  <1>3. CASE RunQueue /\ mitm # "up"
    <2>1. creationQueue \in Seq(Agent) /\ creationQueue # <<>>
      BY <1>3 DEF RunQueue
    <2>2. Head(creationQueue) = creationQueue[1] /\ 1 \in DOMAIN creationQueue
      BY <2>1
    <2>3. Head(creationQueue) \in Agent /\ phase[Head(creationQueue)] = "queued"
      BY <2>1, <2>2, HeadTailProperties DEF LinesOk, AllIn
    <2>4. phase' = [phase EXCEPT ![Head(creationQueue)] = IF mitm = "failed" THEN "throwing" ELSE "starting"]
          /\ UNCHANGED <<closing, listening, browsersById, agentsByBrowserId, browserIdByAgentId, browser,
                         subscribed, hasContext>>
      BY <1>3 DEF RunQueue
    <2>5. PICK h \in Agent : h = Head(creationQueue)
      BY <2>3
    <2> QED BY <2>3, <2>4, <2>5 DEF ServedOk
  <1>4. ASSUME NEW given \in BOOLEAN, StartPool \/ MitmFails(given) PROVE LoadQuiet
    BY <1>4 DEF StartPool, MitmFails, Awaiting
  <1>5. ASSUME NEW given \in BOOLEAN, MitmStarted(given),
               UNCHANGED <<phase, loadVars, browser, engine, watched, browserOf>>
        PROVE  LoadQuiet
    BY <1>5 DEF MitmStarted
  <1>6. CASE UNCHANGED vars
    BY <1>6 DEF vars
  <1> QED BY <1>2, <1>3, <1>4, <1>5, <1>6

\* Loads are finite.
LEMMA LoadsAreFinite ==
  /\ \A b : IsFiniteSet(Load(b)) /\ Cardinality(Load(b)) \in Nat
  /\ \A b : IsFiniteSet(Load(b)') /\ Cardinality(Load(b)') \in Nat
  <1>1. \A b : Load(b) \in SUBSET Agent /\ Load(b)' \in SUBSET Agent
    BY DEF Load
  <1>2. \A S \in SUBSET Agent : IsFiniteSet(S) /\ Cardinality(S) \in Nat
    BY PoolAssumption, FS_Subset, FS_CardinalityType DEF PoolAssumption
  <1> QED BY <1>1, <1>2

\* getBrowser counts the agent for the browser it gives it: one of the map that
\* has room, or a new one.
LEMMA PickLoad ==
  ASSUME IInv, LoadIInv, pool = "open", NEW a \in Agent, phase[a] \in {"queued", "starting"},
         PickBrowser(a), UNCHANGED <<pool, closing, listening, subscribed, hasContext>>
  PROVE  LoadIInv'
  <1> USE DEF IInv, TypeOK, LoadIInv
  <1>1. \E b \in Browser :
          /\ Assign(a, b) /\ agentsByBrowserId[b] < MaxAgentsPerBrowser
          /\ \/ /\ Becomes(a, "assigned") /\ UNCHANGED <<browsersById, browser>>
                /\ browser[b] # "unused"
             \/ /\ Becomes(a, "launching") /\ browsersById' = browsersById \cup {b}
                /\ browser' = [browser EXCEPT ![b] = "launching"]
    <2>1. CASE \E b \in Reusable(a) : /\ Assign(a, b) /\ Becomes(a, "assigned")
                                      /\ UNCHANGED <<browsersById, browser, engine, watched>>
      <3>1. PICK b \in Reusable(a) : /\ Assign(a, b) /\ Becomes(a, "assigned")
                                     /\ UNCHANGED <<browsersById, browser, engine, watched>>
        BY <2>1
      <3>2. b \in Browser /\ b \in browsersById /\ agentsByBrowserId[b] < MaxAgentsPerBrowser
        BY DEF Reusable
      <3> QED BY <3>1, <3>2 DEF AssignedOk
    <2>2. CASE \E b \in Browser :
                 /\ browser[b] = "unused" /\ Assign(a, b)
                 /\ browsersById' = browsersById \cup {b}
                 /\ browser' = [browser EXCEPT ![b] = "launching"]
                 /\ Becomes(a, "launching")
      <3>1. 0 < MaxAgentsPerBrowser
        BY PoolAssumption DEF PoolAssumption
      <3> QED BY <2>2, <3>1 DEF AssignedOk
    <2> QED BY <2>1, <2>2 DEF PickBrowser
  <1>2. PICK b \in Browser :
          /\ Assign(a, b) /\ agentsByBrowserId[b] < MaxAgentsPerBrowser
          /\ \/ /\ Becomes(a, "assigned") /\ UNCHANGED <<browsersById, browser>>
                /\ browser[b] # "unused"
             \/ /\ Becomes(a, "launching") /\ browsersById' = browsersById \cup {b}
                /\ browser' = [browser EXCEPT ![b] = "launching"]
    BY <1>1
  <1>3. /\ phase'[a] \in {"assigned", "launching"} /\ closing[a] = "no"
        /\ browserIdByAgentId[a] = NoBrowser /\ browserIdByAgentId'[a] = b
        /\ \A x \in Agent \ {a} : /\ phase'[x] = phase[x]
                                  /\ browserIdByAgentId'[x] = browserIdByAgentId[x]
        /\ \A c \in Browser : agentsByBrowserId'[c]
                                = IF c = b THEN agentsByBrowserId[c] + 1 ELSE agentsByBrowserId[c]
    BY <1>2 DEF Assign, Becomes, AssignedOk, ServedOk, Early, Expecting
  <1>4. AssignedOk'
    <2>1. \A c \in Browser : browser'[c] = "unused" =>
            c # b /\ browser[c] = "unused" /\ (c \in browsersById' => c \in browsersById)
      BY <1>2
    <2> QED BY <1>3, <2>1 DEF AssignedOk, Early
  <1>5. ServedOk'
    <2>1. a \in listening
      BY DEF ServedOk, InService, Admitted, Phases, Expecting
    <2> QED BY <1>3, <2>1 DEF ServedOk, InService, Expecting
  <1>6. LoadOk'
    <2> SUFFICES ASSUME NEW c \in Browser
                 PROVE  /\ agentsByBrowserId'[c] = Cardinality(Load(c)')
                        /\ agentsByBrowserId'[c] <= MaxAgentsPerBrowser
      BY DEF LoadOk
    <2>1. agentsByBrowserId[c] = Cardinality(Load(c)) /\ agentsByBrowserId[c] <= MaxAgentsPerBrowser
      BY DEF LoadOk
    <2>2. CASE c # b
      <3>1. Load(c)' = Load(c)
        BY <1>3, <2>2 DEF Load, InService, Browser, NoBrowser
      <3> QED BY <1>3, <2>1, <2>2, <3>1
    <2>3. CASE c = b
      <3>1. Load(c)' = Load(c) \cup {a} /\ a \notin Load(c)
        BY <1>3, <2>3 DEF Load, InService, Browser, NoBrowser, Admitted, Phases
      <3>2. Cardinality(Load(c) \cup {a}) = Cardinality(Load(c)) + 1
        BY <3>1, LoadsAreFinite, FS_AddElement
      <3>3. agentsByBrowserId[c] \in Int /\ MaxAgentsPerBrowser \in Int
        BY PoolAssumption DEF PoolAssumption
      <3> QED BY <1>2, <1>3, <2>1, <2>3, <3>1, <3>2, <3>3
    <2> QED BY <2>2, <2>3
  <1> QED BY <1>4, <1>5, <1>6

\* onAgentClosed takes the agent off its browser.
LEMMA CloseLoad ==
  ASSUME IInv, LoadIInv, pool = "open", NEW a \in Agent, CloseFinish(a)
  PROVE  LoadIInv'
  <1> USE DEF IInv, TypeOK, LoadIInv
  <1>1. /\ closing[a] \in {"context", "bare"} /\ closing'[a] = "done"
        /\ \A x \in Agent \ {a} : closing'[x] = closing[x]
        /\ subscribed' = subscribed \ {a} /\ hasContext' = hasContext \ {a}
        /\ UNCHANGED <<pool, browsersById, browser>>
    BY DEF CloseFinish, poolVars
  <1>2. CASE a \notin listening
    <2>1. UNCHANGED <<phase, listening, agentsByBrowserId, browserIdByAgentId>> /\ ~InService(a)
      BY <1>2 DEF CloseFinish, slotVars, ServedOk
    <2>2. AssignedOk' /\ ServedOk'
      BY <1>1, <2>1 DEF AssignedOk, ServedOk, InService
    <2>3. \A b : Load(b)' = Load(b)
      BY <1>1, <2>1 DEF Load, InService
    <2> QED BY <2>1, <2>2, <2>3 DEF LoadOk
  <1>3. CASE a \in listening
    <2> DEFINE b == browserIdByAgentId[a]
    <2>1. OnAgentClosed(a)
      BY <1>3 DEF CloseFinish
    <2>2. /\ a \in listening' => waiting # <<>> /\ Head(waiting) = a
          /\ \A x \in Agent : /\ phase'[x] = phase[x]
                                 \/ (phase[x] = "waiting" /\ phase'[x] = "granted" /\ x \in listening')
                              /\ x # a /\ x \in listening => x \in listening'
      <3>1. CASE waiting = <<>>
        BY <1>3, <2>1, <3>1, HandOver
      <3>2. CASE waiting # <<>>
        <4>1. /\ \A x \in Agent : phase'[x] = IF x = Head(waiting) THEN "granted" ELSE phase[x]
              /\ listening' = (listening \ {a}) \cup {Head(waiting)}
          BY <1>3, <2>1, <3>2, HandOver
        <4>2. phase[Head(waiting)] = "waiting"
          BY <3>2, HeadTailProperties DEF LinesOk, AllIn
        <4> QED BY <3>2, <4>1, <4>2
      <3> QED BY <3>1, <3>2
    <2>3. phase[a] # "waiting" /\ phase'[a] = phase[a]
      BY <1>1, <2>2 DEF ServedOk, Expecting
    <2>4. ServedOk'
      BY <1>1, <2>2, <2>3 DEF ServedOk, InService, Expecting, Admitted, Phases
    <2>5. phase[a] \in Early \/ InService(a)
      BY <1>1 DEF ServedOk, InService, Early, Admitted, Phases
    <2>6. ASSUME NEW c \in Browser PROVE Load(c)' = Load(c) \ {a}
      <3>1. \A x \in Agent \ {a} : browserIdByAgentId'[x] = browserIdByAgentId[x]
        BY <2>1 DEF OnAgentClosed
      <3>2. \A x \in Agent \ {a} : browserIdByAgentId[x] = c => (InService(x)' <=> InService(x))
        BY <1>1, <2>2 DEF InService, AssignedOk, Early, Browser, NoBrowser
      <3>3. a \notin Load(c)'
        BY <1>1 DEF Load, InService
      <3> QED BY <3>1, <3>2, <3>3 DEF Load
    <2>7. CASE b = NoBrowser
      <3>1. UNCHANGED <<agentsByBrowserId, browserIdByAgentId>>
        BY <2>1, <2>7 DEF OnAgentClosed
      <3>2. AssignedOk'
        BY <1>1, <2>2, <3>1 DEF AssignedOk, Early
      <3>3. \A c \in Browser : Load(c)' = Load(c)
        BY <2>6, <2>7 DEF Load, Browser, NoBrowser
      <3>4. LoadOk'
        BY <3>1, <3>3 DEF LoadOk
      <3> QED BY <2>4, <3>2, <3>4
    <2>8. CASE b # NoBrowser
      <3>1. b \in Browser /\ a \in Load(b) /\ phase[a] \notin Early
        BY <2>5, <2>8 DEF Load, AssignedOk
      <3>2. Cardinality(Load(b) \ {a}) = Cardinality(Load(b)) - 1
        <4> HIDE DEF IInv, TypeOK, LoadIInv, b
        <4>1. IsFiniteSet(Load(b)) /\ a \in Load(b)
          BY <3>1, LoadsAreFinite
        <4> QED BY <4>1, FS_RemoveElement
      <3>3. Cardinality(Load(b) \ {a}) \in Nat
        BY <2>6, <3>1, LoadsAreFinite
      <3>4. agentsByBrowserId[b] = Cardinality(Load(b)) /\ agentsByBrowserId[b] > 0
        BY <3>1, <3>2, <3>3 DEF LoadOk
      <3>5. /\ agentsByBrowserId' = [agentsByBrowserId EXCEPT ![b] = @ - 1]
            /\ browserIdByAgentId' = [browserIdByAgentId EXCEPT ![a] = NoBrowser]
        BY <2>1, <2>8, <3>4 DEF OnAgentClosed
      <3>6. AssignedOk'
        BY <1>1, <2>2, <3>1, <3>4, <3>5 DEF AssignedOk, Early
      <3>7. LoadOk'
        <4> SUFFICES ASSUME NEW c \in Browser
                     PROVE  /\ agentsByBrowserId'[c] = Cardinality(Load(c)')
                            /\ agentsByBrowserId'[c] <= MaxAgentsPerBrowser
          BY DEF LoadOk
        <4>1. agentsByBrowserId[c] = Cardinality(Load(c)) /\ agentsByBrowserId[c] <= MaxAgentsPerBrowser
          BY DEF LoadOk
        <4>2. CASE c = b
          <5>1. agentsByBrowserId'[c] = agentsByBrowserId[c] - 1
            BY <3>1, <3>5, <4>2
          <5>2. MaxAgentsPerBrowser \in Int /\ agentsByBrowserId[c] \in Int
            BY PoolAssumption DEF PoolAssumption
          <5>3. Cardinality(Load(c)') = agentsByBrowserId[c] - 1
            <6>1. Load(c)' = Load(c) \ {a}
              BY <2>6
            <6>2. Cardinality(Load(c) \ {a}) = Cardinality(Load(c)) - 1
              BY <3>2, <4>2
            <6> QED BY <4>1, <6>1, <6>2
          <5> QED BY <4>1, <5>1, <5>2, <5>3
        <4>3. CASE c # b
          <5>1. a \notin Load(c)
            BY <4>3 DEF Load
          <5>2. agentsByBrowserId'[c] = agentsByBrowserId[c]
            BY <3>5, <4>3
          <5> QED BY <2>6, <4>1, <5>1, <5>2
        <4> QED BY <4>2, <4>3
      <3> QED BY <2>4, <3>6, <3>7
    <2> QED BY <2>7, <2>8
  <1> QED BY <1>2, <1>3

\* Every step keeps the load of the browsers exact.
LEMMA LoadStep ==
  ASSUME IInv, LoadIInv, Patient, [Next]_vars
  PROVE  LoadIInv'
  <1> SUFFICES ASSUME pool' = "open" PROVE LoadIInv'
    BY DEF LoadIInv
  <1>1. CASE UNCHANGED vars
    <2>1. pool = "open"
      BY <1>1 DEF vars, poolVars
    <2> QED BY <1>1, <2>1, OthersAreQuiet, QuietLoad
  <1>2. ASSUME NEW a \in Agent, AgentStep(a) PROVE LoadIInv'
    <2>1. pool = "open"
      BY <1>2 DEF AgentStep, OpenStep, CreateAgent, Open, CloseByOwner, CloseFinish, LaunchFails,
         StepFails, ContextCloses, GetBrowser, LaunchOk, Subscribe, ProxyReady, ContextCreated,
         KeepContext, Opened, Catch, Settle, JoinOpen, poolVars
    <2>2. CASE CloseFinish(a)
      BY <2>1, <2>2, CloseLoad
    <2>3. CASE ~CloseFinish(a)
      BY <1>2, <2>1, <2>3, AgentIsQuiet, QuietLoad DEF AgentStep
    <2> QED BY <2>2, <2>3
  <1>3. ASSUME NEW b \in Browser, BrowserStep(b) PROVE LoadIInv'
    <2>1. pool = "open"
      BY <1>3 DEF BrowserStep, Crash, FailedLaunchEvent, BrowserCloseDone, BrowserClose, Reap, EmitClose, poolVars
    <2> QED BY <1>3, <2>1, OthersAreQuiet, QuietLoad
  <1>4. CASE RunQueue
    <2>1. pool = "open"
      BY <1>4 DEF RunQueue, poolVars
    <2>2. CASE mitm # "up"
      BY <1>4, <2>1, <2>2, OthersAreQuiet, QuietLoad
    <2>3. CASE mitm = "up"
      <3>1. Head(creationQueue) \in Agent /\ phase[Head(creationQueue)] = "queued"
        BY <1>4, HeadTailProperties DEF IInv, TypeOK, LinesOk, AllIn, RunQueue
      <3>2. PickBrowser(Head(creationQueue))
            /\ UNCHANGED <<pool, closing, listening, subscribed, hasContext>>
        BY <1>4, <2>3 DEF RunQueue, poolVars, slotVars
      <3> QED BY <2>1, <3>1, <3>2, PickLoad
    <2> QED BY <2>2, <2>3
  <1>5. ASSUME NEW given \in BOOLEAN, MitmStarted(given) PROVE LoadIInv'
    <2>1. pool = "open" /\ UNCHANGED <<pool, closing, listening, subscribed, hasContext>>
      BY <1>5 DEF MitmStarted, poolVars, slotVars
    <2>2. ASSUME NEW a \in Agent, phase[a] = "starting", PickBrowser(a) PROVE LoadIInv'
      BY <2>1, <2>2, PickLoad
    <2>3. CASE UNCHANGED <<phase, loadVars, browser, engine, watched, browserOf>>
      BY <1>5, <2>1, <2>3, OthersAreQuiet, QuietLoad
    <2> QED BY <1>5, <2>2, <2>3 DEF MitmStarted, Awaiting
  <1>6. ASSUME NEW given \in BOOLEAN, StartPool \/ MitmFails(given) PROVE LoadIInv'
    <2>1. pool = "open"
      BY <1>6 DEF StartPool, MitmFails, poolVars
    <2> QED BY <1>6, <2>1, OthersAreQuiet, QuietLoad
  <1>7. CASE ClosePool \/ PoolClosed
    BY <1>7 DEF ClosePool, PoolClosed
  <1> QED BY <1>1, <1>2, <1>3, <1>4, <1>5, <1>6, <1>7 DEF Next, PoolStep

\* agentsByBrowserId counts the unclosed agents of each browser and stays within
\* maxConcurrentAgentsPerBrowser, whatever fails or crashes (Pool.getBrowser,
\* Pool.onAgentClosed), unless an agent is closed before getBrowser is done with it.
THEOREM BrowserLoadIsKept == Patient => (Spec => []BrowserLoadIsExact)
  <1> SUFFICES ASSUME Patient PROVE Spec => []BrowserLoadIsExact
    OBVIOUS
  <1>1. Init => LoadIInv
    <2> SUFFICES ASSUME Init PROVE AssignedOk /\ ServedOk /\ LoadOk
      BY DEF LoadIInv
    <2>1. AssignedOk /\ ServedOk
      BY DEF Init, AssignedOk, ServedOk, InService, Admitted, Expecting
    <2>2. \A b \in Browser : Load(b) = {} /\ agentsByBrowserId[b] = 0
      BY DEF Init, Load, InService, Admitted
    <2>3. 0 <= MaxAgentsPerBrowser
      BY PoolAssumption DEF PoolAssumption
    <2>4. LoadOk
      BY <2>2, <2>3, FS_EmptySet DEF LoadOk
    <2> QED BY <2>1, <2>4
  <1>2. IInv /\ LoadIInv /\ [Next]_vars => LoadIInv'
    BY LoadStep
  <1>3. LoadIInv => BrowserLoadIsExact
    BY DEF LoadIInv, LoadOk, Load, BrowserLoadIsExact
  <1> QED BY <1>1, <1>2, <1>3, Inductive, PTL DEF Spec
=============================================================================
