------------------------------ MODULE AgentPool ------------------------------
(***************************************************************************)
(* The Pool of agent/main/lib/Pool.ts and the agents and browsers that use *)
(* it: the slots (waitForAvailability, onAgentClosed), the serial queue    *)
(* that finds or launches a browser (getBrowser), Agent.open and           *)
(* Agent.close with every await in between, Browser launch, crash and      *)
(* close, and Pool.close.                                                  *)
(*                                                                         *)
(* A JavaScript function runs to its next await without interruption, so   *)
(* one action is one such segment.  Between two segments any other segment *)
(* may run.  Agents are incognito and use the MITM proxy (the defaults).   *)
(***************************************************************************)
EXTENDS Integers, Sequences, FiniteSets, Functions

CONSTANTS
  Agent,                \* the agents created in the pool
  Engine, EngineOf,     \* browser engines, and the one each agent asks for
  MaxAgents,            \* maxConcurrentAgents
  MaxAgentsPerBrowser,  \* maxConcurrentAgentsPerBrowser
  BrowserLimit,         \* bound: browsers launched in one behaviour
  Environments          \* sets of happenings: a behaviour has those of one of them

Happenings == {"launchFails", "mitmFails", "proxyFails", "contextFails", "hookFails",
               "crash", "browserClose", "impatientOwner", "openAfterClose", "joinedOpen",
               "poolClose", "restart"}

ASSUME PoolAssumption ==
  /\ IsFiniteSet(Agent)
  /\ Engine # {} /\ EngineOf \in [Agent -> Engine]
  /\ MaxAgents \in Nat
  /\ MaxAgentsPerBrowser \in Nat \ {0}
  /\ BrowserLimit \in Nat
  /\ Environments \subseteq SUBSET Happenings

Browser == 1..BrowserLimit
NoBrowser == 0

VARIABLES
  \* one entry per agent
  phase,                \* how far the call of open() has got
  isOpen,               \* agents whose field isOpen is set
  closing,              \* isClosing, and what close() is waiting for
  joined,               \* agents on whose isOpen promise a later call of open() waits
  browserOf,            \* the local variable "browser" of open()
  subscribed,           \* agents listening to the close event of their browser
  hasContext,           \* agents whose field browserContext is set
  proxies,              \* agents with a running isolated MitmProxy
  \* the pool
  pool,                 \* isClosing of the pool: never set, pending, resolved, reset by start()
  closePromises,        \* the agents Pool.close waits for
  environment,          \* what the world around the pool does in this behaviour
  activeAgentsCount,
  waiting,              \* #waitingForAvailability
  listening,            \* agents whose close event runs onAgentClosed
  agentsById,
  creationQueue,        \* entries of browserCreationQueue that have not started
  mitm,                 \* sharedMitmProxy and mitmStartPromise
  orphan,               \* a start of the proxy that Pool.close gave up is still running
  browsersById,
  agentsByBrowserId,
  browserIdByAgentId,
  watched,              \* browsers whose close event runs onBrowserClosed
  reaping,              \* browsers for which onBrowserClosed is running
  \* the browsers
  browser, engine,
  chromeContexts        \* agents whose BrowserContext exists in its browser

slotVars    == <<activeAgentsCount, waiting, listening, agentsById>>
queueVars   == <<creationQueue, mitm, orphan>>
loadVars    == <<browsersById, agentsByBrowserId, browserIdByAgentId>>
browserVars == <<browser, engine, watched, reaping, chromeContexts>>
agentVars   == <<isOpen, joined, browserOf, subscribed, hasContext, proxies>>
poolVars    == <<pool, closePromises, environment>>
vars == <<phase, closing, poolVars, slotVars, queueVars, loadVars, browserVars, agentVars>>

Phases == {"new", "created", "waiting", "granted", "queued", "starting", "launching",
           "assigned", "proxying", "creating", "hooking", "initializing", "opened",
           "throwing", "failing", "voiding", "rejected", "void"}

\* The phases of an agent that was given a slot.
Admitted == Phases \ {"new", "created", "waiting", "rejected", "void"}

TypeOK ==
  /\ phase \in [Agent -> Phases]
  /\ closing \in [Agent -> {"no", "context", "bare", "done"}]
  /\ browserOf \in [Agent -> Browser \cup {NoBrowser}]
  /\ isOpen \subseteq Agent /\ subscribed \subseteq Agent /\ hasContext \subseteq Agent
  /\ proxies \subseteq Agent /\ listening \subseteq Agent /\ agentsById \subseteq Agent
  /\ chromeContexts \subseteq Agent /\ joined \subseteq Agent /\ closePromises \subseteq Agent
  /\ pool \in {"open", "closing", "closed", "reopened"} /\ orphan \in BOOLEAN
  /\ environment \in Environments
  /\ activeAgentsCount \in Nat
  /\ waiting \in Seq(Agent) /\ creationQueue \in Seq(Agent)
  /\ mitm \in {"none", "starting", "up", "failed"}
  /\ browser \in [Browser -> {"unused", "launching", "failed", "up", "closing", "gone"}]
  /\ engine \in [Browser -> Engine]
  /\ browsersById \subseteq Browser /\ watched \subseteq Browser /\ reaping \subseteq Browser
  /\ agentsByBrowserId \in [Browser -> Nat]
  /\ browserIdByAgentId \in [Agent -> Browser \cup {NoBrowser}]

Init ==
  /\ phase = [a \in Agent |-> "new"]
  /\ closing = [a \in Agent |-> "no"]
  /\ browserOf = [a \in Agent |-> NoBrowser]
  /\ isOpen = {} /\ joined = {} /\ subscribed = {} /\ hasContext = {} /\ proxies = {}
  /\ pool = "open" /\ closePromises = {} /\ environment \in Environments
  /\ activeAgentsCount = 0
  /\ waiting = <<>> /\ listening = {} /\ agentsById = {}
  /\ creationQueue = <<>> /\ mitm = "none" /\ orphan = FALSE
  /\ browser = [b \in Browser |-> "unused"]
  /\ engine = [b \in Browser |-> CHOOSE e \in Engine : TRUE]
  /\ browsersById = {} /\ watched = {} /\ reaping = {} /\ chromeContexts = {}
  /\ agentsByBrowserId = [b \in Browser |-> 0]
  /\ browserIdByAgentId = [a \in Agent |-> NoBrowser]

(***************************************************************************)
(* Agent.close: the part up to its first await, for every agent of S.  The *)
(* context to close is read here; an agent without one waits for nothing.  *)
(***************************************************************************)
CloseStartedIfOpened(S) ==
  [a \in Agent |-> IF a \in S \cap hasContext /\ closing[a] = "no" THEN "context" ELSE closing[a]]

CloseStarted(S) ==
  [a \in Agent |-> IF a \notin S \/ closing[a] # "no" THEN closing[a]
                   ELSE IF a \in hasContext THEN "context" ELSE "bare"]

Becomes(a, p) == phase' = [phase EXCEPT ![a] = p]

-----------------------------------------------------------------------------
(* The slots *)

CreateAgent(a) ==
  /\ phase[a] = "new"
  /\ Becomes(a, "created")
  /\ agentsById' = agentsById \cup {a}
  /\ UNCHANGED <<closing, poolVars, activeAgentsCount, waiting, listening, queueVars, loadVars,
                 browserVars, agentVars>>

\* registerActiveAgent: the agent takes a slot and its close event is awaited.
RegisterUncounted(a) == listening' = listening \cup {a} /\ UNCHANGED activeAgentsCount

Register(a) ==
  /\ activeAgentsCount' = activeAgentsCount + 1
  /\ listening' = listening \cup {a}

\* open() up to the wait in waitForAvailability, which does not look whether the
\* pool is closed.  It is called once per agent, and joined by later calls.
Open(a) ==
  /\ phase[a] = "created" /\ a \notin isOpen
  /\ closing[a] = "no" \/ "openAfterClose" \in environment
  /\ isOpen' = isOpen \cup {a}
  /\ \/ /\ activeAgentsCount < MaxAgents
        /\ Register(a)
        /\ Becomes(a, "granted")
        /\ UNCHANGED waiting
     \/ /\ activeAgentsCount >= MaxAgents
        /\ waiting' = Append(waiting, a)
        /\ Becomes(a, "waiting")
        /\ UNCHANGED <<activeAgentsCount, listening>>
  /\ UNCHANGED <<closing, poolVars, agentsById, queueVars, loadVars, browserVars,
                 joined, browserOf, subscribed, hasContext, proxies>>

\* open() called again before the first call is done: it returns the same promise.
JoinOpen(a) ==
  /\ "joinedOpen" \in environment
  /\ a \in isOpen /\ phase[a] # "opened"
  /\ joined' = joined \cup {a}
  /\ UNCHANGED <<phase, closing, poolVars, slotVars, queueVars, loadVars, browserVars, isOpen,
                 browserOf, subscribed, hasContext, proxies>>

\* The owner calls agent.close(); an impatient one while open() is running.
CloseByOwner(a) ==
  /\ phase[a] # "new" /\ closing[a] = "no"
  /\ phase[a] \in {"created", "opened"} \/ "impatientOwner" \in environment
  /\ closing' = CloseStarted({a})
  /\ UNCHANGED <<phase, poolVars, slotVars, queueVars, loadVars, browserVars, agentVars>>

GrantNobody == <<>>
GrantLatecomer == IF waiting = <<>> THEN <<>> ELSE <<waiting[Len(waiting)]>>

\* The agents onAgentClosed takes out of the line when it runs.
Grants == LET room == MaxAgents - (activeAgentsCount - 1)
          IN  SubSeq(waiting, 1, IF Len(waiting) <= room THEN Len(waiting) ELSE room)

\* onAgentClosed: the listener of the pool on the close event of an agent.
OnAgentClosed(a) ==
  LET b == browserIdByAgentId[a] IN
  /\ activeAgentsCount' = activeAgentsCount - 1 + Len(Grants)
  /\ waiting' = SubSeq(waiting, Len(Grants) + 1, Len(waiting))
  /\ listening' = (listening \ {a}) \cup Range(Grants)
  /\ phase' = [x \in Agent |-> IF x \in Range(Grants) THEN "granted" ELSE phase[x]]
  /\ agentsById' = agentsById \ {a}
  /\ IF b # NoBrowser /\ agentsByBrowserId[b] > 0
       THEN /\ agentsByBrowserId' = [agentsByBrowserId EXCEPT ![b] = @ - 1]
            /\ browserIdByAgentId' = [browserIdByAgentId EXCEPT ![a] = NoBrowser]
       ELSE UNCHANGED <<agentsByBrowserId, browserIdByAgentId>>

\* The rest of Agent.close once the context is closed: the close event and cleanup().
CloseFinish(a) ==
  /\ closing[a] \in {"context", "bare"}
  /\ closing' = [closing EXCEPT ![a] = "done"]
  /\ chromeContexts' = IF closing[a] = "context" THEN chromeContexts \ {a} ELSE chromeContexts
  /\ proxies' = proxies \ {a}
  /\ subscribed' = subscribed \ {a}
  /\ hasContext' = hasContext \ {a}
  /\ isOpen' = isOpen \ {a}
  /\ IF a \in listening
       THEN OnAgentClosed(a)
       ELSE UNCHANGED <<phase, slotVars, agentsByBrowserId, browserIdByAgentId>>
  /\ UNCHANGED <<poolVars, queueVars, browsersById, browser, engine, watched, reaping, joined,
                 browserOf>>

-----------------------------------------------------------------------------
(* getBrowser: one entry of browserCreationQueue at a time *)

\* A stopped queue refuses the entry, and Pool.start does not start it again.
GetBrowser(a) ==
  /\ phase[a] = "granted"
  /\ \/ /\ pool = "open"
        /\ creationQueue' = Append(creationQueue, a)
        /\ Becomes(a, "queued")
     \/ pool # "open" /\ Becomes(a, "throwing") /\ UNCHANGED creationQueue
  /\ UNCHANGED <<closing, poolVars, slotVars, mitm, orphan, loadVars, browserVars, agentVars>>

QueueIsIdle == \A a \in Agent : phase[a] \notin {"starting", "launching"}

Assign(a, b) ==
  /\ agentsByBrowserId' = [agentsByBrowserId EXCEPT ![b] = @ + 1]
  /\ browserIdByAgentId' = [browserIdByAgentId EXCEPT ![a] = b]
  /\ browserOf' = [browserOf EXCEPT ![a] = b]

ReusableWhenFull(a) == {b \in browsersById : /\ agentsByBrowserId[b] <= MaxAgentsPerBrowser
                                             /\ engine[b] = EngineOf[a]}

Reusable(a) == {b \in browsersById : /\ agentsByBrowserId[b] < MaxAgentsPerBrowser
                                     /\ engine[b] = EngineOf[a]}

\* The callback from "new Browser" to its next await: the first browser of
\* the map with room, or a new one, whose launch is then awaited.
PickBrowser(a) ==
  \/ \E b \in Reusable(a) :
       /\ \A c \in Reusable(a) : b <= c
       /\ Assign(a, b)
       /\ Becomes(a, "assigned")
       /\ UNCHANGED <<browsersById, browser, engine, watched>>
  \/ /\ Reusable(a) = {}
     /\ \E b \in Browser :
          /\ browser[b] = "unused" /\ \A c \in 1..(b - 1) : browser[c] # "unused"
          /\ Assign(a, b)
          /\ browsersById' = browsersById \cup {b}
          /\ watched' = watched \cup {b}
          /\ browser' = [browser EXCEPT ![b] = "launching"]
          /\ engine' = [engine EXCEPT ![b] = EngineOf[a]]
          /\ Becomes(a, "launching")

RunQueue ==
  /\ creationQueue # <<>> /\ QueueIsIdle
  /\ creationQueue' = Tail(creationQueue)
  /\ \/ mitm = "up" /\ PickBrowser(Head(creationQueue)) /\ UNCHANGED mitm
     \/ /\ mitm # "up"
        /\ mitm' = IF mitm = "none" THEN "starting" ELSE mitm
        /\ Becomes(Head(creationQueue), IF mitm = "failed" THEN "throwing" ELSE "starting")
        /\ UNCHANGED <<loadVars, browser, engine, watched, browserOf>>
  /\ UNCHANGED <<closing, poolVars, slotVars, orphan, reaping, chromeContexts, isOpen, joined,
                 subscribed, hasContext, proxies>>

\* Pool.start called by the user of the pool, who may reopen a closed pool.
StartPool ==
  /\ \/ pool = "open" /\ mitm = "none" /\ pool' = pool
     \/ pool = "closed" /\ "restart" \in environment /\ pool' = "reopened"
  /\ mitm' = IF mitm = "none" THEN "starting" ELSE mitm
  /\ UNCHANGED <<phase, closing, closePromises, environment, slotVars, creationQueue, orphan,
                 loadVars,
                 browserVars, agentVars>>

\* The start of the proxy that getBrowser awaits: in a closed pool the one given up.
Awaiting(a, given) == phase[a] = "starting" /\ given = (pool # "open")

\* Whether the start that close() gave up, or the one of the pool, is running.
Starting(given) == IF given THEN orphan ELSE mitm = "starting"

\* startSharedMitm assigns the proxy even if the pool was closed in between.
MitmStarted(given) ==
  /\ Starting(given)
  /\ mitm' = "up"
  /\ orphan' = (orphan /\ ~given)
  /\ \/ \E a \in Agent : Awaiting(a, given) /\ PickBrowser(a)
     \/ /\ \A a \in Agent : ~Awaiting(a, given)
        /\ UNCHANGED <<phase, loadVars, browser, engine, watched, browserOf>>
  /\ UNCHANGED <<closing, poolVars, slotVars, creationQueue, reaping, chromeContexts, isOpen,
                 joined, subscribed, hasContext, proxies>>

\* The rejected mitmStartPromise is kept: every later getBrowser fails too.
MitmFails(given) ==
  /\ "mitmFails" \in environment
  /\ Starting(given)
  /\ mitm' = IF given THEN mitm ELSE "failed"
  /\ orphan' = (orphan /\ ~given)
  /\ phase' = [a \in Agent |-> IF Awaiting(a, given) THEN "throwing" ELSE phase[a]]
  /\ UNCHANGED <<closing, poolVars, slotVars, creationQueue, loadVars, browserVars, agentVars>>

\* The queue of a closing pool drops the result of the callback it was running.
LaunchOk(a) ==
  LET b == browserOf[a] IN
  /\ phase[a] = "launching"
  /\ browser' = [browser EXCEPT ![b] = IF @ = "launching" THEN "up" ELSE @]
  /\ Becomes(a, "assigned") \/ (pool # "open" /\ Becomes(a, "throwing"))
  /\ UNCHANGED <<closing, poolVars, slotVars, queueVars, loadVars, engine, watched, reaping,
                 chromeContexts,
                 agentVars>>

LaunchFails(a) ==
  LET b == browserOf[a] IN
  /\ "launchFails" \in environment
  /\ phase[a] = "launching"
  /\ browser' = [browser EXCEPT ![b] = "failed"]
  /\ Becomes(a, "throwing")
  /\ UNCHANGED <<closing, poolVars, slotVars, queueVars, loadVars, engine, watched, reaping,
                 chromeContexts,
                 agentVars>>

-----------------------------------------------------------------------------
(* open() after getBrowser, and its catch block *)

\* Listens to the browser and asks for an isolated MitmProxy.
Subscribe(a) ==
  /\ phase[a] = "assigned"
  /\ subscribed' = subscribed \cup {a}
  /\ Becomes(a, "proxying")
  /\ UNCHANGED <<closing, poolVars, slotVars, queueVars, loadVars, browserVars, isOpen, joined,
                 browserOf,
                 hasContext, proxies>>

\* The proxy runs; newContext refuses a browser that is not up.
ProxyReady(a) ==
  /\ phase[a] = "proxying"
  /\ proxies' = proxies \cup {a}
  /\ Becomes(a, IF browser[browserOf[a]] = "up" THEN "creating" ELSE "throwing")
  /\ UNCHANGED <<closing, poolVars, slotVars, queueVars, loadVars, browserVars, isOpen, joined,
                 browserOf,
                 subscribed, hasContext>>

\* Chrome has created the BrowserContext; the onNewBrowserContext hooks run.
ContextCreated(a) ==
  /\ phase[a] = "creating"
  /\ browser[browserOf[a]] \in {"up", "closing"}
  /\ chromeContexts' = chromeContexts \cup {a}
  /\ Becomes(a, "hooking")
  /\ UNCHANGED <<closing, poolVars, slotVars, queueVars, loadVars, browser, engine, watched,
                 reaping, agentVars>>

\* createBrowserContext assigns the field, whatever close() did meanwhile.
KeepContext(a) ==
  /\ phase[a] = "hooking"
  /\ hasContext' = hasContext \cup {a}
  /\ Becomes(a, "initializing")
  /\ UNCHANGED <<closing, poolVars, slotVars, queueVars, loadVars, browserVars, isOpen, joined,
                 browserOf,
                 subscribed, proxies>>

\* The promise that joined calls wait for is resolved unless close() has cleared it.
Opened(a) ==
  /\ phase[a] = "initializing"
  /\ Becomes(a, "opened")
  /\ joined' = joined \ ({a} \cap isOpen)
  /\ UNCHANGED <<closing, poolVars, slotVars, queueVars, loadVars, browserVars, isOpen, browserOf,
                 subscribed, hasContext, proxies>>

\* A step of open() throws: its proxy, Chrome or a plugin fails, or the browser is gone.
StepFails(a) ==
  /\ \/ phase[a] = "proxying" /\ "proxyFails" \in environment
     \/ phase[a] = "creating" /\ (\/ "contextFails" \in environment
                                  \/ browser[browserOf[a]] # "up")
     \/ phase[a] \in {"hooking", "initializing"} /\ "hookFails" \in environment
  /\ Becomes(a, "throwing")
  /\ UNCHANGED <<closing, poolVars, slotVars, queueVars, loadVars, browserVars, agentVars>>

CatchWithoutClose(a) ==
  /\ phase[a] = "throwing"
  /\ Becomes(a, IF a \in isOpen THEN "failing" ELSE "voiding")
  /\ UNCHANGED <<closing, poolVars, slotVars, queueVars, loadVars, browserVars, agentVars>>

\* The catch block up to its await: if close() has cleared isOpen there is no
\* promise left to reject and open() will return nothing.
Catch(a) ==
  /\ phase[a] = "throwing"
  /\ Becomes(a, IF a \in isOpen THEN "failing" ELSE "voiding")
  /\ closing' = CloseStarted({a})
  /\ UNCHANGED <<poolVars, slotVars, queueVars, loadVars, browserVars, agentVars>>

Settle(a) ==
  /\ closing[a] = "done"
  /\ \/ phase[a] = "failing" /\ Becomes(a, "rejected") /\ joined' = joined \ {a}
     \/ phase[a] = "voiding" /\ Becomes(a, "void") /\ joined' = joined
  /\ UNCHANGED <<closing, poolVars, slotVars, queueVars, loadVars, browserVars, isOpen, browserOf,
                 subscribed, hasContext, proxies>>

-----------------------------------------------------------------------------
(* The browsers *)

IsClosing == pool \in {"closing", "closed"}

\* The close event: every agent that listens closes, and unless isClosing is set
\* onBrowserClosed starts, which closes the agents with a context there.
EmitClose(b) ==
  LET listeners == {a \in subscribed : browserOf[a] = b}
      reaps == b \in watched /\ ~IsClosing
      inhabitants == {a \in agentsById \cap hasContext : reaps /\ browserOf[a] = b}
  IN
  /\ browser' = [browser EXCEPT ![b] = "gone"]
  /\ chromeContexts' = {a \in chromeContexts : browserOf[a] # b}
  /\ closing' = CloseStarted(listeners \cup inhabitants)
  /\ subscribed' = subscribed \ listeners
  /\ reaping' = IF reaps THEN reaping \cup {b} ELSE reaping
  /\ UNCHANGED <<phase, poolVars, slotVars, queueVars, loadVars, engine, watched, isOpen, joined,
                 browserOf, hasContext, proxies>>

Crash(b) == "crash" \in environment /\ browser[b] \in {"up", "closing"} /\ EmitClose(b)

\* The close event of a browser whose launch failed comes with a setImmediate.
NoFailedLaunchEvent(b) == FALSE

FailedLaunchEvent(b) == browser[b] = "failed" /\ EmitClose(b)

BrowserClose(b) ==
  /\ "browserClose" \in environment /\ browser[b] = "up"
  /\ browser' = [browser EXCEPT ![b] = "closing"]
  /\ UNCHANGED <<phase, closing, poolVars, slotVars, queueVars, loadVars, engine, watched, reaping,
                 chromeContexts, agentVars>>

\* Browser.close closes each context; an agent hears the close of the context it keeps.
ContextCloses(a) ==
  /\ a \in chromeContexts /\ browser[browserOf[a]] = "closing"
  /\ chromeContexts' = chromeContexts \ {a}
  /\ closing' = CloseStarted({a} \cap hasContext)
  /\ UNCHANGED <<phase, poolVars, slotVars, queueVars, loadVars, browser, engine, watched,
                 reaping, agentVars>>

BrowserCloseDone(b) ==
  /\ browser[b] = "closing"
  /\ \A a \in Agent : browserOf[a] = b => phase[a] # "launching" /\ a \notin chromeContexts
  /\ EmitClose(b)

\* The end of onBrowserClosed, after it waited for the agents of the browser.
Reap(b) ==
  /\ b \in reaping
  /\ \A a \in agentsById \cap hasContext : browserOf[a] = b => closing[a] = "done"
  /\ reaping' = reaping \ {b}
  /\ browsersById' = browsersById \ {b}
  /\ UNCHANGED <<phase, closing, poolVars, slotVars, queueVars, agentsByBrowserId,
                 browserIdByAgentId, browser, engine, watched, chromeContexts, agentVars>>

-----------------------------------------------------------------------------
(* Pool.close *)

\* Bound: a reopened pool is closed again when at most one start is given up.
ClosePool ==
  /\ "poolClose" \in environment
  /\ pool = "open" \/ (pool = "reopened" /\ ~(orphan /\ mitm = "starting"))
  /\ pool' = "closing"
  /\ phase' = [a \in Agent |-> IF phase[a] \in {"waiting", "queued"} THEN "throwing" ELSE phase[a]]
  /\ waiting' = <<>> /\ creationQueue' = <<>>
  /\ closing' = CloseStarted(agentsById)
  /\ browser' = [b \in Browser |-> IF b \in browsersById /\ browser[b] \in {"launching", "up"}
                                     THEN "closing" ELSE browser[b]]
  /\ browsersById' = {}
  /\ mitm' = "none"
  /\ orphan' = (orphan \/ mitm = "starting")
  /\ closePromises' = agentsById
  /\ UNCHANGED <<environment, activeAgentsCount, listening, agentsById, agentsByBrowserId,
                 browserIdByAgentId, engine, watched, reaping, chromeContexts, agentVars>>

\* Every agent and browser it found has closed; the pool drops its listeners,
\* those of the agents opened meanwhile too.
PoolClosed ==
  /\ pool = "closing"
  /\ \A a \in closePromises : closing[a] = "done"
  /\ \A b \in Browser : browser[b] \notin {"closing", "failed"}
  /\ pool' = "closed"
  /\ listening' = {} /\ watched' = {} /\ closePromises' = {}
  /\ UNCHANGED <<phase, closing, environment, activeAgentsCount, waiting, agentsById, queueVars,
                 loadVars,
                 browser, engine, reaping, chromeContexts, agentVars>>

-----------------------------------------------------------------------------
OpenStep(a) == \/ GetBrowser(a) \/ LaunchOk(a) \/ Subscribe(a) \/ ProxyReady(a)
               \/ ContextCreated(a) \/ KeepContext(a) \/ Opened(a) \/ Catch(a) \/ Settle(a)

AgentStep(a) == \/ CreateAgent(a) \/ Open(a) \/ JoinOpen(a) \/ CloseByOwner(a) \/ CloseFinish(a)
                \/ LaunchFails(a) \/ StepFails(a) \/ ContextCloses(a) \/ OpenStep(a)

BrowserStep(b) == \/ Crash(b) \/ FailedLaunchEvent(b) \/ BrowserClose(b)
                  \/ BrowserCloseDone(b) \/ Reap(b)

PoolStep == \/ RunQueue \/ StartPool \/ ClosePool \/ PoolClosed
            \/ \E given \in BOOLEAN : MitmStarted(given) \/ MitmFails(given)

Next == (\E a \in Agent : AgentStep(a)) \/ (\E b \in Browser : BrowserStep(b)) \/ PoolStep

Spec == Init /\ [][Next]_vars

(***************************************************************************)
(* A promise that is settled is continued by the event loop, a launch, a   *)
(* request to Chrome and a close end (each has a timeout in the code), and *)
(* the owner of an opened agent closes it some day.  Nothing makes an      *)
(* owner create or open an agent, nor a browser crash.                     *)
(***************************************************************************)
Fairness ==
  /\ \A a \in Agent : /\ WF_vars(OpenStep(a) \/ LaunchFails(a) \/ StepFails(a))
                      /\ WF_vars(CloseFinish(a)) /\ WF_vars(ContextCloses(a))
                      /\ WF_vars(phase[a] = "opened" /\ CloseByOwner(a))
  /\ \A b \in Browser : /\ WF_vars(FailedLaunchEvent(b) \/ BrowserCloseDone(b))
                        /\ WF_vars(Reap(b))
  /\ WF_vars(RunQueue) /\ WF_vars(PoolClosed)
  /\ \A given \in BOOLEAN : WF_vars(MitmStarted(given) \/ MitmFails(given))

FairSpec == Spec /\ Fairness

-----------------------------------------------------------------------------
(* Properties *)

InService(a) == phase[a] \in Admitted /\ closing[a] # "done"

\* The pool never runs more than maxConcurrentAgents, and nobody is left in
\* the line while there is room: onAgentClosed hands over every free slot.
NoIdleCapacity ==
  /\ activeAgentsCount <= MaxAgents
  /\ waiting # <<>> => activeAgentsCount = MaxAgents

\* agentsByBrowserId is the number of unclosed agents given to that browser and
\* stays within maxConcurrentAgentsPerBrowser, though it is raised before the
\* browser is launched and lowered by a listener on another object.
BrowserLoadIsExact ==
  pool = "open" =>
    \A b \in Browser :
      /\ agentsByBrowserId[b] = Cardinality({a \in Agent : /\ InService(a)
                                                            /\ browserIdByAgentId[a] = b})
      /\ agentsByBrowserId[b] <= MaxAgentsPerBrowser

\* Closing an agent gives its slot back, whenever its owner closes it
\* (docs/Pool.md: the Pool subscribes to the Agent closing to make the slot
\* re-available).
ClosedAgentHoldsNoSlot == \A a \in Agent : closing[a] = "done" => a \notin listening

\* A closed pool has no browser running (docs/Pool.md: "Shut down the Pool, all
\* Agents and Mitm services").
ClosedPoolHasNoBrowser ==
  pool = "closed" => \A b \in Browser : browser[b] \notin {"launching", "up"}

\* Every open() of a pool that is not closed settles, whatever fails or closes on
\* the way.  So does every call that joined it, unless close() cleared isOpen
\* before the first call was done, which then succeeds or ends without an error.
OpenSettles ==
  \A a \in Agent :
    /\ a \in isOpen /\ pool = "open" ~> phase[a] \in {"opened", "rejected", "void"}
    /\ a \in joined /\ pool = "open" ~> a \notin joined \/ phase[a] \in {"opened", "void"}

\* While the pool is open, a browser that failed to launch or is gone leaves the
\* map from which getBrowser hands browsers out.
DeadBrowserIsDropped ==
  \A b \in Browser :
    browser[b] \in {"failed", "gone"} ~> b \notin browsersById \/ pool # "open"

\* Pool.close comes to an end.
PoolCloseEnds == pool = "closing" ~> pool = "closed"

\* The slots of this pool are the slots of AgentSlots.
Slots == INSTANCE AgentSlots WITH
           holders <- listening, line <- waiting, open <- (pool = "open")

ImplementsAgentSlots == Slots!Spec
=============================================================================
