----------------------------- MODULE DevtoolsRpc -----------------------------
(***************************************************************************)
(* Commands and events of the DevTools protocol between the agent and one  *)
(* Chrome process: Connection.ts and DevtoolsSession.ts over the pipe of   *)
(* PipeTransport.ts, with the process that BrowserProcess.ts watches and   *)
(* the close of Browser.ts.                                                *)
(*                                                                         *)
(* Chrome writes messages to a pipe; each message read is handed over by   *)
(* setImmediate, so it may arrive after the connection it came on has      *)
(* closed.  Chrome may die at any moment; the exit of the process and the  *)
(* close of the pipe are reported in either order.                         *)
(***************************************************************************)
EXTENDS Naturals, Sequences

CONSTANTS
  Target,              \* sessions of targets; Root is the session of the browser
  Command, SessionOf,  \* calls of DevtoolsSession.send, and the session of each
  EventLimit,          \* bound: events Chrome sends
  NoCommand,
  Environment          \* what may happen in this run

Root == "browser"
Session == Target \cup {Root}

Happenings == {"timeout", "crash", "close"}

ASSUME DevtoolsAssumption ==
  /\ Root \notin Target /\ NoCommand \notin Command
  /\ SessionOf \in [Command -> Session]
  /\ EventLimit \in Nat /\ Environment \subseteq Happenings

VARIABLES
  promise,           \* the promise each call of send returns
  session,           \* DevtoolsSession objects; "open" ones are in sessionsById
  pendingMessages,   \* of each session
  transportClosed, connectionClosed, processKilled,   \* isClosed, #isClosed
  closeEmitted,      \* the Browser has emitted "close"
  browserClose,      \* Browser.close
  unheard,           \* history: the commands that pended when the transport closed
  chrome,            \* the process
  attached, commands, events,   \* in Chrome: sessions, commands to answer, a count
  pipe, immediates   \* messages written by Chrome; read, but not handed over

clientVars == <<promise, session, pendingMessages>>
closeVars  == <<transportClosed, connectionClosed, processKilled, closeEmitted, browserClose,
                unheard>>
chromeVars == <<chrome, attached, commands, events>>
vars == <<clientVars, closeVars, chromeVars, pipe, immediates>>

Message == [kind : {"attached", "detached", "answer", "event"}, session : Session,
            command : Command \cup {NoCommand}]

Settled == {"resolved", "canceled", "timedOut", "refused"}

TypeOK ==
  /\ promise \in [Command -> {"unsent", "pending"} \cup Settled]
  /\ session \in [Session -> {"none", "open", "closed"}]
  /\ pendingMessages \in [Session -> SUBSET Command]
  /\ \A s \in Session : \A c \in pendingMessages[s] : SessionOf[c] = s
  /\ {transportClosed, connectionClosed, processKilled, closeEmitted} \subseteq BOOLEAN
  /\ browserClose \in {"no", "closing", "killed", "done"} /\ unheard \subseteq Command
  /\ chrome \in {"running", "dead"}
  /\ attached \subseteq Session /\ commands \subseteq Command /\ events \in 0..EventLimit
  /\ pipe \in Seq(Message) /\ immediates \in Seq(Message)

Init ==
  /\ promise = [c \in Command |-> "unsent"]
  /\ session = [s \in Session |-> IF s = Root THEN "open" ELSE "none"]
  /\ pendingMessages = [s \in Session |-> {}]
  /\ transportClosed = FALSE /\ connectionClosed = FALSE /\ processKilled = FALSE
  /\ closeEmitted = FALSE /\ browserClose = "no" /\ unheard = {}
  /\ chrome = "running" /\ attached = {Root} /\ commands = {} /\ events = 0
  /\ pipe = <<>> /\ immediates = <<>>

-----------------------------------------------------------------------------
(* DevtoolsSession *)

\* A session that was closed has lost its connection.
IsConnected(s) == session[s] = "open" /\ ~connectionClosed /\ ~transportClosed

PostOnBrowserSession(c) ==
  /\ promise' = [promise EXCEPT ![c] = "pending"]
  /\ pendingMessages' = [pendingMessages EXCEPT ![Root] = @ \cup {c}]
  /\ commands' = IF chrome = "running" THEN commands \cup {c} ELSE commands

\* What Chrome is told after it died is lost.
Post(c) ==
  /\ promise' = [promise EXCEPT ![c] = "pending"]
  /\ pendingMessages' = [pendingMessages EXCEPT ![SessionOf[c]] = @ \cup {c}]
  /\ commands' = IF chrome = "running" THEN commands \cup {c} ELSE commands

SendAnyway(c) ==
  /\ promise[c] = "unsent" /\ session[SessionOf[c]] # "none"
  /\ Post(c)
  /\ UNCHANGED <<session, closeVars, chrome, attached, events, pipe, immediates>>

Send(c) ==
  /\ promise[c] = "unsent" /\ session[SessionOf[c]] # "none"
  /\ \/ IsConnected(SessionOf[c]) /\ Post(c)
     \/ /\ ~IsConnected(SessionOf[c])
        /\ promise' = [promise EXCEPT ![c] = "refused"]
        /\ UNCHANGED <<pendingMessages, commands>>
  /\ UNCHANGED <<session, closeVars, chrome, attached, events, pipe, immediates>>

\* 60 s without an answer; the command stays in pendingMessages.
TimesOut(c) ==
  /\ "timeout" \in Environment
  /\ promise[c] = "pending"
  /\ promise' = [promise EXCEPT ![c] = "timedOut"]
  /\ UNCHANGED <<session, pendingMessages, closeVars, chromeVars, pipe, immediates>>

\* onClosed of each of the sessions, and its removal from sessionsById.
CloseSessions(S) ==
  /\ promise' = [c \in Command |->
       IF promise[c] = "pending" /\ \E s \in S : c \in pendingMessages[s]
         THEN "canceled" ELSE promise[c]]
  /\ pendingMessages' = [s \in Session |-> IF s \in S THEN {} ELSE pendingMessages[s]]
  /\ session' = [s \in Session |-> IF s \in S THEN "closed" ELSE session[s]]

-----------------------------------------------------------------------------
(* Chrome, as the protocol describes it: a session hears of nothing before it
   is attached and after it is detached. *)

Writes(kind, s, c) == pipe' = Append(pipe, [kind |-> kind, session |-> s, command |-> c])

\* A target that attaches again has another session.
OnTheWay(t) ==
  \/ \E i \in DOMAIN pipe : pipe[i].session = t
  \/ \E i \in DOMAIN immediates : immediates[i].session = t

Attaches(t) ==
  /\ chrome = "running" /\ t \notin attached
  /\ session[t] = "none" /\ ~OnTheWay(t)
  /\ attached' = attached \cup {t}
  /\ Writes("attached", t, NoCommand)
  /\ UNCHANGED <<clientVars, closeVars, chrome, commands, events, immediates>>

Detaches(t) ==
  /\ chrome = "running" /\ t \in attached
  /\ attached' = attached \ {t}
  /\ commands' = {c \in commands : SessionOf[c] # t}
  /\ Writes("detached", t, NoCommand)
  /\ UNCHANGED <<clientVars, closeVars, chrome, events, immediates>>

Answers(c) ==
  /\ chrome = "running" /\ c \in commands /\ SessionOf[c] \in attached
  /\ commands' = commands \ {c}
  /\ Writes("answer", SessionOf[c], c)
  /\ UNCHANGED <<clientVars, closeVars, chrome, attached, events, immediates>>

Notifies(t) ==
  /\ chrome = "running" /\ t \in attached /\ events < EventLimit
  /\ events' = events + 1
  /\ Writes("event", t, NoCommand)
  /\ UNCHANGED <<clientVars, closeVars, chrome, attached, commands, immediates>>

Crash ==
  /\ "crash" \in Environment /\ chrome = "running"
  /\ chrome' = "dead" /\ commands' = {}
  /\ UNCHANGED <<clientVars, closeVars, attached, events, pipe, immediates>>

-----------------------------------------------------------------------------
(* PipeTransport and Connection *)

OnDataNewestFirst ==
  /\ pipe # <<>> /\ ~transportClosed
  /\ pipe' = Tail(pipe)
  /\ immediates' = IF connectionClosed THEN immediates ELSE <<Head(pipe)>> \o immediates
  /\ UNCHANGED <<clientVars, closeVars, chromeVars>>

\* onData: a closed transport has no listener, a closed connection no onMessageFn.
OnData ==
  /\ pipe # <<>> /\ ~transportClosed
  /\ pipe' = Tail(pipe)
  /\ immediates' = IF connectionClosed THEN immediates ELSE Append(immediates, Head(pipe))
  /\ UNCHANGED <<clientVars, closeVars, chromeVars>>

AnsweredNot(c) == UNCHANGED <<promise, pendingMessages>>

Answered(c) ==
  /\ promise' = [promise EXCEPT ![c] = IF @ = "pending" THEN "resolved" ELSE @]
  /\ pendingMessages' = [pendingMessages EXCEPT ![SessionOf[c]] = @ \ {c}]

OpenSession(t) == session' = [session EXCEPT ![t] = "open"]

\* Connection.onMessage.  What is for no known session is logged and dropped.
OnMessage ==
  /\ immediates # <<>>
  /\ immediates' = Tail(immediates)
  /\ LET m == Head(immediates) IN
     \/ m.kind = "attached" /\ OpenSession(m.session) /\ UNCHANGED <<promise, pendingMessages>>
     \/ m.kind = "detached" /\ session[m.session] = "open" /\ CloseSessions({m.session})
     \/ /\ m.kind = "answer" /\ session[m.session] = "open"
        /\ m.command \in pendingMessages[m.session]
        /\ Answered(m.command)
        /\ UNCHANGED session
     \/ m.kind = "event" /\ UNCHANGED clientVars
     \/ m.kind # "attached" /\ session[m.session] # "open" /\ UNCHANGED clientVars
  /\ UNCHANGED <<closeVars, chromeVars, pipe>>

\* Connection.onClosed.
Disconnect ==
  /\ connectionClosed' = TRUE
  /\ IF connectionClosed THEN UNCHANGED clientVars
     ELSE CloseSessions({s \in Session : session[s] = "open"})

\* PipeTransport.close: it hears no more of the pipe, and does not tell the connection.
TransportCloses ==
  /\ transportClosed' = TRUE
  /\ unheard' = IF transportClosed THEN unheard ELSE {c \in Command : promise[c] = "pending"}

ProcessExitUnreported == processKilled' = TRUE /\ TransportCloses /\ UNCHANGED closeEmitted

\* The process has told of its exit, or its kill says so for it.
OnChildProcessExit ==
  /\ processKilled' = TRUE
  /\ TransportCloses
  /\ closeEmitted' = TRUE

ProcessExits ==
  /\ chrome = "dead" /\ ~processKilled
  /\ OnChildProcessExit
  /\ UNCHANGED <<clientVars, connectionClosed, browserClose, chromeVars, pipe, immediates>>

\* PipeTransport.onReadClosed: Connection.onClosed, then BrowserProcess.close.
PipeCloses ==
  /\ chrome = "dead" /\ pipe = <<>> /\ ~transportClosed
  /\ Disconnect
  /\ OnChildProcessExit
  /\ UNCHANGED <<browserClose, chromeVars, pipe, immediates>>

-----------------------------------------------------------------------------
(* Browser.close *)

StartClose ==
  /\ "close" \in Environment /\ browserClose = "no"
  /\ browserClose' = "closing"
  /\ UNCHANGED <<clientVars, transportClosed, connectionClosed, processKilled, closeEmitted, unheard,
                 chromeVars, pipe, immediates>>

\* Its contexts are closed: close the transport, kill the process and await its exit.
KillChildProcess ==
  /\ browserClose = "closing"
  /\ browserClose' = "killed"
  /\ chrome' = "dead" /\ commands' = {}
  /\ OnChildProcessExit
  /\ UNCHANGED <<clientVars, connectionClosed, attached, events, pipe, immediates>>

\* Connection.dispose, once the process is gone.
Dispose ==
  /\ browserClose = "killed"
  /\ browserClose' = "done"
  /\ Disconnect
  /\ UNCHANGED <<transportClosed, processKilled, closeEmitted, unheard, chromeVars, pipe, immediates>>

-----------------------------------------------------------------------------
ChromeActs ==
  \/ \E t \in Target : Attaches(t) \/ Detaches(t)
  \/ \E s \in Session : Notifies(s)
  \/ \E c \in Command : Answers(c)
  \/ Crash

Next ==
  \/ \E c \in Command : Send(c) \/ TimesOut(c)
  \/ ChromeActs
  \/ OnData \/ OnMessage
  \/ ProcessExits \/ PipeCloses
  \/ StartClose \/ KillChildProcess \/ Dispose

Spec == Init /\ [][Next]_vars

(***************************************************************************)
(* The event loop reads the pipe and runs immediates; the system reports   *)
(* the end of a process and of its pipe; the close of contexts is bounded  *)
(* by a timer of 2 s.  Chrome need not answer, and no timer of a command   *)
(* is assumed to fire: the properties are about what needs none.           *)
(***************************************************************************)
FairSpec ==
  /\ Spec
  /\ WF_vars(OnData) /\ WF_vars(OnMessage)
  /\ WF_vars(ProcessExits) /\ WF_vars(PipeCloses)
  /\ WF_vars(KillChildProcess) /\ WF_vars(Dispose)

-----------------------------------------------------------------------------
(* Properties *)

\* Nobody waits on a session that is closed, nor for a connection whose onClosed has run: what
\* was sent is canceled at once, what comes later is refused.  When only the transport is
\* closed (the exit of the process is told before the end of its pipe, or Browser.close has
\* killed it and not yet disposed of the connection) what pended then still waits, for its
\* timer or the dispose; nothing that was sent later joins it.
NothingPendsOnClosedSession ==
  \A c \in Command : promise[c] = "pending" =>
    /\ session[SessionOf[c]] = "open" /\ ~connectionClosed
    /\ transportClosed => c \in unheard

\* A promise can still be settled: its session knows the command by its id, so an
\* answer, the detachment or the close of the connection finds it.
PendingIsKnown ==
  \A c \in Command : promise[c] = "pending" => c \in pendingMessages[SessionOf[c]]

\* While the connection is open each message finds its session: none comes before
\* the attachment was seen or after the session was dropped
\* ("MessageWithUnknownSession").
MessagesFindTheirSession ==
  immediates # <<>> /\ ~connectionClosed =>
    LET m == Head(immediates) IN
    \/ m.kind = "attached" /\ session[m.session] = "none"
    \/ session[m.session] = "open"

\* An answer of a Chrome that lives settles its command without the timer.
AnswersSettle ==
  \A c \in Command :
    (\E i \in DOMAIN pipe : pipe[i].command = c) ~> (promise[c] # "pending" \/ chrome = "dead")

\* The end of Chrome is reported to the owner of the browser, in whichever order
\* exit and pipe tell of it, and while Browser.close runs.
DeathIsReported == chrome = "dead" ~> closeEmitted
=============================================================================
