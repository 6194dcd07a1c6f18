--------------------------- MODULE PageAttachment ---------------------------
(***************************************************************************)
(* The pages of one incognito BrowserContext.  newPage asks Chrome for a   *)
(* target and waits for its page; onPageAttached makes a page of every     *)
(* session attached to a target of the context, be it asked for, opened by *)
(* a page or attached twice; pages close by themselves, by Page.close or   *)
(* with the context.  The commands and the messages of Chrome travel       *)
(* through one pipe: messages are handled in the order Chrome sent them.   *)
(***************************************************************************)
EXTENDS Naturals, FiniteSets, SequencesExt

CONSTANTS
  Call,          \* calls of newPage
  TriggerPopupOn,  \* the option of each call: a target, or 0
  MaxTargets,    \* bounds: targets of the context,
  MaxInbox,      \*   messages on their way when Chrome acts (it may then send several)
  None,
  Environments   \* sets of happenings: a behaviour has those of one of them

Happenings == {"anotherCall", "announces", "popup", "selfClose", "createFails", "initFails",
               "killed", "dialog", "silent", "closeErrors", "userCloses", "contextCloses"}

ASSUME PageAssumption ==
  /\ IsFiniteSet(Call) /\ None \notin Call
  /\ TriggerPopupOn \in [Call -> 0..MaxTargets]
  /\ MaxTargets \in Nat /\ Cardinality(Call) <= MaxTargets /\ MaxInbox \in Nat \ {0}
  /\ Environments \subseteq SUBSET Happenings

VARIABLES
  target,      \* in Chrome, in order of creation; [open FALSE] when it is gone
  disposed,    \* in Chrome: the context is going or gone
  commands,    \* sent to Chrome and not answered
  inbox,       \* messages of Chrome on their way
  session,     \* attached sessions, in order, each with the page made of it
  pagesById,   \* the sessions of the pages in this map, in order of insertion
  attachedTargetIds, createdTargetIds,
  creating,    \* the calls whose createTargetPromise is not resolved
  call,        \* of newPage: its progress, target and page
  context,     \* the progress of close()
  closing,     \* the pages it waits for
  environment

chromeVars == <<target, disposed>>
pipeVars == <<commands, inbox>>
idVars == <<attachedTargetIds, createdTargetIds>>
callVars == <<call, creating>>
contextVars == <<context, closing, environment>>
vars == <<chromeVars, pipeVars, session, pagesById, idVars, callVars, contextVars>>

Target == DOMAIN target
Session == DOMAIN session

IsPage(s) == session[s].phase \in {"initializing", "popup", "ready", "failed"}
PageOf(t) == LET i == SelectInSeq(pagesById, LAMBDA s : session[s].of = t)
             IN  IF i = 0 THEN 0 ELSE pagesById[i]

\* creator: the call that asked for it; opener: the target whose page opened it.
\* phase: what onPageAttached has come to; awaits: the promises it waits for.  closing, closed:
\* isClosing, isClosed.  close: the progress of Page.close; byContext: the context called it.
TypeOK ==
  /\ target \in Seq([open : BOOLEAN, creator : Call \cup {None}, opener : 0..MaxTargets,
                     announced : BOOLEAN, autoAttached : BOOLEAN, unloading : BOOLEAN,
                     killed : BOOLEAN])
  /\ Len(target) <= MaxTargets /\ disposed \in BOOLEAN
  /\ session \in Seq([of : Target, awaits : SUBSET Call, opener : {0} \cup Session,
       phase : {"announced", "waiting", "ignored", "initializing", "popup", "ready", "failed"},
       connected : BOOLEAN, closing : BOOLEAN, closed : BOOLEAN,
       close : {"no", "sent", "acked", "done", "threw"}, byContext : BOOLEAN])
  /\ ToSet(pagesById) \subseteq {s \in Session : IsPage(s)}
  /\ \A i, j \in DOMAIN pagesById :
       session[pagesById[i]].of = session[pagesById[j]].of => i = j
  /\ attachedTargetIds \subseteq Target /\ createdTargetIds \subseteq Target
  /\ creating \subseteq Call
  /\ call \in [Call -> [of : {0} \cup Target, page : {0} \cup Session,
       state : {"idle", "creating", "attaching", "waiting", "opening", "done", "failed"}]]
  /\ context \in {"open", "closing", "disposing", "closed", "failed"}
  /\ closing \subseteq Session
  /\ \A s \in Session : session[s].closed => session[s].closing

Init ==
  /\ environment \in Environments
  /\ target = <<>> /\ disposed = FALSE /\ commands = {} /\ inbox = <<>>
  /\ session = <<>> /\ pagesById = <<>>
  /\ attachedTargetIds = {} /\ createdTargetIds = {} /\ creating = {}
  /\ call = [c \in Call |-> [state |-> "idle", of |-> 0, page |-> 0]]
  /\ context = "open" /\ closing = {}

Command(kind, of) == [kind |-> kind, of |-> of]
Message(kind, of, says) == [kind |-> kind, of |-> of, says |-> says]
Outcome(ok) == IF ok THEN "ok" ELSE "error"

-----------------------------------------------------------------------------
(* Chrome *)

Listens == Len(inbox) < MaxInbox

Answers(command, message) ==
  /\ Listens
  /\ commands' = commands \ {command}
  /\ inbox' = Append(inbox, message)

NewTarget(creator, opener) ==
  target' = Append(target, [open |-> TRUE, creator |-> creator, opener |-> opener,
                            announced |-> FALSE, autoAttached |-> FALSE, unloading |-> FALSE,
                            killed |-> FALSE])

TargetOf(c) == SelectInSeq(target, LAMBDA t : t.creator = c)

CreatesTarget(c) ==
  /\ Command("create", c) \in commands /\ TargetOf(c) = 0 /\ ~disposed
  /\ NewTarget(c, 0)
  /\ UNCHANGED <<disposed, pipeVars, session, pagesById, idVars, callVars, contextVars>>

\* It fails once the context is going, and else where failures happen; the answer may also
\* come too late for the timer of the command, which is no different.
AnswersCreate(c) ==
  /\ Command("create", c) \in commands
  /\ \E ok \in BOOLEAN :
       /\ ok => TargetOf(c) # 0
       /\ ~ok => (disposed /\ TargetOf(c) = 0) \/ "createFails" \in environment
       /\ Answers(Command("create", c), Message("created", c, Outcome(ok)))
  /\ UNCHANGED <<chromeVars, session, pagesById, idVars, callVars, contextVars>>

\* A page opens another one.  The calls keep room for their targets.
Popup(s) ==
  /\ "popup" \in environment /\ ~disposed
  /\ session[s].phase = "ready" /\ target[session[s].of].open
  /\ Len(target) + Cardinality({c \in Call : TargetOf(c) = 0}) < MaxTargets
  /\ NewTarget(None, session[s].of)
  /\ UNCHANGED <<disposed, pipeVars, session, pagesById, idVars, callVars, contextVars>>

\* Target.targetCreated, which says whether the target is attached: where it does not happen,
\* it says so and changes nothing.
Announces(t) ==
  /\ "announces" \in environment /\ Listens
  /\ target[t].open /\ ~target[t].announced
  /\ target' = [target EXCEPT ![t].announced = TRUE]
  /\ inbox' = Append(inbox, Message("announced", t, Outcome(\E s \in Session : session[s].of = t)))
  /\ UNCHANGED <<disposed, commands, session, pagesById, idVars, callVars, contextVars>>

NewSession(t) ==
  Append(session, [of |-> t, phase |-> "announced", awaits |-> {}, opener |-> 0,
                   connected |-> FALSE, closing |-> FALSE, closed |-> FALSE,
                   close |-> "no", byContext |-> FALSE])
AttachedMessage == Message("attached", Len(session) + 1, "ok")

\* Target.setAutoAttach.
AutoAttaches(t) ==
  /\ Listens
  /\ target[t].open /\ ~target[t].autoAttached
  /\ target' = [target EXCEPT ![t].autoAttached = TRUE]
  /\ session' = NewSession(t)
  /\ inbox' = Append(inbox, AttachedMessage)
  /\ UNCHANGED <<disposed, commands, pagesById, idVars, callVars, contextVars>>

\* Target.attachToTarget, sent by newPage for a call or by Browser.onTargetCreated.
Attaches(command) ==
  /\ Listens
  /\ command \in commands /\ command.kind \in {"attach", "attachTarget"}
  /\ LET t == IF command.kind = "attach" THEN call[command.of].of ELSE command.of
         answer == IF command.kind = "attach"
                     THEN <<Message("attachedFor", command.of, Outcome(target[t].open))>> ELSE <<>>
     IN  /\ session' = IF target[t].open THEN NewSession(t) ELSE session
         /\ inbox' = inbox \o (IF target[t].open THEN <<AttachedMessage>> ELSE <<>>) \o answer
  /\ commands' = commands \ {command}
  /\ UNCHANGED <<chromeVars, pagesById, idVars, callVars, contextVars>>

\* Its sessions are detached, in order, and the target is destroyed.
Goodbyes(t) ==
  LET ofT == {s \in Session : session[s].of = t}
      inOrder == {q \in [1..Cardinality(ofT) -> ofT] :
                    \A i, j \in DOMAIN q : i < j => q[i] < q[j]}
  IN  {[i \in DOMAIN q |-> Message("detached", q[i], "ok")] \o <<Message("destroyed", t, "ok")>> :
         q \in inOrder}

\* One target is bound to close by itself, window.close(), at most.
CloseTarget(t) ==
  /\ Listens
  /\ target[t].open
  /\ \/ target[t].unloading \/ disposed
     \/ "selfClose" \in environment /\ \A u \in Target : target[u].open
  /\ target' = [target EXCEPT ![t].open = FALSE]
  /\ \E goodbye \in Goodbyes(t) : inbox' = inbox \o goodbye
  /\ UNCHANGED <<disposed, commands, session, pagesById, idVars, callVars, contextVars>>

\* Target.targetCrashed with status "killed"; the sessions stay attached.
Killed(t) ==
  /\ Listens
  /\ "killed" \in environment /\ target[t].open /\ ~target[t].killed
  /\ target' = [target EXCEPT ![t].killed = TRUE]
  /\ inbox' = Append(inbox, Message("killed", t, "ok"))
  /\ UNCHANGED <<disposed, commands, session, pagesById, idVars, callVars, contextVars>>

\* Page.close: Chrome answers when it starts, before the handlers of beforeunload ran.  A
\* dialog they open keeps the page.  "gone" is an answer that names the target as closed.
AnswersClose(s) ==
  /\ Command("close", s) \in commands
  /\ LET t == session[s].of IN
     \E answer \in {"ok"} \cup (IF "closeErrors" \in environment THEN {"gone", "error"} ELSE {}) :
       /\ target[t].open /\ "silent" \notin environment
       /\ Answers(Command("close", s), Message("closed", s, answer))
       /\ \/ answer = "ok" /\ target' = [target EXCEPT ![t].unloading = TRUE]
          \/ (answer # "ok" \/ "dialog" \in environment) /\ UNCHANGED target
  /\ UNCHANGED <<disposed, session, pagesById, idVars, callVars, contextVars>>

\* Target.disposeBrowserContext closes the targets, without beforeunload, and answers when
\* they are gone.
Disposes ==
  /\ Command("dispose", None) \in commands
  /\ \/ ~disposed /\ disposed' = TRUE /\ UNCHANGED pipeVars
     \/ /\ disposed /\ (\A t \in Target : ~target[t].open)
        /\ Answers(Command("dispose", None), Message("disposed", None, "ok"))
        /\ UNCHANGED disposed
     \/ /\ ~disposed /\ "closeErrors" \in environment
        /\ Answers(Command("dispose", None), Message("disposed", None, "error"))
        /\ UNCHANGED disposed
  /\ UNCHANGED <<target, session, pagesById, idVars, callVars, contextVars>>

-----------------------------------------------------------------------------
(* BrowserContext.newPage *)

NewPage(c) ==
  /\ context \in {"open", "closing"} /\ call[c].state = "idle"
  /\ "anotherCall" \in environment \/ \A d \in Call : call[d].state = "idle"
  /\ call' = [call EXCEPT ![c].state = "creating"]
  /\ creating' = creating \cup {c}
  /\ commands' = commands \cup {Command("create", c)}
  /\ UNCHANGED <<chromeVars, inbox, session, pagesById, idVars, contextVars>>

\* After attachToTarget: the page may be there already (it cannot, onPageAttached has waited
\* for this call).  A context that was cleaned up has no
\* map to wait in, which is a TypeError.
Continues(c, t) ==
  /\ creating' = creating \ {c}
  /\ call' = [call EXCEPT ![c] =
       [of |-> t, page |-> PageOf(t),
        state |-> IF PageOf(t) # 0 THEN "opening"
                  ELSE IF context = "closed" THEN "failed" ELSE "waiting"]]

\* A failure leaves the promise of the call unresolved.
Fails(c) ==
  /\ call' = [call EXCEPT ![c].state = "failed"]
  /\ UNCHANGED creating

OnCreated(c, ok) ==
  LET t == TargetOf(c) IN
  /\ \/ ~ok /\ Fails(c) /\ UNCHANGED <<idVars, commands>>
     \/ /\ ok /\ createdTargetIds' = createdTargetIds \cup {t}
        /\ \/ t \in attachedTargetIds /\ Continues(c, t) /\ UNCHANGED commands
           \/ /\ t \notin attachedTargetIds
              /\ call' = [call EXCEPT ![c].state = "attaching", ![c].of = t]
              /\ commands' = commands \cup {Command("attach", c)}
              /\ UNCHANGED creating
        /\ UNCHANGED attachedTargetIds
  /\ UNCHANGED <<session, pagesById, context, closing>>

OnAttachedFor(c, ok) ==
  /\ IF ok THEN Continues(c, call[c].of) ELSE Fails(c)
  /\ UNCHANGED <<session, pagesById, idVars, commands, context, closing>>

\* Nothing that is under way will bring the page: the timer of 60 s is longer than that.
Stalled == /\ inbox = <<>> /\ commands = {}
           /\ \A t \in Target : target[t].open => target[t].autoAttached
           /\ \A s \in Session : session[s].phase # "waiting" \/ session[s].awaits \cap creating # {}

WaitTimesOut(c) ==
  /\ call[c].state = "waiting" /\ Stalled
  /\ Fails(c)
  /\ UNCHANGED <<chromeVars, pipeVars, session, pagesById, idVars, contextVars>>

Opens(c) ==
  /\ call[c].state = "opening"
  /\ LET page == session[call[c].page] IN
     /\ page.phase \in {"ready", "failed"}
     /\ call' = [call EXCEPT ![c].state =
                   IF page.phase = "ready" /\ ~page.closed THEN "done" ELSE "failed"]
  /\ UNCHANGED <<chromeVars, pipeVars, session, pagesById, idVars, creating, contextVars>>

-----------------------------------------------------------------------------
(* Sessions and pages *)

DidClose(pages) ==
  [s \in Session |-> IF s \in pages THEN [session[s] EXCEPT !.closing = TRUE, !.closed = TRUE]
                     ELSE session[s]]

\* Mutant: creations under way are not awaited.
OnAttachedAtOnce(s) ==
  /\ session' = [session EXCEPT ![s].phase = "waiting", ![s].connected = TRUE]
  /\ attachedTargetIds' = attachedTargetIds \cup {session[s].of}
  /\ UNCHANGED <<pagesById, createdTargetIds, callVars, commands, context, closing>>

\* Browser.onAttachedToTarget knows a context until it is closed.
OnAttached(s) ==
  /\ IF context = "closed"
       THEN /\ session' = [session EXCEPT ![s].phase = "ignored", ![s].connected = TRUE]
            /\ UNCHANGED attachedTargetIds
       ELSE /\ session' = [session EXCEPT ![s].phase = "waiting", ![s].connected = TRUE,
                                          ![s].awaits = creating]
            /\ attachedTargetIds' = attachedTargetIds \cup {session[s].of}
  /\ UNCHANGED <<pagesById, createdTargetIds, callVars, commands, context, closing>>

\* pageOptions.triggerPopupOnPageId, known once newPage knows the target.
TriggerOf(t) ==
  IF t \in createdTargetIds /\ target[t].creator # None THEN TriggerPopupOn[target[t].creator] ELSE 0

\* The page of the target that the options name, else the one that opened it; a target with
\* neither, that newPage did not create, counts as opened by the first page.
OpenerOf(t) ==
  LET named == IF TriggerOf(t) # 0 THEN TriggerOf(t) ELSE target[t].opener
      p == IF named = 0 THEN 0 ELSE PageOf(named)
  IN  IF p = 0 /\ t \notin createdTargetIds /\ pagesById # <<>> THEN Head(pagesById) ELSE p

\* Mutant: a target attached twice.
TrackPageAgain(s) ==
  /\ session[s].phase = "waiting" /\ session[s].awaits \cap creating = {}
  /\ session' = [session EXCEPT ![s].phase = "initializing", ![s].awaits = {},
                                ![s].opener = OpenerOf(session[s].of)]
  /\ pagesById' = Append(pagesById, s)
  /\ UNCHANGED <<call, chromeVars, pipeVars, idVars, creating, contextVars>>

\* Mutant: the call that waits for the page is not told.
TrackPageQuietly(s) ==
  /\ session[s].phase = "waiting" /\ session[s].awaits \cap creating = {} /\ context # "closed"
  /\ session' = [session EXCEPT ![s].phase = IF PageOf(session[s].of) # 0 THEN "ignored" ELSE "initializing",
                                ![s].awaits = {}]
  /\ pagesById' = IF PageOf(session[s].of) # 0 THEN pagesById ELSE Append(pagesById, s)
  /\ UNCHANGED <<call, chromeVars, pipeVars, idVars, creating, contextVars>>

\* onPageAttached after its await.
TrackPage(s) ==
  /\ session[s].phase = "waiting" /\ session[s].awaits \cap creating = {}
  /\ LET t == session[s].of IN
     IF PageOf(t) # 0 \/ context = "closed"
       THEN /\ session' = [session EXCEPT ![s].phase = "ignored", ![s].awaits = {}]
            /\ UNCHANGED <<pagesById, call>>
       ELSE /\ session' = [session EXCEPT ![s].phase = "initializing", ![s].awaits = {},
                                          ![s].opener = OpenerOf(t)]
            /\ pagesById' = Append(pagesById, s)
            /\ call' = [c \in Call |-> IF call[c].state = "waiting" /\ call[c].of = t
                          THEN [call[c] EXCEPT !.state = "opening", !.page = s] ELSE call[c]]
  /\ UNCHANGED <<chromeVars, pipeVars, idVars, creating, contextVars>>

\* Page.initialize: the answers to its commands, which the end of the session cancels.  A page
\* that closed meanwhile has no mainFrame to listen to; a page need not have a popupInitializeFn.
Initialized(s) ==
  /\ session[s].phase = "initializing"
  /\ LET p == session[s]
         hasOpener == p.opener # 0 /\ ~session[p.opener].closed
     IN  \E phase \in {"popup", "ready", "failed"} :
           /\ \/ phase = "popup" /\ p.connected /\ ~p.closed /\ hasOpener
              \/ phase = "ready" /\ IF p.connected THEN ~p.closed ELSE p.closing
              \/ /\ phase = "failed"
                 /\ IF p.connected THEN p.closed \/ "initFails" \in environment ELSE ~p.closing
           /\ session' = [session EXCEPT ![s].phase = phase]
  /\ UNCHANGED <<chromeVars, pipeVars, pagesById, idVars, callVars, contextVars>>

\* A popup waits for its opener, then up to 2 s for a loader.  It is ready if its opener closed
\* first, or it closed itself in those 2 s; popupInitializeFn may fail, and neither page has what
\* the rest needs if it closed at another time.
PopupInitialized(s) ==
  /\ session[s].phase = "popup"
  /\ LET opener == session[session[s].opener] IN
     /\ opener.phase \in {"ready", "failed"}
     /\ \E phase \in {"ready", "failed"} :
          /\ phase = "ready" => opener.phase = "ready"
          /\ phase = "failed" => \/ opener.phase = "failed" \/ opener.closed
                                 \/ session[s].closed \/ "initFails" \in environment
          /\ session' = [session EXCEPT ![s].phase = phase]
  /\ UNCHANGED <<chromeVars, pipeVars, pagesById, idVars, callVars, contextVars>>

OnDetached(s) ==
  LET t == session[s].of
      p == IF context = "closed" THEN 0 ELSE PageOf(t)
  IN  /\ session' = [DidClose({p}) EXCEPT ![s].connected = FALSE]
      /\ pagesById' = RemoveFirst(pagesById, p)
      /\ attachedTargetIds' = IF context = "closed" THEN attachedTargetIds
                              ELSE attachedTargetIds \ {t}
      /\ UNCHANGED <<createdTargetIds, callVars, commands, context, closing>>

\* targetDestroyed and targetKilled leave the page in the map.
OnDestroyed(t) ==
  /\ session' = DidClose({PageOf(t)})
  /\ attachedTargetIds' = IF context = "closed" THEN attachedTargetIds ELSE attachedTargetIds \ {t}
  /\ UNCHANGED <<pagesById, createdTargetIds, callVars, commands, context, closing>>

OnKilled(t) ==
  /\ session' = DidClose({PageOf(t)})
  /\ UNCHANGED <<pagesById, idVars, callVars, commands, context, closing>>

\* Browser.onTargetCreated.
OnAnnounced(t, attached) ==
  /\ commands' = IF attached \/ context = "closed" \/ t \in attachedTargetIds THEN commands
                 ELSE commands \cup {Command("attachTarget", t)}
  /\ UNCHANGED <<session, pagesById, idVars, callVars, context, closing>>

-----------------------------------------------------------------------------
(* Page.close *)

\* The pages whose close() does something: it returns closePromise at a second call.
Closing(pages) == {s \in pages : ~session[s].closing}
Close(pages, byContext) ==
  [s \in Session |->
     IF s \notin Closing(pages) THEN session[s]
     ELSE IF session[s].connected
       THEN [session[s] EXCEPT !.closing = TRUE, !.close = "sent", !.byContext = byContext]
       ELSE [session[s] EXCEPT !.closing = TRUE, !.closed = TRUE, !.close = "done",
                               !.byContext = byContext]]
CloseCommands(pages) == {Command("close", s) : s \in {p \in Closing(pages) : session[p].connected}}

UserCloses(s) ==
  /\ "userCloses" \in environment /\ IsPage(s) /\ ~session[s].closing
  /\ session' = Close({s}, FALSE)
  /\ commands' = commands \cup CloseCommands({s})
  /\ UNCHANGED <<chromeVars, inbox, pagesById, idVars, callVars, contextVars>>

\* The answer ends the timer; the promise of the page is still awaited.
OnCloseAnswered(s, answer) ==
  /\ LET closed == IF answer = "gone" THEN DidClose({s}) ELSE session IN
     session' = IF session[s].close # "sent" THEN session
                ELSE [closed EXCEPT ![s].close = IF answer = "error" THEN "threw" ELSE "acked"]
  /\ UNCHANGED <<pagesById, idVars, callVars, commands, context, closing>>

\* 30 s without an answer; 60 s, the timer of the command, is an error.
CloseTimer(s) ==
  /\ session[s].close = "sent" /\ session[s].connected /\ "silent" \in environment
  /\ session' = IF session[s].closed THEN [session EXCEPT ![s].close = "threw"]
                ELSE DidClose({s})
  /\ commands' = commands \ {Command("close", s)}
  /\ UNCHANGED <<chromeVars, inbox, pagesById, idVars, callVars, contextVars>>

\* Mutant: the cancellation of the command is not caught.
CloseReturnsAnswered(s) ==
  /\ session[s].close = "acked" /\ session[s].closed
  /\ session' = [session EXCEPT ![s].close = "done"]
  /\ UNCHANGED <<chromeVars, pipeVars, pagesById, idVars, callVars, contextVars>>

\* The page closed, or the end of the session canceled the command.
CloseReturns(s) ==
  /\ \/ session[s].close = "acked" /\ session[s].closed
     \/ session[s].close = "sent" /\ ~session[s].connected
  /\ session' = [DidClose({s}) EXCEPT ![s].close = "done"]
  /\ commands' = commands \ {Command("close", s)}
  /\ UNCHANGED <<chromeVars, inbox, pagesById, idVars, callVars, contextVars>>

-----------------------------------------------------------------------------
(* BrowserContext.close *)

CloseContext ==
  /\ "contextCloses" \in environment /\ context = "open"
  /\ context' = "closing" /\ closing' = ToSet(pagesById)
  /\ call' = [c \in Call |-> IF call[c].state = "waiting" THEN [call[c] EXCEPT !.state = "failed"]
                             ELSE call[c]]
  /\ session' = Close(ToSet(pagesById), TRUE)
  /\ commands' = commands \cup CloseCommands(ToSet(pagesById))
  /\ UNCHANGED <<chromeVars, inbox, pagesById, idVars, creating, environment>>

PagesClosed ==
  /\ context = "closing"
  /\ \/ /\ \A s \in closing : IF session[s].byContext THEN session[s].close = "done"
                                                      ELSE session[s].closed
        /\ context' = "disposing"
        /\ commands' = commands \cup {Command("dispose", None)}
     \/ /\ \E s \in closing : session[s].byContext /\ session[s].close = "threw"
        /\ context' = "failed" /\ UNCHANGED commands
  /\ UNCHANGED <<chromeVars, inbox, session, pagesById, idVars, callVars, closing, environment>>

\* Mutant: the pages are trusted to be closed.
CleanupOnly == context' = "closed" /\ pagesById' = <<>> /\ UNCHANGED session

\* "run just in case", then cleanup.
Cleanup ==
  /\ context' = "closed"
  /\ session' = DidClose(ToSet(pagesById))
  /\ pagesById' = <<>>

OnDisposed(ok) ==
  /\ IF context # "disposing" THEN UNCHANGED <<context, session, pagesById>>
     ELSE IF ok THEN Cleanup
     ELSE context' = "failed" /\ UNCHANGED <<session, pagesById>>
  /\ UNCHANGED <<idVars, callVars, commands, closing>>

\* 2 s.
DisposeTimer ==
  /\ context = "disposing" /\ Cleanup
  /\ UNCHANGED <<chromeVars, pipeVars, idVars, callVars, closing, environment>>

-----------------------------------------------------------------------------
HandleMessage ==
  /\ inbox # <<>>
  /\ inbox' = Tail(inbox)
  /\ LET m == Head(inbox) IN
     \/ m.kind = "created" /\ OnCreated(m.of, m.says = "ok")
     \/ m.kind = "attachedFor" /\ OnAttachedFor(m.of, m.says = "ok")
     \/ m.kind = "attached" /\ OnAttached(m.of)
     \/ m.kind = "detached" /\ OnDetached(m.of)
     \/ m.kind = "destroyed" /\ OnDestroyed(m.of)
     \/ m.kind = "killed" /\ OnKilled(m.of)
     \/ m.kind = "announced" /\ OnAnnounced(m.of, m.says = "ok")
     \/ m.kind = "closed" /\ OnCloseAnswered(m.of, m.says)
     \/ m.kind = "disposed" /\ OnDisposed(m.says = "ok")
  /\ UNCHANGED <<chromeVars, environment>>

Program ==
  \/ HandleMessage
  \/ \E c \in Call : WaitTimesOut(c) \/ Opens(c)
  \/ \E s \in Session : \/ TrackPage(s) \/ Initialized(s) \/ PopupInitialized(s)
                        \/ CloseTimer(s) \/ CloseReturns(s)
  \/ PagesClosed \/ DisposeTimer

Chrome ==
  \/ \E c \in Call : CreatesTarget(c) \/ AnswersCreate(c)
  \/ \E t \in Target : AutoAttaches(t)
  \/ \E command \in commands : Attaches(command)
  \/ \E s \in Session : AnswersClose(s)
  \/ Disposes

Unload == \E t \in Target : (target[t].unloading \/ disposed) /\ CloseTarget(t)

Next ==
  \/ Program \/ Chrome
  \/ \E c \in Call : NewPage(c)
  \/ \E s \in Session : UserCloses(s) \/ Popup(s)
  \/ \E t \in Target : Announces(t) \/ CloseTarget(t) \/ Killed(t)
  \/ CloseContext

Spec == Init /\ [][Next]_vars

(***************************************************************************)
(* The event loop hands over messages, resumes what may resume and fires   *)
(* timers.  Chrome answers commands, attaches to new targets and closes a  *)
(* page that is unloading or whose context is going.  No call, popup or    *)
(* close is ever due.                                                      *)
(***************************************************************************)
FairSpec == Spec /\ WF_vars(Program) /\ WF_vars(Chrome) /\ WF_vars(Unload)

-----------------------------------------------------------------------------
(* Properties *)

\* A page asked for with newPage is nobody's popup, though its session may be attached before
\* newPage learns of its target: onPageAttached waits for all creations under way.  With
\* triggerPopupOnPageId it is the popup of that page, and of no other.
NewPageIsNoPopup ==
  \A s \in Session : IsPage(s) /\ target[session[s].of].creator # None /\ session[s].opener # 0
    => session[session[s].opener].of = TriggerPopupOn[target[session[s].of].creator]

\* A closed context leaves no open page, those attached while it was closing included.
ClosedContextHasNoOpenPage ==
  context = "closed" => \A s \in Session : IsPage(s) => session[s].closed

\* newPage and onPageAttached find each other in whatever order they come: a call fails only
\* if a creation failed (its own, or another one, for which its page then waits), its page
\* failed or was closed, or the context closes.
NewPageFailsForAReason ==
  \A c \in Call : call[c].state = "failed" =>
    \/ \E d \in creating : call[d].state = "failed"
    \/ call[c].of # 0 /\ ~target[call[c].of].open
    \/ call[c].page # 0 /\ (session[call[c].page].phase = "failed" \/ session[call[c].page].closed)
    \/ context # "open"

\* Chrome answered Page.close, or refused it, and kept the page: a dialog of beforeunload.
KeptByChrome(s) ==
  LET t == target[session[s].of] IN
  session[s].close \in {"acked", "threw"} /\ ~session[s].closed /\ t.open /\ ~t.unloading

\* Every newPage, Page.close and BrowserContext.close ends (there are finitely many): none waits
\* for an attachment, an answer, a timer or another close that never comes.  The exception is
\* the page that lives on after Chrome has answered its close: the timer is stopped by then, and
\* its close(), and that of the context, wait as long as it lives.
CallsSettle ==
  <>[] /\ \A c \in Call : call[c].state \in {"idle", "done", "failed"}
       /\ \A s \in Session : session[s].close \in {"no", "done", "threw"} \/ KeptByChrome(s)
       /\ \/ context \in {"open", "closed", "failed"}
          \/ context = "closing" /\ \E s \in closing : KeptByChrome(s)
=============================================================================
