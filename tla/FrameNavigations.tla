--------------------------- MODULE FrameNavigations ---------------------------
(***************************************************************************)
(* The navigations of the main frame of a page: the history that           *)
(* FrameNavigations.ts keeps from the events of Chrome and of the proxy,   *)
(* the waits that FrameNavigationsObserver.ts resolves from it, the        *)
(* loaders of Frame.ts, and Page.goto, which waits on all three.           *)
(*                                                                         *)
(* One handler calls several methods of the two objects, and every         *)
(* 'status-change' one of them emits makes the observer look at its waits  *)
(* at once.  The two objects are therefore one record, "frame", the        *)
(* methods are functions from one record to the next, and an action applies*)
(* the composition its handler makes of them.                              *)
(***************************************************************************)
EXTENDS Naturals, SequencesExt

CONSTANTS
  Url,                     \* addresses
  Origin, Base,            \* of an address: its origin, itself without its fragment
  StartsWith,              \* pairs <<u, v>>: the text of u starts with that of v
  Adjusts,                 \* pairs <<u, v>>: u is v and at most one character, say a slash
  Goto, Wait,              \* calls of Page.goto and of the observer's waits
  WaitStatus,              \* what waits are for
  SinceOption,             \* values of sinceCommandId, None when it is left out
  MaxLoads, MaxInPage,     \* bounds: document requests, moves within documents,
  MaxEntries,              \*   navigations when a document is restored
  None,
  Unassigned,              \* NO_LOADER_ASSIGNED
  Environments             \* sets of happenings: a behaviour has those of one of them

Happenings == {"pageNavigates", "inPage", "redirect", "lateRequest", "restore",
               "anotherGoto", "overlap", "waits", "timeout", "paint", "fragment"}

HasFragment(u) == Base[u] # u

ASSUME NavigationAssumption ==
  /\ Origin \in [Url -> STRING] /\ Base \in [Url -> Url] /\ StartsWith \cup Adjusts \subseteq Url \X Url
  /\ \A u \in Url : Base[Base[u]] = Base[u] /\ Origin[Base[u]] = Origin[u]
  /\ None \notin Url \cup Nat \cup Wait \cup {"goForwardOrBack", "error"} /\ Unassigned \notin Nat \cup {None}
  /\ {MaxLoads, MaxInPage, MaxEntries} \subseteq Nat /\ IsFiniteSet(Goto)
  /\ Environments \subseteq SUBSET Happenings /\ SinceOption \subseteq Nat \cup {None}

(* LoadStatus and its pipeline.  ContentPaint has no place in it. *)
Rank == [NavigationRequested |-> 0, HttpRequested |-> 1, HttpRedirected |-> 2,
         HttpResponded |-> 3, JavascriptReady |-> 4, DomContentLoaded |-> 5,
         PaintingStable |-> 6, AllContentLoaded |-> 7]
Recorded == {"HttpRequested", "HttpRedirected", "HttpResponded", "JavascriptReady",
             "DomContentLoaded", "AllContentLoaded", "ContentPaint"}
LocationTrigger == {"change", "reload"}

(* Loaders: 0 is that of about:blank, 1..MaxLoads are Chrome's, the others *)
(* the ones the frame makes for navigations within the document.           *)
Loader == 0..(MaxLoads + MaxInPage)
InPageLoader(l) == l > MaxLoads

VARIABLES
  frame,        \* FrameNavigations and its observer, see TypeOK
  loaders, activeLoader, frameUrl,   \* of Frame: in order of their creation
  loads,        \* in Chrome: the document requests, in order
  doc, next,    \* the request whose document is shown, the one being loaded, or 0
  docUrl,       \* the address Chrome shows
  goto, wait,   \* the calls: their progress and the ones they were made during; the trigger
                \*   each wait holds
  marker,       \* commandMarker: its lastId, where waitForLocation starts from, whether
                \*   the last command was a wait
  environment   \* the happenings of this behaviour

chromeVars == <<loads, doc, next, docUrl>>
loaderVars == <<loaders, activeLoader, frameUrl>>
callVars == <<goto, wait, marker, environment>>
vars == <<frame, loaderVars, chromeVars, callVars>>

Count == Len(loads)
Entry == 0..(Len(frame.entries))   \* 0 is no navigation
MaybeUrl == Url \cup {None}

\* resource: the promise resourceIdResolvable.  It is unresolved, resolved with the resource
\* of a request or of the redirect that led to it, with -1, or with the promise of another
\* navigation.
EntryType ==
  [requestedUrl : Url, finalUrl : MaybeUrl, loader : Loader \cup {None, Unassigned},
   request : Loader \cup {None}, command : Nat, statuses : SUBSET Recorded,
   reason : {"goto", "inPage", "newFrame", "goForwardOrBack", "anchorClick", "metaTagRefresh", None},
   resource : [kind : {"unresolved", "request", "redirect", "none", "follows"}, of : Nat], error : BOOLEAN]

\* state, entry: of the promise of a trigger, and what it was resolved with; listed: in
\* statusTriggers; timer: waitingForLoadTimeout runs.
TriggerType ==
  [status : WaitStatus \cup {None}, since : Nat \cup {None}, listed : BOOLEAN, timer : BOOLEAN,
   state : {"unused", "pending", "resolved", "timedOut"}, entry : Entry]

TypeOK ==
  /\ frame.entries \in Seq(EntryType) /\ frame.history \in Seq(Entry \ {0})
  /\ IsInjective(frame.history)
  /\ frame.byLoader \in [Loader \cup {Unassigned} -> Entry] /\ frame.lastHttp \in Entry
  /\ frame.stored \in {None} \cup [url : Url, reason : {"anchorClick", "metaTagRefresh"}]
  /\ frame.triggers \in [Wait -> TriggerType]
  /\ \A w \in Wait : LET t == frame.triggers[w]
                    IN  /\ t.listed => t.state # "resolved"
                        /\ t.timer => t.listed /\ t.status = "PaintingStable"
  /\ loaders \in Seq([id : Loader, url : MaybeUrl, result : {None, "ok", "error"},
                      init : BOOLEAN, dcl : BOOLEAN])
  /\ activeLoader \in {loaders[i].id : i \in DOMAIN loaders} /\ frameUrl \in MaybeUrl
  /\ loads \in Seq([url : Url, from : MaybeUrl, published : BOOLEAN, painted : BOOLEAN,
                    ready : {"no", "retry", "yes"}, mitm : BOOLEAN, finished : BOOLEAN,
                    aborted : BOOLEAN,
                    stage : {"sent", "responded", "committed", "dcl", "loaded", "failed", "dropped"}])
  /\ Count <= MaxLoads /\ {doc, next} \subseteq 0..Count /\ docUrl \in MaybeUrl
  /\ goto \in [Goto -> [state : {"idle", "sent", "taken", "loading", "resource", "done", "failed"},
                        url : MaybeUrl, entry : Entry, loader : Loader \cup {None},
                        awaits : Loader \cup {None}, moves : BOOLEAN, during : SUBSET Goto]]
  /\ wait \in [Wait -> Wait \cup {None}]
  /\ marker \in [id : Nat, start : Nat, wasWait : BOOLEAN]

-----------------------------------------------------------------------------
(* The history, as a record f that also holds the triggers of the observer *)

Top(f) == IF f.history = <<>> THEN 0 ELSE Last(f.history)
UrlOf(e) == IF e.finalUrl # None THEN e.finalUrl ELSE e.requestedUrl
CurrentUrl(f) == IF Top(f) = 0 THEN None ELSE UrlOf(f.entries[Top(f)])

EntriesOf(f) == {f.entries[n] : n \in ToSet(f.history)}

FindMostRecentHistory(f, wanted) ==
  LET i == SelectLastInSeq(f.history, LAMBDA n : f.entries[n] \in wanted)
  IN  IF i = 0 THEN 0 ELSE f.history[i]

\* Mutant: the map by loader is not consulted.
TopNavigation(f, loader) == Top(f)
FindMatchingNavigation(f, loader) ==
  IF loader # None /\ f.byLoader[loader] # 0 THEN f.byLoader[loader] ELSE Top(f)

-----------------------------------------------------------------------------
(* FrameNavigationsObserver *)

HasResponse(e) ==
  /\ e.statuses \cap {"HttpResponded", "DomContentLoaded", "AllContentLoaded"} # {}
  /\ "HttpRedirected" \notin e.statuses

\* The first navigation since a command that changes or reloads the last one loaded before it.
\* A move that adds one character is no change.  The reason metaTagRefresh stands for
\* httpHeaderRefresh and reload too.
HasLocationTrigger(f, trigger, since) ==
  LET e == [i \in DOMAIN f.history |-> f.entries[f.history[i]]]
      previous(i) == SelectLastInSeq(SubSeq(e, 1, i - 1), HasResponse)
      changes(i) == /\ previous(i) # 0 /\ HasResponse(e[i])
                    /\ e[previous(i)].finalUrl # e[i].finalUrl
                    /\ ~(e[i].reason = "inPage"
                          /\ <<e[i].finalUrl, e[previous(i)].finalUrl>> \in Adjusts)
      reloads(i) == \/ e[i].reason = "metaTagRefresh"
                    \/ /\ "HttpRedirected" \notin e[i].statuses /\ previous(i) # 0
                       /\ e[previous(i)].finalUrl = e[i].finalUrl
                       /\ e[previous(i)].loader # e[i].loader
      first == SelectInSeq([i \in DOMAIN e |-> i], LAMBDA i :
                 e[i].command >= since /\ IF trigger = "reload" THEN reloads(i) ELSE changes(i))
  IN  IF first = 0 THEN 0 ELSE f.history[first]

Fulfils(e, status) ==
  \E s \in e.statuses \ {"HttpRedirected", "ContentPaint"} : Rank[s] >= Rank[status]

\* Mutant: the trigger is not taken off the list.
ResolveListedTrigger(t, n) ==
  [t EXCEPT !.state = IF @ = "pending" THEN "resolved" ELSE @,
            !.entry = IF t.state = "pending" THEN n ELSE @, !.timer = FALSE]
ResolvePendingTrigger(t, n) ==
  [t EXCEPT !.state = IF @ = "pending" THEN "resolved" ELSE @,
            !.entry = IF t.state = "pending" THEN n ELSE @, !.listed = FALSE, !.timer = FALSE]

\* A page is stable when painted, or 3 s after it loaded: the timer.
RefreshPendingLoadTrigger(f, t) ==
  IF Top(f) # 0 /\ "ContentPaint" \in f.entries[Top(f)].statuses
    THEN ResolvePendingTrigger(t, Top(f))
    ELSE [t EXCEPT !.timer = Top(f) # 0 /\ "AllContentLoaded" \in f.entries[Top(f)].statuses]

Refreshed(f, t) ==
  CASE ~t.listed \/ t.state # "pending" -> t
    [] t.listed /\ t.state = "pending" /\ t.status \in LocationTrigger ->
         LET n == HasLocationTrigger(f, t.status, t.since)
         IN  IF n # 0 THEN ResolvePendingTrigger(t, n) ELSE t
    [] t.listed /\ t.state = "pending" /\ t.status = "PaintingStable" -> RefreshPendingLoadTrigger(f, t)
    [] OTHER -> IF Fulfils(f.entries[Top(f)], t.status)
                  THEN ResolvePendingTrigger(t, Top(f)) ELSE t

OnLoadStatusChange(f) ==
  [f EXCEPT !.triggers = [w \in Wait |-> Refreshed(f, f.triggers[w])]]

-----------------------------------------------------------------------------
(* FrameNavigations *)

\* Mutant: no 'status-change' is emitted.
RecordStatusQuietly(f, n, status) == [f EXCEPT !.entries[n].statuses = @ \cup {status}]
RecordStatusChange(f, n, status) ==
  OnLoadStatusChange([f EXCEPT !.entries[n].statuses = @ \cup {status}])

ChangeNavigationStatus(f, status, loader) ==
  LET n == FindMatchingNavigation(f, loader)
      named == IF f.entries[n].loader = None /\ loader # None
                 THEN [f EXCEPT !.entries[n].loader = loader,
                                !.byLoader[loader] = IF @ = 0 THEN n ELSE @]
                 ELSE f
  IN  IF n = 0 THEN f
      ELSE IF status \in f.entries[n].statuses THEN named
      ELSE RecordStatusChange(named, n, status)

CheckStoredNavigationReason(f, n, url) ==
  IF f.stored # None /\ f.stored.url = url /\ f.entries[n].reason \in {None, "newFrame"}
    THEN [f EXCEPT !.entries[n].reason = f.stored.reason, !.stored = None]
    ELSE f

\* Mutant: the resource of a navigation without a request is left open.
ResolveNothing(f, n, resource) == f
Resolve(f, n, resource) ==
  [f EXCEPT !.entries[n].resource = IF @.kind = "unresolved" THEN resource ELSE @]

NoResource == [kind |-> "none", of |-> 0]
OwnResource(l) == [kind |-> "request", of |-> l]
Shown == {"AllContentLoaded", "DomContentLoaded", "ContentPaint"}

\* A navigation within the document takes the state of the document it is in.
CopyDocumentState(f, n, url, isNewTop) ==
  LET source == IF isNewTop THEN f.lastHttp
                ELSE FindMostRecentHistory(f, {e \in EntriesOf(f) :
                       /\ e.reason = "goto" /\ "HttpResponded" \in e.statuses
                       /\ Origin[url] = Origin[UrlOf(e)]})
      statuses == IF source = 0 THEN {"AllContentLoaded", "ContentPaint"}
                  ELSE f.entries[source].statuses \cap Shown
      copied == [Resolve(f, n, IF source = 0 THEN NoResource ELSE [kind |-> "follows", of |-> source])
                   EXCEPT !.entries[n].statuses = @ \cup statuses, !.entries[n].finalUrl = url]
  IN  CASE f.entries[Top(f)].finalUrl = url -> f
        [] f.entries[Top(f)].finalUrl # url /\ isNewTop -> OnLoadStatusChange(copied)
        [] OTHER -> copied

\* Mutant: a fragment of the same page counts as a request of its own.
NoteEveryNavigation(f, n) == [f EXCEPT !.lastHttp = n]
\* lastHttpNavigationRequest is "the last navigation not loaded in-page".
NoteHttpNavigation(f, n) ==
  LET requested == f.entries[n].requestedUrl
  IN  IF /\ HasFragment(requested) /\ f.lastHttp # 0
         /\ <<requested, Base[UrlOf(f.entries[f.lastHttp])]>> \in StartsWith
        THEN f
        ELSE [f EXCEPT !.lastHttp = n]

OnNavigationRequested(f, reason, url, commandId, loader, request) ==
  LET isNewTop == reason # "inPage" \/ Top(f) = 0 \/ Origin[url] = Origin[CurrentUrl(f)]
      reused == CurrentUrl(f) = url /\ f.entries[Top(f)].loader = Unassigned
      n == IF reused THEN Top(f) ELSE Len(f.entries) + 1
      new == [requestedUrl |-> url, finalUrl |-> None, loader |-> loader, request |-> request,
              command |-> commandId, statuses |-> {}, reason |-> reason,
              resource |-> [kind |-> "unresolved", of |-> 0], error |-> FALSE]
      entered == IF reused
                   THEN [f EXCEPT !.entries[n].loader = loader, !.entries[n].request = request]
                   ELSE [f EXCEPT !.entries = Append(@, new),
                                  !.history = IF isNewTop THEN Append(@, n)
                                              ELSE InsertAt(@, Len(@), n)]
      found == IF loader = None THEN entered ELSE [entered EXCEPT !.byLoader[loader] = n]
      named == CheckStoredNavigationReason(found, n, url)
  IN  CASE reason = "inPage" -> CopyDocumentState(named, n, url, isNewTop)
        [] reason = "goForwardOrBack" ->
             Resolve([named EXCEPT !.entries[n].statuses =
                        @ \cup {"HttpRequested", "HttpResponded", "AllContentLoaded", "ContentPaint"}],
                     n, NoResource)
        [] OTHER -> NoteHttpNavigation(named, n)

\* The navigation a redirect ends, or 0.
RedirectedNavigation(f, from, loader) ==
  IF LET top == f.entries[Top(f)]
     IN  top.requestedUrl = from /\ top.finalUrl = None /\ top.loader = None
    THEN Top(f)
    ELSE FindMostRecentHistory(f, {e \in EntriesOf(f) :
           /\ e.loader = loader /\ e.requestedUrl = from /\ "HttpRedirected" \notin e.statuses})

RecordRedirect(f, from, url, loader) ==
  LET n == RedirectedNavigation(f, from, loader)
  IN  IF n = 0 THEN f
      ELSE RecordStatusChange([f EXCEPT !.entries[n].finalUrl = url, !.entries[n].loader = loader],
                              n, "HttpRedirected")

OnHttpRequested(f, url, commandId, from, loader) ==
  LET redirected == IF from = None THEN f ELSE RecordRedirect(f, from, url, loader)
      ended == IF from = None THEN 0 ELSE RedirectedNavigation(f, from, loader)
      reason == IF ended = 0 THEN None ELSE f.entries[ended].reason
      isNew == /\ "HttpRequested" \in redirected.entries[Top(f)].statuses
               /\ redirected.byLoader[loader] = 0 \/ from # None
      requested == IF isNew THEN OnNavigationRequested(redirected, reason, url, commandId, loader, loader)
                   ELSE redirected
  IN  IF Top(f) = 0 THEN f ELSE ChangeNavigationStatus(requested, "HttpRequested", loader)

OnHttpResponded(f, url, loader) ==
  LET n == FindMatchingNavigation(f, loader)
  IN  IF n = 0 THEN f
      ELSE RecordStatusChange([f EXCEPT !.entries[n].finalUrl = url], n, "HttpResponded")

\* The navigation that waits for a resource: only the most recent candidate is considered.
PendingResourceId(f, request, requestedUrl, finalUrl, loader) ==
  LET n == FindMostRecentHistory(f, {e \in EntriesOf(f) :
             /\ e.resource.kind = "unresolved"
             /\ loader # None => e.loader = loader
             /\ e.request \in {None, request}})
      e == f.entries[n]
  IN  IF /\ n # 0
         /\ \/ e.finalUrl # None /\ finalUrl = e.finalUrl
            \/ requestedUrl = Base[e.requestedUrl]
        THEN n ELSE 0

OnResourceLoaded(f, n, resource, error) ==
  IF n = 0 THEN f
  ELSE [f EXCEPT !.entries[n].resource = resource,
                 !.entries[n].error = error]

AssignLoaderId(f, n, loader) ==
  IF loader = None THEN [f EXCEPT !.entries[n].loader = Unassigned]
  ELSE [f EXCEPT !.entries[n].loader = loader, !.byLoader[loader] = IF @ = 0 THEN n ELSE @]

\* Paints are reported with an address and no loader.
OnLargestPaint(f, url) ==
  LET n == FindMostRecentHistory(f, {e \in EntriesOf(f) :
             url \in {e.finalUrl, e.requestedUrl} /\ "HttpResponded" \in e.statuses})
  IN  ChangeNavigationStatus(f, "ContentPaint", IF n = 0 THEN None ELSE f.entries[n].loader)

UpdateNavigationReason(f, url, reason) ==
  IF /\ Top(f) # 0 /\ f.entries[Top(f)].requestedUrl = url
     /\ f.entries[Top(f)].reason = "newFrame"
    THEN [f EXCEPT !.entries[Top(f)].reason = reason]
    ELSE [f EXCEPT !.stored = [url |-> url, reason |-> reason]]

-----------------------------------------------------------------------------
(* Frame and NavigationLoader *)

Position(l) == SelectInSeq(loaders, LAMBDA x : x.id = l)
LoaderOf(l) == loaders[Position(l)]
NewLoader(l, url) == [id |-> l, url |-> url, result |-> None, init |-> FALSE, dcl |-> FALSE]

\* Once set, the result of a loader stays.
WithResult(x, result) == [x EXCEPT !.result = IF @ = None THEN result ELSE @]

SetLoader(l, url) ==
  /\ loaders' = IF Position(l) = 0 THEN Append(loaders, NewLoader(l, url)) ELSE loaders
  /\ activeLoader' = IF Position(l) = 0 THEN l ELSE activeLoader

\* onLifecycleEvent "init" followed by onNavigated, which Chrome sends on commit.  A loader
\* that was active and never began is abandoned.
Committed(l, url) ==
  LET abandoned == [i \in DOMAIN loaders |->
        IF loaders[i].id = activeLoader /\ activeLoader # l /\ ~loaders[i].init
          THEN WithResult(loaders[i], "error") ELSE loaders[i]]
      known == IF Position(l) = 0 THEN Append(abandoned, NewLoader(l, None)) ELSE abandoned
  IN  /\ loaders' = [i \in DOMAIN known |->
             IF known[i].id = l
               THEN [WithResult(known[i], "ok") EXCEPT !.url = url, !.init = TRUE] ELSE known[i]]
      /\ activeLoader' = IF Position(l) = 0 THEN l ELSE activeLoader
      /\ frameUrl' = url

\* Mutant: an event is for the loader of the document alone.
NoMoves(l) == {}
\* Where the loaders of navigations within the document l are: what happens to it is told of
\* them, in order, and then of its own.
MovesOf(l) ==
  {i \in DOMAIN loaders : i > Position(l) /\ l # activeLoader /\ InPageLoader(loaders[i].id)}

OnLifecycleEvent(l, status) ==
  LET told[i \in 0..Len(loaders)] ==
        IF i = 0 THEN frame
        ELSE IF i \in MovesOf(l) THEN ChangeNavigationStatus(told[i - 1], status, loaders[i].id)
        ELSE told[i - 1]
  IN  /\ loaders' = [i \in DOMAIN loaders |->
            IF i \in MovesOf(l) \/ loaders[i].id = l
              THEN [WithResult(loaders[i], "ok") EXCEPT !.dcl = @ \/ status = "DomContentLoaded"]
              ELSE loaders[i]]
      /\ frame' = ChangeNavigationStatus(told[Len(loaders)], status, l)
      /\ UNCHANGED <<activeLoader, frameUrl>>

InPageCount == Cardinality({i \in DOMAIN loaders : InPageLoader(loaders[i].id)})

OnNavigatedWithinDocument(url) ==
  LET l == MaxLoads + InPageCount + 1
      active == LoaderOf(activeLoader)
      isForActiveDomain == active.url # None /\ Origin[active.url] = Origin[url]
      isDomLoaded == isForActiveDomain /\ active.dcl
      loader == [NewLoader(l, url) EXCEPT !.dcl = isDomLoaded,
                                          !.result = IF isDomLoaded THEN "ok" ELSE None]
  IN  IF frameUrl = url THEN UNCHANGED <<frame, loaderVars>>
      ELSE /\ frameUrl' = url
           /\ loaders' = Append(loaders, loader) /\ activeLoader' = l
           /\ frame' = IF isForActiveDomain
                         THEN OnNavigationRequested(frame, "inPage", url, marker.id, l, None)
                         ELSE frame

-----------------------------------------------------------------------------
(* Document requests of Chrome, as NetworkManager and the proxy report them *)

\* Loads and moves are bounded, with what goto has asked for and Chrome has not taken.
RoomForLoad == Count + Cardinality({g \in Goto : goto[g].state = "sent"}) < MaxLoads
RoomForMove ==
  LET isMoving(g) == goto[g].moves \/ (goto[g].state = "sent" /\ HasFragment(goto[g].url))
  IN  InPageCount + Cardinality({g \in Goto : isMoving(g)}) < MaxInPage

\* A fragment of the document shown is no load.
IsMove(url) == doc # 0 /\ HasFragment(url) /\ url # docUrl /\ Base[url] = Base[docUrl]
MayBeUsed(url) == HasFragment(url) => "fragment" \in environment
InProgress(l) == loads[l].stage \in {"sent", "responded"} /\ ~loads[l].aborted

\* A new request aborts the one that has not committed.
Requests(url, published) ==
  /\ loads' = Append([l \in DOMAIN loads |->
                        [loads[l] EXCEPT !.aborted = @ \/ InProgress(l)]],
                     [url |-> url, from |-> None, published |-> published, painted |-> FALSE,
                      ready |-> "no", mitm |-> FALSE, finished |-> FALSE, aborted |-> FALSE,
                      stage |-> "sent"])
  /\ next' = Count + 1 /\ UNCHANGED <<doc, docUrl>>

\* resource-will-be-requested, for the request l to url.
OnResourceWillBeRequested(f, l, url, from) ==
  LET framed == IF Top(f) # 0 THEN f
                ELSE OnNavigationRequested(f, "newFrame", Base[url], marker.id, l, l)
  IN  OnHttpRequested(framed, Base[url], marker.id, from, l)

\* A script, a link or a timer of the page; from about:blank, the page that opened this one.
PageNavigates(url) ==
  /\ "pageNavigates" \in environment /\ MayBeUsed(url) /\ ~IsMove(url)
  /\ RoomForLoad
  /\ LET reason == IF url = docUrl THEN "metaTagRefresh" ELSE "anchorClick"
         informed == UpdateNavigationReason(frame, url, reason)
         late == "lateRequest" \in environment
     IN  /\ Requests(url, ~late)
         /\ frame' = IF late THEN informed
                     ELSE OnResourceWillBeRequested(informed, Count + 1, url, None)
  /\ UNCHANGED <<loaderVars, callVars>>

Publishes(l) ==
  /\ InProgress(l) /\ ~loads[l].published
  /\ loads' = [loads EXCEPT ![l].published = TRUE]
  /\ frame' = OnResourceWillBeRequested(frame, l, loads[l].url, loads[l].from)
  /\ UNCHANGED <<loaderVars, doc, next, docUrl, callVars>>

\* The request of the redirect replaces the one before; if that was not yet published, it never is.
Redirects(l, url) ==
  /\ "redirect" \in environment
  /\ InProgress(l) /\ loads[l].stage = "sent" /\ loads[l].from = None /\ ~loads[l].mitm
  /\ url # loads[l].url /\ ~HasFragment(url)
  /\ LET from == Base[loads[l].url]
         late == "lateRequest" \in environment
     IN  /\ loads' = [loads EXCEPT ![l].url = url, ![l].from = from, ![l].published = ~late]
         /\ frame' = IF late THEN frame ELSE OnResourceWillBeRequested(frame, l, url, from)
  /\ UNCHANGED <<loaderVars, doc, next, docUrl, callVars>>

Responds(l) ==
  /\ InProgress(l) /\ loads[l].stage = "sent"
  /\ loads' = [loads EXCEPT ![l].stage = "responded", ![l].published = TRUE]
  /\ LET published == IF loads[l].published THEN frame
                      ELSE OnResourceWillBeRequested(frame, l, loads[l].url, loads[l].from)
     IN  frame' = OnHttpResponded(published, Base[loads[l].url], l)
  /\ UNCHANGED <<loaderVars, doc, next, docUrl, callVars>>

\* The response as the proxy reports it, which knows no loader.
MitmResponds(l) ==
  /\ loads[l].published /\ ~loads[l].mitm /\ ~loads[l].aborted
  /\ loads' = [loads EXCEPT ![l].mitm = TRUE]
  /\ LET url == Base[loads[l].url]
     IN  frame' = OnResourceLoaded(frame, PendingResourceId(frame, l, url, url, None), OwnResource(l), FALSE)
  /\ UNCHANGED <<loaderVars, doc, next, docUrl, callVars>>

\* resource-loaded, for the redirected request first: both with the last resource the proxy has
\* reported for this request, which may still be that of the redirect.
LoadFinishes(l) ==
  /\ loads[l].stage \in {"responded", "committed", "dcl", "loaded"}
  /\ ~loads[l].aborted /\ ~loads[l].finished
  /\ loads' = [loads EXCEPT ![l].finished = TRUE]
  /\ LET latest == IF loads[l].mitm THEN "request" ELSE "redirect"
         unknown == ~loads[l].mitm /\ loads[l].from = None
         Found(f, url, finalUrl) ==
           IF url = None \/ unknown THEN f
           ELSE OnResourceLoaded(f, PendingResourceId(f, l, url, finalUrl, l),
                                 [kind |-> latest, of |-> l], FALSE)
         url == Base[loads[l].url]
     IN  frame' = Found(Found(frame, loads[l].from, None), url, url)
  /\ UNCHANGED <<loaderVars, doc, next, docUrl, callVars>>

\* The failure of an aborted request, with the response it may have had.  It is reported with
\* the latest resource of the request, or dropped when the proxy has not seen the request.
LoadFails(l) == \E seen \in BOOLEAN :
  /\ loads[l].aborted /\ loads[l].stage \notin {"failed", "dropped"}
  /\ loads[l].mitm \/ loads[l].from # None => seen
  /\ loads' = [loads EXCEPT ![l].stage = IF seen THEN "failed" ELSE "dropped",
                            ![l].published = TRUE]
  /\ LET url == Base[loads[l].url]
         finalUrl == IF loads[l].stage = "responded" THEN url ELSE None
         framed == IF loads[l].published \/ Top(frame) # 0 THEN frame
                   ELSE OnNavigationRequested(frame, "newFrame", url, marker.id, l, l)
         n == PendingResourceId(framed, l, url, finalUrl, None)
     IN  frame' = IF seen THEN OnResourceLoaded(framed, n, OwnResource(l), TRUE) ELSE framed
  /\ UNCHANGED <<loaderVars, doc, next, docUrl, callVars>>

-----------------------------------------------------------------------------
(* The document shown *)

Commits(l) ==
  /\ next = l /\ InProgress(l) /\ loads[l].stage = "responded"
  /\ \A g \in Goto : ~goto[g].moves
  /\ loads' = [loads EXCEPT ![l].stage = "committed"]
  /\ doc' = l /\ next' = 0 /\ docUrl' = loads[l].url
  /\ Committed(l, loads[l].url)
  /\ UNCHANGED <<frame, callVars>>

DomContentLoaded ==
  /\ doc # 0 /\ loads[doc].stage = "committed"
  /\ loads' = [loads EXCEPT ![doc].stage = "dcl"]
  /\ OnLifecycleEvent(doc, "DomContentLoaded")
  /\ UNCHANGED <<doc, next, docUrl, callVars>>

AllContentLoaded ==
  /\ doc # 0 /\ loads[doc].stage = "dcl"
  /\ loads' = [loads EXCEPT ![doc].stage = "loaded"]
  /\ OnLifecycleEvent(doc, "AllContentLoaded")
  /\ UNCHANGED <<doc, next, docUrl, callVars>>

LargestContentfulPaint ==
  /\ "paint" \in environment /\ doc # 0 /\ ~loads[doc].painted
  /\ loads' = [loads EXCEPT ![doc].painted = TRUE]
  /\ frame' = OnLargestPaint(frame, docUrl)
  /\ UNCHANGED <<loaderVars, doc, next, docUrl, callVars>>

\* Without a navigation of that address the event is looked at once more, 100 ms later.
FirstContentfulPaint ==
  /\ "paint" \in environment /\ doc # 0 /\ loads[doc].ready # "yes"
  /\ LET n == FindMostRecentHistory(frame, {e \in EntriesOf(frame) : e.finalUrl = docUrl})
     IN  /\ loads' = [loads EXCEPT ![doc].ready =
                        IF n = 0 /\ @ = "no" THEN "retry" ELSE "yes"]
         /\ frame' = IF n = 0 \/ "JavascriptReady" \in frame.entries[n].statuses THEN frame
                     ELSE RecordStatusChange(frame, n, "JavascriptReady")
  /\ UNCHANGED <<loaderVars, doc, next, docUrl, callVars>>

\* pushState, replaceState or a fragment set by a script of the page.
NavigatesWithinDocument(url) ==
  /\ "inPage" \in environment /\ RoomForMove
  /\ \A g \in Goto : ~goto[g].moves
  /\ doc # 0 /\ url # docUrl /\ Origin[url] = Origin[docUrl] /\ MayBeUsed(url)
  /\ docUrl' = url
  /\ OnNavigatedWithinDocument(url)
  /\ UNCHANGED <<loads, doc, next, callVars>>

\* The page goes back to a document kept in the back/forward cache.
BackForwardCacheRestore(l) ==
  /\ "restore" \in environment
  /\ l # doc /\ loads[l].stage = "loaded" /\ next = 0 /\ Len(frame.entries) < MaxEntries
  /\ doc' = l /\ docUrl' = loads[l].url
  /\ frameUrl' = loads[l].url
  /\ frame' = OnNavigationRequested(frame, "goForwardOrBack", loads[l].url, marker.id, l, None)
  /\ UNCHANGED <<loaders, activeLoader, loads, next, callVars>>

-----------------------------------------------------------------------------
(* Page.goto *)

\* A second waitForLocation in a row starts where the first one was called.
IncrementMark(action) ==
  LET id == marker.id + 1
      starts == action = "goto" \/ (action = "waitForLocation" /\ marker.wasWait)
  IN  [id |-> id, start |-> IF starts THEN id ELSE marker.start, wasWait |-> action # "goto"]

UnderWay == {g \in Goto : goto[g].state \notin {"idle", "done", "failed"}}

CallsGoto(g, url) ==
  /\ goto[g].state = "idle" /\ MayBeUsed(url)
  /\ RoomForLoad /\ (HasFragment(url) => RoomForMove)
  /\ (\A h \in Goto : goto[h].state = "idle") \/ "anotherGoto" \in environment
  /\ UnderWay = {} \/ "overlap" \in environment
  /\ marker' = IncrementMark("goto")
  /\ frame' = OnNavigationRequested(frame, "goto", url, marker'.id, None, None)
  /\ goto' = [goto EXCEPT ![g] = [state |-> "sent", url |-> url, entry |-> Top(frame'),
                                    loader |-> None, awaits |-> None, moves |-> FALSE,
                                    during |-> UnderWay]]
  /\ UNCHANGED <<loaderVars, chromeVars, wait, environment>>

\* Chrome takes Page.navigate.
Navigates(g) ==
  /\ goto[g].state = "sent"
  /\ IF IsMove(goto[g].url)
       THEN /\ docUrl' = goto[g].url
            /\ goto' = [goto EXCEPT ![g].state = "taken", ![g].moves = TRUE]
            /\ UNCHANGED <<frame, loads, doc, next>>
       ELSE LET late == "lateRequest" \in environment
            IN  /\ Requests(goto[g].url, ~late)
                /\ frame' = IF late THEN frame
                            ELSE OnResourceWillBeRequested(frame, Count + 1, goto[g].url, None)
                /\ goto' = [goto EXCEPT ![g].state = "taken", ![g].loader = Count + 1]
  /\ UNCHANGED <<loaderVars, wait, marker, environment>>

\* The event of that move comes before or after the answer to Page.navigate.
Moves(g) ==
  /\ goto[g].moves
  /\ OnNavigatedWithinDocument(goto[g].url)
  /\ goto' = [goto EXCEPT ![g].moves = FALSE]
  /\ UNCHANGED <<chromeVars, wait, marker, environment>>

\* Page.navigate is answered once there is a response, or with an error; a move has no loader,
\* and waits for the active one.
Answers(g) ==
  /\ goto[g].state = "taken"
  /\ LET l == goto[g].loader
     IN  CASE l = None ->
                /\ goto' = [goto EXCEPT ![g].state = "loading", ![g].awaits = activeLoader]
                /\ UNCHANGED loaderVars
           [] l # None /\ loads[l].aborted ->
                /\ goto' = [goto EXCEPT ![g].state = "failed"]
                /\ UNCHANGED loaderVars
           [] OTHER ->
                /\ loads[l].stage # "sent"
                /\ SetLoader(l, goto[g].url) /\ UNCHANGED frameUrl
                /\ goto' = [goto EXCEPT ![g].state = "loading", ![g].awaits = l]
  /\ UNCHANGED <<frame, chromeVars, wait, marker, environment>>

\* goto goes on to wait for the resource of the navigation that is the top by now.  The wait for
\* the default context of the frame, which comes first, is a delay of this step.
LoaderIsComplete(g) ==
  /\ goto[g].state = "loading"
  /\ LET result == LoaderOf(goto[g].awaits).result
     IN  /\ result # None
         /\ IF result = "error"
              THEN /\ goto' = [goto EXCEPT ![g].state = "failed"]
                   /\ UNCHANGED frame
              ELSE /\ frame' = AssignLoaderId(frame, goto[g].entry, goto[g].loader)
                   /\ goto' = [goto EXCEPT ![g].state = "resource", ![g].entry = Top(frame)]
  /\ UNCHANGED <<loaderVars, chromeVars, wait, marker, environment>>

\* What the promise resourceIdResolvable of each navigation has come to; one that follows itself
\* is rejected.
ResourceOf(n) == frame.entries[n].resource
ResourceOutcome[n \in Entry] ==
  IF n = 0 \/ ResourceOf(n).kind \notin {"unresolved", "follows"} THEN "resolved"
  ELSE IF ResourceOf(n).kind = "unresolved" THEN "pending"
  ELSE IF ResourceOf(n).of < n THEN ResourceOutcome[ResourceOf(n).of] ELSE "rejected"

GotoReturns(g) ==
  /\ goto[g].state = "resource"
  /\ LET outcome == ResourceOutcome[goto[g].entry]
         failed == outcome = "rejected" \/ frame.entries[goto[g].entry].error
     IN  /\ outcome # "pending"
         /\ goto' = [goto EXCEPT ![g].state = IF failed THEN "failed" ELSE "done"]
  /\ UNCHANGED <<frame, loaderVars, chromeVars, wait, marker, environment>>

-----------------------------------------------------------------------------
(* waitForLoad and waitForLocation *)

\* A wait joins the listed trigger of its kind, whatever has become of it, or makes one.
TriggerFor(w, status, since) ==
  LET same == {v \in Wait : /\ frame.triggers[v].listed
                           /\ frame.triggers[v].status = status /\ frame.triggers[v].since = since}
  IN  IF same = {} THEN w ELSE CHOOSE v \in same : TRUE

CreateStatusTriggeredPromise(w, status, since) ==
  IF TriggerFor(w, status, since) # w THEN frame
  ELSE [frame EXCEPT !.triggers[w] = [status |-> status, since |-> since, listed |-> TRUE,
                                      timer |-> FALSE, state |-> "pending", entry |-> 0]]

ResolvedAtOnce(w, status, n) ==
  [frame EXCEPT !.triggers[w].status = status, !.triggers[w].state = "resolved",
                 !.triggers[w].entry = n]

\* On about:blank, which is loaded, a wait for JavascriptReady has nothing to wait for.
WaitForLoad(w, status) ==
  LET top == Top(frame)
      isBlank == top = 0 /\ status = "JavascriptReady"
      atOnce == isBlank \/ (top # 0 /\ status \in frame.entries[top].statuses)
      created == CreateStatusTriggeredPromise(w, status, None)
  IN  /\ "waits" \in environment
      /\ wait[w] = None /\ status \notin LocationTrigger
      /\ wait' = [wait EXCEPT ![w] = IF atOnce THEN w ELSE TriggerFor(w, status, None)]
      /\ frame' = CASE atOnce -> ResolvedAtOnce(w, status, top)
                    [] ~atOnce /\ top = 0 -> created
                    [] OTHER -> OnLoadStatusChange(created)
      /\ marker' = IF isBlank THEN marker ELSE IncrementMark("waitForLoad")
      /\ UNCHANGED <<loaderVars, chromeVars, goto, environment>>

\* option: sinceCommandId, the command from which on a navigation counts.
WaitForLocation(w, trigger, option) ==
  LET since == IF option = None THEN marker'.start ELSE option
      n == HasLocationTrigger(frame, trigger, since)
  IN  /\ "waits" \in environment
      /\ wait[w] = None /\ trigger \in LocationTrigger
      /\ marker' = IncrementMark("waitForLocation")
      /\ wait' = [wait EXCEPT ![w] = IF n # 0 THEN w ELSE TriggerFor(w, trigger, since)]
      /\ frame' = IF n # 0 THEN ResolvedAtOnce(w, trigger, n)
                  ELSE CreateStatusTriggeredPromise(w, trigger, since)
      /\ UNCHANGED <<loaderVars, chromeVars, goto, environment>>

\* The trigger stays listed.
TriggerTimesOut(w) ==
  /\ "timeout" \in environment
  /\ frame.triggers[w].listed /\ frame.triggers[w].state = "pending"
  /\ frame' = [frame EXCEPT !.triggers[w].state = "timedOut"]
  /\ UNCHANGED <<loaderVars, chromeVars, callVars>>

\* 3 s after the page loaded; whatever is the top by now.
StableTimer(w) ==
  /\ frame.triggers[w].timer
  /\ frame' = [frame EXCEPT !.triggers[w] = ResolvePendingTrigger(@, Top(frame))]
  /\ UNCHANGED <<loaderVars, chromeVars, callVars>>

-----------------------------------------------------------------------------
Init ==
  /\ frame = [entries |-> <<>>, history |-> <<>>, lastHttp |-> 0, stored |-> None,
              byLoader |-> [l \in Loader \cup {Unassigned} |-> 0],
              triggers |-> [w \in Wait |-> [status |-> None, since |-> None, listed |-> FALSE,
                                           timer |-> FALSE, state |-> "unused", entry |-> 0]]]
  /\ loaders = <<[NewLoader(0, None) EXCEPT !.result = "ok", !.init = TRUE, !.dcl = TRUE]>>
  /\ activeLoader = 0 /\ frameUrl = None
  /\ loads = <<>> /\ doc = 0 /\ next = 0 /\ docUrl = None
  /\ goto = [g \in Goto |-> [state |-> "idle", url |-> None, entry |-> 0, loader |-> None,
                             awaits |-> None, moves |-> FALSE, during |-> {}]]
  /\ wait = [w \in Wait |-> None]
  /\ marker = [id |-> 0, start |-> 0, wasWait |-> FALSE]
  /\ environment \in Environments

Network(l) ==
  Publishes(l) \/ Responds(l) \/ MitmResponds(l) \/ LoadFinishes(l) \/ LoadFails(l)

Shows == DomContentLoaded \/ AllContentLoaded \/ LargestContentfulPaint \/ FirstContentfulPaint

Continues(g) == Navigates(g) \/ Moves(g) \/ Answers(g) \/ LoaderIsComplete(g) \/ GotoReturns(g)

Next ==
  \/ \E l \in DOMAIN loads :
       \/ Network(l) \/ Commits(l) \/ BackForwardCacheRestore(l)
       \/ \E u \in Url : Redirects(l, u)
  \/ Shows
  \/ \E u \in Url : PageNavigates(u) \/ NavigatesWithinDocument(u)
  \/ \E g \in Goto : Continues(g) \/ \E u \in Url : CallsGoto(g, u)
  \/ \E w \in Wait : \/ TriggerTimesOut(w) \/ StableTimer(w)
                     \/ \E s \in WaitStatus : WaitForLoad(w, s)
                     \/ \E s \in WaitStatus, option \in SinceOption : WaitForLocation(w, s, option)

Spec == Init /\ [][Next]_vars

-----------------------------------------------------------------------------
(* Properties *)

Pending(w) == frame.triggers[w].listed /\ frame.triggers[w].state = "pending"
IsRestored == Top(frame) # 0 /\ frame.entries[Top(frame)].reason = "goForwardOrBack"

\* Chrome and the proxy have nothing more to report, and goto has no request under way.
Quiet ==
  /\ next = 0 /\ (doc # 0 => loads[doc].stage = "loaded")
  /\ \A l \in DOMAIN loads :
       IF loads[l].aborted THEN loads[l].stage \in {"failed", "dropped"}
       ELSE loads[l].stage # "sent" /\ loads[l].mitm /\ loads[l].finished
  /\ \A g \in Goto : ~goto[g].moves /\ goto[g].state # "sent"

\* The trigger of w has not missed its event: while it is pending, neither the navigation on top
\* nor the history fulfils it.
HasSeenAll(w) ==
  Pending(w) /\ Top(frame) # 0 /\ ~IsRestored => Refreshed(frame, frame.triggers[w]).state = "pending"

\* No wait misses its event, whichever method changed the history.  (Not so after a restore from
\* the back/forward cache, which sets the statuses without a 'status-change'.)
NoEventIsMissed == \A w \in Wait : HasSeenAll(w)

\* A wait for a load status does not hang on a page that is loaded: once all is quiet, a
\* trigger that is pending waits for a change of location, or its timer runs.
LoadWaitsEnd ==
  Quiet /\ doc # 0 /\ ~IsRestored => \A w \in Wait : Pending(w) =>
    frame.triggers[w].status \in LocationTrigger \/ frame.triggers[w].timer

\* The navigation whose resource another one follows, or itself.
SourceOf[n \in Entry] ==
  IF n # 0 /\ ResourceOf(n).kind = "follows" /\ ResourceOf(n).of < n
    THEN SourceOf[ResourceOf(n).of] ELSE n

\* Only its timer may end a goto whose request is aborted before its document is shown, whose
\* navigation's request failed unseen by the proxy, or that waits for a resource after another
\* goto was under way: their navigations are taken for each other.
AwaitsAborted(g) ==
  goto[g].awaits \in DOMAIN loads /\ loads[goto[g].awaits].aborted
AwaitsDropped(g) ==
  LET e == frame.entries[SourceOf[goto[g].entry]]
  IN  \E l \in DOMAIN loads : /\ loads[l].stage = "dropped" /\ e.request \in {None, l}
                              /\ Base[loads[l].url] = Base[e.requestedUrl]

Overlaps(g) == goto[g].during # {} \/ \E h \in Goto : g \in goto[h].during

\* A call of Page.goto is left to its timer in those cases only: once all is quiet, any other
\* call that waits for a loader finds its result, and one that waits for the resource of a
\* navigation finds it assigned, whatever was requested, redirected or moved meanwhile.
NoGotoIsStuck ==
  Quiet => \A g \in Goto :
    /\ goto[g].state = "loading" =>
         LoaderOf(goto[g].awaits).result # None \/ AwaitsAborted(g)
    /\ goto[g].state = "resource" =>
         ResourceOutcome[goto[g].entry] # "pending" \/ AwaitsDropped(g) \/ Overlaps(g)

\* Page.goto fails only if a request of this page was aborted: it takes neither the error of a
\* load that went well nor a promise that can only be rejected.
GotoFailsOnlyIfAborted ==
  (\E g \in Goto : goto[g].state = "failed") => \E l \in DOMAIN loads : loads[l].aborted

\* The history ends with the document shown: once all is quiet, the top navigation has the
\* address Chrome shows and all of its load statuses have been recorded for it.
TopIsShown ==
  Quiet /\ doc # 0 => /\ Base[CurrentUrl(frame)] = Base[docUrl]
                      /\ "AllContentLoaded" \in frame.entries[Top(frame)].statuses
=============================================================================
