-------------------------- MODULE RequestMatching --------------------------
(***************************************************************************)
(* What the browser and the proxy each know of a request, and how the two  *)
(* are told to be one.  NetworkManager turns the devtools events of a      *)
(* request id, which its redirects share, into events of the page;         *)
(* Resources matches these with the requests that reach the MITM, by url,  *)
(* headers and what was matched before, in a list of pending entries.      *)
(***************************************************************************)
EXTENDS Naturals, FiniteSets, SequencesExt

CONSTANTS
  Request,       \* browserRequestIds
  MaxHops,       \* bound: urls of one request
  None,
  Environments   \* urls of the requests and happenings: a behaviour has those of one of them

\* alike: the requests have the same headers.  insecure: they have none, as over http.
\* password: the proxy asks for one, so that Fetch pauses every request.  overlaps: a request
\* starts before the last one is over.  outruns: the proxy sees a request before its ExtraInfo is
\* handled.  late: ExtraInfo comes at any time, also after the timers.  typed: the MITM waits for
\* the resource type before it sends.  slow: the timer of 5 s fires though events of the request
\* are still to come.
Happenings == {"alike", "insecure", "password", "overlaps", "outruns", "late", "cached",
               "cancels", "errors", "typed", "slow", "closes"}

Hop == 1..MaxHops

ASSUME MatchingAssumption ==
  /\ MaxHops \in Nat \ {0}
  /\ None \notin Request \cup (Request \X Hop) \cup [hop : Nat, headers : BOOLEAN]
  /\ \A e \in Environments :
       /\ e.happens \subseteq Happenings
       /\ \A r \in Request : Len(e.url[r]) \in Hop /\ DOMAIN e.url[r] = 1..Len(e.url[r])

VARIABLES
  chrome,        \* of a request: the hop Chrome is at, what it has told of it
  requestsById, publishing, redirectsById,   \* of NetworkManager
  pending,       \* mitmRequestsPendingBrowserRequest
  dropping,      \* timers of onBrowserRequestFailed
  mitm,          \* the request of a hop in the proxy
  closed,        \* the proxy's session is closed
  emitted,       \* history: the events of a request's page
  environment

managerVars == <<requestsById, publishing, redirectsById>>
resourceVars == <<pending, dropping, mitm>>
vars == <<chrome, managerVars, resourceVars, closed, emitted, environment>>

Happens(x) == x \in environment.happens
Mitm == Request \X Hop
UrlAt(r, hop) == environment.url[r][hop]
\* secFetchDest, secFetchSite: unknown to the browser's events until ExtraInfo has come
HeadersOf(r, known) ==
  IF ~known \/ Happens("insecure") THEN None ELSE IF Happens("alike") THEN "same" ELSE r

\* In the events of a page, kind "will" and "was" are resource-will-be-requested and
\* resource-was-requested.
Event(kind, resource) == [kind |-> kind, hop |-> resource.hop, headers |-> resource.headers]

NoPublishing == [sentEvent |-> FALSE, published |-> FALSE, details |-> FALSE, timer |-> FALSE]

TypeOK ==
  /\ chrome \in [Request -> [hop : 0..MaxHops, sent : BOOLEAN, extra : BOOLEAN,
       paused : {"no", "continued", "done"}, received : BOOLEAN, over : BOOLEAN,
       cached : {"no", "disk", "memory"}, cacheTimer : BOOLEAN]]
  /\ requestsById \in [Request -> {None} \cup [hop : 0..MaxHops, headers : BOOLEAN]]
  /\ publishing \in [Request -> [DOMAIN NoPublishing -> BOOLEAN]]
  /\ \A r \in Request : redirectsById[r] \in Seq([hop : Hop, headers : BOOLEAN])
  /\ \A i \in DOMAIN pending :
       /\ pending[i].browser \in Request \cup {None} /\ pending[i].mitm \in Mitm \cup {None}
       /\ pending[i].wait \in {"open", "resolved", "rejected"}
       /\ pending[i].wait = "open" => pending[i].browser = None
       /\ pending[i].mitm = None => pending[i].wait = "resolved"
  /\ \A i, j \in DOMAIN pending : pending[i].mitm = pending[j].mitm /\ pending[i].mitm # None => i = j
  /\ dropping \subseteq Mitm /\ closed \in BOOLEAN
  /\ mitm \in [Mitm -> [progress : {"no", "arrived", "answered", "recorded", "failed"},
                        settled : BOOLEAN, joined : Request \cup {None}]]

Init ==
  /\ environment \in Environments
  /\ chrome = [r \in Request |-> [hop |-> 0, sent |-> FALSE, extra |-> FALSE, paused |-> "no",
                 received |-> FALSE, over |-> FALSE, cached |-> "no", cacheTimer |-> FALSE]]
  /\ requestsById = [r \in Request |-> None]
  /\ publishing = [r \in Request |-> NoPublishing]
  /\ redirectsById = [r \in Request |-> <<>>]
  /\ pending = <<>> /\ dropping = {} /\ closed = FALSE
  /\ mitm = [m \in Mitm |-> [progress |-> "no", settled |-> FALSE, joined |-> None]]
  /\ emitted = [r \in Request |-> <<>>]

-----------------------------------------------------------------------------
(* Resources: s is a record of pending, dropping and mitm. *)

Resources == [pending |-> pending, dropping |-> dropping, mitm |-> mitm]

\* browserHasRequested settles when the promise of its entry does, and takes its browser request id.
Settled(requests, entry) ==
  IF entry.mitm = None \/ entry.wait = "open" \/ requests[entry.mitm].settled THEN requests
  ELSE [requests EXCEPT ![entry.mitm].settled = TRUE,
          ![entry.mitm].joined = IF entry.wait = "resolved" THEN entry.browser ELSE None]
WithEntry(s, i, entry) ==
  [s EXCEPT !.pending = ReplaceAt(@, i, entry), !.mitm = Settled(@, entry)]

\* The position of findMatchingRequest's entry, 0 if there is none.  The pages of the model send
\* one referer: of several entries it takes the first.
FindByUrl(list, url, headers, browser, filter) ==
  SelectInSeq(list, LAMBDA x : x.url = url /\ (headers # None => x.headers = headers))
FindMatchingRequest(list, url, headers, browser, filter) ==
  SelectInSeq(list, LAMBDA x :
    /\ x.url = url
    /\ browser # None => x.browser \in {browser, None}
    /\ filter = "noMitmResourceId" => x.mitm = None
    /\ filter = "hasMitmResourceId" => x.mitm # None
    /\ headers # None => x.headers = headers)

UpdateUnresolved(s, i, r) == WithEntry(s, i, [s.pending[i] EXCEPT !.browser = r])
UpdatePendingResource(s, i, r) ==
  WithEntry(s, i, [s.pending[i] EXCEPT !.browser = r, !.wait = IF @ = "open" THEN "resolved" ELSE @])

\* What may come of an event.  An entry of the same id is left alone if it was resolved 5 s ago.
OnBrowserWillRequest(s, r, e) ==
  LET headers == HeadersOf(r, e.headers)
      i == FindMatchingRequest(s.pending, UrlAt(r, e.hop), headers, r, "any")
      queued == [s EXCEPT !.pending = Append(@, [url |-> UrlAt(r, e.hop), headers |-> headers,
                                                 browser |-> r, mitm |-> None, wait |-> "resolved"])]
  IN  IF i = 0 THEN {queued}
      ELSE {UpdatePendingResource(s, i, r)}
           \cup (IF s.pending[i].browser = r /\ s.pending[i].wait # "open" THEN {queued} ELSE {})

OfBrowser(list, r) == SelectInSeq(list, LAMBDA x : x.browser = r)

OnBrowserDidRequest(s, r, e) ==
  LET headers == HeadersOf(r, e.headers)
      own == OfBrowser(s.pending, r)
      known == IF own = 0 THEN s ELSE [s EXCEPT !.pending[own].headers = headers]
      i == FindMatchingRequest(known.pending, UrlAt(r, e.hop), headers, r, "hasMitmResourceId")
  IN  {IF i # 0 /\ known.pending[i].wait = "open" THEN UpdatePendingResource(known, i, r) ELSE known}

OnBrowserRequestFailed(s, r, e) ==
  LET own == OfBrowser(s.pending, r)
      i == IF own # 0 THEN own
           ELSE FindMatchingRequest(s.pending, UrlAt(r, e.hop), HeadersOf(r, e.headers), r,
                                    "hasMitmResourceId")
  IN  {IF i = 0 THEN s
       ELSE [UpdatePendingResource(s, i, r) EXCEPT !.dropping = @ \cup ({s.pending[i].mitm} \ {None})]}

OnEvent(s, r, e) ==
  CASE e.kind = "will" -> OnBrowserWillRequest(s, r, e)
    [] e.kind \in {"was", "loaded"} -> OnBrowserDidRequest(s, r, e)
    [] e.kind = "failed" -> OnBrowserRequestFailed(s, r, e)

Becomes(outcomes) ==
  \E s \in outcomes : pending' = s.pending /\ dropping' = s.dropping /\ mitm' = s.mitm

\* What the events of a request make of Resources, one after the other.
Outcomes(r, events) ==
  LET after[n \in 0..Len(events)] ==
        IF n = 0 THEN {Resources} ELSE UNION {OnEvent(s, r, events[n]) : s \in after[n - 1]}
  IN  after[Len(events)]

Emits(r, events) ==
  /\ emitted' = [emitted EXCEPT ![r] = @ \o events]
  /\ Becomes(Outcomes(r, events))

-----------------------------------------------------------------------------
(* NetworkManager *)

HasUrl(resource) == resource # None /\ resource.hop # 0

\* doEmitResourceRequested: what it emits, what it leaves
Publishes(resource, p) ==
  IF ~HasUrl(resource) THEN <<>>
  ELSE IF ~p.published THEN <<Event("will", resource)>>
  ELSE IF ~p.details THEN <<Event("was", resource)>>
  ELSE <<>>
Published(resource, p) ==
  IF HasUrl(resource) THEN [p EXCEPT !.timer = FALSE, !.published = TRUE, !.details = @ \/ p.published]
  ELSE p

DoEmitResourceRequested(r, resource, p) ==
  /\ Emits(r, Publishes(resource, p))
  /\ publishing' = [publishing EXCEPT ![r] = Published(resource, p)]

EmitResourceRequested(r, resource, p) ==
  IF p.timer /\ ~p.published THEN DoEmitResourceRequested(r, resource, p)
  ELSE /\ publishing' = [publishing EXCEPT ![r] = [p EXCEPT !.timer = TRUE]]
       /\ UNCHANGED <<resourceVars, emitted>>

RedirectedQuietly(p) == [p EXCEPT !.timer = FALSE]
\* The request of a new hop is a new resource: its URL objects are never the same.
Redirected(p) == [p EXCEPT !.published = FALSE, !.timer = FALSE]
OnRequestWillBeSent(r) ==
  LET existing == requestsById[r]
      hop == chrome[r].hop
      isNewRedirect == hop > 1 /\ existing # None
      resource == [hop |-> hop, headers |-> existing # None /\ ~isNewRedirect /\ existing.headers]
      p == [publishing[r] EXCEPT !.sentEvent = TRUE]
  IN  /\ hop # 0 /\ ~chrome[r].sent /\ ~chrome[r].over
      /\ chrome' = [chrome EXCEPT ![r].sent = TRUE]
      /\ requestsById' = [requestsById EXCEPT ![r] = resource]
      /\ redirectsById' = IF isNewRedirect THEN [redirectsById EXCEPT ![r] = Append(@, existing)]
                          ELSE redirectsById
      /\ EmitResourceRequested(r, resource, IF isNewRedirect THEN Redirected(p) ELSE p)
      /\ UNCHANGED <<closed, environment>>

OnExtraInfo(r) ==
  LET resource == IF requestsById[r] = None THEN [hop |-> 0, headers |-> TRUE]
                  ELSE [requestsById[r] EXCEPT !.headers = TRUE]
  IN  /\ chrome[r].hop # 0 /\ ~chrome[r].extra
      /\ Happens("late") \/ (chrome[r].sent /\ ~chrome[r].over)
      /\ Happens("password") => chrome[r].paused = "done"
      /\ chrome' = [chrome EXCEPT ![r].extra = TRUE]
      /\ requestsById' = [requestsById EXCEPT ![r] = resource]
      /\ IF publishing[r].sentEvent THEN DoEmitResourceRequested(r, resource, publishing[r])
         ELSE UNCHANGED <<publishing, resourceVars, emitted>>
      /\ UNCHANGED <<redirectsById, closed, environment>>

\* onRequestPaused up to its await, and after it: Chrome answers before it goes on.
OnRequestPaused(r) ==
  /\ Happens("password") /\ chrome[r].hop # 0 /\ chrome[r].paused = "no" /\ ~chrome[r].over
  /\ chrome[r].sent \/ (Happens("late") /\ chrome[r].hop = 1)
  /\ chrome' = [chrome EXCEPT ![r].paused = "continued"]
  /\ UNCHANGED <<managerVars, resourceVars, closed, emitted, environment>>

OnContinued(r) ==
  LET resource == IF requestsById[r] = None THEN [hop |-> chrome[r].hop, headers |-> FALSE]
                  ELSE requestsById[r]
  IN  /\ chrome[r].paused = "continued"
      /\ chrome' = [chrome EXCEPT ![r].paused = "done"]
      /\ requestsById' = [requestsById EXCEPT ![r] = resource]
      /\ EmitResourceRequested(r, resource, publishing[r])
      /\ UNCHANGED <<redirectsById, closed, environment>>

PublishTimer(r) ==
  /\ publishing[r].timer /\ HasUrl(requestsById[r])
  /\ Happens("late") \/ chrome[r].extra
  /\ DoEmitResourceRequested(r, requestsById[r], publishing[r])
  /\ UNCHANGED <<chrome, requestsById, redirectsById, closed, environment>>

Forget(r) ==
  /\ requestsById' = [requestsById EXCEPT ![r] = None]
  /\ publishing' = [publishing EXCEPT ![r] = NoPublishing]
  /\ redirectsById' = [redirectsById EXCEPT ![r] = <<>>]

EmitLoaded(r) ==
  LET resource == requestsById[r]
      p == publishing[r]
      first == IF ~p.published /\ p.timer THEN Publishes(resource, p) ELSE <<>>
      loaded == [i \in DOMAIN redirectsById[r] |-> Event("loaded", redirectsById[r][i])]
  IN  IF resource = None THEN UNCHANGED <<managerVars, resourceVars, emitted>>
      ELSE Emits(r, first \o loaded \o <<Event("loaded", resource)>>) /\ Forget(r)

Answered(r) ==
  \/ chrome[r].cached # "no"
  \/ mitm[<<r, chrome[r].hop>>].progress \in {"answered", "recorded", "failed"}

OnResponseReceived(r) ==
  LET resource == IF requestsById[r] # None /\ ~HasUrl(requestsById[r])
                  THEN [requestsById[r] EXCEPT !.hop = chrome[r].hop] ELSE requestsById[r]
  IN  /\ chrome[r].hop = Len(environment.url[r]) /\ Answered(r) /\ ~chrome[r].received /\ ~chrome[r].over
      /\ chrome[r].sent /\ (Happens("password") => chrome[r].paused = "done")
      /\ Happens("late") \/ chrome[r].extra
      /\ chrome' = [chrome EXCEPT ![r].received = TRUE]
      /\ requestsById' = [requestsById EXCEPT ![r] = resource]
      /\ IF HasUrl(resource) /\ ~publishing[r].published
         THEN DoEmitResourceRequested(r, resource, publishing[r])
         ELSE UNCHANGED <<publishing, resourceVars, emitted>>
      /\ UNCHANGED <<redirectsById, closed, environment>>

OnLoadingFinished(r) ==
  /\ chrome[r].received /\ ~chrome[r].over
  /\ chrome' = [chrome EXCEPT ![r].over = TRUE]
  /\ EmitLoaded(r)
  /\ UNCHANGED <<closed, environment>>

OnServedFromCache(r) ==
  /\ chrome[r].cached = "memory" /\ chrome[r].sent /\ ~chrome[r].cacheTimer /\ ~chrome[r].received
  /\ ~chrome[r].over /\ requestsById[r] # None
  /\ chrome' = [chrome EXCEPT ![r].cacheTimer = TRUE]
  /\ UNCHANGED <<managerVars, resourceVars, closed, emitted, environment>>

CacheTimer(r) ==
  /\ chrome[r].cacheTimer
  /\ chrome' = [chrome EXCEPT ![r].cacheTimer = FALSE]
  /\ EmitLoaded(r)
  /\ UNCHANGED <<closed, environment>>

OnLoadingFailed(r) ==
  LET resource == requestsById[r]
      p == publishing[r]
      first == IF ~p.published THEN Publishes(resource, p) ELSE <<>>
  IN  /\ chrome[r].sent /\ ~chrome[r].over
      /\ \/ Happens("cancels") \/ closed
         \/ mitm[<<r, chrome[r].hop>>].progress = "failed"
      /\ chrome' = [chrome EXCEPT ![r].over = TRUE]
      /\ IF HasUrl(resource) THEN Emits(r, first \o <<Event("failed", resource)>>) /\ Forget(r)
         ELSE UNCHANGED <<managerVars, resourceVars, emitted>>
      /\ UNCHANGED <<closed, environment>>

-----------------------------------------------------------------------------
(* The proxy *)

\* HeadersHandler.determineResourceType calls the one of Resources.
DetermineResourceType(r) ==
  LET m == <<r, chrome[r].hop>>
      url == UrlAt(r, chrome[r].hop)
      headers == HeadersOf(r, TRUE)
      i == FindMatchingRequest(pending, url, headers, None, "noMitmResourceId")
      list == IF i # 0 THEN pending
              ELSE Append(pending, [url |-> url, headers |-> headers, browser |-> None,
                                    mitm |-> None, wait |-> "open"])
      at == IF i # 0 THEN i ELSE Len(list)
  IN  /\ chrome[r].hop # 0 /\ chrome[r].cached = "no" /\ ~chrome[r].over /\ mitm[m].progress = "no" /\ ~closed
      /\ Happens("password") => chrome[r].paused # "no"
      /\ Happens("outruns") \/ chrome[r].extra
      /\ Becomes({WithEntry([Resources EXCEPT !.pending = list, !.mitm[m].progress = "arrived"], at,
                            [list[at] EXCEPT !.mitm = m])})
      /\ UNCHANGED <<chrome, managerVars, closed, emitted, environment>>

\* the response is written to the browser
Answer(m) ==
  /\ mitm[m].progress = "arrived" /\ (Happens("typed") => mitm[m].settled)
  /\ mitm' = [mitm EXCEPT ![m].progress = "answered"]
  /\ UNCHANGED <<chrome, managerVars, pending, dropping, closed, emitted, environment>>

RequestIsResolvedLater(m) ==
  pending' = LET i == SelectInSeq(pending, LAMBDA x : x.mitm = m)
             IN  IF i <= 1 THEN pending ELSE RemoveAt(pending, i)
RequestIsResolved(m) ==
  pending' = LET i == SelectInSeq(pending, LAMBDA x : x.mitm = m)
             IN  IF i = 0 THEN pending ELSE RemoveAt(pending, i)

\* writeResponse goes on, when it knows the browser's request, with the event 'response'.
OnMitmResponse(m) ==
  /\ mitm[m].progress = "answered" /\ mitm[m].settled
  /\ mitm' = [mitm EXCEPT ![m].progress = "recorded"]
  /\ RequestIsResolved(m)
  /\ UNCHANGED <<chrome, managerVars, dropping, closed, emitted, environment>>

OnMitmError(m) ==
  /\ Happens("errors") /\ mitm[m].progress \in {"arrived", "answered"}
  /\ mitm' = [mitm EXCEPT ![m].progress = "failed"]
  /\ UNCHANGED <<chrome, managerVars, pending, dropping, closed, emitted, environment>>

FailedTimer(m) ==
  /\ m \in dropping
  /\ dropping' = dropping \ {m}
  /\ RequestIsResolved(m)
  /\ UNCHANGED <<chrome, managerVars, mitm, closed, emitted, environment>>

\* What Chrome tells of the request of an entry takes less than the 5 s of its promise.
IsTold(m) ==
  \/ chrome[m[1]].over \/ chrome[m[1]].hop # m[2]
  \/ /\ chrome[m[1]].sent /\ chrome[m[1]].extra /\ ~publishing[m[1]].timer
     /\ Happens("password") => chrome[m[1]].paused = "done"
PendingTimer(m) ==
  \E i \in DOMAIN pending :
    /\ pending[i].mitm = m /\ pending[i].wait = "open" /\ (Happens("slow") \/ IsTold(m))
    /\ Becomes({WithEntry(Resources, i, [pending[i] EXCEPT !.wait = "rejected"])})
    /\ UNCHANGED <<chrome, managerVars, closed, emitted, environment>>

CancelPending ==
  /\ Happens("closes") /\ ~closed /\ closed' = TRUE
  /\ mitm' = [m \in Mitm |-> [mitm[m] EXCEPT !.settled =
                @ \/ \E i \in DOMAIN pending : pending[i].mitm = m /\ pending[i].wait = "open"]]
  /\ pending' = <<>>
  /\ UNCHANGED <<chrome, managerVars, dropping, emitted, environment>>

-----------------------------------------------------------------------------
(* Chrome *)

\* Chrome has no ExtraInfo for what is in its cache, and does not pause what is in its memory.
Issue(r) ==
  /\ chrome[r].hop = 0
  /\ Happens("overlaps") \/ \A q \in Request : chrome[q].hop # 0 => chrome[q].over
  /\ \E cached \in IF Happens("cached") THEN {"no", "disk", "memory"} ELSE {"no"} :
       chrome' = [chrome EXCEPT ![r].hop = 1, ![r].cached = cached,
                                ![r].extra = cached # "no",
                                ![r].paused = IF cached = "memory" THEN "done" ELSE "no"]
  /\ UNCHANGED <<managerVars, resourceVars, closed, emitted, environment>>

FollowsRedirect(r) ==
  /\ chrome[r].hop \in 1..Len(environment.url[r]) - 1 /\ Answered(r) /\ ~chrome[r].over
  /\ chrome[r].sent /\ (Happens("password") => chrome[r].paused = "done")
  /\ Happens("late") \/ chrome[r].extra
  /\ chrome' = [chrome EXCEPT ![r].hop = @ + 1, ![r].sent = FALSE,
                              ![r].extra = chrome[r].cached # "no",
                              ![r].paused = IF chrome[r].cached = "memory" THEN "done" ELSE "no"]
  /\ UNCHANGED <<managerVars, resourceVars, closed, emitted, environment>>

Devtools(r) ==
  \/ Issue(r) \/ FollowsRedirect(r) \/ OnRequestWillBeSent(r) \/ OnExtraInfo(r)
  \/ OnRequestPaused(r) \/ OnContinued(r) \/ OnResponseReceived(r) \/ OnLoadingFinished(r)
Timers ==
  \/ \E r \in Request : PublishTimer(r) \/ CacheTimer(r)
  \/ \E m \in Mitm : FailedTimer(m) \/ PendingTimer(m)
Proxy ==
  \/ \E r \in Request : DetermineResourceType(r)
  \/ \E m \in Mitm : Answer(m) \/ OnMitmResponse(m)
Faults ==
  \/ \E r \in Request : OnLoadingFailed(r) \/ OnServedFromCache(r)
  \/ \E m \in Mitm : OnMitmError(m)
  \/ CancelPending

Progress == Proxy \/ (\E r \in Request : Devtools(r)) \/ Timers
Next == Progress \/ Faults

Spec == Init /\ [][Next]_vars
\* Chrome goes on, timers fire, the servers answer; what may fail need not.
FairSpec == Spec /\ WF_vars(Progress)

-----------------------------------------------------------------------------
(* Properties *)

\* What a page is told of a request comes in order: each hop is announced once, before anything
\* else is told of it, whatever the order of the devtools events and timers; only a hop that was
\* redirected before it could be announced is just reported as loaded.
EventsInOrder ==
  \A r \in Request : \A i \in DOMAIN emitted[r] :
    LET e == emitted[r][i]
        announced == \E j \in 1..i-1 : emitted[r][j].kind = "will" /\ emitted[r][j].hop = e.hop
    IN  IF e.kind = "will" THEN ~announced
        ELSE announced \/ (e.kind = "loaded" /\ e.hop < chrome[r].hop)

\* Where nothing fails, is cached or comes late, requests that run side by side differ in their
\* headers, redirects lead elsewhere, and a proxy with a password redirects none and sees a
\* request after its ExtraInfo.
Plain ==
  /\ environment.happens \cap {"late", "cached", "cancels", "errors", "slow", "closes"} = {}
  /\ Happens("overlaps") => ~Happens("alike") /\ ~Happens("insecure")
  /\ Happens("password") => ~Happens("outruns") /\ \A r \in Request : Len(environment.url[r]) = 1
  /\ \A r \in Request : IsInjective(environment.url[r])

\* Under Plain, so with no failure and no two alike requests at once, every response of the proxy is
\* recorded with the id of the browser's request that caused it, though earlier ones of its url may
\* still be listed and either side may come first: no wait for the browser runs out.
JoinedWithItsOwn == Plain => \A m \in Mitm : mitm[m].progress = "recorded" => mitm[m].joined = m[1]

\* Nothing stays in the list of pending entries, where it would meet the requests to come.
CollectedInTheEnd == Plain => <>[](pending = <<>>)
=============================================================================
