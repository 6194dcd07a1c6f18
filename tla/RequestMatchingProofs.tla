----------------------- MODULE RequestMatchingProofs -----------------------
(***************************************************************************)
(* Proofs about RequestMatching, for any requests, urls and happenings:    *)
(* NetworkManager tells a page of each hop of a request once and in order, *)
(* the list of Resources stays well formed, and where nothing fails, is    *)
(* cached or comes late, a response is recorded for the request that       *)
(* caused it.                                                              *)
(***************************************************************************)
EXTENDS RequestMatching, SequenceTheorems, WellFoundedInduction, TLAPS

\* A request in requestsById and redirectsById, a page's event.
Listed == [hop : Nat, headers : BOOLEAN]
PageEvent == [kind : {"will", "was", "loaded", "failed"}, hop : Nat, headers : BOOLEAN]
ChromeRequest ==
  [hop : Nat, sent : BOOLEAN, extra : BOOLEAN, paused : {"no", "continued", "done"},
   received : BOOLEAN, over : BOOLEAN, cached : {"no", "disk", "memory"}, cacheTimer : BOOLEAN]
Publishing == [sentEvent : BOOLEAN, published : BOOLEAN, details : BOOLEAN, timer : BOOLEAN]

\* Page events m announce a hop.
Announced(m, hop) == \E i \in DOMAIN m : m[i].kind = "will" /\ m[i].hop = hop
Before(m, i, hop) == \E j \in 1..i-1 : m[j].kind = "will" /\ m[j].hop = hop
Ordered(m, hop) ==
  \A i \in DOMAIN m : IF m[i].kind = "will" THEN ~Before(m, i, m[i].hop)
                      ELSE Before(m, i, m[i].hop) \/ (m[i].kind = "loaded" /\ m[i].hop < hop)

\* The state c of a request in Chrome: what it does in which order.
ChromeOk(c) ==
  /\ c.hop = 0 => ~c.sent /\ ~c.received /\ ~c.cacheTimer
  /\ c.hop # 0 /\ c.cached # "no" => c.extra
  /\ c.hop # 0 /\ c.cached = "memory" => c.paused = "done"
  /\ c.cacheTimer => c.cached = "memory" /\ (c.sent \/ c.hop > 1)
  /\ c.paused = "continued" => ~c.over /\ c.hop # 0 /\ (c.sent \/ c.hop = 1)

\* Its entry q in requestsById: a hop once sent is listed until it is over, or until the
\* timer of the memory cache; only a request without url is listed after its end.
EntryOk(c, q) ==
  /\ q # None => q.hop <= c.hop /\ (~c.sent /\ c.hop > 1 => q.hop < c.hop)
  /\ c.sent /\ ~c.over => IF q = None THEN c.cached = "memory" ELSE q.hop # 0
  /\ c.over => ~HasUrl(q)

\* Its publishing p: isPublished says that the listed hop was announced, a timer that it will be;
\* a hop is announced before it is sent only as the listed one.
AnnouncedOk(c, q, p, m) ==
  /\ HasUrl(q) => (p.published <=> Announced(m, q.hop))
  /\ ~HasUrl(q) => ~p.published
  /\ Announced(m, c.hop) /\ ~c.sent /\ ~c.over => HasUrl(q) /\ q.hop = c.hop
WillPublish(c, q, p) == HasUrl(q) /\ ~p.published => p.timer \/ q.hop < c.hop
PublishingOk(c, q, p, m) == AnnouncedOk(c, q, p, m) /\ WillPublish(c, q, p)

\* The events m of its page, and its hops d in redirectsById.
EventsOk(c, d, m) ==
  /\ Ordered(m, c.hop)
  /\ \A hop \in Nat : Announced(m, hop) => hop # 0 /\ hop <= c.hop
  /\ \A i \in DOMAIN d : d[i].hop < c.hop

TypesOk ==
  /\ chrome \in [Request -> ChromeRequest]
  /\ requestsById \in [Request -> {None} \cup Listed]
  /\ publishing \in [Request -> Publishing]
  /\ redirectsById \in [Request -> Seq(Listed)]
  /\ emitted \in [Request -> Seq(PageEvent)]
  /\ environment \in Environments

RequestOk(c, q, p, d, m) ==
  ChromeOk(c) /\ EntryOk(c, q) /\ PublishingOk(c, q, p, m) /\ EventsOk(c, d, m)

IInv ==
  /\ TypesOk
  /\ \A r \in Request :
       RequestOk(chrome[r], requestsById[r], publishing[r], redirectsById[r], emitted[r])

-----------------------------------------------------------------------------
\* The events of a page (m) and what one more event changes.

\* No entry of requestsById is None.
LEMMA ListedIsSome == None \notin Listed
  BY MatchingAssumption DEF Listed

\* One more event that may be told leaves the events in order.
LEMMA OneMore ==
  ASSUME NEW m \in Seq(PageEvent), NEW e \in PageEvent, NEW n \in Nat, Ordered(m, n),
         e.kind = "will" => ~Announced(m, e.hop),
         e.kind # "will" => Announced(m, e.hop) \/ (e.kind = "loaded" /\ e.hop < n)
  PROVE  /\ m \o <<e>> \in Seq(PageEvent) /\ Ordered(m \o <<e>>, n)
         /\ \A hop \in Nat : Announced(m \o <<e>>, hop) <=>
                                Announced(m, hop) \/ (e.kind = "will" /\ e.hop = hop)
  <1>0. <<e>> \in Seq(PageEvent) /\ Len(<<e>>) = 1 /\ <<e>>[1] = e
    OBVIOUS
  <1> PICK k \in Nat : k = Len(m)
    OBVIOUS
  <1> PICK l \in Seq(PageEvent) : l = m \o <<e>>
    BY <1>0, ConcatProperties
  <1>1. /\ Len(l) = k + 1 /\ DOMAIN l = 1..k+1 /\ DOMAIN m = 1..k /\ l[k+1] = e
        /\ \A i \in 1..k : l[i] = m[i]
    BY <1>0, ConcatProperties
  <1>2. \A i \in 1..k, hop \in Nat : Before(l, i, hop) <=> Before(m, i, hop)
    BY <1>1 DEF Before
  <1>3. \A hop \in Nat : Before(l, k+1, hop) <=> Announced(m, hop)
    BY <1>1 DEF Before, Announced
  <1>4. \A i \in 1..k : m[i].hop \in Nat
    <2>1. \A i \in 1..k : m[i] \in PageEvent
      BY <1>1
    <2> QED BY <2>1 DEF PageEvent
  <1>5. e.hop \in Nat
    BY DEF PageEvent
  <1>6. Ordered(l, n)
    <2>1. ASSUME NEW i \in 1..k
          PROVE  IF l[i].kind = "will" THEN ~Before(l, i, l[i].hop)
                 ELSE Before(l, i, l[i].hop) \/ (l[i].kind = "loaded" /\ l[i].hop < n)
      BY <1>1, <1>2, <1>4 DEF Ordered
    <2>2. IF l[k+1].kind = "will" THEN ~Before(l, k+1, l[k+1].hop)
          ELSE Before(l, k+1, l[k+1].hop) \/ (l[k+1].kind = "loaded" /\ l[k+1].hop < n)
      BY <1>1, <1>3, <1>5
    <2>3. \A i \in DOMAIN l : i \in 1..k \/ i = k+1
      BY <1>1
    <2> QED BY <2>1, <2>2, <2>3 DEF Ordered
  <1>7. ASSUME NEW hop \in Nat
        PROVE  Announced(l, hop) <=> Announced(m, hop) \/ (e.kind = "will" /\ e.hop = hop)
    <2>1. Announced(l, hop) => Announced(m, hop) \/ (e.kind = "will" /\ e.hop = hop)
      BY <1>1 DEF Announced
    <2>2. Announced(m, hop) => Announced(l, hop)
      BY <1>1 DEF Announced
    <2>3. e.kind = "will" /\ e.hop = hop => Announced(l, hop)
      BY <1>1 DEF Announced
    <2> QED BY <2>1, <2>2, <2>3
  <1> QED BY <1>6, <1>7

\* The hops that were redirected may be reported as loaded, whether announced or not.
LEMMA MoreLoaded ==
  ASSUME NEW m \in Seq(PageEvent), NEW l \in Seq(PageEvent), NEW n \in Nat, Ordered(m, n),
         \A i \in DOMAIN l : l[i].kind = "loaded" /\ l[i].hop < n
  PROVE  /\ m \o l \in Seq(PageEvent) /\ Ordered(m \o l, n)
         /\ \A hop \in Nat : Announced(m \o l, hop) <=> Announced(m, hop)
  <1> PICK k \in Nat : k = Len(m)
    OBVIOUS
  <1> PICK j \in Nat : j = Len(l)
    OBVIOUS
  <1> PICK a \in Seq(PageEvent) : a = m \o l
    BY ConcatProperties
  <1>1. /\ Len(a) = k + j /\ DOMAIN a = 1..k+j /\ DOMAIN m = 1..k /\ DOMAIN l = 1..j
        /\ \A i \in 1..k : a[i] = m[i]
    BY ConcatProperties
  <1>2. \A i \in 1..k+j : i > k => a[i].kind = "loaded" /\ a[i].hop < n
    <2>1. \A i \in 1..k+j : i > k => a[i] = l[i - k] /\ i - k \in DOMAIN l
      BY <1>1, ConcatProperties
    <2> QED BY <2>1
  <1>3. \A i \in 1..k, hop \in Nat : Before(a, i, hop) <=> Before(m, i, hop)
    BY <1>1 DEF Before
  <1>4. \A i \in 1..k : m[i].hop \in Nat
    <2>1. \A i \in 1..k : m[i] \in PageEvent
      BY <1>1
    <2> QED BY <2>1 DEF PageEvent
  <1>5. Ordered(a, n)
    <2>1. ASSUME NEW i \in 1..k
          PROVE  IF a[i].kind = "will" THEN ~Before(a, i, a[i].hop)
                 ELSE Before(a, i, a[i].hop) \/ (a[i].kind = "loaded" /\ a[i].hop < n)
      BY <1>1, <1>3, <1>4 DEF Ordered
    <2>2. \A i \in 1..k+j : i > k => a[i].kind # "will" /\ a[i].kind = "loaded" /\ a[i].hop < n
      BY <1>2
    <2>3. \A i \in DOMAIN a : i \in 1..k \/ (i \in 1..k+j /\ i > k)
      BY <1>1
    <2> QED BY <2>1, <2>2, <2>3 DEF Ordered
  <1>6. ASSUME NEW hop \in Nat
        PROVE  Announced(a, hop) <=> Announced(m, hop)
    <2>1. Announced(m, hop) => Announced(a, hop)
      BY <1>1 DEF Announced
    <2>2. ASSUME NEW i \in DOMAIN a, a[i].kind = "will"
          PROVE  i \in 1..k
      BY <1>1, <1>2, <2>2
    <2>3. Announced(a, hop) => Announced(m, hop)
      BY <1>1, <2>2 DEF Announced
    <2> QED BY <2>1, <2>3
  <1> QED BY <1>5, <1>6

\* The order in which events are put together does not matter.
LEMMA Associative == \A s, t, u \in Seq(PageEvent) : (s \o t) \o u = s \o (t \o u)
  BY ConcatAssociative

Cat(s, t) == s \o t

\* Nor of four.
LEMMA Concats ==
  ASSUME NEW x \in Seq(PageEvent)
  PROVE  \A s, t, u \in Seq(PageEvent) : s \o (t \o u \o x) = ((s \o t) \o u) \o x
  <1>1. \A s, t \in Seq(PageEvent) : Cat(s, t) \in Seq(PageEvent)
    BY ConcatProperties DEF Cat
  <1>2. \A s, t, u \in Seq(PageEvent) : Cat(Cat(s, t), u) = Cat(s, Cat(t, u))
    BY Associative, Zenon DEF Cat
  <1>3. \A s, t, u \in Seq(PageEvent) : Cat(s, Cat(Cat(t, u), x)) = Cat(Cat(Cat(s, t), u), x)
    BY <1>1, <1>2
  <1> QED BY ONLY <1>3, Zenon DEF Cat

\* doEmitResourceRequested announces the hop of a listed request, if nothing has, else it
\* tells more of it.
LEMMA PublishesInOrder ==
  ASSUME NEW m \in Seq(PageEvent), NEW q \in {None} \cup Listed, NEW p \in Publishing, NEW n \in Nat,
         Ordered(m, n), HasUrl(q) => (p.published <=> Announced(m, q.hop))
  PROVE  /\ m \o Publishes(q, p) \in Seq(PageEvent) /\ Ordered(m \o Publishes(q, p), n)
         /\ Published(q, p) \in Publishing
         /\ HasUrl(q) => Published(q, p).published
         /\ ~HasUrl(q) => Published(q, p) = p
         /\ \A hop \in Nat : Announced(m \o Publishes(q, p), hop) <=>
                                Announced(m, hop) \/ (HasUrl(q) /\ q.hop = hop)
  <1>1. HasUrl(q) => q \in Listed
    BY DEF HasUrl
  <1>2. /\ Published(q, p) \in Publishing
        /\ HasUrl(q) => Published(q, p).published
        /\ ~HasUrl(q) => Published(q, p) = p
    BY DEF Published, Publishing
  <1>3. CASE ~HasUrl(q) \/ (p.published /\ p.details)
    <2>1. Publishes(q, p) = <<>>
      BY <1>3 DEF Publishes
    <2>2. m \o Publishes(q, p) = m
      BY <2>1, ConcatEmptySeq
    <2>3. HasUrl(q) => Announced(m, q.hop)
      BY <1>3
    <2> QED BY <1>2, <2>2, <2>3
  <1>4. CASE HasUrl(q) /\ ~p.published
    <2> PICK e \in PageEvent : e = Event("will", q)
      BY <1>1, <1>4 DEF Event, Listed, PageEvent
    <2>1. e.kind = "will" /\ e.hop = q.hop
      BY DEF Event
    <2>2. Publishes(q, p) = <<e>>
      BY <1>4 DEF Publishes
    <2>3. ~Announced(m, e.hop)
      BY <1>4, <2>1
    <2>4. /\ m \o <<e>> \in Seq(PageEvent) /\ Ordered(m \o <<e>>, n)
          /\ \A hop \in Nat : Announced(m \o <<e>>, hop) <=>
                                Announced(m, hop) \/ (e.kind = "will" /\ e.hop = hop)
      BY <2>1, <2>3, OneMore
    <2> QED BY <1>2, <1>4, <2>1, <2>2, <2>4
  <1>5. CASE HasUrl(q) /\ p.published /\ ~p.details
    <2> PICK e \in PageEvent : e = Event("was", q)
      BY <1>1, <1>5 DEF Event, Listed, PageEvent
    <2>1. e.kind = "was" /\ e.hop = q.hop
      BY DEF Event
    <2>2. Publishes(q, p) = <<e>>
      BY <1>5 DEF Publishes
    <2>3. Announced(m, e.hop)
      BY <1>5, <2>1
    <2>4. /\ m \o <<e>> \in Seq(PageEvent) /\ Ordered(m \o <<e>>, n)
          /\ \A hop \in Nat : Announced(m \o <<e>>, hop) <=>
                                Announced(m, hop) \/ (e.kind = "will" /\ e.hop = hop)
      BY <2>1, <2>3, OneMore
    <2> QED BY <1>2, <1>5, <2>1, <2>2, <2>3, <2>4
  <1> QED BY <1>3, <1>4, <1>5

\* What emitLoaded tells of a request q with its publishing p and its redirects d.
LoadedRedirects(d) == [i \in DOMAIN d |-> Event("loaded", d[i])]
Loads(q, p, d) ==
  (IF ~p.published /\ p.timer THEN Publishes(q, p) ELSE <<>>)
    \o LoadedRedirects(d) \o <<Event("loaded", q)>>

\* emitLoaded reports what it announced, or what was redirected before.
LEMMA LoadsInOrder ==
  ASSUME NEW m \in Seq(PageEvent), NEW q \in Listed, NEW p \in Publishing, NEW d \in Seq(Listed),
         NEW n \in Nat, Ordered(m, n), HasUrl(q) => (p.published <=> Announced(m, q.hop)),
         \A i \in DOMAIN d : d[i].hop < n,
         (~HasUrl(q) \/ (~p.published /\ ~p.timer)) => q.hop < n
  PROVE  /\ m \o Loads(q, p, d) \in Seq(PageEvent) /\ Ordered(m \o Loads(q, p, d), n)
         /\ \A hop \in Nat : Announced(m \o Loads(q, p, d), hop) =>
                                Announced(m, hop) \/ (HasUrl(q) /\ hop = q.hop)
  <1> PICK f, l : /\ f = IF ~p.published /\ p.timer THEN Publishes(q, p) ELSE <<>>
                  /\ l = LoadedRedirects(d)
    OBVIOUS
  <1> PICK e \in PageEvent : e = Event("loaded", q)
    BY DEF Event, Listed, PageEvent
  <1>a. e.kind = "loaded" /\ e.hop = q.hop
    BY DEF Event
  <1>1. f \in Seq(PageEvent)
    <2>1. q # None /\ Event("will", q) \in PageEvent /\ Event("was", q) \in PageEvent
      BY ListedIsSome DEF Event, Listed, PageEvent
    <2> QED BY <2>1 DEF Publishes
  <1>2. l \in Seq(PageEvent) /\ \A i \in DOMAIN l : l[i].kind = "loaded" /\ l[i].hop < n
    <2> PICK k \in Nat : k = Len(d)
      OBVIOUS
    <2>1. DOMAIN d = 1..k /\ \A i \in 1..k : d[i] \in Listed
      OBVIOUS
    <2>2. \A i \in 1..k : Event("loaded", d[i]) \in PageEvent /\ Event("loaded", d[i]).kind = "loaded"
                          /\ Event("loaded", d[i]).hop = d[i].hop
      BY <2>1 DEF Event, Listed, PageEvent
    <2>3. l = [i \in 1..k |-> Event("loaded", d[i])]
      BY <2>1 DEF LoadedRedirects
    <2>4. l \in [1..k -> PageEvent]
      BY <2>2, <2>3
    <2>5. l \in Seq(PageEvent)
      BY <2>4
    <2> QED BY <2>1, <2>2, <2>3, <2>5
  <1>3. m \o (f \o l \o <<e>>) = ((m \o f) \o l) \o <<e>>
    <2>1. PICK x \in Seq(PageEvent) : x = <<e>>
      <3>1. <<e>> \in Seq(PageEvent)
        OBVIOUS
      <3> QED BY <3>1, Zenon
    <2>2. \A s, t, u \in Seq(PageEvent) : s \o (t \o u \o x) = ((s \o t) \o u) \o x
      BY Concats, Zenon
    <2>3. m \o (f \o l \o x) = ((m \o f) \o l) \o x
      <3>1. m \in Seq(PageEvent) /\ f \in Seq(PageEvent) /\ l \in Seq(PageEvent)
        BY <1>1, <1>2
      <3> QED BY ONLY <2>2, <3>1, Zenon
    <2> QED BY ONLY <2>1, <2>3, Zenon
  <1> PICK m1 : m1 = m \o f
    OBVIOUS
  <1>4. /\ m1 \in Seq(PageEvent) /\ Ordered(m1, n)
        /\ \A hop \in Nat : Announced(m1, hop) <=>
             Announced(m, hop) \/ (HasUrl(q) /\ q.hop = hop /\ ~p.published /\ p.timer)
    <2>1. CASE ~p.published /\ p.timer
      BY <2>1, PublishesInOrder
    <2>2. CASE p.published \/ ~p.timer
      <3>1. f = <<>> /\ m1 = m
        BY <2>2, ConcatEmptySeq
      <3> QED BY <2>2, <3>1
    <2> QED BY <2>1, <2>2
  <1> PICK m2 : m2 = m1 \o l
    OBVIOUS
  <1>5. /\ m2 \in Seq(PageEvent) /\ Ordered(m2, n)
        /\ \A hop \in Nat : Announced(m2, hop) <=> Announced(m1, hop)
    BY <1>2, <1>4, MoreLoaded
  <1>6. Announced(m2, e.hop) \/ e.hop < n
    <2>1. q.hop \in Nat
      BY DEF Listed
    <2> QED BY <1>a, <1>4, <1>5, <2>1
  <1>7. /\ m2 \o <<e>> \in Seq(PageEvent) /\ Ordered(m2 \o <<e>>, n)
        /\ \A hop \in Nat : Announced(m2 \o <<e>>, hop) <=>
                                Announced(m2, hop) \/ (e.kind = "will" /\ e.hop = hop)
    BY <1>a, <1>5, <1>6, OneMore
  <1>8. m \o Loads(q, p, d) = m2 \o <<e>>
    BY <1>3 DEF Loads
  <1>9. \A hop \in Nat : Announced(m2 \o <<e>>, hop) => Announced(m, hop) \/ (HasUrl(q) /\ hop = q.hop)
    BY <1>a, <1>4, <1>5, <1>7
  <1> QED BY <1>7, <1>8, <1>9

Fails(q, p) == (IF ~p.published THEN Publishes(q, p) ELSE <<>>) \o <<Event("failed", q)>>

\* A failure is reported after the announcement.
LEMMA FailsInOrder ==
  ASSUME NEW m \in Seq(PageEvent), NEW q \in {None} \cup Listed, NEW p \in Publishing, NEW n \in Nat,
         HasUrl(q), Ordered(m, n), p.published <=> Announced(m, q.hop)
  PROVE  /\ m \o Fails(q, p) \in Seq(PageEvent) /\ Ordered(m \o Fails(q, p), n)
         /\ \A hop \in Nat : Announced(m \o Fails(q, p), hop) => Announced(m, hop) \/ hop = q.hop
  <1> PICK f : f = IF ~p.published THEN Publishes(q, p) ELSE <<>>
    OBVIOUS
  <1>0. q \in Listed
    BY DEF HasUrl
  <1> PICK e \in PageEvent : e = Event("failed", q)
    BY <1>0 DEF Event, Listed, PageEvent
  <1>a. e.kind = "failed" /\ e.hop = q.hop
    BY DEF Event
  <1>1. f \in Seq(PageEvent)
    <2>1. Event("will", q) \in PageEvent /\ Event("was", q) \in PageEvent
      BY <1>0 DEF Event, Listed, PageEvent
    <2> QED BY <2>1 DEF Publishes
  <1>2. m \o (f \o <<e>>) = (m \o f) \o <<e>>
    <2>1. <<e>> \in Seq(PageEvent)
      OBVIOUS
    <2>2. PICK a, b \in Seq(PageEvent) : a = f /\ b = <<e>>
      BY <1>1, <2>1, Zenon
    <2>3. (m \o a) \o b = m \o (a \o b)
      BY Associative, Zenon
    <2> QED BY ONLY <2>2, <2>3, Zenon
  <1> PICK m1 : m1 = m \o f
    OBVIOUS
  <1>3. /\ m1 \in Seq(PageEvent) /\ Ordered(m1, n)
        /\ \A hop \in Nat : Announced(m1, hop) <=> Announced(m, hop) \/ q.hop = hop
    <2>0. q.hop \in Nat
      BY <1>0 DEF Listed
    <2>1. CASE ~p.published
      BY <2>1, PublishesInOrder
    <2>2. CASE p.published
      <3>1. f = <<>> /\ m1 = m
        BY <2>2, ConcatEmptySeq
      <3> QED BY <2>0, <2>2, <3>1
    <2> QED BY <2>1, <2>2
  <1>4. Announced(m1, e.hop)
    BY <1>0, <1>a, <1>3 DEF Listed
  <1>5. /\ m1 \o <<e>> \in Seq(PageEvent) /\ Ordered(m1 \o <<e>>, n)
        /\ \A hop \in Nat : Announced(m1 \o <<e>>, hop) <=>
                                Announced(m1, hop) \/ (e.kind = "will" /\ e.hop = hop)
    BY <1>a, <1>3, <1>4, OneMore
  <1>6. m \o Fails(q, p) = m1 \o <<e>>
    BY <1>2 DEF Fails
  <1> QED BY <1>a, <1>3, <1>5, <1>6

-----------------------------------------------------------------------------
\* A step of one request.

\* What a step must show: what becomes of the one request it changes.
LEMMA Changed ==
  ASSUME IInv, NEW r \in Request, NEW c \in ChromeRequest, NEW q \in {None} \cup Listed,
         NEW p \in Publishing, NEW d \in Seq(Listed), NEW m \in Seq(PageEvent),
         chrome' = [chrome EXCEPT ![r] = c], requestsById' = [requestsById EXCEPT ![r] = q],
         publishing' = [publishing EXCEPT ![r] = p],
         redirectsById' = [redirectsById EXCEPT ![r] = d],
         emitted' = [emitted EXCEPT ![r] = m], environment' = environment,
         RequestOk(c, q, p, d, m)
  PROVE  IInv'
  <1>1. TypesOk'
    BY DEF IInv, TypesOk
  <1>2. ASSUME NEW x \in Request
        PROVE  RequestOk(chrome[x], requestsById[x], publishing[x], redirectsById[x], emitted[x])'
    <2>1. CASE x = r
      <3>1. /\ chrome'[x] = c /\ requestsById'[x] = q /\ publishing'[x] = p
            /\ redirectsById'[x] = d /\ emitted'[x] = m
        BY <2>1 DEF IInv, TypesOk
      <3> QED BY <3>1
    <2>2. CASE x # r
      <3>1. /\ chrome'[x] = chrome[x] /\ requestsById'[x] = requestsById[x]
            /\ publishing'[x] = publishing[x]
            /\ redirectsById'[x] = redirectsById[x] /\ emitted'[x] = emitted[x]
        BY <2>2 DEF IInv, TypesOk
      <3>2. RequestOk(chrome[x], requestsById[x], publishing[x], redirectsById[x], emitted[x])
        BY DEF IInv
      <3> QED BY <3>1, <3>2
    <2> QED BY <2>1, <2>2
  <1> QED BY <1>1, <1>2 DEF IInv

\* A request's variables have their types, and nothing changes in EXCEPT ![r] = what it was.
LEMMA Types ==
  ASSUME IInv, NEW r \in Request
  PROVE  /\ chrome[r] \in ChromeRequest /\ requestsById[r] \in {None} \cup Listed
         /\ publishing[r] \in Publishing
         /\ redirectsById[r] \in Seq(Listed) /\ emitted[r] \in Seq(PageEvent)
         /\ RequestOk(chrome[r], requestsById[r], publishing[r], redirectsById[r], emitted[r])
         /\ chrome = [chrome EXCEPT ![r] = chrome[r]]
         /\ requestsById = [requestsById EXCEPT ![r] = requestsById[r]]
         /\ publishing = [publishing EXCEPT ![r] = publishing[r]]
         /\ redirectsById = [redirectsById EXCEPT ![r] = redirectsById[r]]
         /\ emitted = [emitted EXCEPT ![r] = emitted[r]]
  BY DEF IInv, TypesOk

\* Steps that do not change what NetworkManager and Chrome know of the requests.
LEMMA Aside ==
  ASSUME IInv, UNCHANGED <<chrome, managerVars, emitted, environment>>
  PROVE  IInv'
  BY DEF IInv, TypesOk, managerVars

\* Steps of Chrome alone: c is what becomes of its request.
LEMMA ChromeStep ==
  ASSUME IInv, NEW r \in Request, NEW c \in ChromeRequest,
         chrome' = [chrome EXCEPT ![r] = c], UNCHANGED <<managerVars, emitted, environment>>,
         RequestOk(c, requestsById[r], publishing[r], redirectsById[r], emitted[r])
  PROVE  IInv'
  <1>1. UNCHANGED <<requestsById, publishing, redirectsById>>
    BY DEF managerVars
  <1>2. /\ requestsById' = [requestsById EXCEPT ![r] = requestsById[r]]
        /\ publishing' = [publishing EXCEPT ![r] = publishing[r]]
        /\ redirectsById' = [redirectsById EXCEPT ![r] = redirectsById[r]]
        /\ emitted' = [emitted EXCEPT ![r] = emitted[r]]
    BY Types, <1>1
  <1> QED BY <1>2, Types, Changed

\* DoEmitResourceRequested is what PublishesInOrder is about.
LEMMA DoEmits ==
  ASSUME IInv, NEW r \in Request, NEW q, NEW p, DoEmitResourceRequested(r, q, p)
  PROVE  /\ emitted' = [emitted EXCEPT ![r] = emitted[r] \o Publishes(q, p)]
         /\ publishing' = [publishing EXCEPT ![r] = Published(q, p)]
  BY DEF DoEmitResourceRequested, Emits, IInv, TypesOk

-----------------------------------------------------------------------------
\* Chrome's own steps.

\* Chrome issues a request: nothing is listed yet.
LEMMA IssueIInv ==
  ASSUME IInv, NEW r \in Request, Issue(r)
  PROVE  IInv'
  <1> PICK cached \in {"no", "disk", "memory"} :
        chrome' = [chrome EXCEPT ![r].hop = 1, ![r].cached = cached, ![r].extra = cached # "no",
                                 ![r].paused = IF cached = "memory" THEN "done" ELSE "no"]
    BY DEF Issue
  <1> PICK o : o = chrome[r]
    OBVIOUS
  <1>1. o \in ChromeRequest /\ o.hop = 0
    BY Types DEF Issue
  <1> PICK x \in BOOLEAN, paused \in {"no", "done"} :
        x = (cached # "no") /\ paused = (IF cached = "memory" THEN "done" ELSE "no")
    OBVIOUS
  <1> PICK c : c = [o EXCEPT !.hop = 1, !.cached = cached, !.extra = x, !.paused = paused]
    OBVIOUS
  <1>2. /\ c \in ChromeRequest /\ c.hop = 1 /\ c.cached = cached /\ c.extra = x
        /\ c.paused = paused
        /\ c.sent = o.sent /\ c.over = o.over /\ c.cacheTimer = o.cacheTimer
    BY <1>1 DEF ChromeRequest
  <1>3. chrome' = [chrome EXCEPT ![r] = c]
    BY Types
  <1>4. RequestOk(o, requestsById[r], publishing[r], redirectsById[r], emitted[r])
    BY Types
  <1>5. ChromeOk(c)
    <2>1. ~c.cacheTimer
      BY <1>1, <1>2, <1>4 DEF RequestOk, ChromeOk
    <2>2. c.cached # "no" => c.extra
      BY <1>2
    <2>3. c.hop = 1 /\ c.paused # "continued" /\ (c.cached = "memory" => c.paused = "done")
      BY <1>2
    <2> QED BY <2>1, <2>2, <2>3 DEF ChromeOk
  <1>6. requestsById[r] # None => requestsById[r] \in Listed /\ requestsById[r].hop \in Nat
    BY Types DEF Listed
  <1>7. EntryOk(c, requestsById[r])
    BY <1>1, <1>2, <1>4, <1>6 DEF RequestOk, EntryOk, HasUrl, ChromeOk
  <1>8. EventsOk(c, redirectsById[r], emitted[r])
    <2>1. Ordered(emitted[r], 1)
      <3>1. Ordered(emitted[r], 0)
        BY <1>1, <1>4 DEF RequestOk, EventsOk
      <3>2. \A i \in DOMAIN emitted[r] : emitted[r][i] \in PageEvent
        BY Types
      <3>3. \A i \in DOMAIN emitted[r] : emitted[r][i].hop \in Nat
        BY <3>2 DEF PageEvent
      <3>4. \A i \in DOMAIN emitted[r] : emitted[r][i].hop < 0 => emitted[r][i].hop < 1
        BY <3>3
      <3> QED BY <3>1, <3>4 DEF Ordered
    <2>2. \A i \in DOMAIN redirectsById[r] : redirectsById[r][i] \in Listed
      BY Types
    <2> QED BY <2>1, <2>2, <1>1, <1>2, <1>4 DEF RequestOk, EventsOk, Listed
  <1>9. PublishingOk(c, requestsById[r], publishing[r], emitted[r])
    <2>1. ~HasUrl(requestsById[r])
      BY <1>1, <1>4, <1>6 DEF RequestOk, EntryOk, HasUrl
    <2>2. ~Announced(emitted[r], 1)
      BY <1>1, <1>4 DEF RequestOk, EventsOk
    <2> QED BY <1>2, <1>4, <2>1, <2>2 DEF RequestOk, PublishingOk, AnnouncedOk, WillPublish
  <1>10. RequestOk(c, requestsById[r], publishing[r], redirectsById[r], emitted[r])
    BY <1>5, <1>7, <1>8, <1>9 DEF RequestOk
  <1> QED BY <1>2, <1>3, <1>10, ChromeStep DEF Issue

\* Chrome follows a redirect: the next hop is not announced yet.
LEMMA FollowsRedirectIInv ==
  ASSUME IInv, NEW r \in Request, FollowsRedirect(r)
  PROVE  IInv'
  <1> PICK o : o = chrome[r]
    OBVIOUS
  <1>1. o \in ChromeRequest /\ o.hop \in Nat /\ o.hop # 0 /\ ~o.over
    <2>1. o \in ChromeRequest
      BY Types
    <2>2. Len(environment.url[r]) \in Nat
      BY MatchingAssumption DEF IInv, TypesOk, Hop
    <2> QED BY <2>1, <2>2 DEF FollowsRedirect, ChromeRequest
  <1> PICK n \in Nat : n = o.hop + 1
    BY <1>1
  <1> PICK x \in BOOLEAN, paused \in {"no", "done"} :
        x = (o.cached # "no") /\ paused = (IF o.cached = "memory" THEN "done" ELSE "no")
    OBVIOUS
  <1> PICK c : c = [o EXCEPT !.hop = n, !.sent = FALSE, !.extra = x, !.paused = paused]
    OBVIOUS
  <1>2. /\ c \in ChromeRequest /\ c.hop = o.hop + 1 /\ c.sent = FALSE /\ c.extra = x
        /\ c.paused = paused
        /\ c.cached = o.cached /\ c.over = o.over /\ c.cacheTimer = o.cacheTimer
    <2>1. c.hop = n /\ c.sent = FALSE /\ c.extra = x /\ c.paused = paused
      BY <1>1 DEF ChromeRequest
    <2>2. c.cached = o.cached /\ c.over = o.over /\ c.cacheTimer = o.cacheTimer
      BY <1>1 DEF ChromeRequest
    <2>3. c \in ChromeRequest
      <3>1. /\ n \in Nat /\ x \in BOOLEAN /\ paused \in {"no", "continued", "done"}
            /\ o \in ChromeRequest
            /\ c = [o EXCEPT !.hop = n, !.sent = FALSE, !.extra = x, !.paused = paused]
        BY <1>1
      <3> QED BY ONLY <3>1 DEF ChromeRequest
    <2> QED BY <2>1, <2>2, <2>3
  <1>3. chrome' = [chrome EXCEPT ![r] = c]
    BY Types DEF FollowsRedirect
  <1>4. RequestOk(o, requestsById[r], publishing[r], redirectsById[r], emitted[r])
    BY Types
  <1>5. ChromeOk(c)
    <2>1. c.hop \in Nat /\ c.hop > 1
      BY <1>1, <1>2
    <2>2. c.cacheTimer => c.cached = "memory"
      BY <1>2, <1>4 DEF RequestOk, ChromeOk
    <2>3. c.cached # "no" => c.extra
      BY <1>2
    <2>4. c.paused # "continued" /\ (c.cached = "memory" => c.paused = "done")
      BY <1>2
    <2> QED BY <2>1, <2>2, <2>3, <2>4 DEF ChromeOk
  <1>6. requestsById[r] # None => requestsById[r] \in Listed /\ requestsById[r].hop \in Nat
    BY Types DEF Listed
  <1>7. EntryOk(c, requestsById[r])
    BY <1>1, <1>2, <1>4, <1>6 DEF RequestOk, EntryOk
  <1>8. EventsOk(c, redirectsById[r], emitted[r])
    <2>1. Ordered(emitted[r], c.hop)
      <3>1. \A i \in DOMAIN emitted[r] : emitted[r][i].hop \in Nat
        <4>1. \A i \in DOMAIN emitted[r] : emitted[r][i] \in PageEvent
          BY Types
        <4> QED BY <4>1 DEF PageEvent
      <3>2. \A i \in DOMAIN emitted[r] : emitted[r][i].hop < o.hop => emitted[r][i].hop < c.hop
        BY <1>1, <1>2, <3>1
      <3> QED BY <1>4, <3>2 DEF RequestOk, EventsOk, Ordered
    <2>2. \A i \in DOMAIN redirectsById[r] : redirectsById[r][i].hop \in Nat
      <3>1. \A i \in DOMAIN redirectsById[r] : redirectsById[r][i] \in Listed
        BY Types
      <3> QED BY <3>1 DEF Listed
    <2> QED BY <2>1, <2>2, <1>1, <1>2, <1>4 DEF RequestOk, EventsOk
  <1>9. PublishingOk(c, requestsById[r], publishing[r], emitted[r])
    <2>1. ~Announced(emitted[r], c.hop)
      BY <1>1, <1>2, <1>4 DEF RequestOk, EventsOk
    <2>2. HasUrl(requestsById[r]) => requestsById[r].hop < c.hop
      BY <1>1, <1>2, <1>4, <1>6 DEF RequestOk, EntryOk, HasUrl
    <2> QED BY <1>4, <2>1, <2>2 DEF RequestOk, PublishingOk, AnnouncedOk, WillPublish
  <1>10. RequestOk(c, requestsById[r], publishing[r], redirectsById[r], emitted[r])
    BY <1>5, <1>7, <1>8, <1>9 DEF RequestOk
  <1> QED BY <1>2, <1>3, <1>10, ChromeStep DEF FollowsRedirect

-----------------------------------------------------------------------------
\* Events that announce a request, or set the timer that will.

\* What DoEmitResourceRequested leaves to know of a request.
LEMMA PublishedOk ==
  ASSUME NEW c \in ChromeRequest, NEW q \in {None} \cup Listed, NEW p \in Publishing,
         NEW d \in Seq(Listed), NEW m \in Seq(PageEvent),
         EntryOk(c, q), AnnouncedOk(c, q, p, m), EventsOk(c, d, m)
  PROVE  /\ m \o Publishes(q, p) \in Seq(PageEvent) /\ Published(q, p) \in Publishing
         /\ PublishingOk(c, q, Published(q, p), m \o Publishes(q, p))
         /\ EventsOk(c, d, m \o Publishes(q, p))
  <1>0. c.hop \in Nat
    BY DEF ChromeRequest
  <1>1. Ordered(m, c.hop) /\ (HasUrl(q) => (p.published <=> Announced(m, q.hop)))
    BY DEF EventsOk, AnnouncedOk
  <1> PICK l, x : l = m \o Publishes(q, p) /\ x = Published(q, p)
    OBVIOUS
  <1>2. /\ l \in Seq(PageEvent) /\ Ordered(l, c.hop) /\ x \in Publishing
        /\ HasUrl(q) => x.published
        /\ ~HasUrl(q) => x = p
        /\ \A hop \in Nat : Announced(l, hop) <=> Announced(m, hop) \/ (HasUrl(q) /\ q.hop = hop)
    BY <1>0, <1>1, PublishesInOrder
  <1>3. HasUrl(q) => q \in Listed /\ q.hop \in Nat /\ q.hop # 0 /\ q.hop <= c.hop
    <2>1. HasUrl(q) => q \in Listed /\ q.hop # 0 /\ q.hop <= c.hop
      BY DEF EntryOk, HasUrl
    <2> QED BY <2>1 DEF Listed
  <1>4. PublishingOk(c, q, x, l)
    <2>1. HasUrl(q) => (x.published <=> Announced(l, q.hop))
      BY <1>2, <1>3
    <2>2. ~HasUrl(q) => ~x.published
      BY <1>2 DEF AnnouncedOk
    <2>3. Announced(l, c.hop) /\ ~c.sent /\ ~c.over => HasUrl(q) /\ q.hop = c.hop
      BY <1>0, <1>2 DEF AnnouncedOk
    <2> QED BY <1>2, <2>1, <2>2, <2>3 DEF PublishingOk, AnnouncedOk, WillPublish
  <1>5. EventsOk(c, d, l)
    <2>1. ASSUME NEW hop \in Nat, Announced(l, hop) PROVE hop # 0 /\ hop <= c.hop
      BY <1>2, <1>3, <2>1 DEF EventsOk
    <2> QED BY <1>2, <2>1 DEF EventsOk
  <1> QED BY <1>2, <1>4, <1>5

\* A step that leaves request r with the entry q and, before it emits or waits, with the
\* publishing p.
LEMMA Published2 ==
  ASSUME IInv, NEW r \in Request, NEW c \in ChromeRequest, NEW q \in {None} \cup Listed,
         NEW p \in Publishing, NEW d \in Seq(Listed),
         chrome' = [chrome EXCEPT ![r] = c], requestsById' = [requestsById EXCEPT ![r] = q],
         redirectsById' = [redirectsById EXCEPT ![r] = d], environment' = environment,
         ChromeOk(c), EntryOk(c, q), AnnouncedOk(c, q, p, emitted[r]), EventsOk(c, d, emitted[r]),
         \/ DoEmitResourceRequested(r, q, p)
         \/ /\ publishing' = [publishing EXCEPT ![r] = p] /\ emitted' = emitted
            /\ WillPublish(c, q, p)
  PROVE  IInv'
  <1>1. CASE DoEmitResourceRequested(r, q, p)
    <2> PICK l, x : l = emitted[r] \o Publishes(q, p) /\ x = Published(q, p)
      OBVIOUS
    <2>1. emitted' = [emitted EXCEPT ![r] = l] /\ publishing' = [publishing EXCEPT ![r] = x]
      BY <1>1, DoEmits
    <2>2. /\ l \in Seq(PageEvent) /\ x \in Publishing
          /\ PublishingOk(c, q, x, l) /\ EventsOk(c, d, l)
      BY Types, PublishedOk
    <2> QED BY <2>1, <2>2, Changed DEF RequestOk
  <1>2. CASE /\ publishing' = [publishing EXCEPT ![r] = p] /\ emitted' = emitted
             /\ WillPublish(c, q, p)
    <2>1. emitted' = [emitted EXCEPT ![r] = emitted[r]] /\ emitted[r] \in Seq(PageEvent)
      BY <1>2, Types
    <2>2. RequestOk(c, q, p, d, emitted[r])
      BY <1>2 DEF RequestOk, PublishingOk
    <2> QED BY <1>2, <2>1, <2>2, Changed
  <1> QED BY <1>1, <1>2

\* The same where emitResourceRequested is called.
LEMMA Requested ==
  ASSUME IInv, NEW r \in Request, NEW c \in ChromeRequest, NEW q \in {None} \cup Listed,
         NEW p \in Publishing, NEW d \in Seq(Listed),
         chrome' = [chrome EXCEPT ![r] = c], requestsById' = [requestsById EXCEPT ![r] = q],
         redirectsById' = [redirectsById EXCEPT ![r] = d], environment' = environment,
         ChromeOk(c), EntryOk(c, q), AnnouncedOk(c, q, p, emitted[r]), EventsOk(c, d, emitted[r]),
         EmitResourceRequested(r, q, p)
  PROVE  IInv'
  <1>1. CASE p.timer /\ ~p.published
    BY <1>1, Published2 DEF EmitResourceRequested
  <1>2. CASE ~p.timer \/ p.published
    <2> PICK x : x = [p EXCEPT !.timer = TRUE]
      OBVIOUS
    <2>1. x \in Publishing /\ x.published = p.published /\ x.timer
      BY DEF Publishing
    <2>2. publishing' = [publishing EXCEPT ![r] = x] /\ emitted' = emitted
      BY <1>2 DEF EmitResourceRequested
    <2>3. AnnouncedOk(c, q, x, emitted[r]) /\ WillPublish(c, q, x)
      BY <2>1 DEF AnnouncedOk, WillPublish
    <2> QED BY <2>1, <2>2, <2>3, Published2
  <1> QED BY <1>1, <1>2

\* The timer announces the listed hop, if nothing did.
LEMMA PublishTimerIInv ==
  ASSUME IInv, NEW r \in Request, PublishTimer(r)
  PROVE  IInv'
  <1>1. RequestOk(chrome[r], requestsById[r], publishing[r], redirectsById[r], emitted[r])
    BY Types
  <1>2. /\ chrome' = [chrome EXCEPT ![r] = chrome[r]]
        /\ requestsById' = [requestsById EXCEPT ![r] = requestsById[r]]
        /\ redirectsById' = [redirectsById EXCEPT ![r] = redirectsById[r]]
    BY Types DEF PublishTimer
  <1>3. DoEmitResourceRequested(r, requestsById[r], publishing[r]) /\ environment' = environment
    BY DEF PublishTimer
  <1> QED BY <1>1, <1>2, <1>3, Types, Published2 DEF RequestOk, PublishingOk

\* requestWillBeSent lists the hop; a redirect reports the last one.
LEMMA OnRequestWillBeSentIInv ==
  ASSUME IInv, NEW r \in Request, OnRequestWillBeSent(r)
  PROVE  IInv'
  <1> PICK o, e, p0, d, m : o = chrome[r] /\ e = requestsById[r] /\ p0 = publishing[r]
                            /\ d = redirectsById[r] /\ m = emitted[r]
    OBVIOUS
  <1>1. /\ o \in ChromeRequest /\ e \in {None} \cup Listed /\ p0 \in Publishing
        /\ d \in Seq(Listed) /\ m \in Seq(PageEvent)
        /\ ChromeOk(o) /\ EntryOk(o, e) /\ PublishingOk(o, e, p0, m) /\ EventsOk(o, d, m)
    BY Types DEF RequestOk
  <1>2. o.hop \in Nat /\ o.hop # 0 /\ ~o.sent /\ ~o.over
    BY <1>1 DEF OnRequestWillBeSent, ChromeRequest
  <1>3. e # None => e \in Listed /\ e.hop \in Nat
    BY <1>1 DEF Listed
  <1> PICK c : c = [o EXCEPT !.sent = TRUE]
    OBVIOUS
  <1>4. /\ c \in ChromeRequest /\ c.hop = o.hop /\ c.sent /\ c.over = o.over
        /\ c.extra = o.extra /\ c.paused = o.paused /\ c.cached = o.cached
        /\ c.received = o.received /\ c.cacheTimer = o.cacheTimer
    BY <1>1 DEF ChromeRequest
  <1>5. chrome' = [chrome EXCEPT ![r] = c] /\ environment' = environment
    BY DEF OnRequestWillBeSent
  <1> PICK isNewRedirect \in BOOLEAN : isNewRedirect <=> o.hop > 1 /\ e # None
    OBVIOUS
  <1> PICK q : q = [hop |-> o.hop, headers |-> e # None /\ ~(o.hop > 1 /\ e # None) /\ e.headers]
    OBVIOUS
  <1>6. q \in Listed /\ q.hop = o.hop /\ HasUrl(q) /\ q # None
    <2>1. (e # None /\ ~(o.hop > 1 /\ e # None) /\ e.headers) \in BOOLEAN
      OBVIOUS
    <2>2. q \in Listed /\ q.hop = o.hop
      BY <1>2, <2>1 DEF Listed
    <2> QED BY <1>2, <2>2, ListedIsSome DEF HasUrl
  <1> PICK p1 : p1 = [p0 EXCEPT !.sentEvent = TRUE]
    OBVIOUS
  <1> PICK p : p = IF o.hop > 1 /\ e # None THEN Redirected(p1) ELSE p1
    OBVIOUS
  <1>7. /\ p \in Publishing
        /\ o.hop > 1 /\ e # None => ~p.published
        /\ ~(o.hop > 1 /\ e # None) => p.published = p0.published
    BY <1>1 DEF Publishing, Redirected
  <1> PICK d2 : d2 = IF o.hop > 1 /\ e # None THEN Append(d, e) ELSE d
    OBVIOUS
  <1>8. /\ requestsById' = [requestsById EXCEPT ![r] = q]
        /\ redirectsById' = [redirectsById EXCEPT ![r] = d2]
        /\ EmitResourceRequested(r, q, p)
    <2>1. requestsById' = [requestsById EXCEPT ![r] = q] /\ EmitResourceRequested(r, q, p)
      BY DEF OnRequestWillBeSent
    <2>2. redirectsById' = IF o.hop > 1 /\ e # None THEN [redirectsById EXCEPT ![r] = Append(d, e)]
                           ELSE redirectsById
      BY DEF OnRequestWillBeSent
    <2>3. redirectsById = [redirectsById EXCEPT ![r] = d]
      BY Types
    <2> QED BY <2>1, <2>2, <2>3
  <1>9. d2 \in Seq(Listed) /\ \A i \in DOMAIN d2 : d2[i].hop < c.hop
    <2>1. CASE o.hop > 1 /\ e # None
      <3>1. e \in Listed /\ e.hop < o.hop
        BY <1>1, <1>2, <1>3, <2>1 DEF EntryOk
      <3>a. d \in Seq(Listed)
        BY <1>1
      <3>b. Len(d) \in Nat
        BY ONLY <3>a
      <3> PICK k \in Nat : k = Len(d)
        BY ONLY <3>b
      <3>2. /\ d2 \in Seq(Listed) /\ DOMAIN d2 = 1..k+1 /\ d2[k+1] = e /\ DOMAIN d = 1..k
            /\ \A i \in 1..k : d2[i] = d[i]
        BY <1>1, <2>1, <3>1
      <3>3. \A i \in 1..k : d2[i].hop < o.hop
        BY <1>1, <3>2 DEF EventsOk
      <3>4. \A i \in DOMAIN d2 : i \in 1..k \/ i = k+1
        BY <3>2
      <3> QED BY <1>4, <3>1, <3>2, <3>3, <3>4
    <2>2. CASE ~(o.hop > 1 /\ e # None)
      BY <1>1, <1>4, <2>2 DEF EventsOk
    <2> QED BY <2>1, <2>2
  <1>10. EventsOk(c, d2, m)
    BY <1>1, <1>4, <1>9 DEF EventsOk
  <1>11. ChromeOk(c)
    BY <1>1, <1>2, <1>4 DEF ChromeOk
  <1>12. EntryOk(c, q)
    BY <1>2, <1>4, <1>6 DEF EntryOk
  <1>13. AnnouncedOk(c, q, p, m)
    <2>1. ASSUME o.hop > 1 /\ e # None PROVE ~Announced(m, o.hop)
      <3>1. e.hop # o.hop
        BY <1>1, <1>2, <1>3, <2>1 DEF EntryOk
      <3> QED BY <1>1, <1>2, <3>1 DEF PublishingOk, AnnouncedOk
    <2>2. ASSUME ~(o.hop > 1 /\ e # None) PROVE p0.published <=> Announced(m, o.hop)
      <3>1. CASE HasUrl(e)
        <4>1. e # None /\ o.hop = 1 /\ e.hop # 0 /\ e.hop <= o.hop
          BY <1>1, <1>2, <2>2, <3>1 DEF HasUrl, EntryOk
        <4>2. e.hop = o.hop
          BY <1>3, <4>1
        <4> QED BY <1>1, <3>1, <4>2 DEF PublishingOk, AnnouncedOk
      <3>2. CASE ~HasUrl(e)
        BY <1>1, <1>2, <3>2 DEF PublishingOk, AnnouncedOk
      <3> QED BY <3>1, <3>2
    <2> QED BY <1>4, <1>6, <1>7, <2>1, <2>2 DEF AnnouncedOk
  <1> QED BY <1>4, <1>5, <1>6, <1>7, <1>8, <1>9, <1>10, <1>11, <1>12, <1>13, Requested

\* The extra headers complete and announce a listed hop.
LEMMA OnExtraInfoIInv ==
  ASSUME IInv, NEW r \in Request, OnExtraInfo(r)
  PROVE  IInv'
  <1> PICK o, e, p, d, m : o = chrome[r] /\ e = requestsById[r] /\ p = publishing[r]
                           /\ d = redirectsById[r] /\ m = emitted[r]
    OBVIOUS
  <1>1. /\ o \in ChromeRequest /\ e \in {None} \cup Listed /\ p \in Publishing
        /\ d \in Seq(Listed) /\ m \in Seq(PageEvent)
        /\ ChromeOk(o) /\ EntryOk(o, e) /\ PublishingOk(o, e, p, m) /\ EventsOk(o, d, m)
    BY Types DEF RequestOk
  <1>2. o.hop \in Nat /\ o.hop # 0 /\ ~o.extra
    BY <1>1 DEF OnExtraInfo, ChromeRequest
  <1> PICK c : c = [o EXCEPT !.extra = TRUE]
    OBVIOUS
  <1>3. /\ c \in ChromeRequest /\ c.hop = o.hop /\ c.sent = o.sent /\ c.over = o.over
        /\ c.extra /\ c.paused = o.paused /\ c.cached = o.cached
        /\ c.received = o.received /\ c.cacheTimer = o.cacheTimer
    BY <1>1 DEF ChromeRequest
  <1> PICK q : q = IF e = None THEN [hop |-> 0, headers |-> TRUE] ELSE [e EXCEPT !.headers = TRUE]
    OBVIOUS
  <1>4. /\ q \in Listed /\ q # None
        /\ e # None => q.hop = e.hop
        /\ e = None => q.hop = 0
    <2>1. /\ q \in Listed
          /\ e # None => q.hop = e.hop
          /\ e = None => q.hop = 0
      BY <1>1 DEF Listed
    <2> QED BY <2>1, ListedIsSome
  <1>5. HasUrl(q) <=> HasUrl(e)
    BY <1>4 DEF HasUrl
  <1>6. /\ chrome' = [chrome EXCEPT ![r] = c] /\ environment' = environment
        /\ requestsById' = [requestsById EXCEPT ![r] = q]
        /\ redirectsById' = [redirectsById EXCEPT ![r] = d]
    <2>1. redirectsById' = redirectsById
      BY DEF OnExtraInfo
    <2> QED BY <2>1, Types DEF OnExtraInfo
  <1>7. \/ DoEmitResourceRequested(r, q, p)
        \/ publishing' = [publishing EXCEPT ![r] = p] /\ emitted' = emitted
    BY Types DEF OnExtraInfo
  <1>8. ChromeOk(c)
    BY <1>1, <1>3 DEF ChromeOk
  <1>9. EntryOk(c, q)
    <2>1. q.hop <= c.hop /\ (~c.sent /\ c.hop > 1 => q.hop < c.hop)
      BY <1>1, <1>2, <1>3, <1>4 DEF EntryOk
    <2>2. c.sent /\ ~c.over => q.hop # 0
      <3>1. CASE e = None
        BY <1>1, <1>2, <1>3, <3>1 DEF EntryOk, ChromeOk
      <3>2. CASE e # None
        BY <1>1, <1>3, <1>4, <3>2 DEF EntryOk
      <3> QED BY <3>1, <3>2
    <2>3. c.over => ~HasUrl(q)
      BY <1>1, <1>3, <1>5 DEF EntryOk
    <2> QED BY <1>4, <2>1, <2>2, <2>3 DEF EntryOk
  <1>10. AnnouncedOk(c, q, p, m)
    <2>1. HasUrl(e) => q.hop = e.hop
      BY <1>4 DEF HasUrl
    <2> QED BY <1>1, <1>3, <1>5, <2>1 DEF PublishingOk, AnnouncedOk
  <1>11. WillPublish(c, q, p)
    <2>1. HasUrl(e) => q.hop = e.hop
      BY <1>4 DEF HasUrl
    <2> QED BY <1>1, <1>3, <1>5, <2>1 DEF PublishingOk, WillPublish
  <1>12. EventsOk(c, d, m)
    BY <1>1, <1>3 DEF EventsOk
  <1> QED BY <1>1, <1>3, <1>4, <1>6, <1>7, <1>8, <1>9, <1>10, <1>11, <1>12, Published2

\* A pause lists and announces its hop.
LEMMA OnRequestPausedIInv ==
  ASSUME IInv, NEW r \in Request, OnRequestPaused(r)
  PROVE  IInv'
  <1> PICK o, e, p, d, m : o = chrome[r] /\ e = requestsById[r] /\ p = publishing[r]
                           /\ d = redirectsById[r] /\ m = emitted[r]
    OBVIOUS
  <1>1. /\ o \in ChromeRequest /\ e \in {None} \cup Listed /\ p \in Publishing
        /\ ChromeOk(o) /\ EntryOk(o, e) /\ PublishingOk(o, e, p, m) /\ EventsOk(o, d, m)
    BY Types DEF RequestOk
  <1> PICK c : c = [o EXCEPT !.paused = "continued"]
    OBVIOUS
  <1>2. /\ c \in ChromeRequest /\ c.hop = o.hop /\ c.sent = o.sent /\ c.over = o.over
        /\ c.extra = o.extra /\ c.paused = "continued" /\ c.cached = o.cached
        /\ c.received = o.received /\ c.cacheTimer = o.cacheTimer
    BY <1>1 DEF ChromeRequest
  <1>3. chrome' = [chrome EXCEPT ![r] = c] /\ UNCHANGED <<managerVars, emitted, environment>>
    BY DEF OnRequestPaused
  <1>4. o.hop # 0 /\ o.paused = "no" /\ ~o.over /\ (o.sent \/ o.hop = 1)
    BY DEF OnRequestPaused
  <1>5. ChromeOk(c)
    BY <1>1, <1>2, <1>4 DEF ChromeOk
  <1>6. EntryOk(c, e) /\ EventsOk(c, d, m)
    BY <1>1, <1>2 DEF EntryOk, EventsOk
  <1>7. PublishingOk(c, e, p, m)
    BY <1>1, <1>2 DEF PublishingOk, AnnouncedOk, WillPublish
  <1> QED BY <1>2, <1>3, <1>5, <1>6, <1>7, ChromeStep DEF RequestOk

\* A request that goes on after a pause is listed, if it is not: it was not announced.
LEMMA OnContinuedIInv ==
  ASSUME IInv, NEW r \in Request, OnContinued(r)
  PROVE  IInv'
  <1> PICK o, e, p, d, m : o = chrome[r] /\ e = requestsById[r] /\ p = publishing[r]
                           /\ d = redirectsById[r] /\ m = emitted[r]
    OBVIOUS
  <1>1. /\ o \in ChromeRequest /\ e \in {None} \cup Listed /\ p \in Publishing
        /\ d \in Seq(Listed) /\ m \in Seq(PageEvent)
        /\ ChromeOk(o) /\ EntryOk(o, e) /\ PublishingOk(o, e, p, m) /\ EventsOk(o, d, m)
    BY Types DEF RequestOk
  <1> PICK c : c = [o EXCEPT !.paused = "done"]
    OBVIOUS
  <1>2. /\ c \in ChromeRequest /\ c.hop = o.hop /\ c.sent = o.sent /\ c.over = o.over
        /\ c.extra = o.extra /\ c.paused = "done" /\ c.cached = o.cached
        /\ c.received = o.received /\ c.cacheTimer = o.cacheTimer
    BY <1>1 DEF ChromeRequest
  <1>3. o.paused = "continued" /\ o.hop \in Nat
    BY <1>1 DEF OnContinued, ChromeRequest
  <1>4. o.hop # 0 /\ ~o.over /\ (o.sent \/ o.hop = 1) /\ o.cached # "memory"
    BY <1>1, <1>3 DEF ChromeOk
  <1> PICK q : q = IF e = None THEN [hop |-> o.hop, headers |-> FALSE] ELSE e
    OBVIOUS
  <1>5. /\ q \in Listed /\ q # None
        /\ e # None => q = e
        /\ e = None => q.hop = o.hop
    <2>1. /\ q \in Listed
          /\ e # None => q = e
          /\ e = None => q.hop = o.hop
      BY <1>1, <1>3 DEF Listed
    <2> QED BY <2>1, ListedIsSome
  <1>6. /\ chrome' = [chrome EXCEPT ![r] = c] /\ environment' = environment
        /\ requestsById' = [requestsById EXCEPT ![r] = q]
        /\ redirectsById' = [redirectsById EXCEPT ![r] = d]
        /\ EmitResourceRequested(r, q, p)
    <2>1. redirectsById' = redirectsById
      BY DEF OnContinued
    <2> QED BY <2>1, Types DEF OnContinued
  <1>7. ChromeOk(c)
    BY <1>1, <1>2, <1>4 DEF ChromeOk
  <1>8. e = None => ~o.sent /\ o.hop = 1 /\ ~Announced(m, o.hop) /\ ~p.published
    BY <1>1, <1>4 DEF EntryOk, PublishingOk, AnnouncedOk, HasUrl
  <1>9. EntryOk(c, q)
    <2>1. CASE e = None
      BY <1>2, <1>3, <1>4, <1>5, <1>8, <2>1 DEF EntryOk
    <2>2. CASE e # None
      BY <1>1, <1>2, <1>5, <2>2 DEF EntryOk
    <2> QED BY <2>1, <2>2
  <1>10. AnnouncedOk(c, q, p, m)
    <2>1. CASE e = None
      <3>1. HasUrl(q)
        BY <1>4, <1>5, <2>1 DEF HasUrl
      <3> QED BY <1>2, <1>5, <1>8, <2>1, <3>1 DEF AnnouncedOk
    <2>2. CASE e # None
      BY <1>1, <1>2, <1>5, <2>2 DEF PublishingOk, AnnouncedOk
    <2> QED BY <2>1, <2>2
  <1>11. EventsOk(c, d, m)
    BY <1>1, <1>2 DEF EventsOk
  <1> QED BY <1>1, <1>2, <1>5, <1>6, <1>7, <1>9, <1>10, <1>11, Requested

\* A request that has been sent has its url when its response comes.
LEMMA OnResponseReceivedIInv ==
  ASSUME IInv, NEW r \in Request, OnResponseReceived(r)
  PROVE  IInv'
  <1> PICK o, e, p, d, m : o = chrome[r] /\ e = requestsById[r] /\ p = publishing[r]
                           /\ d = redirectsById[r] /\ m = emitted[r]
    OBVIOUS
  <1>1. /\ o \in ChromeRequest /\ e \in {None} \cup Listed /\ p \in Publishing
        /\ d \in Seq(Listed) /\ m \in Seq(PageEvent)
        /\ ChromeOk(o) /\ EntryOk(o, e) /\ PublishingOk(o, e, p, m) /\ EventsOk(o, d, m)
    BY Types DEF RequestOk
  <1> PICK c : c = [o EXCEPT !.received = TRUE]
    OBVIOUS
  <1>2. /\ c \in ChromeRequest /\ c.hop = o.hop /\ c.sent = o.sent /\ c.over = o.over
        /\ c.extra = o.extra /\ c.paused = o.paused /\ c.cached = o.cached
        /\ c.received /\ c.cacheTimer = o.cacheTimer
    BY <1>1 DEF ChromeRequest
  <1>3. o.sent /\ ~o.over
    BY DEF OnResponseReceived
  <1>4. e # None => HasUrl(e)
    BY <1>1, <1>3 DEF EntryOk, HasUrl
  <1>5. /\ chrome' = [chrome EXCEPT ![r] = c] /\ environment' = environment
        /\ requestsById' = [requestsById EXCEPT ![r] = e]
        /\ redirectsById' = [redirectsById EXCEPT ![r] = d]
        /\ \/ DoEmitResourceRequested(r, e, p)
           \/ publishing' = [publishing EXCEPT ![r] = p] /\ emitted' = emitted
    <2>1. redirectsById' = redirectsById
      BY DEF OnResponseReceived
    <2>2. ~(e # None /\ ~HasUrl(e))
      BY <1>4
    <2> QED BY <2>1, <2>2, Types DEF OnResponseReceived
  <1>6. ChromeOk(c)
    BY <1>1, <1>2, <1>3 DEF ChromeOk
  <1>7. EntryOk(c, e) /\ EventsOk(c, d, m)
    BY <1>1, <1>2 DEF EntryOk, EventsOk
  <1>8. AnnouncedOk(c, e, p, m) /\ WillPublish(c, e, p)
    BY <1>1, <1>2 DEF PublishingOk, AnnouncedOk, WillPublish
  <1> QED BY <1>1, <1>2, <1>5, <1>6, <1>7, <1>8, Published2

-----------------------------------------------------------------------------
\* The end of a request.

\* A step that forgets request r, after events l that announce at most the listed hop.
LEMMA Forgets ==
  ASSUME IInv, NEW r \in Request, NEW c \in ChromeRequest, NEW l \in Seq(PageEvent),
         chrome' = [chrome EXCEPT ![r] = c], environment' = environment,
         emitted' = [emitted EXCEPT ![r] = l], Forget(r),
         ChromeOk(c), c.sent /\ ~c.over => c.cached = "memory",
         Ordered(l, c.hop), \A hop \in Nat : Announced(l, hop) => hop # 0 /\ hop <= c.hop,
         ~c.sent /\ ~c.over => ~Announced(l, c.hop)
  PROVE  IInv'
  <1>1. /\ requestsById' = [requestsById EXCEPT ![r] = None]
        /\ publishing' = [publishing EXCEPT ![r] = NoPublishing]
        /\ redirectsById' = [redirectsById EXCEPT ![r] = <<>>]
    BY DEF Forget
  <1>2. /\ NoPublishing \in Publishing /\ ~NoPublishing.published
        /\ <<>> \in Seq(Listed) /\ DOMAIN <<>> = {}
    BY DEF NoPublishing, Publishing
  <1>3. EntryOk(c, None) /\ PublishingOk(c, None, NoPublishing, l)
    BY <1>2 DEF EntryOk, HasUrl, PublishingOk, AnnouncedOk, WillPublish
  <1>4. EventsOk(c, <<>>, l)
    BY <1>2 DEF EventsOk
  <1>5. RequestOk(c, None, NoPublishing, <<>>, l)
    BY <1>3, <1>4 DEF RequestOk
  <1> QED BY <1>1, <1>2, <1>5, Changed

\* What emitLoaded leaves to know of the events of a request.
LEMMA LoadedOk ==
  ASSUME NEW o \in ChromeRequest, NEW e \in Listed, NEW p \in Publishing, NEW d \in Seq(Listed),
         NEW m \in Seq(PageEvent), o.hop # 0,
         EntryOk(o, e), PublishingOk(o, e, p, m), EventsOk(o, d, m)
  PROVE  /\ m \o Loads(e, p, d) \in Seq(PageEvent) /\ Ordered(m \o Loads(e, p, d), o.hop)
         /\ \A hop \in Nat : Announced(m \o Loads(e, p, d), hop) => hop # 0 /\ hop <= o.hop
         /\ o.hop > 1 /\ ~o.sent /\ ~o.over => ~Announced(m \o Loads(e, p, d), o.hop)
  <1>1. o.hop \in Nat /\ e.hop \in Nat /\ e # None
    BY ListedIsSome DEF ChromeRequest, Listed
  <1>2. Ordered(m, o.hop) /\ \A i \in DOMAIN d : d[i].hop < o.hop
    BY DEF EventsOk
  <1>3. HasUrl(e) => (p.published <=> Announced(m, e.hop))
    BY DEF PublishingOk, AnnouncedOk
  <1>4. (~HasUrl(e) \/ (~p.published /\ ~p.timer)) => e.hop < o.hop
    <2>1. ~HasUrl(e) => e.hop = 0
      BY <1>1 DEF HasUrl
    <2>2. HasUrl(e) /\ ~p.published /\ ~p.timer => e.hop < o.hop
      BY DEF PublishingOk, WillPublish
    <2> QED BY <1>1, <2>1, <2>2
  <1> PICK n : n = o.hop
    OBVIOUS
  <1>5. /\ m \o Loads(e, p, d) \in Seq(PageEvent) /\ Ordered(m \o Loads(e, p, d), n)
        /\ \A hop \in Nat : Announced(m \o Loads(e, p, d), hop) =>
                               Announced(m, hop) \/ (HasUrl(e) /\ hop = e.hop)
    BY <1>1, <1>2, <1>3, <1>4, LoadsInOrder
  <1> PICK l : l = m \o Loads(e, p, d)
    OBVIOUS
  <1>6. ASSUME NEW hop \in Nat, Announced(l, hop) PROVE hop # 0 /\ hop <= o.hop
    <2>1. HasUrl(e) => e.hop # 0 /\ e.hop <= o.hop
      BY <1>1 DEF EntryOk, HasUrl
    <2>2. Announced(m, hop) => hop # 0 /\ hop <= o.hop
      BY DEF EventsOk
    <2> QED BY <1>5, <1>6, <2>1, <2>2
  <1>7. o.hop > 1 /\ ~o.sent /\ ~o.over => ~Announced(l, o.hop)
    <2> SUFFICES ASSUME o.hop > 1, ~o.sent, ~o.over PROVE ~Announced(l, o.hop)
      OBVIOUS
    <2>1. e.hop < o.hop
      BY <1>1 DEF EntryOk
    <2>2. e.hop # o.hop
      BY <1>1, <2>1
    <2>3. ~Announced(m, o.hop)
      BY <2>2 DEF PublishingOk, AnnouncedOk
    <2> QED BY <1>1, <1>5, <2>2, <2>3
  <1> QED BY <1>5, <1>6, <1>7

\* emitLoaded at the end of a request or with the timer of the memory cache.
LEMMA EmitLoadedIInv ==
  ASSUME IInv, NEW r \in Request, NEW c \in ChromeRequest, chrome[r].hop # 0,
         chrome' = [chrome EXCEPT ![r] = c], environment' = environment, EmitLoaded(r),
         ChromeOk(c), c.hop = chrome[r].hop, c.sent = chrome[r].sent,
         c.over \/ (c.cached = "memory" /\ ~chrome[r].over /\ (c.sent \/ c.hop > 1))
  PROVE  IInv'
  <1> PICK o, e, p, d, m : o = chrome[r] /\ e = requestsById[r] /\ p = publishing[r]
                           /\ d = redirectsById[r] /\ m = emitted[r]
    OBVIOUS
  <1>1. /\ o \in ChromeRequest /\ e \in {None} \cup Listed /\ p \in Publishing
        /\ d \in Seq(Listed) /\ m \in Seq(PageEvent)
        /\ ChromeOk(o) /\ EntryOk(o, e) /\ PublishingOk(o, e, p, m) /\ EventsOk(o, d, m)
    BY Types DEF RequestOk
  <1>2. c.hop = o.hop /\ c.hop \in Nat /\ c.hop # 0 /\ c.sent = o.sent
    BY DEF ChromeRequest
  <1>3. c.sent /\ ~c.over => c.cached = "memory"
    OBVIOUS
  <1>4. CASE e = None
    <2>1. UNCHANGED <<managerVars, emitted>>
      BY <1>4 DEF EmitLoaded
    <2>2. EntryOk(c, e) /\ EventsOk(c, d, m)
      BY <1>1, <1>2, <1>3, <1>4 DEF EntryOk, EventsOk, HasUrl
    <2>3. PublishingOk(c, e, p, m)
      BY <1>1, <1>2, <1>4 DEF PublishingOk, AnnouncedOk, WillPublish, HasUrl
    <2> QED BY <2>1, <2>2, <2>3, ChromeStep DEF RequestOk
  <1>5. CASE e # None
    <2>1. e \in Listed /\ e.hop \in Nat /\ e.hop <= c.hop
      BY <1>1, <1>2, <1>5 DEF Listed, EntryOk
    <2> PICK l : l = m \o Loads(e, p, d)
      OBVIOUS
    <2>2. emitted' = [emitted EXCEPT ![r] = l] /\ Forget(r)
      BY <1>5 DEF EmitLoaded, Emits, Loads, LoadedRedirects
    <2>3. /\ l \in Seq(PageEvent) /\ Ordered(l, o.hop)
          /\ \A hop \in Nat : Announced(l, hop) => hop # 0 /\ hop <= o.hop
          /\ o.hop > 1 /\ ~o.sent /\ ~o.over => ~Announced(l, o.hop)
      BY <1>1, <1>2, <2>1, LoadedOk
    <2>4. ~c.sent /\ ~c.over => ~Announced(l, c.hop)
      BY <1>2, <2>3
    <2> QED BY <1>2, <1>3, <2>2, <2>3, <2>4, Forgets
  <1> QED BY <1>4, <1>5

\* What onLoadingFailed leaves to know of the events of a request.
LEMMA FailedOk ==
  ASSUME NEW o \in ChromeRequest, NEW e \in {None} \cup Listed, NEW p \in Publishing,
         NEW d, NEW m \in Seq(PageEvent), HasUrl(e),
         EntryOk(o, e), PublishingOk(o, e, p, m), EventsOk(o, d, m)
  PROVE  /\ m \o Fails(e, p) \in Seq(PageEvent) /\ Ordered(m \o Fails(e, p), o.hop)
         /\ \A hop \in Nat : Announced(m \o Fails(e, p), hop) => hop # 0 /\ hop <= o.hop
  <1>1. o.hop \in Nat /\ e \in Listed /\ e.hop # 0 /\ e.hop <= o.hop
    BY DEF ChromeRequest, HasUrl, EntryOk
  <1>2. Ordered(m, o.hop) /\ (p.published <=> Announced(m, e.hop))
    BY DEF EventsOk, PublishingOk, AnnouncedOk
  <1> PICK n : n = o.hop
    OBVIOUS
  <1>3. /\ m \o Fails(e, p) \in Seq(PageEvent) /\ Ordered(m \o Fails(e, p), n)
        /\ \A hop \in Nat : Announced(m \o Fails(e, p), hop) => Announced(m, hop) \/ hop = e.hop
    BY <1>1, <1>2, FailsInOrder
  <1> PICK l : l = m \o Fails(e, p)
    OBVIOUS
  <1>4. ASSUME NEW hop \in Nat, Announced(l, hop) PROVE hop # 0 /\ hop <= o.hop
    <2>1. Announced(m, hop) => hop # 0 /\ hop <= o.hop
      BY DEF EventsOk
    <2> QED BY <1>1, <1>3, <1>4, <2>1
  <1> QED BY <1>3, <1>4

\* What no step may do: end a request whose pause is being continued.
NoPauseIsCut ==
  \A r \in Request : chrome[r].paused = "continued" => chrome'[r].over = chrome[r].over

\* A failure is reported after the announcement, and nothing is listed any more.
LEMMA OnLoadingFailedIInv ==
  ASSUME IInv, NEW r \in Request, OnLoadingFailed(r), NoPauseIsCut
  PROVE  IInv'
  <1> PICK o, e, p, d, m : o = chrome[r] /\ e = requestsById[r] /\ p = publishing[r]
                           /\ d = redirectsById[r] /\ m = emitted[r]
    OBVIOUS
  <1>1. /\ o \in ChromeRequest /\ e \in {None} \cup Listed /\ p \in Publishing
        /\ d \in Seq(Listed) /\ m \in Seq(PageEvent)
        /\ ChromeOk(o) /\ EntryOk(o, e) /\ PublishingOk(o, e, p, m) /\ EventsOk(o, d, m)
    BY Types DEF RequestOk
  <1> PICK c : c = [o EXCEPT !.over = TRUE]
    OBVIOUS
  <1>2. /\ c \in ChromeRequest /\ c.hop = o.hop /\ c.sent = o.sent /\ c.over
        /\ c.extra = o.extra /\ c.paused = o.paused /\ c.cached = o.cached
        /\ c.received = o.received /\ c.cacheTimer = o.cacheTimer
    BY <1>1 DEF ChromeRequest
  <1>3. ~o.over /\ chrome' = [chrome EXCEPT ![r] = c] /\ environment' = environment
    BY DEF OnLoadingFailed
  <1>4. o.paused # "continued"
    <2>1. chrome'[r] = c
      BY <1>3 DEF IInv, TypesOk
    <2> QED BY <1>2, <1>3, <2>1 DEF NoPauseIsCut
  <1>5. ChromeOk(c)
    BY <1>1, <1>2, <1>4 DEF ChromeOk
  <1>6. CASE HasUrl(e)
    <2> PICK l : l = m \o Fails(e, p)
      OBVIOUS
    <2>1. emitted' = [emitted EXCEPT ![r] = l] /\ Forget(r)
      BY <1>6 DEF OnLoadingFailed, Emits, Fails
    <2>2. /\ l \in Seq(PageEvent) /\ Ordered(l, o.hop)
          /\ \A hop \in Nat : Announced(l, hop) => hop # 0 /\ hop <= o.hop
      BY <1>1, <1>6, FailedOk
    <2> QED BY <1>2, <1>3, <1>5, <2>1, <2>2, Forgets
  <1>7. CASE ~HasUrl(e)
    <2>1. UNCHANGED <<managerVars, emitted>>
      BY <1>7 DEF OnLoadingFailed
    <2>2. EntryOk(c, e) /\ EventsOk(c, d, m)
      BY <1>1, <1>2, <1>7 DEF EntryOk, EventsOk
    <2>3. PublishingOk(c, e, p, m)
      BY <1>1, <1>2, <1>7 DEF PublishingOk, AnnouncedOk, WillPublish
    <2> QED BY <1>2, <1>3, <1>5, <2>1, <2>2, <2>3, ChromeStep DEF RequestOk
  <1> QED BY <1>6, <1>7

\* An end is reported after the announcement, and nothing is listed any more.
LEMMA OnLoadingFinishedIInv ==
  ASSUME IInv, NEW r \in Request, OnLoadingFinished(r), NoPauseIsCut
  PROVE  IInv'
  <1> PICK o : o = chrome[r]
    OBVIOUS
  <1>1. o \in ChromeRequest /\ ChromeOk(o)
    BY Types DEF RequestOk
  <1> PICK c : c = [o EXCEPT !.over = TRUE]
    OBVIOUS
  <1>2. /\ c \in ChromeRequest /\ c.hop = o.hop /\ c.sent = o.sent /\ c.over
        /\ c.extra = o.extra /\ c.paused = o.paused /\ c.cached = o.cached
        /\ c.received = o.received /\ c.cacheTimer = o.cacheTimer
    BY <1>1 DEF ChromeRequest
  <1>3. /\ o.received /\ ~o.over /\ chrome' = [chrome EXCEPT ![r] = c]
        /\ environment' = environment /\ EmitLoaded(r)
    BY DEF OnLoadingFinished
  <1>4. o.paused # "continued"
    <2>1. chrome'[r] = c
      BY <1>3 DEF IInv, TypesOk
    <2> QED BY <1>2, <1>3, <2>1 DEF NoPauseIsCut
  <1>5. ChromeOk(c) /\ o.hop # 0
    BY <1>1, <1>2, <1>3, <1>4 DEF ChromeOk
  <1> QED BY <1>2, <1>3, <1>5, EmitLoadedIInv

\* The memory cache: Network.requestServedFromCache, and emitLoaded half a second later.
LEMMA MemoryCacheIInv ==
  ASSUME IInv, NEW r \in Request, OnServedFromCache(r) \/ CacheTimer(r)
  PROVE  IInv'
  <1> PICK o, e, p, d, m : o = chrome[r] /\ e = requestsById[r] /\ p = publishing[r]
                           /\ d = redirectsById[r] /\ m = emitted[r]
    OBVIOUS
  <1>1. /\ o \in ChromeRequest /\ e \in {None} \cup Listed /\ p \in Publishing
        /\ ChromeOk(o) /\ EntryOk(o, e) /\ PublishingOk(o, e, p, m) /\ EventsOk(o, d, m)
    BY Types DEF RequestOk
  <1>2. CASE OnServedFromCache(r)
    <2> PICK c : c = [o EXCEPT !.cacheTimer = TRUE]
      OBVIOUS
    <2>1. /\ c \in ChromeRequest /\ c.hop = o.hop /\ c.sent = o.sent /\ c.over = o.over
          /\ c.extra = o.extra /\ c.paused = o.paused /\ c.cached = o.cached
          /\ c.received = o.received /\ c.cacheTimer
      BY <1>1 DEF ChromeRequest
    <2>2. /\ o.cached = "memory" /\ o.sent /\ chrome' = [chrome EXCEPT ![r] = c]
          /\ UNCHANGED <<managerVars, emitted, environment>>
      BY <1>2 DEF OnServedFromCache
    <2>3. ChromeOk(c)
      BY <1>1, <2>1, <2>2 DEF ChromeOk
    <2>4. EntryOk(c, e) /\ EventsOk(c, d, m)
      BY <1>1, <2>1 DEF EntryOk, EventsOk
    <2>5. PublishingOk(c, e, p, m)
      BY <1>1, <2>1 DEF PublishingOk, AnnouncedOk, WillPublish
    <2> QED BY <2>1, <2>2, <2>3, <2>4, <2>5, ChromeStep DEF RequestOk
  <1>3. CASE CacheTimer(r)
    <2> PICK c : c = [o EXCEPT !.cacheTimer = FALSE]
      OBVIOUS
    <2>1. /\ c \in ChromeRequest /\ c.hop = o.hop /\ c.sent = o.sent /\ c.over = o.over
          /\ c.extra = o.extra /\ c.paused = o.paused /\ c.cached = o.cached
          /\ c.received = o.received /\ ~c.cacheTimer
      BY <1>1 DEF ChromeRequest
    <2>2. /\ o.cacheTimer /\ chrome' = [chrome EXCEPT ![r] = c]
          /\ environment' = environment /\ EmitLoaded(r)
      BY <1>3 DEF CacheTimer
    <2>3. ChromeOk(c) /\ o.hop # 0 /\ o.cached = "memory" /\ (o.sent \/ o.hop > 1)
      BY <1>1, <2>1, <2>2 DEF ChromeOk
    <2>4. c.over \/ (c.cached = "memory" /\ ~o.over /\ (c.sent \/ c.hop > 1))
      BY <2>1, <2>3
    <2> QED BY <2>1, <2>2, <2>3, <2>4, EmitLoadedIInv
  <1> QED BY <1>2, <1>3

-----------------------------------------------------------------------------
\* Nothing is listed, nothing was told at first.
LEMMA InitIInv == Init => IInv
  <1> SUFFICES ASSUME Init PROVE IInv
    OBVIOUS
  <1> PICK c : c = [hop |-> 0, sent |-> FALSE, extra |-> FALSE, paused |-> "no",
                    received |-> FALSE, over |-> FALSE, cached |-> "no", cacheTimer |-> FALSE]
    OBVIOUS
  <1>1. c \in ChromeRequest /\ c.hop = 0 /\ ~c.sent /\ ~c.received /\ ~c.cacheTimer /\ ~c.over
        /\ c.paused = "no"
    BY DEF ChromeRequest
  <1>2. NoPublishing \in Publishing /\ ~NoPublishing.published
    BY DEF NoPublishing, Publishing
  <1>3. /\ chrome = [r \in Request |-> c] /\ requestsById = [r \in Request |-> None]
        /\ publishing = [r \in Request |-> NoPublishing]
        /\ redirectsById = [r \in Request |-> <<>>]
        /\ emitted = [r \in Request |-> <<>>] /\ environment \in Environments
    BY DEF Init
  <1>4. <<>> \in Seq(Listed) /\ <<>> \in Seq(PageEvent) /\ DOMAIN <<>> = {}
    OBVIOUS
  <1>5. TypesOk
    BY <1>1, <1>2, <1>3, <1>4 DEF TypesOk
  <1>6. ChromeOk(c) /\ EntryOk(c, None)
    BY <1>1 DEF ChromeOk, EntryOk
  <1>7. PublishingOk(c, None, NoPublishing, <<>>) /\ EventsOk(c, <<>>, <<>>)
    BY <1>1, <1>2, <1>4
       DEF PublishingOk, AnnouncedOk, WillPublish, HasUrl, EventsOk, Ordered, Announced
  <1> QED BY <1>3, <1>5, <1>6, <1>7 DEF IInv, RequestOk

\* A step that cuts no pause preserves the invariant.
LEMMA StepIInv == IInv /\ [Next]_vars /\ [NoPauseIsCut]_vars => IInv'
  <1> SUFFICES ASSUME IInv, [Next]_vars, [NoPauseIsCut]_vars PROVE IInv'
    OBVIOUS
  <1>1. CASE UNCHANGED vars
    BY <1>1, Aside DEF vars
  <1> SUFFICES ASSUME Next, NoPauseIsCut PROVE IInv'
    BY <1>1
  <1>2. ASSUME NEW r \in Request, Devtools(r) PROVE IInv'
    BY <1>2, IssueIInv, FollowsRedirectIInv, OnRequestWillBeSentIInv, OnExtraInfoIInv,
       OnRequestPausedIInv, OnContinuedIInv, OnResponseReceivedIInv, OnLoadingFinishedIInv
       DEF Devtools
  <1>3. ASSUME NEW r \in Request, PublishTimer(r) \/ CacheTimer(r) PROVE IInv'
    BY <1>3, PublishTimerIInv, MemoryCacheIInv
  <1>4. ASSUME NEW m \in Mitm, FailedTimer(m) \/ PendingTimer(m) PROVE IInv'
    BY <1>4, Aside DEF FailedTimer, PendingTimer
  <1>5. ASSUME Proxy PROVE IInv'
    BY <1>5, Aside DEF Proxy, DetermineResourceType, Answer, OnMitmResponse
  <1>6. ASSUME NEW r \in Request, OnLoadingFailed(r) \/ OnServedFromCache(r) PROVE IInv'
    BY <1>6, OnLoadingFailedIInv, MemoryCacheIInv
  <1>7. ASSUME (\E m \in Mitm : OnMitmError(m)) \/ CancelPending PROVE IInv'
    BY <1>7, Aside DEF OnMitmError, CancelPending
  <1> QED BY <1>2, <1>3, <1>4, <1>5, <1>6, <1>7 DEF Next, Progress, Timers, Faults

\* Whatever the events and timers of a request, the urls, the caches and what the proxy does:
\* the listing of a request, what was announced of it and the timer that will announce it
\* agree, unless a request ends while its pause is being continued.
THEOREM Inductive == Spec /\ [][NoPauseIsCut]_vars => []IInv
  BY InitIInv, StepIInv, PTL DEF Spec

\* A page is told of each hop of a request once, and of nothing else before that (NetworkManager),
\* for any requests, redirects, caches, failures and timers, if no request ends while its pause is
\* being continued: onRequestPaused lists and announces such a request again.
THEOREM PageIsToldInOrder == Spec /\ [][NoPauseIsCut]_vars => []EventsInOrder
  <1>1. IInv => EventsInOrder
    <2> SUFFICES ASSUME IInv, NEW r \in Request, NEW i \in DOMAIN emitted[r]
                 PROVE  LET e == emitted[r][i]
                            announced == \E j \in 1..i-1 : /\ emitted[r][j].kind = "will"
                                                           /\ emitted[r][j].hop = e.hop
                        IN  IF e.kind = "will" THEN ~announced
                            ELSE announced \/ (e.kind = "loaded" /\ e.hop < chrome[r].hop)
      BY DEF EventsInOrder
    <2>1. Ordered(emitted[r], chrome[r].hop)
      BY Types DEF RequestOk, EventsOk
    <2> QED BY <2>1 DEF Ordered, Before
  <1> QED BY <1>1, Inductive, PTL

-----------------------------------------------------------------------------
\* Induction over numbers, and functions that are defined by recursion on them.

\* A set of numbers has a least one.
LEMMA LeastNumber ==
  ASSUME NEW T \in SUBSET Nat, T # {}
  PROVE  \E n \in T : \A m \in T : n <= m
  <1>1. PICK n \in T : \A m \in T : ~(<<m, n>> \in OpToRel(<, Nat))
    BY NatLessThanWellFounded, WFMin
  <1>2. \A m \in T : ~(m < n)
    BY <1>1 DEF OpToRel
  <1> QED BY <1>2

\* Numbers that hold 0 and the next of each of them are all the numbers.
LEMMA AllNumbers ==
  ASSUME NEW T \in SUBSET Nat, 0 \in T, \A n \in T : n + 1 \in T
  PROVE  T = Nat
  <1> SUFFICES ASSUME Nat \ T # {} PROVE FALSE
    OBVIOUS
  <1>1. PICK n \in Nat \ T : \A m \in Nat \ T : n <= m
    BY LeastNumber
  <1>2. n - 1 \in Nat /\ ~(n <= n - 1)
    BY <1>1
  <1>3. n - 1 \in T
    BY <1>1, <1>2
  <1>4. (n - 1) + 1 \in T
    BY <1>3
  <1> QED BY <1>4

\* g lists what functions F[1], F[2], ..., F[N] make of a, one after the other.
IsRun(g, a, F, N) == g[0] = a /\ \A i \in 1..N : g[i] = F[i][g[i - 1]]

\* There is such a list.
LEMMA Iterates ==
  \A A, F, a, N : a \in A /\ F \in [Nat -> [A -> A]] /\ N \in Nat
                 => \E g \in [0..N -> A] : IsRun(g, a, F, N)
  <1> SUFFICES ASSUME NEW A, NEW F \in [Nat -> [A -> A]], NEW a \in A, NEW N \in Nat
               PROVE  \E g \in [0..N -> A] : IsRun(g, a, F, N)
    OBVIOUS
  <1> DEFINE Run(n, g) == g[0] = a /\ \A i \in 1..n : g[i] = F[i][g[i - 1]]
             T == {n \in Nat : \E g \in [0..n -> A] : Run(n, g)}
  <1>1. 0 \in T
    <2> DEFINE g == [i \in 0..0 |-> a]
    <2>1. g \in [0..0 -> A] /\ Run(0, g)
      OBVIOUS
    <2> QED BY <2>1
  <1>2. ASSUME NEW n \in T PROVE n + 1 \in T
    <2>1. PICK g \in [0..n -> A] : Run(n, g)
      BY <1>2
    <2> DEFINE h == [i \in 0..n+1 |-> IF i = n + 1 THEN F[n+1][g[n]] ELSE g[i]]
    <2>2. n \in Nat /\ g[n] \in A /\ F[n+1][g[n]] \in A
      BY <1>2, <2>1
    <2>3. h \in [0..n+1 -> A]
      BY <2>2
    <2>4. h[0] = a
      BY <2>1, <2>2
    <2>5. ASSUME NEW i \in 1..n+1 PROVE h[i] = F[i][h[i - 1]]
      <3>1. CASE i = n + 1
        BY <2>2, <3>1
      <3>2. CASE i # n + 1
        BY <2>1, <2>2, <3>2
      <3> QED BY <3>1, <3>2
    <2>6. Run(n + 1, h)
      BY <2>4, <2>5
    <2> HIDE DEF h, Run
    <2> QED BY <2>2, <2>3, <2>6
  <1>3. T = Nat
    <2> HIDE DEF Run
    <2>1. T \in SUBSET Nat
      OBVIOUS
    <2> HIDE DEF T
    <2> QED BY <1>1, <1>2, <2>1, AllNumbers
  <1>4. N \in T
    BY <1>3
  <1> QED BY <1>4 DEF IsRun

-----------------------------------------------------------------------------
\* What the events of a request make of Resources.

\* What Resources may be: the list of the pending requests, the timers and the requests of the
\* proxy.  A wait that is open has no browser's request yet, and each request of the proxy has
\* arrived and one entry at most.
Urls == {UrlAt(r, n) : r \in Request, n \in Nat}
PendingEntry ==
  [url : Urls, headers : Request \cup {None, "same"}, browser : Request \cup {None},
   mitm : Mitm \cup {None}, wait : {"open", "resolved", "rejected"}]
MitmRequest ==
  [progress : {"no", "arrived", "answered", "recorded", "failed"}, settled : BOOLEAN,
   joined : Request \cup {None}]
EntryIsSound(x) ==
  /\ x.wait = "open" => x.browser = None
  /\ x.mitm = None => x.wait = "resolved"
ListIsSound(list, requests) ==
  /\ \A i \in DOMAIN list : /\ EntryIsSound(list[i])
                            /\ list[i].mitm # None => requests[list[i].mitm].progress # "no"
  /\ \A i, j \in DOMAIN list : list[i].mitm = list[j].mitm /\ list[i].mitm # None => i = j
State ==
  {s \in [pending : Seq(PendingEntry), dropping : SUBSET Mitm, mitm : [Mitm -> MitmRequest]] :
     ListIsSound(s.pending, s.mitm)}

\* The request of the proxy that a browser's request is at.
Now(r) == <<r, chrome[r].hop>>

\* What the first n events of a request may make of Resources.
After(g, r, events) ==
  /\ g \in [0..Len(events) -> SUBSET State] /\ g[0] = {Resources}
  /\ \A n \in 1..Len(events) : g[n] = UNION {OnEvent(s, r, events[n]) : s \in g[n - 1]}

\* The events are handled one after the other.
LEMMA OneByOne ==
  ASSUME NEW r, NEW events \in Seq(PageEvent), Resources \in State,
         \A s \in State, e \in PageEvent : OnEvent(s, r, e) \subseteq State
  PROVE  \E g : After(g, r, events) /\ Outcomes(r, events) = g[Len(events)]
  <1> DEFINE N == Len(events)
             Rest(S, n) == UNION {OnEvent(s, r, events[n]) : s \in S}
             F == [n \in Nat |-> [S \in SUBSET State |-> IF n \in 1..N THEN Rest(S, n) ELSE S]]
             Body(f) == [n \in 0..N |-> IF n = 0 THEN {Resources} ELSE Rest(f[n - 1], n)]
             after == CHOOSE f : f = Body(f)
  <1>1. N \in Nat /\ \A n \in 1..N : events[n] \in PageEvent
    OBVIOUS
  <1>2. F \in [Nat -> [SUBSET State -> SUBSET State]]
    <2>1. ASSUME NEW S \in SUBSET State, NEW n \in 1..N PROVE Rest(S, n) \in SUBSET State
      BY <1>1
    <2> HIDE DEF Rest
    <2> QED BY <2>1
  <1>3. PICK g \in [0..N -> SUBSET State] :
          g[0] = {Resources} /\ \A n \in 1..N : g[n] = F[n][g[n - 1]]
    <2> DEFINE A == SUBSET State
    <2>1. {Resources} \in A
      OBVIOUS
    <2>2. N \in Nat /\ F \in [Nat -> [A -> A]]
      BY <1>1, <1>2
    <2> HIDE DEF F, N, A
    <2>3. \E g \in [0..N -> A] : IsRun(g, {Resources}, F, N)
      BY ONLY <2>1, <2>2, Iterates
    <2> QED BY <2>3 DEF A, IsRun
  <1>4. \A n \in 1..N : g[n] = Rest(g[n - 1], n)
    <2>1. \A n \in 1..N : n - 1 \in 0..N /\ n \in Nat
      BY <1>1
    <2> HIDE DEF Rest, N
    <2> QED BY <1>3, <2>1
  <1>5. g = Body(g)
    <2>1. \A n \in 0..N : g[n] = IF n = 0 THEN {Resources} ELSE Rest(g[n - 1], n)
      <3> HIDE DEF Rest
      <3> QED BY <1>1, <1>3, <1>4
    <2> HIDE DEF Rest, N
    <2> QED BY <1>3, <2>1
  <1>6. after = Body(after)
    <2> HIDE DEF Body
    <2> QED BY <1>5
  <1>7. Outcomes(r, events) = after[N]
    BY DEF Outcomes
  <1>8. \A n \in 0..N : after[n] = g[n]
    <2> DEFINE T == {n \in Nat : n <= N => after[n] = g[n]}
    <2>1. \A n \in 0..N : after[n] = IF n = 0 THEN {Resources} ELSE Rest(after[n - 1], n)
      <3> HIDE DEF Rest, N, after
      <3> QED BY <1>6
    <2> HIDE DEF Rest, after, F
    <2>2. 0 \in T
      <3>1. 0 \in 0..N
        BY <1>1
      <3>2. after[0] = {Resources}
        BY <2>1, <3>1
      <3> QED BY <1>3, <3>2
    <2>3. ASSUME NEW n \in T PROVE n + 1 \in T
      <3>1. CASE n + 1 <= N
        <4>1. after[n] = g[n] /\ n + 1 \in 1..N /\ (n + 1) - 1 = n /\ n + 1 \in 0..N /\ n + 1 # 0
          BY <1>1, <3>1
        <4>2. after[n + 1] = Rest(after[n], n + 1)
          BY <2>1, <4>1
        <4>3. g[n + 1] = Rest(g[n], n + 1)
          BY <1>4, <4>1
        <4> QED BY <4>1, <4>2, <4>3
      <3>2. CASE ~(n + 1 <= N)
        BY <3>2
      <3> QED BY <3>1, <3>2
    <2>4. T = Nat
      <3>1. T \in SUBSET Nat
        OBVIOUS
      <3> HIDE DEF T
      <3> QED BY <2>2, <2>3, <3>1, AllNumbers
    <2> QED BY <1>1, <2>4
  <1>9. After(g, r, events)
    BY <1>3, <1>4 DEF After
  <1> HIDE DEF after
  <1> QED BY <1>1, <1>7, <1>8, <1>9

-----------------------------------------------------------------------------
\* The list of the pending requests.

\* The least number of a set.
LEMMA MinIsLeast ==
  ASSUME NEW I \in SUBSET Nat, I # {}
  PROVE  Min(I) \in I /\ \A j \in I : Min(I) <= j
  BY LeastNumber DEF Min

\* What findMatchingRequest looks for.
Suits(x, url, headers, browser, filter) ==
  /\ x.url = url
  /\ browser # None => x.browser \in {browser, None}
  /\ filter = "noMitmResourceId" => x.mitm = None
  /\ filter = "hasMitmResourceId" => x.mitm # None
  /\ headers # None => x.headers = headers

\* It finds an entry that suits if there is one.
LEMMA Finds ==
  ASSUME NEW list \in Seq(PendingEntry), NEW url, NEW headers, NEW browser, NEW filter, NEW i,
         i = FindMatchingRequest(list, url, headers, browser, filter)
  PROVE  /\ i # 0 => i \in 1..Len(list) /\ Suits(list[i], url, headers, browser, filter)
         /\ i = 0 => \A j \in 1..Len(list) : ~Suits(list[j], url, headers, browser, filter)
  <1> DEFINE I == {j \in 1..Len(list) : Suits(list[j], url, headers, browser, filter)}
  <1>1. i = IF I # {} THEN Min(I) ELSE 0
    BY DEF FindMatchingRequest, SelectInSeq, Suits
  <1>2. I \in SUBSET Nat /\ 0 \notin I
    OBVIOUS
  <1> HIDE DEF I
  <1>3. I # {} => i \in I
    BY <1>1, <1>2, MinIsLeast
  <1> QED BY <1>1, <1>2, <1>3 DEF I

\* So does the search for the entry of a browser's request.
LEMMA FindsOwn ==
  ASSUME NEW list \in Seq(PendingEntry), NEW r, NEW i, i = OfBrowser(list, r)
  PROVE  /\ i # 0 => i \in 1..Len(list) /\ list[i].browser = r
         /\ i = 0 => \A j \in 1..Len(list) : list[j].browser # r
  <1> DEFINE I == {j \in 1..Len(list) : list[j].browser = r}
  <1>1. i = IF I # {} THEN Min(I) ELSE 0
    BY DEF OfBrowser, SelectInSeq
  <1>2. I \in SUBSET Nat /\ 0 \notin I
    OBVIOUS
  <1> HIDE DEF I
  <1>3. I # {} => i \in I
    BY <1>1, <1>2, MinIsLeast
  <1> QED BY <1>1, <1>2, <1>3 DEF I

\* The parts of Resources.
LEMMA StateParts ==
  ASSUME NEW s \in State
  PROVE  /\ s.pending \in Seq(PendingEntry) /\ s.dropping \in SUBSET Mitm
         /\ s.mitm \in [Mitm -> MitmRequest] /\ ListIsSound(s.pending, s.mitm)
         /\ Len(s.pending) \in Nat /\ DOMAIN s.pending = 1..Len(s.pending)
         /\ \A i \in 1..Len(s.pending) : s.pending[i] \in PendingEntry
         /\ s = [pending |-> s.pending, dropping |-> s.dropping, mitm |-> s.mitm]
  BY DEF State

\* The requests l that the settling of an entry x makes of k.
Settles(l, k, x) ==
  /\ l \in [Mitm -> MitmRequest]
  /\ \A m \in Mitm : l[m].progress = k[m].progress /\ (m # x.mitm => l[m] = k[m])
  /\ \A m \in Mitm : m = x.mitm /\ x.mitm # None =>
       l[m] = IF x.wait = "open" \/ k[m].settled THEN k[m]
              ELSE [k[m] EXCEPT !.settled = TRUE,
                      !.joined = IF x.wait = "resolved" THEN x.browser ELSE None]

\* A wait that settles.
LEMMA SettledOk ==
  ASSUME NEW k \in [Mitm -> MitmRequest], NEW x \in PendingEntry
  PROVE  Settles(Settled(k, x), k, x)
  <1>1. CASE x.mitm = None \/ x.wait = "open" \/ k[x.mitm].settled
    BY <1>1 DEF Settled, Settles
  <1>2. CASE ~(x.mitm = None \/ x.wait = "open" \/ k[x.mitm].settled)
    <2> DEFINE j == IF x.wait = "resolved" THEN x.browser ELSE None
               y == [k[x.mitm] EXCEPT !.settled = TRUE, !.joined = j]
    <2>1. x.mitm \in Mitm /\ j \in Request \cup {None}
      BY <1>2 DEF PendingEntry
    <2>2. y \in MitmRequest /\ y.progress = k[x.mitm].progress
      BY <2>1 DEF MitmRequest
    <2>3. Settled(k, x) = [k EXCEPT ![x.mitm] = y]
      BY <1>2, <2>1 DEF Settled
    <2> HIDE DEF y
    <2>4. Settled(k, x)[x.mitm] = y
      BY <2>1, <2>3
    <2>5. Settled(k, x) \in [Mitm -> MitmRequest] /\ \A m \in Mitm : m # x.mitm => Settled(k, x)[m] = k[m]
      BY <2>1, <2>2, <2>3
    <2>6. \A m \in Mitm : Settled(k, x)[m].progress = k[m].progress
      BY <2>2, <2>4, <2>5
    <2>7. x.wait # "open" /\ ~k[x.mitm].settled
      BY <1>2
    <2> QED BY <2>4, <2>5, <2>6, <2>7 DEF y, Settles
  <1> QED BY <1>1, <1>2

\* Its parts put together again.
LEMMA Rebuilt ==
  ASSUME NEW s \in State, NEW p
  PROVE  [s EXCEPT !.pending = p] = [pending |-> p, dropping |-> s.dropping, mitm |-> s.mitm]
  <1>1. s = [pending |-> s.pending, dropping |-> s.dropping, mitm |-> s.mitm]
    BY StateParts
  <1> QED BY ONLY <1>1

\* An entry is replaced by one of the same request of the proxy, and its wait may settle.
LEMMA WithEntryOk ==
  ASSUME NEW s \in State, NEW i \in 1..Len(s.pending), NEW x \in PendingEntry, EntryIsSound(x),
         x.mitm = s.pending[i].mitm
  PROVE  /\ WithEntry(s, i, x) \in State
         /\ WithEntry(s, i, x) = [pending |-> [s.pending EXCEPT ![i] = x], dropping |-> s.dropping,
                                  mitm |-> Settled(s.mitm, x)]
  <1> DEFINE p == [s.pending EXCEPT ![i] = x]
             k == Settled(s.mitm, x)
             t == [pending |-> p, dropping |-> s.dropping, mitm |-> k]
  <1>1. WithEntry(s, i, x) = t
    <2>1. PICK a : a = [s EXCEPT !.pending = p]
      OBVIOUS
    <2>2. a = [pending |-> p, dropping |-> s.dropping, mitm |-> s.mitm]
      BY <2>1, Rebuilt
    <2>3. [a EXCEPT !.mitm = k] = t
      <3> HIDE DEF p, k
      <3> QED BY ONLY <2>2
    <2>4. WithEntry(s, i, x) = [a EXCEPT !.mitm = k]
      BY <2>1 DEF WithEntry, ReplaceAt
    <2> QED BY ONLY <2>3, <2>4
  <1>2. /\ p \in Seq(PendingEntry) /\ DOMAIN p = DOMAIN s.pending
        /\ \A j \in DOMAIN p : p[j] = IF j = i THEN x ELSE s.pending[j]
    BY StateParts, ExceptSeq
  <1>3. k \in [Mitm -> MitmRequest] /\ \A m \in Mitm : k[m].progress = s.mitm[m].progress
    <2>1. s.mitm \in [Mitm -> MitmRequest]
      BY StateParts
    <2>2. Settles(k, s.mitm, x)
      BY <2>1, SettledOk
    <2> HIDE DEF k
    <2> QED BY <2>2 DEF Settles
  <1> HIDE DEF p, k
  <1>4. ASSUME NEW j \in DOMAIN p
        PROVE  /\ EntryIsSound(p[j]) /\ p[j].mitm = s.pending[j].mitm
               /\ p[j].mitm # None => k[p[j].mitm].progress # "no"
    <2>1. j \in DOMAIN s.pending /\ s.pending[j] \in PendingEntry
      BY <1>2, StateParts
    <2>2. EntryIsSound(p[j]) /\ p[j].mitm = s.pending[j].mitm
      BY <1>2, <2>1, StateParts DEF ListIsSound
    <2>3. s.pending[j].mitm # None => s.pending[j].mitm \in Mitm
      BY <2>1 DEF PendingEntry
    <2> QED BY <1>3, <2>1, <2>2, <2>3, StateParts DEF ListIsSound
  <1>5. ListIsSound(p, k)
    BY <1>2, <1>4, StateParts DEF ListIsSound
  <1>6. t \in State
    BY <1>2, <1>3, <1>5, StateParts DEF State
  <1> QED BY <1>1, <1>6 DEF p, k

\* A browser's request is queued.
LEMMA QueuedOk ==
  ASSUME NEW s \in State, NEW x \in PendingEntry, EntryIsSound(x), x.mitm = None
  PROVE  /\ [s EXCEPT !.pending = Append(@, x)] \in State
         /\ [s EXCEPT !.pending = Append(@, x)]
              = [pending |-> Append(s.pending, x), dropping |-> s.dropping, mitm |-> s.mitm]
  <1> DEFINE p == Append(s.pending, x)
             t == [pending |-> p, dropping |-> s.dropping, mitm |-> s.mitm]
  <1>1. [s EXCEPT !.pending = Append(@, x)] = t
    BY Rebuilt
  <1>2. /\ p \in Seq(PendingEntry) /\ DOMAIN p = 1..Len(s.pending) + 1
        /\ \A j \in DOMAIN p : IF j = Len(s.pending) + 1 THEN p[j] = x
                              ELSE j \in DOMAIN s.pending /\ p[j] = s.pending[j]
    BY StateParts, AppendProperties
  <1> HIDE DEF p
  <1>3. ListIsSound(p, s.mitm)
    BY <1>2, StateParts DEF ListIsSound
  <1>4. t \in State
    BY <1>2, <1>3, StateParts DEF State
  <1> QED BY <1>1, <1>4 DEF p

\* The headers of a request.
LEMMA HeadersType ==
  ASSUME NEW r \in Request, NEW known
  PROVE  HeadersOf(r, known) \in Request \cup {None, "same"}
  BY DEF HeadersOf

\* The entry x that the one at i becomes when its headers are set again.
Reheads(s, i, h, x) ==
  /\ x = [s.pending[i] EXCEPT !.headers = h]
  /\ [s EXCEPT !.pending[i].headers = h]
       = [pending |-> [s.pending EXCEPT ![i] = x], dropping |-> s.dropping, mitm |-> s.mitm]

\* The headers of an entry are set again.
LEMMA HeadersOk ==
  ASSUME NEW s \in State, NEW i \in 1..Len(s.pending), NEW h \in Request \cup {None, "same"}
  PROVE  /\ [s EXCEPT !.pending[i].headers = h] \in State
         /\ \E x \in PendingEntry : Reheads(s, i, h, x)
  <1> DEFINE x == [s.pending[i] EXCEPT !.headers = h]
             p == [s.pending EXCEPT ![i] = x]
             t == [pending |-> p, dropping |-> s.dropping, mitm |-> s.mitm]
  <1>1. [s EXCEPT !.pending[i].headers = h] = t
    BY Rebuilt
  <1>2. x \in PendingEntry /\ (EntryIsSound(s.pending[i]) => EntryIsSound(x)) /\ x.mitm = s.pending[i].mitm
    <2>1. s.pending[i] \in PendingEntry
      BY StateParts
    <2> QED BY <2>1 DEF PendingEntry, EntryIsSound
  <1> HIDE DEF x
  <1>3. /\ p \in Seq(PendingEntry) /\ DOMAIN p = DOMAIN s.pending
        /\ \A j \in DOMAIN p : p[j] = IF j = i THEN x ELSE s.pending[j]
    BY <1>2, StateParts, ExceptSeq
  <1> HIDE DEF p
  <1>4. ListIsSound(p, s.mitm)
    BY <1>2, <1>3, StateParts DEF ListIsSound
  <1>5. t \in State
    BY <1>3, <1>4, StateParts DEF State
  <1>6. Reheads(s, i, h, x)
    BY <1>1 DEF Reheads, p, x
  <1> QED BY <1>1, <1>2, <1>5, <1>6 DEF p

\* The entry x that updatePendingResource makes of the one at i.
Updates(s, i, r, x) ==
  /\ x.url = s.pending[i].url /\ x.headers = s.pending[i].headers
  /\ x.browser = r /\ x.mitm = s.pending[i].mitm
  /\ x.wait = IF s.pending[i].wait = "open" THEN "resolved" ELSE s.pending[i].wait
  /\ UpdatePendingResource(s, i, r)
       = [pending |-> [s.pending EXCEPT ![i] = x], dropping |-> s.dropping, mitm |-> Settled(s.mitm, x)]

\* updatePendingResource and its entry.
LEMMA UpdateOk ==
  ASSUME NEW s \in State, NEW i \in 1..Len(s.pending), NEW r \in Request
  PROVE  /\ UpdatePendingResource(s, i, r) \in State
         /\ \E x \in PendingEntry : Updates(s, i, r, x)
  <1> DEFINE x == [s.pending[i] EXCEPT !.browser = r, !.wait = IF @ = "open" THEN "resolved" ELSE @]
  <1>1. /\ x \in PendingEntry /\ x.url = s.pending[i].url /\ x.headers = s.pending[i].headers
        /\ x.browser = r /\ x.mitm = s.pending[i].mitm
        /\ x.wait = IF s.pending[i].wait = "open" THEN "resolved" ELSE s.pending[i].wait
    <2>1. s.pending[i] \in PendingEntry
      BY StateParts
    <2> QED BY <2>1 DEF PendingEntry
  <1>2. UpdatePendingResource(s, i, r) = WithEntry(s, i, x)
    BY DEF UpdatePendingResource
  <1> HIDE DEF x
  <1>4. EntryIsSound(x)
    BY <1>1, StateParts DEF EntryIsSound, ListIsSound
  <1>5. /\ WithEntry(s, i, x) \in State
        /\ WithEntry(s, i, x) = [pending |-> [s.pending EXCEPT ![i] = x], dropping |-> s.dropping,
                                 mitm |-> Settled(s.mitm, x)]
    BY <1>1, <1>4, WithEntryOk
  <1> QED BY <1>1, <1>2, <1>5 DEF Updates

\* The entry that resource-will-be-requested adds when it finds none.
NewEntry(r, e) ==
  [url |-> UrlAt(r, e.hop), headers |-> HeadersOf(r, e.headers), browser |-> r, mitm |-> None,
   wait |-> "resolved"]

\* Whatever Resources is told, its parts keep their types and its list stays sound.
LEMMA EventKeepsState ==
  ASSUME NEW s \in State, NEW r \in Request, NEW e \in PageEvent
  PROVE  OnEvent(s, r, e) \subseteq State
  <1>1. e.hop \in Nat /\ e.headers \in BOOLEAN /\ e.kind \in {"will", "was", "loaded", "failed"}
    BY DEF PageEvent
  <1>2. ASSUME e.kind = "will" PROVE OnBrowserWillRequest(s, r, e) \subseteq State
    <2> DEFINE i == FindMatchingRequest(s.pending, UrlAt(r, e.hop), HeadersOf(r, e.headers), r, "any")
               queued == [s EXCEPT !.pending = Append(@, NewEntry(r, e))]
    <2>1. queued \in State
      <3>1. /\ NewEntry(r, e) \in PendingEntry /\ EntryIsSound(NewEntry(r, e))
            /\ NewEntry(r, e).mitm = None
        BY <1>1, HeadersType DEF PendingEntry, NewEntry, Urls, EntryIsSound
      <3> QED BY <3>1, QueuedOk
    <2>2. i # 0 => UpdatePendingResource(s, i, r) \in State
      BY Finds, StateParts, UpdateOk
    <2> QED BY <2>1, <2>2 DEF OnBrowserWillRequest, NewEntry
  <1>3. ASSUME e.kind \in {"was", "loaded"} PROVE OnBrowserDidRequest(s, r, e) \subseteq State
    <2> DEFINE own == OfBrowser(s.pending, r)
               known == IF own = 0 THEN s
                        ELSE [s EXCEPT !.pending[own].headers = HeadersOf(r, e.headers)]
               i == FindMatchingRequest(known.pending, UrlAt(r, e.hop), HeadersOf(r, e.headers), r,
                                        "hasMitmResourceId")
    <2>1. known \in State
      BY FindsOwn, StateParts, HeadersType, HeadersOk
    <2>2. OnBrowserDidRequest(s, r, e) =
            {IF i # 0 /\ known.pending[i].wait = "open" THEN UpdatePendingResource(known, i, r) ELSE known}
      BY DEF OnBrowserDidRequest
    <2> HIDE DEF known
    <2>3. i # 0 => UpdatePendingResource(known, i, r) \in State
      BY <2>1, Finds, StateParts, UpdateOk
    <2> QED BY <2>1, <2>2, <2>3
  <1>4. ASSUME e.kind = "failed" PROVE OnBrowserRequestFailed(s, r, e) \subseteq State
    <2> DEFINE own == OfBrowser(s.pending, r)
               i == IF own # 0 THEN own
                    ELSE FindMatchingRequest(s.pending, UrlAt(r, e.hop), HeadersOf(r, e.headers), r,
                                             "hasMitmResourceId")
    <2>1. i # 0 => i \in 1..Len(s.pending)
      BY FindsOwn, Finds, StateParts
    <2>2. OnBrowserRequestFailed(s, r, e) =
            {IF i = 0 THEN s
             ELSE [UpdatePendingResource(s, i, r) EXCEPT !.dropping = @ \cup ({s.pending[i].mitm} \ {None})]}
      BY DEF OnBrowserRequestFailed
    <2> HIDE DEF i
    <2>3. ASSUME i # 0
          PROVE  [UpdatePendingResource(s, i, r) EXCEPT !.dropping = @ \cup ({s.pending[i].mitm} \ {None})]
                   \in State
      <3>1. PICK t \in State : t = UpdatePendingResource(s, i, r)
        BY <2>1, <2>3, UpdateOk
      <3>2. {s.pending[i].mitm} \ {None} \subseteq Mitm
        BY <2>1, <2>3, StateParts DEF PendingEntry
      <3>3. [t EXCEPT !.dropping = @ \cup ({s.pending[i].mitm} \ {None})] \in State
        BY <3>2 DEF State
      <3> QED BY <3>1, <3>3
    <2> QED BY <2>2, <2>3
  <1> QED BY <1>1, <1>2, <1>3, <1>4 DEF OnEvent

-----------------------------------------------------------------------------
\* Types.

\* A request c of Chrome, its entry q in requestsById and its hops d in redirectsById: a hop once
\* sent is listed with its url until it is over, or until the timer of the memory cache.
ManagerOk(c, q, d) ==
  /\ c.hop <= MaxHops
  /\ c.hop = 0 => ~c.sent /\ ~c.cacheTimer
  /\ c.hop # 0 /\ c.cached # "no" => c.extra
  /\ c.cacheTimer => c.cached = "memory"
  /\ c.paused = "continued" => c.hop # 0
  /\ q # None => q.hop <= c.hop
  /\ (c.sent \/ c.hop > 1) /\ ~c.over => IF q = None THEN c.cached = "memory" ELSE q.hop # 0
  /\ \A i \in DOMAIN d : d[i].hop \in Hop

ManagerTypes ==
  /\ chrome \in [Request -> ChromeRequest]
  /\ requestsById \in [Request -> {None} \cup Listed]
  /\ publishing \in [Request -> Publishing]
  /\ redirectsById \in [Request -> Seq(Listed)]
  /\ environment \in Environments
  /\ \A r \in Request : ManagerOk(chrome[r], requestsById[r], redirectsById[r])

\* Each variable has its type, and no hop has more urls than there are.
TypeInv == ManagerTypes /\ Resources \in State /\ closed \in BOOLEAN

\* What a step must show: what becomes of the one request it changes.
LEMMA ManagerChanged ==
  ASSUME ManagerTypes, NEW r \in Request, NEW c \in ChromeRequest, NEW q \in {None} \cup Listed,
         NEW p \in Publishing, NEW d \in Seq(Listed),
         chrome' = [chrome EXCEPT ![r] = c], requestsById' = [requestsById EXCEPT ![r] = q],
         publishing' = [publishing EXCEPT ![r] = p],
         redirectsById' = [redirectsById EXCEPT ![r] = d],
         environment' = environment, ManagerOk(c, q, d)
  PROVE  ManagerTypes'
  <1>1. ASSUME NEW x \in Request
        PROVE  ManagerOk(chrome'[x], requestsById'[x], redirectsById'[x])
    <2>1. CASE x = r
      <3>1. chrome'[x] = c /\ requestsById'[x] = q /\ redirectsById'[x] = d
        BY <2>1 DEF ManagerTypes
      <3> QED BY <3>1
    <2>2. CASE x # r
      <3>1. /\ chrome'[x] = chrome[x] /\ requestsById'[x] = requestsById[x]
            /\ redirectsById'[x] = redirectsById[x]
        BY <2>2 DEF ManagerTypes
      <3>2. ManagerOk(chrome[x], requestsById[x], redirectsById[x])
        BY DEF ManagerTypes
      <3> QED BY <3>1, <3>2
    <2> QED BY <2>1, <2>2
  <1>2. /\ chrome' \in [Request -> ChromeRequest]
        /\ requestsById' \in [Request -> {None} \cup Listed]
        /\ publishing' \in [Request -> Publishing]
        /\ redirectsById' \in [Request -> Seq(Listed)]
    BY DEF ManagerTypes
  <1> QED BY <1>1, <1>2 DEF ManagerTypes

\* A request's variables have their types.
LEMMA OneOf ==
  ASSUME ManagerTypes, NEW r \in Request
  PROVE  /\ chrome[r] \in ChromeRequest /\ requestsById[r] \in {None} \cup Listed
         /\ publishing[r] \in Publishing /\ redirectsById[r] \in Seq(Listed)
         /\ ManagerOk(chrome[r], requestsById[r], redirectsById[r])
         /\ chrome = [chrome EXCEPT ![r] = chrome[r]]
         /\ requestsById = [requestsById EXCEPT ![r] = requestsById[r]]
         /\ publishing = [publishing EXCEPT ![r] = publishing[r]]
         /\ redirectsById = [redirectsById EXCEPT ![r] = redirectsById[r]]
         /\ Len(environment.url[r]) \in Hop
  BY MatchingAssumption DEF ManagerTypes

\* The manager's step, when only Chrome's request changes.
LEMMA ChromeChanged ==
  ASSUME ManagerTypes, NEW r \in Request, NEW c \in ChromeRequest,
         chrome' = [chrome EXCEPT ![r] = c], UNCHANGED <<managerVars, environment>>,
         ManagerOk(c, requestsById[r], redirectsById[r])
  PROVE  ManagerTypes'
  <1>1. /\ requestsById' = [requestsById EXCEPT ![r] = requestsById[r]]
        /\ publishing' = [publishing EXCEPT ![r] = publishing[r]]
        /\ redirectsById' = [redirectsById EXCEPT ![r] = redirectsById[r]]
    BY OneOf DEF managerVars
  <1> QED BY <1>1, OneOf, ManagerChanged

\* Resources stays as it is, or becomes one of the outcomes.
LEMMA ResourcesStay ==
  ASSUME Resources \in State, UNCHANGED resourceVars
  PROVE  Resources' \in State
  BY DEF Resources, resourceVars

\* Becomes says what Resources is next.
LEMMA BecomesOne ==
  ASSUME NEW S \in SUBSET State, Becomes(S)
  PROVE  Resources' \in S
  <1>1. PICK s \in S : pending' = s.pending /\ dropping' = s.dropping /\ mitm' = s.mitm
    BY DEF Becomes
  <1>2. s = [pending |-> s.pending, dropping |-> s.dropping, mitm |-> s.mitm]
    BY StateParts
  <1>3. Resources' = s
    BY <1>1, <1>2 DEF Resources
  <1> QED BY <1>3

\* The events of a request leave Resources sound.
LEMMA EmitsOk ==
  ASSUME Resources \in State, NEW r \in Request, NEW events \in Seq(PageEvent), Emits(r, events)
  PROVE  Resources' \in State
  <1>1. PICK g : After(g, r, events) /\ Outcomes(r, events) = g[Len(events)]
    BY EventKeepsState, OneByOne
  <1>2. Outcomes(r, events) \in SUBSET State
    <2>1. Len(events) \in 0..Len(events)
      BY LenProperties
    <2> QED BY <1>1, <2>1 DEF After
  <1> QED BY <1>2, BecomesOne DEF Emits

\* The events of a request.
LEMMA EventType ==
  ASSUME NEW kind \in {"will", "was", "loaded", "failed"}, NEW q \in Listed
  PROVE  Event(kind, q) \in PageEvent
  BY DEF Event, PageEvent, Listed

\* What doEmitResourceRequested publishes.
LEMMA PublishesType ==
  ASSUME NEW q \in {None} \cup Listed, NEW p \in Publishing
  PROVE  Publishes(q, p) \in Seq(PageEvent) /\ Published(q, p) \in Publishing
  <1>1. CASE HasUrl(q)
    <2>1. q \in Listed
      BY <1>1 DEF HasUrl
    <2>2. \A k \in {"will", "was"} : Event(k, q) \in PageEvent
      BY <2>1, EventType
    <2>3. Published(q, p) \in Publishing
      BY <1>1 DEF Published, Publishing
    <2> QED BY <2>2, <2>3 DEF Publishes
  <1>2. CASE ~HasUrl(q)
    BY <1>2 DEF Publishes, Published
  <1> QED BY <1>1, <1>2

\* doEmitResourceRequested and emitResourceRequested.
LEMMA DoEmitOk ==
  ASSUME ManagerTypes, Resources \in State, NEW r \in Request, NEW q \in {None} \cup Listed,
         NEW p \in Publishing,
         DoEmitResourceRequested(r, q, p) \/ EmitResourceRequested(r, q, p)
  PROVE  /\ Resources' \in State
         /\ \E x \in Publishing : publishing' = [publishing EXCEPT ![r] = x]
  <1>1. CASE DoEmitResourceRequested(r, q, p)
    BY <1>1, PublishesType, EmitsOk DEF DoEmitResourceRequested
  <1>2. CASE EmitResourceRequested(r, q, p) /\ ~DoEmitResourceRequested(r, q, p)
    <2>1. [p EXCEPT !.timer = TRUE] \in Publishing
      BY DEF Publishing
    <2> QED BY <1>2, <2>1, ResourcesStay DEF EmitResourceRequested
  <1> QED BY <1>1, <1>2

-----------------------------------------------------------------------------
\* Types: the steps of Chrome and NetworkManager.

\* The parts of TypeInv, put together.
LEMMA NextTypes ==
  ASSUME TypeInv, ManagerTypes', Resources' \in State, UNCHANGED environment, closed' \in BOOLEAN
  PROVE  TypeInv'
  <1>1. \A r, n : UrlAt(r, n)' = UrlAt(r, n)
    BY DEF UrlAt
  <1>2. Urls' = Urls
    BY <1>1 DEF Urls
  <1>3. PendingEntry' = PendingEntry
    BY <1>2 DEF PendingEntry
  <1>4. State' = State
    BY <1>3 DEF State
  <1>5. (Resources \in State)'
    BY <1>4
  <1> QED BY ONLY <1>5, ManagerTypes', closed' \in BOOLEAN DEF TypeInv

\* Chrome's own steps.
LEMMA ChromeTypes ==
  ASSUME TypeInv, NEW r \in Request,
         Issue(r) \/ FollowsRedirect(r) \/ OnRequestPaused(r) \/ OnServedFromCache(r)
  PROVE  TypeInv'
  <1> PICK o : o = chrome[r]
    OBVIOUS
  <1>1. o \in ChromeRequest /\ ManagerOk(o, requestsById[r], redirectsById[r])
    BY OneOf DEF TypeInv
  <1>2. 1 \in Nat /\ 1 <= MaxHops
    BY MatchingAssumption
  <1>3. \E c \in ChromeRequest : /\ chrome' = [chrome EXCEPT ![r] = c]
                                 /\ ManagerOk(c, requestsById[r], redirectsById[r])
    <2>1. CASE Issue(r)
      <3> PICK cached \in {"no", "disk", "memory"} :
            chrome' = [chrome EXCEPT ![r].hop = 1, ![r].cached = cached, ![r].extra = cached # "no",
                                     ![r].paused = IF cached = "memory" THEN "done" ELSE "no"]
        BY <2>1 DEF Issue
      <3> PICK x \in BOOLEAN, paused \in {"no", "done"} :
            x = (cached # "no") /\ paused = (IF cached = "memory" THEN "done" ELSE "no")
        OBVIOUS
      <3> PICK c : c = [o EXCEPT !.hop = 1, !.cached = cached, !.extra = x, !.paused = paused]
        OBVIOUS
      <3>1. /\ c \in ChromeRequest /\ c.hop = 1 /\ c.cached = cached /\ c.extra = x
            /\ c.paused = paused
            /\ c.sent = o.sent /\ c.over = o.over /\ c.cacheTimer = o.cacheTimer
        BY <1>1 DEF ChromeRequest
      <3>2. chrome = [chrome EXCEPT ![r] = chrome[r]]
        BY OneOf DEF TypeInv
      <3>3. chrome' = [chrome EXCEPT ![r] = c]
        BY <3>2
      <3>4. o.hop = 0 /\ ~o.sent /\ ~o.cacheTimer
        BY <1>1, <2>1 DEF Issue, ManagerOk
      <3>5. requestsById[r] # None => requestsById[r].hop \in Nat
        BY OneOf DEF TypeInv, Listed
      <3>6. cached # "no" => c.extra
        BY <3>1
      <3>7. ManagerOk(c, requestsById[r], redirectsById[r])
        BY <1>1, <1>2, <3>1, <3>4, <3>5, <3>6 DEF ManagerOk
      <3> QED BY <3>1, <3>3, <3>7
    <2>2. CASE FollowsRedirect(r)
      <3> PICK x \in BOOLEAN, paused \in {"no", "done"} :
            x = (o.cached # "no") /\ paused = (IF o.cached = "memory" THEN "done" ELSE "no")
        OBVIOUS
      <3> PICK h \in Nat : h = o.hop + 1
        BY <1>1 DEF ChromeRequest
      <3> PICK c : c = [o EXCEPT !.hop = h, !.sent = FALSE, !.extra = x, !.paused = paused]
        OBVIOUS
      <3>1. /\ c \in ChromeRequest /\ c.hop = h /\ c.cached = o.cached /\ c.extra = x
            /\ c.paused = paused
            /\ c.sent = FALSE /\ c.over = o.over /\ c.cacheTimer = o.cacheTimer
        BY <1>1 DEF ChromeRequest
      <3>2. chrome' = [chrome EXCEPT ![r] = c]
        BY <2>2, OneOf DEF TypeInv, FollowsRedirect
      <3>3. o.hop \in 1..Len(environment.url[r]) - 1 /\ o.sent /\ ~o.over
        BY <2>2 DEF FollowsRedirect
      <3>4. Len(environment.url[r]) \in Nat /\ Len(environment.url[r]) <= MaxHops /\ MaxHops \in Nat
        BY OneOf, MatchingAssumption DEF TypeInv, Hop
      <3>5. requestsById[r] # None => requestsById[r].hop \in Nat
        BY OneOf DEF TypeInv, Listed
      <3>6. o.hop \in Nat /\ h <= MaxHops /\ h # 0 /\ o.hop <= h /\ o.hop # 0
        BY <3>3, <3>4
      <3>7. requestsById[r] # None => requestsById[r].hop <= h
        BY <1>1, <3>5, <3>6 DEF ManagerOk
      <3>8. o.cached # "no" => c.extra
        BY <3>1
      <3>9. ManagerOk(c, requestsById[r], redirectsById[r])
        BY <1>1, <3>1, <3>3, <3>6, <3>7, <3>8 DEF ManagerOk
      <3> QED BY <3>1, <3>2, <3>9
    <2>3. CASE OnRequestPaused(r)
      <3> PICK c : c = [o EXCEPT !.paused = "continued"]
        OBVIOUS
      <3>1. /\ c \in ChromeRequest /\ c.hop = o.hop /\ c.cached = o.cached /\ c.extra = o.extra
            /\ c.sent = o.sent /\ c.over = o.over /\ c.cacheTimer = o.cacheTimer
        BY <1>1 DEF ChromeRequest
      <3>2. chrome' = [chrome EXCEPT ![r] = c]
        BY <2>3 DEF TypeInv, ManagerTypes, OnRequestPaused
      <3>3. o.hop # 0
        BY <2>3 DEF OnRequestPaused
      <3> QED BY <1>1, <3>1, <3>2, <3>3 DEF ManagerOk
    <2>4. CASE OnServedFromCache(r)
      <3> PICK c : c = [o EXCEPT !.cacheTimer = TRUE]
        OBVIOUS
      <3>1. /\ c \in ChromeRequest /\ c.hop = o.hop /\ c.cached = o.cached /\ c.extra = o.extra
            /\ c.sent = o.sent /\ c.over = o.over /\ c.cacheTimer = TRUE /\ c.paused = o.paused
        BY <1>1 DEF ChromeRequest
      <3>2. chrome' = [chrome EXCEPT ![r] = c]
        BY <2>4 DEF TypeInv, ManagerTypes, OnServedFromCache
      <3>3. o.cached = "memory" /\ o.sent
        BY <2>4 DEF OnServedFromCache
      <3> QED BY <1>1, <3>1, <3>2, <3>3 DEF ManagerOk
    <2> QED BY <2>1, <2>2, <2>3, <2>4
  <1>4. UNCHANGED <<managerVars, resourceVars, closed, environment>>
    BY DEF Issue, FollowsRedirect, OnRequestPaused, OnServedFromCache
  <1>5. ManagerTypes'
    BY <1>3, <1>4, ChromeChanged DEF TypeInv
  <1>6. Resources' \in State /\ closed' \in BOOLEAN
    BY <1>4, ResourcesStay DEF TypeInv
  <1> QED BY <1>4, <1>5, <1>6, NextTypes

\* requestWillBeSent lists a hop, and the one before it as redirected.
LEMMA OnRequestWillBeSentTypes ==
  ASSUME TypeInv, NEW r \in Request, OnRequestWillBeSent(r)
  PROVE  TypeInv'
  <1> DEFINE hop == chrome[r].hop
             existing == requestsById[r]
             isNewRedirect == hop > 1 /\ existing # None
             q == [hop |-> hop, headers |-> existing # None /\ ~isNewRedirect /\ existing.headers]
             o == [publishing[r] EXCEPT !.sentEvent = TRUE]
             p == IF isNewRedirect THEN Redirected(o) ELSE o
             d == IF isNewRedirect THEN Append(redirectsById[r], existing) ELSE redirectsById[r]
             c == [chrome[r] EXCEPT !.sent = TRUE]
  <1>0. ManagerTypes /\ Resources \in State
    BY DEF TypeInv
  <1>1. /\ chrome[r] \in ChromeRequest /\ hop \in Nat /\ hop # 0 /\ existing \in {None} \cup Listed
        /\ redirectsById[r] \in Seq(Listed) /\ ~chrome[r].over
        /\ ManagerOk(chrome[r], existing, redirectsById[r])
    BY <1>0, OneOf DEF OnRequestWillBeSent, ChromeRequest
  <1>2. q \in Listed /\ q # None /\ q.hop = hop
    <2>1. q \in Listed /\ q.hop = hop
      BY <1>1 DEF Listed
    <2> QED BY <2>1, ListedIsSome
  <1>3. p \in Publishing
    BY <1>0, OneOf DEF Redirected, Publishing
  <1>4. /\ c \in ChromeRequest /\ c.hop = hop /\ c.cached = chrome[r].cached /\ c.sent = TRUE
        /\ c.extra = chrome[r].extra /\ c.over = chrome[r].over /\ c.paused = chrome[r].paused
        /\ c.cacheTimer = chrome[r].cacheTimer
    BY <1>1 DEF ChromeRequest
  <1>5. d \in Seq(Listed) /\ \A i \in DOMAIN d : d[i].hop \in Hop
    <2>1. CASE isNewRedirect
      <3>1. existing \in Listed /\ existing.hop \in Hop
        BY <1>1, <2>1, MatchingAssumption DEF ManagerOk, Listed, Hop
      <3>2. d = Append(redirectsById[r], existing)
        BY <2>1
      <3> HIDE DEF d, isNewRedirect, existing
      <3> QED BY <1>1, <3>1, <3>2, AppendProperties DEF ManagerOk
    <2>2. CASE ~isNewRedirect
      BY <1>1, <2>2 DEF ManagerOk
    <2> QED BY <2>1, <2>2
  <1>6. /\ chrome' = [chrome EXCEPT ![r] = c] /\ requestsById' = [requestsById EXCEPT ![r] = q]
        /\ redirectsById' = [redirectsById EXCEPT ![r] = d]
        /\ EmitResourceRequested(r, q, p) /\ closed' = closed /\ environment' = environment
    BY <1>0, OneOf DEF OnRequestWillBeSent
  <1>7. ManagerOk(c, q, d)
    BY <1>1, <1>2, <1>4, <1>5 DEF ManagerOk
  <1> HIDE DEF c, q, d, p, hop
  <1>8. Resources' \in State /\ \E x \in Publishing : publishing' = [publishing EXCEPT ![r] = x]
    BY <1>0, <1>2, <1>3, <1>6, DoEmitOk
  <1>9. ManagerTypes'
    BY <1>0, <1>2, <1>4, <1>5, <1>6, <1>7, <1>8, ManagerChanged
  <1>10. closed' \in BOOLEAN
    BY <1>6 DEF TypeInv
  <1> QED BY <1>6, <1>8, <1>9, <1>10, NextTypes

\* Events that change the entry of a request, and may publish it.
LEMMA ListedTypes ==
  ASSUME TypeInv, NEW r \in Request, NEW c \in ChromeRequest, NEW q \in {None} \cup Listed,
         chrome' = [chrome EXCEPT ![r] = c], requestsById' = [requestsById EXCEPT ![r] = q],
         UNCHANGED <<redirectsById, closed, environment>>, ManagerOk(c, q, redirectsById[r]),
         \/ DoEmitResourceRequested(r, q, publishing[r])
         \/ EmitResourceRequested(r, q, publishing[r])
         \/ UNCHANGED <<publishing, resourceVars>>
  PROVE  TypeInv'
  <1>1. Resources' \in State /\ \E x \in Publishing : publishing' = [publishing EXCEPT ![r] = x]
    BY OneOf, DoEmitOk, ResourcesStay DEF TypeInv
  <1>2. redirectsById' = [redirectsById EXCEPT ![r] = redirectsById[r]]
    BY OneOf DEF TypeInv
  <1>3. ManagerTypes'
    BY <1>1, <1>2, OneOf, ManagerChanged DEF TypeInv
  <1>4. closed' \in BOOLEAN
    BY DEF TypeInv
  <1> QED BY <1>1, <1>3, <1>4, NextTypes

\* requestWillBeSentExtraInfo.
LEMMA OnExtraInfoTypes ==
  ASSUME TypeInv, NEW r \in Request, OnExtraInfo(r)
  PROVE  TypeInv'
  <1> DEFINE q == IF requestsById[r] = None THEN [hop |-> 0, headers |-> TRUE]
                  ELSE [requestsById[r] EXCEPT !.headers = TRUE]
             c == [chrome[r] EXCEPT !.extra = TRUE]
  <1>1. /\ chrome[r] \in ChromeRequest /\ chrome[r].hop # 0 /\ ~chrome[r].extra
        /\ requestsById[r] \in {None} \cup Listed
        /\ ManagerOk(chrome[r], requestsById[r], redirectsById[r])
    BY OneOf DEF TypeInv, OnExtraInfo
  <1>2. q \in Listed /\ q.hop = IF requestsById[r] = None THEN 0 ELSE requestsById[r].hop
    BY <1>1 DEF Listed
  <1>3. q # None
    BY <1>2, ListedIsSome
  <1>4. /\ c \in ChromeRequest /\ c.hop = chrome[r].hop /\ c.cached = chrome[r].cached
        /\ c.sent = chrome[r].sent /\ c.extra = TRUE /\ c.over = chrome[r].over
        /\ c.paused = chrome[r].paused /\ c.cacheTimer = chrome[r].cacheTimer /\ c.hop \in Nat
    BY <1>1 DEF ChromeRequest
  <1>5. /\ chrome' = [chrome EXCEPT ![r] = c] /\ requestsById' = [requestsById EXCEPT ![r] = q]
        /\ UNCHANGED <<redirectsById, closed, environment>>
        /\ \/ DoEmitResourceRequested(r, q, publishing[r])
           \/ UNCHANGED <<publishing, resourceVars>>
    BY DEF OnExtraInfo
  <1> HIDE DEF c, q
  <1>6. ManagerOk(c, q, redirectsById[r])
    BY <1>1, <1>2, <1>3, <1>4 DEF ManagerOk
  <1> QED BY <1>2, <1>4, <1>5, <1>6, ListedTypes

\* requestPaused, when Chrome has answered.
LEMMA OnContinuedTypes ==
  ASSUME TypeInv, NEW r \in Request, OnContinued(r)
  PROVE  TypeInv'
  <1> DEFINE q == IF requestsById[r] = None THEN [hop |-> chrome[r].hop, headers |-> FALSE]
                  ELSE requestsById[r]
             c == [chrome[r] EXCEPT !.paused = "done"]
  <1>1. /\ chrome[r] \in ChromeRequest /\ chrome[r].hop \in Nat /\ chrome[r].paused = "continued"
        /\ requestsById[r] \in {None} \cup Listed
        /\ ManagerOk(chrome[r], requestsById[r], redirectsById[r])
    BY OneOf DEF TypeInv, OnContinued, ChromeRequest
  <1>2. q \in Listed /\ q.hop = IF requestsById[r] = None THEN chrome[r].hop ELSE requestsById[r].hop
    BY <1>1 DEF Listed
  <1>3. q # None
    BY <1>2, ListedIsSome
  <1>4. /\ c \in ChromeRequest /\ c.hop = chrome[r].hop /\ c.cached = chrome[r].cached
        /\ c.sent = chrome[r].sent /\ c.extra = chrome[r].extra /\ c.over = chrome[r].over
        /\ c.paused = "done" /\ c.cacheTimer = chrome[r].cacheTimer
    BY <1>1 DEF ChromeRequest
  <1>5. /\ chrome' = [chrome EXCEPT ![r] = c] /\ requestsById' = [requestsById EXCEPT ![r] = q]
        /\ UNCHANGED <<redirectsById, closed, environment>>
        /\ EmitResourceRequested(r, q, publishing[r])
    BY DEF OnContinued
  <1> HIDE DEF c, q
  <1>6. ManagerOk(c, q, redirectsById[r])
    BY <1>1, <1>2, <1>3, <1>4 DEF ManagerOk
  <1> QED BY <1>2, <1>4, <1>5, <1>6, ListedTypes

\* The timer of publishing.
LEMMA PublishTimerTypes ==
  ASSUME TypeInv, NEW r \in Request, PublishTimer(r)
  PROVE  TypeInv'
  <1>1. /\ UNCHANGED <<chrome, requestsById, redirectsById, closed, environment>>
        /\ DoEmitResourceRequested(r, requestsById[r], publishing[r])
    BY DEF PublishTimer
  <1> QED BY <1>1, OneOf, ListedTypes DEF TypeInv

\* responseReceived.
LEMMA OnResponseReceivedTypes ==
  ASSUME TypeInv, NEW r \in Request, OnResponseReceived(r)
  PROVE  TypeInv'
  <1> DEFINE q == IF requestsById[r] # None /\ ~HasUrl(requestsById[r])
                  THEN [requestsById[r] EXCEPT !.hop = chrome[r].hop] ELSE requestsById[r]
             c == [chrome[r] EXCEPT !.received = TRUE]
  <1>1. /\ chrome[r] \in ChromeRequest /\ chrome[r].hop \in Nat
        /\ requestsById[r] \in {None} \cup Listed
        /\ ManagerOk(chrome[r], requestsById[r], redirectsById[r])
        /\ chrome[r].hop = Len(environment.url[r]) /\ Len(environment.url[r]) \in Hop
    BY OneOf DEF TypeInv, OnResponseReceived, ChromeRequest
  <1>2. /\ q \in {None} \cup Listed
        /\ \/ q = requestsById[r]
           \/ q \in Listed /\ requestsById[r] # None /\ q.hop = chrome[r].hop
    BY <1>1 DEF Listed
  <1>3. /\ c \in ChromeRequest /\ c.hop = chrome[r].hop /\ c.cached = chrome[r].cached
        /\ c.sent = chrome[r].sent /\ c.extra = chrome[r].extra /\ c.over = chrome[r].over
        /\ c.paused = chrome[r].paused /\ c.cacheTimer = chrome[r].cacheTimer
    BY <1>1 DEF ChromeRequest
  <1>4. /\ chrome' = [chrome EXCEPT ![r] = c] /\ requestsById' = [requestsById EXCEPT ![r] = q]
        /\ UNCHANGED <<redirectsById, closed, environment>>
        /\ \/ DoEmitResourceRequested(r, q, publishing[r])
           \/ UNCHANGED <<publishing, resourceVars>>
    BY DEF OnResponseReceived
  <1>5. chrome[r].hop # 0
    BY <1>1, MatchingAssumption DEF Hop
  <1> HIDE DEF c, q
  <1>6. ManagerOk(c, q, redirectsById[r])
    BY <1>1, <1>2, <1>3, <1>5, ListedIsSome DEF ManagerOk
  <1> QED BY <1>2, <1>3, <1>4, <1>6, ListedTypes

\* The events of a request that is over: its redirects, then itself.
LEMMA LoadsType ==
  ASSUME NEW q \in Listed, NEW p \in Publishing, NEW d \in Seq(Listed)
  PROVE  /\ Loads(q, p, d) \in Seq(PageEvent) /\ Fails(q, p) \in Seq(PageEvent)
         /\ LoadedRedirects(d) \in Seq(PageEvent) /\ Publishes(q, p) \in Seq(PageEvent)
         /\ <<Event("loaded", q)>> \in Seq(PageEvent)
  <1>1. Publishes(q, p) \in Seq(PageEvent)
    BY PublishesType
  <1>2. LoadedRedirects(d) \in Seq(PageEvent)
    <2>1. \A i \in 1..Len(d) : Event("loaded", d[i]) \in PageEvent
      BY EventType
    <2> QED BY <2>1 DEF LoadedRedirects
  <1>3. <<Event("loaded", q)>> \in Seq(PageEvent) /\ <<Event("failed", q)>> \in Seq(PageEvent)
    <2>1. Event("loaded", q) \in PageEvent /\ Event("failed", q) \in PageEvent
      BY EventType
    <2> QED BY <2>1
  <1> DEFINE first == IF ~p.published /\ p.timer THEN Publishes(q, p) ELSE <<>>
             failed == IF ~p.published THEN Publishes(q, p) ELSE <<>>
  <1>4. first \in Seq(PageEvent) /\ failed \in Seq(PageEvent)
    BY <1>1
  <1>5. Fails(q, p) = failed \o <<Event("failed", q)>>
    BY DEF Fails
  <1>6. Loads(q, p, d) = first \o LoadedRedirects(d) \o <<Event("loaded", q)>>
    BY DEF Loads
  <1> HIDE DEF first, failed
  <1>7. Fails(q, p) \in Seq(PageEvent)
    BY ONLY <1>3, <1>4, <1>5, ConcatProperties
  <1>8. first \o LoadedRedirects(d) \in Seq(PageEvent)
    BY ONLY <1>2, <1>4, ConcatProperties
  <1>9. Loads(q, p, d) \in Seq(PageEvent)
    BY ONLY <1>3, <1>6, <1>8, ConcatProperties
  <1> QED BY <1>1, <1>2, <1>3, <1>7, <1>9

\* A request c that is over is forgotten.
LEMMA ForgetTypes ==
  ASSUME TypeInv, NEW r \in Request, NEW c \in ChromeRequest, NEW events \in Seq(PageEvent),
         chrome' = [chrome EXCEPT ![r] = c], UNCHANGED <<closed, environment>>,
         ManagerOk(c, requestsById[r], redirectsById[r]),
         c.over \/ c.cached = "memory",
         \/ Emits(r, events) /\ Forget(r)
         \/ UNCHANGED <<managerVars, resourceVars>>
  PROVE  TypeInv'
  <1>0. ManagerTypes /\ Resources \in State /\ closed' \in BOOLEAN
    BY DEF TypeInv
  <1>1. Resources' \in State
    BY <1>0, EmitsOk, ResourcesStay
  <1>2. CASE Forget(r)
    <2>1. NoPublishing \in Publishing /\ <<>> \in Seq(Listed)
      BY DEF NoPublishing, Publishing
    <2>2. ManagerOk(c, None, <<>>)
      BY DEF ManagerOk
    <2>3. ManagerTypes'
      BY <1>0, <1>2, <2>1, <2>2, ManagerChanged DEF Forget
    <2> QED BY <1>0, <1>1, <2>3, NextTypes
  <1>3. CASE UNCHANGED <<managerVars, resourceVars>>
    <2>1. ManagerTypes'
      BY <1>0, <1>3, ChromeChanged
    <2> QED BY <1>0, <1>1, <2>1, NextTypes
  <1> QED BY <1>2, <1>3

\* loadingFinished and the timer of the memory cache.
LEMMA LoadedTypes ==
  ASSUME TypeInv, NEW r \in Request, OnLoadingFinished(r) \/ CacheTimer(r)
  PROVE  TypeInv'
  <1>1. /\ chrome[r] \in ChromeRequest /\ requestsById[r] \in {None} \cup Listed
        /\ publishing[r] \in Publishing /\ redirectsById[r] \in Seq(Listed)
        /\ ManagerOk(chrome[r], requestsById[r], redirectsById[r])
    BY OneOf DEF TypeInv
  <1>2. \E c \in ChromeRequest :
           /\ chrome' = [chrome EXCEPT ![r] = c] /\ (c.over \/ c.cached = "memory")
           /\ ManagerOk(c, requestsById[r], redirectsById[r])
    <2>1. CASE OnLoadingFinished(r)
      <3> PICK c : c = [chrome[r] EXCEPT !.over = TRUE]
        OBVIOUS
      <3>1. /\ c \in ChromeRequest /\ c.hop = chrome[r].hop /\ c.cached = chrome[r].cached
            /\ c.sent = chrome[r].sent /\ c.extra = chrome[r].extra /\ c.over = TRUE
            /\ c.paused = chrome[r].paused /\ c.cacheTimer = chrome[r].cacheTimer
        BY <1>1 DEF ChromeRequest
      <3>2. chrome' = [chrome EXCEPT ![r] = c]
        BY <2>1 DEF OnLoadingFinished
      <3> QED BY <1>1, <3>1, <3>2 DEF ManagerOk
    <2>2. CASE CacheTimer(r)
      <3> PICK c : c = [chrome[r] EXCEPT !.cacheTimer = FALSE]
        OBVIOUS
      <3>1. /\ c \in ChromeRequest /\ c.hop = chrome[r].hop /\ c.cached = chrome[r].cached
            /\ c.sent = chrome[r].sent /\ c.extra = chrome[r].extra /\ c.over = chrome[r].over
            /\ c.paused = chrome[r].paused /\ c.cacheTimer = FALSE
        BY <1>1 DEF ChromeRequest
      <3>2. chrome' = [chrome EXCEPT ![r] = c] /\ chrome[r].cacheTimer
        BY <2>2 DEF CacheTimer
      <3> QED BY <1>1, <3>1, <3>2 DEF ManagerOk
    <2> QED BY <2>1, <2>2
  <1>3. /\ UNCHANGED <<closed, environment>>
        /\ \/ \E events \in Seq(PageEvent) : Emits(r, events) /\ Forget(r)
           \/ UNCHANGED <<managerVars, resourceVars>>
    <2>1. EmitLoaded(r) /\ UNCHANGED <<closed, environment>>
      BY DEF OnLoadingFinished, CacheTimer
    <2>2. CASE requestsById[r] = None
      BY <2>1, <2>2 DEF EmitLoaded
    <2>3. CASE requestsById[r] # None
      <3>1. Emits(r, Loads(requestsById[r], publishing[r], redirectsById[r])) /\ Forget(r)
        BY <2>1, <2>3 DEF EmitLoaded, Loads, LoadedRedirects
      <3>2. Loads(requestsById[r], publishing[r], redirectsById[r]) \in Seq(PageEvent)
        BY <1>1, <2>3, LoadsType
      <3> QED BY <2>1, <3>1, <3>2
    <2> QED BY <2>2, <2>3
  <1>4. <<>> \in Seq(PageEvent)
    OBVIOUS
  <1> QED BY <1>2, <1>3, <1>4, ForgetTypes

\* loadingFailed.
LEMMA OnLoadingFailedTypes ==
  ASSUME TypeInv, NEW r \in Request, OnLoadingFailed(r)
  PROVE  TypeInv'
  <1>1. /\ chrome[r] \in ChromeRequest /\ requestsById[r] \in {None} \cup Listed
        /\ publishing[r] \in Publishing /\ redirectsById[r] \in Seq(Listed)
        /\ ManagerOk(chrome[r], requestsById[r], redirectsById[r])
    BY OneOf DEF TypeInv
  <1> PICK c : c = [chrome[r] EXCEPT !.over = TRUE]
    OBVIOUS
  <1>2. /\ c \in ChromeRequest /\ c.hop = chrome[r].hop /\ c.cached = chrome[r].cached
        /\ c.sent = chrome[r].sent /\ c.extra = chrome[r].extra /\ c.over = TRUE
        /\ c.paused = chrome[r].paused /\ c.cacheTimer = chrome[r].cacheTimer
    BY <1>1 DEF ChromeRequest
  <1>3. chrome' = [chrome EXCEPT ![r] = c] /\ UNCHANGED <<closed, environment>>
    BY DEF OnLoadingFailed
  <1>4. ManagerOk(c, requestsById[r], redirectsById[r])
    BY <1>1, <1>2 DEF ManagerOk
  <1>5. \/ \E events \in Seq(PageEvent) : Emits(r, events) /\ Forget(r)
        \/ UNCHANGED <<managerVars, resourceVars>>
    <2>1. CASE HasUrl(requestsById[r])
      <3>1. Emits(r, Fails(requestsById[r], publishing[r])) /\ Forget(r)
        BY <2>1 DEF OnLoadingFailed, Fails
      <3>2. Fails(requestsById[r], publishing[r]) \in Seq(PageEvent)
        BY <1>1, <2>1, LoadsType DEF HasUrl
      <3> QED BY <3>1, <3>2
    <2>2. CASE ~HasUrl(requestsById[r])
      BY <2>2 DEF OnLoadingFailed
    <2> QED BY <2>1, <2>2
  <1>6. <<>> \in Seq(PageEvent)
    OBVIOUS
  <1> QED BY <1>2, <1>3, <1>4, <1>5, <1>6, ForgetTypes

-----------------------------------------------------------------------------
\* Types: the steps of the proxy.

\* The steps that leave NetworkManager and Chrome alone.
LEMMA ProxyStep ==
  ASSUME TypeInv, UNCHANGED <<chrome, managerVars, environment>>, Resources' \in State,
         closed' \in BOOLEAN
  PROVE  TypeInv'
  <1>1. ManagerTypes'
    BY DEF TypeInv, ManagerTypes, managerVars
  <1> QED BY <1>1, NextTypes

\* The requests of the proxy change, but the list and the timers do not.
LEMMA MitmChanges ==
  ASSUME TypeInv, NEW k \in [Mitm -> MitmRequest], mitm' = k,
         \A m \in Mitm : mitm[m].progress # "no" => k[m].progress # "no",
         UNCHANGED <<pending, dropping>>
  PROVE  Resources' \in State
  <1>1. /\ pending \in Seq(PendingEntry) /\ dropping \in SUBSET Mitm /\ ListIsSound(pending, mitm)
        /\ \A i \in DOMAIN pending : pending[i] \in PendingEntry
    BY StateParts DEF TypeInv, Resources
  <1>2. \A i \in DOMAIN pending : pending[i].mitm # None => pending[i].mitm \in Mitm
    BY <1>1 DEF PendingEntry
  <1>3. ListIsSound(pending, k)
    BY <1>1, <1>2 DEF ListIsSound
  <1> QED BY <1>1, <1>3 DEF State, Resources

\* The proxy answers a request, or fails.
LEMMA AnswerTypes ==
  ASSUME TypeInv, NEW m \in Mitm, Answer(m) \/ OnMitmError(m)
  PROVE  TypeInv'
  <1>1. mitm \in [Mitm -> MitmRequest]
    BY StateParts DEF TypeInv, Resources
  <1>2. PICK x \in {"answered", "failed"} : mitm' = [mitm EXCEPT ![m].progress = x]
    BY DEF Answer, OnMitmError
  <1> PICK k : k = [mitm EXCEPT ![m].progress = x]
    OBVIOUS
  <1>3. k \in [Mitm -> MitmRequest] /\ \A n \in Mitm : mitm[n].progress # "no" => k[n].progress # "no"
    BY <1>1 DEF MitmRequest
  <1>4. UNCHANGED <<chrome, managerVars, environment, pending, dropping, closed>>
    BY DEF Answer, OnMitmError
  <1>5. Resources' \in State
    BY <1>2, <1>3, <1>4, MitmChanges
  <1>6. closed' \in BOOLEAN
    BY <1>4 DEF TypeInv
  <1> QED BY <1>4, <1>5, <1>6, ProxyStep

\* A list without its entry i.
LEMMA Removed ==
  ASSUME NEW list \in Seq(PendingEntry), NEW i \in 1..Len(list)
  PROVE  /\ RemoveAt(list, i) \in Seq(PendingEntry) /\ DOMAIN RemoveAt(list, i) = 1..Len(list) - 1
         /\ \A j \in 1..Len(list) - 1 : RemoveAt(list, i)[j] = IF j < i THEN list[j] ELSE list[j + 1]
  <1> DEFINE a == SubSeq(list, 1, i - 1)
             b == SubSeq(list, i + 1, Len(list))
  <1>1. /\ a \in Seq(PendingEntry) /\ Len(a) = i - 1
        /\ \A j \in 1..i-1 : a[j] = list[j]
    BY SubSeqProperties
  <1>2. /\ b \in Seq(PendingEntry) /\ Len(b) = Len(list) - i
        /\ \A j \in 1..Len(list)-i : b[j] = list[i + j]
    BY SubSeqProperties
  <1>3. RemoveAt(list, i) = a \o b
    BY DEF RemoveAt
  <1> HIDE DEF a, b
  <1>4. Len(list) \in Nat /\ Len(a) + Len(b) = Len(list) - 1
    BY <1>1, <1>2
  <1>5. /\ a \o b \in Seq(PendingEntry) /\ Len(a \o b) = Len(list) - 1
        /\ \A j \in 1..Len(list)-1 : (a \o b)[j] = IF j <= Len(a) THEN a[j] ELSE b[j - Len(a)]
    <2>1. /\ a \o b \in Seq(PendingEntry) /\ Len(a \o b) = Len(a) + Len(b)
          /\ \A j \in 1..Len(a) + Len(b) : (a \o b)[j] = IF j <= Len(a) THEN a[j] ELSE b[j - Len(a)]
      BY ONLY <1>1, <1>2, ConcatProperties
    <2> QED BY ONLY <1>4, <2>1
  <1>6. ASSUME NEW j \in 1..Len(list)-1
        PROVE  (a \o b)[j] = IF j < i THEN list[j] ELSE list[j + 1]
    <2>1. CASE j < i
      BY <1>1, <1>5, <2>1
    <2>2. CASE ~(j < i)
      <3>1. j - (i - 1) \in 1..Len(list)-i /\ i + (j - (i - 1)) = j + 1 /\ ~(j <= i - 1)
        BY <1>4, <2>2
      <3> QED BY <1>1, <1>2, <1>5, <2>2, <3>1
    <2> QED BY <2>1, <2>2
  <1>7. DOMAIN (a \o b) = 1..Len(list) - 1
    BY <1>5
  <1> QED BY ONLY <1>3, <1>5, <1>6, <1>7

\* It stays sound.
LEMMA RemovedSound ==
  ASSUME NEW list \in Seq(PendingEntry), NEW k, ListIsSound(list, k), NEW i \in 1..Len(list)
  PROVE  ListIsSound(RemoveAt(list, i), k)
  <1> DEFINE l == RemoveAt(list, i)
             at(j) == IF j < i THEN j ELSE j + 1
  <1>1. /\ DOMAIN l = 1..Len(list) - 1
        /\ \A j \in 1..Len(list) - 1 : l[j] = IF j < i THEN list[j] ELSE list[j + 1]
    BY Removed
  <1>2. \A j \in DOMAIN l : at(j) \in 1..Len(list) /\ l[j] = list[at(j)] /\ j \in Nat
    BY <1>1
  <1>3. \A a, b \in DOMAIN l : at(a) = at(b) => a = b
    BY <1>1
  <1>4. DOMAIN list = 1..Len(list)
    OBVIOUS
  <1> HIDE DEF l, at
  <1>5. ListIsSound(l, k)
    BY <1>2, <1>3, <1>4 DEF ListIsSound
  <1> QED BY <1>5 DEF l

\* The entry of a request of the proxy is taken from the list.
LEMMA ResolvedOk ==
  ASSUME TypeInv, NEW m \in Mitm, RequestIsResolved(m)
  PROVE  /\ pending' \in Seq(PendingEntry)
         /\ \A k : ListIsSound(pending, k) => ListIsSound(pending', k)
         /\ \/ pending' = pending /\ \A j \in DOMAIN pending : pending[j].mitm # m
            \/ \E i \in DOMAIN pending : pending[i].mitm = m /\ pending' = RemoveAt(pending, i)
  <1>1. pending \in Seq(PendingEntry) /\ DOMAIN pending = 1..Len(pending)
    BY StateParts DEF TypeInv, Resources
  <1> DEFINE I == {j \in 1..Len(pending) : pending[j].mitm = m}
             i == IF I # {} THEN Min(I) ELSE 0
  <1>2. pending' = IF i = 0 THEN pending ELSE RemoveAt(pending, i)
    BY DEF RequestIsResolved, SelectInSeq
  <1>3. I \in SUBSET Nat /\ 0 \notin I
    BY <1>1
  <1>4. i # 0 => i \in 1..Len(pending) /\ pending[i].mitm = m
    <2> HIDE DEF I
    <2>1. I # {} => i \in I
      BY <1>3, MinIsLeast
    <2>2. i # 0 => i \in I
      BY <2>1
    <2> QED BY <2>2 DEF I
  <1>5. i = 0 => \A j \in DOMAIN pending : pending[j].mitm # m
    <2> HIDE DEF I
    <2>1. I # {} => i \in I
      BY <1>3, MinIsLeast
    <2>2. i = 0 => I = {}
      BY <1>3, <2>1
    <2> QED BY <1>1, <2>2 DEF I
  <1> HIDE DEF i
  <1>6. CASE i = 0
    BY <1>1, <1>2, <1>5, <1>6
  <1>7. CASE i # 0
    <2>1. i \in DOMAIN pending /\ pending' = RemoveAt(pending, i) /\ pending[i].mitm = m
      BY <1>1, <1>2, <1>4, <1>7
    <2>2. pending' \in Seq(PendingEntry)
      BY <1>1, <2>1, Removed
    <2>3. \A k : ListIsSound(pending, k) => ListIsSound(pending', k)
      BY <1>1, <2>1, RemovedSound
    <2> QED BY <2>1, <2>2, <2>3
  <1> QED BY <1>6, <1>7

\* The proxy has recorded a response; a timer drops the entry of a request that failed.
LEMMA ResolvedTypes ==
  ASSUME TypeInv, NEW m \in Mitm, OnMitmResponse(m) \/ FailedTimer(m)
  PROVE  TypeInv'
  <1>1. /\ pending \in Seq(PendingEntry) /\ dropping \in SUBSET Mitm
        /\ mitm \in [Mitm -> MitmRequest] /\ ListIsSound(pending, mitm)
        /\ \A i \in DOMAIN pending : pending[i] \in PendingEntry
    BY StateParts DEF TypeInv, Resources
  <1>2. /\ UNCHANGED <<chrome, managerVars, environment, closed>> /\ RequestIsResolved(m)
        /\ dropping' \in SUBSET Mitm
    BY <1>1 DEF OnMitmResponse, FailedTimer
  <1>3. /\ mitm' \in [Mitm -> MitmRequest]
        /\ \A n \in Mitm : mitm[n].progress # "no" => mitm'[n].progress # "no"
    BY <1>1 DEF OnMitmResponse, FailedTimer, MitmRequest
  <1>4. ListIsSound(pending, mitm')
    <2>1. \A i \in DOMAIN pending : pending[i].mitm # None => pending[i].mitm \in Mitm
      BY <1>1 DEF PendingEntry
    <2> QED BY <1>1, <1>3, <2>1 DEF ListIsSound
  <1>5. pending' \in Seq(PendingEntry) /\ ListIsSound(pending', mitm')
    BY <1>2, <1>4, ResolvedOk
  <1>6. Resources' \in State
    BY <1>2, <1>3, <1>5 DEF State, Resources
  <1>7. closed' \in BOOLEAN
    BY <1>2 DEF TypeInv
  <1> QED BY <1>2, <1>6, <1>7, ProxyStep

\* The 5 s of a wait run out.
LEMMA PendingTimerTypes ==
  ASSUME TypeInv, NEW m \in Mitm, PendingTimer(m)
  PROVE  TypeInv'
  <1>1. PICK i \in DOMAIN pending :
          /\ pending[i].mitm = m /\ pending[i].wait = "open"
          /\ Becomes({WithEntry(Resources, i, [pending[i] EXCEPT !.wait = "rejected"])})
          /\ UNCHANGED <<chrome, managerVars, closed, environment>>
    BY DEF PendingTimer
  <1> DEFINE x == [pending[i] EXCEPT !.wait = "rejected"]
  <1>2. /\ i \in 1..Len(Resources.pending) /\ pending[i] \in PendingEntry
        /\ Resources \in State /\ Resources.pending = pending
    BY StateParts DEF TypeInv, Resources
  <1>3. x \in PendingEntry /\ x.mitm = m /\ x.wait = "rejected"
    BY <1>1, <1>2 DEF PendingEntry
  <1>4. EntryIsSound(x)
    <2>1. m # None
      BY MatchingAssumption DEF Mitm
    <2> HIDE DEF x
    <2> QED BY <1>3, <2>1 DEF EntryIsSound
  <1>5. WithEntry(Resources, i, x) \in State
    BY <1>1, <1>2, <1>3, <1>4, WithEntryOk
  <1>6. Resources' \in State
    <2>1. {WithEntry(Resources, i, x)} \in SUBSET State
      BY <1>5
    <2> QED BY <1>1, <2>1, BecomesOne
  <1>7. closed' \in BOOLEAN
    BY <1>1 DEF TypeInv
  <1> QED BY <1>1, <1>6, <1>7, ProxyStep

\* The session is closed: the waits are rejected, the list is empty.
LEMMA CancelPendingTypes ==
  ASSUME TypeInv, CancelPending
  PROVE  TypeInv'
  <1>1. mitm \in [Mitm -> MitmRequest] /\ dropping \in SUBSET Mitm
    BY StateParts DEF TypeInv, Resources
  <1>2. \A m \in Mitm, b \in BOOLEAN : [mitm[m] EXCEPT !.settled = b] \in MitmRequest
    BY <1>1 DEF MitmRequest
  <1>3. mitm' \in [Mitm -> MitmRequest]
    <2>1. ASSUME NEW m \in Mitm
          PROVE  [mitm[m] EXCEPT !.settled =
                    @ \/ \E i \in DOMAIN pending : pending[i].mitm = m /\ pending[i].wait = "open"]
                   \in MitmRequest
      <3>1. PICK b \in BOOLEAN : b = (mitm[m].settled \/ \E i \in DOMAIN pending :
                                        pending[i].mitm = m /\ pending[i].wait = "open")
        OBVIOUS
      <3> QED BY <1>2, <3>1
    <2> QED BY <2>1 DEF CancelPending
  <1>4. pending' = <<>> /\ UNCHANGED <<chrome, managerVars, environment, dropping>> /\ closed' = TRUE
    BY DEF CancelPending
  <1>5. ListIsSound(<<>>, mitm')
    BY DEF ListIsSound
  <1>6. Resources' \in State
    BY <1>1, <1>3, <1>4, <1>5 DEF State, Resources
  <1> QED BY <1>4, <1>6, ProxyStep

\* determineResourceType: the entry it takes, and what it becomes.
Taken(r, list, at) ==
  LET url == UrlAt(r, chrome[r].hop)
      headers == HeadersOf(r, TRUE)
      i == FindMatchingRequest(pending, url, headers, None, "noMitmResourceId")
      entry == [url |-> url, headers |-> headers, browser |-> None, mitm |-> None, wait |-> "open"]
  IN  IF i # 0 THEN list = pending /\ at = i
      ELSE list = Append(pending, entry) /\ at = Len(pending) + 1

\* It gives the request of the proxy to one entry, and its wait may settle.
LEMMA TakesEntry ==
  ASSUME TypeInv, NEW r \in Request, DetermineResourceType(r)
  PROVE  \E list \in Seq(PendingEntry), at \in Nat, x \in PendingEntry, a \in MitmRequest :
           /\ Taken(r, list, at) /\ at \in 1..Len(list)
           /\ x.url = list[at].url /\ x.headers = list[at].headers /\ x.browser = list[at].browser
           /\ x.wait = list[at].wait /\ x.mitm = Now(r) /\ list[at].mitm = None
           /\ a.progress = "arrived" /\ a.settled = mitm[Now(r)].settled
           /\ a.joined = mitm[Now(r)].joined
           /\ pending' = [list EXCEPT ![at] = x]
           /\ mitm' = Settled([mitm EXCEPT ![Now(r)] = a], x) /\ dropping' = dropping
  <1> DEFINE m == <<r, chrome[r].hop>>
             url == UrlAt(r, chrome[r].hop)
             headers == HeadersOf(r, TRUE)
             i == FindMatchingRequest(pending, url, headers, None, "noMitmResourceId")
             entry == [url |-> url, headers |-> headers, browser |-> None, mitm |-> None,
                       wait |-> "open"]
             list == IF i # 0 THEN pending ELSE Append(pending, entry)
             at == IF i # 0 THEN i ELSE Len(list)
  <1>1. /\ pending \in Seq(PendingEntry) /\ mitm \in [Mitm -> MitmRequest]
        /\ dropping \in SUBSET Mitm
    BY StateParts DEF TypeInv, Resources
  <1>2. chrome[r].hop \in Nat /\ chrome[r].hop <= MaxHops /\ chrome[r].hop # 0
    BY OneOf DEF TypeInv, ManagerOk, ChromeRequest, DetermineResourceType
  <1>3. m \in Mitm /\ m = Now(r)
    BY <1>2, MatchingAssumption DEF Mitm, Hop, Now
  <1>4. entry \in PendingEntry /\ entry.mitm = None
    <2>1. url \in Urls
      BY <1>2 DEF Urls
    <2>2. headers \in Request \cup {None, "same"}
      BY HeadersType
    <2> HIDE DEF url, headers
    <2> QED BY <2>1, <2>2 DEF PendingEntry
  <1>5. /\ list \in Seq(PendingEntry) /\ at \in Nat /\ at \in 1..Len(list) /\ list[at].mitm = None
        /\ Taken(r, list, at)
    <2>1. CASE i # 0
      <3>1. i \in 1..Len(pending) /\ Suits(pending[i], url, headers, None, "noMitmResourceId")
        BY <1>1, <2>1, Finds
      <3>2. list = pending /\ at = i /\ Taken(r, pending, i)
        BY <2>1 DEF Taken
      <3>3. pending[i].mitm = None
        BY <3>1 DEF Suits
      <3> HIDE DEF list, at, i
      <3> QED BY <1>1, <3>1, <3>2, <3>3
    <2>2. CASE i = 0
      <3>1. list = Append(pending, entry) /\ at = Len(list)
        BY <2>2
      <3>2. Taken(r, Append(pending, entry), Len(pending) + 1)
        BY <2>2 DEF Taken
      <3> HIDE DEF list, at, entry, i
      <3>3. /\ list \in Seq(PendingEntry) /\ Len(list) = Len(pending) + 1
            /\ list[Len(pending) + 1] = entry
        BY <1>1, <1>4, <3>1, AppendProperties
      <3> QED BY <1>1, <1>4, <3>1, <3>2, <3>3
    <2> QED BY <2>1, <2>2
  <1>6. Becomes({WithEntry([Resources EXCEPT !.pending = list, !.mitm[m].progress = "arrived"], at,
                           [list[at] EXCEPT !.mitm = m])})
    BY DEF DetermineResourceType
  <1> HIDE DEF list, at, m
  <1>7. PICK a : a = [mitm[m] EXCEPT !.progress = "arrived"]
    OBVIOUS
  <1>8. /\ a \in MitmRequest /\ a.progress = "arrived" /\ a.settled = mitm[m].settled
        /\ a.joined = mitm[m].joined
    BY <1>1, <1>3, <1>7 DEF MitmRequest
  <1>9. PICK x : x = [list[at] EXCEPT !.mitm = m]
    OBVIOUS
  <1>10. /\ x \in PendingEntry /\ x.url = list[at].url /\ x.headers = list[at].headers
         /\ x.browser = list[at].browser /\ x.wait = list[at].wait /\ x.mitm = m
    <2>1. list[at] \in PendingEntry
      BY <1>5
    <2> QED BY <1>3, <1>9, <2>1 DEF PendingEntry
  <1>11. PICK t : t = [Resources EXCEPT !.pending = list, !.mitm[m].progress = "arrived"]
    OBVIOUS
  <1>12. t = [pending |-> list, dropping |-> dropping, mitm |-> [mitm EXCEPT ![m] = a]]
    BY ONLY <1>7, <1>11 DEF Resources
  <1>13. PICK w : w = WithEntry(t, at, x)
    OBVIOUS
  <1>14. w = [pending |-> [list EXCEPT ![at] = x], dropping |-> dropping,
              mitm |-> Settled([mitm EXCEPT ![m] = a], x)]
    <2>1. PICK b : b = [t EXCEPT !.pending = [list EXCEPT ![at] = x]]
      OBVIOUS
    <2>2. b = [pending |-> [list EXCEPT ![at] = x], dropping |-> dropping,
               mitm |-> [mitm EXCEPT ![m] = a]]
      BY ONLY <1>12, <2>1
    <2>3. w = [b EXCEPT !.mitm = Settled(@, x)]
      BY ONLY <1>12, <1>13, <2>1 DEF WithEntry, ReplaceAt
    <2> QED BY ONLY <2>2, <2>3
  <1>15. Becomes({w})
    BY <1>6, <1>9, <1>11, <1>13
  <1>16. pending' = w.pending /\ dropping' = w.dropping /\ mitm' = w.mitm
    BY <1>15 DEF Becomes
  <1>17. /\ pending' = [list EXCEPT ![at] = x] /\ dropping' = dropping
         /\ mitm' = Settled([mitm EXCEPT ![m] = a], x)
    BY ONLY <1>14, <1>16
  <1> QED BY <1>3, <1>5, <1>8, <1>10, <1>17

\* determineResourceType keeps the list sound: the request arrives, and has no entry yet.
LEMMA DetermineTypes ==
  ASSUME TypeInv, NEW r \in Request, DetermineResourceType(r)
  PROVE  TypeInv'
  <1>1. PICK list \in Seq(PendingEntry), at \in Nat, x \in PendingEntry, a \in MitmRequest :
           /\ Taken(r, list, at) /\ at \in 1..Len(list)
           /\ x.url = list[at].url /\ x.headers = list[at].headers /\ x.browser = list[at].browser
           /\ x.wait = list[at].wait /\ x.mitm = Now(r) /\ list[at].mitm = None
           /\ a.progress = "arrived" /\ a.settled = mitm[Now(r)].settled
           /\ a.joined = mitm[Now(r)].joined
           /\ pending' = [list EXCEPT ![at] = x]
           /\ mitm' = Settled([mitm EXCEPT ![Now(r)] = a], x) /\ dropping' = dropping
    BY TakesEntry, Zenon
  <1>2. /\ pending \in Seq(PendingEntry) /\ dropping \in SUBSET Mitm
        /\ mitm \in [Mitm -> MitmRequest] /\ ListIsSound(pending, mitm)
        /\ DOMAIN pending = 1..Len(pending)
        /\ \A j \in DOMAIN pending : pending[j] \in PendingEntry
    BY StateParts DEF TypeInv, Resources
  <1>3. mitm[Now(r)].progress = "no" /\ Now(r) \in Mitm /\ Now(r) # None
    <2>1. chrome[r].hop \in Nat /\ chrome[r].hop <= MaxHops /\ chrome[r].hop # 0
      BY OneOf DEF TypeInv, ManagerOk, ChromeRequest, DetermineResourceType
    <2> QED BY <2>1, MatchingAssumption DEF Mitm, Hop, Now, DetermineResourceType
  <1>4. \A j \in DOMAIN pending : pending[j].mitm # Now(r)
    BY <1>2, <1>3 DEF ListIsSound
  <1> DEFINE k0 == [mitm EXCEPT ![Now(r)] = a]
  <1>5. k0 \in [Mitm -> MitmRequest]
    BY <1>2
  <1>6. /\ mitm' \in [Mitm -> MitmRequest]
        /\ \A m \in Mitm : mitm'[m].progress = IF m = Now(r) THEN "arrived" ELSE mitm[m].progress
    <2>1. \A m \in Mitm : k0[m].progress = IF m = Now(r) THEN "arrived" ELSE mitm[m].progress
      BY <1>1, <1>2
    <2> HIDE DEF k0
    <2>2. Settles(Settled(k0, x), k0, x)
      BY <1>5, SettledOk
    <2>3. mitm' = Settled(k0, x)
      BY <1>1 DEF k0
    <2> QED BY <2>1, <2>2, <2>3 DEF Settles
  <1>7. /\ DOMAIN list = 1..Len(list)
        /\ \A j \in DOMAIN list : IF j \in DOMAIN pending THEN list[j] = pending[j] ELSE j = at
        /\ list[at].wait \in {"open", "resolved"}
        /\ list[at].wait = "open" => list[at].browser = None
    <2> DEFINE i == FindMatchingRequest(pending, UrlAt(r, chrome[r].hop), HeadersOf(r, TRUE), None,
                                        "noMitmResourceId")
    <2>1. CASE i # 0
      <3>1. list = pending /\ at = i
        BY <1>1, <2>1 DEF Taken
      <3>2. EntryIsSound(list[at])
        BY <1>1, <1>2, <3>1 DEF ListIsSound
      <3> QED BY <1>1, <1>2, <3>1, <3>2 DEF EntryIsSound
    <2>2. CASE i = 0
      <3> PICK e : e = [url |-> UrlAt(r, chrome[r].hop), headers |-> HeadersOf(r, TRUE),
                        browser |-> None, mitm |-> None, wait |-> "open"]
        OBVIOUS
      <3>1. list = Append(pending, e) /\ at = Len(pending) + 1
        BY <1>1, <2>2 DEF Taken
      <3>2. /\ Len(list) = Len(pending) + 1
            /\ \A j \in 1..Len(pending) : list[j] = pending[j]
            /\ list[at] = e /\ DOMAIN list = 1..Len(list)
        BY <1>1, <1>2, <3>1
      <3>3. \A j \in DOMAIN list : IF j \in DOMAIN pending THEN list[j] = pending[j] ELSE j = at
        BY <1>2, <3>1, <3>2
      <3> QED BY <3>2, <3>3
    <2> QED BY <2>1, <2>2
  <1>8. EntryIsSound(x)
    BY <1>1, <1>3, <1>7 DEF EntryIsSound
  <1>9. /\ pending' \in Seq(PendingEntry) /\ DOMAIN pending' = DOMAIN list
        /\ \A j \in DOMAIN list : pending'[j] = IF j = at THEN x ELSE list[j]
    BY <1>1, ExceptSeq
  <1>10. \A j \in DOMAIN list : j # at => /\ j \in DOMAIN pending /\ pending'[j] = pending[j]
                                          /\ pending'[j].mitm # Now(r)
    BY <1>4, <1>7, <1>9
  <1>11. ASSUME NEW j \in DOMAIN pending'
         PROVE  /\ EntryIsSound(pending'[j])
                /\ pending'[j].mitm # None => mitm'[pending'[j].mitm].progress # "no"
    <2>1. CASE j = at
      BY <1>1, <1>3, <1>6, <1>8, <1>9, <2>1
    <2>2. CASE j # at
      <3>1. j \in DOMAIN pending /\ pending'[j] = pending[j]
        BY <1>9, <1>10, <2>2
      <3>2. EntryIsSound(pending[j]) /\ (pending[j].mitm # None => mitm[pending[j].mitm].progress # "no")
        BY <1>2, <3>1 DEF ListIsSound
      <3>3. pending[j].mitm # None => pending[j].mitm \in Mitm
        BY <1>2, <3>1 DEF PendingEntry
      <3> QED BY <1>6, <3>1, <3>2, <3>3
    <2> QED BY <2>1, <2>2
  <1>12. \A j, l \in DOMAIN pending' :
            pending'[j].mitm = pending'[l].mitm /\ pending'[j].mitm # None => j = l
    <2>1. \A j \in DOMAIN pending' : pending'[j].mitm = Now(r) <=> j = at
      BY <1>1, <1>9, <1>10
    <2> QED BY <1>2, <1>9, <1>10, <2>1 DEF ListIsSound
  <1>13. Resources' \in State
    <2>1. ListIsSound(pending', mitm')
      BY ONLY <1>11, <1>12 DEF ListIsSound
    <2> QED BY <1>1, <1>2, <1>6, <1>9, <2>1 DEF State, Resources
  <1>14. UNCHANGED <<chrome, managerVars, environment, closed>>
    BY DEF DetermineResourceType
  <1>15. closed' \in BOOLEAN
    BY <1>14 DEF TypeInv
  <1> QED BY <1>13, <1>14, <1>15, ProxyStep

-----------------------------------------------------------------------------
\* Types: every behaviour.

\* Nothing is listed at first.
LEMMA InitTypes == Init => TypeInv
  <1> SUFFICES ASSUME Init PROVE TypeInv
    OBVIOUS
  <1>1. ASSUME NEW r \in Request
        PROVE  /\ chrome[r] \in ChromeRequest /\ chrome[r].hop = 0 /\ ~chrome[r].sent
               /\ ~chrome[r].cacheTimer /\ chrome[r].paused = "no"
               /\ requestsById[r] = None /\ redirectsById[r] = <<>> /\ publishing[r] \in Publishing
    BY DEF Init, ChromeRequest, NoPublishing, Publishing
  <1>2. \A r \in Request : ManagerOk(chrome[r], requestsById[r], redirectsById[r])
    BY <1>1, MatchingAssumption DEF ManagerOk
  <1>3. ManagerTypes
    <2>1. /\ chrome \in [Request -> ChromeRequest] /\ publishing \in [Request -> Publishing]
          /\ requestsById \in [Request -> {None} \cup Listed]
      BY <1>1 DEF Init
    <2>2. redirectsById \in [Request -> Seq(Listed)]
      BY DEF Init
    <2> QED BY <1>2, <2>1, <2>2 DEF ManagerTypes, Init
  <1>4. /\ pending = <<>> /\ dropping = {} /\ closed = FALSE /\ mitm \in [Mitm -> MitmRequest]
        /\ ListIsSound(<<>>, mitm)
    BY DEF Init, MitmRequest, ListIsSound
  <1>5. Resources \in State
    BY <1>4 DEF Resources, State
  <1> QED BY <1>3, <1>4, <1>5 DEF TypeInv

\* Every step keeps the types.
LEMMA StepTypes == TypeInv /\ [Next]_vars => TypeInv'
  <1> SUFFICES ASSUME TypeInv, [Next]_vars PROVE TypeInv'
    OBVIOUS
  <1>1. ASSUME NEW r \in Request, Devtools(r) PROVE TypeInv'
    BY <1>1, ChromeTypes, OnRequestWillBeSentTypes, OnExtraInfoTypes, OnContinuedTypes,
       OnResponseReceivedTypes, LoadedTypes DEF Devtools
  <1>2. CASE Timers
    BY <1>2, PublishTimerTypes, LoadedTypes, ResolvedTypes, PendingTimerTypes DEF Timers
  <1>3. CASE Proxy
    BY <1>3, DetermineTypes, AnswerTypes, ResolvedTypes DEF Proxy
  <1>4. CASE Faults
    BY <1>4, OnLoadingFailedTypes, ChromeTypes, AnswerTypes, CancelPendingTypes DEF Faults
  <1>5. CASE UNCHANGED vars
    <2>1. UNCHANGED <<chrome, managerVars, resourceVars, closed, environment>>
      BY <1>5 DEF vars
    <2>2. Resources' \in State /\ closed' \in BOOLEAN
      BY <2>1, ResourcesStay DEF TypeInv
    <2> QED BY <2>1, <2>2, ProxyStep
  <1> QED BY <1>1, <1>2, <1>3, <1>4, <1>5 DEF Next, Progress

\* The types of the parts are those of TypeOK.
LEMMA TypesAreOk == TypeInv => TypeOK
  <1> SUFFICES ASSUME TypeInv PROVE TypeOK
    OBVIOUS
  <1>1. /\ pending \in Seq(PendingEntry) /\ dropping \in SUBSET Mitm
        /\ mitm \in [Mitm -> MitmRequest] /\ ListIsSound(pending, mitm)
        /\ \A i \in DOMAIN pending : pending[i] \in PendingEntry
    BY StateParts DEF TypeInv, Resources
  <1>2. ASSUME NEW r \in Request
        PROVE  chrome[r] \in [hop : 0..MaxHops, sent : BOOLEAN, extra : BOOLEAN,
                 paused : {"no", "continued", "done"}, received : BOOLEAN, over : BOOLEAN,
                 cached : {"no", "disk", "memory"}, cacheTimer : BOOLEAN]
    BY OneOf, MatchingAssumption DEF TypeInv, ManagerOk, ChromeRequest
  <1>3. ASSUME NEW r \in Request
        PROVE  requestsById[r] \in {None} \cup [hop : 0..MaxHops, headers : BOOLEAN]
    <2>1. chrome[r].hop <= MaxHops /\ chrome[r].hop \in Nat /\ MaxHops \in Nat
      BY <1>2, MatchingAssumption
    <2> QED BY <2>1, OneOf DEF TypeInv, ManagerOk, Listed
  <1>4. ASSUME NEW r \in Request PROVE publishing[r] \in [DOMAIN NoPublishing -> BOOLEAN]
    BY OneOf DEF TypeInv, Publishing, NoPublishing
  <1>5. ASSUME NEW r \in Request PROVE redirectsById[r] \in Seq([hop : Hop, headers : BOOLEAN])
    <2>1. /\ redirectsById[r] \in Seq(Listed)
          /\ \A i \in DOMAIN redirectsById[r] : redirectsById[r][i].hop \in Hop
      BY OneOf DEF TypeInv, ManagerOk
    <2> PICK d : d = redirectsById[r]
      OBVIOUS
    <2>2. \A i \in 1..Len(d) : d[i] \in Listed /\ d[i].hop \in Hop
      BY <2>1
    <2>3. \A i \in 1..Len(d) : d[i] \in [hop : Hop, headers : BOOLEAN]
      BY <2>2 DEF Listed
    <2>4. Len(d) \in Nat /\ d \in [1..Len(d) -> Listed]
      BY <2>1
    <2>5. d \in [1..Len(d) -> [hop : Hop, headers : BOOLEAN]]
      BY <2>3, <2>4
    <2> PICK A : A = [hop : Hop, headers : BOOLEAN]
      OBVIOUS
    <2>7. Len(d) \in Nat /\ d \in [1..Len(d) -> A]
      BY <2>4, <2>5
    <2>8. d \in Seq(A)
      BY ONLY <2>7
    <2>6. d \in Seq([hop : Hop, headers : BOOLEAN])
      BY <2>8
    <2> QED BY <2>6
  <1>6. ASSUME NEW i \in DOMAIN pending
        PROVE  /\ pending[i].browser \in Request \cup {None} /\ pending[i].mitm \in Mitm \cup {None}
               /\ pending[i].wait \in {"open", "resolved", "rejected"}
               /\ pending[i].wait = "open" => pending[i].browser = None
               /\ pending[i].mitm = None => pending[i].wait = "resolved"
    BY <1>1 DEF PendingEntry, ListIsSound, EntryIsSound
  <1>7. \A i, j \in DOMAIN pending : pending[i].mitm = pending[j].mitm /\ pending[i].mitm # None => i = j
    BY <1>1 DEF ListIsSound
  <1>8. /\ chrome \in [Request -> [hop : 0..MaxHops, sent : BOOLEAN, extra : BOOLEAN,
             paused : {"no", "continued", "done"}, received : BOOLEAN, over : BOOLEAN,
             cached : {"no", "disk", "memory"}, cacheTimer : BOOLEAN]]
        /\ requestsById \in [Request -> {None} \cup [hop : 0..MaxHops, headers : BOOLEAN]]
        /\ publishing \in [Request -> [DOMAIN NoPublishing -> BOOLEAN]]
    <2>1. /\ chrome \in [Request -> ChromeRequest]
          /\ requestsById \in [Request -> {None} \cup Listed]
          /\ publishing \in [Request -> Publishing]
      BY DEF TypeInv, ManagerTypes
    <2> QED BY <1>2, <1>3, <1>4, <2>1
  <1>9. mitm \in [Mitm -> [progress : {"no", "arrived", "answered", "recorded", "failed"},
                           settled : BOOLEAN, joined : Request \cup {None}]]
    BY <1>1 DEF MitmRequest
  <1>10. closed \in BOOLEAN
    BY DEF TypeInv
  <1> QED BY <1>1, <1>5, <1>6, <1>7, <1>8, <1>9, <1>10 DEF TypeOK

\* Every variable of the network events has its type in every state: the hop of a request is one
\* of its urls, a request that is waited for has no browser's request yet, one that the proxy did
\* not see waits for nothing, and each request of the proxy has one entry at most.
THEOREM TypeCorrect == Spec => []TypeOK
  BY InitTypes, StepTypes, TypesAreOk, PTL DEF Spec

-----------------------------------------------------------------------------
\* Requests and their entries, where nothing fails, is late or is cached (Plain).

\* A request runs, and the page was told of the hop it is at.
Active(r) == chrome[r].hop # 0 /\ ~chrome[r].over
Told(r) == chrome[r].sent /\ publishing[r].published

\* Requests run side by side only where they may.
AreAlone == ~Happens("overlaps") => \A r, q \in Request : Active(r) /\ Active(q) => r = q

\* What Chrome and NetworkManager know of a request of n urls: its state c, its entries q and d in
\* requestsById and redirectsById, its publishing p.  A hop is published once its headers are
\* known, or, if the proxy has a password, once Chrome went on with it.
TellsOk(c, q, p, d, n) ==
  /\ c.cached = "no" /\ ~c.cacheTimer /\ c.hop <= n
  /\ c.hop = 0 \/ (c.hop = 1 /\ ~c.sent) => p = NoPublishing
  /\ c.hop = 0 => ~c.sent /\ ~c.over
  /\ c.over => c.received /\ q = None
  /\ c.received => c.extra /\ c.hop = n
  /\ c.extra => c.sent
  /\ c.sent /\ ~c.over =>
       /\ q # None /\ q.hop = c.hop /\ (q.headers <=> c.extra)
       /\ p.sentEvent /\ (p.timer <=> ~p.published)
  /\ ~c.sent => IF c.hop > 1 THEN q # None /\ q.hop # 0 /\ q.headers ELSE q = None
  /\ \A i \in DOMAIN d : d[i].headers
  /\ IF Happens("password")
       THEN /\ c.hop <= 1
            /\ c.paused # "no" => c.sent
            /\ c.extra => c.paused = "done"
            /\ ~c.extra => ~p.details
            /\ ~c.over => (p.published <=> c.paused = "done")
       ELSE c.paused = "no" /\ (c.sent /\ ~c.over => (p.published <=> c.extra))
Tells(r) ==
  TellsOk(chrome[r], requestsById[r], publishing[r], redirectsById[r], Len(environment.url[r]))

\* What the entry x of a request is.  Open: the proxy has seen the hop, the browser has not told
\* of it.  Queued: the reverse.  Joined: both know of it, and the wait has settled.
IsOpen(x, r) ==
  /\ x.browser = None /\ x.wait = "open" /\ x.mitm = Now(r)
  /\ Active(r) /\ ~Told(r) /\ ~Happens("password") /\ ~mitm[Now(r)].settled
  /\ x.url = UrlAt(r, chrome[r].hop) /\ x.headers = HeadersOf(r, TRUE)
IsQueued(x, r) ==
  /\ x.browser = r /\ x.wait = "resolved" /\ x.mitm = None
  /\ Active(r) /\ Told(r) /\ mitm[Now(r)].progress = "no"
  /\ x.url = UrlAt(r, chrome[r].hop) /\ x.headers = HeadersOf(r, chrome[r].extra)
IsJoined(x, r) ==
  /\ x.browser = r /\ x.wait = "resolved"
  /\ \E hop \in 1..chrome[r].hop : x.mitm = <<r, hop>> /\ x.url = UrlAt(r, hop)
  /\ x.headers = HeadersOf(r, TRUE) /\ mitm[x.mitm].settled
  /\ x.mitm = Now(r) /\ Active(r) => Told(r)
IsOf(x, r) == IsOpen(x, r) \/ IsQueued(x, r) \/ IsJoined(x, r)

\* Each entry is of some request, each request has the entry it needs, and one at most is queued.
EntriesJoin == \A i \in DOMAIN pending : \E r \in Request : IsOf(pending[i], r)
OneQueued ==
  \A i, j \in DOMAIN pending :
    pending[i].mitm = None /\ pending[j].mitm = None /\ pending[i].browser = pending[j].browser => i = j
NoneIsMissing(r) ==
  Active(r) =>
    /\ Told(r) /\ mitm[Now(r)].progress = "no" => \E i \in DOMAIN pending : IsQueued(pending[i], r)
    /\ ~Told(r) /\ mitm[Now(r)].progress # "no" => \E i \in DOMAIN pending : IsOpen(pending[i], r)

\* What the proxy knows of the hops of a request.
ProxyOk(r) ==
  /\ \A hop \in Hop :
       /\ hop > chrome[r].hop => mitm[<<r, hop>>].progress = "no"
       /\ mitm[<<r, hop>>].settled => mitm[<<r, hop>>].joined = r /\ mitm[<<r, hop>>].progress # "no"
       /\ mitm[<<r, hop>>].progress = "recorded" => mitm[<<r, hop>>].settled
       /\ mitm[<<r, hop>>].progress # "failed"
  /\ chrome[r].received => mitm[Now(r)].progress # "no"

Joins ==
  /\ AreAlone /\ EntriesJoin /\ OneQueued /\ dropping = {} /\ ~closed
  /\ \A r \in Request : Tells(r) /\ NoneIsMissing(r) /\ ProxyOk(r)

\* Requests that run side by side have headers of their own.
LEMMA TheyDiffer ==
  ASSUME Plain, AreAlone, NEW r \in Request, NEW q \in Request, q # r, Active(r), Active(q)
  PROVE  HeadersOf(r, TRUE) = r /\ r # None /\ \A known : HeadersOf(q, known) # r
  <1>1. Happens("overlaps") /\ ~Happens("alike") /\ ~Happens("insecure")
    BY DEF Plain, AreAlone
  <1>2. r # None
    BY MatchingAssumption
  <1> QED BY <1>1, <1>2 DEF HeadersOf

\* What Plain and the types say of one request.
LEMMA PlainParts ==
  ASSUME TypeInv, Plain, Joins, NEW r \in Request
  PROVE  /\ chrome[r] \in ChromeRequest /\ chrome[r].hop \in Nat /\ chrome[r].hop <= MaxHops
         /\ requestsById[r] \in {None} \cup Listed /\ publishing[r] \in Publishing
         /\ redirectsById[r] \in Seq(Listed)
         /\ Tells(r) /\ NoneIsMissing(r) /\ ProxyOk(r)
         /\ Active(r) => Now(r) \in Mitm /\ Now(r) # None /\ chrome[r].hop \in Hop
         /\ Len(environment.url[r]) \in Hop
         /\ \A i, j \in 1..chrome[r].hop : UrlAt(r, i) = UrlAt(r, j) => i = j
         /\ Happens("password") => Len(environment.url[r]) = 1 /\ ~Happens("outruns")
         /\ ~Happens("late") /\ ~Happens("cached") /\ ~Happens("cancels") /\ ~Happens("errors")
         /\ ~Happens("slow") /\ ~Happens("closes")
  <1>1. /\ chrome[r] \in ChromeRequest /\ chrome[r].hop \in Nat /\ chrome[r].hop <= MaxHops
        /\ requestsById[r] \in {None} \cup Listed /\ publishing[r] \in Publishing
        /\ redirectsById[r] \in Seq(Listed) /\ Len(environment.url[r]) \in Hop
    BY OneOf DEF TypeInv, ManagerOk, ChromeRequest
  <1>2. Tells(r) /\ NoneIsMissing(r) /\ ProxyOk(r)
    BY DEF Joins
  <1>3. Active(r) => Now(r) \in Mitm /\ chrome[r].hop \in Hop
    BY <1>1, MatchingAssumption DEF Active, Now, Mitm, Hop
  <1>4. Active(r) => Now(r) # None
    BY <1>3, MatchingAssumption DEF Mitm
  <1>5. DOMAIN environment.url[r] = 1..Len(environment.url[r])
    BY MatchingAssumption DEF TypeInv, ManagerTypes
  <1>6. \A i, j \in 1..chrome[r].hop : UrlAt(r, i) = UrlAt(r, j) => i = j
    <2>1. chrome[r].hop <= Len(environment.url[r]) /\ Len(environment.url[r]) \in Nat
      BY <1>1, <1>2 DEF Tells, TellsOk, Hop
    <2>2. \A i \in 1..chrome[r].hop : i \in DOMAIN environment.url[r]
      BY <1>1, <1>5, <2>1
    <2>3. \A i, j \in DOMAIN environment.url[r] : environment.url[r][i] = environment.url[r][j] => i = j
      BY DEF Plain, IsInjective
    <2> QED BY <2>2, <2>3 DEF UrlAt
  <1>7. Happens("password") => Len(environment.url[r]) = 1 /\ ~Happens("outruns")
    BY DEF Plain
  <1>8. /\ ~Happens("late") /\ ~Happens("cached") /\ ~Happens("cancels") /\ ~Happens("errors")
        /\ ~Happens("slow") /\ ~Happens("closes")
    BY DEF Plain, Happens
  <1> QED BY <1>1, <1>2, <1>3, <1>4, <1>6, <1>7, <1>8

\* The entries, as the types have them.
LEMMA PendingParts ==
  ASSUME TypeInv
  PROVE  /\ pending \in Seq(PendingEntry) /\ mitm \in [Mitm -> MitmRequest]
         /\ DOMAIN pending = 1..Len(pending) /\ Len(pending) \in Nat
         /\ \A i \in DOMAIN pending :
              /\ pending[i] \in PendingEntry /\ EntryIsSound(pending[i])
              /\ pending[i].mitm # None => pending[i].mitm \in Mitm
                                           /\ mitm[pending[i].mitm].progress # "no"
         /\ \A i, j \in DOMAIN pending :
              pending[i].mitm = pending[j].mitm /\ pending[i].mitm # None => i = j
  <1>1. /\ pending \in Seq(PendingEntry) /\ mitm \in [Mitm -> MitmRequest]
        /\ ListIsSound(pending, mitm) /\ \A i \in DOMAIN pending : pending[i] \in PendingEntry
        /\ DOMAIN pending = 1..Len(pending) /\ Len(pending) \in Nat
    BY StateParts DEF TypeInv, Resources
  <1>2. \A i \in DOMAIN pending : pending[i].mitm # None => pending[i].mitm \in Mitm
    BY <1>1 DEF PendingEntry
  <1> QED BY <1>1, <1>2 DEF ListIsSound

\* The request of the proxy that an entry has.
LEMMA JoinedType ==
  ASSUME TypeInv, Plain, Joins, NEW r \in Request, NEW x, IsJoined(x, r)
  PROVE  x.mitm \in Mitm /\ x.mitm # None
  <1>1. PICK hop \in 1..chrome[r].hop : x.mitm = <<r, hop>>
    BY DEF IsJoined
  <1>2. hop \in Hop
    BY PlainParts, MatchingAssumption DEF Hop
  <1>3. x.mitm \in Mitm
    BY <1>1, <1>2 DEF Mitm
  <1> QED BY <1>3, MatchingAssumption DEF Mitm

\* An entry that has none is queued.
LEMMA NoneIsQueued ==
  ASSUME TypeInv, Plain, Joins, NEW r \in Request, NEW x, IsOf(x, r), x.mitm = None
  PROVE  IsQueued(x, r)
  <1>1. ~IsOpen(x, r)
    BY PlainParts DEF IsOpen
  <1>2. ~IsJoined(x, r)
    BY JoinedType
  <1> QED BY <1>1, <1>2 DEF IsOf

\* An entry that suits a request which the page was not told of is its own, which is open.
LEMMA SuitsUntold ==
  ASSUME TypeInv, Plain, Joins, NEW r \in Request, Active(r), ~Told(r), NEW i \in DOMAIN pending,
         NEW known \in BOOLEAN, NEW filter, known \/ Happens("password"),
         Suits(pending[i], UrlAt(r, chrome[r].hop), HeadersOf(r, known), r, filter)
  PROVE  IsOpen(pending[i], r)
  <1>1. PICK q \in Request : IsOf(pending[i], q)
    BY DEF Joins, EntriesJoin
  <1>2. r # None /\ q # None
    BY MatchingAssumption
  <1>3. pending[i].browser \in {r, None} /\ pending[i].url = UrlAt(r, chrome[r].hop)
    BY <1>2 DEF Suits
  <1>4. CASE IsOpen(pending[i], q) /\ q # r
    <2>1. Active(q) /\ ~Happens("password") /\ pending[i].headers = HeadersOf(q, TRUE)
      BY <1>4 DEF IsOpen
    <2>2. known = TRUE
      BY <2>1
    <2>3. HeadersOf(r, TRUE) = r /\ HeadersOf(q, TRUE) # r
      BY <1>4, <2>1, TheyDiffer DEF Joins
    <2> QED BY <1>2, <2>1, <2>2, <2>3 DEF Suits
  <1>5. CASE IsQueued(pending[i], q)
    BY <1>2, <1>3, <1>5 DEF IsQueued
  <1>6. CASE IsJoined(pending[i], q)
    <2>1. q = r
      BY <1>2, <1>3, <1>6 DEF IsJoined
    <2>2. PICK hop \in 1..chrome[r].hop : pending[i].mitm = <<r, hop>> /\ pending[i].url = UrlAt(r, hop)
      BY <1>6, <2>1 DEF IsJoined
    <2>3. chrome[r].hop \in 1..chrome[r].hop
      BY PlainParts DEF Active
    <2>4. hop = chrome[r].hop
      BY <1>3, <2>2, <2>3, PlainParts
    <2>5. pending[i].mitm = Now(r)
      BY <2>2, <2>4 DEF Now
    <2> QED BY <1>6, <2>1, <2>5 DEF IsJoined
  <1> QED BY <1>1, <1>4, <1>5, <1>6 DEF IsOf

\* No open entry suits a request which the page was told of.
LEMMA NoneIsOpen ==
  ASSUME TypeInv, Plain, Joins, NEW r \in Request, Active(r), Told(r), NEW i \in DOMAIN pending,
         NEW url, NEW filter, Suits(pending[i], url, HeadersOf(r, TRUE), r, filter)
  PROVE  pending[i].wait # "open"
  <1> SUFFICES ASSUME pending[i].wait = "open" PROVE FALSE
    OBVIOUS
  <1>1. PICK q \in Request : IsOf(pending[i], q)
    BY DEF Joins, EntriesJoin
  <1>2. IsOpen(pending[i], q)
    BY <1>1 DEF IsOf, IsQueued, IsJoined
  <1>3. q # r /\ Active(q) /\ pending[i].headers = HeadersOf(q, TRUE)
    BY <1>2 DEF IsOpen
  <1>4. HeadersOf(r, TRUE) = r /\ HeadersOf(q, TRUE) # r /\ r # None
    BY <1>3, TheyDiffer DEF Joins
  <1> QED BY <1>3, <1>4 DEF Suits

\* An entry that suits a request of the proxy is what the browser has told of this request.
LEMMA SuitsProxy ==
  ASSUME TypeInv, Plain, Joins, NEW r \in Request, Active(r), NEW i \in DOMAIN pending,
         Suits(pending[i], UrlAt(r, chrome[r].hop), HeadersOf(r, TRUE), None, "noMitmResourceId")
  PROVE  IsQueued(pending[i], r)
  <1>1. PICK q \in Request : IsOf(pending[i], q)
    BY DEF Joins, EntriesJoin
  <1>2. pending[i].mitm = None
    BY DEF Suits
  <1>3. IsQueued(pending[i], q)
    <2>1. ~IsOpen(pending[i], q)
      BY <1>2, PlainParts DEF IsOpen
    <2>2. ~IsJoined(pending[i], q)
      <3> SUFFICES ASSUME NEW hop \in 1..chrome[q].hop, pending[i].mitm = <<q, hop>> PROVE FALSE
        BY DEF IsJoined
      <3>1. hop \in Hop
        BY PlainParts, MatchingAssumption DEF Hop
      <3>2. <<q, hop>> \in Request \X Hop
        BY <3>1
      <3> QED BY <1>2, <3>2, MatchingAssumption
    <2> QED BY <1>1, <2>1, <2>2 DEF IsOf
  <1>4. ASSUME q # r PROVE FALSE
    <2>1. Active(q) /\ pending[i].headers = HeadersOf(q, chrome[q].extra)
      BY <1>3 DEF IsQueued
    <2>2. HeadersOf(r, TRUE) = r /\ r # None /\ HeadersOf(q, chrome[q].extra) # r
      BY <1>4, <2>1, TheyDiffer DEF Joins
    <2> QED BY <2>1, <2>2 DEF Suits
  <1> QED BY <1>3, <1>4

\* The other requests stay as they are.
OthersStay(r) ==
  /\ UNCHANGED environment
  /\ \A q \in Request \ {r} :
       /\ chrome'[q] = chrome[q] /\ requestsById'[q] = requestsById[q]
       /\ publishing'[q] = publishing[q] /\ redirectsById'[q] = redirectsById[q]
       /\ \A hop \in Hop : mitm'[<<q, hop>>] = mitm[<<q, hop>>]

\* So do their entries.
LEMMA OthersKept ==
  ASSUME TypeInv, Plain, Joins, NEW r \in Request, OthersStay(r), NEW q \in Request, q # r
  PROVE  /\ Active(q)' = Active(q) /\ Tells(q)' /\ ProxyOk(q)'
         /\ \A x : /\ IsOpen(x, q) => IsOpen(x, q)'
                   /\ IsQueued(x, q) => IsQueued(x, q)'
                   /\ IsJoined(x, q) => IsJoined(x, q)'
         /\ Told(q)' = Told(q) /\ (Active(q) => mitm'[Now(q)'] = mitm[Now(q)])
  <1>1. /\ chrome'[q] = chrome[q] /\ requestsById'[q] = requestsById[q]
        /\ publishing'[q] = publishing[q] /\ redirectsById'[q] = redirectsById[q]
        /\ environment' = environment /\ \A hop \in Hop : mitm'[<<q, hop>>] = mitm[<<q, hop>>]
    BY DEF OthersStay
  <1>2. Active(q)' = Active(q) /\ Told(q)' = Told(q) /\ Now(q)' = Now(q)
    BY <1>1 DEF Active, Told, Now
  <1>3. Active(q) => mitm'[Now(q)] = mitm[Now(q)]
    BY <1>1, PlainParts DEF Now
  <1>4. /\ \A known : HeadersOf(q, known)' = HeadersOf(q, known)
        /\ \A n : UrlAt(q, n)' = UrlAt(q, n)
        /\ Happens("password")' = Happens("password")
    BY <1>1 DEF HeadersOf, UrlAt, Happens
  <1>5. Tells(q)'
    BY <1>1, <1>4, PlainParts DEF Tells, TellsOk
  <1>6. ProxyOk(q)'
    <2>1. chrome[q].received => mitm'[Now(q)] = mitm[Now(q)]
      <3>1. chrome[q].received => chrome[q].hop \in Hop
        BY PlainParts, MatchingAssumption DEF Tells, TellsOk, Hop
      <3> QED BY <1>1, <3>1 DEF Now
    <2> QED BY <1>1, <1>2, <2>1, PlainParts DEF ProxyOk
  <1>7. ASSUME NEW x
        PROVE  /\ IsOpen(x, q) => IsOpen(x, q)'
               /\ IsQueued(x, q) => IsQueued(x, q)'
    BY <1>1, <1>2, <1>3, <1>4 DEF IsOpen, IsQueued
  <1>8. ASSUME NEW x, IsJoined(x, q) PROVE IsJoined(x, q)'
    <2>1. PICK hop \in 1..chrome[q].hop : x.mitm = <<q, hop>> /\ x.url = UrlAt(q, hop)
      BY <1>8 DEF IsJoined
    <2>2. hop \in Hop
      BY PlainParts, MatchingAssumption DEF Hop
    <2>3. mitm'[x.mitm] = mitm[x.mitm]
      BY <1>1, <2>1, <2>2
    <2>4. \E n \in 1..chrome[q].hop' : x.mitm = <<q, n>> /\ x.url = UrlAt(q, n)'
      BY <1>1, <1>4, <2>1
    <2> QED BY <1>2, <1>4, <1>8, <2>3, <2>4 DEF IsJoined
  <1> QED BY <1>2, <1>3, <1>5, <1>6, <1>7, <1>8

\* The entry x at a position of the next list.
LEMMA EntryNext ==
  ASSUME NEW j, NEW x, x = pending'[j], NEW q
  PROVE  /\ IsOpen(pending[j], q)' <=> IsOpen(x, q)'
         /\ IsQueued(pending[j], q)' <=> IsQueued(x, q)'
         /\ IsOf(pending[j], q)' <=> IsOf(x, q)'
  <1>1. IsOpen(pending[j], q)' <=> IsOpen(x, q)'
    BY DEF IsOpen
  <1>2. IsQueued(pending[j], q)' <=> IsQueued(x, q)'
    BY DEF IsQueued
  <1>3. IsJoined(pending[j], q)' <=> IsJoined(x, q)'
    BY DEF IsJoined
  <1> QED BY <1>1, <1>2, <1>3 DEF IsOf

\* What a step of a request must show: its own entries are right, and those of others stay.
LEMMA JoinsNext ==
  ASSUME TypeInv, Plain, Joins, NEW r \in Request, OthersStay(r),
         \A j \in DOMAIN pending' : \A x : x = pending'[j] =>
           \/ IsOf(x, r)'
           \/ \E l \in DOMAIN pending, q \in Request \ {r} : x = pending[l] /\ IsOf(x, q),
         \A l \in DOMAIN pending, q \in Request \ {r} :
           IsOpen(pending[l], q) \/ IsQueued(pending[l], q) =>
             \E j \in DOMAIN pending' : pending'[j] = pending[l],
         OneQueued', Tells(r)', NoneIsMissing(r)', ProxyOk(r)', AreAlone', dropping' = {}, ~closed'
  PROVE  Joins'
  <1>1. ASSUME NEW j \in DOMAIN pending' PROVE \E q \in Request : IsOf(pending[j], q)'
    <2> PICK x : x = pending'[j]
      OBVIOUS
    <2>1. CASE IsOf(x, r)'
      BY <2>1, EntryNext
    <2>2. CASE \E q \in Request \ {r} : IsOf(x, q)
      <3>1. PICK q \in Request \ {r} : IsOf(x, q)
        BY <2>2
      <3>2. IsOf(x, q)'
        <4>1. IsOpen(x, q) \/ IsQueued(x, q) \/ IsJoined(x, q)
          BY <3>1 DEF IsOf
        <4>2. IsOpen(x, q)' \/ IsQueued(x, q)' \/ IsJoined(x, q)'
          BY <3>1, <4>1, OthersKept
        <4> QED BY <4>2 DEF IsOf
      <3> QED BY <3>2, EntryNext
    <2> QED BY <2>1, <2>2
  <1>2. ASSUME NEW q \in Request \ {r} PROVE NoneIsMissing(q)'
    <2>1. /\ Active(q)' = Active(q) /\ Told(q)' = Told(q)
          /\ Active(q) => mitm'[Now(q)'] = mitm[Now(q)]
      BY OthersKept
    <2>2. NoneIsMissing(q)
      BY DEF Joins
    <2>3. ASSUME NEW l \in DOMAIN pending, IsOpen(pending[l], q)
          PROVE  \E j \in DOMAIN pending' : IsOpen(pending[j], q)'
      <3>1. PICK j \in DOMAIN pending' : pending'[j] = pending[l]
        BY <2>3
      <3> PICK x : x = pending[l]
        OBVIOUS
      <3>2. IsOpen(x, q)'
        BY <2>3, OthersKept
      <3> QED BY <3>1, <3>2, EntryNext
    <2>4. ASSUME NEW l \in DOMAIN pending, IsQueued(pending[l], q)
          PROVE  \E j \in DOMAIN pending' : IsQueued(pending[j], q)'
      <3>1. PICK j \in DOMAIN pending' : pending'[j] = pending[l]
        BY <2>4
      <3> PICK x : x = pending[l]
        OBVIOUS
      <3>2. IsQueued(x, q)'
        BY <2>4, OthersKept
      <3> QED BY <3>1, <3>2, EntryNext
    <2>5. CASE ~Active(q)
      BY <2>1, <2>5 DEF NoneIsMissing
    <2>6. CASE Active(q)
      <3>1. /\ Told(q) /\ mitm[Now(q)].progress = "no" =>
                  \E j \in DOMAIN pending' : IsQueued(pending[j], q)'
            /\ ~Told(q) /\ mitm[Now(q)].progress # "no" =>
                  \E j \in DOMAIN pending' : IsOpen(pending[j], q)'
        BY <2>2, <2>3, <2>4, <2>6 DEF NoneIsMissing
      <3> QED BY <2>1, <2>6, <3>1 DEF NoneIsMissing
    <2> QED BY <2>5, <2>6
  <1>3. \A q \in Request : Tells(q)' /\ NoneIsMissing(q)' /\ ProxyOk(q)'
    BY <1>2, OthersKept
  <1>4. EntriesJoin'
    BY <1>1 DEF EntriesJoin
  <1> QED BY <1>3, <1>4 DEF Joins

\* The same, when the list stays as it is.
LEMMA ListStays ==
  ASSUME TypeInv, Plain, Joins, NEW r \in Request, OthersStay(r), UNCHANGED pending,
         \A x : IsOf(x, r) => IsOf(x, r)',
         Tells(r)', NoneIsMissing(r)', ProxyOk(r)', AreAlone', dropping' = {}, ~closed'
  PROVE  Joins'
  <1>1. OneQueued'
    BY DEF Joins, OneQueued
  <1>2. ASSUME NEW j \in DOMAIN pending', NEW x, x = pending'[j]
        PROVE  \/ IsOf(x, r)'
               \/ \E l \in DOMAIN pending, q \in Request \ {r} : x = pending[l] /\ IsOf(x, q)
    <2>1. x = pending[j] /\ j \in DOMAIN pending
      BY <1>2
    <2>2. PICK q \in Request : IsOf(x, q)
      BY <2>1 DEF Joins, EntriesJoin
    <2>3. CASE q = r
      BY <2>2, <2>3
    <2>4. CASE q # r
      BY <2>1, <2>2, <2>4
    <2> QED BY <2>3, <2>4
  <1>3. \A l \in DOMAIN pending, q \in Request \ {r} :
           IsOpen(pending[l], q) \/ IsQueued(pending[l], q) =>
             \E j \in DOMAIN pending' : pending'[j] = pending[l]
    OBVIOUS
  <1> QED BY <1>1, <1>2, <1>3, JoinsNext

-----------------------------------------------------------------------------
\* Entries join: the steps that leave the list as it is.

\* A step of a request: what Chrome and NetworkManager know of it next.
Becoming(r, c, q, p, d) ==
  /\ OthersStay(r)
  /\ chrome'[r] = c /\ requestsById'[r] = q /\ publishing'[r] = p /\ redirectsById'[r] = d

\* Such a step changes one request.
LEMMA OneBecomes ==
  ASSUME TypeInv, NEW r \in Request, NEW c, NEW q, NEW p, NEW d,
         chrome' = [chrome EXCEPT ![r] = c], requestsById' = [requestsById EXCEPT ![r] = q],
         publishing' = [publishing EXCEPT ![r] = p],
         redirectsById' = [redirectsById EXCEPT ![r] = d],
         UNCHANGED environment, \A m \in Mitm : m[1] # r => mitm'[m] = mitm[m]
  PROVE  Becoming(r, c, q, p, d)
  <1>1. /\ chrome'[r] = c /\ requestsById'[r] = q /\ publishing'[r] = p /\ redirectsById'[r] = d
        /\ \A o \in Request \ {r} :
             /\ chrome'[o] = chrome[o] /\ requestsById'[o] = requestsById[o]
             /\ publishing'[o] = publishing[o] /\ redirectsById'[o] = redirectsById[o]
    BY DEF TypeInv, ManagerTypes
  <1>2. \A o \in Request \ {r}, hop \in Hop : mitm'[<<o, hop>>] = mitm[<<o, hop>>]
    BY DEF Mitm
  <1> QED BY <1>1, <1>2 DEF Becoming, OthersStay

\* The same, when only Chrome's request changes.
LEMMA ChromeBecomes ==
  ASSUME TypeInv, NEW r \in Request, NEW c, chrome' = [chrome EXCEPT ![r] = c],
         UNCHANGED <<requestsById, publishing, redirectsById, mitm, environment>>
  PROVE  Becoming(r, c, requestsById[r], publishing[r], redirectsById[r])
  <1>1. chrome'[r] = c /\ \A o \in Request \ {r} : chrome'[o] = chrome[o]
    BY DEF TypeInv, ManagerTypes
  <1> QED BY <1>1 DEF Becoming, OthersStay

\* Urls and headers are those of the environment.
LEMMA SameWords ==
  ASSUME UNCHANGED environment
  PROVE  /\ \A r, known : HeadersOf(r, known)' = HeadersOf(r, known)
         /\ \A r, n : UrlAt(r, n)' = UrlAt(r, n)
         /\ \A x : Happens(x)' <=> Happens(x)
  BY DEF HeadersOf, UrlAt, Happens

\* What is known of the request then.
LEMMA ThenTells ==
  ASSUME NEW r \in Request, NEW c, NEW q, NEW p, NEW d, Becoming(r, c, q, p, d)
  PROVE  /\ OthersStay(r) /\ chrome'[r] = c
         /\ TellsOk(c, q, p, d, Len(environment.url[r])) => Tells(r)'
         /\ Now(r)' = <<r, c.hop>> /\ (Active(r)' <=> c.hop # 0 /\ ~c.over)
         /\ (Told(r)' <=> c.sent /\ p.published) /\ UNCHANGED environment
  <1>1. /\ chrome'[r] = c /\ requestsById'[r] = q /\ publishing'[r] = p /\ redirectsById'[r] = d
        /\ environment' = environment /\ OthersStay(r)
    BY DEF Becoming, OthersStay
  <1>2. Happens("password")' <=> Happens("password")
    BY <1>1, SameWords
  <1>3. TellsOk(c, q, p, d, Len(environment.url[r])) => Tells(r)'
    BY <1>1, <1>2 DEF Tells, TellsOk
  <1>4. /\ Now(r)' = <<r, c.hop>> /\ (Active(r)' <=> c.hop # 0 /\ ~c.over)
        /\ (Told(r)' <=> c.sent /\ p.published)
    BY <1>1 DEF Now, Active, Told
  <1> QED BY <1>1, <1>2, <1>3, <1>4

\* No request runs that did not before.
LEMMA StayAlone ==
  ASSUME TypeInv, Plain, Joins, NEW r \in Request, OthersStay(r), Active(r)' => Active(r)
  PROVE  AreAlone'
  <1>1. \A q \in Request : Active(q)' => Active(q)
    BY OthersKept
  <1>2. Happens("overlaps")' = Happens("overlaps")
    BY DEF OthersStay, Happens
  <1>3. AreAlone
    BY DEF Joins
  <1> QED BY <1>1, <1>2, <1>3 DEF AreAlone

\* Chrome issues a request.
LEMMA IssueJoins ==
  ASSUME TypeInv, Plain, Joins, NEW r \in Request, Issue(r)
  PROVE  Joins'
  <1> PICK o : o = chrome[r]
    OBVIOUS
  <1>1. /\ o \in ChromeRequest /\ o.hop = 0 /\ TellsOk(o, requestsById[r], publishing[r],
                                                  redirectsById[r], Len(environment.url[r]))
    BY PlainParts DEF Issue, Tells
  <1>2. chrome' = [chrome EXCEPT ![r].hop = 1, ![r].cached = "no", ![r].extra = FALSE,
                                 ![r].paused = "no"]
    BY PlainParts DEF Issue
  <1> PICK c : c = [o EXCEPT !.hop = 1, !.cached = "no", !.extra = FALSE, !.paused = "no"]
    OBVIOUS
  <1>3. /\ c.hop = 1 /\ c.cached = "no" /\ c.extra = FALSE /\ c.paused = "no" /\ c.sent = o.sent
        /\ c.over = o.over /\ c.cacheTimer = o.cacheTimer /\ c.received = o.received
    BY <1>1 DEF ChromeRequest
  <1>4. chrome = [chrome EXCEPT ![r] = chrome[r]]
    BY OneOf DEF TypeInv
  <1>5. chrome' = [chrome EXCEPT ![r] = c]
    BY <1>2, <1>4
  <1>6. UNCHANGED <<requestsById, publishing, redirectsById, pending, dropping, mitm, closed, environment>>
    BY DEF Issue, managerVars, resourceVars
  <1>8. /\ ~o.sent /\ ~o.over /\ ~o.received /\ ~o.extra /\ ~o.cacheTimer
        /\ requestsById[r] = None /\ publishing[r] = NoPublishing
        /\ \A i \in DOMAIN redirectsById[r] : redirectsById[r][i].headers
    BY <1>1 DEF TellsOk
  <1>9. NoPublishing.published = FALSE /\ NoPublishing.details = FALSE
    BY DEF NoPublishing
  <1>10. 1 <= Len(environment.url[r])
    BY PlainParts, MatchingAssumption DEF Hop
  <1>11. TellsOk(c, requestsById[r], publishing[r], redirectsById[r], Len(environment.url[r]))
    BY <1>3, <1>8, <1>9, <1>10 DEF TellsOk
  <1>12. /\ OthersStay(r) /\ chrome'[r] = c /\ Tells(r)' /\ Now(r)' = <<r, 1>>
         /\ Active(r)' /\ ~Told(r)'
    <2> PICK q, p, d : q = requestsById[r] /\ p = publishing[r] /\ d = redirectsById[r]
      OBVIOUS
    <2>1. Becoming(r, c, q, p, d)
      BY <1>5, <1>6, ChromeBecomes
    <2>2. r \in Request
      OBVIOUS
    <2>3. TellsOk(c, q, p, d, Len(environment.url[r]))
      BY <1>11
    <2>4. /\ OthersStay(r) /\ chrome'[r] = c /\ Tells(r)' /\ Now(r)' = <<r, c.hop>>
          /\ (Active(r)' <=> c.hop # 0 /\ ~c.over) /\ (Told(r)' <=> c.sent /\ p.published)
      BY ONLY <2>1, <2>2, <2>3, ThenTells
    <2> QED BY <1>3, <1>8, <2>4
  <1>13. mitm[<<r, 1>>].progress = "no"
    BY <1>1, PlainParts, MatchingAssumption DEF ProxyOk, Hop
  <1>14. NoneIsMissing(r)'
    BY <1>6, <1>12, <1>13 DEF NoneIsMissing
  <1>15. ProxyOk(r)'
    <2>1. ~c.received
      BY <1>3, <1>8
    <2>2. \A hop \in Hop : hop > 1 => hop > 0
      BY MatchingAssumption DEF Hop
    <2> QED BY <1>1, <1>3, <1>6, <1>12, <2>1, <2>2, PlainParts DEF ProxyOk
  <1>16. \A x : ~IsOf(x, r)
    <2>1. ~Active(r)
      BY <1>1 DEF Active
    <2>2. 1..chrome[r].hop = {}
      BY <1>1
    <2> QED BY <2>1, <2>2 DEF IsOf, IsOpen, IsQueued, IsJoined
  <1>17. AreAlone'
    <2>1. Happens("overlaps")' = Happens("overlaps")
      BY <1>6 DEF Happens
    <2>2. ASSUME ~Happens("overlaps"), NEW q \in Request, q # r PROVE ~Active(q)'
      <3>1. ~Active(q)
        BY <2>2 DEF Issue, Active
      <3> QED BY <1>12, <2>2, <3>1, OthersKept
    <2> QED BY <2>1, <2>2 DEF AreAlone
  <1>18. dropping' = {} /\ ~closed'
    BY <1>6 DEF Joins
  <1> QED BY <1>6, <1>12, <1>14, <1>15, <1>16, <1>17, <1>18, ListStays

\* Chrome follows a redirect: the hop before it is joined.
LEMMA FollowsRedirectJoins ==
  ASSUME TypeInv, Plain, Joins, NEW r \in Request, FollowsRedirect(r)
  PROVE  Joins'
  <1> PICK o : o = chrome[r]
    OBVIOUS
  <1>1. /\ o \in ChromeRequest
        /\ TellsOk(o, requestsById[r], publishing[r], redirectsById[r], Len(environment.url[r]))
    BY PlainParts DEF Tells
  <1>2. /\ o.hop \in 1..Len(environment.url[r]) - 1 /\ o.sent /\ ~o.over /\ o.extra
        /\ o.cached = "no" /\ Len(environment.url[r]) \in Nat /\ o.hop \in Nat
    BY <1>1, PlainParts, MatchingAssumption DEF FollowsRedirect, TellsOk, Hop
  <1>3. mitm[Now(r)].progress # "no"
    BY <1>1, <1>2 DEF FollowsRedirect, Answered, Now
  <1> PICK h \in Nat : h = o.hop + 1
    BY <1>2
  <1> PICK c : c = [o EXCEPT !.hop = h, !.sent = FALSE, !.extra = FALSE, !.paused = "no"]
    OBVIOUS
  <1>4. /\ c.hop = h /\ c.cached = "no" /\ c.extra = FALSE /\ c.paused = "no" /\ c.sent = FALSE
        /\ c.over = o.over /\ c.cacheTimer = o.cacheTimer /\ c.received = o.received
    BY <1>1, <1>2 DEF ChromeRequest
  <1>5. chrome' = [chrome EXCEPT ![r] = c]
    <2>1. chrome = [chrome EXCEPT ![r] = chrome[r]]
      BY OneOf DEF TypeInv
    <2>2. chrome' = [chrome EXCEPT ![r].hop = h, ![r].sent = FALSE, ![r].extra = FALSE,
                                   ![r].paused = "no"]
      BY <1>2 DEF FollowsRedirect
    <2> QED BY <2>1, <2>2
  <1>6. UNCHANGED <<requestsById, publishing, redirectsById, pending, dropping, mitm, closed, environment>>
    BY DEF FollowsRedirect, managerVars, resourceVars
  <1>8. ~Happens("password") /\ publishing[r].published /\ Told(r) /\ Active(r)
    <2>1. ~Happens("password")
      <3>1. Len(environment.url[r]) # 1
        <4> PICK n : n = Len(environment.url[r])
          OBVIOUS
        <4>1. o.hop \in 1..n-1 /\ n \in Nat /\ o.hop \in Nat
          BY <1>2
        <4>2. n # 1
          BY ONLY <4>1
        <4> QED BY <4>2
      <3> QED BY <3>1, PlainParts
    <2> QED BY <1>1, <1>2, <2>1 DEF TellsOk, Told, Active
  <1>9. ~o.received
    BY <1>1, <1>2 DEF TellsOk
  <1>10. /\ requestsById[r] # None /\ requestsById[r].hop # 0 /\ requestsById[r].headers
         /\ ~o.cacheTimer /\ \A i \in DOMAIN redirectsById[r] : redirectsById[r][i].headers
    BY <1>1, <1>2 DEF TellsOk
  <1>11. h > 1 /\ h <= Len(environment.url[r]) /\ h # 0 /\ h # 1 /\ h \in Nat
    BY <1>2
  <1>12. TellsOk(c, requestsById[r], publishing[r], redirectsById[r], Len(environment.url[r]))
    BY <1>2, <1>4, <1>8, <1>9, <1>10, <1>11 DEF TellsOk
  <1>13. /\ OthersStay(r) /\ chrome'[r] = c /\ Tells(r)' /\ Now(r)' = <<r, h>> /\ ~Told(r)'
         /\ \A known : HeadersOf(r, known)' = HeadersOf(r, known)
         /\ \A n : UrlAt(r, n)' = UrlAt(r, n)
    <2> PICK q, p, d : q = requestsById[r] /\ p = publishing[r] /\ d = redirectsById[r]
      OBVIOUS
    <2>1. Becoming(r, c, q, p, d)
      BY <1>5, <1>6, ChromeBecomes
    <2>2. r \in Request
      OBVIOUS
    <2>3. TellsOk(c, q, p, d, Len(environment.url[r]))
      BY <1>12
    <2>4. /\ OthersStay(r) /\ chrome'[r] = c /\ Tells(r)' /\ Now(r)' = <<r, c.hop>>
          /\ (Active(r)' <=> c.hop # 0 /\ ~c.over) /\ (Told(r)' <=> c.sent /\ p.published)
      BY ONLY <2>1, <2>2, <2>3, ThenTells
    <2>5. /\ \A known : HeadersOf(r, known)' = HeadersOf(r, known)
          /\ \A n : UrlAt(r, n)' = UrlAt(r, n)
      BY <1>6, SameWords
    <2>6. Now(r)' = <<r, h>> /\ ~Told(r)'
      BY ONLY <1>4, <2>4
    <2> QED BY ONLY <2>4, <2>5, <2>6
  <1>14. h \in Hop /\ mitm[<<r, h>>].progress = "no"
    <2>1. h \in Hop /\ h > o.hop
      BY <1>2, <1>11, PlainParts, MatchingAssumption DEF Hop
    <2> QED BY <2>1, PlainParts DEF ProxyOk
  <1>15. NoneIsMissing(r)'
    BY <1>6, <1>13, <1>14 DEF NoneIsMissing
  <1>16. ProxyOk(r)'
    <2>1. \A hop \in Hop : hop > h => hop > o.hop
      BY <1>2, MatchingAssumption DEF Hop
    <2> QED BY <1>4, <1>6, <1>9, <1>13, <2>1, PlainParts DEF ProxyOk
  <1>17. ASSUME NEW x, IsOf(x, r) PROVE IsOf(x, r)'
    <2>1. IsJoined(x, r)
      BY <1>3, <1>8, <1>17 DEF IsOf, IsOpen, IsQueued
    <2>2. PICK hop \in 1..o.hop : x.mitm = <<r, hop>> /\ x.url = UrlAt(r, hop)
      BY <2>1 DEF IsJoined
    <2>3. hop \in 1..h /\ hop # h
      BY <1>2, <2>2
    <2>4. x.mitm # Now(r)'
      BY <1>13, <2>2, <2>3
    <2>5. \E n \in 1..chrome[r].hop' : x.mitm = <<r, n>> /\ x.url = UrlAt(r, n)'
      BY <1>4, <1>13, <2>2, <2>3
    <2> QED BY <1>6, <1>13, <2>1, <2>4, <2>5 DEF IsOf, IsJoined
  <1>18. AreAlone'
    BY <1>8, <1>13, StayAlone
  <1>19. dropping' = {} /\ ~closed'
    BY <1>6 DEF Joins
  <1> QED BY <1>6, <1>13, <1>15, <1>16, <1>17, <1>18, <1>19, ListStays

\* A step that tells the page of nothing, and leaves the list and the proxy as they are.
LEMMA SameList ==
  ASSUME TypeInv, Plain, Joins, NEW r \in Request, NEW c, NEW q, NEW p, NEW d,
         Becoming(r, c, q, p, d), TellsOk(c, q, p, d, Len(environment.url[r])),
         c.hop = chrome[r].hop, c.over <=> chrome[r].over, c.extra = chrome[r].extra,
         c.sent /\ p.published <=> Told(r), UNCHANGED <<pending, dropping, mitm, closed>>,
         c.received => mitm[Now(r)].progress # "no"
  PROVE  Joins'
  <1>1. /\ OthersStay(r) /\ chrome'[r] = c /\ Tells(r)' /\ UNCHANGED environment
        /\ Now(r)' = <<r, c.hop>> /\ (Active(r)' <=> c.hop # 0 /\ ~c.over)
        /\ (Told(r)' <=> c.sent /\ p.published)
    BY ThenTells
  <1>2. Now(r)' = Now(r) /\ (Active(r)' <=> Active(r)) /\ (Told(r)' <=> Told(r))
    BY <1>1 DEF Now, Active
  <1>3. /\ \A known : HeadersOf(r, known)' = HeadersOf(r, known)
        /\ \A n : UrlAt(r, n)' = UrlAt(r, n)
        /\ Happens("password")' <=> Happens("password")
    BY <1>1, SameWords
  <1>4. /\ \A x : IsOpen(x, r) <=> IsOpen(x, r)'
        /\ \A x : IsQueued(x, r) <=> IsQueued(x, r)'
    BY <1>1, <1>2, <1>3 DEF IsOpen, IsQueued
  <1>5. \A x : IsJoined(x, r) => IsJoined(x, r)'
    BY <1>1, <1>2, <1>3 DEF IsJoined
  <1>6. \A x : IsOf(x, r) => IsOf(x, r)'
    BY <1>4, <1>5 DEF IsOf
  <1>7. NoneIsMissing(r)'
    <2>1. NoneIsMissing(r)
      BY PlainParts
    <2>2. /\ (\E i \in DOMAIN pending : IsOpen(pending[i], r)) =>
               \E i \in DOMAIN pending' : IsOpen(pending[i], r)'
          /\ (\E i \in DOMAIN pending : IsQueued(pending[i], r)) =>
               \E i \in DOMAIN pending' : IsQueued(pending[i], r)'
      <3>1. ASSUME NEW i \in DOMAIN pending
            PROVE  /\ IsOpen(pending[i], r) => IsOpen(pending[i], r)'
                   /\ IsQueued(pending[i], r) => IsQueued(pending[i], r)'
        <4> PICK x : x = pending[i]
          OBVIOUS
        <4> QED BY <1>4, EntryNext
      <3> QED BY <3>1
    <2> QED BY <1>2, <2>1, <2>2 DEF NoneIsMissing
  <1>8. ProxyOk(r)'
    BY <1>1, <1>2, PlainParts DEF ProxyOk
  <1>9. AreAlone' /\ dropping' = {} /\ ~closed'
    BY <1>1, <1>2, StayAlone DEF Joins
  <1> QED BY <1>1, <1>6, <1>7, <1>8, <1>9, ListStays

\* A request is paused, and Chrome is told to go on.
LEMMA OnRequestPausedJoins ==
  ASSUME TypeInv, Plain, Joins, NEW r \in Request, OnRequestPaused(r)
  PROVE  Joins'
  <1> PICK o : o = chrome[r]
    OBVIOUS
  <1>1. /\ o \in ChromeRequest /\ Happens("password") /\ o.paused = "no" /\ ~o.over /\ o.sent /\ o.hop # 0
        /\ TellsOk(o, requestsById[r], publishing[r], redirectsById[r], Len(environment.url[r]))
    BY PlainParts DEF Tells, OnRequestPaused
  <1> PICK c : c = [o EXCEPT !.paused = "continued"]
    OBVIOUS
  <1>2. /\ c.hop = o.hop /\ c.cached = o.cached /\ c.extra = o.extra /\ c.paused = "continued"
        /\ c.sent = o.sent /\ c.over = o.over /\ c.cacheTimer = o.cacheTimer /\ c.received = o.received
    BY <1>1 DEF ChromeRequest
  <1>3. chrome' = [chrome EXCEPT ![r] = c]
    BY DEF OnRequestPaused
  <1>4. UNCHANGED <<requestsById, publishing, redirectsById, pending, dropping, mitm, closed, environment>>
    BY DEF OnRequestPaused, managerVars, resourceVars
  <1>5. Becoming(r, c, requestsById[r], publishing[r], redirectsById[r])
    BY <1>3, <1>4, ChromeBecomes
  <1>6. TellsOk(c, requestsById[r], publishing[r], redirectsById[r], Len(environment.url[r]))
    BY <1>1, <1>2 DEF TellsOk
  <1>7. c.received => mitm[Now(r)].progress # "no"
    BY <1>2, PlainParts DEF ProxyOk
  <1> PICK q, p, d : q = requestsById[r] /\ p = publishing[r] /\ d = redirectsById[r]
    OBVIOUS
  <1>8. /\ Becoming(r, c, q, p, d) /\ TellsOk(c, q, p, d, Len(environment.url[r]))
        /\ (c.sent /\ p.published <=> Told(r))
    BY <1>2, <1>5, <1>6 DEF Told
  <1> QED BY <1>2, <1>4, <1>7, <1>8, SameList

\* responseReceived: the page was told of the hop.
LEMMA OnResponseReceivedJoins ==
  ASSUME TypeInv, Plain, Joins, NEW r \in Request, OnResponseReceived(r)
  PROVE  Joins'
  <1> PICK o, q, p, d : o = chrome[r] /\ q = requestsById[r] /\ p = publishing[r] /\ d = redirectsById[r]
    OBVIOUS
  <1>1. /\ o \in ChromeRequest /\ TellsOk(o, q, p, d, Len(environment.url[r]))
        /\ o.hop = Len(environment.url[r]) /\ ~o.received /\ ~o.over /\ o.sent
        /\ Happens("password") => o.paused = "done"
        /\ Len(environment.url[r]) \in Hop
    BY PlainParts DEF Tells, OnResponseReceived
  <1>2. o.extra
    BY <1>1, PlainParts DEF OnResponseReceived
  <1>3. o.hop # 0 /\ q # None /\ q.hop = o.hop /\ p.published /\ o.cached = "no"
    BY <1>1, <1>2, MatchingAssumption DEF TellsOk, Hop
  <1>4. HasUrl(q)
    BY <1>3 DEF HasUrl
  <1> PICK c : c = [o EXCEPT !.received = TRUE]
    OBVIOUS
  <1>5. /\ c.hop = o.hop /\ c.cached = o.cached /\ c.extra = o.extra /\ c.paused = o.paused
        /\ c.sent = o.sent /\ c.over = o.over /\ c.cacheTimer = o.cacheTimer /\ c.received = TRUE
    BY <1>1 DEF ChromeRequest
  <1>6. chrome' = [chrome EXCEPT ![r] = c]
    BY DEF OnResponseReceived
  <1>7. UNCHANGED <<publishing, redirectsById, pending, dropping, mitm, closed, environment>>
    BY <1>3 DEF OnResponseReceived, resourceVars
  <1>8. requestsById' = requestsById
    <2>1. requestsById' = [requestsById EXCEPT ![r] = q]
      BY <1>4 DEF OnResponseReceived
    <2> QED BY <2>1, OneOf DEF TypeInv
  <1>9. Becoming(r, c, q, p, d)
    BY <1>6, <1>7, <1>8, ChromeBecomes
  <1>10. TellsOk(c, q, p, d, Len(environment.url[r]))
    BY <1>1, <1>2, <1>3, <1>5 DEF TellsOk
  <1>11. mitm[Now(r)].progress # "no"
    BY <1>3 DEF OnResponseReceived, Answered, Now
  <1>12. c.sent /\ p.published <=> Told(r)
    BY <1>5 DEF Told
  <1> QED BY <1>5, <1>7, <1>9, <1>10, <1>11, <1>12, SameList

\* requestWillBeSent: the page is told later.
LEMMA OnRequestWillBeSentJoins ==
  ASSUME TypeInv, Plain, Joins, NEW r \in Request, OnRequestWillBeSent(r)
  PROVE  Joins'
  <1> PICK o, e, p, d : o = chrome[r] /\ e = requestsById[r] /\ p = publishing[r] /\ d = redirectsById[r]
    OBVIOUS
  <1>1. /\ o \in ChromeRequest /\ TellsOk(o, e, p, d, Len(environment.url[r]))
        /\ o.hop # 0 /\ ~o.sent /\ ~o.over /\ o.hop \in Nat
        /\ p \in Publishing /\ d \in Seq(Listed) /\ e \in {None} \cup Listed
    BY PlainParts DEF Tells, OnRequestWillBeSent
  <1> DEFINE isNewRedirect == o.hop > 1 /\ e # None
  <1> PICK c : c = [o EXCEPT !.sent = TRUE]
    OBVIOUS
  <1>2. /\ c.hop = o.hop /\ c.cached = o.cached /\ c.extra = o.extra /\ c.paused = o.paused
        /\ c.sent = TRUE /\ c.over = o.over /\ c.cacheTimer = o.cacheTimer /\ c.received = o.received
    BY <1>1 DEF ChromeRequest
  <1> PICK q : q = [hop |-> o.hop, headers |-> FALSE]
    OBVIOUS
  <1>3. q # None /\ q.hop = o.hop /\ q.headers = FALSE
    <2>1. q \in Listed
      BY <1>1 DEF Listed
    <2> QED BY <2>1, MatchingAssumption DEF Listed
  <1>15. (e # None /\ ~isNewRedirect /\ e.headers) = FALSE
    <2>1. e = None \/ o.hop > 1
      BY <1>1 DEF TellsOk
    <2> QED BY <2>1
  <1> PICK f : f = IF isNewRedirect THEN Append(d, e) ELSE d
    OBVIOUS
  <1> PICK s : s = [p EXCEPT !.sentEvent = TRUE]
    OBVIOUS
  <1>4. s.sentEvent = TRUE /\ s.published = p.published /\ s.details = p.details /\ s.timer = p.timer
        /\ s \in Publishing
    BY <1>1 DEF Publishing, NoPublishing
  <1> PICK t : t = IF isNewRedirect THEN Redirected(s) ELSE s
    OBVIOUS
  <1>5. /\ t.sentEvent = TRUE /\ t.published = FALSE /\ t.details = p.details /\ t.timer = FALSE
        /\ t \in Publishing
    <2>1. CASE isNewRedirect
      BY <1>4, <2>1 DEF Redirected, Publishing, NoPublishing
    <2>2. CASE ~isNewRedirect
      <3>1. p = NoPublishing
        BY <1>1, <2>2 DEF TellsOk
      <3>2. p.published = FALSE /\ p.timer = FALSE
        BY <3>1 DEF NoPublishing
      <3>3. t = s
        BY <2>2
      <3> QED BY <1>4, <3>2, <3>3
    <2> QED BY <2>1, <2>2
  <1> PICK u : u = [t EXCEPT !.timer = TRUE]
    OBVIOUS
  <1>6. u.sentEvent = TRUE /\ u.published = FALSE /\ u.details = p.details /\ u.timer = TRUE
    BY <1>5 DEF Publishing, NoPublishing
  <1>7. EmitResourceRequested(r, q, t)
    BY <1>15 DEF OnRequestWillBeSent
  <1>8. publishing' = [publishing EXCEPT ![r] = u] /\ UNCHANGED resourceVars
    BY <1>5, <1>7 DEF EmitResourceRequested
  <1>9. /\ chrome' = [chrome EXCEPT ![r] = c] /\ requestsById' = [requestsById EXCEPT ![r] = q]
        /\ UNCHANGED <<closed, environment>>
    BY <1>15 DEF OnRequestWillBeSent
  <1>10. redirectsById' = [redirectsById EXCEPT ![r] = f]
    <2>1. CASE isNewRedirect
      BY <2>1 DEF OnRequestWillBeSent
    <2>2. CASE ~isNewRedirect
      BY <2>2, OneOf DEF OnRequestWillBeSent, TypeInv
    <2> QED BY <2>1, <2>2
  <1>11. UNCHANGED <<pending, dropping, mitm, closed>>
    BY <1>8, <1>9 DEF resourceVars
  <1>12. Becoming(r, c, q, u, f)
    BY <1>8, <1>9, <1>10, <1>11, OneBecomes
  <1>13. \A i \in DOMAIN f : f[i].headers
    <2>1. CASE isNewRedirect
      <3>1. e.headers /\ \A i \in DOMAIN d : d[i].headers
        BY <1>1, <2>1 DEF TellsOk
      <3>2. DOMAIN f = 1..Len(d)+1 /\ \A i \in DOMAIN f : f[i] = IF i = Len(d)+1 THEN e ELSE d[i]
        BY <1>1, <2>1, AppendProperties
      <3>3. DOMAIN d = 1..Len(d) /\ Len(d) \in Nat
        BY <1>1
      <3> QED BY <3>1, <3>2, <3>3
    <2>2. CASE ~isNewRedirect
      BY <1>1, <2>2 DEF TellsOk
    <2> QED BY <2>1, <2>2
  <1>14. ~o.extra /\ ~o.received /\ o.cached = "no" /\ ~o.cacheTimer
         /\ o.hop <= Len(environment.url[r])
    BY <1>1 DEF TellsOk
  <1>16. TellsOk(c, q, u, f, Len(environment.url[r]))
    <2>1. CASE Happens("password")
      <3>1. o.hop <= 1 /\ o.paused = "no" /\ ~p.details
        BY <1>1, <1>14, <2>1 DEF TellsOk
      <3> QED BY <1>1, <1>2, <1>3, <1>6, <1>13, <1>14, <2>1, <3>1 DEF TellsOk
    <2>2. CASE ~Happens("password")
      <3>1. o.paused = "no"
        BY <1>1, <2>2 DEF TellsOk
      <3> QED BY <1>1, <1>2, <1>3, <1>6, <1>13, <1>14, <2>2, <3>1 DEF TellsOk
    <2> QED BY <2>1, <2>2
  <1>17. /\ c.hop = chrome[r].hop /\ (c.over <=> chrome[r].over) /\ c.extra = chrome[r].extra
         /\ (c.sent /\ u.published <=> Told(r))
    BY <1>1, <1>2, <1>6 DEF Told
  <1>18. c.received => mitm[Now(r)].progress # "no"
    BY <1>2, <1>14
  <1> QED BY <1>11, <1>12, <1>16, <1>17, <1>18, SameList

-----------------------------------------------------------------------------
\* Entries join: the steps of the proxy.

\* The proxy goes on with a request, which only changes how far it is.
LEMMA ProxyGoesOn ==
  ASSUME TypeInv, Plain, Joins, NEW r \in Request, NEW h \in Hop, NEW to \in {"answered", "recorded"},
         mitm[<<r, h>>].progress # "no", to = "recorded" => mitm[<<r, h>>].settled,
         mitm' = [mitm EXCEPT ![<<r, h>>].progress = to],
         UNCHANGED <<chrome, managerVars, dropping, closed, environment>>
  PROVE  /\ OthersStay(r) /\ Tells(r)' /\ ProxyOk(r)' /\ AreAlone' /\ dropping' = {} /\ ~closed'
         /\ (Active(r)' <=> Active(r)) /\ (Told(r)' <=> Told(r))
         /\ Active(r) => (mitm'[Now(r)'].progress = "no" <=> mitm[Now(r)].progress = "no")
         /\ \A x : (IsOpen(x, r) => IsOpen(x, r)') /\ (IsQueued(x, r) => IsQueued(x, r)')
         /\ \A x : IsJoined(x, r) => IsJoined(x, r)'
  <1>1. mitm \in [Mitm -> MitmRequest] /\ <<r, h>> \in Mitm
    BY PendingParts DEF Mitm
  <1>2. \A m \in Mitm : /\ mitm'[m].settled = mitm[m].settled /\ mitm'[m].joined = mitm[m].joined
                        /\ mitm'[m].progress = "no" <=> mitm[m].progress = "no"
                        /\ mitm'[m].progress = IF m = <<r, h>> THEN to ELSE mitm[m].progress
    BY <1>1 DEF MitmRequest
  <1>3. \A m \in Mitm : m # <<r, h>> => mitm'[m] = mitm[m]
    BY <1>1
  <1>4. OthersStay(r)
    BY <1>3 DEF OthersStay, Mitm, managerVars
  <1>5. /\ \A known : HeadersOf(r, known)' = HeadersOf(r, known)
        /\ \A n : UrlAt(r, n)' = UrlAt(r, n)
        /\ Happens("password")' <=> Happens("password")
    BY SameWords
  <1>6. Now(r)' = Now(r) /\ (Active(r)' <=> Active(r)) /\ (Told(r)' <=> Told(r))
    BY DEF Now, Active, Told, managerVars
  <1>7. Active(r) => Now(r) \in Mitm
    BY PlainParts
  <1>8. Tells(r)'
    BY <1>5, PlainParts DEF Tells, TellsOk, managerVars
  <1>9. ProxyOk(r)'
    <2>1. ProxyOk(r)
      BY PlainParts
    <2>2. \A hop \in Hop : <<r, hop>> \in Mitm
      BY DEF Mitm
    <2>3. ASSUME NEW hop \in Hop
          PROVE  /\ hop > chrome'[r].hop => mitm'[<<r, hop>>].progress = "no"
                 /\ mitm'[<<r, hop>>].settled => /\ mitm'[<<r, hop>>].joined = r
                                                 /\ mitm'[<<r, hop>>].progress # "no"
                 /\ mitm'[<<r, hop>>].progress = "recorded" => mitm'[<<r, hop>>].settled
                 /\ mitm'[<<r, hop>>].progress # "failed"
      BY <1>2, <2>1, <2>2 DEF ProxyOk
    <2>4. chrome'[r].received => mitm'[Now(r)'].progress # "no"
      <3>1. chrome[r].received => Now(r) \in Mitm
        BY PlainParts, MatchingAssumption DEF Tells, TellsOk, Hop, Now, Mitm
      <3> QED BY <1>2, <1>6, <2>1, <3>1 DEF ProxyOk
    <2> QED BY <2>3, <2>4 DEF ProxyOk
  <1>10. ASSUME NEW x PROVE (IsOpen(x, r) => IsOpen(x, r)') /\ (IsQueued(x, r) => IsQueued(x, r)')
    BY <1>2, <1>5, <1>6, <1>7 DEF IsOpen, IsQueued
  <1>11. ASSUME NEW x, IsJoined(x, r) PROVE IsJoined(x, r)'
    <2>1. PICK hop \in 1..chrome[r].hop : x.mitm = <<r, hop>> /\ x.url = UrlAt(r, hop)
      BY <1>11 DEF IsJoined
    <2>2. hop \in Hop
      BY PlainParts, MatchingAssumption DEF Hop
    <2>3. x.mitm \in Mitm
      BY <2>1, <2>2 DEF Mitm
    <2>4. \E n \in 1..chrome'[r].hop : x.mitm = <<r, n>> /\ x.url = UrlAt(r, n)'
      BY <1>5, <2>1
    <2> QED BY <1>2, <1>5, <1>6, <1>11, <2>3, <2>4 DEF IsJoined
  <1>12. AreAlone' /\ dropping' = {} /\ ~closed'
    BY <1>4, <1>6, StayAlone DEF Joins
  <1>13. Active(r) => (mitm'[Now(r)'].progress = "no" <=> mitm[Now(r)].progress = "no")
    BY <1>2, <1>6, <1>7
  <1> QED BY <1>4, <1>6, <1>8, <1>9, <1>10, <1>11, <1>12, <1>13

\* The proxy answers a request.
LEMMA AnswerJoins ==
  ASSUME TypeInv, Plain, Joins, NEW m \in Mitm, Answer(m)
  PROVE  Joins'
  <1>1. PICK r \in Request, h \in Hop : m = <<r, h>>
    BY DEF Mitm
  <1>2. /\ mitm[<<r, h>>].progress # "no" /\ mitm' = [mitm EXCEPT ![<<r, h>>].progress = "answered"]
        /\ UNCHANGED <<chrome, managerVars, dropping, closed, environment>> /\ pending' = pending
    BY <1>1 DEF Answer
  <1> PICK to \in {"answered", "recorded"} : to = "answered"
    OBVIOUS
  <1>3. /\ OthersStay(r) /\ Tells(r)' /\ ProxyOk(r)' /\ AreAlone' /\ dropping' = {} /\ ~closed'
        /\ (Active(r)' <=> Active(r)) /\ (Told(r)' <=> Told(r))
        /\ Active(r) => (mitm'[Now(r)'].progress = "no" <=> mitm[Now(r)].progress = "no")
        /\ \A x : (IsOpen(x, r) => IsOpen(x, r)') /\ (IsQueued(x, r) => IsQueued(x, r)')
        /\ \A x : IsJoined(x, r) => IsJoined(x, r)'
    BY <1>2, ProxyGoesOn
  <1>4. NoneIsMissing(r)'
    <2>1. ASSUME NEW i \in DOMAIN pending
          PROVE  /\ IsOpen(pending[i], r) => IsOpen(pending[i], r)'
                 /\ IsQueued(pending[i], r) => IsQueued(pending[i], r)'
      <3> PICK x : x = pending[i]
        OBVIOUS
      <3> QED BY <1>2, <1>3, EntryNext
    <2> QED BY <1>2, <1>3, <2>1, PlainParts DEF NoneIsMissing
  <1>5. \A x : IsOf(x, r) => IsOf(x, r)'
    BY <1>3 DEF IsOf
  <1> QED BY <1>2, <1>3, <1>4, <1>5, ListStays

\* The list once a request of the proxy is resolved: the entries but its own.
LEMMA ListWithout ==
  ASSUME TypeInv, NEW m \in Mitm, RequestIsResolved(m)
  PROVE  /\ \A j \in DOMAIN pending' : \E l \in DOMAIN pending : pending'[j] = pending[l]
         /\ \A l \in DOMAIN pending : pending[l].mitm # m =>
              \E j \in DOMAIN pending' : pending'[j] = pending[l]
         /\ OneQueued => OneQueued'
  <1>1. CASE pending' = pending
    BY <1>1 DEF OneQueued
  <1>2. CASE \E i \in DOMAIN pending : pending[i].mitm = m /\ pending' = RemoveAt(pending, i)
    <2>1. PICK i \in DOMAIN pending : pending[i].mitm = m /\ pending' = RemoveAt(pending, i)
      BY <1>2
    <2>2. pending \in Seq(PendingEntry) /\ DOMAIN pending = 1..Len(pending) /\ Len(pending) \in Nat
      BY PendingParts
    <2> PICK n \in Nat : n = Len(pending)
      BY <2>2
    <2>3. /\ DOMAIN pending' = 1..n-1 /\ i \in 1..n /\ DOMAIN pending = 1..n
          /\ \A j \in 1..n-1 : pending'[j] = IF j < i THEN pending[j] ELSE pending[j + 1]
      BY <2>1, <2>2, Removed
    <2> DEFINE at(j) == IF j < i THEN j ELSE j + 1
    <2>4. ASSUME NEW j \in 1..n-1 PROVE at(j) \in 1..n /\ pending'[j] = pending[at(j)]
      BY <2>3
    <2>5. \A l \in 1..n : l # i => \E j \in 1..n-1 : at(j) = l
      <3> TAKE l \in 1..n
      <3> HAVE l # i
      <3>1. CASE l < i
        <4>1. l \in 1..n-1 /\ at(l) = l
          BY <2>3, <3>1
        <4> QED BY <4>1
      <3>2. CASE l > i
        <4>1. l-1 \in 1..n-1 /\ at(l-1) = l
          BY <2>3, <3>2
        <4> QED BY <4>1
      <3> QED BY <2>3, <3>1, <3>2
    <2>6. \A j, k \in 1..n-1 : at(j) = at(k) => j = k
      BY <2>3
    <2> HIDE DEF at
    <2>7. ASSUME OneQueued PROVE OneQueued'
      <3>1. ASSUME NEW j \in 1..n-1, NEW k \in 1..n-1, pending'[j].mitm = None,
                   pending'[k].mitm = None, pending'[j].browser = pending'[k].browser
            PROVE  j = k
        <4>1. at(j) = at(k)
          BY <2>3, <2>4, <2>7, <3>1 DEF OneQueued
        <4> QED BY <2>6, <4>1
      <3> QED BY <2>3, <3>1 DEF OneQueued
    <2>8. \A j \in DOMAIN pending' : \E l \in DOMAIN pending : pending'[j] = pending[l]
      BY <2>3, <2>4
    <2>9. ASSUME NEW l \in DOMAIN pending, pending[l].mitm # m
          PROVE  \E j \in DOMAIN pending' : pending'[j] = pending[l]
      <3>1. l \in 1..n /\ l # i
        BY <2>1, <2>3, <2>9
      <3>2. PICK j \in 1..n-1 : at(j) = l
        BY <2>5, <3>1
      <3>3. pending'[j] = pending[l] /\ j \in DOMAIN pending'
        BY <2>3, <2>4, <3>2
      <3> QED BY <3>3
    <2> QED BY <2>7, <2>8, <2>9
  <1> QED BY <1>1, <1>2, ResolvedOk

\* The proxy records a response, and its entry is removed: the wait of it has settled.
LEMMA OnMitmResponseJoins ==
  ASSUME TypeInv, Plain, Joins, NEW m \in Mitm, OnMitmResponse(m)
  PROVE  Joins'
  <1>1. PICK r \in Request, h \in Hop : m = <<r, h>>
    BY DEF Mitm
  <1>2. /\ mitm[<<r, h>>].progress # "no" /\ mitm' = [mitm EXCEPT ![<<r, h>>].progress = "recorded"]
        /\ mitm[<<r, h>>].settled /\ UNCHANGED <<chrome, managerVars, dropping, closed, environment>>
        /\ RequestIsResolved(m)
    BY <1>1 DEF OnMitmResponse
  <1> PICK to \in {"answered", "recorded"} : to = "recorded"
    OBVIOUS
  <1>3. /\ OthersStay(r) /\ Tells(r)' /\ ProxyOk(r)' /\ AreAlone' /\ dropping' = {} /\ ~closed'
        /\ (Active(r)' <=> Active(r)) /\ (Told(r)' <=> Told(r))
        /\ Active(r) => (mitm'[Now(r)'].progress = "no" <=> mitm[Now(r)].progress = "no")
        /\ \A x : (IsOpen(x, r) => IsOpen(x, r)') /\ (IsQueued(x, r) => IsQueued(x, r)')
        /\ \A x : IsJoined(x, r) => IsJoined(x, r)'
    BY <1>2, ProxyGoesOn
  <1>4. /\ \A j \in DOMAIN pending' : \E l \in DOMAIN pending : pending'[j] = pending[l]
        /\ \A l \in DOMAIN pending : pending[l].mitm # m =>
             \E j \in DOMAIN pending' : pending'[j] = pending[l]
        /\ OneQueued'
    BY <1>2, ListWithout DEF Joins
  <1>5. ASSUME NEW l \in DOMAIN pending, NEW q \in Request,
               IsOpen(pending[l], q) \/ IsQueued(pending[l], q)
        PROVE  \E j \in DOMAIN pending' : pending'[j] = pending[l]
    <2>1. m # None
      BY MatchingAssumption DEF Mitm
    <2>2. pending[l].mitm # m
      <3>1. CASE IsOpen(pending[l], q)
        BY <1>1, <1>2, <3>1 DEF IsOpen
      <3>2. CASE IsQueued(pending[l], q)
        BY <2>1, <3>2 DEF IsQueued
      <3> QED BY <1>5, <3>1, <3>2
    <2> QED BY <1>4, <2>2
  <1>6. NoneIsMissing(r)'
    <2>1. ASSUME NEW l \in DOMAIN pending
          PROVE  /\ IsOpen(pending[l], r) => \E j \in DOMAIN pending' : IsOpen(pending[j], r)'
                 /\ IsQueued(pending[l], r) => \E j \in DOMAIN pending' : IsQueued(pending[j], r)'
      <3>1. ASSUME IsOpen(pending[l], r) \/ IsQueued(pending[l], r)
            PROVE  \E j \in DOMAIN pending' : pending'[j] = pending[l]
        BY <1>5, <3>1
      <3> PICK x : x = pending[l]
        OBVIOUS
      <3> QED BY <1>3, <3>1, EntryNext
    <2> QED BY <1>3, <2>1, PlainParts DEF NoneIsMissing
  <1>7. ASSUME NEW j \in DOMAIN pending', NEW x, x = pending'[j]
        PROVE  \/ IsOf(x, r)'
               \/ \E l \in DOMAIN pending, q \in Request \ {r} : x = pending[l] /\ IsOf(x, q)
    <2>1. PICK l \in DOMAIN pending : x = pending[l]
      BY <1>4, <1>7
    <2>2. PICK q \in Request : IsOf(x, q)
      BY <2>1 DEF Joins, EntriesJoin
    <2>3. CASE q = r
      BY <1>3, <2>2, <2>3 DEF IsOf
    <2>4. CASE q # r
      BY <2>1, <2>2, <2>4
    <2> QED BY <2>3, <2>4
  <1> QED BY <1>3, <1>4, <1>5, <1>6, <1>7, JoinsNext

\* The proxy sees a request.  If the page was told of the hop, it takes the entry that is queued,
\* and they are joined; otherwise it adds one, which is open.
LEMMA SeesRequest ==
  ASSUME TypeInv, Plain, Joins, NEW r \in Request, DetermineResourceType(r)
  PROVE  /\ Active(r) /\ Now(r) \in Mitm /\ UNCHANGED <<chrome, managerVars, closed, environment>>
         /\ mitm[Now(r)].progress = "no" /\ ~mitm[Now(r)].settled
         /\ (Told(r) => chrome[r].extra) /\ (~Told(r) => ~Happens("password"))
         /\ HeadersOf(r, TRUE) = None => HeadersOf(r, chrome[r].extra) = None
  <1>1. Active(r) /\ mitm[Now(r)].progress = "no"
    BY DEF DetermineResourceType, Active, Now
  <1>2. Now(r) \in Mitm /\ ~mitm[Now(r)].settled
    <2>1. Now(r) \in Mitm /\ chrome[r].hop \in Hop /\ ProxyOk(r)
      BY <1>1, PlainParts
    <2> QED BY <1>1, <2>1 DEF ProxyOk, Now
  <1>3. UNCHANGED <<chrome, managerVars, closed, environment>>
    BY DEF DetermineResourceType
  <1> PICK c, q, p, d, n : /\ c = chrome[r] /\ q = requestsById[r] /\ p = publishing[r]
                           /\ d = redirectsById[r] /\ n = Len(environment.url[r])
    OBVIOUS
  <1>4. TellsOk(c, q, p, d, n) /\ ~c.over
    BY <1>1, PlainParts DEF Tells, Active
  <1>5. Happens("password") => c.extra
    BY PlainParts DEF DetermineResourceType
  <1>6. c.sent /\ p.published => c.extra
    BY <1>4, <1>5 DEF TellsOk
  <1>7. Happens("password") => c.sent /\ p.published
    BY <1>4, <1>5 DEF TellsOk
  <1>8. HeadersOf(r, TRUE) = None => HeadersOf(r, c.extra) = None
    <2>1. chrome[r].extra \in BOOLEAN
      BY PlainParts DEF ChromeRequest
    <2> QED BY <2>1 DEF HeadersOf
  <1> QED BY <1>1, <1>2, <1>3, <1>6, <1>7, <1>8 DEF Told

\* The entry at a position of a list is the one of the request, and the others are the pending ones.
TakesOwn(r, list, at) ==
  /\ list[at].url = UrlAt(r, chrome[r].hop) /\ list[at].headers = HeadersOf(r, TRUE)
  /\ IF Told(r) THEN list[at].browser = r /\ list[at].wait = "resolved"
     ELSE list[at].browser = None /\ list[at].wait = "open"
  /\ \A l \in DOMAIN pending : IF l = at THEN IsQueued(pending[l], r)
                               ELSE list[l] = pending[l] /\ l \in 1..Len(list)
  /\ \A l \in DOMAIN pending : IsQueued(pending[l], r) => l = at
  /\ \A j \in 1..Len(list) : j = at \/ (j \in DOMAIN pending /\ list[j] = pending[j])

\* The entry it takes, or adds.
LEMMA TakesItsOwn ==
  ASSUME TypeInv, Plain, Joins, NEW r \in Request, DetermineResourceType(r),
         NEW list \in Seq(PendingEntry), NEW at \in Nat, Taken(r, list, at)
  PROVE  at \in 1..Len(list) /\ TakesOwn(r, list, at)
  <1> DEFINE url == UrlAt(r, chrome[r].hop)
             headers == HeadersOf(r, TRUE)
             i == FindMatchingRequest(pending, url, headers, None, "noMitmResourceId")
             entry == [url |-> url, headers |-> headers, browser |-> None, mitm |-> None,
                       wait |-> "open"]
  <1>1. /\ pending \in Seq(PendingEntry) /\ DOMAIN pending = 1..Len(pending) /\ Len(pending) \in Nat
    BY PendingParts
  <1>2. CASE i # 0
    <2>1. i \in 1..Len(pending) /\ Suits(pending[i], url, headers, None, "noMitmResourceId")
      BY <1>1, <1>2, Finds
    <2>2. list = pending /\ at = i
      BY <1>2 DEF Taken
    <2> HIDE DEF i
    <2>3. IsQueued(pending[i], r)
      BY <1>1, <2>1, SeesRequest, SuitsProxy
    <2>4. pending[i].headers = headers
      <3>1. CASE headers # None
        BY <2>1, <3>1 DEF Suits
      <3>2. CASE headers = None
        BY <2>3, <3>2, SeesRequest DEF IsQueued
      <3> QED BY <3>1, <3>2
    <2>5. \A l \in DOMAIN pending : IsQueued(pending[l], r) => l = i
      BY <1>1, <2>1, <2>3 DEF Joins, OneQueued, IsQueued
    <2> QED BY <1>1, <2>1, <2>2, <2>3, <2>4, <2>5 DEF IsQueued, TakesOwn
  <1>3. CASE i = 0
    <2>1. list = Append(pending, entry) /\ at = Len(pending) + 1
      BY <1>3 DEF Taken
    <2>2. ~Told(r)
      <3> SUFFICES ASSUME Told(r) PROVE FALSE
        OBVIOUS
      <3>1. NoneIsMissing(r)
        BY PlainParts
      <3>2. PICK l \in DOMAIN pending : IsQueued(pending[l], r)
        BY <3>1, SeesRequest DEF NoneIsMissing
      <3>3. chrome[r].extra = TRUE
        BY SeesRequest, PlainParts DEF ChromeRequest
      <3>4. Suits(pending[l], url, headers, None, "noMitmResourceId")
        BY <3>2, <3>3 DEF IsQueued, Suits
      <3>5. \A j \in 1..Len(pending) : ~Suits(pending[j], url, headers, None, "noMitmResourceId")
        BY <1>1, <1>3, Finds
      <3> QED BY <1>1, <3>2, <3>4, <3>5
    <2>3. \A l \in DOMAIN pending : ~IsQueued(pending[l], r)
      BY <2>2 DEF IsQueued
    <2> PICK n \in Nat : n = Len(pending)
      BY <1>1
    <2>4. entry \in PendingEntry
      <3>1. url \in Urls
        BY PlainParts DEF Urls
      <3>2. headers \in Request \cup {None, "same"}
        BY HeadersType
      <3> HIDE DEF url, headers
      <3> QED BY <3>1, <3>2 DEF PendingEntry
    <2> PICK e \in PendingEntry : e = entry
      BY <2>4
    <2>5. Len(list) = n + 1 /\ \A j \in 1..n+1 : list[j] = IF j = n + 1 THEN e ELSE pending[j]
      BY <1>1, <2>1, AppendProperties
    <2>6. e.url = url /\ e.headers = headers /\ e.browser = None /\ e.wait = "open"
      OBVIOUS
    <2>7. at = n + 1 /\ n + 1 \in 1..n+1 /\ list[n + 1] = e
      BY <2>1, <2>5
    <2> HIDE DEF i, entry
    <2>8. \A l \in 1..n : l # n + 1 /\ l \in 1..n+1 /\ list[l] = pending[l]
      BY <2>5
    <2>9. \A j \in 1..n+1 : j # n + 1 => j \in 1..n
      OBVIOUS
    <2> QED BY <1>1, <2>2, <2>3, <2>5, <2>6, <2>7, <2>8, <2>9 DEF TakesOwn
  <1> QED BY <1>2, <1>3

\* So the entry it gives the request to is open, or joined.
LEMMA DetermineResourceTypeJoins ==
  ASSUME TypeInv, Plain, Joins, NEW r \in Request, DetermineResourceType(r)
  PROVE  Joins'
  <1>1. PICK list \in Seq(PendingEntry), at \in Nat, x \in PendingEntry, a \in MitmRequest :
          /\ Taken(r, list, at) /\ at \in 1..Len(list)
          /\ x.url = list[at].url /\ x.headers = list[at].headers /\ x.browser = list[at].browser
          /\ x.wait = list[at].wait /\ x.mitm = Now(r) /\ list[at].mitm = None
          /\ a.progress = "arrived" /\ a.settled = mitm[Now(r)].settled
          /\ a.joined = mitm[Now(r)].joined
          /\ pending' = [list EXCEPT ![at] = x]
          /\ mitm' = Settled([mitm EXCEPT ![Now(r)] = a], x) /\ dropping' = dropping
    BY TakesEntry, Zenon
  <1>2. /\ Active(r) /\ Now(r) \in Mitm /\ UNCHANGED <<chrome, managerVars, closed, environment>>
        /\ mitm[Now(r)].progress = "no" /\ ~mitm[Now(r)].settled
        /\ (~Told(r) => ~Happens("password"))
    BY SeesRequest
  <1>3. /\ list[at].url = UrlAt(r, chrome[r].hop) /\ list[at].headers = HeadersOf(r, TRUE)
        /\ IF Told(r) THEN list[at].browser = r /\ list[at].wait = "resolved"
           ELSE list[at].browser = None /\ list[at].wait = "open"
        /\ \A l \in DOMAIN pending : IF l = at THEN IsQueued(pending[l], r)
                                     ELSE list[l] = pending[l] /\ l \in 1..Len(list)
        /\ \A l \in DOMAIN pending : IsQueued(pending[l], r) => l = at
        /\ \A j \in 1..Len(list) : j = at \/ (j \in DOMAIN pending /\ list[j] = pending[j])
    <2>1. TakesOwn(r, list, at)
      BY <1>1, TakesItsOwn
    <2> QED BY <2>1 DEF TakesOwn
  <1>4. Now(r) # None /\ mitm \in [Mitm -> MitmRequest]
    BY <1>2, PlainParts, PendingParts
  <1>5. /\ \A m \in Mitm : m # Now(r) => mitm'[m] = mitm[m]
        /\ mitm'[Now(r)].progress = "arrived"
        /\ IF Told(r) THEN mitm'[Now(r)].settled /\ mitm'[Now(r)].joined = r
           ELSE ~mitm'[Now(r)].settled
    <2> PICK k : k = [mitm EXCEPT ![Now(r)] = a]
      OBVIOUS
    <2>1. /\ k \in [Mitm -> MitmRequest] /\ k[Now(r)] = a
          /\ \A m \in Mitm : m # Now(r) => k[m] = mitm[m]
      BY <1>1, <1>2, <1>4
    <2>2. mitm' = Settled(k, x)
      BY <1>1
    <2>3. /\ \A m \in Mitm : m # Now(r) => mitm'[m] = mitm[m]
          /\ mitm'[Now(r)] = IF x.wait = "open" \/ a.settled THEN a
                             ELSE [a EXCEPT !.settled = TRUE,
                                      !.joined = IF x.wait = "resolved" THEN x.browser ELSE None]
      <3>1. /\ \A m \in Mitm : m # x.mitm => Settled(k, x)[m] = k[m]
            /\ \A m \in Mitm : m = x.mitm /\ x.mitm # None =>
                 Settled(k, x)[m] = IF x.wait = "open" \/ k[m].settled THEN k[m]
                                    ELSE [k[m] EXCEPT !.settled = TRUE,
                                            !.joined = IF x.wait = "resolved" THEN x.browser ELSE None]
        <4>1. Settles(Settled(k, x), k, x)
          BY <2>1, SettledOk
        <4> QED BY <4>1 DEF Settles
      <3>2. x.mitm = Now(r) /\ Now(r) \in Mitm /\ Now(r) # None
        BY <1>1, <1>2, <1>4
      <3> QED BY <2>1, <2>2, <3>1, <3>2
    <2>4. CASE Told(r)
      <3>1. x.wait = "resolved" /\ x.browser = r /\ ~a.settled
        BY <1>1, <1>2, <1>3, <2>4
      <3>2. mitm'[Now(r)] = [a EXCEPT !.settled = TRUE, !.joined = r]
        BY <2>3, <3>1
      <3> QED BY <1>1, <2>3, <2>4, <3>2 DEF MitmRequest
    <2>5. CASE ~Told(r)
      BY <1>1, <1>2, <1>3, <2>3, <2>5
    <2> QED BY <2>3, <2>4, <2>5
  <1>6. OthersStay(r)
    <2>1. \A q \in Request \ {r}, hop \in Hop : <<q, hop>> \in Mitm /\ <<q, hop>> # Now(r)
      BY DEF Mitm, Now
    <2> QED BY <1>2, <1>5, <2>1 DEF OthersStay, managerVars
  <1>7. /\ Now(r)' = Now(r) /\ (Active(r)' <=> Active(r)) /\ (Told(r)' <=> Told(r))
        /\ chrome' = chrome
    BY <1>2 DEF Now, Active, Told, managerVars
  <1>8. /\ \A known : HeadersOf(r, known)' = HeadersOf(r, known)
        /\ \A n : UrlAt(r, n)' = UrlAt(r, n)
        /\ Happens("password")' <=> Happens("password")
    BY <1>2, SameWords
  <1>9. Tells(r)'
    BY <1>2, <1>8, PlainParts DEF Tells, TellsOk, managerVars
  <1>10. ProxyOk(r)'
    <2>1. ProxyOk(r) /\ chrome[r].hop \in Nat
      BY PlainParts
    <2>2. ASSUME NEW hop \in Hop
          PROVE  /\ hop > chrome'[r].hop => mitm'[<<r, hop>>].progress = "no"
                 /\ mitm'[<<r, hop>>].settled => /\ mitm'[<<r, hop>>].joined = r
                                                 /\ mitm'[<<r, hop>>].progress # "no"
                 /\ mitm'[<<r, hop>>].progress = "recorded" => mitm'[<<r, hop>>].settled
                 /\ mitm'[<<r, hop>>].progress # "failed"
      <3>1. CASE <<r, hop>> = Now(r)
        <4>1. hop = chrome[r].hop
          BY <3>1 DEF Now
        <4>2. ~(hop > chrome'[r].hop)
          BY <1>7, <2>1, <4>1
        <4> QED BY <1>5, <3>1, <4>2
      <3>2. CASE <<r, hop>> # Now(r)
        BY <1>5, <1>7, <2>1, <3>2 DEF ProxyOk, Mitm
      <3> QED BY <3>1, <3>2
    <2>3. chrome'[r].received => mitm'[Now(r)'].progress # "no"
      BY <1>5, <1>7
    <2> QED BY <2>2, <2>3 DEF ProxyOk
  <1>11. /\ DOMAIN pending' = 1..Len(list) /\ pending'[at] = x
         /\ \A j \in 1..Len(list) : j # at => pending'[j] = list[j]
    <2>1. DOMAIN list = 1..Len(list)
      OBVIOUS
    <2> QED BY <1>1, <2>1
  <1>12. IF Told(r) THEN IsJoined(x, r)' ELSE IsOpen(x, r)'
    <2>1. CASE Told(r)
      <3>1. chrome[r].hop \in 1..chrome'[r].hop
        BY <1>2, <1>7, PlainParts DEF Active
      <3>2. \E hop \in 1..chrome'[r].hop : x.mitm = <<r, hop>> /\ x.url = UrlAt(r, hop)'
        BY <1>1, <1>3, <1>8, <3>1 DEF Now
      <3> QED BY <1>1, <1>3, <1>5, <1>7, <1>8, <2>1, <3>2 DEF IsJoined
    <2>2. CASE ~Told(r)
      <3>1. x.browser = None /\ x.wait = "open" /\ x.mitm = Now(r)
        BY <1>1, <1>3, <2>2
      <3>2. Active(r)' /\ ~Told(r)' /\ ~Happens("password")' /\ ~mitm'[Now(r)'].settled
        BY <1>2, <1>3, <1>5, <1>7, <1>8, <2>2
      <3>3. x.url = UrlAt(r, chrome[r].hop)' /\ x.headers = HeadersOf(r, TRUE)'
        BY <1>1, <1>3, <1>7, <1>8
      <3> QED BY <1>7, <3>1, <3>2, <3>3 DEF IsOpen
    <2> QED BY <2>1, <2>2
  <1>13. ASSUME NEW l \in DOMAIN pending, l # at, NEW y, y = pending[l], IsOf(y, r)
         PROVE  IsOf(y, r)'
    <2>1. y.mitm # None => y.mitm # Now(r)
      BY <1>2, <1>13, PendingParts
    <2>2. ~IsQueued(y, r) /\ ~IsOpen(y, r)
      <3>1. ~IsOpen(y, r)
        BY <1>4, <2>1 DEF IsOpen
      <3>2. ~IsQueued(y, r)
        BY <1>3, <1>13
      <3> QED BY <3>1, <3>2
    <2>3. IsJoined(y, r)
      BY <1>13, <2>2 DEF IsOf
    <2>4. PICK hop \in 1..chrome[r].hop : y.mitm = <<r, hop>> /\ y.url = UrlAt(r, hop)
      BY <2>3 DEF IsJoined
    <2>5. y.mitm \in Mitm
      <3>1. hop \in Hop
        BY PlainParts, MatchingAssumption DEF Hop
      <3> QED BY <2>4, <3>1 DEF Mitm
    <2>6. y.mitm # Now(r) /\ mitm'[y.mitm] = mitm[y.mitm]
      BY <1>5, <2>1, <2>5, MatchingAssumption DEF Mitm
    <2>7. \E n \in 1..chrome'[r].hop : y.mitm = <<r, n>> /\ y.url = UrlAt(r, n)'
      BY <1>7, <1>8, <2>4
    <2>8. IsJoined(y, r)'
      BY <1>7, <1>8, <2>3, <2>6, <2>7 DEF IsJoined
    <2> QED BY <2>8 DEF IsOf
  <1>14. ASSUME NEW j \in DOMAIN pending', NEW y, y = pending'[j]
         PROVE  \/ IsOf(y, r)'
                \/ \E l \in DOMAIN pending, q \in Request \ {r} : y = pending[l] /\ IsOf(y, q)
    <2>1. CASE j = at
      BY <1>11, <1>12, <1>14, <2>1 DEF IsOf
    <2>2. CASE j # at
      <3>1. j \in DOMAIN pending /\ y = pending[j]
        BY <1>3, <1>11, <1>14, <2>2
      <3>2. PICK q \in Request : IsOf(y, q)
        BY <3>1 DEF Joins, EntriesJoin
      <3>3. CASE q = r
        BY <1>13, <2>2, <3>1, <3>2, <3>3
      <3>4. CASE q # r
        BY <3>1, <3>2, <3>4
      <3> QED BY <3>3, <3>4
    <2> QED BY <2>1, <2>2
  <1>15. ASSUME NEW l \in DOMAIN pending, NEW q \in Request \ {r},
                IsOpen(pending[l], q) \/ IsQueued(pending[l], q)
         PROVE  \E j \in DOMAIN pending' : pending'[j] = pending[l]
    <2>1. r # None /\ q # r
      BY MatchingAssumption
    <2>2. ~IsQueued(pending[l], r)
      BY <1>15, <2>1 DEF IsOpen, IsQueued
    <2>3. l # at /\ l \in 1..Len(list) /\ list[l] = pending[l]
      BY <1>3, <2>2
    <2> QED BY <1>11, <2>3
  <1>16. OneQueued'
    <2>1. ASSUME NEW j \in DOMAIN pending', pending'[j].mitm = None
          PROVE  j \in DOMAIN pending /\ pending'[j] = pending[j]
      <3>1. j # at
        BY <1>1, <1>4, <1>11, <2>1
      <3> QED BY <1>3, <1>11, <2>1, <3>1
    <2> QED BY <2>1 DEF Joins, OneQueued
  <1>17. NoneIsMissing(r)'
    <2>1. ~Told(r) => \E j \in DOMAIN pending' : IsOpen(pending[j], r)'
      <3>1. at \in DOMAIN pending'
        BY <1>1, <1>11
      <3>2. ~Told(r) => IsOpen(pending[at], r)'
        BY <1>11, <1>12, EntryNext
      <3> QED BY <3>1, <3>2
    <2> QED BY <1>5, <1>7, <2>1 DEF NoneIsMissing
  <1>18. AreAlone' /\ dropping' = {} /\ ~closed'
    BY <1>1, <1>2, <1>6, <1>7, StayAlone DEF Joins
  <1> QED BY <1>6, <1>9, <1>10, <1>14, <1>15, <1>16, <1>17, <1>18, JoinsNext

-----------------------------------------------------------------------------
\* Entries join: the events of the page.

\* What one event makes of Resources.
LEMMA OneEvent ==
  ASSUME TypeInv, NEW r \in Request, NEW e \in PageEvent, Emits(r, <<e>>)
  PROVE  Resources' \in OnEvent(Resources, r, e)
  <1>1. Resources \in State
    BY DEF TypeInv
  <1> PICK s : s = <<e>>
    OBVIOUS
  <1>2. s \in Seq(PageEvent) /\ Len(s) = 1 /\ s[1] = e
    OBVIOUS
  <1>3. PICK g : After(g, r, s) /\ Outcomes(r, s) = g[Len(s)]
    BY <1>1, <1>2, EventKeepsState, OneByOne
  <1>4. g[1] = UNION {OnEvent(t, r, s[1]) : t \in g[0]} /\ g[0] = {Resources}
    <2>1. 1 \in 1..Len(s) /\ 1 - 1 = 0
      BY <1>2
    <2> QED BY <1>3, <2>1 DEF After
  <1>5. Outcomes(r, s) = OnEvent(Resources, r, e)
    BY <1>2, <1>3, <1>4
  <1>6. OnEvent(Resources, r, e) \subseteq State
    BY <1>1, EventKeepsState
  <1> QED BY <1>5, <1>6, BecomesOne DEF Emits

\* resource-will-be-requested for a request of which the page was not told: it joins the entry
\* that is open, or queues one.
LEMMA WillFinds ==
  ASSUME TypeInv, Plain, Joins, NEW r \in Request, NEW e \in PageEvent, Active(r), ~Told(r),
         e.kind = "will", e.hop = chrome[r].hop, e.headers \/ Happens("password"), Emits(r, <<e>>)
  PROVE  /\ dropping' = {}
         /\ \/ \E i \in DOMAIN pending, x \in PendingEntry :
                 /\ IsOpen(pending[i], r) /\ x.url = pending[i].url /\ x.headers = pending[i].headers
                 /\ x.browser = r /\ x.wait = "resolved" /\ x.mitm = Now(r)
                 /\ pending' = [pending EXCEPT ![i] = x] /\ mitm' = Settled(mitm, x)
            \/ /\ \A l \in DOMAIN pending : ~IsOpen(pending[l], r)
               /\ pending' = Append(pending, NewEntry(r, e)) /\ mitm' = mitm
  <1> DEFINE i == FindMatchingRequest(pending, UrlAt(r, e.hop), HeadersOf(r, e.headers), r, "any")
  <1>1. Resources \in State /\ pending \in Seq(PendingEntry) /\ DOMAIN pending = 1..Len(pending)
    BY PendingParts DEF TypeInv
  <1>2. Resources.pending = pending /\ Resources.mitm = mitm /\ Resources.dropping = dropping
        /\ Resources'.pending = pending' /\ Resources'.mitm = mitm' /\ Resources'.dropping = dropping'
    BY DEF Resources
  <1>3. Resources' \in OnBrowserWillRequest(Resources, r, e)
    BY OneEvent DEF OnEvent
  <1>4. dropping = {} /\ r # None
    BY MatchingAssumption DEF Joins
  <1>5. CASE i # 0
    <2>1. i \in DOMAIN pending /\ Suits(pending[i], UrlAt(r, e.hop), HeadersOf(r, e.headers), r, "any")
      BY <1>1, <1>5, Finds
    <2>2. IsOpen(pending[i], r)
      <3>1. e.headers \in BOOLEAN
        BY DEF PageEvent
      <3> HIDE DEF i
      <3> QED BY <2>1, <3>1, SuitsUntold
    <2>3. pending[i].browser # r /\ pending[i].wait = "open" /\ pending[i].mitm = Now(r)
      BY <1>4, <2>2 DEF IsOpen
    <2>4. Resources' = UpdatePendingResource(Resources, i, r)
      BY <1>2, <1>3, <1>5, <2>3 DEF OnBrowserWillRequest
    <2>5. i \in 1..Len(Resources.pending)
      BY <1>1, <1>2, <2>1
    <2> HIDE DEF i
    <2>6. PICK x \in PendingEntry :
            /\ x.url = pending[i].url /\ x.headers = pending[i].headers
            /\ x.browser = r /\ x.mitm = pending[i].mitm
            /\ x.wait = IF pending[i].wait = "open" THEN "resolved" ELSE pending[i].wait
            /\ Resources' = [pending |-> [pending EXCEPT ![i] = x], dropping |-> dropping,
                             mitm |-> Settled(mitm, x)]
      <3>1. PICK x \in PendingEntry : Updates(Resources, i, r, x)
        BY <1>1, <2>5, UpdateOk
      <3>2. Resources.pending = pending /\ Resources.dropping = dropping /\ Resources.mitm = mitm
        BY <1>2
      <3> QED BY <2>4, <3>1, <3>2 DEF Updates
    <2>7. pending' = [pending EXCEPT ![i] = x] /\ mitm' = Settled(mitm, x) /\ dropping' = dropping
      BY <1>2, <2>6
    <2> QED BY <1>4, <2>1, <2>2, <2>3, <2>6, <2>7
  <1>6. CASE i = 0
    <2>1. Resources' = [Resources EXCEPT !.pending = Append(@, NewEntry(r, e))]
      BY <1>2, <1>3, <1>6 DEF OnBrowserWillRequest, NewEntry
    <2>2. pending' = Append(pending, NewEntry(r, e)) /\ mitm' = mitm /\ dropping' = dropping
      BY <1>2, <2>1 DEF Resources
    <2>3. \A l \in DOMAIN pending :
            ~Suits(pending[l], UrlAt(r, e.hop), HeadersOf(r, e.headers), r, "any")
      BY <1>1, <1>6, Finds
    <2>4. e.headers = TRUE \/ (e.headers = FALSE /\ HeadersOf(r, e.headers) = None)
      BY DEF PageEvent, HeadersOf
    <2>5. ASSUME NEW l \in DOMAIN pending, IsOpen(pending[l], r) PROVE FALSE
      <3>1. Suits(pending[l], UrlAt(r, e.hop), HeadersOf(r, e.headers), r, "any")
        BY <2>4, <2>5 DEF IsOpen, Suits
      <3> QED BY <2>3, <3>1
    <2> QED BY <1>4, <2>2, <2>5
  <1> QED BY <1>5, <1>6

\* What a step that tells of a request sets.
Sets(r, c, q, p, d) ==
  /\ chrome' = [chrome EXCEPT ![r] = c] /\ requestsById' = [requestsById EXCEPT ![r] = q]
  /\ publishing' = [publishing EXCEPT ![r] = p] /\ redirectsById' = [redirectsById EXCEPT ![r] = d]
  /\ UNCHANGED <<closed, environment>>

\* A joined entry stays so while its request stays at its hop.
LEMMA JoinedStays ==
  ASSUME TypeInv, NEW r \in Request, NEW c, NEW q, NEW p, NEW d, Becoming(r, c, q, p, d),
         c.hop = chrome[r].hop,
         NEW x, IsJoined(x, r), mitm'[x.mitm].settled, x.mitm = Now(r) => c.over \/ (c.sent /\ p.published)
  PROVE  IsJoined(x, r)'
  <1>1. /\ chrome'[r] = c /\ UNCHANGED environment
        /\ Now(r)' = <<r, c.hop>> /\ (Active(r)' <=> c.hop # 0 /\ ~c.over)
        /\ (Told(r)' <=> c.sent /\ p.published)
    BY ThenTells
  <1>2. Now(r)' = Now(r)
    BY <1>1 DEF Now
  <1>3. /\ \A known : HeadersOf(r, known)' = HeadersOf(r, known)
        /\ \A n : UrlAt(r, n)' = UrlAt(r, n)
    BY <1>1, SameWords
  <1>4. \E n \in 1..chrome'[r].hop : x.mitm = <<r, n>> /\ x.url = UrlAt(r, n)'
    BY <1>1, <1>3 DEF IsJoined
  <1> QED BY <1>1, <1>2, <1>3, <1>4 DEF IsJoined

\* The page is told of a hop, by an event that says what is known of its headers: the entry of
\* the hop is joined, or queued.
LEMMA PageIsTold ==
  ASSUME TypeInv, Plain, Joins, NEW r \in Request, NEW c, NEW q, NEW p, NEW d, Sets(r, c, q, p, d),
         TellsOk(c, q, p, d, Len(environment.url[r])), NEW e \in PageEvent, Active(r), ~Told(r),
         e.kind = "will", e.hop = chrome[r].hop, e.headers \/ Happens("password"), Emits(r, <<e>>),
         c.hop = chrome[r].hop, ~c.over, c.sent, p.published, c.extra = e.headers, ~c.received
  PROVE  Joins'
  <1>1. /\ Active(r) /\ Now(r) \in Mitm /\ Now(r) # None /\ chrome[r].hop \in Hop /\ ProxyOk(r)
        /\ NoneIsMissing(r) /\ chrome[r].hop \in Nat
    BY PlainParts
  <1>2. /\ pending \in Seq(PendingEntry) /\ mitm \in [Mitm -> MitmRequest]
        /\ DOMAIN pending = 1..Len(pending) /\ Len(pending) \in Nat
    BY PendingParts
  <1>3. r # None /\ UNCHANGED environment /\ closed' = closed
    BY MatchingAssumption DEF Sets
  <1>4. ASSUME \A m \in Mitm : m # Now(r) => mitm'[m] = mitm[m]
        PROVE  /\ Becoming(r, c, q, p, d) /\ OthersStay(r) /\ chrome'[r] = c /\ Tells(r)'
               /\ Now(r)' = Now(r) /\ Active(r)' /\ Told(r)'
               /\ AreAlone'
    <2>1. \A m \in Mitm : m[1] # r => mitm'[m] = mitm[m]
      BY <1>4 DEF Now
    <2>2. Becoming(r, c, q, p, d)
      BY <2>1, OneBecomes DEF Sets
    <2>3. /\ OthersStay(r) /\ chrome'[r] = c /\ Tells(r)'
          /\ Now(r)' = <<r, c.hop>> /\ (Active(r)' <=> c.hop # 0 /\ ~c.over)
          /\ (Told(r)' <=> c.sent /\ p.published)
      BY <2>2, ThenTells
    <2>4. Now(r)' = Now(r) /\ Active(r)' /\ Told(r)'
      BY <2>3 DEF Now, Active
    <2>5. AreAlone'
      BY <2>3, StayAlone
    <2> QED BY <2>2, <2>3, <2>4, <2>5
  <1>5. /\ \A known : HeadersOf(r, known)' = HeadersOf(r, known)
        /\ \A n : UrlAt(r, n)' = UrlAt(r, n)
    BY <1>3, SameWords
  <1>6. CASE \E i \in DOMAIN pending, x \in PendingEntry :
               /\ IsOpen(pending[i], r) /\ x.url = pending[i].url /\ x.headers = pending[i].headers
               /\ x.browser = r /\ x.wait = "resolved" /\ x.mitm = Now(r)
               /\ pending' = [pending EXCEPT ![i] = x] /\ mitm' = Settled(mitm, x)
    <2>1. PICK i \in DOMAIN pending, x \in PendingEntry :
               /\ IsOpen(pending[i], r) /\ x.url = pending[i].url /\ x.headers = pending[i].headers
               /\ x.browser = r /\ x.wait = "resolved" /\ x.mitm = Now(r)
               /\ pending' = [pending EXCEPT ![i] = x] /\ mitm' = Settled(mitm, x)
      BY <1>6
    <2>2. pending[i].mitm = Now(r) /\ ~mitm[Now(r)].settled /\ mitm[Now(r)].progress # "no"
      BY <1>1, <2>1, PendingParts DEF IsOpen
    <2>3. /\ \A m \in Mitm : m # Now(r) => mitm'[m] = mitm[m]
          /\ mitm'[Now(r)].settled /\ mitm'[Now(r)].joined = r
          /\ mitm'[Now(r)].progress = mitm[Now(r)].progress
      <3>1. /\ \A m \in Mitm : m # x.mitm => mitm'[m] = mitm[m]
            /\ mitm'[Now(r)] = [mitm[Now(r)] EXCEPT !.settled = TRUE,
                                   !.joined = IF x.wait = "resolved" THEN x.browser ELSE None]
        <4>1. /\ \A m \in Mitm : m # x.mitm => Settled(mitm, x)[m] = mitm[m]
              /\ \A m \in Mitm : m = x.mitm /\ x.mitm # None =>
                   Settled(mitm, x)[m]
                     = IF x.wait = "open" \/ mitm[m].settled THEN mitm[m]
                       ELSE [mitm[m] EXCEPT !.settled = TRUE,
                               !.joined = IF x.wait = "resolved" THEN x.browser ELSE None]
          <5>1. Settles(Settled(mitm, x), mitm, x)
            BY <1>2, SettledOk
          <5> QED BY <5>1 DEF Settles
        <4>2. /\ x.mitm = Now(r) /\ Now(r) \in Mitm /\ Now(r) # None /\ x.wait # "open"
              /\ ~mitm[Now(r)].settled /\ mitm' = Settled(mitm, x)
          BY <1>1, <2>1, <2>2
        <4> QED BY <4>1, <4>2
      <3>2. mitm'[Now(r)] = [mitm[Now(r)] EXCEPT !.settled = TRUE, !.joined = r]
        BY <2>1, <3>1
      <3>3. mitm[Now(r)] \in MitmRequest
        BY <1>1, <1>2
      <3> QED BY <2>1, <3>1, <3>2, <3>3 DEF MitmRequest
    <2>4. /\ Becoming(r, c, q, p, d) /\ OthersStay(r) /\ chrome'[r] = c /\ Tells(r)'
          /\ Now(r)' = Now(r) /\ Active(r)' /\ Told(r)' /\ AreAlone'
      BY <1>4, <2>3
    <2>5. IsJoined(x, r)'
      <3>1. x.url = UrlAt(r, chrome[r].hop) /\ x.headers = HeadersOf(r, TRUE)
        BY <2>1 DEF IsOpen
      <3>2. chrome[r].hop \in 1..chrome'[r].hop
        BY <1>1, <2>4 DEF Active
      <3>3. \E n \in 1..chrome'[r].hop : x.mitm = <<r, n>> /\ x.url = UrlAt(r, n)'
        BY <1>5, <2>1, <3>1, <3>2 DEF Now
      <3> QED BY <1>5, <2>1, <2>3, <2>4, <3>1, <3>3 DEF IsJoined
    <2>6. DOMAIN pending' = DOMAIN pending /\ pending'[i] = x
          /\ \A l \in DOMAIN pending : l # i => pending'[l] = pending[l]
      BY <2>1
    <2>7. ASSUME NEW j \in DOMAIN pending', NEW y, y = pending'[j]
          PROVE  \/ IsOf(y, r)'
                 \/ \E l \in DOMAIN pending, o \in Request \ {r} : y = pending[l] /\ IsOf(y, o)
      <3>1. CASE j = i
        BY <2>5, <2>6, <2>7, <3>1 DEF IsOf
      <3>2. CASE j # i
        <4>1. j \in DOMAIN pending /\ y = pending[j]
          BY <2>6, <2>7, <3>2
        <4>2. PICK o \in Request : IsOf(y, o)
          BY <4>1 DEF Joins, EntriesJoin
        <4>3. CASE o = r
          <5>1. y.mitm # Now(r)
            BY <1>1, <2>1, <2>2, <3>2, <4>1, PendingParts
          <5>2. IsJoined(y, r)
            BY <4>2, <4>3, <5>1 DEF IsOf, IsOpen, IsQueued
          <5>3. mitm'[y.mitm].settled
            <6>1. y.mitm \in Mitm
              BY <4>1, <5>2, JoinedType
            <6> QED BY <2>3, <5>1, <5>2, <6>1 DEF IsJoined
          <5>4. IsJoined(y, r)'
            BY <2>4, <5>1, <5>2, <5>3, JoinedStays
          <5> QED BY <5>4 DEF IsOf
        <4>4. CASE o # r
          BY <4>1, <4>2, <4>4
        <4> QED BY <4>3, <4>4
      <3> QED BY <3>1, <3>2
    <2>8. ASSUME NEW l \in DOMAIN pending, NEW o \in Request \ {r},
                 IsOpen(pending[l], o) \/ IsQueued(pending[l], o)
          PROVE  \E j \in DOMAIN pending' : pending'[j] = pending[l]
      <3>1. o # r /\ o # None
        BY MatchingAssumption
      <3>2. pending[i].mitm = Now(r) /\ pending[i].wait = "open"
        BY <2>1 DEF IsOpen
      <3>3. IsOpen(pending[l], o) => pending[l].mitm # Now(r)
        BY <3>1 DEF IsOpen, Now
      <3>4. IsQueued(pending[l], o) => pending[l].wait # "open"
        BY DEF IsQueued
      <3>5. l # i
        BY <2>8, <3>2, <3>3, <3>4
      <3> QED BY <2>6, <3>5
    <2>9. OneQueued'
      <3>1. ASSUME NEW j \in DOMAIN pending', pending'[j].mitm = None
            PROVE  j \in DOMAIN pending /\ pending'[j] = pending[j]
        <4>1. j # i
          BY <1>1, <2>1, <2>6, <3>1
        <4> QED BY <2>6, <4>1
      <3> QED BY <3>1 DEF Joins, OneQueued
    <2>10. NoneIsMissing(r)'
      BY <2>2, <2>3, <2>4 DEF NoneIsMissing
    <2>11. ProxyOk(r)'
      <3>1. ASSUME NEW hop \in Hop
            PROVE  /\ hop > chrome'[r].hop => mitm'[<<r, hop>>].progress = "no"
                   /\ mitm'[<<r, hop>>].settled => /\ mitm'[<<r, hop>>].joined = r
                                                   /\ mitm'[<<r, hop>>].progress # "no"
                   /\ mitm'[<<r, hop>>].progress = "recorded" => mitm'[<<r, hop>>].settled
                   /\ mitm'[<<r, hop>>].progress # "failed"
        <4>1. <<r, hop>> \in Mitm
          BY DEF Mitm
        <4>2. CASE <<r, hop>> = Now(r)
          <5>1. hop = chrome[r].hop
            BY <4>2 DEF Now
          <5> QED BY <1>1, <2>2, <2>3, <2>4, <4>2, <5>1 DEF ProxyOk
        <4>3. CASE <<r, hop>> # Now(r)
          BY <1>1, <2>3, <2>4, <4>1, <4>3 DEF ProxyOk
        <4> QED BY <4>2, <4>3
      <3> QED BY <2>4, <3>1 DEF ProxyOk
    <2>12. dropping' = {} /\ ~closed'
      BY <1>3, WillFinds DEF Joins
    <2> QED BY <2>4, <2>7, <2>8, <2>9, <2>10, <2>11, <2>12, JoinsNext
  <1>7. CASE /\ \A l \in DOMAIN pending : ~IsOpen(pending[l], r)
             /\ pending' = Append(pending, NewEntry(r, e)) /\ mitm' = mitm
    <2>1. /\ Becoming(r, c, q, p, d) /\ OthersStay(r) /\ chrome'[r] = c /\ Tells(r)'
          /\ Now(r)' = Now(r) /\ Active(r)' /\ Told(r)' /\ AreAlone'
      BY <1>4, <1>7
    <2>2. mitm[Now(r)].progress = "no"
      BY <1>1, <1>7 DEF NoneIsMissing
    <2> PICK x : x = NewEntry(r, e)
      OBVIOUS
    <2>3. x.url = UrlAt(r, e.hop) /\ x.headers = HeadersOf(r, e.headers) /\ x.browser = r
          /\ x.mitm = None /\ x.wait = "resolved"
      BY DEF NewEntry
    <2>4. IsQueued(x, r)'
      BY <1>5, <1>7, <2>1, <2>2, <2>3 DEF IsQueued
    <2> PICK n \in Nat : n = Len(pending)
      BY <1>2
    <2>5. /\ DOMAIN pending' = 1..n+1 /\ pending'[n+1] = x /\ DOMAIN pending = 1..n
          /\ \A l \in 1..n : pending'[l] = pending[l]
      BY <1>2, <1>7, AppendProperties
    <2>6. \A j \in DOMAIN pending' : j = n + 1 \/ (j \in DOMAIN pending /\ pending'[j] = pending[j])
      BY <2>5
    <2>7. ASSUME NEW j \in DOMAIN pending', NEW y, y = pending'[j]
          PROVE  \/ IsOf(y, r)'
                 \/ \E l \in DOMAIN pending, o \in Request \ {r} : y = pending[l] /\ IsOf(y, o)
      <3>1. CASE j = n + 1
        BY <2>4, <2>5, <2>7, <3>1 DEF IsOf
      <3>2. CASE j # n + 1
        <4>1. j \in DOMAIN pending /\ y = pending[j]
          BY <2>6, <2>7, <3>2
        <4>2. PICK o \in Request : IsOf(y, o)
          BY <4>1 DEF Joins, EntriesJoin
        <4>3. CASE o = r
          <5>1. IsJoined(y, r)
            BY <1>7, <4>1, <4>2, <4>3 DEF IsOf, IsQueued
          <5>2. mitm'[y.mitm].settled
            BY <1>7, <5>1 DEF IsJoined
          <5>3. IsJoined(y, r)'
            BY <2>1, <5>1, <5>2, JoinedStays
          <5> QED BY <5>3 DEF IsOf
        <4>4. CASE o # r
          BY <4>1, <4>2, <4>4
        <4> QED BY <4>3, <4>4
      <3> QED BY <3>1, <3>2
    <2>8. \A l \in DOMAIN pending, o \in Request \ {r} :
            IsOpen(pending[l], o) \/ IsQueued(pending[l], o) =>
              \E j \in DOMAIN pending' : pending'[j] = pending[l]
      BY <2>5
    <2>9. OneQueued'
      <3>1. ASSUME NEW l \in DOMAIN pending, pending[l].mitm = None PROVE pending[l].browser # r
        <4>1. PICK o \in Request : IsOf(pending[l], o)
          BY DEF Joins, EntriesJoin
        <4>2. IsQueued(pending[l], o)
          BY <3>1, <4>1, NoneIsQueued
        <4> QED BY <4>2 DEF IsQueued
      <3>2. \A j, k \in DOMAIN pending' :
              pending'[j].mitm = None /\ pending'[k].mitm = None
                /\ pending'[j].browser = pending'[k].browser => j = k
        BY <2>3, <2>5, <2>6, <3>1 DEF Joins, OneQueued
      <3> QED BY <3>2 DEF OneQueued
    <2>10. NoneIsMissing(r)'
      <3>1. IsQueued(pending[n+1], r)' /\ n + 1 \in DOMAIN pending'
        BY <2>4, <2>5, EntryNext
      <3> QED BY <2>1, <3>1 DEF NoneIsMissing
    <2>11. ProxyOk(r)'
      BY <1>1, <1>7, <2>1 DEF ProxyOk
    <2>12. dropping' = {} /\ ~closed'
      BY <1>3, WillFinds DEF Joins
    <2> QED BY <2>1, <2>7, <2>8, <2>9, <2>10, <2>11, <2>12, JoinsNext
  <1> QED BY <1>6, <1>7, WillFinds

\* Chrome went on with a request that was paused, where the proxy has a password.
LEMMA OnContinuedJoins ==
  ASSUME TypeInv, Plain, Joins, NEW r \in Request, OnContinued(r)
  PROVE  Joins'
  <1> PICK o, q, p, d, n : /\ o = chrome[r] /\ q = requestsById[r] /\ p = publishing[r]
                           /\ d = redirectsById[r] /\ n = Len(environment.url[r])
    OBVIOUS
  <1>1. /\ o \in ChromeRequest /\ TellsOk(o, q, p, d, n) /\ o.paused = "continued"
        /\ p \in Publishing /\ q \in {None} \cup Listed
    BY PlainParts DEF Tells, OnContinued
  <1>2. Happens("password") /\ o.sent /\ ~o.over /\ ~o.received /\ ~o.extra /\ o.hop # 0
    BY <1>1 DEF TellsOk
  <1>3. /\ q # None /\ q.hop = o.hop /\ ~q.headers /\ p.sentEvent /\ p.timer /\ ~p.published
        /\ ~p.details
    BY <1>1, <1>2 DEF TellsOk
  <1>4. q \in Listed /\ HasUrl(q)
    BY <1>1, <1>2, <1>3 DEF HasUrl
  <1> PICK e : e = Event("will", q)
    OBVIOUS
  <1>5. e \in PageEvent /\ e.kind = "will" /\ e.hop = o.hop /\ e.headers = FALSE
    <2>1. e.kind = "will" /\ e.hop = q.hop /\ e.headers = q.headers
      BY DEF Event
    <2>2. q.headers = FALSE
      BY <1>3, <1>4 DEF Listed
    <2> QED BY <1>3, <1>4, <2>1, <2>2, EventType
  <1> PICK s : s = Published(q, p)
    OBVIOUS
  <1>6. s.sentEvent /\ s.published = TRUE /\ s.details = FALSE /\ s.timer = FALSE
    <2>1. s = [p EXCEPT !.timer = FALSE, !.published = TRUE, !.details = p.details \/ p.published]
      BY <1>4 DEF Published
    <2>2. (p.details \/ p.published) = FALSE
      BY <1>3
    <2>3. s = [p EXCEPT !.timer = FALSE, !.published = TRUE, !.details = FALSE]
      BY <2>1, <2>2
    <2> QED BY <1>1, <1>3, <2>3 DEF Publishing
  <1> PICK c : c = [o EXCEPT !.paused = "done"]
    OBVIOUS
  <1>7. /\ c.hop = o.hop /\ c.cached = o.cached /\ c.extra = o.extra /\ c.paused = "done"
        /\ c.sent = o.sent /\ c.over = o.over /\ c.cacheTimer = o.cacheTimer /\ c.received = o.received
    BY <1>1 DEF ChromeRequest
  <1>8. EmitResourceRequested(r, q, p)
    BY <1>3 DEF OnContinued
  <1>9. Emits(r, <<e>>) /\ publishing' = [publishing EXCEPT ![r] = s]
    <2>1. DoEmitResourceRequested(r, q, p)
      BY <1>3, <1>8 DEF EmitResourceRequested
    <2>2. Publishes(q, p) = <<e>>
      BY <1>3, <1>4 DEF Publishes
    <2> QED BY <2>1, <2>2 DEF DoEmitResourceRequested
  <1>10. Sets(r, c, q, s, d)
    BY <1>3, <1>9, OneOf DEF OnContinued, Sets, TypeInv
  <1>11. TellsOk(c, q, s, d, n)
    BY <1>1, <1>2, <1>3, <1>6, <1>7 DEF TellsOk
  <1>12. Active(r) /\ ~Told(r)
    BY <1>2, <1>3 DEF Active, Told
  <1>13. o.extra = FALSE
    BY <1>1, <1>2 DEF ChromeRequest
  <1> QED BY <1>2, <1>5, <1>6, <1>7, <1>9, <1>10, <1>11, <1>12, <1>13, PageIsTold

\* resource-was-requested or resource-loaded for a request of which the page was told: its headers
\* are set, and no entry is open that they suit.
LEMMA DidFinds ==
  ASSUME TypeInv, Plain, Joins, NEW r \in Request, NEW e \in PageEvent, Active(r), Told(r),
         e.kind \in {"was", "loaded"}, e.headers
  PROVE  \/ /\ \A l \in DOMAIN pending : pending[l].browser # r
            /\ OnEvent(Resources, r, e) = {Resources}
         \/ \E own \in DOMAIN pending, x \in PendingEntry :
              /\ pending[own].browser = r /\ x = [pending[own] EXCEPT !.headers = HeadersOf(r, TRUE)]
              /\ OnEvent(Resources, r, e) = {[pending |-> [pending EXCEPT ![own] = x],
                                              dropping |-> dropping, mitm |-> mitm]}
  <1> DEFINE own == OfBrowser(pending, r)
  <1>1. Resources \in State /\ pending \in Seq(PendingEntry) /\ DOMAIN pending = 1..Len(pending)
    BY PendingParts DEF TypeInv
  <1>2. Resources.pending = pending /\ Resources.mitm = mitm /\ Resources.dropping = dropping
    BY DEF Resources
  <1>8. PICK known : known = IF own = 0 THEN Resources
                             ELSE [Resources EXCEPT !.pending[own].headers = HeadersOf(r, TRUE)]
    OBVIOUS
  <1> DEFINE i == FindMatchingRequest(known.pending, UrlAt(r, e.hop), HeadersOf(r, TRUE), r,
                                      "hasMitmResourceId")
  <1>3. OnEvent(Resources, r, e) =
          {IF i # 0 /\ known.pending[i].wait = "open" THEN UpdatePendingResource(known, i, r) ELSE known}
    <2>1. OnEvent(Resources, r, e) = OnBrowserDidRequest(Resources, r, e)
      BY DEF OnEvent
    <2>2. e.headers = TRUE
      BY DEF PageEvent
    <2> QED BY <1>2, <1>8, <2>1, <2>2 DEF OnBrowserDidRequest
  <1>4. r # None
    BY MatchingAssumption
  <1>5. ASSUME NEW j \in DOMAIN pending, NEW url, Suits(pending[j], url, HeadersOf(r, TRUE), r, "hasMitmResourceId")
        PROVE  pending[j].wait # "open"
    BY <1>5, NoneIsOpen
  <1>6. CASE own = 0
    <2>1. known = Resources /\ \A l \in DOMAIN pending : pending[l].browser # r
      BY <1>1, <1>6, <1>8, FindsOwn
    <2>2. i # 0 => i \in DOMAIN pending
                   /\ Suits(pending[i], UrlAt(r, e.hop), HeadersOf(r, TRUE), r, "hasMitmResourceId")
      <3>1. known.pending = pending /\ pending \in Seq(PendingEntry)
        BY <1>1, <1>2, <2>1
      <3> PICK list, url, headers :
            list = known.pending /\ url = UrlAt(r, e.hop) /\ headers = HeadersOf(r, TRUE)
        OBVIOUS
      <3>2. /\ list \in Seq(PendingEntry)
            /\ i = FindMatchingRequest(list, url, headers, r, "hasMitmResourceId")
        BY <3>1
      <3>3. i # 0 => i \in 1..Len(list) /\ Suits(list[i], url, headers, r, "hasMitmResourceId")
        BY ONLY <3>2, Finds
      <3> QED BY <1>1, <3>1, <3>3
    <2> HIDE DEF i, own
    <2>3. ~(i # 0 /\ known.pending[i].wait = "open")
      BY <1>2, <1>5, <2>1, <2>2
    <2> QED BY <1>3, <2>1, <2>3
  <1>7. CASE own # 0
    <2>1. own \in DOMAIN pending /\ pending[own].browser = r /\ own \in 1..Len(Resources.pending)
      BY <1>1, <1>2, <1>7, FindsOwn
    <2> HIDE DEF own
    <2>2. HeadersOf(r, TRUE) \in Request \cup {None, "same"}
      BY HeadersType
    <2>3. PICK x \in PendingEntry : Reheads(Resources, own, HeadersOf(r, TRUE), x)
      BY <1>1, <2>1, <2>2, HeadersOk
    <2>4. /\ x = [pending[own] EXCEPT !.headers = HeadersOf(r, TRUE)]
          /\ known = [pending |-> [pending EXCEPT ![own] = x], dropping |-> dropping, mitm |-> mitm]
      BY <1>2, <1>7, <1>8, <2>3 DEF Reheads
    <2>5. /\ known.pending \in Seq(PendingEntry) /\ known.pending[own] = x
          /\ Len(known.pending) = Len(pending)
          /\ \A j \in DOMAIN pending : j # own => known.pending[j] = pending[j]
      <3>1. known.pending = [pending EXCEPT ![own] = x]
        BY <2>4
      <3> QED BY <1>1, <2>1, <2>3, <3>1, ExceptSeq
    <2>10. x.wait = pending[own].wait
      <3>1. pending[own] \in PendingEntry
        BY <2>1, PendingParts
      <3> QED BY <2>4, <3>1 DEF PendingEntry
    <2>6. i # 0 => i \in DOMAIN pending
            /\ Suits(known.pending[i], UrlAt(r, e.hop), HeadersOf(r, TRUE), r, "hasMitmResourceId")
      <3>1. PICK k \in Seq(PendingEntry) : k = known.pending /\ Len(k) = Len(pending)
        BY <2>5
      <3>2. PICK l : l = FindMatchingRequest(k, UrlAt(r, e.hop), HeadersOf(r, TRUE), r,
                                             "hasMitmResourceId")
        OBVIOUS
      <3>3. l # 0 => l \in 1..Len(k) /\ Suits(k[l], UrlAt(r, e.hop), HeadersOf(r, TRUE), r,
                                            "hasMitmResourceId")
        BY <3>2, Finds
      <3> QED BY <1>1, <3>1, <3>2, <3>3
    <2> HIDE DEF i
    <2>7. pending[own].wait # "open"
      BY <1>4, <2>1, PendingParts DEF EntryIsSound
    <2>8. ~(i # 0 /\ known.pending[i].wait = "open")
      BY <1>5, <2>5, <2>6, <2>7, <2>10
    <2>9. OnEvent(Resources, r, e) = {known}
      BY <1>3, <2>8
    <2> QED BY <2>1, <2>3, <2>4, <2>9
  <1> QED BY <1>6, <1>7

\* The page is told of the headers of a hop, where the proxy has a password: its entry gets them.
LEMMA PageIsDetailed ==
  ASSUME TypeInv, Plain, Joins, NEW r \in Request, NEW c, NEW q, NEW p, NEW d, Sets(r, c, q, p, d),
         TellsOk(c, q, p, d, Len(environment.url[r])), NEW e \in PageEvent, Active(r), Told(r),
         e.kind = "was", e.headers, Emits(r, <<e>>), Happens("password"),
         c.hop = chrome[r].hop, ~c.over, c.sent, p.published, c.extra = TRUE, ~c.received
  PROVE  Joins'
  <1>1. /\ Now(r) \in Mitm /\ Now(r) # None /\ ProxyOk(r) /\ NoneIsMissing(r)
        /\ chrome[r].hop \in Nat /\ chrome[r].hop = 1
    BY PlainParts DEF Active, Tells, TellsOk
  <1>2. r # None /\ UNCHANGED environment /\ closed' = closed
    BY MatchingAssumption DEF Sets
  <1>3. PICK H : H = HeadersOf(r, TRUE)
    OBVIOUS
  <1>4. Resources'.pending = pending' /\ Resources'.mitm = mitm' /\ Resources'.dropping = dropping'
        /\ Resources.pending = pending /\ Resources.mitm = mitm /\ Resources.dropping = dropping
    BY DEF Resources
  <1>5. Resources' \in OnEvent(Resources, r, e)
    BY OneEvent
  <1>6. /\ mitm' = mitm /\ dropping' = dropping
        /\ \/ (\A l \in DOMAIN pending : pending[l].browser # r) /\ pending' = pending
           \/ \E own \in DOMAIN pending : /\ pending[own].browser = r
                /\ pending' = [pending EXCEPT ![own] = [pending[own] EXCEPT !.headers = H]]
    <2>1. CASE /\ \A l \in DOMAIN pending : pending[l].browser # r
               /\ OnEvent(Resources, r, e) = {Resources}
      BY <1>4, <1>5, <2>1
    <2>2. CASE \E own \in DOMAIN pending, x \in PendingEntry :
                 /\ pending[own].browser = r /\ x = [pending[own] EXCEPT !.headers = HeadersOf(r, TRUE)]
                 /\ OnEvent(Resources, r, e) = {[pending |-> [pending EXCEPT ![own] = x],
                                                 dropping |-> dropping, mitm |-> mitm]}
      <3>1. PICK own \in DOMAIN pending, x \in PendingEntry :
                 /\ pending[own].browser = r /\ x = [pending[own] EXCEPT !.headers = HeadersOf(r, TRUE)]
                 /\ OnEvent(Resources, r, e) = {[pending |-> [pending EXCEPT ![own] = x],
                                                 dropping |-> dropping, mitm |-> mitm]}
        BY <2>2
      <3>2. Resources' = [pending |-> [pending EXCEPT ![own] = x], dropping |-> dropping, mitm |-> mitm]
        BY <1>5, <3>1
      <3>3. pending' = [pending EXCEPT ![own] = x] /\ dropping' = dropping /\ mitm' = mitm
        BY <1>4, <3>2
      <3> QED BY <1>3, <3>1, <3>3
    <2> QED BY <2>1, <2>2, DidFinds
  <1>7. Becoming(r, c, q, p, d)
    BY <1>6, OneBecomes DEF Sets
  <1>8. /\ OthersStay(r) /\ chrome'[r] = c /\ Tells(r)'
        /\ Now(r)' = Now(r) /\ Active(r)' /\ Told(r)'
    <2>1. /\ OthersStay(r) /\ chrome'[r] = c /\ Tells(r)'
          /\ Now(r)' = <<r, c.hop>> /\ (Active(r)' <=> c.hop # 0 /\ ~c.over)
          /\ (Told(r)' <=> c.sent /\ p.published)
      BY <1>7, ThenTells
    <2> QED BY <2>1 DEF Now, Active
  <1>9. /\ \A known : HeadersOf(r, known)' = HeadersOf(r, known)
        /\ \A n : UrlAt(r, n)' = UrlAt(r, n)
    BY <1>2, SameWords
  <1>10. ASSUME NEW l \in DOMAIN pending, pending[l].browser = r
         PROVE  IsQueued(pending[l], r) \/ (IsJoined(pending[l], r) /\ mitm[Now(r)].progress # "no")
    <2>1. PICK o \in Request : IsOf(pending[l], o)
      BY DEF Joins, EntriesJoin
    <2>2. o = r /\ ~IsOpen(pending[l], o)
      BY <1>2, <1>10, <2>1 DEF IsOf, IsOpen, IsQueued, IsJoined
    <2>3. IsJoined(pending[l], r) => mitm[Now(r)].progress # "no"
      <3> SUFFICES ASSUME IsJoined(pending[l], r) PROVE mitm[Now(r)].progress # "no"
        OBVIOUS
      <3>1. PICK hop \in 1..chrome[r].hop : pending[l].mitm = <<r, hop>>
        BY DEF IsJoined
      <3>2. pending[l].mitm = Now(r)
        BY <1>1, <3>1 DEF Now
      <3> QED BY <1>1, <3>2, PendingParts
    <2> QED BY <2>1, <2>2, <2>3 DEF IsOf
  <1>11. /\ DOMAIN pending' = DOMAIN pending
         /\ \A l \in DOMAIN pending :
              /\ pending[l].browser # r => pending'[l] = pending[l]
              /\ \/ pending'[l] = pending[l] /\ ~IsQueued(pending[l], r)
                 \/ pending[l].browser = r /\ pending'[l] = [pending[l] EXCEPT !.headers = H]
    <2>1. CASE (\A l \in DOMAIN pending : pending[l].browser # r) /\ pending' = pending
      BY <2>1 DEF IsQueued
    <2>2. CASE \E own \in DOMAIN pending : /\ pending[own].browser = r
                /\ pending' = [pending EXCEPT ![own] = [pending[own] EXCEPT !.headers = H]]
      <3>1. PICK own \in DOMAIN pending : /\ pending[own].browser = r
                /\ pending' = [pending EXCEPT ![own] = [pending[own] EXCEPT !.headers = H]]
        BY <2>2
      <3>2. ASSUME NEW l \in DOMAIN pending, IsQueued(pending[l], r) PROVE l = own
        <4>1. IsQueued(pending[own], r)
          BY <1>10, <3>1, <3>2 DEF IsQueued
        <4> QED BY <3>2, <4>1 DEF Joins, OneQueued, IsQueued
      <3> QED BY <3>1, <3>2
    <2> QED BY <1>6, <2>1, <2>2
  <1>12. ASSUME NEW l \in DOMAIN pending, NEW y, y = pending'[l], pending[l].browser = r
         PROVE  /\ y.url = pending[l].url /\ y.browser = r /\ y.mitm = pending[l].mitm
                /\ y.wait = pending[l].wait /\ y.headers = H
                /\ IsQueued(pending[l], r) => IsQueued(y, r)'
                /\ IsJoined(pending[l], r) => IsJoined(y, r)'
    <2>1. pending[l] \in PendingEntry
      BY PendingParts
    <2>2. /\ y.url = pending[l].url /\ y.browser = r /\ y.mitm = pending[l].mitm
          /\ y.wait = pending[l].wait /\ y.headers = H
      <3>1. CASE y = pending[l] /\ ~IsQueued(pending[l], r)
        BY <1>3, <1>10, <1>12, <3>1 DEF IsJoined
      <3>2. CASE y = [pending[l] EXCEPT !.headers = H]
        BY <1>12, <2>1, <3>2 DEF PendingEntry
      <3> QED BY <1>11, <1>12, <3>1, <3>2
    <2>3. IsQueued(pending[l], r) => IsQueued(y, r)'
      <3>1. chrome'[r].hop = chrome[r].hop /\ chrome'[r].extra = TRUE /\ mitm' = mitm
        BY <1>6, <1>8
      <3>2. y.headers = HeadersOf(r, chrome[r].extra)'
        BY <1>3, <1>9, <2>2, <3>1
      <3>3. (y.url = UrlAt(r, chrome[r].hop))' <=> y.url = UrlAt(r, chrome[r].hop)
        BY <1>9, <3>1
      <3> QED BY <1>8, <2>2, <3>1, <3>2, <3>3 DEF IsQueued
    <2>4. IsJoined(pending[l], r) => IsJoined(y, r)'
      <3> SUFFICES ASSUME IsJoined(pending[l], r) PROVE IsJoined(y, r)'
        OBVIOUS
      <3>1. IsJoined(y, r)
        BY <1>3, <2>2 DEF IsJoined
      <3>2. mitm'[y.mitm].settled
        BY <1>6, <3>1 DEF IsJoined
      <3> QED BY <1>7, <3>1, <3>2, JoinedStays
    <2> QED BY <2>2, <2>3, <2>4
  <1>13. ASSUME NEW j \in DOMAIN pending', NEW y, y = pending'[j]
         PROVE  \/ IsOf(y, r)'
                \/ \E l \in DOMAIN pending, o \in Request \ {r} : y = pending[l] /\ IsOf(y, o)
    <2>1. j \in DOMAIN pending
      BY <1>11
    <2>2. CASE pending[j].browser = r
      BY <1>10, <1>12, <1>13, <2>1, <2>2 DEF IsOf
    <2>3. CASE pending[j].browser # r
      <3>1. y = pending[j]
        BY <1>11, <1>13, <2>1, <2>3
      <3>2. PICK o \in Request : IsOf(y, o)
        BY <2>1, <3>1 DEF Joins, EntriesJoin
      <3>3. o # r
        BY <2>3, <3>1, <3>2 DEF IsOf, IsOpen, IsQueued, IsJoined
      <3> QED BY <2>1, <3>1, <3>2, <3>3
    <2> QED BY <2>2, <2>3
  <1>14. ASSUME NEW l \in DOMAIN pending, NEW o \in Request \ {r},
                IsOpen(pending[l], o) \/ IsQueued(pending[l], o)
         PROVE  \E j \in DOMAIN pending' : pending'[j] = pending[l]
    <2>1. pending[l].browser # r
      BY <1>2, <1>14 DEF IsOpen, IsQueued
    <2> QED BY <1>11, <2>1
  <1>15. OneQueued'
    <2>1. ASSUME NEW l \in DOMAIN pending
          PROVE  pending'[l].mitm = pending[l].mitm /\ pending'[l].browser = pending[l].browser
      <3>1. CASE pending[l].browser = r
        BY <1>12, <3>1
      <3>2. CASE pending[l].browser # r
        BY <1>11, <3>2
      <3> QED BY <3>1, <3>2
    <2> QED BY <1>11, <2>1 DEF Joins, OneQueued
  <1>16. NoneIsMissing(r)'
    <2>1. ASSUME NEW l \in DOMAIN pending, IsQueued(pending[l], r)
          PROVE  \E j \in DOMAIN pending' : IsQueued(pending[j], r)'
      <3>1. PICK y : y = pending'[l]
        OBVIOUS
      <3>2. IsQueued(y, r)'
        BY <1>12, <2>1, <3>1 DEF IsQueued
      <3> QED BY <1>11, <3>1, <3>2, EntryNext
    <2> QED BY <1>1, <1>6, <1>8, <2>1 DEF NoneIsMissing
  <1>17. ProxyOk(r)'
    BY <1>1, <1>6, <1>8 DEF ProxyOk
  <1>18. AreAlone' /\ dropping' = {} /\ ~closed'
    BY <1>2, <1>6, <1>8, StayAlone DEF Joins
  <1> QED BY <1>8, <1>13, <1>14, <1>15, <1>16, <1>17, <1>18, JoinsNext

\* The headers of a request are known: the page is told of it, or, where the proxy has a password,
\* of its headers.
LEMMA OnExtraInfoJoins ==
  ASSUME TypeInv, Plain, Joins, NEW r \in Request, OnExtraInfo(r)
  PROVE  Joins'
  <1> PICK o, b, p, d, n : /\ o = chrome[r] /\ b = requestsById[r] /\ p = publishing[r]
                           /\ d = redirectsById[r] /\ n = Len(environment.url[r])
    OBVIOUS
  <1>1. /\ o \in ChromeRequest /\ TellsOk(o, b, p, d, n) /\ o.hop # 0 /\ ~o.extra /\ o.sent /\ ~o.over
        /\ p \in Publishing /\ b \in {None} \cup Listed /\ (Happens("password") => o.paused = "done")
    BY PlainParts DEF Tells, OnExtraInfo
  <1>2. /\ b # None /\ b.hop = o.hop /\ p.sentEvent /\ (p.timer <=> ~p.published) /\ ~o.received
        /\ (p.published <=> Happens("password")) /\ (Happens("password") => ~p.details)
        /\ o.hop <= n
    BY <1>1 DEF TellsOk
  <1> PICK q : q = [b EXCEPT !.headers = TRUE]
    OBVIOUS
  <1>3. q \in Listed /\ q.hop = o.hop /\ q.headers = TRUE /\ q # None
    <2>1. q \in Listed /\ q.hop = o.hop /\ q.headers = TRUE
      BY <1>1, <1>2 DEF Listed
    <2> QED BY <2>1, MatchingAssumption DEF Listed
  <1>4. HasUrl(q)
    BY <1>1, <1>3 DEF HasUrl
  <1> PICK s : s = Published(q, p)
    OBVIOUS
  <1>5. s.sentEvent /\ s.published = TRUE /\ s.timer = FALSE
    <2>1. s = [p EXCEPT !.timer = FALSE, !.published = TRUE, !.details = p.details \/ p.published]
      BY <1>4 DEF Published
    <2> QED BY <1>1, <1>2, <2>1 DEF Publishing
  <1> PICK c : c = [o EXCEPT !.extra = TRUE]
    OBVIOUS
  <1>6. /\ c.hop = o.hop /\ c.cached = o.cached /\ c.extra = TRUE /\ c.paused = o.paused
        /\ c.sent = o.sent /\ c.over = o.over /\ c.cacheTimer = o.cacheTimer /\ c.received = o.received
    BY <1>1 DEF ChromeRequest
  <1>7. Emits(r, Publishes(q, p)) /\ publishing' = [publishing EXCEPT ![r] = s]
    BY <1>2 DEF OnExtraInfo, DoEmitResourceRequested
  <1>8. Sets(r, c, q, s, d)
    BY <1>2, <1>7, OneOf DEF OnExtraInfo, Sets, TypeInv
  <1>9. TellsOk(c, q, s, d, n)
    <2>1. CASE Happens("password")
      BY <1>1, <1>2, <1>3, <1>5, <1>6, <2>1 DEF TellsOk
    <2>2. CASE ~Happens("password")
      BY <1>1, <1>2, <1>3, <1>5, <1>6, <2>2 DEF TellsOk
    <2> QED BY <2>1, <2>2
  <1>10. Active(r) /\ (Told(r) <=> Happens("password"))
    BY <1>1, <1>2 DEF Active, Told
  <1>11. CASE ~Happens("password")
    <2> PICK e : e = Event("will", q)
      OBVIOUS
    <2>1. e \in PageEvent /\ e.kind = "will" /\ e.hop = o.hop /\ e.headers = TRUE
      BY <1>3, EventType DEF Event
    <2>2. Emits(r, <<e>>)
      BY <1>2, <1>4, <1>7, <1>11 DEF Publishes
    <2> QED BY <1>1, <1>2, <1>5, <1>6, <1>8, <1>9, <1>10, <1>11, <2>1, <2>2, PageIsTold
  <1>12. CASE Happens("password")
    <2> PICK e : e = Event("was", q)
      OBVIOUS
    <2>1. e \in PageEvent /\ e.kind = "was" /\ e.headers = TRUE
      BY <1>3, EventType DEF Event
    <2>2. Emits(r, <<e>>)
      BY <1>2, <1>4, <1>7, <1>12 DEF Publishes
    <2> QED BY <1>1, <1>2, <1>5, <1>6, <1>8, <1>9, <1>10, <1>12, <2>1, <2>2, PageIsDetailed
  <1> QED BY <1>11, <1>12

-----------------------------------------------------------------------------
\* Entries join: the end of a request.

\* The loaded events of a request that is joined change nothing.
LEMMA LoadedKeep ==
  ASSUME TypeInv, Plain, Joins, NEW r \in Request, Active(r), Told(r), mitm[Now(r)].progress # "no",
         NEW events \in Seq(PageEvent), \A i \in DOMAIN events : events[i].kind = "loaded" /\ events[i].headers,
         Emits(r, events)
  PROVE  UNCHANGED <<pending, dropping, mitm>>
  <1>1. Resources \in State
    BY DEF TypeInv
  <1>2. ASSUME NEW e \in PageEvent, e.kind = "loaded", e.headers
        PROVE  OnEvent(Resources, r, e) = {Resources}
    <2>1. CASE OnEvent(Resources, r, e) = {Resources}
      BY <2>1
    <2>2. CASE \E own \in DOMAIN pending, x \in PendingEntry :
              /\ pending[own].browser = r /\ x = [pending[own] EXCEPT !.headers = HeadersOf(r, TRUE)]
              /\ OnEvent(Resources, r, e) = {[pending |-> [pending EXCEPT ![own] = x],
                                              dropping |-> dropping, mitm |-> mitm]}
      <3>1. PICK own \in DOMAIN pending, x \in PendingEntry :
              /\ pending[own].browser = r /\ x = [pending[own] EXCEPT !.headers = HeadersOf(r, TRUE)]
              /\ OnEvent(Resources, r, e) = {[pending |-> [pending EXCEPT ![own] = x],
                                              dropping |-> dropping, mitm |-> mitm]}
        BY <2>2
      <3>2. pending[own].headers = HeadersOf(r, TRUE)
        <4>1. PICK o \in Request : IsOf(pending[own], o)
          BY DEF Joins, EntriesJoin
        <4>2. r # None
          BY MatchingAssumption
        <4>3. o = r /\ IsJoined(pending[own], r)
          BY <3>1, <4>1, <4>2 DEF IsOf, IsOpen, IsQueued, IsJoined
        <4> QED BY <4>3 DEF IsJoined
      <3>3. x = pending[own]
        <4>1. pending[own] \in PendingEntry
          BY PendingParts
        <4> PICK z : z = pending[own]
          OBVIOUS
        <4>2. x = [z EXCEPT !.headers = z.headers] /\ z \in PendingEntry
          BY <3>1, <3>2, <4>1
        <4>3. x = z
          BY ONLY <4>2 DEF PendingEntry
        <4> QED BY <4>3
      <3>4. [pending EXCEPT ![own] = x] = pending
        <4>1. pending \in [1..Len(pending) -> PendingEntry]
          BY PendingParts
        <4> QED BY ONLY <3>3, <4>1
      <3> QED BY <3>1, <3>4 DEF Resources
    <2> QED BY <1>2, <2>1, <2>2, DidFinds
  <1>3. PICK g : After(g, r, events) /\ Outcomes(r, events) = g[Len(events)]
    BY <1>1, EventKeepsState, OneByOne
  <1> DEFINE N == Len(events)
             T == {n \in Nat : n <= N => g[n] = {Resources}}
  <1>4. N \in Nat /\ DOMAIN events = 1..N /\ \A n \in 1..N : events[n] \in PageEvent
    OBVIOUS
  <1> HIDE DEF N
  <1>5. 0 \in T
    BY <1>3 DEF After
  <1>6. ASSUME NEW n \in T PROVE n + 1 \in T
    <2> SUFFICES ASSUME n + 1 <= N PROVE g[n + 1] = {Resources}
      OBVIOUS
    <2>1. n + 1 \in 1..N /\ (n + 1) - 1 = n /\ g[n] = {Resources}
      BY <1>4
    <2>2. g[n + 1] = UNION {OnEvent(t, r, events[n + 1]) : t \in g[n]}
      BY <1>3, <2>1 DEF After, N
    <2>3. OnEvent(Resources, r, events[n + 1]) = {Resources}
      BY <1>2, <1>4, <2>1
    <2> QED BY <2>1, <2>2, <2>3
  <1>7. T = Nat
    <2>1. T \in SUBSET Nat
      OBVIOUS
    <2> HIDE DEF T
    <2> QED BY <1>5, <1>6, <2>1, AllNumbers
  <1>8. Outcomes(r, events) = {Resources}
    BY <1>3, <1>4, <1>7 DEF N
  <1>9. Resources' = Resources
    BY <1>1, <1>8, BecomesOne DEF Emits
  <1> QED BY <1>9 DEF Resources

\* loadingFinished: the request is over, and forgotten.
LEMMA OnLoadingFinishedJoins ==
  ASSUME TypeInv, Plain, Joins, NEW r \in Request, OnLoadingFinished(r)
  PROVE  Joins'
  <1> PICK o, q, p, d, n : /\ o = chrome[r] /\ q = requestsById[r] /\ p = publishing[r]
                           /\ d = redirectsById[r] /\ n = Len(environment.url[r])
    OBVIOUS
  <1>1. /\ o \in ChromeRequest /\ TellsOk(o, q, p, d, n) /\ o.received /\ ~o.over
        /\ p \in Publishing /\ q \in {None} \cup Listed /\ d \in Seq(Listed) /\ n \in Hop
    BY PlainParts DEF Tells, OnLoadingFinished
  <1>2. /\ o.extra /\ o.sent /\ o.hop # 0 /\ q # None /\ q.headers /\ p.published /\ o.hop = n
        /\ \A i \in DOMAIN d : d[i].headers
    BY <1>1 DEF TellsOk
  <1>3. Active(r) /\ Told(r) /\ mitm[Now(r)].progress # "no"
    BY <1>1, <1>2, PlainParts DEF Active, Told, ProxyOk
  <1> PICK c : c = [o EXCEPT !.over = TRUE]
    OBVIOUS
  <1>4. /\ c.hop = o.hop /\ c.cached = o.cached /\ c.extra = o.extra /\ c.paused = o.paused
        /\ c.sent = o.sent /\ c.over = TRUE /\ c.cacheTimer = o.cacheTimer /\ c.received = o.received
    BY <1>1 DEF ChromeRequest
  <1> DEFINE loaded == [i \in DOMAIN d |-> Event("loaded", d[i])]
             events == <<>> \o loaded \o <<Event("loaded", q)>>
  <1>5. Emits(r, events) /\ Forget(r)
    BY <1>2 DEF OnLoadingFinished, EmitLoaded
  <1>6. /\ events \in Seq(PageEvent)
        /\ \A i \in DOMAIN events : events[i].kind = "loaded" /\ events[i].headers
    <2>1. q \in Listed /\ DOMAIN d = 1..Len(d) /\ Len(d) \in Nat
      BY <1>1, <1>2
    <2>2. loaded \in Seq(PageEvent) /\ Len(loaded) = Len(d)
          /\ \A i \in 1..Len(d) : loaded[i].kind = "loaded" /\ loaded[i].headers
      <3>1. \A i \in 1..Len(d) : /\ Event("loaded", d[i]) \in PageEvent
                                 /\ Event("loaded", d[i]).kind = "loaded"
                                 /\ Event("loaded", d[i]).headers = d[i].headers
        <4>1. \A i \in 1..Len(d) : d[i] \in Listed
          BY <1>1
        <4> QED BY <4>1, EventType DEF Event
      <3> QED BY <1>2, <2>1, <3>1
    <2>3. PICK e : e = Event("loaded", q)
      OBVIOUS
    <2>4. e \in PageEvent /\ e.kind = "loaded" /\ e.headers
      BY <1>2, <2>1, <2>3, EventType DEF Event
    <2> HIDE DEF loaded
    <2>5. <<>> \o loaded = loaded
      BY <2>2, ConcatEmptySeq
    <2>6. events = Append(loaded, e)
      BY <2>2, <2>3, <2>4, <2>5
    <2> HIDE DEF events
    <2>7. /\ events \in Seq(PageEvent) /\ Len(events) = Len(d) + 1
          /\ \A i \in 1..Len(d)+1 : events[i] = IF i = Len(d) + 1 THEN e ELSE loaded[i]
      BY <2>1, <2>2, <2>4, <2>6, AppendProperties
    <2>8. DOMAIN events = 1..Len(d)+1
      BY <2>7
    <2>9. \A i \in 1..Len(d)+1 : i # Len(d) + 1 => i \in 1..Len(d)
      BY <2>1
    <2> QED BY <2>2, <2>4, <2>7, <2>8, <2>9
  <1> HIDE DEF events
  <1>7. UNCHANGED <<pending, dropping, mitm>>
    BY <1>3, <1>5, <1>6, LoadedKeep
  <1>8. Sets(r, c, None, NoPublishing, <<>>)
    BY <1>5 DEF OnLoadingFinished, Forget, Sets
  <1>9. Becoming(r, c, None, NoPublishing, <<>>)
    BY <1>7, <1>8, OneBecomes DEF Sets
  <1>10. TellsOk(c, None, NoPublishing, <<>>, n)
    BY <1>1, <1>2, <1>4 DEF TellsOk
  <1>11. /\ OthersStay(r) /\ chrome'[r] = c /\ Tells(r)' /\ UNCHANGED <<environment, closed>>
         /\ Now(r)' = Now(r) /\ ~Active(r)'
    <2>1. /\ OthersStay(r) /\ chrome'[r] = c /\ Tells(r)'
          /\ Now(r)' = <<r, c.hop>> /\ (Active(r)' <=> c.hop # 0 /\ ~c.over)
      BY <1>9, <1>10, ThenTells
    <2> QED BY <1>4, <1>8, <2>1 DEF Now, Sets
  <1>12. ASSUME NEW x, IsOf(x, r) PROVE IsOf(x, r)'
    <2>1. IsJoined(x, r)
      BY <1>3, <1>12 DEF IsOf, IsOpen, IsQueued
    <2>2. mitm'[x.mitm].settled
      BY <1>7, <2>1 DEF IsJoined
    <2>3. IsJoined(x, r)'
      BY <1>4, <1>9, <2>1, <2>2, JoinedStays
    <2> QED BY <2>3 DEF IsOf
  <1>13. NoneIsMissing(r)'
    BY <1>11 DEF NoneIsMissing
  <1>14. ProxyOk(r)'
    BY <1>4, <1>7, <1>11, PlainParts DEF ProxyOk
  <1>15. AreAlone' /\ dropping' = {} /\ ~closed'
    BY <1>7, <1>11, StayAlone DEF Joins
  <1> QED BY <1>7, <1>11, <1>12, <1>13, <1>14, <1>15, ListStays

-----------------------------------------------------------------------------
\* Entries join: every behaviour.

\* The page was told of a request whose headers are known: no timer is left to tell it.
LEMMA TimerIsLate ==
  ASSUME TypeInv, Plain, Joins, NEW r \in Request, chrome[r].extra, ~chrome[r].over
  PROVE  Told(r) /\ ~publishing[r].timer
  <1> PICK c, q, p, d, n : /\ c = chrome[r] /\ q = requestsById[r] /\ p = publishing[r]
                           /\ d = redirectsById[r] /\ n = Len(environment.url[r])
    OBVIOUS
  <1>1. TellsOk(c, q, p, d, n) /\ c.extra /\ ~c.over
    BY PlainParts DEF Tells
  <1>2. c.sent /\ (p.timer <=> ~p.published)
    BY <1>1 DEF TellsOk
  <1>3. p.published
    BY <1>1, <1>2 DEF TellsOk
  <1>4. publishing[r] \in Publishing
    BY PlainParts
  <1> QED BY <1>2, <1>3, <1>4 DEF Told, Publishing

\* The timer of doEmitResourceRequested comes only where ExtraInfo does not.
LEMMA NoPublishTimer ==
  ASSUME TypeInv, Plain, Joins, NEW r \in Request, PublishTimer(r)
  PROVE  FALSE
  <1>1. publishing[r].timer /\ chrome[r].extra /\ requestsById[r] # None
    BY PlainParts DEF PublishTimer, HasUrl
  <1>2. ~chrome[r].over
    BY <1>1, PlainParts DEF Tells, TellsOk
  <1> QED BY <1>1, <1>2, TimerIsLate

\* Nothing is cached and nothing fails.
LEMMA NothingFails ==
  ASSUME TypeInv, Plain, Joins, NEW r \in Request,
         CacheTimer(r) \/ OnServedFromCache(r) \/ OnLoadingFailed(r)
  PROVE  FALSE
  <1>1. ~chrome[r].cacheTimer /\ chrome[r].cached = "no"
    BY PlainParts DEF Tells, TellsOk
  <1>2. chrome[r].sent => chrome[r].hop \in Hop
    BY PlainParts, MatchingAssumption DEF Tells, TellsOk, Hop
  <1>3. chrome[r].sent => mitm[<<r, chrome[r].hop>>].progress # "failed"
    BY <1>2, PlainParts DEF ProxyOk
  <1>4. ~closed
    BY DEF Joins
  <1> QED BY <1>1, <1>3, <1>4, PlainParts DEF CacheTimer, OnServedFromCache, OnLoadingFailed

\* So does nothing in the proxy, and no entry waits for the timers of 5 s.
LEMMA NoWaitRunsOut ==
  ASSUME TypeInv, Plain, Joins, NEW m \in Mitm, OnMitmError(m) \/ FailedTimer(m) \/ PendingTimer(m)
  PROVE  FALSE
  <1>1. PICK r \in Request : TRUE
    BY DEF Mitm
  <1>2. ~Happens("errors") /\ ~Happens("slow") /\ dropping = {}
    BY <1>1, PlainParts DEF Joins
  <1>3. PICK i \in DOMAIN pending : pending[i].mitm = m /\ pending[i].wait = "open" /\ IsTold(m)
    BY <1>2 DEF OnMitmError, FailedTimer, PendingTimer
  <1>4. PICK q \in Request : IsOf(pending[i], q)
    BY DEF Joins, EntriesJoin
  <1>5. IsOpen(pending[i], q)
    BY <1>3, <1>4 DEF IsOf, IsQueued, IsJoined
  <1>6. m = <<q, chrome[q].hop>> /\ ~chrome[q].over /\ ~Told(q)
    BY <1>3, <1>5 DEF IsOpen, Now, Active
  <1>7. m[1] = q /\ m[2] = chrome[q].hop
    BY <1>6
  <1>8. chrome[q].extra
    BY <1>3, <1>6, <1>7 DEF IsTold
  <1> QED BY <1>6, <1>8, TimerIsLate

\* At first there are no entries, and no request runs.
LEMMA InitJoins ==
  ASSUME Init
  PROVE  Joins
  <1>1. ASSUME NEW r \in Request PROVE Tells(r) /\ NoneIsMissing(r) /\ ProxyOk(r)
    <2>1. /\ chrome[r] = [hop |-> 0, sent |-> FALSE, extra |-> FALSE, paused |-> "no",
                          received |-> FALSE, over |-> FALSE, cached |-> "no", cacheTimer |-> FALSE]
          /\ requestsById[r] = None /\ publishing[r] = NoPublishing /\ redirectsById[r] = <<>>
      BY <1>1 DEF Init
    <2>2. Len(environment.url[r]) \in Hop
      BY <1>1, MatchingAssumption DEF Init
    <2>3. Tells(r)
      BY <2>1, <2>2, MatchingAssumption DEF Tells, TellsOk, NoPublishing, Hop
    <2>4. NoneIsMissing(r)
      BY <2>1 DEF NoneIsMissing, Active
    <2>5. \A hop \in Hop : mitm[<<r, hop>>] = [progress |-> "no", settled |-> FALSE, joined |-> None]
      BY <1>1 DEF Init, Mitm
    <2>6. ProxyOk(r)
      BY <2>1, <2>5 DEF ProxyOk
    <2> QED BY <2>3, <2>4, <2>6
  <1>2. AreAlone
    BY DEF Init, AreAlone, Active
  <1>3. EntriesJoin /\ OneQueued
    BY DEF Init, EntriesJoin, OneQueued
  <1>4. dropping = {} /\ ~closed
    BY DEF Init
  <1> QED BY <1>1, <1>2, <1>3, <1>4 DEF Joins

\* A step changes neither the urls nor what may happen.
LEMMA PlainStays ==
  ASSUME [Next]_vars
  PROVE  UNCHANGED environment /\ (Plain' <=> Plain)
  <1>1. ASSUME NEW r \in Request, Devtools(r) PROVE UNCHANGED environment
    BY <1>1 DEF Devtools, Issue, FollowsRedirect, OnRequestWillBeSent, OnExtraInfo, OnRequestPaused,
       OnContinued, OnResponseReceived, OnLoadingFinished
  <1>2. ASSUME Timers PROVE UNCHANGED environment
    BY <1>2 DEF Timers, PublishTimer, CacheTimer, FailedTimer, PendingTimer
  <1>3. ASSUME Proxy PROVE UNCHANGED environment
    BY <1>3 DEF Proxy, DetermineResourceType, Answer, OnMitmResponse
  <1>4. ASSUME Faults PROVE UNCHANGED environment
    BY <1>4 DEF Faults, OnLoadingFailed, OnServedFromCache, OnMitmError, CancelPending
  <1>5. UNCHANGED environment
    BY <1>1, <1>2, <1>3, <1>4 DEF Next, Progress, vars
  <1>6. Plain' <=> Plain
    BY <1>5 DEF Plain, Happens
  <1> QED BY <1>5, <1>6

\* A step that changes nothing.
LEMMA StutterJoins ==
  ASSUME Joins, UNCHANGED vars
  PROVE  Joins'
  <1>1. /\ chrome' = chrome /\ requestsById' = requestsById /\ publishing' = publishing
        /\ redirectsById' = redirectsById /\ pending' = pending /\ dropping' = dropping
        /\ mitm' = mitm /\ closed' = closed /\ environment' = environment
    BY DEF vars, managerVars, resourceVars
  <1>2. /\ \A r, known : HeadersOf(r, known)' = HeadersOf(r, known)
        /\ \A r, n : UrlAt(r, n)' = UrlAt(r, n)
        /\ \A x : Happens(x)' <=> Happens(x)
    BY <1>1, SameWords
  <1>3. ASSUME NEW r \in Request
        PROVE  (Active(r)' <=> Active(r)) /\ (Told(r)' <=> Told(r)) /\ Now(r)' = Now(r)
    BY <1>1 DEF Active, Told, Now
  <1>4. ASSUME NEW r \in Request, NEW x
        PROVE  /\ IsOpen(x, r)' <=> IsOpen(x, r)
               /\ IsQueued(x, r)' <=> IsQueued(x, r)
               /\ IsJoined(x, r)' <=> IsJoined(x, r)
    BY <1>1, <1>2, <1>3 DEF IsOpen, IsQueued, IsJoined
  <1>5. ASSUME NEW r \in Request, NEW i
        PROVE  /\ IsOpen(pending[i], r)' <=> IsOpen(pending[i], r)
               /\ IsQueued(pending[i], r)' <=> IsQueued(pending[i], r)
               /\ IsOf(pending[i], r)' <=> IsOf(pending[i], r)
    <2> PICK x : x = pending[i]
      OBVIOUS
    <2>1. IsOf(x, r)' <=> IsOf(x, r)
      BY <1>4 DEF IsOf
    <2>2. x = pending'[i]
      BY <1>1
    <2> QED BY <1>4, <2>1, <2>2, EntryNext
  <1>6. EntriesJoin' /\ OneQueued'
    BY <1>1, <1>5 DEF Joins, EntriesJoin, OneQueued
  <1>7. AreAlone'
    BY <1>2, <1>3 DEF Joins, AreAlone
  <1>8. ASSUME NEW r \in Request PROVE Tells(r)' /\ NoneIsMissing(r)' /\ ProxyOk(r)'
    <2>1. Tells(r)'
      BY <1>1, <1>2 DEF Joins, Tells, TellsOk
    <2>2. NoneIsMissing(r)'
      BY <1>1, <1>3, <1>5 DEF Joins, NoneIsMissing
    <2>3. ProxyOk(r)'
      BY <1>1, <1>3 DEF Joins, ProxyOk
    <2> QED BY <2>1, <2>2, <2>3
  <1> QED BY <1>1, <1>6, <1>7, <1>8 DEF Joins

\* Every step keeps the entries right.
LEMMA StepJoins ==
  ASSUME TypeInv, Plain, Joins, [Next]_vars
  PROVE  Joins'
  <1>1. ASSUME NEW r \in Request, Devtools(r) PROVE Joins'
    BY <1>1, IssueJoins, FollowsRedirectJoins, OnRequestWillBeSentJoins, OnExtraInfoJoins,
       OnRequestPausedJoins, OnContinuedJoins, OnResponseReceivedJoins, OnLoadingFinishedJoins
       DEF Devtools
  <1>2. CASE Timers
    BY <1>2, NoPublishTimer, NothingFails, NoWaitRunsOut DEF Timers
  <1>3. CASE Proxy
    BY <1>3, DetermineResourceTypeJoins, AnswerJoins, OnMitmResponseJoins DEF Proxy
  <1>4. CASE Faults
    <2>1. ~CancelPending
      BY DEF CancelPending, Plain, Happens
    <2> QED BY <1>4, <2>1, NothingFails, NoWaitRunsOut DEF Faults
  <1>5. CASE UNCHANGED vars
    BY <1>5, StutterJoins
  <1> QED BY <1>1, <1>2, <1>3, <1>4, <1>5 DEF Next, Progress

\* A response that is recorded has the id of its own request.
LEMMA JoinedIsOwn ==
  ASSUME Plain => Joins
  PROVE  JoinedWithItsOwn
  <1> SUFFICES ASSUME Plain, NEW m \in Mitm, mitm[m].progress = "recorded" PROVE mitm[m].joined = m[1]
    BY DEF JoinedWithItsOwn
  <1>1. PICK r \in Request, h \in Hop : m = <<r, h>>
    BY DEF Mitm
  <1>2. mitm[<<r, h>>].joined = r
    BY <1>1 DEF Joins, ProxyOk
  <1> QED BY <1>1, <1>2

\* Resources and HeadersHandler, under Plain: nothing fails, is cached or comes late, no two requests
\* that are alike are under way at once, no request is redirected to an address it had, and behind a
\* password none is redirected and each is seen after its ExtraInfo.  Then every response of the
\* proxy is recorded with the id of the browser's request that caused it, however many requests and
\* redirects there are, whatever earlier ones left listed, and whichever side comes first.
THEOREM JoinedRight == Spec => []JoinedWithItsOwn
  <1> DEFINE Inv == TypeInv /\ (Plain => Joins)
  <1>1. Init => Inv
    BY InitTypes, InitJoins
  <1>2. Inv /\ [Next]_vars => Inv'
    BY StepTypes, StepJoins, PlainStays
  <1>3. Inv => JoinedWithItsOwn
    BY JoinedIsOwn
  <1> QED BY <1>1, <1>2, <1>3, PTL DEF Spec
=============================================================================
