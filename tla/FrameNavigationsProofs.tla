------------------------ MODULE FrameNavigationsProofs ------------------------
(***************************************************************************)
(* Proofs about FrameNavigations, for any addresses, calls and bounds: its *)
(* types; that no wait for a load status misses it; and why goto fails.    *)
(***************************************************************************)
EXTENDS FrameNavigations, SequenceTheorems, FiniteSetTheorems, WellFoundedInduction, TLAPS

\* The types of TypeOK, without the bounds that the length of the history sets.
Ids == Loader \cup {Unassigned}
Stored == [url : Url, reason : {"anchorClick", "metaTagRefresh"}]
AnyTrigger ==
  [status : WaitStatus \cup {None}, since : Nat \cup {None}, listed : BOOLEAN, timer : BOOLEAN,
   state : {"unused", "pending", "resolved", "timedOut"}, entry : Nat]
Load ==
  [url : Url, from : MaybeUrl, published : BOOLEAN, painted : BOOLEAN,
   ready : {"no", "retry", "yes"}, mitm : BOOLEAN, finished : BOOLEAN, aborted : BOOLEAN,
   stage : {"sent", "responded", "committed", "dcl", "loaded", "failed", "dropped"}]
LoaderRecord ==
  [id : Loader, url : MaybeUrl, result : {None, "ok", "error"}, init : BOOLEAN, dcl : BOOLEAN]
Call ==
  [state : {"idle", "sent", "taken", "loading", "resource", "done", "failed"}, url : MaybeUrl,
   entry : Nat, loader : Loader \cup {None}, awaits : Loader \cup {None}, moves : BOOLEAN,
   during : SUBSET Goto]

TriggerOk(t, size) ==
  /\ t.entry <= size
  /\ t.listed => t.state # "resolved"
  /\ t.timer => t.listed /\ t.status = "PaintingStable"
  /\ t.state = "unused" => ~t.listed

\* A frame f: each number is of a navigation, and none is in the history twice.
FrameType ==
  [entries : Seq(EntryType), history : Seq(Nat), lastHttp : Nat, stored : {None} \cup Stored,
   byLoader : [Ids -> Nat], triggers : [Wait -> AnyTrigger]]
FrameOk(f) ==
  /\ f \in FrameType
  /\ \A i \in 1..Len(f.history) : f.history[i] \in 1..Len(f.entries)
  /\ \A i, j \in 1..Len(f.history) : f.history[i] = f.history[j] => i = j
  /\ f.lastHttp <= Len(f.entries)
  /\ \A l \in Ids : f.byLoader[l] <= Len(f.entries)
  /\ \A w \in Wait : TriggerOk(f.triggers[w], Len(f.entries))

\* The calls: what was asked for and what Chrome has taken keep within the bounds.
CallsOk ==
  /\ goto \in [Goto -> Call] /\ wait \in [Wait -> Wait \cup {None}]
  /\ marker \in [id : Nat, start : Nat, wasWait : BOOLEAN]
  /\ \A g \in Goto : /\ goto[g].state # "idle" => goto[g].url \in Url
                                                  /\ goto[g].entry \in 1..Len(frame.entries)
                                                  /\ frame.history # <<>>
                     /\ goto[g].entry <= Len(frame.entries)
                     /\ goto[g].moves => goto[g].state \notin {"idle", "sent"}
                     /\ goto[g].loader # None => goto[g].loader \in DOMAIN loads
  /\ \A w \in Wait : wait[w] = None => frame.triggers[w].state = "unused"

Sent == {g \in Goto : goto[g].state = "sent"}
Moving == {g \in Goto : goto[g].moves \/ (goto[g].state = "sent" /\ HasFragment(goto[g].url))}
RoomIsKept ==
  /\ Count + Cardinality(Sent) <= MaxLoads
  /\ InPageCount + Cardinality(Moving) <= MaxInPage

ChromeOk ==
  /\ loads \in Seq(Load) /\ doc \in 0..Count /\ next \in 0..Count /\ docUrl \in MaybeUrl
  /\ loaders \in Seq(LoaderRecord) /\ frameUrl \in MaybeUrl
  /\ activeLoader \in {loaders[i].id : i \in DOMAIN loaders}

TypeInv == FrameOk(frame) /\ CallsOk /\ RoomIsKept /\ ChromeOk /\ environment \in Environments

\* No address with a fragment is used, no document restored.
NoFragments == "fragment" \notin environment
NoRestore == "restore" \notin environment

\* A wait for a load status, and what fulfils it.
AwaitsLoad(t) == t.listed /\ t.state = "pending" /\ t.status \notin LocationTrigger
Meets(statuses, status) ==
  IF status = "PaintingStable" THEN "ContentPaint" \in statuses
  ELSE \E s \in statuses \ {"HttpRedirected", "ContentPaint"} : Rank[s] >= Rank[status]
Restored(e) == e.reason = "goForwardOrBack"
Seen(f) ==
  \A w \in Wait : AwaitsLoad(f.triggers[w]) /\ Top(f) # 0 /\ ~Restored(f.entries[Top(f)]) =>
    ~Meets(f.entries[Top(f)].statuses, f.triggers[w].status)

\* A navigation takes the resource of an earlier one, where no loader is unassigned.
Assigned(f) == \A n \in 1..Len(f.entries) : f.entries[n].loader # Unassigned
FollowsBack(f) ==
  \A n \in 1..Len(f.entries) : f.entries[n].resource.kind = "follows" => f.entries[n].resource.of < n

Plain(f) ==
  /\ NoFragments => Assigned(f) /\ FollowsBack(f)
  /\ NoRestore => \A n \in 1..Len(f.entries) : ~Restored(f.entries[n])
HistoryOk(f) == Plain(f) /\ (NoFragments \/ NoRestore => Seen(f))

\* Errors: a request of this page was aborted.
Aborted == \E l \in DOMAIN loads : loads[l].aborted
HasError(f) == \E n \in 1..Len(f.entries) : f.entries[n].error

LoadsOk ==
  \A l \in DOMAIN loads :
    /\ loads[l].stage \in {"failed", "dropped"} => loads[l].aborted
    /\ loads[l].stage \in {"sent", "responded"} => l = next \/ loads[l].aborted

\* A loader of Chrome that has not begun is that of a request that has not committed, and each
\* request that has committed has its loader.
HasLoader(l) == \E i \in DOMAIN loaders : loaders[i].id = l
NotBegun == {"sent", "responded", "failed", "dropped"}
LoadersOk ==
  /\ \A i \in DOMAIN loaders : LET x == loaders[i] IN
       /\ x.id <= MaxLoads /\ ~x.init => x.id \in DOMAIN loads /\ loads[x.id].stage \in NotBegun
       /\ x.id <= MaxLoads /\ x.result = "error" => Aborted
  /\ \A l \in DOMAIN loads : loads[l].stage \notin NotBegun => loads[l].aborted \/ HasLoader(l)

\* The loader that a call waits for is one of the frame.
AwaitsOk == \A g \in Goto : goto[g].state = "loading" => HasLoader(goto[g].awaits)
FailsOk == HasError(frame) => Aborted
Sound == FailsOk /\ LoadsOk /\ LoadersOk /\ AwaitsOk

\* The calls, where no address has a fragment.
GotosOk ==
  \A g \in Goto : LET c == goto[g] IN
    /\ c.state = "sent" => ~HasFragment(c.url)
    /\ c.state \notin {"idle", "sent", "failed"} => c.loader \in DOMAIN loads
    /\ ~c.moves
    /\ c.state = "loading" => c.awaits \in DOMAIN loads

IInv ==
  /\ TypeInv /\ HistoryOk(frame) /\ Sound
  /\ NoFragments => GotosOk

-----------------------------------------------------------------------------
\* Numbers and the positions of a sequence.

\* A set of numbers has a least one.
LEMMA LeastNumber ==
  ASSUME NEW T \in SUBSET Nat, T # {}
  PROVE  \E n \in T : \A m \in T : n <= m
  <1>1. PICK n \in T : \A m \in T : ~(<<m, n>> \in OpToRel(<, Nat))
    BY NatLessThanWellFounded, WFMin
  <1>2. \A m \in T : ~(m < n)
    BY <1>1 DEF OpToRel
  <1> QED BY <1>2

\* Numbers that hold 0 and the next of each of them are all the numbers.
LEMMA AllNumbers ==
  ASSUME NEW T \in SUBSET Nat, 0 \in T, \A n \in T : n + 1 \in T
  PROVE  T = Nat
  <1> SUFFICES ASSUME Nat \ T # {} PROVE FALSE
    OBVIOUS
  <1>1. PICK n \in Nat \ T : \A m \in Nat \ T : n <= m
    BY LeastNumber
  <1>2. n - 1 \in Nat /\ ~(n <= n - 1)
    BY <1>1
  <1>3. n - 1 \in T
    BY <1>1, <1>2
  <1>4. (n - 1) + 1 \in T
    BY <1>3
  <1> QED BY <1>4

\* The least of some positions of a sequence.
LEMMA LeastPosition ==
  ASSUME NEW N \in Nat, NEW I \in SUBSET (1..N), I # {}
  PROVE  Min(I) \in I
  <1>1. I \in SUBSET Nat
    OBVIOUS
  <1>2. \E i \in I : \A j \in I : i <= j
    BY <1>1, LeastNumber
  <1> QED BY <1>2 DEF Min

\* The greatest of them.
LEMMA GreatestPosition ==
  ASSUME NEW N \in Nat, NEW I \in SUBSET (1..N), I # {}
  PROVE  Max(I) \in I
  <1> DEFINE T == {n \in Nat : \A i \in I : i <= n}
  <1>1. T \in SUBSET Nat /\ N \in T
    OBVIOUS
  <1>2. PICK n \in T : \A m \in T : n <= m
    BY <1>1, LeastNumber
  <1>3. n \in I
    <2>1. SUFFICES ASSUME n \notin I PROVE FALSE
      OBVIOUS
    <2>2. n # 0
      <3>1. PICK i \in I : i <= n
        BY <1>2
      <3> QED BY <3>1
    <2>3. n - 1 \in Nat /\ ~(n <= n - 1)
      BY <1>2, <2>2
    <2>4. \A i \in I : i <= n - 1
      BY <1>2, <2>1
    <2> QED BY <1>2, <2>3, <2>4
  <1>4. \A i \in I : n >= i
    BY <1>2
  <1> QED BY <1>3, <1>4 DEF Max

-----------------------------------------------------------------------------
\* A frame f, its parts, and what becomes of it when one of them changes.

WithEntry(f, n, e) == [f EXCEPT !.entries[n] = e]
WithLoader(f, l, n) == [f EXCEPT !.byLoader[l] = n]

\* None is no address, number or word.
LEMMA NoneIsNone ==
  /\ None \notin Url \cup Nat /\ None # Unassigned /\ Unassigned \notin Nat
  /\ None # "goForwardOrBack" /\ None # "error"
  BY NavigationAssumption

\* The parts of a frame.
LEMMA FrameParts ==
  ASSUME NEW f, FrameOk(f)
  PROVE  /\ f.entries \in Seq(EntryType) /\ Len(f.entries) \in Nat
         /\ \A n \in 1..Len(f.entries) : f.entries[n] \in EntryType
         /\ f.history \in Seq(Nat) /\ Len(f.history) \in Nat
         /\ \A i \in 1..Len(f.history) : f.history[i] \in 1..Len(f.entries)
         /\ f.byLoader \in [Ids -> Nat] /\ \A l \in Ids : f.byLoader[l] \in 0..Len(f.entries)
         /\ f.lastHttp \in 0..Len(f.entries) /\ f.stored \in {None} \cup Stored
         /\ f.triggers \in [Wait -> AnyTrigger]
  BY LenProperties DEF FrameOk, FrameType

\* The top is a navigation, or there is none.
LEMMA TopOk ==
  ASSUME NEW f, FrameOk(f)
  PROVE  /\ f.history = <<>> <=> Top(f) = 0
         /\ Top(f) # 0 => /\ Top(f) \in 1..Len(f.entries) /\ Len(f.history) \in 1..Len(f.history)
                          /\ Top(f) = f.history[Len(f.history)]
  <1>1. f.history # <<>> => Len(f.history) \in 1..Len(f.history)
    BY FrameParts, EmptySeq
  <1>2. f.history # <<>> => f.history[Len(f.history)] \in 1..Len(f.entries)
    BY <1>1, FrameParts
  <1> QED BY <1>1, <1>2, FrameParts DEF Top, Last

\* A frame with another entry at n is a frame.
LEMMA WithEntryOk ==
  ASSUME NEW f, FrameOk(f), NEW n \in 1..Len(f.entries), NEW e \in EntryType,
         NEW g, g = WithEntry(f, n, e)
  PROVE  /\ FrameOk(g) /\ g.entries = [f.entries EXCEPT ![n] = e] /\ Len(g.entries) = Len(f.entries)
         /\ g.history = f.history /\ g.lastHttp = f.lastHttp /\ g.stored = f.stored
         /\ g.byLoader = f.byLoader /\ g.triggers = f.triggers
  <1>1. [f.entries EXCEPT ![n] = e] \in Seq(EntryType)
        /\ Len([f.entries EXCEPT ![n] = e]) = Len(f.entries)
    BY FrameParts, ExceptSeq
  <1>2. /\ g.entries = [f.entries EXCEPT ![n] = e]
        /\ g.history = f.history /\ g.lastHttp = f.lastHttp /\ g.stored = f.stored
        /\ g.byLoader = f.byLoader /\ g.triggers = f.triggers
        /\ g \in FrameType
    BY <1>1 DEF FrameOk, FrameType, WithEntry
  <1> QED BY <1>1, <1>2 DEF FrameOk

\* So is one whose map by loader has another number for l.
LEMMA WithLoaderOk ==
  ASSUME NEW f, FrameOk(f), NEW l \in Ids, NEW n \in 0..Len(f.entries),
         NEW g, g = WithLoader(f, l, n)
  PROVE  /\ FrameOk(g) /\ g.entries = f.entries /\ g.history = f.history
         /\ g.lastHttp = f.lastHttp /\ g.stored = f.stored
         /\ \A k \in Ids : g.byLoader[k] = IF k = l THEN n ELSE f.byLoader[k]
         /\ g.triggers = f.triggers
  <1>1. n \in Nat /\ n <= Len(f.entries)
    BY FrameParts
  <1>2. /\ g.entries = f.entries /\ g.history = f.history /\ g.lastHttp = f.lastHttp
        /\ g.stored = f.stored /\ g.byLoader = [f.byLoader EXCEPT ![l] = n]
        /\ g.triggers = f.triggers /\ g \in FrameType
    BY <1>1 DEF FrameOk, FrameType, WithLoader
  <1>3. \A k \in Ids : g.byLoader[k] = IF k = l THEN n ELSE f.byLoader[k]
    BY <1>2, FrameParts
  <1> QED BY <1>1, <1>2, <1>3, FrameParts DEF FrameOk
-----------------------------------------------------------------------------
\* What every method of the two objects keeps of a frame f when it makes g of it.

Grows(f, g) ==
  /\ Len(f.entries) <= Len(g.entries) /\ (f.history # <<>> => g.history # <<>>)
  /\ \A w \in Wait : f.triggers[w].state = "unused" => g.triggers[w].state = "unused"
  /\ HasError(g) => HasError(f)
Evolves(f, g) == FrameOk(g) /\ Plain(g) /\ Grows(f, g)

\* A frame that nothing changes evolves.
LEMMA Stays == ASSUME NEW f, FrameOk(f), Plain(f) PROVE Evolves(f, f)
  BY FrameParts DEF Evolves, Grows

\* Two methods, one after the other.
LEMMA EvolvesTwice ==
  ASSUME NEW f, NEW g, NEW h, FrameOk(f), Evolves(f, g), Evolves(g, h)
  PROVE  Evolves(f, h)
  <1>1. Len(f.entries) \in Nat /\ Len(g.entries) \in Nat /\ Len(h.entries) \in Nat
    BY FrameParts DEF Evolves
  <1> QED BY <1>1 DEF Evolves, Grows

\* An entry that may stand at place n.
Fits(f, n, e) ==
  /\ NoFragments => e.loader # Unassigned /\ (e.resource.kind = "follows" => e.resource.of < n)
  /\ NoRestore => ~Restored(e)
  /\ e.error => HasError(f)

\* What stands at n may stand there.
LEMMA FitsItself ==
  ASSUME NEW f, FrameOk(f), Plain(f), NEW n \in 1..Len(f.entries)
  PROVE  f.entries[n] \in EntryType /\ Fits(f, n, f.entries[n])
  BY FrameParts DEF Fits, Plain, Assigned, FollowsBack, HasError

\* Only the entry at n changes.
OnlyAt(f, g, n) ==
  /\ g.history = f.history /\ g.triggers = f.triggers /\ Len(g.entries) = Len(f.entries)
  /\ \A m \in 1..Len(f.entries) : m # n => g.entries[m] = f.entries[m]

\* An entry that may stand at n is put there.
LEMMA EntryEvolves ==
  ASSUME NEW f, FrameOk(f), Plain(f), NEW n \in 1..Len(f.entries), NEW e \in EntryType,
         Fits(f, n, e), NEW g, g = WithEntry(f, n, e)
  PROVE  Evolves(f, g) /\ OnlyAt(f, g, n) /\ g.entries[n] = e
  <1>1. /\ FrameOk(g) /\ g.entries = [f.entries EXCEPT ![n] = e] /\ Len(g.entries) = Len(f.entries)
        /\ g.history = f.history /\ g.triggers = f.triggers
    BY WithEntryOk
  <1>2. \A m \in 1..Len(f.entries) : g.entries[m] = IF m = n THEN e ELSE f.entries[m]
    BY <1>1, FrameParts
  <1>3. Plain(g)
    BY <1>1, <1>2 DEF Plain, Fits, Assigned, FollowsBack
  <1>4. HasError(g) => HasError(f)
    BY <1>1, <1>2 DEF HasError, Fits
  <1>5. Evolves(f, g)
    BY <1>1, <1>3, <1>4, FrameParts DEF Evolves, Grows
  <1> QED BY <1>1, <1>2, <1>5 DEF OnlyAt

\* The map by loader changes.
LEMMA LoaderEvolves ==
  ASSUME NEW f, FrameOk(f), Plain(f), NEW l \in Ids, NEW n \in 0..Len(f.entries),
         NEW g, g = WithLoader(f, l, n)
  PROVE  Evolves(f, g)
  <1>1. FrameOk(g) /\ g.entries = f.entries /\ g.history = f.history /\ g.triggers = f.triggers
    BY WithLoaderOk
  <1> QED BY <1>1, FrameParts DEF Evolves, Grows, Plain, Assigned, FollowsBack, HasError

\* Waits see what they saw while the statuses of the navigation on top stay.
LEMMA SeenStays ==
  ASSUME NEW f, NEW g, FrameOk(f), Seen(f), g.triggers = f.triggers, Top(g) = Top(f),
         Top(f) # 0 => /\ g.entries[Top(f)].statuses = f.entries[Top(f)].statuses
                       /\ Restored(f.entries[Top(f)]) => Restored(g.entries[Top(f)])
  PROVE  Seen(g)
  BY DEF Seen

-----------------------------------------------------------------------------
\* FrameNavigationsObserver.

\* The change of location found is a navigation, or there is none.
LEMMA FindsTrigger ==
  ASSUME NEW f, FrameOk(f), NEW trigger, NEW since
  PROVE  HasLocationTrigger(f, trigger, since) \in 0..Len(f.entries)
  <1> DEFINE e == [i \in DOMAIN f.history |-> f.entries[f.history[i]]]
             s == [i \in DOMAIN e |-> i]
  <1>1. DOMAIN f.history = 1..Len(f.history) /\ Len(f.history) \in Nat
    BY FrameParts, LenProperties
  <1>2. s \in Seq(Nat) /\ Len(s) = Len(f.history)
    BY <1>1, LenProperties
  <1>3. ASSUME NEW I \in SUBSET (1..Len(s)), NEW first, first = IF I # {} THEN Min(I) ELSE 0, first # 0
        PROVE  f.history[first] \in 1..Len(f.entries)
    <2>1. first \in 1..Len(f.history)
      BY <1>1, <1>2, <1>3, LeastPosition
    <2> QED BY <2>1, FrameParts
  <1>4. 0 \in 0..Len(f.entries)
    BY FrameParts
  <1> HIDE DEF s
  <1>5. ASSUME NEW I, I \in SUBSET (1..Len(s)), NEW first, first = IF I # {} THEN Min(I) ELSE 0
        PROVE  (IF first = 0 THEN 0 ELSE f.history[first]) \in 0..Len(f.entries)
    <2>1. first # 0 => f.history[first] \in 1..Len(f.entries)
      BY <1>3, <1>5
    <2> QED BY <1>4, <2>1, FrameParts
  <1> QED BY <1>5 DEF HasLocationTrigger, SelectInSeq, s

\* A trigger t as it is after a look at the history of f.
LEMMA RefreshedOk ==
  ASSUME NEW f, FrameOk(f), NEW t \in AnyTrigger, TriggerOk(t, Len(f.entries)),
         NEW u, u = Refreshed(f, t)
  PROVE  /\ u \in AnyTrigger /\ TriggerOk(u, Len(f.entries))
         /\ t.state = "unused" => u = t
         /\ AwaitsLoad(u) /\ Top(f) # 0 => ~Meets(f.entries[Top(f)].statuses, u.status)
  <1> DEFINE size == Len(f.entries)
  <1>1. ASSUME NEW n \in 0..size, NEW v, v = ResolvePendingTrigger(t, n)
        PROVE  v \in AnyTrigger /\ TriggerOk(v, size) /\ ~v.listed
    <2>1. PICK s : s = IF t.state = "pending" THEN "resolved" ELSE t.state
      OBVIOUS
    <2>2. PICK m : m = IF t.state = "pending" THEN n ELSE t.entry
      OBVIOUS
    <2>3. v = [t EXCEPT !.state = s, !.entry = m, !.listed = FALSE, !.timer = FALSE]
      BY <1>1, <2>1, <2>2 DEF ResolvePendingTrigger
    <2>4. m \in Nat /\ m <= size /\ s \in {"unused", "resolved", "timedOut"}
      BY <2>1, <2>2, FrameParts DEF AnyTrigger, TriggerOk
    <2> QED BY <2>3, <2>4 DEF AnyTrigger, TriggerOk
  <1>2. Top(f) \in 0..size /\ size \in Nat
    BY TopOk, FrameParts
  <1> HIDE DEF size
  <1>3. CASE ~t.listed \/ t.state # "pending"
    <2>1. u = t
      BY <1>3 DEF Refreshed
    <2> QED BY <1>3, <2>1 DEF AwaitsLoad, size
  <1>4. CASE t.listed /\ t.state = "pending" /\ t.status \in LocationTrigger
    <2> DEFINE n == HasLocationTrigger(f, t.status, t.since)
    <2>1. n \in 0..size
      BY FindsTrigger DEF size
    <2>2. u = IF n # 0 THEN ResolvePendingTrigger(t, n) ELSE t
      BY <1>4 DEF Refreshed, LocationTrigger
    <2> HIDE DEF n
    <2>3. CASE n # 0
      BY <1>1, <1>4, <2>1, <2>2, <2>3 DEF AwaitsLoad, size
    <2>4. CASE n = 0
      BY <1>4, <2>2, <2>4 DEF AwaitsLoad, size
    <2> QED BY <2>3, <2>4
  <1>5. CASE t.listed /\ t.state = "pending" /\ t.status = "PaintingStable"
    <2>1. u = RefreshPendingLoadTrigger(f, t)
      BY <1>5 DEF Refreshed, LocationTrigger
    <2>2. CASE Top(f) # 0 /\ "ContentPaint" \in f.entries[Top(f)].statuses
      <3>1. u = ResolvePendingTrigger(t, Top(f))
        BY <2>1, <2>2 DEF RefreshPendingLoadTrigger
      <3> QED BY <1>1, <1>2, <1>5, <3>1 DEF AwaitsLoad, size
    <2>3. CASE ~(Top(f) # 0 /\ "ContentPaint" \in f.entries[Top(f)].statuses)
      <3>1. PICK b \in BOOLEAN : u = [t EXCEPT !.timer = b]
        BY <2>1, <2>3 DEF RefreshPendingLoadTrigger
      <3>2. u \in AnyTrigger /\ TriggerOk(u, size) /\ u.status = "PaintingStable"
        BY <1>5, <3>1 DEF AnyTrigger, TriggerOk, size
      <3> QED BY <1>5, <2>3, <3>2 DEF Meets, size
    <2> QED BY <2>2, <2>3
  <1>6. CASE t.listed /\ t.state = "pending" /\ t.status \notin LocationTrigger /\ t.status # "PaintingStable"
    <2>1. u = IF Fulfils(f.entries[Top(f)], t.status) THEN ResolvePendingTrigger(t, Top(f)) ELSE t
      BY <1>6 DEF Refreshed
    <2>2. CASE Fulfils(f.entries[Top(f)], t.status)
      <3>1. u = ResolvePendingTrigger(t, Top(f))
        BY <2>1, <2>2
      <3> QED BY <1>1, <1>2, <1>6, <3>1 DEF AwaitsLoad, size
    <2>3. CASE ~Fulfils(f.entries[Top(f)], t.status)
      <3>1. u = t
        BY <2>1, <2>3
      <3>2. ~Meets(f.entries[Top(f)].statuses, t.status)
        BY <1>6, <2>3 DEF Meets, Fulfils
      <3> QED BY <1>6, <3>1, <3>2 DEF size
    <2> QED BY <2>2, <2>3
  <1> QED BY <1>3, <1>4, <1>5, <1>6

\* Whatever became of the history, every wait has seen it after a 'status-change'.
LEMMA AllHaveSeen ==
  ASSUME NEW f, FrameOk(f), NEW g, g = OnLoadStatusChange(f)
  PROVE  /\ FrameOk(g) /\ Seen(g) /\ g.entries = f.entries /\ g.history = f.history
         /\ g.lastHttp = f.lastHttp /\ g.stored = f.stored /\ g.byLoader = f.byLoader
         /\ \A w \in Wait : f.triggers[w].state = "unused" => g.triggers[w].state = "unused"
  <1>1. /\ g.entries = f.entries /\ g.history = f.history /\ g.lastHttp = f.lastHttp
        /\ g.stored = f.stored /\ g.byLoader = f.byLoader
        /\ g.triggers = [w \in Wait |-> Refreshed(f, f.triggers[w])]
        /\ g = [f EXCEPT !.triggers = g.triggers]
    BY DEF OnLoadStatusChange, FrameOk, FrameType
  <1>2. ASSUME NEW w \in Wait
        PROVE  /\ g.triggers[w] \in AnyTrigger /\ TriggerOk(g.triggers[w], Len(f.entries))
               /\ f.triggers[w].state = "unused" => g.triggers[w] = f.triggers[w]
               /\ AwaitsLoad(g.triggers[w]) /\ Top(f) # 0 =>
                    ~Meets(f.entries[Top(f)].statuses, g.triggers[w].status)
    <2>1. f.triggers[w] \in AnyTrigger /\ TriggerOk(f.triggers[w], Len(f.entries))
      BY FrameParts DEF FrameOk
    <2>2. g.triggers[w] = Refreshed(f, f.triggers[w])
      BY <1>1
    <2> QED BY ONLY FrameOk(f), <2>1, <2>2, RefreshedOk
  <1>3. g.triggers \in [Wait -> AnyTrigger]
    BY <1>1, <1>2
  <1>4. g \in FrameType
    BY <1>1, <1>3 DEF FrameOk, FrameType
  <1>5. FrameOk(g)
    BY <1>1, <1>2, <1>4 DEF FrameOk
  <1>6. Top(g) = Top(f)
    BY <1>1 DEF Top
  <1>7. Seen(g)
    BY <1>1, <1>2, <1>6 DEF Seen
  <1> QED BY <1>1, <1>2, <1>5, <1>7

\* A 'status-change' makes a frame evolve.
LEMMA StatusChangeEvolves ==
  ASSUME NEW f, FrameOk(f), Plain(f), NEW g, g = OnLoadStatusChange(f)
  PROVE  Evolves(f, g) /\ Seen(g)
  <1>1. /\ FrameOk(g) /\ Seen(g) /\ g.entries = f.entries /\ g.history = f.history
        /\ \A w \in Wait : f.triggers[w].state = "unused" => g.triggers[w].state = "unused"
    BY AllHaveSeen
  <1> QED BY <1>1, FrameParts DEF Evolves, Grows, Plain, Assigned, FollowsBack, HasError

-----------------------------------------------------------------------------
\* FrameNavigations: how a status is recorded.

\* Statuses are added to the navigation n.
LEMMA StatusEntryOk ==
  ASSUME NEW f, FrameOk(f), Plain(f), NEW n \in 1..Len(f.entries), NEW s \in SUBSET Recorded,
         NEW g, g = [f EXCEPT !.entries[n].statuses = @ \cup s]
  PROVE  Evolves(f, g) /\ OnlyAt(f, g, n)
  <1> DEFINE e == [f.entries[n] EXCEPT !.statuses = @ \cup s]
  <1>1. g = WithEntry(f, n, e)
    BY FrameParts DEF WithEntry, FrameOk, FrameType
  <1>2. f.entries[n] \in EntryType /\ Fits(f, n, f.entries[n])
    BY FitsItself
  <1>3. e \in EntryType /\ Fits(f, n, e)
    BY <1>2 DEF EntryType, Fits, Restored
  <1> QED BY <1>1, <1>3, EntryEvolves

\* The navigation n gets its final address.
LEMMA FinalUrlOk ==
  ASSUME NEW f, FrameOk(f), Plain(f), NEW n \in 1..Len(f.entries), NEW url \in Url,
         NEW g, g = [f EXCEPT !.entries[n].finalUrl = url]
  PROVE  Evolves(f, g) /\ OnlyAt(f, g, n)
  <1> DEFINE e == [f.entries[n] EXCEPT !.finalUrl = url]
  <1>1. g = WithEntry(f, n, e)
    BY FrameParts DEF WithEntry, FrameOk, FrameType
  <1>2. f.entries[n] \in EntryType /\ Fits(f, n, f.entries[n])
    BY FitsItself
  <1>3. e \in EntryType /\ Fits(f, n, e)
    BY <1>2 DEF EntryType, Fits, Restored, MaybeUrl
  <1> QED BY <1>1, <1>3, EntryEvolves

\* A status is recorded, and its 'status-change' emitted.
LEMMA RecordEvolves ==
  ASSUME NEW f, FrameOk(f), Plain(f), NEW n \in 1..Len(f.entries), NEW status \in Recorded,
         NEW g, g = RecordStatusChange(f, n, status)
  PROVE  Evolves(f, g) /\ Seen(g)
  <1>1. PICK h : h = [f EXCEPT !.entries[n].statuses = @ \cup {status}]
    OBVIOUS
  <1>2. Evolves(f, h)
    BY <1>1, StatusEntryOk
  <1>3. g = OnLoadStatusChange(h)
    BY <1>1 DEF RecordStatusChange
  <1>4. Evolves(h, g) /\ Seen(g)
    BY <1>2, <1>3, StatusChangeEvolves DEF Evolves
  <1> QED BY <1>2, <1>4, EvolvesTwice

\* The navigation of a loader is one, or there is none.
LEMMA FindsMatching ==
  ASSUME NEW f, FrameOk(f), NEW l \in Ids \cup {None}
  PROVE  FindMatchingNavigation(f, l) \in 0..Len(f.entries)
  BY FrameParts, TopOk DEF FindMatchingNavigation

\* The navigation of a loader gets its id, once.
Named(f, n, l, m) == [f EXCEPT !.entries[n].loader = l, !.byLoader[l] = m]

\* The navigation n gets the loader l, and l the number m.
LEMMA NamedOk ==
  ASSUME NEW f, FrameOk(f), Plain(f), NEW n \in 1..Len(f.entries), NEW l \in Ids,
         NoFragments => l # Unassigned, NEW m \in 0..Len(f.entries),
         NEW g, g = Named(f, n, l, m)
  PROVE  Evolves(f, g) /\ (Seen(f) => Seen(g))
  <1> DEFINE e == [f.entries[n] EXCEPT !.loader = l]
             h == WithEntry(f, n, e)
  <1>1. g = WithLoader(h, l, m)
    BY FrameParts DEF Named, WithLoader, WithEntry, FrameOk, FrameType
  <1>2. f.entries[n] \in EntryType /\ Fits(f, n, f.entries[n])
    BY FitsItself
  <1>3. e \in EntryType /\ Fits(f, n, e)
    BY <1>2 DEF EntryType, Fits, Restored, Ids
  <1> HIDE DEF h
  <1>4. /\ Evolves(f, h) /\ h.entries = [f.entries EXCEPT ![n] = e]
        /\ Len(h.entries) = Len(f.entries)
        /\ h.history = f.history /\ h.triggers = f.triggers
    <2>1. h = WithEntry(f, n, e)
      BY DEF h
    <2> HIDE DEF e
    <2> QED BY <1>3, <2>1, EntryEvolves, WithEntryOk
  <1>5. FrameOk(h) /\ Plain(h) /\ m \in 0..Len(h.entries)
    BY <1>4 DEF Evolves
  <1>6. /\ Evolves(h, g) /\ g.entries = h.entries /\ g.history = h.history /\ g.triggers = h.triggers
    <2>1. Evolves(h, g)
      BY <1>1, <1>5, LoaderEvolves
    <2>2. g.entries = h.entries /\ g.history = h.history /\ g.triggers = h.triggers
      BY <1>1, <1>5, WithLoaderOk
    <2> QED BY <2>1, <2>2
  <1>7. Evolves(f, g)
    BY <1>4, <1>6, EvolvesTwice
  <1>8. ASSUME Seen(f) PROVE Seen(g)
    <2>1. Top(g) = Top(f)
      BY <1>4, <1>6 DEF Top
    <2>2. \A k \in 1..Len(f.entries) : /\ g.entries[k].statuses = f.entries[k].statuses
                                       /\ g.entries[k].reason = f.entries[k].reason
      <3>1. e.statuses = f.entries[n].statuses /\ e.reason = f.entries[n].reason
        BY <1>2 DEF EntryType
      <3> HIDE DEF e
      <3>2. \A k \in 1..Len(f.entries) : g.entries[k] = IF k = n THEN e ELSE f.entries[k]
        BY <1>4, <1>6, FrameParts
      <3> QED BY <3>1, <3>2
    <2> HIDE DEF e
    <2> QED BY <1>4, <1>6, <1>8, <2>1, <2>2, SeenStays, TopOk DEF Restored
  <1> QED BY <1>7, <1>8

\* The status of the navigation of a loader changes.
LEMMA ChangeEvolves ==
  ASSUME NEW f, FrameOk(f), Plain(f), NEW status \in Recorded, NEW l \in Ids \cup {None},
         NoFragments => l # Unassigned, NEW g, g = ChangeNavigationStatus(f, status, l)
  PROVE  Evolves(f, g) /\ (Seen(f) => Seen(g))
  <1> DEFINE n == FindMatchingNavigation(f, l)
             named == IF f.entries[n].loader = None /\ l # None
                        THEN [f EXCEPT !.entries[n].loader = l, !.byLoader[l] = IF @ = 0 THEN n ELSE @]
                        ELSE f
  <1>1. n \in 0..Len(f.entries)
    BY FindsMatching
  <1>2. g = IF n = 0 THEN f ELSE IF status \in f.entries[n].statuses THEN named
            ELSE RecordStatusChange(named, n, status)
    BY DEF ChangeNavigationStatus
  <1> HIDE DEF n
  <1>3. CASE n = 0
    BY <1>2, <1>3, Stays
  <1>4. CASE n # 0
    <2>1. n \in 1..Len(f.entries)
      BY <1>1, <1>4, FrameParts
    <2>2. Evolves(f, named) /\ (Seen(f) => Seen(named))
      <3>1. CASE f.entries[n].loader = None /\ l # None
        <4>1. PICK m \in 0..Len(f.entries) : m = IF f.byLoader[l] = 0 THEN n ELSE f.byLoader[l]
          BY <1>1, <3>1, FrameParts
        <4>2. named = Named(f, n, l, m)
          BY <3>1, <4>1 DEF Named
        <4> HIDE DEF named
        <4>3. l \in Ids
          BY <3>1
        <4> QED BY <2>1, <4>2, <4>3, NamedOk
      <3>2. CASE ~(f.entries[n].loader = None /\ l # None)
        <4>1. named = f
          BY <3>2
        <4> QED BY <4>1, Stays
      <3> QED BY <3>1, <3>2
    <2> HIDE DEF named
    <2>3. CASE status \in f.entries[n].statuses
      BY <1>2, <1>4, <2>2, <2>3
    <2>4. CASE status \notin f.entries[n].statuses
      <3>1. g = RecordStatusChange(named, n, status)
        BY <1>2, <1>4, <2>4
      <3>2. FrameOk(named) /\ Plain(named) /\ n \in 1..Len(named.entries)
        BY <2>1, <2>2, FrameParts DEF Evolves, Grows
      <3>3. Evolves(named, g) /\ Seen(g)
        BY <3>1, <3>2, RecordEvolves
      <3> QED BY <2>2, <3>3, EvolvesTwice
    <2> QED BY <2>3, <2>4
  <1> QED BY <1>3, <1>4

-----------------------------------------------------------------------------
\* FrameNavigations: how a navigation is entered.

Reasons == {"goto", "inPage", "newFrame", "goForwardOrBack", "anchorClick", "metaTagRefresh", None}
ResourceType == [kind : {"unresolved", "request", "redirect", "none", "follows"}, of : Nat]

\* The most recent navigation wanted is one that is wanted, or there is none.
LEMMA FindsRecent ==
  ASSUME NEW f, FrameOk(f), NEW wanted, NEW n, n = FindMostRecentHistory(f, wanted)
  PROVE  n \in 0..Len(f.entries) /\ (n # 0 => f.entries[n] \in wanted)
  <1> DEFINE I == {i \in 1..Len(f.history) : f.entries[f.history[i]] \in wanted}
             i == IF I # {} THEN Max(I) ELSE 0
  <1>1. n = IF i = 0 THEN 0 ELSE f.history[i]
    BY DEF FindMostRecentHistory, SelectLastInSeq
  <1>2. I \in SUBSET (1..Len(f.history)) /\ Len(f.history) \in Nat
    BY FrameParts
  <1>3. i # 0 => i \in I
    <2> HIDE DEF I
    <2> QED BY <1>2, GreatestPosition
  <1>4. i # 0 => i \in 1..Len(f.history) /\ f.entries[f.history[i]] \in wanted
    BY <1>3
  <1> HIDE DEF i
  <1>5. i # 0 => f.history[i] \in 1..Len(f.entries)
    BY <1>4, FrameParts
  <1> QED BY <1>1, <1>4, <1>5, FrameParts

\* A step that leaves the waits, the top and the statuses of every navigation alone.
SameStatuses(f, g) ==
  /\ g.history = f.history /\ g.triggers = f.triggers /\ Len(g.entries) = Len(f.entries)
  /\ \A n \in 1..Len(f.entries) : /\ g.entries[n].statuses = f.entries[n].statuses
                                  /\ g.entries[n].finalUrl = f.entries[n].finalUrl
                                  /\ Restored(f.entries[n]) => Restored(g.entries[n])

\* Waits see what they saw while no status changes.
LEMMA SeenSame ==
  ASSUME NEW f, NEW g, FrameOk(f), SameStatuses(f, g), Seen(f)
  PROVE  Seen(g)
  <1>1. Top(g) = Top(f)
    BY DEF SameStatuses, Top
  <1> QED BY <1>1, SeenStays, TopOk DEF SameStatuses

\* The entry at n with another reason.
LEMMA StoredReasonOk ==
  ASSUME NEW f, FrameOk(f), Plain(f), NEW n \in 1..Len(f.entries), NEW url,
         NEW g, g = CheckStoredNavigationReason(f, n, url)
  PROVE  /\ Evolves(f, g) /\ SameStatuses(f, g) /\ g.lastHttp = f.lastHttp
         /\ \A m \in 1..Len(f.entries) : g.entries[m].resource = f.entries[m].resource
  <1>1. CASE f.stored # None /\ f.stored.url = url /\ f.entries[n].reason \in {None, "newFrame"}
    <2> DEFINE e == [f.entries[n] EXCEPT !.reason = f.stored.reason]
               h == WithEntry(f, n, e)
    <2>1. g = [h EXCEPT !.stored = None]
      BY <1>1, FrameParts DEF CheckStoredNavigationReason, WithEntry, FrameOk, FrameType
    <2>2. f.entries[n] \in EntryType /\ Fits(f, n, f.entries[n]) /\ f.stored \in Stored
      BY <1>1, FitsItself, FrameParts
    <2>3. /\ e \in EntryType /\ Fits(f, n, e) /\ e.statuses = f.entries[n].statuses
          /\ e.finalUrl = f.entries[n].finalUrl /\ e.resource = f.entries[n].resource
      BY <2>2 DEF EntryType, Fits, Restored, Stored
    <2>4. ~Restored(f.entries[n])
      BY <1>1, NoneIsNone DEF Restored
    <2> HIDE DEF e
    <2>5. PICK k : k = h
      OBVIOUS
    <2>6. /\ Evolves(f, k) /\ k.entries = [f.entries EXCEPT ![n] = e]
          /\ Len(k.entries) = Len(f.entries)
          /\ k.history = f.history /\ k.triggers = f.triggers /\ k.lastHttp = f.lastHttp
      BY <2>3, <2>5, EntryEvolves, WithEntryOk
    <2> HIDE DEF h
    <2>7. /\ g = [k EXCEPT !.stored = None] /\ FrameOk(k)
      BY <2>1, <2>5, <2>6 DEF Evolves
    <2>8. /\ g.entries = k.entries /\ g.history = k.history /\ g.triggers = k.triggers
          /\ g.lastHttp = k.lastHttp /\ g.byLoader = k.byLoader /\ g \in FrameType
      BY <2>7 DEF FrameOk, FrameType
    <2>9. FrameOk(g)
      BY <2>7, <2>8 DEF FrameOk
    <2>10. Evolves(f, g)
      BY <2>6, <2>8, <2>9 DEF Evolves, Plain, Assigned, FollowsBack, Grows, HasError
    <2>11. \A m \in 1..Len(f.entries) : g.entries[m] = IF m = n THEN e ELSE f.entries[m]
      BY <2>6, <2>8, FrameParts
    <2> QED BY <2>3, <2>4, <2>6, <2>8, <2>10, <2>11 DEF SameStatuses
  <1>2. CASE ~(f.stored # None /\ f.stored.url = url /\ f.entries[n].reason \in {None, "newFrame"})
    <2>1. g = f
      BY <1>2 DEF CheckStoredNavigationReason
    <2> QED BY <2>1, Stays DEF SameStatuses
  <1> QED BY <1>1, <1>2

\* The navigation n gets its resource.
LEMMA ResolveEvolves ==
  ASSUME NEW f, FrameOk(f), Plain(f), NEW n \in 1..Len(f.entries), NEW resource \in ResourceType,
         NoFragments /\ resource.kind = "follows" => resource.of < n,
         NEW g, g = Resolve(f, n, resource)
  PROVE  Evolves(f, g) /\ SameStatuses(f, g)
  <1>1. PICK r : r = IF f.entries[n].resource.kind = "unresolved" THEN resource ELSE f.entries[n].resource
    OBVIOUS
  <1> DEFINE e == [f.entries[n] EXCEPT !.resource = r]
  <1>2. g = WithEntry(f, n, e)
    BY <1>1, FrameParts DEF Resolve, WithEntry, FrameOk, FrameType
  <1>3. f.entries[n] \in EntryType /\ Fits(f, n, f.entries[n])
    BY FitsItself
  <1>4. /\ e \in EntryType /\ e.statuses = f.entries[n].statuses /\ e.reason = f.entries[n].reason
        /\ e.finalUrl = f.entries[n].finalUrl /\ e.loader = f.entries[n].loader
        /\ e.error = f.entries[n].error /\ e.resource = r
    BY <1>1, <1>3 DEF EntryType, ResourceType
  <1> HIDE DEF e
  <1>5. Fits(f, n, e)
    BY <1>1, <1>3, <1>4 DEF Fits, Restored
  <1>6. Evolves(f, g)
    BY <1>2, <1>4, <1>5, EntryEvolves
  <1>7. /\ g.entries = [f.entries EXCEPT ![n] = e] /\ Len(g.entries) = Len(f.entries)
        /\ g.history = f.history /\ g.triggers = f.triggers
    BY <1>2, <1>4, WithEntryOk
  <1>8. \A m \in 1..Len(f.entries) : g.entries[m] = IF m = n THEN e ELSE f.entries[m]
    BY <1>7, FrameParts
  <1> QED BY <1>4, <1>6, <1>7, <1>8 DEF SameStatuses, Restored

\* A navigation within the document takes the state of an earlier navigation.
LEMMA CopyEvolves ==
  ASSUME NEW f, FrameOk(f), Plain(f), NEW n \in 1..Len(f.entries), NEW url \in Url,
         NEW isNewTop \in BOOLEAN, ~isNewTop => n # Top(f),
         NoFragments => /\ n = Len(f.entries) /\ f.lastHttp # n
                        /\ "HttpResponded" \notin f.entries[n].statuses,
         NEW g, g = CopyDocumentState(f, n, url, isNewTop)
  PROVE  Evolves(f, g) /\ (Seen(f) => Seen(g))
  <1> DEFINE wanted == {e \in EntriesOf(f) : /\ e.reason = "goto" /\ "HttpResponded" \in e.statuses
                                             /\ Origin[url] = Origin[UrlOf(e)]}
  <1>1. PICK source : source = IF isNewTop THEN f.lastHttp ELSE FindMostRecentHistory(f, wanted)
    OBVIOUS
  <1>2. PICK s : s = IF source = 0 THEN {"AllContentLoaded", "ContentPaint"}
                     ELSE f.entries[source].statuses \cap Shown
    OBVIOUS
  <1>3. PICK r : r = IF source = 0 THEN NoResource ELSE [kind |-> "follows", of |-> source]
    OBVIOUS
  <1>4. PICK h : h = Resolve(f, n, r)
    OBVIOUS
  <1>5. PICK c : c = [h EXCEPT !.entries[n].statuses = @ \cup s, !.entries[n].finalUrl = url]
    OBVIOUS
  <1>6. PICK top : top = f.entries[Top(f)].finalUrl
    OBVIOUS
  <1>7. g = CASE top = url -> f
              [] top # url /\ isNewTop -> OnLoadStatusChange(c)
              [] OTHER -> c
    BY <1>1, <1>2, <1>3, <1>4, <1>5, <1>6 DEF CopyDocumentState
  <1>8. source \in 0..Len(f.entries) /\ (NoFragments => source # n)
    <2>1. CASE isNewTop
      BY <1>1, <2>1, FrameParts
    <2>2. CASE ~isNewTop
      <3>1. source = FindMostRecentHistory(f, wanted)
        BY <1>1, <2>2
      <3>2. source \in 0..Len(f.entries) /\ (source # 0 => f.entries[source] \in wanted)
        <4> HIDE DEF wanted
        <4> QED BY <3>1, FindsRecent
      <3>3. source # 0 => "HttpResponded" \in f.entries[source].statuses
        BY <3>2
      <3> QED BY <3>2, <3>3
    <2> QED BY <2>1, <2>2
  <1> HIDE DEF wanted
  <1>9. s \in SUBSET Recorded
    BY <1>2 DEF Shown, Recorded
  <1>10. r \in ResourceType /\ (NoFragments /\ r.kind = "follows" => r.of < n)
    BY <1>3, <1>8, FrameParts DEF ResourceType, NoResource
  <1>11. Evolves(f, h) /\ SameStatuses(f, h)
    BY <1>4, <1>10, ResolveEvolves
  <1>12. FrameOk(h) /\ Plain(h) /\ n \in 1..Len(h.entries)
    BY <1>11 DEF Evolves, SameStatuses
  <1>13. PICK q : q = [h EXCEPT !.entries[n].statuses = @ \cup s]
    OBVIOUS
  <1>14. Evolves(h, q) /\ OnlyAt(h, q, n)
    BY <1>9, <1>12, <1>13, StatusEntryOk
  <1>15. c = [q EXCEPT !.entries[n].finalUrl = url]
    BY <1>5, <1>13
  <1>16. Evolves(q, c) /\ OnlyAt(q, c, n)
    <2>1. FrameOk(q) /\ Plain(q) /\ n \in 1..Len(q.entries)
      BY <1>12, <1>14 DEF Evolves, OnlyAt
    <2> QED BY <1>15, <2>1, FinalUrlOk
  <1>17. Evolves(h, c) /\ OnlyAt(h, c, n)
    BY <1>12, <1>14, <1>16, EvolvesTwice DEF OnlyAt
  <1>18. Evolves(f, c)
    BY <1>11, <1>17, EvolvesTwice
  <1>19. CASE top = url
    <2>1. g = f
      BY <1>7, <1>19
    <2> QED BY <2>1, Stays
  <1>20. CASE top # url /\ isNewTop
    <2>1. g = OnLoadStatusChange(c)
      BY <1>7, <1>20
    <2>2. Evolves(c, g) /\ Seen(g)
      BY <1>18, <2>1, StatusChangeEvolves DEF Evolves
    <2> QED BY <1>18, <2>2, EvolvesTwice
  <1>21. CASE top # url /\ ~isNewTop
    <2>1. g = c
      BY <1>7, <1>21
    <2>2. ASSUME Seen(f) PROVE Seen(c)
      <3>1. Seen(h)
        BY <1>11, <2>2, SeenSame
      <3>2. Top(h) = Top(f)
        BY <1>11 DEF SameStatuses, Top
      <3>4. /\ c.history = h.history /\ c.triggers = h.triggers
            /\ \A m \in 1..Len(h.entries) : m # n => c.entries[m] = h.entries[m]
        BY <1>17 DEF OnlyAt
      <3>5. Top(c) = Top(h)
        BY <3>4 DEF Top
      <3>6. Top(h) # 0 => c.entries[Top(h)] = h.entries[Top(h)]
        BY <1>12, <1>21, <3>2, <3>4, TopOk
      <3> QED BY <1>12, <3>1, <3>4, <3>5, <3>6, SeenStays
    <2> QED BY <1>18, <2>1, <2>2
  <1> QED BY <1>19, <1>20, <1>21

\* The navigation n is noted as the last one over HTTP.
LEMMA NoteEvolves ==
  ASSUME NEW f, FrameOk(f), Plain(f), NEW n \in 1..Len(f.entries), NEW g, g = NoteHttpNavigation(f, n)
  PROVE  Evolves(f, g) /\ (Seen(f) => Seen(g))
  <1>1. CASE g = f
    BY <1>1, Stays
  <1>2. CASE g = [f EXCEPT !.lastHttp = n]
    <2>1. n \in Nat /\ n <= Len(f.entries)
      BY FrameParts
    <2>2. /\ g.entries = f.entries /\ g.history = f.history /\ g.triggers = f.triggers
          /\ g.byLoader = f.byLoader /\ g.lastHttp = n /\ g \in FrameType
      BY <1>2, <2>1 DEF FrameOk, FrameType
    <2>3. FrameOk(g)
      BY <2>1, <2>2 DEF FrameOk
    <2>4. Evolves(f, g)
      BY <2>2, <2>3, FrameParts DEF Evolves, Plain, Assigned, FollowsBack, Grows, HasError
    <2>5. Seen(f) => Seen(g)
      BY <2>2 DEF Seen, Top
    <2> QED BY <2>4, <2>5
  <1> QED BY <1>1, <1>2 DEF NoteHttpNavigation

\* A new entry, on top of the history or right below its top.
Entered(f, new, isNewTop) ==
  [f EXCEPT !.entries = Append(@, new),
            !.history = IF isNewTop THEN Append(@, Len(f.entries) + 1)
                        ELSE InsertAt(@, Len(@), Len(f.entries) + 1)]

\* A number inserted beneath the last one of a sequence.
LEMMA InsertedBelow ==
  ASSUME NEW s \in Seq(Nat), NEW n \in Nat, s # <<>>, NEW t, t = InsertAt(s, Len(s), n)
  PROVE  /\ t \in Seq(Nat) /\ Len(t) = Len(s) + 1
         /\ \A i \in 1..Len(t) : t[i] = IF i < Len(s) THEN s[i] ELSE IF i = Len(s) THEN n ELSE s[Len(s)]
  <1> PICK L \in Nat : L = Len(s)
    BY LenProperties
  <1> DEFINE u == SubSeq(s, 1, L - 1)
             v == SubSeq(s, L, L)
             o == <<n>>
  <1>1. L # 0 /\ \A i \in 1..L : s[i] \in Nat
    BY EmptySeq, LenProperties
  <1>2. u \in Seq(Nat) /\ Len(u) = L - 1 /\ \A i \in 1..L - 1 : u[i] = s[i]
    <2>1. \A i \in 1..L - 1 : s[i] \in Nat
      BY <1>1
    <2> QED BY <1>1, <2>1, SubSeqProperties
  <1>3. v \in Seq(Nat) /\ Len(v) = 1 /\ v[1] = s[L]
    <2>1. \A i \in L..L : s[i] \in Nat
      BY <1>1
    <2> QED BY <1>1, <2>1, SubSeqProperties
  <1>4. o \in Seq(Nat) /\ Len(o) = 1 /\ o[1] = n
    OBVIOUS
  <1>5. t = (u \o o) \o v
    BY DEF InsertAt
  <1> HIDE DEF u, v, o
  <1>6. PICK w : w = u \o o
    OBVIOUS
  <1>7. /\ w \in Seq(Nat) /\ Len(w) = L
        /\ \A i \in 1..L : w[i] = IF i < L THEN s[i] ELSE n
    <2>1. /\ w \in Seq(Nat) /\ Len(w) = Len(u) + Len(o)
          /\ \A i \in 1..Len(u) + Len(o) : w[i] = IF i <= Len(u) THEN u[i] ELSE o[i - Len(u)]
      BY <1>2, <1>4, <1>6, ConcatProperties
    <2>2. Len(u) + Len(o) = L
      BY <1>1, <1>2, <1>4
    <2>3. ASSUME NEW i \in 1..L PROVE w[i] = IF i < L THEN s[i] ELSE n
      <3>1. CASE i < L
        <4>1. i \in 1..L - 1 /\ i <= Len(u) /\ i \in 1..Len(u) + Len(o)
          BY <1>1, <1>2, <2>2, <3>1
        <4> QED BY <1>2, <2>1, <3>1, <4>1
      <3>2. CASE i = L
        <4>1. i - Len(u) = 1 /\ ~(i <= Len(u))
          BY <1>1, <1>2, <3>2
        <4> QED BY <1>1, <1>4, <2>1, <2>2, <3>2, <4>1
      <3> QED BY <1>1, <3>1, <3>2
    <2> QED BY <2>1, <2>2, <2>3
  <1>8. /\ t \in Seq(Nat) /\ Len(t) = L + 1
        /\ \A i \in 1..L + 1 : t[i] = IF i <= L THEN w[i] ELSE v[i - L]
    <2>1. /\ t \in Seq(Nat) /\ Len(t) = Len(w) + Len(v)
          /\ \A i \in 1..Len(w) + Len(v) : t[i] = IF i <= Len(w) THEN w[i] ELSE v[i - Len(w)]
      <3>1. t = w \o v /\ w \in Seq(Nat) /\ v \in Seq(Nat)
        BY <1>3, <1>5, <1>6, <1>7
      <3> QED BY ONLY <3>1, ConcatProperties
    <2> QED BY <1>3, <1>7, <2>1
  <1>9. ASSUME NEW i \in 1..L + 1
        PROVE  t[i] = IF i < L THEN s[i] ELSE IF i = L THEN n ELSE s[L]
    <2>1. CASE i <= L
      BY <1>1, <1>7, <1>8, <2>1
    <2>2. CASE i = L + 1
      <3>1. i - L = 1 /\ ~(i <= L)
        BY <1>1, <2>2
      <3> QED BY <1>3, <1>8, <2>2, <3>1
    <2> QED BY <1>1, <2>1, <2>2
  <1> QED BY <1>8, <1>9

HasNew(f, g, n, new, isNewTop) ==
  /\ Evolves(f, g) /\ Len(g.entries) = n /\ g.entries[n] = new
  /\ \A m \in 1..Len(f.entries) : g.entries[m] = f.entries[m]
  /\ g.lastHttp = f.lastHttp /\ g.triggers = f.triggers
  /\ Top(g) = (IF isNewTop THEN n ELSE Top(f)) /\ g.history # <<>>

\* A new navigation enters the history, on top or beneath it.
LEMMA EnteredOk ==
  ASSUME NEW f, FrameOk(f), Plain(f), NEW new \in EntryType, NEW isNewTop \in BOOLEAN,
         ~isNewTop => f.history # <<>>,
         NoFragments => new.loader # Unassigned, new.resource.kind = "unresolved", ~new.error,
         NoRestore => ~Restored(new),
         NEW g, g = Entered(f, new, isNewTop), NEW n, n = Len(f.entries) + 1
  PROVE  HasNew(f, g, n, new, isNewTop)
  <1> DEFINE a == Append(f.entries, new)
             h == IF isNewTop THEN Append(f.history, n) ELSE InsertAt(f.history, Len(f.history), n)
  <1>1. /\ a \in Seq(EntryType) /\ Len(a) = n /\ a[n] = new /\ n \in Nat
        /\ \A m \in 1..Len(f.entries) : a[m] = f.entries[m]
    BY FrameParts, AppendProperties
  <1>2. PICK L \in Nat : L = Len(f.history)
    BY FrameParts
  <1>3. /\ h \in Seq(Nat) /\ Len(h) = L + 1
        /\ IF isNewTop THEN h[L + 1] = n /\ \A i \in 1..L : h[i] = f.history[i]
           ELSE L # 0 /\ \A i \in 1..L + 1 : h[i] = IF i < L THEN f.history[i]
                                                ELSE IF i = L THEN n ELSE f.history[L]
    <2>1. CASE isNewTop
      BY <1>1, <1>2, <2>1, FrameParts, AppendProperties
    <2>2. CASE ~isNewTop
      <3>1. h = InsertAt(f.history, Len(f.history), n) /\ f.history \in Seq(Nat) /\ f.history # <<>>
        BY <2>2, FrameParts
      <3> HIDE DEF h
      <3>2. /\ h \in Seq(Nat) /\ Len(h) = L + 1
            /\ \A i \in 1..L + 1 : h[i] = IF i < L THEN f.history[i]
                                          ELSE IF i = L THEN n ELSE f.history[L]
        BY <1>1, <1>2, <3>1, InsertedBelow
      <3>3. L # 0
        BY <1>2, <3>1, EmptySeq
      <3> QED BY <2>2, <3>2, <3>3
    <2> QED BY <2>1, <2>2
  <1>4. g = [f EXCEPT !.entries = a, !.history = h]
    BY DEF Entered
  <1> HIDE DEF a, h
  <1>5. /\ g.entries = a /\ g.history = h /\ g.triggers = f.triggers /\ g.byLoader = f.byLoader
        /\ g.lastHttp = f.lastHttp /\ g \in FrameType
    BY <1>1, <1>3, <1>4 DEF FrameOk, FrameType
  <1>6. \A i \in 1..L : f.history[i] \in 1..n - 1
    BY <1>1, <1>2, FrameParts
  <1>7. \A i, j \in 1..L : f.history[i] = f.history[j] => i = j
    BY <1>2 DEF FrameOk
  <1>8. \A i \in 1..L + 1 : h[i] \in 1..n
    <2>1. CASE isNewTop
      BY <1>1, <1>3, <1>6, <2>1
    <2>2. CASE ~isNewTop
      <3>1. L \in 1..L /\ n \in 1..n /\ \A i \in 1..L : f.history[i] \in 1..n
        BY <1>1, <1>3, <1>6, <2>2
      <3>2. \A i \in 1..L + 1 : h[i] = IF i < L THEN f.history[i]
                                        ELSE IF i = L THEN n ELSE f.history[L]
        BY <1>3, <2>2
      <3>3. ASSUME NEW i \in 1..L + 1 PROVE h[i] \in 1..n
        BY <3>1, <3>2
      <3> QED BY <3>3
    <2> QED BY <2>1, <2>2
  <1>9. ASSUME NEW i \in 1..L + 1, NEW j \in 1..L + 1, h[i] = h[j] PROVE i = j
    <2>1. CASE isNewTop
      <3>1. \A k \in 1..L : h[k] \in 1..n - 1 /\ h[k] = f.history[k]
        BY <1>3, <1>6, <2>1
      <3>2. h[L + 1] = n
        BY <1>3, <2>1
      <3>3. i \in 1..L <=> j \in 1..L
        BY <1>1, <1>9, <3>1, <3>2
      <3> QED BY <1>7, <1>9, <3>1, <3>3
    <2>2. CASE ~isNewTop
      <3> DEFINE at(k) == IF k <= L THEN k ELSE L
      <3>1. \A k \in 1..L + 1 : /\ k # L => h[k] = f.history[at(k)] /\ at(k) \in 1..L
                                /\ k = L => h[k] = n
        BY <1>3, <2>2
      <3>2. i = L <=> j = L
        <4>1. \A k \in 1..L + 1 : k # L => h[k] \in 1..n - 1
          BY <1>6, <3>1
        <4> QED BY <1>1, <1>9, <3>1, <4>1
      <3>3. i # L /\ j # L => at(i) = at(j)
        BY <1>7, <1>9, <3>1
      <3> QED BY <3>2, <3>3
    <2> QED BY <2>1, <2>2
  <1>10. FrameOk(g)
    <2>1. Len(f.entries) <= n /\ f.lastHttp <= n /\ \A l \in Ids : f.byLoader[l] <= n
      BY <1>1, FrameParts
    <2>2. \A w \in Wait : TriggerOk(f.triggers[w], n)
      <3>1. \A w \in Wait : f.triggers[w].entry \in Nat /\ TriggerOk(f.triggers[w], Len(f.entries))
        BY FrameParts DEF FrameOk, AnyTrigger
      <3> QED BY <3>1, FrameParts DEF TriggerOk
    <2> QED BY <1>1, <1>3, <1>5, <1>8, <1>9, <2>1, <2>2 DEF FrameOk
  <1>11. h # <<>> /\ Last(h) = IF isNewTop THEN n ELSE Last(f.history)
    BY <1>2, <1>3, EmptySeq DEF Last
  <1>12. Top(g) = IF isNewTop THEN n ELSE Top(f)
    BY <1>5, <1>11 DEF Top
  <1>13. Evolves(f, g)
    <2>1. \A m \in 1..n : g.entries[m] = IF m = n THEN new ELSE f.entries[m]
      BY <1>1, <1>5, FrameParts
    <2>2. Len(g.entries) = n
      BY <1>1, <1>5
    <2>3. Plain(g)
      <3>1. ASSUME NEW m \in 1..n
            PROVE  /\ NoFragments => /\ g.entries[m].loader # Unassigned
                                     /\ g.entries[m].resource.kind = "follows" => g.entries[m].resource.of < m
                   /\ NoRestore => ~Restored(g.entries[m])
        <4>1. CASE m = n
          BY <2>1, <4>1
        <4>2. CASE m # n
          <5>1. m \in 1..Len(f.entries) /\ g.entries[m] = f.entries[m]
            BY <2>1, <4>2, FrameParts
          <5> QED BY <5>1 DEF Plain, Assigned, FollowsBack
        <4> QED BY <4>1, <4>2
      <3> QED BY <2>2, <3>1 DEF Plain, Assigned, FollowsBack
    <2>4. HasError(g) => HasError(f)
      BY <2>1, <2>2, FrameParts DEF HasError
    <2> QED BY <1>5, <1>10, <1>11, <2>2, <2>3, <2>4, FrameParts DEF Evolves, Grows
  <1> QED BY <1>1, <1>5, <1>11, <1>12, <1>13 DEF HasNew

\* A method that, besides, lets no wait miss its status.
Advances(f, g) == Evolves(f, g) /\ ((NoFragments \/ NoRestore) /\ Seen(f) => Seen(g))

\* Two methods, one after the other.
LEMMA AdvancesTwice ==
  ASSUME NEW f, NEW g, NEW h, FrameOk(f), Advances(f, g), Advances(g, h)
  PROVE  Advances(f, h)
  BY EvolvesTwice DEF Advances

\* A frame that nothing changes advances.
LEMMA AdvancesNot == ASSUME NEW f, FrameOk(f), Plain(f) PROVE Advances(f, f)
  BY Stays DEF Advances

\* A navigation is requested, whatever the reason: the frame advances, and has a navigation.
LEMMA NavigationEvolves ==
  ASSUME NEW f, FrameOk(f), Plain(f), NEW reason \in Reasons, NoRestore => reason # "goForwardOrBack",
         NEW url \in Url, NEW command \in Nat, NEW loader \in Loader \cup {None},
         NEW request \in Loader \cup {None},
         NEW g, g = OnNavigationRequested(f, reason, url, command, loader, request)
  PROVE  Advances(f, g) /\ g.history # <<>>
  <1> DEFINE isNewTop == reason # "inPage" \/ Top(f) = 0 \/ Origin[url] = Origin[CurrentUrl(f)]
             reused == CurrentUrl(f) = url /\ f.entries[Top(f)].loader = Unassigned
             n == IF reused THEN Top(f) ELSE Len(f.entries) + 1
             new == [requestedUrl |-> url, finalUrl |-> None, loader |-> loader, request |-> request,
                     command |-> command, statuses |-> {}, reason |-> reason,
                     resource |-> [kind |-> "unresolved", of |-> 0], error |-> FALSE]
             entered == IF reused
                          THEN [f EXCEPT !.entries[n].loader = loader, !.entries[n].request = request]
                          ELSE [f EXCEPT !.entries = Append(@, new),
                                         !.history = IF isNewTop THEN Append(@, n)
                                                     ELSE InsertAt(@, Len(@), n)]
             found == IF loader = None THEN entered ELSE [entered EXCEPT !.byLoader[loader] = n]
             named == CheckStoredNavigationReason(found, n, url)
  <1>8. g = CASE reason = "inPage" -> CopyDocumentState(named, n, url, isNewTop)
              [] reason = "goForwardOrBack" ->
                   Resolve([named EXCEPT !.entries[n].statuses =
                        @ \cup {"HttpRequested", "HttpResponded", "AllContentLoaded", "ContentPaint"}],
                     n, NoResource)
              [] OTHER -> NoteHttpNavigation(named, n)
    BY DEF OnNavigationRequested
  <1>7. named = CheckStoredNavigationReason(found, n, url)
    OBVIOUS
  <1> HIDE DEF named
  <1>6. found = IF loader = None THEN entered ELSE [entered EXCEPT !.byLoader[loader] = n]
    OBVIOUS
  <1> HIDE DEF found
  <1>5. entered = IF reused
                    THEN [f EXCEPT !.entries[n].loader = loader, !.entries[n].request = request]
                    ELSE [f EXCEPT !.entries = Append(@, new),
                                   !.history = IF isNewTop THEN Append(@, n)
                                               ELSE InsertAt(@, Len(@), n)]
    OBVIOUS
  <1> HIDE DEF entered
  <1>4. /\ new = [requestedUrl |-> url, finalUrl |-> None, loader |-> loader, request |-> request,
                  command |-> command, statuses |-> {}, reason |-> reason,
                  resource |-> [kind |-> "unresolved", of |-> 0], error |-> FALSE]
    OBVIOUS
  <1> HIDE DEF new
  <1>3. n = IF reused THEN Top(f) ELSE Len(f.entries) + 1
    OBVIOUS
  <1> HIDE DEF n
  <1>2. reused <=> (CurrentUrl(f) = url /\ f.entries[Top(f)].loader = Unassigned)
    OBVIOUS
  <1> HIDE DEF reused
  <1>1. /\ isNewTop <=> (reason # "inPage" \/ Top(f) = 0 \/ Origin[url] = Origin[CurrentUrl(f)])
        /\ isNewTop \in BOOLEAN
    OBVIOUS
  <1> HIDE DEF isNewTop
  \* a navigation that is entered again is the top one
  <1>9. reused => /\ Top(f) \in 1..Len(f.entries) /\ n = Top(f) /\ isNewTop /\ ~NoFragments
    <2>1. Top(f) = 0 => CurrentUrl(f) = None
      BY DEF CurrentUrl
    <2>2. reused => Top(f) # 0
      BY <1>2, <2>1, NoneIsNone
    <2>3. reused => Top(f) \in 1..Len(f.entries)
      BY <2>2, TopOk
    <2> QED BY <1>1, <1>2, <1>3, <2>3 DEF Plain, Assigned
  <1>10. /\ Evolves(f, entered) /\ (Seen(f) => Seen(entered)) /\ n \in 1..Len(entered.entries)
         /\ entered.history # <<>> /\ (isNewTop => Top(entered) = n) /\ (~isNewTop => Top(entered) # n)
         /\ ~reused => /\ n = Len(entered.entries) /\ entered.entries[n] = new
                       /\ entered.lastHttp # n
    <2>1. CASE reused
      <3> DEFINE e == [f.entries[n] EXCEPT !.loader = loader, !.request = request]
      <3>1. n \in 1..Len(f.entries) /\ n = Top(f) /\ isNewTop
        BY <1>9, <2>1
      <3>2. PICK q : q = [f EXCEPT !.entries[n].loader = loader]
        OBVIOUS
      <3>3. entered = [q EXCEPT !.entries[n].request = request]
        BY <1>5, <2>1, <3>2
      <3>4. Evolves(f, q) /\ OnlyAt(f, q, n) /\ q.entries[n].statuses = f.entries[n].statuses
            /\ q.entries[n].reason = f.entries[n].reason
        <4> DEFINE d == [f.entries[n] EXCEPT !.loader = loader]
        <4>1. q = WithEntry(f, n, d)
          BY <3>1, <3>2, FrameParts DEF WithEntry, FrameOk, FrameType
        <4>2. f.entries[n] \in EntryType /\ Fits(f, n, f.entries[n])
          BY <3>1, FitsItself
        <4>3. /\ d \in EntryType /\ Fits(f, n, d) /\ d.statuses = f.entries[n].statuses
              /\ d.reason = f.entries[n].reason
          BY <1>9, <2>1, <4>2 DEF EntryType, Fits, Restored
        <4> HIDE DEF d
        <4>4. Evolves(f, q) /\ OnlyAt(f, q, n) /\ q.entries[n] = d
          BY <3>1, <4>1, <4>3, EntryEvolves
        <4> QED BY <4>3, <4>4
      <3>5. FrameOk(q) /\ Plain(q) /\ n \in 1..Len(q.entries)
        BY <3>1, <3>4 DEF Evolves, OnlyAt
      <3>6. Evolves(q, entered) /\ OnlyAt(q, entered, n) /\ entered.entries[n].statuses = q.entries[n].statuses
            /\ entered.entries[n].reason = q.entries[n].reason
        <4> DEFINE d == [q.entries[n] EXCEPT !.request = request]
        <4>1. entered = WithEntry(q, n, d)
          BY <3>3, <3>5, FrameParts DEF WithEntry, FrameOk, FrameType
        <4>2. q.entries[n] \in EntryType /\ Fits(q, n, q.entries[n])
          BY <3>5, FitsItself
        <4>3. /\ d \in EntryType /\ Fits(q, n, d) /\ d.statuses = q.entries[n].statuses
              /\ d.reason = q.entries[n].reason
          BY <4>2 DEF EntryType, Fits, Restored
        <4> HIDE DEF d
        <4>4. Evolves(q, entered) /\ OnlyAt(q, entered, n) /\ entered.entries[n] = d
          BY <3>5, <4>1, <4>3, EntryEvolves
        <4> QED BY <4>3, <4>4
      <3>7. entered.history = f.history /\ entered.triggers = f.triggers
            /\ Len(entered.entries) = Len(f.entries) /\ Top(entered) = Top(f)
        BY <3>4, <3>6 DEF OnlyAt, Top
      <3>8. Seen(f) => Seen(entered)
        BY <3>1, <3>4, <3>6, <3>7, SeenStays DEF Restored
      <3>9. f.history # <<>>
        BY <3>1, FrameParts, TopOk
      <3> QED BY <2>1, <3>1, <3>4, <3>6, <3>7, <3>8, <3>9, EvolvesTwice
    <2>2. CASE ~reused
      <3>1. entered = Entered(f, new, isNewTop) /\ n = Len(f.entries) + 1
        BY <1>3, <1>5, <2>2 DEF Entered
      <3>2. new \in EntryType
        BY <1>4 DEF EntryType, MaybeUrl, Reasons
      <3>3. /\ NoFragments => new.loader # Unassigned
            /\ new.resource.kind = "unresolved" /\ ~new.error /\ new.statuses = {}
            /\ NoRestore => ~Restored(new)
        BY <1>4, NoneIsNone DEF Loader, Restored
      <3>4. ~isNewTop => f.history # <<>>
        BY <1>1, TopOk
      <3>5. /\ Evolves(f, entered) /\ Len(entered.entries) = n /\ entered.entries[n] = new
            /\ \A m \in 1..Len(f.entries) : entered.entries[m] = f.entries[m]
            /\ entered.lastHttp = f.lastHttp /\ entered.triggers = f.triggers
            /\ Top(entered) = (IF isNewTop THEN n ELSE Top(f)) /\ entered.history # <<>>
        <4>1. HasNew(f, entered, n, new, isNewTop)
          BY <1>1, <3>1, <3>2, <3>3, <3>4, EnteredOk, Zenon
        <4> QED BY <4>1 DEF HasNew
      <3>6. ~isNewTop => Top(f) # 0 /\ Top(f) \in 1..Len(f.entries)
        BY <3>4, TopOk
      <3>7. n \in 1..n /\ ~(n \in 1..Len(f.entries)) /\ f.lastHttp # n
        BY <3>1, FrameParts
      <3>8. ASSUME Seen(f) PROVE Seen(entered)
        <4>1. CASE isNewTop
          <5>1. \A status : ~Meets({}, status)
            BY DEF Meets
          <5> QED BY <3>3, <3>5, <4>1, <5>1 DEF Seen
        <4>2. CASE ~isNewTop
          BY <3>5, <3>6, <3>8, <4>2, SeenStays
        <4> QED BY <4>1, <4>2
      <3> QED BY <2>2, <3>5, <3>6, <3>7, <3>8
    <2> QED BY <2>1, <2>2
  <1>11. FrameOk(entered) /\ Plain(entered) /\ n \in 0..Len(entered.entries)
    BY <1>10, FrameParts DEF Evolves
  <1>12. /\ Evolves(entered, found) /\ found.entries = entered.entries /\ found.history = entered.history
         /\ found.triggers = entered.triggers /\ found.lastHttp = entered.lastHttp
    <2>1. CASE loader = None
      <3>1. found = entered
        BY <1>6, <2>1
      <3> QED BY <1>11, <3>1, Stays
    <2>2. CASE loader # None
      <3>1. found = WithLoader(entered, loader, n) /\ loader \in Ids
        BY <1>6, <2>2 DEF WithLoader, Ids
      <3>2. Evolves(entered, found)
        BY <1>11, <3>1, LoaderEvolves
      <3>3. /\ found.entries = entered.entries /\ found.history = entered.history
            /\ found.triggers = entered.triggers /\ found.lastHttp = entered.lastHttp
        BY <1>11, <3>1, WithLoaderOk
      <3> QED BY <3>2, <3>3
    <2> QED BY <2>1, <2>2
  <1>13. FrameOk(found) /\ Plain(found) /\ n \in 1..Len(found.entries)
    BY <1>10, <1>12 DEF Evolves
  <1>14. /\ Evolves(found, named) /\ SameStatuses(found, named) /\ named.lastHttp = found.lastHttp
    BY <1>7, <1>13, StoredReasonOk
  <1>15. /\ FrameOk(named) /\ Plain(named) /\ n \in 1..Len(named.entries) /\ Evolves(f, named)
         /\ (Seen(f) => Seen(named)) /\ named.history # <<>> /\ Top(named) = Top(entered)
         /\ ~reused => /\ n = Len(named.entries) /\ named.entries[n].statuses = {}
                       /\ named.lastHttp # n /\ (Restored(new) => Restored(named.entries[n]))
    <2>1. Evolves(f, found)
      BY <1>10, <1>12, EvolvesTwice
    <2>2. Evolves(f, named)
      BY <1>14, <2>1, EvolvesTwice
    <2>3. Seen(entered) => Seen(found)
      BY <1>12 DEF Seen, Top
    <2>4. Seen(found) => Seen(named)
      BY <1>13, <1>14, SeenSame
    <2>5. named.history = entered.history /\ Len(named.entries) = Len(entered.entries)
      BY <1>12, <1>14 DEF SameStatuses
    <2>6. ~reused => /\ found.entries[n] = new
                     /\ named.entries[n].statuses = {}
                     /\ (Restored(new) => Restored(named.entries[n]))
      <3>1. new.statuses = {}
        BY <1>4
      <3> QED BY <1>10, <1>12, <1>13, <1>14, <3>1 DEF SameStatuses
    <2> QED BY <1>10, <1>12, <1>13, <1>14, <2>2, <2>3, <2>4, <2>5, <2>6 DEF Evolves, Top
  <1>16. ASSUME Evolves(named, g), (NoFragments \/ NoRestore) /\ Seen(f) => Seen(g)
         PROVE  Advances(f, g) /\ g.history # <<>>
    BY <1>15, <1>16, EvolvesTwice DEF Advances, Evolves, Grows
  <1>17. CASE reason = "inPage"
    <2>1. g = CopyDocumentState(named, n, url, isNewTop)
      BY <1>8, <1>17
    <2>2. ~isNewTop => n # Top(named)
      BY <1>10, <1>15
    <2>3. NoFragments => /\ n = Len(named.entries) /\ named.lastHttp # n
                         /\ "HttpResponded" \notin named.entries[n].statuses
      BY <1>9, <1>15
    <2>4. Evolves(named, g) /\ (Seen(named) => Seen(g))
      BY <1>1, <1>15, <2>1, <2>2, <2>3, CopyEvolves, Zenon
    <2> QED BY <1>15, <1>16, <2>4
  <1>18. CASE reason = "goForwardOrBack"
    <2>1. PICK s \in SUBSET Recorded :
            s = {"HttpRequested", "HttpResponded", "AllContentLoaded", "ContentPaint"}
      BY DEF Recorded
    <2>2. PICK q : q = [named EXCEPT !.entries[n].statuses = @ \cup s]
      OBVIOUS
    <2>3. g = Resolve(q, n, NoResource)
      BY <1>8, <1>18, <2>1, <2>2
    <2>4. Evolves(named, q) /\ OnlyAt(named, q, n)
      BY <1>15, <2>2, StatusEntryOk
    <2>5. q.entries[n].reason = named.entries[n].reason
      <3>1. named.entries[n] \in EntryType
        BY <1>15, FrameParts
      <3>2. q.entries = [named.entries EXCEPT ![n].statuses = @ \cup s]
        BY <1>15, <2>2 DEF FrameOk, FrameType
      <3>3. q.entries[n] = [named.entries[n] EXCEPT !.statuses = @ \cup s]
        BY <1>15, <3>2, FrameParts
      <3> QED BY <3>1, <3>3 DEF EntryType
    <2>6. FrameOk(q) /\ Plain(q) /\ n \in 1..Len(q.entries) /\ NoResource \in ResourceType
          /\ NoResource.kind # "follows"
      BY <1>15, <2>4 DEF Evolves, OnlyAt, NoResource, ResourceType
    <2>7. Evolves(q, g) /\ SameStatuses(q, g)
      BY <2>3, <2>6, ResolveEvolves
    <2>8. ASSUME NoFragments \/ NoRestore PROVE Seen(g)
      <3>1. NoFragments /\ ~reused
        BY <1>9, <1>18, <2>8
      <3>2. isNewTop /\ Restored(new)
        BY <1>1, <1>4, <1>18 DEF Restored
      <3>3. Top(g) = n
        BY <1>10, <1>15, <2>4, <2>7, <3>2 DEF OnlyAt, SameStatuses, Top
      <3>4. Restored(g.entries[n])
        BY <1>15, <2>5, <2>6, <2>7, <3>1, <3>2 DEF SameStatuses, Restored
      <3> QED BY <3>3, <3>4 DEF Seen
    <2> QED BY <1>15, <1>16, <2>4, <2>7, <2>8, EvolvesTwice
  <1>19. CASE reason # "inPage" /\ reason # "goForwardOrBack"
    <2>1. g = NoteHttpNavigation(named, n)
      BY <1>8, <1>19
    <2>2. Evolves(named, g) /\ (Seen(named) => Seen(g))
      BY <1>15, <2>1, NoteEvolves
    <2> QED BY <1>15, <1>16, <2>2
  <1> QED BY <1>17, <1>18, <1>19

-----------------------------------------------------------------------------
\* FrameNavigations: requests, responses, resources and paints.

\* The navigation n gets another loader.
LEMMA EntryLoaderOk ==
  ASSUME NEW f, FrameOk(f), Plain(f), NEW n \in 1..Len(f.entries), NEW l \in Ids \cup {None},
         NoFragments => l # Unassigned, NEW g, g = [f EXCEPT !.entries[n].loader = l]
  PROVE  Advances(f, g) /\ Len(g.entries) = Len(f.entries)
  <1> DEFINE e == [f.entries[n] EXCEPT !.loader = l]
  <1>1. g = WithEntry(f, n, e)
    BY FrameParts DEF WithEntry, FrameOk, FrameType
  <1>2. f.entries[n] \in EntryType /\ Fits(f, n, f.entries[n])
    BY FitsItself
  <1>3. /\ e \in EntryType /\ Fits(f, n, e) /\ e.statuses = f.entries[n].statuses
        /\ e.reason = f.entries[n].reason
    BY <1>2 DEF EntryType, Fits, Restored, Ids
  <1> HIDE DEF e
  <1>4. Evolves(f, g) /\ OnlyAt(f, g, n) /\ g.entries[n] = e
    <2>1. FrameOk(f) /\ Plain(f) /\ n \in 1..Len(f.entries) /\ e \in EntryType /\ Fits(f, n, e)
      BY <1>3
    <2>2. g = WithEntry(f, n, e)
      BY <1>1
    <2> HIDE <1>1, <1>3
    <2> QED BY ONLY <2>1, <2>2, EntryEvolves
  <1>5. ASSUME Seen(f) PROVE Seen(g)
    <2>1. Top(g) = Top(f)
      BY <1>4 DEF OnlyAt, Top
    <2>2. Top(f) # 0 => /\ g.entries[Top(f)].statuses = f.entries[Top(f)].statuses
                        /\ g.entries[Top(f)].reason = f.entries[Top(f)].reason
      BY <1>3, <1>4, TopOk DEF OnlyAt
    <2> QED BY <1>4, <1>5, <2>1, <2>2, SeenStays DEF OnlyAt, Restored
  <1> QED BY <1>4, <1>5 DEF Advances, OnlyAt

\* The navigation that a redirect ends is one, or there is none.
LEMMA FindsRedirected ==
  ASSUME NEW f, FrameOk(f), NEW from, NEW loader, NEW n, n = RedirectedNavigation(f, from, loader)
  PROVE  n \in 0..Len(f.entries)
  BY FindsRecent, TopOk, FrameParts DEF RedirectedNavigation

\* A redirect is recorded.
LEMMA RedirectAdvances ==
  ASSUME NEW f, FrameOk(f), Plain(f), NEW from, NEW url \in Url, NEW l \in Loader,
         NEW g, g = RecordRedirect(f, from, url, l)
  PROVE  Advances(f, g)
  <1>1. PICK n \in 0..Len(f.entries) : n = RedirectedNavigation(f, from, l)
    BY FindsRedirected
  <1>2. CASE n = 0
    BY <1>1, <1>2, AdvancesNot DEF RecordRedirect
  <1>3. CASE n # 0
    <2>1. n \in 1..Len(f.entries) /\ l \in Ids \cup {None} /\ l # Unassigned
      BY <1>1, <1>3, NoneIsNone DEF Ids, Loader
    <2>2. PICK h : h = [f EXCEPT !.entries[n].finalUrl = url]
      OBVIOUS
    <2>3. PICK k : k = [h EXCEPT !.entries[n].loader = l]
      OBVIOUS
    <2>4. g = RecordStatusChange(k, n, "HttpRedirected")
      BY <1>1, <1>3, <2>2, <2>3 DEF RecordRedirect
    <2>5. Evolves(f, h) /\ OnlyAt(f, h, n)
      BY <2>1, <2>2, FinalUrlOk
    <2>6. FrameOk(h) /\ Plain(h) /\ n \in 1..Len(h.entries)
      BY <2>1, <2>5 DEF Evolves, OnlyAt
    <2>7. Evolves(h, k) /\ Len(k.entries) = Len(h.entries)
      BY <2>1, <2>3, <2>6, EntryLoaderOk DEF Advances
    <2>8. FrameOk(k) /\ Plain(k) /\ n \in 1..Len(k.entries) /\ "HttpRedirected" \in Recorded
      BY <2>6, <2>7 DEF Evolves, Recorded
    <2>9. Evolves(k, g) /\ Seen(g)
      BY <2>4, <2>8, RecordEvolves
    <2> QED BY <2>5, <2>7, <2>9, EvolvesTwice DEF Advances
  <1> QED BY <1>2, <1>3

\* A request is reported, with or without a redirect.
LEMMA HttpRequestedAdvances ==
  ASSUME NEW f, FrameOk(f), Plain(f), NEW url \in Url, NEW command \in Nat, NEW from,
         NEW l \in Loader, NEW g, g = OnHttpRequested(f, url, command, from, l)
  PROVE  Advances(f, g)
  <1>1. PICK h : h = IF from = None THEN f ELSE RecordRedirect(f, from, url, l)
    OBVIOUS
  <1>2. PICK n : n = IF from = None THEN 0 ELSE RedirectedNavigation(f, from, l)
    OBVIOUS
  <1>3. PICK reason : reason = IF n = 0 THEN None ELSE f.entries[n].reason
    OBVIOUS
  <1>4. PICK k : /\ k = h \/ k = OnNavigationRequested(h, reason, url, command, l, l)
                 /\ g = IF Top(f) = 0 THEN f ELSE ChangeNavigationStatus(k, "HttpRequested", l)
    BY <1>1, <1>2, <1>3 DEF OnHttpRequested
  <1>5. Advances(f, h)
    BY <1>1, RedirectAdvances, AdvancesNot
  <1>6. FrameOk(h) /\ Plain(h)
    BY <1>5 DEF Advances, Evolves
  <1>7. reason \in Reasons /\ (NoRestore => reason # "goForwardOrBack")
    <2>1. CASE n = 0
      BY <1>3, <2>1, NoneIsNone DEF Reasons
    <2>2. CASE n # 0
      <3>1. n \in 1..Len(f.entries)
        BY <1>2, <2>2, FindsRedirected
      <3>2. f.entries[n].reason \in Reasons
        BY <3>1, FrameParts DEF EntryType, Reasons
      <3> QED BY <1>3, <2>2, <3>1, <3>2 DEF Plain, Restored
    <2> QED BY <2>1, <2>2
  <1>8. Advances(h, k)
    BY <1>4, <1>6, <1>7, NavigationEvolves, AdvancesNot
  <1>9. FrameOk(k) /\ Plain(k)
    BY <1>8 DEF Advances, Evolves
  <1>10. l \in Ids \cup {None} /\ l # Unassigned /\ "HttpRequested" \in Recorded
    BY NoneIsNone DEF Ids, Loader, Recorded
  <1>11. CASE Top(f) = 0
    BY <1>4, <1>11, AdvancesNot
  <1>12. CASE Top(f) # 0
    <2>1. g = ChangeNavigationStatus(k, "HttpRequested", l)
      BY <1>4, <1>12
    <2>2. Advances(k, g)
      BY <1>9, <1>10, <2>1, ChangeEvolves DEF Advances
    <2> QED BY <1>5, <1>6, <1>8, <2>2, AdvancesTwice
  <1> QED BY <1>11, <1>12

\* A response is reported.
LEMMA HttpRespondedAdvances ==
  ASSUME NEW f, FrameOk(f), Plain(f), NEW url \in Url, NEW l \in Loader,
         NEW g, g = OnHttpResponded(f, url, l)
  PROVE  Advances(f, g)
  <1>1. PICK n \in 0..Len(f.entries) : n = FindMatchingNavigation(f, l)
    BY FindsMatching DEF Ids
  <1>2. CASE n = 0
    BY <1>1, <1>2, AdvancesNot DEF OnHttpResponded
  <1>3. CASE n # 0
    <2>1. n \in 1..Len(f.entries)
      BY <1>1, <1>3
    <2>2. PICK h : h = [f EXCEPT !.entries[n].finalUrl = url]
      OBVIOUS
    <2>3. g = RecordStatusChange(h, n, "HttpResponded")
      BY <1>1, <1>3, <2>2 DEF OnHttpResponded
    <2>4. Evolves(f, h) /\ OnlyAt(f, h, n)
      BY <2>1, <2>2, FinalUrlOk
    <2>5. FrameOk(h) /\ Plain(h) /\ n \in 1..Len(h.entries) /\ "HttpResponded" \in Recorded
      BY <2>1, <2>4 DEF Evolves, OnlyAt, Recorded
    <2>6. Evolves(h, g) /\ Seen(g)
      BY <2>3, <2>5, RecordEvolves
    <2> QED BY <2>4, <2>6, EvolvesTwice DEF Advances
  <1> QED BY <1>2, <1>3

\* The request of a resource, which may be the first of this frame.
LEMMA RequestAdvances ==
  ASSUME TypeInv, NEW f, FrameOk(f), Plain(f), NEW l \in Loader, NEW url \in Url, NEW from,
         NEW g, g = OnResourceWillBeRequested(f, l, url, from)
  PROVE  Advances(f, g)
  <1>1. marker.id \in Nat /\ Base[url] \in Url
    BY NavigationAssumption DEF TypeInv, CallsOk
  <1>2. PICK h : h = IF Top(f) # 0 THEN f
                     ELSE OnNavigationRequested(f, "newFrame", Base[url], marker.id, l, l)
    OBVIOUS
  <1>3. g = OnHttpRequested(h, Base[url], marker.id, from, l)
    BY <1>2 DEF OnResourceWillBeRequested
  <1>4. Advances(f, h)
    BY <1>1, <1>2, NavigationEvolves, AdvancesNot DEF Reasons
  <1>5. FrameOk(h) /\ Plain(h)
    BY <1>4 DEF Advances, Evolves
  <1>6. Advances(h, g)
    BY <1>1, <1>3, <1>5, HttpRequestedAdvances
  <1> QED BY <1>4, <1>6, AdvancesTwice

\* The navigation that waits for a resource is one, or there is none.
LEMMA FindsPending ==
  ASSUME NEW f, FrameOk(f), NEW request, NEW requestedUrl, NEW finalUrl, NEW loader,
         NEW n, n = PendingResourceId(f, request, requestedUrl, finalUrl, loader)
  PROVE  n \in 0..Len(f.entries)
  BY FindsRecent, FrameParts DEF PendingResourceId

\* A navigation gets its resource, with or without an error.
LEMMA ResourceLoadedOk ==
  ASSUME NEW f, FrameOk(f), Plain(f), NEW n \in 0..Len(f.entries), NEW resource \in ResourceType,
         resource.kind # "follows", NEW error \in BOOLEAN,
         NEW g, g = OnResourceLoaded(f, n, resource, error)
  PROVE  /\ FrameOk(g) /\ Plain(g) /\ (Seen(f) => Seen(g))
         /\ Len(g.entries) = Len(f.entries) /\ g.history = f.history /\ g.triggers = f.triggers
         /\ HasError(g) => HasError(f) \/ error
  <1>1. CASE n = 0
    BY <1>1 DEF OnResourceLoaded
  <1>2. CASE n # 0
    <2> DEFINE e == [f.entries[n] EXCEPT !.resource = resource, !.error = error]
               d == [f.entries[n] EXCEPT !.resource = resource]
    <2>1. n \in 1..Len(f.entries)
      BY <1>2
    <2>2. PICK h : h = [f EXCEPT !.entries[n].resource = resource]
      OBVIOUS
    <2>3. g = [h EXCEPT !.entries[n].error = error]
      BY <1>2, <2>2 DEF OnResourceLoaded
    <2>4. h = WithEntry(f, n, d)
      BY <2>1, <2>2, FrameParts DEF WithEntry, FrameOk, FrameType
    <2>5. f.entries[n] \in EntryType /\ Fits(f, n, f.entries[n])
      BY <2>1, FitsItself
    <2>6. /\ d \in EntryType /\ Fits(f, n, d) /\ d.statuses = f.entries[n].statuses
          /\ d.reason = f.entries[n].reason
      BY <2>5 DEF EntryType, Fits, Restored, ResourceType
    <2> HIDE DEF d
    <2>7. Evolves(f, h) /\ OnlyAt(f, h, n) /\ h.entries[n] = d
      BY <2>1, <2>4, <2>6, EntryEvolves
    <2>8. FrameOk(h) /\ Plain(h) /\ n \in 1..Len(h.entries)
      BY <2>1, <2>7 DEF Evolves, OnlyAt
    <2> DEFINE c == [h.entries[n] EXCEPT !.error = error]
    <2>9. g = WithEntry(h, n, c)
      BY <2>3, <2>8, FrameParts DEF WithEntry, FrameOk, FrameType
    <2>10. h.entries[n] \in EntryType /\ Fits(h, n, h.entries[n])
      BY <2>8, FitsItself
    <2>11. /\ c \in EntryType /\ c.statuses = d.statuses /\ c.reason = d.reason
           /\ c.loader = d.loader /\ c.resource = d.resource /\ c.error = error
      BY <2>7, <2>10 DEF EntryType
    <2> HIDE DEF c
    <2>12. /\ FrameOk(g) /\ g.entries = [h.entries EXCEPT ![n] = c]
           /\ Len(g.entries) = Len(h.entries) /\ g.history = h.history /\ g.triggers = h.triggers
      BY <2>8, <2>9, <2>11, WithEntryOk
    <2>13. \A m \in 1..Len(h.entries) : g.entries[m] = IF m = n THEN c ELSE h.entries[m]
      BY <2>8, <2>12, FrameParts
    <2>14. Plain(g)
      <3>1. Fits(h, n, d)
        BY <2>7, <2>10
      <3> QED BY <2>8, <2>11, <2>12, <2>13, <3>1 DEF Plain, Fits, Assigned, FollowsBack, Restored
    <2>15. HasError(g) => HasError(h) \/ error
      BY <2>11, <2>12, <2>13 DEF HasError
    <2>16. ASSUME Seen(f) PROVE Seen(g)
      <3>1. Top(g) = Top(f) /\ g.triggers = f.triggers
        BY <2>7, <2>12 DEF OnlyAt, Top
      <3>2. \A m \in 1..Len(f.entries) : /\ g.entries[m].statuses = f.entries[m].statuses
                                         /\ g.entries[m].reason = f.entries[m].reason
        BY <2>6, <2>7, <2>11, <2>13 DEF OnlyAt
      <3> QED BY <2>16, <3>1, <3>2, SeenStays, TopOk DEF Restored
    <2> QED BY <2>7, <2>12, <2>14, <2>15, <2>16 DEF OnlyAt, Evolves, Grows
  <1> QED BY <1>1, <1>2

-----------------------------------------------------------------------------
\* FrameNavigations: loaders, paints and reasons.

\* goto assigns its loader to its navigation.
LEMMA AssignAdvances ==
  ASSUME NEW f, FrameOk(f), Plain(f), NEW n \in 1..Len(f.entries), NEW l \in Loader \cup {None},
         NoFragments => l # None, NEW g, g = AssignLoaderId(f, n, l)
  PROVE  Advances(f, g)
  <1>1. CASE l = None
    <2>1. g = [f EXCEPT !.entries[n].loader = Unassigned]
      BY <1>1 DEF AssignLoaderId
    <2>2. Unassigned \in Ids \cup {None} /\ ~NoFragments
      BY <1>1 DEF Ids
    <2> QED BY <2>1, <2>2, EntryLoaderOk
  <1>2. CASE l # None
    <2>1. l \in Ids /\ l # Unassigned
      BY <1>2, NoneIsNone DEF Ids, Loader
    <2>2. PICK m \in 0..Len(f.entries) : m = IF f.byLoader[l] = 0 THEN n ELSE f.byLoader[l]
      BY <2>1, FrameParts
    <2>3. g = Named(f, n, l, m)
      BY <1>2, <2>2 DEF AssignLoaderId, Named
    <2> QED BY <2>1, <2>2, <2>3, NamedOk DEF Advances
  <1> QED BY <1>1, <1>2

\* The paint of the document shown is recorded.
LEMMA PaintAdvances ==
  ASSUME NEW f, FrameOk(f), Plain(f), NEW url, NEW g, g = OnLargestPaint(f, url)
  PROVE  Advances(f, g)
  <1> DEFINE wanted == {e \in EntriesOf(f) :
               url \in {e.finalUrl, e.requestedUrl} /\ "HttpResponded" \in e.statuses}
  <1>1. PICK n \in 0..Len(f.entries) : n = FindMostRecentHistory(f, wanted)
    BY FindsRecent
  <1>2. PICK l : l = IF n = 0 THEN None ELSE f.entries[n].loader
    OBVIOUS
  <1>3. g = ChangeNavigationStatus(f, "ContentPaint", l)
    BY <1>1, <1>2 DEF OnLargestPaint
  <1>4. l \in Ids \cup {None} /\ (NoFragments => l # Unassigned)
    <2>1. CASE n = 0
      BY <1>2, <2>1, NoneIsNone
    <2>2. CASE n # 0
      <3>1. n \in 1..Len(f.entries)
        BY <1>1, <2>2
      <3>2. f.entries[n].loader \in Ids \cup {None}
        BY <3>1, FrameParts DEF EntryType, Ids
      <3> QED BY <1>2, <2>2, <3>1, <3>2 DEF Plain, Assigned
    <2> QED BY <2>1, <2>2
  <1>5. "ContentPaint" \in Recorded
    BY DEF Recorded
  <1> QED BY <1>3, <1>4, <1>5, ChangeEvolves DEF Advances

\* The reason of a navigation to come is stored, or that of the top set.
LEMMA ReasonAdvances ==
  ASSUME NEW f, FrameOk(f), Plain(f), NEW url \in Url, NEW reason \in {"anchorClick", "metaTagRefresh"},
         NEW g, g = UpdateNavigationReason(f, url, reason)
  PROVE  Advances(f, g)
  <1>1. PICK n : n = Top(f)
    OBVIOUS
  <1>2. CASE n # 0 /\ f.entries[n].requestedUrl = url /\ f.entries[n].reason = "newFrame"
    <2> DEFINE e == [f.entries[n] EXCEPT !.reason = reason]
    <2>1. n \in 1..Len(f.entries)
      BY <1>1, <1>2, TopOk
    <2>2. g = WithEntry(f, n, e)
      BY <1>1, <1>2, <2>1, FrameParts DEF UpdateNavigationReason, WithEntry, FrameOk, FrameType
    <2>3. f.entries[n] \in EntryType /\ Fits(f, n, f.entries[n])
      BY <2>1, FitsItself
    <2>4. e \in EntryType /\ Fits(f, n, e) /\ e.statuses = f.entries[n].statuses
      BY <2>3 DEF EntryType, Fits, Restored
    <2> HIDE DEF e
    <2>5. Evolves(f, g) /\ OnlyAt(f, g, n) /\ g.entries[n] = e
      BY ONLY FrameOk(f), Plain(f), <2>1, <2>2, <2>4, EntryEvolves
    <2>6. ~Restored(f.entries[n])
      BY <1>2 DEF Restored
    <2>7. Top(g) = Top(f) /\ g.triggers = f.triggers
      BY <2>5 DEF OnlyAt, Top
    <2>8. Seen(f) => Seen(g)
      BY <1>1, <2>4, <2>5, <2>6, <2>7, SeenStays
    <2> QED BY <2>5, <2>8 DEF Advances
  <1>3. CASE ~(n # 0 /\ f.entries[n].requestedUrl = url /\ f.entries[n].reason = "newFrame")
    <2>1. PICK s : s = [url |-> url, reason |-> reason]
      OBVIOUS
    <2>2. g = [f EXCEPT !.stored = s]
      BY <1>1, <1>3, <2>1 DEF UpdateNavigationReason
    <2>3. s \in Stored
      BY <2>1 DEF Stored
    <2>4. /\ g.entries = f.entries /\ g.history = f.history /\ g.triggers = f.triggers
          /\ g.lastHttp = f.lastHttp /\ g.byLoader = f.byLoader /\ g \in FrameType
      BY <2>2, <2>3 DEF FrameOk, FrameType
    <2>5. FrameOk(g)
      BY <2>4 DEF FrameOk
    <2>6. Evolves(f, g)
      BY <2>4, <2>5, FrameParts DEF Evolves, Plain, Assigned, FollowsBack, Grows, HasError
    <2>7. Top(g) = Top(f)
      BY <2>4 DEF Top
    <2>8. Seen(f) => Seen(g)
      BY <2>4, <2>7 DEF Seen
    <2> QED BY <2>6, <2>8 DEF Advances
  <1> QED BY <1>2, <1>3

-----------------------------------------------------------------------------
\* The triggers of waits.

\* Only the trigger of w changes, to t.
OneTrigger(f, g, w, t) ==
  /\ g.entries = f.entries /\ g.history = f.history
  /\ \A v \in Wait : g.triggers[v] = IF v = w THEN t ELSE f.triggers[v]

\* The trigger of w becomes t.
LEMMA TriggerSet ==
  ASSUME NEW f, FrameOk(f), Plain(f), NEW w \in Wait, NEW t \in AnyTrigger,
         TriggerOk(t, Len(f.entries)), NEW g, g = [f EXCEPT !.triggers[w] = t]
  PROVE  FrameOk(g) /\ Plain(g) /\ OneTrigger(f, g, w, t) /\ HasError(g) = HasError(f)
  <1>1. /\ g.entries = f.entries /\ g.history = f.history /\ g.lastHttp = f.lastHttp
        /\ g.byLoader = f.byLoader /\ g \in FrameType
        /\ \A v \in Wait : g.triggers[v] = IF v = w THEN t ELSE f.triggers[v]
    BY DEF FrameOk, FrameType
  <1>2. FrameOk(g)
    BY <1>1 DEF FrameOk
  <1> QED BY <1>1, <1>2 DEF OneTrigger, Plain, Assigned, FollowsBack, HasError

\* Waits see what they saw if the one whose trigger changed does not wait for a load status.
LEMMA SeenOne ==
  ASSUME NEW f, NEW g, NEW w, NEW t, OneTrigger(f, g, w, t), Seen(f), ~AwaitsLoad(t) \/ Top(f) = 0
  PROVE  Seen(g)
  <1>1. Top(g) = Top(f)
    BY DEF OneTrigger, Top
  <1> QED BY <1>1 DEF Seen, OneTrigger

-----------------------------------------------------------------------------
\* Lifecycle events.

\* g lists what functions F[1], F[2], ..., F[N] make of a, one after the other.
IsRun(g, a, F, N) == g[0] = a /\ \A i \in 1..N : g[i] = F[i][g[i - 1]]

\* There is such a list.
LEMMA Iterates ==
  \A A, F, a, N : a \in A /\ F \in [Nat -> [A -> A]] /\ N \in Nat
                 => \E g \in [0..N -> A] : IsRun(g, a, F, N)
  <1> SUFFICES ASSUME NEW A, NEW F \in [Nat -> [A -> A]], NEW a \in A, NEW N \in Nat
               PROVE  \E g \in [0..N -> A] : IsRun(g, a, F, N)
    OBVIOUS
  <1> DEFINE Run(n, g) == g[0] = a /\ \A i \in 1..n : g[i] = F[i][g[i - 1]]
             T == {n \in Nat : \E g \in [0..n -> A] : Run(n, g)}
  <1>1. 0 \in T
    <2> DEFINE g == [i \in 0..0 |-> a]
    <2>1. g \in [0..0 -> A] /\ Run(0, g)
      OBVIOUS
    <2> QED BY <2>1
  <1>2. ASSUME NEW n \in T PROVE n + 1 \in T
    <2>1. PICK g \in [0..n -> A] : Run(n, g)
      BY <1>2
    <2> DEFINE h == [i \in 0..n+1 |-> IF i = n + 1 THEN F[n+1][g[n]] ELSE g[i]]
    <2>2. n \in Nat /\ g[n] \in A /\ F[n+1][g[n]] \in A
      BY <1>2, <2>1
    <2>3. h \in [0..n+1 -> A]
      BY <2>2
    <2>4. h[0] = a
      BY <2>1, <2>2
    <2>5. ASSUME NEW i \in 1..n+1 PROVE h[i] = F[i][h[i - 1]]
      <3>1. CASE i = n + 1
        BY <2>2, <3>1
      <3>2. CASE i # n + 1
        BY <2>1, <2>2, <3>2
      <3> QED BY <3>1, <3>2
    <2>6. Run(n + 1, h)
      BY <2>4, <2>5
    <2> HIDE DEF h, Run
    <2> QED BY <2>2, <2>3, <2>6
  <1>3. T = Nat
    <2> HIDE DEF Run
    <2>1. T \in SUBSET Nat
      OBVIOUS
    <2> HIDE DEF T
    <2> QED BY <1>1, <1>2, <2>1, AllNumbers
  <1>4. N \in T
    BY <1>3
  <1> QED BY <1>4 DEF IsRun

\* The loaders, one by one.
LEMMA LoaderParts ==
  ASSUME TypeInv
  PROVE  /\ Len(loaders) \in Nat /\ DOMAIN loaders = 1..Len(loaders)
         /\ \A i \in DOMAIN loaders : loaders[i] \in LoaderRecord /\ loaders[i].id \in Loader
  <1>1. loaders \in Seq(LoaderRecord)
    BY DEF TypeInv, ChromeOk
  <1>2. /\ Len(loaders) \in Nat /\ DOMAIN loaders = 1..Len(loaders)
        /\ \A i \in DOMAIN loaders : loaders[i] \in LoaderRecord
    BY <1>1
  <1> QED BY <1>2 DEF LoaderRecord

\* What the statuses are told to: the loaders of moves within the document, then its own.
LEMMA LifecycleAdvances ==
  ASSUME TypeInv, HistoryOk(frame), NEW l \in Loader, NEW status \in Recorded,
         OnLifecycleEvent(l, status)
  PROVE  Advances(frame, frame')
  <1> DEFINE N == Len(loaders)
             Moved(i) == i \in MovesOf(l)
             Tell(f, i) == IF Moved(i) THEN ChangeNavigationStatus(f, status, loaders[i].id) ELSE f
             A == {f \in FrameType : Advances(frame, f)}
             Body(t) == [i \in 0..N |-> IF i = 0 THEN frame ELSE Tell(t[i - 1], i)]
             told == CHOOSE t : t = Body(t)
             F == [i \in Nat |-> [f \in A |-> Tell(f, i)]]
  <1>1. FrameOk(frame) /\ Plain(frame) /\ frame \in FrameType /\ Advances(frame, frame)
    BY AdvancesNot DEF TypeInv, HistoryOk, FrameOk
  <1>2. N \in Nat /\ \A i \in DOMAIN loaders : loaders[i].id \in Loader
    BY LoaderParts
  <1>3. ASSUME NEW f \in A, NEW i PROVE Tell(f, i) \in A
    <2>1. FrameOk(f) /\ Plain(f) /\ Advances(frame, f)
      BY <1>3 DEF Advances, Evolves
    <2>2. CASE Moved(i)
      <3>1. PICK k \in Loader : k = loaders[i].id
        BY <1>2, <2>2 DEF MovesOf
      <3>2. k \in Ids \cup {None} /\ k # Unassigned
        BY NoneIsNone DEF Ids, Loader
      <3>3. PICK g : g = ChangeNavigationStatus(f, status, k)
        OBVIOUS
      <3>4. Advances(f, g)
        BY <2>1, <3>2, <3>3, ChangeEvolves DEF Advances
      <3>5. Advances(frame, g) /\ g \in FrameType
        BY <1>1, <2>1, <3>4, AdvancesTwice DEF Advances, Evolves, FrameOk
      <3> QED BY <2>2, <3>1, <3>3, <3>5
    <2>3. CASE ~Moved(i)
      BY <2>3
    <2> QED BY <2>2, <2>3
  <1> HIDE DEF Tell, A
  <1>4. F \in [Nat -> [A -> A]] /\ frame \in A
    BY <1>1, <1>3 DEF A
  <1>5. told = Body(told)
    <2>1. PICK g \in [0..N -> A] : IsRun(g, frame, F, N)
      <3> HIDE DEF N, F
      <3> QED BY <1>2, <1>4, Iterates
    <2>2. g[0] = frame /\ \A i \in 1..N : i - 1 \in 0..N /\ i \in Nat /\ g[i] = F[i][g[i - 1]]
      <3> HIDE DEF N, F
      <3>1. g[0] = frame /\ \A i \in 1..N : g[i] = F[i][g[i - 1]]
        BY <2>1 DEF IsRun
      <3> QED BY <1>2, <3>1
    <2>3. \A i \in 1..N : g[i] = Tell(g[i - 1], i)
      <3> HIDE DEF N
      <3> QED BY <2>1, <2>2
    <2>4. g = Body(g)
      <3>1. \A i \in 0..N : g[i] = IF i = 0 THEN frame ELSE Tell(g[i - 1], i)
        BY <1>2, <2>2, <2>3
      <3> HIDE DEF N
      <3> QED BY <2>1, <3>1
    <2> HIDE DEF Body
    <2> QED BY <2>4
  <1>6. \A i \in 0..N : told[i] = IF i = 0 THEN frame ELSE Tell(told[i - 1], i)
    <2> HIDE DEF N, told
    <2> QED BY <1>5
  <1>7. frame' = ChangeNavigationStatus(told[N], status, l)
    BY DEF OnLifecycleEvent, Tell
  <1> HIDE DEF told, Body, F
  <1>8. told[N] \in A
    <2> DEFINE T == {i \in Nat : i <= N => told[i] \in A}
    <2>1. 0 \in T
      BY <1>2, <1>4, <1>6
    <2>2. ASSUME NEW i \in T PROVE i + 1 \in T
      <3>1. CASE i + 1 <= N
        <4>1. told[i] \in A /\ i + 1 \in 0..N /\ (i + 1) - 1 = i /\ i + 1 # 0
          BY <1>2, <3>1
        <4>2. told[i + 1] = Tell(told[i], i + 1)
          BY <1>6, <4>1
        <4> QED BY <1>3, <4>1, <4>2
      <3>2. CASE ~(i + 1 <= N)
        BY <3>2
      <3> QED BY <3>1, <3>2
    <2>3. T = Nat
      <3>1. T \in SUBSET Nat
        OBVIOUS
      <3> HIDE DEF T
      <3> QED BY <2>1, <2>2, <3>1, AllNumbers
    <2> QED BY <1>2, <2>3
  <1>9. PICK h : h = told[N]
    OBVIOUS
  <1>10. Advances(frame, h) /\ FrameOk(h) /\ Plain(h)
    BY <1>8, <1>9 DEF A, Advances, Evolves
  <1>11. l \in Ids \cup {None} /\ l # Unassigned
    BY NoneIsNone DEF Ids, Loader
  <1>12. Advances(h, frame')
    BY <1>7, <1>9, <1>10, <1>11, ChangeEvolves DEF Advances
  <1> QED BY <1>1, <1>10, <1>12, AdvancesTwice

-----------------------------------------------------------------------------
\* What a step makes of the frame.

\* The frame goes on, to g: it stays a frame, and no wait misses what it would have seen.
Goes(f, g) ==
  /\ FrameOk(g) /\ Plain(g) /\ ((NoFragments \/ NoRestore) /\ Seen(f) => Seen(g))
  /\ Len(f.entries) <= Len(g.entries) /\ (f.history # <<>> => g.history # <<>>)
  /\ \A w \in Wait : f.triggers[w].state = "unused" => g.triggers[w].state = "unused"

\* A frame that advances goes on, without a new error.
LEMMA AdvanceGoes == ASSUME NEW f, NEW g, Advances(f, g) PROVE Goes(f, g) /\ (HasError(g) => HasError(f))
  BY DEF Advances, Evolves, Grows, Goes

\* What is asked of the history, of the frame that goes on.
LEMMA FrameHolds ==
  ASSUME HistoryOk(frame), environment' = environment, FrameOk(frame'), Plain(frame'),
         (NoFragments \/ NoRestore) /\ Seen(frame) => Seen(frame')
  PROVE  FrameOk(frame)' /\ HistoryOk(frame)'
  <1>1. FrameOk(frame)'
    OBVIOUS
  <1>2. Plain(frame)'
    BY DEF Plain, Assigned, FollowsBack, NoFragments, NoRestore, Restored
  <1>3. Seen(frame') => Seen(frame)'
    BY DEF Seen
  <1>4. (NoFragments <=> NoFragments') /\ (NoRestore <=> NoRestore')
    BY DEF NoFragments, NoRestore
  <1> QED BY <1>1, <1>2, <1>3, <1>4 DEF HistoryOk

\* The parts of a frame that goes on.
LEMMA GoesParts ==
  ASSUME NEW f, NEW g, FrameOk(f), Goes(f, g)
  PROVE  /\ FrameOk(g) /\ Len(f.entries) \in Nat /\ Len(g.entries) \in Nat
         /\ Len(f.entries) <= Len(g.entries)
         /\ \A w \in Wait : f.triggers[w].state = "unused" => g.triggers[w].state = "unused"
  BY FrameParts DEF Goes

\* The requests, one by one, and the bounds on them.
LEMMA LoadParts ==
  ASSUME TypeInv
  PROVE  /\ loads \in Seq(Load) /\ Count \in Nat /\ DOMAIN loads = 1..Count
         /\ \A l \in DOMAIN loads : loads[l] \in Load /\ l \in Loader /\ l # 0 /\ ~InPageLoader(l)
         /\ InPageCount \in Nat /\ Count <= MaxLoads
  <1>1. loads \in Seq(Load) /\ Count \in Nat /\ DOMAIN loads = 1..Count
        /\ \A l \in DOMAIN loads : loads[l] \in Load
    BY DEF TypeInv, ChromeOk, Count
  <1>2. InPageCount \in Nat
    <2>1. DOMAIN loaders = 1..Len(loaders) /\ Len(loaders) \in Nat
      BY LoaderParts
    <2> DEFINE I == {i \in DOMAIN loaders : InPageLoader(loaders[i].id)}
    <2>2. IsFiniteSet(1..Len(loaders)) /\ I \in SUBSET (1..Len(loaders))
      BY <2>1, FS_Interval
    <2>3. IsFiniteSet(I)
      BY <2>2, FS_Subset
    <2> QED BY <2>3, FS_CardinalityType DEF InPageCount
  <1>3. IsFiniteSet(Sent)
    <2>1. IsFiniteSet(Goto) /\ Sent \in SUBSET Goto
      BY NavigationAssumption DEF Sent
    <2> QED BY <2>1, FS_Subset
  <1>4. Cardinality(Sent) \in Nat
    BY <1>3, FS_CardinalityType
  <1>5. Count <= MaxLoads /\ MaxLoads \in Nat /\ MaxInPage \in Nat
    BY <1>1, <1>4, NavigationAssumption DEF TypeInv, RoomIsKept
  <1> QED BY <1>1, <1>2, <1>5 DEF Loader, InPageLoader

\* The calls and the waits keep their form while the frame goes on.
LEMMA CallsStay ==
  ASSUME TypeInv, Goes(frame, frame'), UNCHANGED <<goto, wait, marker>>, DOMAIN loads \subseteq DOMAIN loads'
  PROVE  CallsOk'
  <1>1. FrameOk(frame)
    BY DEF TypeInv
  <1>2. /\ Len(frame.entries) \in Nat /\ Len(frame.entries)' \in Nat
        /\ Len(frame.entries) <= Len(frame.entries)'
        /\ frame.history # <<>> => frame.history' # <<>>
        /\ \A w \in Wait : frame.triggers[w].state = "unused" => frame.triggers'[w].state = "unused"
    BY <1>1, GoesParts DEF Goes
  <1>3. CallsOk
    BY DEF TypeInv
  <1> QED BY <1>2, <1>3 DEF CallsOk, Call

\* Neither goto nor the loaders of moves are touched.
LEMMA RoomStays ==
  ASSUME TypeInv, goto' = goto, Count' = Count, DOMAIN loaders' = DOMAIN loaders,
         \A i \in DOMAIN loaders : loaders'[i].id = loaders[i].id
  PROVE  RoomIsKept'
  <1>1. InPageCount' = InPageCount
    <2>1. {i \in DOMAIN loaders : InPageLoader(loaders[i].id)}' = {i \in DOMAIN loaders : InPageLoader(loaders[i].id)}
      BY DEF InPageLoader
    <2> QED BY <2>1 DEF InPageCount
  <1>2. Sent' = Sent /\ Moving' = Moving
    BY DEF Sent, Moving
  <1> QED BY <1>1, <1>2 DEF TypeInv, RoomIsKept

\* One request l goes on, to x; nothing but that and the frame changes.
Progress(l, x) ==
  /\ x \in Load /\ x.aborted = loads[l].aborted
  /\ x.stage \in {"failed", "dropped"} => x.aborted \/ loads[l].stage \in {"failed", "dropped"}
  /\ x.stage \in {"sent", "responded"} => loads[l].stage \in {"sent", "responded"}
  /\ loads[l].stage \in NotBegun => x.stage \in NotBegun

\* One request changes.
LEMMA LoadChanges ==
  ASSUME TypeInv, NEW l \in DOMAIN loads, NEW x \in Load, loads' = [loads EXCEPT ![l] = x]
  PROVE  /\ loads' \in Seq(Load) /\ Count' = Count /\ DOMAIN loads' = DOMAIN loads
         /\ \A k \in DOMAIN loads : loads'[k] = IF k = l THEN x ELSE loads[k]
  <1>1. loads \in Seq(Load) /\ l \in 1..Len(loads) /\ DOMAIN loads = 1..Len(loads)
    BY LoadParts DEF Count
  <1>2. loads' \in Seq(Load) /\ Len(loads') = Len(loads)
    BY <1>1, ExceptSeq
  <1> QED BY <1>1, <1>2 DEF Count

\* What is asked of requests still holds once l goes on.
LEMMA LoadsStay ==
  ASSUME TypeInv, LoadsOk, NEW l \in DOMAIN loads, NEW x, Progress(l, x),
         loads' = [loads EXCEPT ![l] = x], next' = next
  PROVE  LoadsOk' /\ (Aborted <=> Aborted')
  <1>1. x \in Load /\ DOMAIN loads' = DOMAIN loads
        /\ \A k \in DOMAIN loads : loads'[k] = IF k = l THEN x ELSE loads[k]
    BY LoadChanges DEF Progress
  <1>2. LoadsOk'
    BY <1>1 DEF LoadsOk, Progress
  <1>3. \A k \in DOMAIN loads : loads'[k].aborted = loads[k].aborted
    BY <1>1 DEF Progress
  <1> QED BY <1>1, <1>2, <1>3 DEF Aborted

\* The environment and the frame are as they should be.
LEMMA GoesOn ==
  ASSUME IInv, Goes(frame, frame'), UNCHANGED environment, CallsOk', RoomIsKept', ChromeOk',
         Sound', NoFragments => GotosOk'
  PROVE  IInv'
  <1>1. FrameOk(frame)' /\ HistoryOk(frame)'
    BY FrameHolds DEF IInv, Goes
  <1>2. environment' \in Environments
    BY DEF IInv, TypeInv
  <1>3. NoFragments' => NoFragments
    BY DEF NoFragments
  <1> QED BY <1>1, <1>2, <1>3 DEF IInv, TypeInv

\* A step that makes the frame go on and changes the request l into x.
LEMMA RequestGoesOn ==
  ASSUME IInv, NEW l \in DOMAIN loads, NEW x, Progress(l, x), loads' = [loads EXCEPT ![l] = x],
         Goes(frame, frame'), HasError(frame') => HasError(frame) \/ loads[l].aborted,
         UNCHANGED <<loaderVars, doc, next, docUrl, callVars>>
  PROVE  IInv'
  <1>1. /\ TypeInv /\ x \in Load /\ UNCHANGED <<loaders, activeLoader, frameUrl, goto, wait, marker>>
        /\ UNCHANGED <<doc, next, docUrl>> /\ UNCHANGED environment
    BY DEF IInv, Progress, loaderVars, callVars
  <1>2. /\ loads' \in Seq(Load) /\ Count' = Count /\ DOMAIN loads' = DOMAIN loads
        /\ \A k \in DOMAIN loads : loads'[k] = IF k = l THEN x ELSE loads[k]
    BY <1>1, LoadChanges
  <1>3. CallsOk' /\ RoomIsKept'
    BY <1>1, <1>2, CallsStay, RoomStays
  <1>4. ChromeOk'
    BY <1>1, <1>2 DEF TypeInv, ChromeOk
  <1>5. Sound' /\ (NoFragments => GotosOk')
    <2>1. FailsOk /\ LoadsOk /\ LoadersOk /\ AwaitsOk /\ (NoFragments => GotosOk)
      BY DEF IInv, Sound
    <2>2. LoadsOk' /\ (Aborted <=> Aborted')
      BY <1>1, <2>1, LoadsStay
    <2>3. FailsOk'
      <3>1. HasError(frame)' <=> HasError(frame')
        BY DEF HasError
      <3>2. loads[l].aborted => Aborted
        BY DEF Aborted
      <3> QED BY <2>1, <2>2, <3>1, <3>2 DEF FailsOk
    <2>4. LoadersOk'
      <3>1. \A k \in DOMAIN loads : /\ loads[k].stage \in NotBegun => loads'[k].stage \in NotBegun
                                    /\ loads'[k].aborted = loads[k].aborted
        BY <1>2 DEF Progress
      <3>2. \A k : HasLoader(k) <=> HasLoader(k)'
        BY <1>1 DEF HasLoader
      <3> QED BY <1>1, <1>2, <2>1, <2>2, <3>1, <3>2 DEF LoadersOk
    <2>5. AwaitsOk' /\ (NoFragments => GotosOk')
      BY <1>1, <1>2, <2>1, <2>2 DEF GotosOk, AwaitsOk, HasLoader
    <2> QED BY <2>2, <2>3, <2>4, <2>5 DEF Sound
  <1> QED BY <1>1, <1>3, <1>4, <1>5, GoesOn

-----------------------------------------------------------------------------
\* The steps of the network and the paints.

\* A request as it is.
LEMMA LoadIs ==
  ASSUME IInv, NEW l \in DOMAIN loads
  PROVE  /\ loads[l] \in Load /\ l \in Loader /\ l # 0 /\ loads[l].url \in Url /\ Base[loads[l].url] \in Url
         /\ FrameOk(frame) /\ Plain(frame) /\ TypeInv /\ marker.id \in Nat
  <1>1. TypeInv /\ FrameOk(frame) /\ Plain(frame) /\ marker.id \in Nat
    BY DEF IInv, TypeInv, HistoryOk, CallsOk
  <1>2. loads[l] \in Load /\ l \in Loader /\ l # 0
    BY <1>1, LoadParts
  <1>3. loads[l].url \in Url
    BY <1>2 DEF Load
  <1> QED BY <1>1, <1>2, <1>3, NavigationAssumption

\* A step that advances the frame and changes the request l into x.
LEMMA AdvanceGoesOn ==
  ASSUME IInv, NEW l \in DOMAIN loads, NEW x, Progress(l, x), loads' = [loads EXCEPT ![l] = x],
         Advances(frame, frame'), UNCHANGED <<loaderVars, doc, next, docUrl, callVars>>
  PROVE  IInv'
  BY AdvanceGoes, RequestGoesOn

\* The step Publishes.
LEMMA PublishesHolds == ASSUME IInv, NEW l \in DOMAIN loads, Publishes(l) PROVE IInv'
  <1> DEFINE x == [loads[l] EXCEPT !.published = TRUE]
  <1>1. Progress(l, x) /\ loads' = [loads EXCEPT ![l] = x]
    <2>1. loads[l] \in Load /\ loads' = [loads EXCEPT ![l].published = TRUE]
      BY LoadIs DEF Publishes
    <2>2. x \in Load /\ x.aborted = loads[l].aborted /\ x.stage = loads[l].stage
      BY <2>1 DEF Load
    <2> QED BY <2>1, <2>2 DEF Progress
  <1>2. Advances(frame, frame')
    BY LoadIs, RequestAdvances DEF Publishes
  <1> HIDE DEF x
  <1> QED BY <1>1, <1>2, AdvanceGoesOn DEF Publishes

\* The step Redirects.
LEMMA RedirectsHolds == ASSUME IInv, NEW l \in DOMAIN loads, NEW url \in Url, Redirects(l, url) PROVE IInv'
  <1> DEFINE from == Base[loads[l].url]
             late == "lateRequest" \in environment
             x == [loads[l] EXCEPT !.url = url, !.from = from, !.published = ~late]
  <1>1. loads' = [loads EXCEPT ![l] = x]
    <2>1. loads' = [loads EXCEPT ![l].url = url, ![l].from = from, ![l].published = ~late]
      BY DEF Redirects
    <2>2. loads \in Seq(Load) /\ loads[l] \in Load
      BY LoadIs, LoadParts
    <2> QED BY <2>1, <2>2 DEF Load
  <1>2. Progress(l, x)
    <2>1. late \in BOOLEAN /\ loads[l] \in Load /\ from \in MaybeUrl
      BY LoadIs DEF MaybeUrl
    <2> HIDE DEF late, from
    <2>2. x \in Load /\ x.aborted = loads[l].aborted /\ x.stage = loads[l].stage
      BY <2>1 DEF Load
    <2>3. x.stage \notin {"failed", "dropped"}
      BY <2>2 DEF Redirects
    <2> QED BY <2>2, <2>3 DEF Progress
  <1>3. Advances(frame, frame')
    BY LoadIs, RequestAdvances, AdvancesNot DEF Redirects
  <1> HIDE DEF x
  <1> QED BY <1>1, <1>2, <1>3, AdvanceGoesOn DEF Redirects

\* The step Responds.
LEMMA RespondsHolds == ASSUME IInv, NEW l \in DOMAIN loads, Responds(l) PROVE IInv'
  <1> DEFINE x == [loads[l] EXCEPT !.stage = "responded", !.published = TRUE]
  <1>1. loads' = [loads EXCEPT ![l] = x]
    <2>1. loads' = [loads EXCEPT ![l].stage = "responded", ![l].published = TRUE]
      BY DEF Responds
    <2>2. loads \in Seq(Load) /\ loads[l] \in Load
      BY LoadIs, LoadParts
    <2> QED BY <2>1, <2>2 DEF Load
  <1>2. Progress(l, x)
    BY LoadIs DEF Responds, Progress, Load, NotBegun
  <1>3. PICK h : h = IF loads[l].published THEN frame
                     ELSE OnResourceWillBeRequested(frame, l, loads[l].url, loads[l].from)
    OBVIOUS
  <1>4. frame' = OnHttpResponded(h, Base[loads[l].url], l)
    BY <1>3 DEF Responds
  <1>5. Advances(frame, h)
    BY <1>3, LoadIs, RequestAdvances, AdvancesNot
  <1>6. FrameOk(h) /\ Plain(h)
    BY <1>5 DEF Advances, Evolves
  <1>7. Advances(h, frame')
    BY <1>4, <1>6, LoadIs, HttpRespondedAdvances
  <1>8. Advances(frame, frame')
    BY <1>5, <1>7, LoadIs, AdvancesTwice
  <1> HIDE DEF x
  <1> QED BY <1>1, <1>2, <1>8, AdvanceGoesOn DEF Responds

\* A resource that is reported leaves the frame as it was but for the resource and its error.
LEMMA LoadedGoes ==
  ASSUME NEW f, FrameOk(f), Plain(f), NEW n \in 0..Len(f.entries), NEW resource \in ResourceType,
         resource.kind # "follows", NEW error \in BOOLEAN,
         NEW g, g = OnResourceLoaded(f, n, resource, error)
  PROVE  Goes(f, g) /\ (HasError(g) => HasError(f) \/ error)
  <1>1. /\ FrameOk(g) /\ Plain(g) /\ (Seen(f) => Seen(g))
        /\ Len(g.entries) = Len(f.entries) /\ g.history = f.history /\ g.triggers = f.triggers
        /\ HasError(g) => HasError(f) \/ error
    BY ResourceLoadedOk
  <1> QED BY <1>1, FrameParts DEF Goes

\* Two methods, one after the other.
LEMMA GoesTwice ==
  ASSUME NEW f, NEW g, NEW h, FrameOk(f), Goes(f, g), Goes(g, h)
  PROVE  Goes(f, h)
  <1>1. Len(f.entries) \in Nat /\ Len(g.entries) \in Nat /\ Len(h.entries) \in Nat
    BY FrameParts DEF Goes
  <1> QED BY <1>1 DEF Goes

\* The resource of a request is one, and follows none.
LEMMA OwnResourceIs == ASSUME NEW l \in Loader PROVE OwnResource(l) \in ResourceType /\ OwnResource(l).kind # "follows"
  BY DEF OwnResource, ResourceType, Loader

\* The step MitmResponds.
LEMMA MitmRespondsHolds == ASSUME IInv, NEW l \in DOMAIN loads, MitmResponds(l) PROVE IInv'
  <1> DEFINE x == [loads[l] EXCEPT !.mitm = TRUE]
             url == Base[loads[l].url]
  <1>0. l \in Loader /\ FrameOk(frame) /\ Plain(frame)
    BY LoadIs
  <1>1. Progress(l, x) /\ loads' = [loads EXCEPT ![l] = x]
    <2>1. loads[l] \in Load /\ loads' = [loads EXCEPT ![l].mitm = TRUE]
      BY LoadIs DEF MitmResponds
    <2>2. x \in Load /\ x.aborted = loads[l].aborted /\ x.stage = loads[l].stage
      BY <2>1 DEF Load
    <2> QED BY <2>1, <2>2 DEF Progress
  <1>2. PICK n \in 0..Len(frame.entries) : n = PendingResourceId(frame, l, url, url, None)
    BY <1>0, FindsPending
  <1>3. frame' = OnResourceLoaded(frame, n, OwnResource(l), FALSE)
    BY <1>2 DEF MitmResponds
  <1>4. Goes(frame, frame') /\ (HasError(frame') => HasError(frame))
    BY <1>0, <1>2, <1>3, OwnResourceIs, LoadedGoes
  <1> HIDE DEF x
  <1> QED BY <1>1, <1>4, RequestGoesOn DEF MitmResponds

\* The step LoadFinishes.
LEMMA LoadFinishesHolds == ASSUME IInv, NEW l \in DOMAIN loads, LoadFinishes(l) PROVE IInv'
  <1> DEFINE x == [loads[l] EXCEPT !.finished = TRUE]
             resource == [kind |-> IF loads[l].mitm THEN "request" ELSE "redirect", of |-> l]
             unknown == ~loads[l].mitm /\ loads[l].from = None
             url == Base[loads[l].url]
             Found(f, u, finalUrl) ==
               IF u = None \/ unknown THEN f
               ELSE OnResourceLoaded(f, PendingResourceId(f, l, u, finalUrl, l), resource, FALSE)
  <1>1. l \in Loader /\ FrameOk(frame) /\ Plain(frame)
    BY LoadIs
  <1>2. Progress(l, x) /\ loads' = [loads EXCEPT ![l] = x]
    <2>1. loads[l] \in Load /\ loads' = [loads EXCEPT ![l].finished = TRUE]
      BY LoadIs DEF LoadFinishes
    <2>2. x \in Load /\ x.aborted = loads[l].aborted /\ x.stage = loads[l].stage
      BY <2>1 DEF Load
    <2> QED BY <2>1, <2>2 DEF Progress
  <1>3. PICK h : h = Found(frame, loads[l].from, None)
    OBVIOUS
  <1>4. frame' = Found(h, url, url)
    BY <1>3 DEF LoadFinishes
  <1>5. resource \in ResourceType /\ resource.kind # "follows"
    BY <1>1 DEF ResourceType, Loader
  <1>6. ASSUME NEW f, FrameOk(f), Plain(f), NEW u, NEW finalUrl
        PROVE  Goes(f, Found(f, u, finalUrl)) /\ (HasError(Found(f, u, finalUrl)) => HasError(f))
    <2> HIDE DEF resource, unknown
    <2>1. CASE u = None \/ unknown
      BY <1>6, <2>1, AdvancesNot, AdvanceGoes
    <2>2. CASE ~(u = None \/ unknown)
      <3>1. PICK n \in 0..Len(f.entries) : n = PendingResourceId(f, l, u, finalUrl, l)
        BY <1>6, FindsPending
      <3>2. PICK g : g = OnResourceLoaded(f, n, resource, FALSE)
        OBVIOUS
      <3>3. Goes(f, g) /\ (HasError(g) => HasError(f))
        BY <1>5, <1>6, <3>2, LoadedGoes
      <3>4. Found(f, u, finalUrl) = g
        BY <2>2, <3>1, <3>2
      <3> QED BY <3>3, <3>4
    <2> QED BY <2>1, <2>2
  <1> HIDE DEF x, Found
  <1>7. Goes(frame, h) /\ (HasError(h) => HasError(frame))
    BY <1>1, <1>3, <1>6
  <1>8. FrameOk(h) /\ Plain(h)
    BY <1>7 DEF Goes
  <1>9. Goes(h, frame') /\ (HasError(frame') => HasError(h))
    BY <1>4, <1>6, <1>8
  <1>10. Goes(frame, frame') /\ (HasError(frame') => HasError(frame))
    BY <1>1, <1>7, <1>9, GoesTwice
  <1> QED BY <1>2, <1>10, RequestGoesOn DEF LoadFinishes

\* The step LoadFails, with a resource or dropped.
LEMMA LoadFailsHolds == ASSUME IInv, NEW l \in DOMAIN loads, LoadFails(l) PROVE IInv'
  <1> DEFINE url == Base[loads[l].url]
             finalUrl == IF loads[l].stage = "responded" THEN url ELSE None
             h == IF loads[l].published \/ Top(frame) # 0 THEN frame
                  ELSE OnNavigationRequested(frame, "newFrame", url, marker.id, l, l)
             n == PendingResourceId(h, l, url, finalUrl, None)
  <1>1. PICK seen \in BOOLEAN :
          /\ loads[l].aborted /\ loads[l].stage \notin {"failed", "dropped"}
          /\ loads' = [loads EXCEPT ![l].stage = IF seen THEN "failed" ELSE "dropped",
                                    ![l].published = TRUE]
          /\ frame' = IF seen THEN OnResourceLoaded(h, n, OwnResource(l), TRUE) ELSE h
    BY DEF LoadFails
  <1>2. /\ l \in Loader /\ FrameOk(frame) /\ Plain(frame) /\ url \in Url /\ marker.id \in Nat
        /\ loads[l] \in Load
    BY LoadIs
  <1>3. PICK stage \in {"failed", "dropped"} : stage = IF seen THEN "failed" ELSE "dropped"
    OBVIOUS
  <1> DEFINE x == [loads[l] EXCEPT !.stage = stage, !.published = TRUE]
  <1>4. loads' = [loads EXCEPT ![l] = x]
    <2>1. loads' = [loads EXCEPT ![l].stage = stage, ![l].published = TRUE]
      BY <1>1, <1>3
    <2>2. loads \in Seq(Load) /\ l \in DOMAIN loads
      BY LoadParts DEF IInv
    <2>3. [loads EXCEPT ![l].stage = stage, ![l].published = TRUE] = [loads EXCEPT ![l] = x]
      BY <1>2, <2>2 DEF Load
    <2> QED BY <2>1, <2>3
  <1>5. Progress(l, x)
    <2>1. x \in Load /\ x.stage = stage /\ x.aborted = loads[l].aborted
      BY <1>2 DEF Load
    <2> QED BY <1>1, <1>3, <2>1 DEF Progress, NotBegun
  <1>6. PICK k : k = h
    OBVIOUS
  <1>7. Advances(frame, k)
    BY <1>2, <1>6, NavigationEvolves, AdvancesNot DEF Reasons
  <1>8. FrameOk(k) /\ Plain(k) /\ Goes(frame, k) /\ (HasError(k) => HasError(frame))
    BY <1>7, AdvanceGoes DEF Goes
  <1>9. PICK m \in 0..Len(k.entries) : m = n
    BY <1>6, <1>8, FindsPending
  <1> HIDE DEF x, h, n
  <1>10. ASSUME seen PROVE Goes(frame, frame')
    <2>1. frame' = OnResourceLoaded(k, m, OwnResource(l), TRUE)
      BY <1>1, <1>6, <1>9, <1>10
    <2>2. Goes(k, frame')
      BY <1>2, <1>8, <1>9, <2>1, OwnResourceIs, LoadedGoes
    <2> QED BY <1>2, <1>8, <2>2, GoesTwice
  <1>11. Goes(frame, frame')
    BY <1>1, <1>6, <1>8, <1>10
  <1> QED BY <1>1, <1>4, <1>5, <1>11, RequestGoesOn DEF LoadFails

\* The step LargestContentfulPaint.
LEMMA LargestContentfulPaintHolds == ASSUME IInv, LargestContentfulPaint PROVE IInv'
  <1> DEFINE x == [loads[doc] EXCEPT !.painted = TRUE]
  <1>1. doc \in DOMAIN loads
    BY LoadParts DEF IInv, TypeInv, ChromeOk, LargestContentfulPaint
  <1>2. Progress(doc, x) /\ loads' = [loads EXCEPT ![doc] = x]
    <2>1. loads[doc] \in Load /\ loads' = [loads EXCEPT ![doc].painted = TRUE]
      BY <1>1, LoadIs DEF LargestContentfulPaint
    <2>2. x \in Load /\ x.aborted = loads[doc].aborted /\ x.stage = loads[doc].stage
      BY <2>1 DEF Load
    <2> QED BY <2>1, <2>2 DEF Progress
  <1>3. Advances(frame, frame')
    BY <1>1, LoadIs, PaintAdvances DEF LargestContentfulPaint
  <1> HIDE DEF x
  <1> QED BY <1>1, <1>2, <1>3, AdvanceGoesOn DEF LargestContentfulPaint

\* The step FirstContentfulPaint.
LEMMA FirstContentfulPaintHolds == ASSUME IInv, FirstContentfulPaint PROVE IInv'
  <1>1. doc \in DOMAIN loads
    BY LoadParts DEF IInv, TypeInv, ChromeOk, FirstContentfulPaint
  <1>2. FrameOk(frame) /\ Plain(frame) /\ loads[doc] \in Load
    BY <1>1, LoadIs
  <1>3. PICK n \in 0..Len(frame.entries) :
          n = FindMostRecentHistory(frame, {e \in EntriesOf(frame) : e.finalUrl = docUrl})
    BY <1>2, FindsRecent
  <1> DEFINE x == [loads[doc] EXCEPT !.ready = IF n = 0 /\ @ = "no" THEN "retry" ELSE "yes"]
  <1>4. Progress(doc, x) /\ loads' = [loads EXCEPT ![doc] = x]
    <2>1. loads' = [loads EXCEPT ![doc].ready = IF n = 0 /\ @ = "no" THEN "retry" ELSE "yes"]
      BY <1>3 DEF FirstContentfulPaint
    <2>2. x \in Load /\ x.aborted = loads[doc].aborted /\ x.stage = loads[doc].stage
      BY <1>2 DEF Load
    <2> QED BY <2>1, <2>2 DEF Progress
  <1>5. frame' = IF n = 0 \/ "JavascriptReady" \in frame.entries[n].statuses THEN frame
                 ELSE RecordStatusChange(frame, n, "JavascriptReady")
    BY <1>3 DEF FirstContentfulPaint
  <1>6. "JavascriptReady" \in Recorded /\ (n # 0 => n \in 1..Len(frame.entries))
    BY <1>3 DEF Recorded
  <1>7. Advances(frame, frame')
    BY <1>2, <1>5, <1>6, RecordEvolves, AdvancesNot DEF Advances
  <1> HIDE DEF x
  <1> QED BY <1>1, <1>4, <1>7, AdvanceGoesOn DEF FirstContentfulPaint

-----------------------------------------------------------------------------
\* The steps of the document shown.

\* A function on 1..N is a sequence.
LEMMA ListIs ==
  ASSUME NEW S, NEW N \in Nat, NEW f \in [1..N -> S]
  PROVE  f \in Seq(S) /\ Len(f) = N /\ DOMAIN f = 1..N
  <1>1. f \in Seq(S)
    BY SeqDef
  <1> QED BY <1>1, LenProperties

\* A loader is found if there is one with that id.
LEMMA PositionIs ==
  ASSUME TypeInv, NEW l
  PROVE  /\ Position(l) # 0 <=> HasLoader(l)
         /\ Position(l) # 0 => Position(l) \in DOMAIN loaders /\ LoaderOf(l).id = l /\ LoaderOf(l) \in LoaderRecord
  <1> DEFINE I == {i \in 1..Len(loaders) : loaders[i].id = l}
  <1>1. Len(loaders) \in Nat /\ DOMAIN loaders = 1..Len(loaders)
        /\ \A i \in DOMAIN loaders : loaders[i] \in LoaderRecord
    BY LoaderParts
  <1>2. Position(l) = IF I # {} THEN Min(I) ELSE 0
    BY DEF Position, SelectInSeq
  <1>3. I # {} => Min(I) \in I
    BY <1>1, LeastPosition
  <1>4. I # {} <=> HasLoader(l)
    BY <1>1 DEF HasLoader
  <1> QED BY <1>1, <1>2, <1>3, <1>4 DEF LoaderOf

\* The room is kept while the loaders of moves are the same.
LEMMA RoomSame ==
  ASSUME TypeInv, goto' = goto, Count' = Count,
         \A i : i \in DOMAIN loaders' /\ InPageLoader(loaders'[i].id)
                <=> i \in DOMAIN loaders /\ InPageLoader(loaders[i].id)
  PROVE  RoomIsKept' /\ InPageCount' = InPageCount
  <1>1. InPageCount' = InPageCount
    <2>1. {i \in DOMAIN loaders' : InPageLoader(loaders'[i].id)} = {i \in DOMAIN loaders : InPageLoader(loaders[i].id)}
      OBVIOUS
    <2> QED BY <2>1 DEF InPageCount, InPageLoader
  <1>2. Sent' = Sent /\ Moving' = Moving
    BY DEF Sent, Moving
  <1> QED BY <1>1, <1>2 DEF TypeInv, RoomIsKept

\* What a lifecycle event makes of the loaders.
LEMMA LifecycleLoaders ==
  ASSUME TypeInv, NEW l, NEW status, OnLifecycleEvent(l, status)
  PROVE  /\ loaders' \in Seq(LoaderRecord) /\ DOMAIN loaders' = DOMAIN loaders
         /\ \A i \in DOMAIN loaders : /\ loaders'[i].id = loaders[i].id /\ loaders'[i].init = loaders[i].init
                                      /\ loaders'[i].result = "error" => loaders[i].result = "error"
         /\ UNCHANGED <<activeLoader, frameUrl>>
  <1>1. PICK N \in Nat : N = Len(loaders)
    BY LoaderParts
  <1>2. DOMAIN loaders = 1..N /\ \A i \in 1..N : loaders[i] \in LoaderRecord
    BY <1>1, LoaderParts
  <1>3. DOMAIN loaders' = 1..N
    BY <1>2 DEF OnLifecycleEvent
  <1>4. ASSUME NEW i \in 1..N
        PROVE  /\ loaders'[i] \in LoaderRecord
               /\ loaders'[i].id = loaders[i].id /\ loaders'[i].init = loaders[i].init
               /\ loaders'[i].result = "error" => loaders[i].result = "error"
    <2>1. loaders[i] \in LoaderRecord /\ i \in DOMAIN loaders
      BY <1>2
    <2>2. PICK x : x = WithResult(loaders[i], "ok")
      OBVIOUS
    <2>3. /\ x \in LoaderRecord /\ x.id = loaders[i].id /\ x.init = loaders[i].init
          /\ x.result = "error" => loaders[i].result = "error"
      BY <2>1, <2>2 DEF WithResult, LoaderRecord
    <2>4. loaders'[i] = IF i \in MovesOf(l) \/ loaders[i].id = l
                          THEN [x EXCEPT !.dcl = @ \/ status = "DomContentLoaded"]
                          ELSE loaders[i]
      BY <2>1, <2>2 DEF OnLifecycleEvent
    <2>5. PICK y : y = [x EXCEPT !.dcl = @ \/ status = "DomContentLoaded"]
      OBVIOUS
    <2>6. y \in LoaderRecord /\ y.id = x.id /\ y.init = x.init /\ y.result = x.result
      BY <2>3, <2>5 DEF LoaderRecord
    <2>7. loaders'[i] = y \/ loaders'[i] = loaders[i]
      BY <2>4, <2>5
    <2> QED BY <2>1, <2>3, <2>6, <2>7
  <1>5. loaders' \in [1..N -> LoaderRecord]
    <2>1. loaders' = [i \in DOMAIN loaders' |-> loaders'[i]]
      BY DEF OnLifecycleEvent
    <2> QED BY <1>3, <1>4, <2>1
  <1>6. loaders' \in Seq(LoaderRecord)
    BY <1>5, ListIs
  <1> QED BY <1>2, <1>3, <1>4, <1>6 DEF OnLifecycleEvent

\* A lifecycle event of the document shown.
LEMMA LifecycleHolds ==
  ASSUME IInv, doc # 0, NEW stage \in {"dcl", "loaded"}, NEW status \in Recorded,
         loads[doc].stage \in {"committed", "dcl"}, loads' = [loads EXCEPT ![doc].stage = stage],
         OnLifecycleEvent(doc, status), UNCHANGED <<doc, next, docUrl, callVars>>
  PROVE  IInv'
  <1> DEFINE x == [loads[doc] EXCEPT !.stage = stage]
  <1>1. doc \in DOMAIN loads /\ TypeInv /\ HistoryOk(frame)
    BY LoadParts DEF IInv, TypeInv, ChromeOk
  <1>2. loads[doc] \in Load /\ doc \in Loader /\ FrameOk(frame)
    BY <1>1, LoadIs
  <1>3. Progress(doc, x) /\ loads' = [loads EXCEPT ![doc] = x]
    <2>1. x \in Load /\ x.aborted = loads[doc].aborted /\ x.stage = stage
      BY <1>2 DEF Load
    <2> QED BY <2>1 DEF Progress, NotBegun
  <1> HIDE DEF x
  <1>4. UNCHANGED <<goto, wait, marker>> /\ UNCHANGED environment
    BY DEF callVars
  <1>5. Goes(frame, frame') /\ (HasError(frame') => HasError(frame))
    BY <1>1, <1>2, LifecycleAdvances, AdvanceGoes
  <1>6. /\ loads' \in Seq(Load) /\ Count' = Count /\ DOMAIN loads' = DOMAIN loads
        /\ \A k \in DOMAIN loads : loads'[k] = IF k = doc THEN x ELSE loads[k]
    BY <1>1, <1>3, LoadChanges DEF Progress
  <1>7. /\ loaders' \in Seq(LoaderRecord) /\ DOMAIN loaders' = DOMAIN loaders
        /\ \A i \in DOMAIN loaders : /\ loaders'[i].id = loaders[i].id /\ loaders'[i].init = loaders[i].init
                                     /\ loaders'[i].result = "error" => loaders[i].result = "error"
        /\ UNCHANGED <<activeLoader, frameUrl>>
    BY <1>1, LifecycleLoaders
  <1>8. CallsOk' /\ RoomIsKept'
    BY <1>1, <1>4, <1>5, <1>6, <1>7, CallsStay, RoomStays
  <1>9. ChromeOk'
    <2>1. activeLoader' \in {loaders'[i].id : i \in DOMAIN loaders'}
      BY <1>1, <1>7 DEF TypeInv, ChromeOk
    <2> QED BY <1>1, <1>6, <1>7, <2>1 DEF TypeInv, ChromeOk
  <1>10. Sound' /\ (NoFragments => GotosOk')
    <2>1. FailsOk /\ LoadsOk /\ LoadersOk /\ AwaitsOk /\ (NoFragments => GotosOk)
      BY DEF IInv, Sound
    <2>2. LoadsOk' /\ (Aborted <=> Aborted')
      BY <1>1, <1>3, <2>1, LoadsStay
    <2>3. FailsOk'
      <3>1. HasError(frame)' <=> HasError(frame')
        BY DEF HasError
      <3> QED BY <1>5, <2>1, <2>2, <3>1 DEF FailsOk
    <2>4. \A k : HasLoader(k) <=> HasLoader(k)'
      BY <1>7 DEF HasLoader
    <2>5. LoadersOk'
      <3>1. \A k \in DOMAIN loads : /\ loads[k].stage \in NotBegun => loads'[k].stage \in NotBegun
                                    /\ loads'[k].aborted = loads[k].aborted
                                    /\ loads'[k].stage \notin NotBegun => loads[k].stage \notin NotBegun
        BY <1>6, <1>3 DEF Progress, NotBegun
      <3> QED BY <1>6, <1>7, <2>1, <2>2, <2>4, <3>1 DEF LoadersOk
    <2>6. AwaitsOk' /\ (NoFragments => GotosOk')
      BY <1>4, <1>6, <2>1, <2>2, <2>4 DEF GotosOk, AwaitsOk
    <2> QED BY <2>2, <2>3, <2>5, <2>6 DEF Sound
  <1> QED BY <1>4, <1>5, <1>8, <1>9, <1>10, GoesOn

\* The step DomContentLoaded.
LEMMA DomContentLoadedHolds == ASSUME IInv, DomContentLoaded PROVE IInv'
  BY LifecycleHolds DEF DomContentLoaded, Recorded

\* The step AllContentLoaded.
LEMMA AllContentLoadedHolds == ASSUME IInv, AllContentLoaded PROVE IInv'
  BY LifecycleHolds DEF AllContentLoaded, Recorded

\* The step BackForwardCacheRestore.
LEMMA BackForwardCacheRestoreHolds ==
  ASSUME IInv, NEW l \in DOMAIN loads, BackForwardCacheRestore(l)
  PROVE  IInv'
  <1>1. /\ UNCHANGED <<loaders, activeLoader, loads, next>> /\ UNCHANGED <<goto, wait, marker>>
        /\ UNCHANGED environment /\ doc' = l /\ docUrl' = loads[l].url /\ frameUrl' = loads[l].url
    BY DEF BackForwardCacheRestore, callVars
  <1>2. /\ loads[l] \in Load /\ l \in Loader /\ loads[l].url \in Url /\ FrameOk(frame) /\ Plain(frame)
        /\ TypeInv /\ marker.id \in Nat
    BY LoadIs
  <1>3. Advances(frame, frame')
    <2>1. ~NoRestore /\ "goForwardOrBack" \in Reasons
      BY DEF BackForwardCacheRestore, NoRestore, Reasons
    <2> QED BY <1>2, <2>1, NavigationEvolves DEF BackForwardCacheRestore
  <1>4. Goes(frame, frame') /\ (HasError(frame') => HasError(frame))
    BY <1>3, AdvanceGoes
  <1>5. Count' = Count
    BY <1>1 DEF Count
  <1>6. CallsOk' /\ RoomIsKept'
    BY <1>1, <1>2, <1>4, <1>5, CallsStay, RoomStays
  <1>7. ChromeOk'
    BY <1>1, <1>2, <1>5, LoadParts DEF TypeInv, ChromeOk, MaybeUrl
  <1>8. Sound' /\ (NoFragments => GotosOk')
    <2>1. FailsOk /\ LoadsOk /\ LoadersOk /\ AwaitsOk /\ (NoFragments => GotosOk)
      BY DEF IInv, Sound
    <2>2. Aborted' <=> Aborted
      BY <1>1 DEF Aborted
    <2>3. FailsOk'
      <3>1. HasError(frame)' <=> HasError(frame')
        BY DEF HasError
      <3> QED BY <1>4, <2>1, <2>2, <3>1 DEF FailsOk
    <2>4. LoadsOk' /\ LoadersOk' /\ AwaitsOk' /\ (NoFragments => GotosOk')
      BY <1>1, <2>1, <2>2 DEF LoadsOk, LoadersOk, AwaitsOk, GotosOk, HasLoader
    <2> QED BY <2>3, <2>4 DEF Sound
  <1> QED BY <1>1, <1>4, <1>6, <1>7, <1>8, GoesOn

\* A loader that was active and never began is abandoned; the one of the document begins.
LEMMA CommittedLoaders ==
  ASSUME TypeInv, NEW l \in DOMAIN loads, NEW url \in Url, Committed(l, url), NEW N, N = Len(loaders)
  PROVE  /\ loaders' \in Seq(LoaderRecord) /\ N \in Nat /\ DOMAIN loaders = 1..N
         /\ DOMAIN loaders' = IF HasLoader(l) THEN 1..N ELSE 1..N+1
         /\ \A i \in 1..N :
              /\ loaders'[i].id = loaders[i].id /\ (loaders[i].init => loaders'[i].init)
              /\ loaders[i].id = l => loaders'[i].init
              /\ loaders'[i].result = "error" =>
                   \/ loaders[i].result = "error"
                   \/ loaders[i].id = activeLoader /\ activeLoader # l /\ ~loaders[i].init
         /\ ~HasLoader(l) => /\ loaders'[N + 1].id = l /\ loaders'[N + 1].init
                             /\ loaders'[N + 1].result # "error"
         /\ activeLoader' = IF HasLoader(l) THEN activeLoader ELSE l
         /\ frameUrl' = url
  <1>1. N \in Nat /\ DOMAIN loaders = 1..N /\ (\A i \in 1..N : loaders[i] \in LoaderRecord) /\ l \in Loader
    BY LoaderParts, LoadParts
  <1>2. Position(l) = 0 <=> ~HasLoader(l)
    BY PositionIs
  <1>3. PICK a : a = [i \in DOMAIN loaders |->
          IF loaders[i].id = activeLoader /\ activeLoader # l /\ ~loaders[i].init
            THEN WithResult(loaders[i], "error") ELSE loaders[i]]
    OBVIOUS
  <1>4. PICK new : new = NewLoader(l, None)
    OBVIOUS
  <1>5. PICK b : b = IF HasLoader(l) THEN a ELSE Append(a, new)
    OBVIOUS
  <1>6. loaders' = [i \in DOMAIN b |->
          IF b[i].id = l THEN [WithResult(b[i], "ok") EXCEPT !.url = url, !.init = TRUE] ELSE b[i]]
    BY <1>2, <1>3, <1>4, <1>5 DEF Committed
  <1>7. ASSUME NEW i \in 1..N
        PROVE  /\ a[i] \in LoaderRecord /\ a[i].id = loaders[i].id /\ a[i].init = loaders[i].init
               /\ a[i].result = "error" =>
                    \/ loaders[i].result = "error"
                    \/ loaders[i].id = activeLoader /\ activeLoader # l /\ ~loaders[i].init
    BY <1>1, <1>3 DEF WithResult, LoaderRecord
  <1>8. a \in Seq(LoaderRecord) /\ Len(a) = N /\ DOMAIN a = 1..N
    <2>1. DOMAIN a = 1..N /\ a = [i \in DOMAIN a |-> a[i]]
      BY <1>1, <1>3
    <2>2. a \in [1..N -> LoaderRecord]
      BY <1>7, <2>1
    <2> QED BY <1>1, <2>2, ListIs
  <1>9. new \in LoaderRecord /\ new.id = l /\ new.result # "error"
    BY <1>1, <1>4, NoneIsNone DEF NewLoader, LoaderRecord, MaybeUrl
  <1>10. PICK M \in Nat : M = IF HasLoader(l) THEN N ELSE N + 1
    BY <1>1
  <1>11. /\ b \in Seq(LoaderRecord) /\ Len(b) = M /\ DOMAIN b = 1..M
         /\ (\A i \in 1..N : b[i] = a[i]) /\ (~HasLoader(l) => b[N + 1] = new)
    <2>1. CASE HasLoader(l)
      BY <1>5, <1>8, <1>10, <2>1
    <2>2. CASE ~HasLoader(l)
      <3>1. b = Append(a, new)
        BY <1>5, <2>2
      <3>2. /\ b \in Seq(LoaderRecord) /\ Len(b) = N + 1 /\ b[N + 1] = new
            /\ \A i \in 1..N : b[i] = a[i]
        BY <1>8, <1>9, <3>1, AppendProperties
      <3> QED BY <1>10, <2>2, <3>2
    <2> QED BY <2>1, <2>2
  <1>12. \A i \in 1..M : b[i] \in LoaderRecord
    BY <1>11
  <1>13. ASSUME NEW i \in 1..M
         PROVE  /\ loaders'[i] \in LoaderRecord /\ loaders'[i].id = b[i].id
                /\ (b[i].init => loaders'[i].init) /\ (b[i].id = l => loaders'[i].init)
                /\ loaders'[i].result = "error" => b[i].result = "error"
    <2>1. PICK x : x = WithResult(b[i], "ok")
      OBVIOUS
    <2>2. /\ x \in LoaderRecord /\ x.id = b[i].id
          /\ x.result = "error" => b[i].result = "error"
      BY <1>12, <2>1 DEF WithResult, LoaderRecord
    <2>3. PICK y : y = [x EXCEPT !.url = url, !.init = TRUE]
      OBVIOUS
    <2>4. y \in LoaderRecord /\ y.id = x.id /\ y.init = TRUE /\ y.result = x.result
      BY <2>2, <2>3 DEF LoaderRecord, MaybeUrl
    <2>5. loaders'[i] = IF b[i].id = l THEN y ELSE b[i]
      BY <1>6, <1>11, <2>1, <2>3
    <2> QED BY <1>12, <2>2, <2>4, <2>5
  <1>14. loaders' \in Seq(LoaderRecord) /\ DOMAIN loaders' = 1..M
    <2>1. DOMAIN loaders' = 1..M /\ loaders' = [i \in DOMAIN loaders' |-> loaders'[i]]
      BY <1>6, <1>11
    <2>2. loaders' \in [1..M -> LoaderRecord]
      BY <1>13, <2>1
    <2> QED BY <2>2, ListIs
  <1>15. \A i \in 1..N : i \in 1..M
    BY <1>1, <1>10
  <1>16. ~HasLoader(l) => N + 1 \in 1..M
    BY <1>1, <1>10
  <1>17. activeLoader' = (IF HasLoader(l) THEN activeLoader ELSE l) /\ frameUrl' = url
    BY <1>2 DEF Committed
  <1>18. DOMAIN loaders' = IF HasLoader(l) THEN 1..N ELSE 1..N+1
    BY <1>10, <1>14
  <1>19. \A i \in 1..N : /\ loaders'[i].id = loaders[i].id /\ (loaders[i].init => loaders'[i].init)
                         /\ loaders[i].id = l => loaders'[i].init
                         /\ loaders'[i].result = "error" =>
                              \/ loaders[i].result = "error"
                              \/ loaders[i].id = activeLoader /\ activeLoader # l /\ ~loaders[i].init
    BY <1>7, <1>11, <1>13, <1>15
  <1>20. ~HasLoader(l) => /\ loaders'[N + 1].id = l /\ loaders'[N + 1].init
                          /\ loaders'[N + 1].result # "error"
    BY <1>9, <1>11, <1>13, <1>16
  <1> QED BY <1>1, <1>14, <1>17, <1>18, <1>19, <1>20

\* The step Commits.
LEMMA CommitsHolds == ASSUME IInv, NEW l \in DOMAIN loads, Commits(l) PROVE IInv'
  <1> DEFINE x == [loads[l] EXCEPT !.stage = "committed"]
             N == Len(loaders)
  <1>1. /\ loads[l] \in Load /\ l \in Loader /\ loads[l].url \in Url /\ FrameOk(frame) /\ Plain(frame)
        /\ TypeInv
    BY LoadIs
  <1>2. /\ frame' = frame /\ UNCHANGED <<goto, wait, marker>> /\ UNCHANGED environment
        /\ doc' = l /\ next' = 0 /\ docUrl' = loads[l].url /\ Committed(l, loads[l].url)
        /\ next = l /\ loads[l].stage = "responded" /\ ~loads[l].aborted
        /\ loads' = [loads EXCEPT ![l] = x]
    BY DEF Commits, callVars, InProgress
  <1>3. x \in Load /\ x.stage = "committed" /\ x.aborted = loads[l].aborted
    BY <1>1 DEF Load
  <1> HIDE DEF x
  <1>4. /\ loads' \in Seq(Load) /\ Count' = Count /\ DOMAIN loads' = DOMAIN loads
        /\ \A k \in DOMAIN loads : loads'[k] = IF k = l THEN x ELSE loads[k]
    BY <1>1, <1>2, <1>3, LoadChanges
  <1>5. /\ loaders' \in Seq(LoaderRecord) /\ N \in Nat /\ DOMAIN loaders = 1..N
        /\ DOMAIN loaders' = IF HasLoader(l) THEN 1..N ELSE 1..N+1
        /\ \A i \in 1..N :
             /\ loaders'[i].id = loaders[i].id /\ (loaders[i].init => loaders'[i].init)
             /\ loaders[i].id = l => loaders'[i].init
             /\ loaders'[i].result = "error" =>
                  \/ loaders[i].result = "error"
                  \/ loaders[i].id = activeLoader /\ activeLoader # l /\ ~loaders[i].init
        /\ ~HasLoader(l) => /\ loaders'[N + 1].id = l /\ loaders'[N + 1].init
                            /\ loaders'[N + 1].result # "error"
        /\ activeLoader' = IF HasLoader(l) THEN activeLoader ELSE l
        /\ frameUrl' = loads[l].url
    BY <1>1, <1>2, CommittedLoaders
  <1> HIDE DEF N
  <1>6. Goes(frame, frame') /\ (HasError(frame') => HasError(frame))
    BY <1>1, <1>2, AdvancesNot, AdvanceGoes
  <1>7. ~InPageLoader(l) /\ Count \in Nat /\ DOMAIN loads = 1..Count
    BY <1>1, LoadParts
  <1>8. \A i : i \in DOMAIN loaders' <=> i \in DOMAIN loaders \/ (~HasLoader(l) /\ i = N + 1)
    BY <1>5
  <1>9. RoomIsKept'
    <2>1. \A i : i \in DOMAIN loaders' /\ InPageLoader(loaders'[i].id)
                 <=> i \in DOMAIN loaders /\ InPageLoader(loaders[i].id)
      BY <1>5, <1>7, <1>8
    <2> QED BY <1>1, <1>2, <1>4, <2>1, RoomSame
  <1>10. CallsOk'
    BY <1>1, <1>2, <1>4, <1>6, CallsStay
  <1>11. \A k : HasLoader(k)' <=> HasLoader(k) \/ k = l
    <2>1. \A k : HasLoader(k)' <=> \E i \in DOMAIN loaders' : loaders'[i].id = k
      BY DEF HasLoader
    <2>2. \A k : HasLoader(k) <=> \E i \in DOMAIN loaders : loaders[i].id = k
      BY DEF HasLoader
    <2> QED BY <1>5, <1>8, <2>1, <2>2
  <1>12. ChromeOk'
    <2>1. HasLoader(activeLoader)
      BY <1>1 DEF TypeInv, ChromeOk, HasLoader
    <2>2. \E i \in DOMAIN loaders' : loaders'[i].id = activeLoader'
      BY <1>5, <1>8, <2>1 DEF HasLoader
    <2>3. l \in 0..Count /\ 0 \in 0..Count
      BY <1>7
    <2> QED BY <1>1, <1>2, <1>4, <1>5, <2>2, <2>3 DEF ChromeOk, MaybeUrl
  <1>13. Sound' /\ (NoFragments => GotosOk')
    <2>1. FailsOk /\ LoadsOk /\ LoadersOk /\ AwaitsOk /\ (NoFragments => GotosOk)
      BY DEF IInv, Sound
    <2>2. \A k \in DOMAIN loads : loads'[k].aborted = loads[k].aborted
      BY <1>3, <1>4
    <2>3. Aborted' <=> Aborted
      BY <1>4, <2>2 DEF Aborted
    <2>4. FailsOk'
      <3>1. HasError(frame)' <=> HasError(frame')
        BY DEF HasError
      <3> QED BY <1>6, <2>1, <2>3, <3>1 DEF FailsOk
    <2>5. LoadsOk'
      BY <1>2, <1>3, <1>4, <2>1 DEF LoadsOk
    <2>6. ASSUME NEW i \in 1..N, loaders[i].id <= MaxLoads
          PROVE  /\ ~loaders'[i].init => loaders[i].id \in DOMAIN loads /\ loads'[loaders[i].id].stage \in NotBegun
                 /\ loaders'[i].result = "error" => Aborted
      <3>1. ~loaders[i].init => loaders[i].id \in DOMAIN loads /\ loads[loaders[i].id].stage \in NotBegun
        BY <1>5, <2>1, <2>6 DEF LoadersOk
      <3>2. loaders[i].result = "error" => Aborted
        BY <1>5, <2>1, <2>6 DEF LoadersOk
      <3>3. ~loaders'[i].init => ~loaders[i].init /\ loaders[i].id # l
        BY <1>5
      <3>4. ASSUME ~loaders[i].init, loaders[i].id # l PROVE Aborted
        <4>1. loads[loaders[i].id].aborted
          BY <1>2, <2>1, <3>1, <3>4 DEF LoadsOk, NotBegun
        <4> QED BY <3>1, <3>4, <4>1 DEF Aborted
      <3> QED BY <1>4, <1>5, <3>1, <3>2, <3>3, <3>4
    <2>7. LoadersOk'
      <3>1. \A k \in DOMAIN loads' : loads'[k].stage \notin NotBegun => loads'[k].aborted \/ HasLoader(k)'
        BY <1>4, <1>11, <2>1, <2>2 DEF LoadersOk
      <3>2. ASSUME NEW i \in DOMAIN loaders', loaders'[i].id <= MaxLoads
            PROVE  /\ ~loaders'[i].init => loaders'[i].id \in DOMAIN loads' /\ loads'[loaders'[i].id].stage \in NotBegun
                   /\ loaders'[i].result = "error" => Aborted'
        <4>1. CASE i \in 1..N
          BY <1>4, <1>5, <2>3, <2>6, <3>2, <4>1
        <4>2. CASE i \notin 1..N
          <5>1. ~HasLoader(l) /\ i = N + 1
            BY <1>5, <1>8, <3>2, <4>2
          <5> QED BY <1>5, <5>1
        <4> QED BY <4>1, <4>2
      <3> QED BY <3>1, <3>2 DEF LoadersOk, NotBegun
    <2>8. AwaitsOk' /\ (NoFragments => GotosOk')
      BY <1>2, <1>4, <1>11, <2>1, <2>3 DEF GotosOk, AwaitsOk
    <2> QED BY <2>4, <2>5, <2>7, <2>8 DEF Sound
  <1> QED BY <1>2, <1>6, <1>9, <1>10, <1>12, <1>13, GoesOn

-----------------------------------------------------------------------------
\* The steps of moves within the document.

\* What the bounds leave for loads and moves.
LEMMA RoomParts ==
  ASSUME TypeInv
  PROVE  /\ IsFiniteSet(Sent) /\ IsFiniteSet(Moving)
         /\ Cardinality(Sent) \in Nat /\ Cardinality(Moving) \in Nat
         /\ Count \in Nat /\ InPageCount \in Nat /\ MaxLoads \in Nat /\ MaxInPage \in Nat
         /\ Count + Cardinality(Sent) <= MaxLoads /\ InPageCount + Cardinality(Moving) <= MaxInPage
  <1>1. IsFiniteSet(Goto) /\ Sent \in SUBSET Goto /\ Moving \in SUBSET Goto
    BY NavigationAssumption DEF Sent, Moving
  <1>2. IsFiniteSet(Sent) /\ IsFiniteSet(Moving)
    BY <1>1, FS_Subset
  <1>3. Cardinality(Sent) \in Nat /\ Cardinality(Moving) \in Nat
    BY <1>2, FS_CardinalityType
  <1> QED BY <1>2, <1>3, LoadParts, NavigationAssumption DEF TypeInv, RoomIsKept

\* A navigation within the document: what becomes of the frame and of the loaders.
LEMMA WithinDocument ==
  ASSUME TypeInv, Plain(frame), NEW url \in Url, InPageCount < MaxInPage, OnNavigatedWithinDocument(url)
  PROVE  /\ Advances(frame, frame') /\ loaders' \in Seq(LoaderRecord) /\ frameUrl' \in MaybeUrl
         /\ activeLoader' \in {loaders'[i].id : i \in DOMAIN loaders'}
         /\ InPageCount' \in Nat /\ InPageCount' <= InPageCount + 1
         /\ \A i \in DOMAIN loaders : i \in DOMAIN loaders' /\ loaders'[i] = loaders[i]
         /\ \A i \in DOMAIN loaders' \ DOMAIN loaders : InPageLoader(loaders'[i].id)
  <1>1. /\ loaders \in Seq(LoaderRecord) /\ Len(loaders) \in Nat /\ DOMAIN loaders = 1..Len(loaders)
        /\ FrameOk(frame) /\ frameUrl \in MaybeUrl /\ marker.id \in Nat
        /\ activeLoader \in {loaders[i].id : i \in DOMAIN loaders}
    BY LoaderParts DEF TypeInv, ChromeOk, CallsOk
  <1>2. InPageCount \in Nat /\ MaxLoads \in Nat /\ MaxInPage \in Nat
    BY RoomParts
  <1>3. CASE frameUrl = url
    <2>1. UNCHANGED <<frame, loaders, activeLoader, frameUrl>>
      BY <1>3 DEF OnNavigatedWithinDocument, loaderVars
    <2>2. InPageCount' = InPageCount
      BY <2>1 DEF InPageCount, InPageLoader
    <2>3. Advances(frame, frame')
      BY <1>1, <2>1, AdvancesNot
    <2> QED BY <1>1, <1>2, <2>1, <2>2, <2>3
  <1>4. CASE frameUrl # url
    <2>1. PICK l : l = MaxLoads + InPageCount + 1
      OBVIOUS
    <2>2. l \in Loader /\ InPageLoader(l)
      BY <1>2, <2>1 DEF Loader, InPageLoader
    <2>3. PICK active : active = LoaderOf(activeLoader)
      OBVIOUS
    <2>4. PICK isForActiveDomain \in BOOLEAN :
            isForActiveDomain = (active.url # None /\ Origin[active.url] = Origin[url])
      OBVIOUS
    <2>5. PICK isDomLoaded \in BOOLEAN : isDomLoaded = (isForActiveDomain /\ active.dcl)
      OBVIOUS
    <2>6. PICK x : x = [NewLoader(l, url) EXCEPT !.dcl = isDomLoaded,
                                                 !.result = IF isDomLoaded THEN "ok" ELSE None]
      OBVIOUS
    <2>7. x \in LoaderRecord /\ x.id = l
      BY <2>2, <2>6 DEF NewLoader, LoaderRecord, MaybeUrl
    <2>8. /\ frameUrl' = url /\ loaders' = Append(loaders, x) /\ activeLoader' = l
          /\ frame' = IF isForActiveDomain
                        THEN OnNavigationRequested(frame, "inPage", url, marker.id, l, None)
                        ELSE frame
      BY <1>4, <2>1, <2>3, <2>4, <2>5, <2>6 DEF OnNavigatedWithinDocument
    <2>9. Advances(frame, frame')
      <3>1. "inPage" \in Reasons /\ l \in Loader \cup {None} /\ None \in Loader \cup {None}
        BY <2>2 DEF Reasons
      <3>2. isForActiveDomain => Advances(frame, frame')
        BY <1>1, <2>8, <3>1, NavigationEvolves
      <3>3. ~isForActiveDomain => Advances(frame, frame')
        BY <1>1, <2>8, AdvancesNot
      <3> QED BY <3>2, <3>3
    <2>10. PICK N \in Nat : N = Len(loaders)
      BY <1>1
    <2>11. /\ loaders' \in Seq(LoaderRecord) /\ DOMAIN loaders' = 1..N+1 /\ loaders'[N + 1] = x
           /\ (\A i \in 1..N : loaders'[i] = loaders[i]) /\ DOMAIN loaders = 1..N
      BY <1>1, <2>7, <2>8, <2>10, AppendProperties
    <2>12. InPageCount' = InPageCount + 1
      <3> DEFINE I == {i \in DOMAIN loaders : InPageLoader(loaders[i].id)}
                 J == {i \in DOMAIN loaders' : InPageLoader(loaders'[i].id)}
      <3>1. J = I \cup {N + 1} /\ N + 1 \notin I
        <4>1. N + 1 \notin 1..N /\ 1..N+1 = (1..N) \cup {N + 1}
          BY <2>10
        <4> QED BY <2>2, <2>7, <2>11, <4>1
      <3>2. IsFiniteSet(I)
        <4>1. IsFiniteSet(1..N)
          BY <2>10, FS_Interval
        <4>2. I \subseteq DOMAIN loaders /\ DOMAIN loaders = 1..N
          BY <2>11
        <4>3. I \in SUBSET (1..N)
          BY <4>2
        <4> QED BY <4>1, <4>3, FS_Subset
      <3>3. InPageCount = Cardinality(I) /\ InPageCount' = Cardinality(J)
        BY DEF InPageCount, InPageLoader
      <3> HIDE DEF I, J
      <3>4. Cardinality(I \cup {N + 1}) = Cardinality(I) + 1
        BY <3>1, <3>2, FS_AddElement
      <3> QED BY <3>1, <3>3, <3>4
    <2>13. \A i \in DOMAIN loaders' \ DOMAIN loaders : i = N + 1
      BY <2>10, <2>11
    <2>14. activeLoader' \in {loaders'[i].id : i \in DOMAIN loaders'}
      <3>1. N + 1 \in DOMAIN loaders' /\ loaders'[N + 1].id = activeLoader'
        BY <2>7, <2>8, <2>10, <2>11
      <3> QED BY <3>1
    <2>15. \A i \in 1..N : i \in 1..N+1
      BY <2>10
    <2> QED BY <1>2, <2>2, <2>7, <2>8, <2>9, <2>11, <2>12, <2>13, <2>14, <2>15 DEF MaybeUrl
  <1> QED BY <1>3, <1>4

\* What is asked of loaders and requests still holds with the loader of a move.
LEMMA WithinDocumentSound ==
  ASSUME IInv, UNCHANGED <<loads, next>>, loaders' \in Seq(LoaderRecord),
         \A i \in DOMAIN loaders : i \in DOMAIN loaders' /\ loaders'[i] = loaders[i],
         \A i \in DOMAIN loaders' \ DOMAIN loaders : InPageLoader(loaders'[i].id),
         HasError(frame') => HasError(frame)
  PROVE  FailsOk' /\ LoadsOk' /\ LoadersOk' /\ \A k : HasLoader(k) => HasLoader(k)'
  <1>1. FailsOk /\ LoadsOk /\ LoadersOk
    BY DEF IInv, Sound
  <1>2. Aborted' <=> Aborted
    BY DEF Aborted
  <1>3. FailsOk'
    <2>1. HasError(frame)' <=> HasError(frame')
      BY DEF HasError
    <2> QED BY <1>1, <1>2, <2>1 DEF FailsOk
  <1>4. \A k : HasLoader(k) => HasLoader(k)'
    BY DEF HasLoader
  <1>5. LoadersOk'
    <2>1. ASSUME NEW i \in DOMAIN loaders', loaders'[i].id <= MaxLoads
          PROVE  i \in DOMAIN loaders /\ loaders'[i] = loaders[i]
      <3>1. loaders'[i] \in LoaderRecord
        BY <2>1
      <3>2. loaders'[i].id \in Nat /\ MaxLoads \in Nat
        BY <3>1, NavigationAssumption DEF LoaderRecord, Loader
      <3>3. ~InPageLoader(loaders'[i].id)
        BY <2>1, <3>2 DEF InPageLoader
      <3> QED BY <2>1, <3>3
    <2> QED BY <1>1, <1>2, <1>4, <2>1 DEF LoadersOk, NotBegun
  <1>6. LoadsOk'
    BY <1>1 DEF LoadsOk
  <1> QED BY <1>3, <1>4, <1>5, <1>6

\* The step NavigatesWithinDocument.
LEMMA NavigatesWithinDocumentHolds ==
  ASSUME IInv, NEW url \in Url, NavigatesWithinDocument(url)
  PROVE  IInv'
  <1>1. /\ UNCHANGED <<loads, doc, next, goto, wait, marker>> /\ UNCHANGED environment
        /\ docUrl' = url /\ OnNavigatedWithinDocument(url)
    BY DEF NavigatesWithinDocument, callVars
  <1>2. TypeInv /\ FrameOk(frame) /\ Plain(frame)
    BY DEF IInv, TypeInv, HistoryOk
  <1>3. InPageCount + Cardinality(Moving) < MaxInPage
    BY DEF NavigatesWithinDocument, RoomForMove, Moving
  <1>4. InPageCount < MaxInPage
    BY <1>2, <1>3, RoomParts
  <1>5. /\ Advances(frame, frame') /\ loaders' \in Seq(LoaderRecord) /\ frameUrl' \in MaybeUrl
        /\ activeLoader' \in {loaders'[i].id : i \in DOMAIN loaders'}
        /\ InPageCount' \in Nat /\ InPageCount' <= InPageCount + 1
        /\ \A i \in DOMAIN loaders : i \in DOMAIN loaders' /\ loaders'[i] = loaders[i]
        /\ \A i \in DOMAIN loaders' \ DOMAIN loaders : InPageLoader(loaders'[i].id)
    BY <1>1, <1>2, <1>4, WithinDocument
  <1>6. Goes(frame, frame') /\ (HasError(frame') => HasError(frame))
    BY <1>5, AdvanceGoes
  <1>7. CallsOk'
    BY <1>1, <1>2, <1>6, CallsStay
  <1>8. RoomIsKept'
    <2>1. Sent' = Sent /\ Moving' = Moving /\ Count' = Count
      BY <1>1 DEF Sent, Moving, Count
    <2> QED BY <1>2, <1>3, <1>5, <2>1, RoomParts DEF RoomIsKept
  <1>9. ChromeOk'
    <2>1. Count' = Count
      BY <1>1 DEF Count
    <2> QED BY <1>1, <1>2, <1>5, <2>1 DEF TypeInv, ChromeOk, MaybeUrl
  <1>10. Sound' /\ (NoFragments => GotosOk')
    <2>1. FailsOk' /\ LoadsOk' /\ LoadersOk' /\ (\A k : HasLoader(k) => HasLoader(k)')
      BY <1>1, <1>5, <1>6, WithinDocumentSound
    <2>2. AwaitsOk' /\ (NoFragments => GotosOk')
      BY <1>1, <2>1 DEF IInv, Sound, GotosOk, AwaitsOk
    <2> QED BY <2>1, <2>2 DEF Sound
  <1> QED BY <1>1, <1>6, <1>7, <1>8, <1>9, <1>10, GoesOn

-----------------------------------------------------------------------------
\* The steps of the page and of goto.

\* A new request is made.
LEMMA RequestsOk ==
  ASSUME TypeInv, NEW url \in Url, NEW published \in BOOLEAN, Count < MaxLoads, Requests(url, published)
  PROVE  /\ loads' \in Seq(Load) /\ Count' = Count + 1 /\ next' = Count + 1 /\ UNCHANGED <<doc, docUrl>>
         /\ Count \in Nat /\ Count + 1 \in Loader
         /\ DOMAIN loads = 1..Count /\ DOMAIN loads' = 1..Count + 1
         /\ \A l \in DOMAIN loads :
              /\ l \in DOMAIN loads' /\ loads'[l].stage = loads[l].stage
              /\ loads[l].aborted \/ loads[l].stage \in {"sent", "responded"} => loads'[l].aborted
              /\ l # Count + 1
         /\ loads'[Count + 1].stage = "sent"
  <1>1. PICK N \in Nat : N = Count /\ N = Len(loads) /\ DOMAIN loads = 1..N
    BY LoadParts DEF Count
  <1>2. PICK a : a = [l \in DOMAIN loads |-> [loads[l] EXCEPT !.aborted = @ \/ InProgress(l)]]
    OBVIOUS
  <1>3. PICK new : new = [url |-> url, from |-> None, published |-> published, painted |-> FALSE,
                          ready |-> "no", mitm |-> FALSE, finished |-> FALSE, aborted |-> FALSE,
                          stage |-> "sent"]
    OBVIOUS
  <1>4. loads' = Append(a, new) /\ next' = N + 1 /\ UNCHANGED <<doc, docUrl>>
    BY <1>1, <1>2, <1>3 DEF Requests
  <1>5. ASSUME NEW l \in 1..N
        PROVE  /\ a[l] \in Load /\ a[l].stage = loads[l].stage
               /\ loads[l].aborted \/ loads[l].stage \in {"sent", "responded"} => a[l].aborted
    <2>1. loads[l] \in Load
      BY <1>1, LoadParts
    <2>2. PICK aborted \in BOOLEAN : aborted = (loads[l].aborted \/ InProgress(l))
      OBVIOUS
    <2>3. a[l] = [loads[l] EXCEPT !.aborted = aborted]
      BY <1>1, <1>2, <2>2
    <2>4. loads[l].aborted \/ loads[l].stage \in {"sent", "responded"} => aborted = TRUE
      BY <2>2 DEF InProgress
    <2> QED BY <2>1, <2>3, <2>4 DEF Load
  <1>6. a \in Seq(Load) /\ Len(a) = N
    <2>1. DOMAIN a = 1..N /\ a = [l \in DOMAIN a |-> a[l]]
      BY <1>1, <1>2
    <2>2. a \in [1..N -> Load]
      BY <1>5, <2>1
    <2> QED BY <2>2, ListIs
  <1>7. new \in Load /\ new.stage = "sent"
    BY <1>3 DEF Load, MaybeUrl
  <1>8. /\ loads' \in Seq(Load) /\ Len(loads') = N + 1 /\ loads'[N + 1] = new
        /\ \A l \in 1..N : loads'[l] = a[l]
    BY <1>4, <1>6, <1>7, AppendProperties
  <1>9. DOMAIN loads' = 1..N + 1
    BY <1>8, LenProperties
  <1>10. N + 1 \in Loader
    BY <1>1, NavigationAssumption DEF Loader
  <1>11. \A l \in 1..N : l \in 1..N+1 /\ l # N + 1
    BY <1>1
  <1> QED BY <1>1, <1>4, <1>5, <1>7, <1>8, <1>9, <1>10, <1>11 DEF Count

\* It keeps what is asked of requests and loaders: those before it are abandoned.
LEMMA RequestsKeep ==
  ASSUME TypeInv, LoadsOk, LoadersOk, NEW url \in Url, NEW published \in BOOLEAN, Count < MaxLoads,
         Requests(url, published), UNCHANGED loaders
  PROVE  LoadsOk' /\ LoadersOk' /\ (Aborted => Aborted')
  <1>1. /\ next' = Count + 1 /\ Count \in Nat /\ DOMAIN loads = 1..Count /\ DOMAIN loads' = 1..Count + 1
        /\ \A l \in DOMAIN loads :
             /\ l \in DOMAIN loads' /\ loads'[l].stage = loads[l].stage
             /\ loads[l].aborted \/ loads[l].stage \in {"sent", "responded"} => loads'[l].aborted
             /\ l # Count + 1
        /\ loads'[Count + 1].stage = "sent"
    BY RequestsOk
  <1>2. \A l \in DOMAIN loads' : l \in DOMAIN loads \/ l = Count + 1
    BY <1>1
  <1>3. Aborted => Aborted'
    BY <1>1 DEF Aborted
  <1>4. LoadsOk'
    BY <1>1, <1>2 DEF LoadsOk
  <1>5. \A k : HasLoader(k) => HasLoader(k)'
    BY DEF HasLoader
  <1>6. LoadersOk'
    BY <1>1, <1>2, <1>3, <1>5 DEF LoadersOk, NotBegun
  <1> QED BY <1>3, <1>4, <1>6

\* The step PageNavigates.
LEMMA PageNavigatesHolds == ASSUME IInv, NEW url \in Url, PageNavigates(url) PROVE IInv'
  <1>1. /\ UNCHANGED <<loaders, activeLoader, frameUrl, goto, wait, marker>> /\ UNCHANGED environment
    BY DEF PageNavigates, callVars, loaderVars
  <1>2. TypeInv /\ FrameOk(frame) /\ Plain(frame)
    BY DEF IInv, TypeInv, HistoryOk
  <1>3. PICK published \in BOOLEAN : published <=> ~("lateRequest" \in environment)
    BY Zenon
  <1>4. PICK reason \in {"anchorClick", "metaTagRefresh"} :
          reason = IF url = docUrl THEN "metaTagRefresh" ELSE "anchorClick"
    OBVIOUS
  <1>5. PICK h : h = UpdateNavigationReason(frame, url, reason)
    OBVIOUS
  <1>6. /\ Requests(url, published)
        /\ frame' = IF published THEN OnResourceWillBeRequested(h, Count + 1, url, None) ELSE h
        /\ Count + Cardinality(Sent) < MaxLoads
    <2>1. PICK p : p = ~("lateRequest" \in environment)
      OBVIOUS
    <2>2. p = published
      BY <1>3, <2>1, Zenon
    <2> QED BY <1>4, <1>5, <2>1, <2>2 DEF PageNavigates, RoomForLoad, Sent
  <1>7. Count < MaxLoads
    BY <1>2, <1>6, RoomParts
  <1>8. /\ loads' \in Seq(Load) /\ Count' = Count + 1 /\ next' = Count + 1 /\ UNCHANGED <<doc, docUrl>>
        /\ Count \in Nat /\ Count + 1 \in Loader
        /\ DOMAIN loads = 1..Count /\ DOMAIN loads' = 1..Count + 1
        /\ \A l \in DOMAIN loads : l \in DOMAIN loads'
    BY <1>2, <1>6, <1>7, RequestsOk
  <1>9. Advances(frame, h)
    BY <1>2, <1>5, ReasonAdvances
  <1>10. FrameOk(h) /\ Plain(h)
    BY <1>9 DEF Advances, Evolves
  <1>11. Advances(h, frame')
    BY <1>2, <1>6, <1>8, <1>10, RequestAdvances, AdvancesNot
  <1>12. Goes(frame, frame') /\ (HasError(frame') => HasError(frame))
    BY <1>2, <1>9, <1>11, AdvancesTwice, AdvanceGoes
  <1>13. CallsOk'
    BY <1>1, <1>2, <1>8, <1>12, CallsStay
  <1>14. RoomIsKept'
    <2>1. Sent' = Sent /\ Moving' = Moving /\ InPageCount' = InPageCount
      BY <1>1 DEF Sent, Moving, InPageCount, InPageLoader
    <2> QED BY <1>2, <1>6, <1>8, <2>1, RoomParts DEF RoomIsKept
  <1>15. ChromeOk'
    <2>1. Count + 1 \in 0..Count + 1 /\ \A l \in 0..Count : l \in 0..Count + 1
      BY <1>8
    <2> QED BY <1>1, <1>2, <1>8, <2>1 DEF TypeInv, ChromeOk
  <1>16. Sound' /\ (NoFragments => GotosOk')
    <2>1. FailsOk /\ LoadsOk /\ LoadersOk /\ AwaitsOk /\ (NoFragments => GotosOk)
      BY DEF IInv, Sound
    <2>2. LoadsOk' /\ LoadersOk' /\ (Aborted => Aborted')
      BY <1>1, <1>2, <1>6, <1>7, <2>1, RequestsKeep
    <2>3. FailsOk'
      <3>1. HasError(frame)' <=> HasError(frame')
        BY DEF HasError
      <3> QED BY <1>12, <2>1, <2>2, <3>1 DEF FailsOk
    <2>4. AwaitsOk' /\ (NoFragments => GotosOk')
      BY <1>1, <1>8, <2>1, <2>2 DEF GotosOk, AwaitsOk, HasLoader
    <2> QED BY <2>2, <2>3, <2>4 DEF Sound
  <1> QED BY <1>1, <1>12, <1>13, <1>14, <1>15, <1>16, GoesOn

\* A call c that may stand in the place of g.
CallFits(c) ==
  /\ c \in Call /\ c.entry <= Len(frame'.entries) /\ (c.moves => c.state \notin {"idle", "sent"})
  /\ c.state # "idle" => /\ c.url \in Url /\ c.entry \in 1..Len(frame'.entries) /\ frame'.history # <<>>
  /\ c.loader # None => c.loader \in DOMAIN loads'

\* One call changes into a call that fits.
LEMMA CallChanges ==
  ASSUME TypeInv, NEW g \in Goto, NEW c, CallFits(c), goto' = [goto EXCEPT ![g] = c],
         Goes(frame, frame'), DOMAIN loads \subseteq DOMAIN loads', UNCHANGED wait,
         marker' \in [id : Nat, start : Nat, wasWait : BOOLEAN]
  PROVE  CallsOk' /\ \A h \in Goto : goto'[h] = IF h = g THEN c ELSE goto[h]
  <1>1. FrameOk(frame) /\ CallsOk
    BY DEF TypeInv
  <1>2. /\ Len(frame.entries) \in Nat /\ Len(frame.entries)' \in Nat
        /\ Len(frame.entries) <= Len(frame.entries)'
        /\ frame.history # <<>> => frame.history' # <<>>
        /\ \A w \in Wait : frame.triggers[w].state = "unused" => frame.triggers'[w].state = "unused"
    BY <1>1, GoesParts DEF Goes
  <1>3. /\ goto' \in [Goto -> Call] /\ \A h \in Goto : goto'[h] = IF h = g THEN c ELSE goto[h]
    BY <1>1 DEF CallsOk, CallFits
  <1>4. ASSUME NEW h \in Goto
        PROVE  /\ goto'[h].state # "idle" => goto'[h].url \in Url
                                             /\ goto'[h].entry \in 1..Len(frame'.entries)
                                             /\ frame'.history # <<>>
               /\ goto'[h].entry <= Len(frame'.entries)
               /\ goto'[h].moves => goto'[h].state \notin {"idle", "sent"}
               /\ goto'[h].loader # None => goto'[h].loader \in DOMAIN loads'
    <2>1. CASE h = g
      BY <1>3, <2>1 DEF CallFits
    <2>2. CASE h # g
      <3>1. goto'[h] = goto[h] /\ goto[h].entry \in Nat
        BY <1>1, <1>3, <2>2 DEF CallsOk, Call
      <3> QED BY <1>1, <1>2, <3>1 DEF CallsOk
    <2> QED BY <2>1, <2>2
  <1>5. \A w \in Wait : wait'[w] = None => frame'.triggers[w].state = "unused"
    BY <1>1, <1>2 DEF CallsOk
  <1>6. wait' \in [Wait -> Wait \cup {None}]
    BY <1>1 DEF CallsOk
  <1>7. CallsOk'
    BY <1>3, <1>4, <1>5, <1>6 DEF CallsOk, Call
  <1> QED BY <1>3, <1>7

IsMoving(c) == c.moves \/ (c.state = "sent" /\ HasFragment(c.url))

\* What the change of one call makes of the room that is kept.
LEMMA RoomChanges ==
  ASSUME TypeInv, NEW g \in Goto, NEW c, \A h \in Goto : goto'[h] = IF h = g THEN c ELSE goto[h]
  PROVE  /\ Cardinality(Sent)' \in Nat /\ Cardinality(Moving)' \in Nat
         /\ Cardinality(Sent)' <= Cardinality(Sent) + 1
         /\ c.state # "sent" => Cardinality(Sent)' <= Cardinality(Sent)
         /\ c.state # "sent" /\ goto[g].state = "sent" => Cardinality(Sent)' + 1 = Cardinality(Sent)
         /\ Cardinality(Moving)' <= Cardinality(Moving) + 1
         /\ ~IsMoving(c) \/ IsMoving(goto[g]) => Cardinality(Moving)' <= Cardinality(Moving)
         /\ ~IsMoving(c) /\ IsMoving(goto[g]) => Cardinality(Moving)' + 1 = Cardinality(Moving)
  <1>1. /\ IsFiniteSet(Sent) /\ IsFiniteSet(Moving)
        /\ Cardinality(Sent) \in Nat /\ Cardinality(Moving) \in Nat
    BY RoomParts
  <1>2. PICK S : S = Sent'
    OBVIOUS
  <1>3. PICK M : M = Moving'
    OBVIOUS
  <1>4. S = (IF c.state = "sent" THEN Sent \cup {g} ELSE Sent \ {g}) /\ (g \in Sent <=> goto[g].state = "sent")
    <2>1. S = {h \in Goto : goto'[h].state = "sent"}
      BY <1>2 DEF Sent
    <2> QED BY <2>1 DEF Sent
  <1>5. M = (IF IsMoving(c) THEN Moving \cup {g} ELSE Moving \ {g}) /\ (g \in Moving <=> IsMoving(goto[g]))
    <2>1. M = {h \in Goto : IsMoving(goto'[h])}
      BY <1>3 DEF Moving, IsMoving, HasFragment
    <2>2. Moving = {h \in Goto : IsMoving(goto[h])}
      BY DEF Moving, IsMoving
    <2> QED BY <2>1, <2>2
  <1>6. /\ Cardinality(Sent \cup {g}) = IF g \in Sent THEN Cardinality(Sent) ELSE Cardinality(Sent) + 1
        /\ Cardinality(Sent \ {g}) = IF g \in Sent THEN Cardinality(Sent) - 1 ELSE Cardinality(Sent)
        /\ IsFiniteSet(Sent \cup {g}) /\ IsFiniteSet(Sent \ {g})
    BY <1>1, FS_AddElement, FS_RemoveElement
  <1>7. /\ Cardinality(Moving \cup {g}) = IF g \in Moving THEN Cardinality(Moving) ELSE Cardinality(Moving) + 1
        /\ Cardinality(Moving \ {g}) = IF g \in Moving THEN Cardinality(Moving) - 1 ELSE Cardinality(Moving)
        /\ IsFiniteSet(Moving \cup {g}) /\ IsFiniteSet(Moving \ {g})
    BY <1>1, FS_AddElement, FS_RemoveElement
  <1>8. Cardinality(S) \in Nat /\ Cardinality(M) \in Nat
    BY <1>4, <1>5, <1>6, <1>7, FS_CardinalityType
  <1>9. Cardinality(Sent)' = Cardinality(S) /\ Cardinality(Moving)' = Cardinality(M)
    BY <1>2, <1>3
  <1>10. Cardinality(S) = IF c.state = "sent"
           THEN IF goto[g].state = "sent" THEN Cardinality(Sent) ELSE Cardinality(Sent) + 1
           ELSE IF goto[g].state = "sent" THEN Cardinality(Sent) - 1 ELSE Cardinality(Sent)
    BY <1>4, <1>6
  <1>11. Cardinality(M) = IF IsMoving(c)
           THEN IF IsMoving(goto[g]) THEN Cardinality(Moving) ELSE Cardinality(Moving) + 1
           ELSE IF IsMoving(goto[g]) THEN Cardinality(Moving) - 1 ELSE Cardinality(Moving)
    BY <1>5, <1>7
  <1> HIDE DEF IsMoving
  <1> QED BY <1>1, <1>8, <1>9, <1>10, <1>11

\* What is known of a call where no address has a fragment.
CallSound(c) ==
  /\ c.state = "sent" => ~HasFragment(c.url)
  /\ c.state \notin {"idle", "sent", "failed"} => c.loader \in DOMAIN loads
  /\ ~c.moves
  /\ c.state = "loading" => c.awaits \in DOMAIN loads

\* A step of goto that makes the frame advance, and the call g into c.
LEMMA CallGoesOn ==
  ASSUME IInv, NEW g \in Goto, NEW c, CallFits(c), goto' = [goto EXCEPT ![g] = c],
         Advances(frame, frame'), UNCHANGED <<loaderVars, loads, doc, next, wait, environment>>,
         docUrl' \in MaybeUrl, marker' \in [id : Nat, start : Nat, wasWait : BOOLEAN],
         c.state = "sent" => Count + Cardinality(Sent) < MaxLoads,
         IsMoving(c) => IsMoving(goto[g]) \/ InPageCount + Cardinality(Moving) < MaxInPage,
         c.state = "loading" => HasLoader(c.awaits), NoFragments => CallSound(c)
  PROVE  IInv'
  <1>1. /\ UNCHANGED <<loaders, activeLoader, frameUrl, loads, doc, next, wait>> /\ UNCHANGED environment
        /\ TypeInv /\ DOMAIN loads \subseteq DOMAIN loads'
    BY DEF loaderVars, IInv
  <1>2. Goes(frame, frame') /\ (HasError(frame') => HasError(frame))
    BY AdvanceGoes
  <1>3. CallsOk' /\ \A h \in Goto : goto'[h] = IF h = g THEN c ELSE goto[h]
    BY <1>1, <1>2, CallChanges
  <1>4. RoomIsKept'
    <2>1. Count' = Count /\ InPageCount' = InPageCount
      BY <1>1 DEF Count, InPageCount, InPageLoader
    <2>2. /\ Cardinality(Sent)' \in Nat /\ Cardinality(Moving)' \in Nat
          /\ Cardinality(Sent)' <= Cardinality(Sent) + 1
          /\ c.state # "sent" => Cardinality(Sent)' <= Cardinality(Sent)
          /\ Cardinality(Moving)' <= Cardinality(Moving) + 1
          /\ ~IsMoving(c) \/ IsMoving(goto[g]) => Cardinality(Moving)' <= Cardinality(Moving)
      BY <1>1, <1>3, RoomChanges
    <2> HIDE DEF IsMoving
    <2>3. Count + Cardinality(Sent)' <= MaxLoads
      BY <1>1, <2>2, RoomParts
    <2>4. InPageCount + Cardinality(Moving)' <= MaxInPage
      BY <1>1, <2>2, RoomParts
    <2> QED BY <2>1, <2>3, <2>4 DEF RoomIsKept
  <1>5. ChromeOk'
    <2>1. Count' = Count
      BY <1>1 DEF Count
    <2> QED BY <1>1, <2>1 DEF TypeInv, ChromeOk, MaybeUrl
  <1>6. Sound' /\ (NoFragments => GotosOk')
    <2>1. /\ FailsOk /\ LoadsOk /\ LoadersOk /\ AwaitsOk
          /\ NoFragments => GotosOk /\ CallSound(c)
      BY DEF IInv, Sound
    <2>2. (Aborted' <=> Aborted) /\ \A k : HasLoader(k)' <=> HasLoader(k)
      BY <1>1 DEF Aborted, HasLoader
    <2>3. FailsOk'
      <3>1. HasError(frame)' <=> HasError(frame')
        BY DEF HasError
      <3> QED BY <1>2, <2>1, <2>2, <3>1 DEF FailsOk
    <2>4. LoadsOk' /\ LoadersOk'
      BY <1>1, <2>1, <2>2 DEF LoadsOk, LoadersOk
    <2>5. AwaitsOk' /\ (NoFragments => GotosOk')
      BY <1>1, <1>3, <2>1, <2>2 DEF GotosOk, AwaitsOk, CallSound, HasFragment
    <2> QED BY <2>3, <2>4, <2>5 DEF Sound
  <1> QED BY <1>1, <1>2, <1>3, <1>4, <1>5, <1>6, GoesOn

\* A call as it is.
LEMMA CallIs ==
  ASSUME IInv, NEW g \in Goto
  PROVE  /\ TypeInv /\ FrameOk(frame) /\ Plain(frame) /\ Advances(frame, frame)
         /\ goto[g] \in Call /\ marker \in [id : Nat, start : Nat, wasWait : BOOLEAN]
         /\ goto[g].state # "idle" => /\ goto[g].url \in Url /\ goto[g].entry \in 1..Len(frame.entries)
                                      /\ frame.history # <<>>
         /\ goto[g].entry <= Len(frame.entries) /\ (goto[g].moves => goto[g].state \notin {"idle", "sent"})
         /\ goto[g].loader # None => goto[g].loader \in DOMAIN loads
         /\ docUrl \in MaybeUrl
         /\ goto[g].state = "loading" => HasLoader(goto[g].awaits)
         /\ NoFragments => CallSound(goto[g])
  <1>1. TypeInv /\ FrameOk(frame) /\ Plain(frame) /\ CallsOk /\ docUrl \in MaybeUrl
    BY DEF IInv, TypeInv, HistoryOk, ChromeOk
  <1>2. Advances(frame, frame)
    BY <1>1, AdvancesNot
  <1>3. NoFragments => CallSound(goto[g])
    BY DEF IInv, GotosOk, CallSound
  <1>4. goto[g].state = "loading" => HasLoader(goto[g].awaits)
    BY DEF IInv, Sound, AwaitsOk
  <1> QED BY <1>1, <1>2, <1>3, <1>4 DEF CallsOk

\* The marker of a command is one.
LEMMA MarkIs ==
  ASSUME CallsOk, NEW action
  PROVE  IncrementMark(action) \in [id : Nat, start : Nat, wasWait : BOOLEAN]
  <1>1. marker.id + 1 \in Nat /\ marker.start \in Nat
    BY DEF CallsOk
  <1>2. PICK starts \in BOOLEAN :
          starts <=> action = "goto" \/ (action = "waitForLocation" /\ marker.wasWait)
    BY Zenon
  <1>3. PICK start : start = IF action = "goto" \/ (action = "waitForLocation" /\ marker.wasWait)
                               THEN marker.id + 1 ELSE marker.start
    OBVIOUS
  <1>4. PICK wasWait \in BOOLEAN : wasWait = (action # "goto")
    OBVIOUS
  <1>5. start \in Nat
    BY <1>1, <1>3
  <1>6. IncrementMark(action) = [id |-> marker.id + 1, start |-> start, wasWait |-> wasWait]
    BY <1>3, <1>4 DEF IncrementMark
  <1> QED BY <1>1, <1>4, <1>5, <1>6

\* The step CallsGoto.
LEMMA CallsGotoHolds == ASSUME IInv, NEW g \in Goto, NEW url \in Url, CallsGoto(g, url) PROVE IInv'
  <1>1. /\ marker' = IncrementMark("goto") /\ goto[g].state = "idle"
        /\ frame' = OnNavigationRequested(frame, "goto", url, marker'.id, None, None)
        /\ UNCHANGED <<loaderVars, loads, doc, next, wait, environment>> /\ docUrl' = docUrl
    BY DEF CallsGoto, chromeVars
  <1>2. /\ TypeInv /\ FrameOk(frame) /\ Plain(frame) /\ docUrl \in MaybeUrl /\ CallsOk
        /\ goto[g].moves => goto[g].state \notin {"idle", "sent"}
    BY CallIs DEF TypeInv
  <1>3. marker' \in [id : Nat, start : Nat, wasWait : BOOLEAN]
    BY <1>1, <1>2, MarkIs
  <1>4. Advances(frame, frame') /\ frame'.history # <<>>
    <2>1. "goto" \in Reasons /\ marker'.id \in Nat
      BY <1>3 DEF Reasons
    <2> QED BY <1>1, <1>2, <2>1, NavigationEvolves
  <1>5. FrameOk(frame')
    BY <1>4 DEF Advances, Evolves
  <1>6. PICK n : n = Top(frame')
    OBVIOUS
  <1>7. n \in 1..Len(frame'.entries) /\ Len(frame'.entries) \in Nat
    BY <1>4, <1>5, <1>6, TopOk, FrameParts
  <1>8. PICK c : c = [state |-> "sent", url |-> url, entry |-> n, loader |-> None, awaits |-> None,
                      moves |-> FALSE, during |-> UnderWay]
    OBVIOUS
  <1>9. goto' = [goto EXCEPT ![g] = c]
    BY <1>6, <1>8 DEF CallsGoto
  <1>10. /\ c \in Call /\ c.state = "sent" /\ c.url = url /\ c.entry = n /\ c.loader = None /\ c.moves = FALSE
    BY <1>7, <1>8 DEF Call, MaybeUrl, UnderWay
  <1>11. CallFits(c)
    BY <1>4, <1>7, <1>10 DEF CallFits
  <1>12. /\ Count + Cardinality(Sent) < MaxLoads
         /\ IsMoving(c) => InPageCount + Cardinality(Moving) < MaxInPage
    BY <1>10 DEF CallsGoto, RoomForLoad, RoomForMove, Sent, Moving, IsMoving
  <1>13. NoFragments => CallSound(c)
    BY <1>10 DEF CallsGoto, MayBeUsed, NoFragments, CallSound
  <1> QED BY <1>1, <1>2, <1>3, <1>4, <1>9, <1>10, <1>11, <1>12, <1>13, CallGoesOn

\* The step Navigates.
LEMMA NavigatesHolds == ASSUME IInv, NEW g \in Goto, Navigates(g) PROVE IInv'
  <1>1. /\ goto[g].state = "sent" /\ UNCHANGED <<loaderVars, wait, environment>> /\ marker' = marker
        /\ UNCHANGED <<loaders, activeLoader, frameUrl>> /\ UNCHANGED environment
    BY DEF Navigates, loaderVars
  <1>2. /\ TypeInv /\ FrameOk(frame) /\ Plain(frame) /\ Advances(frame, frame) /\ goto[g] \in Call
        /\ marker \in [id : Nat, start : Nat, wasWait : BOOLEAN]
        /\ goto[g].url \in Url /\ goto[g].entry \in 1..Len(frame.entries) /\ frame.history # <<>>
        /\ ~goto[g].moves /\ (goto[g].loader # None => goto[g].loader \in DOMAIN loads)
        /\ docUrl \in MaybeUrl /\ (NoFragments => CallSound(goto[g])) /\ Len(frame.entries) \in Nat
    BY <1>1, CallIs, FrameParts
  <1>3. CASE IsMove(goto[g].url)
    <2>1. PICK c : c = [goto[g] EXCEPT !.state = "taken", !.moves = TRUE]
      OBVIOUS
    <2>2. goto' = [goto EXCEPT ![g] = c]
      <3>1. goto' = [goto EXCEPT ![g].state = "taken", ![g].moves = TRUE]
        BY <1>3 DEF Navigates
      <3>2. goto \in [Goto -> Call]
        BY <1>2 DEF TypeInv, CallsOk
      <3> QED BY <2>1, <3>1, <3>2 DEF Call
    <2>3. /\ c \in Call /\ c.state = "taken" /\ c.url = goto[g].url /\ c.entry = goto[g].entry
          /\ c.loader = goto[g].loader /\ c.moves = TRUE
      BY <1>2, <2>1 DEF Call
    <2>4. /\ docUrl' = goto[g].url /\ UNCHANGED <<frame, loads, doc, next>> /\ HasFragment(goto[g].url)
      BY <1>3 DEF Navigates, IsMove
    <2>5. CallFits(c)
      BY <1>2, <2>3, <2>4 DEF CallFits
    <2>6. ~NoFragments
      BY <1>1, <1>2, <2>4 DEF CallSound
    <2>7. IsMoving(goto[g])
      BY <1>1, <2>4 DEF IsMoving
    <2>8. /\ Advances(frame, frame') /\ docUrl' \in MaybeUrl
          /\ marker' \in [id : Nat, start : Nat, wasWait : BOOLEAN]
      BY <1>1, <1>2, <2>4 DEF MaybeUrl
    <2> QED BY <1>1, <2>2, <2>3, <2>4, <2>5, <2>6, <2>7, <2>8, CallGoesOn
  <1>4. CASE ~IsMove(goto[g].url)
    <2>1. PICK url \in Url : url = goto[g].url
      BY <1>2
    <2>2. PICK published \in BOOLEAN : published <=> ~("lateRequest" \in environment)
      BY Zenon
    <2>3. /\ Requests(url, published)
          /\ frame' = IF published THEN OnResourceWillBeRequested(frame, Count + 1, url, None) ELSE frame
          /\ goto' = [goto EXCEPT ![g].state = "taken", ![g].loader = Count + 1]
      <3>1. PICK p : p = ~("lateRequest" \in environment)
        OBVIOUS
      <3>2. p = published
        BY <2>2, <3>1, Zenon
      <3> QED BY <1>4, <2>1, <3>1, <3>2 DEF Navigates
    <2>4. PICK c : c = [goto[g] EXCEPT !.state = "taken", !.loader = Count + 1]
      OBVIOUS
    <2>5. goto' = [goto EXCEPT ![g] = c]
      <3>1. goto \in [Goto -> Call]
        BY <1>2 DEF TypeInv, CallsOk
      <3> QED BY <2>3, <2>4, <3>1 DEF Call
    <2>6. Count < MaxLoads
      <3>1. g \in Sent /\ IsFiniteSet(Sent)
        BY <1>1, <1>2, RoomParts DEF Sent
      <3>2. Cardinality(Sent) # 0
        BY <3>1, FS_EmptySet
      <3> QED BY <1>2, <3>2, RoomParts
    <2>7. /\ loads' \in Seq(Load) /\ Count' = Count + 1 /\ next' = Count + 1 /\ UNCHANGED <<doc, docUrl>>
          /\ Count \in Nat /\ Count + 1 \in Loader
          /\ DOMAIN loads = 1..Count /\ DOMAIN loads' = 1..Count + 1
          /\ \A l \in DOMAIN loads : l \in DOMAIN loads'
      BY <1>2, <2>3, <2>6, RequestsOk
    <2>8. /\ c \in Call /\ c.state = "taken" /\ c.url = goto[g].url /\ c.entry = goto[g].entry
          /\ c.loader = Count + 1 /\ c.moves = FALSE
      BY <1>2, <2>4, <2>7 DEF Call
    <2>9. Advances(frame, frame')
      BY <1>2, <2>3, <2>7, RequestAdvances
    <2>10. Goes(frame, frame') /\ (HasError(frame') => HasError(frame))
      BY <2>9, AdvanceGoes
    <2>11. CallFits(c)
      <3>1. Len(frame'.entries) \in Nat /\ Len(frame.entries) <= Len(frame'.entries) /\ frame'.history # <<>>
        BY <1>2, <2>10, GoesParts DEF Goes
      <3>2. Count + 1 \in DOMAIN loads'
        BY <2>7
      <3> QED BY <1>2, <2>8, <3>1, <3>2 DEF CallFits
    <2>12. CallsOk' /\ \A h \in Goto : goto'[h] = IF h = g THEN c ELSE goto[h]
      BY <1>1, <1>2, <2>5, <2>7, <2>10, <2>11, CallChanges
    <2>13. RoomIsKept'
      <3>1. InPageCount' = InPageCount
        BY <1>1 DEF InPageCount, InPageLoader
      <3>2. ~IsMoving(c)
        BY <2>8 DEF IsMoving
      <3>3. /\ Cardinality(Sent)' \in Nat /\ Cardinality(Moving)' \in Nat
            /\ Cardinality(Sent)' + 1 = Cardinality(Sent) /\ Cardinality(Moving)' <= Cardinality(Moving)
        BY <1>1, <1>2, <2>8, <2>12, <3>2, RoomChanges
      <3>4. Count + 1 + Cardinality(Sent)' <= MaxLoads
        BY <1>2, <2>7, <3>3, RoomParts
      <3>5. InPageCount + Cardinality(Moving)' <= MaxInPage
        BY <1>2, <3>3, RoomParts
      <3> QED BY <2>7, <3>1, <3>4, <3>5 DEF RoomIsKept
    <2>14. ChromeOk'
      <3>1. Count + 1 \in 0..Count + 1 /\ \A l \in 0..Count : l \in 0..Count + 1
        BY <2>7
      <3> QED BY <1>1, <1>2, <2>7, <3>1 DEF TypeInv, ChromeOk
    <2>15. Sound' /\ (NoFragments => GotosOk')
      <3>1. FailsOk /\ LoadsOk /\ LoadersOk /\ AwaitsOk /\ (NoFragments => GotosOk)
        BY DEF IInv, Sound
      <3>2. LoadsOk' /\ LoadersOk' /\ (Aborted => Aborted')
        BY <1>1, <1>2, <2>3, <2>6, <3>1, RequestsKeep
      <3>3. FailsOk'
        <4>1. HasError(frame)' <=> HasError(frame')
          BY DEF HasError
        <4> QED BY <2>10, <3>1, <3>2, <4>1 DEF FailsOk
      <3>4. Count + 1 \in DOMAIN loads' /\ \A k : HasLoader(k) => HasLoader(k)'
        BY <1>1, <2>7 DEF HasLoader
      <3>5. AwaitsOk' /\ (NoFragments => GotosOk')
        BY <2>7, <2>8, <2>12, <3>1, <3>2, <3>4 DEF GotosOk, AwaitsOk, HasFragment
      <3> QED BY <3>2, <3>3, <3>5 DEF Sound
    <2> QED BY <1>1, <2>10, <2>12, <2>13, <2>14, <2>15, GoesOn
  <1> QED BY <1>3, <1>4

\* The step Moves.
LEMMA MovesHolds == ASSUME IInv, NEW g \in Goto, Moves(g) PROVE IInv'
  <1>1. /\ goto[g].moves /\ OnNavigatedWithinDocument(goto[g].url)
        /\ UNCHANGED <<loads, doc, next, docUrl, wait, marker>> /\ UNCHANGED environment
    BY DEF Moves, chromeVars
  <1>2. /\ TypeInv /\ FrameOk(frame) /\ Plain(frame) /\ goto[g] \in Call
        /\ marker \in [id : Nat, start : Nat, wasWait : BOOLEAN]
        /\ goto[g].state \notin {"idle", "sent"}
        /\ goto[g].url \in Url /\ goto[g].entry \in 1..Len(frame.entries) /\ frame.history # <<>>
        /\ (goto[g].loader # None => goto[g].loader \in DOMAIN loads)
        /\ (NoFragments => CallSound(goto[g])) /\ Len(frame.entries) \in Nat
    BY <1>1, CallIs, FrameParts
  <1>3. ~NoFragments
    BY <1>1, <1>2 DEF CallSound
  <1>4. PICK c : c = [goto[g] EXCEPT !.moves = FALSE]
    OBVIOUS
  <1>5. goto' = [goto EXCEPT ![g] = c]
    BY <1>4 DEF Moves
  <1>6. /\ c \in Call /\ c.state = goto[g].state /\ c.url = goto[g].url /\ c.entry = goto[g].entry
        /\ c.loader = goto[g].loader /\ c.moves = FALSE /\ c.awaits = goto[g].awaits
    BY <1>2, <1>4 DEF Call
  <1>7. InPageCount < MaxInPage
    <2>1. g \in Moving /\ IsFiniteSet(Moving)
      BY <1>1, <1>2, RoomParts DEF Moving
    <2>2. Cardinality(Moving) # 0
      BY <2>1, FS_EmptySet
    <2> QED BY <1>2, <2>2, RoomParts
  <1>8. /\ Advances(frame, frame') /\ loaders' \in Seq(LoaderRecord) /\ frameUrl' \in MaybeUrl
        /\ activeLoader' \in {loaders'[i].id : i \in DOMAIN loaders'}
        /\ InPageCount' \in Nat /\ InPageCount' <= InPageCount + 1
        /\ \A i \in DOMAIN loaders : i \in DOMAIN loaders' /\ loaders'[i] = loaders[i]
        /\ \A i \in DOMAIN loaders' \ DOMAIN loaders : InPageLoader(loaders'[i].id)
    BY <1>1, <1>2, <1>7, WithinDocument
  <1>9. Goes(frame, frame') /\ (HasError(frame') => HasError(frame))
    BY <1>8, AdvanceGoes
  <1>10. CallFits(c)
    <2>1. Len(frame'.entries) \in Nat /\ Len(frame.entries) <= Len(frame'.entries) /\ frame'.history # <<>>
      BY <1>2, <1>9, GoesParts DEF Goes
    <2> QED BY <1>1, <1>2, <1>6, <2>1 DEF CallFits
  <1>11. CallsOk' /\ \A h \in Goto : goto'[h] = IF h = g THEN c ELSE goto[h]
    BY <1>1, <1>2, <1>5, <1>9, <1>10, CallChanges
  <1>12. RoomIsKept'
    <2>1. Count' = Count
      BY <1>1 DEF Count
    <2>2. ~IsMoving(c) /\ IsMoving(goto[g]) /\ c.state # "sent"
      BY <1>1, <1>2, <1>6 DEF IsMoving
    <2>3. /\ Cardinality(Sent)' \in Nat /\ Cardinality(Moving)' \in Nat
          /\ Cardinality(Sent)' <= Cardinality(Sent) /\ Cardinality(Moving)' + 1 = Cardinality(Moving)
      BY <1>2, <1>11, <2>2, RoomChanges
    <2>4. Count + Cardinality(Sent)' <= MaxLoads
      BY <1>2, <2>3, RoomParts
    <2>5. InPageCount' + Cardinality(Moving)' <= MaxInPage
      <3>1. /\ InPageCount \in Nat /\ MaxInPage \in Nat /\ Cardinality(Moving) \in Nat
            /\ InPageCount + Cardinality(Moving) <= MaxInPage
        BY <1>2, RoomParts
      <3>2. \A a, b, i, j, m \in Nat : a <= i + 1 /\ b + 1 = j /\ i + j <= m => a + b <= m
        OBVIOUS
      <3> QED BY ONLY <1>8, <2>3, <3>1, <3>2
    <2> QED BY <2>1, <2>4, <2>5 DEF RoomIsKept
  <1>13. ChromeOk'
    <2>1. Count' = Count
      BY <1>1 DEF Count
    <2> QED BY <1>1, <1>2, <1>8, <2>1 DEF TypeInv, ChromeOk, MaybeUrl
  <1>14. Sound'
    <2>1. FailsOk' /\ LoadsOk' /\ LoadersOk' /\ (\A k : HasLoader(k) => HasLoader(k)')
      BY <1>1, <1>8, <1>9, WithinDocumentSound
    <2>2. AwaitsOk'
      BY <1>6, <1>11, <2>1 DEF IInv, Sound, AwaitsOk
    <2> QED BY <2>1, <2>2 DEF Sound
  <1> QED BY <1>1, <1>3, <1>9, <1>11, <1>12, <1>13, <1>14, GoesOn

\* The frame takes over the loader of the document that Page.navigate has answered with.
LEMMA SetLoaderOk ==
  ASSUME TypeInv, NEW l \in DOMAIN loads, NEW url \in Url, SetLoader(l, url)
  PROVE  /\ loaders' \in Seq(LoaderRecord) /\ HasLoader(l)'
         /\ activeLoader' \in {loaders'[i].id : i \in DOMAIN loaders'}
         /\ \A i \in DOMAIN loaders : i \in DOMAIN loaders' /\ loaders'[i] = loaders[i]
         /\ \A i \in DOMAIN loaders' \ DOMAIN loaders :
              ~HasLoader(l) /\ loaders'[i].id = l /\ loaders'[i].result # "error"
  <1>1. /\ loaders \in Seq(LoaderRecord) /\ activeLoader \in {loaders[i].id : i \in DOMAIN loaders}
        /\ l \in Loader
    BY LoadParts DEF TypeInv, ChromeOk
  <1>2. Position(l) = 0 <=> ~HasLoader(l)
    BY PositionIs
  <1>3. CASE HasLoader(l)
    <2>1. loaders' = loaders /\ activeLoader' = activeLoader
      BY <1>2, <1>3 DEF SetLoader
    <2> QED BY <1>1, <1>3, <2>1 DEF HasLoader
  <1>4. CASE ~HasLoader(l)
    <2>1. PICK x : x = NewLoader(l, url)
      OBVIOUS
    <2>2. x \in LoaderRecord /\ x.id = l /\ x.result # "error"
      BY <1>1, <2>1, NoneIsNone DEF NewLoader, LoaderRecord, MaybeUrl
    <2>3. loaders' = Append(loaders, x) /\ activeLoader' = l
      BY <1>2, <1>4, <2>1 DEF SetLoader
    <2>4. PICK N \in Nat : N = Len(loaders) /\ DOMAIN loaders = 1..N
      BY LoaderParts
    <2>5. /\ loaders' \in Seq(LoaderRecord) /\ DOMAIN loaders' = 1..N+1 /\ loaders'[N + 1] = x
          /\ \A i \in 1..N : loaders'[i] = loaders[i]
      BY <1>1, <2>2, <2>3, <2>4, AppendProperties
    <2>6. /\ \A i \in 1..N : i \in 1..N+1
          /\ \A i \in (1..N+1) \ (1..N) : i = N + 1
          /\ N + 1 \in 1..N+1
      BY <2>4
    <2>7. activeLoader' \in {loaders'[i].id : i \in DOMAIN loaders'}
      BY <2>2, <2>3, <2>5, <2>6
    <2>8. HasLoader(l)'
      BY <2>2, <2>5, <2>6 DEF HasLoader
    <2> QED BY <1>4, <2>2, <2>4, <2>5, <2>6, <2>7, <2>8
  <1> QED BY <1>3, <1>4

\* The step Answers.
LEMMA AnswersHolds == ASSUME IInv, NEW g \in Goto, Answers(g) PROVE IInv'
  <1>1. /\ goto[g].state = "taken" /\ UNCHANGED <<frame, loads, doc, next, docUrl, wait, marker>>
        /\ UNCHANGED environment
    BY DEF Answers, chromeVars
  <1>2. /\ TypeInv /\ FrameOk(frame) /\ Plain(frame) /\ Advances(frame, frame) /\ goto[g] \in Call
        /\ marker \in [id : Nat, start : Nat, wasWait : BOOLEAN]
        /\ goto[g].url \in Url /\ goto[g].entry \in 1..Len(frame.entries) /\ frame.history # <<>>
        /\ (goto[g].loader # None => goto[g].loader \in DOMAIN loads)
        /\ docUrl \in MaybeUrl /\ (NoFragments => CallSound(goto[g])) /\ goto[g].entry <= Len(frame.entries)
    BY <1>1, CallIs, FrameParts
  <1>3. ASSUME NEW c \in Call, c.state \in {"loading", "failed"}, c.url = goto[g].url, c.entry = goto[g].entry,
               c.loader = goto[g].loader, c.moves = goto[g].moves
        PROVE  CallFits(c) /\ (IsMoving(c) => IsMoving(goto[g])) /\ c.state # "sent"
    BY <1>1, <1>2, <1>3 DEF CallFits, IsMoving
  <1>4. PICK l : l = goto[g].loader
    OBVIOUS
  <1>5. CASE l = None
    <2>1. PICK c : c = [goto[g] EXCEPT !.state = "loading", !.awaits = activeLoader]
      OBVIOUS
    <2>2. goto' = [goto EXCEPT ![g] = c] /\ UNCHANGED loaderVars
      <3>1. goto' = [goto EXCEPT ![g].state = "loading", ![g].awaits = activeLoader] /\ UNCHANGED loaderVars
        BY <1>4, <1>5 DEF Answers
      <3>2. goto \in [Goto -> Call]
        BY <1>2 DEF TypeInv, CallsOk
      <3> QED BY <2>1, <3>1, <3>2 DEF Call
    <2>3. activeLoader \in Loader
      BY <1>2, LoaderParts DEF TypeInv, ChromeOk
    <2>4. /\ c \in Call /\ c.state = "loading" /\ c.url = goto[g].url /\ c.entry = goto[g].entry
          /\ c.loader = goto[g].loader /\ c.moves = goto[g].moves /\ c.awaits = activeLoader
      BY <1>2, <2>1, <2>3 DEF Call
    <2>5. CallFits(c) /\ (IsMoving(c) => IsMoving(goto[g])) /\ c.state # "sent"
      BY <1>3, <2>4
    <2>6. ~NoFragments
      <3>1. None \notin DOMAIN loads
        BY <1>2, LoadParts, NoneIsNone
      <3> QED BY <1>1, <1>2, <1>4, <1>5, <3>1 DEF CallSound
    <2>7. HasLoader(c.awaits)
      BY <1>2, <2>4 DEF TypeInv, ChromeOk, HasLoader
    <2> QED BY <1>1, <1>2, <2>2, <2>5, <2>6, <2>7, CallGoesOn
  <1>6. CASE l # None /\ loads[l].aborted
    <2>1. PICK c : c = [goto[g] EXCEPT !.state = "failed"]
      OBVIOUS
    <2>2. goto' = [goto EXCEPT ![g] = c] /\ UNCHANGED loaderVars
      BY <1>4, <1>6, <2>1 DEF Answers
    <2>3. /\ c \in Call /\ c.state = "failed" /\ c.url = goto[g].url /\ c.entry = goto[g].entry
          /\ c.loader = goto[g].loader /\ c.moves = goto[g].moves
      BY <1>2, <2>1 DEF Call
    <2>4. CallFits(c) /\ (IsMoving(c) => IsMoving(goto[g])) /\ c.state # "sent"
      BY <1>3, <2>3
    <2>5. NoFragments => CallSound(c)
      BY <1>2, <2>3 DEF CallSound
    <2> QED BY <1>1, <1>2, <2>2, <2>3, <2>4, <2>5, CallGoesOn
  <1>7. CASE l # None /\ ~loads[l].aborted
    <2>1. PICK c : c = [goto[g] EXCEPT !.state = "loading", !.awaits = l]
      OBVIOUS
    <2>2. /\ goto' = [goto EXCEPT ![g] = c] /\ SetLoader(l, goto[g].url) /\ UNCHANGED frameUrl
      <3>1. /\ goto' = [goto EXCEPT ![g].state = "loading", ![g].awaits = l]
            /\ SetLoader(l, goto[g].url) /\ UNCHANGED frameUrl
        BY <1>4, <1>7 DEF Answers
      <3>2. goto \in [Goto -> Call]
        BY <1>2 DEF TypeInv, CallsOk
      <3> QED BY <2>1, <3>1, <3>2 DEF Call
    <2>3. l \in DOMAIN loads /\ l \in Loader /\ ~InPageLoader(l)
      BY <1>2, <1>4, <1>7, LoadParts
    <2>4. /\ c \in Call /\ c.state = "loading" /\ c.url = goto[g].url /\ c.entry = goto[g].entry
          /\ c.loader = l /\ c.loader = goto[g].loader /\ c.moves = goto[g].moves /\ c.awaits = l
      BY <1>2, <1>4, <2>1, <2>3 DEF Call
    <2>5. CallFits(c) /\ (IsMoving(c) => IsMoving(goto[g])) /\ c.state # "sent"
      BY <1>3, <2>4
    <2>6. /\ loaders' \in Seq(LoaderRecord) /\ HasLoader(l)'
          /\ activeLoader' \in {loaders'[i].id : i \in DOMAIN loaders'}
          /\ \A i \in DOMAIN loaders : i \in DOMAIN loaders' /\ loaders'[i] = loaders[i]
          /\ \A i \in DOMAIN loaders' \ DOMAIN loaders :
               ~HasLoader(l) /\ loaders'[i].id = l /\ loaders'[i].result # "error"
      BY <1>2, <2>2, <2>3, SetLoaderOk
    <2>7. Goes(frame, frame') /\ (HasError(frame') => HasError(frame))
      BY <1>1, <1>2, AdvanceGoes
    <2>8. CallsOk' /\ \A h \in Goto : goto'[h] = IF h = g THEN c ELSE goto[h]
      BY <1>1, <1>2, <2>2, <2>5, <2>7, CallChanges
    <2>9. RoomIsKept'
      <3>1. InPageCount' = InPageCount
        <4>1. {i \in DOMAIN loaders' : InPageLoader(loaders'[i].id)} = {i \in DOMAIN loaders : InPageLoader(loaders[i].id)}
          BY <2>3, <2>6
        <4> QED BY <4>1 DEF InPageCount, InPageLoader
      <3>2. Count' = Count
        BY <1>1 DEF Count
      <3>3. /\ Cardinality(Sent)' \in Nat /\ Cardinality(Moving)' \in Nat
            /\ Cardinality(Sent)' <= Cardinality(Sent) /\ Cardinality(Moving)' <= Cardinality(Moving)
        BY <1>2, <2>5, <2>8, RoomChanges
      <3>4. Count + Cardinality(Sent)' <= MaxLoads
        BY <1>2, <3>3, RoomParts
      <3>5. InPageCount + Cardinality(Moving)' <= MaxInPage
        BY <1>2, <3>3, RoomParts
      <3> QED BY <3>1, <3>2, <3>4, <3>5 DEF RoomIsKept
    <2>10. ChromeOk'
      <3>1. Count' = Count
        BY <1>1 DEF Count
      <3> QED BY <1>1, <1>2, <2>2, <2>6, <3>1 DEF TypeInv, ChromeOk
    <2>11. Sound' /\ (NoFragments => GotosOk')
      <3>1. FailsOk /\ LoadsOk /\ LoadersOk /\ AwaitsOk /\ (NoFragments => GotosOk)
        BY DEF IInv, Sound
      <3>2. Aborted' <=> Aborted
        BY <1>1 DEF Aborted
      <3>3. FailsOk'
        <4>1. HasError(frame)' <=> HasError(frame')
          BY DEF HasError
        <4> QED BY <2>7, <3>1, <3>2, <4>1 DEF FailsOk
      <3>4. \A k : HasLoader(k) => HasLoader(k)'
        BY <2>6 DEF HasLoader
      <3>5. ~HasLoader(l) => loads[l].stage \in NotBegun
        BY <1>7, <2>3, <3>1 DEF LoadersOk
      <3>6. LoadersOk'
        <4>1. ASSUME NEW i \in DOMAIN loaders', loaders'[i].id <= MaxLoads
              PROVE  /\ ~loaders'[i].init => loaders'[i].id \in DOMAIN loads' /\ loads'[loaders'[i].id].stage \in NotBegun
                     /\ loaders'[i].result = "error" => Aborted'
          <5>1. CASE i \in DOMAIN loaders
            BY <1>1, <2>6, <3>1, <3>2, <4>1, <5>1 DEF LoadersOk
          <5>2. CASE i \notin DOMAIN loaders
            BY <1>1, <2>3, <2>6, <3>5, <4>1, <5>2
          <5> QED BY <5>1, <5>2
        <4>2. \A k \in DOMAIN loads' : loads'[k].stage \notin NotBegun => loads'[k].aborted \/ HasLoader(k)'
          BY <1>1, <3>1, <3>4 DEF LoadersOk
        <4> QED BY <4>1, <4>2 DEF LoadersOk, NotBegun
      <3>7. LoadsOk'
        BY <1>1, <3>1 DEF LoadsOk
      <3>8. AwaitsOk' /\ (NoFragments => GotosOk')
        BY <1>1, <2>3, <2>4, <2>6, <2>8, <3>1, <3>2, <3>4 DEF GotosOk, AwaitsOk, HasFragment
      <3> QED BY <3>3, <3>6, <3>7, <3>8 DEF Sound
    <2> QED BY <1>1, <2>7, <2>8, <2>9, <2>10, <2>11, GoesOn
  <1> QED BY <1>5, <1>6, <1>7

\* The step LoaderIsComplete.
LEMMA LoaderIsCompleteHolds == ASSUME IInv, NEW g \in Goto, LoaderIsComplete(g) PROVE IInv'
  <1>1. /\ goto[g].state = "loading" /\ UNCHANGED <<loaderVars, loads, doc, next, docUrl, wait, marker, environment>>
        /\ LoaderOf(goto[g].awaits).result # None
    BY DEF LoaderIsComplete, chromeVars
  <1>2. /\ TypeInv /\ FrameOk(frame) /\ Plain(frame) /\ Advances(frame, frame) /\ goto[g] \in Call
        /\ marker \in [id : Nat, start : Nat, wasWait : BOOLEAN]
        /\ goto[g].url \in Url /\ goto[g].entry \in 1..Len(frame.entries) /\ frame.history # <<>>
        /\ (goto[g].loader # None => goto[g].loader \in DOMAIN loads)
        /\ docUrl \in MaybeUrl /\ (NoFragments => CallSound(goto[g])) /\ goto[g].entry <= Len(frame.entries)
        /\ Len(frame.entries) \in Nat
    BY <1>1, CallIs, FrameParts
  <1>3. CASE LoaderOf(goto[g].awaits).result = "error"
    <2>1. PICK c : c = [goto[g] EXCEPT !.state = "failed"]
      OBVIOUS
    <2>2. goto' = [goto EXCEPT ![g] = c] /\ frame' = frame
      BY <1>3, <2>1 DEF LoaderIsComplete
    <2>3. /\ c \in Call /\ c.state = "failed" /\ c.url = goto[g].url /\ c.entry = goto[g].entry
          /\ c.loader = goto[g].loader /\ c.moves = goto[g].moves
      BY <1>2, <2>1 DEF Call
    <2>4. CallFits(c)
      BY <1>1, <1>2, <2>2, <2>3 DEF CallFits
    <2>5. (IsMoving(c) => IsMoving(goto[g])) /\ c.state # "sent"
      BY <1>1, <2>3 DEF IsMoving
    <2>6. NoFragments => CallSound(c)
      BY <1>2, <2>3 DEF CallSound
    <2>7. UNCHANGED <<loaderVars, loads, doc, next, wait, environment>>
      BY <1>1
    <2>8. Advances(frame, frame') /\ docUrl' \in MaybeUrl /\ marker' \in [id : Nat, start : Nat, wasWait : BOOLEAN]
      BY <1>1, <1>2, <2>2
    <2> QED BY <2>2, <2>3, <2>4, <2>5, <2>6, <2>7, <2>8, CallGoesOn
  <1>4. CASE LoaderOf(goto[g].awaits).result # "error"
    <2>1. PICK n : n = Top(frame)
      OBVIOUS
    <2>2. n \in 1..Len(frame.entries)
      BY <1>2, <2>1, TopOk
    <2>3. PICK c : c = [goto[g] EXCEPT !.state = "resource", !.entry = n]
      OBVIOUS
    <2>4. /\ goto' = [goto EXCEPT ![g] = c]
          /\ frame' = AssignLoaderId(frame, goto[g].entry, goto[g].loader)
      <3>1. /\ goto' = [goto EXCEPT ![g].state = "resource", ![g].entry = n]
            /\ frame' = AssignLoaderId(frame, goto[g].entry, goto[g].loader)
        BY <1>4, <2>1 DEF LoaderIsComplete
      <3>2. goto \in [Goto -> Call]
        BY <1>2 DEF TypeInv, CallsOk
      <3> QED BY <2>3, <3>1, <3>2 DEF Call
    <2>5. /\ c \in Call /\ c.state = "resource" /\ c.url = goto[g].url /\ c.entry = n
          /\ c.loader = goto[g].loader /\ c.moves = goto[g].moves
      <3>1. n \in Nat
        BY <1>2, <2>2
      <3>2. /\ c.state = "resource" /\ c.url = goto[g].url /\ c.entry = n
            /\ c.loader = goto[g].loader /\ c.moves = goto[g].moves
        BY <1>2, <2>3 DEF Call
      <3>3. "resource" \in {"idle", "sent", "taken", "loading", "resource", "done", "failed"}
        OBVIOUS
      <3> QED BY <1>2, <2>3, <3>1, <3>2, <3>3 DEF Call
    <2>6. Advances(frame, frame')
      <3>1. goto[g].loader \in Loader \cup {None}
        BY <1>2 DEF Call
      <3>2. NoFragments => goto[g].loader # None
        <4>1. None \notin DOMAIN loads
          BY <1>2, LoadParts, NoneIsNone
        <4> QED BY <1>1, <1>2, <4>1 DEF CallSound
      <3> QED BY <1>2, <2>4, <3>1, <3>2, AssignAdvances
    <2>7. CallFits(c)
      <3>1. Goes(frame, frame')
        BY <2>6, AdvanceGoes
      <3>2. Len(frame'.entries) \in Nat /\ Len(frame.entries) <= Len(frame'.entries) /\ frame'.history # <<>>
        BY <1>2, <3>1, GoesParts DEF Goes
      <3> QED BY <1>1, <1>2, <2>2, <2>5, <3>2 DEF CallFits
    <2>8. (IsMoving(c) => IsMoving(goto[g])) /\ c.state # "sent"
      BY <1>1, <2>5 DEF IsMoving
    <2>9. NoFragments => CallSound(c)
      BY <1>1, <1>2, <2>5 DEF CallSound
    <2>10. docUrl' \in MaybeUrl /\ marker' \in [id : Nat, start : Nat, wasWait : BOOLEAN]
      BY <1>1, <1>2
    <2>11. UNCHANGED <<loaderVars, loads, doc, next, wait, environment>>
      BY <1>1
    <2> QED BY <2>4, <2>5, <2>6, <2>7, <2>8, <2>9, <2>10, <2>11, CallGoesOn
  <1> QED BY <1>3, <1>4

\* What the promise of the navigation n has come to, if f has what earlier ones have come to.
OutcomeFrom(f, n) ==
  IF n = 0 \/ ResourceOf(n).kind \notin {"unresolved", "follows"} THEN "resolved"
  ELSE IF ResourceOf(n).kind = "unresolved" THEN "pending"
  ELSE IF ResourceOf(n).of < n THEN f[ResourceOf(n).of] ELSE "rejected"
Outcome == {"resolved", "pending", "rejected"}

\* Each navigation has an outcome.
LEMMA OutcomeIs ==
  ASSUME FrameOk(frame)
  PROVE  \A n \in Entry : ResourceOutcome[n] = OutcomeFrom(ResourceOutcome, n)
  <1> DEFINE Holds(f, n) == \A k \in 0..n : f[k] = OutcomeFrom(f, k)
             T == {n \in Nat : n <= Len(frame.entries) => \E f \in [0..n -> Outcome] : Holds(f, n)}
  <1>1. Len(frame.entries) \in Nat
    BY FrameParts
  <1>2. \A n \in 1..Len(frame.entries) : ResourceOf(n).of \in Nat
    BY FrameParts DEF EntryType, ResourceOf
  <1>3. ASSUME NEW n \in 1..Len(frame.entries), NEW f, NEW h, \A j \in 0..n - 1 : h[j] = f[j]
        PROVE  OutcomeFrom(h, n) = OutcomeFrom(f, n)
    <2>1. ResourceOf(n).of < n => h[ResourceOf(n).of] = f[ResourceOf(n).of]
      BY <1>2, <1>3
    <2> QED BY <2>1 DEF OutcomeFrom
  <1>4. \A f : OutcomeFrom(f, 0) = "resolved"
    BY DEF OutcomeFrom
  <1>5. 0 \in T
    <2> DEFINE f == [k \in 0..0 |-> "resolved"]
    <2>1. f \in [0..0 -> Outcome] /\ Holds(f, 0)
      BY <1>4 DEF Outcome
    <2> QED BY <2>1
  <1>6. ASSUME NEW n \in T PROVE n + 1 \in T
    <2>1. CASE n + 1 <= Len(frame.entries)
      <3>1. PICK f \in [0..n -> Outcome] : Holds(f, n)
        BY <1>1, <1>6, <2>1
      <3>2. n + 1 \in 1..Len(frame.entries) /\ n \in Nat
        BY <1>1, <1>6, <2>1
      <3>3. PICK o : o = OutcomeFrom(f, n + 1)
        OBVIOUS
      <3>4. o \in Outcome
        <4>1. ResourceOf(n + 1).of \in Nat
          BY <1>2, <3>2
        <4>2. ResourceOf(n + 1).of < n + 1 => f[ResourceOf(n + 1).of] \in Outcome
          BY <3>1, <3>2, <4>1
        <4> QED BY <3>2, <3>3, <4>2 DEF OutcomeFrom, Outcome
      <3> DEFINE h == [k \in 0..n+1 |-> IF k = n + 1 THEN o ELSE f[k]]
      <3>5. h \in [0..n+1 -> Outcome]
        BY <3>1, <3>2, <3>4
      <3>6. (\A k \in 0..n : h[k] = f[k]) /\ h[n + 1] = o
        BY <3>2
      <3> HIDE DEF h
      <3>7. ASSUME NEW k \in 0..n+1 PROVE h[k] = OutcomeFrom(h, k)
        <4>1. CASE k = n + 1
          <5>1. \A j \in 0..(n + 1) - 1 : h[j] = f[j]
            BY <3>2, <3>6
          <5>2. OutcomeFrom(h, n + 1) = OutcomeFrom(f, n + 1)
            BY <1>3, <3>2, <5>1
          <5> QED BY <3>3, <3>6, <4>1, <5>2
        <4>2. CASE k # n + 1 /\ k # 0
          <5>1. k \in 1..Len(frame.entries) /\ k \in 0..n
            BY <1>1, <3>2, <4>2
          <5>2. \A j \in 0..k - 1 : h[j] = f[j]
            BY <3>2, <3>6, <5>1
          <5>3. OutcomeFrom(h, k) = OutcomeFrom(f, k)
            BY <1>3, <5>1, <5>2
          <5> QED BY <3>1, <3>6, <5>1, <5>3
        <4>3. CASE k = 0
          <5>1. 0 \in 0..n
            BY <3>2
          <5> QED BY <1>4, <3>1, <3>6, <4>3, <5>1
        <4> QED BY <4>1, <4>2, <4>3
      <3> QED BY <3>2, <3>5, <3>7
    <2>2. CASE ~(n + 1 <= Len(frame.entries))
      BY <2>2
    <2> QED BY <2>1, <2>2
  <1>7. T = Nat
    <2>1. T \in SUBSET Nat
      OBVIOUS
    <2> HIDE DEF T
    <2> QED BY <1>5, <1>6, <2>1, AllNumbers
  <1>8. PICK f \in [Entry -> Outcome] : \A k \in Entry : f[k] = OutcomeFrom(f, k)
    BY <1>1, <1>7 DEF Entry
  <1> DEFINE Body(f0) == [k \in Entry |-> OutcomeFrom(f0, k)]
  <1>9. f = Body(f)
    BY <1>8
  <1>10. ResourceOutcome = CHOOSE f0 : f0 = Body(f0)
    BY DEF ResourceOutcome, OutcomeFrom
  <1>11. ResourceOutcome = Body(ResourceOutcome)
    <2> HIDE DEF Body
    <2> QED BY <1>9, <1>10
  <1> QED BY <1>11

\* Without fragments no promise of a resource is rejected: none follows itself.
LEMMA NoneRejected ==
  ASSUME FrameOk(frame), FollowsBack(frame), NEW n \in Entry
  PROVE  ResourceOutcome[n] # "rejected"
  <1> DEFINE T == {m \in Nat : \A k \in 0..m : k \in Entry => ResourceOutcome[k] # "rejected"}
  <1>1. Len(frame.entries) \in Nat
    BY FrameParts
  <1>2. ResourceOutcome[0] # "rejected"
    BY <1>1, OutcomeIs DEF Entry, OutcomeFrom
  <1>3. ASSUME NEW m \in T, m + 1 \in Entry PROVE ResourceOutcome[m + 1] # "rejected"
    <2>1. m + 1 \in 1..Len(frame.entries)
      BY <1>1, <1>3 DEF Entry
    <2>2. PICK r : r = ResourceOf(m + 1)
      OBVIOUS
    <2>3. r.of \in Nat /\ (r.kind = "follows" => r.of < m + 1)
      BY <2>1, <2>2, FrameParts DEF EntryType, FollowsBack, ResourceOf
    <2>4. r.kind = "follows" => ResourceOutcome[r.of] # "rejected"
      BY <1>1, <1>3, <2>1, <2>3 DEF Entry
    <2>5. ResourceOutcome[m + 1] = OutcomeFrom(ResourceOutcome, m + 1)
      BY <1>3, OutcomeIs
    <2> QED BY <2>1, <2>2, <2>3, <2>4, <2>5 DEF OutcomeFrom
  <1>4. 0 \in T
    BY <1>2
  <1>5. \A m \in T : m + 1 \in T
    BY <1>3
  <1>6. T = Nat
    <2>1. T \in SUBSET Nat
      OBVIOUS
    <2> HIDE DEF T
    <2> QED BY <1>4, <1>5, <2>1, AllNumbers
  <1>7. n \in Nat /\ n \in 0..n
    BY <1>1 DEF Entry
  <1> QED BY <1>6, <1>7

\* The step GotoReturns.
LEMMA GotoReturnsHolds == ASSUME IInv, NEW g \in Goto, GotoReturns(g) PROVE IInv'
  <1>1. /\ goto[g].state = "resource"
        /\ UNCHANGED <<frame, loaderVars, loads, doc, next, docUrl, wait, marker, environment>>
    BY DEF GotoReturns, chromeVars
  <1>2. /\ TypeInv /\ FrameOk(frame) /\ Plain(frame) /\ Advances(frame, frame) /\ goto[g] \in Call
        /\ marker \in [id : Nat, start : Nat, wasWait : BOOLEAN]
        /\ goto[g].url \in Url /\ goto[g].entry \in 1..Len(frame.entries) /\ frame.history # <<>>
        /\ (goto[g].loader # None => goto[g].loader \in DOMAIN loads)
        /\ docUrl \in MaybeUrl /\ (NoFragments => CallSound(goto[g])) /\ goto[g].entry <= Len(frame.entries)
        /\ Len(frame.entries) \in Nat
    BY <1>1, CallIs, FrameParts
  <1>3. PICK n : n = goto[g].entry
    OBVIOUS
  <1>4. PICK state \in {"done", "failed"} :
          state = IF ResourceOutcome[n] = "rejected" \/ frame.entries[n].error THEN "failed" ELSE "done"
    OBVIOUS
  <1>5. PICK c : c = [goto[g] EXCEPT !.state = state]
    OBVIOUS
  <1>6. goto' = [goto EXCEPT ![g] = c]
    BY <1>3, <1>4, <1>5 DEF GotoReturns
  <1>7. /\ c \in Call /\ c.state = state /\ c.url = goto[g].url /\ c.entry = goto[g].entry
        /\ c.loader = goto[g].loader /\ c.moves = goto[g].moves
    BY <1>2, <1>4, <1>5 DEF Call
  <1>8. CallFits(c)
    BY <1>1, <1>2, <1>7 DEF CallFits
  <1>9. (IsMoving(c) => IsMoving(goto[g])) /\ c.state # "sent"
    BY <1>1, <1>7 DEF IsMoving
  <1>10. NoFragments => CallSound(c)
    BY <1>1, <1>2, <1>7 DEF CallSound
  <1>11. /\ Advances(frame, frame') /\ docUrl' \in MaybeUrl
         /\ marker' \in [id : Nat, start : Nat, wasWait : BOOLEAN]
    BY <1>1, <1>2
  <1>12. UNCHANGED <<loaderVars, loads, doc, next, wait, environment>>
    BY <1>1
  <1> QED BY <1>6, <1>7, <1>8, <1>9, <1>10, <1>11, <1>12, CallGoesOn

-----------------------------------------------------------------------------
\* The waits.

Mark == [id : Nat, start : Nat, wasWait : BOOLEAN]

\* A step of a wait, which changes nothing but triggers, goes on.
LEMMA WaitGoesOn ==
  ASSUME IInv, FrameOk(frame'), Plain(frame'), HasError(frame') => HasError(frame),
         (NoFragments \/ NoRestore) /\ Seen(frame) => Seen(frame'),
         frame'.entries = frame.entries, frame'.history = frame.history,
         UNCHANGED <<loaderVars, chromeVars, goto, environment>>,
         marker' \in Mark, wait' \in [Wait -> Wait \cup {None}],
         \A v \in Wait : wait'[v] = None => frame'.triggers[v].state = "unused"
  PROVE  IInv'
  <1>1. /\ UNCHANGED <<loaders, activeLoader, frameUrl, loads, doc, next, docUrl, goto>>
        /\ environment' = environment /\ TypeInv /\ HistoryOk(frame)
    BY DEF loaderVars, chromeVars, IInv
  <1>2. FrameOk(frame)' /\ HistoryOk(frame)'
    BY <1>1, FrameHolds
  <1>3. CallsOk'
    BY <1>1 DEF TypeInv, CallsOk, Mark, Call
  <1>4. RoomIsKept'
    <2>1. Count' = Count
      BY <1>1 DEF Count
    <2> QED BY <1>1, <2>1, RoomStays
  <1>5. ChromeOk'
    <2>1. Count' = Count
      BY <1>1 DEF Count
    <2> QED BY <1>1, <2>1 DEF TypeInv, ChromeOk
  <1>6. Sound' /\ (NoFragments => GotosOk')
    <2>1. FailsOk /\ LoadsOk /\ LoadersOk /\ AwaitsOk /\ (NoFragments => GotosOk)
      BY DEF IInv, Sound
    <2>2. (Aborted' <=> Aborted) /\ \A k : HasLoader(k)' <=> HasLoader(k)
      BY <1>1 DEF Aborted, HasLoader
    <2>3. HasError(frame)' <=> HasError(frame')
      BY DEF HasError
    <2>4. FailsOk'
      BY <2>1, <2>2, <2>3 DEF FailsOk
    <2>5. LoadsOk' /\ LoadersOk'
      BY <1>1, <2>1, <2>2 DEF LoadsOk, LoadersOk
    <2>6. AwaitsOk' /\ (NoFragments => GotosOk')
      BY <1>1, <2>1, <2>2 DEF GotosOk, AwaitsOk
    <2> QED BY <2>4, <2>5, <2>6 DEF Sound
  <1>7. (NoFragments' => NoFragments) /\ environment' \in Environments
    BY <1>1 DEF NoFragments, TypeInv
  <1> QED BY <1>2, <1>3, <1>4, <1>5, <1>6, <1>7 DEF IInv, TypeInv

\* What a wait finds: a wait without a trigger has one of its own that is unused.
LEMMA WaitIs ==
  ASSUME IInv
  PROVE  /\ FrameOk(frame) /\ Plain(frame) /\ CallsOk /\ marker \in Mark
         /\ wait \in [Wait -> Wait \cup {None}]
         /\ \A v \in Wait : /\ frame.triggers[v] \in AnyTrigger
                            /\ TriggerOk(frame.triggers[v], Len(frame.entries))
                            /\ wait[v] = None => frame.triggers[v].state = "unused"
  <1>1. FrameOk(frame) /\ Plain(frame) /\ CallsOk
    BY DEF IInv, TypeInv, HistoryOk
  <1> QED BY <1>1, FrameParts DEF CallsOk, Mark, FrameOk

\* The trigger of one wait w becomes t, which does not wait for a load status.
LEMMA TriggerGoesOn ==
  ASSUME IInv, NEW w \in Wait, NEW t \in AnyTrigger, TriggerOk(t, Len(frame.entries)),
         ~AwaitsLoad(t) \/ Top(frame) = 0, frame' = [frame EXCEPT !.triggers[w] = t],
         UNCHANGED <<loaderVars, chromeVars, goto, environment>>,
         marker' \in Mark, wait' \in [Wait -> Wait \cup {None}],
         \A v \in Wait : wait'[v] = None => wait[v] = None /\ v # w
  PROVE  IInv'
  <1>1. /\ FrameOk(frame') /\ Plain(frame') /\ OneTrigger(frame, frame', w, t)
        /\ HasError(frame') => HasError(frame)
    BY WaitIs, TriggerSet
  <1>2. Seen(frame) => Seen(frame')
    BY <1>1, SeenOne
  <1>3. \A v \in Wait : wait'[v] = None => frame'.triggers[v].state = "unused"
    BY <1>1, WaitIs DEF OneTrigger
  <1> QED BY <1>1, <1>2, <1>3, WaitGoesOn DEF OneTrigger

\* The step TriggerTimesOut.
LEMMA TriggerTimesOutHolds == ASSUME IInv, NEW w \in Wait, TriggerTimesOut(w) PROVE IInv'
  <1>1. /\ frame.triggers[w].listed /\ frame.triggers[w].state = "pending"
        /\ frame' = [frame EXCEPT !.triggers[w].state = "timedOut"]
        /\ UNCHANGED <<loaderVars, chromeVars, goto, environment, wait, marker>>
    BY DEF TriggerTimesOut, callVars
  <1>2. PICK t : t = [frame.triggers[w] EXCEPT !.state = "timedOut"]
    OBVIOUS
  <1>3. t \in AnyTrigger /\ TriggerOk(t, Len(frame.entries)) /\ ~AwaitsLoad(t)
    BY <1>1, <1>2, WaitIs DEF AnyTrigger, TriggerOk, AwaitsLoad
  <1>4. frame' = [frame EXCEPT !.triggers[w] = t]
    BY <1>1, <1>2
  <1>5. /\ marker' \in Mark /\ wait' \in [Wait -> Wait \cup {None}]
        /\ \A v \in Wait : wait'[v] = None => wait[v] = None /\ v # w
    BY <1>1, WaitIs
  <1> QED BY <1>1, <1>3, <1>4, <1>5, TriggerGoesOn

\* The step StableTimer.
LEMMA StableTimerHolds == ASSUME IInv, NEW w \in Wait, StableTimer(w) PROVE IInv'
  <1>1. /\ frame.triggers[w].timer
        /\ frame' = [frame EXCEPT !.triggers[w] = ResolvePendingTrigger(@, Top(frame))]
        /\ UNCHANGED <<loaderVars, chromeVars, goto, environment, wait, marker>>
    BY DEF StableTimer, callVars
  <1>2. PICK n : n = Top(frame)
    OBVIOUS
  <1>3. n \in Nat /\ n <= Len(frame.entries)
    BY <1>2, WaitIs, TopOk, FrameParts
  <1>4. PICK old : old = frame.triggers[w]
    OBVIOUS
  <1>5. /\ old \in AnyTrigger /\ TriggerOk(old, Len(frame.entries)) /\ old.timer
        /\ old.state # "unused"
    BY <1>1, <1>4, WaitIs DEF TriggerOk
  <1>6. PICK t : t = ResolvePendingTrigger(old, n)
    OBVIOUS
  <1>7. t \in AnyTrigger /\ TriggerOk(t, Len(frame.entries)) /\ ~AwaitsLoad(t)
    <2>1. PICK s : s = IF old.state = "pending" THEN "resolved" ELSE old.state
      OBVIOUS
    <2>2. PICK m : m = IF old.state = "pending" THEN n ELSE old.entry
      OBVIOUS
    <2>3. /\ s \in {"unused", "pending", "resolved", "timedOut"} /\ s # "unused"
          /\ m \in Nat /\ m <= Len(frame.entries)
      BY <1>3, <1>5, <2>1, <2>2 DEF AnyTrigger, TriggerOk
    <2>4. t = [old EXCEPT !.state = s, !.entry = m, !.listed = FALSE, !.timer = FALSE]
      BY <1>6, <2>1, <2>2 DEF ResolvePendingTrigger
    <2> QED BY <1>5, <2>3, <2>4 DEF AnyTrigger, TriggerOk, AwaitsLoad
  <1>8. frame' = [frame EXCEPT !.triggers[w] = t]
    BY <1>1, <1>2, <1>4, <1>6
  <1>9. /\ marker' \in Mark /\ wait' \in [Wait -> Wait \cup {None}]
        /\ \A v \in Wait : wait'[v] = None => wait[v] = None /\ v # w
    BY <1>1, <1>4, <1>5, WaitIs
  <1> QED BY <1>1, <1>7, <1>8, <1>9, TriggerGoesOn

\* A wait joins the trigger of another, or makes its own.
LEMMA TriggerForIs ==
  ASSUME IInv, NEW w \in Wait, wait[w] = None, NEW status, NEW since
  PROVE  TriggerFor(w, status, since) \in Wait
  <1> DEFINE same == {v \in Wait : /\ frame.triggers[v].listed
                                  /\ frame.triggers[v].status = status
                                  /\ frame.triggers[v].since = since}
  <1>1. same # {} => (CHOOSE v \in same : TRUE) \in Wait
    <2>1. same # {} => \E v : v \in same
      OBVIOUS
    <2>2. same \subseteq Wait
      OBVIOUS
    <2> HIDE DEF same
    <2> QED BY <2>1, <2>2
  <1> QED BY <1>1 DEF TriggerFor

NewTrigger(status, since) ==
  [status |-> status, since |-> since, listed |-> TRUE, timer |-> FALSE, state |-> "pending",
   entry |-> 0]

\* A trigger that is made is one.
LEMMA NewTriggerOk ==
  ASSUME NEW status \in WaitStatus, NEW since \in Nat \cup {None}, NEW size \in Nat
  PROVE  NewTrigger(status, since) \in AnyTrigger /\ TriggerOk(NewTrigger(status, since), size)
  BY DEF NewTrigger, AnyTrigger, TriggerOk

\* A wait that is resolved at once.
LEMMA AtOnceOk ==
  ASSUME IInv, NEW w \in Wait, wait[w] = None, NEW status \in WaitStatus,
         NEW n \in 0..Len(frame.entries)
  PROVE  \E t \in AnyTrigger : /\ TriggerOk(t, Len(frame.entries)) /\ ~AwaitsLoad(t)
                               /\ ResolvedAtOnce(w, status, n) = [frame EXCEPT !.triggers[w] = t]
  <1>1. PICK old : old = frame.triggers[w]
    OBVIOUS
  <1>2. old \in AnyTrigger /\ TriggerOk(old, Len(frame.entries)) /\ ~old.listed /\ ~old.timer
    BY <1>1, WaitIs DEF TriggerOk
  <1>3. PICK t : t = [old EXCEPT !.status = status, !.state = "resolved", !.entry = n]
    OBVIOUS
  <1>4. n \in Nat /\ n <= Len(frame.entries)
    BY WaitIs, FrameParts
  <1>5. t \in AnyTrigger /\ TriggerOk(t, Len(frame.entries)) /\ ~AwaitsLoad(t)
    BY <1>2, <1>3, <1>4 DEF AnyTrigger, TriggerOk, AwaitsLoad
  <1>6. ResolvedAtOnce(w, status, n) = [frame EXCEPT !.triggers[w] = t]
    <2>1. frame.triggers \in [Wait -> AnyTrigger] /\ frame \in FrameType
      BY WaitIs, FrameParts DEF FrameOk
    <2> QED BY <1>1, <1>2, <1>3, <2>1 DEF ResolvedAtOnce, FrameType, AnyTrigger
  <1> QED BY <1>5, <1>6

\* The wait w takes the trigger k.
LEMMA WaitTakes ==
  ASSUME IInv, NEW w \in Wait, NEW k \in Wait, wait' = [wait EXCEPT ![w] = k]
  PROVE  /\ wait' \in [Wait -> Wait \cup {None}]
         /\ \A v \in Wait : wait'[v] = None => wait[v] = None /\ v # w
  <1>1. None \notin Wait
    BY NavigationAssumption
  <1> QED BY <1>1, WaitIs

\* A wait that joins the trigger of another changes no trigger.
LEMMA JoinGoesOn ==
  ASSUME IInv, NEW w \in Wait, NEW k \in Wait, wait' = [wait EXCEPT ![w] = k], frame' = frame,
         UNCHANGED <<loaderVars, chromeVars, goto, environment>>, marker' \in Mark
  PROVE  IInv'
  <1>1. /\ wait' \in [Wait -> Wait \cup {None}]
        /\ \A v \in Wait : wait'[v] = None => wait[v] = None
    BY WaitTakes
  <1> QED BY <1>1, WaitIs, WaitGoesOn

\* The step WaitForLocation.
LEMMA WaitForLocationHolds ==
  ASSUME IInv, NEW w \in Wait, NEW trigger \in WaitStatus, NEW option \in SinceOption,
         WaitForLocation(w, trigger, option)
  PROVE  IInv'
  <1>1. PICK since : since = IF option = None THEN marker'.start ELSE option
    OBVIOUS
  <1>2. PICK n : n = HasLocationTrigger(frame, trigger, since)
    OBVIOUS
  <1>3. PICK k : k = IF n # 0 THEN w ELSE TriggerFor(w, trigger, since)
    OBVIOUS
  <1>4. /\ wait[w] = None /\ trigger \in LocationTrigger /\ marker' = IncrementMark("waitForLocation")
        /\ wait' = [wait EXCEPT ![w] = k]
        /\ frame' = IF n # 0 THEN ResolvedAtOnce(w, trigger, n)
                    ELSE CreateStatusTriggeredPromise(w, trigger, since)
        /\ UNCHANGED <<loaderVars, chromeVars, goto, environment>>
    BY <1>1, <1>2, <1>3 DEF WaitForLocation
  <1>5. FrameOk(frame) /\ CallsOk /\ Len(frame.entries) \in Nat
    BY WaitIs, FrameParts
  <1>6. marker' \in Mark
    BY <1>4, <1>5, MarkIs DEF Mark
  <1>7. since \in Nat \cup {None}
    BY <1>1, <1>6, NavigationAssumption DEF Mark
  <1>8. n \in 0..Len(frame.entries)
    BY <1>2, <1>5, FindsTrigger
  <1>9. k \in Wait
    BY <1>3, <1>4, TriggerForIs
  <1>10. /\ wait' \in [Wait -> Wait \cup {None}]
         /\ \A v \in Wait : wait'[v] = None => wait[v] = None /\ v # w
    BY <1>4, <1>9, WaitTakes
  <1>11. CASE n # 0
    <2>1. PICK t \in AnyTrigger : /\ TriggerOk(t, Len(frame.entries)) /\ ~AwaitsLoad(t)
                                  /\ frame' = [frame EXCEPT !.triggers[w] = t]
      BY <1>4, <1>8, <1>11, AtOnceOk
    <2> QED BY <1>4, <1>6, <1>10, <2>1, TriggerGoesOn
  <1>12. CASE n = 0 /\ k # w
    <2>1. frame' = frame
      BY <1>3, <1>4, <1>12 DEF CreateStatusTriggeredPromise
    <2> QED BY <1>4, <1>6, <1>9, <2>1, JoinGoesOn
  <1>13. CASE n = 0 /\ k = w
    <2>1. PICK t : t = NewTrigger(trigger, since)
      OBVIOUS
    <2>2. frame' = [frame EXCEPT !.triggers[w] = t]
      BY <1>3, <1>4, <1>13, <2>1 DEF CreateStatusTriggeredPromise, NewTrigger
    <2>3. t \in AnyTrigger /\ TriggerOk(t, Len(frame.entries))
      BY <1>5, <1>7, <2>1, NewTriggerOk
    <2>4. ~AwaitsLoad(t)
      BY <1>4, <2>1 DEF AwaitsLoad, NewTrigger
    <2> QED BY <1>4, <1>6, <1>10, <2>2, <2>3, <2>4, TriggerGoesOn
  <1> QED BY <1>11, <1>12, <1>13

\* The step WaitForLoad.
LEMMA WaitForLoadHolds ==
  ASSUME IInv, NEW w \in Wait, NEW status \in WaitStatus, WaitForLoad(w, status)
  PROVE  IInv'
  <1>1. PICK top : top = Top(frame)
    OBVIOUS
  <1>2. PICK isBlank \in BOOLEAN : isBlank <=> top = 0 /\ status = "JavascriptReady"
    BY Zenon
  <1>3. PICK atOnce \in BOOLEAN :
          atOnce <=> (top = 0 /\ status = "JavascriptReady")
                     \/ (top # 0 /\ status \in frame.entries[top].statuses)
    BY Zenon
  <1>4. PICK created : created = CreateStatusTriggeredPromise(w, status, None)
    OBVIOUS
  <1>5. PICK k : k = IF atOnce THEN w ELSE TriggerFor(w, status, None)
    OBVIOUS
  <1>6. wait[w] = None /\ UNCHANGED <<loaderVars, chromeVars, goto, environment>>
    BY DEF WaitForLoad
  <1>7. wait' = [wait EXCEPT ![w] = k]
    BY <1>1, <1>3, <1>5 DEF WaitForLoad
  <1>8. /\ atOnce => frame' = ResolvedAtOnce(w, status, top)
        /\ ~atOnce /\ top = 0 => frame' = created
        /\ ~atOnce /\ top # 0 => frame' = OnLoadStatusChange(created)
    BY <1>1, <1>3, <1>4 DEF WaitForLoad
  <1>9. marker' = IF top = 0 /\ status = "JavascriptReady" THEN marker ELSE IncrementMark("waitForLoad")
    BY <1>1 DEF WaitForLoad
  <1>10. FrameOk(frame) /\ Plain(frame) /\ CallsOk /\ Len(frame.entries) \in Nat /\ marker \in Mark
    BY WaitIs, FrameParts
  <1>11. marker' \in Mark
    BY <1>9, <1>10, MarkIs DEF Mark
  <1>12. k \in Wait
    BY <1>5, <1>6, TriggerForIs
  <1>13. /\ wait' \in [Wait -> Wait \cup {None}]
         /\ \A v \in Wait : wait'[v] = None => wait[v] = None /\ v # w
    BY <1>7, <1>12, WaitTakes
  <1>14. CASE atOnce
    <2>1. top \in 0..Len(frame.entries)
      BY <1>1, <1>10, TopOk
    <2>2. PICK t \in AnyTrigger : /\ TriggerOk(t, Len(frame.entries)) /\ ~AwaitsLoad(t)
                                  /\ frame' = [frame EXCEPT !.triggers[w] = t]
      BY <1>6, <1>8, <1>14, <2>1, AtOnceOk
    <2> QED BY <1>6, <1>11, <1>13, <2>2, TriggerGoesOn
  <1>15. CASE ~atOnce
    <2>1. PICK t : t = NewTrigger(status, None)
      OBVIOUS
    <2>2. t \in AnyTrigger /\ TriggerOk(t, Len(frame.entries))
      BY <1>10, <2>1, NewTriggerOk
    <2>3. created = IF k = w THEN [frame EXCEPT !.triggers[w] = t] ELSE frame
      BY <1>4, <1>5, <1>15, <2>1 DEF CreateStatusTriggeredPromise, NewTrigger
    <2>4. CASE top = 0 /\ k = w
      BY <1>1, <1>6, <1>8, <1>11, <1>13, <1>15, <2>2, <2>3, <2>4, TriggerGoesOn
    <2>5. CASE top = 0 /\ k # w
      BY <1>6, <1>7, <1>8, <1>11, <1>12, <1>15, <2>3, <2>5, JoinGoesOn
    <2>6. CASE top # 0
      <3>1. /\ FrameOk(created) /\ Plain(created) /\ HasError(created) = HasError(frame)
            /\ created.entries = frame.entries /\ created.history = frame.history
            /\ \A v \in Wait : v # w => created.triggers[v] = frame.triggers[v]
        BY <1>10, <2>2, <2>3, TriggerSet DEF OneTrigger
      <3>2. frame' = OnLoadStatusChange(created)
        BY <1>8, <1>15, <2>6
      <3>3. /\ Seen(frame') /\ frame'.entries = created.entries /\ frame'.history = created.history
            /\ \A v \in Wait : created.triggers[v].state = "unused" => frame'.triggers[v].state = "unused"
        BY <3>1, <3>2, AllHaveSeen
      <3>4. FrameOk(frame') /\ Plain(frame') /\ (HasError(frame') => HasError(created))
        BY <3>1, <3>2, StatusChangeEvolves DEF Evolves, Grows
      <3>5. \A v \in Wait : wait'[v] = None => frame'.triggers[v].state = "unused"
        BY <1>13, <3>1, <3>3, WaitIs
      <3> QED BY <1>6, <1>11, <1>13, <3>1, <3>3, <3>4, <3>5, WaitGoesOn
    <2> QED BY <2>4, <2>5, <2>6
  <1> QED BY <1>14, <1>15

-----------------------------------------------------------------------------
\* The first state, a step, and what follows of them.

\* The first state.
LEMMA InitHolds == ASSUME Init PROVE IInv
  <1>1. /\ frame.entries = <<>> /\ frame.history = <<>> /\ frame.lastHttp = 0 /\ frame.stored = None
        /\ frame.byLoader = [l \in Ids |-> 0]
        /\ frame.triggers = [w \in Wait |-> [status |-> None, since |-> None, listed |-> FALSE,
                                             timer |-> FALSE, state |-> "unused", entry |-> 0]]
        /\ frame = [entries |-> <<>>, history |-> <<>>, lastHttp |-> 0, stored |-> None,
                    byLoader |-> frame.byLoader, triggers |-> frame.triggers]
    BY DEF Init, Ids
  <1>2. /\ <<>> \in Seq(EntryType) /\ <<>> \in Seq(Nat) /\ Len(frame.entries) = 0 /\ Len(frame.history) = 0
        /\ frame.byLoader \in [Ids -> Nat] /\ \A l \in Ids : frame.byLoader[l] = 0
    BY <1>1
  <1>3. /\ frame.triggers \in [Wait -> AnyTrigger]
        /\ \A w \in Wait : /\ TriggerOk(frame.triggers[w], 0) /\ ~AwaitsLoad(frame.triggers[w])
                           /\ frame.triggers[w].state = "unused"
    BY <1>1 DEF AnyTrigger, TriggerOk, AwaitsLoad
  <1>4. frame \in FrameType
    <2>1. PICK b : b = frame.byLoader
      OBVIOUS
    <2>2. PICK t : t = frame.triggers
      OBVIOUS
    <2>3. frame = [entries |-> <<>>, history |-> <<>>, lastHttp |-> 0, stored |-> None, byLoader |-> b,
                   triggers |-> t]
      BY <1>1, <2>1, <2>2
    <2>4. b \in [Ids -> Nat] /\ t \in [Wait -> AnyTrigger]
      BY <1>2, <1>3, <2>1, <2>2
    <2> QED BY <1>2, <2>3, <2>4 DEF FrameType
  <1>5. FrameOk(frame)
    <2>1. 1..Len(frame.history) = {}
      BY <1>2
    <2>2. \A w \in Wait : TriggerOk(frame.triggers[w], Len(frame.entries))
      BY <1>2, <1>3
    <2>3. frame.lastHttp <= Len(frame.entries) /\ \A l \in Ids : frame.byLoader[l] <= Len(frame.entries)
      BY <1>1, <1>2
    <2> QED BY <1>4, <2>1, <2>2, <2>3 DEF FrameOk
  <1>6. HistoryOk(frame) /\ ~HasError(frame)
    BY <1>2, <1>3 DEF HistoryOk, Plain, Assigned, FollowsBack, Seen, HasError
  <1>7. /\ goto = [g \in Goto |-> [state |-> "idle", url |-> None, entry |-> 0, loader |-> None,
                                   awaits |-> None, moves |-> FALSE, during |-> {}]]
        /\ wait = [w \in Wait |-> None] /\ marker = [id |-> 0, start |-> 0, wasWait |-> FALSE]
        /\ loads = <<>> /\ doc = 0 /\ next = 0 /\ docUrl = None /\ activeLoader = 0 /\ frameUrl = None
        /\ environment \in Environments
    BY DEF Init
  <1>8. CallsOk
    BY <1>2, <1>3, <1>7 DEF CallsOk, Call, MaybeUrl
  <1>9. PICK x : x = [NewLoader(0, None) EXCEPT !.result = "ok", !.init = TRUE, !.dcl = TRUE]
    OBVIOUS
  <1>10. 0 \in Loader /\ MaxLoads \in Nat /\ MaxInPage \in Nat
    BY NavigationAssumption DEF Loader
  <1>11. x \in LoaderRecord /\ x.id = 0 /\ x.init /\ x.result = "ok"
    BY <1>9, <1>10 DEF NewLoader, LoaderRecord, MaybeUrl
  <1>12. loaders = <<x>> /\ loaders \in Seq(LoaderRecord) /\ DOMAIN loaders = {1} /\ loaders[1] = x
    BY <1>9, <1>11 DEF Init
  <1>13. Count = 0 /\ DOMAIN loads = {} /\ loads \in Seq(Load)
    BY <1>7 DEF Count
  <1>14. ChromeOk
    BY <1>7, <1>11, <1>12, <1>13 DEF ChromeOk, MaybeUrl
  <1>15. RoomIsKept
    <2>1. Sent = {} /\ Moving = {} /\ {i \in DOMAIN loaders : InPageLoader(loaders[i].id)} = {}
      BY <1>7, <1>10, <1>11, <1>12 DEF Sent, Moving, InPageLoader
    <2> QED BY <1>10, <1>13, <2>1, FS_EmptySet DEF RoomIsKept, InPageCount
  <1>16. FailsOk /\ LoadsOk
    BY <1>6, <1>13 DEF FailsOk, LoadsOk
  <1>17. LoadersOk
    BY <1>11, <1>12, <1>13 DEF LoadersOk
  <1>18. GotosOk /\ AwaitsOk
    BY <1>7 DEF GotosOk, AwaitsOk
  <1> QED BY <1>5, <1>6, <1>7, <1>8, <1>14, <1>15, <1>16, <1>17, <1>18 DEF IInv, Sound, TypeInv

\* A step that changes nothing.
LEMMA StutterHolds == ASSUME IInv, UNCHANGED vars PROVE IInv'
  <1>1. /\ UNCHANGED <<loaderVars, chromeVars, goto, environment>> /\ UNCHANGED <<frame, wait, marker>>
    BY DEF vars, callVars
  <1>2. Seen(frame) => Seen(frame')
    BY <1>1
  <1> QED BY <1>1, <1>2, WaitIs, WaitGoesOn

\* Every step, one action after the other.
LEMMA NextHolds == ASSUME IInv, Next PROVE IInv'
  <1>1. ASSUME NEW l \in DOMAIN loads, Network(l) \/ Commits(l) \/ BackForwardCacheRestore(l)
        PROVE  IInv'
    BY <1>1, PublishesHolds, RespondsHolds, MitmRespondsHolds, LoadFinishesHolds, LoadFailsHolds,
       CommitsHolds, BackForwardCacheRestoreHolds DEF Network
  <1>2. ASSUME NEW l \in DOMAIN loads, NEW u \in Url, Redirects(l, u) PROVE IInv'
    BY <1>2, RedirectsHolds
  <1>3. CASE Shows
    BY <1>3, DomContentLoadedHolds, AllContentLoadedHolds, LargestContentfulPaintHolds,
       FirstContentfulPaintHolds DEF Shows
  <1>4. ASSUME NEW u \in Url, PageNavigates(u) \/ NavigatesWithinDocument(u) PROVE IInv'
    BY <1>4, PageNavigatesHolds, NavigatesWithinDocumentHolds
  <1>5. ASSUME NEW g \in Goto, Continues(g) PROVE IInv'
    BY <1>5, NavigatesHolds, MovesHolds, AnswersHolds, LoaderIsCompleteHolds, GotoReturnsHolds
       DEF Continues
  <1>6. ASSUME NEW g \in Goto, NEW u \in Url, CallsGoto(g, u) PROVE IInv'
    BY <1>6, CallsGotoHolds
  <1>7. ASSUME NEW w \in Wait, TriggerTimesOut(w) \/ StableTimer(w) PROVE IInv'
    BY <1>7, TriggerTimesOutHolds, StableTimerHolds
  <1>8. ASSUME NEW w \in Wait, NEW s \in WaitStatus, WaitForLoad(w, s) PROVE IInv'
    BY <1>8, WaitForLoadHolds
  <1>9. ASSUME NEW w \in Wait, NEW s \in WaitStatus, NEW option \in SinceOption,
               WaitForLocation(w, s, option)
        PROVE  IInv'
    BY <1>9, WaitForLocationHolds
  <1> QED BY <1>1, <1>2, <1>3, <1>4, <1>5, <1>6, <1>7, <1>8, <1>9 DEF Next

\* The types follow.
LEMMA TypesFollow == ASSUME TypeInv PROVE TypeOK
  <1>1. FrameOk(frame) /\ CallsOk /\ ChromeOk
    BY DEF TypeInv
  <1>2. Len(frame.entries) \in Nat /\ Entry = 0..Len(frame.entries)
    BY <1>1, FrameParts DEF Entry
  <1>3. frame.entries \in Seq(EntryType)
    BY <1>1, FrameParts
  <1>4. frame.history \in Seq(Entry \ {0})
    <2>1. frame.history \in Seq(Nat) /\ Len(frame.history) \in Nat
          /\ \A i \in 1..Len(frame.history) : frame.history[i] \in 1..Len(frame.entries)
      BY <1>1, FrameParts
    <2>2. \A i \in 1..Len(frame.history) : frame.history[i] \in Entry \ {0}
      BY <1>2, <2>1
    <2>3. frame.history \in [1..Len(frame.history) -> Entry \ {0}]
      BY <2>1, <2>2
    <2>4. PICK n \in Nat : n = Len(frame.history)
      BY <2>1
    <2>5. frame.history \in [1..n -> Entry \ {0}]
      BY <2>3, <2>4
    <2> QED BY <2>5, SeqDef, Zenon
  <1>5. IsInjective(frame.history)
    <2>1. DOMAIN frame.history = 1..Len(frame.history)
      BY <1>1, FrameParts, LenProperties
    <2> QED BY <1>1, <2>1 DEF FrameOk, IsInjective
  <1>6. frame.byLoader \in [Loader \cup {Unassigned} -> Entry] /\ frame.lastHttp \in Entry
    BY <1>1, <1>2, FrameParts DEF Ids
  <1>7. frame.stored \in {None} \cup [url : Url, reason : {"anchorClick", "metaTagRefresh"}]
    BY <1>1, FrameParts DEF Stored
  <1>8. /\ frame.triggers \in [Wait -> TriggerType]
        /\ \A w \in Wait : LET t == frame.triggers[w]
                          IN  /\ t.listed => t.state # "resolved"
                              /\ t.timer => t.listed /\ t.status = "PaintingStable"
    <2>1. ASSUME NEW w \in Wait
          PROVE  /\ frame.triggers[w] \in TriggerType /\ TriggerOk(frame.triggers[w], Len(frame.entries))
      <3>1. frame.triggers[w] \in AnyTrigger /\ TriggerOk(frame.triggers[w], Len(frame.entries))
        BY <1>1, FrameParts DEF FrameOk
      <3>2. frame.triggers[w].entry \in Entry
        BY <1>2, <3>1 DEF AnyTrigger, TriggerOk
      <3> QED BY <3>1, <3>2 DEF AnyTrigger, TriggerType
    <2>2. frame.triggers \in [Wait -> AnyTrigger]
      BY <1>1, FrameParts
    <2> QED BY <2>1, <2>2 DEF TriggerOk
  <1>9. Count <= MaxLoads /\ Count \in Nat
    BY LoadParts
  <1>10. goto \in [Goto -> [state : {"idle", "sent", "taken", "loading", "resource", "done", "failed"},
                            url : MaybeUrl, entry : Entry, loader : Loader \cup {None},
                            awaits : Loader \cup {None}, moves : BOOLEAN, during : SUBSET Goto]]
    <2>1. ASSUME NEW g \in Goto
          PROVE  goto[g] \in [state : {"idle", "sent", "taken", "loading", "resource", "done", "failed"},
                              url : MaybeUrl, entry : Entry, loader : Loader \cup {None},
                              awaits : Loader \cup {None}, moves : BOOLEAN, during : SUBSET Goto]
      <3>1. goto[g] \in Call /\ goto[g].entry <= Len(frame.entries)
        BY <1>1 DEF CallsOk
      <3>2. goto[g].entry \in Entry
        BY <1>2, <3>1 DEF Call
      <3> QED BY <3>1, <3>2 DEF Call
    <2>2. goto \in [Goto -> Call]
      BY <1>1 DEF CallsOk
    <2> QED BY <2>1, <2>2
  <1>11. /\ wait \in [Wait -> Wait \cup {None}] /\ marker \in [id : Nat, start : Nat, wasWait : BOOLEAN]
         /\ loads \in Seq(Load) /\ {doc, next} \subseteq 0..Count /\ docUrl \in MaybeUrl
         /\ loaders \in Seq(LoaderRecord) /\ frameUrl \in MaybeUrl
         /\ activeLoader \in {loaders[i].id : i \in DOMAIN loaders}
    BY <1>1 DEF CallsOk, ChromeOk
  <1> QED BY <1>3, <1>4, <1>5, <1>6, <1>7, <1>8, <1>9, <1>10, <1>11 DEF TypeOK, Load, LoaderRecord

\* A wait for a load status has seen all if the navigation on top does not meet it.
LEMMA HasSeenLoad ==
  ASSUME TypeInv, Seen(frame), NEW w \in Wait, frame.triggers[w].status \notin LocationTrigger
  PROVE  HasSeenAll(w)
  <1>1. SUFFICES ASSUME Pending(w), Top(frame) # 0, ~IsRestored
                 PROVE  Refreshed(frame, frame.triggers[w]).state = "pending"
    BY DEF HasSeenAll
  <1>2. PICK t : t = frame.triggers[w]
    OBVIOUS
  <1>3. t.listed /\ t.state = "pending" /\ t.status \notin LocationTrigger /\ t \in AnyTrigger
    BY <1>1, <1>2, FrameParts DEF Pending, TypeInv
  <1>4. ~Meets(frame.entries[Top(frame)].statuses, t.status)
    BY <1>1, <1>2, <1>3 DEF Seen, AwaitsLoad, IsRestored, Restored
  <1>5. CASE t.status = "PaintingStable"
    <2>1. "ContentPaint" \notin frame.entries[Top(frame)].statuses
      BY <1>4, <1>5 DEF Meets
    <2>2. Refreshed(frame, t) = RefreshPendingLoadTrigger(frame, t)
      BY <1>3, <1>5 DEF Refreshed
    <2>3. PICK b : b = (Top(frame) # 0 /\ "AllContentLoaded" \in frame.entries[Top(frame)].statuses)
      OBVIOUS
    <2>4. RefreshPendingLoadTrigger(frame, t) = [t EXCEPT !.timer = b]
      BY <2>1, <2>3 DEF RefreshPendingLoadTrigger
    <2>5. [t EXCEPT !.timer = b].state = t.state
      BY <1>3 DEF AnyTrigger
    <2> QED BY <1>2, <1>3, <2>2, <2>4, <2>5
  <1>6. CASE t.status # "PaintingStable"
    <2>1. ~Fulfils(frame.entries[Top(frame)], t.status)
      BY <1>4, <1>6 DEF Meets, Fulfils
    <2>2. Refreshed(frame, t) = t
      BY <1>3, <1>6, <2>1 DEF Refreshed
    <2> QED BY <1>2, <1>3, <2>2
  <1> QED BY <1>5, <1>6

\* What holds in every state, for any addresses, calls and bounds: besides the types, that the room
\* that CallsGoto asks for is kept until Chrome has taken the call, that waits for load statuses
\* have seen the top, that the promise of a resource follows that of an earlier navigation, and
\* that errors of loaders, navigations and calls come from aborted requests.
THEOREM Inductive == Spec => []IInv
  <1>1. Init => IInv
    BY InitHolds
  <1>2. IInv /\ [Next]_vars => IInv'
    BY NextHolds, StutterHolds
  <1> QED BY <1>1, <1>2, PTL DEF Spec

\* The types of the history, its triggers, the loaders and the calls, whatever the events of
\* Chrome and the proxy and in whatever order: no navigation is in the history twice, each number
\* that byLoader, the triggers or goto keep is that of a navigation, and a timer runs only for a
\* listed trigger.
THEOREM TypeCorrect == Spec => []TypeOK
  <1>1. IInv => TypeOK
    BY TypesFollow DEF IInv
  <1> QED BY <1>1, Inductive, PTL

\* No wait for a load status misses it, whichever method changed the history (the part of
\* NoEventIsMissed that is about load statuses): while the trigger is pending, the navigation on
\* top has not come so far, unless it was restored.  Documents may be restored from the
\* back/forward cache, or addresses may have fragments, but not both.
THEOREM NoLoadIsMissed ==
  Spec => [](~({"fragment", "restore"} \subseteq environment) =>
               \A w \in Wait : frame.triggers[w].status \notin LocationTrigger => HasSeenAll(w))
  <1>1. IInv => (~({"fragment", "restore"} \subseteq environment) =>
                   \A w \in Wait : frame.triggers[w].status \notin LocationTrigger => HasSeenAll(w))
    BY HasSeenLoad DEF IInv, HistoryOk, NoFragments, NoRestore
  <1> QED BY <1>1, Inductive, PTL

\* Why a call of Page.goto may fail, at the step in which it does: a request of this page was
\* aborted; or, where addresses may have fragments, the loader of the move that it awaits was
\* abandoned, or the promise of its navigation's resource follows itself.
FailsForAReason(g) ==
  \/ Aborted
  \/ /\ "fragment" \in environment
     /\ \/ InPageLoader(goto[g].awaits) /\ LoaderOf(goto[g].awaits).result = "error"
        \/ ResourceOutcome[goto[g].entry] = "rejected"

\* Chrome answered with the error of an aborted request.
LEMMA AnswersFails ==
  ASSUME IInv, NEW g \in Goto, Answers(g), goto'[g].state = "failed"
  PROVE  Aborted
  <1>1. goto \in [Goto -> Call] /\ goto[g].state = "taken"
        /\ (goto[g].loader # None => goto[g].loader \in DOMAIN loads)
    BY DEF IInv, TypeInv, CallsOk, Answers
  <1>2. goto[g].loader # None /\ loads[goto[g].loader].aborted
    BY <1>1 DEF Answers, Call
  <1> QED BY <1>1, <1>2 DEF Aborted

\* The loader it waited for has an error: abandoned by the document of a later request.
LEMMA LoaderFails ==
  ASSUME IInv, NEW g \in Goto, LoaderIsComplete(g), goto'[g].state = "failed"
  PROVE  FailsForAReason(g)
  <1>1. /\ TypeInv /\ goto \in [Goto -> Call] /\ goto[g] \in Call /\ goto[g].state = "loading"
        /\ HasLoader(goto[g].awaits) /\ LoadersOk
    BY DEF IInv, Sound, AwaitsOk, TypeInv, CallsOk, LoaderIsComplete
  <1>2. PICK k : k = goto[g].awaits
    OBVIOUS
  <1>3. LoaderOf(k).result = "error"
    BY <1>1, <1>2 DEF LoaderIsComplete, Call
  <1>4. k \in Loader /\ Position(k) \in DOMAIN loaders /\ LoaderOf(k).id = k
    BY <1>1, <1>2, PositionIs, LoaderParts DEF HasLoader
  <1>5. k \in Nat /\ MaxLoads \in Nat
    BY <1>4, NavigationAssumption DEF Loader
  <1>6. CASE k <= MaxLoads
    BY <1>1, <1>3, <1>4, <1>6 DEF LoadersOk, LoaderOf, FailsForAReason
  <1>7. CASE k > MaxLoads
    <2>1. InPageLoader(k)
      BY <1>7 DEF InPageLoader
    <2>2. k \notin DOMAIN loads
      BY <1>1, <2>1, LoadParts
    <2>3. ~NoFragments
      BY <1>1, <1>2, <2>2 DEF IInv, GotosOk
    <2> QED BY <1>2, <1>3, <2>1, <2>3 DEF FailsForAReason, NoFragments
  <1> QED BY <1>5, <1>6, <1>7

\* The navigation it waited for has the error of an aborted request, or follows itself.
LEMMA ResourceFails ==
  ASSUME IInv, NEW g \in Goto, GotoReturns(g), goto'[g].state = "failed"
  PROVE  FailsForAReason(g)
  <1>1. /\ FrameOk(frame) /\ Plain(frame) /\ goto \in [Goto -> Call] /\ goto[g].state = "resource"
        /\ goto[g].entry \in 1..Len(frame.entries) /\ Len(frame.entries) \in Nat
    BY FrameParts DEF IInv, TypeInv, HistoryOk, CallsOk, GotoReturns
  <1>2. PICK n \in 1..Len(frame.entries) : n = goto[g].entry
    BY <1>1
  <1>3. ResourceOutcome[n] = "rejected" \/ frame.entries[n].error
    BY <1>1, <1>2 DEF GotoReturns, Call
  <1>4. CASE frame.entries[n].error
    BY <1>2, <1>4 DEF HasError, IInv, Sound, FailsOk, FailsForAReason
  <1>5. CASE ResourceOutcome[n] = "rejected"
    <2>1. ~NoFragments
      <3>1. SUFFICES ASSUME NoFragments PROVE FALSE
        OBVIOUS
      <3>2. n \in Entry /\ FollowsBack(frame)
        BY <1>1, <1>2, <3>1 DEF Entry, Plain
      <3> QED BY <1>1, <1>5, <3>2, NoneRejected
    <2> QED BY <1>2, <1>5, <2>1 DEF FailsForAReason, NoFragments
  <1> QED BY <1>3, <1>4, <1>5

\* Only those three steps make a call fail.
LEMMA NextFails ==
  ASSUME IInv, Next, NEW g \in Goto, goto[g].state # "failed", goto'[g].state = "failed"
  PROVE  FailsForAReason(g)
  <1>1. goto \in [Goto -> Call]
    BY DEF IInv, TypeInv, CallsOk
  <1>2. goto' # goto
    OBVIOUS
  <1>3. ASSUME NEW l \in DOMAIN loads, Network(l) \/ Commits(l) \/ BackForwardCacheRestore(l)
        PROVE  goto' = goto
    BY <1>3 DEF Network, Publishes, Responds, MitmResponds, LoadFinishes, LoadFails, Commits,
                BackForwardCacheRestore, callVars
  <1>4. ASSUME NEW l \in DOMAIN loads, NEW u \in Url, Redirects(l, u) PROVE goto' = goto
    BY <1>4 DEF Redirects, callVars
  <1>5. ASSUME Shows PROVE goto' = goto
    BY <1>5 DEF Shows, DomContentLoaded, AllContentLoaded, LargestContentfulPaint,
                FirstContentfulPaint, callVars
  <1>6. ASSUME NEW u \in Url, PageNavigates(u) \/ NavigatesWithinDocument(u) PROVE goto' = goto
    BY <1>6 DEF PageNavigates, NavigatesWithinDocument, callVars
  <1>7. ASSUME NEW w \in Wait, TriggerTimesOut(w) \/ StableTimer(w) PROVE goto' = goto
    BY <1>7 DEF TriggerTimesOut, StableTimer, callVars
  <1>8. ASSUME NEW w \in Wait, NEW s \in WaitStatus, WaitForLoad(w, s) PROVE goto' = goto
    BY <1>8 DEF WaitForLoad
  <1>9. ASSUME NEW w \in Wait, NEW s \in WaitStatus, NEW option \in SinceOption,
               WaitForLocation(w, s, option)
        PROVE  goto' = goto
    BY <1>9 DEF WaitForLocation
  <1>10. ASSUME NEW h \in Goto, NEW u \in Url, CallsGoto(h, u) PROVE FALSE
    BY <1>1, <1>10 DEF CallsGoto, Call
  <1>11. ASSUME NEW h \in Goto, Continues(h) PROVE FailsForAReason(g)
    <2>1. ASSUME h # g PROVE goto'[g] = goto[g]
      BY <1>1, <1>11, <2>1 DEF Continues, Navigates, Moves, Answers, LoaderIsComplete, GotoReturns, Call
    <2>2. h = g
      BY <2>1
    <2>3. ~Navigates(g) /\ ~Moves(g)
      BY <1>1 DEF Navigates, Moves, Call
    <2> QED BY <1>11, <2>2, <2>3, AnswersFails, LoaderFails, ResourceFails DEF Continues, FailsForAReason
  <1> QED BY <1>2, <1>3, <1>4, <1>5, <1>6, <1>7, <1>8, <1>9, <1>10, <1>11 DEF Next

\* A call of Page.goto fails only for one of those reasons, whatever happens to the page and
\* however many calls there are: it never takes the error of a load that went well, and what the
\* code does to a goto without any request having been aborted is confined to addresses with
\* fragments.
THEOREM GotoFailsForAReason ==
  Spec => [][\A g \in Goto :
               goto[g].state # "failed" /\ goto'[g].state = "failed" => FailsForAReason(g)]_vars
  <1>1. IInv /\ [Next]_vars =>
          [\A g \in Goto :
             goto[g].state # "failed" /\ goto'[g].state = "failed" => FailsForAReason(g)]_vars
    BY NextFails
  <1> QED BY <1>1, Inductive, PTL DEF Spec
=============================================================================
