------------------------ MODULE PageAttachmentProofs ------------------------
(***************************************************************************)
(* Proofs about PageAttachment, for any calls of newPage, bounds and       *)
(* happenings.                                                             *)
(***************************************************************************)
EXTENDS PageAttachment, SequenceTheorems, FiniteSetTheorems, TLAPS

\* Sequences without repetition: the queues and the ordered sets, and what becomes of
\* their members.
Distinct(q) == \A i, j \in 1..Len(q) : q[i] = q[j] => i = j

\* Appending an element to a sequence adds it to the members.
LEMMA AppendMembers ==
  ASSUME NEW S, NEW q \in Seq(S), NEW e \in S
  PROVE  /\ Append(q, e) \in Seq(S)
         /\ \A x : Contains(Append(q, e), x) <=> Contains(q, x) \/ x = e
         /\ Distinct(q) /\ ~Contains(q, e) => Distinct(Append(q, e))
  <1> DEFINE a == Append(q, e)
  <1>1. /\ Len(q) \in Nat /\ Len(a) = Len(q) + 1
        /\ a \in Seq(S) /\ a[Len(q) + 1] = e
        /\ \A i \in 1..Len(q) : a[i] = q[i]
    BY AppendProperties, LenProperties
  <1> HIDE DEF a
  <1>2. \A x : Contains(a, x) <=> Contains(q, x) \/ x = e
    BY <1>1 DEF Contains
  <1>3. ASSUME Distinct(q), ~Contains(q, e) PROVE Distinct(a)
    BY <1>1, <1>3 DEF Contains, Distinct
  <1> QED BY <1>1, <1>2, <1>3 DEF a

\* The head of a sequence without repetition is not in its tail.
LEMMA TailMembers ==
  ASSUME NEW S, NEW q \in Seq(S), q # <<>>
  PROVE  /\ Head(q) \in S /\ Contains(q, Head(q)) /\ Tail(q) \in Seq(S)
         /\ Distinct(q) => /\ Distinct(Tail(q))
                           /\ \A x : Contains(Tail(q), x) <=> Contains(q, x) /\ x # Head(q)
  <1>1. /\ Head(q) \in S /\ Tail(q) \in Seq(S) /\ Len(Tail(q)) = Len(q) - 1
        /\ \A i \in 1..Len(Tail(q)) : Tail(q)[i] = q[i + 1]
        /\ Len(q) \in Nat \ {0} /\ Head(q) = q[1]
    BY HeadTailProperties, EmptySeq
  <1>2. Contains(q, Head(q))
    BY <1>1 DEF Contains
  <1>3. ASSUME Distinct(q) PROVE Distinct(Tail(q))
    <2> SUFFICES ASSUME NEW i \in 1..Len(Tail(q)), NEW j \in 1..Len(Tail(q)), Tail(q)[i] = Tail(q)[j]
                 PROVE  i = j
      BY DEF Distinct
    <2>1. i + 1 \in 1..Len(q) /\ j + 1 \in 1..Len(q) /\ q[i + 1] = q[j + 1]
      BY <1>1
    <2> QED BY <1>3, <2>1 DEF Distinct
  <1>4. ASSUME Distinct(q), NEW x PROVE Contains(Tail(q), x) <=> Contains(q, x) /\ x # Head(q)
    <2>1. ASSUME Contains(Tail(q), x) PROVE Contains(q, x) /\ x # Head(q)
      <3>1. PICK i \in 1..Len(Tail(q)) : Tail(q)[i] = x
        BY <2>1 DEF Contains
      <3>2. i + 1 \in 1..Len(q) /\ q[i + 1] = x /\ 1 \in 1..Len(q) /\ i + 1 # 1
        BY <1>1, <3>1
      <3> QED BY <1>1, <1>4, <3>2 DEF Contains, Distinct
    <2>2. ASSUME Contains(q, x), x # Head(q) PROVE Contains(Tail(q), x)
      <3>1. PICK i \in 1..Len(q) : q[i] = x
        BY <2>2 DEF Contains
      <3>2. i - 1 \in 1..Len(Tail(q)) /\ Tail(q)[i - 1] = x
        BY <1>1, <2>2, <3>1
      <3> QED BY <3>2 DEF Contains
    <2> QED BY <2>1, <2>2
  <1> QED BY <1>1, <1>2, <1>3, <1>4

\* Taking an element out of a sequence without repetition leaves the others.
LEMMA RemoveFirstMembers ==
  ASSUME NEW S, NEW q \in Seq(S), NEW e, Distinct(q)
  PROVE  /\ RemoveFirst(q, e) \in Seq(S) /\ Distinct(RemoveFirst(q, e))
         /\ \A x : Contains(RemoveFirst(q, e), x) <=> Contains(q, x) /\ x # e
  <1>1. CASE ~Contains(q, e)
    <2>1. RemoveFirst(q, e) = q
      BY <1>1 DEF RemoveFirst, Contains
    <2> QED BY <1>1, <2>1
  <1>2. CASE Contains(q, e)
    <2>1. PICK k \in 1..Len(q) : q[k] = e
      BY <1>2 DEF Contains
    <2>2. \A i \in 1..Len(q) : q[i] = e <=> i = k
      BY <2>1 DEF Distinct
    <2> DEFINE I == {i \in 1..Len(q) : q[i] = e}
               u == SubSeq(q, 1, k - 1)
               v == SubSeq(q, k + 1, Len(q))
    <2>3. I = {k} /\ Len(q) \in Nat
      BY <2>2, LenProperties
    <2>4. Min(I) = k
      BY <2>3 DEF Min
    <2>5. RemoveFirst(q, e) = u \o v
      BY <1>2, <2>3, <2>4 DEF RemoveFirst, SelectInSeq, RemoveAt, Contains
    <2>6. /\ u \in Seq(S) /\ Len(u) = k - 1 /\ \A i \in 1..(k - 1) : u[i] = q[i]
          /\ v \in Seq(S) /\ Len(v) = Len(q) - k /\ \A i \in 1..(Len(q) - k) : v[i] = q[k + i]
      <3>1. \A i \in 1..Len(q) : q[i] \in S
        BY ElementOfSeq
      <3>2. \A i \in 1..(k - 1) : q[i] \in S
        BY <2>3, <3>1
      <3>3. \A i \in (k + 1)..Len(q) : q[i] \in S
        BY <2>3, <3>1
      <3>4. u \in Seq(S) /\ Len(u) = k - 1 /\ \A i \in 1..(k - 1) : u[i] = q[i]
        BY <2>3, <3>2, SubSeqProperties
      <3>5. v \in Seq(S) /\ Len(v) = Len(q) - k /\ \A i \in 1..(Len(q) - k) : v[i] = q[k + i]
        BY <2>3, <3>3, SubSeqProperties
      <3> QED BY <3>4, <3>5
    <2> DEFINE w == u \o v
    <2>7. /\ w \in Seq(S) /\ Len(w) = Len(q) - 1
          /\ \A i \in 1..Len(w) : w[i] = IF i < k THEN q[i] ELSE q[i + 1]
      <3>1. /\ w \in Seq(S) /\ Len(w) = Len(u) + Len(v)
            /\ \A i \in 1..(Len(u) + Len(v)) : w[i] = IF i <= Len(u) THEN u[i] ELSE v[i - Len(u)]
        BY <2>6, ConcatProperties
      <3> HIDE DEF u, v, w
      <3>2. Len(w) = Len(q) - 1
        BY <2>3, <2>6, <3>1
      <3>3. ASSUME NEW i \in 1..Len(w) PROVE w[i] = IF i < k THEN q[i] ELSE q[i + 1]
        <4>1. CASE i < k
          BY <2>3, <2>6, <3>1, <4>1
        <4>2. CASE i >= k
          <5>1. w[i] = v[i - (k - 1)] /\ i - (k - 1) \in 1..(Len(q) - k)
            BY <2>3, <2>6, <3>1, <3>2, <4>2
          <5>2. v[i - (k - 1)] = q[k + (i - (k - 1))]
            BY <2>6, <5>1
          <5> QED BY <2>3, <4>2, <5>1, <5>2
        <4> QED BY <2>3, <4>1, <4>2
      <3> QED BY <3>1, <3>2, <3>3
    <2> HIDE DEF w, u, v, I
    <2>8. Distinct(w)
      <3> SUFFICES ASSUME NEW i \in 1..Len(w), NEW j \in 1..Len(w), w[i] = w[j]
                   PROVE  i = j
        BY DEF Distinct
      <3> DEFINE at(n) == IF n < k THEN n ELSE n + 1
      <3>1. at(i) \in 1..Len(q) /\ at(j) \in 1..Len(q) /\ q[at(i)] = q[at(j)]
        BY <2>3, <2>7
      <3>2. at(i) = at(j)
        BY <3>1 DEF Distinct
      <3> QED BY <2>3, <3>2
    <2>9. ASSUME NEW x PROVE Contains(w, x) <=> Contains(q, x) /\ x # e
      <3>1. ASSUME Contains(w, x) PROVE Contains(q, x) /\ x # e
        <4>1. PICK i \in 1..Len(w) : w[i] = x
          BY <3>1 DEF Contains
        <4>2. PICK j \in 1..Len(q) : q[j] = x /\ j # k
          BY <2>3, <2>7, <4>1
        <4> QED BY <2>2, <4>2 DEF Contains
      <3>2. ASSUME Contains(q, x), x # e PROVE Contains(w, x)
        <4>1. PICK j \in 1..Len(q) : q[j] = x
          BY <3>2 DEF Contains
        <4>2. j # k
          BY <2>2, <3>2, <4>1
        <4>3. \E i \in 1..Len(w) : w[i] = x
          <5>1. CASE j < k
            BY <2>3, <2>7, <4>1, <5>1
          <5>2. CASE j > k
            <6>1. j - 1 \in 1..Len(w) /\ w[j - 1] = x
              BY <2>3, <2>7, <4>1, <5>2
            <6> QED BY <6>1
          <5> QED BY <2>3, <4>2, <5>1, <5>2
        <4> QED BY <4>3 DEF Contains
      <3> QED BY <3>1, <3>2
    <2> QED BY <2>5, <2>7, <2>8, <2>9 DEF w
  <1> QED BY <1>1, <1>2

\* The empty sequence has no members.
LEMMA EmptyMembers ==
  ASSUME NEW S
  PROVE  <<>> \in Seq(S) /\ Distinct(<<>>) /\ \A x : ~Contains(<<>>, x)
  BY EmptySeq DEF Distinct, Contains
-----------------------------------------------------------------------------

TargetRecord ==
  [open : BOOLEAN, creator : Call \cup {None}, opener : 0..MaxTargets, announced : BOOLEAN,
   autoAttached : BOOLEAN, unloading : BOOLEAN, killed : BOOLEAN]
SessionRecord ==
  [of : Nat, awaits : SUBSET Call, opener : Nat,
   phase : {"announced", "waiting", "ignored", "initializing", "popup", "ready", "failed"},
   connected : BOOLEAN, closing : BOOLEAN, closed : BOOLEAN,
   close : {"no", "sent", "acked", "done", "threw"}, byContext : BOOLEAN]
CallRecord ==
  [of : Nat, page : Nat,
   state : {"idle", "creating", "attaching", "waiting", "opening", "done", "failed"}]

HasTarget(c) == \E t \in Target : target[t].creator = c
HasPage(t) == \E s \in Session : Contains(pagesById, s) /\ session[s].of = t

\* A call asks for one target at most, which no page opened; there is room for it.
TargetsOk ==
  /\ target \in Seq(TargetRecord) /\ disposed \in BOOLEAN
  /\ Len(target) + Cardinality({c \in Call : ~HasTarget(c)}) <= MaxTargets
  /\ \A t, u \in Target : target[t].creator = target[u].creator /\ t # u => target[t].creator = None
  /\ \A t \in Target : target[t].creator # None => target[t].opener = 0
  /\ attachedTargetIds \subseteq Target /\ createdTargetIds \subseteq Target

SessionsOk ==
  /\ session \in Seq(SessionRecord)
  /\ \A s \in Session : /\ session[s].of \in Target /\ session[s].opener \in {0} \cup Session
                        /\ session[s].closed => session[s].closing
  /\ closing \subseteq Session
  /\ context \in {"open", "closing", "disposing", "closed", "failed"}
  /\ environment \in Environments

\* Every page that is not closed is in the map, which has one page of a target.
PagesOk ==
  /\ pagesById \in Seq(Nat) /\ Distinct(pagesById)
  /\ \A s : Contains(pagesById, s) => s \in Session /\ IsPage(s)
  /\ \A s, p : /\ Contains(pagesById, s) /\ Contains(pagesById, p)
               /\ session[s].of = session[p].of
               => s = p
  /\ \A s \in Session : IsPage(s) /\ ~session[s].closed => Contains(pagesById, s)
  /\ context = "closed" => pagesById = <<>>

\* What messages and commands are about.  The session of an attached message was not handed to
\* the context before; the target of a detached message is gone.
MessageOk(m) ==
  /\ m.kind \in {"created", "attachedFor"} => m.of \in Call
  /\ m.kind = "created" /\ m.says = "ok" => HasTarget(m.of)
  /\ m.kind = "attached" => m.of \in Session /\ session[m.of].phase = "announced"
  /\ m.kind = "detached" => m.of \in Session /\ ~target[session[m.of].of].open
  /\ m.kind \in {"announced", "destroyed", "killed"} => m.of \in Target
  /\ m.kind = "closed" => m.of \in Session
CommandOk(m) ==
  /\ m = Command(m.kind, m.of)
  /\ m.kind \in {"create", "attach"} => m.of \in Call
  /\ m.kind = "attachTarget" => m.of \in Target
  /\ m.kind = "close" => m.of \in Session

Inbox == 1..Len(inbox)
PipeOk ==
  /\ \E M : inbox \in Seq(M)
  /\ \A i \in Inbox : MessageOk(inbox[i])
  /\ \A m \in commands : CommandOk(m)

\* Every session not handed over yet has one attached message on its way.
AttachedOk ==
  /\ \A i, j \in Inbox : /\ inbox[i].kind = "attached" /\ inbox[j].kind = "attached"
                         /\ inbox[i].of = inbox[j].of
                         => i = j
  /\ \A s \in Session : session[s].phase = "announced" =>
       \E i \in Inbox : inbox[i].kind = "attached" /\ inbox[i].of = s

CallsOk ==
  /\ call \in [Call -> CallRecord]
  /\ \A c \in Call : call[c].of \in {0} \cup Target /\ call[c].page \in {0} \cup Session
  /\ creating \subseteq Call
  /\ \A c \in Call :
       /\ call[c].state \in {"creating", "attaching"} => c \in creating
       /\ c \in creating => call[c].state \in {"creating", "attaching", "failed"}
       /\ call[c].state \in {"attaching", "waiting"} => call[c].of # 0
       /\ call[c].state = "opening" => call[c].page # 0

\* A call that is creating or attaching has one command or one answer under way, the others
\* have none.
Asked(c) == Command("create", c) \in commands \/ Command("attach", c) \in commands
Answer(i, c) == inbox[i].kind \in {"created", "attachedFor"} /\ inbox[i].of = c
Answered(c) == \E i \in Inbox : Answer(i, c)
UnderWayOk ==
  \A c \in Call :
    /\ Command("create", c) \in commands => call[c].state = "creating"
    /\ Command("attach", c) \in commands => call[c].state = "attaching"
    /\ \A i \in Inbox : Answer(i, c) =>
         /\ call[c].state = IF inbox[i].kind = "created" THEN "creating" ELSE "attaching"
         /\ \A j \in Inbox : Answer(j, c) => i = j
    /\ Asked(c) => ~Answered(c)
    /\ call[c].state \in {"creating", "attaching"} => Asked(c) \/ Answered(c)

\* Until newPage knows its target, onPageAttached waits for it.
CreatorsOk ==
  /\ \A t \in Target \ createdTargetIds : target[t].creator # None =>
       /\ target[t].creator \in creating
       /\ call[target[t].creator].state \in {"creating", "failed"}
  /\ \A s \in Session :
       LET t == session[s].of IN
       session[s].phase = "waiting" /\ target[t].creator # None /\ t \notin createdTargetIds
         => target[t].creator \in session[s].awaits

\* A target that Chrome attached has a page or will have one; no call waits for the page of a
\* target that has one.
MeetOk ==
  context # "closed" =>
    /\ \A t \in Target : target[t].open /\ target[t].autoAttached =>
         \E s \in Session : /\ session[s].of = t
                            /\ session[s].phase \in {"announced", "waiting"} \/ Contains(pagesById, s)
    /\ \A c \in Call : call[c].state = "waiting" => ~HasPage(call[c].of)

IInv ==
  /\ TargetsOk /\ SessionsOk /\ PagesOk
  /\ PipeOk /\ AttachedOk
  /\ CallsOk /\ UnderWayOk
  /\ CreatorsOk /\ MeetOk
  /\ NewPageIsNoPopup /\ NewPageFailsForAReason

-----------------------------------------------------------------------------
\* What SelectInSeq finds.

\* A set of naturals has a least element.
LEMMA LeastNatural ==
  ASSUME NEW I \in SUBSET Nat, I # {}
  PROVE  Min(I) \in I
  <1>1. \E x \in I : \A y \in I : ~(<<y, x>> \in OpToRel(<, Nat))
    BY NatLessThanWellFounded, WFMin
  <1>2. PICK x \in I : \A y \in I : ~(y < x)
    BY <1>1 DEF OpToRel
  <1>3. \A y \in I : x <= y
    BY <1>2
  <1> QED BY <1>3 DEF Min

\* TargetOf finds the target of a call.
LEMMA TargetFound ==
  ASSUME TargetsOk, NEW c
  PROVE  /\ TargetOf(c) \in {0} \cup Target
         /\ TargetOf(c) # 0 => target[TargetOf(c)].creator = c
         /\ TargetOf(c) = 0 <=> ~HasTarget(c)
  <1> DEFINE I == {t \in 1..Len(target) : target[t].creator = c}
  <1>1. Len(target) \in Nat /\ Target = 1..Len(target)
    BY LenProperties DEF TargetsOk, Target
  <1>2. TargetOf(c) = IF I # {} THEN Min(I) ELSE 0
    BY DEF TargetOf, SelectInSeq
  <1>3. I # {} => Min(I) \in I
    <2>1. I \in SUBSET Nat
      BY <1>1
    <2> QED BY <2>1, LeastNatural
  <1> QED BY <1>1, <1>2, <1>3 DEF HasTarget

\* PageOf finds the page of a target.
LEMMA PageFound ==
  ASSUME SessionsOk, PagesOk, NEW t
  PROVE  /\ PageOf(t) \in {0} \cup Session
         /\ PageOf(t) # 0 => Contains(pagesById, PageOf(t)) /\ session[PageOf(t)].of = t
         /\ PageOf(t) = 0 <=> ~HasPage(t)
  <1> DEFINE I == {i \in 1..Len(pagesById) : session[pagesById[i]].of = t}
  <1>1. Len(pagesById) \in Nat /\ pagesById \in [1..Len(pagesById) -> Nat]
    BY LenProperties DEF PagesOk
  <1>2. PageOf(t) = LET i == IF I # {} THEN Min(I) ELSE 0 IN IF i = 0 THEN 0 ELSE pagesById[i]
    BY DEF PageOf, SelectInSeq
  <1>3. I # {} => Min(I) \in I
    <2>1. I \in SUBSET Nat
      BY <1>1
    <2> QED BY <2>1, LeastNatural
  <1>4. \A i \in 1..Len(pagesById) : Contains(pagesById, pagesById[i])
    BY DEF Contains
  <1>5. Session \in SUBSET (Nat \ {0})
    BY LenProperties DEF SessionsOk, Session
  <1>6. \A i \in 1..Len(pagesById) : pagesById[i] \in Session
    BY <1>4 DEF PagesOk
  <1>7. CASE I # {}
    <2>1. PageOf(t) = pagesById[Min(I)] /\ Min(I) \in 1..Len(pagesById)
      BY <1>2, <1>3, <1>7
    <2>2. session[PageOf(t)].of = t /\ PageOf(t) \in Session /\ PageOf(t) # 0
      BY <1>3, <1>5, <1>6, <1>7, <2>1
    <2> QED BY <1>4, <2>1, <2>2 DEF HasPage
  <1>8. CASE I = {}
    <2>1. PageOf(t) = 0
      BY <1>2, <1>8
    <2>2. ~HasPage(t)
      BY <1>8 DEF HasPage, Contains
    <2> QED BY <2>1, <2>2
  <1> QED BY <1>7, <1>8

-----------------------------------------------------------------------------
\* The sequences.

\* The targets and the sessions as functions.
LEMMA Shapes ==
  ASSUME TargetsOk, SessionsOk
  PROVE  /\ Len(target) \in Nat /\ Target = 1..Len(target) /\ target \in [Target -> TargetRecord]
         /\ Len(session) \in Nat /\ Session = 1..Len(session) /\ session \in [Session -> SessionRecord]
  BY LenProperties DEF TargetsOk, SessionsOk, Target, Session

\* One more message on its way.
LEMMA Sent ==
  ASSUME NEW M, NEW q \in Seq(M), NEW m
  PROVE  LET a == Append(q, m) IN
         /\ \E S : a \in Seq(S)
         /\ Len(q) \in Nat /\ Len(a) = Len(q) + 1
         /\ \A i \in 1..Len(q) : a[i] = q[i]
         /\ a[Len(q) + 1] = m
  <1>1. q \in Seq(M \cup {m}) /\ m \in M \cup {m}
    <2>1. \A i \in 1..Len(q) : q[i] \in M \cup {m}
      BY ElementOfSeq
    <2> QED BY <2>1, LenProperties, SeqDef
  <1> QED BY <1>1, AppendProperties, LenProperties

\* The first message is taken.
LEMMA Taken ==
  ASSUME NEW M, NEW q \in Seq(M), q # <<>>
  PROVE  /\ \E S : Tail(q) \in Seq(S)
         /\ Len(q) \in Nat \ {0} /\ Len(Tail(q)) = Len(q) - 1
         /\ \A i \in 1..Len(Tail(q)) : Tail(q)[i] = q[i + 1]
         /\ Head(q) = q[1]
  BY HeadTailProperties, EmptySeq, LenProperties

\* Several messages on their way.
LEMMA AllSent ==
  ASSUME NEW M, NEW q \in Seq(M), NEW N, NEW p \in Seq(N)
  PROVE  LET a == q \o p IN
         /\ \E S : a \in Seq(S)
         /\ Len(q) \in Nat /\ Len(p) \in Nat /\ Len(a) = Len(q) + Len(p)
         /\ \A i \in 1..Len(q) : a[i] = q[i]
         /\ \A i \in 1..Len(p) : a[Len(q) + i] = p[i]
         /\ \A i \in 1..Len(a) : i > Len(q) => i - Len(q) \in 1..Len(p) /\ a[i] = p[i - Len(q)]
  <1>1. q \in Seq(M \cup N) /\ p \in Seq(M \cup N)
    <2>1. \A i \in 1..Len(q) : q[i] \in M \cup N
      BY ElementOfSeq
    <2>2. \A i \in 1..Len(p) : p[i] \in M \cup N
      BY ElementOfSeq
    <2> QED BY <2>1, <2>2, LenProperties, SeqDef
  <1>2. Len(q) \in Nat /\ Len(p) \in Nat
    BY LenProperties
  <1> DEFINE a == q \o p
  <1>3. /\ a \in Seq(M \cup N) /\ Len(a) = Len(q) + Len(p)
        /\ \A i \in 1..Len(q) + Len(p) : a[i] = IF i <= Len(q) THEN q[i] ELSE p[i - Len(q)]
    BY <1>1, ConcatProperties
  <1> HIDE DEF a
  <1>4. \A i \in 1..Len(q) : a[i] = q[i]
    BY <1>2, <1>3
  <1>5. ASSUME NEW i \in 1..Len(p) PROVE a[Len(q) + i] = p[i]
    <2>1. Len(q) + i \in 1..Len(q) + Len(p) /\ ~(Len(q) + i <= Len(q)) /\ (Len(q) + i) - Len(q) = i
      BY <1>2
    <2> QED BY <1>3, <2>1
  <1>6. ASSUME NEW i \in 1..Len(a), i > Len(q) PROVE i - Len(q) \in 1..Len(p) /\ a[i] = p[i - Len(q)]
    BY <1>2, <1>3, <1>6
  <1> QED BY <1>2, <1>3, <1>4, <1>5, <1>6 DEF a

-----------------------------------------------------------------------------
\* What most steps leave alone, and what that preserves.

\* Targets change but for what a target was created with; none opens again.
TargetsMarked ==
  /\ target' \in Seq(TargetRecord) /\ Len(target') = Len(target)
  /\ \A t \in Target : /\ target'[t].creator = target[t].creator
                       /\ target'[t].opener = target[t].opener
                       /\ target'[t].open => target[t].open

\* Sessions change but for their progress; none opens again.
SessionsMarked ==
  /\ session' \in Seq(SessionRecord) /\ Len(session') = Len(session)
  /\ \A s \in Session : /\ session'[s].of = session[s].of
                        /\ session'[s].phase = session[s].phase
                        /\ session'[s].awaits = session[s].awaits
                        /\ session'[s].opener = session[s].opener
                        /\ session[s].closed => session'[s].closed
                        /\ session'[s].closed => session'[s].closing

\* Messages arrive, or the first one is handled, that are neither answers to newPage nor
\* attachments.
Other(m) == m.kind \notin {"created", "attachedFor", "attached"}
OthersSent ==
  /\ Len(inbox') \in Nat /\ Len(inbox) <= Len(inbox')
  /\ \A i \in Inbox : inbox'[i] = inbox[i]
  /\ \A i \in Inbox' : i > Len(inbox) => Other(inbox'[i])
OtherTaken ==
  /\ Len(inbox) \in Nat \ {0} /\ Len(inbox') = Len(inbox) - 1
  /\ \A i \in Inbox' : inbox'[i] = inbox[i + 1]
  /\ Other(inbox[1])
CallCommandsKept ==
  \A c \in Call : /\ Command("create", c) \in commands' <=> Command("create", c) \in commands
                  /\ Command("attach", c) \in commands' <=> Command("attach", c) \in commands

\* Calls change but for those that wait for Chrome, and none wakes up.
CallsMarked ==
  /\ call' \in [Call -> CallRecord] /\ creating' = creating
  /\ \A c \in Call :
       /\ call'[c].of = call[c].of
       /\ call'[c].state # call[c].state =>
            /\ call[c].state \in {"waiting", "opening"}
            /\ call'[c].state \in {"opening", "done", "failed"}
       /\ call'[c].page \in {0} \cup Session
       /\ call'[c].state = "opening" => call'[c].page # 0
       /\ call[c].state = "failed" => call'[c] = call[c]

\* A marked state as functions.
LEMMA MarkedShapes ==
  ASSUME TargetsOk, SessionsOk
  PROVE  /\ TargetsMarked => Target' = Target /\ target' \in [Target -> TargetRecord]
         /\ SessionsMarked => Session' = Session /\ session' \in [Session -> SessionRecord]
  BY Shapes, LenProperties DEF TargetsMarked, SessionsMarked, Target, Session

\* TargetsOk survives marks.
LEMMA TargetsStay ==
  ASSUME TargetsOk, SessionsOk, TargetsMarked, disposed' \in BOOLEAN,
         attachedTargetIds' \subseteq Target, createdTargetIds' \subseteq Target
  PROVE  TargetsOk'
  <1>1. Target' = Target
    BY MarkedShapes
  <1>2. \A c : HasTarget(c)' <=> HasTarget(c)
    BY <1>1 DEF HasTarget, TargetsMarked
  <1>4. {c \in Call : ~HasTarget(c)}' = {c \in Call : ~HasTarget(c)}
    BY <1>2
  <1>5. \A t, u \in Target' : target'[t].creator = target'[u].creator /\ t # u => target'[t].creator = None
    BY <1>1 DEF TargetsOk, TargetsMarked
  <1>6. \A t \in Target' : target'[t].creator # None => target'[t].opener = 0
    BY <1>1 DEF TargetsOk, TargetsMarked
  <1>7. Len(target') + Cardinality({c \in Call : ~HasTarget(c)}') <= MaxTargets
    BY <1>4 DEF TargetsOk, TargetsMarked
  <1> QED BY <1>1, <1>5, <1>6, <1>7 DEF TargetsOk, TargetsMarked

\* SessionsOk survives marks.
LEMMA SessionsStay ==
  ASSUME TargetsOk, SessionsOk, SessionsMarked, Target \subseteq Target', closing' \subseteq Session,
         context' \in {"open", "closing", "disposing", "closed", "failed"},
         environment' = environment
  PROVE  SessionsOk'
  BY MarkedShapes DEF SessionsOk, SessionsMarked

\* PagesOk survives marks.
LEMMA PagesStay ==
  ASSUME TargetsOk, SessionsOk, PagesOk, SessionsMarked, pagesById' = pagesById,
         context' = "closed" => context = "closed"
  PROVE  PagesOk'
  <1>1. Session' = Session
    BY MarkedShapes
  <1>2. \A s \in Session : IsPage(s)' <=> IsPage(s)
    BY DEF SessionsMarked, IsPage
  <1> QED BY <1>1, <1>2 DEF PagesOk, SessionsMarked

\* What a message or a command is about stays.
LEMMA MessagesStay ==
  ASSUME TargetsOk, SessionsOk, Target \subseteq Target', Session \subseteq Session',
         \A t \in Target : /\ target'[t].creator = target[t].creator
                           /\ target'[t].open => target[t].open,
         \A s \in Session : session'[s].of = session[s].of,
         NEW m
  PROVE  /\ MessageOk(m) /\ (m.kind = "attached" => session'[m.of].phase = "announced")
              => MessageOk(m)'
         /\ CommandOk(m) => CommandOk(m)'
  <1>1. ASSUME NEW c, HasTarget(c) PROVE HasTarget(c)'
    BY <1>1 DEF HasTarget
  <1>2. \A s \in Session : session[s].of \in Target
    BY DEF SessionsOk
  <1>3. ASSUME MessageOk(m), m.kind = "attached" => session'[m.of].phase = "announced"
        PROVE  MessageOk(m)'
    BY <1>1, <1>2, <1>3 DEF MessageOk
  <1>4. ASSUME CommandOk(m) PROVE CommandOk(m)'
    BY <1>4 DEF CommandOk
  <1> QED BY <1>3, <1>4

\* AttachedOk survives marks and other messages.
LEMMA AttachedStay ==
  ASSUME TargetsOk, SessionsOk, AttachedOk, Len(inbox) \in Nat, Session' = Session,
         \A s \in Session : session'[s].phase = "announced" => session[s].phase = "announced",
         OthersSent \/ OtherTaken
  PROVE  AttachedOk'
  <1>1. CASE OthersSent
    <2>1. \A i \in Inbox' : inbox'[i].kind = "attached" => i \in Inbox /\ inbox'[i] = inbox[i]
      BY <1>1 DEF OthersSent, Other, Inbox
    <2>2. \A i \in Inbox : i \in Inbox' /\ inbox'[i] = inbox[i]
      BY <1>1 DEF OthersSent, Inbox
    <2> QED BY <2>1, <2>2 DEF AttachedOk
  <1>2. CASE OtherTaken
    <2>1. \A i \in Inbox' : i + 1 \in Inbox /\ inbox'[i] = inbox[i + 1]
      BY <1>2 DEF OtherTaken, Inbox
    <2>2. ASSUME NEW i \in Inbox, inbox[i].kind = "attached" PROVE i - 1 \in Inbox' /\ inbox'[i - 1] = inbox[i]
      <3>1. i # 1
        BY <1>2, <2>2 DEF OtherTaken, Other
      <3>2. i - 1 \in Inbox' /\ (i - 1) + 1 = i
        BY <1>2, <3>1 DEF OtherTaken, Inbox
      <3> QED BY <2>1, <3>2
    <2>3. \A i, j \in Inbox' : i + 1 = j + 1 => i = j
      BY <1>2 DEF OtherTaken, Inbox
    <2>4. ASSUME NEW i \in Inbox', NEW j \in Inbox', inbox'[i].kind = "attached", inbox'[j].kind = "attached",
                 inbox'[i].of = inbox'[j].of
          PROVE  i = j
      BY <2>1, <2>3, <2>4 DEF AttachedOk
    <2>5. ASSUME NEW s \in Session, session'[s].phase = "announced"
          PROVE  \E i \in Inbox' : inbox'[i].kind = "attached" /\ inbox'[i].of = s
      <3>1. PICK i \in Inbox : inbox[i].kind = "attached" /\ inbox[i].of = s
        BY <2>5 DEF AttachedOk
      <3> QED BY <2>2, <3>1
    <2> QED BY <2>4, <2>5 DEF AttachedOk
  <1> QED BY <1>1, <1>2

\* CallsOk survives marks.
LEMMA CallsStay ==
  ASSUME CallsOk, CallsMarked, Target \subseteq Target', Session \subseteq Session'
  PROVE  CallsOk'
  BY DEF CallsOk, CallsMarked

\* UnderWayOk survives marks and other messages.
LEMMA UnderWayStays ==
  ASSUME UnderWayOk, Len(inbox) \in Nat, CallsOk, CallsMarked, CallCommandsKept,
         OthersSent \/ OtherTaken
  PROVE  UnderWayOk'
  <1>1. \A c \in Call : Asked(c)' <=> Asked(c)
    BY DEF CallCommandsKept, Asked
  <1>2. \A c \in Call : \A v \in {"creating", "attaching"} : call'[c].state = v <=> call[c].state = v
    BY DEF CallsMarked
  <1>3. CASE OthersSent
    <2>1. ASSUME NEW c \in Call, NEW i \in Inbox', Answer(i, c)'
          PROVE  i \in Inbox /\ Answer(i, c) /\ inbox'[i] = inbox[i]
      BY <1>3, <2>1 DEF OthersSent, Answer, Other, Inbox
    <2>2. ASSUME NEW c \in Call, NEW i \in Inbox, Answer(i, c)
          PROVE  i \in Inbox' /\ Answer(i, c)'
      BY <1>3, <2>2 DEF OthersSent, Answer, Inbox
    <2>3. \A c \in Call : Answered(c)' <=> Answered(c)
      BY <2>1, <2>2 DEF Answered
    <2> QED BY <1>1, <1>2, <2>1, <2>3 DEF UnderWayOk, CallCommandsKept
  <1>4. CASE OtherTaken
    <2>1. ASSUME NEW c \in Call, NEW i \in Inbox', Answer(i, c)'
          PROVE  i + 1 \in Inbox /\ Answer(i + 1, c) /\ inbox'[i] = inbox[i + 1]
      BY <1>4, <2>1 DEF OtherTaken, Answer, Inbox
    <2>2. ASSUME NEW c \in Call, NEW i \in Inbox, Answer(i, c)
          PROVE  i - 1 \in Inbox' /\ Answer(i - 1, c)'
      <3>1. i # 1
        BY <1>4, <2>2 DEF OtherTaken, Other, Answer
      <3>2. i - 1 \in Inbox' /\ (i - 1) + 1 = i
        BY <1>4, <3>1 DEF OtherTaken, Inbox
      <3> QED BY <1>4, <2>2, <3>2 DEF OtherTaken, Answer
    <2>3. \A c \in Call : Answered(c)' <=> Answered(c)
      BY <2>1, <2>2 DEF Answered
    <2>4. \A i, j \in Inbox' : i + 1 = j + 1 => i = j
      BY <1>4 DEF OtherTaken, Inbox
    <2> QED BY <1>1, <1>2, <2>1, <2>3, <2>4 DEF UnderWayOk, CallCommandsKept
  <1> QED BY <1>3, <1>4

\* CreatorsOk survives marks.
LEMMA CreatorsStay ==
  ASSUME TargetsOk, SessionsOk, CallsOk, CreatorsOk, TargetsMarked, SessionsMarked, CallsMarked,
         createdTargetIds' = createdTargetIds
  PROVE  CreatorsOk'
  <1>1. /\ Target' = Target /\ Session' = Session
        /\ target \in [Target -> TargetRecord]
    BY Shapes, MarkedShapes
  <1>2. \A s \in Session : session[s].of \in Target
    BY DEF SessionsOk
  <1>3. \A t \in Target : target[t].creator # None => target[t].creator \in Call
    BY <1>1 DEF TargetRecord
  <1>4. \A c \in Call : call[c].state \in {"creating", "failed"} => call'[c].state \in {"creating", "failed"}
    BY DEF CallsMarked
  <1>5. /\ \A t \in Target : target'[t].creator = target[t].creator
        /\ \A s \in Session : /\ session'[s].of = session[s].of
                              /\ session'[s].phase = session[s].phase
                              /\ session'[s].awaits = session[s].awaits
        /\ creating' = creating
    BY DEF TargetsMarked, SessionsMarked, CallsMarked
  <1> QED BY <1>1, <1>2, <1>3, <1>4, <1>5 DEF CreatorsOk

\* MeetOk survives marks.
LEMMA MeetStays ==
  ASSUME TargetsOk, SessionsOk, MeetOk, TargetsMarked, SessionsMarked, CallsMarked,
         \A t \in Target : target'[t].autoAttached = target[t].autoAttached,
         context' # "closed" => context # "closed" /\ pagesById' = pagesById
  PROVE  MeetOk'
  <1>1. Target' = Target /\ Session' = Session
    BY MarkedShapes
  <1>2. SUFFICES ASSUME context' # "closed"
                 PROVE  MeetOk'
    BY DEF MeetOk
  <1>3. \A t : HasPage(t)' <=> HasPage(t)
    BY <1>1, <1>2 DEF HasPage, SessionsMarked
  <1>4. \A c \in Call : call'[c].state = "waiting" => call[c].state = "waiting" /\ call'[c].of = call[c].of
    BY DEF CallsMarked
  <1>5. ASSUME NEW t \in Target, target'[t].open, target'[t].autoAttached
        PROVE  \E s \in Session : /\ session'[s].of = t
                                  /\ session'[s].phase \in {"announced", "waiting"} \/ Contains(pagesById', s)
    <2>1. PICK s \in Session : /\ session[s].of = t
                               /\ session[s].phase \in {"announced", "waiting"} \/ Contains(pagesById, s)
      BY <1>2, <1>5 DEF MeetOk, TargetsMarked
    <2> QED BY <1>2, <2>1 DEF SessionsMarked
  <1> QED BY <1>1, <1>2, <1>3, <1>4, <1>5 DEF MeetOk

\* Openers are given to pages once: what leaves them, and targets, as they are keeps
\* NewPageIsNoPopup.
LEMMA PopupsKept ==
  ASSUME SessionsOk, NewPageIsNoPopup, Session \subseteq Session',
         \A s \in Session : session'[s].of = session[s].of,
         \A t \in Target : target'[t].creator = target[t].creator,
         \A s \in Session' : IsPage(s)' =>
           s \in Session /\ IsPage(s) /\ session'[s].opener = session[s].opener
  PROVE  NewPageIsNoPopup'
  <1> SUFFICES ASSUME NEW s \in Session', IsPage(s)', target'[session'[s].of].creator # None,
                      session'[s].opener # 0
               PROVE  session'[session'[s].opener].of = TriggerPopupOn[target'[session'[s].of].creator]
    BY DEF NewPageIsNoPopup
  <1>1. PICK o, t : o = session[s].opener /\ t = session[s].of
    OBVIOUS
  <1>2. s \in Session /\ IsPage(s) /\ session'[s].opener = o /\ session'[s].of = t
    BY <1>1
  <1>3. o \in Session /\ t \in Target
    BY <1>1, <1>2 DEF SessionsOk
  <1>4. session[o].of = TriggerPopupOn[target[t].creator]
    BY <1>1, <1>2, <1>3 DEF NewPageIsNoPopup
  <1> QED BY <1>2, <1>3, <1>4

\* NewPageIsNoPopup survives marks.
LEMMA PopupsStay ==
  ASSUME TargetsOk, SessionsOk, NewPageIsNoPopup, TargetsMarked, SessionsMarked
  PROVE  NewPageIsNoPopup'
  <1>1. Target' = Target /\ Session' = Session
    BY MarkedShapes
  <1>2. \A s \in Session : IsPage(s)' => IsPage(s) /\ session'[s].opener = session[s].opener
    BY DEF SessionsMarked, IsPage
  <1> QED BY <1>1, <1>2, PopupsKept DEF TargetsMarked, SessionsMarked

\* Why a call failed.
Reason(c) ==
  \/ \E d \in creating : call[d].state = "failed"
  \/ call[c].of # 0 /\ ~target[call[c].of].open
  \/ call[c].page # 0 /\ (session[call[c].page].phase = "failed" \/ session[call[c].page].closed)
  \/ context # "open"

\* A reason stays, whatever happens to targets, sessions and other calls.
LEMMA ReasonsStay ==
  ASSUME TargetsOk, SessionsOk, CallsOk, NewPageFailsForAReason,
         Target \subseteq Target', \A t \in Target : target'[t].open => target[t].open,
         Session \subseteq Session',
         \A s \in Session : /\ session[s].closed => session'[s].closed
                            /\ session[s].phase = "failed" => session'[s].phase = "failed",
         \A c \in Call : call[c].state = "failed" => call'[c] = call[c] /\ (c \in creating => c \in creating'),
         context' = "open" => context = "open",
         \A c \in Call : call'[c].state = "failed" => call[c].state = "failed" \/ Reason(c)'
  PROVE  NewPageFailsForAReason'
  <1>1. SUFFICES ASSUME NEW c \in Call, call'[c].state = "failed"
                 PROVE  Reason(c)'
    BY DEF NewPageFailsForAReason, Reason
  <1>2. CASE Reason(c)'
    BY <1>2
  <1>3. CASE call[c].state = "failed"
    <2>1. Reason(c) /\ call'[c] = call[c]
      BY <1>3 DEF NewPageFailsForAReason, Reason
    <2>2. CASE \E d \in creating : call[d].state = "failed"
      <3>1. PICK d \in creating : call[d].state = "failed"
        BY <2>2
      <3>2. d \in Call
        BY <3>1 DEF CallsOk
      <3> QED BY <3>1, <3>2 DEF Reason
    <2>3. CASE call[c].of # 0 /\ ~target[call[c].of].open
      <3>1. call[c].of \in Target
        BY <2>3 DEF CallsOk
      <3> QED BY <2>1, <2>3, <3>1 DEF Reason
    <2>4. CASE call[c].page # 0 /\ (session[call[c].page].phase = "failed" \/ session[call[c].page].closed)
      <3>1. call[c].page \in Session
        BY <2>4 DEF CallsOk
      <3> QED BY <2>1, <2>4, <3>1 DEF Reason
    <2>5. CASE context # "open"
      BY <2>5 DEF Reason
    <2> QED BY <2>1, <2>2, <2>3, <2>4, <2>5 DEF Reason
  <1> QED BY <1>1, <1>2, <1>3

-----------------------------------------------------------------------------
\* The marks that steps make.

\* A function on 1..n is a sequence.
LEMMA IsSequence ==
  ASSUME NEW n \in Nat, NEW R, NEW f \in [1..n -> R]
  PROVE  f \in Seq(R) /\ Len(f) = n
  <1>1. f \in Seq(R)
    BY SeqDef
  <1> QED BY <1>1, LenProperties

\* A new state of every session.
LEMMA Marking ==
  ASSUME TargetsOk, SessionsOk, session' \in [Session -> SessionRecord],
         \A s \in Session : /\ session'[s].of = session[s].of
                            /\ session'[s].phase = session[s].phase
                            /\ session'[s].awaits = session[s].awaits
                            /\ session'[s].opener = session[s].opener
                            /\ session[s].closed => session'[s].closed
                            /\ session'[s].closed => session'[s].closing
  PROVE  SessionsMarked
  BY Shapes, IsSequence DEF SessionsMarked

\* didClose of pages marks them.
LEMMA DidCloseMarks ==
  ASSUME TargetsOk, SessionsOk, NEW P
  PROVE  LET d == DidClose(P) IN
         /\ d \in [Session -> SessionRecord]
         /\ \A s \in Session : /\ d[s].of = session[s].of
                               /\ d[s].phase = session[s].phase
                               /\ d[s].awaits = session[s].awaits
                               /\ d[s].opener = session[s].opener
                               /\ d[s].closed <=> session[s].closed \/ s \in P
                               /\ d[s].closing <=> session[s].closing \/ s \in P
  <1>1. session \in [Session -> SessionRecord]
    BY Shapes
  <1>2. ASSUME NEW s \in Session
        PROVE  LET r == IF s \in P THEN [session[s] EXCEPT !.closing = TRUE, !.closed = TRUE] ELSE session[s] IN
               /\ r \in SessionRecord
               /\ r.of = session[s].of /\ r.phase = session[s].phase
               /\ r.awaits = session[s].awaits /\ r.opener = session[s].opener
               /\ r.closed <=> session[s].closed \/ s \in P
               /\ r.closing <=> session[s].closing \/ s \in P
    <2>1. session[s] \in SessionRecord
      BY <1>1
    <2>2. CASE s \in P
      BY <2>1, <2>2 DEF SessionRecord
    <2>3. CASE s \notin P
      BY <2>1, <2>3 DEF SessionRecord
    <2> QED BY <2>2, <2>3
  <1> QED BY <1>2 DEF DidClose

\* A step of Page.close marks its page.
LEMMA CloseMarks ==
  ASSUME TargetsOk, SessionsOk, NEW f \in [Session -> SessionRecord], NEW s,
         NEW v \in {"no", "sent", "acked", "done", "threw"},
         \A p \in Session : /\ f[p].of = session[p].of
                            /\ f[p].phase = session[p].phase
                            /\ f[p].awaits = session[p].awaits
                            /\ f[p].opener = session[p].opener
                            /\ session[p].closed => f[p].closed
                            /\ f[p].closed => f[p].closing,
         session' = [f EXCEPT ![s].close = v] \/ session' = [f EXCEPT ![s].connected = FALSE]
  PROVE  SessionsMarked
  <1>1. ASSUME NEW p \in Session
        PROVE  /\ [f[p] EXCEPT !.close = v] \in SessionRecord
               /\ [f[p] EXCEPT !.connected = FALSE] \in SessionRecord
    <2>1. f[p] \in SessionRecord
      OBVIOUS
    <2> QED BY <2>1 DEF SessionRecord
  <1>2. session' \in [Session -> SessionRecord]
    <2>1. CASE session' = [f EXCEPT ![s].close = v]
      BY <1>1, <2>1
    <2>2. CASE session' = [f EXCEPT ![s].connected = FALSE]
      BY <1>1, <2>2
    <2> QED BY <2>1, <2>2
  <1>3. ASSUME NEW p \in Session
        PROVE  /\ session'[p].of = f[p].of /\ session'[p].phase = f[p].phase
               /\ session'[p].awaits = f[p].awaits /\ session'[p].opener = f[p].opener
               /\ session'[p].closed = f[p].closed /\ session'[p].closing = f[p].closing
    <2>1. f[p] \in SessionRecord
      OBVIOUS
    <2>2. \/ session'[p] = f[p]
          \/ session'[p] = [f[p] EXCEPT !.close = v]
          \/ session'[p] = [f[p] EXCEPT !.connected = FALSE]
      OBVIOUS
    <2> QED BY <2>1, <2>2 DEF SessionRecord
  <1> QED BY <1>2, <1>3, Marking

\* Page.close marks the pages it closes.
LEMMA PageCloseMarks ==
  ASSUME TargetsOk, SessionsOk, NEW P, NEW b \in BOOLEAN, session' = Close(P, b)
  PROVE  SessionsMarked
  <1>1. session \in [Session -> SessionRecord]
    BY Shapes
  <1>2. ASSUME NEW s \in Session
        PROVE  LET r == session'[s] IN
               /\ r \in SessionRecord
               /\ r.of = session[s].of /\ r.phase = session[s].phase
               /\ r.awaits = session[s].awaits /\ r.opener = session[s].opener
               /\ session[s].closed => r.closed
               /\ r.closed => r.closing
    <2>1. session[s] \in SessionRecord
      BY <1>1
    <2>2. \/ session'[s] = session[s]
          \/ session'[s] = [session[s] EXCEPT !.closing = TRUE, !.close = "sent", !.byContext = b]
          \/ session'[s] = [session[s] EXCEPT !.closing = TRUE, !.closed = TRUE, !.close = "done",
                                              !.byContext = b]
      BY DEF Close
    <2>3. session[s].closed => session[s].closing
      BY DEF SessionsOk
    <2> QED BY <2>1, <2>2, <2>3 DEF SessionRecord
  <1>3. session' \in [Session -> SessionRecord]
    <2>1. session' = [s \in Session |-> session'[s]]
      BY DEF Close
    <2> QED BY <1>2, <2>1
  <1> QED BY <1>2, <1>3, Marking

\* New states of the targets, with what they were created with.
LEMMA TargetMarking ==
  ASSUME TargetsOk, SessionsOk, DOMAIN target' = Target, target' = [u \in Target |-> target'[u]],
         \A u \in Target : /\ target'[u] \in TargetRecord
                           /\ target'[u].creator = target[u].creator
                           /\ target'[u].opener = target[u].opener
                           /\ target'[u].open => target[u].open
  PROVE  TargetsMarked
  <1>1. Target = 1..Len(target) /\ Len(target) \in Nat
    BY Shapes
  <1>2. target' \in [Target -> TargetRecord]
    OBVIOUS
  <1>3. target' \in Seq(TargetRecord) /\ Len(target') = Len(target)
    BY <1>1, <1>2, IsSequence
  <1> QED BY <1>3 DEF TargetsMarked

\* A target is marked.
LEMMA TargetMarks ==
  ASSUME TargetsOk, SessionsOk, NEW t \in Target,
         \/ target' = [target EXCEPT ![t].announced = TRUE]
         \/ target' = [target EXCEPT ![t].open = FALSE]
         \/ target' = [target EXCEPT ![t].killed = TRUE]
         \/ target' = [target EXCEPT ![t].unloading = TRUE]
         \/ target' = target
  PROVE  /\ TargetsMarked
         /\ \A u \in Target : target'[u].autoAttached = target[u].autoAttached
  <1>1. target \in [Target -> TargetRecord]
    BY Shapes
  <1>2. ASSUME NEW u \in Target
        PROVE  /\ target'[u] \in TargetRecord
               /\ target'[u].creator = target[u].creator /\ target'[u].opener = target[u].opener
               /\ target'[u].open => target[u].open
               /\ target'[u].autoAttached = target[u].autoAttached
    <2>1. target[u] \in TargetRecord
      BY <1>1
    <2>2. \/ target'[u] = target[u]
          \/ target'[u] = [target[u] EXCEPT !.announced = TRUE]
          \/ target'[u] = [target[u] EXCEPT !.open = FALSE]
          \/ target'[u] = [target[u] EXCEPT !.killed = TRUE]
          \/ target'[u] = [target[u] EXCEPT !.unloading = TRUE]
      BY <1>1
    <2>3. CASE target'[u] = target[u]
      BY <2>1, <2>3
    <2>4. CASE target'[u] = [target[u] EXCEPT !.announced = TRUE]
      BY <2>1, <2>4 DEF TargetRecord
    <2>5. CASE target'[u] = [target[u] EXCEPT !.open = FALSE]
      BY <2>1, <2>5 DEF TargetRecord
    <2>6. CASE target'[u] = [target[u] EXCEPT !.killed = TRUE]
      BY <2>1, <2>6 DEF TargetRecord
    <2>7. CASE target'[u] = [target[u] EXCEPT !.unloading = TRUE]
      BY <2>1, <2>7 DEF TargetRecord
    <2> QED BY <2>2, <2>3, <2>4, <2>5, <2>6, <2>7
  <1>3. DOMAIN target' = Target /\ target' = [u \in Target |-> target'[u]]
    BY <1>1
  <1>4. TargetsMarked
    BY <1>2, <1>3, TargetMarking
  <1> QED BY <1>2, <1>4

\* An attached target is a target.
LEMMA AutoAttachedRecord ==
  ASSUME NEW r \in TargetRecord
  PROVE  [r EXCEPT !.autoAttached = TRUE] \in TargetRecord
  BY DEF TargetRecord

\* setAutoAttach marks a target.
LEMMA AutoAttachMarks ==
  ASSUME TargetsOk, SessionsOk, NEW t \in Target,
         target' = [target EXCEPT ![t].autoAttached = TRUE]
  PROVE  /\ TargetsMarked
         /\ \A u \in Target : u # t => target'[u] = target[u]
  <1>1. target \in [Target -> TargetRecord]
    BY Shapes
  <1>2. ASSUME NEW u \in Target
        PROVE  /\ target'[u] \in TargetRecord
               /\ target'[u].creator = target[u].creator /\ target'[u].opener = target[u].opener
               /\ target'[u].open => target[u].open
               /\ u # t => target'[u] = target[u]
    <2>1. target[u] \in TargetRecord
      BY <1>1
    <2>2. \/ u # t /\ target'[u] = target[u]
          \/ target'[u] = [target[u] EXCEPT !.autoAttached = TRUE] /\ u = t
      BY <1>1
    <2>3. CASE u # t /\ target'[u] = target[u]
      BY <2>1, <2>3
    <2>4. CASE target'[u] = [target[u] EXCEPT !.autoAttached = TRUE] /\ u = t
      <3>1. PICK r \in TargetRecord : r = target[u]
        BY <2>1
      <3>2. target'[u] = [r EXCEPT !.autoAttached = TRUE]
        BY <2>4, <3>1
      <3>3. target'[u] \in TargetRecord
        BY <3>2, AutoAttachedRecord
      <3>4. target'[u].creator = r.creator /\ target'[u].opener = r.opener /\ target'[u].open = r.open
        BY <3>2 DEF TargetRecord
      <3> QED BY <2>4, <3>1, <3>3, <3>4
    <2> QED BY <2>2, <2>3, <2>4
  <1>3. DOMAIN target' = Target /\ target' = [u \in Target |-> target'[u]]
    BY <1>1
  <1>4. TargetsMarked
    BY <1>2, <1>3, TargetMarking
  <1> QED BY <1>2, <1>4

-----------------------------------------------------------------------------
\* The steps that mark only.

\* The messages on their way stay what they are.
LEMMA PipeStays ==
  ASSUME TargetsOk, SessionsOk, PipeOk, TargetsMarked, SessionsMarked,
         \E M : inbox' \in Seq(M), OthersSent \/ OtherTaken,
         \A i \in Inbox' : i > Len(inbox) => MessageOk(inbox[i])',
         \A m \in commands' : m \in commands \/ CommandOk(m)'
  PROVE  PipeOk'
  <1>1. Target' = Target /\ Session' = Session
    BY MarkedShapes
  <1>2. /\ \A t \in Target : /\ target'[t].creator = target[t].creator
                             /\ target'[t].open => target[t].open
        /\ \A s \in Session : session'[s].of = session[s].of /\ session'[s].phase = session[s].phase
    BY DEF TargetsMarked, SessionsMarked
  <1>3. \A m : /\ MessageOk(m) => MessageOk(m)'
               /\ CommandOk(m) => CommandOk(m)'
    <2> TAKE m
    <2>1. /\ MessageOk(m) /\ (m.kind = "attached" => session'[m.of].phase = "announced")
              => MessageOk(m)'
          /\ CommandOk(m) => CommandOk(m)'
      BY <1>1, <1>2, MessagesStay
    <2>2. MessageOk(m) /\ m.kind = "attached" => session'[m.of].phase = "announced"
      BY <1>2 DEF MessageOk
    <2> QED BY <2>1, <2>2
  <1>4. Len(inbox) \in Nat
    BY LenProperties DEF PipeOk
  <1>5. ASSUME NEW i \in Inbox' PROVE MessageOk(inbox[i])'
    <2>1. CASE i > Len(inbox)
      BY <2>1
    <2>2. CASE OthersSent /\ i <= Len(inbox)
      <3>1. i \in Inbox /\ inbox'[i] = inbox[i]
        BY <2>2, <1>4 DEF OthersSent, Inbox
      <3> QED BY <1>3, <3>1 DEF PipeOk
    <2>3. CASE OtherTaken
      <3>1. i + 1 \in Inbox /\ inbox'[i] = inbox[i + 1]
        BY <2>3 DEF OtherTaken, Inbox
      <3> QED BY <1>3, <3>1 DEF PipeOk
    <2>4. i > Len(inbox) \/ i <= Len(inbox)
      BY <1>4 DEF OthersSent, OtherTaken, Inbox
    <2> QED BY <2>1, <2>2, <2>3, <2>4
  <1>6. \A m \in commands' : CommandOk(m)'
    BY <1>3 DEF PipeOk
  <1> QED BY <1>5, <1>6 DEF PipeOk

\* A step that marks only preserves the invariant.
LEMMA Marks ==
  ASSUME IInv, TargetsMarked, SessionsMarked, CallsMarked, PagesOk',
         \A t \in Target : target'[t].autoAttached = target[t].autoAttached,
         disposed' \in BOOLEAN, attachedTargetIds' \subseteq Target,
         createdTargetIds' = createdTargetIds, closing' \subseteq Session,
         context' \in {"open", "closing", "disposing", "closed", "failed"},
         context' = "open" => context = "open",
         context' # "closed" => context # "closed" /\ pagesById' = pagesById,
         environment' = environment,
         \E M : inbox' \in Seq(M), OthersSent \/ OtherTaken,
         \A i \in Inbox' : i > Len(inbox) => MessageOk(inbox[i])',
         CallCommandsKept, \A m \in commands' : m \in commands \/ CommandOk(m)',
         \A c \in Call : call'[c].state = "failed" => call[c].state = "failed" \/ Reason(c)'
  PROVE  IInv'
  <1> USE DEF IInv
  <1>1. Target' = Target /\ Session' = Session
    BY MarkedShapes
  <1>2. Len(inbox) \in Nat
    BY LenProperties DEF PipeOk
  <1>3. TargetsOk'
    BY TargetsStay DEF TargetsOk
  <1>4. SessionsOk'
    BY <1>1, SessionsStay
  <1>5. PipeOk'
    BY PipeStays
  <1>6. AttachedOk'
    BY <1>1, <1>2, AttachedStay DEF SessionsMarked
  <1>7. CallsOk'
    BY <1>1, CallsStay
  <1>8. UnderWayOk'
    BY <1>2, UnderWayStays
  <1>9. CreatorsOk'
    BY CreatorsStay
  <1>10. MeetOk'
    BY MeetStays
  <1>11. NewPageIsNoPopup'
    BY PopupsStay
  <1>12. NewPageFailsForAReason'
    <2>1. /\ \A t \in Target : target'[t].open => target[t].open
          /\ \A s \in Session : /\ session[s].closed => session'[s].closed
                                /\ session[s].phase = "failed" => session'[s].phase = "failed"
          /\ \A c \in Call : call[c].state = "failed" =>
               call'[c] = call[c] /\ (c \in creating => c \in creating')
      BY DEF TargetsMarked, SessionsMarked, CallsMarked
    <2> QED BY <1>1, <2>1, ReasonsStay
  <1> QED BY <1>3, <1>4, <1>5, <1>6, <1>7, <1>8, <1>9, <1>10, <1>11, <1>12

\* The calls stay as they are.
LEMMA CallsAlone ==
  ASSUME CallsOk, UNCHANGED callVars
  PROVE  /\ CallsMarked
         /\ \A c \in Call : call'[c].state = "failed" => call[c].state = "failed"
  BY DEF CallsOk, CallsMarked, callVars

\* The pipe stays as it is.
LEMMA InboxAlone ==
  ASSUME PipeOk, inbox' = inbox
  PROVE  /\ \E M : inbox' \in Seq(M)
         /\ OthersSent
         /\ \A i \in Inbox' : ~(i > Len(inbox))
  <1>1. Len(inbox) \in Nat
    BY LenProperties DEF PipeOk
  <1> QED BY <1>1 DEF PipeOk, OthersSent, Inbox

\* The sessions stay as they are.
LEMMA SessionsAlone ==
  ASSUME SessionsOk, session' = session
  PROVE  SessionsMarked
  BY DEF SessionsOk, SessionsMarked, Session

\* The targets stay as they are.
LEMMA TargetsAlone ==
  ASSUME TargetsOk, target' = target
  PROVE  TargetsMarked /\ \A t \in Target : target'[t].autoAttached = target[t].autoAttached
  BY DEF TargetsOk, TargetsMarked

\* A command other than those of newPage is sent or answered.
LEMMA OtherCommand ==
  ASSUME NEW kind \in {"attachTarget", "close", "dispose"}, NEW of
  PROVE  /\ commands' = commands \ {Command(kind, of)} => CallCommandsKept
         /\ commands' = commands \cup {Command(kind, of)} => CallCommandsKept
         /\ commands' = commands => CallCommandsKept
  BY DEF CallCommandsKept, Command

\* The inbox grows by one message.
LEMMA InboxGrows ==
  ASSUME PipeOk, NEW m, inbox' = Append(inbox, m)
  PROVE  /\ \E S : inbox' \in Seq(S)
         /\ Len(inbox) \in Nat /\ Len(inbox') = Len(inbox) + 1
         /\ \A i \in 1..Len(inbox) : inbox'[i] = inbox[i]
         /\ inbox'[Len(inbox) + 1] = m
  <1>1. PICK M : inbox \in Seq(M)
    BY DEF PipeOk
  <1>2. /\ \E S : Append(inbox, m) \in Seq(S)
        /\ Len(inbox) \in Nat /\ Len(Append(inbox, m)) = Len(inbox) + 1
        /\ \A i \in 1..Len(inbox) : Append(inbox, m)[i] = inbox[i]
        /\ Append(inbox, m)[Len(inbox) + 1] = m
    BY ONLY <1>1, Sent
  <1> QED BY ONLY <1>2, inbox' = Append(inbox, m)

\* One message arrives that is no answer to newPage and no attachment.
LEMMA OtherMessage ==
  ASSUME PipeOk, NEW m, Other(m), inbox' = Append(inbox, m), MessageOk(m)'
  PROVE  /\ \E M : inbox' \in Seq(M)
         /\ OthersSent
         /\ \A i \in Inbox' : i > Len(inbox) => MessageOk(inbox[i])'
  <1>2. /\ \E S : inbox' \in Seq(S)
        /\ Len(inbox) \in Nat /\ Len(inbox') = Len(inbox) + 1
        /\ \A i \in 1..Len(inbox) : inbox'[i] = inbox[i]
        /\ inbox'[Len(inbox) + 1] = m
    BY InboxGrows
  <1>3. ASSUME NEW i \in Inbox', i > Len(inbox) PROVE inbox'[i] = m
    <2>1. i = Len(inbox) + 1
      BY <1>2, <1>3 DEF Inbox
    <2> QED BY <1>2, <2>1
  <1> QED BY <1>2, <1>3 DEF OthersSent, Inbox

\* The first message is handled, and is no answer to newPage and no attachment.
LEMMA OtherHandled ==
  ASSUME PipeOk, inbox # <<>>, inbox' = Tail(inbox), Other(Head(inbox))
  PROVE  /\ \E M : inbox' \in Seq(M)
         /\ OtherTaken
         /\ \A i \in Inbox' : ~(i > Len(inbox))
  <1>1. PICK M : inbox \in Seq(M)
    BY DEF PipeOk
  <1>2. /\ \E S : inbox' \in Seq(S)
        /\ Len(inbox) \in Nat \ {0} /\ Len(inbox') = Len(inbox) - 1
        /\ \A i \in 1..Len(inbox') : inbox'[i] = inbox[i + 1]
        /\ Head(inbox) = inbox[1]
    BY <1>1, Taken
  <1> QED BY <1>2 DEF OtherTaken, Inbox

\* What the steps of Chrome do to targets and messages only.
LEMMA ChromeMarks ==
  ASSUME IInv, UNCHANGED <<session, pagesById, idVars, callVars, contextVars>>,
         TargetsMarked, \A t \in Target : target'[t].autoAttached = target[t].autoAttached,
         disposed' \in BOOLEAN,
         \E M : inbox' \in Seq(M), OthersSent,
         \A i \in Inbox' : i > Len(inbox) => MessageOk(inbox[i])',
         CallCommandsKept, \A m \in commands' : m \in commands
  PROVE  IInv'
  <1> USE DEF IInv
  <1>1. /\ attachedTargetIds' \subseteq Target /\ createdTargetIds' = createdTargetIds
        /\ closing' \subseteq Session /\ context' = context /\ pagesById' = pagesById
        /\ context' \in {"open", "closing", "disposing", "closed", "failed"}
        /\ environment' = environment
    BY DEF TargetsOk, SessionsOk, idVars, contextVars
  <1>2. SessionsMarked
    BY SessionsAlone
  <1>3. CallsMarked /\ \A c \in Call : call'[c].state = "failed" => call[c].state = "failed"
    BY CallsAlone
  <1>4. PagesOk'
    BY <1>1, <1>2, PagesStay
  <1> QED BY <1>1, <1>2, <1>3, <1>4, Marks

\* What the program does to sessions, commands and messages only.
LEMMA PageMarks ==
  ASSUME IInv, UNCHANGED <<chromeVars, pagesById, createdTargetIds, callVars, contextVars>>,
         attachedTargetIds' \subseteq Target, SessionsMarked,
         \E M : inbox' \in Seq(M), OthersSent \/ OtherTaken, \A i \in Inbox' : ~(i > Len(inbox)),
         CallCommandsKept, \A m \in commands' : m \in commands \/ CommandOk(m)'
  PROVE  IInv'
  <1> USE DEF IInv
  <1>1. /\ createdTargetIds' = createdTargetIds /\ disposed' \in BOOLEAN
        /\ closing' \subseteq Session /\ context' = context /\ pagesById' = pagesById
        /\ context' \in {"open", "closing", "disposing", "closed", "failed"}
        /\ environment' = environment
    BY DEF TargetsOk, SessionsOk, chromeVars, contextVars
  <1>2. TargetsMarked /\ \A t \in Target : target'[t].autoAttached = target[t].autoAttached
    BY TargetsAlone DEF chromeVars
  <1>3. CallsMarked /\ \A c \in Call : call'[c].state = "failed" => call[c].state = "failed"
    BY CallsAlone
  <1>4. PagesOk'
    BY <1>1, PagesStay
  <1> QED BY <1>1, <1>2, <1>3, <1>4, Marks

\* targetCreated arrives: its target exists.
LEMMA AnnouncesStep ==
  ASSUME IInv, NEW t \in Target, Announces(t)
  PROVE  IInv'
  <1>1. PICK says : inbox' = Append(inbox, Message("announced", t, says))
    BY DEF Announces
  <1>2. /\ UNCHANGED <<disposed, commands, session, pagesById, idVars, callVars, contextVars>>
        /\ target' = [target EXCEPT ![t].announced = TRUE]
    BY DEF Announces
  <1>3. TargetsMarked /\ \A u \in Target : target'[u].autoAttached = target[u].autoAttached
    BY <1>2, TargetMarks DEF IInv
  <1>4. MessageOk(Message("announced", t, says))'
    BY <1>3, MarkedShapes DEF MessageOk, Message, IInv
  <1>5. /\ \E M : inbox' \in Seq(M)
        /\ OthersSent
        /\ \A i \in Inbox' : i > Len(inbox) => MessageOk(inbox[i])'
    BY <1>1, <1>4, OtherMessage DEF Other, Message, IInv
  <1> QED BY <1>2, <1>3, <1>5, OtherCommand, ChromeMarks DEF IInv, TargetsOk

\* targetCrashed arrives: its target exists.
LEMMA KilledStep ==
  ASSUME IInv, NEW t \in Target, Killed(t)
  PROVE  IInv'
  <1>1. inbox' = Append(inbox, Message("killed", t, "ok"))
    BY DEF Killed
  <1>2. /\ UNCHANGED <<disposed, commands, session, pagesById, idVars, callVars, contextVars>>
        /\ target' = [target EXCEPT ![t].killed = TRUE]
    BY DEF Killed
  <1>3. TargetsMarked /\ \A u \in Target : target'[u].autoAttached = target[u].autoAttached
    BY <1>2, TargetMarks DEF IInv
  <1>4. MessageOk(Message("killed", t, "ok"))'
    BY <1>3, MarkedShapes DEF MessageOk, Message, IInv
  <1>5. /\ \E M : inbox' \in Seq(M)
        /\ OthersSent
        /\ \A i \in Inbox' : i > Len(inbox) => MessageOk(inbox[i])'
    BY <1>1, <1>4, OtherMessage DEF Other, Message, IInv
  <1> QED BY <1>2, <1>3, <1>5, OtherCommand, ChromeMarks DEF IInv, TargetsOk

\* A target closes: it is gone before its detached messages are handled.
LEMMA CloseTargetStep ==
  ASSUME IInv, NEW t \in Target, CloseTarget(t)
  PROVE  IInv'
  <1> DEFINE ofT == {s \in Session : session[s].of = t}
             n == Cardinality(ofT)
  <1>1. PICK goodbye \in Goodbyes(t) : inbox' = inbox \o goodbye
    BY DEF CloseTarget
  <1>2. /\ UNCHANGED <<disposed, commands, session, pagesById, idVars, callVars, contextVars>>
        /\ target' = [target EXCEPT ![t].open = FALSE]
    BY DEF CloseTarget
  <1>3. TargetsMarked /\ \A u \in Target : target'[u].autoAttached = target[u].autoAttached
    BY <1>2, TargetMarks DEF IInv
  <1>4. /\ Target' = Target /\ Session' = Session /\ ~target'[t].open
    <2>1. target \in [Target -> TargetRecord]
      BY Shapes DEF IInv
    <2> QED BY <1>2, <1>3, <2>1, MarkedShapes DEF IInv, Session, TargetRecord
  <1>5. PICK q \in [1..n -> ofT] :
          goodbye = [i \in DOMAIN q |-> Message("detached", q[i], "ok")] \o <<Message("destroyed", t, "ok")>>
    BY DEF Goodbyes
  <1>6. n \in Nat
    <2>1. IsFiniteSet(Session)
      BY Shapes, FS_Interval DEF IInv
    <2> QED BY <2>1, FS_Subset, FS_CardinalityType
  <1> HIDE DEF n
  <1> DEFINE d == [i \in 1..n |-> Message("detached", q[i], "ok")]
             D == {d[i] : i \in 1..n}
             last == <<Message("destroyed", t, "ok")>>
             L == {Message("destroyed", t, "ok")}
  <1>7. d \in Seq(D) /\ Len(d) = n
    BY <1>6, IsSequence
  <1>8. last \in Seq(L) /\ Len(last) = 1
    OBVIOUS
  <1>9. /\ \E S : goodbye \in Seq(S)
        /\ Len(goodbye) \in Nat
        /\ \A i \in 1..Len(goodbye) : goodbye[i] \in D \cup L
    <2>1. goodbye = d \o last
      BY <1>5
    <2> HIDE DEF d, D, last, L
    <2>2. \A i \in 1..Len(goodbye) : IF i <= Len(d) THEN goodbye[i] = d[i] /\ i \in 1..Len(d)
                                      ELSE goodbye[i] = last[i - Len(d)] /\ i - Len(d) \in 1..Len(last)
      BY <1>7, <1>8, <2>1, AllSent
    <2>3. (\A i \in 1..Len(d) : d[i] \in D) /\ (\A i \in 1..Len(last) : last[i] \in L)
      BY <1>7, <1>8, ElementOfSeq
    <2>4. /\ \E S : goodbye \in Seq(S)
          /\ Len(goodbye) \in Nat
      BY <1>7, <1>8, <2>1, AllSent, LenProperties
    <2> QED BY <2>2, <2>3, <2>4
  <1>10. ASSUME NEW m \in D \cup L PROVE Other(m) /\ MessageOk(m)'
    <2>1. CASE m \in L
      BY <1>4, <2>1 DEF Other, MessageOk, Message
    <2>2. CASE m \in D
      <3>1. PICK i \in 1..n : m = Message("detached", q[i], "ok")
        BY <2>2
      <3>2. q[i] \in Session /\ session'[q[i]].of = t
        BY <1>2
      <3> QED BY <1>4, <3>1, <3>2 DEF Other, MessageOk, Message
    <2> QED BY <2>1, <2>2
  <1> HIDE DEF d, D, last, L
  <1>11. /\ \E M : inbox' \in Seq(M)
         /\ OthersSent
         /\ \A i \in Inbox' : i > Len(inbox) => MessageOk(inbox[i])'
    <2>1. PICK M, S : inbox \in Seq(M) /\ goodbye \in Seq(S)
      BY <1>9 DEF IInv, PipeOk
    <2>2. /\ \E T : inbox' \in Seq(T)
          /\ Len(inbox) \in Nat /\ Len(inbox') = Len(inbox) + Len(goodbye)
          /\ \A i \in 1..Len(inbox) : inbox'[i] = inbox[i]
          /\ \A i \in 1..Len(inbox') : i > Len(inbox) =>
               i - Len(inbox) \in 1..Len(goodbye) /\ inbox'[i] = goodbye[i - Len(inbox)]
      BY <1>1, <2>1, AllSent
    <2>3. \A i \in Inbox' : i > Len(inbox) => inbox'[i] \in D \cup L
      BY <1>9, <2>2 DEF Inbox
    <2>4. \A i \in Inbox' : i > Len(inbox) => Other(inbox'[i]) /\ MessageOk(inbox[i])'
      BY <1>10, <2>3
    <2>5. Len(inbox') \in Nat /\ Len(inbox) <= Len(inbox')
      BY <1>9, <2>2
    <2> QED BY <2>2, <2>4, <2>5 DEF OthersSent, Inbox
  <1> QED BY <1>2, <1>3, <1>11, OtherCommand, ChromeMarks DEF IInv, TargetsOk

\* The answer to Page.close arrives: its session exists.
LEMMA AnswersCloseStep ==
  ASSUME IInv, NEW s \in Session, AnswersClose(s)
  PROVE  IInv'
  <1>1. PICK says : Answers(Command("close", s), Message("closed", s, says))
    BY DEF AnswersClose
  <1>2. /\ UNCHANGED <<disposed, session, pagesById, idVars, callVars, contextVars>>
        /\ target' = [target EXCEPT ![session[s].of].unloading = TRUE] \/ target' = target
    BY DEF AnswersClose
  <1>3. TargetsMarked /\ \A u \in Target : target'[u].autoAttached = target[u].autoAttached
    <2>1. PICK t \in Target : t = session[s].of
      BY DEF IInv, SessionsOk
    <2> QED BY <1>2, <2>1, TargetMarks DEF IInv
  <1>4. MessageOk(Message("closed", s, says))'
    BY <1>2 DEF MessageOk, Message, Session
  <1>5. /\ \E M : inbox' \in Seq(M)
        /\ OthersSent
        /\ \A i \in Inbox' : i > Len(inbox) => MessageOk(inbox[i])'
    BY <1>1, <1>4, OtherMessage DEF Answers, Other, Message, IInv
  <1>6. CallCommandsKept /\ \A m \in commands' : m \in commands
    BY <1>1, OtherCommand DEF Answers
  <1> QED BY <1>2, <1>3, <1>5, <1>6, ChromeMarks DEF IInv, TargetsOk

\* Chrome accepts or answers the disposal: no page changes.
LEMMA DisposesStep ==
  ASSUME IInv, Disposes
  PROVE  IInv'
  <1>1. UNCHANGED <<target, session, pagesById, idVars, callVars, contextVars>>
    BY DEF Disposes
  <1>2. TargetsMarked /\ \A u \in Target : target'[u].autoAttached = target[u].autoAttached
    BY <1>1, TargetsAlone DEF IInv
  <1>3. CASE disposed' = TRUE /\ UNCHANGED pipeVars
    BY <1>1, <1>2, <1>3, InboxAlone, OtherCommand, ChromeMarks DEF IInv, pipeVars
  <1>4. ASSUME NEW says, Answers(Command("dispose", None), Message("disposed", None, says)), UNCHANGED disposed
        PROVE  IInv'
    <2>1. MessageOk(Message("disposed", None, says))'
      BY DEF MessageOk, Message
    <2>2. /\ \E M : inbox' \in Seq(M)
          /\ OthersSent
          /\ \A i \in Inbox' : i > Len(inbox) => MessageOk(inbox[i])'
      BY <1>4, <2>1, OtherMessage DEF Answers, Other, Message, IInv
    <2>3. CallCommandsKept /\ \A m \in commands' : m \in commands
      BY <1>4, OtherCommand DEF Answers
    <2> QED BY <1>1, <1>2, <1>4, <2>2, <2>3, ChromeMarks DEF IInv, TargetsOk
  <1> QED BY <1>3, <1>4 DEF Disposes

-----------------------------------------------------------------------------
\* The steps of the program that mark only.

\* The timer of Page.close marks its page.
LEMMA CloseTimerStep ==
  ASSUME IInv, NEW s \in Session, CloseTimer(s)
  PROVE  IInv'
  <1>1. /\ UNCHANGED <<chromeVars, inbox, pagesById, idVars, callVars, contextVars>>
        /\ commands' = commands \ {Command("close", s)}
        /\ session' = [session EXCEPT ![s].close = "threw"] \/ session' = DidClose({s})
    BY DEF CloseTimer
  <1>2. SessionsMarked
    <2>1. session \in [Session -> SessionRecord] /\ \A p \in Session : session[p].closed => session[p].closing
      BY Shapes DEF IInv, SessionsOk
    <2>2. CASE session' = [session EXCEPT ![s].close = "threw"]
      BY <2>1, <2>2, CloseMarks DEF IInv
    <2>3. CASE session' = DidClose({s})
      BY <2>1, <2>3, DidCloseMarks, Marking DEF IInv
    <2> QED BY <1>1, <2>2, <2>3
  <1>3. CallCommandsKept
    BY <1>1, OtherCommand
  <1> QED BY <1>1, <1>2, <1>3, InboxAlone, PageMarks DEF IInv, TargetsOk, idVars

\* Page.close returns: its page is closed.
LEMMA CloseReturnsStep ==
  ASSUME IInv, NEW s \in Session, CloseReturns(s)
  PROVE  IInv'
  <1>1. /\ UNCHANGED <<chromeVars, inbox, pagesById, idVars, callVars, contextVars>>
        /\ commands' = commands \ {Command("close", s)}
        /\ session' = [DidClose({s}) EXCEPT ![s].close = "done"]
    BY DEF CloseReturns
  <1>2. SessionsMarked
    <2>1. \A p \in Session : session[p].closed => session[p].closing
      BY DEF IInv, SessionsOk
    <2>2. PICK d : d = DidClose({s})
      OBVIOUS
    <2>3. /\ d \in [Session -> SessionRecord]
          /\ \A p \in Session : /\ d[p].of = session[p].of /\ d[p].phase = session[p].phase
                                /\ d[p].awaits = session[p].awaits /\ d[p].opener = session[p].opener
                                /\ session[p].closed => d[p].closed
                                /\ d[p].closed => d[p].closing
      BY <2>1, <2>2, DidCloseMarks DEF IInv
    <2> QED BY <1>1, <2>2, <2>3, CloseMarks DEF IInv
  <1>3. CallCommandsKept
    BY <1>1, OtherCommand
  <1> QED BY <1>1, <1>2, <1>3, InboxAlone, PageMarks DEF IInv, TargetsOk, idVars

\* The commands of Page.close are about sessions.
LEMMA CloseCommandsOk ==
  ASSUME NEW P \in SUBSET Session
  PROVE  /\ \A m \in CloseCommands(P) : m.kind = "close" /\ CommandOk(m)
         /\ commands' = commands \cup CloseCommands(P) => CallCommandsKept
  <1>1. \A m \in CloseCommands(P) : m.kind = "close" /\ m.of \in Session /\ m = Command(m.kind, m.of)
    BY DEF CloseCommands, Closing, Command
  <1>2. \A m \in CloseCommands(P) : CommandOk(m)
    BY <1>1 DEF CommandOk
  <1>3. \A c \in Call : Command("create", c) \notin CloseCommands(P) /\ Command("attach", c) \notin CloseCommands(P)
    BY <1>1 DEF Command
  <1> QED BY <1>1, <1>2, <1>3 DEF CallCommandsKept

\* A page is closed: its command is about a session.
LEMMA UserClosesStep ==
  ASSUME IInv, NEW s \in Session, UserCloses(s)
  PROVE  IInv'
  <1>1. /\ UNCHANGED <<chromeVars, inbox, pagesById, idVars, callVars, contextVars>>
        /\ commands' = commands \cup CloseCommands({s})
        /\ session' = Close({s}, FALSE)
    BY DEF UserCloses
  <1>2. SessionsMarked
    BY <1>1, PageCloseMarks DEF IInv
  <1>3. CallCommandsKept /\ \A m \in commands' : m \in commands \/ CommandOk(m)'
    <2>1. /\ \A m \in CloseCommands({s}) : m.kind = "close" /\ CommandOk(m)
          /\ commands' = commands \cup CloseCommands({s}) => CallCommandsKept
      BY CloseCommandsOk
    <2>2. Session' = Session
      BY <1>2, MarkedShapes DEF IInv
    <2>3. \A m \in CloseCommands({s}) : CommandOk(m)'
      BY <2>1, <2>2 DEF CommandOk
    <2> QED BY <1>1, <2>1, <2>3
  <1> QED BY <1>1, <1>2, <1>3, InboxAlone, PageMarks DEF IInv, TargetsOk, idVars

\* A message is handled.
Handles(kind) ==
  /\ inbox # <<>> /\ inbox' = Tail(inbox) /\ Head(inbox).kind = kind
  /\ UNCHANGED <<chromeVars, environment>>

\* The first message is one of those under way.
LEMMA FirstMessage ==
  ASSUME PipeOk, inbox # <<>>
  PROVE  /\ Head(inbox) = inbox[1] /\ 1 \in Inbox /\ MessageOk(Head(inbox))
  <1>1. PICK M : inbox \in Seq(M)
    BY DEF PipeOk
  <1>2. Head(inbox) = inbox[1] /\ Len(inbox) \in Nat \ {0}
    BY <1>1, Taken
  <1> QED BY <1>2 DEF PipeOk, Inbox

\* The page of a destroyed target closes and stays in the map.
LEMMA DestroyedStep ==
  ASSUME IInv, Handles("destroyed"), OnDestroyed(Head(inbox).of)
  PROVE  IInv'
  <1>1. PICK t \in Target : t = Head(inbox).of
    BY FirstMessage DEF IInv, Handles, MessageOk
  <1>2. /\ UNCHANGED <<chromeVars, pagesById, createdTargetIds, callVars, commands, contextVars>>
        /\ session' = DidClose({PageOf(t)})
        /\ attachedTargetIds' \subseteq attachedTargetIds
    BY <1>1 DEF OnDestroyed, Handles, contextVars
  <1>3. SessionsMarked
    <2>1. \A p \in Session : session[p].closed => session[p].closing
      BY DEF IInv, SessionsOk
    <2> QED BY <1>2, <2>1, DidCloseMarks, Marking DEF IInv
  <1>4. Other(Head(inbox))
    BY DEF Handles, Other
  <1> QED BY <1>2, <1>3, <1>4, OtherHandled, OtherCommand, PageMarks DEF IInv, TargetsOk, Handles

\* The page of a killed target closes and stays in the map.
LEMMA OnKilledStep ==
  ASSUME IInv, Handles("killed"), OnKilled(Head(inbox).of)
  PROVE  IInv'
  <1>1. PICK t \in Target : t = Head(inbox).of
    BY FirstMessage DEF IInv, Handles, MessageOk
  <1>2. /\ UNCHANGED <<chromeVars, pagesById, idVars, callVars, commands, contextVars>>
        /\ session' = DidClose({PageOf(t)})
    BY <1>1 DEF OnKilled, Handles, contextVars
  <1>3. SessionsMarked
    <2>1. \A p \in Session : session[p].closed => session[p].closing
      BY DEF IInv, SessionsOk
    <2> QED BY <1>2, <2>1, DidCloseMarks, Marking DEF IInv
  <1>4. Other(Head(inbox))
    BY DEF Handles, Other
  <1> QED BY <1>2, <1>3, <1>4, OtherHandled, OtherCommand, PageMarks DEF IInv, TargetsOk, Handles, idVars

\* An announced target that nothing attached is attached to.
LEMMA OnAnnouncedStep ==
  ASSUME IInv, Handles("announced"), NEW attached, OnAnnounced(Head(inbox).of, attached)
  PROVE  IInv'
  <1>1. PICK t \in Target : t = Head(inbox).of
    BY FirstMessage DEF IInv, Handles, MessageOk
  <1>2. /\ UNCHANGED <<chromeVars, session, pagesById, idVars, callVars, contextVars>>
        /\ commands' = commands \/ commands' = commands \cup {Command("attachTarget", t)}
    BY <1>1 DEF OnAnnounced, Handles, contextVars
  <1>3. SessionsMarked
    BY <1>2, SessionsAlone DEF IInv
  <1>4. Other(Head(inbox))
    BY DEF Handles, Other
  <1>5. CommandOk(Command("attachTarget", t))'
    BY <1>2 DEF CommandOk, Command, chromeVars, Target
  <1> QED BY <1>2, <1>3, <1>4, <1>5, OtherHandled, OtherCommand, PageMarks DEF IInv, TargetsOk, Handles, idVars

\* The answer to Page.close marks its page.
LEMMA CloseAnsweredStep ==
  ASSUME IInv, Handles("closed"), NEW answer, OnCloseAnswered(Head(inbox).of, answer)
  PROVE  IInv'
  <1>1. PICK s \in Session : s = Head(inbox).of
    BY FirstMessage DEF IInv, Handles, MessageOk
  <1>2. PICK v \in {"threw", "acked"} : v = IF answer = "error" THEN "threw" ELSE "acked"
    OBVIOUS
  <1>3. PICK f : f = IF answer = "gone" THEN DidClose({s}) ELSE session
    OBVIOUS
  <1>4. /\ UNCHANGED <<chromeVars, pagesById, idVars, callVars, commands, contextVars>>
        /\ session' = session \/ session' = [f EXCEPT ![s].close = v]
    BY <1>1, <1>2, <1>3 DEF OnCloseAnswered, Handles, contextVars
  <1>5. SessionsMarked
    <2>1. \A p \in Session : session[p].closed => session[p].closing
      BY DEF IInv, SessionsOk
    <2>2. /\ f \in [Session -> SessionRecord]
          /\ \A p \in Session : /\ f[p].of = session[p].of /\ f[p].phase = session[p].phase
                                /\ f[p].awaits = session[p].awaits /\ f[p].opener = session[p].opener
                                /\ session[p].closed => f[p].closed
                                /\ f[p].closed => f[p].closing
      BY <1>3, <2>1, Shapes, DidCloseMarks DEF IInv
    <2>3. CASE session' = session
      BY <2>3, SessionsAlone DEF IInv
    <2>4. CASE session' = [f EXCEPT ![s].close = v]
      BY <2>2, <2>4, CloseMarks DEF IInv
    <2> QED BY <1>4, <2>3, <2>4
  <1>6. Other(Head(inbox))
    BY DEF Handles, Other
  <1> QED BY <1>4, <1>5, <1>6, OtherHandled, OtherCommand, PageMarks DEF IInv, TargetsOk, Handles, idVars

-----------------------------------------------------------------------------
\* The steps of the context.

\* Closing or cleaning up the context.
LEMMA ContextMarks ==
  ASSUME IInv, UNCHANGED <<chromeVars, idVars, environment>>,
         SessionsMarked, CallsMarked, PagesOk',
         closing' \subseteq Session,
         context' \in {"closing", "disposing", "closed", "failed"},
         context' # "closed" => context # "closed" /\ pagesById' = pagesById,
         \E M : inbox' \in Seq(M), OthersSent \/ OtherTaken, \A i \in Inbox' : ~(i > Len(inbox)),
         CallCommandsKept, \A m \in commands' : m \in commands \/ CommandOk(m)'
  PROVE  IInv'
  <1> USE DEF IInv
  <1>1. /\ attachedTargetIds' \subseteq Target /\ createdTargetIds' = createdTargetIds
        /\ disposed' \in BOOLEAN /\ environment' = environment
    BY DEF TargetsOk, chromeVars, idVars
  <1>2. TargetsMarked /\ \A t \in Target : target'[t].autoAttached = target[t].autoAttached
    BY TargetsAlone DEF chromeVars
  <1>3. \A c \in Call : Reason(c)'
    BY DEF Reason
  <1> QED BY <1>1, <1>2, <1>3, Marks

\* The pages are closed, or a close failed: the context is disposed of or fails.
LEMMA PagesClosedStep ==
  ASSUME IInv, PagesClosed
  PROVE  IInv'
  <1>1. /\ UNCHANGED <<chromeVars, inbox, session, pagesById, idVars, callVars, closing, environment>>
        /\ context = "closing" /\ context' \in {"disposing", "failed"}
        /\ commands' = commands \/ commands' = commands \cup {Command("dispose", None)}
    BY DEF PagesClosed
  <1>2. SessionsMarked
    BY <1>1, SessionsAlone DEF IInv
  <1>3. CallsMarked
    BY <1>1, CallsAlone DEF IInv
  <1>4. PagesOk'
    BY <1>1, <1>2, PagesStay DEF IInv
  <1>5. CommandOk(Command("dispose", None))'
    BY DEF CommandOk, Command
  <1> QED BY <1>1, <1>2, <1>3, <1>4, <1>5, InboxAlone, OtherCommand, ContextMarks DEF IInv, SessionsOk

\* Cleanup closes the pages that are left.
LEMMA CleanupMarks ==
  ASSUME TargetsOk, SessionsOk, PagesOk, Cleanup
  PROVE  SessionsMarked /\ PagesOk' /\ context' = "closed"
  <1>1. context' = "closed" /\ session' = DidClose(ToSet(pagesById)) /\ pagesById' = <<>>
    BY DEF Cleanup
  <1>2. SessionsMarked
    <2>1. \A p \in Session : session[p].closed => session[p].closing
      BY DEF SessionsOk
    <2>2. PICK P : P = ToSet(pagesById)
      OBVIOUS
    <2> QED BY <1>1, <2>1, <2>2, DidCloseMarks, Marking
  <1>3. \A s : Contains(pagesById, s) => s \in ToSet(pagesById)
    <2>1. DOMAIN pagesById = 1..Len(pagesById)
      BY LenProperties DEF PagesOk
    <2> QED BY <2>1 DEF Contains, ToSet
  <1>4. Session' = Session
    BY <1>2, MarkedShapes
  <1>5. \A s \in Session : IsPage(s)' => session'[s].closed
    <2>1. PICK P : P = ToSet(pagesById)
      OBVIOUS
    <2>2. \A s \in Session : session'[s].closed <=> session[s].closed \/ s \in P
      BY <1>1, <2>1, DidCloseMarks
    <2>3. \A s \in Session : IsPage(s)' => IsPage(s)
      BY <1>2 DEF IsPage, SessionsMarked
    <2> QED BY <1>3, <2>1, <2>2, <2>3 DEF PagesOk
  <1>6. pagesById' \in Seq(Nat) /\ Distinct(pagesById') /\ \A x : ~Contains(pagesById', x)
    BY <1>1, EmptyMembers
  <1> QED BY <1>1, <1>2, <1>4, <1>5, <1>6 DEF PagesOk

\* The timer of the disposal cleans up.
LEMMA DisposeTimerStep ==
  ASSUME IInv, DisposeTimer
  PROVE  IInv'
  <1>1. /\ UNCHANGED <<chromeVars, pipeVars, idVars, callVars, closing, environment>>
        /\ Cleanup
    BY DEF DisposeTimer
  <1>2. SessionsMarked /\ PagesOk' /\ context' = "closed"
    BY <1>1, CleanupMarks DEF IInv
  <1>3. CallsMarked
    BY <1>1, CallsAlone DEF IInv
  <1> QED BY <1>1, <1>2, <1>3, InboxAlone, OtherCommand, ContextMarks DEF IInv, SessionsOk, pipeVars

\* The answer to the disposal cleans up or fails.
LEMMA DisposedStep ==
  ASSUME IInv, Handles("disposed"), NEW ok, OnDisposed(ok)
  PROVE  IInv'
  <1>1. UNCHANGED <<chromeVars, environment, idVars, callVars, commands, closing>>
    BY DEF OnDisposed, Handles
  <1>2. Other(Head(inbox))
    BY DEF Handles, Other
  <1>3. /\ \E M : inbox' \in Seq(M)
        /\ OthersSent \/ OtherTaken
        /\ \A i \in Inbox' : ~(i > Len(inbox))
    BY <1>2, OtherHandled DEF IInv, Handles
  <1>4. CallsMarked
    BY <1>1, CallsAlone DEF IInv
  <1>5. CallCommandsKept
    BY <1>1, OtherCommand
  <1>6. CASE context # "disposing"
    <2>1. UNCHANGED <<chromeVars, pagesById, idVars, callVars, commands, session, contextVars>>
      BY <1>1, <1>6 DEF OnDisposed, contextVars
    <2>2. SessionsMarked
      BY <2>1, SessionsAlone DEF IInv
    <2> QED BY <1>3, <1>5, <2>1, <2>2, PageMarks DEF IInv, TargetsOk, idVars
  <1>7. CASE context = "disposing" /\ Cleanup
    <2>1. SessionsMarked /\ PagesOk' /\ context' = "closed"
      BY <1>7, CleanupMarks DEF IInv
    <2> QED BY <1>1, <1>3, <1>4, <1>5, <2>1, ContextMarks DEF IInv, SessionsOk
  <1>8. CASE context = "disposing" /\ context' = "failed" /\ UNCHANGED <<session, pagesById>>
    <2>1. SessionsMarked
      BY <1>8, SessionsAlone DEF IInv
    <2>2. PagesOk'
      BY <1>8, <2>1, PagesStay DEF IInv
    <2> QED BY <1>1, <1>3, <1>4, <1>5, <1>8, <2>1, <2>2, ContextMarks DEF IInv, SessionsOk
  <1> QED BY <1>6, <1>7, <1>8 DEF OnDisposed

\* close() closes the pages and fails the calls that wait, which is their reason.
LEMMA CloseContextStep ==
  ASSUME IInv, CloseContext
  PROVE  IInv'
  <1>1. PICK P : P = ToSet(pagesById)
    OBVIOUS
  <1>2. /\ UNCHANGED <<chromeVars, inbox, pagesById, idVars, creating, environment>>
        /\ context = "open" /\ context' = "closing" /\ closing' = P
        /\ session' = Close(P, TRUE)
        /\ commands' = commands \cup CloseCommands(P)
        /\ call' = [c \in Call |-> IF call[c].state = "waiting" THEN [call[c] EXCEPT !.state = "failed"]
                                   ELSE call[c]]
    BY <1>1 DEF CloseContext
  <1>3. P \in SUBSET Session
    <2>1. DOMAIN pagesById = 1..Len(pagesById)
      BY LenProperties DEF IInv, PagesOk
    <2> QED BY <1>1, <2>1 DEF IInv, PagesOk, ToSet, Contains
  <1>4. SessionsMarked
    BY <1>2, PageCloseMarks DEF IInv
  <1>5. CallCommandsKept /\ \A m \in commands' : m \in commands \/ CommandOk(m)'
    <2>1. /\ \A m \in CloseCommands(P) : m.kind = "close" /\ CommandOk(m)
          /\ commands' = commands \cup CloseCommands(P) => CallCommandsKept
      BY <1>3, CloseCommandsOk
    <2>2. Session' = Session
      BY <1>4, MarkedShapes DEF IInv
    <2>3. \A m \in CloseCommands(P) : CommandOk(m)'
      BY <2>1, <2>2 DEF CommandOk
    <2> QED BY <1>2, <2>1, <2>3
  <1>6. CallsMarked
    <2>1. ASSUME NEW c \in Call
          PROVE  /\ call'[c] \in CallRecord /\ call'[c].of = call[c].of /\ call'[c].page = call[c].page
                 /\ \/ call'[c].state = call[c].state
                    \/ call[c].state = "waiting" /\ call'[c].state = "failed"
      <3>1. call[c] \in CallRecord
        BY DEF IInv, CallsOk
      <3> QED BY <1>2, <3>1 DEF CallRecord
    <2>2. call' \in [Call -> CallRecord]
      BY <1>2, <2>1
    <2>3. \A c \in Call : call[c].state = "failed" => call'[c] = call[c]
      BY <1>2
    <2> QED BY <1>2, <2>1, <2>2, <2>3 DEF CallsMarked, IInv, CallsOk
  <1>7. PagesOk'
    BY <1>2, <1>4, PagesStay DEF IInv
  <1> QED BY <1>2, <1>3, <1>4, <1>5, <1>6, <1>7, InboxAlone, ContextMarks DEF IInv

-----------------------------------------------------------------------------
\* The steps of newPage that Chrome has no part in.

\* Only the state of a call changes.
LEMMA CallMarks ==
  ASSUME IInv, UNCHANGED <<chromeVars, pipeVars, session, pagesById, idVars, creating, contextVars>>,
         NEW c \in Call, call[c].state \in {"waiting", "opening"},
         NEW v \in {"done", "failed"}, call' = [call EXCEPT ![c].state = v],
         v = "failed" => Reason(c)
  PROVE  IInv'
  <1> USE DEF IInv
  <1>1. /\ attachedTargetIds' \subseteq Target /\ createdTargetIds' = createdTargetIds
        /\ disposed' \in BOOLEAN /\ environment' = environment /\ pagesById' = pagesById
        /\ closing' \subseteq Session /\ context' = context
        /\ context' \in {"open", "closing", "disposing", "closed", "failed"}
    BY DEF TargetsOk, SessionsOk, chromeVars, idVars, contextVars
  <1>2. TargetsMarked /\ \A t \in Target : target'[t].autoAttached = target[t].autoAttached
    BY TargetsAlone DEF chromeVars
  <1>3. SessionsMarked
    BY SessionsAlone
  <1>4. /\ \A d \in Call : call'[d] \in CallRecord /\ call'[d].of = call[d].of /\ call'[d].page = call[d].page
        /\ \A d \in Call : d # c => call'[d] = call[d]
        /\ call'[c].state = v
    <2>1. call \in [Call -> CallRecord]
      BY DEF CallsOk
    <2>2. \A d \in Call : d # c => call'[d] = call[d]
      BY <2>1
    <2>3. call'[c] = [call[c] EXCEPT !.state = v] /\ call[c] \in CallRecord
      BY <2>1
    <2>4. /\ call'[c] \in CallRecord /\ call'[c].of = call[c].of /\ call'[c].page = call[c].page
          /\ call'[c].state = v
      BY <2>3 DEF CallRecord
    <2> QED BY <2>1, <2>2, <2>4
  <1>5. CallsMarked
    <2>1. call' \in [Call -> CallRecord]
      <3>1. call' = [d \in Call |-> call'[d]]
        BY DEF CallsOk
      <3> QED BY <1>4, <3>1
    <2> QED BY <1>4, <2>1 DEF CallsMarked, CallsOk
  <1>6. \A d \in Call : call'[d].state = "failed" => call[d].state = "failed" \/ Reason(d)'
    <2>1. ASSUME v = "failed" PROVE Reason(c)'
      <3>1. Reason(c)
        BY <2>1
      <3>2. \A d \in creating : call[d].state = "failed" => call'[d].state = "failed"
        BY <1>4 DEF CallsOk
      <3> QED BY <1>4, <3>1, <3>2 DEF Reason, chromeVars, contextVars
    <2> QED BY <1>4, <2>1
  <1>7. PagesOk'
    BY <1>1, <1>3, PagesStay
  <1> QED BY <1>1, <1>2, <1>3, <1>5, <1>6, <1>7, InboxAlone, OtherCommand, Marks DEF pipeVars

\* A call ends with its page: it fails if that failed or was closed.
LEMMA OpensStep ==
  ASSUME IInv, NEW c \in Call, Opens(c)
  PROVE  IInv'
  <1>1. PICK s \in Session : s = call[c].page /\ s # 0
    BY DEF Opens, IInv, CallsOk
  <1>2. PICK v \in {"done", "failed"} : v = IF session[s].phase = "ready" /\ ~session[s].closed THEN "done" ELSE "failed"
    OBVIOUS
  <1>3. /\ UNCHANGED <<chromeVars, pipeVars, session, pagesById, idVars, creating, contextVars>>
        /\ call[c].state = "opening" /\ session[s].phase \in {"ready", "failed"}
        /\ call' = [call EXCEPT ![c].state = v]
    BY <1>1, <1>2 DEF Opens
  <1>4. v = "failed" => Reason(c)
    BY <1>1, <1>2, <1>3 DEF Reason
  <1> QED BY <1>3, <1>4, CallMarks

\* The wait of a call times out only if no attachment is under way, which has a reason.
LEMMA WaitTimesOutStep ==
  ASSUME IInv, NEW c \in Call, WaitTimesOut(c)
  PROVE  IInv'
  <1>1. /\ UNCHANGED <<chromeVars, pipeVars, session, pagesById, idVars, creating, contextVars>>
        /\ call[c].state = "waiting" /\ call' = [call EXCEPT ![c].state = "failed"] /\ Stalled
    BY DEF WaitTimesOut, Fails
  <1>2. Reason(c)
    <2>1. SUFFICES ASSUME ~Reason(c) PROVE FALSE
      OBVIOUS
    <2>2. inbox = <<>> /\ commands = {}
      BY <1>1 DEF Stalled
    <2>3. Inbox = {}
      BY <2>2 DEF Inbox
    <2>4. creating = {}
      <3>1. ASSUME NEW d \in creating PROVE FALSE
        <4>1. d \in Call /\ call[d].state \in {"creating", "attaching"}
          BY <2>1 DEF IInv, CallsOk, Reason
        <4>2. Asked(d) \/ Answered(d)
          BY <4>1 DEF IInv, UnderWayOk
        <4> QED BY <2>2, <2>3, <4>2 DEF Asked, Answered
      <3> QED BY <3>1
    <2>5. PICK t \in Target : t = call[c].of /\ target[t].open
      BY <1>1, <2>1 DEF IInv, CallsOk, Reason
    <2>6. target[t].autoAttached /\ context = "open"
      BY <1>1, <2>1, <2>5 DEF Stalled, Reason
    <2>7. PICK s \in Session : /\ session[s].of = t
                               /\ session[s].phase \in {"announced", "waiting"} \/ Contains(pagesById, s)
      BY <2>5, <2>6 DEF IInv, MeetOk
    <2>8. CASE session[s].phase = "announced"
      BY <2>3, <2>8 DEF IInv, AttachedOk
    <2>9. CASE session[s].phase = "waiting"
      BY <1>1, <2>4, <2>9 DEF Stalled
    <2>10. CASE Contains(pagesById, s)
      BY <1>1, <2>5, <2>6, <2>7, <2>10 DEF IInv, MeetOk, HasPage
    <2> QED BY <2>7, <2>8, <2>9, <2>10
  <1> QED BY <1>1, <1>2, CallMarks

-----------------------------------------------------------------------------
\* Targets are created.

\* Messages and commands keep their meaning when Chrome acts on targets and sessions.
LEMMA PipeKept ==
  ASSUME TargetsOk, SessionsOk, PipeOk, Target \subseteq Target', Session \subseteq Session',
         \A t \in Target : /\ target'[t].creator = target[t].creator
                           /\ target'[t].open => target[t].open,
         \A s \in Session : /\ session'[s].of = session[s].of
                            /\ session'[s].phase = session[s].phase
  PROVE  \A m : /\ MessageOk(m) => MessageOk(m)'
                /\ CommandOk(m) => CommandOk(m)'
  <1> TAKE m
  <1>1. /\ MessageOk(m) /\ (m.kind = "attached" => session'[m.of].phase = "announced")
            => MessageOk(m)'
        /\ CommandOk(m) => CommandOk(m)'
    BY MessagesStay
  <1>2. MessageOk(m) /\ m.kind = "attached" => session'[m.of].phase = "announced"
    BY DEF MessageOk
  <1> QED BY <1>1, <1>2

\* The pages do not depend on targets.
LEMMA PagesAlone ==
  ASSUME PagesOk, UNCHANGED <<session, pagesById, context>>
  PROVE  PagesOk'
  BY DEF PagesOk, Session, IsPage

\* A new target: a call has none yet, and it knows that it creates one.
LEMMA AddsTarget ==
  ASSUME IInv, NEW creator \in Call \cup {None}, NEW opener \in {0} \cup Target,
         NewTarget(creator, opener),
         UNCHANGED <<disposed, pipeVars, session, pagesById, idVars, callVars, contextVars>>,
         creator # None => /\ opener = 0 /\ ~HasTarget(creator)
                           /\ creator \in creating /\ call[creator].state = "creating",
         creator = None => Len(target) + Cardinality({c \in Call : ~HasTarget(c)}) < MaxTargets
  PROVE  IInv'
  <1> USE DEF IInv
  <1> DEFINE n == Len(target) + 1
             S == {c \in Call : ~HasTarget(c)}
             r == [open |-> TRUE, creator |-> creator, opener |-> opener, announced |-> FALSE,
                   autoAttached |-> FALSE, unloading |-> FALSE, killed |-> FALSE]
  <1>1. /\ Len(target) \in Nat /\ Target = 1..Len(target) /\ target \in [Target -> TargetRecord]
        /\ Session = 1..Len(session)
    BY Shapes
  <1>2. IsFiniteSet(S) /\ Cardinality(S) \in Nat
    <2>1. S \in SUBSET Call /\ IsFiniteSet(Call)
      BY PageAssumption
    <2> QED BY <2>1, FS_Subset, FS_CardinalityType
  <1>3. r \in TargetRecord
    <2>1. opener \in 0..MaxTargets
      BY <1>1, <1>2, PageAssumption DEF TargetsOk
    <2> QED BY <2>1 DEF TargetRecord
  <1>4. /\ target' \in Seq(TargetRecord) /\ Len(target') = n
        /\ \A t \in Target : target'[t] = target[t]
        /\ target'[n] = r
    <2>1. target' = Append(target, r) /\ target \in Seq(TargetRecord)
      BY DEF NewTarget, TargetsOk
    <2> HIDE DEF r
    <2> QED BY <1>1, <1>3, <2>1, AppendProperties
  <1>5. Target' = Target \cup {n} /\ n \notin Target
    <2>1. Target' = 1..n
      BY <1>4, LenProperties DEF Target
    <2> QED BY <1>1, <2>1
  <1>6. /\ UNCHANGED <<disposed, commands, inbox, session, pagesById, attachedTargetIds,
                       createdTargetIds, call, creating, context, closing, environment>>
        /\ Session' = Session
    BY DEF pipeVars, idVars, callVars, contextVars, Session
  <1>7. \A c \in Call : HasTarget(c)' <=> HasTarget(c) \/ c = creator
    <2>1. target'[n].creator = creator
      BY <1>4
    <2> QED BY <1>4, <1>5, <2>1 DEF HasTarget
  <1>8. target'[n].creator = creator /\ target'[n].opener = opener /\ target'[n].autoAttached = FALSE
    BY <1>4
  <1> HIDE DEF r, n
  <1>9. TargetsOk'
    <2>1. Len(target') + Cardinality({c \in Call : ~HasTarget(c)}') <= MaxTargets
      <3>1. {c \in Call : ~HasTarget(c)}' = S \ {creator}
        BY <1>7
      <3>2. PICK k \in Nat : k = Cardinality(S)
        BY <1>2
      <3>3. Len(target) + k <= MaxTargets
        BY <3>2 DEF TargetsOk
      <3>4. CASE creator = None
        <4>1. S \ {creator} = S
          BY <3>4, PageAssumption
        <4>2. Len(target) + k < MaxTargets
          BY <3>2, <3>4
        <4>3. n + k <= MaxTargets
          BY <1>1, <4>2, PageAssumption DEF n
        <4> QED BY <1>4, <3>1, <3>2, <4>1, <4>3
      <3>5. CASE creator # None
        <4>1. creator \in S
          BY <3>5
        <4>2. Cardinality(S \ {creator}) = Cardinality(S) - 1
          BY <1>2, <4>1, FS_RemoveElement
        <4>3. n + (k - 1) <= MaxTargets
          BY <1>1, <3>3, PageAssumption DEF n
        <4> QED BY <1>4, <3>1, <3>2, <4>2, <4>3
      <3> QED BY <3>4, <3>5
    <2>2. \A t, u \in Target' : target'[t].creator = target'[u].creator /\ t # u => target'[t].creator = None
      <3>1. \A t \in Target : target[t].creator = creator => creator = None
        BY DEF HasTarget
      <3> QED BY <1>4, <1>5, <1>8, <3>1 DEF TargetsOk
    <2>3. \A t \in Target' : target'[t].creator # None => target'[t].opener = 0
      BY <1>4, <1>5, <1>8 DEF TargetsOk
    <2> QED BY <1>4, <1>5, <1>6, <2>1, <2>2, <2>3 DEF TargetsOk
  <1>10. SessionsOk'
    BY <1>5, <1>6 DEF SessionsOk
  <1>11. PagesOk'
    BY <1>6, PagesAlone
  <1>12. \A m : /\ MessageOk(m) => MessageOk(m)'
                /\ CommandOk(m) => CommandOk(m)'
    BY <1>4, <1>5, <1>6, PipeKept
  <1>13. PipeOk'
    BY <1>6, <1>12 DEF PipeOk, Inbox
  <1>14. AttachedOk'
    BY <1>6 DEF AttachedOk, Inbox
  <1>15. CallsOk'
    BY <1>5, <1>6 DEF CallsOk
  <1>16. UnderWayOk'
    BY <1>6 DEF UnderWayOk, Asked, Answered, Answer, Inbox
  <1>17. \A s \in Session : session[s].of \in Target
    BY DEF SessionsOk
  <1>18. CreatorsOk'
    BY <1>4, <1>5, <1>6, <1>8, <1>17 DEF CreatorsOk
  <1>19. MeetOk'
    <2>1. \A t : HasPage(t)' <=> HasPage(t)
      BY <1>6 DEF HasPage
    <2> QED BY <1>4, <1>5, <1>6, <1>8, <2>1 DEF MeetOk
  <1>20. NewPageIsNoPopup'
    BY <1>4, <1>6, <1>17 DEF NewPageIsNoPopup, IsPage
  <1>21. NewPageFailsForAReason'
    BY <1>4, <1>5, <1>6, ReasonsStay
  <1> QED BY <1>9, <1>10, <1>11, <1>13, <1>14, <1>15, <1>16, <1>18, <1>19, <1>20, <1>21

\* Chrome creates the target of a call, the only one.
LEMMA CreatesTargetStep ==
  ASSUME IInv, NEW c \in Call, CreatesTarget(c)
  PROVE  IInv'
  <1>1. /\ NewTarget(c, 0) /\ Command("create", c) \in commands /\ TargetOf(c) = 0
        /\ UNCHANGED <<disposed, pipeVars, session, pagesById, idVars, callVars, contextVars>>
    BY DEF CreatesTarget
  <1>2. ~HasTarget(c) /\ c # None
    BY <1>1, TargetFound, PageAssumption DEF IInv
  <1>3. call[c].state = "creating" /\ c \in creating
    BY <1>1 DEF IInv, UnderWayOk, CallsOk
  <1> QED BY <1>1, <1>2, <1>3, AddsTarget

\* A page opens a target, which no call asked for.
LEMMA PopupStep ==
  ASSUME IInv, NEW s \in Session, Popup(s)
  PROVE  IInv'
  <1>1. PICK t \in Target : t = session[s].of
    BY DEF IInv, SessionsOk
  <1>2. /\ NewTarget(None, t)
        /\ UNCHANGED <<disposed, pipeVars, session, pagesById, idVars, callVars, contextVars>>
        /\ Len(target) + Cardinality({c \in Call : TargetOf(c) = 0}) < MaxTargets
    BY <1>1 DEF Popup
  <1>3. {c \in Call : TargetOf(c) = 0} = {c \in Call : ~HasTarget(c)}
    BY TargetFound DEF IInv
  <1> QED BY <1>2, <1>3, AddsTarget

-----------------------------------------------------------------------------
\* Chrome attaches and answers newPage.

\* Messages arrive.
Arrives ==
  /\ Len(inbox') \in Nat /\ Len(inbox) \in Nat /\ Len(inbox) <= Len(inbox')
  /\ \A i \in Inbox : i \in Inbox' /\ inbox'[i] = inbox[i]
  /\ \A i \in Inbox' : i \in Inbox \/ i > Len(inbox)

\* A message is appended, or none.
LEMMA Joined ==
  ASSUME NEW M, NEW q \in Seq(M), NEW m
  PROVE  q \o <<m>> = Append(q, m) /\ q \o <<>> = q
  <1>1. q \in Seq(M \cup {m}) /\ m \in M \cup {m}
    <2>1. \A i \in 1..Len(q) : q[i] \in M \cup {m}
      BY ElementOfSeq
    <2> QED BY <2>1, LenProperties, SeqDef
  <1> QED BY <1>1, AppendIsConcat, ConcatEmptySeq

\* Up to two messages arrive.
LEMMA OneArrives ==
  ASSUME PipeOk, NEW x, inbox' = Append(inbox, x)
  PROVE  /\ \E S : inbox' \in Seq(S)
         /\ Arrives /\ Len(inbox') = Len(inbox) + 1 /\ inbox'[Len(inbox) + 1] = x
         /\ \A i \in Inbox' : i > Len(inbox) => i = Len(inbox) + 1
  <1>2. /\ \E S : inbox' \in Seq(S)
        /\ Len(inbox) \in Nat /\ Len(inbox') = Len(inbox) + 1
        /\ \A i \in 1..Len(inbox) : inbox'[i] = inbox[i]
        /\ inbox'[Len(inbox) + 1] = x
    BY InboxGrows
  <1> QED BY <1>2 DEF Arrives, Inbox

\* Two messages arrive.
LEMMA TwoArrive ==
  ASSUME PipeOk, NEW x, NEW y, inbox' = Append(Append(inbox, x), y)
  PROVE  /\ \E S : inbox' \in Seq(S)
         /\ Arrives /\ Len(inbox') = Len(inbox) + 2
         /\ inbox'[Len(inbox) + 1] = x /\ inbox'[Len(inbox) + 2] = y
         /\ \A i \in Inbox' : i > Len(inbox) => i = Len(inbox) + 1 \/ i = Len(inbox) + 2
  <1>1. PICK M : inbox \in Seq(M)
    BY DEF PipeOk
  <1>2. PICK a : a = Append(inbox, x)
    OBVIOUS
  <1>3. /\ \E S : a \in Seq(S)
        /\ Len(inbox) \in Nat /\ Len(a) = Len(inbox) + 1
        /\ \A i \in 1..Len(inbox) : a[i] = inbox[i]
        /\ a[Len(inbox) + 1] = x
    <2>1. /\ \E S : Append(inbox, x) \in Seq(S)
          /\ Len(inbox) \in Nat /\ Len(Append(inbox, x)) = Len(inbox) + 1
          /\ \A i \in 1..Len(inbox) : Append(inbox, x)[i] = inbox[i]
          /\ Append(inbox, x)[Len(inbox) + 1] = x
      BY <1>1, Sent
    <2> QED BY <1>2, <2>1
  <1>4. PICK N : a \in Seq(N)
    BY <1>3
  <1>5. /\ \E S : inbox' \in Seq(S)
        /\ Len(a) \in Nat /\ Len(inbox') = Len(a) + 1
        /\ \A i \in 1..Len(a) : inbox'[i] = a[i]
        /\ inbox'[Len(a) + 1] = y
    <2>1. inbox' = Append(a, y)
      BY <1>2
    <2> QED BY <1>4, <2>1, Sent
  <1>6. Len(inbox') = Len(inbox) + 2 /\ Len(a) + 1 = Len(inbox) + 2
    BY <1>3, <1>5
  <1>7. inbox'[Len(inbox) + 1] = x
    BY <1>3, <1>5
  <1>8. \A i \in 1..Len(inbox) : inbox'[i] = inbox[i]
    BY <1>3, <1>5
  <1> QED BY <1>3, <1>5, <1>6, <1>7, <1>8 DEF Arrives, Inbox

\* No attachment arrives.
LEMMA AttachedKept ==
  ASSUME AttachedOk, Arrives, session' = session,
         \A i \in Inbox' : i > Len(inbox) => inbox'[i].kind # "attached"
  PROVE  AttachedOk'
  <1>1. \A i \in Inbox' : inbox'[i].kind = "attached" => i \in Inbox /\ inbox'[i] = inbox[i]
    BY DEF Arrives
  <1>2. \A i \in Inbox : i \in Inbox' /\ inbox'[i] = inbox[i]
    BY DEF Arrives
  <1> QED BY <1>1, <1>2 DEF AttachedOk, Session

\* The answer to newPage arrives and its command is gone.
LEMMA AnswerSent ==
  ASSUME UnderWayOk, UNCHANGED call, Arrives, NEW c \in Call, Asked(c),
         NEW k \in Inbox', k > Len(inbox), inbox'[k].of = c,
         inbox'[k].kind = IF call[c].state = "creating" THEN "created" ELSE "attachedFor",
         \A i \in Inbox' : i > Len(inbox) /\ inbox'[i].kind \in {"created", "attachedFor"} => i = k,
         \A d \in Call : \A kind \in {"create", "attach"} :
           Command(kind, d) \in commands' <=> Command(kind, d) \in commands /\ d # c
  PROVE  UnderWayOk'
  <1>1. call[c].state \in {"creating", "attaching"} /\ ~Answered(c)
    BY DEF UnderWayOk, Asked
  <1>2. ~Asked(c)' /\ \A d \in Call : d # c => (Asked(d)' <=> Asked(d))
    BY DEF Asked
  <1>3. \A i \in Inbox : i # k
    BY DEF Inbox
  <1>4. ASSUME NEW d \in Call, NEW i \in Inbox' 
        PROVE  Answer(i, d)' <=> (i \in Inbox /\ Answer(i, d)) \/ (i = k /\ d = c)
    <2>1. CASE i \in Inbox
      BY <1>3, <2>1 DEF Arrives, Answer
    <2>2. CASE i > Len(inbox)
      <3>1. i \notin Inbox
        BY <2>2 DEF Inbox
      <3> QED BY <2>2, <3>1 DEF Answer
    <2> QED BY <2>1, <2>2 DEF Arrives
  <1>5. \A i \in Inbox : i \in Inbox' /\ inbox'[i] = inbox[i]
    BY DEF Arrives
  <1>6. Answered(c)' /\ \A d \in Call : d # c => (Answered(d)' <=> Answered(d))
    BY <1>4, <1>5 DEF Answered
  <1> SUFFICES ASSUME NEW d \in Call
               PROVE  /\ Command("create", d) \in commands' => call[d].state = "creating"
                      /\ Command("attach", d) \in commands' => call[d].state = "attaching"
                      /\ \A i \in Inbox' : Answer(i, d)' =>
                           /\ call[d].state = IF inbox'[i].kind = "created" THEN "creating" ELSE "attaching"
                           /\ \A j \in Inbox' : Answer(j, d)' => i = j
                      /\ Asked(d)' => ~Answered(d)'
                      /\ call[d].state \in {"creating", "attaching"} => Asked(d)' \/ Answered(d)'
    BY DEF UnderWayOk
  <1>7. CASE d = c
    <2>1. \A i \in Inbox' : Answer(i, c)' => i = k
      BY <1>1, <1>4 DEF Answered
    <2>2. call[c].state = IF inbox'[k].kind = "created" THEN "creating" ELSE "attaching"
      BY <1>1
    <2> QED BY <1>2, <1>6, <1>7, <2>1, <2>2
  <1>8. CASE d # c
    <2>1. \A i \in Inbox' : Answer(i, d)' => i \in Inbox /\ Answer(i, d) /\ inbox'[i] = inbox[i]
      BY <1>4, <1>5, <1>8
    <2> QED BY <1>2, <1>6, <1>8, <2>1 DEF UnderWayOk
  <1> QED BY <1>7, <1>8

\* The answer to createTarget takes the place of the command.
LEMMA AnswersCreateStep ==
  ASSUME IInv, NEW c \in Call, AnswersCreate(c)
  PROVE  IInv'
  <1> USE DEF IInv
  <1>1. PICK ok \in BOOLEAN : /\ ok => TargetOf(c) # 0
                              /\ Answers(Command("create", c), Message("created", c, Outcome(ok)))
    BY DEF AnswersCreate
  <1>2. PICK m : m = Message("created", c, Outcome(ok))
    OBVIOUS
  <1>3. /\ UNCHANGED <<chromeVars, session, pagesById, idVars, callVars, contextVars>>
        /\ Command("create", c) \in commands /\ commands' = commands \ {Command("create", c)}
        /\ inbox' = Append(inbox, m)
    BY <1>1, <1>2 DEF AnswersCreate, Answers
  <1>4. /\ UNCHANGED <<target, disposed, session, pagesById, attachedTargetIds, createdTargetIds,
                       call, creating, context, closing, environment>>
        /\ Session' = Session /\ Target' = Target
    BY <1>3 DEF chromeVars, idVars, callVars, contextVars, Session, Target
  <1>5. /\ \E S : inbox' \in Seq(S)
        /\ Arrives /\ Len(inbox') = Len(inbox) + 1 /\ inbox'[Len(inbox) + 1] = m
        /\ \A i \in Inbox' : i > Len(inbox) => i = Len(inbox) + 1
    BY <1>3, OneArrives
  <1>6. m.kind = "created" /\ m.of = c /\ (m.says = "ok" => ok)
    BY <1>2 DEF Message, Outcome
  <1>7. MessageOk(m)'
    <2>1. m.says = "ok" => HasTarget(c)
      BY <1>1, <1>6, TargetFound
    <2>2. HasTarget(c)' <=> HasTarget(c)
      BY <1>4 DEF HasTarget
    <2> QED BY <1>6, <2>1, <2>2 DEF MessageOk
  <1>8. TargetsOk' /\ SessionsOk' /\ CreatorsOk'
    BY <1>4 DEF TargetsOk, SessionsOk, CreatorsOk, HasTarget
  <1>9. PagesOk' /\ MeetOk'
    BY <1>4, PagesAlone DEF MeetOk, HasPage
  <1>10. PipeOk'
    <2>1. \A x : (MessageOk(x) => MessageOk(x)') /\ (CommandOk(x) => CommandOk(x)')
      BY <1>4, PipeKept
    <2>2. ASSUME NEW i \in Inbox' PROVE MessageOk(inbox[i])'
      <3>1. CASE i \in Inbox
        <4>1. inbox'[i] = inbox[i]
          BY <1>5, <3>1 DEF Arrives
        <4> QED BY <2>1, <3>1, <4>1 DEF PipeOk
      <3>2. CASE i > Len(inbox)
        BY <1>5, <1>7, <3>2
      <3> QED BY <1>5, <3>1, <3>2 DEF Arrives
    <2> QED BY <1>3, <1>5, <2>1, <2>2 DEF PipeOk
  <1>11. AttachedOk'
    BY <1>4, <1>5, <1>6, AttachedKept
  <1>12. CallsOk'
    BY <1>4 DEF CallsOk
  <1>13. UnderWayOk'
    <2>1. call[c].state = "creating" /\ Asked(c) /\ Command("attach", c) \notin commands
      BY <1>3 DEF UnderWayOk, Asked
    <2>2. Len(inbox) + 1 \in Inbox' /\ Len(inbox) + 1 > Len(inbox)
      BY <1>5 DEF Inbox, Arrives
    <2>3. \A d \in Call : \A kind \in {"create", "attach"} :
            Command(kind, d) \in commands' <=> Command(kind, d) \in commands /\ d # c
      BY <1>3, <2>1 DEF Command
    <2> QED BY <1>4, <1>5, <1>6, <2>1, <2>2, <2>3, AnswerSent
  <1>14. NewPageIsNoPopup'
    BY <1>4 DEF NewPageIsNoPopup, IsPage
  <1>15. NewPageFailsForAReason'
    BY <1>4 DEF NewPageFailsForAReason
  <1> QED BY <1>8, <1>9, <1>10, <1>11, <1>12, <1>13, <1>14, <1>15

\* A target is attached: all but the pipe.
LEMMA AddsSession ==
  ASSUME IInv, NEW t \in Target, NEW s, s = Len(session) + 1, session' = NewSession(t), TargetsMarked,
         \A u \in Target : u # t => target'[u].autoAttached = target[u].autoAttached,
         UNCHANGED <<disposed, pagesById, idVars, callVars, contextVars>>
  PROVE  /\ TargetsOk' /\ SessionsOk' /\ PagesOk' /\ CallsOk' /\ CreatorsOk' /\ MeetOk'
         /\ NewPageIsNoPopup' /\ NewPageFailsForAReason'
         /\ Session' = Session \cup {s} /\ s \notin Session
         /\ \A p \in Session : session'[p] = session[p]
         /\ session'[s].phase = "announced"
         /\ \A m : (MessageOk(m) => MessageOk(m)') /\ (CommandOk(m) => CommandOk(m)')
  <1> USE DEF IInv
  <1> DEFINE r == [of |-> t, phase |-> "announced", awaits |-> {}, opener |-> 0,
                   connected |-> FALSE, closing |-> FALSE, closed |-> FALSE,
                   close |-> "no", byContext |-> FALSE]
  <1>1. /\ Len(session) \in Nat /\ Session = 1..Len(session)
        /\ Target = 1..Len(target) /\ Len(target) \in Nat
    BY Shapes
  <1>2. r \in SessionRecord
    BY <1>1 DEF SessionRecord
  <1>3. /\ session' \in Seq(SessionRecord) /\ Len(session') = s
        /\ \A p \in Session : session'[p] = session[p]
        /\ session'[s] = r
    <2>1. session' = Append(session, r) /\ session \in Seq(SessionRecord)
      BY DEF NewSession, SessionsOk
    <2> HIDE DEF r
    <2> QED BY <1>1, <1>2, <2>1, AppendProperties
  <1>4. Session' = Session \cup {s} /\ s \notin Session /\ s # 0
    <2>1. Session' = 1..s
      BY <1>3, LenProperties DEF Session
    <2> QED BY <1>1, <2>1
  <1>5. Target' = Target
    BY MarkedShapes
  <1>6. /\ UNCHANGED <<disposed, pagesById, attachedTargetIds, createdTargetIds, call, creating,
                       context, closing, environment>>
    BY DEF idVars, callVars, contextVars
  <1>7. /\ session'[s].of = t /\ session'[s].phase = "announced" /\ session'[s].opener = 0
        /\ session'[s].closed = FALSE
    BY <1>3
  <1> HIDE DEF r
  <1>8. TargetsOk'
    BY <1>6, TargetsStay DEF TargetsOk
  <1>9. SessionsOk'
    <2>1. ASSUME NEW p \in Session
          PROVE  /\ session'[p].of \in Target' /\ session'[p].opener \in {0} \cup Session'
                 /\ session'[p].closed => session'[p].closing
      BY <1>3, <1>4, <1>5 DEF SessionsOk
    <2>2. /\ session'[s].of \in Target' /\ session'[s].opener \in {0} \cup Session'
          /\ session'[s].closed => session'[s].closing
      BY <1>5, <1>7
    <2>3. /\ closing' \subseteq Session'
          /\ context' \in {"open", "closing", "disposing", "closed", "failed"}
          /\ environment' \in Environments
      BY <1>4, <1>6 DEF SessionsOk
    <2> QED BY ONLY <1>3, <1>4, <2>1, <2>2, <2>3 DEF SessionsOk
  <1>10. /\ \A p \in Session : IsPage(p)' <=> IsPage(p)
         /\ ~IsPage(s)'
    BY <1>3, <1>7 DEF IsPage
  <1>11. PagesOk'
    <2>1. pagesById' = pagesById /\ context' = context
      BY <1>6
    <2>2. PagesOk
      OBVIOUS
    <2>3. ASSUME NEW p, Contains(pagesById, p)
          PROVE  /\ p \in Session /\ p \in Session' /\ IsPage(p)'
                 /\ session'[p].of = session[p].of
      BY <1>3, <1>4, <1>10, <2>2, <2>3 DEF PagesOk
    <2>4. ASSUME NEW p \in Session', IsPage(p)', ~session'[p].closed
          PROVE  Contains(pagesById, p)
      BY <1>3, <1>4, <1>10, <2>2, <2>4 DEF PagesOk
    <2>5. /\ pagesById \in Seq(Nat) /\ Distinct(pagesById)
          /\ context = "closed" => pagesById = <<>>
          /\ \A p, q : /\ Contains(pagesById, p) /\ Contains(pagesById, q)
                       /\ session[p].of = session[q].of
                       => p = q
      BY ONLY <2>2 DEF PagesOk
    <2> QED BY ONLY <2>1, <2>3, <2>4, <2>5 DEF PagesOk
  <1>12. CallsOk'
    BY <1>4, <1>5, <1>6 DEF CallsOk
  <1>13. \A p \in Session : session[p].of \in Target
    BY DEF SessionsOk
  <1>14. \A u \in Target : target'[u].creator = target[u].creator /\ (target'[u].open => target[u].open)
    BY DEF TargetsMarked
  <1>15. CreatorsOk'
    BY <1>3, <1>4, <1>5, <1>6, <1>7, <1>13, <1>14 DEF CreatorsOk
  <1>16. MeetOk'
    <2>1. \A u : HasPage(u)' <=> HasPage(u)
      <3>1. ~Contains(pagesById, s)
        BY <1>4 DEF PagesOk
      <3> QED BY <1>3, <1>4, <1>6, <3>1 DEF HasPage
    <2>2. SUFFICES ASSUME context' # "closed", NEW u \in Target, target'[u].open, target'[u].autoAttached
                   PROVE  \E p \in Session' : /\ session'[p].of = u
                                              /\ session'[p].phase \in {"announced", "waiting"}
                                                   \/ Contains(pagesById', p)
      BY <1>5, <1>6, <2>1 DEF MeetOk
    <2>3. CASE u = t
      BY <1>4, <1>7, <2>3
    <2>4. CASE u # t
      <3>1. target[u].open /\ target[u].autoAttached
        BY <1>14, <2>2, <2>4
      <3>2. PICK p \in Session : /\ session[p].of = u
                                 /\ session[p].phase \in {"announced", "waiting"} \/ Contains(pagesById, p)
        BY <1>6, <2>2, <3>1 DEF MeetOk
      <3> QED BY <1>3, <1>4, <1>6, <3>2
    <2> QED BY <2>3, <2>4
  <1>17. NewPageIsNoPopup'
    BY <1>3, <1>4, <1>10, <1>14, PopupsKept
  <1>18. NewPageFailsForAReason'
    BY <1>3, <1>4, <1>5, <1>6, <1>14, ReasonsStay
  <1>19. \A m : (MessageOk(m) => MessageOk(m)') /\ (CommandOk(m) => CommandOk(m)')
    BY <1>3, <1>4, <1>5, <1>14, PipeKept
  <1> QED BY <1>3, <1>4, <1>7, <1>8, <1>9, <1>11, <1>12, <1>15, <1>16, <1>17, <1>18, <1>19

\* Messages arrive that are as they should be, for commands that are answered.
LEMMA PipeArrives ==
  ASSUME PipeOk, \E S : inbox' \in Seq(S), Arrives,
         \A m : (MessageOk(m) => MessageOk(m)') /\ (CommandOk(m) => CommandOk(m)'),
         \A i \in Inbox' : i > Len(inbox) => MessageOk(inbox[i])',
         \A m \in commands' : m \in commands
  PROVE  PipeOk'
  <1>1. ASSUME NEW i \in Inbox' PROVE MessageOk(inbox[i])'
    <2>1. CASE i \in Inbox
      <3>1. inbox'[i] = inbox[i]
        BY <2>1 DEF Arrives
      <3> QED BY <2>1, <3>1 DEF PipeOk
    <2> QED BY <2>1 DEF Arrives
  <1> QED BY <1>1 DEF PipeOk

\* The message of a new session arrives with it.
LEMMA AttachmentArrives ==
  ASSUME SessionsOk, PipeOk, AttachedOk, Arrives, NEW s, s \notin Session, Session' = Session \cup {s},
         \A p \in Session : session'[p] = session[p],
         NEW k \in Inbox', k > Len(inbox), inbox'[k].kind = "attached", inbox'[k].of = s,
         \A i \in Inbox' : i > Len(inbox) /\ inbox'[i].kind = "attached" => i = k
  PROVE  AttachedOk'
  <1>1. \A i \in Inbox' : inbox'[i].kind = "attached" => (i \in Inbox /\ inbox'[i] = inbox[i]) \/ i = k
    BY DEF Arrives
  <1>2. \A i \in Inbox : i \in Inbox' /\ inbox'[i] = inbox[i]
    BY DEF Arrives
  <1>3. \A i \in Inbox : inbox[i].kind = "attached" => inbox[i].of # s
    BY DEF PipeOk, MessageOk
  <1>4. ASSUME NEW i \in Inbox', NEW j \in Inbox', inbox'[i].kind = "attached", inbox'[j].kind = "attached",
               inbox'[i].of = inbox'[j].of
        PROVE  i = j
    BY <1>1, <1>3, <1>4 DEF AttachedOk
  <1>5. ASSUME NEW p \in Session', session'[p].phase = "announced"
        PROVE  \E i \in Inbox' : inbox'[i].kind = "attached" /\ inbox'[i].of = p
    <2>1. CASE p \in Session
      BY <1>2, <1>5, <2>1 DEF AttachedOk
    <2>2. CASE p = s
      BY <2>2
    <2> QED BY <2>1, <2>2
  <1> QED BY <1>4, <1>5 DEF AttachedOk

\* setAutoAttach: a session and its attached message.
LEMMA AutoAttachesStep ==
  ASSUME IInv, NEW t \in Target, AutoAttaches(t)
  PROVE  IInv'
  <1>1. PICK s : s = Len(session) + 1
    OBVIOUS
  <1>2. PICK m : m = Message("attached", s, "ok")
    OBVIOUS
  <1>3. /\ UNCHANGED <<disposed, commands, pagesById, idVars, callVars, contextVars>>
        /\ target' = [target EXCEPT ![t].autoAttached = TRUE]
        /\ session' = NewSession(t)
        /\ inbox' = Append(inbox, m)
    BY <1>1, <1>2 DEF AutoAttaches, AttachedMessage
  <1>4. TargetsMarked /\ \A u \in Target : u # t => target'[u].autoAttached = target[u].autoAttached
    BY <1>3, AutoAttachMarks DEF IInv
  <1>5. /\ TargetsOk' /\ SessionsOk' /\ PagesOk' /\ CallsOk' /\ CreatorsOk' /\ MeetOk'
        /\ NewPageIsNoPopup' /\ NewPageFailsForAReason'
        /\ Session' = Session \cup {s} /\ s \notin Session
        /\ \A p \in Session : session'[p] = session[p]
        /\ session'[s].phase = "announced"
        /\ \A x : (MessageOk(x) => MessageOk(x)') /\ (CommandOk(x) => CommandOk(x)')
    BY <1>1, <1>3, <1>4, AddsSession
  <1>6. m.kind = "attached" /\ m.of = s
    BY <1>2 DEF Message
  <1>7. /\ \E S : inbox' \in Seq(S)
        /\ Arrives /\ Len(inbox') = Len(inbox) + 1 /\ inbox'[Len(inbox) + 1] = m
        /\ \A i \in Inbox' : i > Len(inbox) => i = Len(inbox) + 1
    BY <1>3, OneArrives DEF IInv
  <1>8. MessageOk(m)'
    BY <1>5, <1>6 DEF MessageOk
  <1>9. PipeOk'
    BY <1>3, <1>5, <1>7, <1>8, PipeArrives DEF IInv
  <1>10. AttachedOk'
    <2>1. Len(inbox) + 1 \in Inbox' /\ Len(inbox) + 1 > Len(inbox)
      BY <1>7 DEF Inbox, Arrives
    <2> QED BY <1>5, <1>6, <1>7, <2>1, AttachmentArrives DEF IInv
  <1>11. UnderWayOk'
    <2>2. UNCHANGED <<call, commands>>
      BY <1>3 DEF callVars
    <2>3. \A i \in Inbox', c \in Call : Answer(i, c)' => i \in Inbox /\ Answer(i, c) /\ inbox'[i] = inbox[i]
      BY <1>6, <1>7 DEF Answer, Arrives
    <2>4. \A i \in Inbox, c \in Call : Answer(i, c) => i \in Inbox' /\ Answer(i, c)'
      BY <1>7 DEF Answer, Arrives
    <2>5. \A c \in Call : (Answered(c)' <=> Answered(c)) /\ (Asked(c)' <=> Asked(c))
      BY <2>2, <2>3, <2>4 DEF Answered, Asked
    <2> QED BY <2>2, <2>3, <2>5 DEF IInv, UnderWayOk
  <1> QED BY <1>5, <1>9, <1>10, <1>11 DEF IInv

\* attachToTarget: a session, its attached message and the answer to the call, or its failure.
LEMMA AttachesStep ==
  ASSUME IInv, NEW command \in commands, Attaches(command)
  PROVE  IInv'
  <1> USE DEF IInv
  <1>1. PICK s : s = Len(session) + 1
    OBVIOUS
  <1>2. /\ command.kind \in {"attach", "attachTarget"} /\ command = Command(command.kind, command.of)
        /\ command.kind = "attach" => command.of \in Call /\ call[command.of].state = "attaching"
        /\ command.kind = "attachTarget" => command.of \in Target
    <2>1. CommandOk(command) /\ command.kind \in {"attach", "attachTarget"}
      BY DEF PipeOk, Attaches
    <2>2. command.kind = "attach" => call[command.of].state = "attaching"
      BY <2>1 DEF CommandOk, UnderWayOk
    <2> QED BY <2>1, <2>2 DEF CommandOk
  <1>3. PICK t \in Target : t = IF command.kind = "attach" THEN call[command.of].of ELSE command.of
    BY <1>2 DEF CallsOk
  <1>4. PICK x : x = Message("attached", s, "ok")
    OBVIOUS
  <1>5. PICK y : y = Message("attachedFor", command.of, Outcome(target[t].open))
    OBVIOUS
  <1>6. /\ UNCHANGED <<chromeVars, pagesById, idVars, callVars, contextVars>>
        /\ commands' = commands \ {command}
        /\ session' = IF target[t].open THEN NewSession(t) ELSE session
        /\ inbox' = inbox \o (IF target[t].open THEN <<x>> ELSE <<>>)
                          \o (IF command.kind = "attach" THEN <<y>> ELSE <<>>)
    BY <1>1, <1>3, <1>4, <1>5 DEF Attaches, AttachedMessage
  <1>7. /\ UNCHANGED <<disposed, target, pagesById, attachedTargetIds, createdTargetIds, call, creating,
                       context, closing, environment>>
        /\ Target' = Target
    BY <1>6 DEF chromeVars, idVars, callVars, contextVars, Target
  <1>8. /\ x.kind = "attached" /\ x.of = s
        /\ y.kind = "attachedFor" /\ y.of = command.of
    BY <1>4, <1>5 DEF Message
  <1>9. /\ inbox' = IF target[t].open
                      THEN IF command.kind = "attach" THEN Append(Append(inbox, x), y) ELSE Append(inbox, x)
                      ELSE IF command.kind = "attach" THEN Append(inbox, y) ELSE inbox
    <2>1. PICK M : inbox \in Seq(M)
      BY DEF PipeOk
    <2>2. /\ inbox \o <<x>> = Append(inbox, x) /\ inbox \o <<y>> = Append(inbox, y)
          /\ inbox \o <<>> = inbox
      BY <2>1, Joined
    <2>3. PICK N : Append(inbox, x) \in Seq(N)
      BY <2>1, Sent
    <2>4. Append(inbox, x) \o <<y>> = Append(Append(inbox, x), y) /\ Append(inbox, x) \o <<>> = Append(inbox, x)
      BY <2>3, Joined
    <2> QED BY <1>6, <2>2, <2>4
  <1>10. /\ \E S : inbox' \in Seq(S)
         /\ Arrives
         /\ \A i \in Inbox' : i > Len(inbox) => \/ inbox'[i] = x /\ i = Len(inbox) + 1 /\ target[t].open
                                                \/ /\ inbox'[i] = y /\ command.kind = "attach"
                                                   /\ i = Len(inbox) + IF target[t].open THEN 2 ELSE 1
         /\ target[t].open => Len(inbox) + 1 \in Inbox' /\ inbox'[Len(inbox) + 1] = x
         /\ command.kind = "attach" => LET k == Len(inbox) + IF target[t].open THEN 2 ELSE 1 IN
              k \in Inbox' /\ inbox'[k] = y
    <2>1. CASE target[t].open /\ command.kind = "attach"
      <3>1. /\ \E S : inbox' \in Seq(S)
            /\ Arrives /\ Len(inbox') = Len(inbox) + 2
            /\ inbox'[Len(inbox) + 1] = x /\ inbox'[Len(inbox) + 2] = y
            /\ \A i \in Inbox' : i > Len(inbox) => i = Len(inbox) + 1 \/ i = Len(inbox) + 2
        BY <1>9, <2>1, TwoArrive
      <3>2. Len(inbox) + 1 \in Inbox' /\ Len(inbox) + 2 \in Inbox'
        BY <3>1 DEF Arrives, Inbox
      <3> QED BY <2>1, <3>1, <3>2
    <2>2. CASE target[t].open /\ command.kind # "attach"
      <3>1. /\ \E S : inbox' \in Seq(S)
            /\ Arrives /\ Len(inbox') = Len(inbox) + 1 /\ inbox'[Len(inbox) + 1] = x
            /\ \A i \in Inbox' : i > Len(inbox) => i = Len(inbox) + 1
        BY <1>9, <2>2, OneArrives
      <3>2. Len(inbox) + 1 \in Inbox'
        BY <3>1 DEF Arrives, Inbox
      <3> QED BY <2>2, <3>1, <3>2
    <2>3. CASE ~target[t].open /\ command.kind = "attach"
      <3>1. /\ \E S : inbox' \in Seq(S)
            /\ Arrives /\ Len(inbox') = Len(inbox) + 1 /\ inbox'[Len(inbox) + 1] = y
            /\ \A i \in Inbox' : i > Len(inbox) => i = Len(inbox) + 1
        BY <1>9, <2>3, OneArrives
      <3>2. Len(inbox) + 1 \in Inbox'
        BY <3>1 DEF Arrives, Inbox
      <3> QED BY <2>3, <3>1, <3>2
    <2>4. CASE ~target[t].open /\ command.kind # "attach"
      <3>1. inbox' = inbox /\ Len(inbox) \in Nat
        BY <1>9, <2>4, LenProperties DEF PipeOk
      <3> QED BY <2>4, <3>1 DEF Arrives, Inbox, PipeOk
    <2> QED BY <2>1, <2>2, <2>3, <2>4
  <1>11. \A m \in commands' : m \in commands
    BY <1>6
  <1>12. TargetsMarked
    BY <1>7, TargetsAlone
  <1>13. /\ TargetsOk' /\ SessionsOk' /\ PagesOk' /\ CallsOk' /\ CreatorsOk' /\ MeetOk'
         /\ NewPageIsNoPopup' /\ NewPageFailsForAReason'
         /\ \A m : (MessageOk(m) => MessageOk(m)') /\ (CommandOk(m) => CommandOk(m)')
         /\ target[t].open => MessageOk(x)'
         /\ AttachedOk'
    <2>1. CASE target[t].open
      <3>1. session' = NewSession(t) /\ \A u \in Target : u # t => target'[u].autoAttached = target[u].autoAttached
        BY <1>6, <1>7, <2>1
      <3>2. /\ TargetsOk' /\ SessionsOk' /\ PagesOk' /\ CallsOk' /\ CreatorsOk' /\ MeetOk'
            /\ NewPageIsNoPopup' /\ NewPageFailsForAReason'
            /\ Session' = Session \cup {s} /\ s \notin Session
            /\ \A p \in Session : session'[p] = session[p]
            /\ session'[s].phase = "announced"
            /\ \A m : (MessageOk(m) => MessageOk(m)') /\ (CommandOk(m) => CommandOk(m)')
        BY <1>1, <1>6, <1>7, <1>12, <3>1, AddsSession
      <3>3. MessageOk(x)'
        BY <1>8, <3>2 DEF MessageOk
      <3>4. AttachedOk'
        <4>1. Len(inbox) + 1 > Len(inbox)
          BY <1>10 DEF Arrives
        <4>2. \A i \in Inbox' : i > Len(inbox) /\ inbox'[i].kind = "attached" => i = Len(inbox) + 1
          BY <1>8, <1>10
        <4> QED BY <1>8, <1>10, <2>1, <3>2, <4>1, <4>2, AttachmentArrives
      <3> QED BY <3>2, <3>3, <3>4
    <2>2. CASE ~target[t].open
      <3>1. session' = session /\ Session' = Session
        BY <1>6, <2>2 DEF Session
      <3>2. TargetsOk' /\ SessionsOk' /\ CreatorsOk' /\ CallsOk'
        BY <1>7, <3>1 DEF TargetsOk, SessionsOk, CreatorsOk, CallsOk, HasTarget
      <3>3. PagesOk' /\ MeetOk'
        BY <1>7, <3>1, PagesAlone DEF MeetOk, HasPage
      <3>4. NewPageIsNoPopup' /\ NewPageFailsForAReason'
        BY <1>7, <3>1 DEF NewPageIsNoPopup, IsPage, NewPageFailsForAReason
      <3>5. \A m : (MessageOk(m) => MessageOk(m)') /\ (CommandOk(m) => CommandOk(m)')
        BY <1>7, <3>1, PipeKept
      <3>6. AttachedOk'
        <4>1. \A i \in Inbox' : i > Len(inbox) => inbox'[i].kind # "attached"
          BY <1>8, <1>10, <2>2
        <4> QED BY <1>10, <3>1, <4>1, AttachedKept
      <3> QED BY <2>2, <3>2, <3>3, <3>4, <3>5, <3>6
    <2> QED BY <2>1, <2>2
  <1>14. PipeOk'
    <2>1. command.kind = "attach" => MessageOk(y)'
      BY <1>2, <1>8 DEF MessageOk
    <2>2. \A i \in Inbox' : i > Len(inbox) => MessageOk(inbox[i])'
      BY <1>10, <1>13, <2>1
    <2> QED BY <1>10, <1>11, <1>13, <2>2, PipeArrives
  <1>15. UnderWayOk'
    <2>1. CASE command.kind = "attach"
      <3>1. PICK c \in Call : c = command.of
        BY <1>2, <2>1
      <3>2. PICK k : k = Len(inbox) + IF target[t].open THEN 2 ELSE 1
        OBVIOUS
      <3>3. k \in Inbox' /\ inbox'[k] = y /\ k > Len(inbox)
        BY <1>10, <2>1, <3>2 DEF Arrives
      <3>4. call[c].state = "attaching" /\ Asked(c) /\ Command("create", c) \notin commands
        BY <1>2, <2>1, <3>1 DEF Asked, UnderWayOk
      <3>5. \A i \in Inbox' : i > Len(inbox) /\ inbox'[i].kind \in {"created", "attachedFor"} => i = k
        BY <1>8, <1>10, <3>2
      <3>6. \A d \in Call : \A kind \in {"create", "attach"} :
              Command(kind, d) \in commands' <=> Command(kind, d) \in commands /\ d # c
        <4>1. commands' = commands \ {Command("attach", c)}
          BY <1>2, <1>6, <2>1, <3>1
        <4> QED BY <3>4, <4>1 DEF Command
      <3>7. inbox'[k].of = c /\ inbox'[k].kind = IF call[c].state = "creating" THEN "created" ELSE "attachedFor"
        BY <1>8, <3>1, <3>3, <3>4
      <3> QED BY <1>7, <1>10, <3>3, <3>4, <3>5, <3>6, <3>7, AnswerSent
    <2>2. CASE command.kind # "attach"
      <3>1. \A i \in Inbox', c \in Call : Answer(i, c)' => i \in Inbox /\ Answer(i, c) /\ inbox'[i] = inbox[i]
        BY <1>8, <1>10, <2>2 DEF Answer, Arrives
      <3>2. \A i \in Inbox, c \in Call : Answer(i, c) => i \in Inbox' /\ Answer(i, c)'
        BY <1>10 DEF Answer, Arrives
      <3>3. \A c \in Call : /\ Command("create", c) \in commands' <=> Command("create", c) \in commands
                            /\ Command("attach", c) \in commands' <=> Command("attach", c) \in commands
        BY <1>2, <1>6, <2>2 DEF Command
      <3>4. \A c \in Call : (Answered(c)' <=> Answered(c)) /\ (Asked(c)' <=> Asked(c))
        BY <3>1, <3>2, <3>3 DEF Answered, Asked
      <3> QED BY <1>7, <3>1, <3>3, <3>4 DEF UnderWayOk
    <2> QED BY <2>1, <2>2
  <1> QED BY <1>13, <1>14, <1>15

-----------------------------------------------------------------------------
\* newPage starts; sessions become pages.

\* newPage: one more creation to wait for.
LEMMA NewPageStep ==
  ASSUME IInv, NEW c \in Call, NewPage(c)
  PROVE  IInv'
  <1> USE DEF IInv
  <1>1. /\ UNCHANGED <<target, disposed, inbox, session, pagesById, attachedTargetIds, createdTargetIds,
                       context, closing, environment>>
        /\ Target' = Target /\ Session' = Session /\ Inbox' = Inbox
        /\ call[c].state = "idle" /\ call' = [call EXCEPT ![c].state = "creating"]
        /\ creating' = creating \cup {c}
        /\ commands' = commands \cup {Command("create", c)}
    BY DEF NewPage, chromeVars, idVars, contextVars, Target, Session, Inbox
  <1>2. /\ call' \in [Call -> CallRecord]
        /\ \A d \in Call : d # c => call'[d] = call[d]
        /\ call'[c].of = call[c].of /\ call'[c].page = call[c].page /\ call'[c].state = "creating"
    <2>1. call \in [Call -> CallRecord]
      BY DEF CallsOk
    <2> QED BY <1>1, <2>1 DEF CallRecord
  <1>3. TargetsOk' /\ SessionsOk'
    BY <1>1 DEF TargetsOk, SessionsOk, HasTarget
  <1>4. PagesOk'
    BY <1>1, PagesAlone
  <1>5. PipeOk'
    <2>1. CommandOk(Command("create", c))'
      BY DEF CommandOk, Command
    <2>2. \A m : (MessageOk(m) => MessageOk(m)') /\ (CommandOk(m) => CommandOk(m)')
      BY <1>1, PipeKept
    <2> QED BY <1>1, <2>1, <2>2 DEF PipeOk
  <1>6. AttachedOk'
    BY <1>1 DEF AttachedOk
  <1>7. CallsOk'
    BY <1>1, <1>2 DEF CallsOk
  <1>8. UnderWayOk'
    <2>1. ~Asked(c) /\ ~Answered(c)
      BY <1>1 DEF UnderWayOk, Asked, Answered
    <2>2. \A d \in Call, i \in Inbox : Answer(i, d)' <=> Answer(i, d)
      BY <1>1 DEF Answer
    <2>3. \A d \in Call : Answered(d)' <=> Answered(d)
      BY <1>1, <2>2 DEF Answered
    <2>4. \A d \in Call : /\ Command("create", d) \in commands' <=> Command("create", d) \in commands \/ d = c
                          /\ Command("attach", d) \in commands' <=> Command("attach", d) \in commands
      BY <1>1 DEF Command
    <2>5. \A d \in Call : Asked(d)' <=> Asked(d) \/ d = c
      BY <2>4 DEF Asked
    <2>6. ~\E i \in Inbox : Answer(i, c)
      BY <2>1 DEF Answered
    <2>7. Command("attach", c) \notin commands
      BY <2>1 DEF Asked
    <2> QED BY <1>1, <1>2, <2>1, <2>2, <2>3, <2>4, <2>5, <2>6, <2>7 DEF UnderWayOk
  <1>9. CreatorsOk'
    <2>1. \A t \in Target : target[t].creator # None => target[t].creator \in Call
      BY Shapes DEF TargetRecord
    <2>2. \A d \in Call : call[d].state \in {"creating", "failed"} => call'[d].state \in {"creating", "failed"}
      BY <1>2
    <2> QED BY <1>1, <2>1, <2>2 DEF CreatorsOk
  <1>10. MeetOk'
    BY <1>1, <1>2 DEF MeetOk, HasPage
  <1>11. NewPageIsNoPopup'
    BY <1>1 DEF NewPageIsNoPopup, IsPage
  <1>12. NewPageFailsForAReason'
    <2>1. \A d \in Call : call[d].state = "failed" => call'[d] = call[d] /\ (d \in creating => d \in creating')
      BY <1>1, <1>2
    <2>2. \A d \in Call : call'[d].state = "failed" => call[d].state = "failed"
      BY <1>2
    <2> QED BY <1>1, <2>1, <2>2, ReasonsStay
  <1> QED BY <1>3, <1>4, <1>5, <1>6, <1>7, <1>8, <1>9, <1>10, <1>11, <1>12

\* A session proceeds: what that leaves alone.
LEMMA SessionProceeds ==
  ASSUME IInv, NEW s \in Session, NEW r \in SessionRecord, session' = [session EXCEPT ![s] = r],
         r.of = session[s].of, r.closed = session[s].closed, r.closing = session[s].closing,
         r.opener \in {0} \cup Session,
         session[s].phase \notin {"announced", "failed"}, r.phase # "announced",
         UNCHANGED <<chromeVars, pipeVars, idVars, creating, contextVars>>
  PROVE  /\ Session' = Session /\ session'[s] = r
         /\ \A p \in Session : p # s => session'[p] = session[p]
         /\ \A p \in Session : session'[p].of = session[p].of /\ session'[p].closed = session[p].closed
         /\ UNCHANGED <<target, disposed, commands, inbox, attachedTargetIds, createdTargetIds,
                        creating, context, closing, environment>>
         /\ Target' = Target /\ Inbox' = Inbox
         /\ TargetsOk' /\ SessionsOk' /\ PipeOk' /\ AttachedOk'
         /\ \A p \in Session : /\ session[p].closed => session'[p].closed
                               /\ session[p].phase = "failed" => session'[p].phase = "failed"
  <1> USE DEF IInv
  <1>1. session \in [Session -> SessionRecord] /\ Session = 1..Len(session) /\ Len(session) \in Nat
    BY Shapes
  <1>2. session' \in Seq(SessionRecord) /\ Len(session') = Len(session)
    <2>1. session' \in [Session -> SessionRecord]
      BY <1>1
    <2> QED BY <1>1, <2>1, IsSequence
  <1>3. Session' = Session /\ session'[s] = r /\ \A p \in Session : p # s => session'[p] = session[p]
    BY <1>1 DEF Session
  <1>4. /\ UNCHANGED <<target, disposed, commands, inbox, attachedTargetIds, createdTargetIds,
                       creating, context, closing, environment>>
        /\ Target' = Target /\ Inbox' = Inbox
    BY DEF chromeVars, pipeVars, idVars, contextVars, Target, Inbox
  <1>5. /\ \A p \in Session : session'[p].of = session[p].of /\ session'[p].closed = session[p].closed
                              /\ session'[p].closing = session[p].closing
    BY <1>3
  <1>6. TargetsOk'
    BY <1>4 DEF TargetsOk, HasTarget
  <1>7. SessionsOk'
    <2>1. \A p \in Session : session'[p].opener \in {0} \cup Session
      BY <1>3 DEF SessionsOk
    <2> QED BY <1>2, <1>3, <1>4, <1>5, <2>1 DEF SessionsOk
  <1>8. \A m : /\ MessageOk(m) => MessageOk(m)'
               /\ CommandOk(m) => CommandOk(m)'
    <2> TAKE m
    <2>1. /\ MessageOk(m) /\ (m.kind = "attached" => session'[m.of].phase = "announced")
              => MessageOk(m)'
          /\ CommandOk(m) => CommandOk(m)'
      BY <1>3, <1>4, <1>5, MessagesStay
    <2>2. MessageOk(m) /\ m.kind = "attached" => session'[m.of].phase = "announced"
      BY <1>3 DEF MessageOk
    <2> QED BY <2>1, <2>2
  <1>9. PipeOk'
    BY <1>4, <1>8 DEF PipeOk
  <1>10. AttachedOk'
    BY <1>3, <1>4 DEF AttachedOk
  <1>11. \A p \in Session : /\ session[p].closed => session'[p].closed
                            /\ session[p].phase = "failed" => session'[p].phase = "failed"
    BY <1>3, <1>5
  <1> QED BY <1>3, <1>4, <1>5, <1>6, <1>7, <1>9, <1>10, <1>11

\* The initialization of a page.
LEMMA PageInitializes ==
  ASSUME IInv, NEW s \in Session, session[s].phase \in {"initializing", "popup"},
         NEW v \in {"popup", "ready", "failed"}, session' = [session EXCEPT ![s].phase = v],
         UNCHANGED <<chromeVars, pipeVars, pagesById, idVars, callVars, contextVars>>
  PROVE  IInv'
  <1> USE DEF IInv
  <1>1. session[s] \in SessionRecord
    BY Shapes
  <1>2. PICK r \in SessionRecord : r = [session[s] EXCEPT !.phase = v]
    BY <1>1 DEF SessionRecord
  <1>3. /\ r.of = session[s].of /\ r.opener = session[s].opener /\ r.awaits = session[s].awaits
        /\ r.phase = v
    BY <1>1, <1>2 DEF SessionRecord
  <1>4. r.closed = session[s].closed /\ r.closing = session[s].closing
    BY <1>1, <1>2 DEF SessionRecord
  <1>5. session' = [session EXCEPT ![s] = r]
    BY <1>2
  <1>6. r.opener \in {0} \cup Session
    BY <1>3 DEF SessionsOk
  <1>7. call' = call /\ creating' = creating /\ pagesById' = pagesById
    BY DEF callVars
  <1>8. /\ Session' = Session /\ session'[s] = r
        /\ \A p \in Session : p # s => session'[p] = session[p]
        /\ \A p \in Session : session'[p].of = session[p].of /\ session'[p].closed = session[p].closed
        /\ UNCHANGED <<target, disposed, commands, inbox, attachedTargetIds, createdTargetIds,
                       creating, context, closing, environment>>
        /\ Target' = Target /\ Inbox' = Inbox
        /\ TargetsOk' /\ SessionsOk' /\ PipeOk' /\ AttachedOk'
        /\ \A p \in Session : /\ session[p].closed => session'[p].closed
                              /\ session[p].phase = "failed" => session'[p].phase = "failed"
    BY <1>3, <1>4, <1>5, <1>6, <1>7, SessionProceeds
  <1>9. /\ \A p \in Session : IsPage(p)' <=> IsPage(p)
        /\ \A p \in Session : session'[p].phase \in {"announced", "waiting"} <=> session[p].phase \in {"announced", "waiting"}
        /\ \A p \in Session : session'[p].phase = "waiting" => session'[p] = session[p]
        /\ \A p \in Session : session'[p].opener = session[p].opener
    BY <1>3, <1>8 DEF IsPage
  <1>10. PagesOk'
    <2>1. \A p \in Session : IsPage(p) /\ ~session[p].closed => Contains(pagesById, p)
      BY DEF PagesOk
    <2>2. \A p \in Session : IsPage(p)' /\ ~session'[p].closed => Contains(pagesById', p)
      BY <1>7, <1>8, <1>9, <2>1
    <2>3. \A p : Contains(pagesById', p) => p \in Session' /\ IsPage(p)'
      BY <1>7, <1>8, <1>9 DEF PagesOk
    <2>4. \A p, q : /\ Contains(pagesById', p) /\ Contains(pagesById', q)
                    /\ session'[p].of = session'[q].of
                    => p = q
      BY <1>7, <1>8 DEF PagesOk
    <2>5. pagesById' \in Seq(Nat) /\ Distinct(pagesById') /\ (context' = "closed" => pagesById' = <<>>)
      BY <1>7, <1>8 DEF PagesOk
    <2> QED BY <1>8, <2>2, <2>3, <2>4, <2>5 DEF PagesOk
  <1>11. CallsOk'
    BY <1>7, <1>8 DEF CallsOk
  <1>12. UnderWayOk'
    BY <1>7, <1>8 DEF UnderWayOk, Asked, Answered, Answer
  <1>13. CreatorsOk'
    BY <1>7, <1>8, <1>9 DEF CreatorsOk
  <1>14. MeetOk'
    <2>1. \A t : HasPage(t)' <=> HasPage(t)
      BY <1>7, <1>8 DEF HasPage
    <2> QED BY <1>7, <1>8, <1>9, <2>1 DEF MeetOk
  <1>15. NewPageIsNoPopup'
    BY <1>8, <1>9 DEF NewPageIsNoPopup
  <1>16. NewPageFailsForAReason'
    BY <1>7, <1>8, ReasonsStay
  <1> QED BY <1>8, <1>10, <1>11, <1>12, <1>13, <1>14, <1>15, <1>16

\* A page is ready or failed.
LEMMA InitializedStep ==
  ASSUME IInv, NEW s \in Session, Initialized(s)
  PROVE  IInv'
  <1>1. PICK v \in {"popup", "ready", "failed"} : session' = [session EXCEPT ![s].phase = v]
    BY DEF Initialized
  <1>2. session[s].phase = "initializing" /\ UNCHANGED <<chromeVars, pipeVars, pagesById, idVars, callVars, contextVars>>
    BY DEF Initialized
  <1> QED BY <1>1, <1>2, PageInitializes

\* A popup is ready or failed.
LEMMA PopupInitializedStep ==
  ASSUME IInv, NEW s \in Session, PopupInitialized(s)
  PROVE  IInv'
  <1>1. PICK v \in {"ready", "failed"} : session' = [session EXCEPT ![s].phase = v]
    BY DEF PopupInitialized
  <1>2. /\ session[s].phase = "popup"
        /\ UNCHANGED <<chromeVars, pipeVars, pagesById, idVars, callVars, contextVars>>
    BY DEF PopupInitialized
  <1> QED BY <1>1, <1>2, PageInitializes

\* The opener of a page is a page; that of a target that newPage asked for and knows is the one
\* its options name, if there is one.
LEMMA OpenerFound ==
  ASSUME IInv, NEW t \in Target
  PROVE  /\ OpenerOf(t) \in {0} \cup Session
         /\ target[t].creator # None /\ t \in createdTargetIds /\ OpenerOf(t) # 0
              => session[OpenerOf(t)].of = TriggerPopupOn[target[t].creator]
  <1> USE DEF IInv
  <1>1. PICK named : named = IF TriggerOf(t) # 0 THEN TriggerOf(t) ELSE target[t].opener
    OBVIOUS
  <1>2. PICK p \in {0} \cup Session : p = IF named = 0 THEN 0 ELSE PageOf(named)
    BY PageFound
  <1>3. OpenerOf(t) = IF p = 0 /\ t \notin createdTargetIds /\ pagesById # <<>> THEN Head(pagesById) ELSE p
    BY <1>1, <1>2 DEF OpenerOf
  <1>4. pagesById # <<>> => Head(pagesById) \in Session
    <2>1. pagesById # <<>> => Contains(pagesById, Head(pagesById))
      BY TailMembers DEF PagesOk
    <2> QED BY <2>1 DEF PagesOk
  <1>5. ASSUME target[t].creator # None, t \in createdTargetIds, p # 0
        PROVE  session[p].of = TriggerPopupOn[target[t].creator]
    <2>1. target[t].opener = 0 /\ TriggerOf(t) = TriggerPopupOn[target[t].creator]
      BY <1>5 DEF TargetsOk, TriggerOf
    <2>2. named = TriggerPopupOn[target[t].creator] /\ named # 0
      BY <1>1, <1>2, <1>5, <2>1
    <2> QED BY <1>2, <1>5, <2>2, PageFound
  <1> QED BY <1>2, <1>3, <1>4, <1>5

\* A session that waits for no creation becomes the page of its target, or is ignored if it has one.
LEMMA TrackPageStep ==
  ASSUME IInv, NEW s \in Session, TrackPage(s)
  PROVE  IInv'
  <1> USE DEF IInv
  <1>1. PICK t \in Target : t = session[s].of
    BY DEF SessionsOk
  <1>2. /\ session[s].phase = "waiting" /\ session[s].awaits \cap creating = {}
        /\ UNCHANGED <<chromeVars, pipeVars, idVars, creating, contextVars>>
    BY DEF TrackPage
  <1>3. ~IsPage(s) /\ ~Contains(pagesById, s)
    BY <1>2 DEF IsPage, PagesOk
  <1>4. session[s] \in SessionRecord
    BY Shapes
  <1>5. CASE PageOf(t) # 0 \/ context = "closed"
    <2>1. /\ session' = [session EXCEPT ![s].phase = "ignored", ![s].awaits = {}]
          /\ pagesById' = pagesById /\ call' = call
      BY <1>1, <1>5 DEF TrackPage
    <2>2. PICK r : r = [session[s] EXCEPT !.phase = "ignored", !.awaits = {}]
      OBVIOUS
    <2>3. /\ r \in SessionRecord /\ r.of = t /\ r.phase = "ignored" /\ r.opener = session[s].opener
      BY <1>1, <1>4, <2>2 DEF SessionRecord
    <2>4. r.closed = session[s].closed /\ r.closing = session[s].closing
      BY <1>4, <2>2 DEF SessionRecord
    <2>5. session' = [session EXCEPT ![s] = r]
      BY <2>1, <2>2
    <2>6. r.opener \in {0} \cup Session
      BY <2>3 DEF SessionsOk
    <2>7. /\ Session' = Session /\ session'[s] = r
          /\ \A p \in Session : p # s => session'[p] = session[p]
          /\ \A p \in Session : session'[p].of = session[p].of /\ session'[p].closed = session[p].closed
          /\ UNCHANGED <<target, disposed, commands, inbox, attachedTargetIds, createdTargetIds,
                         creating, context, closing, environment>>
          /\ Target' = Target /\ Inbox' = Inbox
          /\ TargetsOk' /\ SessionsOk' /\ PipeOk' /\ AttachedOk'
          /\ \A p \in Session : /\ session[p].closed => session'[p].closed
                                /\ session[p].phase = "failed" => session'[p].phase = "failed"
      BY <1>1, <1>2, <2>3, <2>4, <2>5, <2>6, SessionProceeds
    <2>8. /\ \A p \in Session : IsPage(p)' <=> IsPage(p)
          /\ \A p \in Session : session'[p].phase = "waiting" => session'[p] = session[p]
      BY <1>3, <2>3, <2>7 DEF IsPage
    <2>9. PagesOk'
      <3>1. \A p \in Session : IsPage(p) /\ ~session[p].closed => Contains(pagesById, p)
        BY DEF PagesOk
      <3>2. \A p \in Session : IsPage(p)' /\ ~session'[p].closed => Contains(pagesById', p)
        BY <2>1, <2>7, <2>8, <3>1
      <3>3. \A p : Contains(pagesById', p) => p \in Session' /\ IsPage(p)'
        BY <2>1, <2>7, <2>8 DEF PagesOk
      <3>4. \A p, q : /\ Contains(pagesById', p) /\ Contains(pagesById', q)
                      /\ session'[p].of = session'[q].of
                      => p = q
        BY <2>1, <2>7 DEF PagesOk
      <3>5. pagesById' \in Seq(Nat) /\ Distinct(pagesById') /\ (context' = "closed" => pagesById' = <<>>)
        BY <2>1, <2>7 DEF PagesOk
      <3> QED BY <2>7, <3>2, <3>3, <3>4, <3>5 DEF PagesOk
    <2>10. CallsOk'
      BY <2>1, <2>7 DEF CallsOk
    <2>11. UnderWayOk'
      BY <2>1, <2>7 DEF UnderWayOk, Asked, Answered, Answer
    <2>12. CreatorsOk'
      <3>1. \A u \in Target \ createdTargetIds : target[u].creator # None =>
              target[u].creator \in creating /\ call[target[u].creator].state \in {"creating", "failed"}
        BY DEF CreatorsOk
      <3>2. ASSUME NEW p \in Session, session'[p].phase = "waiting", target[session[p].of].creator # None,
                   session[p].of \notin createdTargetIds
            PROVE  target[session[p].of].creator \in session'[p].awaits
        <4>1. session'[p] = session[p]
          BY <2>8, <3>2
        <4> QED BY <3>2, <4>1 DEF CreatorsOk
      <3>3. /\ target' = target /\ createdTargetIds' = createdTargetIds /\ creating' = creating
            /\ call' = call /\ Target' = Target /\ Session' = Session
            /\ \A p \in Session : session'[p].of = session[p].of
        BY <2>1, <2>7
      <3>4. \A p \in Session' :
              LET u == session'[p].of IN
              session'[p].phase = "waiting" /\ target'[u].creator # None /\ u \notin createdTargetIds'
                => target'[u].creator \in session'[p].awaits
        BY <3>2, <3>3
      <3> HIDE DEF IInv
      <3> QED BY <3>1, <3>3, <3>4 DEF CreatorsOk
    <2>13. MeetOk'
      <3>1. \A u : HasPage(u)' <=> HasPage(u)
        BY <2>1, <2>7 DEF HasPage
      <3>2. SUFFICES ASSUME context # "closed", NEW u \in Target, target[u].open, target[u].autoAttached
                     PROVE  \E p \in Session : /\ session'[p].of = u
                                               /\ session'[p].phase \in {"announced", "waiting"}
                                                    \/ Contains(pagesById, p)
        BY <2>1, <2>7, <3>1 DEF MeetOk
      <3>3. PICK p \in Session : /\ session[p].of = u
                                 /\ session[p].phase \in {"announced", "waiting"} \/ Contains(pagesById, p)
        BY <3>2 DEF MeetOk
      <3>4. CASE p # s
        BY <2>7, <3>3, <3>4
      <3>5. CASE p = s
        <4>1. HasPage(u)
          BY <1>1, <1>5, <3>2, <3>3, <3>5, PageFound
        <4> QED BY <2>7, <4>1 DEF HasPage
      <3> QED BY <3>4, <3>5
    <2>14. NewPageIsNoPopup'
      <3>1. \A p \in Session : session'[p].opener = session[p].opener
        BY <2>3, <2>7
      <3> QED BY <2>7, <2>8, <3>1, PopupsKept
    <2>15. NewPageFailsForAReason'
      BY <2>1, <2>7, ReasonsStay
    <2> QED BY <2>7, <2>9, <2>10, <2>11, <2>12, <2>13, <2>14, <2>15
  <1>6. CASE ~(PageOf(t) # 0 \/ context = "closed")
    <2>1. PICK o \in {0} \cup Session : o = OpenerOf(t)
      BY OpenerFound
    <2>2. /\ session' = [session EXCEPT ![s].phase = "initializing", ![s].awaits = {}, ![s].opener = o]
          /\ pagesById' = Append(pagesById, s)
          /\ call' = [c \in Call |-> IF call[c].state = "waiting" /\ call[c].of = t
                        THEN [call[c] EXCEPT !.state = "opening", !.page = s] ELSE call[c]]
      BY <1>1, <1>6, <2>1 DEF TrackPage
    <2>3. PICK r : r = [session[s] EXCEPT !.phase = "initializing", !.awaits = {}, !.opener = o]
      OBVIOUS
    <2>4. s \in Nat \ {0} /\ o \in Nat
      BY Shapes
    <2>5. /\ r \in SessionRecord /\ r.of = t /\ r.phase = "initializing" /\ r.opener = o
      BY <1>1, <1>4, <2>3, <2>4 DEF SessionRecord
    <2>6. r.closed = session[s].closed /\ r.closing = session[s].closing
      BY <1>4, <2>3 DEF SessionRecord
    <2>7. session' = [session EXCEPT ![s] = r]
      BY <2>2, <2>3
    <2>8. /\ Session' = Session /\ session'[s] = r
          /\ \A p \in Session : p # s => session'[p] = session[p]
          /\ \A p \in Session : session'[p].of = session[p].of /\ session'[p].closed = session[p].closed
          /\ UNCHANGED <<target, disposed, commands, inbox, attachedTargetIds, createdTargetIds,
                         creating, context, closing, environment>>
          /\ Target' = Target /\ Inbox' = Inbox
          /\ TargetsOk' /\ SessionsOk' /\ PipeOk' /\ AttachedOk'
          /\ \A p \in Session : /\ session[p].closed => session'[p].closed
                                /\ session[p].phase = "failed" => session'[p].phase = "failed"
      BY <1>1, <1>2, <2>1, <2>5, <2>6, <2>7, SessionProceeds
    <2>9. /\ \A p \in Session : IsPage(p)' <=> IsPage(p) \/ p = s
          /\ \A p \in Session : session'[p].phase = "waiting" => session'[p] = session[p]
      BY <2>5, <2>8 DEF IsPage
    <2>10. /\ pagesById' \in Seq(Nat) /\ Distinct(pagesById')
           /\ \A x : Contains(pagesById', x) <=> Contains(pagesById, x) \/ x = s
      BY <1>3, <2>2, <2>4, AppendMembers DEF PagesOk
    <2>11. ~HasPage(t) /\ context # "closed"
      BY <1>6, PageFound
    <2>12. PagesOk'
      <3>1. \A p \in Session : IsPage(p) /\ ~session[p].closed => Contains(pagesById, p)
        BY DEF PagesOk
      <3>2. \A p \in Session : IsPage(p)' /\ ~session'[p].closed => Contains(pagesById', p)
        BY <2>8, <2>9, <2>10, <3>1
      <3>3. \A p : Contains(pagesById', p) => p \in Session' /\ IsPage(p)'
        BY <2>8, <2>9, <2>10 DEF PagesOk
      <3>4. ASSUME NEW p, NEW q, Contains(pagesById', p), Contains(pagesById', q), session'[p].of = session'[q].of
            PROVE  p = q
        <4>1. p \in Session /\ q \in Session /\ session[p].of = session[q].of
          BY <2>8, <2>10, <3>4 DEF PagesOk
        <4>2. \A x : Contains(pagesById, x) => x \in Session /\ session[x].of # t
          BY <2>11 DEF HasPage, PagesOk
        <4> QED BY <1>1, <2>10, <3>4, <4>1, <4>2 DEF PagesOk
      <3> QED BY <2>8, <2>10, <2>11, <3>2, <3>3, <3>4 DEF PagesOk
    <2>13. CallsMarked
      <3>1. ASSUME NEW c \in Call
            PROVE  /\ call'[c] \in CallRecord /\ call'[c].of = call[c].of
                   /\ \/ call'[c] = call[c] /\ ~(call[c].state = "waiting" /\ call[c].of = t)
                      \/ /\ call[c].state = "waiting" /\ call[c].of = t
                         /\ call'[c].state = "opening" /\ call'[c].page = s
        <4>1. call[c] \in CallRecord
          BY DEF CallsOk
        <4> QED BY <2>2, <2>4, <4>1 DEF CallRecord
      <3>2. call' \in [Call -> CallRecord]
        BY <2>2, <3>1
      <3>3. \A c \in Call : call[c].state = "failed" => call'[c] = call[c]
        BY <2>2
      <3> QED BY <2>4, <2>8, <3>1, <3>2, <3>3 DEF CallsMarked, CallsOk
    <2>14. \A c \in Call : call'[c].state \in {"waiting", "failed"} =>
             call'[c] = call[c] /\ ~(call[c].state = "waiting" /\ call[c].of = t)
      <3> TAKE c \in Call
      <3>1. CASE call[c].state = "waiting" /\ call[c].of = t
        <4>1. call[c] \in CallRecord
          BY DEF CallsOk
        <4>2. call'[c].state = "opening"
          BY <2>2, <3>1, <4>1 DEF CallRecord
        <4> QED BY <4>2
      <3>2. CASE ~(call[c].state = "waiting" /\ call[c].of = t)
        BY <2>2, <3>2
      <3> QED BY <3>1, <3>2
    <2>15. CallsOk'
      BY <2>8, <2>13, CallsStay
    <2>16. UnderWayOk'
      <3>1. Len(inbox) \in Nat
        BY LenProperties DEF PipeOk
      <3>2. CallCommandsKept
        BY <2>8 DEF CallCommandsKept
      <3> QED BY <2>8, <2>13, <3>1, <3>2, InboxAlone, UnderWayStays
    <2>17. CreatorsOk'
      <3>1. \A u \in Target : target[u].creator # None => target[u].creator \in Call
        BY Shapes DEF TargetRecord
      <3>2. \A d \in Call : call[d].state \in {"creating", "failed"} => call'[d].state \in {"creating", "failed"}
        BY <2>13 DEF CallsMarked
      <3> QED BY <2>8, <2>9, <3>1, <3>2 DEF CreatorsOk
    <2>18. MeetOk'
      <3>1. \A u : HasPage(u)' <=> HasPage(u) \/ u = t
        BY <1>1, <2>8, <2>10 DEF HasPage
      <3>2. ASSUME NEW c \in Call, call'[c].state = "waiting"
            PROVE  ~HasPage(call[c].of)'
        <4>1. PICK u : u = call[c].of
          OBVIOUS
        <4>2. call'[c] = call[c] /\ u # t
          BY <2>14, <3>2, <4>1
        <4>3. ~HasPage(u)
          BY <2>11, <3>2, <4>1, <4>2 DEF MeetOk
        <4>4. ~HasPage(u)'
          BY <3>1, <4>2, <4>3
        <4>5. call'[c].of = u
          BY <4>1, <4>2
        <4> QED BY <4>4, <4>5
      <3>3. ASSUME NEW u \in Target, target[u].open, target[u].autoAttached
            PROVE  \E p \in Session : /\ session'[p].of = u
                                      /\ session'[p].phase \in {"announced", "waiting"}
                                           \/ Contains(pagesById', p)
        <4>1. PICK p \in Session : /\ session[p].of = u
                                   /\ session[p].phase \in {"announced", "waiting"} \/ Contains(pagesById, p)
          BY <2>11, <3>3 DEF MeetOk
        <4>2. CASE p # s
          BY <2>8, <2>10, <4>1, <4>2
        <4>3. CASE p = s
          BY <2>8, <2>10, <4>1, <4>3
        <4> QED BY <4>2, <4>3
      <3> QED BY <2>8, <3>2, <3>3 DEF MeetOk
    <2>19. NewPageIsNoPopup'
      <3>1. target[t].creator # None /\ o # 0 => session[o].of = TriggerPopupOn[target[t].creator]
        <4>1. ASSUME target[t].creator # None PROVE t \in createdTargetIds
          <5>1. SUFFICES ASSUME t \notin createdTargetIds PROVE FALSE
            OBVIOUS
          <5>2. target[t].creator \in session[s].awaits /\ target[t].creator \in creating
            BY <1>1, <1>2, <4>1, <5>1 DEF CreatorsOk
          <5> QED BY <1>2, <5>2
        <4> QED BY <2>1, <4>1, OpenerFound
      <3>2. SUFFICES ASSUME NEW p \in Session, IsPage(p)', target[session[p].of].creator # None,
                            session'[p].opener # 0
                     PROVE  session'[session'[p].opener].of = TriggerPopupOn[target[session[p].of].creator]
        BY <2>8 DEF NewPageIsNoPopup
      <3>3. CASE p = s
        BY <1>1, <2>5, <2>8, <3>1, <3>2, <3>3
      <3>4. CASE p # s
        <4>1. PICK q : q = session[p].opener
          OBVIOUS
        <4>2. IsPage(p) /\ session'[p].opener = q /\ q \in Session
          BY <2>8, <2>9, <3>2, <3>4, <4>1 DEF SessionsOk
        <4>3. session[q].of = TriggerPopupOn[target[session[p].of].creator]
          BY <3>2, <4>1, <4>2 DEF NewPageIsNoPopup
        <4> QED BY <2>8, <4>2, <4>3
      <3> QED BY <3>3, <3>4
    <2>20. NewPageFailsForAReason'
      <3>1. \A c \in Call : call[c].state = "failed" => call'[c] = call[c]
        BY <2>13 DEF CallsMarked
      <3>2. \A c \in Call : call'[c].state = "failed" => call[c].state = "failed"
        BY <2>14
      <3> QED BY <2>8, <3>1, <3>2, ReasonsStay
    <2> QED BY <2>8, <2>12, <2>15, <2>16, <2>17, <2>18, <2>19, <2>20
  <1> QED BY <1>5, <1>6

-----------------------------------------------------------------------------
\* newPage hears from Chrome.

\* The first message is taken.
LEMMA Heard ==
  ASSUME PipeOk, inbox # <<>>, inbox' = Tail(inbox)
  PROVE  /\ \E S : inbox' \in Seq(S)
         /\ Len(inbox) \in Nat \ {0} /\ Len(inbox') = Len(inbox) - 1
         /\ Head(inbox) = inbox[1] /\ 1 \in Inbox /\ MessageOk(inbox[1])
         /\ \A i \in Inbox' : i \in Nat /\ i + 1 \in Inbox /\ inbox'[i] = inbox[i + 1]
         /\ \A i \in Inbox : i # 1 => i - 1 \in Inbox' /\ inbox'[i - 1] = inbox[i]
  <1>1. PICK M : inbox \in Seq(M)
    BY DEF PipeOk
  <1>2. /\ \E S : inbox' \in Seq(S)
        /\ Len(inbox) \in Nat \ {0} /\ Len(inbox') = Len(inbox) - 1
        /\ \A i \in 1..Len(inbox') : inbox'[i] = inbox[i + 1]
        /\ Head(inbox) = inbox[1]
    BY <1>1, Taken
  <1>3. \A i \in Inbox' : i \in Nat /\ i + 1 \in Inbox /\ inbox'[i] = inbox[i + 1]
    BY <1>2 DEF Inbox
  <1>4. \A i \in Inbox : i # 1 => i - 1 \in Inbox' /\ inbox'[i - 1] = inbox[i]
    <2>1. \A i \in Inbox : i # 1 => i \in Nat /\ i - 1 \in Inbox' /\ (i - 1) + 1 = i
      BY <1>2 DEF Inbox
    <2> QED BY <1>3, <2>1
  <1> QED BY <1>2, <1>3, <1>4, FirstMessage

\* Its call asks for nothing, or for the next answer.
LEMMA AnswerHeard ==
  ASSUME PipeOk, UnderWayOk, inbox # <<>>, inbox' = Tail(inbox),
         NEW c \in Call, inbox[1].of = c, inbox[1].kind \in {"created", "attachedFor"},
         \A d \in Call : d # c => call'[d] = call[d],
         \/ call'[c].state \notin {"creating", "attaching"} /\ commands' = commands
         \/ call'[c].state = "attaching" /\ commands' = commands \cup {Command("attach", c)}
  PROVE  UnderWayOk'
  <1>1. /\ 1 \in Inbox
        /\ \A i \in Inbox' : i \in Nat /\ i + 1 \in Inbox /\ inbox'[i] = inbox[i + 1]
        /\ \A i \in Inbox : i # 1 => i - 1 \in Inbox' /\ inbox'[i - 1] = inbox[i]
    BY Heard
  <1>2. Answer(1, c) /\ Answered(c) /\ ~Asked(c) /\ \A j \in Inbox : Answer(j, c) => j = 1
    BY <1>1 DEF UnderWayOk, Answer, Answered
  <1>3. \A i \in Inbox' : ~Answer(i, c)'
    <2> SUFFICES ASSUME NEW i \in Inbox', Answer(i, c)' PROVE FALSE
      OBVIOUS
    <2>1. i + 1 \in Inbox /\ Answer(i + 1, c)
      BY <1>1 DEF Answer
    <2>2. i \in Nat /\ i # 0
      BY <1>1 DEF Inbox
    <2> QED BY <1>2, <2>1, <2>2
  <1>4. ~Answered(c)'
    BY <1>3 DEF Answered
  <1>5. /\ Command("create", c) \notin commands'
        /\ Command("attach", c) \in commands' <=> call'[c].state = "attaching"
        /\ call'[c].state # "creating"
    BY <1>2 DEF Asked, Command
  <1>6. ASSUME NEW d \in Call, d # c
        PROVE  /\ \A kind \in {"create", "attach"} : Command(kind, d) \in commands' <=> Command(kind, d) \in commands
               /\ \A i \in Inbox' : Answer(i, d)' => Answer(i + 1, d)
               /\ Answered(d)' <=> Answered(d)
    <2>1. \A kind \in {"create", "attach"} : Command(kind, d) \in commands' <=> Command(kind, d) \in commands
      BY <1>6 DEF Command
    <2>2. \A i \in Inbox' : Answer(i, d)' => Answer(i + 1, d)
      BY <1>1 DEF Answer
    <2>3. \A i \in Inbox : Answer(i, d) => i # 1 /\ Answer(i - 1, d)'
      BY <1>1, <1>6 DEF Answer
    <2>4. Answered(d)' => Answered(d)
      BY <1>1, <2>2 DEF Answered
    <2>5. Answered(d) => Answered(d)'
      BY <1>1, <2>3 DEF Answered
    <2> QED BY <2>1, <2>2, <2>4, <2>5
  <1>7. ASSUME NEW d \in Call
        PROVE  /\ Command("create", d) \in commands' => call'[d].state = "creating"
               /\ Command("attach", d) \in commands' => call'[d].state = "attaching"
               /\ Asked(d)' => ~Answered(d)'
               /\ call'[d].state \in {"creating", "attaching"} => Asked(d)' \/ Answered(d)'
    <2>1. CASE d = c
      BY <1>4, <1>5, <2>1 DEF Asked
    <2>2. CASE d # c
      <3>1. Asked(d)' <=> Asked(d)
        BY <1>6, <2>2 DEF Asked
      <3>2. call'[d] = call[d]
        BY <2>2
      <3> QED BY <1>6, <2>2, <3>1, <3>2 DEF UnderWayOk
    <2> QED BY <2>1, <2>2
  <1>8. ASSUME NEW d \in Call, NEW i \in Inbox', Answer(i, d)'
        PROVE  /\ call'[d].state = IF inbox'[i].kind = "created" THEN "creating" ELSE "attaching"
               /\ \A j \in Inbox' : Answer(j, d)' => i = j
    <2>1. d # c
      BY <1>3, <1>8
    <2>2. Answer(i + 1, d) /\ i + 1 \in Inbox /\ inbox'[i] = inbox[i + 1] /\ i \in Nat
      BY <1>1, <1>6, <1>8, <2>1
    <2>3. call[d].state = IF inbox[i + 1].kind = "created" THEN "creating" ELSE "attaching"
      BY <2>2 DEF UnderWayOk
    <2>4. ASSUME NEW j \in Inbox', Answer(j, d)' PROVE i = j
      <3>1. Answer(j + 1, d) /\ j + 1 \in Inbox /\ j \in Nat
        BY <1>1, <1>6, <2>1, <2>4
      <3>2. i + 1 = j + 1
        BY <2>2, <3>1 DEF UnderWayOk
      <3> QED BY <2>2, <3>1, <3>2
    <2> QED BY <2>1, <2>2, <2>3, <2>4
  <1> QED BY <1>7, <1>8 DEF UnderWayOk

\* AttachedOk survives the handling of another message.
LEMMA AttachedAlone ==
  ASSUME PipeOk, AttachedOk, session' = session, inbox # <<>>, inbox' = Tail(inbox),
         inbox[1].kind # "attached"
  PROVE  AttachedOk'
  <1>1. /\ \A i \in Inbox' : i \in Nat /\ i + 1 \in Inbox /\ inbox'[i] = inbox[i + 1]
        /\ \A i \in Inbox : i # 1 => i - 1 \in Inbox' /\ inbox'[i - 1] = inbox[i]
    BY Heard
  <1>2. ASSUME NEW i \in Inbox', NEW j \in Inbox', inbox'[i].kind = "attached", inbox'[j].kind = "attached",
               inbox'[i].of = inbox'[j].of
        PROVE  i = j
    <2>1. /\ i \in Nat /\ i + 1 \in Inbox /\ inbox'[i] = inbox[i + 1]
          /\ j \in Nat /\ j + 1 \in Inbox /\ inbox'[j] = inbox[j + 1]
      BY <1>1
    <2>2. i + 1 = j + 1
      BY <1>2, <2>1 DEF AttachedOk
    <2> QED BY <2>1, <2>2
  <1>3. ASSUME NEW s \in Session, session[s].phase = "announced"
        PROVE  \E i \in Inbox' : inbox'[i].kind = "attached" /\ inbox'[i].of = s
    <2>1. PICK i \in Inbox : inbox[i].kind = "attached" /\ inbox[i].of = s
      BY <1>3 DEF AttachedOk
    <2>2. i # 1
      BY <2>1
    <2>3. i - 1 \in Inbox' /\ inbox'[i - 1] = inbox[i]
      BY <1>1, <2>2
    <2> QED BY <2>1, <2>3
  <1>4. Session' = Session
    BY DEF Session
  <1> QED BY <1>2, <1>3, <1>4 DEF AttachedOk

\* A call hears from Chrome: it fails, knows its target and attaches to it, or goes on to its
\* page.
LEMMA CallHears ==
  ASSUME IInv, inbox # <<>>, inbox' = Tail(inbox),
         NEW c \in Call, inbox[1].of = c, inbox[1].kind \in {"created", "attachedFor"},
         NEW r \in CallRecord, call' = [call EXCEPT ![c] = r],
         r.of \in {0} \cup Target, r.page \in {0} \cup Session,
         \/ r.state \in {"failed", "attaching"} /\ creating' = creating
         \/ r.state \in {"opening", "waiting", "failed"} /\ creating' = creating \ {c},
         r.state \in {"attaching", "waiting"} => r.of # 0,
         r.state = "opening" => r.page # 0,
         r.state = "waiting" => context = "closed" \/ ~HasPage(r.of),
         r.state = "failed" => creating' = creating \/ context # "open",
         createdTargetIds \subseteq createdTargetIds', createdTargetIds' \subseteq Target,
         \/ r.state = "failed" /\ creating' = creating
         \/ \A t \in Target \ createdTargetIds' : target[t].creator # c,
         \/ r.state # "attaching" /\ commands' = commands
         \/ r.state = "attaching" /\ commands' = commands \cup {Command("attach", c)},
         UNCHANGED <<chromeVars, session, pagesById, attachedTargetIds, contextVars>>
  PROVE  IInv'
  <1> USE DEF IInv
  <1>1. /\ UNCHANGED <<target, disposed, session, pagesById, attachedTargetIds, context, closing, environment>>
        /\ Target' = Target /\ Session' = Session
    BY DEF chromeVars, contextVars, Target, Session
  <1>2. /\ call'[c] = r /\ \A d \in Call : d # c => call'[d] = call[d]
        /\ call' \in [Call -> CallRecord]
    BY DEF CallsOk
  <1>3. /\ \E S : inbox' \in Seq(S)
        /\ Head(inbox) = inbox[1] /\ 1 \in Inbox
        /\ \A i \in Inbox' : i \in Nat /\ i + 1 \in Inbox /\ inbox'[i] = inbox[i + 1]
    BY Heard
  <1>4. call[c].state \in {"creating", "attaching"} /\ c \in creating
    BY <1>3 DEF UnderWayOk, Answer, CallsOk
  <1>5. creating' \subseteq creating /\ \A d \in Call : d # c => (d \in creating' <=> d \in creating)
    OBVIOUS
  <1>6. TargetsOk' /\ SessionsOk' /\ PagesOk' /\ NewPageIsNoPopup'
    <2>1. TargetsOk'
      BY <1>1 DEF TargetsOk, HasTarget
    <2>2. SessionsOk'
      BY <1>1 DEF SessionsOk
    <2>3. PagesOk'
      BY <1>1, PagesAlone
    <2>4. NewPageIsNoPopup'
      BY <1>1 DEF NewPageIsNoPopup, IsPage
    <2> QED BY <2>1, <2>2, <2>3, <2>4
  <1>7. PipeOk'
    <2>1. \A m : (MessageOk(m) => MessageOk(m)') /\ (CommandOk(m) => CommandOk(m)')
      <3> HIDE DEF IInv
      <3>1. TargetsOk /\ SessionsOk /\ PipeOk
        BY DEF IInv
      <3> QED BY <1>1, <3>1, PipeKept
    <2>2. \A i \in Inbox' : MessageOk(inbox'[i])
      BY <1>3 DEF PipeOk
    <2>3. CommandOk(Command("attach", c))
      BY DEF CommandOk, Command
    <2>4. \A m \in commands' : CommandOk(m)
      BY <2>3 DEF PipeOk
    <2> QED BY <1>3, <2>1, <2>2, <2>4 DEF PipeOk
  <1>8. AttachedOk'
    BY <1>1, AttachedAlone
  <1>9. CallsOk'
    <2>1. ASSUME NEW d \in Call
          PROVE  /\ call'[d].of \in {0} \cup Target /\ call'[d].page \in {0} \cup Session
                 /\ call'[d].state \in {"creating", "attaching"} => d \in creating'
                 /\ d \in creating' => call'[d].state \in {"creating", "attaching", "failed"}
                 /\ call'[d].state \in {"attaching", "waiting"} => call'[d].of # 0
                 /\ call'[d].state = "opening" => call'[d].page # 0
      <3>1. CASE d = c
        BY <1>2, <1>4, <3>1
      <3>2. CASE d # c
        BY <1>2, <1>5, <3>2 DEF CallsOk
      <3> QED BY <3>1, <3>2
    <2>2. creating' \subseteq Call
      BY <1>5 DEF CallsOk
    <2> QED BY <1>1, <1>2, <2>1, <2>2 DEF CallsOk
  <1>10. UnderWayOk'
    BY <1>2, AnswerHeard
  <1>11. CreatorsOk'
    <2>1. ASSUME NEW t \in Target \ createdTargetIds', target[t].creator # None
          PROVE  /\ target[t].creator \in creating'
                 /\ call'[target[t].creator].state \in {"creating", "failed"}
      <3>1. PICK d \in Call : d = target[t].creator
        BY <2>1, Shapes DEF TargetRecord
      <3>2. d \in creating /\ call[d].state \in {"creating", "failed"}
        BY <2>1, <3>1 DEF CreatorsOk
      <3>3. CASE d = c
        BY <1>2, <1>4, <2>1, <3>1, <3>3
      <3>4. CASE d # c
        BY <1>2, <1>5, <3>1, <3>2, <3>4
      <3> QED BY <3>3, <3>4
    <2>2. \A s \in Session :
            LET t == session[s].of IN
            session[s].phase = "waiting" /\ target[t].creator # None /\ t \notin createdTargetIds'
              => target[t].creator \in session[s].awaits
      BY DEF CreatorsOk
    <2> HIDE DEF IInv
    <2> QED BY <1>1, <2>1, <2>2 DEF CreatorsOk
  <1>12. MeetOk'
    <2>1. \A u : HasPage(u)' <=> HasPage(u)
      BY <1>1 DEF HasPage
    <2>2. ASSUME context # "closed", NEW d \in Call, call'[d].state = "waiting"
          PROVE  ~HasPage(call[d].of)'
      <3>1. PICK u : u = call'[d].of
        OBVIOUS
      <3>2. ~HasPage(u)
        <4>1. CASE d = c
          BY <1>2, <2>2, <3>1, <4>1
        <4>2. CASE d # c
          BY <1>2, <2>2, <3>1, <4>2 DEF MeetOk
        <4> QED BY <4>1, <4>2
      <3> QED BY <2>1, <3>1, <3>2
    <2>3. context # "closed" => \A t \in Target : target[t].open /\ target[t].autoAttached =>
             \E s \in Session : /\ session[s].of = t
                                /\ session[s].phase \in {"announced", "waiting"} \/ Contains(pagesById, s)
      BY DEF MeetOk
    <2> HIDE DEF IInv
    <2> QED BY <1>1, <2>2, <2>3 DEF MeetOk
  <1>13. NewPageFailsForAReason'
    <2>1. ASSUME NEW d \in Call, call'[d].state = "failed"
          PROVE  call[d].state = "failed" \/ Reason(d)'
      <3>1. CASE d # c
        BY <1>2, <2>1, <3>1
      <3>2. CASE d = c /\ creating' = creating
        BY <1>2, <1>4, <2>1, <3>2 DEF Reason
      <3>3. CASE d = c /\ context # "open"
        BY <1>1, <3>3 DEF Reason
      <3> QED BY <1>2, <2>1, <3>1, <3>2, <3>3
    <2>2. \A d \in Call : call[d].state = "failed" =>
            call'[d] = call[d] /\ (d \in creating => d \in creating')
      BY <1>2, <1>4, <1>5
    <2> QED BY <1>1, <2>1, <2>2, ReasonsStay
  <1> QED BY <1>6, <1>7, <1>8, <1>9, <1>10, <1>11, <1>12, <1>13

\* The record of a call that goes on to its page.
LEMMA CallProceeds ==
  ASSUME TargetsOk, SessionsOk, NEW t \in Target, NEW p \in {0} \cup Session,
         NEW v \in {"opening", "failed", "waiting"}
  PROVE  [of |-> t, page |-> p, state |-> v] \in CallRecord
  BY Shapes DEF CallRecord

\* A call that fails keeps its promise unresolved.
LEMMA CallFails ==
  ASSUME IInv, inbox # <<>>, inbox' = Tail(inbox),
         NEW c \in Call, inbox[1].of = c, inbox[1].kind \in {"created", "attachedFor"},
         Fails(c), UNCHANGED <<chromeVars, session, pagesById, idVars, commands, contextVars>>
  PROVE  IInv'
  <1>1. PICK r : r = [call[c] EXCEPT !.state = "failed"]
    OBVIOUS
  <1>2. call' = [call EXCEPT ![c] = r] /\ creating' = creating
    BY <1>1 DEF Fails
  <1>3. call[c] \in CallRecord /\ call[c].of \in {0} \cup Target /\ call[c].page \in {0} \cup Session
    BY DEF IInv, CallsOk
  <1>4. r \in CallRecord /\ r.state = "failed" /\ r.of = call[c].of /\ r.page = call[c].page
    BY <1>1, <1>3 DEF CallRecord
  <1>5. /\ createdTargetIds' = createdTargetIds /\ createdTargetIds \subseteq Target
        /\ UNCHANGED <<chromeVars, session, pagesById, attachedTargetIds, contextVars>>
    BY DEF IInv, TargetsOk, idVars
  <1>6. r.of \in {0} \cup Target /\ r.page \in {0} \cup Session
    BY <1>3, <1>4
  <1> QED BY <1>2, <1>4, <1>5, <1>6, CallHears

\* A call that knows its target goes on to its page.
LEMMA CallContinues ==
  ASSUME IInv, inbox # <<>>, inbox' = Tail(inbox),
         NEW c \in Call, inbox[1].of = c, inbox[1].kind \in {"created", "attachedFor"},
         NEW t \in Target, Continues(c, t),
         createdTargetIds \subseteq createdTargetIds', createdTargetIds' \subseteq Target,
         \A u \in Target \ createdTargetIds' : target[u].creator # c,
         UNCHANGED <<chromeVars, session, pagesById, attachedTargetIds, commands, contextVars>>
  PROVE  IInv'
  <1>1. PICK p \in {0} \cup Session : p = PageOf(t)
    BY PageFound DEF IInv
  <1>2. PICK v \in {"opening", "failed", "waiting"} :
          v = IF p # 0 THEN "opening" ELSE IF context = "closed" THEN "failed" ELSE "waiting"
    OBVIOUS
  <1>3. PICK r : r = [of |-> t, page |-> p, state |-> v]
    OBVIOUS
  <1>4. call' = [call EXCEPT ![c] = r] /\ creating' = creating \ {c}
    BY <1>1, <1>2, <1>3 DEF Continues
  <1>5. r \in CallRecord /\ r.of = t /\ r.page = p /\ r.state = v
    BY <1>3, CallProceeds DEF IInv
  <1>6. p = 0 => ~HasPage(t)
    BY <1>1, PageFound DEF IInv
  <1>7. t # 0
    BY Shapes DEF IInv
  <1>8. /\ r.state \in {"opening", "waiting", "failed"}
        /\ r.state = "opening" => r.page # 0
        /\ r.state = "waiting" => context = "closed" \/ ~HasPage(r.of)
        /\ r.state = "failed" => context # "open"
    BY <1>2, <1>5, <1>6
  <1>9. r.of \in {0} \cup Target /\ r.page \in {0} \cup Session /\ r.of # 0
    BY <1>5, <1>7
  <1> QED BY <1>4, <1>5, <1>8, <1>9, CallHears

\* The answer to createTarget: the call fails, attaches or goes on.
LEMMA OnCreatedStep ==
  ASSUME IInv, Handles("created"), OnCreated(Head(inbox).of, Head(inbox).says = "ok")
  PROVE  IInv'
  <1>1. PICK c : c = Head(inbox).of
    OBVIOUS
  <1>2. /\ inbox # <<>> /\ inbox' = Tail(inbox) /\ UNCHANGED <<chromeVars, contextVars>>
        /\ UNCHANGED <<session, pagesById>>
    BY DEF Handles, OnCreated, contextVars
  <1>3. /\ c \in Call /\ inbox[1].of = c /\ inbox[1].kind = "created"
        /\ inbox[1].says = "ok" => HasTarget(c)
    BY <1>1, <1>2, FirstMessage DEF IInv, Handles, MessageOk
  <1>4. Head(inbox).says = inbox[1].says
    BY <1>2, FirstMessage DEF IInv
  <1>5. CASE inbox[1].says # "ok"
    <2>1. Fails(c) /\ UNCHANGED <<idVars, commands>>
      BY <1>1, <1>4, <1>5 DEF OnCreated
    <2> QED BY <1>2, <1>3, <2>1, CallFails
  <1>6. CASE inbox[1].says = "ok"
    <2>1. PICK t \in Target : t = TargetOf(c) /\ target[t].creator = c
      BY <1>3, <1>6, TargetFound DEF IInv
    <2>2. /\ createdTargetIds' = createdTargetIds \cup {t}
          /\ attachedTargetIds' = attachedTargetIds
          /\ \/ Continues(c, t) /\ UNCHANGED commands
             \/ /\ call' = [call EXCEPT ![c].state = "attaching", ![c].of = t]
                /\ commands' = commands \cup {Command("attach", c)} /\ UNCHANGED creating
      BY <1>1, <1>4, <1>6, <2>1 DEF OnCreated
    <2>3. createdTargetIds \subseteq createdTargetIds' /\ createdTargetIds' \subseteq Target
      BY <2>2 DEF IInv, TargetsOk
    <2>4. \A u \in Target \ createdTargetIds' : target[u].creator # c
      <3>1. \A u \in Target : target[u].creator = c => u = t
        BY <1>3, <2>1, PageAssumption DEF IInv, TargetsOk
      <3> QED BY <2>2, <3>1
    <2>5. CASE Continues(c, t) /\ UNCHANGED commands
      BY <1>2, <1>3, <2>2, <2>3, <2>4, <2>5, CallContinues
    <2>6. CASE /\ call' = [call EXCEPT ![c].state = "attaching", ![c].of = t]
               /\ commands' = commands \cup {Command("attach", c)} /\ UNCHANGED creating
      <3>1. PICK r : r = [call[c] EXCEPT !.state = "attaching", !.of = t]
        OBVIOUS
      <3>2. call[c] \in CallRecord /\ call[c].page \in {0} \cup Session
        BY <1>3 DEF IInv, CallsOk
      <3>3. t \in Nat /\ t # 0
        BY Shapes DEF IInv
      <3>4. r \in CallRecord /\ r.state = "attaching" /\ r.of = t /\ r.page = call[c].page
        BY <3>1, <3>2, <3>3 DEF CallRecord
      <3>5. call' = [call EXCEPT ![c] = r]
        BY <2>6, <3>1
      <3>6. r.of \in {0} \cup Target /\ r.page \in {0} \cup Session /\ r.of # 0
        BY <3>2, <3>3, <3>4
      <3> QED BY <1>2, <1>3, <2>2, <2>3, <2>4, <2>6, <3>4, <3>5, <3>6, CallHears
    <2> QED BY <2>2, <2>5, <2>6
  <1> QED BY <1>5, <1>6

\* The answer to attachToTarget: the call fails or goes on.
LEMMA OnAttachedForStep ==
  ASSUME IInv, Handles("attachedFor"), OnAttachedFor(Head(inbox).of, Head(inbox).says = "ok")
  PROVE  IInv'
  <1>1. PICK c : c = Head(inbox).of
    OBVIOUS
  <1>2. /\ inbox # <<>> /\ inbox' = Tail(inbox) /\ UNCHANGED <<chromeVars, contextVars>>
        /\ UNCHANGED <<session, pagesById, idVars, commands>>
    BY DEF Handles, OnAttachedFor, contextVars
  <1>3. c \in Call /\ inbox[1].of = c /\ inbox[1].kind = "attachedFor" /\ 1 \in Inbox
    BY <1>1, <1>2, FirstMessage DEF IInv, Handles, MessageOk
  <1>4. CASE Head(inbox).says # "ok"
    <2>1. Fails(c)
      BY <1>1, <1>4 DEF OnAttachedFor
    <2> QED BY <1>2, <1>3, <2>1, CallFails
  <1>5. CASE Head(inbox).says = "ok"
    <2>1. call[c].state = "attaching"
      BY <1>3 DEF IInv, UnderWayOk, Answer
    <2>2. PICK t \in Target : t = call[c].of
      BY <1>3, <2>1 DEF IInv, CallsOk
    <2>3. Continues(c, t)
      BY <1>1, <1>5, <2>2 DEF OnAttachedFor
    <2>4. /\ createdTargetIds' = createdTargetIds /\ attachedTargetIds' = attachedTargetIds
          /\ createdTargetIds \subseteq Target
      BY <1>2 DEF IInv, TargetsOk, idVars
    <2>5. \A u \in Target \ createdTargetIds : target[u].creator # c
      BY <1>3, <2>1, PageAssumption DEF IInv, CreatorsOk
    <2> QED BY <1>2, <1>3, <2>3, <2>4, <2>5, CallContinues
  <1> QED BY <1>4, <1>5

-----------------------------------------------------------------------------
\* Sessions come and go.

\* UnderWayOk survives the handling of a message that is no answer to newPage.
LEMMA UnderWayAlone ==
  ASSUME PipeOk, UnderWayOk, inbox # <<>>, inbox' = Tail(inbox),
         inbox[1].kind \notin {"created", "attachedFor"}, UNCHANGED <<call, commands>>
  PROVE  UnderWayOk'
  <1>1. /\ \A i \in Inbox' : i \in Nat /\ i + 1 \in Inbox /\ inbox'[i] = inbox[i + 1]
        /\ \A i \in Inbox : i # 1 => i - 1 \in Inbox' /\ inbox'[i - 1] = inbox[i]
    BY Heard
  <1>2. \A d \in Call : \A i \in Inbox' : Answer(i, d)' <=> Answer(i + 1, d)
    BY <1>1 DEF Answer
  <1>3. ASSUME NEW d \in Call
        PROVE  (Answered(d)' <=> Answered(d)) /\ (Asked(d)' <=> Asked(d))
    <2>1. \A i \in Inbox : Answer(i, d) => i # 1
      BY DEF Answer
    <2>2. \A i \in Inbox : Answer(i, d) => i - 1 \in Inbox' /\ Answer(i - 1, d)'
      BY <1>1, <2>1 DEF Answer
    <2>3. Answered(d) => Answered(d)'
      BY <2>2 DEF Answered
    <2>4. Answered(d)' => Answered(d)
      BY <1>1, <1>2 DEF Answered
    <2> QED BY <2>3, <2>4 DEF Asked
  <1>4. ASSUME NEW d \in Call, NEW i \in Inbox', Answer(i, d)'
        PROVE  /\ call[d].state = IF inbox'[i].kind = "created" THEN "creating" ELSE "attaching"
               /\ \A j \in Inbox' : Answer(j, d)' => i = j
    <2>1. Answer(i + 1, d) /\ i + 1 \in Inbox /\ inbox'[i] = inbox[i + 1] /\ i \in Nat
      BY <1>1, <1>2, <1>4
    <2>2. call[d].state = IF inbox[i + 1].kind = "created" THEN "creating" ELSE "attaching"
      BY <2>1 DEF UnderWayOk
    <2>3. ASSUME NEW j \in Inbox', Answer(j, d)' PROVE i = j
      <3>1. Answer(j + 1, d) /\ j + 1 \in Inbox /\ j \in Nat
        BY <1>1, <1>2, <2>3
      <3>2. i + 1 = j + 1
        BY <2>1, <3>1 DEF UnderWayOk
      <3> QED BY <2>1, <3>1, <3>2
    <2> QED BY <2>1, <2>2, <2>3
  <1> QED BY <1>3, <1>4 DEF UnderWayOk

\* The session of an attached message waits for the creations under way; a closed context
\* ignores it.
LEMMA OnAttachedStep ==
  ASSUME IInv, Handles("attached"), OnAttached(Head(inbox).of)
  PROVE  IInv'
  <1> USE DEF IInv
  <1>1. PICK s : s = Head(inbox).of
    OBVIOUS
  <1>2. /\ inbox # <<>> /\ inbox' = Tail(inbox)
        /\ UNCHANGED <<target, disposed, pagesById, createdTargetIds, call, creating, commands,
                       context, closing, environment>>
        /\ Target' = Target
    BY DEF Handles, OnAttached, chromeVars, callVars, Target
  <1>3. /\ s \in Session /\ inbox[1].of = s /\ inbox[1].kind = "attached" /\ 1 \in Inbox
        /\ session[s].phase = "announced"
    BY <1>1, <1>2, FirstMessage DEF Handles, MessageOk
  <1>4. /\ \E S : inbox' \in Seq(S)
        /\ \A i \in Inbox' : i \in Nat /\ i + 1 \in Inbox /\ inbox'[i] = inbox[i + 1]
        /\ \A i \in Inbox : i # 1 => i - 1 \in Inbox' /\ inbox'[i - 1] = inbox[i]
    BY <1>2, Heard
  <1>5. session[s] \in SessionRecord /\ creating \subseteq Call
    BY <1>3, Shapes DEF CallsOk
  <1>6. PICK r : /\ r \in SessionRecord /\ session' = [session EXCEPT ![s] = r]
                 /\ r.of = session[s].of /\ r.opener = session[s].opener
                 /\ r.closed = session[s].closed /\ r.closing = session[s].closing
                 /\ \/ r.phase = "ignored" /\ context = "closed"
                    \/ r.phase = "waiting" /\ r.awaits = creating
    <2>1. CASE context = "closed"
      <3>1. PICK r : r = [session[s] EXCEPT !.phase = "ignored", !.connected = TRUE]
        OBVIOUS
      <3>2. r \in SessionRecord /\ r.of = session[s].of /\ r.opener = session[s].opener /\ r.phase = "ignored"
        BY <1>5, <3>1 DEF SessionRecord
      <3>3. r.closed = session[s].closed /\ r.closing = session[s].closing
        BY <1>5, <3>1 DEF SessionRecord
      <3>4. session' = [session EXCEPT ![s] = r]
        BY <1>1, <2>1, <3>1 DEF OnAttached
      <3> QED BY <2>1, <3>2, <3>3, <3>4
    <2>2. CASE context # "closed"
      <3>1. PICK r : r = [session[s] EXCEPT !.phase = "waiting", !.connected = TRUE, !.awaits = creating]
        OBVIOUS
      <3>2. /\ r \in SessionRecord /\ r.of = session[s].of /\ r.opener = session[s].opener
            /\ r.phase = "waiting" /\ r.awaits = creating
        BY <1>5, <3>1 DEF SessionRecord
      <3>3. r.closed = session[s].closed /\ r.closing = session[s].closing
        BY <1>5, <3>1 DEF SessionRecord
      <3>4. session' = [session EXCEPT ![s] = r]
        BY <1>1, <2>2, <3>1 DEF OnAttached
      <3> QED BY <2>2, <3>2, <3>3, <3>4
    <2> QED BY <2>1, <2>2
  <1>7. /\ Session' = Session /\ session' \in Seq(SessionRecord)
        /\ session'[s] = r /\ \A p \in Session : p # s => session'[p] = session[p]
        /\ \A p \in Session : session'[p].of = session[p].of /\ session'[p].closed = session[p].closed
    <2>1. session' \in [Session -> SessionRecord] /\ Session' = Session
      BY <1>3, <1>6, Shapes DEF Session
    <2>2. session' \in Seq(SessionRecord)
      BY <2>1, Shapes, IsSequence
    <2> QED BY <1>3, <1>6, <2>1, <2>2, Shapes
  <1>8. attachedTargetIds' \subseteq Target
    BY <1>1, <1>3 DEF OnAttached, TargetsOk, SessionsOk
  <1>9. \A p \in Session : IsPage(p)' <=> IsPage(p)
    BY <1>3, <1>6, <1>7 DEF IsPage
  <1>10. TargetsOk'
    BY <1>2, <1>8 DEF TargetsOk, HasTarget
  <1>11. SessionsOk'
    <2>1. \A p \in Session : /\ session'[p].of \in Target /\ session'[p].opener \in {0} \cup Session
                             /\ session'[p].closed => session'[p].closing
      BY <1>6, <1>7 DEF SessionsOk
    <2> QED BY <1>2, <1>7, <2>1 DEF SessionsOk
  <1>12. PagesOk'
    <2>1. \A p : Contains(pagesById, p) => p \in Session /\ IsPage(p)'
      BY <1>9 DEF PagesOk
    <2>2. \A p \in Session : IsPage(p)' /\ ~session'[p].closed => Contains(pagesById, p)
      BY <1>7, <1>9 DEF PagesOk
    <2>3. \A p, q : Contains(pagesById, p) /\ Contains(pagesById, q) /\ session'[p].of = session'[q].of => p = q
      BY <1>7 DEF PagesOk
    <2>4. pagesById \in Seq(Nat) /\ Distinct(pagesById) /\ (context = "closed" => pagesById = <<>>)
      BY DEF PagesOk
    <2> HIDE DEF IInv
    <2> QED BY <1>2, <1>7, <2>1, <2>2, <2>3, <2>4 DEF PagesOk
  <1>13. \A i \in Inbox' : inbox'[i].kind = "attached" => inbox'[i].of # s
    <2>1. ASSUME NEW i \in Inbox', inbox'[i].kind = "attached", inbox'[i].of = s PROVE FALSE
      <3>1. i \in Nat /\ i + 1 \in Inbox /\ inbox'[i] = inbox[i + 1] /\ i # 0
        BY <1>4 DEF Inbox
      <3>2. i + 1 = 1
        BY <1>3, <2>1, <3>1 DEF AttachedOk
      <3> QED BY <3>1, <3>2
    <2> QED BY <2>1
  <1>14. PipeOk'
    <2>1. ASSUME NEW m
          PROVE  /\ MessageOk(m) /\ (m.kind = "attached" => session'[m.of].phase = "announced")
                      => MessageOk(m)'
                 /\ CommandOk(m) => CommandOk(m)'
      <3> HIDE DEF IInv
      <3>1. TargetsOk /\ SessionsOk
        BY DEF IInv
      <3> QED BY <1>2, <1>7, <3>1, MessagesStay
    <2>2. ASSUME NEW i \in Inbox' PROVE MessageOk(inbox[i])'
      <3>1. PICK m : m = inbox'[i]
        OBVIOUS
      <3>2. MessageOk(m)
        BY <1>4, <3>1 DEF PipeOk
      <3>3. m.kind = "attached" => m.of \in Session /\ m.of # s /\ session[m.of].phase = "announced"
        BY <1>13, <3>1, <3>2 DEF MessageOk
      <3>4. MessageOk(m)'
        BY <1>7, <2>1, <3>2, <3>3
      <3> QED BY <3>1, <3>4
    <2>3. \A m \in commands : CommandOk(m)
      BY DEF PipeOk
    <2>4. \A m \in commands' : CommandOk(m)'
      BY <1>2, <2>1, <2>3
    <2> HIDE DEF IInv
    <2> QED BY <1>4, <2>2, <2>4 DEF PipeOk
  <1>15. AttachedOk'
    <2>1. ASSUME NEW i \in Inbox', NEW j \in Inbox', inbox'[i].kind = "attached", inbox'[j].kind = "attached",
                 inbox'[i].of = inbox'[j].of
          PROVE  i = j
      <3>1. /\ i \in Nat /\ i + 1 \in Inbox /\ inbox'[i] = inbox[i + 1]
            /\ j \in Nat /\ j + 1 \in Inbox /\ inbox'[j] = inbox[j + 1]
        BY <1>4
      <3>2. i + 1 = j + 1
        BY <2>1, <3>1 DEF AttachedOk
      <3> QED BY <3>1, <3>2
    <2>2. ASSUME NEW p \in Session, session'[p].phase = "announced"
          PROVE  \E i \in Inbox' : inbox'[i].kind = "attached" /\ inbox'[i].of = p
      <3>1. p # s /\ session[p].phase = "announced"
        BY <1>6, <1>7, <2>2
      <3>2. PICK i \in Inbox : inbox[i].kind = "attached" /\ inbox[i].of = p
        BY <3>1 DEF AttachedOk
      <3>3. i # 1
        BY <1>3, <3>1, <3>2
      <3>4. i - 1 \in Inbox' /\ inbox'[i - 1] = inbox[i]
        BY <1>4, <3>3
      <3> QED BY <3>2, <3>4
    <2> HIDE DEF IInv
    <2> QED BY <1>7, <2>1, <2>2 DEF AttachedOk
  <1>16. CallsOk'
    BY <1>2, <1>7 DEF CallsOk
  <1>17. UnderWayOk'
    BY <1>2, <1>3, UnderWayAlone
  <1>18. CreatorsOk'
    <2>1. \A t \in Target \ createdTargetIds : target[t].creator # None =>
            target[t].creator \in creating /\ call[target[t].creator].state \in {"creating", "failed"}
      BY DEF CreatorsOk
    <2>2. ASSUME NEW p \in Session, session'[p].phase = "waiting", target[session[p].of].creator # None,
                 session[p].of \notin createdTargetIds
          PROVE  target[session[p].of].creator \in session'[p].awaits
      <3>1. CASE p # s
        BY <1>7, <2>2, <3>1 DEF CreatorsOk
      <3>2. CASE p = s
        <4>1. session'[p].awaits = creating /\ session[p].of \in Target
          BY <1>6, <1>7, <2>2, <3>2 DEF SessionsOk
        <4> QED BY <2>1, <2>2, <4>1
      <3> QED BY <3>1, <3>2
    <2> HIDE DEF IInv
    <2>3. \A p \in Session' :
            LET t == session'[p].of IN
            session'[p].phase = "waiting" /\ target'[t].creator # None /\ t \notin createdTargetIds'
              => target'[t].creator \in session'[p].awaits
      BY <1>2, <1>7, <2>2
    <2> QED BY <1>2, <2>1, <2>3 DEF CreatorsOk
  <1>19. MeetOk'
    <2>1. \A u : HasPage(u)' <=> HasPage(u)
      BY <1>2, <1>7 DEF HasPage
    <2>2. ASSUME context # "closed", NEW t \in Target, target[t].open, target[t].autoAttached
          PROVE  \E p \in Session : /\ session'[p].of = t
                                    /\ session'[p].phase \in {"announced", "waiting"} \/ Contains(pagesById, p)
      <3>1. PICK p \in Session : /\ session[p].of = t
                                 /\ session[p].phase \in {"announced", "waiting"} \/ Contains(pagesById, p)
        BY <2>2 DEF MeetOk
      <3>2. session'[p].of = t
        BY <1>7, <3>1
      <3>3. CASE p # s
        BY <1>7, <3>1, <3>2, <3>3
      <3>4. CASE p = s
        BY <1>6, <1>7, <2>2, <3>2, <3>4
      <3> QED BY <3>3, <3>4
    <2>3. context # "closed" => \A c \in Call : call[c].state = "waiting" => ~HasPage(call[c].of)
      BY DEF MeetOk
    <2>4. context # "closed" => \A c \in Call : call[c].state = "waiting" => ~HasPage(call[c].of)'
      <3> SUFFICES ASSUME context # "closed", NEW c \in Call, call[c].state = "waiting"
                   PROVE  ~HasPage(call[c].of)'
        OBVIOUS
      <3>1. PICK u : u = call[c].of
        OBVIOUS
      <3>2. ~HasPage(u)'
        BY <2>1, <2>3, <3>1
      <3> QED BY <1>2, <3>1, <3>2
    <2> HIDE DEF IInv
    <2> QED BY <1>2, <1>7, <2>2, <2>4 DEF MeetOk
  <1>20. NewPageIsNoPopup'
    <2>1. \A p \in Session : session'[p].opener = session[p].opener
      BY <1>6, <1>7
    <2> QED BY <1>2, <1>7, <1>9, <2>1, PopupsKept
  <1>21. NewPageFailsForAReason'
    <2>1. \A p \in Session : /\ session[p].closed => session'[p].closed
                             /\ session[p].phase = "failed" => session'[p].phase = "failed"
      BY <1>3, <1>7
    <2> QED BY <1>2, <1>7, <2>1, ReasonsStay
  <1> QED BY <1>10, <1>11, <1>12, <1>14, <1>15, <1>16, <1>17, <1>18, <1>19, <1>20, <1>21

\* A session detached: its target is gone, the page of the target closes and leaves the map.
LEMMA OnDetachedStep ==
  ASSUME IInv, Handles("detached"), OnDetached(Head(inbox).of)
  PROVE  IInv'
  <1> USE DEF IInv
  <1>1. PICK s \in Session : s = Head(inbox).of /\ ~target[session[s].of].open
    BY FirstMessage DEF Handles, MessageOk
  <1>2. PICK t \in Target : t = session[s].of /\ ~target[t].open
    BY <1>1 DEF SessionsOk
  <1>3. PICK p : p = IF context = "closed" THEN 0 ELSE PageOf(t)
    OBVIOUS
  <1>4. /\ session' = [DidClose({p}) EXCEPT ![s].connected = FALSE]
        /\ pagesById' = RemoveFirst(pagesById, p)
        /\ attachedTargetIds' \subseteq attachedTargetIds
        /\ UNCHANGED <<target, disposed, createdTargetIds, callVars, commands, context, closing, environment>>
    BY <1>1, <1>2, <1>3 DEF OnDetached, Handles, chromeVars
  <1>5. PICK d : d = DidClose({p})
    OBVIOUS
  <1>6. /\ d \in [Session -> SessionRecord]
        /\ \A x \in Session : /\ d[x].of = session[x].of /\ d[x].phase = session[x].phase
                              /\ d[x].awaits = session[x].awaits /\ d[x].opener = session[x].opener
                              /\ d[x].closed <=> session[x].closed \/ x = p
                              /\ d[x].closing <=> session[x].closing \/ x = p
    <2> HIDE DEF IInv
    <2>1. TargetsOk /\ SessionsOk
      BY DEF IInv
    <2>2. \A x \in Session : x \in {p} <=> x = p
      OBVIOUS
    <2> QED BY <1>5, <2>1, <2>2, DidCloseMarks
  <1>7. \A x \in Session : (session[x].closed => d[x].closed) /\ (d[x].closed => d[x].closing)
    BY <1>6 DEF SessionsOk
  <1>8. SessionsMarked
    BY <1>4, <1>5, <1>6, <1>7, CloseMarks
  <1>9. TargetsMarked /\ CallsMarked /\ CallCommandsKept
        /\ \A c \in Call : call'[c].state = "failed" => call[c].state = "failed"
    BY <1>4, TargetsAlone, CallsAlone, OtherCommand
  <1>10. Target' = Target /\ Session' = Session
    BY <1>8, <1>9, MarkedShapes
  <1>11. \A x \in Session : session'[x].closed <=> session[x].closed \/ x = p
    <2>1. ASSUME NEW x \in Session PROVE session'[x].closed = d[x].closed
      <3>1. session'[x] = IF x = s THEN [d[x] EXCEPT !.connected = FALSE] ELSE d[x]
        BY <1>4, <1>5, <1>6
      <3>2. d[x] \in SessionRecord
        BY <1>6
      <3> QED BY <3>1, <3>2 DEF SessionRecord
    <2> HIDE DEF IInv
    <2> QED BY <1>6, <2>1
  <1>12. /\ \A x \in Session : /\ session'[x].of = session[x].of /\ session'[x].phase = session[x].phase
                               /\ IsPage(x)' <=> IsPage(x)
    BY <1>8 DEF SessionsMarked, IsPage
  <1>13. /\ \E M : inbox' \in Seq(M)
         /\ OtherTaken /\ Len(inbox) \in Nat
         /\ \A i \in Inbox' : ~(i > Len(inbox))
    <2>1. Other(Head(inbox))
      BY DEF Handles, Other
    <2> QED BY <2>1, OtherHandled DEF Handles, OtherTaken
  <1>14. /\ pagesById' \in Seq(Nat) /\ Distinct(pagesById')
         /\ \A x : Contains(pagesById', x) <=> Contains(pagesById, x) /\ x # p
    BY <1>4, RemoveFirstMembers DEF PagesOk
  <1>15. TargetsOk' /\ SessionsOk'
    <2>1. TargetsOk'
      BY <1>4, <1>9, TargetsStay DEF TargetsOk
    <2>2. SessionsOk'
      BY <1>4, <1>8, <1>10, SessionsStay DEF SessionsOk
    <2> QED BY <2>1, <2>2
  <1>16. PagesOk'
    <2>1. \A x : Contains(pagesById', x) => x \in Session /\ IsPage(x)'
      BY <1>12, <1>14 DEF PagesOk
    <2>2. \A x \in Session : IsPage(x)' /\ ~session'[x].closed => Contains(pagesById', x)
      BY <1>11, <1>12, <1>14 DEF PagesOk
    <2>3. ASSUME NEW x, NEW y, Contains(pagesById', x), Contains(pagesById', y), session'[x].of = session'[y].of
          PROVE  x = y
      <3>1. x \in Session /\ y \in Session /\ session[x].of = session[y].of
        BY <1>12, <2>1, <2>3
      <3> QED BY <1>14, <2>3, <3>1 DEF PagesOk
    <2>4. context = "closed" => pagesById' = <<>>
      <3> SUFFICES ASSUME context = "closed" PROVE pagesById' = <<>>
        OBVIOUS
      <3>1. \A x : ~Contains(pagesById', x)
        BY <1>14, EmptyMembers DEF PagesOk
      <3>2. Len(pagesById') \in Nat /\ \A i \in 1..Len(pagesById') : FALSE
        BY <1>14, <3>1, LenProperties DEF Contains
      <3> QED BY <1>14, <3>2, EmptySeq
    <2> HIDE DEF IInv
    <2> QED BY <1>4, <1>10, <1>14, <2>1, <2>2, <2>3, <2>4 DEF PagesOk
  <1>17. PipeOk'
    BY <1>4, <1>8, <1>9, <1>13, PipeStays
  <1>18. AttachedOk'
    BY <1>10, <1>12, <1>13, AttachedStay
  <1>19. CallsOk' /\ UnderWayOk' /\ CreatorsOk'
    <2>1. CallsOk'
      BY <1>9, <1>10, CallsStay
    <2>2. UnderWayOk'
      BY <1>9, <1>13, UnderWayStays
    <2>3. CreatorsOk'
      BY <1>4, <1>8, <1>9, CreatorsStay
    <2> QED BY <2>1, <2>2, <2>3
  <1>20. MeetOk'
    <2>1. \A u : HasPage(u)' => HasPage(u)
      BY <1>10, <1>12, <1>14 DEF HasPage
    <2>2. ASSUME context # "closed", NEW u \in Target, target[u].open, target[u].autoAttached
          PROVE  \E x \in Session : /\ session'[x].of = u
                                    /\ session'[x].phase \in {"announced", "waiting"} \/ Contains(pagesById', x)
      <3>1. PICK x \in Session : /\ session[x].of = u
                                 /\ session[x].phase \in {"announced", "waiting"} \/ Contains(pagesById, x)
        BY <2>2 DEF MeetOk
      <3>2. u # t
        BY <1>2, <2>2
      <3>3. p # 0 => session[p].of = t
        BY <1>3, PageFound
      <3>4. x # 0
        BY Shapes
      <3>5. x # p
        BY <3>1, <3>2, <3>3, <3>4
      <3> QED BY <1>12, <1>14, <3>1, <3>5
    <2>3. context # "closed" => \A c \in Call : call[c].state = "waiting" => ~HasPage(call[c].of)'
      <3> SUFFICES ASSUME context # "closed", NEW c \in Call, call[c].state = "waiting"
                   PROVE  ~HasPage(call[c].of)'
        OBVIOUS
      <3>1. PICK u : u = call[c].of
        OBVIOUS
      <3>2. ~HasPage(u)'
        BY <2>1, <3>1 DEF MeetOk
      <3>3. call' = call
        BY <1>4 DEF callVars
      <3> QED BY <3>1, <3>2, <3>3
    <2>4. call' = call /\ target' = target /\ context' = context
      BY <1>4 DEF callVars
    <2> HIDE DEF IInv
    <2> QED BY <1>10, <2>2, <2>3, <2>4 DEF MeetOk
  <1>21. NewPageIsNoPopup'
    BY <1>8, <1>9, PopupsStay
  <1>22. NewPageFailsForAReason'
    <2>1. /\ \A u \in Target : target'[u].open => target[u].open
          /\ \A x \in Session : /\ session[x].closed => session'[x].closed
                                /\ session[x].phase = "failed" => session'[x].phase = "failed"
          /\ \A c \in Call : call[c].state = "failed" =>
               call'[c] = call[c] /\ (c \in creating => c \in creating')
          /\ context' = "open" => context = "open"
      BY <1>4, <1>11, <1>12 DEF callVars
    <2> QED BY <1>9, <1>10, <2>1, ReasonsStay
  <1> QED BY <1>15, <1>16, <1>17, <1>18, <1>19, <1>20, <1>21, <1>22

-----------------------------------------------------------------------------
(* The theorems *)

\* IInv holds at first.
LEMMA InitHolds ==
  ASSUME Init
  PROVE  IInv
  <1> USE DEF Init
  <1>1. Target = {} /\ Session = {} /\ Inbox = {}
    BY DEF Target, Session, Inbox
  <1>2. TargetsOk
    <2>1. {c \in Call : ~HasTarget(c)} = Call
      BY <1>1 DEF HasTarget
    <2>2. target \in Seq(TargetRecord) /\ Len(target) = 0
      OBVIOUS
    <2>3. Cardinality(Call) \in Nat
      BY PageAssumption, FS_CardinalityType
    <2>4. Len(target) + Cardinality({c \in Call : ~HasTarget(c)}) <= MaxTargets
      <3>1. PICK n \in Nat : n = Cardinality(Call)
        BY <2>3
      <3>2. n <= MaxTargets /\ 0 + n = n
        BY <3>1, PageAssumption
      <3>3. Cardinality({c \in Call : ~HasTarget(c)}) = n
        BY <2>1, <3>1
      <3> HIDE DEF Init
      <3> QED BY <2>2, <3>2, <3>3
    <2>5. /\ disposed \in BOOLEAN
          /\ \A t, u \in Target : target[t].creator = target[u].creator /\ t # u => target[t].creator = None
          /\ \A t \in Target : target[t].creator # None => target[t].opener = 0
          /\ attachedTargetIds \subseteq Target /\ createdTargetIds \subseteq Target
      BY <1>1
    <2> HIDE DEF Init
    <2> QED BY <2>2, <2>4, <2>5 DEF TargetsOk
  <1>3. SessionsOk /\ PagesOk
    <2>1. \A x : ~Contains(pagesById, x)
      BY EmptyMembers
    <2>2. pagesById \in Seq(Nat) /\ Distinct(pagesById)
      BY EmptyMembers
    <2> QED BY <1>1, <2>1, <2>2 DEF SessionsOk, PagesOk
  <1>4. PipeOk /\ AttachedOk
    <2>1. inbox \in Seq({})
      OBVIOUS
    <2> QED BY <1>1, <2>1 DEF PipeOk, AttachedOk
  <1>5. CallsOk
    BY DEF CallsOk, CallRecord
  <1>6. UnderWayOk
    BY <1>1 DEF UnderWayOk, Asked, Answered
  <1>7. CreatorsOk /\ MeetOk
    BY <1>1 DEF CreatorsOk, MeetOk
  <1>8. NewPageIsNoPopup /\ NewPageFailsForAReason
    BY <1>1 DEF NewPageIsNoPopup, NewPageFailsForAReason
  <1> QED BY <1>2, <1>3, <1>4, <1>5, <1>6, <1>7, <1>8 DEF IInv

\* The handling of a message.
LEMMA HandleMessageStep ==
  ASSUME IInv, HandleMessage
  PROVE  IInv'
  <1>1. ASSUME NEW kind, Head(inbox).kind = kind PROVE Handles(kind)
    BY <1>1 DEF HandleMessage, Handles
  <1>2. CASE Head(inbox).kind = "created" /\ OnCreated(Head(inbox).of, Head(inbox).says = "ok")
    BY <1>1, <1>2, OnCreatedStep
  <1>3. CASE Head(inbox).kind = "attachedFor" /\ OnAttachedFor(Head(inbox).of, Head(inbox).says = "ok")
    BY <1>1, <1>3, OnAttachedForStep
  <1>4. CASE Head(inbox).kind = "attached" /\ OnAttached(Head(inbox).of)
    BY <1>1, <1>4, OnAttachedStep
  <1>5. CASE Head(inbox).kind = "detached" /\ OnDetached(Head(inbox).of)
    BY <1>1, <1>5, OnDetachedStep
  <1>6. CASE Head(inbox).kind = "destroyed" /\ OnDestroyed(Head(inbox).of)
    BY <1>1, <1>6, DestroyedStep
  <1>7. CASE Head(inbox).kind = "killed" /\ OnKilled(Head(inbox).of)
    BY <1>1, <1>7, OnKilledStep
  <1>8. CASE Head(inbox).kind = "announced" /\ OnAnnounced(Head(inbox).of, Head(inbox).says = "ok")
    BY <1>1, <1>8, OnAnnouncedStep
  <1>9. CASE Head(inbox).kind = "closed" /\ OnCloseAnswered(Head(inbox).of, Head(inbox).says)
    BY <1>1, <1>9, CloseAnsweredStep
  <1>10. CASE Head(inbox).kind = "disposed" /\ OnDisposed(Head(inbox).says = "ok")
    BY <1>1, <1>10, DisposedStep
  <1> QED BY <1>2, <1>3, <1>4, <1>5, <1>6, <1>7, <1>8, <1>9, <1>10 DEF HandleMessage

\* A step of the program keeps IInv.
LEMMA ProgramStep ==
  ASSUME IInv, Program
  PROVE  IInv'
  BY HandleMessageStep, WaitTimesOutStep, OpensStep, TrackPageStep, InitializedStep,
     PopupInitializedStep, CloseTimerStep, CloseReturnsStep, PagesClosedStep, DisposeTimerStep
  DEF Program

\* A step of Chrome keeps IInv.
LEMMA ChromeStep ==
  ASSUME IInv, Chrome
  PROVE  IInv'
  BY CreatesTargetStep, AnswersCreateStep, AutoAttachesStep, AttachesStep, AnswersCloseStep,
     DisposesStep
  DEF Chrome

\* A step that changes nothing.
LEMMA StutterStep ==
  ASSUME IInv, UNCHANGED vars
  PROVE  IInv'
  <1>1. /\ UNCHANGED <<disposed, commands, session, pagesById, idVars, callVars, contextVars>>
        /\ inbox' = inbox /\ target' = target
    BY DEF vars, chromeVars, pipeVars
  <1> QED BY <1>1, TargetsAlone, InboxAlone, OtherCommand, ChromeMarks DEF IInv, TargetsOk

\* Every step keeps IInv.
LEMMA NextStep ==
  ASSUME IInv, [Next]_vars
  PROVE  IInv'
  BY ProgramStep, ChromeStep, NewPageStep, UserClosesStep, PopupStep, AnnouncesStep,
     CloseTargetStep, KilledStep, CloseContextStep, StutterStep
  DEF Next

\* Targets, sessions, pages, messages and calls agree as IInv says in every reachable state.
THEOREM Inductive == Spec => []IInv
  <1>1. Init => IInv
    BY InitHolds
  <1>2. IInv /\ [Next]_vars => IInv'
    BY NextStep
  <1> QED BY <1>1, <1>2, PTL DEF Spec

\* Every variable has its type, and the map has one page of a target at most.
THEOREM TypeCorrect == Spec => []TypeOK
  <1>1. IInv => TypeOK
    <2> SUFFICES ASSUME IInv PROVE TypeOK
      OBVIOUS
    <2> USE DEF IInv
    <2>1. /\ target \in Seq([open : BOOLEAN, creator : Call \cup {None}, opener : 0..MaxTargets,
                             announced : BOOLEAN, autoAttached : BOOLEAN, unloading : BOOLEAN,
                             killed : BOOLEAN])
          /\ disposed \in BOOLEAN
          /\ attachedTargetIds \subseteq Target /\ createdTargetIds \subseteq Target
      BY DEF TargetsOk, TargetRecord
    <2>2. Len(target) <= MaxTargets
      <3>1. Cardinality({c \in Call : ~HasTarget(c)}) \in Nat
        BY PageAssumption, FS_Subset, FS_CardinalityType
      <3> QED BY <3>1, Shapes, PageAssumption DEF TargetsOk
    <2>3. session \in Seq([of : Target, awaits : SUBSET Call, opener : {0} \cup Session,
             phase : {"announced", "waiting", "ignored", "initializing", "popup", "ready", "failed"},
             connected : BOOLEAN, closing : BOOLEAN, closed : BOOLEAN,
             close : {"no", "sent", "acked", "done", "threw"}, byContext : BOOLEAN])
      <3> DEFINE R == [of : Target, awaits : SUBSET Call, opener : {0} \cup Session,
             phase : {"announced", "waiting", "ignored", "initializing", "popup", "ready", "failed"},
             connected : BOOLEAN, closing : BOOLEAN, closed : BOOLEAN,
             close : {"no", "sent", "acked", "done", "threw"}, byContext : BOOLEAN]
      <3>1. \A s \in Session : session[s] \in R
        BY Shapes DEF SessionsOk, SessionRecord
      <3> HIDE DEF R
      <3>2. session \in [1..Len(session) -> R] /\ Len(session) \in Nat
        BY <3>1, Shapes
      <3>3. session \in Seq(R)
        BY <3>2, IsSequence
      <3> QED BY <3>3 DEF R
    <2>4. ToSet(pagesById) \subseteq {s \in Session : IsPage(s)}
      <3>1. \A i \in DOMAIN pagesById : Contains(pagesById, pagesById[i])
        BY LenProperties DEF PagesOk, Contains
      <3> QED BY <3>1 DEF PagesOk, ToSet
    <2>5. \A i, j \in DOMAIN pagesById : session[pagesById[i]].of = session[pagesById[j]].of => i = j
      <3>1. \A i \in DOMAIN pagesById : i \in 1..Len(pagesById) /\ Contains(pagesById, pagesById[i])
        BY LenProperties DEF PagesOk, Contains
      <3> QED BY <3>1 DEF PagesOk, Distinct
    <2>6. /\ creating \subseteq Call
          /\ call \in [Call -> [of : {0} \cup Target, page : {0} \cup Session,
               state : {"idle", "creating", "attaching", "waiting", "opening", "done", "failed"}]]
      BY DEF CallsOk, CallRecord
    <2>7. /\ context \in {"open", "closing", "disposing", "closed", "failed"}
          /\ closing \subseteq Session
          /\ \A s \in Session : session[s].closed => session[s].closing
      BY DEF SessionsOk
    <2> QED BY <2>1, <2>2, <2>3, <2>4, <2>5, <2>6, <2>7 DEF TypeOK
  <1> QED BY <1>1, Inductive, PTL

\* A page that newPage asked for is nobody's popup, or that of the page its options name, in
\* whatever order Chrome's messages come.
THEOREM RequestedPageIsNoPopup == Spec => []NewPageIsNoPopup
  <1>1. IInv => NewPageIsNoPopup
    BY DEF IInv
  <1> QED BY <1>1, Inductive, PTL

\* The pages of a closed context are closed, those attached while it was closing included.
THEOREM ClosedContextIsEmpty == Spec => []ClosedContextHasNoOpenPage
  <1>1. IInv => ClosedContextHasNoOpenPage
    <2> SUFFICES ASSUME IInv, context = "closed", NEW s \in Session, IsPage(s), ~session[s].closed
                 PROVE  FALSE
      BY DEF ClosedContextHasNoOpenPage
    <2>1. Contains(pagesById, s) /\ pagesById = <<>>
      BY DEF IInv, PagesOk
    <2> QED BY <2>1, EmptyMembers
  <1> QED BY <1>1, Inductive, PTL

\* newPage fails for a reason that its caller can do something about: it never misses the page
\* of its target.
THEOREM NoPageIsMissed == Spec => []NewPageFailsForAReason
  <1>1. IInv => NewPageFailsForAReason
    BY DEF IInv
  <1> QED BY <1>1, Inductive, PTL
=============================================================================
