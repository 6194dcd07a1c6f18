---------------------------- MODULE DnsLookupProofs ----------------------------
(***************************************************************************)
(* Proofs about DnsLookup, for any hosts, sessions, lookups and order of   *)
(* events: what failed entries may stay in the shared map, and how many    *)
(* failures of others a lookup survives.                                   *)
(***************************************************************************)
EXTENDS DnsLookup, FiniteSetTheorems, TLAPS

OverTls(e) == socketOf[e] # None

AwaitsReply(l, e) == phase[l] = "overTls" /\ entryOf[l] = e

\* Entries are made in the order of their numbers.
InOrder == \A e, f \in Entry : f < e /\ entry[e] # "unused" => entry[f] # "unused"

JobsOk ==
  \A e \in Entry :
    /\ entry[e] = "unused" => job[e] = "none" /\ ~OverTls(e)
    /\ entry[e] = "pending" =>
         IF OverTls(e) THEN job[e] \in {"connecting", "querying"} ELSE job[e] = "system"
    /\ job[e] = "system" => ~OverTls(e)
    /\ job[e] \in {"connecting", "querying"} => OverTls(e)

\* The map holds the last entry made for a host, or none.
CacheOk ==
  \A h \in Host : cache[h] # None =>
    /\ entry[cache[h]] # "unused" /\ entryHost[cache[h]] = h
    /\ \A e \in Entry : entry[e] # "unused" /\ entryHost[e] = h => e <= cache[h]

\* The lookup that made a query over TLS awaits it until it is settled.
MakersAwait ==
  \A e \in Entry : entry[e] = "pending" /\ OverTls(e) => \E l \in Lookup : AwaitsReply(l, e)

\* A query whose promise timed out is in the map only until its maker goes on.
TimedOutOk ==
  \A h \in Host : cache[h] # None /\ entry[cache[h]] = "rejected" /\ OverTls(cache[h]) =>
    job[cache[h]] \notin {"over", "late"} /\ \E l \in Lookup : AwaitsReply(l, cache[h])

\* The entry of a system lookup that timed out waits for its answer in the map, and
\* stays there if the answer is not an error.
SystemOk ==
  \A h \in Host : cache[h] # None /\ ~OverTls(cache[h]) /\ entry[cache[h]] = "rejected" =>
    job[cache[h]] \in {"system", "late"}

AwaitedOk ==
  \A l \in Lookup :
    /\ entryOf[l] # None => entry[entryOf[l]] # "unused" /\ entryHost[entryOf[l]] = HostOf[l]
    /\ phase[l] = "system" => entryOf[l] # None /\ ~OverTls(entryOf[l])
    /\ phase[l] = "new" => retries[l] = Retries

SystemFailed(h) ==
  \E e \in Entry : entryHost[e] = h /\ ~OverTls(e) /\ entry[e] = "rejected"

Queries(h) == {e \in Entry : entryHost[e] = h /\ OverTls(e)}

\* The queries for the host that failed, of those made before entry n.
FailedBefore(h, n) == {e \in Queries(h) : entry[e] = "rejected" /\ (n = None \/ e < n)}

\* The lookups of the host that had nothing more to await in the map.
PastTheMap(h) == {l \in Lookup : HostOf[l] = h /\ phase[l] \notin {"new", "cached"}}

\* Each retry is for the failure of another query.
RetriesOk ==
  \A l \in Lookup : phase[l] \in {"new", "cached"} =>
    \/ SystemFailed(HostOf[l])
    \/ Retries - retries[l] <= Cardinality(FailedBefore(HostOf[l], entryOf[l]))

\* Each query over TLS was made by another lookup.
MakersOk == \A h \in Host : Cardinality(Queries(h)) <= Cardinality(PastTheMap(h))

IInv == /\ TypeOK /\ InOrder /\ JobsOk /\ CacheOk /\ MakersAwait /\ TimedOutOk
        /\ SystemOk /\ AwaitedOk /\ RetriesOk /\ MakersOk
-----------------------------------------------------------------------------
\* The sets that are counted are finite.
LEMMA FiniteSets ==
  /\ IsFiniteSet(Entry)
  /\ \A h : IsFiniteSet(Queries(h)) /\ Cardinality(Queries(h)) \in Nat
  /\ \A h, n : IsFiniteSet(FailedBefore(h, n)) /\ Cardinality(FailedBefore(h, n)) \in Nat
  /\ \A h : IsFiniteSet(PastTheMap(h)) /\ Cardinality(PastTheMap(h)) \in Nat
  <1>1. IsFiniteSet(Entry)
    BY DnsAssumption, FS_Interval DEF Entry
  <1>2. \A S \in SUBSET Entry : IsFiniteSet(S) /\ Cardinality(S) \in Nat
    BY <1>1, FS_Subset, FS_CardinalityType
  <1>3. \A S \in SUBSET Lookup : IsFiniteSet(S) /\ Cardinality(S) \in Nat
    BY DnsAssumption, FS_Subset, FS_CardinalityType
  <1>4. \A h : Queries(h) \in SUBSET Entry
    BY DEF Queries
  <1>5. \A h, n : FailedBefore(h, n) \in SUBSET Entry
    BY DEF FailedBefore, Queries
  <1>6. \A h : PastTheMap(h) \in SUBSET Lookup
    BY DEF PastTheMap
  <1> QED BY <1>1, <1>2, <1>3, <1>4, <1>5, <1>6

\* The same after a step.
LEMMA FiniteSetsNext ==
  /\ \A h : IsFiniteSet(Queries(h)') /\ Cardinality(Queries(h)') \in Nat
  /\ \A h, n : IsFiniteSet(FailedBefore(h, n)') /\ Cardinality(FailedBefore(h, n)') \in Nat
  /\ \A h : IsFiniteSet(PastTheMap(h)') /\ Cardinality(PastTheMap(h)') \in Nat
  <1>1. IsFiniteSet(Entry)
    BY DnsAssumption, FS_Interval DEF Entry
  <1>2. \A S \in SUBSET Entry : IsFiniteSet(S) /\ Cardinality(S) \in Nat
    BY <1>1, FS_Subset, FS_CardinalityType
  <1>3. \A S \in SUBSET Lookup : IsFiniteSet(S) /\ Cardinality(S) \in Nat
    BY DnsAssumption, FS_Subset, FS_CardinalityType
  <1>4. \A h : Queries(h)' \in SUBSET Entry
    BY DEF Queries
  <1>5. \A h, n : FailedBefore(h, n)' \in SUBSET Entry
    BY DEF FailedBefore, Queries
  <1>6. \A h : PastTheMap(h)' \in SUBSET Lookup
    BY DEF PastTheMap
  <1> QED BY <1>2, <1>3, <1>4, <1>5, <1>6

\* The invariant holds at the start.
LEMMA InitIInv ==
  ASSUME Init PROVE IInv
  <1>1. TypeOK
    <2>1. (CHOOSE h \in Host : TRUE) \in Host
      BY DnsAssumption
    <2>2. Retries \in 0..Retries
      BY DnsAssumption
    <2> QED BY <2>1, <2>2 DEF Init, TypeOK
  <1>2. InOrder /\ JobsOk /\ CacheOk /\ MakersAwait /\ TimedOutOk /\ SystemOk /\ AwaitedOk
    BY DnsAssumption DEF Init, InOrder, JobsOk, CacheOk, MakersAwait, TimedOutOk, SystemOk,
       AwaitedOk, OverTls
  <1>3. RetriesOk
    <2>1. \A l \in Lookup : Retries - retries[l] = 0
      BY DnsAssumption DEF Init
    <2> QED BY <2>1, FiniteSets DEF RetriesOk
  <1>4. MakersOk
    <2>1. \A h : Queries(h) = {}
      BY DEF Init, Queries, OverTls
    <2> QED BY <2>1, FiniteSets, FS_EmptySet DEF MakersOk
  <1> QED BY <1>1, <1>2, <1>3, <1>4 DEF IInv

-----------------------------------------------------------------------------
(* What the steps do to the awaits *)

EntryParts == <<cache, entry, entryHost, job, socketOf>>

\* The step of lookup l makes no entry.
Proceeds(l) ==
  /\ UNCHANGED EntryParts
  /\ phase[l] \in {"new", "cached"} \/ Promise(entryOf[l]) # "pending"
  /\ phase[l] # "overTls" \/ Promise(entryOf[l]) # "rejected"
  /\ \A m \in Lookup \ {l} :
       phase'[m] = phase[m] /\ entryOf'[m] = entryOf[m] /\ retries'[m] = retries[m]
  /\ phase[l] \notin {"new", "cached"} => phase'[l] \notin {"new", "cached"}

\* Settling some entries; nothing enters the map.
Settles ==
  /\ UNCHANGED <<phase, entryOf, retries, entryHost, socketOf>>
  /\ \A e \in Entry : /\ entry'[e] = "unused" <=> entry[e] = "unused"
                      /\ entry[e] = "rejected" => entry'[e] = "rejected"
                      /\ entry'[e] = "pending" => entry[e] = "pending"
  /\ \A h \in Host : cache'[h] \in {None, cache[h]}

\* Lookups that go on with what they have leave the counts in order.
LEMMA ProceedingKeepsAwaits ==
  ASSUME IInv, NEW l \in Lookup, Proceeds(l)
  PROVE  (InOrder /\ JobsOk /\ CacheOk /\ MakersAwait /\ TimedOutOk /\ SystemOk /\ MakersOk)'
  <1>1. InOrder' /\ JobsOk' /\ CacheOk' /\ SystemOk'
    BY DEF IInv, Proceeds, EntryParts, InOrder, JobsOk, CacheOk, SystemOk, OverTls
  <1>2. \A m \in Lookup, e \in Entry :
          AwaitsReply(m, e) /\ entry[e] \in {"pending", "rejected"} => AwaitsReply(m, e)'
    BY DEF Proceeds, AwaitsReply, Promise, Entry, None
  <1>3. MakersAwait'
    BY <1>2 DEF IInv, MakersAwait, Proceeds, EntryParts, OverTls
  <1>4. TimedOutOk'
    <2> SUFFICES ASSUME NEW h \in Host, cache[h] # None, entry[cache[h]] = "rejected",
                        OverTls(cache[h])
                 PROVE  job[cache[h]] \notin {"over", "late"} /\ \E m \in Lookup : AwaitsReply(m, cache[h])'
      BY DEF TimedOutOk, Proceeds, EntryParts, OverTls
    <2>1. cache[h] \in Entry
      BY DEF IInv, TypeOK
    <2>2. PICK m \in Lookup : AwaitsReply(m, cache[h])
      BY DEF IInv, TimedOutOk
    <2>3. AwaitsReply(m, cache[h])'
      BY <1>2, <2>1, <2>2 DEF Proceeds, EntryParts, AwaitsReply
    <2> QED BY <2>3 DEF IInv, TimedOutOk
  <1>5. MakersOk'
    <2> SUFFICES ASSUME NEW h \in Host
                 PROVE  Cardinality(Queries(h)') <= Cardinality(PastTheMap(h)')
      BY DEF MakersOk
    <2>1. Queries(h)' = Queries(h)
      BY DEF Proceeds, EntryParts, Queries, OverTls
    <2>2. PastTheMap(h) \subseteq PastTheMap(h)'
      BY DEF Proceeds, PastTheMap
    <2>3. Cardinality(PastTheMap(h)) <= Cardinality(PastTheMap(h)')
      BY <2>2, FiniteSetsNext, FS_Subset
    <2>4. Cardinality(Queries(h)) <= Cardinality(PastTheMap(h))
      BY DEF IInv, MakersOk
    <2> QED BY <2>1, <2>3, <2>4, FiniteSets, FiniteSetsNext
  <1> QED BY <1>1, <1>3, <1>4, <1>5

\* Settling entries leaves the awaits and the counts in order.
LEMMA SettlingKeepsAwaits ==
  ASSUME IInv, Settles
  PROVE  (InOrder /\ CacheOk /\ MakersAwait /\ AwaitedOk /\ RetriesOk /\ MakersOk)'
  <1> USE DEF IInv
  <1>1. InOrder' /\ MakersAwait'
    BY DEF Settles, InOrder, MakersAwait, AwaitsReply, OverTls
  <1>2. CacheOk'
    BY DEF Settles, CacheOk, TypeOK
  <1>3. AwaitedOk'
    BY DEF Settles, AwaitedOk, OverTls, TypeOK
  <1>4. RetriesOk'
    <2> SUFFICES ASSUME NEW l \in Lookup, phase'[l] \in {"new", "cached"}, ~SystemFailed(HostOf[l])'
                 PROVE  Retries - retries'[l]
                          <= Cardinality(FailedBefore(HostOf[l], entryOf[l])')
      BY DEF RetriesOk
    <2>1. ~SystemFailed(HostOf[l])
      BY DEF Settles, SystemFailed, OverTls
    <2>2. Retries - retries[l] <= Cardinality(FailedBefore(HostOf[l], entryOf[l]))
      BY <2>1 DEF RetriesOk, Settles
    <2>3. FailedBefore(HostOf[l], entryOf[l]) \subseteq FailedBefore(HostOf[l], entryOf[l])'
      BY DEF Settles, FailedBefore, Queries, OverTls
    <2>4. IsFiniteSet(FailedBefore(HostOf[l], entryOf[l])')
      BY FiniteSetsNext DEF Settles
    <2>5. Cardinality(FailedBefore(HostOf[l], entryOf[l]))
            <= Cardinality(FailedBefore(HostOf[l], entryOf[l])')
      BY <2>3, <2>4, FS_Subset
    <2>6. /\ Cardinality(FailedBefore(HostOf[l], entryOf[l])) \in Nat
          /\ Cardinality(FailedBefore(HostOf[l], entryOf[l])') \in Nat
      BY <2>4, FiniteSets, FS_CardinalityType
    <2>7. retries'[l] = retries[l] /\ retries[l] \in Int /\ Retries \in Int
      BY DnsAssumption DEF Settles, TypeOK
    <2> QED BY <2>2, <2>5, <2>6, <2>7
  <1>5. MakersOk'
    <2>1. \A h : Queries(h)' = Queries(h) /\ PastTheMap(h)' = PastTheMap(h)
      BY DEF Settles, Queries, PastTheMap, OverTls
    <2> QED BY <2>1 DEF MakersOk
  <1> QED BY <1>1, <1>2, <1>3, <1>4, <1>5

\* Only the retries of the lookup that proceeds can change.
LEMMA ProceedingKeepsRetries ==
  ASSUME IInv, NEW l \in Lookup, Proceeds(l),
         phase'[l] \in {"new", "cached"} =>
           \/ SystemFailed(HostOf[l])
           \/ Retries - retries'[l] <= Cardinality(FailedBefore(HostOf[l], entryOf'[l]))
  PROVE  RetriesOk'
  <1> SUFFICES ASSUME NEW m \in Lookup, phase'[m] \in {"new", "cached"}
               PROVE  \/ SystemFailed(HostOf[m])'
                      \/ Retries - retries'[m] <= Cardinality(FailedBefore(HostOf[m], entryOf[m])')
    BY DEF RetriesOk
  <1>1. \A h : SystemFailed(h)' <=> SystemFailed(h)
    BY DEF Proceeds, EntryParts, SystemFailed, OverTls
  <1>2. FailedBefore(HostOf[m], entryOf[m])' = FailedBefore(HostOf[m], entryOf'[m])
    BY DEF Proceeds, EntryParts, FailedBefore, Queries, OverTls
  <1>3. m # l => /\ phase'[m] = phase[m] /\ entryOf'[m] = entryOf[m] /\ retries'[m] = retries[m]
    BY DEF Proceeds
  <1> QED BY <1>1, <1>2, <1>3 DEF IInv, RetriesOk

\* A retry is for the failure of a query that the lookup has not awaited before.
LEMMA RetryCountsFailures ==
  ASSUME IInv, NEW l \in Lookup, phase[l] = "cached", Promise(entryOf[l]) = "rejected",
         ~SystemFailed(HostOf[l])
  PROVE  /\ entryOf[l] \in Entry /\ entryOf[l] \in Queries(HostOf[l])
         /\ IsFiniteSet(FailedBefore(HostOf[l], entryOf[l]) \cup {entryOf[l]})
         /\ Cardinality(FailedBefore(HostOf[l], entryOf[l]) \cup {entryOf[l]})
              = Cardinality(FailedBefore(HostOf[l], entryOf[l])) + 1
         /\ Retries - retries[l] + 1
              <= Cardinality(FailedBefore(HostOf[l], entryOf[l]) \cup {entryOf[l]})
  <1> USE DEF IInv
  <1>1. /\ entryOf[l] \in Entry /\ entry[entryOf[l]] = "rejected" /\ entryOf[l] # None
        /\ entryHost[entryOf[l]] = HostOf[l]
    BY DEF Promise, TypeOK, AwaitedOk
  <1>2. OverTls(entryOf[l])
    BY <1>1 DEF SystemFailed
  <1>3. entryOf[l] \in Queries(HostOf[l])
    BY <1>1, <1>2 DEF Queries
  <1>4. entryOf[l] \notin FailedBefore(HostOf[l], entryOf[l])
    BY <1>1 DEF FailedBefore, Entry
  <1>5. Retries - retries[l] <= Cardinality(FailedBefore(HostOf[l], entryOf[l]))
    BY DEF RetriesOk
  <1>6. retries[l] \in Int /\ Retries \in Int
    BY DnsAssumption DEF TypeOK
  <1>7. \A S, x : IsFiniteSet(S) /\ x \notin S =>
          IsFiniteSet(S \cup {x}) /\ Cardinality(S \cup {x}) = Cardinality(S) + 1
    BY FS_AddElement
  <1>8. /\ IsFiniteSet(FailedBefore(HostOf[l], entryOf[l]))
        /\ Cardinality(FailedBefore(HostOf[l], entryOf[l])) \in Nat
    BY FiniteSets
  <1>9. /\ IsFiniteSet(FailedBefore(HostOf[l], entryOf[l]) \cup {entryOf[l]})
        /\ Cardinality(FailedBefore(HostOf[l], entryOf[l]) \cup {entryOf[l]})
              = Cardinality(FailedBefore(HostOf[l], entryOf[l])) + 1
    BY <1>4, <1>7, <1>8
  <1> QED BY <1>1, <1>3, <1>5, <1>6, <1>8, <1>9

\* Awaiting the map again after a failure.
LEMMA RetryIInv ==
  ASSUME IInv, NEW l \in Lookup, Retry(l)
  PROVE  IInv'
  <1> USE DEF IInv
  <1> DEFINE h == HostOf[l]
  <1>0. /\ h \in Host /\ cache[h] \in Entry \cup {None} /\ phase[l] = "cached"
        /\ retries[l] \in 0..Retries
    BY DnsAssumption DEF TypeOK, Retry
  <1>1. Proceeds(l)
    BY <1>0 DEF Retry, AwaitCached, Proceeds, EntryParts, entryVars, TypeOK
  <1>2. TypeOK'
    BY <1>0, DnsAssumption DEF Retry, AwaitCached, TypeOK, entryVars, socketVars
  <1>3. AwaitedOk'
    BY <1>0 DEF Retry, AwaitCached, AwaitedOk, CacheOk, entryVars, TypeOK, OverTls
  <1>4. ASSUME phase'[l] \in {"new", "cached"}, ~SystemFailed(h)
        PROVE  Retries - retries'[l] <= Cardinality(FailedBefore(h, entryOf'[l]))
    <2>1. /\ entryOf'[l] = cache[h] /\ retries'[l] = retries[l] - 1
          /\ Promise(entryOf[l]) = "rejected"
          /\ cache[h] = entryOf[l] =>
               \A m \in Lookup : phase[m] = "overTls" => entryOf[m] # entryOf[l]
      BY <1>4, <1>0 DEF Retry, AwaitCached, TypeOK
    <2>2. /\ entryOf[l] \in Entry /\ entryOf[l] \in Queries(h)
          /\ entry[entryOf[l]] = "rejected" /\ OverTls(entryOf[l])
          /\ Retries - retries[l] + 1
               <= Cardinality(FailedBefore(h, entryOf[l]) \cup {entryOf[l]})
      BY <1>0, <1>4, <2>1, RetryCountsFailures DEF Promise, Queries
    <2>3. cache[h] # entryOf[l]
      <3> SUFFICES ASSUME cache[h] = entryOf[l] PROVE FALSE
        OBVIOUS
      <3>1. cache[h] # None /\ entry[cache[h]] = "rejected" /\ OverTls(cache[h])
        BY <2>2 DEF Entry, None
      <3> QED BY <3>1, <1>0, <2>1 DEF TimedOutOk, AwaitsReply
    <2>4. cache[h] # None => entryOf[l] < cache[h]
      BY <1>0, <2>2, <2>3 DEF CacheOk, Queries, Entry
    <2>5. FailedBefore(h, entryOf[l]) \cup {entryOf[l]} \subseteq FailedBefore(h, cache[h])
      <3>1. entryOf[l] \in FailedBefore(h, cache[h])
        BY <2>2, <2>4 DEF FailedBefore
      <3>2. ASSUME NEW f \in FailedBefore(h, entryOf[l])
            PROVE  f \in FailedBefore(h, cache[h])
        <4>1. f \in Int /\ entryOf[l] \in Int /\ entryOf[l] # None /\ f < entryOf[l]
          BY <2>2 DEF FailedBefore, Queries, Entry, None
        <4>2. cache[h] # None => f < cache[h]
          BY <1>0, <2>4, <4>1 DEF Entry, None
        <4> QED BY <4>2 DEF FailedBefore
      <3> QED BY <3>1, <3>2
    <2>6. Cardinality(FailedBefore(h, entryOf[l]) \cup {entryOf[l]})
            <= Cardinality(FailedBefore(h, cache[h]))
      BY <2>5, FiniteSets, FS_Subset
    <2>7. /\ Cardinality(FailedBefore(h, entryOf[l]) \cup {entryOf[l]}) \in Nat
          /\ Cardinality(FailedBefore(h, cache[h])) \in Nat
      BY <2>5, FiniteSets, FS_Subset, FS_CardinalityType
    <2> QED BY <1>0, <2>1, <2>2, <2>6, <2>7, DnsAssumption
  <1> QED BY <1>1, <1>2, <1>3, <1>4, ProceedingKeepsAwaits, ProceedingKeepsRetries

\* The other steps of a lookup that make no entry.
LEMMA LookupIInv ==
  ASSUME IInv, NEW l \in Lookup, LookupIp(l) \/ Found(l) \/ GiveUp(l)
  PROVE  IInv'
  <1> USE DEF IInv
  <1>1. Proceeds(l)
    BY DEF LookupIp, AwaitCached, Found, GiveUp, Proceeds, EntryParts, entryVars, TypeOK
  <1>2. TypeOK'
    BY DnsAssumption DEF LookupIp, AwaitCached, Found, GiveUp, TypeOK, entryVars, socketVars
  <1>3. AwaitedOk'
    <2>1. CASE LookupIp(l)
      <3>1. HostOf[l] \in Host /\ cache[HostOf[l]] \in Entry \cup {None}
        BY DnsAssumption DEF TypeOK
      <3> QED BY <2>1, <3>1 DEF LookupIp, AwaitCached, AwaitedOk, CacheOk, entryVars, TypeOK,
                 OverTls
    <2>2. CASE Found(l) \/ GiveUp(l)
      BY <2>2 DEF Found, GiveUp, AwaitedOk, entryVars, TypeOK, OverTls
    <2> QED BY <2>1, <2>2
  <1>4. ASSUME phase'[l] \in {"new", "cached"}
        PROVE  Retries - retries'[l] <= Cardinality(FailedBefore(HostOf[l], entryOf'[l]))
    <2>1. retries'[l] = Retries
      BY <1>4 DEF LookupIp, Found, GiveUp, AwaitedOk, TypeOK
    <2> QED BY <2>1, FiniteSets, DnsAssumption
  <1> QED BY <1>1, <1>2, <1>3, <1>4, ProceedingKeepsAwaits, ProceedingKeepsRetries

\* Joining a lookup of the host that is not settled.
LEMMA JoinIInv ==
  ASSUME IInv, NEW l \in Lookup, phase[l] = "cached", Promise(cache[HostOf[l]]) = "pending",
         Promise(entryOf[l]) # "pending", Join(l), UNCHANGED <<retries, closedSessions, spinning>>
  PROVE  IInv'
  <1> USE DEF IInv
  <1>1. Proceeds(l)
    BY DEF Join, Proceeds, EntryParts, entryVars, TypeOK
  <1>2. TypeOK'
    BY DnsAssumption DEF Join, TypeOK, entryVars, socketVars
  <1>3. AwaitedOk'
    <2>1. HostOf[l] \in Host /\ cache[HostOf[l]] \in Entry \cup {None}
      BY DnsAssumption DEF TypeOK
    <2>2. phase' = [phase EXCEPT ![l] = "overTls"] /\ UNCHANGED <<entry, entryHost, socketOf>>
      BY DEF Join, entryVars
    <2>3. entryOf' = [entryOf EXCEPT ![l] = cache[HostOf[l]]] /\ UNCHANGED retries
      BY DEF Join
    <2> QED BY <2>1, <2>2, <2>3 DEF AwaitedOk, CacheOk, TypeOK, OverTls
  <1>4. phase'[l] \notin {"new", "cached"}
    BY DEF Join, TypeOK
  <1> QED BY <1>1, <1>2, <1>3, <1>4, ProceedingKeepsAwaits, ProceedingKeepsRetries

-----------------------------------------------------------------------------
(* Making an entry *)

\* Lookup l, which awaits nothing, makes entry e.
Makes(l, e, ph, j, k) ==
  /\ phase' = [phase EXCEPT ![l] = ph] /\ UNCHANGED retries
  /\ entryOf' = [entryOf EXCEPT ![l] = e]
  /\ entry[e] = "unused" /\ \A f \in 1..(e - 1) : entry[f] # "unused"
  /\ entry' = [entry EXCEPT ![e] = "pending"]
  /\ entryHost' = [entryHost EXCEPT ![e] = HostOf[l]]
  /\ job' = [job EXCEPT ![e] = j]
  /\ socketOf' = [socketOf EXCEPT ![e] = k]
  /\ cache' = [cache EXCEPT ![HostOf[l]] = e]
  /\ Promise(entryOf[l]) # "pending"
  /\ \/ ph = "overTls" /\ j = "connecting" /\ k \in Socket /\ phase[l] = "cached"
     \/ ph = "system" /\ j = "system" /\ k = None /\ phase[l] \in {"cached", "overTls"}

\* What making an entry does to each function.
LEMMA MakingOne ==
  ASSUME IInv, NEW l \in Lookup, NEW e \in Entry, NEW ph, NEW j, NEW k, Makes(l, e, ph, j, k)
  PROVE  /\ HostOf[l] \in Host /\ entry[e] = "unused" /\ ~OverTls(e)
         /\ \A m \in Lookup : /\ phase'[m] = IF m = l THEN ph ELSE phase[m]
                              /\ entryOf'[m] = IF m = l THEN e ELSE entryOf[m]
                              /\ retries'[m] = retries[m]
         /\ \A f \in Entry :
              /\ entry'[f] = IF f = e THEN "pending" ELSE entry[f]
              /\ entryHost'[f] = IF f = e THEN HostOf[l] ELSE entryHost[f]
              /\ job'[f] = IF f = e THEN j ELSE job[f]
              /\ socketOf'[f] = IF f = e THEN k ELSE socketOf[f]
              /\ entry[f] # "unused" => f < e
              /\ f < e => entry[f] # "unused"
         /\ \A h \in Host : cache'[h] = IF h = HostOf[l] THEN e ELSE cache[h]
         /\ k \in Socket \cup {None} /\ (k # None <=> ph = "overTls")
         /\ ph \in {"overTls", "system"} /\ j = (IF ph = "overTls" THEN "connecting" ELSE "system")
  <1>1. HostOf[l] \in Host /\ entry[e] = "unused" /\ ~OverTls(e)
    BY DnsAssumption DEF Makes, IInv, JobsOk
  <1>2. \A m \in Lookup : /\ phase'[m] = IF m = l THEN ph ELSE phase[m]
                          /\ entryOf'[m] = IF m = l THEN e ELSE entryOf[m]
                          /\ retries'[m] = retries[m]
    BY DEF Makes, IInv, TypeOK
  <1>3. \A f \in Entry :
          /\ entry'[f] = IF f = e THEN "pending" ELSE entry[f]
          /\ entryHost'[f] = IF f = e THEN HostOf[l] ELSE entryHost[f]
          /\ job'[f] = IF f = e THEN j ELSE job[f]
          /\ socketOf'[f] = IF f = e THEN k ELSE socketOf[f]
    BY DEF Makes, IInv, TypeOK
  <1>4. \A f \in Entry : f < e => entry[f] # "unused"
    BY DEF Makes, Entry
  <1>5. \A f \in Entry : entry[f] # "unused" => f < e
    BY <1>1 DEF IInv, InOrder, Entry
  <1>6. \A h \in Host : cache'[h] = IF h = HostOf[l] THEN e ELSE cache[h]
    BY DEF Makes, IInv, TypeOK
  <1>7. /\ k \in Socket \cup {None} /\ (k # None <=> ph = "overTls")
        /\ ph \in {"overTls", "system"} /\ j = (IF ph = "overTls" THEN "connecting" ELSE "system")
    BY DEF Makes, Socket, None
  <1> QED BY <1>1, <1>2, <1>3, <1>4, <1>5, <1>6, <1>7

\* A new entry leaves the awaits and the counts in order.
LEMMA MakingKeepsAwaits ==
  ASSUME IInv, NEW l \in Lookup, NEW e \in Entry, NEW ph, NEW j, NEW k, Makes(l, e, ph, j, k)
  PROVE  (/\ InOrder /\ JobsOk /\ CacheOk /\ MakersAwait /\ TimedOutOk
          /\ SystemOk /\ AwaitedOk /\ RetriesOk /\ MakersOk)'
  <1> USE DEF IInv
  <1>1. /\ HostOf[l] \in Host /\ entry[e] = "unused" /\ ~OverTls(e)
        /\ \A m \in Lookup : /\ phase'[m] = IF m = l THEN ph ELSE phase[m]
                             /\ entryOf'[m] = IF m = l THEN e ELSE entryOf[m]
                             /\ retries'[m] = retries[m]
        /\ \A f \in Entry :
             /\ entry'[f] = IF f = e THEN "pending" ELSE entry[f]
             /\ entryHost'[f] = IF f = e THEN HostOf[l] ELSE entryHost[f]
             /\ job'[f] = IF f = e THEN j ELSE job[f]
             /\ socketOf'[f] = IF f = e THEN k ELSE socketOf[f]
             /\ entry[f] # "unused" => f < e
             /\ f < e => entry[f] # "unused"
        /\ \A h \in Host : cache'[h] = IF h = HostOf[l] THEN e ELSE cache[h]
        /\ k \in Socket \cup {None} /\ (k # None <=> ph = "overTls")
        /\ ph \in {"overTls", "system"} /\ j = (IF ph = "overTls" THEN "connecting" ELSE "system")
    BY MakingOne
  <1>2. e \in Int /\ e # None /\ \A f \in Entry : f \in Int
    BY DEF Entry, None
  <1>3. \A h \in Host : cache[h] \in Entry \cup {None}
    BY DEF TypeOK
  <1>4. InOrder' /\ JobsOk'
    BY <1>1, <1>2 DEF InOrder, JobsOk, OverTls
  <1>5. CacheOk'
    <2> SUFFICES ASSUME NEW h \in Host, cache'[h] # None
                 PROVE  /\ entry'[cache'[h]] # "unused" /\ entryHost'[cache'[h]] = h
                        /\ \A f \in Entry : entry'[f] # "unused" /\ entryHost'[f] = h
                                           => f <= cache'[h]
      BY DEF CacheOk
    <2>1. CASE h = HostOf[l]
      BY <1>1, <1>2, <2>1
    <2>2. CASE h # HostOf[l]
      <3>1. cache'[h] = cache[h] /\ cache[h] \in Entry /\ cache[h] # None
        BY <1>1, <1>3, <2>2
      <3>2. entry[cache[h]] # "unused" /\ cache[h] # e
        BY <1>1, <3>1 DEF CacheOk
      <3> QED BY <1>1, <2>2, <3>1, <3>2 DEF CacheOk
    <2> QED BY <2>1, <2>2
  <1>6. MakersAwait'
    <2> SUFFICES ASSUME NEW f \in Entry, entry'[f] = "pending", OverTls(f)'
                 PROVE  \E m \in Lookup : AwaitsReply(m, f)'
      BY DEF MakersAwait
    <2>1. CASE f = e
      BY <1>1, <2>1 DEF AwaitsReply, OverTls
    <2>2. CASE f # e
      <3>1. PICK m \in Lookup : AwaitsReply(m, f)
        BY <1>1, <2>2 DEF MakersAwait, OverTls
      <3>2. m # l
        BY <1>1, <2>2, <3>1 DEF AwaitsReply, Makes, Promise, Entry, None
      <3> QED BY <1>1, <3>1, <3>2 DEF AwaitsReply
    <2> QED BY <2>1, <2>2
  <1>7. TimedOutOk'
    <2> SUFFICES ASSUME NEW h \in Host, cache'[h] # None, entry'[cache'[h]] = "rejected",
                        OverTls(cache[h])'
                 PROVE  job'[cache'[h]] \notin {"over", "late"} /\ \E m \in Lookup : AwaitsReply(m, cache[h])'
      BY DEF TimedOutOk
    <2>1. /\ h # HostOf[l] /\ cache'[h] = cache[h] /\ cache[h] \in Entry /\ cache[h] # e
          /\ entry[cache[h]] = "rejected" /\ OverTls(cache[h]) /\ job'[cache[h]] = job[cache[h]]
      BY <1>1, <1>3 DEF OverTls, CacheOk
    <2>2. PICK m \in Lookup : AwaitsReply(m, cache[h])
      BY <2>1, <1>2 DEF TimedOutOk, CacheOk
    <2>3. m # l
      BY <2>1, <2>2 DEF AwaitsReply, AwaitedOk, CacheOk, Entry, None
    <2>4. AwaitsReply(m, cache[h])'
      BY <1>1, <2>1, <2>2, <2>3 DEF AwaitsReply
    <2> QED BY <2>1, <2>4 DEF TimedOutOk, CacheOk
  <1>8. SystemOk'
    <2> SUFFICES ASSUME NEW h \in Host, cache'[h] # None,
                        ~OverTls(cache[h])', entry'[cache'[h]] = "rejected"
                 PROVE  job'[cache'[h]] \in {"system", "late"}
      BY DEF SystemOk
    <2>1. cache'[h] = cache[h] /\ cache[h] \in Entry /\ cache[h] # e
      BY <1>1, <1>3
    <2> QED BY <1>1, <2>1 DEF SystemOk, OverTls
  <1>9. AwaitedOk'
    <2>1. \A m \in Lookup : entryOf[m] \in Entry \cup {None} /\ (phase[m] = "new" => m # l)
      BY DEF TypeOK, Makes
    <2> SUFFICES ASSUME NEW m \in Lookup
                 PROVE  /\ entryOf'[m] # None => /\ entry'[entryOf'[m]] # "unused"
                                                 /\ entryHost'[entryOf'[m]] = HostOf[m]
                        /\ phase'[m] = "system" => entryOf'[m] # None /\ ~OverTls(entryOf[m])'
                        /\ phase'[m] = "new" => retries'[m] = Retries
      BY DEF AwaitedOk
    <2>2. CASE m = l
      BY <1>1, <1>2, <2>2 DEF OverTls
    <2>3. CASE m # l
      <3>1. phase'[m] = phase[m] /\ entryOf'[m] = entryOf[m] /\ retries'[m] = retries[m]
        BY <1>1, <2>3
      <3>2. entryOf[m] # None => entryOf[m] \in Entry /\ entryOf[m] # e
        BY <1>1, <2>1 DEF AwaitedOk
      <3> QED BY <1>1, <3>1, <3>2 DEF AwaitedOk, OverTls
    <2> QED BY <2>2, <2>3
  <1>10. RetriesOk'
    <2> SUFFICES ASSUME NEW m \in Lookup, phase'[m] \in {"new", "cached"}
                 PROVE  \/ SystemFailed(HostOf[m])'
                        \/ Retries - retries'[m] <= Cardinality(FailedBefore(HostOf[m], entryOf[m])')
      BY DEF RetriesOk
    <2>1. m # l /\ phase[m] \in {"new", "cached"}
      BY <1>1
    <2>2. SystemFailed(HostOf[m]) => SystemFailed(HostOf[m])'
      BY <1>1 DEF SystemFailed, OverTls
    <2>3. entryOf'[m] = entryOf[m]
      BY <1>1, <2>1
    <2>4. FailedBefore(HostOf[m], entryOf[m])' = FailedBefore(HostOf[m], entryOf[m])
      BY <1>1, <2>3 DEF FailedBefore, Queries, OverTls
    <2> QED BY <1>1, <2>1, <2>2, <2>4 DEF RetriesOk
  <1>11. MakersOk'
    <2> SUFFICES ASSUME NEW h \in Host
                 PROVE  Cardinality(Queries(h)') <= Cardinality(PastTheMap(h)')
      BY DEF MakersOk
    <2>1. /\ Cardinality(Queries(h)) <= Cardinality(PastTheMap(h))
          /\ Cardinality(Queries(h)) \in Nat /\ Cardinality(PastTheMap(h)) \in Nat
      BY FiniteSets DEF MakersOk
    <2>2. CASE ph = "overTls" /\ h = HostOf[l]
      <3>1. Queries(h)' = Queries(h) \cup {e} /\ e \notin Queries(h)
        BY <1>1, <2>2 DEF Queries, OverTls
      <3>2. PastTheMap(h)' = PastTheMap(h) \cup {l} /\ l \notin PastTheMap(h)
        BY <1>1, <2>2 DEF PastTheMap, Makes
      <3>3. \A S, x : IsFiniteSet(S) /\ x \notin S => Cardinality(S \cup {x}) = Cardinality(S) + 1
        BY FS_AddElement
      <3> QED BY <2>1, <3>1, <3>2, <3>3, FiniteSets
    <2>3. CASE ph # "overTls" \/ h # HostOf[l]
      <3>1. Queries(h)' = Queries(h)
        BY <1>1, <2>3 DEF Queries, OverTls
      <3>2. PastTheMap(h) \subseteq PastTheMap(h)'
        BY <1>1 DEF PastTheMap
      <3>3. /\ Cardinality(PastTheMap(h)) <= Cardinality(PastTheMap(h)')
            /\ Cardinality(PastTheMap(h)') \in Nat
        BY <3>2, FiniteSetsNext, FS_Subset
      <3> QED BY <2>1, <3>1, <3>3
    <2> QED BY <2>2, <2>3
  <1> QED BY <1>4, <1>5, <1>6, <1>7, <1>8, <1>9, <1>10, <1>11

\* The steps of a lookup that make an entry.
LEMMA MakingIInv ==
  ASSUME IInv, NEW l \in Lookup, UNCHANGED <<retries, closedSessions, spinning>>,
         Promise(entryOf[l]) # "pending",
         \/ phase[l] \in {"cached", "overTls"} /\ SystemLookup(l)
         \/ phase[l] = "cached" /\ QueryOverTls(l)
  PROVE  IInv'
  <1> USE DEF IInv
  <1>1. SessionOf[l] \in Session /\ HostOf[l] \in Host
    BY DnsAssumption
  <1>2. \E e \in Entry : \E ph, j, k : Makes(l, e, ph, j, k)
    <2>1. CASE phase[l] \in {"cached", "overTls"} /\ SystemLookup(l)
      BY <2>1 DEF SystemLookup, NewEntry, Makes
    <2>2. CASE phase[l] = "cached" /\ QueryOverTls(l)
      <3>1. PICK k \in Socket : NewEntry(l, "connecting", k)
        BY <1>1, <2>2 DEF QueryOverTls, TypeOK
      <3>2. phase' = [phase EXCEPT ![l] = "overTls"]
        BY <2>2 DEF QueryOverTls
      <3> QED BY <2>2, <3>1, <3>2 DEF NewEntry, Makes
    <2> QED BY <2>1, <2>2
  <1> PICK e \in Entry : \E ph, j, k : Makes(l, e, ph, j, k)
    BY <1>2
  <1>3. PICK ph, j, k : Makes(l, e, ph, j, k)
    OBVIOUS
  <1>4. k \in Socket \cup {None} /\ ph \in {"overTls", "system"} /\ j \in {"connecting", "system"}
    BY <1>3, MakingOne
  <1>5. /\ phase' \in [Lookup -> {"new", "cached", "overTls", "system", "found", "failed"}]
        /\ entryOf' \in [Lookup -> Entry \cup {None}] /\ retries' \in [Lookup -> 0..Retries]
        /\ cache' \in [Host -> Entry \cup {None}]
        /\ entry' \in [Entry -> {"unused", "pending", "fresh", "stale", "rejected"}]
        /\ entryHost' \in [Entry -> Host]
        /\ job' \in [Entry -> {"none", "connecting", "querying", "system", "over", "late"}]
        /\ socketOf' \in [Entry -> Socket \cup {None}]
    BY <1>1, <1>3, <1>4 DEF Makes, TypeOK
  <1>6. /\ dot' \in [Session -> Socket \cup {None}]
        /\ connection' \in [Socket -> {"unused", "connecting", "up", "reconnecting", "broken"}]
        /\ isClosing' \subseteq Socket /\ pending' \in [Socket -> SUBSET Entry]
    BY <1>1 DEF SystemLookup, QueryOverTls, socketVars, TypeOK
  <1>7. TypeOK'
    BY <1>5, <1>6 DEF TypeOK
  <1> QED BY <1>3, <1>7, MakingKeepsAwaits

\* What a lookup does when its await brings nothing, or a failure.
LEMMA MissIInv ==
  ASSUME IInv, NEW l \in Lookup, CacheMiss(l) \/ FallBack(l)
  PROVE  IInv'
  <1>1. /\ Promise(entryOf[l]) # "pending" /\ phase[l] \in {"cached", "overTls"}
        /\ UNCHANGED <<retries, closedSessions, spinning>>
    BY DEF CacheMiss, FallBack
  <1>2. CASE phase[l] = "cached" /\ Promise(cache[HostOf[l]]) = "pending" /\ Join(l)
    BY <1>1, <1>2, JoinIInv
  <1>3. CASE SystemLookup(l)
    BY <1>1, <1>3, MakingIInv
  <1>4. CASE phase[l] = "cached" /\ QueryOverTls(l)
    BY <1>1, <1>4, MakingIInv
  <1> QED BY <1>2, <1>3, <1>4 DEF CacheMiss, FallBack

-----------------------------------------------------------------------------
(* Settling entries *)

\* Jobs that fail reject what awaits them and empty the map for their hosts.
LEMMA JobsFailIInv ==
  ASSUME IInv, NEW E \in SUBSET Entry, JobsFail(E),
         \A e \in E : job[e] \in {"connecting", "querying", "system"},
         UNCHANGED <<lookupVars, closedSessions, spinning>>,
         /\ dot' \in [Session -> Socket \cup {None}]
         /\ connection' \in [Socket -> {"unused", "connecting", "up", "reconnecting", "broken"}]
         /\ isClosing' \subseteq Socket /\ pending' \in [Socket -> SUBSET Entry]
  PROVE  IInv'
  <1> USE DEF IInv
  <1>1. /\ UNCHANGED <<phase, entryOf, retries, entryHost, socketOf>>
        /\ \A e \in Entry :
             /\ entry'[e] = IF e \in E /\ entry[e] = "pending" THEN "rejected" ELSE entry[e]
             /\ job'[e] = IF e \in E THEN "over" ELSE job[e]
        /\ \A h \in Host : cache'[h] = IF \E e \in E : entryHost[e] = h THEN None ELSE cache[h]
    BY DEF JobsFail, Settled, lookupVars
  <1>2. Settles
    BY <1>1 DEF Settles
  <1>3. TypeOK'
    BY DEF JobsFail, Settled, TypeOK, lookupVars
  <1>4. JobsOk'
    BY <1>1 DEF JobsOk, OverTls
  <1>5. ASSUME NEW h \in Host, cache'[h] # None
        PROVE  /\ cache'[h] = cache[h] /\ cache[h] \in Entry /\ cache[h] \notin E
               /\ entry'[cache[h]] = entry[cache[h]] /\ job'[cache[h]] = job[cache[h]]
    <2>1. cache'[h] = cache[h] /\ cache[h] \in Entry /\ entryHost[cache[h]] = h
      BY <1>1, <1>5 DEF TypeOK, CacheOk
    <2>2. cache[h] \notin E
      BY <1>1, <1>5, <2>1
    <2> QED BY <1>1, <2>1, <2>2
  <1>6. TimedOutOk' /\ SystemOk'
    BY <1>1, <1>5 DEF TimedOutOk, SystemOk, AwaitsReply, OverTls
  <1> QED BY <1>2, <1>3, <1>4, <1>6, SettlingKeepsAwaits

\* Between two events of the loop no entry over TLS in the map is rejected.
LEMMA IdleMap ==
  ASSUME IInv, Idle, NEW h \in Host, cache[h] # None, OverTls(cache[h])
  PROVE  entry[cache[h]] # "rejected"
  <1> SUFFICES ASSUME entry[cache[h]] = "rejected" PROVE FALSE
    OBVIOUS
  <1>1. PICK l \in Lookup : AwaitsReply(l, cache[h])
    BY DEF IInv, TimedOutOk
  <1> QED BY <1>1 DEF AwaitsReply, Idle, LookupGoesOn, Promise

\* The answer of a query or of the system resolver, between two events.
LEMMA JobSucceedsIInv ==
  ASSUME IInv, Idle, NEW e \in Entry, NEW v \in {"fresh", "stale"}, JobSucceeds(e, v),
         job[e] \in {"querying", "system"}, UNCHANGED <<lookupVars, closedSessions, spinning>>,
         /\ dot' \in [Session -> Socket \cup {None}]
         /\ connection' \in [Socket -> {"unused", "connecting", "up", "reconnecting", "broken"}]
         /\ isClosing' \subseteq Socket /\ pending' \in [Socket -> SUBSET Entry]
  PROVE  IInv'
  <1> USE DEF IInv
  <1>1. /\ UNCHANGED <<phase, entryOf, retries, cache, entryHost, socketOf>>
        /\ \A f \in Entry :
             /\ entry'[f] = IF f = e /\ entry[f] = "pending" THEN v ELSE entry[f]
             /\ job'[f] = IF f # e THEN job[f]
                          ELSE IF entry[f] = "pending" THEN "over" ELSE "late"
    BY DEF JobSucceeds, Settled, lookupVars, TypeOK
  <1>2. Settles
    BY <1>1 DEF Settles
  <1>3. TypeOK'
    BY DEF JobSucceeds, Settled, TypeOK, lookupVars
  <1>4. JobsOk'
    BY <1>1 DEF JobsOk, OverTls
  <1>5. TimedOutOk' /\ SystemOk'
    BY <1>1, IdleMap DEF TimedOutOk, SystemOk, AwaitsReply, OverTls, TypeOK
  <1> QED BY <1>2, <1>3, <1>4, <1>5, SettlingKeepsAwaits

\* The timers of an entry.
LEMMA TimerIInv ==
  ASSUME IInv, NEW e \in Entry, EntryTimesOut(e) \/ Expire(e)
  PROVE  IInv'
  <1> USE DEF IInv
  <1>1. /\ UNCHANGED <<phase, entryOf, retries, cache, entryHost, socketOf, job>>
        /\ \A f \in Entry \ {e} : entry'[f] = entry[f]
        /\ \/ entry[e] = "pending" /\ entry'[e] = "rejected"
           \/ entry[e] = "fresh" /\ entry'[e] = "stale"
    BY DEF EntryTimesOut, Expire, lookupVars, TypeOK
  <1>2. Settles
    BY <1>1 DEF Settles
  <1>3. TypeOK'
    BY DEF EntryTimesOut, Expire, TypeOK, lookupVars, socketVars
  <1>4. JobsOk'
    BY <1>1 DEF JobsOk, OverTls
  <1>5. TimedOutOk'
    <2> SUFFICES ASSUME NEW h \in Host, cache[h] # None, entry'[cache[h]] = "rejected",
                        OverTls(cache[h])
                 PROVE  job[cache[h]] \notin {"over", "late"} /\ \E l \in Lookup : AwaitsReply(l, cache[h])
      BY <1>1 DEF TimedOutOk, AwaitsReply, OverTls
    <2>1. cache[h] \in Entry
      BY DEF TypeOK
    <2>2. CASE cache[h] # e \/ entry[e] = "fresh"
      BY <1>1, <2>1, <2>2 DEF TimedOutOk
    <2>3. CASE cache[h] = e /\ entry[e] = "pending"
      BY <2>1, <2>3 DEF JobsOk, MakersAwait
    <2> QED BY <1>1, <2>2, <2>3
  <1>6. SystemOk'
    <2>1. \A h \in Host : cache[h] \in Entry \cup {None}
      BY DEF TypeOK
    <2>2. ~OverTls(e) /\ entry[e] = "pending" => job[e] = "system"
      BY DEF JobsOk
    <2> QED BY <1>1, <2>1, <2>2 DEF SystemOk, OverTls
  <1> QED BY <1>2, <1>3, <1>4, <1>5, <1>6, SettlingKeepsAwaits

\* The steps of the jobs.
LEMMA JobIInv ==
  ASSUME IInv, NEW e \in Entry, JobStep(e)
  PROVE  IInv'
  <1> USE DEF IInv
  <1>1. CASE SystemAnswers(e)
    <2>1. /\ Idle /\ job[e] = "system" /\ UNCHANGED <<lookupVars, closedSessions, spinning>>
          /\ JobSucceeds(e, "fresh") \/ JobsFail({e})
          /\ dot' \in [Session -> Socket \cup {None}]
          /\ connection' \in [Socket -> {"unused", "connecting", "up", "reconnecting", "broken"}]
          /\ isClosing' \subseteq Socket /\ pending' \in [Socket -> SUBSET Entry]
      BY <1>1 DEF SystemAnswers, socketVars, TypeOK
    <2> QED BY <2>1, JobSucceedsIInv, JobsFailIInv
  <1>2. CASE QueryTimesOut(e)
    <2>1. /\ job[e] = "querying" /\ UNCHANGED <<lookupVars, closedSessions, spinning>>
          /\ JobsFail({e})
          /\ dot' \in [Session -> Socket \cup {None}]
          /\ connection' \in [Socket -> {"unused", "connecting", "up", "reconnecting", "broken"}]
          /\ isClosing' \subseteq Socket /\ pending' \in [Socket -> SUBSET Entry]
      BY <1>2 DEF QueryTimesOut, socketVars, TypeOK
    <2> QED BY <2>1, JobsFailIInv
  <1>3. CASE SendQuery(e)
    <2>1. /\ job[e] = "connecting" /\ UNCHANGED <<lookupVars, closedSessions, spinning>>
          /\ dot' \in [Session -> Socket \cup {None}]
          /\ connection' \in [Socket -> {"unused", "connecting", "up", "reconnecting", "broken"}]
          /\ isClosing' \subseteq Socket /\ pending' \in [Socket -> SUBSET Entry]
      BY <1>3 DEF SendQuery, TypeOK
    <2>2. CASE JobsFail({e})
      BY <2>1, <2>2, JobsFailIInv
    <2>3. CASE job' = [job EXCEPT ![e] = "querying"] /\ UNCHANGED <<cache, entry, entryHost, socketOf>>
      <3>1. \A f \in Entry : job'[f] = IF f = e THEN "querying" ELSE job[f]
        BY <2>3 DEF TypeOK
      <3>2. Settles
        BY <2>1, <2>3 DEF Settles, lookupVars
      <3>3. TypeOK'
        BY <2>1, <2>3 DEF TypeOK, lookupVars
      <3>4. JobsOk'
        BY <2>1, <2>3, <3>1 DEF JobsOk, OverTls
      <3>5. TimedOutOk' /\ SystemOk'
        BY <2>1, <2>3, <3>1 DEF TimedOutOk, SystemOk, AwaitsReply, OverTls, lookupVars, TypeOK
      <3> QED BY <3>2, <3>3, <3>4, <3>5, SettlingKeepsAwaits
    <2> QED BY <1>3, <2>2, <2>3 DEF SendQuery
  <1> QED BY <1>1, <1>2, <1>3 DEF JobStep

\* What changes neither a lookup nor an entry.
LEMMA Frame ==
  ASSUME IInv, UNCHANGED <<lookupVars, entryVars>>, TypeOK'
  PROVE  IInv'
  <1>1. /\ \A h : /\ SystemFailed(h)' <=> SystemFailed(h)
                  /\ Queries(h)' = Queries(h) /\ PastTheMap(h)' = PastTheMap(h)
        /\ \A l : FailedBefore(HostOf[l], entryOf[l])' = FailedBefore(HostOf[l], entryOf[l])
    BY DEF lookupVars, entryVars, SystemFailed, Queries, PastTheMap, FailedBefore, OverTls
  <1>2. RetriesOk' /\ MakersOk'
    BY <1>1 DEF IInv, RetriesOk, MakersOk, lookupVars
  <1>3. (/\ InOrder /\ JobsOk /\ CacheOk /\ MakersAwait /\ TimedOutOk /\ SystemOk /\ AwaitedOk)'
    BY DEF IInv, InOrder, JobsOk, CacheOk, MakersAwait, TimedOutOk, SystemOk, AwaitedOk,
       AwaitsReply, OverTls, lookupVars, entryVars
  <1> QED BY <1>2, <1>3 DEF IInv

\* The steps of a socket.
LEMMA SocketIInv ==
  ASSUME IInv, NEW k \in Socket, SocketStep(k)
  PROVE  IInv'
  <1> USE DEF IInv
  <1>1. CASE ConnectionStep(k) \/ ServerCloses(k) \/ Eof(k)
    <2>1. UNCHANGED <<lookupVars, entryVars>>
      BY <1>1 DEF ConnectionStep, Connected, Reconnected, ConnectFails, ServerCloses, Eof
    <2>2. TypeOK'
      <3>1. CASE ConnectionStep(k)
        BY <3>1 DEF ConnectionStep, Connected, Reconnected, ConnectFails, OnClose,
           TypeOK, lookupVars, entryVars
      <3>2. CASE ServerCloses(k) \/ Eof(k)
        BY <3>2 DEF ServerCloses, Eof, OnClose, TypeOK, lookupVars, entryVars
      <3> QED BY <1>1, <3>1, <3>2
    <2> QED BY <2>1, <2>2, Frame
  <1>2. CASE Answer(k)
    <2>1. PICK e \in pending[k] :
            /\ pending' = [pending EXCEPT ![k] = @ \ {e}]
            /\ \/ job[e] = "querying" /\ \E v \in {"fresh", "stale"} : JobSucceeds(e, v)
               \/ UNCHANGED entryVars
      BY <1>2 DEF Answer
    <2>2. /\ e \in Entry /\ Idle /\ UNCHANGED <<lookupVars, closedSessions, spinning>>
          /\ dot' \in [Session -> Socket \cup {None}]
          /\ connection' \in [Socket -> {"unused", "connecting", "up", "reconnecting", "broken"}]
          /\ isClosing' \subseteq Socket /\ pending' \in [Socket -> SUBSET Entry]
      BY <1>2, <2>1 DEF Answer, Listens, TypeOK
    <2>3. CASE job[e] = "querying" /\ \E v \in {"fresh", "stale"} : JobSucceeds(e, v)
      BY <2>2, <2>3, JobSucceedsIInv
    <2>4. CASE UNCHANGED entryVars
      <3>1. TypeOK'
        BY <2>2, <2>4 DEF TypeOK, lookupVars, entryVars
      <3> QED BY <2>2, <2>4, <3>1, Frame
    <2> QED BY <2>1, <2>3, <2>4
  <1>3. CASE BadMessage(k)
    <2> DEFINE E == {e \in pending[k] : job[e] = "querying"}
    <2>1. E \in SUBSET Entry /\ \A e \in E : job[e] \in {"connecting", "querying", "system"}
      BY DEF TypeOK
    <2>2. /\ JobsFail(E) /\ UNCHANGED <<lookupVars, closedSessions, spinning>>
          /\ dot' \in [Session -> Socket \cup {None}]
          /\ connection' \in [Socket -> {"unused", "connecting", "up", "reconnecting", "broken"}]
          /\ isClosing' \subseteq Socket /\ pending' \in [Socket -> SUBSET Entry]
      BY <1>3 DEF BadMessage, OnClose, TypeOK
    <2> HIDE DEF E
    <2> QED BY <2>1, <2>2, JobsFailIInv
  <1> QED BY <1>1, <1>2, <1>3 DEF SocketStep

\* Closing a session changes its socket only.
LEMMA CloseIInv ==
  ASSUME IInv, NEW s \in Session, CloseSession(s)
  PROVE  IInv'
  <1>1. UNCHANGED <<lookupVars, entryVars>>
    BY DEF CloseSession
  <1>2. dot[s] # None => dot[s] \in Socket
    BY DEF IInv, TypeOK
  <1>3. TypeOK'
    BY <1>2 DEF IInv, CloseSession, OnClose, TypeOK, lookupVars, entryVars
  <1> QED BY <1>1, <1>3, Frame

\* Every step keeps the invariant.
LEMMA StepIInv ==
  ASSUME IInv, [Next]_vars
  PROVE  IInv'
  <1>1. CASE UNCHANGED vars
    <2>1. UNCHANGED <<lookupVars, entryVars>> /\ TypeOK'
      BY <1>1 DEF vars, IInv, TypeOK, lookupVars, entryVars, socketVars
    <2> QED BY <2>1, Frame
  <1>2. ASSUME NEW l \in Lookup, LookupIp(l) \/ LookupStep(l) PROVE IInv'
    BY <1>2, LookupIInv, RetryIInv, MissIInv DEF LookupStep
  <1>3. ASSUME NEW e \in Entry, JobStep(e) \/ EntryTimesOut(e) \/ Expire(e) PROVE IInv'
    BY <1>3, JobIInv, TimerIInv
  <1>4. ASSUME NEW k \in Socket, SocketStep(k) PROVE IInv'
    BY <1>4, SocketIInv
  <1>5. ASSUME NEW s \in Session, CloseSession(s) PROVE IInv'
    BY <1>5, CloseIInv
  <1> QED BY <1>1, <1>2, <1>3, <1>4, <1>5 DEF Next

-----------------------------------------------------------------------------
\* The invariant holds in every reachable state.
THEOREM Inductive == Spec => []IInv
  <1>1. Init => IInv
    BY InitIInv
  <1>2. IInv /\ [Next]_vars => IInv'
    BY StepIInv
  <1> QED BY <1>1, <1>2, PTL DEF Spec

\* Every variable keeps its type, for any constants.
THEOREM TypeCorrect == Spec => []TypeOK
  <1>1. IInv => TypeOK
    BY DEF IInv
  <1> QED BY <1>1, Inductive, PTL

\* No entry whose job is over stays rejected in the map of all sessions (Dns.ts:
\* both catch blocks delete it, and lookupIp falls back before another event),
\* except that of a system lookup which timed out before its answer came.
THEOREM MapForgetsFailures == Spec => []NoRejectedEntryIsKept
  <1>1. IInv => NoRejectedEntryIsKept
    BY DEF IInv, SystemOk, TimedOutOk, NoRejectedEntryIsKept, Promise, TypeOK, OverTls
  <1> QED BY <1>1, Inductive, PTL

\* What has failed stays so: a promise of the map settles once, and a session
\* that is closed stays closed.
FailsForGood ==
  /\ closedSessions \subseteq closedSessions'
  /\ \A e \in Entry : entry[e] = "rejected" =>
       entry'[e] = "rejected" /\ entryHost'[e] = entryHost[e] /\ socketOf'[e] = socketOf[e]

\* No step undoes a failure.
LEMMA StepFailsForGood ==
  ASSUME IInv, [Next]_vars
  PROVE  FailsForGood
  <1> USE DEF IInv, TypeOK, FailsForGood
  <1>1. CASE UNCHANGED vars
    BY <1>1 DEF vars, entryVars
  <1>2. ASSUME NEW l \in Lookup, LookupIp(l) \/ LookupStep(l) PROVE FailsForGood
    <2>1. CASE LookupIp(l) \/ Found(l) \/ Retry(l) \/ GiveUp(l)
      BY <2>1 DEF LookupIp, Found, Retry, GiveUp, entryVars
    <2>2. CASE CacheMiss(l) \/ FallBack(l)
      <3>1. closedSessions' = closedSessions
        BY <2>2 DEF CacheMiss, FallBack
      <3>2. UNCHANGED entryVars \/ \E j, k : NewEntry(l, j, k)
        BY <2>2 DEF CacheMiss, FallBack, Join, QueryOverTls, SystemLookup
      <3> QED BY <3>1, <3>2 DEF NewEntry, entryVars
    <2> QED BY <1>2, <2>1, <2>2 DEF LookupStep
  <1>3. ASSUME NEW e \in Entry, JobStep(e) \/ EntryTimesOut(e) \/ Expire(e) PROVE FailsForGood
    BY <1>3 DEF JobStep, SystemAnswers, SendQuery, QueryTimesOut, EntryTimesOut, Expire,
       JobsFail, JobSucceeds, Settled
  <1>4. ASSUME NEW k \in Socket, SocketStep(k) PROVE FailsForGood
    BY <1>4 DEF SocketStep, ConnectionStep, Connected, Reconnected, ConnectFails, Answer,
       ServerCloses, BadMessage, Eof, JobsFail, JobSucceeds, Settled, entryVars
  <1>5. ASSUME NEW s \in Session, CloseSession(s) PROVE FailsForGood
    BY <1>5 DEF CloseSession, entryVars
  <1> QED BY <1>1, <1>2, <1>3, <1>4, <1>5 DEF Next

\* A promise of the map keeps the failure it was settled with, and a closed
\* session is not opened again (createPromise; RequestSession.isClosing).
THEOREM FailuresAreFinal == Spec => [][FailsForGood]_vars
  <1>1. IInv /\ [Next]_vars => [FailsForGood]_vars
    BY StepFailsForGood
  <1> QED BY <1>1, Inductive, PTL DEF Spec

\* The queries over TLS for the host that have failed; MakersOk says that each was
\* made by another lookup.
FailedQueries(h) == {e \in Queries(h) : entry[e] = "rejected"}

\* A lookup fails only if its session is closed, the system resolver failed for its
\* host, or more queries than it has retries failed.
FailsOnlyWhenOvertaken ==
  \A l \in Lookup : phase[l] = "failed" =>
    \/ SessionOf[l] \in closedSessions
    \/ SystemFailed(HostOf[l])
    \/ Cardinality(FailedQueries(HostOf[l])) > Retries

\* The failed queries are finitely many, and no step takes one away.
LEMMA FailedQueriesGrow ==
  ASSUME IInv, [Next]_vars, NEW h \in Host
  PROVE  /\ IsFiniteSet(FailedQueries(h)) /\ IsFiniteSet(FailedQueries(h)')
         /\ Cardinality(FailedQueries(h)) \in Nat /\ Cardinality(FailedQueries(h)') \in Nat
         /\ Cardinality(FailedQueries(h)) <= Cardinality(FailedQueries(h)')
  <1>1. IsFiniteSet(Entry)
    BY DnsAssumption, FS_Interval DEF DnsAssumption, Entry
  <1>2. FailedQueries(h) \subseteq Entry /\ FailedQueries(h)' \subseteq Entry
    BY DEF FailedQueries, Queries
  <1>3. FailedQueries(h) \subseteq FailedQueries(h)'
    BY StepFailsForGood DEF FailsForGood, FailedQueries, Queries, OverTls
  <1>4. IsFiniteSet(FailedQueries(h)) /\ IsFiniteSet(FailedQueries(h)')
    BY <1>1, <1>2, FS_Subset
  <1> QED BY <1>3, <1>4, FS_Subset, FS_CardinalityType

\* A lookup runs out of retries only after as many queries of others have failed.
LEMMA RetriesRunOut ==
  ASSUME IInv, [Next]_vars, NEW l \in Lookup, phase[l] = "cached",
         Promise(entryOf[l]) = "rejected", ~SystemFailed(HostOf[l]), ~(retries[l] > 0)
  PROVE  Cardinality(FailedQueries(HostOf[l])) > Retries
  <1> DEFINE h == HostOf[l]
             F == FailedBefore(h, entryOf[l]) \cup {entryOf[l]}
  <1>1. /\ F \subseteq FailedQueries(h) /\ Retries - retries[l] + 1 <= Cardinality(F)
        /\ IsFiniteSet(F)
    BY RetryCountsFailures DEF FailedBefore, FailedQueries, Promise, Entry, None
  <1>2. h \in Host /\ retries[l] = 0 /\ Retries \in Int
    BY DnsAssumption DEF IInv, TypeOK
  <1>3. Cardinality(F) <= Cardinality(FailedQueries(h)) /\ Cardinality(F) \in Nat
    BY <1>1, <1>2, FailedQueriesGrow, FS_Subset, FS_CardinalityType
  <1>4. Cardinality(FailedQueries(h)) \in Nat
    BY <1>2, FailedQueriesGrow
  <1> HIDE DEF F
  <1> QED BY <1>1, <1>2, <1>3, <1>4

\* A lookup gives up after its system lookup, on a closed session, or without retries.
LEMMA StepFailsWhenOvertaken ==
  ASSUME IInv, FailsOnlyWhenOvertaken, [Next]_vars
  PROVE  FailsOnlyWhenOvertaken'
  <1> USE DEF IInv
  <1> SUFFICES ASSUME NEW l \in Lookup, phase'[l] = "failed", SessionOf[l] \notin closedSessions'
               PROVE  \/ SystemFailed(HostOf[l])'
                      \/ Cardinality(FailedQueries(HostOf[l])') > Retries
    BY DEF FailsOnlyWhenOvertaken
  <1>1. FailsForGood
    BY StepFailsForGood
  <1>2. SessionOf[l] \notin closedSessions /\ (SystemFailed(HostOf[l]) => SystemFailed(HostOf[l])')
    BY <1>1 DEF FailsForGood, SystemFailed, OverTls
  <1> DEFINE n == Cardinality(FailedQueries(HostOf[l]))
             n2 == Cardinality(FailedQueries(HostOf[l])')
  <1>7. HostOf[l] \in Host /\ Retries \in Nat
    BY DnsAssumption DEF DnsAssumption
  <1>8. n \in Nat /\ n2 \in Nat /\ n <= n2
    BY <1>7, FailedQueriesGrow
  <1>9. n > Retries => n2 > Retries
    <2> HIDE DEF n, n2
    <2> QED BY <1>7, <1>8
  <1>3. CASE phase[l] = "failed"
    BY <1>2, <1>3, <1>9 DEF FailsOnlyWhenOvertaken
  <1>4. CASE GiveUp(l)
    <2>1. /\ entryOf[l] \in Entry /\ entry[entryOf[l]] = "rejected"
          /\ entryHost[entryOf[l]] = HostOf[l] /\ ~OverTls(entryOf[l])
      BY <1>4 DEF GiveUp, Promise, AwaitedOk, TypeOK
    <2> QED BY <1>2, <2>1 DEF SystemFailed
  <1>5. CASE Retry(l)
    <2>1. /\ phase[l] = "cached" /\ Promise(entryOf[l]) = "rejected"
          /\ ~(retries[l] > 0 /\ SessionOf[l] \notin closedSessions)
      BY <1>5 DEF Retry, AwaitCached, TypeOK
    <2> QED BY <1>2, <1>9, <2>1, RetriesRunOut
  <1>6. phase[l] = "failed" \/ GiveUp(l) \/ Retry(l)
    <2> SUFFICES ASSUME phase[l] # "failed" PROVE GiveUp(l) \/ Retry(l)
      OBVIOUS
    <2>1. phase' # phase
      OBVIOUS
    <2>2. PICK m \in Lookup : LookupIp(m) \/ LookupStep(m)
      BY <2>1 DEF Next, vars, lookupVars, JobStep, SystemAnswers, SendQuery, QueryTimesOut,
         EntryTimesOut, Expire, SocketStep, ConnectionStep, Connected, Reconnected, ConnectFails,
         Answer, ServerCloses, BadMessage, Eof, CloseSession
    <2>3. m = l
      BY <2>2 DEF LookupIp, LookupStep, Found, Retry, AwaitCached, CacheMiss, Join, QueryOverTls,
         SystemLookup, FallBack, GiveUp, TypeOK
    <2> QED BY <2>2, <2>3 DEF LookupIp, LookupStep, Found, AwaitCached, CacheMiss, Join,
               QueryOverTls, SystemLookup, FallBack, TypeOK
  <1> QED BY <1>3, <1>4, <1>5, <1>6

\* Dns.lookupIp rejects only if its session is closed, the system resolver failed
\* for its host, or more than "retries" queries over TLS for the host failed, each
\* made by another lookup: up to three failures of others are not passed on.
THEOREM FailuresAreNotPassedOn == Spec => []FailsOnlyWhenOvertaken
  <1>1. Init => FailsOnlyWhenOvertaken
    BY DEF Init, FailsOnlyWhenOvertaken
  <1>2. IInv /\ FailsOnlyWhenOvertaken /\ [Next]_vars => FailsOnlyWhenOvertaken'
    BY StepFailsWhenOvertaken
  <1> QED BY <1>1, <1>2, Inductive, PTL DEF Spec
=============================================================================
