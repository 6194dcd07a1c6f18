------------------------------ MODULE DnsLookup ------------------------------
(***************************************************************************)
(* Name lookups of the MITM proxy: Dns.ts, whose map of entries is shared  *)
(* by all request sessions, and DnsOverTlsSocket.ts, the connection of a   *)
(* session to its DNS server.  A lookup awaits the entry of its host in    *)
(* the map, else the entry of a query over TLS, else that of the system's  *)
(* resolver; it starts again if the entry it found in the map fails.       *)
(*                                                                         *)
(* An entry is a promise with a timeout of 10 s that a job settles; a      *)
(* query over TLS has a timeout of 5 s of its own.  One action is what     *)
(* runs between two awaits; whoever awaits a promise that is settled goes  *)
(* on before the next timer or event of a socket.                          *)
(***************************************************************************)
EXTENDS Integers, FiniteSets

CONSTANTS
  Lookup, Host, HostOf,        \* calls of lookupIp, and the host each asks for
  Session, SessionOf,          \* request sessions, and the one of each call
  TlsSession,                  \* those whose plugins name a DNS server
  Retries,                     \* the default of lookupIp's parameter "retries"
  EntryLimit, SocketLimit,     \* bounds: entries and sockets of one behaviour
  Environment                  \* what may happen in this run

Happenings == {"connectFails", "serverCloses", "idleEof", "eof", "silence", "noRecords",
               "badMessage", "systemFails", "slow", "slowSystem", "expiry",
               "sessionClose"}

ASSUME DnsAssumption ==
  /\ Host # {} /\ IsFiniteSet(Lookup) /\ HostOf \in [Lookup -> Host]
  /\ SessionOf \in [Lookup -> Session] /\ TlsSession \subseteq Session
  /\ Retries \in Nat /\ EntryLimit \in Nat /\ SocketLimit \in Nat
  /\ Environment \subseteq Happenings

Entry  == 1..EntryLimit
Socket == 1..SocketLimit
None   == 0

VARIABLES
  phase, entryOf, retries,  \* of each lookup: where it is, the entry it awaits
  cache,                    \* Dns.dnsEntries
  entry, entryHost,         \* the promise of each entry, and its host
  job, socketOf,            \* what settles it: a query on a socket, or the system
  dot,                      \* the field "socket" of the Dns object of each session
  closedSessions,
  connection, isClosing,    \* of each socket
  pending,                  \* the queries a socket has not had an answer to
  spinning                  \* the event loop is in a loop that does not end

lookupVars == <<phase, entryOf, retries>>
entryVars  == <<cache, entry, entryHost, job, socketOf>>
socketVars == <<dot, connection, isClosing, pending>>
vars == <<lookupVars, entryVars, socketVars, closedSessions, spinning>>

TypeOK ==
  /\ phase \in [Lookup -> {"new", "cached", "overTls", "system", "found", "failed"}]
  /\ entryOf \in [Lookup -> Entry \cup {None}]
  /\ retries \in [Lookup -> 0..Retries]
  /\ cache \in [Host -> Entry \cup {None}]
  /\ entry \in [Entry -> {"unused", "pending", "fresh", "stale", "rejected"}]
  /\ entryHost \in [Entry -> Host]
  /\ job \in [Entry -> {"none", "connecting", "querying", "system", "over", "late"}]
  /\ socketOf \in [Entry -> Socket \cup {None}]
  /\ dot \in [Session -> Socket \cup {None}]
  /\ closedSessions \subseteq Session
  /\ connection \in [Socket -> {"unused", "connecting", "up", "reconnecting", "broken"}]
  /\ isClosing \subseteq Socket
  /\ pending \in [Socket -> SUBSET Entry]
  /\ spinning \in BOOLEAN

Init ==
  /\ phase = [l \in Lookup |-> "new"] /\ entryOf = [l \in Lookup |-> None]
  /\ retries = [l \in Lookup |-> Retries]
  /\ cache = [h \in Host |-> None]
  /\ entry = [e \in Entry |-> "unused"]
  /\ entryHost = [e \in Entry |-> CHOOSE h \in Host : TRUE]
  /\ job = [e \in Entry |-> "none"] /\ socketOf = [e \in Entry |-> None]
  /\ dot = [s \in Session |-> None] /\ closedSessions = {}
  /\ connection = [k \in Socket |-> "unused"] /\ isClosing = {}
  /\ pending = [k \in Socket |-> {}]
  /\ spinning = FALSE

-----------------------------------------------------------------------------
\* What an await of entry e, or of no entry, finds.
Promise(e) == IF e = None THEN "none" ELSE entry[e]

LookupGoesOn(l) ==
  phase[l] \in {"cached", "overTls", "system"} /\ Promise(entryOf[l]) # "pending"

JobGoesOn(e) ==
  job[e] = "connecting" /\ connection[socketOf[e]] \notin {"connecting", "reconnecting"}

\* No await is over, so the event loop takes the next event.
Idle ==
  /\ \A l \in Lookup : ~LookupGoesOn(l)
  /\ \A e \in Entry : ~JobGoesOn(e)
  /\ ~spinning

(* lookupIp *)

\* getNextCachedARecord awaits what the map holds for the host, if anything.
AwaitCached(l) ==
  /\ phase' = [phase EXCEPT ![l] = "cached"]
  /\ entryOf' = [entryOf EXCEPT ![l] = cache[HostOf[l]]]

\* RequestSession.lookupDns does not ask once the session is closed.
LookupIp(l) ==
  /\ Idle
  /\ phase[l] = "new" /\ SessionOf[l] \notin closedSessions
  /\ AwaitCached(l)
  /\ UNCHANGED <<retries, entryVars, socketVars, closedSessions, spinning>>

Found(l) ==
  /\ phase[l] \in {"cached", "overTls", "system"} /\ Promise(entryOf[l]) = "fresh"
  /\ phase' = [phase EXCEPT ![l] = "found"]
  /\ UNCHANGED <<entryOf, retries, entryVars, socketVars, closedSessions, spinning>>

RetryUnlimited(l) ==
  /\ phase[l] = "cached" /\ Promise(entryOf[l]) = "rejected"
  /\ AwaitCached(l) /\ retries' = [retries EXCEPT ![l] = @ - 1]
  /\ UNCHANGED <<entryVars, socketVars, closedSessions, spinning>>

RetryNot(l) ==
  /\ phase[l] = "cached" /\ Promise(entryOf[l]) = "rejected"
  /\ phase' = [phase EXCEPT ![l] = "failed"]
  /\ UNCHANGED <<entryOf, retries, entryVars, socketVars, closedSessions, spinning>>

\* The entry in the map has failed.  The lookup that made it awaited it first,
\* and has replaced it.  A closed Dns has lost its requestSession, and the new
\* call throws.
Retry(l) ==
  /\ phase[l] = "cached" /\ Promise(entryOf[l]) = "rejected"
  /\ cache[HostOf[l]] = entryOf[l] =>
       \A m \in Lookup : phase[m] = "overTls" => entryOf[m] # entryOf[l]
  /\ IF retries[l] > 0 /\ SessionOf[l] \notin closedSessions
       THEN AwaitCached(l) /\ retries' = [retries EXCEPT ![l] = @ - 1]
       ELSE phase' = [phase EXCEPT ![l] = "failed"] /\ UNCHANGED <<entryOf, retries>>
  /\ UNCHANGED <<entryVars, socketVars, closedSessions, spinning>>

\* createPromise, and the first part of the job, which puts it in the map.
NewEntry(l, j, k) ==
  \E e \in Entry :
    /\ entry[e] = "unused" /\ \A f \in 1..(e - 1) : entry[f] # "unused"
    /\ entry' = [entry EXCEPT ![e] = "pending"]
    /\ entryHost' = [entryHost EXCEPT ![e] = HostOf[l]]
    /\ job' = [job EXCEPT ![e] = j]
    /\ socketOf' = [socketOf EXCEPT ![e] = k]
    /\ cache' = [cache EXCEPT ![HostOf[l]] = e]
    /\ entryOf' = [entryOf EXCEPT ![l] = e]

SystemLookup(l) ==
  /\ NewEntry(l, "system", None)
  /\ phase' = [phase EXCEPT ![l] = "system"]
  /\ UNCHANGED socketVars

\* lookupDnsEntry on the socket of the session, opened if there is none.
QueryOverTls(l) ==
  LET s == SessionOf[l] IN
  /\ phase' = [phase EXCEPT ![l] = "overTls"]
  /\ \/ dot[s] # None /\ NewEntry(l, "connecting", dot[s]) /\ UNCHANGED socketVars
     \/ /\ dot[s] = None
        /\ \E k \in Socket :
             /\ connection[k] = "unused" /\ \A m \in 1..(k - 1) : connection[m] # "unused"
             /\ dot' = [dot EXCEPT ![s] = k]
             /\ connection' = [connection EXCEPT ![k] = "connecting"]
             /\ NewEntry(l, "connecting", k)
        /\ UNCHANGED <<isClosing, pending>>

\* lookupDnsEntry joins a lookup of the host that is not settled.
Join(l) ==
  /\ phase' = [phase EXCEPT ![l] = "overTls"]
  /\ entryOf' = [entryOf EXCEPT ![l] = cache[HostOf[l]]]
  /\ UNCHANGED <<entryVars, socketVars>>

\* Nothing usable in the map.  The socket of a closed Dns cannot be made.
CacheMiss(l) ==
  LET overTls == SessionOf[l] \in TlsSession
      joins   == Promise(cache[HostOf[l]]) = "pending"
  IN
  /\ phase[l] = "cached" /\ Promise(entryOf[l]) \in {"none", "stale"}
  /\ \/ overTls /\ joins /\ Join(l)
     \/ overTls /\ ~joins /\ SessionOf[l] \notin closedSessions /\ QueryOverTls(l)
     \/ /\ ~overTls \/ (~joins /\ SessionOf[l] \in closedSessions)
        /\ SystemLookup(l)
  /\ UNCHANGED <<retries, closedSessions, spinning>>

\* The query failed or brought no record: "try to resolve using system interface".
FallBack(l) ==
  /\ phase[l] = "overTls" /\ Promise(entryOf[l]) \in {"rejected", "stale"}
  /\ SystemLookup(l)
  /\ UNCHANGED <<retries, closedSessions, spinning>>

GiveUp(l) ==
  /\ phase[l] = "system" /\ Promise(entryOf[l]) = "rejected"
  /\ phase' = [phase EXCEPT ![l] = "failed"]
  /\ UNCHANGED <<entryOf, retries, entryVars, socketVars, closedSessions, spinning>>

-----------------------------------------------------------------------------
(* The jobs that settle entries *)

\* A promise that is settled keeps its value.
Settled(E, v) == [e \in Entry |-> IF e \in E /\ entry[e] = "pending" THEN v ELSE entry[e]]

JobsFailButKeepEntry(E) ==
  /\ entry' = Settled(E, "rejected")
  /\ job' = [e \in Entry |-> IF e \in E THEN "over" ELSE job[e]]
  /\ UNCHANGED <<cache, entryHost, socketOf>>

JobsFailUnnoticed(E) ==
  /\ job' = [e \in Entry |-> IF e \in E THEN "over" ELSE job[e]]
  /\ cache' = [h \in Host |-> IF \E e \in E : entryHost[e] = h THEN None ELSE cache[h]]
  /\ UNCHANGED <<entry, entryHost, socketOf>>

\* The catch blocks reject the entry and delete what the map holds for its host.
JobsFail(E) ==
  /\ entry' = Settled(E, "rejected")
  /\ job' = [e \in Entry |-> IF e \in E THEN "over" ELSE job[e]]
  /\ cache' = [h \in Host |-> IF \E e \in E : entryHost[e] = h THEN None ELSE cache[h]]
  /\ UNCHANGED <<entryHost, socketOf>>

\* The answer settles the entry, or comes too late and changes nothing.
JobSucceeds(e, v) ==
  /\ entry' = Settled({e}, v)
  /\ job' = [job EXCEPT ![e] = IF entry[e] = "pending" THEN "over" ELSE "late"]
  /\ UNCHANGED <<cache, entryHost, socketOf>>

EntryTimesOut(e) ==
  /\ Idle
  /\ IF job[e] = "system" THEN "slowSystem" \in Environment ELSE "slow" \in Environment
  /\ entry[e] = "pending"
  /\ entry' = [entry EXCEPT ![e] = "rejected"]
  /\ UNCHANGED <<lookupVars, cache, entryHost, job, socketOf, socketVars, closedSessions, spinning>>

\* The time to live of its records is over.
Expire(e) ==
  /\ Idle
  /\ "expiry" \in Environment /\ entry[e] = "fresh"
  /\ entry' = [entry EXCEPT ![e] = "stale"]
  /\ UNCHANGED <<lookupVars, cache, entryHost, job, socketOf, socketVars, closedSessions, spinning>>

SystemAnswers(e) ==
  /\ Idle
  /\ job[e] = "system"
  /\ \/ JobSucceeds(e, "fresh")
     \/ "systemFails" \in Environment /\ JobsFail({e})
  /\ UNCHANGED <<lookupVars, socketVars, closedSessions, spinning>>

\* lookupARecords after "await this.isConnected".
SendQuery(e) ==
  LET k == socketOf[e] IN
  /\ job[e] = "connecting" /\ ~spinning
  /\ \/ /\ connection[k] = "up" /\ k \notin isClosing
        /\ job' = [job EXCEPT ![e] = "querying"]
        /\ pending' = [pending EXCEPT ![k] = @ \cup {e}]
        /\ UNCHANGED <<cache, entry, entryHost, socketOf>>
     \/ /\ connection[k] = "broken" \/ (connection[k] = "up" /\ k \in isClosing)
        /\ JobsFail({e})
        /\ UNCHANGED pending
  /\ UNCHANGED <<lookupVars, dot, connection, isClosing, closedSessions, spinning>>

\* A query without an answer stays in "pending" when its promise times out.
QueryTimesOut(e) ==
  LET k == socketOf[e] IN
  /\ Idle
  /\ job[e] = "querying"
  /\ "silence" \in Environment \/ connection[k] # "up" \/ k \in isClosing
  /\ JobsFail({e})
  /\ UNCHANGED <<lookupVars, socketVars, closedSessions, spinning>>

-----------------------------------------------------------------------------
(* DnsOverTlsSocket *)

\* The socket can hear of an event.
Listens(k) == Idle /\ connection[k] = "up" /\ k \notin isClosing

Connected(k) ==
  /\ Idle
  /\ connection[k] = "connecting"
  /\ connection' = [connection EXCEPT ![k] = "up"]
  /\ UNCHANGED <<lookupVars, entryVars, dot, isClosing, pending, closedSessions, spinning>>

\* "isConnected" keeps the rejected promise, and the session keeps the socket.
ConnectFails(k) ==
  /\ Idle
  /\ "connectFails" \in Environment
  /\ connection[k] \in {"connecting", "reconnecting"}
  /\ connection' = [connection EXCEPT ![k] = "broken"]
  /\ UNCHANGED <<lookupVars, entryVars, dot, isClosing, pending, closedSessions, spinning>>

\* onData: an answer, late ones included, is matched by the id of its query.
Answer(k) ==
  /\ Listens(k)
  /\ \E e \in pending[k] :
       /\ pending' = [pending EXCEPT ![k] = @ \ {e}]
       /\ \/ job[e] = "querying" /\ JobSucceeds(e, "fresh")
          \/ job[e] = "querying" /\ "noRecords" \in Environment /\ JobSucceeds(e, "stale")
          \/ job[e] # "querying" /\ UNCHANGED entryVars
  /\ UNCHANGED <<lookupVars, dot, connection, isClosing, closedSessions, spinning>>

\* The session gives up a socket that closes.
OnClose(k) ==
  /\ isClosing' = isClosing \cup {k}
  /\ dot' = [s \in Session |-> IF dot[s] = k THEN None ELSE dot[s]]

\* The close event; the queries it had sent are left to their timeout.
ServerCloses(k) ==
  /\ "serverCloses" \in Environment
  /\ Listens(k)
  /\ OnClose(k)
  /\ UNCHANGED <<lookupVars, entryVars, connection, pending, closedSessions, spinning>>

\* disconnect, on a message that cannot be one.
BadMessage(k) ==
  /\ "badMessage" \in Environment
  /\ Listens(k)
  /\ JobsFail({e \in pending[k] : job[e] = "querying"})
  /\ OnClose(k)
  /\ UNCHANGED <<lookupVars, connection, pending, closedSessions, spinning>>

\* The DNS server ends the connection, usually an idle one; a new one is opened.
Eof(k) ==
  /\ "eof" \in Environment \/ ("idleEof" \in Environment /\ pending[k] = {})
  /\ Listens(k)
  /\ connection' = [connection EXCEPT ![k] = "reconnecting"]
  /\ UNCHANGED <<lookupVars, entryVars, dot, isClosing, pending, closedSessions, spinning>>

\* "re-run pending queries": the loop over the map visits the queries it adds.
Reconnected(k) ==
  /\ Idle
  /\ connection[k] = "reconnecting"
  /\ connection' = [connection EXCEPT ![k] = "up"]
  /\ spinning' = (pending[k] # {})
  /\ UNCHANGED <<lookupVars, entryVars, dot, isClosing, pending, closedSessions>>

\* Dns.close, from RequestSession.close.
CloseSession(s) ==
  LET k == dot[s] IN
  /\ Idle
  /\ "sessionClose" \in Environment /\ s \notin closedSessions
  /\ closedSessions' = closedSessions \cup {s}
  /\ IF k = None
       THEN UNCHANGED <<dot, isClosing, connection>>
       ELSE /\ OnClose(k)
            /\ connection' = [connection EXCEPT ![k] = IF @ = "up" THEN @ ELSE "broken"]
  /\ UNCHANGED <<lookupVars, entryVars, pending, spinning>>

-----------------------------------------------------------------------------
LookupStep(l) == Found(l) \/ Retry(l) \/ CacheMiss(l) \/ FallBack(l) \/ GiveUp(l)

JobStep(e) == SystemAnswers(e) \/ SendQuery(e) \/ QueryTimesOut(e)

ConnectionStep(k) == Connected(k) \/ Reconnected(k) \/ ConnectFails(k)

SocketStep(k) == ConnectionStep(k) \/ Answer(k) \/ ServerCloses(k) \/ BadMessage(k) \/ Eof(k)

Next ==
  \/ \E l \in Lookup : LookupIp(l) \/ LookupStep(l)
  \/ \E e \in Entry : JobStep(e) \/ EntryTimesOut(e) \/ Expire(e)
  \/ \E k \in Socket : SocketStep(k)
  \/ \E s \in Session : CloseSession(s)

Spec == Init /\ [][Next]_vars

(***************************************************************************)
(* Awaits go on, a connection attempt ends (MitmSocket.connect has a       *)
(* timeout of 10 s), a query times out, and the system resolver answers or *)
(* fails.  A DNS server need not answer; nothing makes a record expire or  *)
(* a server close.                                                         *)
(***************************************************************************)
FairSpec ==
  /\ Spec
  /\ \A l \in Lookup : WF_vars(LookupStep(l))
  /\ \A e \in Entry : WF_vars(JobStep(e))
  /\ \A k \in Socket : WF_vars(ConnectionStep(k))

-----------------------------------------------------------------------------
(* Properties *)

\* A lookup fails only if the system resolver failed for its host or the session
\* is closed: a failure over TLS, of its own query or of the one it joined or
\* found in the map, is not passed on.
FailsOnlyIfSystemFails ==
  \A l \in Lookup : phase[l] = "failed" =>
    \/ SessionOf[l] \in closedSessions
    \/ \E e \in Entry : /\ entryHost[e] = HostOf[l] /\ socketOf[e] = None
                        /\ entry[e] = "rejected"

\* A failed entry does not stay in the map all sessions share ("likely because
\* another lookup failed... try again"): its job is about to delete it, or it is
\* gone.  The one exception is a lookup of the system's resolver that timed out
\* and was answered after that: its entry is never deleted (Dns.ts:89-92).
NoRejectedEntryIsKept ==
  \A h \in Host : Promise(cache[h]) = "rejected" =>
    \/ job[cache[h]] \notin {"over", "late"}
    \/ job[cache[h]] = "late" /\ socketOf[cache[h]] = None

\* The event loop goes on after a DNS server has ended its connection.
ReconnectReturns == ~spinning

\* Every lookup is answered, whatever fails on the way.
LookupsSettle == \A l \in Lookup : phase[l] = "cached" ~> phase[l] \in {"found", "failed"}
=============================================================================
