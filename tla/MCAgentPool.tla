----------------------------- MODULE MCAgentPool -----------------------------
(***************************************************************************)
(* AgentPool for TLC.  The agents of a run are interchangeable when they   *)
(* ask for the same engine, so they may be permuted.                       *)
(***************************************************************************)
EXTENDS AgentPool, TLC

CONSTANT PlainEngine

SameEngine == [a \in Agent |-> PlainEngine]
OneEngine == {PlainEngine}
AgentSymmetry == Permutations(Agent)

\* What the world may do to a pool whose owners wait for open() before they close:
\* everything that fails, crashes and closes; calls of open() that join the first;
\* and a closed pool that is started again.
MCEnvironments ==
  { Happenings \ {"impatientOwner", "openAfterClose", "joinedOpen", "restart"},
    {"crash", "hookFails", "joinedOpen"},
    {"joinedOpen", "poolClose"},
    {"mitmFails", "poolClose", "restart"} }

BrowserFaults == {{"crash", "launchFails"}}
ImpatientOwners == {{"impatientOwner"}}
PoolShutdown == {{"poolClose"}}
=============================================================================
