----------------------------- MODULE AgentSlots -----------------------------
(***************************************************************************)
(* What a Pool promises the agents that ask it for room, whatever browsers *)
(* it uses: at most MaxAgents of them are in service, the others stand in  *)
(* one line, nobody enters past the line, and a slot that is given back    *)
(* goes to the head of the line in the same step.  Closing the pool sends  *)
(* the line away, and agents that still come may then wait for slots that  *)
(* nobody gives back.                                                      *)
(***************************************************************************)
EXTENDS Integers, Sequences, FiniteSets, Functions

CONSTANTS Agent,      \* the agents that may ask for a slot
          MaxAgents   \* maxConcurrentAgents

VARIABLES holders,    \* agents that have a slot
          line,       \* agents that wait for one, first come first served
          open        \* FALSE once the pool is being closed

vars == <<holders, line, open>>

Init == holders = {} /\ line = <<>> /\ open = TRUE

Enter(a) ==
  /\ line = <<>>
  /\ a \notin holders
  /\ Cardinality(holders) < MaxAgents
  /\ holders' = holders \cup {a}
  /\ UNCHANGED <<line, open>>

StandInLine(a) ==
  /\ a \notin holders \cup Range(line)
  /\ open => Cardinality(holders) >= MaxAgents
  /\ line' = Append(line, a)
  /\ UNCHANGED <<holders, open>>

Leave(a) ==
  /\ a \in holders
  /\ IF line = <<>>
       THEN holders' = holders \ {a} /\ line' = line
       ELSE holders' = (holders \ {a}) \cup {Head(line)} /\ line' = Tail(line)
  /\ UNCHANGED open

SendAway ==
  /\ open' = FALSE
  /\ line' = <<>>
  /\ UNCHANGED holders

\* The closed pool stops listening to the agents that are left.
Forget == ~open /\ holders' = {} /\ UNCHANGED <<line, open>>

Next == (\E a \in Agent : Enter(a) \/ StandInLine(a) \/ Leave(a)) \/ SendAway \/ Forget

Spec == Init /\ [][Next]_vars
=============================================================================
