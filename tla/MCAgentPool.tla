---------------------------- MODULE MCAgentPool ----------------------------
(* Small instances of AgentPool for TLC. *)
EXTENDS AgentPool, TLC

CONSTANTS btc, d0, d1

OneSymbol == [k \in SignalKeys |-> btc]
TwoDays   == [d \in 0..1 |-> IF d = 0 THEN d0 ELSE d1]

BuyHinted == [action |-> "buy", sure |-> TRUE, hint |-> 2]
BuyUnsure == [action |-> "buy", sure |-> FALSE, hint |-> 2]
SomeVerdicts == {BuyHinted, BuyUnsure}
OneVerdict   == {BuyHinted}

PoolFaults == {"clock", "cost", "store", "crash"}

Symmetries == Permutations(Workers) \cup Permutations(SignalKeys)
=============================================================================
