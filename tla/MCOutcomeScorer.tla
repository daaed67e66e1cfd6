-------------------------- MODULE MCOutcomeScorer --------------------------
(* Small instances of OutcomeScorer for TLC. *)
EXTENDS OutcomeScorer, TLC

(* Candles of one unit for spans of up to one, of two for longer ones. *)
TwoWidths == <<[span |-> 1, width |-> 1], [span |-> 4, width |-> 2]>>

OneHorizon  == "14d" :> 2
LongOnly == {"14d"}

(* BTC trades always; ETH not between 1 and 3, so that a decision about it *)
(* at 1 has no price within its two units.                                 *)
TwoProducts == ("BTC-USD" :> 0..8) @@ ("ETH-USD" :> {0, 4, 5, 6})

(* The agent's name for an alert of the whole portfolio is no product. *)
ThreeSymbols == {"", "_PORTFOLIO-USD", "ETH-USD"}
BuyOnly == {"buy"}
=============================================================================
