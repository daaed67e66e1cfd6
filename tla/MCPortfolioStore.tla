-------------------------- MODULE MCPortfolioStore --------------------------
(* Small instances of PortfolioStore for TLC. *)
EXTENDS PortfolioStore, TLC

TwoSymbols == {"BTC-USD", "ETH-USD"}
TwoHoldings == {<<"BTC-USD", "ETH-USD">>, <<"ETH-USD">>}

(* Of three settings one is kept rounded, one as it is; that of a cooldown *)
(* Postgres cannot read is not kept at all.                                *)
ThreeSettings == {"a", "b", "1ns"}
TwoFit == ("a" :> "a rounded") @@ ("b" :> "b")

AllRequests == {"add", "remove", "save", "revert", "pause", "resume", "reset"}

SymmetryOfCalls == Permutations(Calls)
=============================================================================
