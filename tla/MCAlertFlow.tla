---------------------------- MODULE MCAlertFlow ----------------------------
(* Small instances of AlertFlow for TLC. *)
EXTENDS AlertFlow

Btc == [base |-> "BTC", quote |-> "USD"]

OneFollowed == <<Btc>>

(* A portfolio of one position, which the broker reports as cash as well.  *)
Position(s, value) == [symbol |-> s, qty |-> 1, value |-> value, cost |-> 0, pl |-> 0]
BtcOnly == [positions |-> <<Position(Btc, 40)>>, net |-> 40, cash |-> 40]
OneSnapshot == {BtcOnly}

(* A move from 10 to 11 reaches 10 % exactly, one from 11 to 10 does not. *)
TenEleven == {10, 11}

(* Rules of config/signals.yaml: concentration-25pct, with its cooldown in *)
(* units of the clock, and cash-heavy, without the agent.                  *)
Concentration == [id |-> "concentration", type |-> "concentration", operator |-> "gte",
                  threshold |-> 25, agent |-> TRUE, cooldown |-> [n |-> 2, unit |-> "h"]]
CashWatch == [id |-> "cash", type |-> "cash_pct", operator |-> "gte",
              threshold |-> 30, agent |-> FALSE, cooldown |-> [n |-> 7, unit |-> "d"]]
TwoRules == <<Concentration, CashWatch>>

TenPercent  == [threshold |-> 10, cooldown |-> 2]
NinePercent == [threshold |-> 9, cooldown |-> 1]
TwoSettings == {TenPercent, NinePercent}

AllFaults == {"read", "dedup", "write", "store", "count", "stop", "crash"}
=============================================================================
