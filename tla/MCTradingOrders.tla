-------------------------- MODULE MCTradingOrders --------------------------
(* Small instances of TradingOrders for TLC. *)
EXTENDS TradingOrders, TLC

(* Two orders of 2 exceed the cap of 3; one of 3 exceeds the limit per     *)
(* order.                                                                  *)
BuyTwo   == [symbol |-> "BTC-USD", side |-> "buy", qty |-> 2, price |-> 0,
             cash |-> 0, held |-> 0, provider |-> "coinbase"]
BuyThree == [BuyTwo EXCEPT !.qty = 3]

(* The same order, spelled so that the cap neither stops nor counts it. *)
BuyUpper == [BuyTwo EXCEPT !.side = "BUY"]

(* A sell of a position that is held, and the same sell from a caller that *)
(* sends no position.                                                      *)
SellHeld  == [BuyTwo EXCEPT !.side = "sell", !.held = 2]
SellBlind == [BuyTwo EXCEPT !.side = "sell"]

SellBodies == {SellHeld, SellBlind}
OneBody   == {BuyTwo}
TwoBodies == {BuyTwo, BuyThree}
ThreeBodies == {BuyTwo, BuyThree, BuyUpper}

MCPolicy == [killSwitch |-> FALSE, providers |-> {"coinbase"}, denied |-> {},
             allowed |-> {"BTC-USD"}, maxNotional |-> 2, reserve |-> 0,
             cooldown |-> FALSE, globalMax |-> 3,
             minHolding |-> [s \in {"BTC-USD"} |-> 0]]

CooldownPolicy == [MCPolicy EXCEPT !.cooldown = TRUE]

AllFaults == {"lookup", "list", "insert", "save", "event", "cancel", "lost_reply",
              "refused", "poll", "setid", "status", "fill", "crash"}

(* A bound: the other spelling, which makes for many more orders, is left  *)
(* to the paper broker, as the policy is the same for every broker.        *)
UpperOnPaper == mode = "fill" \/ \A r \in Requests : call[r].body # BuyUpper

Symmetries == Permutations(Requests) \cup Permutations(Keys)
=============================================================================
