---------------------------- MODULE OrderPolicy ----------------------------
(***************************************************************************)
(* The pre-trade checks of internal/trading/policy.go as pure operators.   *)
(*                                                                         *)
(* A policy p is a record of the Policy struct's fields; an order request  *)
(* req is a record [symbol, side, qty, price, cash, held, provider] where  *)
(* cash and held are the caller's AvailableCash and PositionQuantity.      *)
(* An open order is a record [id, symbol, side, qty, notional, recent];    *)
(* recent says that less than SymbolCooldown has passed since CreatedAt.   *)
(* Amounts are integers (the code uses float64), 0 disables a limit as in  *)
(* the code.  Symbols and providers are compared case-insensitively by the *)
(* code, so one value stands for all spellings; a side is NOT: Validate    *)
(* lower-cases it, the checks compare it as it was sent.                   *)
(***************************************************************************)
EXTENDS Integers, FiniteSetsExt

Sides == {"buy", "sell", "BUY", "SELL"}

Lower(side) == CASE side = "BUY"  -> "buy"
                 [] side = "SELL" -> "sell"
                 [] OTHER         -> side

(* Validate: what a request must satisfy before any check or write.        *)
Valid(req) == /\ req.qty > 0
              /\ Lower(req.side) \in {"buy", "sell"}

(* A request without a limit price is sized by its quantity, in USD.       *)
Notional(req) == IF req.qty * req.price = 0 THEN req.qty ELSE req.qty * req.price

(* Counted by the exact side: an order to "BUY" is none of these. *)
BuyExposure(open) ==
    MapThenSumSet(LAMBDA o : o.notional, {o \in open : o.side = "buy"})

PendingSell(open, symbol) ==
    MapThenSumSet(LAMBDA o : o.qty, {o \in open : o.symbol = symbol /\ o.side = "sell"})

ExposureAfter_OpenOnly(open, req) == BuyExposure(open)
(* The exposure the global cap is compared with: what is open plus this    *)
(* request, when this request buys.                                        *)
ExposureAfter(open, req) ==
    BuyExposure(open) + (IF req.side = "buy" THEN Notional(req) ELSE 0)

(* A sell needs held - pending >= qty; with nothing held (or no position   *)
(* sent) only a sell larger than what is already pending is refused.       *)
Shorts(open, req) ==
    LET pending == PendingSell(open, req.symbol)
    IN  /\ req.side = "sell"
        /\ \/ req.held > 0 /\ req.held - pending < req.qty
           \/ req.held = 0 /\ pending < req.qty

BelowMinHolding(p, open, req) ==
    /\ req.side = "sell"
    /\ p.minHolding[req.symbol] > 0
    /\ req.held > 0
    /\ req.held - PendingSell(open, req.symbol) - req.qty < p.minHolding[req.symbol]

(* Which rule of Policy.Evaluate a request breaks.                         *)
Breaks(p, open, req) ==
    [kill_switch          |-> p.killSwitch,
     provider_not_allowed |-> p.providers # {} /\ req.provider \notin p.providers,
     symbol_denied        |-> req.symbol \in p.denied,
     symbol_not_allowed   |-> p.allowed # {} /\ req.symbol \notin p.allowed,
     max_notional         |-> p.maxNotional > 0 /\ Notional(req) > p.maxNotional,
     reserve              |-> /\ p.reserve > 0 /\ req.cash > 0
                              /\ req.cash - Notional(req) < p.reserve,
     symbol_cooldown      |-> /\ p.cooldown
                              /\ \E o \in open : o.symbol = req.symbol /\ o.recent,
     global_max_exposure  |-> p.globalMax > 0 /\ ExposureAfter(open, req) > p.globalMax,
     no_shorting          |-> Shorts(open, req),
     min_holding          |-> BelowMinHolding(p, open, req)]

ReasonCodes(p, open, req) ==
    LET broken == Breaks(p, open, req)
    IN  {code \in DOMAIN broken : broken[code]}

Allowed(p, open, req) == ReasonCodes(p, open, req) = {}
=============================================================================
