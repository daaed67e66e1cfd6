---------------------------- MODULE SignalRules ----------------------------
(***************************************************************************)
(* The pure part of the signals service: the rule engine, the cooldown of  *)
(* a rule, the emission gate, the test of a price move and the spelling of *)
(* symbols (internal/signal, internal/broker/coinbase/symbols.go).         *)
(*                                                                         *)
(* Amounts are integers.  A percentage is kept as a fraction num / den     *)
(* with den > 0, already multiplied by 100: nothing is rounded.            *)
(***************************************************************************)
EXTENDS Integers, Sequences, SequencesExt

CONSTANT None   (* "no value" *)

(* An operator named X_Y, right before X, is a mistake somebody could make *)
(* in X: it is not part of the specification, it serves to see that some   *)
(* property would catch it.                                                *)
----------------------------------------------------------------------------
(* Symbols: base and quote currency, quote None when it is not spelled.    *)

(* The synthetic symbol of account-level rules. *)
PortfolioRuleSymbol == [base |-> "_PORTFOLIO", quote |-> None]

(* CanonicalToProviderSymbol: a symbol without a quote gets USD. *)
ProviderSymbol(s) == IF s.quote = None THEN [s EXCEPT !.quote = "USD"] ELSE s
----------------------------------------------------------------------------
(* Positions                                                               *)

NoPosition == [symbol |-> None, qty |-> 0, value |-> 0, cost |-> 0, pl |-> 0]

(* The map of positions by symbol: of several, the last one stays. *)
PositionOf(positions, s) ==
    LET own == SelectSeq(positions, LAMBDA p : p.symbol = s)
    IN  IF own = <<>> THEN NoPosition ELSE Last(own)

HasOpenPosition(p) == p.qty > 0 /\ p.value > 0

(* totalMarketValue: never 0, as it divides. *)
TotalMarketValue(positions) ==
    LET total == FoldSeq(LAMBDA p, sum : sum + p.value, 0, positions)
    IN  IF total = 0 THEN 1 ELSE total
----------------------------------------------------------------------------
(* The rule engine                                                         *)

Compare(operator, num, den, threshold) ==
    CASE operator = "lte" -> num <= threshold * den
      [] operator = "gte" -> num >= threshold * den
      [] operator = "lt"  -> num < threshold * den
      [] operator = "gt"  -> num > threshold * den
      [] OTHER -> FALSE

(* metricValue and compare.  A position without a cost has no such change. *)
PositionMatches(rule, p, total) ==
    IF rule.type = "price_change_pct"
    THEN p.cost # 0 /\ Compare(rule.operator, 100 * p.pl, p.cost, rule.threshold)
    ELSE Compare(rule.operator, 100 * p.value, total, rule.threshold)

(* EvaluateCashPct *)
CashMatches(rule, snap) ==
    snap.net > 0 /\ Compare(rule.operator, 100 * snap.cash, snap.net, rule.threshold)

Event(rule, s) == [rule |-> rule, symbol |-> s]

(* The events of one rule: at most one of the account, else one per        *)
(* position it matches, in their order.                                    *)
RuleEvents(rule, snap) ==
    IF rule.type = "cash_pct"
    THEN IF CashMatches(rule, snap) THEN <<Event(rule, PortfolioRuleSymbol)>> ELSE <<>>
    ELSE LET total == TotalMarketValue(snap.positions)
             Hit(p) == IF PositionMatches(rule, p, total) THEN <<Event(rule, p.symbol)>> ELSE <<>>
         IN  FlattenSeq([i \in DOMAIN snap.positions |-> Hit(snap.positions[i])])

(* EvaluateAll, with the test for an empty snapshot before it. *)
Events(rules, snap) ==
    IF snap.positions = <<>> /\ snap.net <= 0 THEN <<>>
    ELSE FlattenSeq([i \in DOMAIN rules |-> RuleEvents(rules[i], snap)])

(* A rule of a type the engine does not know fails all of them, once there *)
(* is a position to apply it to.                                           *)
RulesFail(rules, snap) ==
    /\ snap.positions # <<>>
    /\ \E i \in DOMAIN rules : rules[i].type \notin {"cash_pct", "price_change_pct", "concentration"}
----------------------------------------------------------------------------
(* Cooldowns are written as a number and a unit; time.ParseDuration knows  *)
(* no unit of a day.                                                       *)

RuleCooldown(rule, fallback) ==
    IF rule.cooldown # None /\ rule.cooldown.unit # "d" /\ rule.cooldown.n > 0
    THEN rule.cooldown.n
    ELSE fallback
----------------------------------------------------------------------------
(* Price moves and the gate                                                *)

AbsValue(x) == IF x < 0 THEN -x ELSE x

(* The move from one price to another reaches a threshold in percent. *)
Reaches(from, to, threshold) == 100 * AbsValue(to - from) >= AbsValue(threshold) * from

(* GateInput as runOnce fills it in: one threshold, nothing else to fail.  *)
MoveGate(from, to, threshold) ==
    [from |-> from, to |-> to, floor |-> threshold, vol |-> 0,
     spread |-> 0, spreadCap |-> 0, volume |-> 0, minVolume |-> 0,
     cooling |-> FALSE, restricted |-> FALSE, persists |-> TRUE]

Healthy(in) == /\ ~in.restricted
               /\ ~in.cooling
               /\ ~(in.spreadCap > 0 /\ in.spread > in.spreadCap)
               /\ ~(in.minVolume > 0 /\ in.volume < in.minVolume)

Significant_Strict(in) == 100 * AbsValue(in.to - in.from) > in.floor * in.from
(* The move reaches the floor and 2.5 times the volatility. *)
Significant(in) == /\ 100 * AbsValue(in.to - in.from) >= in.floor * in.from
                   /\ 200 * AbsValue(in.to - in.from) >= 5 * in.vol * in.from

(* EvaluateGate *)
Emits(in) == Healthy(in) /\ Significant(in) /\ in.persists
=============================================================================
