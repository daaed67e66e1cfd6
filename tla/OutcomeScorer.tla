---------------------------- MODULE OutcomeScorer ---------------------------
(***************************************************************************)
(* The outcome scorer of portfolio-api (cmd/portfolio-api/scorer.go): once *)
(* a minute it takes decisions of the agent some horizon of which has      *)
(* passed and stores what following them would have returned, compared to  *)
(* holding BTC.  The price of a symbol comes from the exchange's candles,  *)
(* that of the whole portfolio from the snapshots ingest has posted.       *)
(*                                                                         *)
(* Several scorers may run: during a deployment the old process and the    *)
(* new one overlap.  Besides them act: the agent, which stores decisions   *)
(* (see AgentPool), ingest, and the clock, a unit of which is the shortest *)
(* time that matters here.  Prices are the moments of the trades that set  *)
(* them, net asset values the moments of their snapshots.                  *)
(***************************************************************************)
EXTENDS Candles

CONSTANTS
  Scorers,         (* processes that score                                  *)
  Trades,          (* of each product the exchange lists: when it trades    *)
  Btc,             (* the benchmark product                                 *)
  Portfolio,       (* "_portfolio", which the scorer, too, takes for daily  *)
  Symbols,         (* symbols of decisions, "" that of a daily one          *)
  Actions,         (* their actions                                         *)
  Duration,        (* of each horizon                                       *)
  NavHorizons,     (* 7d and 14d                                            *)
  LongHorizon,     (* 14d                                                   *)
  Minute,          (* to which the time of a snapshot is cut off            *)
  Lookback,        (* a scorer looks for the first snapshot this far back   *)
  Page,            (* and among so many: 10                                 *)
  Limit,           (* pairs per batch: 50                                   *)
  None,
  MaxDecisions, MaxNow, MaxFaults    (* bounds of the model                 *)

Horizons == DOMAIN Duration
Times    == 0..MaxNow

ASSUME ScorerAssumption ==
    /\ Btc \in DOMAIN Trades
    /\ \A p \in DOMAIN Trades : Trades[p] \subseteq Nat
    /\ Duration \in [Horizons -> Nat \ {0}] /\ IsFiniteSet(Horizons)
    /\ LongHorizon \in NavHorizons /\ NavHorizons \subseteq Horizons
    /\ {Lookback, MaxDecisions, MaxNow, MaxFaults} \subseteq Nat
    /\ {Page, Limit} \subseteq Nat \ {0}
    /\ None \notin Nat
ASSUME DailyAssumption == {"", Portfolio} \cap DOMAIN Trades = {}
ASSUME MinuteAssumption ==
    Minute \in Nat \ {0} /\ \A h \in Horizons : Minute <= Duration[h]

VARIABLES
  now,
  decisions,   (* table agent_decisions, oldest first; the index is the id  *)
  snapshots,   (* table snapshots, as the times they were taken at          *)
  outcomes,    (* table agent_decision_outcomes: a set of records           *)
  scorer,      (* what each scorer is doing                                 *)
  faults
vars == <<now, decisions, snapshots, outcomes, scorer, faults>>

Fault   == faults < MaxFaults /\ faults' = faults + 1
NoFault == UNCHANGED faults

(* A (decision, horizon) pair. *)
At(p)       == decisions[p.id].at
Deadline(p) == At(p) + Duration[p.horizon]
IsDaily(p)  == decisions[p.id].symbol \in {"", Portfolio}
Scored(p)   == \E o \in outcomes : o.pair = p

Pairs == [id : DOMAIN decisions, horizon : Horizons]

Unscored_Rescans(at) == {p \in Pairs : at >= Deadline(p)}
Unscored(at) == {p \in Pairs : at >= Deadline(p) /\ ~Scored(p)}

IsBatch_AnySize(batch, pending) == batch = pending
(* ListUnscoredDecisionHorizons: the oldest ones; the horizons of one      *)
(* decision in any order.                                                  *)
IsBatch(batch, pending) ==
    /\ Cardinality(batch) = Min({Limit, Cardinality(pending)})
    /\ \A p \in batch, q \in pending \ batch : p.id <= q.id
----------------------------------------------------------------------------
Idle == [batch |-> {}, step |-> "idle", pair |-> None, from |-> None, to |-> None]

TablesUnchanged == UNCHANGED <<now, decisions, snapshots, outcomes>>

StartTick(s) ==
    /\ scorer[s] = Idle
    /\ \E batch \in SUBSET Unscored(now) :
          /\ batch # {} /\ IsBatch(batch, Unscored(now))
          /\ scorer' = [scorer EXCEPT ![s].batch = batch]
    /\ TablesUnchanged /\ NoFault

(* The pair is put aside until a later tick, whatever the reason. *)
SkipPair(s, p) == scorer' = [scorer EXCEPT ![s] = [Idle EXCEPT !.batch = scorer[s].batch \ {p}]]

Priced(s, p, from, to) ==
    scorer' = [scorer EXCEPT ![s].pair = p, ![s].from = from, ![s].to = to,
                             ![s].step = "insert"]

(* The next pair of the batch. *)
IsNext(p, s) == /\ scorer[s].step = "idle"
                /\ p \in scorer[s].batch /\ \A q \in scorer[s].batch : p.id <= q.id

CandlesFor_Aligned(product, p) ==
    IF product \notin DOMAIN Trades THEN {}
    ELSE FetchProductCandles(Trades[product] \cap 0..now,
             At(p) - (At(p) % Width(Duration[p.horizon])), Deadline(p))
(* The candles between the decision and the deadline, of which the last    *)
(* may still be open; none, ever, if the exchange does not list the        *)
(* product.                                                                *)
CandlesFor(product, p) ==
    IF product \notin DOMAIN Trades THEN {}
    ELSE FetchProductCandles(Trades[product] \cap 0..now, At(p), Deadline(p))
First(candles) == (CHOOSE c \in candles : \A d \in candles : c.start <= d.start).close
Last(candles)  == (CHOOSE c \in candles : \A d \in candles : c.start >= d.start).close

(* computeOutcome of a symbol: the candles of BTC, then those of the       *)
(* symbol.                                                                 *)
FetchPrices(s, p) ==
    /\ IsNext(p, s) /\ ~IsDaily(p)
    /\ TablesUnchanged
    /\ \E candles \in {CandlesFor(decisions[p.id].symbol, p)}, btc \in {CandlesFor(Btc, p)} :
          \/ /\ candles # {} /\ btc # {} /\ NoFault
             /\ Priced(s, p, First(candles), Last(candles))
          \/ /\ candles = {} \/ btc = {}
             /\ SkipPair(s, p) /\ NoFault
          \/ SkipPair(s, p) /\ Fault

(* ListSnapshotsSince: the oldest ones. *)
OldestSince(since, limit) ==
    LET after == {t \in snapshots : t >= since}
    IN  {t \in after : Cardinality({u \in after : u < t}) < limit}

StartSnapshots_First(p) == {t \in OldestSince(At(p) - Lookback, 1) : t <= At(p)}
(* computeNAV: snapshots at or before the decision, of the page it reads. *)
StartSnapshots(p) == {t \in OldestSince(At(p) - Lookback, Page) : t <= At(p)}

(* computeOutcome of a daily decision: the candles of BTC, then computeNAV. *)
ReadStart(s, p) ==
    /\ IsNext(p, s) /\ IsDaily(p)
    /\ TablesUnchanged
    /\ \E found \in {StartSnapshots(p)}, btc \in {CandlesFor(Btc, p)} :
          \/ /\ found # {} /\ btc # {} /\ NoFault
             /\ scorer' = [scorer EXCEPT ![s].pair = p, ![s].from = Max(found),
                                         ![s].step = "end"]
          \/ /\ found = {} \/ btc = {}
             /\ SkipPair(s, p) /\ NoFault
          \/ SkipPair(s, p) /\ Fault

ReadEnd(s) ==
    /\ scorer[s].step = "end"
    /\ LET p     == scorer[s].pair
           found == OldestSince(Deadline(p), 1)
       IN  \/ found # {} /\ Priced(s, p, scorer[s].from, Max(found)) /\ NoFault
           \/ found = {} /\ SkipPair(s, p) /\ NoFault
           \/ SkipPair(s, p) /\ Fault
    /\ TablesUnchanged

(* The returns, as the sign the symbol's return has in them. *)
Realized(p) == CASE IsDaily(p) -> None
                 [] decisions[p.id].action = "buy" -> 1
                 [] decisions[p.id].action = "sell" -> -1
                 [] OTHER -> None
Excess(p) == CASE IsDaily(p) /\ p.horizon \in NavHorizons -> 1
               [] OTHER -> Realized(p)

(* The fee is taken off BTC's return over the long horizon. *)
Outcome(s) == LET p == scorer[s].pair
              IN  [pair |-> p, from |-> scorer[s].from, to |-> scorer[s].to,
                   realized |-> Realized(p), excess |-> Excess(p),
                   fee |-> p.horizon = LongHorizon]

InsertOutcome_Upsert(o) == outcomes' = {x \in outcomes : x.pair # o.pair} \cup {o}
(* InsertAgentDecisionOutcome: ON CONFLICT DO NOTHING. *)
InsertOutcome(o) == outcomes' = IF Scored(o.pair) THEN outcomes ELSE outcomes \cup {o}

Insert(s) ==
    /\ scorer[s].step = "insert"
    /\ \/ InsertOutcome(Outcome(s)) /\ NoFault
       \/ UNCHANGED outcomes /\ Fault
    /\ SkipPair(s, scorer[s].pair)
    /\ UNCHANGED <<now, decisions, snapshots>>

(* The process ends, or the list of pairs could not be read. *)
Crash(s) ==
    /\ scorer[s] # Idle /\ Fault
    /\ scorer' = [scorer EXCEPT ![s] = Idle]
    /\ TablesUnchanged
----------------------------------------------------------------------------
(* The others. *)

(* A decision that would not fall due before the clock stops is left out.  *)
StoreDecision(symbol, action) ==
    /\ Len(decisions) < MaxDecisions
    /\ \E h \in Horizons : now + Duration[h] <= MaxNow
    /\ decisions' = Append(decisions, [symbol |-> symbol, at |-> now, action |-> action])
    /\ UNCHANGED <<now, snapshots, outcomes, scorer, faults>>

(* Truncate(time.Minute) *)
TakenAt(t) == t - (t % Minute)

(* Ingest posts a snapshot; one posted later for the same minute replaces  *)
(* the first.                                                              *)
PostSnapshot ==
    /\ TakenAt(now) \notin snapshots
    /\ snapshots' = snapshots \cup {TakenAt(now)}
    /\ UNCHANGED <<now, decisions, outcomes, scorer, faults>>

Advance ==
    /\ now < MaxNow
    /\ now' = now + 1
    /\ UNCHANGED <<decisions, snapshots, outcomes, scorer, faults>>
----------------------------------------------------------------------------
Init ==
    /\ now = 0 /\ decisions = <<>> /\ snapshots = {} /\ outcomes = {}
    /\ scorer = [s \in Scorers |-> Idle]
    /\ faults = 0

Work(s) == \/ StartTick(s)
           \/ \E p \in scorer[s].batch : FetchPrices(s, p) \/ ReadStart(s, p)
           \/ ReadEnd(s) \/ Insert(s)

Next == \/ \E s \in Scorers : Work(s) \/ Crash(s)
        \/ \E x \in Symbols, a \in Actions : StoreDecision(x, a)
        \/ PostSnapshot
        \/ Advance

Spec == Init /\ [][Next]_vars

(* The ticker of some scorer never stops. *)
FairSpec == Spec /\ WF_vars(\E s \in Scorers : Work(s))
----------------------------------------------------------------------------
(* What is read from the tables. *)

Outcomes(p) == {o \in outcomes : o.pair = p}

(* ListBenchmarkDaily: the scored decisions the benchmark is drawn of. *)
BenchmarkDaily(days) ==
    {id \in DOMAIN decisions :
        /\ decisions[id].at >= now - days
        /\ decisions[id].action \in {"buy", "sell"}
        /\ Outcomes([id |-> id, horizon |-> LongHorizon]) # {}}

(* handleAgentBenchmark: those of them the headline is an average over. *)
Headline(days) ==
    {id \in BenchmarkDaily(days) :
        \E o \in Outcomes([id |-> id, horizon |-> LongHorizon]) : o.excess # None}

(* The latest decisions of a symbol: ListAgentDecisions. *)
Latest(symbol, limit) ==
    LET of == {id \in DOMAIN decisions : decisions[id].symbol = symbol}
    IN  {id \in of : Cardinality({i \in of : i > id}) < limit}

(* The decisions handleInternalAgentDecisionOutcomes takes a symbol's      *)
(* outcomes of; no symbol, and likewise a symbol without any, is no filter.*)
FilteredBy(symbol, limit) ==
    LET ids == IF symbol = "" THEN {} ELSE Latest(symbol, 5 * limit)
    IN  IF ids = {} THEN DOMAIN decisions ELSE ids

(* What it may answer: of their outcomes those scored last, up to limit.   *)
(* When a row was scored is not in the model: any may be the last ones.    *)
DecisionOutcomes(symbol, limit) ==
    LET rows == {o \in outcomes : /\ o.pair.horizon = LongHorizon
                                  /\ o.pair.id \in FilteredBy(symbol, limit)}
    IN  {answer \in SUBSET rows : Cardinality(answer) = Min({limit, Cardinality(rows)})}
----------------------------------------------------------------------------
TypeOK ==
    /\ now \in Times /\ faults \in 0..MaxFaults
    /\ decisions \in Seq([symbol : Symbols, at : Times, action : Actions])
    /\ snapshots \subseteq Times
    /\ \A o \in outcomes : /\ o.pair \in Pairs /\ o.from \in Times /\ o.to \in Times
                           /\ {o.realized, o.excess} \subseteq {None, 1, -1}
    /\ \A s \in Scorers :
          /\ scorer[s].batch \subseteq Pairs /\ Cardinality(scorer[s].batch) <= Limit
          /\ scorer[s].step \in {"idle", "end", "insert"}
          /\ scorer[s].pair \in IF scorer[s].step = "idle" THEN {None} ELSE Pairs

(* What has been scored stays as it is, whichever of two scorers with      *)
(* other prices comes second (InsertAgentDecisionOutcome), and no pair has *)
(* two outcomes.                                                           *)
OutcomesAreFinal ==
    [][ /\ outcomes \subseteq outcomes'
        /\ \A p \in Pairs' : Cardinality({o \in outcomes' : o.pair = p}) <= 1 ]_vars

(* A daily decision is compared by snapshots on both sides of its horizon, *)
(* and the first one is the nearest there was unless more than a page of   *)
(* them had been taken in the lookback, of which computeNAV reads the      *)
(* oldest; no snapshot posted late, with its minute cut off, comes between.*)
NavBrackets ==
    \A o \in outcomes : IsDaily(o.pair) =>
        /\ o.from <= At(o.pair) /\ o.to >= Deadline(o.pair)
        /\ LET near == {t \in snapshots : t <= At(o.pair) /\ t >= At(o.pair) - Lookback}
           IN  o.from = Max(near) \/ Cardinality(near) > Page

(* A symbol's return runs from a price of its first candle after the       *)
(* decision to one not later than a candle's width after the deadline,     *)
(* however often the pair was put aside (computeOutcome).                  *)
CandlesBracket ==
    \A o \in outcomes : ~IsDaily(o.pair) =>
        /\ At(o.pair) <= o.from /\ o.from <= o.to
        /\ o.to < Deadline(o.pair) + Width(Duration[o.pair.horizon])

(* Candles put together from several requests: FetchIsComplete, whatever   *)
(* has been traded by now.                                                 *)
CandlesComplete ==
    \A p \in DOMAIN Trades : FetchIsComplete(Trades[p] \cap 0..now, 0..now)

AllPairs == [id : 1..MaxDecisions, horizon : Horizons]
Due(p)   == p.id \in DOMAIN decisions /\ now >= Deadline(p)

(* The product has a price for p: a trade in a candle that starts between  *)
(* the decision and the deadline.                                          *)
Traded(product, p) ==
    /\ product \in DOMAIN Trades
    /\ \E t \in Trades[product] :
          LET start == t - (t % Width(Duration[p.horizon]))
          IN  t <= now /\ At(p) <= start /\ start <= Deadline(p)

(* What computeOutcome needs is there, and will be from now on: prices of  *)
(* both products, or snapshots on both sides.                              *)
Scorable(p) ==
    /\ Traded(Btc, p)
    /\ IF IsDaily(p)
       THEN /\ \E t \in snapshots : At(p) - Lookback <= t /\ t <= At(p)
            /\ \E t \in snapshots : Deadline(p) <= t
       ELSE Traded(decisions[p.id].symbol, p)

(* Pairs that a batch takes before p, or may take before it, and puts      *)
(* aside: of a product the exchange does not list, or that was not traded  *)
(* in the span, or of the portfolio when ingest was down.                  *)
Stuck(p) == {q \in Unscored(now) \ {p} : q.id <= p.id /\ ~Scorable(q)}

(* It is due, its prices are there, and no batch of pairs that cannot be   *)
(* scored keeps it from its turn.                                          *)
Neglected(p) == /\ Due(p) /\ Scorable(p) /\ ~Scored(p)
                /\ Cardinality(Stuck(p)) < Limit

(* No pair is neglected for ever: what is due and has its prices gets      *)
(* scored, unless a batch of pairs as old that cannot be stays before it   *)
(* (those put aside are not remembered, and ListUnscoredDecisionHorizons   *)
(* takes the oldest first).                                                *)
ScorableIsScored == \A p \in AllPairs : []<>(~Neglected(p))
----------------------------------------------------------------------------
(* What the documents say and the code does not. *)

(* Daily decisions are excluded from the headline (scorer.go:110). *)
HeadlineExcludesDaily ==
    \A id \in Headline(MaxNow) : decisions[id].symbol \notin {"", Portfolio}

(* The snapshots of a daily decision are the nearest ones bracketing its   *)
(* horizon (.agent/epics/phase_2/agent-shadow-decisions.md:196).           *)
NearestSnapshots ==
    \A o \in outcomes : IsDaily(o.pair) =>
        o.from = Max({t \in snapshots : t <= At(o.pair)})

(* Every horizon whose deadline has passed is scored (agent-shadow-        *)
(* decisions.md:263), at least if its prices are there.                    *)
EveryScorableIsScored == \A p \in AllPairs : Due(p) /\ Scorable(p) ~> Scored(p)

(* The agent reviews its own track record on a symbol with the outcomes of *)
(* that symbol (config/agent-prompt.md:22).                                *)
OutcomesAreOfSymbol ==
    \A x \in Symbols \ {""} : \A answer \in DecisionOutcomes(x, 1) :
        \A o \in answer : decisions[o.pair.id].symbol = x
=============================================================================
