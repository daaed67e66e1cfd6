----------------------------- MODULE AlertFlow -----------------------------
(***************************************************************************)
(* The main loop of the signals service (cmd/signals, internal/signal):    *)
(* every tick it applies the portfolio rules to the latest snapshot, tests *)
(* the price of each followed symbol, raises alerts, has portfolio-api     *)
(* store them and hands those the agent shall review to its worker pool.   *)
(*                                                                         *)
(* What has fired is remembered in memory and in two files, so that a      *)
(* restart does not fire it again.  Besides the loop there act: the worker *)
(* pool, here only what it leaves behind, a decision stored for a trigger  *)
(* or none (AgentPool says how); the clock; crashes and SIGTERM.           *)
(***************************************************************************)
EXTENDS SignalRules, FiniteSets

CONSTANTS
  Followed,         (* the watchlist: a sequence of symbols                 *)
  Snapshots,        (* snapshots a tick may find                            *)
  Prices,           (* quotes a tick may find                               *)
  Rules,            (* the rule file: a sequence of rules                   *)
  Settings,         (* alert settings a tick may find stored                *)
  DefaultSettings,  (* SIGNAL_MOVE_THRESHOLD_PCT and SIGNAL_COOLDOWN        *)
  DefaultCooldown,  (* SIGNAL_RULE_COOLDOWN, as the clock counts            *)
  UnitsPerDay,      (* of the clock                                         *)
  MaxPerDay,        (* SIGNAL_AGENT_MAX_PER_SYMBOL_24H, 0 for no limit      *)
  MaxNow,           (* the last moment of the clock: bounds the model       *)
  FaultKinds,       (* the disturbances that may happen, each at most once  *)
  MaxFaults         (* how many of them, at most: bounds the model          *)

Symbols == {ProviderSymbol(Followed[i]) : i \in DOMAIN Followed}
Held    == UNION {{s.positions[i].symbol : i \in DOMAIN s.positions} : s \in Snapshots}
RuleIds == {Rules[i].id : i \in DOMAIN Rules}
DedupKeys == RuleIds \X (Held \cup {PortfolioRuleSymbol})
Times   == 0..MaxNow

ASSUME NumbersAssumption == /\ MaxNow \in Nat \ {0} /\ MaxFaults \in Nat /\ MaxPerDay \in Nat
                            /\ UnitsPerDay \in Nat \ {0} /\ DefaultCooldown \in Nat
                            /\ Prices \subseteq Nat \ {0}
ASSUME SettingsAssumption == Settings \cup {DefaultSettings} \subseteq
                                 [threshold : Nat \ {0}, cooldown : Nat]
ASSUME NoneAssumption == None \notin Nat
ASSUME SequencesAssumption == /\ Followed \in Seq(Range(Followed)) /\ Rules \in Seq(Range(Rules))
                              /\ \A s \in Snapshots : s.positions \in Seq(Range(s.positions))
ASSUME RulesAssumption == \A i \in DOMAIN Rules : Rules[i].cooldown = None \/ Rules[i].cooldown.n \in Int
(* Ingest spells each position as a product in USD (Positions of the       *)
(* broker); no product is spelled without a quote, no currency _PORTFOLIO. *)
ASSUME SpellingAssumption ==
    /\ PortfolioRuleSymbol \notin Symbols
    /\ \A s, t \in Held \cup {PortfolioRuleSymbol} : ProviderSymbol(s) = ProviderSymbol(t) => s = t

VARIABLES
  now,          (* the clock; a tick takes place at most once per unit      *)
  phase,        (* of the service: running, or canceled by SIGTERM          *)
  tick,         (* the tick in progress, or the last one                    *)
  state, stateFile,   (* AlertState and its file: per symbol                *)
  dedup, dedupFile,   (* Dedup and its file: per rule and symbol            *)
  raised,       (* every alert that came out of the tests                   *)
  stored, labs, (* tables recent_alerts and lab_signal_events               *)
  pending,      (* triggers the worker pool has not dealt with              *)
  decisions,    (* table agent_decisions, as the triggers they are for      *)
  faults        (* disturbances so far                                      *)

memory   == <<state, stateFile, dedup, dedupFile>>
tables   == <<stored, labs>>
poolVars == <<pending, decisions>>
vars == <<now, phase, tick, memory, raised, tables, poolVars, faults>>

Fault(kind) == /\ kind \in FaultKinds \ faults
               /\ Cardinality(faults) < MaxFaults
               /\ faults' = faults \cup {kind}
NoFault == UNCHANGED faults

(* Once the context has ended every call fails. *)
CallSucceeds   == phase = "running" /\ NoFault
CallFails(kind) == IF phase = "running" THEN Fault(kind) ELSE NoFault
----------------------------------------------------------------------------
(* A tick works through the events of the rules (todo), the alerts of      *)
(* those that fired, one per symbol, and the followed symbols (moves).     *)
(* Each alert is carried through its steps before the next one.            *)

NoAlert == [kind |-> None, symbol |-> None, at |-> 0, cooldown |-> 0, rules |-> {},
            agent |-> FALSE, step |-> "done"]

Rest(at) == [running |-> FALSE, at |-> at, settings |-> DefaultSettings,
             positions |-> <<>>, todo |-> <<>>, fired |-> {}, moves |-> <<>>, alert |-> NoAlert]

Between == tick.running /\ tick.alert = NoAlert
FilteringEvents == Between /\ tick.todo # <<>>
RaisingRules    == Between /\ tick.todo = <<>> /\ tick.fired # {}
TestingMoves    == Between /\ tick.todo = <<>> /\ tick.fired = {} /\ tick.moves # <<>>

(* An alert as it is stored. *)
Payload(a) == [kind |-> a.kind, symbol |-> a.symbol, at |-> a.at,
               cooldown |-> a.cooldown, rules |-> a.rules]

Raise(t, a) == /\ tick' = [t EXCEPT !.alert = [a EXCEPT !.step = "store"]]
               /\ raised' = raised \cup {Payload(a)}

(* Without the stored settings the configured ones apply. *)
SettingsRead(s) == \/ s \in Settings /\ NoFault
                   \/ s = DefaultSettings /\ Fault("read")

(* runOnce up to the first event: it reads the settings, the watchlist and *)
(* the snapshot.  Without one of the latter two there is no tick.          *)
BeginTick ==
    /\ phase = "running"
    /\ ~tick.running
    /\ now > tick.at
    /\ \/ \E snap \in Snapshots, s \in Settings \cup {DefaultSettings} :
             /\ SettingsRead(s)
             /\ tick' = IF RulesFail(Rules, snap) THEN Rest(now)
                        ELSE [Rest(now) EXCEPT !.running = TRUE, !.settings = s,
                                 !.positions = snap.positions,
                                 !.todo = Events(Rules, snap), !.moves = Followed]
       \/ tick' = Rest(now) /\ Fault("read")
    /\ UNCHANGED <<now, phase, memory, raised, tables, poolVars>>

EndTick ==
    /\ Between /\ tick.todo = <<>> /\ tick.fired = {} /\ tick.moves = <<>>
    /\ tick' = Rest(tick.at)
    /\ UNCHANGED <<now, phase, memory, raised, tables, poolVars, faults>>
----------------------------------------------------------------------------
(* Dedup.ShouldFire and processPortfolioRules                              *)

Cools(key, cooldown) == dedup[key] # None /\ tick.at - dedup[key] < cooldown

(* ShouldFire: a key that fires is remembered even if the file cannot be   *)
(* written.                                                                *)
Remember(key) ==
    /\ dedup' = [dedup EXCEPT ![key] = tick.at]
    /\ \/ dedupFile' = dedup' /\ NoFault
       \/ UNCHANGED dedupFile /\ Fault("dedup")

FilterEvent ==
    /\ FilteringEvents
    /\ LET e    == Head(tick.todo)
           key  == <<e.rule.id, e.symbol>>
           rest == [tick EXCEPT !.todo = Tail(@)]
       IN  IF Cools(key, RuleCooldown(e.rule, DefaultCooldown))
           THEN /\ tick' = rest
                /\ UNCHANGED <<dedup, dedupFile>> /\ NoFault
           ELSE /\ tick' = [rest EXCEPT !.fired = @ \cup {e}]
                /\ Remember(key)
    /\ UNCHANGED <<now, phase, state, stateFile, raised, tables, poolVars>>

(* buildCoalescedPortfolioRuleAlert *)
RuleAlert(s, batch) ==
    [NoAlert EXCEPT !.kind = "rule", !.symbol = ProviderSymbol(s), !.at = tick.at,
                    !.rules = {e.rule.id : e \in batch},
                    !.agent = \E e \in batch : e.rule.agent]

(* The events of one symbol become one alert; the symbols come in any order. *)
RaiseRuleAlert(s) ==
    /\ RaisingRules
    /\ LET batch == {e \in tick.fired : e.symbol = s}
       IN  /\ batch # {}
           /\ Raise([tick EXCEPT !.fired = @ \ batch], RuleAlert(s, batch))
    /\ UNCHANGED <<now, phase, memory, tables, poolVars, faults>>
----------------------------------------------------------------------------
(* AlertState.Evaluate and the price moves                                 *)

Unseen == [price |-> 0, alertAt |-> None]

Cooled_AnyAge(s) == TRUE
(* Time enough has passed since the symbol's last alert. *)
Cooled(s) == \/ state[s].alertAt = None
             \/ tick.at - state[s].alertAt >= tick.settings.cooldown

Alerts(s, price) == /\ state[s].price # 0
                    /\ Reaches(state[s].price, price, tick.settings.threshold)
                    /\ Cooled(s)

(* Every new price becomes the base of the next test, alert or not. *)
Entry(s, price) == [price |-> price,
                    alertAt |-> IF Alerts(s, price) THEN tick.at ELSE state[s].alertAt]

MoveAlert(s) ==
    [NoAlert EXCEPT !.kind = "move", !.symbol = s, !.at = tick.at,
                    !.cooldown = tick.settings.cooldown,
                    !.agent = HasOpenPosition(PositionOf(tick.positions, s))]

(* No quote, or none above 0: the symbol is left out of this tick. *)
SkipMove ==
    /\ TestingMoves
    /\ tick' = [tick EXCEPT !.moves = Tail(@)]
    /\ UNCHANGED <<now, phase, memory, raised, tables, poolVars, faults>>

(* What Evaluate has remembered stays even if it cannot be written; then   *)
(* the tick ends.                                                          *)
EvaluateMove(price) ==
    LET s     == ProviderSymbol(Head(tick.moves))
        rest  == [tick EXCEPT !.moves = Tail(@)]
        emits == /\ Alerts(s, price)
                 /\ Emits(MoveGate(state[s].price, price, tick.settings.threshold))
    IN  /\ TestingMoves /\ phase = "running"
        /\ state' = [state EXCEPT ![s] = Entry(s, price)]
        /\ \/ /\ stateFile' = state' /\ NoFault
              /\ IF emits THEN Raise(rest, MoveAlert(s))
                          ELSE tick' = rest /\ UNCHANGED raised
           \/ /\ UNCHANGED <<stateFile, raised>> /\ Fault("write")
              /\ tick' = Rest(tick.at)
        /\ UNCHANGED <<now, phase, dedup, dedupFile, tables, poolVars>>
----------------------------------------------------------------------------
(* persistRecentAlert, its handler, and tryEnqueueAgent                    *)

Proceed(step) == tick' = [tick EXCEPT !.alert = IF step = "done" THEN NoAlert
                                                ELSE [@ EXCEPT !.step = step]]

InsertRecentAlert == stored' = stored \cup {Payload(tick.alert)}
RecordLabSignal   == labs' = labs \cup {Payload(tick.alert)}

HandlerFails_LabFirst == RecordLabSignal /\ UNCHANGED stored
(* The handler fails half-way. *)
HandlerFails == InsertRecentAlert /\ UNCHANGED labs

(* The handler stores the alert, then its copy for the Lab, whose failure  *)
(* it ignores as the loop ignores its own.                                 *)
StoreAlert ==
    /\ tick.alert.step = "store"
    /\ \/ CallSucceeds /\ InsertRecentAlert /\ RecordLabSignal
       \/ HandlerFails /\ CallFails("store")
       \/ CallFails("store") /\ UNCHANGED tables
    /\ Proceed(IF tick.alert.agent THEN "agent" ELSE "done")
    /\ UNCHANGED <<now, phase, memory, raised, poolVars>>

AgentCapApplies(s) == s # PortfolioRuleSymbol

InLastDay(d) == d.at >= now - UnitsPerDay
(* fetchDecisionsCount: what is stored for the symbol, by the time of its  *)
(* trigger, in the 24 h before the question.                               *)
DecisionsCount(s) == Cardinality({d \in decisions : d.symbol = s /\ InLastDay(d)})

AtCap_OffByOne(s, count) == /\ AgentCapApplies(s)
                            /\ MaxPerDay > 0 /\ count > MaxPerDay
AtCap(s, count) == /\ AgentCapApplies(s)
                   /\ MaxPerDay > 0 /\ count >= MaxPerDay

(* What Enqueue is given.  counted and queued are kept for the properties: *)
(* when the decisions were counted, None if that failed, and whether the   *)
(* pool still had a trigger of the symbol.                                 *)
Trigger(a, counted) ==
    [kind |-> a.kind, symbol |-> a.symbol, at |-> a.at, counted |-> counted,
     queued |-> \E t \in pending : t.symbol = a.symbol]

(* A count that fails counts as 0. *)
TryEnqueueAgent ==
    /\ tick.alert.step = "agent"
    /\ LET a == tick.alert
       IN  \/ /\ CallSucceeds
              /\ pending' = IF AtCap(a.symbol, DecisionsCount(a.symbol)) THEN pending
                            ELSE pending \cup {Trigger(a, now)}
           \/ /\ CallFails("count")
              /\ pending' = pending \cup {Trigger(a, None)}
    /\ Proceed("done")
    /\ UNCHANGED <<now, phase, memory, raised, tables, decisions>>
----------------------------------------------------------------------------
(* The pool: a decision is stored for a trigger, or there will be none.    *)
(* A handler of portfolio-api may store one after the service has ended.   *)

StoreDecision(t) ==
    /\ t \in pending
    /\ pending' = pending \ {t}
    /\ decisions' = decisions \cup {t}
    /\ UNCHANGED <<now, phase, tick, memory, raised, tables, faults>>

DropTrigger(t) ==
    /\ t \in pending
    /\ pending' = pending \ {t}
    /\ UNCHANGED <<now, phase, tick, memory, raised, tables, decisions, faults>>

Advance ==
    /\ now < MaxNow
    /\ now' = now + 1
    /\ UNCHANGED <<phase, tick, memory, raised, tables, poolVars, faults>>
----------------------------------------------------------------------------
(* SIGTERM; the tick in progress goes on, without an answer to any call. *)
CancelContext ==
    /\ phase = "running" /\ Fault("stop")
    /\ phase' = "canceled"
    /\ UNCHANGED <<now, tick, memory, raised, tables, poolVars>>

Reload_Fresh == /\ state' = [s \in Symbols |-> Unseen]
                /\ dedup' = [k \in DedupKeys |-> None]
(* NewAlertState and NewDedup read the files. *)
Reload == state' = stateFile /\ dedup' = dedupFile

(* The service starts again, after it has ended or crashed. *)
Restart ==
    /\ \/ phase = "canceled" /\ ~tick.running /\ NoFault
       \/ Fault("crash")
    /\ phase' = "running"
    /\ tick' = Rest(tick.at)
    /\ Reload
    /\ UNCHANGED <<now, stateFile, dedupFile, raised, tables, poolVars>>
----------------------------------------------------------------------------
Init ==
    /\ now = 1
    /\ phase = "running"
    /\ tick = Rest(0)
    /\ state = [s \in Symbols |-> Unseen] /\ stateFile = state
    /\ dedup = [k \in DedupKeys |-> None] /\ dedupFile = dedup
    /\ raised = {} /\ stored = {} /\ labs = {}
    /\ pending = {} /\ decisions = {}
    /\ faults = {}

Tick == \/ BeginTick \/ EndTick
        \/ FilterEvent
        \/ \E s \in Held \cup {PortfolioRuleSymbol} : RaiseRuleAlert(s)
        \/ SkipMove
        \/ \E p \in Prices : EvaluateMove(p)
        \/ StoreAlert \/ TryEnqueueAgent

Next == \/ Tick
        \/ \E t \in pending : StoreDecision(t) \/ DropTrigger(t)
        \/ Advance
        \/ CancelContext \/ Restart

Spec == Init /\ [][Next]_vars
----------------------------------------------------------------------------
(* The values the variables take. *)
AlertPayload == [kind : {"move", "rule"}, symbol : Symbols \cup {ProviderSymbol(s) : s \in Held \cup {PortfolioRuleSymbol}},
                 at : Times, cooldown : Nat, rules : SUBSET RuleIds]
TypeOK ==
    /\ now \in Times /\ phase \in {"running", "canceled"}
    /\ tick.at \in Times /\ tick.running \in BOOLEAN
    /\ tick.alert.step \in {"store", "agent", "done"}
    /\ state \in [Symbols -> [price : Nat, alertAt : Times \cup {None}]]
    /\ stateFile \in [Symbols -> [price : Nat, alertAt : Times \cup {None}]]
    /\ dedup \in [DedupKeys -> Times \cup {None}]
    /\ dedupFile \in [DedupKeys -> Times \cup {None}]
    /\ raised \subseteq AlertPayload /\ stored \subseteq raised /\ labs \subseteq stored
    /\ faults \subseteq FaultKinds

Moves(s) == {a \in raised : a.kind = "move" /\ a.symbol = s}

(* Two alerts about moves of the same symbol keep the cooldown that was    *)
(* set when the later one was raised, whatever crashed or failed between   *)
(* them: Evaluate raises nothing it has not written.                       *)
MovesCoolDown ==
    \A s \in Symbols : \A a, b \in Moves(s) :
        a.at < b.at => b.at - a.at >= b.cooldown

(* Of rules with the same id, which the loader does not refuse, the least. *)
Cooldown(id) == Min({RuleCooldown(Rules[i], DefaultCooldown) :
                        i \in {i \in DOMAIN Rules : Rules[i].id = id}})

(* A rule fires again for a symbol only after its cooldown: across         *)
(* restarts too, unless a write of the file has failed (ShouldFire).       *)
RulesCoolDown ==
    faults \cap {"stop", "crash"} = {} \/ "dedup" \notin faults =>
        \A a, b \in raised : \A id \in a.rules \cap b.rules :
            a.symbol = b.symbol /\ a.at < b.at => b.at - a.at >= Cooldown(id)

(* A cooldown runs only because of an alert that was stored: between       *)
(* ticks, and as long as nothing has failed, everything remembered as      *)
(* fired can be found in recent_alerts, with its copy for the Lab.  The    *)
(* gate after Evaluate and the grouping after ShouldFire lose nothing.     *)
NothingSwallowed ==
    ~tick.running /\ faults = {} =>
        /\ labs = stored
        /\ \A s \in Symbols : state[s].alertAt # None =>
              \E a \in stored : a.kind = "move" /\ a.symbol = s /\ a.at = state[s].alertAt
        /\ \A k \in DedupKeys : dedup[k] # None =>
              \E a \in stored : /\ a.symbol = ProviderSymbol(k[2])
                                /\ k[1] \in a.rules /\ a.at = dedup[k]

(* Decisions of a symbol whose trigger was counted with no other one of    *)
(* the symbol in the pool, in the day that starts at time x.               *)
Orderly(s, x) == {d \in decisions : /\ d.symbol = s /\ ~d.queued /\ d.counted # None
                                    /\ d.at >= x /\ d.counted <= x + UnitsPerDay}

(* The daily limit of a symbol is exceeded only by triggers that were      *)
(* enqueued behind another one of the symbol, or whose count failed        *)
(* (tryEnqueueAgent counts what is stored, not what is under way).         *)
CapNeedsBacklog ==
    MaxPerDay > 0 =>
        \A s \in Symbols, x \in Times : Cardinality(Orderly(s, x)) <= MaxPerDay

(* A symbol has no more decisions in a day than SIGNAL_AGENT_MAX_PER_      *)
(* SYMBOL_24H, as .env.example:76 has it.                                  *)
MaxDecisionsPerDay ==
    MaxPerDay > 0 =>
        \A s \in Symbols, x \in Times :
            Cardinality({d \in decisions : d.symbol = s /\ d.at \in x..x + UnitsPerDay - 1}) <= MaxPerDay

(* A rule's cooldown as the rule file has it, with "d" for days. *)
WrittenCooldown(id) ==
    LET i == CHOOSE i \in DOMAIN Rules : Rules[i].id = id
    IN  IF Rules[i].cooldown = None THEN DefaultCooldown
        ELSE Rules[i].cooldown.n * (IF Rules[i].cooldown.unit = "d" THEN UnitsPerDay ELSE 1)

(* A rule fires again for a symbol only after the cooldown written in the  *)
(* rule file (config/signals.yaml:64, "7d").                               *)
WrittenCooldownsHold ==
    faults = {} =>
        \A a, b \in raised : \A id \in a.rules \cap b.rules :
            a.symbol = b.symbol /\ a.at < b.at => b.at - a.at >= WrittenCooldown(id)
=============================================================================
