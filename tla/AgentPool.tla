------------------------------ MODULE AgentPool ------------------------------
(***************************************************************************)
(* The agent worker pool of the signals service (internal/agent): triggers *)
(* wait in a bounded channel, workers take them, ask a language model for  *)
(* a decision, store it through portfolio-api and submit an order for it.  *)
(*                                                                         *)
(* Besides the workers there act: the main loop, which enqueues signal     *)
(* triggers and shuts the pool down; the daily timer; the handlers of      *)
(* portfolio-api, which run on when their client has gone.  The order      *)
(* service is what IdempotentCreate promises of it: one order per key.     *)
(***************************************************************************)
EXTENDS Integers, Sequences, FiniteSets, Functions

CONSTANTS
  Workers,          (* the goroutines of the pool                           *)
  Symbols,
  Daily,            (* the lock all daily triggers share                    *)
  SignalKeys,       (* alert ids, the idempotency keys of signal triggers   *)
  SymbolOf,         (* per signal key: its symbol                           *)
  MaxNow,           (* the last moment of the clock, see now: bounds the model *)
  DailyKey,         (* per day: the idempotency key "daily-<date>"          *)
  MaxTickets,       (* triggers, at most: bounds the model                  *)
  Capacity,         (* of the channel                                       *)
  MaxTurns,         (* maxIterations of the conversation with the model     *)
  UnitsPerCent,     (* cost of one turn = 1 unit; costs are stored in cents *)
  Cap, Estimate,    (* daily cap and estimate of CheckAndReserve, in cents  *)
  Verdicts,         (* decisions the model may record, see Verdict          *)
  DefaultNotional,  (* AGENT_DEFAULT_TRADE_NOTIONAL, 0 for none             *)
  TradeEnabled,     (* AGENT_TRADE_ENABLED                                  *)
  FaultKinds,       (* the failures that may happen                         *)
  MaxFaults,        (* how many of them, at most: bounds the model          *)
  MaxStarts,        (* how often the service starts: bounds the model       *)
  None              (* "no value"                                           *)

Days    == 0..(MaxNow \div 2)
Tickets == 1..MaxTickets
Keys    == SignalKeys \cup {DailyKey[d] : d \in Days}
Locks   == Symbols \cup {Daily}

ASSUME SizesAssumption == /\ MaxNow \in Nat /\ MaxTickets \in Nat
                          /\ Capacity \in Nat \ {0} /\ MaxTurns \in Nat \ {0}
                          /\ UnitsPerCent \in Nat \ {0}
                          /\ Cap \in Nat /\ Estimate \in Nat /\ DefaultNotional \in Nat
                          /\ MaxFaults \in Nat /\ MaxStarts \in Nat /\ TradeEnabled \in BOOLEAN
ASSUME KeysAssumption  == /\ SymbolOf \in [SignalKeys -> Symbols]
                          /\ Daily \notin Symbols
                          /\ \A d \in Days : DailyKey[d] \notin SignalKeys
                          /\ \A d, e \in Days : DailyKey[d] = DailyKey[e] => d = e
                          /\ None \notin Keys \cup Days
ASSUME PoolAssumption  == IsFiniteSet(Workers) /\ None \notin Workers

VARIABLES
  now,        (* the clock: 2 * day, plus 1 once the daily timer's hour has passed *)
  due,        (* the day the daily timer is set for                         *)
  phase,      (* of the service: running, canceled, closed (Stop has closed *)
              (* the channel), exited                                       *)
  starts,     (* starts of the service so far                               *)
  arrived,    (* triggers so far                                            *)
  ticket,     (* per trigger: key, day of trigger_at, how far it has come   *)
  queue,      (* the channel                                                *)
  worker,     (* per worker: its step, its trigger, its turns with the      *)
              (* model, and the day whose sum it has checked                *)
  lock,       (* per lock: the worker that holds it                         *)
  post,       (* per trigger: the handler of its POST, and what was posted  *)
  decisions,  (* table agent_decisions: per idempotency key                 *)
  ordered,    (* per signal key: the order the order service has made for it *)
  faults      (* failures so far                                            *)

poolVars   == <<arrived, ticket, queue, worker, lock>>
clockVars  == <<now, due>>
phaseVars  == <<phase, starts>>
storeVars  == <<post, decisions>>
vars == <<clockVars, phaseVars, poolVars, storeVars, ordered, faults>>

(* An operator named X_Y, right before X, is a mistake somebody could make *)
(* in X: it is not part of the specification, it serves to see that some   *)
(* property would catch it.                                                *)
----------------------------------------------------------------------------
(* Decisions and the orders they lead to.                                  *)

(* sure: the confidence reaches the minimum; hint: the sizing hint, 0 for  *)
(* none.                                                                   *)
Verdict   == [action : {"buy", "sell", "ignore"}, sure : BOOLEAN, hint : Nat]
ASSUME VerdictsAssumption == Verdicts \subseteq Verdict /\ None \notin Verdict

Synthetic_Skip == [action |-> "skip", sure |-> FALSE, hint |-> 0]
(* The decision recorded in place of one when the cap is reached. *)
Synthetic == [action |-> "ignore", sure |-> FALSE, hint |-> 0]

Notionals == {DefaultNotional} \cup {v.hint : v \in Verdicts}
Orders    == [symbol : Symbols, side : {"buy", "sell"}, notional : Notionals]

Notional(v) == IF v.hint > 0 THEN v.hint ELSE DefaultNotional

(* The gates of maybeSubmitOrder. *)
WantsOrder(key, v) == /\ TradeEnabled
                      /\ v.action # "ignore"
                      /\ key \in SignalKeys
                      /\ v.sure
                      /\ Notional(v) > 0

OrderOf(key, v) == [symbol |-> SymbolOf[key], side |-> v.action, notional |-> Notional(v)]

(* A row of agent_decisions.  The trigger it came from, and the day its    *)
(* cost was checked against, are kept for the properties.                  *)
NoRow == [ticket |-> 0, day |-> 0, verdict |-> None, cents |-> 0, checked |-> None]
Stored(key) == decisions[key] # NoRow

(* SumCostCentsForDay: by the day of trigger_at, not of the spending. *)
CentsOf(keys) == SumFunctionOnSet([k \in Keys |-> decisions[k].cents], keys)
StoredCents(d) == CentsOf({k \in Keys : Stored(k) /\ decisions[k].day = d})

Day == now \div 2

(* mutexFor *)
LockOf(key) == IF key \in SignalKeys THEN SymbolOf[key] ELSE Daily

Fault(kind) == /\ kind \in FaultKinds
               /\ faults < MaxFaults
               /\ faults' = faults + 1
NoFault == UNCHANGED faults
----------------------------------------------------------------------------
(* Triggers: the main loop and the daily timer.                            *)

(* "over": dealt with, dropped, or lost in the channel; "gone": lost while *)
(* a worker was at it, so that its handlers may still run.                 *)
NoTicket == [key |-> None, day |-> 0, state |-> "none"]

(* Enqueue: a full channel drops the trigger. *)
Enqueue(key) ==
    LET t == arrived + 1
        fits == Len(queue) < Capacity
    IN  /\ arrived < MaxTickets
        /\ arrived' = t
        /\ ticket' = [ticket EXCEPT ![t] =
              [key |-> key, day |-> Day, state |-> IF fits THEN "queued" ELSE "over"]]
        /\ queue' = IF fits THEN Append(queue, t) ELSE queue
        /\ UNCHANGED <<worker, lock>>

(* A tick of the main loop enqueues an alert, under its own id.            *)
SignalTrigger(key) ==
    /\ phase \in {"running", "canceled"}
    /\ \A t \in Tickets : ticket[t].key # key
    /\ Enqueue(key)
    /\ UNCHANGED <<clockVars, phaseVars, storeVars, ordered, faults>>

(* The next hh:mm after n. *)
NextDue(n) == IF n % 2 = 0 THEN n \div 2 ELSE n \div 2 + 1

(* The timer was set with the clock of its last round: it fires when its   *)
(* hour has come, any time later, or, when the clock has been set back     *)
(* meanwhile, a little early.  The key is that of the day it reads then.   *)
TimerRings == \/ now > 2 * due /\ NoFault
              \/ now = 2 * due /\ Fault("clock")

FireDailyTimer ==
    /\ phase \in {"running", "canceled"}
    /\ TimerRings
    /\ Enqueue(DailyKey[Day])
    /\ due' = NextDue(now)
    /\ UNCHANGED <<now, phaseVars, storeVars, ordered>>

Advance ==
    /\ now < MaxNow
    /\ now' = now + 1
    /\ UNCHANGED <<due, phaseVars, poolVars, storeVars, ordered, faults>>
----------------------------------------------------------------------------
(* Worker.run and Worker.process                                           *)

Resting == [pc |-> "idle", t |-> 0, turn |-> 0, checked |-> None]

Step(w, pc) == worker' = [worker EXCEPT ![w].pc = pc]

MarkTicket(t, state) == ticket' = [ticket EXCEPT ![t].state = state]

LockHeldBy(w) == LockOf(ticket[worker[w].t].key)

Release_Kept(w) == UNCHANGED lock
(* The deferred Unlock. *)
Release(w) == lock' = [lock EXCEPT ![LockHeldBy(w)] = None]

(* process returns. *)
Settle(w, state) ==
    /\ worker' = [worker EXCEPT ![w] = Resting]
    /\ MarkTicket(worker[w].t, state)
    /\ Release(w)
    /\ UNCHANGED <<arrived, queue>>

Take(w) ==
    /\ phase # "exited"
    /\ worker[w].pc = "idle"
    /\ queue # <<>>
    /\ worker' = [worker EXCEPT ![w] = [Resting EXCEPT !.pc = "lock", !.t = Head(queue)]]
    /\ queue' = Tail(queue)
    /\ MarkTicket(Head(queue), "taken")
    /\ UNCHANGED <<clockVars, phaseVars, arrived, lock, storeVars, ordered, faults>>

(* Without a default branch in its select, a worker whose context has      *)
(* ended may take another trigger or return, whatever is still queued.     *)
Return(w) ==
    /\ \/ phase = "canceled"
       \/ phase = "closed"
    /\ worker[w].pc = "idle"
    /\ Step(w, "returned")
    /\ UNCHANGED <<clockVars, phaseVars, arrived, ticket, queue, lock, storeVars, ordered, faults>>

Unlocked_FreshMutex(l) == TRUE
Unlocked(l) == lock[l] = None

Acquire(w) ==
    /\ worker[w].pc = "lock"
    /\ Unlocked(LockHeldBy(w))
    /\ lock' = [lock EXCEPT ![LockHeldBy(w)] = w]
    /\ Step(w, "check")
    /\ UNCHANGED <<clockVars, phaseVars, arrived, ticket, queue, storeVars, ordered, faults>>

WithinCap_NoEstimate(d) == StoredCents(d) <= Cap
WithinCap(d) == StoredCents(d) + Estimate <= Cap

NoPost == [pc |-> "none", verdict |-> None, cents |-> 0, checked |-> None]

(* The POST is sent: its handler starts. *)
SendPost(w, verdict, cents) ==
    /\ post' = [post EXCEPT ![worker[w].t] =
          [pc |-> "lookup", verdict |-> verdict, cents |-> cents, checked |-> worker[w].checked]]
    /\ Step(w, "posting")
    /\ UNCHANGED decisions

(* CheckAndReserve, which reserves nothing.  A failing query lets the call *)
(* through, and with the context ended every query fails.                  *)
CheckCap(w) ==
    /\ worker[w].pc = "check"
    /\ \/ /\ phase = "running" /\ WithinCap(Day) /\ NoFault
          /\ worker' = [worker EXCEPT ![w].pc = "decide", ![w].checked = Day]
          /\ UNCHANGED storeVars
       \/ /\ phase = "running" /\ ~WithinCap(Day) /\ NoFault
          /\ SendPost(w, Synthetic, 0)
       \/ /\ IF phase = "running" THEN Fault("cost") ELSE NoFault
          /\ Step(w, "decide")
          /\ UNCHANGED storeVars
    /\ UNCHANGED <<clockVars, phaseVars, arrived, ticket, queue, lock, ordered>>
----------------------------------------------------------------------------
(* AnthropicProvider.Decide                                                *)

(* computeCostCents: all turns are paid, what is less than a cent is cut off. *)
CostCents(w, turns) == (worker[w].turn + turns) \div UnitsPerCent

(* The turn asks for tools, which read and change nothing: their results   *)
(* start the next turn, unless this was the last one.                      *)
ToolTurn(w) ==
    /\ worker[w].pc = "decide" /\ phase = "running"
    /\ IF worker[w].turn + 1 < MaxTurns
       THEN /\ worker' = [worker EXCEPT ![w].turn = @ + 1]
            /\ UNCHANGED <<arrived, ticket, queue, lock>>
       ELSE Settle(w, "over")
    /\ UNCHANGED <<clockVars, phaseVars, storeVars, ordered, faults>>

(* The turn records a decision; or it ends without one, and one more call  *)
(* forces it, for which the last turn leaves no room.                      *)
Decide(w, verdict) ==
    /\ worker[w].pc = "decide" /\ phase = "running"
    /\ \E turns \in {1, 2} : /\ turns = 2 => worker[w].turn < MaxTurns - 1
                             /\ SendPost(w, verdict, CostCents(w, turns))
    /\ UNCHANGED <<clockVars, phaseVars, arrived, ticket, queue, lock, ordered, faults>>

(* A failed call, the 60 s timeout or the end of the context; no decision, *)
(* or one parseDecisionJSON refuses.  What was spent is not recorded.      *)
DecideFails(w) ==
    /\ worker[w].pc = "decide"
    /\ Settle(w, "over")
    /\ UNCHANGED <<clockVars, phaseVars, storeVars, ordered, faults>>
----------------------------------------------------------------------------
(* handleInternalAgentDecisionCreate: two statements, each its own         *)
(* transaction, run on behalf of a client that may have gone.              *)

ClientGone(t) == ticket[t].state # "taken"

(* The handler's next statement, or its answer, which only its client reads. *)
Reply(t, pc) == post' = [post EXCEPT ![t] =
    IF ClientGone(t) /\ pc \in {"ok", "failed"} THEN NoPost ELSE [@ EXCEPT !.pc = pc]]

LookupDecision(t) ==
    /\ post[t].pc = "lookup"
    /\ \/ NoFault /\ Reply(t, IF Stored(ticket[t].key) THEN "ok" ELSE "insert")
       \/ Fault("store") /\ Reply(t, "failed")
       \/ ClientGone(t) /\ NoFault /\ Reply(t, "failed")
    /\ UNCHANGED <<clockVars, phaseVars, poolVars, decisions, ordered>>

RowOf(t) == [ticket |-> t, day |-> ticket[t].day, verdict |-> post[t].verdict,
             cents |-> post[t].cents, checked |-> post[t].checked]

InsertRow_Upsert(t) == decisions' = [decisions EXCEPT ![ticket[t].key] = RowOf(t)]
(* ON CONFLICT (idempotency_key) DO NOTHING, and the existing row is read. *)
InsertRow(t) == decisions' = [decisions EXCEPT ![ticket[t].key] =
                                 IF Stored(ticket[t].key) THEN @ ELSE RowOf(t)]

(* A failure may hide an insert that was made. *)
InsertDecision(t) ==
    /\ post[t].pc = "insert"
    /\ \/ InsertRow(t) /\ NoFault /\ Reply(t, "ok")
       \/ InsertRow(t) /\ Fault("store") /\ Reply(t, "failed")
       \/ UNCHANGED decisions /\ Fault("store") /\ Reply(t, "failed")
       \/ UNCHANGED decisions /\ ClientGone(t) /\ NoFault /\ Reply(t, "failed")
    /\ UNCHANGED <<clockVars, phaseVars, poolVars, ordered>>
----------------------------------------------------------------------------
(* The answer to the POST, and maybeSubmitOrder                            *)

Posted_AnyAnswer(t) == post[t].pc \in {"ok", "failed"}
(* 201, or 200 with the row another trigger has stored. *)
Posted(t) == post[t].pc = "ok"

PostAnswered(w) ==
    LET t == worker[w].t
    IN  /\ worker[w].pc = "posting"
        /\ post[t].pc \in {"ok", "failed"}
        /\ ~(Posted(t) /\ WantsOrder(ticket[t].key, post[t].verdict))
        /\ Settle(w, "over")
        /\ post' = [post EXCEPT ![t] = NoPost]
        /\ UNCHANGED <<clockVars, phaseVars, decisions, ordered, faults>>

(* The order is asked for, under a key made from the decision's. *)
SubmitOrder(w) ==
    LET t == worker[w].t
    IN  /\ worker[w].pc = "posting"
        /\ Posted(t) /\ WantsOrder(ticket[t].key, post[t].verdict)
        /\ Step(w, "ordering")
        /\ UNCHANGED <<clockVars, phaseVars, arrived, ticket, queue, lock, storeVars, ordered, faults>>

(* The order service makes the order, or it does not: refused, trading     *)
(* disabled, or failed.  Its answer is only logged.                        *)
Order(w, made) ==
    LET t == worker[w].t
    IN  ordered' = [ordered EXCEPT ![ticket[t].key] =
                       IF made THEN OrderOf(ticket[t].key, post[t].verdict) ELSE @]

OrderAnswered(w) ==
    /\ worker[w].pc = "ordering"
    /\ \E made \in BOOLEAN : Order(w, made)
    /\ Settle(w, "over")
    /\ post' = [post EXCEPT ![worker[w].t] = NoPost]
    /\ UNCHANGED <<clockVars, phaseVars, decisions, faults>>

(* The context ends: the client gives up, its handler may go on.           *)
Abort(w) ==
    /\ phase # "running"
    /\ \/ worker[w].pc = "posting" /\ UNCHANGED <<storeVars, ordered>>
       \/ /\ worker[w].pc = "ordering"
          /\ \E made \in BOOLEAN : Order(w, made)
          /\ post' = [post EXCEPT ![worker[w].t] = NoPost]
          /\ UNCHANGED decisions
    /\ Settle(w, "gone")
    /\ UNCHANGED <<clockVars, phaseVars, faults>>
----------------------------------------------------------------------------
(* The life of the service                                                 *)

(* SIGTERM. *)
CancelContext ==
    /\ phase = "running"
    /\ phase' = "canceled"
    /\ UNCHANGED <<clockVars, starts, poolVars, storeVars, ordered, faults>>

(* The main loop has returned; the deferred Stop closes the channel.       *)
Stop ==
    /\ phase = "canceled"
    /\ phase' = "closed"
    /\ UNCHANGED <<clockVars, starts, poolVars, storeVars, ordered, faults>>

(* Nothing of the process survives: what it had not finished is lost.      *)
ProcessEnds ==
    /\ phase' = "exited"
    /\ queue' = <<>>
    /\ worker' = [w \in Workers |-> Resting]
    /\ lock' = [l \in Locks |-> None]
    /\ ticket' = [t \in Tickets |-> CASE ticket[t].state = "queued" -> [ticket[t] EXCEPT !.state = "over"]
                                      [] ticket[t].state = "taken"  -> [ticket[t] EXCEPT !.state = "gone"]
                                      [] OTHER -> ticket[t]]
    /\ UNCHANGED <<clockVars, starts, arrived, storeVars, ordered>>

(* wg.Wait returns. *)
Exit == /\ phase = "closed"
        /\ \A w \in Workers : worker[w].pc = "returned"
        /\ ProcessEnds
        /\ NoFault

Crash == /\ phase # "exited"
         /\ Fault("crash")
         /\ ProcessEnds

(* The daily timer rings between Stop and the end: it sends on the closed  *)
(* channel, which ends the process.                                        *)
TimerPanics == /\ phase = "closed"
               /\ now > 2 * due
               /\ ProcessEnds
               /\ NoFault

Start ==
    /\ phase = "exited" /\ starts < MaxStarts
    /\ phase' = "running"
    /\ starts' = starts + 1
    /\ due' = NextDue(now)
    /\ UNCHANGED <<now, poolVars, storeVars, ordered, faults>>
----------------------------------------------------------------------------
Init ==
    /\ now = 0 /\ due = 0
    /\ phase = "running" /\ starts = 1
    /\ arrived = 0
    /\ ticket = [t \in Tickets |-> NoTicket]
    /\ queue = <<>>
    /\ worker = [w \in Workers |-> Resting]
    /\ lock = [l \in Locks |-> None]
    /\ post = [t \in Tickets |-> NoPost]
    /\ decisions = [k \in Keys |-> NoRow]
    /\ ordered = [k \in SignalKeys |-> None]
    /\ faults = 0

Process(w) == \/ Take(w) \/ Return(w) \/ Acquire(w) \/ CheckCap(w)
              \/ ToolTurn(w) \/ (\E v \in Verdicts : Decide(w, v)) \/ DecideFails(w)
              \/ PostAnswered(w) \/ SubmitOrder(w) \/ OrderAnswered(w) \/ Abort(w)

Handler(t) == LookupDecision(t) \/ InsertDecision(t)

Next == \/ \E k \in SignalKeys : SignalTrigger(k)
        \/ FireDailyTimer
        \/ Advance
        \/ \E w \in Workers : Process(w)
        \/ \E t \in Tickets : Handler(t)
        \/ CancelContext \/ Stop \/ Exit \/ Crash \/ TimerPanics \/ Start

Spec == Init /\ [][Next]_vars

(* What a goroutine does by itself, or with calls that end: the cost query *)
(* and the tools have a client with a timeout, Decide has its own of 60 s. *)
Proceeds(w) == \/ Take(w) \/ Return(w) \/ Acquire(w) \/ CheckCap(w)
               \/ ToolTurn(w) \/ (\E v \in Verdicts : Decide(w, v)) \/ DecideFails(w)
               \/ PostAnswered(w) \/ SubmitOrder(w) \/ Abort(w)

(* Some goroutine that can run does, the main loop and wg.Wait return:     *)
(* less than the Go scheduler and sync.Mutex give to each of them, and     *)
(* enough, as triggers are finitely many.  portfolio-api owes nothing: the *)
(* POST of a decision and the order call go through http.DefaultClient,    *)
(* without a timeout, and may hang for as long as the service runs.  The   *)
(* clock, the triggers, the signal and a restart owe nothing either.       *)
Fairness == /\ WF_vars(\E w \in Workers : Proceeds(w))
            /\ WF_vars(Stop \/ Exit)

FairSpec == Spec /\ Fairness
----------------------------------------------------------------------------
TicketRecord == [key : Keys \cup {None}, day : Days,
                 state : {"none", "queued", "taken", "over", "gone"}]
WorkerRecord == [pc : {"idle", "lock", "check", "decide", "posting", "ordering", "returned"},
                 t : Tickets \cup {0}, turn : 0..MaxTurns, checked : Days \cup {None}]
PostRecord   == [pc : {"none", "lookup", "insert", "ok", "failed"},
                 verdict : Verdict \cup {None}, cents : Nat, checked : Days \cup {None}]
DecisionRow  == [ticket : Tickets \cup {0}, day : Days, verdict : Verdict \cup {None},
                 cents : Nat, checked : Days \cup {None}]

(* The values the variables take. *)
TypeOK ==
    /\ now \in 0..MaxNow /\ due \in 0..(MaxNow \div 2 + 1)
    /\ phase \in {"running", "canceled", "closed", "exited"}
    /\ starts \in Nat /\ arrived \in 0..MaxTickets /\ faults \in 0..MaxFaults
    /\ ticket \in [Tickets -> TicketRecord]
    /\ queue \in Seq(Tickets)
    /\ worker \in [Workers -> WorkerRecord]
    /\ lock \in [Locks -> Workers \cup {None}]
    /\ post \in [Tickets -> PostRecord]
    /\ decisions \in [Keys -> DecisionRow]
    /\ ordered \in [SignalKeys -> Orders \cup {None}]

Deciding(w) == worker[w].pc \in {"check", "decide", "posting", "ordering"}

(* Two workers are never at work on triggers of the same symbol, nor on    *)
(* two daily triggers: mutexFor and the deferred Unlock in process.        *)
OneDecisionPerSymbol ==
    \A v, w \in Workers : v # w /\ Deciding(v) /\ Deciding(w)
        => LockHeldBy(v) # LockHeldBy(w)

(* A decision is never replaced, whatever posts overlap: the unique        *)
(* idempotency_key of agent_decisions with ON CONFLICT DO NOTHING.         *)
DecisionsAreFinal ==
    [][\A k \in Keys : Stored(k) => decisions'[k] = decisions[k]]_vars

(* Every order comes from the decision stored under its key, and is the    *)
(* order that decision asks for: process submits only what was persisted,  *)
(* and a signal's key is enqueued once, daily triggers place no orders.    *)
OrdersFollowStoredDecisions ==
    \A k \in SignalKeys : ordered[k] # None =>
        /\ Stored(k)
        /\ decisions[k].verdict.sure
        /\ ordered[k] = OrderOf(k, decisions[k].verdict)

MaxCents == MaxTurns \div UnitsPerCent
Gone == {t \in Tickets : ticket[t].state = "gone"}
CheckedRows(d) == {k \in Keys : Stored(k) /\ decisions[k].day = d /\ decisions[k].checked = d}

(* How far a day's stored cost may pass the cap: by what the workers, and  *)
(* handlers whose client has gone, had in flight at the last check.  Calls *)
(* a failing query let through, and calls checked after midnight against   *)
(* another day's sum, come on top (CheckAndReserve reserves nothing).      *)
CapOverrunBounded ==
    \A d \in Days : CheckedRows(d) # {} =>
        CentsOf(CheckedRows(d)) <= Cap - Estimate + MaxCents * (Cardinality(Workers) + Cardinality(Gone))

(* The worker has a call out that no timeout ends: portfolio-api has not   *)
(* answered its POST, or its order.                                        *)
Hangs(w) == \/ worker[w].pc = "posting" /\ post[worker[w].t].pc \in {"lookup", "insert"}
            \/ worker[w].pc = "ordering"

(* It hangs, or it waits for the lock of one that does. *)
Blocked(w) == \/ Hangs(w)
              \/ /\ worker[w].pc = "lock"
                 /\ \E v \in Workers : lock[LockHeldBy(w)] = v /\ Hangs(v)

(* What keeps a trigger: its own worker is blocked, or, in the channel,    *)
(* every worker is.                                                        *)
HeldUp(t) == IF ticket[t].state = "queued"
             THEN \A w \in Workers : Blocked(w)
             ELSE \E w \in Workers : worker[w].t = t /\ Blocked(w)

(* While the service runs, a trigger in the channel or with a worker is    *)
(* dealt with, unless a call that portfolio-api never answers holds it up  *)
(* for ever: one of the same symbol, or one per worker.  Nothing else can: *)
(* no path of process leaves a lock behind.                                *)
TriggersSettle ==
    \A t \in Tickets : ticket[t].state \in {"queued", "taken"}
        ~> \/ ticket[t].state \in {"over", "gone"}
           \/ phase # "running"
           \/ [](HeldUp(t))

(* A shutdown ends, whatever the workers are doing when it starts, and     *)
(* even with a call that nobody answers: the context ends it.              *)
ShutdownEnds == phase = "canceled" ~> phase = "exited"

(* The cost cap is hard: no day's stored cost passes it.                   *)
HardCap == \A d \in Days : StoredCents(d) <= Cap
=============================================================================
