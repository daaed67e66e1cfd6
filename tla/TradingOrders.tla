--------------------------- MODULE TradingOrders ---------------------------
(***************************************************************************)
(* The order path of the backend: the order service of portfolio-api       *)
(* (internal/trading/service.go), the Postgres tables behind it            *)
(* (internal/trading/postgres), the trading worker that executes accepted  *)
(* orders (internal/trading/worker.go), and the broker it talks to         *)
(* (internal/broker/coinbase).                                             *)
(*                                                                         *)
(* Three kinds of actor interleave on the orders table, each statement its *)
(* own transaction: API create calls, API cancel calls, and the single     *)
(* worker process, which works through a snapshot of the open orders.      *)
(***************************************************************************)
EXTENDS Integers, Sequences, FiniteSets, OrderPolicy

CONSTANTS
  Requests,         (* API create calls; the order a call inserts has a     *)
                    (* fresh uuid, named here after the call                *)
  Cancels,          (* API cancel calls                                     *)
  Keys,             (* idempotency keys (not empty)                         *)
  Bodies,           (* request bodies, see OrderPolicy                      *)
  RiskPolicy,       (* the configured policy, see OrderPolicy               *)
  Modes,            (* broker modes a deployment may run in, of BrokerModes *)
  EventInsertFails, (* TRUE: the order_events insert is always refused, as  *)
                    (* Postgres does with the nil payload the code passes   *)
  FaultKinds,       (* the failures that may happen                         *)
  MaxFaults,        (* how many of them, at most: bounds the model          *)
  None              (* "no value"                                           *)

BrokerModes == {"live", "fill", "accept", "partial", "reject"}

ASSUME ModesAssumption  == Modes \subseteq BrokerModes
ASSUME FaultsAssumption == MaxFaults \in Nat
ASSUME EventAssumption  == EventInsertFails \in BOOLEAN
ASSUME NoneAssumption   == None \notin Requests \cup Keys \cup Bodies
ASSUME AmountsAssumption == /\ \A body \in Bodies : body.qty \in Int /\ body.price \in Int
                            /\ RiskPolicy.globalMax \in Int

VARIABLES
  mode,        (* BROKER_ENV and COINBASE_PAPER_FILL_MODE of the worker     *)
  call,        (* per API create call: where its handler is, what it holds  *)
  cancel,      (* the same for API cancel calls                             *)
  orders,      (* table orders, one row per create call that inserted       *)
  events,      (* table order_events: per order, the event types recorded   *)
  fills,       (* table fills: per order, the number of fill rows           *)
  placements,  (* the broker's book: every order placed there, in order     *)
  base,        (* placements made before the paper broker last started      *)
  wpc,         (* the step of reconcileOrder the worker is at               *)
  batch,       (* the snapshots of this tick the worker has still to visit  *)
  cur,         (* what reconcileOrder holds of the order it is working on   *)
  faults       (* failures so far                                           *)

(* An operator named X_Y, right before X, is a mistake somebody could make *)
(* in X: it is not part of the specification, it serves to see that some   *)
(* property would catch it.                                                *)

apiVars    == <<call, cancel>>
tables     == <<orders, events, fills>>
brokerVars == <<placements, base>>
workerVars == <<wpc, batch, cur>>
vars       == <<mode, apiVars, tables, brokerVars, workerVars, faults>>
----------------------------------------------------------------------------
(* Statuses, rows and what the queries of the repository return.           *)

OpenStatuses   == {"new", "accepted", "partially_filled"}
ClosedStatuses == {"filled", "canceled", "rejected"}
FilledStatuses == {"filled", "partially_filled"}
Statuses       == OpenStatuses \cup ClosedStatuses

IsOpen(status) == status \in OpenStatuses

(* A row: provId is its provider_order_id, 0 for ''; allowed is the risk   *)
(* decision stored in response_json; recent, that its symbol cooldown has  *)
(* not passed.  The row of a call that has inserted nothing is NoRow.      *)
Row   == [status : Statuses, key : Keys, body : Bodies, allowed : BOOLEAN,
          provId : Nat, recent : BOOLEAN]
NoRow == [status |-> "absent", key |-> None, body |-> None, allowed |-> FALSE,
          provId |-> 0, recent |-> FALSE]

Exists(o) == orders[o].status # "absent"

(* GetOrderByIdempotencyKey *)
OrdersWithKey(key) == {o \in Requests : Exists(o) /\ orders[o].key = key}

OpenOrders_Unplaced == {o \in Requests : IsOpen(orders[o].status) /\ orders[o].provId = 0}
OpenOrders_SkipAccepted == {o \in Requests : orders[o].status \in {"new", "partially_filled"}}
(* ListOpenOrders *)
OpenOrders == {o \in Requests : IsOpen(orders[o].status)}

(* What Policy.Evaluate sees of an order. *)
PolicyView(o) == [id       |-> o,
                  symbol   |-> orders[o].body.symbol,
                  side     |-> orders[o].body.side,
                  qty      |-> orders[o].body.qty,
                  notional |-> Notional(orders[o].body),
                  recent   |-> orders[o].recent]

(* What the worker's tick holds of an order. *)
Snapshot(o) == [id |-> o, status |-> orders[o].status, provId |-> orders[o].provId]

(* IsOpen, and Transition(status, "cancel"): only what was accepted can be *)
(* canceled.                                                               *)
MayCancel_AnyPlaced(status) == status \in {"accepted", "partially_filled", "filled"}
MayCancel(status) == IsOpen(status) /\ status \in {"accepted", "partially_filled"}

(* One failure of a kind the run allows; a statement that fails this way   *)
(* was not executed unless the action says that it was.                    *)
Fault(kind) == /\ kind \in FaultKinds
               /\ faults < MaxFaults
               /\ faults' = faults + 1
NoFault == UNCHANGED faults
----------------------------------------------------------------------------
(* Service.Create                                                          *)

NoCall == [pc |-> "idle", key |-> None, body |-> None, seen |-> {}, blind |-> FALSE,
           allowed |-> FALSE, answer |-> "none", order |-> None]

(* The call of r moves to its next statement, or ends with an answer.      *)
Goto(r, pc) == call' = [call EXCEPT ![r].pc = pc]

Answer(r, answer, o, allowed) ==
    call' = [call EXCEPT ![r] = [@ EXCEPT !.pc = "done", !.answer = answer,
                                          !.order = o, !.allowed = allowed]]

Fail(r) == Answer(r, "error", None, FALSE)

(* A create request arrives and is validated. *)
SubmitCreate(r, key, body) ==
    /\ call[r].pc = "idle"
    /\ call' = [call EXCEPT ![r] = [NoCall EXCEPT
                   !.key = key, !.body = body,
                   !.pc = IF Valid(body) THEN "lookup" ELSE "done",
                   !.answer = IF Valid(body) THEN "none" ELSE "error"]]
    /\ UNCHANGED <<mode, cancel, tables, brokerVars, workerVars, faults>>

SameRequest_Skipped(o, r) == TRUE
(* The request hash stored with o is the hash of the request of r.         *)
SameRequest(o, r) == orders[o].body = call[r].body

(* The idempotency lookup: replay, conflict, or go on.  A replay answers   *)
(* with the response stored when the order was created.                    *)
LookupKey(r) ==
    /\ call[r].pc = "lookup"
    /\ LET found == OrdersWithKey(call[r].key)
       IN  \/ /\ found = {}
              /\ Goto(r, "check")
              /\ NoFault
           \/ /\ \E o \in found :
                    IF SameRequest(o, r)
                    THEN Answer(r, "created", o, orders[o].allowed)
                    ELSE Answer(r, "conflict", o, FALSE)
              /\ NoFault
           \/ /\ Fault("lookup")
              /\ Fail(r)
    /\ UNCHANGED <<mode, cancel, tables, brokerVars, workerVars>>

(* ListOpenOrders and Policy.Evaluate.  The error of the listing is        *)
(* ignored: the policy then sees the rows read before it, or none.  seen   *)
(* and blind are kept for the properties, the handler keeps the decision   *)
(* alone.                                                                  *)
CheckPolicy(r) ==
    /\ call[r].pc = "check"
    /\ \E blind \in BOOLEAN, seen \in SUBSET OpenOrders :
         /\ IF blind THEN Fault("list") ELSE NoFault /\ seen = OpenOrders
         /\ call' = [call EXCEPT ![r] = [@ EXCEPT
               !.pc = "insert", !.seen = seen, !.blind = blind,
               !.allowed =
                  Allowed(RiskPolicy, {PolicyView(o) : o \in seen}, call[r].body)]]
    /\ UNCHANGED <<mode, cancel, tables, brokerVars, workerVars>>

NewRow_AlwaysAccepted(r) ==
    [status |-> "accepted", key |-> call[r].key, body |-> call[r].body,
     allowed |-> call[r].allowed, provId |-> 0, recent |-> TRUE]
NewRow(r) == [status |-> IF call[r].allowed THEN "accepted" ELSE "rejected",
              key |-> call[r].key, body |-> call[r].body, allowed |-> call[r].allowed,
              provId |-> 0, recent |-> TRUE]

KeyTaken_Unchecked(r) == FALSE
(* The UNIQUE constraint on idempotency_key would be violated.             *)
KeyTaken(r) == OrdersWithKey(call[r].key) # {}

(* The INSERT, which the UNIQUE constraint on idempotency_key refuses for  *)
(* a second order with the key.  When the connection fails the row may or  *)
(* may not have been written.                                              *)
InsertOrder(r) ==
    /\ call[r].pc = "insert"
    /\ \/ /\ ~KeyTaken(r)
          /\ orders' = [orders EXCEPT ![r] = NewRow(r)]
          /\ \/ NoFault /\ Goto(r, "save")
             \/ Fault("insert") /\ Fail(r)
       \/ /\ KeyTaken(r)
          /\ Fail(r)
          /\ UNCHANGED <<orders, faults>>
       \/ /\ Fault("insert")
          /\ Fail(r)
          /\ UNCHANGED orders
    /\ UNCHANGED <<mode, cancel, events, fills, brokerVars, workerVars>>

(* SaveResponseJSON rewrites the response the INSERT has already stored.   *)
SaveResponse(r) ==
    /\ call[r].pc = "save"
    /\ \/ NoFault /\ Goto(r, "event")
       \/ Fault("save") /\ Fail(r)
    /\ UNCHANGED <<mode, cancel, tables, brokerVars, workerVars>>

Record(o, event) == events' = [events EXCEPT ![o] = @ \cup {event}]

CreateEvent(r) == IF call[r].allowed THEN "accept" ELSE "reject"

(* The order event, and the answer. *)
AppendCreateEvent(r) ==
    /\ call[r].pc = "event"
    /\ \/ /\ ~EventInsertFails
          /\ NoFault
          /\ Record(r, CreateEvent(r))
          /\ Answer(r, "created", r, call[r].allowed)
       \/ /\ EventInsertFails
          /\ NoFault
          /\ Fail(r)
          /\ UNCHANGED events
       \/ /\ Fault("event")
          /\ Fail(r)
          /\ UNCHANGED events
    /\ UNCHANGED <<mode, cancel, orders, fills, brokerVars, workerVars>>

Create(r) == \/ \E key \in Keys, body \in Bodies : SubmitCreate(r, key, body)
             \/ LookupKey(r)
             \/ CheckPolicy(r)
             \/ InsertOrder(r)
             \/ SaveResponse(r)
             \/ AppendCreateEvent(r)
----------------------------------------------------------------------------
(* Service.Cancel                                                          *)

NoCancel == [pc |-> "idle", order |-> None, answer |-> "none"]

EndCancel(c, answer) ==
    cancel' = [cancel EXCEPT ![c] = [@ EXCEPT !.pc = "done", !.answer = answer]]

(* GetOrder, IsOpen and Transition: the status is read here, and not       *)
(* looked at again when the row is written.                                *)
StartCancel(c, o) ==
    /\ cancel[c].pc = "idle"
    /\ Exists(o)
    /\ cancel' = [cancel EXCEPT ![c] =
          IF MayCancel(orders[o].status)
          THEN [pc |-> "update", order |-> o, answer |-> "none"]
          ELSE [pc |-> "done", order |-> o, answer |-> "refused"]]
    /\ UNCHANGED <<mode, call, tables, brokerVars, workerVars, faults>>

(* GetOrder fails: nothing has been touched. *)
CancelReadFails(c) ==
    /\ cancel[c].pc = "idle"
    /\ Fault("lookup")
    /\ EndCancel(c, "error")
    /\ UNCHANGED <<mode, call, tables, brokerVars, workerVars>>

SetStatus(o, status) == orders' = [orders EXCEPT ![o].status = status]

(* UpdateOrderStatus(id, "canceled"): the row alone, never the broker.     *)
WriteCanceled(c) ==
    /\ cancel[c].pc = "update"
    /\ \/ /\ SetStatus(cancel[c].order, "canceled")
          /\ \/ NoFault /\ cancel' = [cancel EXCEPT ![c].pc = "event"]
             \/ Fault("cancel") /\ EndCancel(c, "error")
       \/ /\ Fault("cancel")
          /\ EndCancel(c, "error")
          /\ UNCHANGED orders
    /\ UNCHANGED <<mode, call, events, fills, brokerVars, workerVars>>

AppendCancelEvent(c) ==
    /\ cancel[c].pc = "event"
    /\ \/ /\ ~EventInsertFails
          /\ NoFault
          /\ Record(cancel[c].order, "cancel")
          /\ EndCancel(c, "canceled")
       \/ /\ EventInsertFails
          /\ NoFault
          /\ EndCancel(c, "error")
          /\ UNCHANGED events
       \/ /\ Fault("event")
          /\ EndCancel(c, "error")
          /\ UNCHANGED events
    /\ UNCHANGED <<mode, call, orders, fills, brokerVars, workerVars>>

Cancel(c) == \/ \E o \in Requests : StartCancel(c, o)
             \/ CancelReadFails(c)
             \/ WriteCanceled(c)
             \/ AppendCancelEvent(c)
----------------------------------------------------------------------------
(* Worker.tick and Worker.reconcileOrder                                   *)

(* cur is the snapshot the worker is reconciling, with the status it has   *)
(* observed at the broker, the broker id PlaceOrder returned, and the      *)
(* action it is taking: "place", "poll" (a transition), or "touch" (write  *)
(* back what was read).                                                    *)
NoCur == [id |-> None, status |-> "absent", provId |-> 0,
          observed |-> "absent", placedId |-> 0, action |-> "none"]

Work(s, action, observed, placedId) ==
    cur' = [id |-> s.id, status |-> s.status, provId |-> s.provId,
            observed |-> observed, placedId |-> placedId, action |-> action]

(* The orders the worker may still write on account of this tick. *)
HeldByWorker == {s.id : s \in batch} \cup (IF wpc = "next" THEN {} ELSE {cur.id})

NextOrder == wpc' = "next" /\ cur' = NoCur

(* ListOpenOrders.  When it fails, or finds nothing, the tick does nothing. *)
(* A tick visits its orders by created_at; here, in any order.             *)
Tick ==
    /\ wpc = "next" /\ batch = {}
    /\ OpenOrders # {}
    /\ batch' = {Snapshot(o) : o \in OpenOrders}
    /\ UNCHANGED <<mode, apiVars, tables, brokerVars, wpc, cur, faults>>

PlaceStatus_Unmapped == IF mode = "live" THEN "pending" ELSE "filled"
(* What PlaceOrder answers: the paper broker by its fill mode, the live    *)
(* broker always "accepted", as mapExecutionStatus maps it.                *)
PlaceStatus == CASE mode = "fill"    -> "filled"
                 [] mode = "partial" -> "partially_filled"
                 [] mode = "reject"  -> "rejected"
                 [] OTHER            -> "accepted"

(* The paper broker counts its ids from 1 each time the process starts.    *)
NewProviderId_FromZero == Len(placements) - base
NewProviderId == Len(placements) + 1 - base

NeedsPlacement_ByStatus(s) == s.status = "accepted"
(* The order has not been sent to the broker, for all the row says.        *)
NeedsPlacement(s) == s.provId = 0

(* PlaceOrder on an order without a provider id: it is placed; it is       *)
(* refused; or it is placed and the reply is lost.  The broker is sent a   *)
(* fresh client_order_id each time, so it cannot tell a repeat.  An error  *)
(* ends reconcileOrder for this tick.                                      *)
PlaceOrder(s) ==
    /\ wpc = "next" /\ s \in batch
    /\ NeedsPlacement(s)
    /\ batch' = batch \ {s}
    /\ \/ /\ placements' = Append(placements, [order |-> s.id, status |-> PlaceStatus])
          /\ \/ /\ NoFault
                /\ Work(s, "place", PlaceStatus, NewProviderId)
                /\ wpc' = "setid"
             \/ /\ Fault("lost_reply")
                /\ NextOrder
       \/ /\ Fault("refused")
          /\ NextOrder
          /\ UNCHANGED placements
    /\ UNCHANGED <<mode, apiVars, tables, base>>

(* The broker's answer for an id. *)
StatusAtBroker(provId) == placements[provId].status

(* GetOrder on an order with a provider id, when the executor is a poller. *)
PollOrder(s) ==
    /\ wpc = "next" /\ s \in batch
    /\ ~NeedsPlacement(s) /\ mode = "live"
    /\ batch' = batch \ {s}
    /\ \/ /\ NoFault
          /\ LET observed == StatusAtBroker(s.provId)
             IN  Work(s, IF observed = s.status THEN "touch" ELSE "poll", observed, 0)
          /\ wpc' = "status"
       \/ /\ Fault("poll")
          /\ NextOrder
    /\ UNCHANGED <<mode, apiVars, tables, brokerVars>>

(* The paper broker cannot be polled: the row is only touched. *)
TouchOrder(s) ==
    /\ wpc = "next" /\ s \in batch
    /\ ~NeedsPlacement(s) /\ mode # "live"
    /\ batch' = batch \ {s}
    /\ Work(s, "touch", s.status, 0)
    /\ wpc' = "status"
    /\ UNCHANGED <<mode, apiVars, tables, brokerVars, faults>>

(* SetProviderOrderID; its failure is only logged. *)
SetProviderOrderID ==
    /\ wpc = "setid"
    /\ \/ NoFault /\ orders' = [orders EXCEPT ![cur.id].provId = cur.placedId]
       \/ Fault("setid") /\ UNCHANGED orders
    /\ wpc' = "status"
    /\ UNCHANGED <<mode, apiVars, events, fills, brokerVars, batch, cur>>

(* UpdateOrderStatus, whatever the row has become since the snapshot; its  *)
(* failure is only logged.                                                 *)
UpdateStatus ==
    /\ wpc = "status"
    /\ \/ NoFault /\ SetStatus(cur.id, cur.observed)
       \/ Fault("status") /\ UNCHANGED orders
    /\ IF cur.action = "touch" THEN NextOrder ELSE wpc' = "event" /\ UNCHANGED cur
    /\ UNCHANGED <<mode, apiVars, events, fills, brokerVars, batch>>

WorkerEvent == IF cur.action = "place" THEN "submit" ELSE "poll"

RecordsFill_UnlessRejected == cur.observed # "rejected"
RecordsFill_WhenPlacedOnly == cur.action = "place" /\ cur.observed \in FilledStatuses
(* maybeRecordFill has a fill to write. *)
RecordsFill == cur.observed \in FilledStatuses

(* AppendOrderEvent; its failure is only logged. *)
AppendWorkerEvent ==
    /\ wpc = "event"
    /\ \/ ~EventInsertFails /\ NoFault /\ Record(cur.id, WorkerEvent)
       \/ EventInsertFails /\ NoFault /\ UNCHANGED events
       \/ Fault("event") /\ UNCHANGED events
    /\ IF RecordsFill
       THEN wpc' = "fill" /\ UNCHANGED cur
       ELSE NextOrder
    /\ UNCHANGED <<mode, apiVars, orders, fills, brokerVars, batch>>

(* maybeRecordFill; its failure is only logged. *)
RecordFill ==
    /\ wpc = "fill"
    /\ \/ NoFault /\ fills' = [fills EXCEPT ![cur.id] = @ + 1]
       \/ Fault("fill") /\ UNCHANGED fills
    /\ NextOrder
    /\ UNCHANGED <<mode, apiVars, orders, events, brokerVars, batch>>

(* The worker process dies and is started again: the tick is forgotten,    *)
(* and so is the book of the paper broker, which lives in the process.     *)
WorkerRestart ==
    /\ Fault("crash")
    /\ wpc' = "next" /\ batch' = {} /\ cur' = NoCur
    /\ base' = IF mode = "live" THEN 0 ELSE Len(placements)
    /\ UNCHANGED <<mode, apiVars, tables, placements>>

Reconcile == \/ \E s \in batch : PlaceOrder(s) \/ PollOrder(s) \/ TouchOrder(s)
             \/ SetProviderOrderID
             \/ UpdateStatus
             \/ AppendWorkerEvent
             \/ RecordFill
----------------------------------------------------------------------------
(* The environment                                                         *)

(* The exchange decides a live order (external). *)
BrokerResolves(i) ==
    /\ mode = "live"
    /\ placements[i].status = "accepted"
    /\ \E status \in ClosedStatuses :
          placements' = [placements EXCEPT ![i].status = status]
    /\ UNCHANGED <<mode, apiVars, tables, base, workerVars, faults>>

(* SymbolCooldown has passed since the order's CreatedAt. *)
CooldownPasses(o) ==
    /\ RiskPolicy.cooldown
    /\ orders[o].recent
    /\ orders' = [orders EXCEPT ![o].recent = FALSE]
    /\ UNCHANGED <<mode, apiVars, events, fills, brokerVars, workerVars, faults>>

Init ==
    /\ mode \in Modes
    /\ call = [r \in Requests |-> NoCall]
    /\ cancel = [c \in Cancels |-> NoCancel]
    /\ orders = [o \in Requests |-> NoRow]
    /\ events = [o \in Requests |-> {}]
    /\ fills = [o \in Requests |-> 0]
    /\ placements = <<>>
    /\ base = 0
    /\ wpc = "next" /\ batch = {} /\ cur = NoCur
    /\ faults = 0

Next ==
    \/ \E r \in Requests : Create(r)
    \/ \E c \in Cancels : Cancel(c)
    \/ Tick
    \/ Reconcile
    \/ WorkerRestart
    \/ \E i \in DOMAIN placements : BrokerResolves(i)
    \/ \E o \in Requests : CooldownPasses(o)

Spec == Init /\ [][Next]_vars

(* The worker's loop runs for as long as the process does, and the         *)
(* exchange decides every market order; callers promise nothing.           *)
Fairness == /\ WF_vars(Tick)
            /\ WF_vars(Reconcile)
            /\ \A i \in 1..(Cardinality(Requests) + MaxFaults) :
                  WF_vars(i \in DOMAIN placements /\ BrokerResolves(i))

FairSpec == Spec /\ Fairness
----------------------------------------------------------------------------
(* Properties                                                              *)

CallPcs   == {"idle", "lookup", "check", "insert", "save", "event", "done"}
CancelPcs == {"idle", "update", "event", "done"}
Placement == [order : Requests, status : Statuses]

CallRecord ==
    [pc : CallPcs, key : Keys \cup {None}, body : Bodies \cup {None},
     seen : SUBSET Requests, blind : BOOLEAN, allowed : BOOLEAN,
     answer : {"none", "created", "conflict", "error"}, order : Requests \cup {None}]
CancelRecord ==
    [pc : CancelPcs, order : Requests \cup {None},
     answer : {"none", "refused", "canceled", "error"}]
SnapshotRecord == [id : Requests, status : OpenStatuses, provId : Nat]
CurRecord ==
    [id : Requests, status : OpenStatuses, provId : Nat, observed : Statuses,
     placedId : Nat, action : {"place", "poll", "touch"}]

CallsOK ==
    /\ call \in [Requests -> CallRecord]
    /\ \A r \in Requests :
          call[r].pc # "idle" => call[r].key \in Keys /\ call[r].body \in Bodies
CancelsOK ==
    /\ cancel \in [Cancels -> CancelRecord]
    /\ \A c \in Cancels : cancel[c].pc \in {"update", "event"} => cancel[c].order \in Requests
TablesOK ==
    /\ orders \in [Requests -> Row \cup {NoRow}]
    /\ events \in [Requests -> SUBSET {"accept", "reject", "cancel", "submit", "poll"}]
    /\ fills \in [Requests -> Nat]
BrokerOK ==
    /\ placements \in Seq(Placement)
    /\ base \in 0..Len(placements)
WorkerOK ==
    /\ wpc \in {"next", "setid", "status", "event", "fill"}
    /\ batch \subseteq SnapshotRecord
    /\ IF wpc = "next" THEN cur = NoCur ELSE cur \in CurRecord

(* Every variable holds a value of its kind, and a handler that is past    *)
(* its first statement holds the request it is about.                      *)
TypeOK ==
    /\ mode \in Modes
    /\ CallsOK
    /\ CancelsOK
    /\ TablesOK
    /\ BrokerOK
    /\ WorkerOK
    /\ faults \in 0..MaxFaults

(* Two orders never share an idempotency key, although a create call looks *)
(* the key up and inserts in separate transactions.                        *)
UniqueKey ==
    \A o1, o2 \in Requests :
        Exists(o1) /\ Exists(o2) /\ orders[o1].key = orders[o2].key => o1 = o2

(* Calls with one key that are answered 201 are answered alike, whatever   *)
(* raced or was retried in between: the same order, the same decision, and *)
(* they asked for the same thing.                                          *)
SameKeySameAnswer ==
    \A r1, r2 \in Requests :
        /\ call[r1].answer = "created" /\ call[r2].answer = "created"
        /\ call[r1].key = call[r2].key
        => /\ call[r1].order = call[r2].order
           /\ call[r1].allowed = call[r2].allowed
           /\ call[r1].body = call[r2].body

(* Only orders the policy allowed are ever placed at the broker, although  *)
(* the worker writes statuses without looking at the row.                  *)
OnlyAllowedPlaced ==
    \A i \in DOMAIN placements : orders[placements[i].order].allowed

PlacementsOf(o) == {i \in DOMAIN placements : placements[i].order = o}
ExecutionsOf(o) == {i \in PlacementsOf(o) : placements[i].status \in FilledStatuses}

(* docs/plans/live-execution-broker.md: the worker "calls PlaceOrder once  *)
(* per accepted order".                                                    *)
PlacedOnce == \A o \in Requests : Cardinality(PlacementsOf(o)) <= 1

(* Placing an order a second time takes a failure: a lost reply, a         *)
(* provider id that was not stored, or a crash before it was.              *)
ExtraPlacementsCostFaults ==
    Len(placements) <= Cardinality({o \in Requests : PlacementsOf(o) # {}}) + faults

(* In live mode a stored provider_order_id names a placement of that very  *)
(* order, so that polling it observes the right order.                     *)
ProviderIdIsOwn ==
    mode = "live" =>
        \A o \in Requests : orders[o].provId # 0 => orders[o].provId \in PlacementsOf(o)

(* Fill rows never claim more than the broker executed, except once more   *)
(* per failure (an observed fill whose status update failed is observed    *)
(* again), and none exists for an order of which nothing was executed.     *)
FillsBackedByExecutions ==
    \A o \in Requests :
        fills[o] > 0 => /\ ExecutionsOf(o) # {}
                        /\ fills[o] <= Cardinality(ExecutionsOf(o)) + faults

(* Without failures an order that stays filled has exactly one fill row:   *)
(* it leaves the open set before the fill is written, so no later tick     *)
(* would write it.                                                         *)
FilledOrdersHaveTheirFill ==
    \A o \in Requests :
        /\ faults = 0
        /\ orders[o].status = "filled"
        /\ o \notin HeldByWorker
        => fills[o] = 1

(* A closed order that neither the worker's tick nor a cancel call got     *)
(* hold of while it was open is settled.                                   *)
Settled(o) ==
    /\ orders[o].status \in ClosedStatuses
    /\ o \notin HeldByWorker
    /\ \A c \in Cancels : cancel[c].pc = "update" => cancel[c].order # o

(* A settled order stays so for ever: no tick or cancel call gets hold of  *)
(* it, it keeps its status, and it is neither placed again nor given       *)
(* another fill row.                                                       *)
SettledOrdersStaySettled ==
    [][\A o \in Requests : Settled(o) =>
          /\ Settled(o)'
          /\ orders'[o].status = orders[o].status
          /\ orders'[o].provId = orders[o].provId
          /\ fills'[o] = fills[o]
          /\ PlacementsOf(o)' = PlacementsOf(o)]_vars

(* Neither check saw the other order. *)
Raced(o1, o2) == o1 \notin call[o2].seen /\ o2 \notin call[o1].seen

(* What the broker buys: it does not mind how the side is spelled. *)
Buys(o) == Lower(orders[o].body.side) = "buy"

OpenExposure == MapThenSumSet(LAMBDA o : Notional(orders[o].body), {o \in OpenOrders : Buys(o)})

(* An open buy order the cap neither stopped nor counts: its side is "BUY".*)
Uncounted(o) == Buys(o) /\ orders[o].body.side # "buy"

(* A check counted on an order of negative amount, which is closed by now: *)
(* Validate lets a negative limit price pass, and such an order makes room *)
(* under the cap for as long as it is open.                                *)
Undermined(o) == \E s \in call[o].seen \ OpenOrders :
                     orders[s].body.side = "buy" /\ Notional(orders[s].body) < 0

(* Open buy orders, however spelled, exceed the global cap only if two of  *)
(* them were checked without seeing one another (their create calls        *)
(* overlapped, or one of them was closed at the time and reopened since),  *)
(* or a check could not list the open orders, or saw one of negative       *)
(* amount that was to close, or the policy does not count one of them.     *)
ExposureOverrunNeedsRace ==
    RiskPolicy.globalMax > 0 /\ OpenExposure > RiskPolicy.globalMax =>
        \/ \E o1, o2 \in OpenOrders : o1 # o2 /\ Raced(o1, o2)
        \/ \E o \in OpenOrders : call[o].blind \/ Undermined(o) \/ Uncounted(o)

(* docs/mcp-crypto-execution-spec.md, risk check 10: current_exposure +    *)
(* proposed_notional <= global_max_exposure.                               *)
ExposureWithinCap ==
    RiskPolicy.globalMax > 0 => OpenExposure <= RiskPolicy.globalMax

(* docs/mcp-crypto-execution-spec.md, risk check 9: sell orders require    *)
(* available position (no shorting).  So what an accepted sell order asks  *)
(* for was held, and not already promised by an open order its check saw.  *)
SellsAreCovered ==
    \A o \in Requests :
        orders[o].allowed /\ Lower(orders[o].body.side) = "sell" =>
            orders[o].body.qty
               + PendingSell({PolicyView(s) : s \in call[o].seen}, orders[o].body.symbol)
            <= orders[o].body.held

(* docs/runbooks/coinbase-trading.md: live cancels propagate to Coinbase   *)
(* when provider_order_id is set.  So a live order with a provider id      *)
(* whose row says canceled, and which the worker is not just working on,   *)
(* is not executed any more, whatever the cancel call was answered.        *)
CanceledOrdersDoNotExecute ==
    [][\A o \in Requests :
          /\ mode = "live"
          /\ orders[o].status = "canceled" /\ orders[o].provId # 0
          /\ o \notin HeldByWorker
          => ExecutionsOf(o)' = ExecutionsOf(o)]_vars

(* docs/plans/live-execution-broker.md: "Policy rejects | Kill switch,     *)
(* symbol deny, max notional - all still 201 + decision.allowed=false".    *)
(* So a call that nothing disturbed and whose order was stored as rejected *)
(* is answered 201.                                                        *)
RejectionsAreAnswered201 ==
    \A r \in Requests :
        faults = 0 /\ Exists(r) /\ ~orders[r].allowed /\ call[r].pc = "done" =>
            call[r].answer = "created"

(* Nobody has anything left to write to o. *)
Quiet(o) == /\ o \notin HeldByWorker
            /\ call[o].pc = "done"
            /\ \A c \in Cancels : cancel[c].order = o => cancel[c].pc = "done"

(* .board/milestones/coinbase/cb-06.md: the tables hold the lifecycle of   *)
(* an order and its audit trail.  So when nothing has failed, the events   *)
(* tell how an order came to its state: its decision, that it was          *)
(* submitted, and what closed it.                                          *)
AuditTrail ==
    \A o \in Requests :
        faults = 0 /\ Exists(o) /\ Quiet(o) =>
            /\ (IF orders[o].allowed THEN "accept" ELSE "reject") \in events[o]
            /\ orders[o].provId # 0 => "submit" \in events[o]
            /\ orders[o].allowed /\ ~IsOpen(orders[o].status) =>
                  events[o] \cap {"submit", "poll", "cancel"} # {}

(* What a caller can know of the create calls, in the terms of             *)
(* IdempotentCreate.                                                       *)
askedBar   == [r \in Requests |-> [key |-> call[r].key, body |-> call[r].body]]
bookBar    == [k \in Keys |->
                 IF OrdersWithKey(k) = {} THEN [order |-> None, body |-> None, allowed |-> FALSE]
                 ELSE LET o == CHOOSE o \in OrdersWithKey(k) : TRUE
                      IN  [order |-> o, body |-> orders[o].body, allowed |-> orders[o].allowed]]
answersBar == [r \in Requests |->
                 [kind    |-> call[r].answer,
                  order   |-> call[r].order,
                  allowed |-> call[r].answer = "created" /\ call[r].allowed]]

Promise == INSTANCE IdempotentCreate
               WITH asked <- askedBar, book <- bookBar, answers <- answersBar

(* The create calls, with the check and the insert apart, with failures    *)
(* between any two statements and with the worker rewriting the rows,      *)
(* implement one atomic "make the order of this key once".                 *)
KeepsPromise == Promise!AbstractSpec

(* Every accepted order is sent to the broker, or canceled first, if       *)
(* failures stop.                                                          *)
AcceptedOrdersArePlaced ==
    \A o \in Requests :
        orders[o].status = "accepted" ~> orders[o].provId # 0 \/ ~IsOpen(orders[o].status)

(* Every order is closed for good in the end: live whatever fails, on a    *)
(* paper broker that fills or rejects if nothing fails (it cannot be       *)
(* polled, so a status update that failed once is not made up for).        *)
OrdersCloseForGood ==
    \A o \in Requests :
        Exists(o) ~> \/ [](orders[o].status \in ClosedStatuses)
                     \/ mode \in {"accept", "partial"}
                     \/ mode # "live" /\ faults > 0
=============================================================================
