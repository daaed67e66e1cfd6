----------------------- MODULE TradingOrders_proofs -----------------------
(***************************************************************************)
(* Proofs about TradingOrders, for any number of calls, keys, bodies and   *)
(* failures, any policy and any mode of the broker: its types, that create *)
(* calls are idempotent, and that they implement IdempotentCreate.         *)
(*                                                                         *)
(* TypeOK is not inductive: a status is written to a row because a handler *)
(* read it earlier, and the broker is polled for an id that was stored     *)
(* earlier.  Rows that a handler holds must therefore exist (HeldExist),   *)
(* and in live mode stored and held ids must name placements (IdsOwn).     *)
(*                                                                         *)
(* Idempotency rests on what a row never changes: once inserted it keeps   *)
(* its key, its body and its decision, whatever statuses are written to it *)
(* (RowStep).  In the refinement InsertOrder is where an order is made     *)
(* (Make); replays, conflicts and the final answer are read from the book  *)
(* (Reply); every other step is invisible to callers.                      *)
(***************************************************************************)
EXTENDS TradingOrders, TLAPS

(* The row a handler is about to write is there. *)
HeldExist ==
    /\ \A c \in Cancels : cancel[c].pc \in {"update", "event"} => Exists(cancel[c].order)
    /\ \A s \in batch : Exists(s.id)
    /\ wpc # "next" => Exists(cur.id)

(* In live mode every id that is stored, or held by the worker, names a    *)
(* placement of its order.                                                 *)
IdsOwn ==
    mode = "live" =>
        /\ base = 0
        /\ \A o \in Requests : orders[o].provId # 0 => orders[o].provId \in PlacementsOf(o)
        /\ \A s \in batch : s.provId # 0 => s.provId \in PlacementsOf(s.id)
        /\ wpc = "setid" => cur.placedId \in PlacementsOf(cur.id)

TypeInv == TypeOK /\ HeldExist /\ IdsOwn

(* TypeInv holds at the start. *)
LEMMA TypeInit == Init => TypeInv
  <1> SUFFICES ASSUME Init PROVE TypeInv
    OBVIOUS
  <1> USE DEF Init
  <1>1. CallsOK
    BY DEF CallsOK, CallRecord, CallPcs, NoCall
  <1>2. CancelsOK
    BY DEF CancelsOK, CancelRecord, CancelPcs, NoCancel
  <1>3. TablesOK
    BY DEF TablesOK, NoRow
  <1>4. BrokerOK
    BY DEF BrokerOK
  <1>5. WorkerOK
    BY DEF WorkerOK, NoCur
  <1>6. faults \in 0..MaxFaults
    BY FaultsAssumption
  <1>7. HeldExist
    BY DEF HeldExist, NoCancel
  <1>8. IdsOwn
    BY DEF IdsOwn, NoRow
  <1> QED BY <1>1, <1>2, <1>3, <1>4, <1>5, <1>6, <1>7, <1>8 DEF TypeInv, TypeOK

(* A create call goes from one well-formed record to another.              *)
LEMMA CallType ==
  ASSUME CallsOK, NEW r \in Requests, NEW new \in CallRecord,
         new.pc # "idle" => new.key \in Keys /\ new.body \in Bodies,
         call' = [call EXCEPT ![r] = new]
  PROVE  CallsOK'
  BY DEF CallsOK

(* A create call that moves on, or is answered, keeps its key and body.    *)
LEMMA GotoType ==
  ASSUME CallsOK, NEW r \in Requests, call[r].pc # "idle",
         NEW pc \in CallPcs, Goto(r, pc)
  PROVE  CallsOK'
  BY DEF CallsOK, Goto, CallRecord

LEMMA AnswerType ==
  ASSUME CallsOK, NEW r \in Requests, call[r].pc # "idle",
         NEW answer \in {"none", "created", "conflict", "error"},
         NEW o \in Requests \cup {None}, NEW allowed \in BOOLEAN,
         Answer(r, answer, o, allowed)
  PROVE  CallsOK'
  <1> DEFINE new == [call[r] EXCEPT !.pc = "done", !.answer = answer,
                                    !.order = o, !.allowed = allowed]
  <1>1. call[r] \in CallRecord /\ call[r].key \in Keys /\ call[r].body \in Bodies
    BY DEF CallsOK
  <1>2. new \in CallRecord /\ new.key = call[r].key /\ new.body = call[r].body
    BY <1>1 DEF CallRecord, CallPcs
  <1>3. call' = [call EXCEPT ![r] = new]
    BY DEF Answer
  <1> HIDE DEF new
  <1> QED BY <1>1, <1>2, <1>3, CallType

LEMMA FailType ==
  ASSUME CallsOK, NEW r \in Requests, call[r].pc # "idle", Fail(r)
  PROVE  CallsOK'
  BY AnswerType DEF Fail

(* The fields of a row. *)
LEMMA RowFields ==
  ASSUME TablesOK, NEW o \in Requests
  PROVE  /\ orders[o].allowed \in BOOLEAN
         /\ orders[o].provId \in Nat
         /\ Exists(o) => orders[o] \in Row
  <1>1. orders[o] \in Row \/ orders[o] = NoRow
    BY DEF TablesOK
  <1>2. CASE orders[o] \in Row
    BY <1>2 DEF Row
  <1>3. CASE orders[o] = NoRow
    BY <1>3 DEF NoRow, Exists
  <1> QED BY <1>1, <1>2, <1>3

(* The count of failures stays within its bound. *)
LEMMA FaultCount ==
  ASSUME faults \in 0..MaxFaults, NEW kind, Fault(kind) \/ NoFault
  PROVE  faults' \in 0..MaxFaults
  BY FaultsAssumption DEF Fault, NoFault

(* What holds of rows, cancel calls and the worker is kept by a step that  *)
(* changes neither cancel calls nor worker nor broker, as long as rows     *)
(* stay and keep their broker id.                                          *)
LEMMA HeldKept ==
  ASSUME TypeInv, UNCHANGED <<mode, cancel, brokerVars, workerVars>>,
         \A o \in Requests : Exists(o) => Exists(o)',
         \A o \in Requests : orders'[o].provId \in {0, orders[o].provId}
  PROVE  HeldExist' /\ IdsOwn'
  <1> USE DEF brokerVars, workerVars
  <1>1. HeldExist'
    BY DEF TypeInv, TypeOK, HeldExist, CancelsOK, WorkerOK, SnapshotRecord, CurRecord
  <1>2. \A o : PlacementsOf(o)' = PlacementsOf(o)
    BY DEF PlacementsOf
  <1>3. IdsOwn'
    BY <1>2 DEF TypeInv, IdsOwn
  <1> QED BY <1>1, <1>3

LEMMA CreateTypeInv ==
  ASSUME TypeInv, NEW r \in Requests, Create(r)
  PROVE  TypeInv'
  <1> USE DEF apiVars, tables, brokerVars, workerVars
  <1>0. CallsOK /\ TablesOK /\ faults \in 0..MaxFaults
    BY DEF TypeInv, TypeOK
  <1>1. UNCHANGED <<mode, cancel, fills, brokerVars, workerVars>>
    BY DEF Create, SubmitCreate, LookupKey, CheckPolicy, InsertOrder, SaveResponse,
           AppendCreateEvent
  <1>2. CallsOK' /\ faults' \in 0..MaxFaults
    <2>1. ASSUME NEW key \in Keys, NEW body \in Bodies, SubmitCreate(r, key, body)
          PROVE  CallsOK' /\ faults' \in 0..MaxFaults
      BY <1>0, <2>1 DEF SubmitCreate, CallsOK, CallRecord, NoCall, CallPcs
    <2>2. CASE LookupKey(r)
      <3>1. call[r].pc # "idle"
        BY <2>2 DEF LookupKey
      <3>2. CASE Goto(r, "check") /\ NoFault
        BY <1>0, <3>1, <3>2, GotoType DEF CallPcs, NoFault
      <3>3. ASSUME NEW o \in OrdersWithKey(call[r].key), NoFault,
                   IF SameRequest(o, r) THEN Answer(r, "created", o, orders[o].allowed)
                   ELSE Answer(r, "conflict", o, FALSE)
            PROVE  CallsOK' /\ faults' \in 0..MaxFaults
        <4>1. o \in Requests /\ orders[o].allowed \in BOOLEAN
          BY <1>0, RowFields DEF OrdersWithKey
        <4> QED BY <1>0, <3>1, <3>3, <4>1, AnswerType DEF NoFault
      <3>4. CASE Fault("lookup") /\ Fail(r)
        BY <1>0, <3>1, <3>4, FailType, FaultCount
      <3> QED BY <2>2, <3>2, <3>3, <3>4 DEF LookupKey
    <2>3. CASE CheckPolicy(r)
      <3>1. PICK blind \in BOOLEAN, seen \in SUBSET OpenOrders :
                  /\ IF blind THEN Fault("list") ELSE NoFault /\ seen = OpenOrders
                  /\ call' = [call EXCEPT ![r] = [@ EXCEPT
                        !.pc = "insert", !.seen = seen, !.blind = blind,
                        !.allowed =
                          Allowed(RiskPolicy, {PolicyView(o) : o \in seen}, call[r].body)]]
        BY <2>3 DEF CheckPolicy
      <3> DEFINE allowed == Allowed(RiskPolicy, {PolicyView(o) : o \in seen}, call[r].body)
                 new == [call[r] EXCEPT !.pc = "insert", !.seen = seen, !.blind = blind,
                                        !.allowed = allowed]
      <3>2. seen \in SUBSET Requests
        BY DEF OpenOrders
      <3>3. allowed \in BOOLEAN
        BY DEF Allowed
      <3>4. call[r] \in CallRecord /\ call[r].key \in Keys /\ call[r].body \in Bodies
        BY <1>0, <2>3 DEF CallsOK, CheckPolicy
      <3>5. call' = [call EXCEPT ![r] = new]
        BY <3>1
      <3> HIDE DEF allowed
      <3>6. new \in CallRecord /\ new.key = call[r].key /\ new.body = call[r].body
        BY <3>2, <3>3, <3>4 DEF CallRecord, CallPcs
      <3>7. faults' \in 0..MaxFaults
        BY <1>0, <3>1, FaultCount
      <3> HIDE DEF new
      <3> QED BY <1>0, <3>4, <3>5, <3>6, <3>7, CallType
    <2>4. CASE InsertOrder(r)
      BY <1>0, <2>4, GotoType, FailType, FaultCount DEF InsertOrder, CallPcs, NoFault
    <2>5. CASE SaveResponse(r)
      BY <1>0, <2>5, GotoType, FailType, FaultCount DEF SaveResponse, CallPcs, NoFault
    <2>6. CASE AppendCreateEvent(r)
      <3>1. call[r].pc # "idle" /\ call[r].allowed \in BOOLEAN
        BY <1>0, <2>6 DEF AppendCreateEvent, CallsOK, CallRecord
      <3> QED BY <1>0, <2>6, <3>1, AnswerType, FailType, FaultCount
              DEF AppendCreateEvent, NoFault
    <2> QED BY <2>1, <2>2, <2>3, <2>4, <2>5, <2>6 DEF Create
  <1>3. /\ TablesOK'
        /\ \A o \in Requests : Exists(o) => Exists(o)'
        /\ \A o \in Requests : orders'[o].provId \in {0, orders[o].provId}
    <2>1. CASE orders' = [orders EXCEPT ![r] = NewRow(r)] /\ UNCHANGED <<events, fills>>
               /\ call[r].pc = "insert"
      <3>1. NewRow(r) \in Row
        BY <1>0, <2>1 DEF CallsOK, CallRecord, NewRow, Row, Statuses, OpenStatuses, ClosedStatuses
      <3>2. NewRow(r).status # "absent" /\ NewRow(r).provId = 0
        BY DEF NewRow
      <3> QED BY <1>0, <2>1, <3>1, <3>2 DEF TablesOK, Exists
    <2>2. CASE UNCHANGED orders /\ (events' = events \/ Record(r, CreateEvent(r)))
      BY <1>0, <1>1, <2>2 DEF TablesOK, Exists, Record, CreateEvent
    <2> QED BY <2>1, <2>2 DEF Create, SubmitCreate, LookupKey, CheckPolicy, InsertOrder,
               SaveResponse, AppendCreateEvent
  <1>4. HeldExist' /\ IdsOwn'
    BY <1>1, <1>3, HeldKept
  <1>5. mode' \in Modes /\ CancelsOK' /\ BrokerOK' /\ WorkerOK'
    BY <1>1 DEF TypeInv, TypeOK, CancelsOK, BrokerOK, WorkerOK
  <1> QED BY <1>2, <1>3, <1>4, <1>5 DEF TypeInv, TypeOK

(* Writing a status or a broker id to a row that exists keeps the table,   *)
(* and every row in it.                                                    *)
LEMMA SetStatusType ==
  ASSUME TablesOK, NEW o \in Requests, Exists(o), NEW status \in Statuses,
         SetStatus(o, status)
  PROVE  /\ orders' \in [Requests -> Row \cup {NoRow}]
         /\ \A p \in Requests : Exists(p) => Exists(p)'
         /\ \A p \in Requests : orders'[p].provId = orders[p].provId
  <1> DEFINE new == [orders[o] EXCEPT !.status = status]
  <1>1. orders[o] \in Row
    BY RowFields
  <1>2. new \in Row /\ new.status # "absent" /\ new.provId = orders[o].provId
    BY <1>1 DEF Row, Statuses, OpenStatuses, ClosedStatuses
  <1>3. orders' = [orders EXCEPT ![o] = new]
    BY DEF SetStatus
  <1> HIDE DEF new
  <1> QED BY <1>2, <1>3 DEF TablesOK, Exists

LEMMA CancelTypeInv ==
  ASSUME TypeInv, NEW c \in Cancels, Cancel(c)
  PROVE  TypeInv'
  <1> USE DEF apiVars, tables, brokerVars, workerVars
  <1>0. CancelsOK /\ TablesOK /\ faults \in 0..MaxFaults /\ HeldExist
    BY DEF TypeInv, TypeOK
  <1>1. UNCHANGED <<mode, call, fills, brokerVars, workerVars>>
    BY DEF Cancel, StartCancel, CancelReadFails, WriteCanceled, AppendCancelEvent
  <1>2. CancelsOK' /\ faults' \in 0..MaxFaults
    <2>1. ASSUME NEW o \in Requests, StartCancel(c, o)
          PROVE  CancelsOK' /\ faults' \in 0..MaxFaults
      BY <1>0, <2>1 DEF StartCancel, CancelsOK, CancelRecord, CancelPcs
    <2>2. ASSUME NEW answer \in {"none", "refused", "canceled", "error"}, EndCancel(c, answer)
          PROVE  CancelsOK'
      BY <1>0, <2>2, ZenonT(60) DEF EndCancel, CancelsOK, CancelRecord, CancelPcs
    <2>3. CASE CancelReadFails(c)
      BY <1>0, <2>2, <2>3, FaultCount DEF CancelReadFails
    <2>4. CASE WriteCanceled(c)
      <3>1. CASE NoFault /\ cancel' = [cancel EXCEPT ![c].pc = "event"]
        BY <1>0, <2>4, <3>1 DEF WriteCanceled, NoFault, CancelsOK, CancelRecord, CancelPcs
      <3>2. CASE Fault("cancel") /\ EndCancel(c, "error")
        BY <1>0, <2>2, <3>2, FaultCount
      <3> QED BY <2>4, <3>1, <3>2 DEF WriteCanceled
    <2>5. CASE AppendCancelEvent(c)
      BY <1>0, <2>2, <2>5, FaultCount DEF AppendCancelEvent, NoFault
    <2> QED BY <2>1, <2>3, <2>4, <2>5 DEF Cancel
  <1>3. /\ TablesOK'
        /\ \A o \in Requests : Exists(o) => Exists(o)'
        /\ \A o \in Requests : orders'[o].provId = orders[o].provId
    <2>1. CASE /\ cancel[c].pc = "update" /\ SetStatus(cancel[c].order, "canceled")
               /\ UNCHANGED <<events, fills>>
      <3>1. cancel[c].order \in Requests /\ Exists(cancel[c].order) /\ "canceled" \in Statuses
        BY <1>0, <2>1 DEF CancelsOK, HeldExist, Statuses, ClosedStatuses
      <3> QED BY <1>0, <2>1, <3>1, SetStatusType DEF TablesOK
    <2>2. CASE /\ UNCHANGED orders
               /\ \/ UNCHANGED events
                  \/ cancel[c].pc = "event" /\ Record(cancel[c].order, "cancel")
      BY <1>0, <1>1, <2>2 DEF TablesOK, Exists, Record, CancelsOK
    <2> QED BY <2>1, <2>2
            DEF Cancel, StartCancel, CancelReadFails, WriteCanceled, AppendCancelEvent
  <1>4. HeldExist'
    <2>1. \A d \in Cancels : cancel'[d].pc \in {"update", "event"} =>
              /\ cancel'[d].order \in Requests
              /\ Exists(cancel'[d].order)
      <3>1. ASSUME NEW o \in Requests, StartCancel(c, o)
            PROVE  \A d \in Cancels : cancel'[d].pc \in {"update", "event"} =>
                      /\ cancel'[d].order \in Requests
                      /\ Exists(cancel'[d].order)
        BY <1>0, <3>1 DEF StartCancel, HeldExist, CancelsOK
      <3>2. CASE \/ CancelReadFails(c)
                 \/ WriteCanceled(c)
                 \/ AppendCancelEvent(c)
        BY <1>0, <3>2 DEF CancelReadFails, WriteCanceled, AppendCancelEvent, EndCancel,
                          HeldExist, CancelsOK, CancelRecord
      <3> QED BY <3>1, <3>2 DEF Cancel
    <2> QED BY <1>0, <1>1, <1>3, <2>1
            DEF HeldExist, TypeInv, TypeOK, WorkerOK, SnapshotRecord, CurRecord
  <1>5. IdsOwn'
    <2>1. \A o : PlacementsOf(o)' = PlacementsOf(o)
      BY <1>1 DEF PlacementsOf
    <2> QED BY <1>1, <1>3, <2>1 DEF TypeInv, IdsOwn
  <1>6. mode' \in Modes /\ CallsOK' /\ BrokerOK' /\ WorkerOK'
    BY <1>1 DEF TypeInv, TypeOK, CallsOK, BrokerOK, WorkerOK
  <1> QED BY <1>2, <1>3, <1>4, <1>5, <1>6 DEF TypeInv, TypeOK

(* The broker's book only grows. *)
LEMMA PlacementsGrow ==
  ASSUME BrokerOK, NEW p \in Placement, placements' = Append(placements, p)
  PROVE  /\ placements' \in Seq(Placement)
         /\ Len(placements') = Len(placements) + 1
         /\ \A o : PlacementsOf(o) \subseteq PlacementsOf(o)'
         /\ Len(placements) + 1 \in PlacementsOf(p.order)'
  BY DEF BrokerOK, PlacementsOf

(* A step that leaves the tables alone, and in which the worker takes an   *)
(* order from its batch, keeps what holds of rows and ids.                 *)
LEMMA HeldTaken ==
  ASSUME TypeInv, NEW s \in batch, batch' = batch \ {s},
         UNCHANGED <<mode, apiVars, tables, base>>,
         \A o : PlacementsOf(o) \subseteq PlacementsOf(o)',
         \/ NextOrder
         \/ /\ cur'.id = s.id /\ wpc' # "setid"
         \/ /\ cur'.id = s.id
            /\ mode = "live" => cur'.placedId \in PlacementsOf(s.id)'
  PROVE  HeldExist' /\ IdsOwn'
  <1> USE DEF apiVars, tables
  <1>1. s.id \in Requests /\ Exists(s.id)
    BY DEF TypeInv, TypeOK, WorkerOK, SnapshotRecord, HeldExist
  <1>2. HeldExist'
    BY <1>1 DEF HeldExist, TypeInv, Exists, NextOrder
  <1>3. IdsOwn'
    BY DEF IdsOwn, TypeInv, NextOrder
  <1> QED BY <1>2, <1>3

(* What PlaceOrder and GetOrder leave the worker with is well formed. *)
LEMMA WorkType ==
  ASSUME NEW s \in SnapshotRecord, NEW action \in {"place", "poll", "touch"},
         NEW observed \in Statuses, NEW placedId \in Nat,
         Work(s, action, observed, placedId)
  PROVE  cur' \in CurRecord /\ cur'.id = s.id /\ cur'.placedId = placedId
  BY DEF Work, SnapshotRecord, CurRecord

LEMMA TickTypeInv ==
  ASSUME TypeInv, Tick
  PROVE  TypeInv'
  <1> USE DEF apiVars, tables, brokerVars
  <1>1. \A o \in OpenOrders : /\ Snapshot(o) \in SnapshotRecord
                             /\ Exists(o)
    BY RowFields DEF TypeInv, TypeOK, OpenOrders, Snapshot, SnapshotRecord, IsOpen, Exists,
                     OpenStatuses
  <1>2. WorkerOK'
    BY <1>1 DEF Tick, TypeInv, TypeOK, WorkerOK
  <1>3. HeldExist'
    BY <1>1 DEF Tick, TypeInv, HeldExist, Exists, Snapshot
  <1>4. \A o : PlacementsOf(o)' = PlacementsOf(o)
    BY DEF Tick, PlacementsOf
  <1>5. IdsOwn'
    BY <1>4 DEF Tick, TypeInv, IdsOwn, Snapshot, OpenOrders
  <1> QED BY <1>2, <1>3, <1>5
          DEF Tick, TypeInv, TypeOK, CallsOK, CancelsOK, TablesOK, BrokerOK

LEMMA PlaceOrderTypeInv ==
  ASSUME TypeInv, NEW s \in batch, PlaceOrder(s)
  PROVE  TypeInv'
  <1> USE DEF apiVars, tables
  <1>0. /\ BrokerOK /\ WorkerOK /\ faults \in 0..MaxFaults
        /\ s \in SnapshotRecord /\ s.id \in Requests
    BY DEF TypeInv, TypeOK, WorkerOK, SnapshotRecord
  <1>1. UNCHANGED <<mode, apiVars, tables, base>> /\ batch' = batch \ {s}
    BY DEF PlaceOrder
  <1>2. PlaceStatus \in Statuses
    BY DEF PlaceStatus, Statuses, OpenStatuses, ClosedStatuses
  <1> DEFINE p == [order |-> s.id, status |-> PlaceStatus]
  <1>3. p \in Placement
    BY <1>0, <1>2 DEF Placement
  <1>4. NewProviderId \in Nat
    BY <1>0 DEF NewProviderId, BrokerOK
  <1>5. CASE placements' = Append(placements, p)
    <2>1. /\ BrokerOK'
          /\ \A o : PlacementsOf(o) \subseteq PlacementsOf(o)'
          /\ Len(placements) + 1 \in PlacementsOf(p.order)'
      BY <1>0, <1>1, <1>3, <1>5, PlacementsGrow DEF BrokerOK
    <2>2. CASE NoFault /\ Work(s, "place", PlaceStatus, NewProviderId) /\ wpc' = "setid"
      <3>1. cur' \in CurRecord /\ cur'.id = s.id /\ cur'.placedId = NewProviderId
        BY <1>0, <1>2, <1>4, <2>2, WorkType
      <3>2. mode = "live" => cur'.placedId \in PlacementsOf(s.id)'
        <4>1. mode = "live" => NewProviderId = Len(placements) + 1
          BY <1>0 DEF NewProviderId, TypeInv, IdsOwn, BrokerOK
        <4> QED BY <2>1, <3>1, <4>1
      <3>3. HeldExist' /\ IdsOwn'
        BY <1>1, <2>1, <3>1, <3>2, HeldTaken
      <3>4. WorkerOK' /\ faults' \in 0..MaxFaults
        BY <1>0, <1>1, <2>2, <3>1 DEF WorkerOK, NoFault
      <3> QED BY <1>1, <2>1, <3>3, <3>4 DEF TypeInv, TypeOK, CallsOK, CancelsOK, TablesOK
    <2>3. CASE Fault("lost_reply") /\ NextOrder
      <3>1. HeldExist' /\ IdsOwn'
        BY <1>1, <2>1, <2>3, HeldTaken
      <3>2. WorkerOK' /\ faults' \in 0..MaxFaults
        BY <1>0, <1>1, <2>3, FaultCount DEF WorkerOK, NextOrder
      <3> QED BY <1>1, <2>1, <3>1, <3>2 DEF TypeInv, TypeOK, CallsOK, CancelsOK, TablesOK
    <2> QED BY <1>5, <2>2, <2>3 DEF PlaceOrder, Fault, NextOrder
  <1>6. CASE Fault("refused") /\ NextOrder /\ UNCHANGED placements
    <2>1. BrokerOK' /\ \A o : PlacementsOf(o) \subseteq PlacementsOf(o)'
      BY <1>0, <1>1, <1>6 DEF BrokerOK, PlacementsOf
    <2>2. HeldExist' /\ IdsOwn'
      BY <1>1, <1>6, <2>1, HeldTaken
    <2>3. WorkerOK' /\ faults' \in 0..MaxFaults
      BY <1>0, <1>1, <1>6, FaultCount DEF WorkerOK, NextOrder
    <2> QED BY <1>1, <2>1, <2>2, <2>3 DEF TypeInv, TypeOK, CallsOK, CancelsOK, TablesOK
  <1> QED BY <1>5, <1>6 DEF PlaceOrder

LEMMA PollOrderTypeInv ==
  ASSUME TypeInv, NEW s \in batch, PollOrder(s) \/ TouchOrder(s)
  PROVE  TypeInv'
  <1> USE DEF apiVars, tables, brokerVars
  <1>0. /\ BrokerOK /\ WorkerOK /\ faults \in 0..MaxFaults
        /\ s \in SnapshotRecord /\ s.provId \in Nat /\ s.status \in Statuses
    BY DEF TypeInv, TypeOK, WorkerOK, SnapshotRecord, Statuses
  <1>1. UNCHANGED <<mode, apiVars, tables, brokerVars>> /\ batch' = batch \ {s}
    BY DEF PollOrder, TouchOrder
  <1>2. \A o : PlacementsOf(o) \subseteq PlacementsOf(o)'
    BY <1>1 DEF PlacementsOf
  <1>3. CASE NextOrder /\ Fault("poll")
    <2>1. HeldExist' /\ IdsOwn'
      BY <1>1, <1>2, <1>3, HeldTaken
    <2>2. WorkerOK' /\ faults' \in 0..MaxFaults
      BY <1>0, <1>1, <1>3, FaultCount DEF WorkerOK, NextOrder
    <2> QED BY <1>1, <2>1, <2>2 DEF TypeInv, TypeOK, CallsOK, CancelsOK, TablesOK, BrokerOK
  <1>4. ASSUME NEW action \in {"poll", "touch"}, NEW observed \in Statuses,
               Work(s, action, observed, 0), wpc' = "status", NoFault
        PROVE  TypeInv'
    <2>1. cur' \in CurRecord /\ cur'.id = s.id
      BY <1>0, <1>4, WorkType
    <2>2. HeldExist' /\ IdsOwn'
      BY <1>1, <1>2, <1>4, <2>1, HeldTaken
    <2>3. WorkerOK' /\ faults' \in 0..MaxFaults
      BY <1>0, <1>1, <1>4, <2>1 DEF WorkerOK, NoFault
    <2> QED BY <1>1, <2>2, <2>3 DEF TypeInv, TypeOK, CallsOK, CancelsOK, TablesOK, BrokerOK
  <1>5. CASE PollOrder(s)
    <2>1. CASE NoFault
      <3>1. s.provId \in PlacementsOf(s.id)
        BY <1>0, <1>5 DEF PollOrder, NeedsPlacement, TypeInv, IdsOwn
      <3>2. StatusAtBroker(s.provId) \in Statuses
        <4>1. placements[s.provId] \in Placement
          BY <1>0, <3>1 DEF PlacementsOf, BrokerOK
        <4> QED BY <4>1 DEF StatusAtBroker, Placement
      <3> QED BY <1>3, <1>4, <1>5, <2>1, <3>2 DEF PollOrder
    <2> QED BY <1>3, <1>5, <2>1 DEF PollOrder
  <1>6. CASE TouchOrder(s)
    BY <1>0, <1>4, <1>6 DEF TouchOrder, NoFault
  <1> QED BY <1>5, <1>6

LEMMA SetIdTypeInv ==
  ASSUME TypeInv, SetProviderOrderID
  PROVE  TypeInv'
  <1> USE DEF apiVars, brokerVars
  <1>0. /\ TablesOK /\ WorkerOK /\ cur \in CurRecord /\ faults \in 0..MaxFaults
        /\ cur.id \in Requests /\ cur.placedId \in Nat /\ Exists(cur.id)
    BY DEF SetProviderOrderID, TypeInv, TypeOK, WorkerOK, CurRecord, HeldExist
  <1> DEFINE new == [orders[cur.id] EXCEPT !.provId = cur.placedId]
  <1>1. new \in Row /\ new.status # "absent" /\ new.provId = cur.placedId
    BY <1>0, RowFields DEF Row, Statuses, OpenStatuses, ClosedStatuses
  <1>2. orders' = [orders EXCEPT ![cur.id] = new] \/ orders' = orders
    BY DEF SetProviderOrderID
  <1> HIDE DEF new
  <1>3. /\ TablesOK'
        /\ \A o \in Requests : Exists(o) => Exists(o)'
        /\ \A o \in Requests : orders'[o].provId # orders[o].provId =>
                               (o = cur.id /\ orders'[o].provId = cur.placedId)
    <2>1. UNCHANGED <<events, fills>>
      BY DEF SetProviderOrderID
    <2>2. CASE orders' = [orders EXCEPT ![cur.id] = new]
      BY <1>0, <1>1, <2>1, <2>2 DEF TablesOK, Exists
    <2>3. CASE orders' = orders
      BY <1>0, <2>1, <2>3 DEF TablesOK, Exists
    <2> QED BY <1>2, <2>2, <2>3
  <1>4. HeldExist'
    BY <1>0, <1>3 DEF SetProviderOrderID, HeldExist, TypeInv, TypeOK, CancelsOK, WorkerOK,
                      SnapshotRecord
  <1>5. \A o : PlacementsOf(o)' = PlacementsOf(o)
    BY DEF SetProviderOrderID, PlacementsOf
  <1>6. IdsOwn'
    BY <1>0, <1>3, <1>5 DEF SetProviderOrderID, IdsOwn, TypeInv
  <1>7. faults' \in 0..MaxFaults
    BY <1>0, FaultCount DEF SetProviderOrderID
  <1> QED BY <1>0, <1>3, <1>4, <1>6, <1>7
          DEF SetProviderOrderID, TypeInv, TypeOK, CallsOK, CancelsOK, BrokerOK, WorkerOK

(* The later steps of reconcileOrder write the row, the events or a fill,  *)
(* and go on to the next statement or to the next order.                   *)
LEMMA ReconcileTailTypeInv ==
  ASSUME TypeInv, UpdateStatus \/ AppendWorkerEvent \/ RecordFill
  PROVE  TypeInv'
  <1> USE DEF apiVars, tables, brokerVars
  <1>0. /\ TablesOK /\ WorkerOK /\ cur \in CurRecord /\ faults \in 0..MaxFaults
        /\ cur.id \in Requests /\ cur.observed \in Statuses /\ Exists(cur.id)
    BY DEF UpdateStatus, AppendWorkerEvent, RecordFill, TypeInv, TypeOK, WorkerOK, CurRecord,
           HeldExist
  <1>1. UNCHANGED <<mode, apiVars, brokerVars, batch>>
    BY DEF UpdateStatus, AppendWorkerEvent, RecordFill
  <1>2. NextOrder \/ (wpc' \in {"event", "fill"} /\ cur' = cur /\ wpc # "next")
    BY DEF UpdateStatus, AppendWorkerEvent, RecordFill
  <1>3. faults' \in 0..MaxFaults
    BY <1>0, FaultCount DEF UpdateStatus, AppendWorkerEvent, RecordFill
  <1>4. WorkerOK'
    BY <1>0, <1>1, <1>2 DEF WorkerOK, NextOrder
  <1>5. /\ TablesOK'
        /\ \A o \in Requests : Exists(o) => Exists(o)'
        /\ \A o \in Requests : orders'[o].provId = orders[o].provId
    <2>1. CASE SetStatus(cur.id, cur.observed) /\ UNCHANGED <<events, fills>>
      BY <1>0, <2>1, SetStatusType DEF TablesOK
    <2>2. CASE UNCHANGED <<orders, fills>> /\ (events' = events \/ Record(cur.id, WorkerEvent))
      BY <1>0, <2>2 DEF TablesOK, Exists, Record, WorkerEvent
    <2>3. CASE UNCHANGED <<orders, events>> /\ (fills' = fills \/ fills' = [fills EXCEPT ![cur.id] = @ + 1])
      BY <1>0, <2>3 DEF TablesOK, Exists
    <2> QED BY <2>1, <2>2, <2>3 DEF UpdateStatus, AppendWorkerEvent, RecordFill
  <1>6. HeldExist'
    BY <1>0, <1>1, <1>2, <1>5 DEF HeldExist, TypeInv, TypeOK, CancelsOK, WorkerOK,
                                  SnapshotRecord, NextOrder
  <1>7. \A o : PlacementsOf(o)' = PlacementsOf(o)
    BY <1>1 DEF PlacementsOf
  <1>8. IdsOwn'
    BY <1>1, <1>2, <1>5, <1>7 DEF IdsOwn, TypeInv, NextOrder
  <1> QED BY <1>1, <1>3, <1>4, <1>5, <1>6, <1>8
          DEF TypeInv, TypeOK, CallsOK, CancelsOK, BrokerOK

LEMMA RestartTypeInv ==
  ASSUME TypeInv, WorkerRestart
  PROVE  TypeInv'
  <1> USE DEF apiVars, tables
  <1>1. WorkerOK' /\ BrokerOK' /\ faults' \in 0..MaxFaults
    BY FaultCount DEF WorkerRestart, TypeInv, TypeOK, WorkerOK, BrokerOK
  <1>2. HeldExist'
    BY DEF WorkerRestart, TypeInv, HeldExist, Exists
  <1>3. \A o : PlacementsOf(o)' = PlacementsOf(o)
    BY DEF WorkerRestart, PlacementsOf
  <1>4. IdsOwn'
    BY <1>3 DEF WorkerRestart, TypeInv, IdsOwn
  <1> QED BY <1>1, <1>2, <1>4 DEF WorkerRestart, TypeInv, TypeOK, CallsOK, CancelsOK, TablesOK

(* The exchange decides an order: the book keeps its length and whose      *)
(* orders it holds.                                                        *)
LEMMA ResolveType ==
  ASSUME BrokerOK, NEW i \in DOMAIN placements, BrokerResolves(i)
  PROVE  /\ BrokerOK'
         /\ \A o : PlacementsOf(o)' = PlacementsOf(o)
  <1>1. PICK status \in ClosedStatuses :
           placements' = [placements EXCEPT ![i].status = status]
    BY DEF BrokerResolves
  <1> DEFINE new == [placements[i] EXCEPT !.status = status]
  <1>2. placements[i] \in Placement
    BY DEF BrokerOK
  <1>3. new \in Placement /\ new.order = placements[i].order
    BY <1>1, <1>2 DEF Placement, Statuses
  <1>4. placements' = [placements EXCEPT ![i] = new]
    BY <1>1
  <1> HIDE DEF new
  <1>5. /\ placements' \in Seq(Placement) /\ Len(placements') = Len(placements)
        /\ DOMAIN placements' = DOMAIN placements
    BY <1>3, <1>4 DEF BrokerOK
  <1>6. \A j \in DOMAIN placements : placements'[j].order = placements[j].order
    BY <1>3, <1>4 DEF BrokerOK
  <1> QED BY <1>5, <1>6 DEF BrokerResolves, BrokerOK, PlacementsOf

LEMMA EnvironmentTypeInv ==
  ASSUME TypeInv,
         \/ \E i \in DOMAIN placements : BrokerResolves(i)
         \/ \E o \in Requests : CooldownPasses(o)
  PROVE  TypeInv'
  <1> USE DEF apiVars, tables, brokerVars, workerVars
  <1>1. ASSUME NEW i \in DOMAIN placements, BrokerResolves(i)
        PROVE  TypeInv'
    <2>1. BrokerOK' /\ \A o : PlacementsOf(o)' = PlacementsOf(o)
      BY <1>1, ResolveType DEF TypeInv, TypeOK
    <2>2. HeldExist' /\ IdsOwn'
      BY <1>1, <2>1 DEF BrokerResolves, TypeInv, HeldExist, IdsOwn, Exists
    <2> QED BY <1>1, <2>1, <2>2
            DEF BrokerResolves, TypeInv, TypeOK, CallsOK, CancelsOK, TablesOK, WorkerOK
  <1>2. ASSUME NEW o \in Requests, CooldownPasses(o)
        PROVE  TypeInv'
    <2> DEFINE new == [orders[o] EXCEPT !.recent = FALSE]
    <2>1. TablesOK /\ orders[o] \in Row
      BY <1>2, RowFields DEF TypeInv, TypeOK, TablesOK, CooldownPasses, NoRow
    <2>2. /\ new \in Row
          /\ new.status = orders[o].status
          /\ new.provId = orders[o].provId
      BY <2>1 DEF Row
    <2>3. orders' = [orders EXCEPT ![o] = new]
      BY <1>2 DEF CooldownPasses
    <2> HIDE DEF new
    <2>4. /\ TablesOK'
          /\ \A p \in Requests : Exists(p) => Exists(p)'
          /\ \A p \in Requests : orders'[p].provId = orders[p].provId
      BY <1>2, <2>1, <2>2, <2>3, ZenonT(60) DEF CooldownPasses, TablesOK, Exists
    <2>5. HeldExist' /\ IdsOwn'
      BY <1>2, <2>4, HeldKept DEF CooldownPasses
    <2> QED BY <1>2, <2>4, <2>5
            DEF CooldownPasses, TypeInv, TypeOK, CallsOK, CancelsOK, BrokerOK, WorkerOK
  <1> QED BY <1>1, <1>2

(* Every step keeps TypeInv. *)
LEMMA TypeStep == TypeInv /\ [Next]_vars => TypeInv'
  <1> SUFFICES ASSUME TypeInv, [Next]_vars PROVE TypeInv'
    OBVIOUS
  <1>1. ASSUME NEW r \in Requests, Create(r) PROVE TypeInv'
    BY <1>1, CreateTypeInv
  <1>2. ASSUME NEW c \in Cancels, Cancel(c) PROVE TypeInv'
    BY <1>2, CancelTypeInv
  <1>3. CASE Tick
    BY <1>3, TickTypeInv
  <1>4. CASE Reconcile
    BY <1>4, PlaceOrderTypeInv, PollOrderTypeInv, SetIdTypeInv, ReconcileTailTypeInv
       DEF Reconcile
  <1>5. CASE WorkerRestart
    BY <1>5, RestartTypeInv
  <1>6. CASE \/ \E i \in DOMAIN placements : BrokerResolves(i)
             \/ \E o \in Requests : CooldownPasses(o)
    BY <1>6, EnvironmentTypeInv
  <1>7. CASE UNCHANGED vars
    BY <1>7 DEF vars, apiVars, tables, brokerVars, workerVars, TypeInv, TypeOK, CallsOK,
                CancelsOK, TablesOK, BrokerOK, WorkerOK, HeldExist, IdsOwn, Exists, PlacementsOf
  <1> QED BY <1>1, <1>2, <1>3, <1>4, <1>5, <1>6, <1>7 DEF Next

THEOREM TypeInvariant == Spec => []TypeInv
  BY TypeInit, TypeStep, PTL DEF Spec

(* Every variable of the order path always holds a value of its kind.      *)
THEOREM TypeCorrect == Spec => []TypeOK
  BY TypeInvariant, PTL DEF TypeInv

(* A provider_order_id stored in live mode names a placement of that very  *)
(* order, so that polling observes the right one.                          *)
THEOREM OwnProviderIds == Spec => []ProviderIdIsOwn
  <1>1. TypeInv => ProviderIdIsOwn
    BY DEF TypeInv, IdsOwn, ProviderIdIsOwn
  <1> QED BY <1>1, TypeInvariant, PTL
----------------------------------------------------------------------------
(* Rows and the keys of create calls                                       *)

(* A step leaves o without a row, or leaves the row its identity.          *)
SameRow(o) == /\ Exists(o)' <=> Exists(o)
              /\ orders'[o].key = orders[o].key
              /\ orders'[o].body = orders[o].body
              /\ orders'[o].allowed = orders[o].allowed

Inserts(r) == /\ InsertOrder(r)
              /\ ~KeyTaken(r)
              /\ orders' = [orders EXCEPT ![r] = NewRow(r)]

LEMMA SetStatusSameRow ==
  ASSUME TypeInv, NEW o \in Requests, Exists(o), NEW status \in Statuses,
         SetStatus(o, status)
  PROVE  \A p \in Requests : SameRow(p)
  <1> DEFINE new == [orders[o] EXCEPT !.status = status]
  <1>1. orders[o] \in Row /\ orders \in [Requests -> Row \cup {NoRow}]
    BY RowFields DEF TypeInv, TypeOK, TablesOK
  <1>2. /\ new.status # "absent" /\ new.key = orders[o].key
        /\ new.body = orders[o].body /\ new.allowed = orders[o].allowed
    BY <1>1 DEF Row, Statuses, OpenStatuses, ClosedStatuses
  <1>3. orders' = [orders EXCEPT ![o] = new]
    BY DEF SetStatus
  <1> HIDE DEF new
  <1> QED BY <1>1, <1>2, <1>3 DEF SameRow, Exists

LEMMA WorkerSameRow ==
  ASSUME TypeInv, Reconcile
  PROVE  \A o \in Requests : SameRow(o)
  <1> USE DEF tables
  <1>0. /\ orders \in [Requests -> Row \cup {NoRow}]
        /\ wpc # "next" =>
              /\ cur \in CurRecord /\ cur.id \in Requests /\ cur.observed \in Statuses
              /\ Exists(cur.id)
    BY DEF TypeInv, TypeOK, TablesOK, WorkerOK, CurRecord, HeldExist
  <1>1. CASE UNCHANGED orders
    BY <1>1 DEF SameRow, Exists
  <1>2. CASE UpdateStatus
    BY <1>0, <1>1, <1>2, SetStatusSameRow DEF UpdateStatus
  <1>3. CASE SetProviderOrderID /\ ~UNCHANGED orders
    <2> DEFINE new == [orders[cur.id] EXCEPT !.provId = cur.placedId]
    <2>1. orders' = [orders EXCEPT ![cur.id] = new]
      BY <1>3 DEF SetProviderOrderID
    <2>2. cur.id \in Requests /\ orders[cur.id] \in Row
      BY <1>0, <1>3, RowFields DEF SetProviderOrderID, TypeInv, TypeOK
    <2>3. /\ new.status = orders[cur.id].status /\ new.key = orders[cur.id].key
          /\ new.body = orders[cur.id].body /\ new.allowed = orders[cur.id].allowed
      BY <2>2 DEF Row
    <2> HIDE DEF new
    <2> QED BY <1>0, <2>1, <2>2, <2>3 DEF SameRow, Exists
  <1> QED BY <1>1, <1>2, <1>3
          DEF Reconcile, PlaceOrder, PollOrder, TouchOrder, AppendWorkerEvent, RecordFill

(* Rows are inserted, and keep their identity from then on.                *)
LEMMA RowStep ==
  ASSUME TypeInv, [Next]_vars
  PROVE  \/ \A o \in Requests : SameRow(o)
         \/ \E r \in Requests : Inserts(r)
  <1> USE DEF apiVars, tables
  <1>0. orders \in [Requests -> Row \cup {NoRow}]
    BY DEF TypeInv, TypeOK, TablesOK
  <1>1. UNCHANGED orders => \A o \in Requests : SameRow(o)
    BY DEF SameRow, Exists
  <1>2. ASSUME NEW r \in Requests, Create(r)
        PROVE  UNCHANGED orders \/ Inserts(r)
    <2>1. CASE InsertOrder(r)
      <3>1. UNCHANGED orders \/ (~KeyTaken(r) /\ orders' = [orders EXCEPT ![r] = NewRow(r)])
        BY <2>1 DEF InsertOrder
      <3> QED BY <2>1, <3>1 DEF Inserts
    <2> QED BY <1>2, <2>1 DEF Create, SubmitCreate, LookupKey, CheckPolicy, SaveResponse,
                              AppendCreateEvent
  <1>3. ASSUME NEW c \in Cancels, Cancel(c)
        PROVE  \A o \in Requests : SameRow(o)
    <2>1. CASE cancel[c].pc = "update" /\ SetStatus(cancel[c].order, "canceled")
      <3>1. cancel[c].order \in Requests /\ Exists(cancel[c].order) /\ "canceled" \in Statuses
        BY <2>1 DEF TypeInv, TypeOK, CancelsOK, HeldExist, Statuses, ClosedStatuses
      <3> QED BY <2>1, <3>1, SetStatusSameRow
    <2>2. UNCHANGED orders \/ (cancel[c].pc = "update" /\ SetStatus(cancel[c].order, "canceled"))
      BY <1>3 DEF Cancel, StartCancel, CancelReadFails, WriteCanceled, AppendCancelEvent
    <2> QED BY <1>1, <2>1, <2>2
  <1>4. ASSUME NEW o \in Requests, CooldownPasses(o)
        PROVE  \A p \in Requests : SameRow(p)
    <2> DEFINE new == [orders[o] EXCEPT !.recent = FALSE]
    <2>1. orders[o] \in Row
      BY <1>0, <1>4 DEF CooldownPasses, NoRow
    <2>2. /\ new.status = orders[o].status /\ new.key = orders[o].key
          /\ new.body = orders[o].body /\ new.allowed = orders[o].allowed
      BY <2>1 DEF Row
    <2>3. orders' = [orders EXCEPT ![o] = new]
      BY <1>4 DEF CooldownPasses
    <2> HIDE DEF new
    <2> QED BY <1>0, <1>4, <2>2, <2>3 DEF SameRow, Exists
  <1>5. CASE Tick \/ WorkerRestart \/ \E i \in DOMAIN placements : BrokerResolves(i)
    BY <1>1, <1>5 DEF Tick, WorkerRestart, BrokerResolves
  <1>6. CASE UNCHANGED vars
    BY <1>1, <1>6 DEF vars
  <1> QED BY <1>1, <1>2, <1>3, <1>4, <1>5, <1>6, WorkerSameRow DEF Next
----------------------------------------------------------------------------
(* Idempotency                                                             *)

(* o is the order the call of r is about. *)
AgreesWith(r, o) == /\ Exists(o)
                    /\ orders[o].key = call[r].key
                    /\ orders[o].body = call[r].body
                    /\ orders[o].allowed = call[r].allowed

(* A call has no row until it inserts it, then holds what the row says;    *)
(* what it is answered is what the row of its key says.                    *)
CallsAgree ==
    \A r \in Requests :
        /\ call[r].pc \in {"idle", "lookup", "check", "insert"} => ~Exists(r)
        /\ call[r].pc \in {"save", "event"} => AgreesWith(r, r)
        /\ call[r].pc = "idle" => call[r].key = None /\ call[r].body = None
        /\ call[r].pc # "done" => call[r].answer = "none" /\ call[r].order = None
        /\ call[r].answer = "created" =>
              call[r].order \in Requests /\ AgreesWith(r, call[r].order)

KeyInv == UniqueKey /\ CallsAgree

LEMMA KeyInit == Init => KeyInv
  BY DEF Init, KeyInv, UniqueKey, CallsAgree, Exists, NoRow, NoCall

(* UniqueKey rests on the constraint alone. *)
LEMMA UniqueKeyStep ==
  ASSUME TypeInv, UniqueKey, [Next]_vars
  PROVE  UniqueKey'
  <1>1. CASE \A o \in Requests : SameRow(o)
    BY <1>1 DEF UniqueKey, SameRow
  <1>2. ASSUME NEW r \in Requests, Inserts(r)
        PROVE  UniqueKey'
    <2>1. \A o \in Requests : Exists(o) => orders[o].key # call[r].key
      BY <1>2 DEF Inserts, KeyTaken, OrdersWithKey
    <2>2. /\ \A o \in Requests \ {r} : orders'[o] = orders[o]
          /\ orders'[r].key = call[r].key
      BY <1>2 DEF Inserts, NewRow, TypeInv, TypeOK, TablesOK
    <2> QED BY <2>1, <2>2 DEF UniqueKey, Exists
  <1> QED BY <1>1, <1>2, RowStep

(* Rows that keep their identity keep agreeing with calls that are left    *)
(* alone.                                                                  *)
LEMMA AgreementKept ==
  ASSUME CallsAgree, UNCHANGED call, \A o \in Requests : SameRow(o)
  PROVE  CallsAgree'
  BY DEF CallsAgree, AgreesWith, SameRow

(* What CallsAgree says of one call.                                       *)
Agrees(r) ==
    /\ call[r].pc \in {"idle", "lookup", "check", "insert"} => ~Exists(r)
    /\ call[r].pc \in {"save", "event"} => AgreesWith(r, r)
    /\ call[r].pc = "idle" => call[r].key = None /\ call[r].body = None
    /\ call[r].pc # "done" => call[r].answer = "none" /\ call[r].order = None
    /\ call[r].answer = "created" =>
          call[r].order \in Requests /\ AgreesWith(r, call[r].order)

(* A step of one create call leaves the others in agreement. *)
LEMMA OthersAgree ==
  ASSUME CallsAgree, NEW r \in Requests, NEW q \in Requests \ {r},
         call'[q] = call[q],
         ~Exists(r) \/ SameRow(r),
         \A o \in Requests \ {r} : SameRow(o)
  PROVE  Agrees(q)'
  BY DEF CallsAgree, Agrees, AgreesWith, SameRow

LEMMA CreateAgrees ==
  ASSUME TypeInv, UniqueKey, CallsAgree, NEW r \in Requests, Create(r)
  PROVE  CallsAgree'
  <1> USE DEF tables
  <1>0. /\ call \in [Requests -> CallRecord] /\ call[r] \in CallRecord /\ Agrees(r)
        /\ orders \in [Requests -> Row \cup {NoRow}]
        /\ TablesOK
    BY DEF TypeInv, TypeOK, CallsOK, TablesOK, CallsAgree, Agrees
  <1>1. \A q \in Requests \ {r} : call'[q] = call[q]
    BY <1>0 DEF Create, SubmitCreate, LookupKey, CheckPolicy, InsertOrder, SaveResponse,
                AppendCreateEvent, Goto, Answer, Fail
  <1>2. UNCHANGED orders => \A o \in Requests : SameRow(o)
    BY DEF SameRow, Exists
  <1>3. ASSUME UNCHANGED orders, Agrees(r)'
        PROVE  CallsAgree'
    <2>1. \A q \in Requests \ {r} : Agrees(q)'
      BY <1>1, <1>2, <1>3, OthersAgree
    <2> QED BY <1>3, <2>1 DEF CallsAgree, Agrees
  <1>4. ASSUME Fail(r), UNCHANGED orders
        PROVE  Agrees(r)'
    <2>1. call'[r].pc = "done" /\ call'[r].answer = "error"
      BY <1>0, <1>4 DEF Fail, Answer, CallRecord
    <2> QED BY <2>1 DEF Agrees
  <1>5. ASSUME NEW key \in Keys, NEW body \in Bodies, SubmitCreate(r, key, body)
        PROVE  CallsAgree'
    <2>1. /\ ~Exists(r) /\ UNCHANGED orders
          /\ \/ call'[r].pc = "lookup" /\ call'[r].answer = "none" /\ call'[r].order = None
             \/ call'[r].pc = "done" /\ call'[r].answer = "error"
      BY <1>0, <1>5 DEF SubmitCreate, NoCall, Agrees
    <2>2. Agrees(r)'
      BY <2>1 DEF Agrees, Exists
    <2> QED BY <1>3, <2>1, <2>2
  <1>6. CASE LookupKey(r)
    <2>1. UNCHANGED orders /\ call[r].pc = "lookup" /\ ~Exists(r) /\ call[r].answer = "none" /\ call[r].order = None
      BY <1>0, <1>6 DEF LookupKey, Agrees
    <2>2. CASE Goto(r, "check")
      <3>1. call'[r].pc = "check" /\ call'[r].answer = "none" /\ call'[r].order = None
        BY <1>0, <2>1, <2>2 DEF Goto, CallRecord
      <3> QED BY <1>3, <2>1, <3>1 DEF Agrees, Exists
    <2>3. ASSUME NEW o \in OrdersWithKey(call[r].key), SameRequest(o, r),
                 Answer(r, "created", o, orders[o].allowed)
          PROVE  CallsAgree'
      <3>1. /\ call'[r].pc = "done" /\ call'[r].order = o
            /\ call'[r].key = call[r].key /\ call'[r].body = call[r].body
            /\ call'[r].allowed = orders[o].allowed
        BY <1>0, <2>3 DEF Answer, CallRecord
      <3>2. /\ o \in Requests /\ Exists(o)
            /\ orders[o].key = call[r].key /\ orders[o].body = call[r].body
        BY <2>3 DEF OrdersWithKey, SameRequest
      <3>3. Agrees(r)'
        BY <2>1, <3>1, <3>2 DEF Agrees, AgreesWith, Exists
      <3> QED BY <1>3, <2>1, <3>3
    <2>4. ASSUME NEW o, Answer(r, "conflict", o, FALSE)
          PROVE  CallsAgree'
      <3>1. call'[r].pc = "done" /\ call'[r].answer = "conflict"
        BY <1>0, <2>4 DEF Answer, CallRecord
      <3> QED BY <1>3, <2>1, <3>1 DEF Agrees
    <2>5. CASE Fail(r)
      BY <1>3, <1>4, <2>1, <2>5
    <2> QED BY <1>6, <2>2, <2>3, <2>4, <2>5 DEF LookupKey
  <1>7. CASE CheckPolicy(r)
    <2>1. /\ UNCHANGED orders /\ ~Exists(r) /\ call[r].answer = "none" /\ call[r].order = None
          /\ call'[r].pc = "insert" /\ call'[r].answer = call[r].answer /\ call'[r].order = call[r].order
      BY <1>0, <1>7 DEF CheckPolicy, Agrees, CallRecord
    <2> QED BY <1>3, <2>1 DEF Agrees, Exists
  <1>8. CASE InsertOrder(r)
    <2>1. ~Exists(r) /\ call[r].answer = "none" /\ call[r].order = None
      BY <1>0, <1>8 DEF InsertOrder, Agrees
    <2>2. CASE UNCHANGED orders /\ Fail(r)
      BY <1>3, <1>4, <2>2
    <2>3. CASE orders' = [orders EXCEPT ![r] = NewRow(r)]
      <3>1. /\ Exists(r)' /\ orders'[r].key = call[r].key /\ orders'[r].body = call[r].body
            /\ orders'[r].allowed = call[r].allowed
        BY <1>0, <2>3 DEF NewRow, Exists
      <3>2. \A o \in Requests \ {r} : SameRow(o)
        BY <1>0, <2>3 DEF SameRow, Exists
      <3>3. \A q \in Requests \ {r} : Agrees(q)'
        BY <1>1, <2>1, <3>2, OthersAgree
      <3>4. CASE Goto(r, "save")
        <4>1. /\ call'[r].pc = "save" /\ call'[r].answer = "none" /\ call'[r].order = None
              /\ call'[r].key = call[r].key /\ call'[r].body = call[r].body
              /\ call'[r].allowed = call[r].allowed
          BY <1>0, <2>1, <3>4 DEF Goto, CallRecord
        <4> QED BY <3>1, <3>3, <4>1 DEF CallsAgree, Agrees, AgreesWith
      <3>5. CASE Fail(r)
        <4>1. call'[r].pc = "done" /\ call'[r].answer = "error"
          BY <1>0, <3>5 DEF Fail, Answer, CallRecord
        <4> QED BY <3>3, <4>1 DEF CallsAgree, Agrees
      <3>6. Goto(r, "save") \/ Fail(r)
        BY <1>8 DEF InsertOrder
      <3> QED BY <3>4, <3>5, <3>6
    <2> QED BY <1>8, <2>2, <2>3 DEF InsertOrder
  <1>9. CASE SaveResponse(r)
    <2>1. UNCHANGED orders /\ AgreesWith(r, r) /\ call[r].answer = "none" /\ call[r].order = None
      BY <1>0, <1>9 DEF SaveResponse, Agrees
    <2>2. CASE Goto(r, "event")
      <3>1. /\ call'[r].pc = "event" /\ call'[r].answer = "none" /\ call'[r].order = None
            /\ call'[r].key = call[r].key /\ call'[r].body = call[r].body
            /\ call'[r].allowed = call[r].allowed
        BY <1>0, <2>1, <2>2 DEF Goto, CallRecord
      <3> QED BY <1>3, <2>1, <3>1 DEF Agrees, AgreesWith, Exists
    <2> QED BY <1>3, <1>4, <1>9, <2>1, <2>2 DEF SaveResponse
  <1>10. CASE AppendCreateEvent(r)
    <2>1. UNCHANGED orders /\ AgreesWith(r, r)
      BY <1>0, <1>10 DEF AppendCreateEvent, Agrees
    <2>2. CASE Answer(r, "created", r, call[r].allowed)
      <3>1. /\ call'[r].pc = "done" /\ call'[r].order = r
            /\ call'[r].key = call[r].key /\ call'[r].body = call[r].body
            /\ call'[r].allowed = call[r].allowed
        BY <1>0, <2>2 DEF Answer, CallRecord
      <3> QED BY <1>3, <2>1, <3>1 DEF Agrees, AgreesWith, Exists
    <2> QED BY <1>3, <1>4, <1>10, <2>1, <2>2 DEF AppendCreateEvent
  <1> QED BY <1>5, <1>6, <1>7, <1>8, <1>9, <1>10 DEF Create

LEMMA KeyStep == TypeInv /\ KeyInv /\ [Next]_vars => KeyInv'
  <1> SUFFICES ASSUME TypeInv, KeyInv, [Next]_vars PROVE KeyInv'
    OBVIOUS
  <1>1. UniqueKey'
    BY UniqueKeyStep DEF KeyInv
  <1>2. ASSUME NEW r \in Requests, Create(r)
        PROVE  CallsAgree'
    BY <1>2, CreateAgrees DEF KeyInv
  <1>3. CASE UNCHANGED call
    <2>1. ASSUME NEW r \in Requests PROVE ~Inserts(r)
      <3>1. SUFFICES ASSUME Inserts(r) PROVE FALSE
        OBVIOUS
      <3>2. call \in [Requests -> CallRecord] /\ call[r] \in CallRecord /\ call[r].pc = "insert"
        BY <3>1 DEF Inserts, InsertOrder, TypeInv, TypeOK, CallsOK
      <3>3. Goto(r, "save") \/ Fail(r)
        BY <3>1 DEF Inserts, InsertOrder
      <3>4. call'[r].pc \in {"save", "done"}
        <4>1. CASE Goto(r, "save")
          BY <3>2, <4>1 DEF Goto, CallRecord
        <4>2. CASE Fail(r)
          BY <3>2, <4>2 DEF Fail, Answer, CallRecord
        <4> QED BY <3>3, <4>1, <4>2
      <3> QED BY <1>3, <3>2, <3>4
    <2> QED BY <1>1, <1>3, <2>1, RowStep, AgreementKept DEF KeyInv
  <1>4. UNCHANGED call \/ \E r \in Requests : Create(r)
    BY DEF Next, vars, apiVars, Cancel, StartCancel, CancelReadFails, WriteCanceled,
           AppendCancelEvent, Tick, Reconcile, PlaceOrder, PollOrder, TouchOrder,
           SetProviderOrderID, UpdateStatus, AppendWorkerEvent, RecordFill, WorkerRestart,
           BrokerResolves, CooldownPasses
  <1> QED BY <1>1, <1>2, <1>3, <1>4 DEF KeyInv

THEOREM KeyInvariant == Spec => []KeyInv
  BY KeyInit, KeyStep, TypeInvariant, PTL DEF Spec

(* No two orders ever have one idempotency key. *)
THEOREM KeysAreUnique == Spec => []UniqueKey
  BY KeyInvariant, PTL DEF KeyInv

(* Create calls with one key that are answered 201 get the same order and  *)
(* the same decision, and asked for the same thing.                        *)
THEOREM AnswersAgree == Spec => []SameKeySameAnswer
  <1>1. KeyInv => SameKeySameAnswer
    BY DEF KeyInv, UniqueKey, CallsAgree, AgreesWith, SameKeySameAnswer
  <1> QED BY <1>1, KeyInvariant, PTL
----------------------------------------------------------------------------
(* The refinement of IdempotentCreate                                      *)

(* The row of a key is what the book says of it. *)
LEMMA BookEntry ==
  ASSUME UniqueKey, NEW o \in Requests, Exists(o), orders[o].key \in Keys
  PROVE  /\ bookBar[orders[o].key] =
               [order |-> o, body |-> orders[o].body, allowed |-> orders[o].allowed]
         /\ bookBar[orders[o].key] # Promise!NoEntry
  <1> DEFINE k == orders[o].key
  <1>1. OrdersWithKey(k) = {o}
    BY DEF OrdersWithKey, UniqueKey
  <1>2. (CHOOSE p \in OrdersWithKey(k) : TRUE) = o
    BY <1>1
  <1>3. bookBar[k] = [order |-> o, body |-> orders[o].body, allowed |-> orders[o].allowed]
    BY <1>1, <1>2 DEF bookBar
  <1>4. o # None
    BY NoneAssumption
  <1> QED BY <1>3, <1>4 DEF Promise!NoEntry

(* No row, no entry. *)
LEMMA BookGap ==
  ASSUME NEW k \in Keys, OrdersWithKey(k) = {}
  PROVE  bookBar[k] = Promise!NoEntry
  BY DEF bookBar, Promise!NoEntry

LEMMA BookKept ==
  ASSUME \A o \in Requests : SameRow(o)
  PROVE  bookBar' = bookBar
  <1>1. \A k : OrdersWithKey(k)' = OrdersWithKey(k)
    BY DEF OrdersWithKey, SameRow
  <1>2. ASSUME NEW k \in Keys, OrdersWithKey(k) # {}
        PROVE  LET o == CHOOSE o \in OrdersWithKey(k) : TRUE
               IN  orders'[o].body = orders[o].body /\ orders'[o].allowed = orders[o].allowed
    BY <1>2 DEF OrdersWithKey, SameRow
  <1> QED BY <1>1, <1>2 DEF bookBar

(* What callers see of a call that moves on, and of one that is answered.  *)
LEMMA GotoBar ==
  ASSUME TypeInv, NEW r \in Requests, NEW pc \in CallPcs, Goto(r, pc)
  PROVE  askedBar' = askedBar /\ answersBar' = answersBar
  <1>1. call \in [Requests -> CallRecord]
    BY DEF TypeInv, TypeOK, CallsOK
  <1>2. \A q \in Requests : /\ call'[q].key = call[q].key /\ call'[q].body = call[q].body
                            /\ call'[q].answer = call[q].answer
                            /\ call'[q].order = call[q].order
                            /\ call'[q].allowed = call[q].allowed
    BY <1>1 DEF Goto, CallRecord
  <1> QED BY <1>2 DEF askedBar, answersBar

LEMMA AnswerBar ==
  ASSUME TypeInv, NEW r \in Requests, NEW answer, NEW o, NEW allowed,
         Answer(r, answer, o, allowed)
  PROVE  /\ askedBar' = askedBar
         /\ answersBar' = [answersBar EXCEPT ![r] =
               [kind |-> answer, order |-> o, allowed |-> answer = "created" /\ allowed]]
  <1>1. call \in [Requests -> CallRecord]
    BY DEF TypeInv, TypeOK, CallsOK
  <1>2. /\ call'[r].key = call[r].key /\ call'[r].body = call[r].body
        /\ call'[r].answer = answer /\ call'[r].order = o /\ call'[r].allowed = allowed
    BY <1>1 DEF Answer, CallRecord
  <1>3. \A q \in Requests \ {r} : call'[q] = call[q]
    BY <1>1 DEF Answer
  <1>4. askedBar' = askedBar
    BY <1>2, <1>3 DEF askedBar
  <1>5. answersBar' = [answersBar EXCEPT ![r] =
               [kind |-> answer, order |-> o, allowed |-> answer = "created" /\ allowed]]
    BY <1>2, <1>3 DEF answersBar
  <1> QED BY <1>4, <1>5

(* A call that is not answered "created" shows no decision. *)
LEMMA NoDecisionBar ==
  ASSUME TypeInv, NEW r \in Requests, NEW answer, NEW o,
         Answer(r, answer, o, FALSE), answer # "created"
  PROVE  /\ askedBar' = askedBar
         /\ answersBar' = [answersBar EXCEPT ![r] =
               [kind |-> answer, order |-> o, allowed |-> FALSE]]
  <1>1. PICK no \in BOOLEAN : ~no /\ Answer(r, answer, o, no)
    BY DEF Answer
  <1>2. [kind |-> answer, order |-> o, allowed |-> answer = "created" /\ no]
           = [kind |-> answer, order |-> o, allowed |-> FALSE]
    OBVIOUS
  <1>3. /\ askedBar' = askedBar
        /\ answersBar' = [answersBar EXCEPT ![r] =
              [kind |-> answer, order |-> o, allowed |-> answer = "created" /\ no]]
    BY <1>1, AnswerBar
  <1> QED BY <1>2, <1>3

LEMMA FailBar ==
  ASSUME TypeInv, NEW r \in Requests, Fail(r)
  PROVE  askedBar' = askedBar /\ answersBar' = [answersBar EXCEPT ![r] = Promise!Failed]
  BY NoDecisionBar DEF Fail, Promise!Failed

(* A call that has been submitted and not answered waits. *)
LEMMA CallWaits ==
  ASSUME TypeInv, KeyInv, NEW r \in Requests, call[r].pc \notin {"idle", "done"}
  PROVE  /\ Promise!Waiting(r)
         /\ askedBar[r].key = call[r].key /\ askedBar[r].body = call[r].body
         /\ call[r].key \in Keys
  <1>1. call[r].key \in Keys /\ call[r].answer = "none" /\ call[r].order = None
    BY DEF TypeInv, TypeOK, CallsOK, KeyInv, CallsAgree
  <1>2. askedBar[r] = [key |-> call[r].key, body |-> call[r].body]
    BY DEF askedBar
  <1>3. askedBar[r] # Promise!Nothing
    BY <1>1, <1>2, NoneAssumption DEF Promise!Nothing
  <1>4. answersBar[r] = Promise!Pending
    BY <1>1 DEF answersBar, Promise!Pending
  <1> QED BY <1>1, <1>2, <1>3, <1>4 DEF Promise!Waiting

(* The three ways a call ends, as callers see them. *)
LEMMA FailGivesUp ==
  ASSUME TypeInv, KeyInv, NEW r \in Requests, call[r].pc \notin {"idle", "done"},
         Fail(r), UNCHANGED orders
  PROVE  Promise!GiveUp(r)
  <1>1. bookBar' = bookBar
    BY BookKept DEF SameRow, Exists
  <1> QED BY <1>1, CallWaits, FailBar DEF Promise!GiveUp

LEMMA CreatedReplies ==
  ASSUME TypeInv, KeyInv, NEW r \in Requests, call[r].pc \notin {"idle", "done"},
         NEW o \in Requests, Exists(o),
         orders[o].key = call[r].key, orders[o].body = call[r].body,
         Answer(r, "created", o, orders[o].allowed), UNCHANGED orders
  PROVE  Promise!Reply(r)
  <1> DEFINE k == askedBar[r].key
  <1>1. bookBar' = bookBar
    BY BookKept DEF SameRow, Exists
  <1>2. Promise!Waiting(r) /\ k = call[r].key /\ k \in Keys /\ askedBar[r].body = call[r].body
    BY CallWaits
  <1>3. /\ bookBar[k] = [order |-> o, body |-> orders[o].body, allowed |-> orders[o].allowed]
        /\ bookBar[k] # Promise!NoEntry
    BY <1>2, BookEntry DEF KeyInv
  <1>4. orders[o].allowed \in BOOLEAN
    BY RowFields DEF TypeInv, TypeOK, Row
  <1>5. ("created" = "created" /\ orders[o].allowed) = orders[o].allowed
    BY <1>4
  <1>6. /\ askedBar' = askedBar
        /\ answersBar' = [answersBar EXCEPT ![r] =
              [kind |-> "created", order |-> o, allowed |-> orders[o].allowed]]
    BY <1>5, AnswerBar
  <1>7. bookBar[k].body = askedBar[r].body
        /\ bookBar[k].order = o /\ bookBar[k].allowed = orders[o].allowed
    BY <1>2, <1>3
  <1> HIDE DEF k
  <1> QED BY <1>1, <1>2, <1>3, <1>6, <1>7 DEF Promise!Reply, k

LEMMA ConflictReplies ==
  ASSUME TypeInv, KeyInv, NEW r \in Requests, call[r].pc \notin {"idle", "done"},
         NEW o \in Requests, Exists(o),
         orders[o].key = call[r].key, orders[o].body # call[r].body,
         Answer(r, "conflict", o, FALSE), UNCHANGED orders
  PROVE  Promise!Reply(r)
  <1> DEFINE k == askedBar[r].key
  <1>1. bookBar' = bookBar
    BY BookKept DEF SameRow, Exists
  <1>2. Promise!Waiting(r) /\ k = call[r].key /\ k \in Keys /\ askedBar[r].body = call[r].body
    BY CallWaits
  <1>3. /\ bookBar[k] = [order |-> o, body |-> orders[o].body, allowed |-> orders[o].allowed]
        /\ bookBar[k] # Promise!NoEntry
    BY <1>2, BookEntry DEF KeyInv
  <1>6. /\ askedBar' = askedBar
        /\ answersBar' = [answersBar EXCEPT ![r] =
              [kind |-> "conflict", order |-> o, allowed |-> FALSE]]
    BY NoDecisionBar
  <1>7. bookBar[k].body # askedBar[r].body /\ bookBar[k].order = o
    BY <1>2, <1>3
  <1> HIDE DEF k
  <1> QED BY <1>1, <1>2, <1>3, <1>6, <1>7 DEF Promise!Reply, k

(* The INSERT adds the entry of its key, and no other.                     *)
LEMMA InsertMakes ==
  ASSUME TypeInv, KeyInv, NEW r \in Requests, call[r].pc = "insert", ~KeyTaken(r),
         orders' = [orders EXCEPT ![r] = NewRow(r)],
         Goto(r, "save") \/ Fail(r)
  PROVE  Promise!Make(r)
  <1>0. PICK k \in Keys : k = call[r].key
    BY CallWaits
  <1> DEFINE entry == [order |-> r, body |-> call[r].body, allowed |-> call[r].allowed]
  <1>1. Promise!Waiting(r) /\ askedBar[r].key = k
        /\ askedBar[r].body = call[r].body
    BY <1>0, CallWaits
  <1>2. bookBar[k] = Promise!NoEntry
    BY <1>0, BookGap DEF KeyTaken
  <1>3. call[r].allowed \in BOOLEAN /\ orders \in [Requests -> Row \cup {NoRow}]
    BY DEF TypeInv, TypeOK, CallsOK, CallRecord, TablesOK
  <1>4. ~Exists(r) /\ \A o \in Requests : Exists(o) => orders[o].key # k
    BY <1>0 DEF KeyInv, CallsAgree, KeyTaken, OrdersWithKey
  <1>5. /\ orders'[r].key = k /\ orders'[r].body = call[r].body
        /\ orders'[r].allowed = call[r].allowed /\ orders'[r].status # "absent"
        /\ \A o \in Requests \ {r} : orders'[o] = orders[o]
    BY <1>0, <1>3 DEF NewRow
  <1>6. bookBar'[k] = entry
    <2>1. OrdersWithKey(k)' = {r}
      BY <1>4, <1>5 DEF OrdersWithKey, Exists
    <2>2. (CHOOSE o \in {r} : TRUE) = r
      OBVIOUS
    <2> QED BY <1>1, <1>5, <2>1, <2>2 DEF bookBar
  <1>7. ASSUME NEW q \in Keys \ {k}
        PROVE  bookBar'[q] = bookBar[q]
    <2>1. OrdersWithKey(q)' = OrdersWithKey(q)
      BY <1>4, <1>5 DEF OrdersWithKey, Exists
    <2>2. \A o \in OrdersWithKey(q) : orders'[o] = orders[o]
      BY <1>4, <1>5 DEF OrdersWithKey
    <2>3. OrdersWithKey(q) # {} =>
             (CHOOSE o \in OrdersWithKey(q) : TRUE) \in OrdersWithKey(q)
      OBVIOUS
    <2> QED BY <2>1, <2>2, <2>3 DEF bookBar
  <1>8. bookBar' = [bookBar EXCEPT ![k] = entry]
    BY <1>6, <1>7, ZenonT(60) DEF bookBar
  <1>9. entry = Promise!Entry(r, askedBar[r].body, call[r].allowed)
    BY <1>1 DEF Promise!Entry
  <1>10. /\ askedBar' = askedBar
         /\ \E a \in {Promise!Pending, Promise!Failed} :
               answersBar' = [answersBar EXCEPT ![r] = a]
    <2>1. CASE Fail(r)
      BY <2>1, FailBar
    <2>2. CASE Goto(r, "save")
      <3>1. askedBar' = askedBar /\ answersBar' = answersBar
        BY <2>2, GotoBar DEF CallPcs
      <3>2. answersBar[r] = Promise!Pending
        BY <1>1 DEF Promise!Waiting
      <3>3. answersBar = [answersBar EXCEPT ![r] = Promise!Pending]
        BY <3>2 DEF answersBar
      <3> QED BY <3>1, <3>3
    <2> QED BY <2>1, <2>2
  <1> HIDE DEF entry
  <1> QED BY <1>1, <1>2, <1>3, <1>8, <1>9, <1>10 DEF Promise!Make

(* A create call arrives. *)
LEMMA SubmitAsks ==
  ASSUME TypeInv, KeyInv, NEW r \in Requests, NEW key \in Keys, NEW body \in Bodies,
         SubmitCreate(r, key, body)
  PROVE  Promise!Ask(r)
  <1>1. /\ call \in [Requests -> CallRecord]
        /\ call[r].key = None /\ call[r].body = None
        /\ call[r].answer = "none" /\ call[r].order = None
    BY DEF SubmitCreate, TypeInv, TypeOK, CallsOK, KeyInv, CallsAgree
  <1>2. askedBar[r] = Promise!Nothing
    BY <1>1 DEF askedBar, Promise!Nothing
  <1>3. /\ call'[r].key = key /\ call'[r].body = body /\ call'[r].order = None
        /\ call'[r].answer \in {"none", "error"} /\ call'[r].allowed = FALSE
        /\ \A q \in Requests \ {r} : call'[q] = call[q]
    BY <1>1 DEF SubmitCreate, NoCall
  <1>4. askedBar' = [askedBar EXCEPT ![r] = [key |-> key, body |-> body]]
    BY <1>3 DEF askedBar
  <1>5. \E a \in {Promise!Pending, Promise!Failed} :
           answersBar' = [answersBar EXCEPT ![r] = a]
    <2> DEFINE a == [kind |-> call'[r].answer, order |-> None, allowed |-> FALSE]
    <2>1. a \in {Promise!Pending, Promise!Failed}
      BY <1>3 DEF Promise!Pending, Promise!Failed
    <2>2. answersBar' = [answersBar EXCEPT ![r] = a]
      BY <1>3 DEF answersBar
    <2> QED BY <2>1, <2>2
  <1>6. bookBar' = bookBar
    BY BookKept DEF SubmitCreate, tables, SameRow, Exists
  <1> QED BY <1>2, <1>4, <1>5, <1>6 DEF Promise!Ask

(* A step callers see nothing of. *)
Invisible == UNCHANGED <<askedBar, bookBar, answersBar>>

LEMMA MovesOnInvisibly ==
  ASSUME TypeInv, NEW r \in Requests, NEW pc \in CallPcs, Goto(r, pc), UNCHANGED orders
  PROVE  Invisible
  BY GotoBar, BookKept DEF SameRow, Exists, Invisible

(* The decision is not shown before the call is answered. *)
LEMMA CheckInvisible ==
  ASSUME TypeInv, KeyInv, NEW r \in Requests, CheckPolicy(r)
  PROVE  Invisible
  <1>1. call \in [Requests -> CallRecord] /\ call[r].answer = "none"
    BY DEF CheckPolicy, TypeInv, TypeOK, CallsOK, KeyInv, CallsAgree
  <1>2. /\ call'[r].key = call[r].key /\ call'[r].body = call[r].body
        /\ call'[r].answer = "none" /\ call'[r].order = call[r].order
        /\ \A q \in Requests \ {r} : call'[q] = call[q]
    BY <1>1 DEF CheckPolicy, CallRecord
  <1>3. askedBar' = askedBar
    BY <1>2 DEF askedBar
  <1>4. answersBar' = answersBar
    BY <1>1, <1>2 DEF answersBar
  <1> QED BY <1>3, <1>4, BookKept DEF CheckPolicy, tables, SameRow, Exists, Invisible

LEMMA CreateStep ==
  ASSUME TypeInv, KeyInv, NEW r \in Requests, Create(r)
  PROVE  \/ Promise!Ask(r) \/ Promise!Make(r) \/ Promise!Reply(r) \/ Promise!GiveUp(r)
         \/ Invisible
  <1> USE DEF tables
  <1>1. CASE \E key \in Keys, body \in Bodies : SubmitCreate(r, key, body)
    BY <1>1, SubmitAsks
  <1>2. CASE LookupKey(r)
    <2>1. CASE Goto(r, "check")
      BY <1>2, <2>1, MovesOnInvisibly DEF LookupKey, CallPcs
    <2>2. CASE Fail(r)
      BY <1>2, <2>2, FailGivesUp DEF LookupKey
    <2>3. ASSUME NEW o \in OrdersWithKey(call[r].key),
                 IF SameRequest(o, r) THEN Answer(r, "created", o, orders[o].allowed)
                                      ELSE Answer(r, "conflict", o, FALSE)
          PROVE  Promise!Reply(r)
      <3>1. o \in Requests /\ Exists(o) /\ orders[o].key = call[r].key
        BY DEF OrdersWithKey
      <3>2. call[r].pc = "lookup" /\ UNCHANGED orders
        BY <1>2 DEF LookupKey
      <3>3. CASE orders[o].body = call[r].body
        BY <2>3, <3>1, <3>2, <3>3, CreatedReplies DEF SameRequest
      <3>4. CASE orders[o].body # call[r].body
        BY <2>3, <3>1, <3>2, <3>4, ConflictReplies DEF SameRequest
      <3> QED BY <3>3, <3>4
    <2> QED BY <1>2, <2>1, <2>2, <2>3 DEF LookupKey
  <1>3. CASE CheckPolicy(r)
    BY <1>3, CheckInvisible
  <1>4. CASE InsertOrder(r)
    <2>1. CASE ~KeyTaken(r) /\ orders' = [orders EXCEPT ![r] = NewRow(r)]
      BY <1>4, <2>1, InsertMakes DEF InsertOrder
    <2>2. CASE Fail(r) /\ UNCHANGED orders
      BY <1>4, <2>2, FailGivesUp DEF InsertOrder
    <2> QED BY <1>4, <2>1, <2>2 DEF InsertOrder
  <1>5. CASE SaveResponse(r)
    BY <1>5, MovesOnInvisibly, FailGivesUp DEF SaveResponse, CallPcs
  <1>6. CASE AppendCreateEvent(r)
    <2>1. CASE Fail(r)
      BY <1>6, <2>1, FailGivesUp DEF AppendCreateEvent
    <2>2. CASE Answer(r, "created", r, call[r].allowed)
      <3>1. call[r].pc = "event" /\ UNCHANGED orders
        BY <1>6 DEF AppendCreateEvent
      <3>2. AgreesWith(r, r)
        BY <3>1 DEF KeyInv, CallsAgree
      <3> QED BY <2>2, <3>1, <3>2, CreatedReplies DEF AgreesWith
    <2> QED BY <1>6, <2>1, <2>2 DEF AppendCreateEvent
  <1> QED BY <1>1, <1>2, <1>3, <1>4, <1>5, <1>6 DEF Create

(* Nothing but the create calls is visible to their callers. *)
LEMMA OthersInvisible ==
  ASSUME TypeInv, [Next]_vars, \A r \in Requests : ~Create(r)
  PROVE  Invisible
  <1>1. UNCHANGED call
    BY DEF Next, Cancel, StartCancel, CancelReadFails, WriteCanceled, AppendCancelEvent,
           Tick, Reconcile, PlaceOrder, PollOrder, TouchOrder, SetProviderOrderID,
           UpdateStatus, AppendWorkerEvent, RecordFill, WorkerRestart, BrokerResolves,
           CooldownPasses, vars, apiVars
  <1>2. \A o \in Requests : SameRow(o)
    BY RowStep DEF Inserts, Create
  <1> QED BY <1>1, <1>2, BookKept DEF askedBar, answersBar, Invisible

LEMMA PromiseInit == Init => Promise!AbstractInit
  <1> SUFFICES ASSUME Init PROVE Promise!AbstractInit
    OBVIOUS
  <1>1. askedBar = [r \in Requests |-> Promise!Nothing]
    BY DEF Init, askedBar, NoCall, Promise!Nothing
  <1>2. \A k \in Keys : OrdersWithKey(k) = {}
    BY DEF Init, OrdersWithKey, Exists, NoRow
  <1>3. bookBar = [k \in Keys |-> Promise!NoEntry]
    BY <1>2 DEF bookBar, Promise!NoEntry
  <1>4. answersBar = [r \in Requests |-> Promise!Pending]
    BY DEF Init, answersBar, NoCall, Promise!Pending
  <1> QED BY <1>1, <1>3, <1>4 DEF Promise!AbstractInit

(* The create calls, with the check and the insert in transactions of      *)
(* their own, with failures between any two statements and with the worker *)
(* and cancels rewriting the rows (service.go, worker.go), implement one   *)
(* atomic "make the order of this key once".                               *)
THEOREM CreateKeepsPromise == Spec => KeepsPromise
  <1>1. ASSUME TypeInv, KeyInv, [Next]_vars
        PROVE  [Promise!AbstractNext]_<<askedBar, bookBar, answersBar>>
    <2>1. CASE \E r \in Requests : Create(r)
      BY <1>1, <2>1, CreateStep DEF Promise!AbstractNext, Invisible
    <2>2. CASE \A r \in Requests : ~Create(r)
      BY <1>1, <2>2, OthersInvisible DEF Invisible
    <2> QED BY <2>1, <2>2
  <1> QED BY <1>1, PromiseInit, TypeInvariant, KeyInvariant, PTL
          DEF Spec, KeepsPromise, Promise!AbstractSpec, Promise!abstractVars
=============================================================================
