-------------------- MODULE TradingOrdersSafety_proofs --------------------
(***************************************************************************)
(* What the policy decided, for all instances: only what it allowed is     *)
(* ever placed, and the exposure it allows is exceeded only by a race, a   *)
(* check that could not list the open orders, or orders of negative amount *)
(* (AllowedInv, ExposureInv).                                              *)
(***************************************************************************)
EXTENDS TradingOrders_proofs, DataTheorems

(* What reaches the broker                                                 *)

(* Whatever the worker or a cancel call may still write to, was allowed;   *)
(* so a rejected order is never reopened by a stale write.                 *)
AllowedInv ==
    /\ \A o \in Requests : IsOpen(orders[o].status) => orders[o].allowed
    /\ \A c \in Cancels : cancel[c].pc = "update" => orders[cancel[c].order].allowed
    /\ \A s \in batch : orders[s.id].allowed
    /\ wpc # "next" => orders[cur.id].allowed
    /\ OnlyAllowedPlaced

(* An allowed order is a row. *)
LEMMA AllowedExists ==
  ASSUME TablesOK, NEW o \in Requests, orders[o].allowed
  PROVE  Exists(o)
  <1>1. orders[o] # NoRow
    BY DEF NoRow
  <1>2. orders[o] \in Row
    BY <1>1 DEF TablesOK
  <1> QED BY <1>2 DEF Exists, Row, Statuses, OpenStatuses, ClosedStatuses

LEMMA AllowedInit == Init => AllowedInv
  BY DEF Init, AllowedInv, NoRow, NoCancel, IsOpen, OpenStatuses, OnlyAllowedPlaced

(* What a handler holds stays allowed while it holds it.                   *)
LEMMA AllowedKept ==
  ASSUME TypeInv, CallsAgree, [Next]_vars
  PROVE  \A o \in Requests : Exists(o) => Exists(o)' /\ orders'[o].allowed = orders[o].allowed
  <1>1. ASSUME NEW r \in Requests, Inserts(r)
        PROVE  ~Exists(r) /\ \A o \in Requests \ {r} : orders'[o] = orders[o]
    BY <1>1 DEF Inserts, InsertOrder, CallsAgree, TypeInv, TypeOK, TablesOK
  <1> QED BY <1>1, RowStep DEF SameRow, Exists

(* The orders placed at the broker after a step were placed before it, or  *)
(* come from the worker's batch.                                           *)
LEMMA PlacedStep ==
  ASSUME TypeInv, [Next]_vars
  PROVE  \A i \in DOMAIN placements' :
            \/ i \in DOMAIN placements /\ placements'[i].order = placements[i].order
            \/ \E s \in batch : placements'[i].order = s.id
  <1> USE DEF brokerVars
  <1>1. placements \in Seq(Placement)
    BY DEF TypeInv, TypeOK, BrokerOK
  <1>2. ASSUME NEW s \in batch, placements' = Append(placements, [order |-> s.id, status |-> PlaceStatus])
        PROVE  \A i \in DOMAIN placements' :
                  \/ i \in DOMAIN placements /\ placements'[i].order = placements[i].order
                  \/ placements'[i].order = s.id
    BY <1>1, <1>2
  <1>3. ASSUME NEW i \in DOMAIN placements, BrokerResolves(i)
        PROVE  \A j \in DOMAIN placements' :
                  j \in DOMAIN placements /\ placements'[j].order = placements[j].order
    <2>1. PICK status : placements' = [placements EXCEPT ![i].status = status]
      BY <1>3 DEF BrokerResolves
    <2>2. placements[i] \in Placement
      BY <1>1
    <2> DEFINE new == [placements[i] EXCEPT !.status = status]
    <2>3. new.order = placements[i].order
      BY <2>2 DEF Placement
    <2>4. placements' = [placements EXCEPT ![i] = new]
      BY <2>1
    <2> HIDE DEF new
    <2> QED BY <1>1, <2>3, <2>4
  <1>4. \/ UNCHANGED placements
        \/ \E s \in batch :
              placements' = Append(placements, [order |-> s.id, status |-> PlaceStatus])
        \/ \E i \in DOMAIN placements : BrokerResolves(i)
    BY DEF Next, vars, Create, SubmitCreate, LookupKey, CheckPolicy, InsertOrder, SaveResponse,
           AppendCreateEvent, Cancel, StartCancel, CancelReadFails, WriteCanceled,
           AppendCancelEvent, Tick, Reconcile, PlaceOrder, PollOrder, TouchOrder,
           SetProviderOrderID, UpdateStatus, AppendWorkerEvent, RecordFill, WorkerRestart,
           CooldownPasses
  <1> QED BY <1>2, <1>3, <1>4

(* What the worker holds after a step it held before, or read as open.     *)
LEMMA WorkerHoldsStep ==
  ASSUME TypeInv, [Next]_vars
  PROVE  /\ \A s \in batch' : s \in batch \/ \E o \in OpenOrders : s = Snapshot(o)
         /\ wpc' # "next" => \/ wpc # "next" /\ cur'.id = cur.id
                             \/ \E s \in batch : cur'.id = s.id
  <1> USE DEF workerVars
  <1>1. CASE UNCHANGED <<wpc, batch, cur>>
    BY <1>1
  <1>2. CASE Tick
    BY <1>2 DEF Tick
  <1>3. ASSUME NEW s \in batch, PlaceOrder(s) \/ PollOrder(s) \/ TouchOrder(s)
        PROVE  batch' \subseteq batch /\ (wpc' # "next" => cur'.id = s.id)
    BY <1>3 DEF PlaceOrder, PollOrder, TouchOrder, Work, NextOrder
  <1>4. CASE SetProviderOrderID \/ UpdateStatus \/ AppendWorkerEvent \/ RecordFill
    BY <1>4 DEF SetProviderOrderID, UpdateStatus, AppendWorkerEvent, RecordFill, NextOrder
  <1>5. CASE WorkerRestart
    BY <1>5 DEF WorkerRestart
  <1> QED BY <1>1, <1>2, <1>3, <1>4, <1>5
          DEF Next, vars, Reconcile, Create, SubmitCreate, LookupKey, CheckPolicy, InsertOrder,
              SaveResponse, AppendCreateEvent, Cancel, StartCancel, CancelReadFails,
              WriteCanceled, AppendCancelEvent, BrokerResolves, CooldownPasses

(* Who may change the status of a row, and its broker id, and to what.     *)
RowMoves(o) ==
    /\ \/ orders'[o].status = orders[o].status
       \/ /\ orders'[o].status = "canceled"
          /\ \E c \in Cancels : WriteCanceled(c) /\ cancel[c].order = o
       \/ UpdateStatus /\ o = cur.id /\ orders'[o].status = cur.observed
    /\ \/ orders'[o].provId = orders[o].provId
       \/ SetProviderOrderID /\ o = cur.id /\ orders'[o].provId = cur.placedId

LEMMA StatusStep ==
  ASSUME TypeInv, [Next]_vars, NEW o \in Requests
  PROVE  RowMoves(o) \/ Inserts(o)
  <1> USE DEF tables
  <1>0. orders \in [Requests -> Row \cup {NoRow}]
    BY DEF TypeInv, TypeOK, TablesOK
  <1>1. orders'[o] = orders[o] => RowMoves(o)
    BY DEF RowMoves
  <1>2. ASSUME NEW r \in Requests, Create(r)
        PROVE  orders'[o] = orders[o] \/ Inserts(o)
    <2>1. CASE InsertOrder(r)
      <3>1. UNCHANGED orders \/ (~KeyTaken(r) /\ orders' = [orders EXCEPT ![r] = NewRow(r)])
        BY <2>1 DEF InsertOrder
      <3> QED BY <1>0, <2>1, <3>1 DEF Inserts
    <2> QED BY <1>2, <2>1 DEF Create, SubmitCreate, LookupKey, CheckPolicy, SaveResponse,
                              AppendCreateEvent
  <1>3. ASSUME NEW p \in Requests, Exists(p), NEW status, SetStatus(p, status)
        PROVE  IF p = o THEN orders'[o].status = status /\ orders'[o].provId = orders[o].provId
               ELSE orders'[o] = orders[o]
    <2>1. orders[p] \in Row
      BY <1>3, RowFields DEF TypeInv, TypeOK
    <2> QED BY <1>0, <1>3, <2>1 DEF SetStatus, Row
  <1>4. ASSUME NEW c \in Cancels, Cancel(c)
        PROVE  RowMoves(o)
    <2>1. CASE WriteCanceled(c) /\ ~UNCHANGED orders
      <3>1. cancel[c].order \in Requests /\ Exists(cancel[c].order)
        BY <2>1 DEF WriteCanceled, TypeInv, TypeOK, CancelsOK, HeldExist
      <3>2. SetStatus(cancel[c].order, "canceled")
        BY <2>1 DEF WriteCanceled
      <3> QED BY <1>1, <1>3, <2>1, <3>1, <3>2 DEF RowMoves
    <2>2. UNCHANGED orders \/ WriteCanceled(c)
      BY <1>4 DEF Cancel, StartCancel, CancelReadFails, AppendCancelEvent
    <2> QED BY <1>1, <2>1, <2>2
  <1>5. CASE Reconcile
    <2>1. wpc # "next" => cur.id \in Requests /\ Exists(cur.id)
      BY DEF TypeInv, TypeOK, WorkerOK, CurRecord, HeldExist
    <2>2. CASE UpdateStatus
      <3>1. UNCHANGED orders \/ SetStatus(cur.id, cur.observed)
        BY <2>2 DEF UpdateStatus
      <3> QED BY <1>1, <1>3, <2>1, <2>2, <3>1 DEF UpdateStatus, RowMoves
    <2>3. CASE SetProviderOrderID /\ ~UNCHANGED orders
      <3>1. orders' = [orders EXCEPT ![cur.id].provId = cur.placedId]
        BY <2>3 DEF SetProviderOrderID
      <3>2. cur.id \in Requests /\ orders[cur.id] \in Row
        BY <2>1, <2>3, RowFields DEF SetProviderOrderID, TypeInv, TypeOK
      <3>3. CASE o = cur.id
        BY <1>0, <2>3, <3>1, <3>2, <3>3 DEF RowMoves, Row
      <3> QED BY <1>0, <1>1, <3>1, <3>2, <3>3
    <2> QED BY <1>1, <1>5, <2>2, <2>3
            DEF Reconcile, PlaceOrder, PollOrder, TouchOrder, AppendWorkerEvent, RecordFill
  <1>6. ASSUME NEW p \in Requests, CooldownPasses(p)
        PROVE  RowMoves(o)
    <2>1. orders[p] \in Row
      BY <1>0, <1>6 DEF CooldownPasses, NoRow
    <2> QED BY <1>0, <1>6, <2>1 DEF CooldownPasses, Row, RowMoves
  <1>7. CASE \/ Tick \/ WorkerRestart \/ UNCHANGED vars
             \/ \E i \in DOMAIN placements : BrokerResolves(i)
    BY <1>1, <1>7 DEF Tick, WorkerRestart, BrokerResolves, vars
  <1> QED BY <1>1, <1>2, <1>4, <1>5, <1>6, <1>7 DEF Next

(* Which orders a cancel call gets hold of. *)
LEMMA CancelStep ==
  ASSUME TypeInv, [Next]_vars, NEW c \in Cancels, cancel'[c].pc = "update"
  PROVE  /\ cancel'[c].order \in Requests
         /\ \/ cancel[c].pc = "update" /\ cancel'[c].order = cancel[c].order
            \/ MayCancel(orders[cancel'[c].order].status)
  <1> USE DEF apiVars
  <1>0. cancel \in [Cancels -> CancelRecord] /\ CancelsOK
    BY DEF TypeInv, TypeOK, CancelsOK
  <1>1. CASE UNCHANGED cancel
    BY <1>0, <1>1 DEF CancelsOK
  <1>2. ASSUME NEW d \in Cancels, NEW o \in Requests, StartCancel(d, o)
        PROVE  /\ cancel'[c].order \in Requests
               /\ \/ cancel[c].pc = "update" /\ cancel'[c].order = cancel[c].order
                  \/ MayCancel(orders[cancel'[c].order].status)
    <2>1. CASE c = d
      BY <1>0, <1>2, <2>1 DEF StartCancel
    <2>2. CASE c # d
      BY <1>0, <1>2, <2>2 DEF StartCancel, CancelsOK
    <2> QED BY <2>1, <2>2
  <1>3. ASSUME NEW d \in Cancels, CancelReadFails(d) \/ WriteCanceled(d) \/ AppendCancelEvent(d)
        PROVE  c # d /\ cancel'[c] = cancel[c]
    <2>1. cancel[d] \in CancelRecord
      BY <1>0
    <2>2. cancel'[d].pc \in {"event", "done"} /\ (c # d => cancel'[c] = cancel[c])
      BY <1>0, <1>3, <2>1 DEF CancelReadFails, WriteCanceled, AppendCancelEvent, EndCancel,
                              CancelRecord
    <2> QED BY <2>2
  <1>4. UNCHANGED cancel \/ \E d \in Cancels : Cancel(d)
    BY DEF Next, vars, Create, SubmitCreate, LookupKey, CheckPolicy, InsertOrder, SaveResponse,
           AppendCreateEvent, Tick, Reconcile, PlaceOrder, PollOrder, TouchOrder,
           SetProviderOrderID, UpdateStatus, AppendWorkerEvent, RecordFill, WorkerRestart,
           BrokerResolves, CooldownPasses, Goto, Answer, Fail
  <1> QED BY <1>0, <1>1, <1>2, <1>3, <1>4 DEF Cancel, CancelsOK

LEMMA AllowedStep == TypeInv /\ CallsAgree /\ AllowedInv /\ [Next]_vars => AllowedInv'
  <1> SUFFICES ASSUME TypeInv, CallsAgree, AllowedInv, [Next]_vars PROVE AllowedInv'
    OBVIOUS
  <1>1. \A o \in Requests : Exists(o) /\ orders[o].allowed => orders'[o].allowed
    BY AllowedKept
  <1>2. ASSUME NEW o \in Requests, IsOpen(orders'[o].status)
        PROVE  orders'[o].allowed
    <2>1. CASE orders'[o].status = orders[o].status
      BY <1>1, <1>2, <2>1 DEF AllowedInv, IsOpen, OpenStatuses, Exists
    <2>2. CASE orders'[o].status = "canceled"
      BY <1>2, <2>2 DEF IsOpen, OpenStatuses
    <2>3. CASE UpdateStatus /\ o = cur.id
      BY <1>1, <2>3 DEF UpdateStatus, AllowedInv, TypeInv, HeldExist
    <2>4. CASE Inserts(o)
      BY <1>2, <2>4 DEF Inserts, NewRow, IsOpen, OpenStatuses, TypeInv, TypeOK, TablesOK
    <2> QED BY <2>1, <2>2, <2>3, <2>4, StatusStep DEF RowMoves
  <1>3. ASSUME NEW c \in Cancels, cancel'[c].pc = "update"
        PROVE  orders'[cancel'[c].order].allowed
    <2>1. CASE cancel[c].pc = "update" /\ cancel'[c].order = cancel[c].order
      BY <1>1, <2>1 DEF AllowedInv, TypeInv, TypeOK, CancelsOK, HeldExist
    <2>2. CASE cancel'[c].order \in Requests /\ MayCancel(orders[cancel'[c].order].status)
      BY <1>1, <2>2 DEF AllowedInv, MayCancel, IsOpen, OpenStatuses, Exists
    <2> QED BY <1>3, <2>1, <2>2, CancelStep
  <1>4. \A s \in batch : s.id \in Requests /\ Exists(s.id)
    BY DEF TypeInv, TypeOK, WorkerOK, SnapshotRecord, HeldExist
  <1>5. ASSUME NEW s \in batch'
        PROVE  orders'[s.id].allowed
    <2>1. CASE s \in batch
      BY <1>1, <1>4, <2>1 DEF AllowedInv
    <2>2. ASSUME NEW o \in OpenOrders, s = Snapshot(o)
          PROVE  orders'[s.id].allowed
      BY <1>1, <2>2 DEF AllowedInv, OpenOrders, Snapshot, IsOpen, OpenStatuses, Exists
    <2> QED BY <2>1, <2>2, WorkerHoldsStep
  <1>6. ASSUME wpc' # "next"
        PROVE  orders'[cur'.id].allowed
    <2>1. CASE wpc # "next" /\ cur'.id = cur.id
      BY <1>1, <2>1 DEF AllowedInv, TypeInv, TypeOK, WorkerOK, CurRecord, HeldExist
    <2>2. ASSUME NEW s \in batch, cur'.id = s.id
          PROVE  orders'[cur'.id].allowed
      BY <1>1, <1>4, <2>2 DEF AllowedInv
    <2> QED BY <1>6, <2>1, <2>2, WorkerHoldsStep
  <1>7. OnlyAllowedPlaced'
    <2>1. ASSUME NEW i \in DOMAIN placements, placements'[i].order = placements[i].order
          PROVE  orders'[placements'[i].order].allowed
      <3>1. placements[i].order \in Requests
        <4>1. placements[i] \in Placement
          BY DEF TypeInv, TypeOK, BrokerOK
        <4> QED BY <4>1 DEF Placement
      <3>2. orders[placements[i].order].allowed
        BY DEF AllowedInv, OnlyAllowedPlaced
      <3>3. Exists(placements[i].order)
        BY <3>1, <3>2, AllowedExists DEF TypeInv, TypeOK
      <3> QED BY <1>1, <2>1, <3>1, <3>2, <3>3
    <2>2. ASSUME NEW i \in DOMAIN placements', NEW s \in batch, placements'[i].order = s.id
          PROVE  orders'[placements'[i].order].allowed
      BY <1>1, <1>4, <2>2 DEF AllowedInv
    <2> QED BY <2>1, <2>2, PlacedStep DEF OnlyAllowedPlaced
  <1> QED BY <1>2, <1>3, <1>5, <1>6, <1>7 DEF AllowedInv

(* Only orders the policy allowed are ever placed at the broker, although  *)
(* the worker writes statuses without looking at the row.                  *)
THEOREM PlacedOrdersWereAllowed == Spec => []OnlyAllowedPlaced
  <1>1. KeyInv => CallsAgree
    BY DEF KeyInv
  <1>2. AllowedInv => OnlyAllowedPlaced
    BY DEF AllowedInv
  <1> QED BY <1>1, <1>2, AllowedInit, AllowedStep, TypeInvariant, KeyInvariant, PTL DEF Spec
----------------------------------------------------------------------------
(* The global cap on open buy orders                                       *)

Existing == {o \in Requests : Exists(o)}
AmountsIn(rows) == [o \in Requests |-> Notional(rows[o].body)]
BuysIn(rows, O) == {o \in O : rows[o].body.side = "buy"}
(* What the buy orders of O amount to. *)
Promised(rows, O) == SumFunctionOnSet(AmountsIn(rows), BuysIn(rows, O))

Amounts == AmountsIn(orders)

LEMMA AmountType ==
  ASSUME TypeInv
  PROVE  \A o \in Existing : Amounts[o] \in Int /\ orders[o].body \in Bodies
  <1> SUFFICES ASSUME NEW o \in Existing PROVE Amounts[o] \in Int /\ orders[o].body \in Bodies
    OBVIOUS
  <1>1. orders[o] \in Row /\ o \in Requests
    BY RowFields DEF Existing, TypeInv, TypeOK
  <1>2. orders[o].body \in Bodies
    BY <1>1 DEF Row
  <1>3. orders[o].body.qty \in Int /\ orders[o].body.price \in Int
    BY <1>2, AmountsAssumption
  <1>4. Notional(orders[o].body) \in Int
    BY <1>3 DEF Notional
  <1> QED BY <1>1, <1>2, <1>4 DEF Amounts, AmountsIn

(* BuyExposure, which adds up records, as a sum over orders.               *)
LEMMA ExposureOfRecords ==
  ASSUME NEW open, IsFiniteSet(open),
         NEW f, f = [x \in open |-> x.notional], \A x \in open : x.notional \in Int
  PROVE  BuyExposure(open) = SumFunctionOnSet(f, {x \in open : x.side = "buy"})
  <1> DEFINE B == {x \in open : x.side = "buy"}
             IsSum(k) == k = [s \in SUBSET B |-> IF s = {} THEN 0
                                                ELSE Pick(s).notional + k[s \ {Pick(s)}]]
             h == CHOOSE k : IsSum(k)
  <1>1. BuyExposure(open) = h[B]
    BY Zenon DEF BuyExposure, MapThenSumSet, MapThenFoldSet, Pick
  <1>2. IsFiniteSet(B)
    BY FS_Subset
  <1>3. PICK g : Sums(g, f, B)
    BY <1>2, SumsExist
  <1>4. \A s \in SUBSET B : s # {} => f[Pick(s)] = Pick(s).notional
    BY Picked
  <1>5. IsSum(g)
    <2>1. \A s \in SUBSET B : (IF s = {} THEN 0 ELSE f[Pick(s)] + g[s \ {Pick(s)}])
                            = (IF s = {} THEN 0 ELSE Pick(s).notional + g[s \ {Pick(s)}])
      BY <1>4
    <2>2. g = [s \in SUBSET B |-> IF s = {} THEN 0 ELSE f[Pick(s)] + g[s \ {Pick(s)}]]
      BY <1>3 DEF Sums, SumsOn
    <2> HIDE DEF B
    <2> QED BY <2>1, <2>2
  <1>6. IsSum(h)
    BY <1>5
  <1> HIDE DEF h
  <1>7. Sums(h, f, B)
    <2>1. \A s \in SUBSET B : (IF s = {} THEN 0 ELSE f[Pick(s)] + h[s \ {Pick(s)}])
                            = (IF s = {} THEN 0 ELSE Pick(s).notional + h[s \ {Pick(s)}])
      BY <1>4
    <2>2. h = [s \in SUBSET B |-> IF s = {} THEN 0 ELSE Pick(s).notional + h[s \ {Pick(s)}]]
      BY <1>6
    <2>3. h = [s \in SUBSET B |-> IF s = {} THEN 0 ELSE f[Pick(s)] + h[s \ {Pick(s)}]]
      <3> HIDE DEF B
      <3> QED BY <2>1, <2>2
    <2> HIDE DEF B
    <2> QED BY <2>3 DEF Sums, SumsOn
  <1> HIDE DEF B
  <1>8. B \in SUBSET B
    OBVIOUS
  <1>9. SumFunctionOnSet(f, B) = h[B]
    BY <1>2, <1>7, <1>8, SumByFunction
  <1> QED BY <1>1, <1>9 DEF B

LEMMA ExposureOfOrders ==
  ASSUME TypeInv, NEW O \in SUBSET Existing, IsFiniteSet(O)
  PROVE  BuyExposure({PolicyView(o) : o \in O}) = Promised(orders, O)
  <1> DEFINE v == [o \in O |-> PolicyView(o)]
             open == {PolicyView(o) : o \in O}
             f == [x \in open |-> x.notional]
             B == BuysIn(orders, O)
  <1>1. open = {v[o] : o \in O}
    OBVIOUS
  <1>2. \A o \in O : /\ v[o].id = o /\ v[o].side = orders[o].body.side
                     /\ v[o].notional = Amounts[o] /\ Amounts[o] \in Int
    BY AmountType DEF PolicyView, Amounts, AmountsIn, Existing
  <1> HIDE DEF v
  <1>3. IsFiniteSet(open)
    BY <1>1, ImageFinite
  <1>4. \A x \in open : x.notional \in Int
    BY <1>1, <1>2
  <1>5. BuyExposure(open) = SumFunctionOnSet(f, {x \in open : x.side = "buy"})
    <2> HIDE DEF open
    <2>1. \A x \in open : x.notional \in Int
      BY <1>4
    <2> DEFINE k == f
    <2>2. k = [x \in open |-> x.notional]
      OBVIOUS
    <2> HIDE DEF k
    <2>3. BuyExposure(open) = SumFunctionOnSet(k, {x \in open : x.side = "buy"})
      BY <1>3, <2>1, <2>2, ExposureOfRecords
    <2> QED BY <2>3 DEF k
  <1>6. {x \in open : x.side = "buy"} = {v[o] : o \in B}
    BY <1>1, <1>2 DEF BuysIn
  <1>7. \A o \in B : Amounts[o] = f[v[o]] /\ Amounts[o] \in Int
    BY <1>1, <1>2 DEF BuysIn
  <1>8. IsFiniteSet(B)
    BY FS_Subset DEF BuysIn
  <1>9. \A o, p \in B : v[o] = v[p] => o = p
    BY <1>2 DEF BuysIn
  <1> HIDE DEF f, B
  <1>10. SumFunctionOnSet(f, {v[o] : o \in B}) = SumFunctionOnSet(Amounts, B)
    BY <1>7, <1>8, <1>9, SumOfImage
  <1> QED BY <1>5, <1>6, <1>10 DEF Promised, B, Amounts

(* OpenExposure, when the cap counts every open buy order.                 *)
LEMMA ExposureWhenCounted ==
  ASSUME TypeInv, IsFiniteSet(OpenOrders), OpenOrders \in SUBSET Existing,
         \A o \in OpenOrders : ~Uncounted(o)
  PROVE  OpenExposure = Promised(orders, OpenOrders)
  <1> DEFINE B == {o \in OpenOrders : Buys(o)}
             IsSum(k) == k = [s \in SUBSET B |-> IF s = {} THEN 0
                                ELSE Notional(orders[Pick(s)].body) + k[s \ {Pick(s)}]]
             h == CHOOSE k : IsSum(k)
  <1>1. OpenExposure = h[B]
    BY Zenon DEF OpenExposure, MapThenSumSet, MapThenFoldSet, Pick
  <1>2. IsFiniteSet(B) /\ B \in SUBSET Existing
    BY FS_Subset
  <1>3. \A s \in SUBSET B : s # {} => Amounts[Pick(s)] = Notional(orders[Pick(s)].body)
    BY <1>2, Picked, AmountType DEF Amounts, AmountsIn, Existing
  <1>4. PICK g : Sums(g, Amounts, B)
    <2>1. \A o \in B : Amounts[o] \in Int
      BY <1>2, AmountType
    <2> HIDE DEF B
    <2> QED BY <1>2, <2>1, SumsExist
  <1>5. IsSum(g)
    <2>1. \A s \in SUBSET B :
             (IF s = {} THEN 0 ELSE Amounts[Pick(s)] + g[s \ {Pick(s)}])
           = (IF s = {} THEN 0 ELSE Notional(orders[Pick(s)].body) + g[s \ {Pick(s)}])
      BY <1>3
    <2>2. g = [s \in SUBSET B |-> IF s = {} THEN 0 ELSE Amounts[Pick(s)] + g[s \ {Pick(s)}]]
      BY <1>4 DEF Sums, SumsOn
    <2> HIDE DEF B
    <2> QED BY <2>1, <2>2
  <1>6. IsSum(h)
    BY <1>5
  <1> HIDE DEF h
  <1>7. Sums(h, Amounts, B)
    <2>1. \A s \in SUBSET B :
             (IF s = {} THEN 0 ELSE Amounts[Pick(s)] + h[s \ {Pick(s)}])
           = (IF s = {} THEN 0 ELSE Notional(orders[Pick(s)].body) + h[s \ {Pick(s)}])
      BY <1>3
    <2>2. h = [s \in SUBSET B |-> IF s = {} THEN 0
                                  ELSE Notional(orders[Pick(s)].body) + h[s \ {Pick(s)}]]
      BY <1>6
    <2>3. h = [s \in SUBSET B |-> IF s = {} THEN 0 ELSE Amounts[Pick(s)] + h[s \ {Pick(s)}]]
      <3> HIDE DEF B
      <3> QED BY <2>1, <2>2
    <2> HIDE DEF B
    <2> QED BY <2>3 DEF Sums, SumsOn
  <1>8. B = BuysIn(orders, OpenOrders)
    BY DEF Buys, Uncounted, BuysIn, Lower
  <1> HIDE DEF B
  <1>9. SumFunctionOnSet(Amounts, B) = h[B]
    <2>1. B \in SUBSET B
      OBVIOUS
    <2> QED BY <1>2, <1>7, <2>1, SumByFunction
  <1> QED BY <1>1, <1>8, <1>9 DEF Promised, Amounts
----------------------------------------------------------------------------
(* A row is inserted after the rows its check has seen; so rows can be     *)
(* numbered such that a check sees smaller numbers only.                   *)
Ranked(rank, n) == \A o \in Existing : rank[o] < n /\ \A s \in call[o].seen : rank[s] < rank[o]

(* What the check of c has seen leaves room for the request q. *)
Within(rows, c, q) ==
    RiskPolicy.globalMax > 0 /\ q.allowed /\ q.body.side = "buy" /\ ~c.blind
        => Promised(rows, c.seen) + Notional(q.body) <= RiskPolicy.globalMax

SeenExist == /\ IsFiniteSet(Existing)
             /\ \A r \in Requests : call[r].seen \subseteq Existing
Numbered  == \E rank \in [Requests -> Nat], n \in Nat : Ranked(rank, n)
WithinCap == \A r \in Requests : /\ Exists(r) => Within(orders, call[r], orders[r])
                                 /\ call[r].pc = "insert" => Within(orders, call[r], call[r])

ExposureInv == SeenExist /\ Numbered /\ WithinCap

LEMMA ExposureInit == Init => ExposureInv
  <1> SUFFICES ASSUME Init PROVE ExposureInv
    OBVIOUS
  <1>1. Existing = {}
    BY DEF Init, Existing, Exists, NoRow
  <1>2. SeenExist
    BY <1>1, FS_EmptySet DEF Init, SeenExist, NoCall
  <1>3. Numbered
    <2>1. [r \in Requests |-> 0] \in [Requests -> Nat] /\ 0 \in Nat
      OBVIOUS
    <2> QED BY <1>1, <2>1 DEF Numbered, Ranked
  <1>4. WithinCap
    BY DEF Init, WithinCap, Exists, NoRow, NoCall
  <1> QED BY <1>2, <1>3, <1>4 DEF ExposureInv

(* What a step does to what a call holds of its check.                     *)
SameCheck(q) == /\ call'[q].seen = call[q].seen /\ call'[q].blind = call[q].blind
                /\ call'[q].pc = "insert" => /\ call[q].pc = "insert"
                                             /\ call'[q].allowed = call[q].allowed
                                             /\ call'[q].body = call[q].body

LEMMA CheckStep ==
  ASSUME TypeInv, CallsAgree, [Next]_vars, NEW q \in Requests
  PROVE  \/ SameCheck(q)
         \/ /\ call[q].pc = "idle" /\ call'[q].pc # "insert" /\ call'[q].seen = {}
            /\ orders' = orders
         \/ call[q].pc = "check" /\ CheckPolicy(q)
  <1>0. call \in [Requests -> CallRecord]
    BY DEF TypeInv, TypeOK, CallsOK
  <1>1. CASE call'[q] = call[q]
    BY <1>1 DEF SameCheck
  <1>2. ASSUME NEW r \in Requests, Create(r), r # q
        PROVE  call'[q] = call[q]
    BY <1>0, <1>2 DEF Create, SubmitCreate, LookupKey, CheckPolicy, InsertOrder, SaveResponse,
                      AppendCreateEvent, Goto, Answer, Fail
  <1>3. CASE Create(q)
    <2>1. CASE \E key \in Keys, body \in Bodies : SubmitCreate(q, key, body)
      BY <1>0, <2>1 DEF SubmitCreate, NoCall, tables
    <2>2. CASE CheckPolicy(q)
      BY <2>2 DEF CheckPolicy
    <2>3. ASSUME NEW pc \in CallPcs \ {"insert"}, Goto(q, pc)
          PROVE  SameCheck(q)
      BY <1>0, <2>3 DEF Goto, SameCheck, CallRecord
    <2>4. ASSUME NEW answer, NEW o, NEW allowed, Answer(q, answer, o, allowed)
          PROVE  SameCheck(q)
      BY <1>0, <2>4 DEF Answer, SameCheck, CallRecord
    <2>5. Fail(q) => SameCheck(q)
      BY <2>4 DEF Fail
    <2>6. CASE LookupKey(q)
      BY <2>3, <2>4, <2>5, <2>6 DEF LookupKey, CallPcs
    <2>7. CASE InsertOrder(q)
      BY <2>3, <2>5, <2>7 DEF InsertOrder, CallPcs
    <2>8. CASE SaveResponse(q)
      BY <2>3, <2>5, <2>8 DEF SaveResponse, CallPcs
    <2>9. CASE AppendCreateEvent(q)
      BY <2>4, <2>5, <2>9 DEF AppendCreateEvent
    <2> QED BY <1>3, <2>1, <2>2, <2>6, <2>7, <2>8, <2>9 DEF Create
  <1>4. UNCHANGED call \/ \E r \in Requests : Create(r)
    BY DEF Next, vars, apiVars, Cancel, StartCancel, CancelReadFails, WriteCanceled,
           AppendCancelEvent, Tick, Reconcile, PlaceOrder, PollOrder, TouchOrder,
           SetProviderOrderID, UpdateStatus, AppendWorkerEvent, RecordFill, WorkerRestart,
           BrokerResolves, CooldownPasses
  <1> QED BY <1>1, <1>2, <1>3, <1>4
LEMMA RowsStay ==
  ASSUME TypeInv, CallsAgree, [Next]_vars
  PROVE  /\ \A o \in Existing : o \in Existing' /\ orders'[o].body = orders[o].body
                                /\ orders'[o].allowed = orders[o].allowed
         /\ \/ Existing' = Existing
            \/ \E r \in Requests : /\ Inserts(r) /\ call[r].pc = "insert" /\ r \notin Existing
                                   /\ Existing' = Existing \cup {r}
  <1>1. CASE \A o \in Requests : SameRow(o)
    BY <1>1 DEF SameRow, Existing
  <1>2. ASSUME NEW r \in Requests, Inserts(r)
        PROVE  /\ call[r].pc = "insert" /\ r \notin Existing /\ Existing' = Existing \cup {r}
               /\ \A o \in Existing : orders'[o] = orders[o]
    <2>1. call[r].pc = "insert" /\ ~Exists(r)
      BY <1>2 DEF Inserts, InsertOrder, CallsAgree
    <2>2. /\ orders'[r].status # "absent" /\ \A o \in Requests \ {r} : orders'[o] = orders[o]
      BY <1>2 DEF Inserts, NewRow, TypeInv, TypeOK, TablesOK
    <2>3. \A o \in Requests : Exists(o)' <=> Exists(o) \/ o = r
      BY <2>1, <2>2 DEF Exists
    <2> QED BY <2>1, <2>2, <2>3 DEF Existing
  <1> QED BY <1>1, <1>2, RowStep

(* What is promised by rows stays the same. *)
LEMMA PromisedKept ==
  ASSUME TypeInv, CallsAgree, [Next]_vars, NEW O \in SUBSET Existing, IsFiniteSet(O)
  PROVE  Promised(orders', O) = Promised(orders, O)
  <1>1. \A o \in O : o \in Requests /\ orders'[o].body = orders[o].body
    BY RowsStay DEF Existing
  <1>2. BuysIn(orders', O) = BuysIn(orders, O)
    BY <1>1 DEF BuysIn
  <1>3. IsFiniteSet(BuysIn(orders, O))
    BY FS_Subset DEF BuysIn
  <1>4. Alike(AmountsIn(orders'), AmountsIn(orders), BuysIn(orders, O))
    BY <1>1 DEF Alike, AmountsIn, BuysIn
  <1> DEFINE e == AmountsIn(orders')
             f == AmountsIn(orders)
             B == BuysIn(orders, O)
  <1>5. SumFunctionOnSet(e, B) = SumFunctionOnSet(f, B)
    <2> HIDE DEF e, f, B
    <2>1. IsFiniteSet(B) /\ Alike(e, f, B)
      BY <1>3, <1>4 DEF e, f, B
    <2> QED BY <2>1, SumsAreAlike
  <1> QED BY <1>2, <1>5 DEF Promised

LEMMA SeenStep ==
  ASSUME TypeInv, CallsAgree, SeenExist, [Next]_vars
  PROVE  SeenExist'
  <1>1. IsFiniteSet(Existing')
    <2>1. \A r : IsFiniteSet(Existing \cup {r})
      BY FS_AddElement DEF SeenExist
    <2> QED BY <2>1, RowsStay DEF SeenExist
  <1>2. ASSUME NEW r \in Requests
        PROVE  call'[r].seen \subseteq Existing'
    <2>1. Existing \subseteq Existing'
      BY RowsStay
    <2>2. CASE call[r].pc = "check" /\ CheckPolicy(r)
      <3>1. OpenOrders \subseteq Existing
        BY DEF OpenOrders, Existing, Exists, IsOpen, OpenStatuses
      <3>2. call'[r].seen \subseteq OpenOrders
        BY <2>2 DEF CheckPolicy, TypeInv, TypeOK, CallsOK, CallRecord
      <3> QED BY <2>1, <3>1, <3>2
    <2> QED BY <2>1, <2>2, CheckStep DEF SameCheck, SeenExist
  <1> QED BY <1>1, <1>2 DEF SeenExist

LEMMA NumberedStep ==
  ASSUME TypeInv, CallsAgree, SeenExist, Numbered, [Next]_vars
  PROVE  Numbered'
  <1>1. PICK rank \in [Requests -> Nat], n \in Nat : Ranked(rank, n)
    BY DEF Numbered
  <1>2. ASSUME NEW o \in Existing PROVE call'[o].seen = call[o].seen
    <2>1. call[o].pc \notin {"idle", "check"} /\ o \in Requests
      BY DEF CallsAgree, Existing
    <2> QED BY <2>1, CheckStep DEF SameCheck
  <1>3. CASE Existing' = Existing
    <2>1. \A o \in Existing' : rank[o] < n /\ \A s \in call'[o].seen : rank[s] < rank[o]
      BY <1>1, <1>2, <1>3 DEF Ranked
    <2> QED BY <2>1 DEF Numbered, Ranked
  <1>4. ASSUME NEW r \in Requests, call[r].pc = "insert", r \notin Existing,
               Existing' = Existing \cup {r}
        PROVE  Numbered'
    <2> DEFINE next == [rank EXCEPT ![r] = n]
    <2>1. next \in [Requests -> Nat] /\ n + 1 \in Nat
      OBVIOUS
    <2>2. /\ next[r] = n /\ \A o \in Requests \ {r} : next[o] = rank[o]
          /\ \A o \in Requests : rank[o] \in Nat
      OBVIOUS
    <2> HIDE DEF next
    <2>3. call'[r].seen = call[r].seen
      BY <1>4, CheckStep DEF SameCheck
    <2>4. \A o \in Requests : call[o].seen \subseteq Existing
      BY DEF SeenExist
    <2>5. ASSUME NEW o \in Existing'
          PROVE  next[o] < n + 1 /\ \A s \in call'[o].seen : next[s] < next[o]
      <3>1. CASE o = r
        <4>1. \A s \in call'[o].seen : s \in Existing /\ s \in Requests /\ s # r
          BY <1>4, <2>3, <2>4, <3>1 DEF Existing
        <4> QED BY <1>1, <2>2, <3>1, <4>1 DEF Ranked
      <3>2. CASE o \in Existing
        <4>1. o \in Requests /\ o # r /\ call'[o].seen = call[o].seen
          BY <1>2, <1>4, <3>2 DEF Existing
        <4>2. \A s \in call[o].seen : s \in Requests /\ s # r
          BY <1>4, <2>4, <4>1 DEF Existing
        <4> QED BY <1>1, <2>2, <3>2, <4>1, <4>2 DEF Ranked
      <3> QED BY <1>4, <3>1, <3>2
    <2> QED BY <2>1, <2>5 DEF Numbered, Ranked
  <1> QED BY <1>3, <1>4, RowsStay
LEMMA PromisedType ==
  ASSUME TypeInv, NEW O \in SUBSET Existing, IsFiniteSet(O)
  PROVE  Promised(orders, O) \in Int
  <1> DEFINE f == Amounts
             B == BuysIn(orders, O)
  <1>1. IsFiniteSet(B) /\ B \subseteq Existing
    <2>1. B \in SUBSET O
      BY DEF BuysIn
    <2> HIDE DEF B
    <2> QED BY <2>1, FS_Subset
  <1>2. \A o \in B : f[o] \in Int
    BY <1>1, AmountType
  <1> HIDE DEF f, B
  <1>3. SumFunctionOnSet(f, B) \in Int
    BY <1>1, <1>2, SumSplits
  <1> QED BY <1>3 DEF Promised, Amounts, f, B

(* What the policy allows fits under the cap, with what its check has seen. *)
LEMMA CheckLeavesRoom ==
  ASSUME TypeInv, SeenExist, NEW body \in Bodies, RiskPolicy.globalMax > 0, body.side = "buy",
         Allowed(RiskPolicy, {PolicyView(o) : o \in OpenOrders}, body)
  PROVE  Promised(orders, OpenOrders) + Notional(body) <= RiskPolicy.globalMax
  <1> DEFINE open == {PolicyView(o) : o \in OpenOrders}
             P == Promised(orders, OpenOrders)
             N == Notional(body)
  <1>1. OpenOrders \in SUBSET Existing /\ IsFiniteSet(OpenOrders)
    <2>1. OpenOrders \in SUBSET Existing
      BY DEF OpenOrders, Existing, Exists, IsOpen, OpenStatuses
    <2> QED BY <2>1, FS_Subset DEF SeenExist
  <1>2. BuyExposure(open) = P /\ P \in Int
    BY <1>1, ExposureOfOrders, PromisedType
  <1>3. N \in Int /\ RiskPolicy.globalMax \in Int
    BY AmountsAssumption DEF Notional
  <1> HIDE DEF open, P, N
  <1>4. ~(ExposureAfter(open, body) > RiskPolicy.globalMax)
    <2> DEFINE broken == Breaks(RiskPolicy, open, body)
               code == "global_max_exposure"
    <2>1. /\ code \in DOMAIN broken
          /\ broken[code] = (RiskPolicy.globalMax > 0 /\ ExposureAfter(open, body) > RiskPolicy.globalMax)
      BY DEF Breaks
    <2> HIDE DEF broken
    <2>2. {c \in DOMAIN broken : broken[c]} = {}
      BY DEF Allowed, ReasonCodes, open, broken
    <2> QED BY <2>1, <2>2
  <1>5. ExposureAfter(open, body) = P + N
    BY <1>2 DEF ExposureAfter, N
  <1>6. P + N <= RiskPolicy.globalMax
    BY <1>2, <1>3, <1>4, <1>5
  <1> QED BY <1>6 DEF P, N

LEMMA WithinStep ==
  ASSUME TypeInv, CallsAgree, SeenExist, WithinCap, [Next]_vars
  PROVE  WithinCap'
  <1>0. \A r \in Requests : call[r].seen \in SUBSET Existing /\ IsFiniteSet(call[r].seen)
    BY FS_Subset DEF SeenExist
  <1>1. \A r \in Requests : Promised(orders', call[r].seen) = Promised(orders, call[r].seen)
    BY <1>0, PromisedKept
  <1>2. ASSUME NEW r \in Requests, NEW p, NEW q, Within(orders, call[r], p),
               call'[r].seen = call[r].seen, call'[r].blind = call[r].blind,
               q.allowed = p.allowed, q.body = p.body
        PROVE  Within(orders', call'[r], q)
    BY <1>1, <1>2 DEF Within
  <1>3. ASSUME NEW r \in Requests, r \in Existing'
        PROVE  Within(orders', call'[r], orders'[r])
    <2>1. CASE r \in Existing
      <3>1. call'[r].seen = call[r].seen /\ call'[r].blind = call[r].blind
        BY <2>1, CheckStep DEF SameCheck, CallsAgree, Existing
      <3>2. Within(orders, call[r], orders[r])
        BY <2>1 DEF WithinCap, Existing
      <3> QED BY <1>2, <2>1, <3>1, <3>2, RowsStay
    <2>2. CASE r \notin Existing
      <3>1. Inserts(r) /\ call[r].pc = "insert"
        BY <1>3, <2>2, RowsStay
      <3>2. orders'[r].allowed = call[r].allowed /\ orders'[r].body = call[r].body
        BY <3>1 DEF Inserts, NewRow, TypeInv, TypeOK, TablesOK
      <3>3. call'[r].seen = call[r].seen /\ call'[r].blind = call[r].blind
        BY <3>1, CheckStep DEF SameCheck
      <3>4. Within(orders, call[r], call[r])
        BY <3>1 DEF WithinCap
      <3> QED BY <1>2, <3>2, <3>3, <3>4
    <2> QED BY <2>1, <2>2
  <1>4. ASSUME NEW r \in Requests, call'[r].pc = "insert"
        PROVE  Within(orders', call'[r], call'[r])
    <2>1. CASE SameCheck(r)
      <3>1. Within(orders, call[r], call[r])
        BY <1>4, <2>1 DEF SameCheck, WithinCap
      <3> QED BY <1>2, <1>4, <2>1, <3>1 DEF SameCheck
    <2>2. CASE call[r].pc = "check" /\ CheckPolicy(r)
      <3>1. orders' = orders /\ call[r].body \in Bodies
        BY <2>2 DEF CheckPolicy, tables, TypeInv, TypeOK, CallsOK
      <3>2. ~call'[r].blind =>
               /\ call'[r].seen = OpenOrders
               /\ call'[r].allowed = Allowed(RiskPolicy, {PolicyView(o) : o \in OpenOrders}, call[r].body)
        BY <2>2 DEF CheckPolicy, TypeInv, TypeOK, CallsOK, CallRecord
      <3>3. call'[r].body = call[r].body
        BY <2>2 DEF CheckPolicy, TypeInv, TypeOK, CallsOK, CallRecord
      <3>4. ASSUME RiskPolicy.globalMax > 0, call'[r].allowed, call[r].body.side = "buy",
                   ~call'[r].blind
            PROVE  Promised(orders, OpenOrders) + Notional(call[r].body) <= RiskPolicy.globalMax
        BY <3>1, <3>2, <3>4, CheckLeavesRoom
      <3> QED BY <3>1, <3>2, <3>3, <3>4 DEF Within
    <2> QED BY <1>4, <2>1, <2>2, CheckStep
  <1>5. \A r \in Requests : /\ r \in Existing' => Within(orders', call'[r], orders'[r])
                            /\ call'[r].pc = "insert" => Within(orders', call'[r], call'[r])
    BY <1>3, <1>4
  <1>6. \A r \in Requests : r \in Existing' <=> Exists(r)'
    BY DEF Existing
  <1> QED BY <1>5, <1>6 DEF WithinCap, Within, Promised, AmountsIn, BuysIn, Exists, Notional
LEMMA ExposureStep == TypeInv /\ CallsAgree /\ ExposureInv /\ [Next]_vars => ExposureInv'
  BY SeenStep, NumberedStep, WithinStep DEF ExposureInv

THEOREM ExposureInvariant == Spec => []ExposureInv
  <1>1. KeyInv => CallsAgree
    BY DEF KeyInv
  <1> QED BY <1>1, ExposureInit, ExposureStep, TypeInvariant, KeyInvariant, PTL DEF Spec

(* Of finitely many rows one has the greatest number. *)
LEMMA LastOf ==
  ASSUME NEW O \in SUBSET Requests, O # {}, NEW rank \in [Requests -> Nat], NEW n \in Nat,
         \A o \in O : rank[o] < n
  PROVE  \E m \in O : \A o \in O : rank[o] <= rank[m]
  <1> DEFINE R == {rank[o] : o \in O}
  <1>1. R \in SUBSET (0..n) /\ R # {}
    OBVIOUS
  <1> HIDE DEF R
  <1>2. PICK x \in R : \A y \in R : y <= x
    BY <1>1, GreatestOf
  <1> QED BY <1>2 DEF R

(* The order inserted last among the open buy orders saw all the others,   *)
(* unless two raced; its check left room for them and itself.              *)
LEMMA OverrunNeedsRace ==
  ASSUME TypeInv, AllowedInv, ExposureInv PROVE ExposureOverrunNeedsRace
  <1> SUFFICES ASSUME RiskPolicy.globalMax > 0, OpenExposure > RiskPolicy.globalMax,
                      \A o1, o2 \in OpenOrders : o1 # o2 => ~Raced(o1, o2),
                      \A o \in OpenOrders : ~call[o].blind /\ ~Undermined(o) /\ ~Uncounted(o)
               PROVE  FALSE
    BY DEF ExposureOverrunNeedsRace
  <1> DEFINE B == BuysIn(orders, OpenOrders)
             f == Amounts
  <1>1. OpenOrders \in SUBSET Existing /\ IsFiniteSet(OpenOrders)
    <2>1. OpenOrders \in SUBSET Existing
      BY DEF OpenOrders, Existing, Exists, IsOpen, OpenStatuses
    <2> QED BY <2>1, FS_Subset DEF ExposureInv, SeenExist
  <1>2. B \in SUBSET OpenOrders /\ \A o \in B : orders[o].body.side = "buy" /\ orders[o].allowed
    BY DEF BuysIn, AllowedInv, OpenOrders
  <1>3. IsFiniteSet(B) /\ B \in SUBSET Existing /\ B \in SUBSET Requests
    <2> HIDE DEF B
    <2>1. Existing \in SUBSET Requests
      BY DEF Existing
    <2> QED BY <1>1, <1>2, <2>1, FS_Subset
  <1>4. OpenExposure = SumFunctionOnSet(f, B)
    <2>1. OpenExposure = Promised(orders, OpenOrders)
      BY <1>1, ExposureWhenCounted
    <2> QED BY <2>1 DEF Promised, Amounts
  <1>5. RiskPolicy.globalMax \in Int
    BY AmountsAssumption
  <1>6. \A o \in Existing : f[o] \in Int /\ f[o] = Notional(orders[o].body)
    BY AmountType DEF Amounts, AmountsIn, Existing
  <1>7. PICK rank \in [Requests -> Nat], n \in Nat : Ranked(rank, n)
    BY DEF ExposureInv, Numbered
  <1> HIDE DEF B, f
  <1>8. B # {}
    <2> SUFFICES ASSUME B = {} PROVE FALSE
      OBVIOUS
    <2>1. SumFunctionOnSet(f, {}) = 0
      BY SumOfNone
    <2>2. OpenExposure = 0
      BY <1>4, <2>1
    <2> QED BY <1>5, <2>2
  <1>9. PICK m \in B : \A o \in B : rank[o] <= rank[m]
    <2>1. \A o \in B : rank[o] < n
      BY <1>3, <1>7 DEF Ranked
    <2> QED BY <1>3, <1>8, <2>1, LastOf
  <1> DEFINE seen == BuysIn(orders, call[m].seen)
  <1>10. m \in OpenOrders /\ m \in Existing /\ m \in Requests
    BY <1>1, <1>2, <1>9 DEF Existing
  <1>11. \A o \in B \ {m} : o \in seen
    <2> SUFFICES ASSUME NEW o \in B \ {m} PROVE o \in seen
      OBVIOUS
    <2>1. o \in call[m].seen \/ m \in call[o].seen
      BY <1>2, <1>10 DEF Raced
    <2>2. m \notin call[o].seen
      <3>1. o \in Existing /\ rank[o] <= rank[m] /\ rank[o] \in Nat /\ rank[m] \in Nat
        BY <1>3, <1>9, <1>10
      <3> QED BY <1>7, <3>1 DEF Ranked
    <2> QED BY <1>2, <2>1, <2>2 DEF BuysIn
  <1>12. IsFiniteSet(seen) /\ seen \in SUBSET Existing
    <2>1. seen \in SUBSET call[m].seen
      BY DEF BuysIn
    <2>2. call[m].seen \in SUBSET Existing /\ IsFiniteSet(Existing)
      BY <1>10 DEF ExposureInv, SeenExist
    <2> HIDE DEF seen
    <2> QED BY <2>1, <2>2, FS_Subset
  <1>13. \A s \in seen \ (B \ {m}) : f[s] >= 0
    <2> SUFFICES ASSUME NEW s \in seen \ (B \ {m}) PROVE f[s] >= 0
      OBVIOUS
    <2>1. s \in call[m].seen /\ orders[s].body.side = "buy" /\ s \in Existing
      BY <1>12 DEF BuysIn
    <2>2. s # m
      <3>1. rank[s] < rank[m] /\ rank[m] \in Nat
        BY <1>7, <1>10, <2>1 DEF Ranked
      <3> QED BY <3>1
    <2>3. s \notin OpenOrders
      BY <2>1, <2>2 DEF B, BuysIn
    <2>4. ~(Notional(orders[s].body) < 0)
      BY <1>10, <2>1, <2>3 DEF Undermined
    <2> QED BY <1>6, <2>1, <2>4
  <1>14. SumFunctionOnSet(f, seen) + f[m] <= RiskPolicy.globalMax
    <2>1. Within(orders, call[m], orders[m])
      BY <1>10 DEF ExposureInv, WithinCap, Existing
    <2>2. orders[m].allowed /\ orders[m].body.side = "buy" /\ ~call[m].blind
      BY <1>2, <1>9, <1>10
    <2>3. Promised(orders, call[m].seen) + Notional(orders[m].body) <= RiskPolicy.globalMax
      BY <2>1, <2>2 DEF Within
    <2>4. Promised(orders, call[m].seen) = SumFunctionOnSet(f, seen)
      BY DEF Promised, Amounts, f
    <2> QED BY <1>6, <1>10, <2>3, <2>4
  <1> HIDE DEF seen
  <1>15. SumFunctionOnSet(f, B) = f[m] + SumFunctionOnSet(f, B \ {m})
    BY <1>3, <1>6, SumSplits
  <1>16. SumFunctionOnSet(f, B \ {m}) <= SumFunctionOnSet(f, seen)
    <2>1. B \ {m} \in SUBSET seen
      BY <1>11
    <2>2. \A s \in seen : f[s] \in Int
      BY <1>6, <1>12
    <2> QED BY <1>12, <1>13, <2>1, <2>2, SumGrows
  <1>17. SumFunctionOnSet(f, B \ {m}) \in Int /\ SumFunctionOnSet(f, seen) \in Int /\ f[m] \in Int
    <2>1. IsFiniteSet(B \ {m}) /\ \A o \in B \ {m} : f[o] \in Int
      BY <1>3, <1>6, FS_RemoveElement
    <2>2. \A s \in seen : f[s] \in Int
      BY <1>6, <1>12
    <2> QED BY <1>6, <1>10, <1>12, <2>1, <2>2, SumSplits
  <1> QED BY <1>4, <1>5, <1>14, <1>15, <1>16, <1>17

(* Open buy orders, "buy" or "BUY", exceed the global cap only if two of   *)
(* them were checked without seeing one another, a check could not list    *)
(* the open orders, or it counted on one of negative amount, or one of     *)
(* them is spelled so that the policy does not count it: Policy.Evaluate   *)
(* in Service.Create is otherwise enough, although nothing locks the       *)
(* orders between the check and the insert.                                *)
THEOREM OverrunsTakeARace == Spec => []ExposureOverrunNeedsRace
  <1>1. KeyInv => CallsAgree
    BY DEF KeyInv
  <1> QED BY <1>1, OverrunNeedsRace, ExposureInvariant, AllowedInit, AllowedStep, TypeInvariant,
             KeyInvariant, PTL DEF Spec
=============================================================================
