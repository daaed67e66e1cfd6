--------------------- MODULE TradingOrdersFills_proofs ---------------------
(***************************************************************************)
(* What the worker writes, for all instances: settled orders stay settled, *)
(* fills are backed by executions and cost a failure each beyond the       *)
(* first, and an order is placed again only after a failure.               *)
(*                                                                         *)
(* All but the first rest on what the worker may believe of the orders it  *)
(* holds (WorkerHolds, Observed), although it works on a snapshot.         *)
(***************************************************************************)
EXTENDS TradingOrdersSafety_proofs

(* What a step may do to the broker's book: add the order the worker is    *)
(* placing, or close one.                                                  *)
LEMMA BookStep ==
  ASSUME [Next]_vars
  PROVE  \/ UNCHANGED placements
         \/ \E s \in batch :
               /\ PlaceOrder(s)
               /\ placements' = Append(placements, [order |-> s.id, status |-> PlaceStatus])
         \/ \E i \in DOMAIN placements : BrokerResolves(i)
  <1> USE DEF brokerVars
  <1> QED BY DEF Next, vars, Create, SubmitCreate, LookupKey, CheckPolicy, InsertOrder,
                 SaveResponse, AppendCreateEvent, Cancel, StartCancel, CancelReadFails,
                 WriteCanceled, AppendCancelEvent, Tick, Reconcile, PlaceOrder, PollOrder,
                 TouchOrder, SetProviderOrderID, UpdateStatus, AppendWorkerEvent, RecordFill,
                 WorkerRestart, CooldownPasses

(* Placing an order adds one placement of that order to the book.          *)
LEMMA Placing ==
  ASSUME TypeInv, NEW s \in batch,
         placements' = Append(placements, [order |-> s.id, status |-> PlaceStatus])
  PROVE  /\ Len(placements') = Len(placements) + 1
         /\ PlacementsOf(s.id)' = PlacementsOf(s.id) \cup {Len(placements) + 1}
         /\ \A o : o # s.id => PlacementsOf(o)' = PlacementsOf(o)
         /\ \A o : ExecutionsOf(o) \subseteq ExecutionsOf(o)'
         /\ \A i \in DOMAIN placements :
               i \in DOMAIN placements' /\ placements'[i] = placements[i]
         /\ placements'[Len(placements) + 1].status = PlaceStatus
  <1>1. placements \in Seq(Placement)
    BY DEF TypeInv, TypeOK, BrokerOK
  <1>2. /\ Len(placements') = Len(placements) + 1
        /\ DOMAIN placements' = DOMAIN placements \cup {Len(placements) + 1}
        /\ Len(placements) + 1 \notin DOMAIN placements
        /\ \A i \in DOMAIN placements : placements'[i] = placements[i]
        /\ placements'[Len(placements) + 1].order = s.id
        /\ placements'[Len(placements) + 1].status = PlaceStatus
    BY <1>1
  <1>3. \A o : PlacementsOf(o)' = PlacementsOf(o) \cup (IF o = s.id THEN {Len(placements) + 1} ELSE {})
    BY <1>2 DEF PlacementsOf
  <1>4. \A o : ExecutionsOf(o) \subseteq ExecutionsOf(o)'
    BY <1>2, <1>3 DEF ExecutionsOf, PlacementsOf
  <1> QED BY <1>2, <1>3, <1>4

(* The exchange closes orders that were open there, so executions stay.    *)
LEMMA Resolving ==
  ASSUME TypeInv, NEW i \in DOMAIN placements, BrokerResolves(i)
  PROVE  /\ Len(placements') = Len(placements)
         /\ \A o : PlacementsOf(o)' = PlacementsOf(o)
         /\ \A o : ExecutionsOf(o) \subseteq ExecutionsOf(o)'
         /\ \A j \in DOMAIN placements' :
               j \in DOMAIN placements
               /\ placements'[j].status \in {placements[j].status} \cup ClosedStatuses
  <1>1. PICK status \in ClosedStatuses :
           placements' = [placements EXCEPT ![i].status = status]
    BY DEF BrokerResolves
  <1>2. placements \in Seq(Placement) /\ placements[i] \in Placement
    BY DEF TypeInv, TypeOK, BrokerOK
  <1> DEFINE new == [placements[i] EXCEPT !.status = status]
  <1>3. new.order = placements[i].order /\ new.status = status
    BY <1>2 DEF Placement
  <1>4. placements' = [placements EXCEPT ![i] = new] /\ placements[i].status = "accepted"
    BY <1>1 DEF BrokerResolves
  <1> HIDE DEF new
  <1>5. /\ DOMAIN placements' = DOMAIN placements /\ Len(placements') = Len(placements)
        /\ \A j \in DOMAIN placements :
              /\ placements'[j].order = placements[j].order
              /\ placements'[j].status = IF j = i THEN status ELSE placements[j].status
    BY <1>2, <1>3, <1>4
  <1>6. \A o : PlacementsOf(o)' = PlacementsOf(o)
    BY <1>5 DEF PlacementsOf
  <1>7. \A o : ExecutionsOf(o) \subseteq ExecutionsOf(o)'
    BY <1>4, <1>5, <1>6 DEF ExecutionsOf, PlacementsOf, FilledStatuses
  <1> QED BY <1>5, <1>6, <1>7

(* Whose placements a step may change, and that executions stay.           *)
LEMMA PlacementsStep ==
  ASSUME TypeInv, [Next]_vars, NEW o
  PROVE  /\ PlacementsOf(o)' = PlacementsOf(o) \/ \E s \in batch : PlaceOrder(s) /\ s.id = o
         /\ ExecutionsOf(o) \subseteq ExecutionsOf(o)'
  <1>1. UNCHANGED placements => UNCHANGED PlacementsOf(o) /\ UNCHANGED ExecutionsOf(o)
    BY DEF PlacementsOf, ExecutionsOf
  <1> QED BY <1>1, BookStep, Placing, Resolving

(* Fill rows are written by RecordFill only, for the order it holds.       *)
LEMMA FillStep ==
  ASSUME TypeInv, [Next]_vars, NEW o \in Requests
  PROVE  fills'[o] = fills[o] \/ (/\ RecordFill /\ NoFault
                                  /\ o = cur.id /\ fills'[o] = fills[o] + 1)
  <1> USE DEF tables
  <1>1. CASE RecordFill
    <2>1. fills \in [Requests -> Nat] /\ cur.id \in Requests
      BY <1>1 DEF RecordFill, TypeInv, TypeOK, TablesOK, WorkerOK, CurRecord
    <2> QED BY <1>1, <2>1 DEF RecordFill
  <1>2. UNCHANGED fills \/ RecordFill
    BY DEF Next, vars, Create, SubmitCreate, LookupKey, CheckPolicy, InsertOrder,
           SaveResponse, AppendCreateEvent, Cancel, StartCancel, CancelReadFails,
           WriteCanceled, AppendCancelEvent, Tick, Reconcile, PlaceOrder, PollOrder,
           TouchOrder, SetProviderOrderID, UpdateStatus, AppendWorkerEvent,
           WorkerRestart, BrokerResolves, CooldownPasses
  <1> QED BY <1>1, <1>2
----------------------------------------------------------------------------
(* Settled orders                                                          *)

LEMMA SettledStep ==
  ASSUME TypeInv, CallsAgree, [Next]_vars, NEW o \in Requests, Settled(o)
  PROVE  /\ Settled(o)'
         /\ orders'[o].status = orders[o].status
         /\ orders'[o].provId = orders[o].provId
         /\ fills'[o] = fills[o]
         /\ PlacementsOf(o)' = PlacementsOf(o)
  <1>1. /\ orders[o].status \in ClosedStatuses /\ o \notin HeldByWorker
        /\ \A c \in Cancels : cancel[c].pc = "update" => cancel[c].order # o
    BY DEF Settled
  <1>2. ~Inserts(o)
    BY <1>1 DEF Inserts, InsertOrder, CallsAgree, Exists, ClosedStatuses
  <1>3. ~(wpc # "next" /\ o = cur.id) /\ \A s \in batch : s.id # o
    BY <1>1 DEF HeldByWorker
  <1>4. /\ orders'[o].status = orders[o].status
        /\ orders'[o].provId = orders[o].provId
    BY <1>1, <1>2, <1>3, StatusStep DEF RowMoves, WriteCanceled, UpdateStatus, SetProviderOrderID
  <1>5. fills'[o] = fills[o]
    BY <1>3, FillStep DEF RecordFill
  <1>6. PlacementsOf(o)' = PlacementsOf(o)
    BY <1>3, PlacementsStep
  <1>7. o \notin HeldByWorker'
    <2>1. \A s \in batch' : s.id # o
      BY <1>1, <1>3, WorkerHoldsStep
         DEF OpenOrders, Snapshot, IsOpen, OpenStatuses, ClosedStatuses
    <2>2. wpc' # "next" => cur'.id # o
      BY <1>3, WorkerHoldsStep
    <2> QED BY <2>1, <2>2 DEF HeldByWorker
  <1>8. ASSUME NEW c \in Cancels, cancel'[c].pc = "update"
        PROVE  cancel'[c].order # o
    BY <1>1, <1>8, CancelStep DEF MayCancel, IsOpen, OpenStatuses, ClosedStatuses
  <1> QED BY <1>1, <1>4, <1>5, <1>6, <1>7, <1>8 DEF Settled

(* A closed order that neither the worker's tick nor a cancel call got     *)
(* hold of while it was open keeps its status, is not placed again and is  *)
(* given no other fill row, for ever.                                      *)
THEOREM SettledOrdersStay == Spec => SettledOrdersStaySettled
  <1>1. TypeInv /\ KeyInv /\ [Next]_vars =>
          [\A o \in Requests : Settled(o) =>
              /\ Settled(o)'
              /\ orders'[o].status = orders[o].status
              /\ orders'[o].provId = orders[o].provId
              /\ fills'[o] = fills[o]
              /\ PlacementsOf(o)' = PlacementsOf(o)]_vars
    BY SettledStep DEF KeyInv
  <1> QED BY <1>1, TypeInvariant, KeyInvariant, PTL DEF Spec, SettledOrdersStaySettled
----------------------------------------------------------------------------
(* What the worker holds                                                   *)

(* The worker holds each order once, with the broker id its row has; it    *)
(* stores an id only after placing, and gives no fill to an order it only  *)
(* touches.                                                                *)
WorkerHolds ==
    /\ \A s1, s2 \in batch : s1.id = s2.id => s1 = s2
    /\ \A s \in batch : orders[s.id].provId = s.provId
    /\ wpc # "next" => \A s \in batch : s.id # cur.id
    /\ wpc = "setid" => /\ cur.action = "place" /\ cur.placedId # 0
                        /\ orders[cur.id].provId = 0
    /\ wpc = "status" /\ cur.action # "place" => orders[cur.id].provId # 0
    /\ wpc \in {"event", "fill"} => cur.action # "touch"
    /\ wpc = "fill" => RecordsFill
    /\ wpc # "next" /\ cur.action = "touch" => IsOpen(cur.observed)

(* A step of the worker, or of somebody else.                              *)
LEMMA WhoSteps ==
  ASSUME [Next]_vars
  PROVE  /\ mode' = mode
         /\ Tick \/ Reconcile \/ WorkerRestart \/ UNCHANGED workerVars
  BY DEF Next, vars, apiVars, workerVars, Create, SubmitCreate, LookupKey, CheckPolicy,
         InsertOrder, SaveResponse, AppendCreateEvent, Cancel, StartCancel, CancelReadFails,
         WriteCanceled, AppendCancelEvent, Tick, Reconcile, PlaceOrder, PollOrder, TouchOrder,
         SetProviderOrderID, UpdateStatus, AppendWorkerEvent, RecordFill, WorkerRestart,
         BrokerResolves, CooldownPasses

(* The fields of what the worker holds. *)
LEMMA WorkerFields ==
  ASSUME TypeInv
  PROVE  /\ \A s \in batch : /\ s.id \in Requests /\ s.provId \in Nat /\ s.status \in OpenStatuses
                             /\ Exists(s.id)
         /\ wpc # "next" => /\ cur.id \in Requests /\ cur.observed \in Statuses
                            /\ cur.action \in {"place", "poll", "touch"}
                            /\ cur.placedId \in Nat /\ Exists(cur.id)
  BY DEF TypeInv, TypeOK, WorkerOK, SnapshotRecord, CurRecord, HeldExist

(* Only SetProviderOrderID changes a broker id: an order that is inserted  *)
(* has none.                                                               *)
LEMMA IdStep ==
  ASSUME TypeInv, CallsAgree, [Next]_vars, NEW o \in Requests
  PROVE  \/ orders'[o].provId = orders[o].provId
         \/ SetProviderOrderID /\ o = cur.id /\ orders'[o].provId = cur.placedId
  <1>1. CASE Inserts(o)
    <2>1. ~Exists(o)
      BY <1>1 DEF Inserts, InsertOrder, CallsAgree
    <2>2. orders[o].provId = 0
      BY <2>1 DEF TypeInv, TypeOK, TablesOK, Exists, NoRow, Row, Statuses, OpenStatuses,
                  ClosedStatuses
    <2>3. orders'[o].provId = 0
      BY <1>1 DEF Inserts, NewRow, TypeInv, TypeOK, TablesOK
    <2> QED BY <2>2, <2>3
  <1> QED BY <1>1, StatusStep DEF RowMoves

LEMMA WorkerHoldsInit == Init => WorkerHolds
  BY DEF Init, WorkerHolds, NoCur

(* Taking an order from the batch leaves the others, and there is no other *)
(* with its id.                                                            *)
LEMMA TakeHolds ==
  ASSUME WorkerHolds, NEW s \in batch, batch' = batch \ {s}, UNCHANGED orders
  PROVE  /\ \A s1, s2 \in batch' : s1.id = s2.id => s1 = s2
         /\ \A s1 \in batch' : orders'[s1.id].provId = s1.provId /\ s1.id # s.id
         /\ orders'[s.id].provId = s.provId
  BY DEF WorkerHolds

LEMMA ReconcileHolds ==
  ASSUME TypeInv, CallsAgree, WorkerHolds, [Next]_vars, Reconcile
  PROVE  WorkerHolds'
  <1> USE WorkerFields DEF tables
  <1>1. ASSUME NEW s \in batch, PlaceOrder(s)
        PROVE  WorkerHolds'
    <2>1. s.provId = 0 /\ batch' = batch \ {s} /\ UNCHANGED orders
      BY <1>1 DEF PlaceOrder, NeedsPlacement
    <2>2. CASE Work(s, "place", PlaceStatus, NewProviderId) /\ wpc' = "setid"
      <3>1. NewProviderId # 0
        BY DEF NewProviderId, TypeInv, TypeOK, BrokerOK
      <3> QED BY <2>1, <2>2, <3>1, TakeHolds DEF WorkerHolds, Work
    <2>3. CASE NextOrder
      BY <2>1, <2>3, TakeHolds DEF WorkerHolds, NextOrder, NoCur
    <2> QED BY <1>1, <2>2, <2>3 DEF PlaceOrder
  <1>2. ASSUME NEW s \in batch, PollOrder(s) \/ TouchOrder(s)
        PROVE  WorkerHolds'
    <2>1. s.provId # 0 /\ batch' = batch \ {s} /\ UNCHANGED orders
      BY <1>2 DEF PollOrder, TouchOrder, NeedsPlacement
    <2>2. ASSUME NEW observed,
                 \/ Work(s, "poll", observed, 0)
                 \/ Work(s, "touch", s.status, 0),
                 wpc' = "status"
          PROVE  WorkerHolds'
      BY <2>1, <2>2, TakeHolds DEF WorkerHolds, Work, IsOpen
    <2>3. CASE NextOrder
      BY <2>1, <2>3, TakeHolds DEF WorkerHolds, NextOrder, NoCur
    <2> QED BY <1>2, <2>2, <2>3 DEF PollOrder, TouchOrder
  <1>3. ASSUME \A s \in batch : orders'[s.id].provId = orders[s.id].provId, UNCHANGED batch,
               \/ NextOrder
               \/ /\ UNCHANGED cur
                  /\ \/ wpc' = "status" /\ cur.action = "place" /\ wpc = "setid"
                     \/ wpc' = "event" /\ cur.action # "touch" /\ wpc = "status"
                     \/ wpc' = "fill" /\ RecordsFill /\ wpc = "event"
        PROVE  WorkerHolds'
    <2>1. CASE NextOrder
      BY <1>3, <2>1 DEF WorkerHolds, NextOrder, NoCur
    <2>2. CASE ~NextOrder
      BY <1>3, <2>2 DEF WorkerHolds, RecordsFill, IsOpen
    <2> QED BY <1>3, <2>1, <2>2
  <1>4. SetProviderOrderID \/ \A s \in batch : orders'[s.id].provId = orders[s.id].provId
    BY IdStep
  <1>5. CASE SetProviderOrderID
    <2>1. \A s \in batch : orders'[s.id].provId = orders[s.id].provId
      BY <1>5, IdStep DEF SetProviderOrderID, WorkerHolds
    <2>2. UNCHANGED <<cur, batch>> /\ wpc = "setid" /\ wpc' = "status"
      BY <1>5 DEF SetProviderOrderID
    <2>3. cur.action = "place"
      BY <2>2 DEF WorkerHolds
    <2> QED BY <1>3, <2>1, <2>2, <2>3
  <1>6. CASE UpdateStatus
    BY <1>3, <1>4, <1>6 DEF UpdateStatus, SetProviderOrderID
  <1>7. CASE AppendWorkerEvent
    BY <1>3, <1>4, <1>7 DEF AppendWorkerEvent, SetProviderOrderID
  <1>8. CASE RecordFill
    BY <1>3, <1>4, <1>8 DEF RecordFill, SetProviderOrderID
  <1> QED BY <1>1, <1>2, <1>5, <1>6, <1>7, <1>8 DEF Reconcile

LEMMA WorkerHoldsStepInv ==
  ASSUME TypeInv, CallsAgree, WorkerHolds, [Next]_vars
  PROVE  WorkerHolds'
  <1>1. CASE Reconcile
    BY <1>1, ReconcileHolds
  <1>2. CASE Tick
    <2>1. \A o : Snapshot(o).id = o /\ Snapshot(o).provId = orders[o].provId
      BY DEF Snapshot
    <2>2. wpc' = "next" /\ batch' = {Snapshot(o) : o \in OpenOrders} /\ UNCHANGED orders
      BY <1>2 DEF Tick, tables
    <2> QED BY <2>1, <2>2 DEF WorkerHolds
  <1>3. CASE WorkerRestart
    BY <1>3 DEF WorkerRestart, WorkerHolds
  <1>4. CASE UNCHANGED workerVars
    <2>1. CASE SetProviderOrderID
      BY <1>1, <2>1 DEF Reconcile
    <2>2. CASE ~SetProviderOrderID
      <3>1. \A o \in Requests : orders'[o].provId = orders[o].provId
        BY <2>2, IdStep
      <3> QED BY <1>4, <3>1, WorkerFields DEF WorkerHolds, workerVars, RecordsFill
    <2> QED BY <2>1, <2>2
  <1> QED BY <1>1, <1>2, <1>3, <1>4, WhoSteps

(* The worker is on its way to write a fill for o. *)
FillDue(o) == wpc # "next" /\ cur.id = o /\ cur.action # "touch" /\ RecordsFill

(* A fill is due only for an order that was executed; a live order is      *)
(* never seen as executed in part.                                         *)
Observed ==
    /\ mode = "live" =>
          /\ \A i \in DOMAIN placements : placements[i].status # "partially_filled"
          /\ wpc # "next" /\ cur.action = "place" => cur.observed = "accepted"
          /\ wpc # "next" /\ cur.action = "poll" => cur.observed # "partially_filled"
    /\ \A o : FillDue(o) => ExecutionsOf(o) # {}

LEMMA ObservedInit == Init => Observed
  BY DEF Init, Observed, FillDue

LEMMA ObservedPlace ==
  ASSUME TypeInv, Observed, [Next]_vars, NEW s \in batch, PlaceOrder(s)
  PROVE  Observed'
  <1> USE DEF apiVars, tables
  <1>1. mode' = mode /\ (mode = "live" => PlaceStatus = "accepted")
    BY DEF PlaceOrder, PlaceStatus
  <1>2. CASE placements' = Append(placements, [order |-> s.id, status |-> PlaceStatus])
    <2>1. /\ PlacementsOf(s.id)' = PlacementsOf(s.id) \cup {Len(placements) + 1}
          /\ placements'[Len(placements) + 1].status = PlaceStatus
      BY <1>2, Placing
    <2>2. \A i \in DOMAIN placements' :
             \/ i \in DOMAIN placements /\ placements'[i] = placements[i]
             \/ placements'[i].status = PlaceStatus
      BY <1>2 DEF TypeInv, TypeOK, BrokerOK
    <2>3. mode = "live" => \A i \in DOMAIN placements' : placements'[i].status # "partially_filled"
      BY <1>1, <2>2 DEF Observed
    <2>4. PlaceStatus \in FilledStatuses => Len(placements) + 1 \in ExecutionsOf(s.id)'
      BY <2>1 DEF ExecutionsOf
    <2>5. CASE NextOrder
      BY <1>1, <2>3, <2>5 DEF Observed, FillDue, NextOrder
    <2>6. CASE Work(s, "place", PlaceStatus, NewProviderId)
      <3>1. cur'.id = s.id /\ cur'.action = "place" /\ cur'.observed = PlaceStatus
        BY <2>6 DEF Work
      <3> QED BY <1>1, <2>3, <2>4, <3>1 DEF Observed, FillDue, RecordsFill
    <2> QED BY <2>5, <2>6 DEF PlaceOrder
  <1>3. CASE NextOrder /\ UNCHANGED placements
    BY <1>1, <1>3 DEF Observed, FillDue, NextOrder
  <1> QED BY <1>2, <1>3 DEF PlaceOrder

LEMMA ObservedPoll ==
  ASSUME TypeInv, Observed, NEW s \in batch, PollOrder(s) \/ TouchOrder(s)
  PROVE  Observed'
  <1> USE DEF apiVars, tables, brokerVars
  <1>1. mode' = mode /\ UNCHANGED placements
    BY DEF PollOrder, TouchOrder
  <1>2. CASE NextOrder
    BY <1>1, <1>2 DEF Observed, FillDue, NextOrder
  <1>3. ASSUME NEW observed, Work(s, "touch", observed, 0)
        PROVE  Observed'
    <2>1. cur'.action = "touch"
      BY <1>3 DEF Work
    <2> QED BY <1>1, <2>1 DEF Observed, FillDue
  <1>4. CASE mode = "live" /\ ~NeedsPlacement(s) /\ Work(s, "poll", StatusAtBroker(s.provId), 0)
    <2>1. s.provId \in PlacementsOf(s.id)
      BY <1>4 DEF NeedsPlacement, TypeInv, IdsOwn
    <2>2. /\ cur'.id = s.id /\ cur'.action = "poll"
          /\ cur'.observed = placements[s.provId].status
      BY <1>4 DEF Work, StatusAtBroker
    <2>3. cur'.observed # "partially_filled"
      BY <1>4, <2>1, <2>2 DEF Observed, PlacementsOf
    <2>4. \A o : FillDue(o)' => ExecutionsOf(o)' # {}
      BY <1>1, <2>1, <2>2 DEF FillDue, RecordsFill, ExecutionsOf, PlacementsOf
    <2> QED BY <1>1, <2>2, <2>3, <2>4 DEF Observed
  <1> QED BY <1>2, <1>3, <1>4 DEF PollOrder, TouchOrder

LEMMA ObservedStepInv ==
  ASSUME TypeInv, Observed, [Next]_vars
  PROVE  Observed'
  <1> USE DEF workerVars
  <1>1. ASSUME NEW s \in batch, PlaceOrder(s) \/ PollOrder(s) \/ TouchOrder(s)
        PROVE  Observed'
    BY <1>1, ObservedPlace, ObservedPoll
  <1>2. ASSUME \A s \in batch : ~PlaceOrder(s), wpc' = "next" \/ (wpc # "next" /\ UNCHANGED cur)
        PROVE  Observed'
    <2>1. mode' = mode
      BY WhoSteps
    <2>2. \A o : ExecutionsOf(o) \subseteq ExecutionsOf(o)'
      BY PlacementsStep
    <2>3. mode = "live" => \A i \in DOMAIN placements' : placements'[i].status # "partially_filled"
      <3>1. CASE UNCHANGED placements
        BY <3>1 DEF Observed
      <3>2. ASSUME NEW i \in DOMAIN placements, BrokerResolves(i)
            PROVE  mode = "live" =>
                     \A j \in DOMAIN placements' : placements'[j].status # "partially_filled"
        BY <3>2, Resolving DEF Observed, ClosedStatuses
      <3> QED BY <1>2, <3>1, <3>2, BookStep
    <2>4. \A o : FillDue(o)' => FillDue(o)
      BY <1>2 DEF FillDue, RecordsFill
    <2> QED BY <1>2, <2>1, <2>2, <2>3, <2>4 DEF Observed
  <1>3. CASE UNCHANGED workerVars
    BY <1>1, <1>2, <1>3
  <1>4. CASE Tick \/ WorkerRestart
    BY <1>1, <1>2, <1>4 DEF Tick, WorkerRestart
  <1>5. CASE SetProviderOrderID \/ UpdateStatus \/ AppendWorkerEvent \/ RecordFill
    BY <1>1, <1>2, <1>5
       DEF SetProviderOrderID, UpdateStatus, AppendWorkerEvent, RecordFill, NextOrder
  <1> QED BY <1>1, <1>3, <1>4, <1>5, WhoSteps DEF Reconcile
----------------------------------------------------------------------------
(* Fills                                                                   *)

(* The count of failures never goes back. *)
LEMMA FaultStep ==
  ASSUME TypeInv, [Next]_vars
  PROVE  /\ faults \in Nat /\ faults' \in Nat
         /\ NoFault \/ faults' = faults + 1
  <1>1. faults \in Nat
    BY FaultsAssumption DEF TypeInv, TypeOK
  <1>2. ASSUME NEW r \in Requests, Create(r)
        PROVE  NoFault \/ faults' = faults + 1
    <2>1. CheckPolicy(r) => NoFault \/ Fault("list")
      BY DEF CheckPolicy
    <2>2. LookupKey(r) => NoFault \/ Fault("lookup")
      BY DEF LookupKey
    <2> QED BY <1>2, <2>1, <2>2
            DEF Create, SubmitCreate, InsertOrder, SaveResponse, AppendCreateEvent, NoFault, Fault
  <1>3. ASSUME NEW c \in Cancels, Cancel(c)
        PROVE  NoFault \/ faults' = faults + 1
    BY <1>3 DEF Cancel, StartCancel, CancelReadFails, WriteCanceled, AppendCancelEvent, NoFault,
                Fault
  <1>4. ASSUME Reconcile
        PROVE  NoFault \/ faults' = faults + 1
    BY <1>4 DEF Reconcile, PlaceOrder, PollOrder, TouchOrder, SetProviderOrderID, UpdateStatus,
                AppendWorkerEvent, RecordFill, NoFault, Fault
  <1>5. NoFault \/ faults' = faults + 1
    BY <1>2, <1>3, <1>4
       DEF Next, vars, Tick, WorkerRestart, BrokerResolves, CooldownPasses, NoFault, Fault
  <1> QED BY <1>1, <1>5 DEF NoFault

(* Another fill may become due for o without a further failure: it is open *)
(* or the worker may write an open status to it, and it can be polled or   *)
(* placed (again).                                                         *)
Refillable(o) ==
    /\ mode = "live" \/ orders[o].provId = 0
    /\ \/ IsOpen(orders[o].status)
       \/ \E s \in batch : s.id = o
       \/ wpc \in {"setid", "status"} /\ cur.id = o

(* Beyond the first fill each one has cost a failure, and one that is      *)
(* still to come has cost it already.                                      *)
FillBound(o) ==
    /\ fills[o] > 0 => Exists(o) /\ ExecutionsOf(o) # {}
    /\ fills[o] <= faults + 1
    /\ FillDue(o) \/ Refillable(o) => fills[o] <= faults
    /\ wpc \in {"event", "fill"} /\ FillDue(o) /\ Refillable(o) => fills[o] + 1 <= faults
    /\ wpc = "status" /\ FillDue(o) /\ mode # "live" =>
          orders[o].provId # 0 \/ fills[o] + 1 <= faults

(* Without failures an order that is filled has its fill, or gets it next. *)
HasFill(o) ==
    faults = 0 /\ orders[o].status = "filled" =>
        fills[o] >= 1 \/ (wpc \in {"event", "fill"} /\ FillDue(o))

FillInv == /\ WorkerHolds
           /\ Observed
           /\ \A o \in Requests : FillBound(o) /\ HasFill(o)

LEMMA FillInit == Init => FillInv
  <1> SUFFICES ASSUME Init PROVE FillInv
    OBVIOUS
  <1>1. ASSUME NEW o \in Requests
        PROVE  FillBound(o) /\ HasFill(o)
    BY DEF Init, FillBound, HasFill, FillDue, Refillable, NoRow, IsOpen, OpenStatuses
  <1> QED BY <1>1, WorkerHoldsInit, ObservedInit DEF FillInv

(* What every step that writes no fill for o has to keep. *)
LEMMA FillBoundKept ==
  ASSUME TypeInv, CallsAgree, [Next]_vars, NEW o \in Requests, FillBound(o),
         fills'[o] = fills[o],
         FillDue(o)' \/ Refillable(o)' => fills[o] <= faults',
         wpc' \in {"event", "fill"} /\ FillDue(o)' /\ Refillable(o)' => fills[o] + 1 <= faults',
         wpc' = "status" /\ FillDue(o)' /\ mode' # "live" =>
            orders'[o].provId # 0 \/ fills[o] + 1 <= faults'
  PROVE  FillBound(o)'
  <1>1. Exists(o) => Exists(o)'
    BY AllowedKept
  <1>2. ExecutionsOf(o) \subseteq ExecutionsOf(o)'
    BY PlacementsStep
  <1>3. faults \in Nat /\ faults' \in Nat /\ faults' >= faults
    BY FaultStep DEF NoFault
  <1>4. fills[o] \in Nat
    BY DEF TypeInv, TypeOK, TablesOK
  <1> QED BY <1>1, <1>2, <1>3, <1>4 DEF FillBound

(* The API and the environment. *)
LEMMA FillOutside ==
  ASSUME TypeInv, CallsAgree, FillInv, [Next]_vars, UNCHANGED workerVars, NEW o \in Requests
  PROVE  FillBound(o)'
  <1>1. ~SetProviderOrderID /\ ~UpdateStatus /\ ~RecordFill
    BY DEF workerVars, SetProviderOrderID, UpdateStatus, RecordFill, NextOrder
  <1>2. fills'[o] = fills[o] /\ FillBound(o)
    BY <1>1, FillStep DEF FillInv
  <1>3. /\ faults \in Nat /\ faults' \in Nat /\ faults' >= faults /\ fills[o] \in Nat
        /\ mode' = mode
    BY FaultStep, WhoSteps DEF NoFault, TypeInv, TypeOK, TablesOK
  <1>4. FillDue(o)' <=> FillDue(o)
    BY DEF FillDue, RecordsFill, workerVars
  <1>5. CASE Inserts(o)
    <2>1. ~Exists(o)
      BY <1>5 DEF Inserts, InsertOrder, CallsAgree
    <2>2. fills[o] = 0
      BY <1>2, <1>3, <2>1 DEF FillBound
    <2>3. ~FillDue(o)
      BY <2>1, WorkerFields DEF FillDue
    <2> QED BY <1>2, <1>3, <1>4, <2>2, <2>3, FillBoundKept
  <1>6. CASE RowMoves(o)
    <2>1. /\ orders'[o].provId = orders[o].provId
          /\ orders'[o].status \in {orders[o].status, "canceled"}
      BY <1>1, <1>6 DEF RowMoves
    <2>2. Refillable(o)' => Refillable(o)
      BY <1>3, <2>1 DEF Refillable, workerVars, IsOpen, OpenStatuses
    <2>3. wpc' = wpc
      BY DEF workerVars
    <2> QED BY <1>2, <1>3, <1>4, <2>1, <2>2, <2>3, FillBoundKept DEF FillBound
  <1> QED BY <1>5, <1>6, StatusStep

(* The worker takes orders. *)
LEMMA FillTaken ==
  ASSUME TypeInv, CallsAgree, FillInv, [Next]_vars, NEW o \in Requests,
         Tick \/ \E s \in batch : PlaceOrder(s) \/ PollOrder(s) \/ TouchOrder(s)
  PROVE  FillBound(o)'
  <1> USE DEF tables
  <1>1. UNCHANGED <<orders, fills>> /\ wpc = "next" /\ FillBound(o)
    BY DEF Tick, PlaceOrder, PollOrder, TouchOrder, FillInv
  <1>2. /\ faults \in Nat /\ faults' \in Nat /\ faults' >= faults /\ fills[o] \in Nat
        /\ mode' = mode
    BY FaultStep, WhoSteps DEF NoFault, TypeInv, TypeOK, TablesOK
  <1>3. CASE Tick
    <2>1. Refillable(o)' => Refillable(o)
      BY <1>1, <1>2, <1>3 DEF Tick, Refillable, Snapshot, OpenOrders
    <2>2. ~FillDue(o)'
      BY <1>3 DEF Tick, FillDue
    <2> QED BY <1>1, <1>2, <2>1, <2>2, FillBoundKept DEF FillBound
  <1>4. ASSUME NEW s \in batch, PlaceOrder(s) \/ PollOrder(s) \/ TouchOrder(s)
        PROVE  FillBound(o)'
    <2>1. /\ batch' \subseteq batch
          /\ wpc' = "next" \/ (wpc' \in {"setid", "status"} /\ cur'.id = s.id)
      BY <1>4 DEF PlaceOrder, PollOrder, TouchOrder, Work, NextOrder
    <2>2. Refillable(o)' => Refillable(o)
      BY <1>1, <1>2, <2>1 DEF Refillable
    <2>3. orders[s.id].provId = s.provId
      BY DEF FillInv, WorkerHolds
    <2>4. FillDue(o)' => Refillable(o) /\ (wpc' = "status" => mode = "live")
      BY <1>4, <2>1, <2>3
         DEF FillDue, Refillable, PlaceOrder, PollOrder, TouchOrder, Work, NextOrder, NeedsPlacement
    <2> QED BY <1>1, <1>2, <2>1, <2>2, <2>4, FillBoundKept DEF FillBound
  <1> QED BY <1>3, <1>4

LEMMA FillSetId ==
  ASSUME TypeInv, CallsAgree, FillInv, [Next]_vars, NEW o \in Requests, SetProviderOrderID
  PROVE  FillBound(o)'
  <1>1. /\ fills' = fills /\ UNCHANGED <<cur, batch>> /\ wpc = "setid" /\ wpc' = "status"
        /\ FillBound(o)
    BY DEF SetProviderOrderID, FillInv
  <1>2. /\ faults \in Nat /\ faults' \in Nat /\ faults' >= faults /\ fills[o] \in Nat
        /\ mode' = mode
    BY FaultStep, WhoSteps DEF NoFault, TypeInv, TypeOK, TablesOK
  <1>3. FillDue(o)' <=> FillDue(o)
    BY <1>1 DEF FillDue, RecordsFill
  <1>4. orders'[o].status = orders[o].status
    BY <1>1, StatusStep DEF RowMoves, WriteCanceled, UpdateStatus, Inserts, InsertOrder,
                            SetProviderOrderID, workerVars
  <1>5. CASE o # cur.id
    <2>1. orders'[o].provId = orders[o].provId
      BY <1>5, IdStep
    <2>2. Refillable(o)' => Refillable(o)
      BY <1>1, <1>2, <1>4, <2>1 DEF Refillable
    <2>3. ~FillDue(o)
      BY <1>5 DEF FillDue
    <2> QED BY <1>1, <1>2, <1>3, <2>2, <2>3, FillBoundKept DEF FillBound
  <1>6. CASE o = cur.id
    <2>1. Refillable(o)
      BY <1>1, <1>6 DEF Refillable, FillInv, WorkerHolds
    <2>2. fills[o] <= faults
      BY <1>1, <2>1 DEF FillBound
    <2>3. \/ faults' = faults + 1
          \/ orders' = [orders EXCEPT ![cur.id].provId = cur.placedId]
      BY <1>2 DEF SetProviderOrderID, Fault
    <2>4. faults' = faults + 1 \/ orders'[o].provId # 0
      <3>1. CASE orders' = [orders EXCEPT ![cur.id].provId = cur.placedId]
        <4>1. cur.placedId # 0 /\ Exists(o)
          BY <1>1, <1>6, WorkerFields DEF FillInv, WorkerHolds
        <4>2. orders[o] \in Row /\ orders \in [Requests -> Row \cup {NoRow}]
          BY <4>1, RowFields DEF TypeInv, TypeOK, TablesOK
        <4> QED BY <1>6, <3>1, <4>1, <4>2 DEF Row
      <3> QED BY <2>3, <3>1
    <2> QED BY <1>1, <1>2, <2>2, <2>4, FillBoundKept
  <1> QED BY <1>5, <1>6

LEMMA FillUpdate ==
  ASSUME TypeInv, CallsAgree, FillInv, [Next]_vars, NEW o \in Requests, UpdateStatus
  PROVE  FillBound(o)'
  <1>1. /\ fills' = fills /\ batch' = batch /\ wpc = "status" /\ FillBound(o)
        /\ wpc' \in {"next", "event"}
        /\ wpc' = "event" => UNCHANGED cur
    BY DEF UpdateStatus, FillInv, NextOrder
  <1>2. /\ faults \in Nat /\ faults' \in Nat /\ faults' >= faults /\ fills[o] \in Nat
        /\ mode' = mode
    BY FaultStep, WhoSteps DEF NoFault, TypeInv, TypeOK, TablesOK
  <1>3. FillDue(o)' => FillDue(o)
    BY <1>1 DEF FillDue, RecordsFill
  <1>4. orders'[o].provId = orders[o].provId
    BY <1>1, IdStep DEF SetProviderOrderID
  <1>5. CASE o # cur.id
    <2>1. orders'[o] = orders[o]
      BY <1>5 DEF UpdateStatus, SetStatus, TypeInv, TypeOK, TablesOK
    <2>2. Refillable(o)' => Refillable(o)
      BY <1>1, <1>2, <2>1 DEF Refillable
    <2>3. ~FillDue(o)
      BY <1>5 DEF FillDue
    <2> QED BY <1>1, <1>2, <1>3, <2>2, <2>3, FillBoundKept DEF FillBound
  <1>6. CASE o = cur.id
    <2>1. Refillable(o)' => Refillable(o)
      BY <1>1, <1>2, <1>4, <1>6 DEF Refillable
    <2>2. ASSUME FillDue(o)', Refillable(o)'
          PROVE  fills[o] + 1 <= faults'
      <3>1. fills[o] <= faults /\ FillDue(o)
        BY <1>1, <1>3, <2>2 DEF FillBound
      <3>2. CASE mode # "live"
        BY <1>1, <1>2, <1>4, <2>2, <3>1, <3>2 DEF FillBound, Refillable
      <3>3. CASE mode = "live"
        <4>1. cur.observed = "filled"
          BY <3>1, <3>3, WorkerFields DEF FillInv, Observed, FillDue, RecordsFill, FilledStatuses
        <4>2. ~(\E s \in batch : s.id = o)
          BY <1>1, <1>6 DEF FillInv, WorkerHolds
        <4>3. IsOpen(orders'[o].status)
          BY <1>1, <2>2, <4>2 DEF Refillable, FillDue
        <4>4. ~SetStatus(cur.id, cur.observed)
          <5>1. SUFFICES ASSUME SetStatus(cur.id, cur.observed) PROVE FALSE
            OBVIOUS
          <5>2. orders[o] \in Row /\ orders \in [Requests -> Row \cup {NoRow}]
            BY <1>1, <1>6, WorkerFields, RowFields DEF TypeInv, TypeOK, TablesOK
          <5>3. orders'[o].status = "filled"
            BY <1>6, <4>1, <5>1, <5>2 DEF SetStatus, Row
          <5> QED BY <4>3, <5>3 DEF IsOpen, OpenStatuses
        <4>5. faults' = faults + 1
          BY <4>4 DEF UpdateStatus, Fault
        <4> QED BY <1>2, <3>1, <4>5
      <3> QED BY <3>2, <3>3
    <2> QED BY <1>1, <1>2, <1>3, <2>1, <2>2, FillBoundKept DEF FillBound
  <1> QED BY <1>5, <1>6

(* The worker's last statements for an order, and its death. *)
LEMMA FillTail ==
  ASSUME TypeInv, CallsAgree, FillInv, [Next]_vars, NEW o \in Requests,
         AppendWorkerEvent \/ WorkerRestart
  PROVE  FillBound(o)'
  <1> USE DEF tables
  <1>1. /\ UNCHANGED <<orders, fills>> /\ FillBound(o)
        /\ batch' \subseteq batch /\ wpc' \in {"next", "fill"}
        /\ wpc' = "fill" => wpc = "event" /\ UNCHANGED cur
    BY DEF AppendWorkerEvent, WorkerRestart, FillInv, NextOrder
  <1>2. /\ faults \in Nat /\ faults' \in Nat /\ faults' >= faults /\ fills[o] \in Nat
        /\ mode' = mode
    BY FaultStep, WhoSteps DEF NoFault, TypeInv, TypeOK, TablesOK
  <1>3. FillDue(o)' => FillDue(o) /\ wpc = "event"
    BY <1>1 DEF FillDue, RecordsFill
  <1>4. Refillable(o)' => Refillable(o)
    BY <1>1, <1>2 DEF Refillable
  <1> QED BY <1>1, <1>2, <1>3, <1>4, FillBoundKept DEF FillBound

LEMMA FillRecorded ==
  ASSUME TypeInv, CallsAgree, FillInv, [Next]_vars, NEW o \in Requests, RecordFill
  PROVE  FillBound(o)'
  <1> USE DEF tables
  <1>1. /\ UNCHANGED orders /\ FillBound(o) /\ wpc = "fill" /\ wpc' = "next" /\ batch' = batch
    BY DEF RecordFill, FillInv, NextOrder
  <1>2. /\ faults \in Nat /\ faults' \in Nat /\ faults' >= faults /\ fills[o] \in Nat
        /\ mode' = mode
    BY FaultStep, WhoSteps DEF NoFault, TypeInv, TypeOK, TablesOK
  <1>3. ~FillDue(o)' /\ (Refillable(o)' => Refillable(o))
    BY <1>1, <1>2 DEF FillDue, Refillable
  <1>4. CASE fills'[o] = fills[o]
    BY <1>1, <1>2, <1>3, <1>4, FillBoundKept DEF FillBound
  <1>5. CASE o = cur.id /\ fills'[o] = fills[o] + 1
    <2>1. FillDue(o)
      BY <1>1, <1>5 DEF FillDue, FillInv, WorkerHolds
    <2>2. fills'[o] <= faults + 1 /\ (Refillable(o)' => fills'[o] <= faults)
      BY <1>1, <1>2, <1>3, <1>5, <2>1 DEF FillBound
    <2>3. Exists(o)'
      BY <1>1, <1>5, WorkerFields DEF Exists
    <2>4. ExecutionsOf(o)' # {}
      BY <2>1, PlacementsStep DEF FillInv, Observed
    <2> QED BY <1>1, <1>2, <1>3, <1>5, <2>2, <2>3, <2>4 DEF FillBound
  <1> QED BY <1>4, <1>5, FillStep

LEMMA HasFillStep ==
  ASSUME TypeInv, CallsAgree, FillInv, [Next]_vars, NEW o \in Requests
  PROVE  HasFill(o)'
  <1> SUFFICES ASSUME faults' = 0, orders'[o].status = "filled"
               PROVE  fills'[o] >= 1 \/ (wpc' \in {"event", "fill"} /\ FillDue(o)')
    BY DEF HasFill
  <1>1. faults = 0 /\ HasFill(o) /\ WorkerHolds /\ fills[o] \in Nat
    BY FaultStep DEF NoFault, FillInv, TypeInv, TypeOK, TablesOK
  <1>2. \A kind : ~Fault(kind)
    BY <1>1 DEF Fault
  <1>3. fills'[o] >= fills[o]
    BY <1>1, FillStep
  <1>4. ASSUME wpc \in {"event", "fill"}, FillDue(o)
        PROVE  fills'[o] >= 1 \/ (wpc' \in {"event", "fill"} /\ FillDue(o)')
    <2>1. CASE UNCHANGED workerVars
      BY <1>4, <2>1 DEF workerVars, FillDue, RecordsFill
    <2>2. CASE AppendWorkerEvent
      BY <1>4, <2>2 DEF AppendWorkerEvent, FillDue, RecordsFill
    <2>3. CASE RecordFill
      <3>1. fills' = [fills EXCEPT ![o] = @ + 1] /\ fills \in [Requests -> Nat]
        BY <1>2, <1>4, <2>3 DEF RecordFill, FillDue, TypeInv, TypeOK, TablesOK
      <3> QED BY <1>1, <3>1
    <2>4. ~WorkerRestart
      BY <1>2 DEF WorkerRestart
    <2> QED BY <1>4, <2>1, <2>2, <2>3, <2>4, WhoSteps
            DEF Tick, Reconcile, PlaceOrder, PollOrder, TouchOrder, SetProviderOrderID,
                UpdateStatus
  <1>5. CASE orders'[o].status = orders[o].status
    <2>1. fills[o] >= 1 \/ (wpc \in {"event", "fill"} /\ FillDue(o))
      BY <1>1, <1>5 DEF HasFill
    <2> QED BY <1>1, <1>3, <1>4, <2>1, FillStep
  <1>6. CASE UpdateStatus /\ o = cur.id /\ orders'[o].status = cur.observed
    <2>1. cur.action # "touch"
      BY <1>1, <1>6 DEF UpdateStatus, WorkerHolds, IsOpen, OpenStatuses
    <2> QED BY <1>6, <2>1 DEF UpdateStatus, FillDue, RecordsFill, FilledStatuses
  <1>7. ~Inserts(o)
    BY DEF Inserts, NewRow, TypeInv, TypeOK, TablesOK
  <1> QED BY <1>5, <1>6, <1>7, StatusStep DEF RowMoves

LEMMA FillStepInv == TypeInv /\ CallsAgree /\ FillInv /\ [Next]_vars => FillInv'
  <1> SUFFICES ASSUME TypeInv, CallsAgree, FillInv, [Next]_vars PROVE FillInv'
    OBVIOUS
  <1>1. WorkerHolds' /\ Observed'
    BY WorkerHoldsStepInv, ObservedStepInv DEF FillInv
  <1>2. ASSUME NEW o \in Requests
        PROVE  FillBound(o)'
    <2>1. CASE Reconcile
      BY <2>1, FillTaken, FillSetId, FillUpdate, FillTail, FillRecorded DEF Reconcile
    <2> QED BY <2>1, FillTaken, FillTail, FillOutside, WhoSteps
  <1> QED BY <1>1, <1>2, HasFillStep DEF FillInv

THEOREM FillInvariant == Spec => []FillInv
  <1>1. KeyInv => CallsAgree
    BY DEF KeyInv
  <1> QED BY <1>1, FillInit, FillStepInv, TypeInvariant, KeyInvariant, PTL DEF Spec

(* The executions of an order can be counted. *)
LEMMA ExecutionsFinite ==
  ASSUME TypeInv, NEW o
  PROVE  IsFiniteSet(ExecutionsOf(o)) /\ Cardinality(ExecutionsOf(o)) \in Nat
  <1>1. ExecutionsOf(o) \subseteq 1..Len(placements) /\ Len(placements) \in Nat
    BY DEF TypeInv, TypeOK, BrokerOK, ExecutionsOf, PlacementsOf
  <1>2. IsFiniteSet(1..Len(placements))
    BY <1>1, FS_Interval
  <1> QED BY <1>1, <1>2, FS_Subset, FS_CardinalityType

(* Fill rows never claim more than the broker executed, except once more   *)
(* per failure, and none exists for an order of which nothing was          *)
(* executed.                                                               *)
THEOREM FillsAreBacked == Spec => []FillsBackedByExecutions
  <1>1. TypeInv /\ FillInv => FillsBackedByExecutions
    <2> SUFFICES ASSUME TypeInv, FillInv, NEW o \in Requests, fills[o] > 0
                 PROVE  /\ ExecutionsOf(o) # {}
                        /\ fills[o] <= Cardinality(ExecutionsOf(o)) + faults
      BY DEF FillsBackedByExecutions
    <2>1. ExecutionsOf(o) # {} /\ fills[o] <= faults + 1
      BY DEF FillInv, FillBound
    <2>2. Cardinality(ExecutionsOf(o)) \in Nat /\ Cardinality(ExecutionsOf(o)) # 0
      BY <2>1, ExecutionsFinite, FS_EmptySet
    <2>3. fills[o] \in Nat /\ faults \in Nat
      BY FaultsAssumption DEF TypeInv, TypeOK, TablesOK
    <2> QED BY <2>1, <2>2, <2>3
  <1> QED BY <1>1, FillInvariant, TypeInvariant, PTL

(* Without failures an order that stays filled has exactly one fill row.   *)
THEOREM FilledOnce == Spec => []FilledOrdersHaveTheirFill
  <1>1. TypeInv /\ FillInv => FilledOrdersHaveTheirFill
    <2> SUFFICES ASSUME TypeInv, FillInv, NEW o \in Requests,
                        faults = 0, orders[o].status = "filled", o \notin HeldByWorker
                 PROVE  fills[o] = 1
      BY DEF FilledOrdersHaveTheirFill
    <2>1. ~FillDue(o)
      BY DEF FillDue, HeldByWorker
    <2>2. fills[o] >= 1 /\ fills[o] <= 1 /\ fills[o] \in Nat
      BY <2>1 DEF FillInv, FillBound, HasFill, TypeInv, TypeOK, TablesOK
    <2> QED BY <2>2
  <1> QED BY <1>1, FillInvariant, TypeInvariant, PTL
----------------------------------------------------------------------------
(* Placements                                                              *)

(* The orders that were placed, and those of them that would be placed     *)
(* again, because no broker id was stored and none is about to be.         *)
Placed      == {o \in Requests : PlacementsOf(o) # {}}
Replaceable == {o \in Placed : orders[o].provId = 0 /\ ~(wpc = "setid" /\ cur.id = o)}

(* An order that would be placed again has already cost the failure.       *)
PlaceInv ==
    /\ IsFiniteSet(Placed)
    /\ Len(placements) + Cardinality(Replaceable) <= Cardinality(Placed) + faults

(* Sets that grow by one element at most. *)
LEMMA OneMore ==
  ASSUME NEW S, IsFiniteSet(S), NEW T, NEW x, T \subseteq S \cup {x}
  PROVE  /\ IsFiniteSet(T) /\ Cardinality(T) \in Nat /\ Cardinality(S) \in Nat
         /\ Cardinality(T) <= Cardinality(S) + 1
         /\ T \subseteq S => Cardinality(T) <= Cardinality(S)
  <1>1. /\ IsFiniteSet(S \cup {x})
        /\ Cardinality(S \cup {x}) = IF x \in S THEN Cardinality(S) ELSE Cardinality(S) + 1
    BY FS_AddElement
  <1>2. IsFiniteSet(T) /\ Cardinality(T) <= Cardinality(S \cup {x})
    BY <1>1, FS_Subset
  <1>3. Cardinality(T) \in Nat /\ Cardinality(S) \in Nat
    BY <1>2, FS_CardinalityType
  <1>4. T \subseteq S => Cardinality(T) <= Cardinality(S)
    BY FS_Subset
  <1> QED BY <1>1, <1>2, <1>3, <1>4

LEMMA PlaceInit == Init => PlaceInv
  <1> SUFFICES ASSUME Init PROVE PlaceInv
    OBVIOUS
  <1>1. Placed = {} /\ Replaceable = {}
    BY DEF Init, Placed, Replaceable, PlacementsOf
  <1>2. Len(placements) = 0 /\ faults = 0
    BY DEF Init
  <1>3. IsFiniteSet({}) /\ Cardinality({}) = 0
    BY FS_EmptySet
  <1> QED BY <1>1, <1>2, <1>3 DEF PlaceInv

(* Placing an order for the first time adds it to the placed ones; placing *)
(* it again takes it from the replaceable ones, unless the reply is lost.  *)
LEMMA PlaceAgain ==
  ASSUME TypeInv, WorkerHolds, PlaceInv, [Next]_vars, NEW s \in batch, PlaceOrder(s),
         placements' = Append(placements, [order |-> s.id, status |-> PlaceStatus])
  PROVE  PlaceInv'
  <1> USE DEF tables
  <1>1. /\ s.id \in Requests /\ orders[s.id].provId = 0 /\ UNCHANGED orders /\ wpc = "next"
    BY WorkerFields DEF PlaceOrder, NeedsPlacement, WorkerHolds
  <1>2. /\ Len(placements') = Len(placements) + 1
        /\ PlacementsOf(s.id)' # {}
        /\ \A o : o # s.id => PlacementsOf(o)' = PlacementsOf(o)
    BY Placing
  <1>3. Placed' = Placed \cup {s.id}
    BY <1>1, <1>2 DEF Placed
  <1>4. IsFiniteSet(Placed') /\ Cardinality(Placed') = IF s.id \in Placed THEN Cardinality(Placed)
                                                       ELSE Cardinality(Placed) + 1
    BY <1>3, FS_AddElement DEF PlaceInv
  <1>5. s.id \in Placed <=> s.id \in Replaceable
    BY <1>1 DEF Replaceable
  <1>6. IsFiniteSet(Replaceable)
    BY FS_Subset DEF PlaceInv, Replaceable
  <1>7. /\ faults \in Nat /\ faults' \in Nat /\ faults' >= faults /\ Len(placements) \in Nat
        /\ Cardinality(Placed) \in Nat /\ Cardinality(Replaceable) \in Nat
    BY <1>6, FaultStep, FS_CardinalityType DEF NoFault, PlaceInv, TypeInv, TypeOK, BrokerOK
  <1>8. CASE wpc' = "setid" /\ cur'.id = s.id
    <2>1. Replaceable' = Replaceable \ {s.id}
      BY <1>1, <1>3, <1>8 DEF Replaceable
    <2>2. Cardinality(Replaceable') = IF s.id \in Replaceable THEN Cardinality(Replaceable) - 1
                                      ELSE Cardinality(Replaceable)
      BY <1>6, <2>1, FS_RemoveElement
    <2> QED BY <1>2, <1>4, <1>5, <1>7, <2>2 DEF PlaceInv
  <1>9. CASE wpc' = "next" /\ faults' = faults + 1
    <2>1. Replaceable' = Replaceable \cup {s.id}
      BY <1>1, <1>3, <1>9 DEF Replaceable
    <2>2. Cardinality(Replaceable') = IF s.id \in Replaceable THEN Cardinality(Replaceable)
                                      ELSE Cardinality(Replaceable) + 1
      BY <1>6, <2>1, FS_AddElement
    <2> QED BY <1>2, <1>4, <1>5, <1>7, <1>9, <2>2 DEF PlaceInv
  <1> QED BY <1>8, <1>9 DEF PlaceOrder, Work, NextOrder, Fault

(* Every other step leaves the placed orders, and makes one replaceable    *)
(* only by a failure.                                                      *)
LEMMA PlaceKept ==
  ASSUME TypeInv, CallsAgree, WorkerHolds, PlaceInv, [Next]_vars,
         Len(placements') = Len(placements), \A o : PlacementsOf(o)' = PlacementsOf(o)
  PROVE  PlaceInv'
  <1>1. Placed' = Placed /\ IsFiniteSet(Placed) /\ IsFiniteSet(Replaceable)
    BY FS_Subset DEF Placed, PlaceInv, Replaceable
  <1>2. /\ faults \in Nat /\ faults' \in Nat /\ faults' >= faults /\ Len(placements) \in Nat
        /\ Cardinality(Placed) \in Nat
    BY <1>1, FaultStep, FS_CardinalityType DEF NoFault, TypeInv, TypeOK, BrokerOK
  <1>3. ASSUME Replaceable' \subseteq Replaceable
               \/ (Replaceable' \subseteq Replaceable \cup {cur.id} /\ faults' = faults + 1)
        PROVE  PlaceInv'
    <2>1. Replaceable' \subseteq Replaceable \cup {cur.id}
      BY <1>3
    <2>2. /\ Cardinality(Replaceable') \in Nat /\ Cardinality(Replaceable) \in Nat
          /\ Cardinality(Replaceable') <= Cardinality(Replaceable) + 1
          /\ Replaceable' \subseteq Replaceable =>
                Cardinality(Replaceable') <= Cardinality(Replaceable)
      BY <1>1, <2>1, OneMore
    <2> QED BY <1>1, <1>2, <1>3, <2>2 DEF PlaceInv
  <1>4. CASE SetProviderOrderID
    <2>1. wpc = "setid" /\ wpc' = "status" /\ UNCHANGED cur /\ cur.placedId # 0
      BY <1>4 DEF SetProviderOrderID, WorkerHolds
    <2>2. Replaceable' \subseteq Replaceable \cup {cur.id}
      BY <1>1, <2>1, IdStep DEF Replaceable, Placed
    <2>3. CASE orders' = [orders EXCEPT ![cur.id].provId = cur.placedId]
      <3>1. cur.id \in Requests /\ orders[cur.id] \in Row /\ orders \in [Requests -> Row \cup {NoRow}]
        BY <2>1, WorkerFields, RowFields DEF TypeInv, TypeOK, TablesOK
      <3>2. orders'[cur.id].provId # 0
        BY <2>1, <2>3, <3>1 DEF Row
      <3>3. Replaceable' \subseteq Replaceable
        BY <2>2, <3>2 DEF Replaceable
      <3> QED BY <1>3, <3>3
    <2>4. CASE faults' = faults + 1
      BY <1>3, <2>2, <2>4
    <2> QED BY <1>4, <2>3, <2>4 DEF SetProviderOrderID, Fault
  <1>5. ASSUME ~SetProviderOrderID
        PROVE  \A o \in Requests : orders'[o].provId = orders[o].provId
    BY <1>5, IdStep
  <1>6. CASE WorkerRestart
    <2>1. Replaceable' \subseteq Replaceable \cup {cur.id}
      BY <1>1, <1>6 DEF Replaceable, Placed, WorkerRestart, tables
    <2> QED BY <1>3, <1>6, <2>1 DEF WorkerRestart, Fault
  <1>7. CASE ~SetProviderOrderID /\ ~WorkerRestart
    <2>1. \A o : wpc = "setid" /\ cur.id = o => wpc' = "setid" /\ cur'.id = o
      BY <1>7, WhoSteps DEF workerVars, Tick, Reconcile, PlaceOrder, PollOrder, TouchOrder,
                            UpdateStatus, AppendWorkerEvent, RecordFill
    <2>2. Replaceable' \subseteq Replaceable
      BY <1>1, <1>5, <1>7, <2>1 DEF Replaceable, Placed
    <2> QED BY <1>3, <2>2
  <1> QED BY <1>4, <1>6, <1>7

LEMMA PlaceStepInv ==
  TypeInv /\ CallsAgree /\ WorkerHolds /\ PlaceInv /\ [Next]_vars => PlaceInv'
  <1> SUFFICES ASSUME TypeInv, CallsAgree, WorkerHolds, PlaceInv, [Next]_vars PROVE PlaceInv'
    OBVIOUS
  <1>1. CASE UNCHANGED placements
    <2>1. \A o : PlacementsOf(o)' = PlacementsOf(o)
      BY <1>1 DEF PlacementsOf
    <2> QED BY <1>1, <2>1, PlaceKept
  <1>2. ASSUME NEW i \in DOMAIN placements, BrokerResolves(i)
        PROVE  PlaceInv'
    BY <1>2, Resolving, PlaceKept
  <1> QED BY <1>1, <1>2, BookStep, PlaceAgain

(* Placing an order a second time takes a failure: the book is no longer   *)
(* than the number of orders placed and of failures.                       *)
THEOREM ExtraPlacementsCost == Spec => []ExtraPlacementsCostFaults
  <1>1. KeyInv /\ FillInv => CallsAgree /\ WorkerHolds
    BY DEF KeyInv, FillInv
  <1>2. TypeInv /\ PlaceInv => ExtraPlacementsCostFaults
    <2> SUFFICES ASSUME TypeInv, PlaceInv PROVE ExtraPlacementsCostFaults
      OBVIOUS
    <2>1. IsFiniteSet(Placed) /\ IsFiniteSet(Replaceable)
      BY FS_Subset DEF PlaceInv, Replaceable
    <2>2. /\ Cardinality(Placed) \in Nat /\ Cardinality(Replaceable) \in Nat
          /\ Len(placements) \in Nat /\ faults \in Nat
      BY <2>1, FS_CardinalityType, FaultsAssumption DEF TypeInv, TypeOK, BrokerOK
    <2> QED BY <2>2 DEF PlaceInv, Placed, ExtraPlacementsCostFaults
  <1> QED BY <1>1, <1>2, PlaceInit, PlaceStepInv, TypeInvariant, KeyInvariant, FillInvariant, PTL
          DEF Spec
=============================================================================
