-------------------------- MODULE AgentPool_proofs --------------------------
(***************************************************************************)
(* Proofs about AgentPool, for any number of workers, triggers, symbols,   *)
(* turns and failures, any capacity of the channel and any cap.            *)
(*                                                                         *)
(* That a trigger is with one worker at a time, and that a signal's key    *)
(* belongs to one trigger, is what the rest depends on (TicketInv): a      *)
(* mutex is then released by the worker that holds it (LockInv), and what  *)
(* is stored under a signal's key when a POST was answered well is what    *)
(* that POST carried (PostInv), whatever handlers were left behind.        *)
(* The cost cap is reserved by nobody, so what bounds the cost of a day is *)
(* what the checks let through (BudgetInv): what is stored and what is in  *)
(* flight together stay below the bound, since a check finds the sum below *)
(* the cap, a row takes the place of what was in flight, and whatever is   *)
(* in flight is with a worker or its client has gone.                      *)
(***************************************************************************)
EXTENDS AgentPool, SequenceTheorems, DataTheorems, TLAPS

USE DEF Tickets, Keys

Active(w) == worker[w].pc \notin {"idle", "returned"}

ServiceOK ==
    /\ now \in 0..MaxNow /\ due \in 0..(MaxNow \div 2 + 1)
    /\ phase \in {"running", "canceled", "closed", "exited"}
    /\ starts \in Nat /\ faults \in 0..MaxFaults

PoolOK ==
    /\ arrived \in 0..MaxTickets
    /\ ticket \in [Tickets -> TicketRecord]
    /\ queue \in Seq(Tickets)
    /\ worker \in [Workers -> WorkerRecord]
    /\ lock \in [Locks -> Workers \cup {None}]

(* Where a trigger is, and which key it has. *)
TicketInv ==
    /\ \A t \in Tickets : IF t <= arrived THEN ticket[t].key \in Keys /\ ticket[t].state # "none"
                          ELSE ticket[t] = NoTicket
    /\ \A t, u \in Tickets : t # u /\ ticket[t].key \in SignalKeys => ticket[t].key # ticket[u].key
    /\ \A i \in 1..Len(queue) : ticket[queue[i]].state = "queued"
    /\ \A i, j \in 1..Len(queue) : queue[i] = queue[j] => i = j
    /\ \A w \in Workers : Active(w) =>
          worker[w].t \in Tickets /\ ticket[worker[w].t].state = "taken"
    /\ \A v, w \in Workers : Active(v) /\ Active(w) /\ worker[v].t = worker[w].t => v = w

(* A worker past its lock holds it. *)
LockInv == \A w \in Workers : Deciding(w) => lock[LockHeldBy(w)] = w

PoolInv == PoolOK /\ TicketInv /\ LockInv
----------------------------------------------------------------------------
(* What single operators return.                                           *)

LEMMA DayType == ASSUME now \in 0..MaxNow PROVE Day \in Days
  BY SizesAssumption DEF Day, Days

LEMMA LockType == ASSUME NEW key \in Keys PROVE LockOf(key) \in Locks
  BY KeysAssumption DEF LockOf, Locks

LEMMA CostType ==
  ASSUME PoolOK, NEW w \in Workers, NEW turns \in Nat
  PROVE  CostCents(w, turns) \in Nat
  <1>1. worker[w].turn + turns \in Nat
    BY SizesAssumption DEF PoolOK, WorkerRecord
  <1>2. \A n \in Nat, d \in Nat \ {0} : n \div d \in Nat
    OBVIOUS
  <1> QED BY <1>1, <1>2, SizesAssumption DEF CostCents

LEMMA NextDueType ==
  ASSUME NEW n \in 0..MaxNow PROVE NextDue(n) \in 0..(MaxNow \div 2 + 1)
  BY SizesAssumption DEF NextDue

(* The count of failures stays within its bound. *)
LEMMA FaultCount ==
  ASSUME faults \in 0..MaxFaults, NEW kind, Fault(kind) \/ NoFault
  PROVE  faults' \in 0..MaxFaults
  BY SizesAssumption DEF Fault, NoFault

(* A trigger in the pool has a key, and its lock exists. *)
LEMMA HeldKey ==
  ASSUME PoolInv, NEW w \in Workers, Active(w)
  PROVE  /\ worker[w].t \in Tickets /\ worker[w].t <= arrived
         /\ ticket[worker[w].t].key \in Keys
         /\ ticket[worker[w].t].state = "taken"
         /\ LockHeldBy(w) \in Locks
  <1>1. worker[w].t \in Tickets /\ ticket[worker[w].t].state = "taken"
    BY DEF PoolInv, TicketInv
  <1>2. worker[w].t <= arrived
    BY <1>1 DEF PoolInv, TicketInv, NoTicket
  <1>3. ticket[worker[w].t].key \in Keys
    BY <1>1, <1>2 DEF PoolInv, TicketInv
  <1> QED BY <1>1, <1>2, <1>3, LockType DEF LockHeldBy

(* The channel holds triggers nobody has taken. *)
LEMMA QueueFacts ==
  ASSUME PoolInv
  PROVE  /\ queue \in Seq(Tickets) /\ Len(queue) \in Nat
         /\ \A i \in 1..Len(queue) :
               queue[i] \in Tickets /\ ticket[queue[i]].state = "queued"
  <1>1. queue \in Seq(Tickets)
    BY DEF PoolInv, PoolOK
  <1>2. \A i \in 1..Len(queue) : queue[i] \in Tickets
    BY <1>1, ElementOfSeq
  <1>3. \A i \in 1..Len(queue) : ticket[queue[i]].state = "queued"
    BY DEF PoolInv, TicketInv
  <1> QED BY <1>1, <1>2, <1>3, LenProperties
----------------------------------------------------------------------------
(* What each way to change the pool keeps.                                 *)

LEMMA EnqueuePool ==
  ASSUME PoolInv, ServiceOK, NEW key \in Keys, Enqueue(key),
         key \in SignalKeys => \A t \in Tickets : ticket[t].key # key
  PROVE  PoolInv'
  <1> DEFINE t == arrived + 1
             fits == Len(queue) < Capacity
             new == [key |-> key, day |-> Day, state |-> IF fits THEN "queued" ELSE "over"]
  <1>1. t \in Tickets /\ arrived' = t /\ t \in 0..MaxTickets
    BY SizesAssumption DEF PoolInv, PoolOK, Enqueue
  <1>2. ticket' = [ticket EXCEPT ![t] = new] /\ UNCHANGED <<worker, lock>>
    BY DEF Enqueue
  <1>3. queue' = IF fits THEN Append(queue, t) ELSE queue
    BY DEF Enqueue
  <1>4. new \in TicketRecord /\ new.key = key /\ new.state \in {"queued", "over"}
        /\ (fits => new.state = "queued")
    BY DayType DEF ServiceOK, TicketRecord
  <1>5. ticket[t] = NoTicket
    BY <1>1 DEF PoolInv, PoolOK, TicketInv
  <1>6. queue \in Seq(Tickets) /\ ticket \in [Tickets -> TicketRecord]
    BY DEF PoolInv, PoolOK
  <1>a. /\ queue' \in Seq(Tickets) /\ Len(queue) \in Nat
        /\ \A i \in 1..Len(queue') :
              \/ i \in 1..Len(queue) /\ queue'[i] = queue[i]
              \/ i = Len(queue) + 1 /\ queue'[i] = t /\ fits
    <2>1. CASE fits
      <3> HIDE DEF t, new
      <3>1. queue' = Append(queue, t) /\ Len(queue) \in Nat
        BY <1>3, <1>6, <2>1, LenProperties
      <3>2. /\ queue' \in Seq(Tickets) /\ Len(queue') = Len(queue) + 1
            /\ \A i \in 1..Len(queue) : queue'[i] = queue[i]
            /\ queue'[Len(queue) + 1] = t
        BY <1>1, <1>6, <3>1, AppendProperties
      <3> QED BY <2>1, <3>1, <3>2
    <2>2. CASE ~fits
      BY <1>3, <1>6, <2>2, LenProperties
    <2> QED BY <2>1, <2>2
  <1> HIDE DEF new, fits, t
  <1>7. PoolOK'
    BY <1>1, <1>2, <1>4, <1>6, <1>a DEF PoolInv, PoolOK
  <1>8. TicketInv'
    <2>1. \A u \in Tickets : IF u <= arrived' THEN ticket'[u].key \in Keys /\ ticket'[u].state # "none"
                             ELSE ticket'[u] = NoTicket
      BY <1>1, <1>2, <1>4, <1>6 DEF PoolInv, PoolOK, TicketInv, t
    <2>2. \A u, v \in Tickets : u # v /\ ticket'[u].key \in SignalKeys => ticket'[u].key # ticket'[v].key
      BY <1>1, <1>2, <1>4, <1>6 DEF PoolInv, TicketInv
    <2>3. \A i \in 1..Len(queue) : queue[i] \in Tickets /\ queue[i] # t
      BY <1>5, QueueFacts DEF NoTicket
    <2>4. \A i \in 1..Len(queue') : ticket'[queue'[i]].state = "queued"
      BY <1>1, <1>2, <1>4, <1>6, <1>a, <2>3, QueueFacts
    <2>5. \A i, j \in 1..Len(queue') : queue'[i] = queue'[j] => i = j
      BY <1>a, <2>3 DEF PoolInv, TicketInv
    <2>6. \A w \in Workers : Active(w)' => worker'[w].t \in Tickets /\ ticket'[worker'[w].t].state = "taken"
      BY <1>2, <1>5, <1>6 DEF PoolInv, TicketInv, Active, NoTicket
    <2>7. \A v, w \in Workers : Active(v)' /\ Active(w)' /\ worker'[v].t = worker'[w].t => v = w
      BY <1>2 DEF PoolInv, TicketInv, Active
    <2> QED BY <2>1, <2>2, <2>4, <2>5, <2>6, <2>7 DEF TicketInv
  <1>9. LockInv'
    <2> SUFFICES ASSUME NEW w \in Workers, Deciding(w) PROVE LockHeldBy(w)' = LockHeldBy(w)
      BY <1>2 DEF PoolInv, LockInv, Deciding
    <2>1. worker[w].t \in Tickets /\ worker[w].t # t
      BY <1>5 DEF PoolInv, TicketInv, Active, Deciding, NoTicket
    <2> QED BY <1>2, <1>6, <2>1 DEF LockHeldBy
  <1> QED BY <1>7, <1>8, <1>9 DEF PoolInv

LEMMA TakePool ==
  ASSUME PoolInv, NEW w \in Workers, Take(w)
  PROVE  PoolInv'
  <1> DEFINE t == Head(queue)
             new == [Resting EXCEPT !.pc = "lock", !.t = t]
  <1>1. queue \in Seq(Tickets) /\ queue # <<>> /\ ticket \in [Tickets -> TicketRecord]
        /\ worker \in [Workers -> WorkerRecord]
    BY DEF PoolInv, PoolOK, Take
  <1>2. t = queue[1] /\ 1 \in 1..Len(queue)
    BY <1>1, EmptySeq
  <1>3. t \in Tickets /\ ticket[t].state = "queued"
    BY <1>2, QueueFacts
  <1>4. /\ queue' = Tail(queue) /\ UNCHANGED <<arrived, lock>>
        /\ ticket' = [ticket EXCEPT ![t].state = "taken"]
        /\ worker' = [worker EXCEPT ![w] = new]
    BY DEF Take, MarkTicket
  <1>5. new \in WorkerRecord /\ new.pc = "lock" /\ new.t = t
    <2> HIDE DEF t
    <2>1. Resting \in WorkerRecord
      BY SizesAssumption DEF WorkerRecord, Resting
    <2> QED BY <1>3, <2>1 DEF WorkerRecord
  <1>6. /\ ticket' \in [Tickets -> TicketRecord]
        /\ \A u \in Tickets : ticket'[u].key = ticket[u].key /\ (u # t => ticket'[u] = ticket[u])
        /\ ticket'[t].state = "taken"
    BY <1>1, <1>3, <1>4 DEF TicketRecord
  <1>7. /\ queue' \in Seq(Tickets) /\ Len(queue') = Len(queue) - 1
        /\ \A i \in 1..Len(queue') : queue'[i] = queue[i + 1] /\ i + 1 \in 1..Len(queue)
                                    /\ i + 1 # 1
    BY <1>1, <1>4, HeadTailProperties, LenProperties
  <1>8. \A i \in 1..Len(queue') : queue'[i] # t
    BY <1>2, <1>7, SMTT(30) DEF PoolInv, TicketInv
  <1>9. \A v \in Workers : Active(v) => worker[v].t # t
    BY <1>3 DEF PoolInv, TicketInv
  <1> HIDE DEF t, new
  <1>10. PoolOK'
    BY <1>1, <1>4, <1>5, <1>6, <1>7 DEF PoolInv, PoolOK
  <1>11. TicketInv'
    <2>1. \A u \in Tickets : IF u <= arrived' THEN ticket'[u].key \in Keys /\ ticket'[u].state # "none"
                             ELSE ticket'[u] = NoTicket
      BY <1>3, <1>4, <1>6 DEF PoolInv, TicketInv, NoTicket
    <2>2. \A u, v \in Tickets : u # v /\ ticket'[u].key \in SignalKeys => ticket'[u].key # ticket'[v].key
      BY <1>6 DEF PoolInv, TicketInv
    <2>3. \A i \in 1..Len(queue') : ticket'[queue'[i]].state = "queued"
      BY <1>6, <1>7, <1>8, QueueFacts
    <2>4. \A i, j \in 1..Len(queue') : queue'[i] = queue'[j] => i = j
      <3> SUFFICES ASSUME NEW i \in 1..Len(queue'), NEW j \in 1..Len(queue'), queue'[i] = queue'[j]
                   PROVE  i = j
        OBVIOUS
      <3>1. i + 1 = j + 1
        BY <1>7 DEF PoolInv, TicketInv
      <3> QED BY <1>7, <3>1
    <2>5. \A v \in Workers : Active(v)' => worker'[v].t \in Tickets /\ ticket'[worker'[v].t].state = "taken"
      BY <1>1, <1>3, <1>4, <1>5, <1>6, <1>9 DEF PoolInv, TicketInv, Active
    <2>6. \A u, v \in Workers : Active(u)' /\ Active(v)' /\ worker'[u].t = worker'[v].t => u = v
      BY <1>1, <1>4, <1>5, <1>9 DEF PoolInv, TicketInv, Active
    <2> QED BY <2>1, <2>2, <2>3, <2>4, <2>5, <2>6 DEF TicketInv
  <1>12. LockInv'
    <2> SUFFICES ASSUME NEW v \in Workers, Deciding(v)' PROVE (lock[LockHeldBy(v)] = v)'
      BY DEF LockInv
    <2>1. v # w /\ worker'[v] = worker[v]
      BY <1>1, <1>4, <1>5 DEF Deciding
    <2>2. Deciding(v) /\ worker[v].t \in Tickets
      BY <2>1 DEF Deciding, Active, PoolInv, TicketInv
    <2>3. LockHeldBy(v)' = LockHeldBy(v)
      BY <1>6, <2>1, <2>2 DEF LockHeldBy
    <2> QED BY <1>4, <2>2, <2>3 DEF PoolInv, LockInv
  <1> QED BY <1>10, <1>11, <1>12 DEF PoolInv

(* A worker goes on with the trigger it has. *)
LEMMA StepPool ==
  ASSUME PoolInv, NEW w \in Workers, UNCHANGED <<arrived, ticket, queue>>,
         NEW new \in WorkerRecord, worker' = [worker EXCEPT ![w] = new],
         new.pc \notin {"idle", "returned"} => Active(w) /\ new.t = worker[w].t,
         lock' \in [Locks -> Workers \cup {None}],
         \A v \in Workers : Deciding(v)' =>
            lock'[LockOf(ticket[worker[v].t].key)] = v
  PROVE  PoolInv'
  <1>1. PoolOK'
    BY DEF PoolInv, PoolOK
  <1>2. worker \in [Workers -> WorkerRecord]
    BY DEF PoolInv, PoolOK
  <1>3. \A v \in Workers : Active(v)' => Active(v) /\ worker'[v].t = worker[v].t
    BY <1>2 DEF Active
  <1>4. TicketInv'
    BY <1>3 DEF PoolInv, TicketInv
  <1>5. LockInv'
    BY <1>3 DEF LockInv, LockHeldBy, Deciding, Active
  <1> QED BY <1>1, <1>4, <1>5 DEF PoolInv

LEMMA SettlePool ==
  ASSUME PoolInv, NEW w \in Workers, Deciding(w), NEW state \in {"over", "gone"},
         Settle(w, state)
  PROVE  PoolInv'
  <1> DEFINE t == worker[w].t
  <1>1. t \in Tickets /\ t <= arrived /\ ticket[t].state = "taken" /\ LockHeldBy(w) \in Locks
    BY HeldKey DEF Deciding, Active
  <1>2. /\ queue \in Seq(Tickets) /\ ticket \in [Tickets -> TicketRecord]
        /\ worker \in [Workers -> WorkerRecord] /\ lock \in [Locks -> Workers \cup {None}]
    BY DEF PoolInv, PoolOK
  <1>3. /\ UNCHANGED <<arrived, queue>>
        /\ ticket' = [ticket EXCEPT ![t].state = state]
        /\ worker' = [worker EXCEPT ![w] = Resting]
        /\ lock' = [lock EXCEPT ![LockHeldBy(w)] = None]
    BY DEF Settle, MarkTicket, Release
  <1>4. /\ ticket' \in [Tickets -> TicketRecord]
        /\ \A u \in Tickets : ticket'[u].key = ticket[u].key /\ (u # t => ticket'[u] = ticket[u])
        /\ ticket'[t].state = state
    BY <1>1, <1>2, <1>3 DEF TicketRecord
  <1>5. Resting \in WorkerRecord /\ Resting.pc = "idle"
    BY SizesAssumption DEF WorkerRecord, Resting
  <1>6. \A v \in Workers : Active(v)' => Active(v) /\ v # w /\ worker'[v] = worker[v] /\ worker[v].t # t
    BY <1>2, <1>3, <1>5 DEF PoolInv, TicketInv, Active, Deciding
  <1> HIDE DEF t
  <1>7. PoolOK'
    BY <1>2, <1>3, <1>4, <1>5 DEF PoolInv, PoolOK
  <1>8. TicketInv'
    <2>1. \A u \in Tickets : IF u <= arrived' THEN ticket'[u].key \in Keys /\ ticket'[u].state # "none"
                             ELSE ticket'[u] = NoTicket
      BY <1>1, <1>3, <1>4 DEF PoolInv, TicketInv
    <2>2. \A u, v \in Tickets : u # v /\ ticket'[u].key \in SignalKeys => ticket'[u].key # ticket'[v].key
      BY <1>4 DEF PoolInv, TicketInv
    <2>3. \A i \in 1..Len(queue) : queue[i] \in Tickets /\ queue[i] # t
      BY <1>1, QueueFacts
    <2>4. \A i \in 1..Len(queue') : ticket'[queue'[i]].state = "queued"
      BY <1>3, <1>4, <2>3, QueueFacts
    <2>5. \A i, j \in 1..Len(queue') : queue'[i] = queue'[j] => i = j
      BY <1>3 DEF PoolInv, TicketInv
    <2>6. \A v \in Workers : Active(v)' => worker'[v].t \in Tickets /\ ticket'[worker'[v].t].state = "taken"
      BY <1>4, <1>6 DEF PoolInv, TicketInv
    <2>7. \A u, v \in Workers : Active(u)' /\ Active(v)' /\ worker'[u].t = worker'[v].t => u = v
      BY <1>6 DEF PoolInv, TicketInv
    <2> QED BY <2>1, <2>2, <2>4, <2>5, <2>6, <2>7 DEF TicketInv
  <1>9. LockInv'
    <2> SUFFICES ASSUME NEW v \in Workers, Deciding(v)' PROVE (lock[LockHeldBy(v)] = v)'
      BY DEF LockInv
    <2>1. Active(v)' /\ Deciding(v) /\ v # w
      BY <1>6 DEF Deciding, Active
    <2>2. LockHeldBy(v)' = LockHeldBy(v) /\ LockHeldBy(v) \in Locks
      BY <1>4, <1>6, <2>1, HeldKey DEF LockHeldBy
    <2>3. lock[LockHeldBy(v)] = v /\ lock[LockHeldBy(w)] = w
      BY <2>1 DEF PoolInv, LockInv
    <2>4. lock'[LockHeldBy(v)] = lock[LockHeldBy(v)]
      BY <1>1, <1>2, <1>3, <2>1, <2>2, <2>3
    <2> QED BY <2>2, <2>3, <2>4
  <1> QED BY <1>7, <1>8, <1>9 DEF PoolInv

LEMMA EndPool ==
  ASSUME PoolInv, ProcessEnds
  PROVE  PoolInv'
  <1> DEFINE ended(t) == CASE ticket[t].state = "queued" -> [ticket[t] EXCEPT !.state = "over"]
                           [] ticket[t].state = "taken"  -> [ticket[t] EXCEPT !.state = "gone"]
                           [] OTHER -> ticket[t]
  <1>1. /\ UNCHANGED arrived /\ queue' = <<>>
        /\ worker' = [w \in Workers |-> Resting] /\ lock' = [l \in Locks |-> None]
        /\ ticket' = [t \in Tickets |-> ended(t)]
    BY DEF ProcessEnds
  <1>2. ticket \in [Tickets -> TicketRecord]
    BY DEF PoolInv, PoolOK
  <1>3. \A t \in Tickets : /\ ended(t) \in TicketRecord /\ ended(t).key = ticket[t].key
                           /\ ended(t).state = "none" <=> ticket[t].state = "none"
                           /\ ticket[t] = NoTicket => ended(t) = NoTicket
    <2> SUFFICES ASSUME NEW t \in Tickets
                 PROVE  /\ ended(t) \in TicketRecord /\ ended(t).key = ticket[t].key
                        /\ ended(t).state = "none" <=> ticket[t].state = "none"
                        /\ ticket[t] = NoTicket => ended(t) = NoTicket
      OBVIOUS
    <2>1. ticket[t] \in TicketRecord
      BY <1>2
    <2>2. CASE ticket[t].state = "queued"
      BY <2>1, <2>2 DEF TicketRecord, NoTicket
    <2>3. CASE ticket[t].state = "taken"
      BY <2>1, <2>3 DEF TicketRecord, NoTicket
    <2>4. CASE ticket[t].state \notin {"queued", "taken"}
      BY <2>1, <2>4
    <2> QED BY <2>2, <2>3, <2>4
  <1> HIDE DEF ended
  <1>4. Resting \in WorkerRecord /\ Resting.pc = "idle"
    BY SizesAssumption DEF WorkerRecord, Resting
  <1>5. PoolOK'
    BY <1>1, <1>3, <1>4 DEF PoolInv, PoolOK
  <1>6. \A w \in Workers : ~Active(w)' /\ ~Deciding(w)'
    BY <1>1, <1>4 DEF Active, Deciding
  <1>7. TicketInv'
    BY <1>1, <1>3, <1>6 DEF PoolInv, TicketInv
  <1> QED BY <1>5, <1>6, <1>7 DEF PoolInv, LockInv

(* A worker that holds its lock goes on. *)
LEMMA GoOnPool ==
  ASSUME PoolInv, NEW w \in Workers, Deciding(w), UNCHANGED <<arrived, ticket, queue, lock>>,
         NEW new \in WorkerRecord, worker' = [worker EXCEPT ![w] = new], new.t = worker[w].t
  PROVE  PoolInv'
  <1>1. worker \in [Workers -> WorkerRecord] /\ lock \in [Locks -> Workers \cup {None}]
    BY DEF PoolInv, PoolOK
  <1>2. ASSUME NEW v \in Workers, Deciding(v)' PROVE lock'[LockOf(ticket[worker[v].t].key)] = v
    <2>1. Deciding(v)
      BY <1>1, <1>2 DEF Deciding
    <2> QED BY <2>1 DEF PoolInv, LockInv, LockHeldBy
  <1>3. Active(w)
    BY DEF Active, Deciding
  <1> QED BY <1>1, <1>2, <1>3, StepPool

LEMMA StepsPool ==
  ASSUME PoolInv, NEW w \in Workers, Deciding(w), UNCHANGED <<arrived, ticket, queue, lock>>,
         NEW pc \in {"check", "decide", "posting", "ordering"}, Step(w, pc)
  PROVE  PoolInv'
  <1> DEFINE new == [worker[w] EXCEPT !.pc = pc]
  <1>1. worker[w] \in WorkerRecord
    BY DEF PoolInv, PoolOK
  <1>2. new \in WorkerRecord /\ new.t = worker[w].t
    BY <1>1 DEF WorkerRecord
  <1>3. worker' = [worker EXCEPT ![w] = new]
    BY DEF Step
  <1> HIDE DEF new
  <1> QED BY <1>2, <1>3, GoOnPool

LEMMA AcquirePool ==
  ASSUME PoolInv, NEW w \in Workers, Acquire(w)
  PROVE  PoolInv'
  <1> DEFINE new == [worker[w] EXCEPT !.pc = "check"]
  <1>1. worker \in [Workers -> WorkerRecord] /\ lock \in [Locks -> Workers \cup {None}]
    BY DEF PoolInv, PoolOK
  <1>2. Active(w) /\ new \in WorkerRecord /\ new.t = worker[w].t
    BY <1>1 DEF Acquire, Active, WorkerRecord
  <1>3. worker' = [worker EXCEPT ![w] = new] /\ UNCHANGED <<arrived, ticket, queue>>
    BY DEF Acquire, Step
  <1>4. LockHeldBy(w) \in Locks
    BY <1>2, HeldKey
  <1>5. lock[LockHeldBy(w)] = None /\ lock' = [lock EXCEPT ![LockHeldBy(w)] = w]
    BY DEF Acquire, Unlocked
  <1>6. ASSUME NEW v \in Workers, Deciding(v)' PROVE lock'[LockOf(ticket[worker[v].t].key)] = v
    <2>1. CASE v = w
      BY <1>1, <1>4, <1>5, <2>1 DEF LockHeldBy
    <2>2. CASE v # w
      <3>1. Deciding(v)
        BY <1>1, <1>3, <1>6, <2>2 DEF Deciding
      <3>2. lock[LockHeldBy(v)] = v /\ LockHeldBy(v) \in Locks
        BY <3>1, HeldKey DEF PoolInv, LockInv, Deciding, Active
      <3>3. lock'[LockHeldBy(v)] = lock[LockHeldBy(v)]
        BY <1>1, <1>4, <1>5, <3>2, PoolAssumption
      <3> QED BY <3>2, <3>3 DEF LockHeldBy
    <2> QED BY <2>1, <2>2
  <1>7. lock' \in [Locks -> Workers \cup {None}]
    BY <1>1, <1>5
  <1> HIDE DEF new
  <1> QED BY <1>2, <1>3, <1>6, <1>7, StepPool

LEMMA ProcessPool ==
  ASSUME ServiceOK, PoolInv, NEW w \in Workers, Process(w)
  PROVE  PoolInv'
  <1> USE DEF clockVars, phaseVars, storeVars
  <1>1. CASE Take(w)
    BY <1>1, TakePool
  <1>2. CASE Return(w)
    <2> DEFINE new == [worker[w] EXCEPT !.pc = "returned"]
    <2>1. worker \in [Workers -> WorkerRecord] /\ lock \in [Locks -> Workers \cup {None}]
      BY DEF PoolInv, PoolOK
    <2>2. new \in WorkerRecord /\ new.pc = "returned"
      BY <2>1 DEF WorkerRecord
    <2>3. worker' = [worker EXCEPT ![w] = new] /\ UNCHANGED <<arrived, ticket, queue, lock>>
      BY <1>2 DEF Return, Step
    <2> HIDE DEF new
    <2>4. ASSUME NEW v \in Workers, Deciding(v)' PROVE lock'[LockOf(ticket[worker[v].t].key)] = v
      <3>1. Deciding(v)
        BY <2>1, <2>2, <2>3, <2>4 DEF Deciding
      <3> QED BY <2>3, <3>1 DEF PoolInv, LockInv, LockHeldBy
    <2> QED BY <2>1, <2>2, <2>3, <2>4, StepPool
  <1>3. CASE Acquire(w)
    BY <1>3, AcquirePool
  <1>4. CASE CheckCap(w)
    <2>1. Deciding(w) /\ UNCHANGED <<arrived, ticket, queue, lock>>
      BY <1>4 DEF CheckCap, Deciding
    <2>2. \/ \E pc \in {"check", "decide", "posting", "ordering"} : Step(w, pc)
          \/ worker' = [worker EXCEPT ![w].pc = "decide", ![w].checked = Day]
      BY <1>4 DEF CheckCap, SendPost
    <2>3. CASE worker' = [worker EXCEPT ![w].pc = "decide", ![w].checked = Day]
      <3> DEFINE new == [worker[w] EXCEPT !.pc = "decide", !.checked = Day]
      <3>1. worker[w] \in WorkerRecord /\ Day \in Days
        BY DayType DEF PoolInv, PoolOK, ServiceOK
      <3>2. new \in WorkerRecord /\ new.t = worker[w].t
        BY <3>1 DEF WorkerRecord
      <3>3. worker' = [worker EXCEPT ![w] = new]
        BY <2>3
      <3> HIDE DEF new
      <3> QED BY <2>1, <3>2, <3>3, GoOnPool
    <2> QED BY <2>1, <2>2, <2>3, StepsPool
  <1>5. CASE ToolTurn(w)
    <2>1. Deciding(w)
      BY <1>5 DEF ToolTurn, Deciding
    <2>2. CASE worker[w].turn + 1 < MaxTurns
      <3> DEFINE new == [worker[w] EXCEPT !.turn = @ + 1]
      <3>1. worker[w] \in WorkerRecord
        BY DEF PoolInv, PoolOK
      <3>2. new \in WorkerRecord /\ new.t = worker[w].t
        BY <2>2, <3>1, SizesAssumption DEF WorkerRecord
      <3>3. worker' = [worker EXCEPT ![w] = new] /\ UNCHANGED <<arrived, ticket, queue, lock>>
        BY <1>5, <2>2 DEF ToolTurn
      <3> HIDE DEF new
      <3> QED BY <2>1, <3>2, <3>3, GoOnPool
    <2>3. CASE ~(worker[w].turn + 1 < MaxTurns)
      BY <1>5, <2>1, <2>3, SettlePool DEF ToolTurn
    <2> QED BY <2>2, <2>3
  <1>6. ASSUME NEW v \in Verdicts, Decide(w, v) PROVE PoolInv'
    <2>1. Deciding(w) /\ UNCHANGED <<arrived, ticket, queue, lock>> /\ Step(w, "posting")
      BY <1>6 DEF Decide, SendPost, Deciding
    <2> QED BY <2>1, StepsPool
  <1>7. CASE DecideFails(w)
    BY <1>7, SettlePool DEF DecideFails, Deciding
  <1>8. CASE PostAnswered(w)
    BY <1>8, SettlePool DEF PostAnswered, Deciding
  <1>9. CASE SubmitOrder(w)
    <2>1. Deciding(w) /\ UNCHANGED <<arrived, ticket, queue, lock>> /\ Step(w, "ordering")
      BY <1>9 DEF SubmitOrder, Deciding
    <2> QED BY <2>1, StepsPool
  <1>10. CASE OrderAnswered(w)
    BY <1>10, SettlePool DEF OrderAnswered, Deciding
  <1>11. CASE Abort(w)
    BY <1>11, SettlePool DEF Abort, Deciding
  <1> QED BY <1>1, <1>2, <1>3, <1>4, <1>5, <1>6, <1>7, <1>8, <1>9, <1>10, <1>11 DEF Process

(* What the pool holds does not depend on anything else. *)
LEMMA SamePool ==
  ASSUME PoolInv, UNCHANGED poolVars
  PROVE  PoolInv'
  BY DEF PoolInv, PoolOK, TicketInv, LockInv, poolVars, Active, Deciding, LockHeldBy

LEMMA PoolStep ==
  ASSUME ServiceOK, PoolInv, [Next]_vars
  PROVE  PoolInv'
  <1>1. ASSUME NEW key \in SignalKeys, SignalTrigger(key) PROVE PoolInv'
    BY <1>1, EnqueuePool DEF SignalTrigger
  <1>2. CASE FireDailyTimer
    <2>1. DailyKey[Day] \in Keys /\ DailyKey[Day] \notin SignalKeys
      BY DayType, KeysAssumption DEF ServiceOK
    <2> QED BY <1>2, <2>1, EnqueuePool DEF FireDailyTimer
  <1>3. ASSUME NEW w \in Workers, Process(w) PROVE PoolInv'
    BY <1>3, ProcessPool
  <1>4. ASSUME NEW t \in Tickets, Handler(t) PROVE PoolInv'
    BY <1>4, SamePool DEF Handler, LookupDecision, InsertDecision
  <1>5. CASE Advance \/ CancelContext \/ Stop \/ Start \/ UNCHANGED vars
    BY <1>5, SamePool DEF Advance, CancelContext, Stop, Start, vars
  <1>6. CASE Exit \/ Crash \/ TimerPanics
    BY <1>6, EndPool DEF Exit, Crash, TimerPanics
  <1> QED BY <1>1, <1>2, <1>3, <1>4, <1>5, <1>6 DEF Next

LEMMA ServiceStep ==
  ASSUME ServiceOK, [Next]_vars
  PROVE  ServiceOK'
  <1> USE SizesAssumption DEF clockVars, phaseVars, ServiceOK
  <1>1. CASE Advance
    BY <1>1 DEF Advance
  <1>2. CASE FireDailyTimer
    BY <1>2, NextDueType, FaultCount DEF FireDailyTimer, TimerRings
  <1>3. CASE Start
    BY <1>3, NextDueType DEF Start
  <1>4. CASE CancelContext \/ Stop
    BY <1>4 DEF CancelContext, Stop
  <1>5. CASE Exit \/ Crash \/ TimerPanics
    BY <1>5, FaultCount DEF Exit, Crash, TimerPanics, ProcessEnds
  <1>6. ASSUME NEW key \in SignalKeys, SignalTrigger(key) PROVE ServiceOK'
    BY <1>6 DEF SignalTrigger
  <1>7. ASSUME NEW t \in Tickets, Handler(t) PROVE ServiceOK'
    BY <1>7, FaultCount DEF Handler, LookupDecision, InsertDecision
  <1>8. ASSUME NEW w \in Workers, Process(w) PROVE ServiceOK'
    <2>1. UNCHANGED <<now, due, phase, starts>>
      BY <1>8 DEF Process, Take, Return, Acquire, CheckCap, ToolTurn, Decide, DecideFails,
                  PostAnswered, SubmitOrder, OrderAnswered, Abort
    <2>2. NoFault \/ Fault("cost")
      BY <1>8 DEF Process, Take, Return, Acquire, CheckCap, ToolTurn, Decide, DecideFails,
                  PostAnswered, SubmitOrder, OrderAnswered, Abort, NoFault
    <2> QED BY <2>1, <2>2, FaultCount
  <1>9. CASE UNCHANGED vars
    BY <1>9 DEF vars
  <1> QED BY <1>1, <1>2, <1>3, <1>4, <1>5, <1>6, <1>7, <1>8, <1>9 DEF Next
----------------------------------------------------------------------------
(* What is posted, stored and ordered.                                     *)

StoreOK == post \in [Tickets -> PostRecord] /\ decisions \in [Keys -> DecisionRow]

(* The triggers that have not been posted yet. *)
Unsent == {t \in Tickets :
             \/ ticket[t].state = "queued"
             \/ \E w \in Workers : worker[w].t = t /\ worker[w].pc \in {"lock", "check", "decide"}}

(* What is known of the POST of a trigger and of its row. *)
PostAgrees(t) ==
    LET key == ticket[t].key
    IN  key \in SignalKeys =>
            /\ t \in Unsent => post[t].pc = "none" /\ ~Stored(key)
            /\ post[t].pc \in {"lookup", "insert"} => ~Stored(key)
            /\ post[t].pc = "ok" => Stored(key) /\ decisions[key].verdict = post[t].verdict

PostInv ==
    /\ \A t \in Tickets : IF post[t].pc = "none" THEN post[t] = NoPost
                          ELSE post[t].verdict \in Verdicts \cup {Synthetic}
    /\ \A t \in Tickets : t > arrived => post[t] = NoPost
    /\ \A k \in SignalKeys : Stored(k) => \E t \in Tickets : ticket[t].key = k
    /\ \A t \in Tickets : PostAgrees(t)
    /\ \A w \in Workers : worker[w].pc = "ordering" =>
          /\ post[worker[w].t].pc = "ok"
          /\ WantsOrder(ticket[worker[w].t].key, post[worker[w].t].verdict)

OrderedInv == ordered \in [SignalKeys -> Orders \cup {None}] /\ OrdersFollowStoredDecisions

StoreInv == StoreOK /\ PostInv

LEMMA SyntheticType == Synthetic \in Verdict /\ Synthetic # None
  <1>1. Synthetic \in Verdict
    BY DEF Synthetic, Verdict
  <1> QED BY <1>1, VerdictsAssumption

(* An order that is wanted is an order. *)
LEMMA OrderType ==
  ASSUME NEW key, NEW v \in Verdicts \cup {Synthetic}, WantsOrder(key, v)
  PROVE  key \in SignalKeys /\ v.sure /\ OrderOf(key, v) \in Orders
  <1>1. key \in SignalKeys /\ v.sure /\ v.action # "ignore"
    BY DEF WantsOrder
  <1>2. v \in Verdicts /\ v \in Verdict
    BY <1>1, VerdictsAssumption DEF Synthetic
  <1>3. v.action \in {"buy", "sell"} /\ Notional(v) \in Notionals
    BY <1>1, <1>2 DEF Verdict, Notional, Notionals
  <1>4. SymbolOf[key] \in Symbols
    BY <1>1, KeysAssumption
  <1> QED BY <1>1, <1>3, <1>4 DEF OrderOf, Orders

(* A row that is there stays. *)
LEMMA RowsStay ==
  ASSUME StoreOK, [Next]_vars
  PROVE  \A k \in Keys : Stored(k) => decisions'[k] = decisions[k]
  <1> USE DEF storeVars, clockVars, phaseVars, poolVars
  <1>1. CASE UNCHANGED decisions
    BY <1>1
  <1>2. ASSUME NEW t \in Tickets, InsertRow(t) PROVE \A k \in Keys : Stored(k) => decisions'[k] = decisions[k]
    BY <1>2 DEF InsertRow, StoreOK
  <1>3. UNCHANGED decisions \/ \E t \in Tickets : InsertRow(t)
    <2>1. ASSUME NEW w \in Workers, Process(w) PROVE UNCHANGED decisions
      BY <2>1 DEF Process, Take, Return, Acquire, CheckCap, ToolTurn, Decide, DecideFails,
                  SendPost, PostAnswered, SubmitOrder, OrderAnswered, Abort
    <2>2. ASSUME NEW t \in Tickets, Handler(t) PROVE UNCHANGED decisions \/ InsertRow(t)
      BY <2>2 DEF Handler, LookupDecision, InsertDecision
    <2> QED BY <2>1, <2>2 DEF Next, SignalTrigger, FireDailyTimer, Advance, CancelContext,
                              Stop, Exit, Crash, TimerPanics, ProcessEnds, Start, vars
  <1> QED BY <1>1, <1>2, <1>3

(* A step that neither posts nor stores anything. *)
LEMMA QuietStore ==
  ASSUME StoreInv, UNCHANGED <<arrived, decisions>>,
         Unsent' \subseteq Unsent,
         \A u \in Tickets : ticket'[u].key = ticket[u].key /\ post'[u] \in {post[u], NoPost},
         post' \in [Tickets -> PostRecord],
         \A v \in Workers : worker'[v].pc = "ordering" =>
            /\ post'[worker'[v].t].pc = "ok"
            /\ WantsOrder(ticket'[worker'[v].t].key, post'[worker'[v].t].verdict)
  PROVE  StoreInv'
  <1>1. \A k : Stored(k)' = Stored(k)
    BY DEF Stored
  <1>2. ASSUME NEW t \in Tickets PROVE PostAgrees(t)'
    <2>1. ticket'[t].key = ticket[t].key /\ post'[t] \in {post[t], NoPost}
      OBVIOUS
    <2>3. PostAgrees(t)
      BY DEF StoreInv, PostInv
    <2>4. NoPost.pc = "none"
      BY DEF NoPost
    <2> QED BY <1>1, <2>1, <2>3, <2>4 DEF PostAgrees
  <1>3. StoreOK'
    BY DEF StoreInv, StoreOK
  <1>4. \A t \in Tickets : IF post'[t].pc = "none" THEN post'[t] = NoPost
                          ELSE post'[t].verdict \in Verdicts \cup {Synthetic}
    BY DEF StoreInv, PostInv, NoPost
  <1>5. \A t \in Tickets : t > arrived' => post'[t] = NoPost
    BY DEF StoreInv, PostInv
  <1>6. \A k \in SignalKeys : Stored(k)' => \E t \in Tickets : ticket'[t].key = k
    BY <1>1 DEF StoreInv, PostInv
  <1> QED BY <1>2, <1>3, <1>4, <1>5, <1>6 DEF StoreInv, PostInv

(* What Settle does to the triggers of others. *)
LEMMA SettleStore ==
  ASSUME PoolInv, NEW w \in Workers, Deciding(w), NEW state \in {"over", "gone"},
         Settle(w, state)
  PROVE  /\ UNCHANGED arrived
         /\ Unsent' \subseteq Unsent
         /\ \A u \in Tickets : ticket'[u].key = ticket[u].key
         /\ \A v \in Workers : worker'[v].pc = "ordering" =>
               worker'[v] = worker[v] /\ worker[v].t # worker[w].t /\ worker[v].t \in Tickets
  <1>1. /\ ticket \in [Tickets -> TicketRecord] /\ worker \in [Workers -> WorkerRecord]
        /\ ticket' = [ticket EXCEPT ![worker[w].t].state = state]
        /\ worker' = [worker EXCEPT ![w] = Resting] /\ UNCHANGED arrived
    BY DEF PoolInv, PoolOK, Settle, MarkTicket
  <1>2. Resting.pc = "idle"
    BY DEF Resting
  <1>3. \A u \in Tickets : /\ ticket'[u].key = ticket[u].key
                           /\ ticket'[u].state = "queued" => ticket[u].state = "queued"
    BY <1>1 DEF TicketRecord
  <1>4. \A v \in Workers : worker'[v].pc # "idle" => worker'[v] = worker[v] /\ v # w
    BY <1>1, <1>2
  <1>5. Unsent' \subseteq Unsent
    <2> SUFFICES ASSUME NEW u \in Unsent' PROVE u \in Unsent
      OBVIOUS
    <2>1. u \in Tickets
      BY DEF Unsent
    <2>2. CASE ticket'[u].state = "queued"
      <3>1. ticket[u].state = "queued"
        BY <1>3, <2>1, <2>2
      <3> QED BY <2>1, <3>1 DEF Unsent
    <2>3. CASE ticket'[u].state # "queued"
      <3>1. PICK v \in Workers : worker'[v].t = u /\ worker'[v].pc \in {"lock", "check", "decide"}
        BY <2>3 DEF Unsent
      <3>2. worker[v].t = u /\ worker[v].pc \in {"lock", "check", "decide"}
        BY <1>4, <3>1
      <3> QED BY <2>1, <3>2 DEF Unsent
    <2> QED BY <2>2, <2>3
  <1>6. \A v \in Workers : worker'[v].pc = "ordering" =>
               worker'[v] = worker[v] /\ worker[v].t # worker[w].t /\ worker[v].t \in Tickets
    BY <1>4 DEF PoolInv, TicketInv, Active, Deciding
  <1> QED BY <1>1, <1>3, <1>5, <1>6

LEMMA SendStore ==
  ASSUME PoolInv, StoreInv, NEW w \in Workers, worker[w].pc \in {"check", "decide"},
         NEW verdict \in Verdicts \cup {Synthetic}, NEW cents \in Nat,
         SendPost(w, verdict, cents), UNCHANGED <<arrived, ticket>>
  PROVE  StoreInv'
  <1> DEFINE t == worker[w].t
             new == [pc |-> "lookup", verdict |-> verdict, cents |-> cents,
                     checked |-> worker[w].checked]
  <1>1. t \in Tickets /\ t <= arrived /\ ticket[t].state = "taken"
    BY HeldKey DEF Active
  <1>2. worker \in [Workers -> WorkerRecord] /\ post \in [Tickets -> PostRecord]
    BY DEF PoolInv, PoolOK, StoreInv, StoreOK
  <1>3. /\ post' = [post EXCEPT ![t] = new] /\ UNCHANGED decisions
        /\ worker' = [worker EXCEPT ![w].pc = "posting"]
    BY DEF SendPost, Step
  <1>4. verdict \in Verdict
    BY VerdictsAssumption, SyntheticType
  <1>5. new \in PostRecord
    BY <1>2, <1>4 DEF PostRecord, WorkerRecord
  <1>6. t \in Unsent
    BY <1>1 DEF Unsent
  <1>7. \A v \in Workers : v # w => worker'[v] = worker[v] /\ (Active(v) => worker[v].t # t)
    BY <1>2, <1>3 DEF PoolInv, TicketInv, Active
  <1>8. worker'[w].pc = "posting"
    BY <1>2, <1>3 DEF WorkerRecord
  <1>9. ASSUME NEW u \in Unsent' PROVE u \in Unsent /\ u # t
    <2>1. u \in Tickets
      BY DEF Unsent
    <2>2. CASE ticket[u].state = "queued"
      BY <1>1, <2>1, <2>2 DEF Unsent
    <2>3. CASE ticket[u].state # "queued"
      <3>1. PICK v \in Workers : worker'[v].t = u /\ worker'[v].pc \in {"lock", "check", "decide"}
        BY <2>3 DEF Unsent
      <3>2. v # w /\ worker[v].t = u /\ worker[v].pc \in {"lock", "check", "decide"}
        BY <1>7, <1>8, <3>1
      <3> QED BY <1>7, <2>1, <3>2 DEF Unsent, Active
    <2> QED BY <2>2, <2>3
  <1> HIDE DEF new, t
  <1>10. post'[t] = new /\ \A u \in Tickets : u # t => post'[u] = post[u]
    BY <1>1, <1>2, <1>3
  <1>11. StoreOK'
    BY <1>2, <1>3, <1>5 DEF StoreInv, StoreOK
  <1>12. new.pc = "lookup" /\ new.verdict = verdict
    BY DEF new
  <1>13. \A k : Stored(k)' = Stored(k)
    BY <1>3 DEF Stored
  <1>14. ASSUME NEW u \in Tickets PROVE PostAgrees(u)'
    <2>1. PostAgrees(u)
      BY DEF StoreInv, PostInv
    <2>2. CASE u = t
      BY <1>3, <1>6, <1>9, <1>10, <1>12, <1>13, <2>1, <2>2 DEF PostAgrees
    <2>3. CASE u # t
      BY <1>3, <1>9, <1>10, <1>13, <2>1, <2>3 DEF PostAgrees
    <2> QED BY <2>2, <2>3
  <1>15. \A u \in Tickets : IF post'[u].pc = "none" THEN post'[u] = NoPost
                           ELSE post'[u].verdict \in Verdicts \cup {Synthetic}
    BY <1>10, <1>12 DEF StoreInv, PostInv
  <1>16. \A u \in Tickets : u > arrived' => post'[u] = NoPost
    BY <1>1, <1>10, SizesAssumption DEF StoreInv, PostInv, PoolInv, PoolOK
  <1>17. \A k \in SignalKeys : Stored(k)' => \E u \in Tickets : ticket'[u].key = k
    BY <1>13 DEF StoreInv, PostInv
  <1>18. \A v \in Workers : worker'[v].pc = "ordering" =>
          /\ post'[worker'[v].t].pc = "ok"
          /\ WantsOrder(ticket'[worker'[v].t].key, post'[worker'[v].t].verdict)
    <2> SUFFICES ASSUME NEW v \in Workers, worker'[v].pc = "ordering"
                 PROVE  /\ post'[worker'[v].t].pc = "ok"
                        /\ WantsOrder(ticket'[worker'[v].t].key, post'[worker'[v].t].verdict)
      OBVIOUS
    <2>1. v # w /\ worker'[v] = worker[v] /\ Active(v)
      BY <1>7, <1>8 DEF Active
    <2>2. worker[v].t # t /\ worker[v].t \in Tickets
      BY <1>7, <2>1 DEF PoolInv, TicketInv
    <2> QED BY <1>10, <2>1, <2>2 DEF StoreInv, PostInv
  <1> QED BY <1>11, <1>14, <1>15, <1>16, <1>17, <1>18 DEF StoreInv, PostInv

LEMMA EnqueueStore ==
  ASSUME PoolInv, StoreInv, NEW key \in Keys, Enqueue(key), UNCHANGED storeVars,
         key \in SignalKeys => \A t \in Tickets : ticket[t].key # key
  PROVE  StoreInv'
  <1> DEFINE t == arrived + 1
             new == [key |-> key, day |-> Day, state |-> IF Len(queue) < Capacity THEN "queued" ELSE "over"]
  <1>1. t \in Tickets /\ arrived' = t /\ arrived \in Nat
    BY SizesAssumption DEF PoolInv, PoolOK, Enqueue
  <1>2. ticket' = [ticket EXCEPT ![t] = new] /\ UNCHANGED <<worker, post, decisions>>
    BY DEF Enqueue, storeVars
  <1>3. new.key = key
    OBVIOUS
  <1> HIDE DEF t, new
  <1>4. ticket'[t] = new /\ \A u \in Tickets : u # t => ticket'[u] = ticket[u]
    BY <1>1, <1>2 DEF PoolInv, PoolOK
  <1>5. post[t] = NoPost /\ ticket[t] = NoTicket
    BY <1>1 DEF StoreInv, PostInv, PoolInv, TicketInv, t
  <1>6. \A k : Stored(k)' = Stored(k)
    BY <1>2 DEF Stored
  <1>7. \A u \in Unsent' : u = t \/ u \in Unsent
    BY <1>2, <1>4 DEF Unsent
  <1>8. ASSUME NEW u \in Tickets PROVE PostAgrees(u)'
    <2>1. PostAgrees(u)
      BY DEF StoreInv, PostInv
    <2>2. CASE u = t
      <3>1. post[t].pc = "none"
        BY <1>5 DEF NoPost
      <3>2. key \in SignalKeys => ~Stored(key)
        BY DEF StoreInv, PostInv
      <3> QED BY <1>2, <1>3, <1>4, <1>6, <2>2, <3>1, <3>2 DEF PostAgrees
    <2>3. CASE u # t
      BY <1>2, <1>4, <1>6, <1>7, <2>1, <2>3 DEF PostAgrees
    <2> QED BY <2>2, <2>3
  <1>9. \A u \in Tickets : u > arrived' => post'[u] = NoPost
    BY <1>1, <1>2 DEF StoreInv, PostInv, t
  <1>10. \A k \in SignalKeys : Stored(k)' => \E u \in Tickets : ticket'[u].key = k
    <2> SUFFICES ASSUME NEW k \in SignalKeys, Stored(k) PROVE \E u \in Tickets : ticket'[u].key = k
      BY <1>6
    <2>1. PICK u \in Tickets : ticket[u].key = k
      BY DEF StoreInv, PostInv
    <2>2. u # t
      BY <1>5, <2>1, KeysAssumption DEF NoTicket
    <2> QED BY <1>4, <2>1, <2>2
  <1>11. \A v \in Workers : worker'[v].pc = "ordering" =>
          /\ post'[worker'[v].t].pc = "ok"
          /\ WantsOrder(ticket'[worker'[v].t].key, post'[worker'[v].t].verdict)
    <2> SUFFICES ASSUME NEW v \in Workers, worker[v].pc = "ordering"
                 PROVE  /\ post[worker[v].t].pc = "ok"
                        /\ WantsOrder(ticket'[worker[v].t].key, post[worker[v].t].verdict)
      BY <1>2
    <2>1. worker[v].t \in Tickets /\ worker[v].t <= arrived
      BY HeldKey DEF Active
    <2>2. ticket'[worker[v].t] = ticket[worker[v].t]
      BY <1>1, <1>4, <2>1 DEF t
    <2> QED BY <2>2 DEF StoreInv, PostInv
  <1>12. StoreOK'
    BY <1>2 DEF StoreInv, StoreOK
  <1>13. \A u \in Tickets : IF post'[u].pc = "none" THEN post'[u] = NoPost
                           ELSE post'[u].verdict \in Verdicts \cup {Synthetic}
    BY <1>2 DEF StoreInv, PostInv
  <1> QED BY <1>8, <1>9, <1>10, <1>11, <1>12, <1>13 DEF StoreInv, PostInv

(* The handler of a trigger's POST moves on to new, with or without its row. *)
LEMMA HandlerStore ==
  ASSUME PoolInv, StoreInv, NEW t \in Tickets, UNCHANGED poolVars,
         post[t].pc \in {"lookup", "insert"}, NEW new \in PostRecord,
         post' = [post EXCEPT ![t] = new], new = NoPost \/ new.verdict = post[t].verdict,
         new # NoPost => new.pc \in {"insert", "ok", "failed"},
         UNCHANGED decisions \/ InsertRow(t),
         ticket[t].key \in SignalKeys =>
            /\ new.pc = "ok" => InsertRow(t)
            /\ new.pc = "insert" => UNCHANGED decisions
  PROVE  StoreInv'
  <1> DEFINE key == ticket[t].key
  <1>1. post \in [Tickets -> PostRecord] /\ decisions \in [Keys -> DecisionRow]
    BY DEF StoreInv, StoreOK
  <1>2. post'[t] = new /\ \A u \in Tickets : u # t => post'[u] = post[u]
    BY <1>1
  <1>3. UNCHANGED <<arrived, ticket, worker>> /\ Unsent' = Unsent
    BY DEF poolVars, Unsent
  <1>4. t <= arrived /\ key \in Keys /\ ticket[t] \in TicketRecord
    BY DEF StoreInv, PostInv, NoPost, PoolInv, PoolOK, TicketInv
  <1>5. post[t].verdict \in Verdicts \cup {Synthetic} /\ post[t] \in PostRecord
    BY <1>1 DEF StoreInv, PostInv
  <1>6. RowOf(t) \in DecisionRow /\ RowOf(t).verdict = post[t].verdict /\ RowOf(t) # NoRow
    BY <1>4, <1>5 DEF RowOf, NoRow, DecisionRow, PostRecord, TicketRecord
  <1>7. decisions' \in [Keys -> DecisionRow]
    BY <1>1, <1>4, <1>6 DEF InsertRow
  <1>8. \A k \in Keys : k # key => decisions'[k] = decisions[k]
    BY <1>1, <1>4 DEF InsertRow
  <1>9. key \in SignalKeys => ~Stored(key)
    BY DEF StoreInv, PostInv, PostAgrees
  <1>10. key \in SignalKeys /\ InsertRow(t) => decisions'[key] = RowOf(t)
    BY <1>1, <1>4, <1>9 DEF InsertRow
  <1> HIDE DEF key
  <1>11. ASSUME NEW u \in Tickets PROVE PostAgrees(u)'
    <2>1. PostAgrees(u)
      BY DEF StoreInv, PostInv
    <2>2. CASE u = t
      <3> SUFFICES ASSUME key \in SignalKeys
                   PROVE  /\ t \notin Unsent
                          /\ new.pc \in {"lookup", "insert"} => UNCHANGED decisions
                          /\ new.pc = "ok" => decisions'[key] # NoRow /\ decisions'[key].verdict = new.verdict
        BY <1>2, <1>3, <1>9, <2>2 DEF PostAgrees, key, Stored
      <3>1. t \notin Unsent
        BY <2>1, <2>2 DEF PostAgrees, key
      <3>2. NoPost.pc = "none"
        BY DEF NoPost
      <3> QED BY <1>6, <1>10, <3>1, <3>2 DEF key
    <2>3. CASE u # t
      <3>1. ticket[u].key \in SignalKeys => ticket[u].key # key
        BY <2>3 DEF PoolInv, TicketInv, key
      <3>2. ticket[u].key \in SignalKeys =>
              /\ decisions'[ticket[u].key] = decisions[ticket[u].key]
              /\ Stored(ticket[u].key)' = Stored(ticket[u].key)
        BY <1>3, <1>8, <3>1 DEF Stored
      <3> QED BY <1>2, <1>3, <2>1, <2>3, <3>2 DEF PostAgrees
    <2> QED BY <2>2, <2>3
  <1>12. \A u \in Tickets : IF post'[u].pc = "none" THEN post'[u] = NoPost
                           ELSE post'[u].verdict \in Verdicts \cup {Synthetic}
    BY <1>2, <1>5 DEF StoreInv, PostInv, NoPost
  <1>13. \A u \in Tickets : u > arrived' => post'[u] = NoPost
    BY <1>2, <1>3, <1>4, SizesAssumption DEF StoreInv, PostInv, PoolInv, PoolOK
  <1>14. \A k \in SignalKeys : Stored(k)' => \E u \in Tickets : ticket'[u].key = k
    <2> SUFFICES ASSUME NEW k \in SignalKeys, Stored(k)' PROVE \E u \in Tickets : ticket[u].key = k
      BY <1>3
    <2>1. CASE k = key
      BY <2>1 DEF key
    <2>2. CASE k # key
      BY <1>8, <2>2 DEF StoreInv, PostInv, Stored
    <2> QED BY <2>1, <2>2
  <1>15. \A v \in Workers : worker'[v].pc = "ordering" =>
          /\ post'[worker'[v].t].pc = "ok"
          /\ WantsOrder(ticket'[worker'[v].t].key, post'[worker'[v].t].verdict)
    <2> SUFFICES ASSUME NEW v \in Workers, worker[v].pc = "ordering"
                 PROVE  /\ post'[worker[v].t].pc = "ok"
                        /\ WantsOrder(ticket[worker[v].t].key, post'[worker[v].t].verdict)
      BY <1>3
    <2>1. /\ post[worker[v].t].pc = "ok" /\ worker[v].t \in Tickets
          /\ WantsOrder(ticket[worker[v].t].key, post[worker[v].t].verdict)
      BY HeldKey DEF StoreInv, PostInv, Active
    <2> QED BY <1>2, <2>1
  <1> QED BY <1>7, <1>1, <1>11, <1>12, <1>13, <1>14, <1>15 DEF StoreInv, StoreOK, PostInv

LEMMA ReplyType ==
  ASSUME StoreInv, NEW t \in Tickets, post[t].pc # "none",
         NEW pc \in {"insert", "ok", "failed"}, Reply(t, pc)
  PROVE  \E new \in PostRecord :
            /\ post' = [post EXCEPT ![t] = new]
            /\ new = NoPost \/ (new.pc = pc /\ new.verdict = post[t].verdict)
  <1> DEFINE on == [post[t] EXCEPT !.pc = pc]
  <1>1. post[t] \in PostRecord
    BY DEF StoreInv, StoreOK
  <1>2. on \in PostRecord /\ on.pc = pc /\ on.verdict = post[t].verdict
    BY <1>1 DEF PostRecord
  <1>3. NoPost \in PostRecord
    BY DEF NoPost, PostRecord
  <1>4. post' = [post EXCEPT ![t] = NoPost] \/ post' = [post EXCEPT ![t] = on]
    BY DEF Reply
  <1> HIDE DEF on
  <1>5. CASE post' = [post EXCEPT ![t] = NoPost]
    BY <1>3, <1>5, Zenon
  <1>6. CASE post' = [post EXCEPT ![t] = on]
    BY <1>2, <1>6, Zenon
  <1> QED BY <1>4, <1>5, <1>6

LEMMA HandlersStore ==
  ASSUME PoolInv, StoreInv, NEW t \in Tickets, Handler(t)
  PROVE  StoreInv'
  <1>1. NoPost.pc = "none"
    BY DEF NoPost
  <1>2. CASE LookupDecision(t)
    <2>1. post[t].pc = "lookup" /\ UNCHANGED <<poolVars, decisions>>
      BY <1>2 DEF LookupDecision
    <2>2. ticket[t].key \in SignalKeys => ~Stored(ticket[t].key)
      BY <2>1 DEF StoreInv, PostInv, PostAgrees
    <2>3. PICK pc \in {"insert", "ok", "failed"} :
            Reply(t, pc) /\ (pc = "ok" => ticket[t].key \notin SignalKeys)
      BY <1>2, <2>2 DEF LookupDecision
    <2>4. PICK new \in PostRecord : /\ post' = [post EXCEPT ![t] = new]
                                    /\ new = NoPost \/ (new.pc = pc /\ new.verdict = post[t].verdict)
      BY <2>1, <2>3, ReplyType
    <2> QED BY <1>1, <2>1, <2>3, <2>4, HandlerStore
  <1>3. CASE InsertDecision(t)
    <2>1. post[t].pc = "insert" /\ UNCHANGED poolVars /\ (UNCHANGED decisions \/ InsertRow(t))
      BY <1>3 DEF InsertDecision
    <2>2. PICK pc \in {"ok", "failed"} : Reply(t, pc) /\ (pc = "ok" => InsertRow(t))
      BY <1>3 DEF InsertDecision
    <2>3. PICK new \in PostRecord : /\ post' = [post EXCEPT ![t] = new]
                                    /\ new = NoPost \/ (new.pc = pc /\ new.verdict = post[t].verdict)
      BY <2>1, <2>2, ReplyType
    <2> QED BY <1>1, <2>1, <2>2, <2>3, HandlerStore
  <1> QED BY <1>2, <1>3 DEF Handler

(* A worker that goes on without posting, storing or ordering anything. *)
LEMMA GoOnStore ==
  ASSUME PoolInv, StoreInv, NEW w \in Workers, UNCHANGED <<arrived, post, decisions>>,
         NEW new \in WorkerRecord, worker' = [worker EXCEPT ![w] = new],
         \A u \in Tickets : /\ ticket'[u].key = ticket[u].key
                            /\ ticket'[u].state = "queued" => ticket[u].state = "queued",
         new.pc \in {"lock", "check", "decide"} => new.t \in Unsent,
         new.pc = "ordering" => /\ post[new.t].pc = "ok" /\ new.t \in Tickets
                                /\ WantsOrder(ticket[new.t].key, post[new.t].verdict)
  PROVE  StoreInv'
  <1>1. worker \in [Workers -> WorkerRecord]
    BY DEF PoolInv, PoolOK
  <1>2. worker'[w] = new /\ \A v \in Workers : v # w => worker'[v] = worker[v]
    BY <1>1
  <1>3. Unsent' \subseteq Unsent
    <2> SUFFICES ASSUME NEW u \in Unsent' PROVE u \in Unsent
      OBVIOUS
    <2>1. u \in Tickets
      BY DEF Unsent
    <2>2. CASE ticket'[u].state = "queued"
      <3>1. ticket[u].state = "queued"
        BY <2>1, <2>2
      <3> QED BY <2>1, <3>1 DEF Unsent
    <2>3. CASE ticket'[u].state # "queued"
      <3>1. PICK v \in Workers : worker'[v].t = u /\ worker'[v].pc \in {"lock", "check", "decide"}
        BY <2>3 DEF Unsent
      <3>2. CASE v = w
        BY <1>2, <3>1, <3>2
      <3>3. CASE v # w
        <4>1. worker[v].t = u /\ worker[v].pc \in {"lock", "check", "decide"}
          BY <1>2, <3>1, <3>3
        <4> QED BY <2>1, <4>1 DEF Unsent
      <3> QED BY <3>2, <3>3
    <2> QED BY <2>2, <2>3
  <1>4. ASSUME NEW v \in Workers, worker'[v].pc = "ordering"
        PROVE  /\ post[worker'[v].t].pc = "ok"
               /\ WantsOrder(ticket'[worker'[v].t].key, post[worker'[v].t].verdict)
    <2>1. CASE v = w
      BY <1>2, <1>4, <2>1
    <2>2. CASE v # w
      <3>1. worker'[v] = worker[v] /\ Active(v)
        BY <1>2, <1>4, <2>2 DEF Active
      <3>2. worker[v].t \in Tickets
        BY <3>1, HeldKey
      <3> QED BY <1>4, <3>1, <3>2 DEF StoreInv, PostInv
    <2> QED BY <2>1, <2>2
  <1>5. post \in [Tickets -> PostRecord]
    BY DEF StoreInv, StoreOK
  <1> QED BY <1>3, <1>4, <1>5, QuietStore

(* The trigger is over, and so is its POST, or it is left to its handler. *)
LEMMA SettledStore ==
  ASSUME PoolInv, StoreInv, NEW w \in Workers, Deciding(w), NEW state \in {"over", "gone"},
         Settle(w, state), UNCHANGED decisions,
         UNCHANGED post \/ post' = [post EXCEPT ![worker[w].t] = NoPost]
  PROVE  StoreInv'
  <1>1. post \in [Tickets -> PostRecord] /\ NoPost \in PostRecord
    BY DEF StoreInv, StoreOK, NoPost, PostRecord
  <1>2. /\ post' \in [Tickets -> PostRecord]
        /\ \A u \in Tickets : post'[u] \in {post[u], NoPost} /\ (u # worker[w].t => post'[u] = post[u])
    BY <1>1
  <1>3. /\ UNCHANGED arrived /\ Unsent' \subseteq Unsent
        /\ \A u \in Tickets : ticket'[u].key = ticket[u].key
        /\ \A v \in Workers : worker'[v].pc = "ordering" =>
              worker'[v] = worker[v] /\ worker[v].t # worker[w].t /\ worker[v].t \in Tickets
    BY SettleStore
  <1>4. ASSUME NEW v \in Workers, worker'[v].pc = "ordering"
        PROVE  /\ post'[worker'[v].t].pc = "ok"
               /\ WantsOrder(ticket'[worker'[v].t].key, post'[worker'[v].t].verdict)
    <2>1. worker'[v] = worker[v] /\ worker[v].t # worker[w].t /\ worker[v].t \in Tickets
      BY <1>3, <1>4
    <2> QED BY <1>2, <1>3, <1>4, <2>1 DEF StoreInv, PostInv
  <1> QED BY <1>2, <1>3, <1>4, QuietStore

LEMMA StepsStore ==
  ASSUME PoolInv, StoreInv, NEW w \in Workers, UNCHANGED <<arrived, ticket, post, decisions>>,
         NEW pc \in {"lock", "check", "decide", "ordering", "returned"},
         Step(w, pc),
         pc \in {"lock", "check", "decide"} => worker[w].pc \in {"lock", "check", "decide"},
         pc = "ordering" => /\ worker[w].pc = "posting" /\ post[worker[w].t].pc = "ok"
                            /\ WantsOrder(ticket[worker[w].t].key, post[worker[w].t].verdict)
  PROVE  StoreInv'
  <1> DEFINE new == [worker[w] EXCEPT !.pc = pc]
  <1>1. worker[w] \in WorkerRecord
    BY DEF PoolInv, PoolOK
  <1>2. new \in WorkerRecord /\ new.t = worker[w].t /\ new.pc = pc
    BY <1>1 DEF WorkerRecord
  <1>3. worker' = [worker EXCEPT ![w] = new]
    BY DEF Step
  <1> HIDE DEF new
  <1>4. pc \notin {"returned"} => worker[w].t \in Tickets
    BY HeldKey DEF Active
  <1>5. pc \in {"lock", "check", "decide"} => new.t \in Unsent
    BY <1>2, <1>4 DEF Unsent
  <1> QED BY <1>2, <1>3, <1>4, <1>5, GoOnStore

LEMMA ProcessStore ==
  ASSUME ServiceOK, PoolInv, StoreInv, NEW w \in Workers, Process(w)
  PROVE  StoreInv'
  <1> USE DEF storeVars
  <1>1. worker \in [Workers -> WorkerRecord] /\ worker[w] \in WorkerRecord
    BY DEF PoolInv, PoolOK
  <1>2. CASE Take(w)
    <2> DEFINE t == Head(queue)
               new == [Resting EXCEPT !.pc = "lock", !.t = t]
    <2>1. t = queue[1] /\ 1 \in 1..Len(queue)
      BY <1>2, QueueFacts, EmptySeq DEF Take
    <2>2. t \in Tickets /\ ticket[t].state = "queued"
      BY <2>1, QueueFacts
    <2>3. /\ UNCHANGED <<arrived, post, decisions>> /\ worker' = [worker EXCEPT ![w] = new]
          /\ ticket' = [ticket EXCEPT ![t].state = "taken"]
      BY <1>2 DEF Take, MarkTicket
    <2>4. Resting \in WorkerRecord
      BY SizesAssumption DEF Resting, WorkerRecord
    <2>5. new \in WorkerRecord /\ new.pc = "lock" /\ new.t = t
      BY <2>2, <2>4 DEF WorkerRecord
    <2> HIDE DEF new, t
    <2>6. \A u \in Tickets : /\ ticket'[u].key = ticket[u].key
                             /\ ticket'[u].state = "queued" => ticket[u].state = "queued"
      BY <2>2, <2>3 DEF PoolInv, PoolOK, TicketRecord
    <2>7. t \in Unsent
      BY <2>2 DEF Unsent
    <2> QED BY <2>3, <2>5, <2>6, <2>7, GoOnStore
  <1>3. CASE Return(w)
    BY <1>3, StepsStore DEF Return
  <1>4. CASE Acquire(w)
    BY <1>4, StepsStore DEF Acquire
  <1>5. CASE CheckCap(w)
    <2>1. worker[w].pc = "check" /\ UNCHANGED <<arrived, ticket>>
      BY <1>5 DEF CheckCap
    <2>2. CASE SendPost(w, Synthetic, 0)
      BY <2>1, <2>2, SendStore
    <2>3. CASE Step(w, "decide") /\ UNCHANGED <<post, decisions>>
      BY <2>1, <2>3, StepsStore
    <2>4. CASE worker' = [worker EXCEPT ![w].pc = "decide", ![w].checked = Day] /\ UNCHANGED <<post, decisions>>
      <3> DEFINE new == [worker[w] EXCEPT !.pc = "decide", !.checked = Day]
      <3>1. new \in WorkerRecord /\ new.t = worker[w].t /\ new.pc = "decide"
        BY <1>1, DayType DEF ServiceOK, WorkerRecord
      <3>2. worker' = [worker EXCEPT ![w] = new]
        BY <2>4
      <3> HIDE DEF new
      <3>3. worker[w].t \in Unsent
        BY <2>1, HeldKey DEF Active, Unsent
      <3> QED BY <2>1, <2>4, <3>1, <3>2, <3>3, GoOnStore
    <2> QED BY <1>5, <2>2, <2>3, <2>4 DEF CheckCap
  <1>6. CASE ToolTurn(w)
    <2>1. worker[w].pc = "decide" /\ UNCHANGED <<post, decisions>>
      BY <1>6 DEF ToolTurn
    <2>2. CASE worker[w].turn + 1 < MaxTurns
      <3> DEFINE new == [worker[w] EXCEPT !.turn = @ + 1]
      <3>1. new \in WorkerRecord /\ new.t = worker[w].t /\ new.pc = "decide"
        BY <1>1, <2>1, <2>2, SizesAssumption DEF WorkerRecord
      <3>2. worker' = [worker EXCEPT ![w] = new] /\ UNCHANGED <<arrived, ticket>>
        BY <1>6, <2>2 DEF ToolTurn
      <3> HIDE DEF new
      <3>3. worker[w].t \in Unsent
        BY <2>1, HeldKey DEF Active, Unsent
      <3> QED BY <2>1, <3>1, <3>2, <3>3, GoOnStore
    <2>3. CASE ~(worker[w].turn + 1 < MaxTurns)
      BY <1>6, <2>3, SettledStore DEF ToolTurn, Deciding
    <2> QED BY <2>2, <2>3
  <1>7. ASSUME NEW v \in Verdicts, Decide(w, v) PROVE StoreInv'
    <2>1. PICK turns \in {1, 2} : SendPost(w, v, CostCents(w, turns))
      BY <1>7 DEF Decide
    <2>2. CostCents(w, turns) \in Nat
      BY CostType DEF PoolInv
    <2> QED BY <1>7, <2>1, <2>2, SendStore DEF Decide
  <1>8. CASE DecideFails(w)
    BY <1>8, SettledStore DEF DecideFails, Deciding
  <1>9. CASE PostAnswered(w)
    BY <1>9, SettledStore DEF PostAnswered, Deciding
  <1>10. CASE SubmitOrder(w)
    BY <1>10, StepsStore DEF SubmitOrder, Posted
  <1>11. CASE OrderAnswered(w)
    BY <1>11, SettledStore DEF OrderAnswered, Deciding
  <1>12. CASE Abort(w)
    BY <1>12, SettledStore DEF Abort, Deciding
  <1> QED BY <1>2, <1>3, <1>4, <1>5, <1>6, <1>7, <1>8, <1>9, <1>10, <1>11, <1>12 DEF Process

(* When the process has ended no trigger waits any more. *)
LEMMA EndStore ==
  ASSUME PoolInv, StoreInv, ProcessEnds
  PROVE  StoreInv'
  <1>1. /\ ticket \in [Tickets -> TicketRecord] /\ worker' = [w \in Workers |-> Resting]
        /\ UNCHANGED <<arrived, post, decisions>> /\ Resting.pc = "idle"
    BY DEF PoolInv, PoolOK, ProcessEnds, storeVars, Resting
  <1>2. ASSUME NEW t \in Tickets PROVE ticket'[t].key = ticket[t].key /\ ticket'[t].state # "queued"
    <2>1. ticket[t] \in TicketRecord
      BY <1>1
    <2>2. ticket'[t] = CASE ticket[t].state = "queued" -> [ticket[t] EXCEPT !.state = "over"]
                         [] ticket[t].state = "taken"  -> [ticket[t] EXCEPT !.state = "gone"]
                         [] OTHER -> ticket[t]
      BY DEF ProcessEnds
    <2>3. CASE ticket[t].state = "queued"
      BY <2>1, <2>2, <2>3 DEF TicketRecord
    <2>4. CASE ticket[t].state = "taken"
      BY <2>1, <2>2, <2>4 DEF TicketRecord
    <2>5. CASE ticket[t].state \notin {"queued", "taken"}
      BY <2>2, <2>5
    <2> QED BY <2>3, <2>4, <2>5
  <1>3. Unsent' = {}
    BY <1>1, <1>2 DEF Unsent
  <1>4. post \in [Tickets -> PostRecord]
    BY DEF StoreInv, StoreOK
  <1> QED BY <1>1, <1>2, <1>3, <1>4, QuietStore

LEMMA StoreStep ==
  ASSUME ServiceOK, PoolInv, StoreInv, [Next]_vars
  PROVE  StoreInv'
  <1>1. ASSUME NEW key \in SignalKeys, SignalTrigger(key) PROVE StoreInv'
    BY <1>1, EnqueueStore DEF SignalTrigger
  <1>2. CASE FireDailyTimer
    <2>1. DailyKey[Day] \in Keys /\ DailyKey[Day] \notin SignalKeys
      BY DayType, KeysAssumption DEF ServiceOK
    <2> QED BY <1>2, <2>1, EnqueueStore DEF FireDailyTimer
  <1>3. ASSUME NEW w \in Workers, Process(w) PROVE StoreInv'
    BY <1>3, ProcessStore
  <1>4. ASSUME NEW t \in Tickets, Handler(t) PROVE StoreInv'
    BY <1>4, HandlersStore
  <1>5. CASE UNCHANGED <<poolVars, storeVars>>
    BY <1>5 DEF poolVars, storeVars, StoreInv, StoreOK, PostInv, PostAgrees, Unsent, Stored
  <1>6. CASE Exit \/ Crash \/ TimerPanics
    BY <1>6, EndStore DEF Exit, Crash, TimerPanics
  <1> QED BY <1>1, <1>2, <1>3, <1>4, <1>5, <1>6
          DEF Next, Advance, CancelContext, Stop, Start, vars, poolVars, storeVars

(* An order is made from what a POST that was answered well has carried.   *)
LEMMA OrderMade ==
  ASSUME PoolInv, StoreInv, OrderedInv, NEW w \in Workers, worker[w].pc = "ordering",
         NEW made \in BOOLEAN, Order(w, made), UNCHANGED decisions
  PROVE  OrderedInv'
  <1> DEFINE t == worker[w].t
             key == ticket[t].key
             v == post[t].verdict
  <1>1. t \in Tickets
    BY HeldKey DEF Active
  <1>2. post[t].pc = "ok" /\ WantsOrder(key, v)
    BY DEF StoreInv, PostInv
  <1>3. v \in Verdicts \cup {Synthetic}
    BY <1>1, <1>2 DEF StoreInv, PostInv
  <1>4. key \in SignalKeys /\ v.sure /\ OrderOf(key, v) \in Orders
    BY <1>2, <1>3, OrderType
  <1>5. PostAgrees(t)
    BY <1>1 DEF StoreInv, PostInv
  <1>6. Stored(key) /\ decisions[key].verdict = v
    BY <1>2, <1>4, <1>5 DEF PostAgrees
  <1>7. ordered' = [ordered EXCEPT ![key] = IF made THEN OrderOf(key, v) ELSE @]
    BY DEF Order
  <1> HIDE DEF t, key, v
  <1>8. ordered' \in [SignalKeys -> Orders \cup {None}]
    BY <1>4, <1>7 DEF OrderedInv
  <1>9. ASSUME NEW k \in SignalKeys, ordered'[k] # None
        PROVE  Stored(k) /\ decisions[k].verdict.sure /\ ordered'[k] = OrderOf(k, decisions[k].verdict)
    <2>1. CASE ordered'[k] = ordered[k]
      BY <1>9, <2>1 DEF OrderedInv, OrdersFollowStoredDecisions
    <2>2. CASE ordered'[k] # ordered[k]
      <3>1. k = key /\ ordered'[k] = OrderOf(key, v)
        BY <1>4, <1>7, <2>2 DEF OrderedInv
      <3> QED BY <1>4, <1>6, <3>1
    <2> QED BY <2>1, <2>2
  <1>10. OrdersFollowStoredDecisions'
    BY <1>9 DEF OrdersFollowStoredDecisions, Stored, OrderOf
  <1> QED BY <1>8, <1>10 DEF OrderedInv

LEMMA OrderedStep ==
  ASSUME PoolInv, StoreInv, OrderedInv, [Next]_vars
  PROVE  OrderedInv'
  <1> USE DEF storeVars
  <1>1. CASE UNCHANGED ordered
    <2>1. \A k \in SignalKeys : Stored(k) => decisions'[k] = decisions[k]
      BY RowsStay DEF StoreInv
    <2>2. ASSUME NEW k \in SignalKeys, ordered[k] # None
          PROVE  /\ decisions'[k] # NoRow /\ decisions'[k].verdict.sure
                 /\ ordered[k] = OrderOf(k, decisions'[k].verdict)
      BY <2>1, <2>2 DEF OrderedInv, OrdersFollowStoredDecisions, Stored
    <2> QED BY <1>1, <2>2 DEF OrderedInv, OrdersFollowStoredDecisions, Stored, OrderOf
  <1>2. ASSUME NEW w \in Workers, Process(w), ordered' # ordered PROVE OrderedInv'
    <2>1. /\ worker[w].pc = "ordering" /\ UNCHANGED decisions
          /\ \E made \in BOOLEAN : Order(w, made)
      BY <1>2 DEF Process, Take, Return, Acquire, CheckCap, ToolTurn, Decide, DecideFails,
                  SendPost, PostAnswered, SubmitOrder, OrderAnswered, Abort
    <2> QED BY <2>1, OrderMade
  <1>3. UNCHANGED ordered \/ \E w \in Workers : Process(w)
    BY DEF Next, SignalTrigger, FireDailyTimer, Handler, LookupDecision, InsertDecision, Advance,
           CancelContext, Stop, Exit, Crash, TimerPanics, ProcessEnds, Start, vars
  <1> QED BY <1>1, <1>2, <1>3
----------------------------------------------------------------------------
Inv == ServiceOK /\ PoolInv /\ StoreInv /\ OrderedInv

LEMMA Initial == Init => Inv
  <1> SUFFICES ASSUME Init PROVE Inv
    OBVIOUS
  <1> USE DEF Init
  <1>1. 0 \in Days /\ NoPost.pc = "none" /\ Resting.pc = "idle" /\ NoTicket.key = None
    BY SizesAssumption DEF Days, NoPost, Resting, NoTicket
  <1>2. ServiceOK
    BY SizesAssumption DEF ServiceOK
  <1>3. PoolOK
    BY <1>1, SizesAssumption DEF PoolOK, TicketRecord, WorkerRecord, NoTicket, Resting
  <1>4. PoolInv
    BY <1>1, <1>3, KeysAssumption DEF PoolInv, TicketInv, LockInv, Active, Deciding
  <1>5. StoreOK
    BY <1>1 DEF StoreOK, PostRecord, DecisionRow, NoPost, NoRow
  <1>6. \A t \in Tickets : PostAgrees(t)
    BY <1>1, KeysAssumption DEF PostAgrees, Stored
  <1>7. StoreInv
    BY <1>1, <1>5, <1>6 DEF StoreInv, PostInv, Stored
  <1>8. OrderedInv
    BY DEF OrderedInv, OrdersFollowStoredDecisions
  <1> QED BY <1>2, <1>4, <1>7, <1>8 DEF Inv

LEMMA Invariance == Spec => []Inv
  <1>1. Inv /\ [Next]_vars => Inv'
    BY ServiceStep, PoolStep, StoreStep, OrderedStep DEF Inv
  <1> QED BY Initial, <1>1, PTL DEF Spec

(* Every variable of the pool, of the handlers and of the table of         *)
(* decisions always holds a value of its kind.                             *)
THEOREM TypeCorrect == Spec => []TypeOK
  <1>1. Inv => TypeOK
    BY DEF Inv, ServiceOK, PoolInv, PoolOK, StoreInv, StoreOK, OrderedInv, TypeOK
  <1> QED BY <1>1, Invariance, PTL

(* However many workers and however they interleave, two of them are never *)
(* at work on triggers of one symbol (mutexFor and the deferred Unlock).   *)
THEOREM OneAtATime == Spec => []OneDecisionPerSymbol
  <1>1. Inv => OneDecisionPerSymbol
    BY DEF Inv, PoolInv, LockInv, OneDecisionPerSymbol
  <1> QED BY <1>1, Invariance, PTL

(* Whatever posts overlap, are retried or are left behind by a client that *)
(* has gone, a stored decision stays as it is (InsertAgentDecision).       *)
THEOREM DecisionsStay == Spec => DecisionsAreFinal
  <1>1. Inv /\ [Next]_vars => [\A k \in Keys : Stored(k) => decisions'[k] = decisions[k]]_vars
    BY RowsStay DEF Inv, StoreInv
  <1> QED BY <1>1, Invariance, PTL DEF Spec, DecisionsAreFinal

(* Every order of the pool is the one that the decision stored under its   *)
(* key asks for, for any failures of the store and any number of restarts. *)
THEOREM OrdersFollow == Spec => []OrdersFollowStoredDecisions
  <1>1. Inv => OrdersFollowStoredDecisions
    BY DEF Inv, OrderedInv
  <1> QED BY <1>1, Invariance, PTL

-----------------------------------------------------------------------------
(* What the cost cap bounds: what is stored for a day and, at MaxCents     *)
(* each, what is between its check and its row.                            *)

(* A worker comes to the check with nothing spent and no sum checked, and  *)
(* to each turn with one left.                                             *)
CallsOK ==
    \A w \in Workers :
        /\ worker[w].pc \in {"lock", "check"} => worker[w].turn = 0 /\ worker[w].checked = None
        /\ worker[w].pc = "decide" => worker[w].turn < MaxTurns

(* A handler's client is waiting for it, or has gone. *)
PostsHeld ==
    \A t \in Tickets : post[t].pc # "none" =>
        \/ t \in Gone
        \/ \E w \in Workers : worker[w].t = t /\ worker[w].pc \in {"posting", "ordering"}

(* No POST carries more than the turns of one trigger can cost.            *)
CentsOK == \A t \in Tickets : post[t].cents <= MaxCents

KeysOK == \A k \in Keys : Stored(k) => \E t \in Tickets : ticket[t].key = k

(* What is between its check against the sum of day d and its row. *)
Deciders(d) == {w \in Workers : worker[w].pc = "decide" /\ worker[w].checked = d}
InFlight(d) == {t \in Tickets : \/ post[t].pc \in {"lookup", "insert"} /\ post[t].checked = d
                                \/ \E w \in Deciders(d) : worker[w].t = t}

FlightInv == CallsOK /\ PostsHeld /\ CentsOK /\ KeysOK

(* The bound, with all that is in flight stored.                           *)
Room == Cap - Estimate + MaxCents * (Cardinality(Workers) + Cardinality(Gone))
LEMMA FiniteFacts ==
  /\ IsFiniteSet(Tickets) /\ IsFiniteSet(Gone) /\ Cardinality(Gone) \in Nat
  /\ Cardinality(Workers) \in Nat /\ IsFiniteSet(Workers) /\ MaxCents \in Nat
  /\ \A S \in SUBSET Tickets : IsFiniteSet(S) /\ Cardinality(S) \in Nat
  <1>1. IsFiniteSet(Tickets)
    <2>1. 1 \in Int /\ MaxTickets \in Int
      BY SizesAssumption
    <2>2. IsFiniteSet(1..MaxTickets)
      BY <2>1, FS_Interval
    <2> QED BY <2>2
  <1>2. \A S \in SUBSET Tickets : IsFiniteSet(S) /\ Cardinality(S) \in Nat
    BY <1>1, FS_Subset, FS_CardinalityType
  <1>3. MaxCents \in Nat
    <2>1. MaxTurns \in Nat /\ UnitsPerCent \in Nat \ {0} /\ MaxTurns <= MaxTurns
      BY SizesAssumption
    <2>2. MaxTurns \div UnitsPerCent \in Nat
      BY <2>1, DivGrows
    <2> QED BY <2>2 DEF MaxCents
  <1>4. Gone \in SUBSET Tickets
    BY DEF Gone
  <1> QED BY <1>1, <1>2, <1>3, <1>4, PoolAssumption, FS_CardinalityType

(* What is in flight is with a worker, or its client has gone.             *)
LEMMA FlightBound ==
  ASSUME PoolInv, PostsHeld, NEW d \in Days, NEW w \in Workers, Active(w),
         NEW F \in SUBSET (InFlight(d) \cup {worker[w].t})
  PROVE  Cardinality(F) <= Cardinality(Workers) + Cardinality(Gone)
  <1> DEFINE Held == {worker[v].t : v \in Workers}
  <1>1. IsFiniteSet(Held) /\ Cardinality(Held) <= Cardinality(Workers)
    <2> DEFINE f == [v \in Workers |-> worker[v].t]
    <2>1. f \in Surjection(Workers, Held)
      BY DEF Surjection
    <2> HIDE DEF f, Held
    <2> QED BY <2>1, FS_Surjection, PoolAssumption
  <1>2. InFlight(d) \cup {worker[w].t} \subseteq Held \cup Gone
    BY DEF InFlight, PostsHeld, Deciders
  <1> HIDE DEF Held
  <1>3. IsFiniteSet(Held \cup Gone)
        /\ Cardinality(Held \cup Gone) = Cardinality(Held) + Cardinality(Gone) - Cardinality(Held \cap Gone)
    BY <1>1, FiniteFacts, FS_Union
  <1>4. Cardinality(Held \cap Gone) \in Nat
    BY <1>1, FS_Intersection, FS_CardinalityType
  <1>5. Cardinality(F) <= Cardinality(Held \cup Gone)
    BY <1>2, <1>3, FS_Subset
  <1>6. Cardinality(F) \in Nat
    BY <1>2, <1>3, FS_Subset, FS_CardinalityType
  <1>7. Cardinality(Held) \in Nat
    BY <1>1, FS_CardinalityType
  <1> QED BY <1>1, <1>3, <1>4, <1>5, <1>6, <1>7, FiniteFacts

(* Rows are finitely many, as triggers are.                                *)
LEMMA RowsFinite ==
  ASSUME KeysOK, NEW S \in SUBSET {k \in Keys : Stored(k)}
  PROVE  IsFiniteSet(S)
  <1> DEFINE v == [t \in Tickets |-> ticket[t].key]
             K == {v[t] : t \in Tickets}
  <1>1. IsFiniteSet(K)
    <2> DEFINE T == Tickets
    <2>1. IsFiniteSet(T)
      BY FiniteFacts
    <2>2. K = {v[t] : t \in T}
      OBVIOUS
    <2> HIDE DEF v, T, K
    <2> QED BY <2>1, <2>2, ImageFinite
  <1>2. S \subseteq K
    BY DEF KeysOK
  <1> QED BY <1>1, <1>2, FS_Subset

LEMMA CentsType ==
  ASSUME StoreInv, KeysOK, NEW S \in SUBSET {k \in Keys : Stored(k)}
  PROVE  CentsOf(S) \in Int
  <1> DEFINE f == [k \in Keys |-> decisions[k].cents]
  <1>1. \A k \in S : f[k] \in Int
    BY DEF StoreInv, StoreOK, DecisionRow
  <1> HIDE DEF f
  <1>2. SumFunctionOnSet(f, S) \in Int
    BY <1>1, RowsFinite, SumSplits
  <1> QED BY <1>2 DEF CentsOf, f

LEMMA CheckedLess ==
  ASSUME StoreInv, KeysOK, NEW d \in Days
  PROVE  /\ CentsOf(CheckedRows(d)) \in Int /\ StoredCents(d) \in Int
         /\ CentsOf(CheckedRows(d)) <= StoredCents(d)
  <1> DEFINE f == [k \in Keys |-> decisions[k].cents]
             T == {k \in Keys : Stored(k) /\ decisions[k].day = d}
  <1>1. \A k \in T : f[k] \in Int /\ f[k] >= 0
    BY DEF StoreInv, StoreOK, DecisionRow
  <1>2. CheckedRows(d) \in SUBSET T /\ T \in SUBSET {k \in Keys : Stored(k)}
    BY DEF CheckedRows
  <1>3. StoredCents(d) = CentsOf(T)
    BY DEF StoredCents
  <1>4. CentsOf(T) = SumFunctionOnSet(f, T)
        /\ CentsOf(CheckedRows(d)) = SumFunctionOnSet(f, CheckedRows(d))
    BY DEF CentsOf
  <1> HIDE DEF f, T
  <1>5. CheckedRows(d) \in SUBSET {k \in Keys : Stored(k)}
    BY <1>2
  <1>6. SumFunctionOnSet(f, CheckedRows(d)) <= SumFunctionOnSet(f, T)
    BY <1>1, <1>2, RowsFinite, SumGrows
  <1>7. CentsOf(CheckedRows(d)) \in Int /\ CentsOf(T) \in Int
    BY <1>2, <1>5, CentsType
  <1> QED BY <1>3, <1>4, <1>6, <1>7
----------------------------------------------------------------------------
(* A trigger keeps its key, and one that is gone stays so.                 *)
TicketStays(t) == /\ ticket[t].key # None => ticket'[t].key = ticket[t].key
                  /\ ticket[t].state = "gone" => ticket'[t].state = "gone"

LEMMA Marked ==
  ASSUME PoolInv, NEW t \in Tickets, ticket[t].state # "gone", NEW state, MarkTicket(t, state)
  PROVE  \A u \in Tickets : TicketStays(u)
  <1>1. ticket \in [Tickets -> TicketRecord]
    BY DEF PoolInv, PoolOK
  <1>2. \A u \in Tickets : ticket'[u].key = ticket[u].key /\ (u # t => ticket'[u] = ticket[u])
    BY <1>1 DEF MarkTicket, TicketRecord
  <1> QED BY <1>2 DEF TicketStays

LEMMA TicketsStay ==
  ASSUME PoolInv, [Next]_vars
  PROVE  \A t \in Tickets : TicketStays(t)
  <1>1. CASE UNCHANGED ticket
    BY <1>1 DEF TicketStays
  <1>2. ASSUME NEW key, Enqueue(key) PROVE \A t \in Tickets : TicketStays(t)
    <2> DEFINE new == [key |-> key, day |-> Day, state |-> IF Len(queue) < Capacity THEN "queued" ELSE "over"]
    <2>0. ticket' = [ticket EXCEPT ![arrived + 1] = new]
      BY <1>2 DEF Enqueue
    <2>1. arrived + 1 \in Tickets
      BY <1>2, SizesAssumption DEF Enqueue, PoolInv, PoolOK
    <2>2. ticket[arrived + 1] = NoTicket
      BY <2>1 DEF PoolInv, PoolOK, TicketInv
    <2> HIDE DEF new
    <2>3. \A t \in Tickets : t # arrived + 1 => ticket'[t] = ticket[t]
      BY <2>0, <2>1 DEF PoolInv, PoolOK
    <2> QED BY <2>2, <2>3 DEF TicketStays, NoTicket
  <1>3. ASSUME NEW w \in Workers, Take(w) PROVE \A t \in Tickets : TicketStays(t)
    <2>1. Head(queue) = queue[1] /\ 1 \in 1..Len(queue)
      BY <1>3, QueueFacts, EmptySeq DEF Take
    <2>2. Head(queue) \in Tickets /\ ticket[Head(queue)].state = "queued"
      BY <2>1, QueueFacts
    <2> QED BY <1>3, <2>2, Marked DEF Take
  <1>4. ASSUME NEW w \in Workers, NEW state, Deciding(w), Settle(w, state)
        PROVE  \A t \in Tickets : TicketStays(t)
    BY <1>4, HeldKey, Marked DEF Settle, Deciding, Active
  <1>5. CASE ProcessEnds
    <2>1. \A t \in Tickets : ticket'[t] = CASE ticket[t].state = "queued" -> [ticket[t] EXCEPT !.state = "over"]
                         [] ticket[t].state = "taken"  -> [ticket[t] EXCEPT !.state = "gone"]
                         [] OTHER -> ticket[t]
      BY <1>5 DEF ProcessEnds
    <2> SUFFICES ASSUME NEW t \in Tickets PROVE TicketStays(t)
      OBVIOUS
    <2>2. ticket[t] \in TicketRecord
      BY DEF PoolInv, PoolOK
    <2>3. CASE ticket[t].state = "queued"
      BY <2>1, <2>2, <2>3 DEF TicketRecord, TicketStays
    <2>4. CASE ticket[t].state = "taken"
      BY <2>1, <2>2, <2>4 DEF TicketRecord, TicketStays
    <2>5. CASE ticket[t].state \notin {"queued", "taken"}
      BY <2>1, <2>5 DEF TicketStays
    <2> QED BY <2>3, <2>4, <2>5
  <1>6. ASSUME NEW w \in Workers, Process(w)
        PROVE  \/ UNCHANGED ticket \/ Take(w)
               \/ Deciding(w) /\ \E state : Settle(w, state)
    BY <1>6 DEF Process, Return, Acquire, CheckCap, ToolTurn, Decide, DecideFails, PostAnswered,
                SubmitOrder, OrderAnswered, Abort, Deciding
  <1>7. \/ UNCHANGED ticket \/ ProcessEnds \/ \E key : Enqueue(key)
        \/ \E w \in Workers : Process(w)
    BY DEF Next, SignalTrigger, FireDailyTimer, Handler, LookupDecision, InsertDecision, Advance,
           CancelContext, Stop, Exit, Crash, TimerPanics, Start, vars, poolVars
  <1> QED BY <1>1, <1>2, <1>3, <1>4, <1>5, <1>6, <1>7

(* Handlers of a trigger a worker has in hand: none before its POST, and   *)
(* none but the one it waits for.                                          *)
LEMMA NoPostBefore ==
  ASSUME PoolInv, PostsHeld, NEW w \in Workers, worker[w].pc \in {"lock", "check", "decide"}
  PROVE  post[worker[w].t].pc = "none"
  <1>1. worker[w].t \in Tickets /\ ticket[worker[w].t].state = "taken" /\ Active(w)
    BY HeldKey DEF Active
  <1>2. ASSUME NEW v \in Workers, worker[v].t = worker[w].t, worker[v].pc \in {"posting", "ordering"}
        PROVE  FALSE
    <2>1. Active(v)
      BY <1>2 DEF Active
    <2>2. v = w
      BY <1>1, <1>2, <2>1 DEF PoolInv, TicketInv
    <2> QED BY <1>2, <2>2
  <1> QED BY <1>1, <1>2 DEF PostsHeld, Gone

(* The step of one worker. *)
LEMMA HeldStep ==
  ASSUME PoolInv, PostsHeld, [Next]_vars, NEW w \in Workers,
         \A v \in Workers : v # w => worker'[v] = worker[v],
         \A u \in Tickets : post'[u].pc # "none" =>
            \/ post[u].pc # "none" /\ (u = worker[w].t => worker[w].pc \notin {"posting", "ordering"})
            \/ ticket'[u].state = "gone"
            \/ worker'[w].t = u /\ worker'[w].pc \in {"posting", "ordering"}
  PROVE  PostsHeld'
  <1> SUFFICES ASSUME NEW u \in Tickets, post'[u].pc # "none"
               PROVE  \/ ticket'[u].state = "gone"
                      \/ \E v \in Workers : worker'[v].t = u /\ worker'[v].pc \in {"posting", "ordering"}
    BY DEF PostsHeld, Gone
  <1>1. CASE post[u].pc # "none" /\ (u = worker[w].t => worker[w].pc \notin {"posting", "ordering"})
    <2>1. \/ ticket[u].state = "gone"
          \/ \E v \in Workers : worker[v].t = u /\ worker[v].pc \in {"posting", "ordering"}
      BY <1>1 DEF PostsHeld, Gone
    <2>2. ticket[u].state = "gone" => ticket'[u].state = "gone"
      BY TicketsStay DEF TicketStays
    <2> QED BY <1>1, <2>1, <2>2
  <1> QED BY <1>1
----------------------------------------------------------------------------
(* What the step of a worker may do to what is in flight.                  *)
CallMoves(w) ==
    /\ \A v \in Workers : v # w => worker'[v] = worker[v]
    /\ worker'[w].pc \in {"lock", "check"} => worker'[w].turn = 0 /\ worker'[w].checked = None
    /\ worker'[w].pc = "decide" =>
          /\ worker'[w].turn < MaxTurns
          /\ worker'[w].t = worker[w].t /\ Active(w)
          /\ \/ worker[w].pc = "decide" /\ worker'[w].checked = worker[w].checked
             \/ worker'[w].checked = None
             \/ worker'[w].checked = Day /\ WithinCap(Day)

Waiting(w) == worker[w].pc \in {"posting", "ordering"}

PostKept(w, u) ==
    /\ post'[u] = post[u]
    /\ u = worker[w].t /\ Waiting(w) => \/ ticket'[u].state = "gone"
                                        \/ worker'[w].t = u /\ worker'[w].pc \in {"posting", "ordering"}
PostSent(w, u) ==
    /\ u = worker[w].t /\ Active(w)
    /\ worker'[w].t = u /\ worker'[w].pc = "posting"
    /\ post'[u].cents <= MaxCents /\ post'[u].checked = worker[w].checked
    /\ worker[w].pc = "decide" \/ worker[w].checked = None
PostMoves(w) == \A u \in Tickets : PostKept(w, u) \/ post'[u] = NoPost \/ PostSent(w, u)

(* What is in flight after a step of w.                                    *)
Flies(w, d) ==
    \/ InFlight(d)' \subseteq InFlight(d)
    \/ /\ WithinCap(d) /\ Active(w)
       /\ InFlight(d)' \subseteq InFlight(d) \cup {worker[w].t}

LEMMA NoDay == ASSUME NEW d \in Days PROVE d # None
  BY KeysAssumption

LEMMA KeysKept ==
  ASSUME PoolInv, KeysOK, [Next]_vars, UNCHANGED decisions PROVE KeysOK'
  <1> SUFFICES ASSUME NEW k \in Keys, Stored(k) PROVE \E t \in Tickets : ticket'[t].key = k
    BY DEF KeysOK, Stored
  <1>1. PICK t \in Tickets : ticket[t].key = k
    BY DEF KeysOK
  <1>2. ticket[t].key # None
    BY <1>1, KeysAssumption
  <1>3. TicketStays(t)
    BY TicketsStay
  <1> QED BY <1>1, <1>2, <1>3 DEF TicketStays

LEMMA WorkerFlight ==
  ASSUME PoolInv, FlightInv, [Next]_vars, NEW w \in Workers, CallMoves(w), PostMoves(w),
         UNCHANGED decisions
  PROVE  FlightInv' /\ \A d \in Days : Flies(w, d)
  <1>0. NoPost.pc = "none" /\ NoPost.cents = 0
    BY DEF NoPost
  <1>1. CallsOK'
    <2> SUFFICES ASSUME NEW v \in Workers
                 PROVE  /\ worker'[v].pc \in {"lock", "check"} => worker'[v].turn = 0 /\ worker'[v].checked = None
                        /\ worker'[v].pc = "decide" => worker'[v].turn < MaxTurns
      BY DEF CallsOK
    <2>1. CASE v = w
      BY <2>1 DEF CallMoves
    <2>2. CASE v # w
      BY <2>2 DEF CallMoves, FlightInv, CallsOK
    <2> QED BY <2>1, <2>2
  <1>2. PostsHeld'
    <2>1. \A v \in Workers : v # w => worker'[v] = worker[v]
      BY DEF CallMoves
    <2>2. ASSUME NEW u \in Tickets, post'[u].pc # "none"
          PROVE  \/ post[u].pc # "none" /\ (u = worker[w].t => worker[w].pc \notin {"posting", "ordering"})
                 \/ ticket'[u].state = "gone"
                 \/ worker'[w].t = u /\ worker'[w].pc \in {"posting", "ordering"}
      BY <1>0, <2>2 DEF PostMoves, PostKept, PostSent, Waiting
    <2> QED BY <2>1, <2>2, HeldStep DEF FlightInv
  <1>3. CentsOK'
    <2> SUFFICES ASSUME NEW u \in Tickets PROVE post'[u].cents <= MaxCents
      BY DEF CentsOK, MaxCents
    <2>1. PostKept(w, u) \/ post'[u] = NoPost \/ PostSent(w, u)
      BY DEF PostMoves
    <2> QED BY <1>0, <2>1, FiniteFacts DEF PostKept, PostSent, FlightInv, CentsOK
  <1>4. KeysOK'
    BY KeysKept DEF FlightInv
  <1>5. ASSUME NEW d \in Days PROVE Flies(w, d)
    <2>0. d # None
      BY NoDay
    <2>1. ASSUME NEW u \in InFlight(d)', post'[u].pc \in {"lookup", "insert"}, post'[u].checked = d
          PROVE  u \in InFlight(d)
      <3>1. u \in Tickets
        BY DEF InFlight
      <3>2. CASE PostKept(w, u)
        BY <2>1, <3>1, <3>2 DEF PostKept, InFlight
      <3>3. CASE PostSent(w, u)
        <4>1. worker[w].pc = "decide" /\ worker[w].checked = d /\ worker[w].t = u
          BY <2>0, <2>1, <3>3 DEF PostSent
        <4> QED BY <3>1, <4>1 DEF InFlight, Deciders
      <3> QED BY <1>0, <2>1, <3>1, <3>2, <3>3 DEF PostMoves
    <2>2. ASSUME NEW u \in InFlight(d)', NEW v \in Workers, v # w, worker'[v].t = u,
                 worker'[v].pc = "decide", worker'[v].checked = d
          PROVE  u \in InFlight(d)
      <3>1. worker'[v] = worker[v] /\ u \in Tickets
        BY <2>2 DEF CallMoves, InFlight
      <3> QED BY <2>2, <3>1 DEF InFlight, Deciders
    <2>3. CASE worker'[w].pc = "decide" /\ worker'[w].checked = d
      <3>1. worker'[w].t = worker[w].t /\ Active(w)
        BY <2>3 DEF CallMoves
      <3>2. InFlight(d)' \subseteq InFlight(d) \cup {worker[w].t}
        BY <2>1, <2>2, <3>1 DEF InFlight, Deciders
      <3>3. CASE worker[w].pc = "decide" /\ worker[w].checked = d
        <4>1. worker[w].t \in InFlight(d)
          BY <3>1, <3>3, HeldKey DEF InFlight, Deciders
        <4> QED BY <3>2, <4>1 DEF Flies
      <3>4. CASE d = Day /\ WithinCap(Day)
        BY <3>1, <3>2, <3>4 DEF Flies
      <3> QED BY <2>0, <2>3, <3>3, <3>4 DEF CallMoves
    <2>4. CASE ~(worker'[w].pc = "decide" /\ worker'[w].checked = d)
      <3>1. InFlight(d)' \subseteq InFlight(d)
        BY <2>1, <2>2, <2>4 DEF InFlight, Deciders
      <3> QED BY <3>1 DEF Flies
    <2> QED BY <2>3, <2>4
  <1> QED BY <1>1, <1>2, <1>3, <1>4, <1>5 DEF FlightInv

(* A step of a handler, or one that ends the process, sends nothing.       *)
PostSame(u) == /\ post'[u].cents = post[u].cents /\ post'[u].checked = post[u].checked
               /\ post'[u].pc \in {"lookup", "insert"} => post[u].pc \in {"lookup", "insert"}
LEMMA OthersFlight ==
  ASSUME PoolInv, FlightInv, [Next]_vars,
         \A w \in Workers : worker'[w] = worker[w] \/ worker'[w] = Resting,
         \A u \in Tickets : post'[u] = NoPost \/ PostSame(u)
  PROVE  CallsOK' /\ CentsOK' /\ \A d \in Days : InFlight(d)' \subseteq InFlight(d)
  <1>0. NoPost.pc = "none" /\ NoPost.cents = 0 /\ Resting.pc = "idle"
    BY DEF NoPost, Resting
  <1>1. CallsOK'
    BY <1>0 DEF CallsOK, FlightInv
  <1>2. CentsOK'
    BY <1>0, FiniteFacts DEF CentsOK, FlightInv, PostSame, MaxCents
  <1>3. ASSUME NEW d \in Days, NEW u \in InFlight(d)' PROVE u \in InFlight(d)
    <2>1. u \in Tickets
      BY <1>3 DEF InFlight
    <2>2. CASE post'[u].pc \in {"lookup", "insert"} /\ post'[u].checked = d
      BY <1>0, <2>1, <2>2 DEF PostSame, InFlight
    <2>3. ASSUME NEW w \in Workers, worker'[w].t = u, worker'[w].pc = "decide", worker'[w].checked = d
          PROVE  u \in InFlight(d)
      BY <1>0, <2>1, <2>3 DEF InFlight, Deciders
    <2> QED BY <1>3, <2>2, <2>3 DEF InFlight, Deciders
  <1> QED BY <1>1, <1>2, <1>3

LEMMA CostBound ==
  ASSUME PoolInv, NEW w \in Workers, NEW turns \in Nat, worker[w].turn + turns <= MaxTurns
  PROVE  CostCents(w, turns) <= MaxCents
  <1>1. worker[w].turn + turns \in Nat /\ MaxTurns \in Nat /\ UnitsPerCent \in Nat \ {0}
    BY SizesAssumption DEF PoolInv, PoolOK, WorkerRecord
  <1> QED BY <1>1, DivGrows DEF CostCents, MaxCents

(* A worker that neither posts nor leaves its POST.                        *)
LEMMA QuietMoves ==
  ASSUME UNCHANGED post, NEW w \in Workers,
         Waiting(w) => worker'[w].t = worker[w].t /\ worker'[w].pc \in {"posting", "ordering"}
  PROVE  PostMoves(w)
  BY DEF PostMoves, PostKept

(* Settle, by the state in which the trigger is left. *)
LEMMA SettleMoves ==
  ASSUME PoolInv, StoreInv, NEW w \in Workers, Deciding(w), NEW state, Settle(w, state),
         \/ UNCHANGED post /\ (Waiting(w) => state = "gone")
         \/ post' = [post EXCEPT ![worker[w].t] = NoPost]
  PROVE  CallMoves(w) /\ PostMoves(w)
  <1>1. worker' = [worker EXCEPT ![w] = Resting] /\ worker \in [Workers -> WorkerRecord]
        /\ ticket' = [ticket EXCEPT ![worker[w].t].state = state]
        /\ ticket \in [Tickets -> TicketRecord] /\ post \in [Tickets -> PostRecord]
    BY DEF Settle, MarkTicket, PoolInv, PoolOK, StoreInv, StoreOK
  <1>2. Resting.pc = "idle"
    BY DEF Resting
  <1>3. CallMoves(w)
    BY <1>1, <1>2 DEF CallMoves
  <1>4. worker[w].t \in Tickets
    BY HeldKey DEF Deciding, Active
  <1>5. CASE UNCHANGED post /\ (Waiting(w) => state = "gone")
    <2>1. ticket'[worker[w].t].state = state
      BY <1>1, <1>4 DEF TicketRecord
    <2> QED BY <1>3, <1>5, <2>1 DEF PostMoves, PostKept
  <1>6. CASE post' = [post EXCEPT ![worker[w].t] = NoPost]
    BY <1>1, <1>3, <1>4, <1>6 DEF PostMoves, PostKept
  <1> QED BY <1>5, <1>6

LEMMA SendMoves ==
  ASSUME PoolInv, StoreInv, FlightInv, NEW w \in Workers, worker[w].pc \in {"check", "decide"},
         NEW verdict, NEW cents \in Nat, cents <= MaxCents, SendPost(w, verdict, cents)
  PROVE  CallMoves(w) /\ PostMoves(w)
  <1> DEFINE t == worker[w].t
             new == [pc |-> "lookup", verdict |-> verdict, cents |-> cents,
                     checked |-> worker[w].checked]
  <1>1. /\ worker' = [worker EXCEPT ![w].pc = "posting"] /\ worker \in [Workers -> WorkerRecord]
        /\ post' = [post EXCEPT ![t] = new] /\ post \in [Tickets -> PostRecord]
    BY DEF SendPost, Step, PoolInv, PoolOK, StoreInv, StoreOK
  <1>2. Active(w) /\ t \in Tickets
    BY HeldKey DEF Active
  <1>3. worker'[w].pc = "posting" /\ worker'[w].t = t
    BY <1>1 DEF WorkerRecord
  <1>4. new.cents = cents /\ new.checked = worker[w].checked
    OBVIOUS
  <1>5. worker[w].pc = "check" => worker[w].checked = None
    BY DEF FlightInv, CallsOK
  <1>6. CallMoves(w)
    BY <1>1, <1>3 DEF CallMoves
  <1> HIDE DEF new
  <1>7. post'[t] = new /\ \A u \in Tickets : u # t => post'[u] = post[u]
    BY <1>1, <1>2
  <1>8. PostSent(w, t)
    BY <1>2, <1>3, <1>4, <1>5, <1>7 DEF PostSent
  <1>9. \A u \in Tickets : u # t => PostKept(w, u)
    BY <1>7 DEF PostKept
  <1> QED BY <1>6, <1>8, <1>9 DEF PostMoves

LEMMA ProcessFlight ==
  ASSUME PoolInv, StoreInv, FlightInv, NEW w \in Workers, Process(w)
  PROVE  CallMoves(w) /\ PostMoves(w) /\ UNCHANGED decisions
  <1> USE DEF storeVars
  <1>0. worker \in [Workers -> WorkerRecord] /\ worker[w] \in WorkerRecord
    BY DEF PoolInv, PoolOK
  <1>1. CASE Take(w)
    <2>1. worker' = [worker EXCEPT ![w] = [Resting EXCEPT !.pc = "lock", !.t = Head(queue)]]
          /\ worker[w].pc = "idle" /\ UNCHANGED <<post, decisions>>
      BY <1>1 DEF Take
    <2>2. worker'[w].pc = "lock" /\ worker'[w].turn = 0 /\ worker'[w].checked = None
      BY <1>0, <2>1 DEF Resting
    <2>3. CallMoves(w)
      BY <1>0, <2>1, <2>2 DEF CallMoves
    <2>4. PostMoves(w)
      BY <2>1, QuietMoves DEF Waiting
    <2> QED BY <2>1, <2>3, <2>4
  <1>2. CASE Return(w)
    <2>1. worker' = [worker EXCEPT ![w].pc = "returned"]
          /\ worker[w].pc = "idle" /\ UNCHANGED <<post, decisions>>
      BY <1>2 DEF Return, Step
    <2>2. worker'[w].pc = "returned"
      BY <1>0, <2>1 DEF WorkerRecord
    <2>3. CallMoves(w)
      BY <1>0, <2>1, <2>2 DEF CallMoves
    <2>4. PostMoves(w)
      BY <2>1, QuietMoves DEF Waiting
    <2> QED BY <2>1, <2>3, <2>4
  <1>3. CASE Acquire(w)
    <2>1. worker' = [worker EXCEPT ![w].pc = "check"]
          /\ worker[w].pc = "lock" /\ UNCHANGED <<post, decisions>>
      BY <1>3 DEF Acquire, Step
    <2>2. worker'[w].pc = "check" /\ worker'[w].turn = 0 /\ worker'[w].checked = None
      BY <1>0, <2>1 DEF WorkerRecord, FlightInv, CallsOK
    <2>3. CallMoves(w)
      BY <1>0, <2>1, <2>2 DEF CallMoves
    <2>4. PostMoves(w)
      BY <2>1, QuietMoves DEF Waiting
    <2> QED BY <2>1, <2>3, <2>4
  <1>4. CASE CheckCap(w)
    <2>0. worker[w].pc = "check" /\ worker[w].turn = 0 /\ worker[w].checked = None
          /\ Active(w) /\ 0 < MaxTurns
      BY <1>4, SizesAssumption DEF CheckCap, FlightInv, CallsOK, Active
    <2>1. CASE SendPost(w, Synthetic, 0)
      <3>1. 0 <= MaxCents
        BY FiniteFacts
      <3>2. CallMoves(w) /\ PostMoves(w)
        BY <2>0, <2>1, <3>1, SendMoves
      <3> QED BY <2>1, <3>2 DEF SendPost
    <2>2. CASE Step(w, "decide") /\ UNCHANGED <<post, decisions>>
      <3>1. /\ worker' = [worker EXCEPT ![w].pc = "decide"]
            /\ worker'[w].pc = "decide" /\ worker'[w].turn = 0 /\ worker'[w].checked = None
            /\ worker'[w].t = worker[w].t
        BY <1>0, <2>0, <2>2 DEF Step, WorkerRecord
      <3>2. CallMoves(w)
        BY <1>0, <2>0, <3>1 DEF CallMoves
      <3>3. PostMoves(w)
        BY <2>0, <2>2, QuietMoves DEF Waiting
      <3> QED BY <2>2, <3>2, <3>3
    <2>3. CASE /\ worker' = [worker EXCEPT ![w].pc = "decide", ![w].checked = Day]
               /\ WithinCap(Day) /\ UNCHANGED <<post, decisions>>
      <3>1. /\ worker'[w].pc = "decide" /\ worker'[w].turn = 0 /\ worker'[w].checked = Day
            /\ worker'[w].t = worker[w].t
        BY <1>0, <2>0, <2>3 DEF WorkerRecord
      <3>2. CallMoves(w)
        BY <1>0, <2>0, <2>3, <3>1 DEF CallMoves
      <3>3. PostMoves(w)
        BY <2>0, <2>3, QuietMoves DEF Waiting
      <3> QED BY <2>3, <3>2, <3>3
    <2> QED BY <1>4, <2>1, <2>2, <2>3 DEF CheckCap
  <1>5. CASE ToolTurn(w)
    <2>0. worker[w].pc = "decide" /\ UNCHANGED <<post, decisions>>
      BY <1>5 DEF ToolTurn
    <2>1. CASE worker[w].turn + 1 < MaxTurns
      <3>1. worker' = [worker EXCEPT ![w].turn = @ + 1]
        BY <1>5, <2>1 DEF ToolTurn
      <3>2. /\ worker'[w].pc = "decide" /\ worker'[w].turn = worker[w].turn + 1
            /\ worker'[w].checked = worker[w].checked /\ worker'[w].t = worker[w].t
        BY <1>0, <2>0, <3>1 DEF WorkerRecord
      <3>3. CallMoves(w)
        BY <1>0, <2>0, <2>1, <3>1, <3>2 DEF CallMoves, Active
      <3>4. PostMoves(w)
        BY <2>0, QuietMoves DEF Waiting
      <3> QED BY <2>0, <3>3, <3>4
    <2>2. CASE ~(worker[w].turn + 1 < MaxTurns)
      <3>1. Settle(w, "over")
        BY <1>5, <2>2 DEF ToolTurn
      <3> QED BY <2>0, <3>1, SettleMoves DEF Deciding, Waiting
    <2> QED BY <2>1, <2>2
  <1>6. ASSUME NEW v \in Verdicts, Decide(w, v)
        PROVE  CallMoves(w) /\ PostMoves(w) /\ UNCHANGED decisions
    <2>1. PICK turns \in {1, 2} : /\ turns = 2 => worker[w].turn < MaxTurns - 1
                                  /\ SendPost(w, v, CostCents(w, turns))
      BY <1>6 DEF Decide
    <2>2. worker[w].pc = "decide" /\ worker[w].turn < MaxTurns /\ worker[w].turn \in Nat /\ MaxTurns \in Nat
      BY <1>0, <1>6, SizesAssumption DEF Decide, FlightInv, CallsOK, WorkerRecord
    <2>3. turns \in Nat /\ worker[w].turn + turns <= MaxTurns
      BY <2>1, <2>2
    <2>4. CostCents(w, turns) \in Nat /\ CostCents(w, turns) <= MaxCents
      BY <2>3, CostBound, CostType DEF PoolInv
    <2>5. CallMoves(w) /\ PostMoves(w)
      BY <2>1, <2>2, <2>4, SendMoves
    <2> QED BY <2>1, <2>5 DEF SendPost
  <1>7. CASE DecideFails(w)
    BY <1>7, SettleMoves DEF DecideFails, Deciding, Waiting
  <1>8. CASE PostAnswered(w)
    BY <1>8, SettleMoves DEF PostAnswered, Deciding
  <1>9. CASE SubmitOrder(w)
    <2>1. worker' = [worker EXCEPT ![w].pc = "ordering"]
          /\ worker[w].pc = "posting" /\ UNCHANGED <<post, decisions>>
      BY <1>9 DEF SubmitOrder, Step
    <2>2. worker'[w].pc = "ordering" /\ worker'[w].t = worker[w].t
      BY <1>0, <2>1 DEF WorkerRecord
    <2>3. CallMoves(w)
      BY <1>0, <2>1, <2>2 DEF CallMoves
    <2>4. PostMoves(w)
      BY <2>1, <2>2, QuietMoves
    <2> QED BY <2>1, <2>3, <2>4
  <1>10. CASE OrderAnswered(w)
    BY <1>10, SettleMoves DEF OrderAnswered, Deciding
  <1>11. CASE Abort(w)
    BY <1>11, SettleMoves DEF Abort, Deciding
  <1> QED BY <1>1, <1>2, <1>3, <1>4, <1>5, <1>6, <1>7, <1>8, <1>9, <1>10, <1>11 DEF Process

(* A step after which every handler's client waits or has gone, because    *)
(* workers go on as they are or their process has ended.                   *)
LEMMA PostsStayHeld ==
  ASSUME PoolInv, PostsHeld, [Next]_vars,
         \A u \in Tickets : post'[u].pc # "none" => post[u].pc # "none",
         \A u \in Tickets : ticket[u].state = "taken" =>
            UNCHANGED worker \/ ticket'[u].state = "gone"
  PROVE  PostsHeld'
  <1> SUFFICES ASSUME NEW u \in Tickets, post[u].pc # "none"
               PROVE  \/ ticket'[u].state = "gone"
                      \/ \E w \in Workers : worker'[w].t = u /\ worker'[w].pc \in {"posting", "ordering"}
    BY DEF PostsHeld, Gone
  <1>1. CASE ticket[u].state = "gone"
    BY <1>1, TicketsStay DEF TicketStays
  <1>2. CASE ticket[u].state # "gone"
    <2>1. PICK w \in Workers : worker[w].t = u /\ worker[w].pc \in {"posting", "ordering"}
      BY <1>2 DEF PostsHeld, Gone
    <2>2. ticket[u].state = "taken"
      BY <2>1, HeldKey DEF Active
    <2> QED BY <2>1, <2>2
  <1> QED BY <1>1, <1>2

LEMMA ReplyMoves ==
  ASSUME StoreInv, NEW t \in Tickets, NEW pc, Reply(t, pc)
  PROVE  /\ post'[t] = NoPost \/ post'[t].pc = pc
         /\ post'[t] = NoPost \/ /\ post'[t].cents = post[t].cents
                                 /\ post'[t].checked = post[t].checked
         /\ \A u \in Tickets : u # t => post'[u] = post[u]
  <1> DEFINE on == [post[t] EXCEPT !.pc = pc]
  <1>1. post \in [Tickets -> PostRecord]
    BY DEF StoreInv, StoreOK
  <1>2. on.pc = pc /\ on.cents = post[t].cents /\ on.checked = post[t].checked
    BY <1>1 DEF PostRecord
  <1>3. post' = [post EXCEPT ![t] = NoPost] \/ post' = [post EXCEPT ![t] = on]
    BY DEF Reply
  <1> HIDE DEF on
  <1> QED BY <1>1, <1>2, <1>3

(* A handler goes on; if it stores its row, it has nothing more to do.     *)
Inserts(t) == /\ post[t].pc = "insert" /\ InsertRow(t)
              /\ post'[t].pc \notin {"lookup", "insert"}

LEMMA HandlerMoves ==
  ASSUME StoreInv, NEW t \in Tickets, Handler(t)
  PROVE  /\ UNCHANGED <<worker, ticket>> /\ post[t].pc # "none"
         /\ \A u \in Tickets : post'[u] = NoPost \/ PostSame(u)
         /\ UNCHANGED decisions \/ Inserts(t)
  <1>1. NoPost.pc = "none"
    BY DEF NoPost
  <1>2. CASE LookupDecision(t)
    <2>1. post[t].pc = "lookup" /\ UNCHANGED <<worker, ticket, decisions>>
      BY <1>2 DEF LookupDecision, poolVars
    <2>2. PICK pc : Reply(t, pc)
      BY <1>2 DEF LookupDecision
    <2>3. \A u \in Tickets : post'[u] = NoPost \/ PostSame(u)
      BY <2>1, <2>2, ReplyMoves DEF PostSame
    <2> QED BY <2>1, <2>3
  <1>3. CASE InsertDecision(t)
    <2>1. post[t].pc = "insert" /\ UNCHANGED <<worker, ticket>> /\ (UNCHANGED decisions \/ InsertRow(t))
      BY <1>3 DEF InsertDecision, poolVars
    <2>2. PICK pc \in {"ok", "failed"} : Reply(t, pc)
      BY <1>3 DEF InsertDecision
    <2>3. \A u \in Tickets : post'[u] = NoPost \/ PostSame(u)
      BY <2>1, <2>2, ReplyMoves DEF PostSame
    <2>4. post'[t].pc \notin {"lookup", "insert"}
      BY <1>1, <2>2, ReplyMoves
    <2> QED BY <2>1, <2>3, <2>4 DEF Inserts
  <1> QED BY <1>2, <1>3 DEF Handler

(* What happens to what is in flight, and to the rows.                     *)
InsertStep(t) == /\ Inserts(t) /\ UNCHANGED <<worker, ticket>>
                 /\ \A d \in Days : InFlight(d)' \subseteq InFlight(d)

LEMMA FlightStep ==
  ASSUME PoolInv, StoreInv, FlightInv, [Next]_vars
  PROVE  /\ FlightInv'
         /\ \/ UNCHANGED decisions /\ \A d \in Days : InFlight(d)' \subseteq InFlight(d)
            \/ UNCHANGED decisions /\ \E w \in Workers : \A d \in Days : Flies(w, d)
            \/ \E t \in Tickets : InsertStep(t)
  <1>0. NoPost.pc = "none"
    BY DEF NoPost
  <1>1. ASSUME NEW w \in Workers, Process(w)
        PROVE  FlightInv' /\ UNCHANGED decisions /\ \A d \in Days : Flies(w, d)
    BY <1>1, ProcessFlight, WorkerFlight
  <1>2. ASSUME NEW t \in Tickets, Handler(t)
        PROVE  /\ FlightInv'
               /\ \A d \in Days : InFlight(d)' \subseteq InFlight(d)
               /\ UNCHANGED decisions \/ InsertStep(t)
    <2>1. /\ UNCHANGED <<worker, ticket>> /\ post[t].pc # "none"
          /\ \A u \in Tickets : post'[u] = NoPost \/ PostSame(u)
          /\ UNCHANGED decisions \/ Inserts(t)
      BY <1>2, HandlerMoves
    <2>2. CallsOK' /\ CentsOK' /\ \A d \in Days : InFlight(d)' \subseteq InFlight(d)
      BY <2>1, OthersFlight
    <2>3. \A u \in Tickets : post'[u].pc # "none" => post[u].pc # "none"
      <3>1. \A u \in Tickets : u # t => post'[u] = post[u]
        BY <1>2, ReplyMoves DEF Handler, LookupDecision, InsertDecision
      <3> QED BY <2>1, <3>1
    <2>4. PostsHeld'
      BY <2>1, <2>3, PostsStayHeld DEF FlightInv
    <2>5. KeysOK'
      <3>1. CASE UNCHANGED decisions
        BY <3>1, KeysKept DEF FlightInv
      <3>2. CASE InsertRow(t)
        <4> SUFFICES ASSUME NEW k \in Keys, decisions'[k] # NoRow PROVE \E u \in Tickets : ticket[u].key = k
          BY <2>1 DEF KeysOK, Stored
        <4>1. k = ticket[t].key \/ decisions'[k] = decisions[k]
          BY <3>2 DEF InsertRow, StoreInv, StoreOK
        <4> QED BY <4>1 DEF FlightInv, KeysOK, Stored
      <3> QED BY <2>1, <3>1, <3>2 DEF Inserts
    <2> QED BY <2>1, <2>2, <2>4, <2>5 DEF FlightInv, InsertStep
  <1>3. CASE UNCHANGED <<worker, storeVars>>
    <2>1. /\ CallsOK' /\ CentsOK'
          /\ \A d \in Days : InFlight(d)' \subseteq InFlight(d)
      BY <1>3, OthersFlight DEF storeVars, PostSame
    <2>2. PostsHeld'
      BY <1>3, PostsStayHeld DEF storeVars, FlightInv
    <2>3. KeysOK' /\ UNCHANGED decisions
      BY <1>3, KeysKept DEF storeVars, FlightInv
    <2> QED BY <2>1, <2>2, <2>3 DEF FlightInv
  <1>4. CASE ProcessEnds
    <2>0. worker' = [w \in Workers |-> Resting] /\ UNCHANGED <<post, decisions>>
      BY <1>4 DEF ProcessEnds, storeVars
    <2>1. /\ CallsOK' /\ CentsOK'
          /\ \A d \in Days : InFlight(d)' \subseteq InFlight(d)
      BY <2>0, OthersFlight DEF PostSame
    <2>2. ASSUME NEW u \in Tickets, ticket[u].state = "taken" PROVE ticket'[u].state = "gone"
      <3>1. ticket'[u] = [ticket[u] EXCEPT !.state = "gone"]
        BY <1>4, <2>2 DEF ProcessEnds
      <3>2. ticket[u] \in TicketRecord
        BY DEF PoolInv, PoolOK
      <3> QED BY <3>1, <3>2 DEF TicketRecord
    <2>3. PostsHeld'
      BY <2>0, <2>2, PostsStayHeld DEF FlightInv
    <2>4. KeysOK' /\ UNCHANGED decisions
      BY <2>0, KeysKept DEF FlightInv
    <2> QED BY <2>1, <2>3, <2>4 DEF FlightInv
  <1>5. \/ \E w \in Workers : Process(w)
        \/ \E t \in Tickets : Handler(t)
        \/ UNCHANGED <<worker, storeVars>>
        \/ ProcessEnds
    BY DEF Next, SignalTrigger, FireDailyTimer, Enqueue, Advance, CancelContext, Stop, Exit, Crash,
           TimerPanics, Start, vars, poolVars
  <1> QED BY <1>1, <1>2, <1>3, <1>4, <1>5
----------------------------------------------------------------------------
(* The bound of a day.                                                     *)
DayBudget(d) ==
    CheckedRows(d) # {} \/ InFlight(d) # {} =>
        CentsOf(CheckedRows(d)) + MaxCents * Cardinality(InFlight(d)) <= Room

(* Clients that have gone make more room only. *)
LEMMA RoomGrows ==
  ASSUME PoolInv, [Next]_vars
  PROVE  /\ Room \in Int /\ Room' \in Int /\ Room <= Room'
         /\ \A n \in Nat : n <= Cardinality(Workers) + Cardinality(Gone) =>
               MaxCents * n \in Nat /\ Cap - Estimate + MaxCents * n <= Room
  <1> DEFINE a == Cardinality(Workers) + Cardinality(Gone)
             b == Cardinality(Workers) + Cardinality(Gone')
  <1>1. Gone \subseteq Gone' /\ Gone' \in SUBSET Tickets
    BY TicketsStay DEF Gone, TicketStays
  <1>2. Cardinality(Gone) <= Cardinality(Gone') /\ Cardinality(Gone') \in Nat
    <2>1. IsFiniteSet(Gone')
      BY <1>1, FiniteFacts
    <2> QED BY <1>1, <2>1, FS_Subset, FS_CardinalityType
  <1>3. a \in Nat /\ b \in Nat /\ a <= b
    BY <1>2, FiniteFacts
  <1>4. Room = Cap - Estimate + MaxCents * a /\ Room' = Cap - Estimate + MaxCents * b
    BY DEF Room, MaxCents
  <1> HIDE DEF a, b
  <1>5. MaxCents * a \in Nat /\ MaxCents * b \in Nat /\ MaxCents * a <= MaxCents * b
    BY <1>3, FiniteFacts, TimesGrows
  <1>6. ASSUME NEW n \in Nat, n <= a PROVE MaxCents * n \in Nat /\ MaxCents * n <= MaxCents * a
    BY <1>3, <1>6, FiniteFacts, TimesGrows
  <1>7. Cap - Estimate \in Int
    BY SizesAssumption
  <1>8. \A n \in Nat : n <= a => MaxCents * n \in Nat /\ Cap - Estimate + MaxCents * n <= Room
    BY <1>4, <1>5, <1>6, <1>7
  <1> QED BY <1>4, <1>5, <1>7, <1>8 DEF a

(* Fewer in flight cost less.                                              *)
LEMMA FewerCost ==
  ASSUME NEW d \in Days, NEW F \in SUBSET InFlight(d)
  PROVE  /\ MaxCents * Cardinality(F) \in Nat /\ MaxCents * Cardinality(InFlight(d)) \in Nat
         /\ MaxCents * Cardinality(F) <= MaxCents * Cardinality(InFlight(d))
         /\ \A t \in InFlight(d) \ F :
               MaxCents * Cardinality(F) + MaxCents <= MaxCents * Cardinality(InFlight(d))
  <1> DEFINE I == InFlight(d)
             n == Cardinality(I)
             m == Cardinality(F)
  <1>1. I \in SUBSET Tickets /\ IsFiniteSet(I)
    BY FiniteFacts DEF InFlight
  <1>2. F \in SUBSET I
    OBVIOUS
  <1> HIDE DEF I
  <1>3. IsFiniteSet(F) /\ m \in Nat /\ n \in Nat /\ m <= n
    BY <1>1, <1>2, FS_Subset, FS_CardinalityType
  <1>4. ASSUME NEW t \in I \ F PROVE m + 1 <= n
    <2>1. IsFiniteSet(I \ {t}) /\ Cardinality(I \ {t}) = n - 1
      BY <1>1, FS_RemoveElement
    <2>2. F \in SUBSET (I \ {t})
      BY <1>2
    <2>3. m <= Cardinality(I \ {t})
      BY <2>1, <2>2, FS_Subset
    <2> QED BY <1>3, <2>1, <2>3
  <1> HIDE DEF n, m
  <1>5. MaxCents * m \in Nat /\ MaxCents * n \in Nat /\ MaxCents * m <= MaxCents * n
    BY <1>3, FiniteFacts, TimesGrows
  <1>6. ASSUME NEW t \in I \ F PROVE MaxCents * m + MaxCents <= MaxCents * n
    <2>1. m + 1 \in Nat /\ m + 1 <= n
      BY <1>3, <1>4
    <2>2. MaxCents * (m + 1) <= MaxCents * n
      BY <1>3, <2>1, FiniteFacts, TimesGrows
    <2>3. MaxCents * (m + 1) = MaxCents * m + MaxCents
      BY <1>3, FiniteFacts, TimesNext
    <2> QED BY <2>2, <2>3
  <1> QED BY <1>5, <1>6 DEF I, m, n

LEMMA DayKept ==
  ASSUME PoolInv, StoreInv, FlightInv, [Next]_vars, UNCHANGED decisions, NEW d \in Days,
         InFlight(d)' \subseteq InFlight(d), DayBudget(d)
  PROVE  DayBudget(d)'
  <1> DEFINE F == InFlight(d)'
             c == CentsOf(CheckedRows(d))
  <1>1. CheckedRows(d)' = CheckedRows(d) /\ CentsOf(CheckedRows(d))' = c
    BY DEF CheckedRows, CentsOf, Stored
  <1>2. c \in Int
    BY CheckedLess DEF FlightInv
  <1>3. MaxCents * Cardinality(F) \in Nat /\ MaxCents * Cardinality(InFlight(d)) \in Nat
        /\ MaxCents * Cardinality(F) <= MaxCents * Cardinality(InFlight(d))
    <2>1. F \in SUBSET InFlight(d)
      OBVIOUS
    <2> HIDE DEF F
    <2> QED BY <2>1, FewerCost
  <1> SUFFICES ASSUME CheckedRows(d) # {} \/ F # {}
               PROVE  c + MaxCents * Cardinality(F) <= Room'
    BY <1>1 DEF DayBudget, MaxCents
  <1>4. c + MaxCents * Cardinality(InFlight(d)) <= Room
    BY DEF DayBudget
  <1>5. Room \in Int /\ Room' \in Int /\ Room <= Room'
    BY RoomGrows
  <1> HIDE DEF F, c
  <1> QED BY <1>2, <1>3, <1>4, <1>5

(* A call that has passed its check finds the sum below the cap.           *)
LEMMA DayChecked ==
  ASSUME PoolInv, StoreInv, FlightInv, [Next]_vars, UNCHANGED decisions, NEW d \in Days,
         NEW w \in Workers, Active(w), WithinCap(d),
         InFlight(d)' \subseteq InFlight(d) \cup {worker[w].t}
  PROVE  DayBudget(d)'
  <1> DEFINE F == InFlight(d)'
             c == CentsOf(CheckedRows(d))
             n == Cardinality(F)
  <1>1. CheckedRows(d)' = CheckedRows(d) /\ CentsOf(CheckedRows(d))' = c
    BY DEF CheckedRows, CentsOf, Stored
  <1>2. c \in Int /\ StoredCents(d) \in Int /\ c <= StoredCents(d)
    BY CheckedLess DEF FlightInv
  <1>3. n \in Nat /\ n <= Cardinality(Workers) + Cardinality(Gone)
    <2>1. F \in SUBSET (InFlight(d) \cup {worker[w].t})
      OBVIOUS
    <2>2. F \in SUBSET Tickets
      BY DEF InFlight
    <2> HIDE DEF F
    <2> QED BY <2>1, <2>2, FlightBound, FiniteFacts DEF FlightInv
  <1>4. c <= Cap - Estimate
    BY <1>2, SizesAssumption DEF WithinCap
  <1> SUFFICES c + MaxCents * n <= Room'
    BY <1>1 DEF DayBudget, MaxCents
  <1> HIDE DEF c, n
  <1>5. /\ Room \in Int /\ Room' \in Int /\ Room <= Room'
        /\ MaxCents * n \in Nat /\ Cap - Estimate + MaxCents * n <= Room
    BY <1>3, RoomGrows
  <1>6. Cap - Estimate \in Int
    BY SizesAssumption
  <1> QED BY <1>2, <1>4, <1>5, <1>6

(* A row takes the place of what was in flight for it.                     *)
LEMMA DayStored ==
  ASSUME PoolInv, StoreInv, FlightInv, FlightInv', StoreInv', [Next]_vars, NEW d \in Days,
         NEW t \in Tickets, InsertStep(t), DayBudget(d)
  PROVE  DayBudget(d)'
  <1> DEFINE key == ticket[t].key
             R == CheckedRows(d)
             F == InFlight(d)'
             f == [k \in Keys |-> decisions[k].cents]
             g == [k \in Keys |-> decisions'[k].cents]
  <1>1. /\ post[t].pc = "insert" /\ post'[t].pc \notin {"lookup", "insert"}
        /\ decisions' = [decisions EXCEPT ![key] = IF Stored(key) THEN @ ELSE RowOf(t)]
        /\ UNCHANGED <<worker, ticket>> /\ F \subseteq InFlight(d)
    BY DEF InsertStep, Inserts, InsertRow
  <1>2. decisions \in [Keys -> DecisionRow] /\ decisions' \in [Keys -> DecisionRow]
    BY DEF StoreInv, StoreOK
  <1>3. CASE UNCHANGED decisions
    BY <1>1, <1>3, DayKept
  <1>4. CASE decisions' # decisions
    <2>1. key \in Keys /\ ~Stored(key) /\ decisions'[key] = RowOf(t)
          /\ \A k \in Keys : k # key => decisions'[k] = decisions[k]
      BY <1>1, <1>2, <1>4
    <2>2. RowOf(t).day = ticket[t].day /\ RowOf(t).checked = post[t].checked
          /\ RowOf(t).cents = post[t].cents
      BY DEF RowOf
    <2>3. key \notin R
      BY <2>1 DEF CheckedRows
    <2>4. \/ CheckedRows(d)' = R
          \/ CheckedRows(d)' = R \cup {key} /\ post[t].checked = d
      <3>1. \A k \in Keys : k # key => (k \in CheckedRows(d)' <=> k \in R)
        BY <2>1 DEF CheckedRows, Stored
      <3>2. key \in CheckedRows(d)' => post[t].checked = d
        BY <2>1, <2>2 DEF CheckedRows, Stored
      <3>3. CheckedRows(d)' \subseteq Keys /\ R \subseteq Keys
        BY DEF CheckedRows
      <3> QED BY <2>3, <3>1, <3>2, <3>3
    <2>5. /\ \A k \in R : f[k] = g[k] /\ g[k] \in Int
          /\ g[key] \in Int /\ g[key] <= MaxCents
      <3>1. \A k \in R : k \in Keys /\ k # key
        BY <2>3 DEF CheckedRows
      <3>2. g[key] = post[t].cents
        BY <2>1, <2>2
      <3> QED BY <1>2, <2>1, <3>1, <3>2 DEF FlightInv, CentsOK, DecisionRow
    <2>6. IsFiniteSet(R)
      <3>1. R \in SUBSET {k \in Keys : Stored(k)}
        BY DEF CheckedRows
      <3> QED BY <3>1, RowsFinite DEF FlightInv
    <2>7. CentsOf(CheckedRows(d)) = SumFunctionOnSet(f, R)
          /\ CentsOf(CheckedRows(d))' = SumFunctionOnSet(g, CheckedRows(d)')
      BY DEF CentsOf
    <2>8. t \in InFlight(d) \/ post[t].checked # d
      BY <1>1 DEF InFlight
    <2>9. t \notin F
      <3>1. ASSUME NEW w \in Workers, worker[w].t = t, worker[w].pc = "decide" PROVE FALSE
        BY <1>1, <3>1, NoPostBefore DEF FlightInv
      <3> QED BY <1>1, <3>1 DEF InFlight, Deciders
    <2>10. /\ MaxCents * Cardinality(F) \in Nat /\ MaxCents * Cardinality(InFlight(d)) \in Nat
           /\ MaxCents * Cardinality(F) <= MaxCents * Cardinality(InFlight(d))
           /\ t \in InFlight(d) => MaxCents * Cardinality(F) + MaxCents <= MaxCents * Cardinality(InFlight(d))
      <3>1. F \in SUBSET InFlight(d) /\ t \notin F
        BY <1>1, <2>9
      <3> HIDE DEF F
      <3> QED BY <3>1, FewerCost
    <2>11. Room \in Int /\ Room' \in Int /\ Room <= Room' /\ MaxCents \in Int
      BY RoomGrows, FiniteFacts
    <2> SUFFICES ASSUME CheckedRows(d)' # {} \/ F # {}
                 PROVE  CentsOf(CheckedRows(d))' + MaxCents * Cardinality(F) <= Room'
      BY DEF DayBudget, MaxCents
    <2>12. R # {} \/ InFlight(d) # {}
      BY <1>1, <2>4, <2>8
    <2>13. SumFunctionOnSet(f, R) + MaxCents * Cardinality(InFlight(d)) <= Room
      BY <2>7, <2>12 DEF DayBudget
    <2> DEFINE S == CheckedRows(d)'
    <2> HIDE DEF f, g, R, F, S, key
    <2>14. SumFunctionOnSet(g, R) = SumFunctionOnSet(f, R) /\ SumFunctionOnSet(g, R) \in Int
      <3>1. Alike(g, f, R) /\ \A k \in R : g[k] \in Int
        BY <2>5 DEF Alike
      <3> QED BY <2>6, <3>1, SumsAreAlike, SumSplits
    <2>15. CASE S = R
      BY <2>7, <2>10, <2>11, <2>13, <2>14, <2>15 DEF S
    <2>16. CASE S = R \cup {key} /\ post[t].checked = d
      <3>1. IsFiniteSet(S) /\ key \in S /\ S \ {key} = R /\ \A k \in S : g[k] \in Int
        BY <2>3, <2>5, <2>6, <2>16, FS_AddElement
      <3>2. SumFunctionOnSet(g, S) = g[key] + SumFunctionOnSet(g, S \ {key})
        BY <3>1, SumSplits
      <3>3. SumFunctionOnSet(g, S) <= MaxCents + SumFunctionOnSet(f, R)
        <4> DEFINE sum == SumFunctionOnSet(f, R)
        <4>1. SumFunctionOnSet(g, S \ {key}) = sum /\ sum \in Int
          BY <2>14, <3>1
        <4>2. g[key] \in Int /\ g[key] <= MaxCents /\ MaxCents \in Int
          BY <2>5, <2>11
        <4>3. SumFunctionOnSet(g, S) = g[key] + sum
          BY <3>2, <4>1
        <4> HIDE DEF sum
        <4>4. g[key] + sum <= MaxCents + sum
          BY <4>1, <4>2
        <4>5. SumFunctionOnSet(g, S) <= MaxCents + sum
          BY <4>3, <4>4
        <4> QED BY <4>5 DEF sum
      <3>4. SumFunctionOnSet(g, S) \in Int
        BY <3>1, SumSplits
      <3>5. MaxCents * Cardinality(F) + MaxCents <= MaxCents * Cardinality(InFlight(d))
        BY <2>8, <2>10, <2>16
      <3> QED BY <2>7, <2>10, <2>11, <2>13, <2>14, <3>3, <3>4, <3>5 DEF S
    <2> QED BY <2>4, <2>15, <2>16 DEF S
  <1> QED BY <1>3, <1>4

BudgetInv == FlightInv /\ \A d \in Days : DayBudget(d)

LEMMA BudgetInit == Init => BudgetInv
  <1> SUFFICES ASSUME Init PROVE BudgetInv
    OBVIOUS
  <1>1. NoPost.pc = "none" /\ NoPost.cents = 0 /\ Resting.pc = "idle"
    BY DEF NoPost, Resting
  <1>2. CallsOK /\ PostsHeld
    BY <1>1 DEF Init, CallsOK, PostsHeld
  <1>3. CentsOK
    BY <1>1, FiniteFacts DEF Init, CentsOK
  <1>4. KeysOK
    BY DEF Init, KeysOK, Stored
  <1>5. \A d \in Days : CheckedRows(d) = {} /\ InFlight(d) = {}
    BY <1>1 DEF Init, CheckedRows, Stored, InFlight, Deciders
  <1> QED BY <1>2, <1>3, <1>4, <1>5 DEF BudgetInv, FlightInv, DayBudget

LEMMA BudgetStep ==
  ASSUME PoolInv, StoreInv, StoreInv', BudgetInv, [Next]_vars
  PROVE  BudgetInv'
  <1>1. FlightInv /\ \A d \in Days : DayBudget(d)
    BY DEF BudgetInv
  <1>2. /\ FlightInv'
        /\ \/ UNCHANGED decisions /\ \A d \in Days : InFlight(d)' \subseteq InFlight(d)
           \/ UNCHANGED decisions /\ \E w \in Workers : \A d \in Days : Flies(w, d)
           \/ \E t \in Tickets : InsertStep(t)
    BY <1>1, FlightStep
  <1>3. ASSUME NEW d \in Days PROVE DayBudget(d)'
    <2>1. CASE UNCHANGED decisions /\ \A e \in Days : InFlight(e)' \subseteq InFlight(e)
      BY <1>1, <2>1, DayKept
    <2>2. CASE UNCHANGED decisions /\ \E w \in Workers : \A e \in Days : Flies(w, e)
      BY <1>1, <2>2, DayKept, DayChecked DEF Flies
    <2>3. CASE \E t \in Tickets : InsertStep(t)
      BY <1>1, <1>2, <2>3, DayStored
    <2> QED BY <1>2, <2>1, <2>2, <2>3
  <1>4. \A d \in Days' : DayBudget(d)'
    BY <1>3 DEF Days
  <1> QED BY <1>2, <1>4 DEF BudgetInv

(* CheckAndReserve reserves nothing, yet what the calls it has let through *)
(* store for a day passes the cap by no more than what the workers, and    *)
(* handlers whose client has gone, can have had in flight at the last      *)
(* check, for any number of workers, triggers and turns and any prices.    *)
THEOREM OverrunBounded == Spec => []CapOverrunBounded
  <1>1. PoolInv /\ StoreInv /\ StoreInv' /\ BudgetInv /\ [Next]_vars => BudgetInv'
    BY BudgetStep
  <1>2. Inv => PoolInv /\ StoreInv
    BY DEF Inv
  <1>3. Inv /\ BudgetInv => CapOverrunBounded
    <2> SUFFICES ASSUME Inv, BudgetInv, NEW d \in Days, CheckedRows(d) # {}
                 PROVE  CentsOf(CheckedRows(d)) <= Room
      BY DEF CapOverrunBounded, Room
    <2>1. CentsOf(CheckedRows(d)) + MaxCents * Cardinality(InFlight(d)) <= Room
      BY DEF BudgetInv, DayBudget
    <2>2. InFlight(d) \in SUBSET InFlight(d)
      OBVIOUS
    <2>3. MaxCents * Cardinality(InFlight(d)) \in Nat
      BY <2>2, FewerCost
    <2>4. CentsOf(CheckedRows(d)) \in Int
      BY CheckedLess DEF Inv, BudgetInv, FlightInv
    <2>5. Room \in Int
      <3> DEFINE n == Cardinality(Workers) + Cardinality(Gone)
      <3>1. n \in Nat
        BY FiniteFacts
      <3>2. Room = Cap - Estimate + MaxCents * n
        BY DEF Room
      <3> HIDE DEF n
      <3>3. n <= n
        BY <3>1
      <3>4. MaxCents * n \in Nat
        BY <3>1, <3>3, FiniteFacts, TimesGrows
      <3>5. Cap - Estimate \in Int
        BY SizesAssumption
      <3> QED BY <3>2, <3>4, <3>5
    <2> QED BY <2>1, <2>3, <2>4, <2>5
  <1> QED BY <1>1, <1>2, <1>3, BudgetInit, Invariance, PTL DEF Spec
=============================================================================
