-------------------------- MODULE AlertFlow_proofs --------------------------
(***************************************************************************)
(* Proofs about the signals loop, for any watchlist, prices, settings,     *)
(* rules and limits, and any disturbances.                                 *)
(*                                                                         *)
(* Moves keep their cooldown: what is remembered, in memory and in the     *)
(* file, is never older than the last alert that was raised (Remembered).  *)
(* Evaluate writes the file before it raises anything, and the clock of    *)
(* the ticks does not go back.                                             *)
(*                                                                         *)
(* The rest stands on Sound: the parts of a tick have their types, and an  *)
(* alert on its way has been raised.  Added to it, one part per property:  *)
(* RulesInv, the alerts of rules are remembered unless something is Lost,  *)
(* and what fires in this tick has cooled down; NothingLost, as long as    *)
(* nothing has failed all that is remembered is stored or on its way;      *)
(* CapInv, the daily limit holds for what is stored together with what may *)
(* yet be stored, of the triggers enqueued with none before them.          *)
(***************************************************************************)
EXTENDS AlertFlow, SequenceTheorems, DataTheorems

StateType == [Symbols -> [price : Nat, alertAt : Nat \cup {None}]]

Shape(t) ==
    /\ t = [running |-> t.running, at |-> t.at, settings |-> t.settings,
            positions |-> t.positions, todo |-> t.todo, fired |-> t.fired,
            moves |-> t.moves, alert |-> t.alert]
    /\ t.at \in Nat
    /\ t.settings.cooldown \in Nat

TickOK == /\ now \in Nat
          /\ Shape(tick) /\ tick.at <= now
          /\ state \in StateType /\ stateFile \in StateType

(* The last alert of each symbol is remembered. *)
Remembered ==
    /\ \A a \in raised : a.at \in Nat /\ a.at <= tick.at
    /\ \A s \in Symbols : \A a \in Moves(s) :
          /\ state[s].alertAt \in Nat /\ a.at <= state[s].alertAt
          /\ stateFile[s].alertAt \in Nat /\ a.at <= stateFile[s].alertAt

Inv == TickOK /\ Remembered /\ MovesCoolDown

(* A tick that has ended, or not begun. *)
LEMMA RestShape ==
  ASSUME NEW at \in Nat PROVE Shape(Rest(at)) /\ Rest(at).at = at
  BY SettingsAssumption DEF Shape, Rest

LEMMA Initial == Init => Inv
  <1> SUFFICES ASSUME Init PROVE Inv
    OBVIOUS
  <1>1. Shape(tick) /\ tick.at = 0 /\ now = 1
    BY RestShape DEF Init
  <1>2. state \in StateType /\ stateFile \in StateType
    BY DEF Init, StateType, Unseen
  <1>3. raised = {}
    BY DEF Init
  <1> QED BY <1>1, <1>2, <1>3 DEF Inv, TickOK, Remembered, MovesCoolDown, Moves

(* A step after which no more move alerts have been raised, and memory and *)
(* file are what they or the other were.                                   *)
LEMMA NoMove ==
  ASSUME Inv, TickOK', tick.at <= tick'.at,
         \A s \in Symbols : /\ state'[s] \in {state[s], stateFile[s]}
                            /\ stateFile'[s] = stateFile[s],
         \A a \in raised' : a \in raised \/ (a.kind = "rule" /\ a.at = tick'.at)
  PROVE  Inv'
  <1>1. \A a \in raised' : a.at \in Nat /\ a.at <= tick'.at
    BY DEF Inv, Remembered, TickOK, Shape
  <1>2. \A s \in Symbols : \A a : a \in Moves(s)' => a \in Moves(s)
    BY DEF Moves
  <1>3. Remembered'
    BY <1>1, <1>2 DEF Inv, Remembered
  <1>4. MovesCoolDown'
    BY <1>2 DEF Inv, MovesCoolDown
  <1> QED BY <1>3, <1>4 DEF Inv

(* The steps of a tick change none of what matters here. *)
LEMMA ShapeKept ==
  ASSUME NEW t, Shape(t), NEW x
  PROVE  /\ Shape([t EXCEPT !.todo = x])  /\ [t EXCEPT !.todo = x].at = t.at
         /\ Shape([t EXCEPT !.fired = x]) /\ [t EXCEPT !.fired = x].at = t.at
         /\ Shape([t EXCEPT !.moves = x]) /\ [t EXCEPT !.moves = x].at = t.at
         /\ Shape([t EXCEPT !.alert = x]) /\ [t EXCEPT !.alert = x].at = t.at
  BY DEF Shape

(* What a raised alert carries. *)
LEMMA MoveAlertFields ==
  ASSUME NEW s
  PROVE  LET p == Payload(MoveAlert(s))
         IN  /\ p.kind = "move" /\ p.symbol = s /\ p.at = tick.at
             /\ p.cooldown = tick.settings.cooldown
  BY DEF MoveAlert, NoAlert, Payload

LEMMA TickBegins ==
  ASSUME Inv, BeginTick PROVE Inv'
  <1>1. now \in Nat /\ tick.at <= now
    BY DEF Inv, TickOK
  <1>2. Shape(Rest(now)) /\ Rest(now).at = now
    BY <1>1, RestShape
  <1>3. tick' = Rest(now) \/ \E snap \in Snapshots, s \in Settings \cup {DefaultSettings} :
          tick' = [Rest(now) EXCEPT !.running = TRUE, !.settings = s,
                                    !.positions = snap.positions,
                                    !.todo = Events(Rules, snap), !.moves = Followed]
    BY DEF BeginTick
  <1>4. Shape(tick') /\ tick'.at = now
    <2>1. CASE tick' = Rest(now)
      BY <1>2, <2>1
    <2>2. ASSUME NEW snap \in Snapshots, NEW s \in Settings \cup {DefaultSettings},
                 tick' = [Rest(now) EXCEPT !.running = TRUE, !.settings = s,
                                    !.positions = snap.positions,
                                    !.todo = Events(Rules, snap), !.moves = Followed]
          PROVE  Shape(tick') /\ tick'.at = now
      <3>1. s.cooldown \in Nat
        BY SettingsAssumption
      <3>2. tick' = [running |-> TRUE, at |-> now, settings |-> s, positions |-> snap.positions,
                     todo |-> Events(Rules, snap), fired |-> {}, moves |-> Followed, alert |-> NoAlert]
        BY <2>2 DEF Rest
      <3> QED BY <1>1, <3>1, <3>2 DEF Shape
    <2> QED BY <1>3, <2>1, <2>2
  <1>5. UNCHANGED <<now, state, stateFile, raised>>
    BY DEF BeginTick, memory
  <1>6. TickOK'
    BY <1>1, <1>4, <1>5 DEF Inv, TickOK
  <1> QED BY <1>1, <1>4, <1>5, <1>6, NoMove

(* A price is tested: what is remembered of the symbol, and of no other,   *)
(* becomes the time of this tick or stays.                                 *)
LEMMA MoveEvaluated ==
  ASSUME Inv, NEW price \in Prices, EvaluateMove(price) PROVE Inv'
  <1> DEFINE s == ProviderSymbol(Head(tick.moves))
             rest == [tick EXCEPT !.moves = Tail(@)]
  <1>1. /\ state \in StateType /\ stateFile \in StateType /\ now \in Nat
        /\ Shape(tick) /\ tick.at \in Nat /\ tick.at <= now /\ tick.settings.cooldown \in Nat
    BY DEF Inv, TickOK, Shape
  <1>2. Shape(rest) /\ rest.at = tick.at
    BY <1>1, ShapeKept
  <1>3. UNCHANGED now /\ state' = [state EXCEPT ![s] = Entry(s, price)]
    BY DEF EvaluateMove
  <1>4. s \in Symbols => Entry(s, price) \in [price : Nat, alertAt : Nat \cup {None}]
    BY <1>1, NumbersAssumption DEF Entry, StateType
  <1>5. state' \in StateType
    BY <1>1, <1>3, <1>4 DEF StateType
  <1>6. \A r \in Symbols : /\ state'[r].alertAt \in {state[r].alertAt, tick.at}
                           /\ r = s /\ Alerts(s, price) => state'[r].alertAt = tick.at
    BY <1>1, <1>3 DEF Entry, StateType
  <1>7. \A r \in Symbols : \A a \in Moves(r) : state'[r].alertAt \in Nat /\ a.at <= state'[r].alertAt
    BY <1>1, <1>6 DEF Inv, Remembered, Moves
  <1>8. CASE UNCHANGED <<stateFile, raised>> /\ (tick' = rest \/ tick' = Rest(tick.at))
    <2>1. Shape(tick') /\ tick'.at = tick.at
      BY <1>1, <1>2, <1>8, RestShape
    <2>2. TickOK'
      BY <1>1, <1>3, <1>5, <1>8, <2>1 DEF TickOK
    <2> HIDE DEF rest, s
    <2>3. \A r \in Symbols : Moves(r)' = Moves(r)
      BY <1>8 DEF Moves
    <2>4. Remembered'
      BY <1>7, <1>8, <2>1, <2>3 DEF Inv, Remembered
    <2>5. MovesCoolDown'
      BY <1>8, <2>3 DEF Inv, MovesCoolDown
    <2> QED BY <2>2, <2>4, <2>5 DEF Inv
  <1>9. CASE stateFile' = state' /\ (tick' = rest /\ UNCHANGED raised)
    <2>1. Shape(tick') /\ tick'.at = tick.at
      BY <1>2, <1>9
    <2>2. TickOK'
      BY <1>1, <1>3, <1>5, <1>9, <2>1 DEF TickOK
    <2> HIDE DEF rest, s
    <2>3. \A r \in Symbols : Moves(r)' = Moves(r)
      BY <1>9 DEF Moves
    <2>4. Remembered'
      BY <1>7, <1>9, <2>1, <2>3 DEF Inv, Remembered
    <2>5. MovesCoolDown'
      BY <1>9, <2>3 DEF Inv, MovesCoolDown
    <2> QED BY <2>2, <2>4, <2>5 DEF Inv
  <1>10. CASE stateFile' = state' /\ Alerts(s, price) /\ Raise(rest, MoveAlert(s))
    <2> DEFINE new == Payload(MoveAlert(s))
    <2>1. Shape(tick') /\ tick'.at = tick.at
      BY <1>2, <1>10, ShapeKept DEF Raise
    <2>2. TickOK'
      BY <1>1, <1>3, <1>5, <1>10, <2>1 DEF TickOK
    <2>3. raised' = raised \cup {new}
      BY <1>10 DEF Raise
    <2>4. /\ new.kind = "move" /\ new.symbol = s /\ new.at = tick.at
          /\ new.cooldown = tick.settings.cooldown
      BY MoveAlertFields
    <2>5. s \in Symbols => state[s].alertAt = None \/ tick.at - state[s].alertAt >= tick.settings.cooldown
      BY <1>10 DEF Alerts, Cooled
    <2> HIDE DEF new, rest, s
    <2>6. \A r \in Symbols : \A a : a \in Moves(r)' => a \in Moves(r) \/ (a = new /\ r = s)
      BY <2>3, <2>4 DEF Moves
    <2>7. \A r \in Symbols : \A a : a \in Moves(r)' => state'[r].alertAt \in Nat /\ a.at <= state'[r].alertAt
      BY <1>1, <1>6, <1>7, <1>10, <2>4, <2>6
    <2>8. Remembered'
      BY <1>1, <1>10, <2>1, <2>3, <2>4, <2>7 DEF Inv, Remembered
    <2>9. \A a \in raised : a.at \in Nat /\ a.at <= tick.at
      BY DEF Inv, Remembered
    <2>10. s \in Symbols => \A a \in Moves(s) : tick.at - a.at >= tick.settings.cooldown
      BY <1>1, <2>5, <2>9, NoneAssumption DEF Inv, Remembered, Moves
    <2>11. ASSUME NEW r \in Symbols, NEW a \in Moves(r)', NEW b \in Moves(r)', a.at < b.at
           PROVE  b.at - a.at >= b.cooldown
      <3>1. a.at <= tick.at /\ b.at <= tick.at /\ a.at \in Nat /\ b.at \in Nat
        BY <1>1, <2>4, <2>6, <2>9, <2>11 DEF Moves
      <3>2. a # new
        BY <1>1, <2>4, <2>11, <3>1
      <3>3. a \in Moves(r)
        BY <2>6, <2>11, <3>2
      <3>4. CASE b \in Moves(r)
        BY <2>11, <3>3, <3>4 DEF Inv, MovesCoolDown
      <3>5. CASE b = new /\ r = s
        BY <2>4, <2>10, <3>3, <3>5
      <3> QED BY <2>6, <2>11, <3>4, <3>5
    <2>12. MovesCoolDown'
      BY <2>11 DEF MovesCoolDown
    <2> QED BY <2>2, <2>8, <2>12 DEF Inv
  <1> QED BY <1>8, <1>9, <1>10 DEF EvaluateMove

LEMMA Step ==
  ASSUME Inv, [Next]_vars PROVE Inv'
  <1> USE DEF memory, tables, poolVars
  <1>1. now \in Nat /\ Shape(tick) /\ tick.at <= now /\ tick.at \in Nat
        /\ state \in StateType /\ stateFile \in StateType
    BY DEF Inv, TickOK, Shape
  <1>2. ASSUME UNCHANGED <<now, state, stateFile, raised>>, Shape(tick'), tick'.at = tick.at
        PROVE  Inv'
    BY <1>1, <1>2, NoMove DEF TickOK
  <1>3. CASE BeginTick
    BY <1>3, TickBegins
  <1>4. CASE EndTick
    BY <1>1, <1>2, <1>4, RestShape DEF EndTick
  <1>5. CASE FilterEvent
    <2>1. PICK x, y : tick' = [tick EXCEPT !.todo = x]
                      \/ tick' = [[tick EXCEPT !.todo = x] EXCEPT !.fired = y]
      BY <1>5 DEF FilterEvent
    <2> DEFINE rest == [tick EXCEPT !.todo = x]
    <2>2. Shape(rest) /\ rest.at = tick.at
      BY <1>1, ShapeKept
    <2>3. tick' = rest \/ tick' = [rest EXCEPT !.fired = y]
      BY <2>1
    <2> HIDE DEF rest
    <2>4. Shape([rest EXCEPT !.fired = y]) /\ [rest EXCEPT !.fired = y].at = tick.at
      BY <2>2, ShapeKept
    <2>5. CASE tick' = rest
      BY <1>2, <1>5, <2>2, <2>5 DEF FilterEvent
    <2>6. CASE tick' = [rest EXCEPT !.fired = y]
      BY <1>2, <1>5, <2>4, <2>6 DEF FilterEvent
    <2> QED BY <2>3, <2>5, <2>6
  <1>6. ASSUME NEW s, RaiseRuleAlert(s) PROVE Inv'
    <2> DEFINE batch == {e \in tick.fired : e.symbol = s}
               rest  == [tick EXCEPT !.fired = @ \ batch]
               alert == [RuleAlert(s, batch) EXCEPT !.step = "store"]
    <2>1. tick' = [rest EXCEPT !.alert = alert] /\ raised' = raised \cup {Payload(RuleAlert(s, batch))}
      BY <1>6 DEF RaiseRuleAlert, Raise
    <2>2. Shape(rest) /\ rest.at = tick.at
      BY <1>1, ShapeKept
    <2> HIDE DEF rest, alert
    <2>3. Shape(tick') /\ tick'.at = tick.at
      BY <2>1, <2>2, ShapeKept
    <2>4. Payload(RuleAlert(s, batch)).kind = "rule" /\ Payload(RuleAlert(s, batch)).at = tick.at
      BY DEF RuleAlert, NoAlert, Payload
    <2>5. UNCHANGED <<now, state, stateFile>>
      BY <1>6 DEF RaiseRuleAlert
    <2>6. TickOK'
      BY <1>1, <2>3, <2>5 DEF TickOK
    <2> QED BY <1>1, <2>1, <2>3, <2>4, <2>5, <2>6, NoMove
  <1>7. CASE SkipMove
    BY <1>1, <1>2, <1>7, ShapeKept DEF SkipMove
  <1>8. ASSUME NEW p \in Prices, EvaluateMove(p) PROVE Inv'
    BY <1>8, MoveEvaluated
  <1>9. CASE StoreAlert \/ TryEnqueueAgent
    <2>1. PICK x : tick' = [tick EXCEPT !.alert = x]
      BY <1>9 DEF StoreAlert, TryEnqueueAgent, Proceed
    <2>2. Shape(tick') /\ tick'.at = tick.at
      BY <1>1, <2>1, ShapeKept
    <2> QED BY <1>2, <1>9, <2>2 DEF StoreAlert, TryEnqueueAgent
  <1>10. ASSUME NEW t \in pending, StoreDecision(t) \/ DropTrigger(t) PROVE Inv'
    BY <1>1, <1>2, <1>10 DEF StoreDecision, DropTrigger
  <1>11. CASE Advance
    <2>1. now' = now + 1 /\ UNCHANGED <<state, stateFile, raised, tick>>
      BY <1>11 DEF Advance
    <2>2. TickOK'
      BY <1>1, <2>1 DEF TickOK
    <2> QED BY <1>1, <2>1, <2>2, NoMove
  <1>12. CASE CancelContext \/ UNCHANGED vars
    BY <1>1, <1>2, <1>12 DEF CancelContext, vars
  <1>13. CASE Restart
    <2>1. /\ tick' = Rest(tick.at) /\ state' = stateFile /\ UNCHANGED <<now, stateFile, raised>>
      BY <1>13 DEF Restart, Reload
    <2>2. Shape(tick') /\ tick'.at = tick.at
      BY <1>1, <2>1, RestShape
    <2>3. TickOK'
      BY <1>1, <2>1, <2>2 DEF TickOK
    <2> QED BY <1>1, <2>1, <2>2, <2>3, NoMove
  <1> QED BY <1>3, <1>4, <1>5, <1>6, <1>7, <1>8, <1>9, <1>10, <1>11, <1>12, <1>13 DEF Next, Tick

(* Two alerts about moves of a symbol are the cooldown apart that was set  *)
(* for the later one, for any number of restarts and of failing writes:    *)
(* AlertState.Evaluate with its file.                                      *)
THEOREM CooldownsHold == Spec => []MovesCoolDown
  <1>1. Inv /\ [Next]_vars => Inv'
    BY Step
  <1>2. Inv => MovesCoolDown
    BY DEF Inv
  <1> QED BY Initial, <1>1, <1>2, PTL DEF Spec
----------------------------------------------------------------------------
(* Numbers and sequences.                                                  *)

(* The function by which FlattenSeq is defined exists. *)
Flattens(f, q, n) == f = [i \in 1..n |-> IF i = 1 THEN q[i] ELSE f[i - 1] \o q[i]]

LEMMA FlatteningExists ==
  ASSUME NEW q, NEW n \in Nat PROVE \E f : Flattens(f, q, n)
  <1> DEFINE Bad == {m \in Nat : ~ \E f : Flattens(f, q, m)}
  <1>1. CASE Bad = {}
    BY <1>1
  <1>2. CASE Bad # {}
    <2>1. PICK m \in Bad : \A k \in Bad : m <= k
      <3>1. Bad \in SUBSET Nat
        OBVIOUS
      <3> HIDE DEF Bad
      <3> QED BY <1>2, <3>1, LeastOf
    <2>2. m # 0
      <3> DEFINE f == [i \in 1..0 |-> q]
      <3>1. Flattens(f, q, 0)
        BY DEF Flattens
      <3> HIDE DEF f
      <3> QED BY <3>1
    <2>3. m - 1 \in Nat /\ m - 1 \notin Bad
      <3>1. m \in Nat
        OBVIOUS
      <3> HIDE DEF Bad
      <3> QED BY <2>1, <2>2, <3>1
    <2>4. PICK f : Flattens(f, q, m - 1)
      BY <2>3
    <2> DEFINE g == [i \in 1..m |-> IF i \in 1..(m - 1) THEN f[i]
                                    ELSE IF i = 1 THEN q[i] ELSE f[i - 1] \o q[i]]
    <2>5. \A i \in 1..m : g[i] = IF i = 1 THEN q[i] ELSE g[i - 1] \o q[i]
      <3> SUFFICES ASSUME NEW i \in 1..m
                   PROVE  g[i] = IF i = 1 THEN q[i] ELSE g[i - 1] \o q[i]
        OBVIOUS
      <3>1. i # 1 => i - 1 \in 1..(m - 1) /\ i - 1 \in 1..m /\ g[i - 1] = f[i - 1]
        OBVIOUS
      <3>2. CASE i \in 1..(m - 1)
        <4>1. f[i] = IF i = 1 THEN q[i] ELSE f[i - 1] \o q[i]
          BY <2>4, <3>2 DEF Flattens
        <4> QED BY <3>1, <3>2, <4>1
      <3>3. CASE i \notin 1..(m - 1)
        BY <3>1, <3>3
      <3> QED BY <3>2, <3>3
    <2>6. Flattens(g, q, m)
      <3>1. g = [i \in 1..m |-> g[i]]
        OBVIOUS
      <3> HIDE DEF g
      <3> QED BY <2>5, <3>1 DEF Flattens
    <2> HIDE DEF g
    <2> QED BY <2>1, <2>6
  <1> QED BY <1>1, <1>2

LEMMA Flattened ==
  ASSUME NEW S, NEW q \in Seq(Seq(S)) PROVE FlattenSeq(q) \in Seq(S)
  <1> DEFINE n == Len(q)
             F == CHOOSE f : Flattens(f, q, n)
  <1>1. n \in Nat /\ \A i \in 1..n : q[i] \in Seq(S)
    BY LenProperties, ElementOfSeq
  <1>2. CASE n = 0
    BY <1>2, EmptySeq DEF FlattenSeq
  <1>3. CASE n # 0
    <2>1. FlattenSeq(q) = F[n]
      BY <1>3, Zenon DEF FlattenSeq, Flattens
    <2>2. Flattens(F, q, n)
      <3> HIDE DEF n
      <3> QED BY <1>1, FlatteningExists
    <2> DEFINE Bad == {i \in 1..n : F[i] \notin Seq(S)}
    <2> HIDE DEF F, n
    <2>3. \A i \in 1..n : F[i] = IF i = 1 THEN q[i] ELSE F[i - 1] \o q[i]
      BY <2>2 DEF Flattens
    <2>4. Bad = {}
      <3> SUFFICES ASSUME Bad # {} PROVE FALSE
        OBVIOUS
      <3>1. Bad \in SUBSET Nat
        BY <1>1
      <3>2. PICK i \in Bad : \A k \in Bad : i <= k
        <4> HIDE DEF Bad
        <4> QED BY <3>1, LeastOf
      <3>3. i \in 1..n /\ F[i] \notin Seq(S)
        OBVIOUS
      <3>4. i # 1
        BY <1>1, <2>3, <3>3
      <3>5. i - 1 \in 1..n /\ i - 1 \notin Bad
        <4>1. i - 1 \in 1..n /\ ~ (i <= i - 1)
          BY <1>1, <3>3, <3>4
        <4> HIDE DEF Bad
        <4> QED BY <3>2, <4>1
      <3>6. F[i - 1] \in Seq(S) /\ q[i] \in Seq(S)
        BY <1>1, <3>3, <3>5
      <3>7. F[i] = F[i - 1] \o q[i]
        BY <2>3, <3>3, <3>4
      <3>8. F[i] \in Seq(S)
        BY <3>6, <3>7, ConcatProperties
      <3> QED BY <3>3, <3>8
    <2>5. n \in 1..n
      BY <1>1, <1>3
    <2> QED BY <2>1, <2>4, <2>5
  <1> QED BY <1>2, <1>3

(* The events of a snapshot are of rules of the file and of symbols held.  *)
RuleSymbols == Held \cup {PortfolioRuleSymbol}
RuleEventSet == {Event(Rules[i], s) : i \in DOMAIN Rules, s \in RuleSymbols}

LEMMA EventsType ==
  ASSUME NEW snap \in Snapshots PROVE Events(Rules, snap) \in Seq(RuleEventSet)
  <1> DEFINE P == snap.positions
  <1>1. P \in Seq(Range(P)) /\ Rules \in Seq(Range(Rules))
    BY SequencesAssumption
  <1>2. DOMAIN P = 1..Len(P) /\ Len(P) \in Nat /\ DOMAIN Rules = 1..Len(Rules) /\ Len(Rules) \in Nat
    BY <1>1, LenProperties
  <1>3. \A j \in DOMAIN P : P[j].symbol \in RuleSymbols
    BY DEF RuleSymbols, Held
  <1>4. PortfolioRuleSymbol \in RuleSymbols
    BY DEF RuleSymbols
  <1>5. ASSUME NEW i \in DOMAIN Rules PROVE RuleEvents(Rules[i], snap) \in Seq(RuleEventSet)
    <2> DEFINE total == TotalMarketValue(P)
               hit(j) == IF PositionMatches(Rules[i], P[j], total)
                         THEN <<Event(Rules[i], P[j].symbol)>> ELSE <<>>
               q == [j \in DOMAIN P |-> hit(j)]
    <2>1. \A s \in RuleSymbols : Event(Rules[i], s) \in RuleEventSet
      BY DEF RuleEventSet
    <2>2. \A e \in RuleEventSet : <<e>> \in Seq(RuleEventSet)
      OBVIOUS
    <2>3. <<>> \in Seq(RuleEventSet)
      BY EmptySeq
    <2>4. \A j \in DOMAIN P : hit(j) \in Seq(RuleEventSet)
      BY <1>3, <2>1, <2>2, <2>3
    <2>5. RuleEvents(Rules[i], snap) =
            IF Rules[i].type = "cash_pct"
            THEN IF CashMatches(Rules[i], snap) THEN <<Event(Rules[i], PortfolioRuleSymbol)>> ELSE <<>>
            ELSE FlattenSeq(q)
      BY DEF RuleEvents
    <2> HIDE DEF hit
    <2>6. q \in Seq(Seq(RuleEventSet))
      BY <1>2, <2>4
    <2> HIDE DEF q
    <2>7. FlattenSeq(q) \in Seq(RuleEventSet)
      BY <2>6, Flattened
    <2>8. <<Event(Rules[i], PortfolioRuleSymbol)>> \in Seq(RuleEventSet)
      BY <1>4, <2>1, <2>2
    <2> QED BY <2>3, <2>5, <2>7, <2>8
  <1> DEFINE q == [i \in DOMAIN Rules |-> RuleEvents(Rules[i], snap)]
  <1>6. q \in Seq(Seq(RuleEventSet))
    BY <1>2, <1>5
  <1> HIDE DEF q
  <1>7. FlattenSeq(q) \in Seq(RuleEventSet) /\ <<>> \in Seq(RuleEventSet)
    BY <1>6, Flattened, EmptySeq
  <1> QED BY <1>7 DEF Events, q
----------------------------------------------------------------------------
(* What is known of the tick and of what it has left, in every state.      *)

AlertFields == {"kind", "symbol", "at", "cooldown", "rules", "agent", "step"}
StateRows == [price : Nat, alertAt : Times \cup {None}]

TypesOK ==
    /\ now \in Times /\ now # 0 /\ phase \in {"running", "canceled"} /\ faults \subseteq FaultKinds
    /\ state \in [Symbols -> StateRows] /\ stateFile \in [Symbols -> StateRows]
    /\ dedup \in [DedupKeys -> Times \cup {None}] /\ dedupFile \in [DedupKeys -> Times \cup {None}]
    /\ raised \subseteq AlertPayload /\ stored \subseteq raised /\ labs \subseteq stored

(* An alert on its way has been raised. *)
AlertOK(a) == /\ DOMAIN a = AlertFields /\ a.step \in {"store", "agent", "done"}
              /\ a.step = "done" => a = NoAlert
              /\ a.step # "done" => Payload(a) \in raised

WorkOK(t) ==
    /\ t.at \in Times /\ t.running \in BOOLEAN
    /\ t.settings.cooldown \in Nat /\ t.settings.threshold \in Nat \ {0}
    /\ t.moves \in Seq(Range(Followed)) /\ t.todo \in Seq(RuleEventSet)
    /\ t.fired \subseteq RuleEventSet
    /\ ~t.running => t.fired = {} /\ t.alert = NoAlert

(* The files: a canceled service has got its signal, and the second memory *)
(* is what its file says as long as every write of it has succeeded.       *)
FilesOK == /\ phase = "canceled" => "stop" \in faults
           /\ "dedup" \notin faults => dedupFile = dedup

Sound == /\ TypesOK /\ FilesOK
         /\ Shape(tick) /\ WorkOK(tick) /\ AlertOK(tick.alert) /\ tick.at <= now

LEMMA TimesType ==
  /\ Times = 0..MaxNow /\ MaxNow \in Nat /\ Times \subseteq Nat /\ 0 \in Times
  /\ None \notin Nat
  BY NumbersAssumption, NoneAssumption DEF Times

(* The parts of a tick after an assignment to one of them. *)
Parts(t, u) == /\ Shape(u) /\ u.running = t.running /\ u.at = t.at
               /\ u.settings = t.settings

LEMMA TodoKept ==
  ASSUME NEW t, Shape(t), NEW x
  PROVE  LET u == [t EXCEPT !.todo = x]
         IN  Parts(t, u) /\ u.todo = x /\ u.fired = t.fired /\ u.moves = t.moves /\ u.alert = t.alert
  BY DEF Shape, Parts

LEMMA FiredKept ==
  ASSUME NEW t, Shape(t), NEW x
  PROVE  LET u == [t EXCEPT !.fired = x]
         IN  Parts(t, u) /\ u.todo = t.todo /\ u.fired = x /\ u.moves = t.moves /\ u.alert = t.alert
  BY DEF Shape, Parts

LEMMA MovesKept ==
  ASSUME NEW t, Shape(t), NEW x
  PROVE  LET u == [t EXCEPT !.moves = x]
         IN  Parts(t, u) /\ u.todo = t.todo /\ u.fired = t.fired /\ u.moves = x /\ u.alert = t.alert
  BY DEF Shape, Parts

LEMMA AlertKept ==
  ASSUME NEW t, Shape(t), NEW x
  PROVE  LET u == [t EXCEPT !.alert = x]
         IN  Parts(t, u) /\ u.todo = t.todo /\ u.fired = t.fired /\ u.moves = t.moves /\ u.alert = x
  BY DEF Shape, Parts

(* The step of an alert, and of no other part of it, changes. *)
LEMMA AlertSteps ==
  ASSUME NEW a, DOMAIN a = AlertFields, NEW x
  PROVE  LET b == [a EXCEPT !.step = x]
         IN  DOMAIN b = AlertFields /\ b.step = x /\ Payload(b) = Payload(a) /\ b.agent = a.agent
  BY DEF AlertFields, Payload

LEMMA PayloadFields ==
  ASSUME NEW a
  PROVE  /\ Payload(a).kind = a.kind /\ Payload(a).symbol = a.symbol /\ Payload(a).at = a.at
         /\ Payload(a).cooldown = a.cooldown /\ Payload(a).rules = a.rules
  BY DEF Payload

LEMMA NoAlertFields == DOMAIN NoAlert = AlertFields /\ NoAlert.step = "done"
  BY DEF NoAlert, AlertFields

LEMMA RuleAlertFields ==
  ASSUME NEW s, NEW batch
  PROVE  LET a == RuleAlert(s, batch)
         IN  /\ DOMAIN a = AlertFields /\ a.kind = "rule" /\ a.symbol = ProviderSymbol(s)
             /\ a.at = tick.at /\ a.cooldown = 0 /\ a.rules = {e.rule.id : e \in batch}
  BY DEF RuleAlert, NoAlert, AlertFields

LEMMA MoveAlertParts ==
  ASSUME NEW s
  PROVE  LET a == MoveAlert(s)
         IN  /\ DOMAIN a = AlertFields /\ a.kind = "move" /\ a.symbol = s
             /\ a.at = tick.at /\ a.cooldown = tick.settings.cooldown /\ a.rules = {}
  BY DEF MoveAlert, NoAlert, AlertFields

LEMMA RestParts ==
  ASSUME NEW at \in Times
  PROVE  LET t == Rest(at)
         IN  /\ Shape(t) /\ WorkOK(t) /\ t.at = at /\ t.running = FALSE /\ t.todo = <<>>
             /\ t.fired = {} /\ t.moves = <<>> /\ t.alert = NoAlert /\ t.settings = DefaultSettings
  <1> DEFINE t == Rest(at)
  <1>1. /\ t.at = at /\ t.running = FALSE /\ t.todo = <<>>
        /\ t.fired = {} /\ t.moves = <<>> /\ t.alert = NoAlert /\ t.settings = DefaultSettings
    BY DEF Rest
  <1>2. Shape(t)
    BY RestShape, TimesType
  <1>3. DefaultSettings.cooldown \in Nat /\ DefaultSettings.threshold \in Nat \ {0}
    BY SettingsAssumption
  <1> HIDE DEF t
  <1>4. <<>> \in Seq(Range(Followed)) /\ <<>> \in Seq(RuleEventSet)
    BY EmptySeq
  <1>5. WorkOK(t)
    BY <1>1, <1>3, <1>4 DEF WorkOK
  <1> QED BY <1>1, <1>2, <1>5 DEF t

(* The first event of a list, and the rest. *)
LEMMA FirstEvent ==
  ASSUME Sound, tick.todo # <<>>
  PROVE  /\ Tail(tick.todo) \in Seq(RuleEventSet) /\ Head(tick.todo) \in RuleEventSet
  BY HeadTailProperties DEF Sound, WorkOK

LEMMA EventFields ==
  ASSUME NEW e \in RuleEventSet
  PROVE  /\ e.symbol \in RuleSymbols /\ e.rule.id \in RuleIds
         /\ <<e.rule.id, e.symbol>> \in DedupKeys
         /\ \E i \in DOMAIN Rules : e.rule = Rules[i]
  <1>1. PICK i \in DOMAIN Rules, s \in RuleSymbols : e = Event(Rules[i], s)
    BY DEF RuleEventSet
  <1>2. e.rule = Rules[i] /\ e.symbol = s
    BY <1>1 DEF Event
  <1>3. e.rule.id \in RuleIds
    BY <1>2 DEF RuleIds
  <1> QED BY <1>2, <1>3 DEF DedupKeys, RuleSymbols

LEMMA FirstMove ==
  ASSUME Sound, tick.moves # <<>>
  PROVE  /\ Tail(tick.moves) \in Seq(Range(Followed))
         /\ ProviderSymbol(Head(tick.moves)) \in Symbols
  <1>1. Head(tick.moves) \in Range(Followed) /\ Tail(tick.moves) \in Seq(Range(Followed))
    BY HeadTailProperties DEF Sound, WorkOK
  <1>2. PICK i \in DOMAIN Followed : Head(tick.moves) = Followed[i]
    BY <1>1 DEF Range
  <1> QED BY <1>1, <1>2 DEF Symbols
----------------------------------------------------------------------------
(* What each step does to the tick.                                        *)

Ends(t) == t = Rest(tick.at)

LEMMA BeginDoes ==
  ASSUME Sound, BeginTick
  PROVE  /\ Shape(tick') /\ WorkOK(tick') /\ tick'.at = now
         /\ tick'.fired = {} /\ tick'.alert = NoAlert
  <1>1. now \in Times
    BY DEF Sound, TypesOK
  <1>2. CASE tick' = Rest(now)
    BY <1>1, <1>2, RestParts
  <1>3. ASSUME NEW snap \in Snapshots, NEW s \in Settings \cup {DefaultSettings},
               tick' = [Rest(now) EXCEPT !.running = TRUE, !.settings = s,
                                  !.positions = snap.positions,
                                  !.todo = Events(Rules, snap), !.moves = Followed]
        PROVE  /\ Shape(tick') /\ WorkOK(tick') /\ tick'.at = now
               /\ tick'.fired = {} /\ tick'.alert = NoAlert
    <2>1. s.cooldown \in Nat /\ s.threshold \in Nat \ {0}
      BY SettingsAssumption
    <2>2. tick' = [running |-> TRUE, at |-> now, settings |-> s, positions |-> snap.positions,
                   todo |-> Events(Rules, snap), fired |-> {}, moves |-> Followed, alert |-> NoAlert]
      BY <1>3 DEF Rest
    <2>3. /\ tick'.running = TRUE /\ tick'.at = now /\ tick'.settings = s
          /\ tick'.todo = Events(Rules, snap) /\ tick'.fired = {} /\ tick'.moves = Followed
          /\ tick'.alert = NoAlert
      BY <2>2
    <2>4. Shape(tick')
      BY <1>1, <2>1, <2>2, TimesType DEF Shape
    <2>5. Events(Rules, snap) \in Seq(RuleEventSet) /\ Followed \in Seq(Range(Followed))
      BY EventsType, SequencesAssumption
    <2>6. WorkOK(tick')
      BY <1>1, <2>1, <2>3, <2>5 DEF WorkOK
    <2> QED BY <2>3, <2>4, <2>6
  <1> QED BY <1>2, <1>3 DEF BeginTick

LEMMA FilterDoes ==
  ASSUME Sound, FilterEvent
  PROVE  LET e == Head(tick.todo)
         IN  /\ Shape(tick') /\ WorkOK(tick') /\ tick'.at = tick.at
             /\ tick.alert = NoAlert /\ tick'.alert = NoAlert /\ e \in RuleEventSet
             /\ IF Cools(<<e.rule.id, e.symbol>>, RuleCooldown(e.rule, DefaultCooldown))
                THEN tick'.fired = tick.fired ELSE tick'.fired = tick.fired \cup {e}
  <1> DEFINE e == Head(tick.todo)
             x == Tail(tick.todo)
             rest == [tick EXCEPT !.todo = x]
             cools == Cools(<<e.rule.id, e.symbol>>, RuleCooldown(e.rule, DefaultCooldown))
  <1>1. tick.running /\ tick.alert = NoAlert /\ tick.todo # <<>>
    BY DEF FilterEvent, FilteringEvents, Between
  <1>2. x \in Seq(RuleEventSet) /\ e \in RuleEventSet
    BY <1>1, FirstEvent
  <1>3. tick' = IF cools THEN rest ELSE [rest EXCEPT !.fired = @ \cup {e}]
    BY DEF FilterEvent
  <1>4. Shape(tick) /\ WorkOK(tick)
    BY DEF Sound
  <1> HIDE DEF e, x, cools
  <1>5. /\ Parts(tick, rest) /\ rest.todo = x /\ rest.fired = tick.fired
        /\ rest.moves = tick.moves /\ rest.alert = tick.alert
    BY <1>4, TodoKept
  <1> HIDE DEF rest
  <1>6. WorkOK(rest)
    BY <1>1, <1>2, <1>4, <1>5 DEF WorkOK, Parts
  <1>7. CASE cools
    <2>1. tick' = rest
      BY <1>3, <1>7
    <2> QED BY <1>1, <1>2, <1>5, <1>6, <1>7, <2>1 DEF Parts, e, cools
  <1>8. CASE ~cools
    <2> DEFINE y == rest.fired \cup {e}
               u == [rest EXCEPT !.fired = y]
    <2>1. tick' = u
      BY <1>3, <1>8
    <2> HIDE DEF y
    <2>2. Shape(rest)
      BY <1>5 DEF Parts
    <2>3. /\ Parts(rest, u) /\ u.todo = rest.todo /\ u.fired = y
          /\ u.moves = rest.moves /\ u.alert = rest.alert
      BY <2>2, FiredKept
    <2> HIDE DEF u
    <2>4. WorkOK(u)
      BY <1>1, <1>2, <1>5, <1>6, <2>3 DEF WorkOK, Parts, y
    <2> QED BY <1>1, <1>2, <1>5, <1>8, <2>1, <2>3, <2>4 DEF Parts, e, cools, y
  <1> QED BY <1>7, <1>8

LEMMA RaiseDoes ==
  ASSUME Sound, NEW s \in RuleSymbols, RaiseRuleAlert(s)
  PROVE  LET batch == {e \in tick.fired : e.symbol = s}
             new == Payload(RuleAlert(s, batch))
         IN  /\ Shape(tick') /\ WorkOK(tick') /\ tick'.at = tick.at
             /\ tick.alert = NoAlert /\ tick'.fired = tick.fired \ batch
             /\ DOMAIN tick'.alert = AlertFields /\ tick'.alert.step = "store"
             /\ Payload(tick'.alert) = new /\ raised' = raised \cup {new} /\ new \in AlertPayload
             /\ new.kind = "rule" /\ new.symbol = ProviderSymbol(s) /\ new.at = tick.at
             /\ new.rules = {e.rule.id : e \in batch}
  <1> DEFINE batch == {e \in tick.fired : e.symbol = s}
             alert == RuleAlert(s, batch)
             new == Payload(alert)
             x == tick.fired \ batch
             rest == [tick EXCEPT !.fired = x]
             sent == [alert EXCEPT !.step = "store"]
  <1>1. tick.running /\ tick.alert = NoAlert
    BY DEF RaiseRuleAlert, RaisingRules, Between
  <1>2. tick' = [rest EXCEPT !.alert = sent] /\ raised' = raised \cup {new}
    BY DEF RaiseRuleAlert, Raise
  <1>3. Shape(tick) /\ WorkOK(tick)
    BY DEF Sound
  <1>4. /\ DOMAIN alert = AlertFields /\ alert.kind = "rule" /\ alert.symbol = ProviderSymbol(s)
        /\ alert.at = tick.at /\ alert.cooldown = 0 /\ alert.rules = {e.rule.id : e \in batch}
    BY RuleAlertFields
  <1>5. batch \subseteq tick.fired /\ x \subseteq tick.fired
    OBVIOUS
  <1> HIDE DEF alert, batch, x
  <1>6. DOMAIN sent = AlertFields /\ sent.step = "store" /\ Payload(sent) = new
    BY <1>4, AlertSteps
  <1>7. /\ Parts(tick, rest) /\ rest.todo = tick.todo /\ rest.fired = x
        /\ rest.moves = tick.moves /\ rest.alert = tick.alert
    BY <1>3, FiredKept
  <1> HIDE DEF rest, sent
  <1>8. /\ Parts(rest, tick') /\ tick'.todo = rest.todo /\ tick'.fired = rest.fired
        /\ tick'.moves = rest.moves /\ tick'.alert = sent
    <2> DEFINE u == [rest EXCEPT !.alert = sent]
    <2>1. Shape(rest)
      BY <1>7 DEF Parts
    <2>2. /\ Parts(rest, u) /\ u.todo = rest.todo /\ u.fired = rest.fired
          /\ u.moves = rest.moves /\ u.alert = sent
      BY <2>1, AlertKept
    <2>3. tick' = u
      BY <1>2
    <2> HIDE DEF u
    <2> QED BY <2>2, <2>3
  <1>9. WorkOK(tick')
    BY <1>1, <1>3, <1>5, <1>7, <1>8 DEF WorkOK, Parts
  <1>10. /\ new.kind = "rule" /\ new.symbol = ProviderSymbol(s) /\ new.at = tick.at
         /\ new.cooldown = 0 /\ new.rules = {e.rule.id : e \in batch}
    BY <1>4, PayloadFields
  <1>11. new \in AlertPayload
    <2>1. {e.rule.id : e \in batch} \subseteq RuleIds
      BY <1>3, <1>5, EventFields DEF WorkOK
    <2>2. tick.at \in Times
      BY <1>3 DEF WorkOK
    <2>3. new = [kind |-> "rule", symbol |-> ProviderSymbol(s), at |-> tick.at, cooldown |-> 0,
                 rules |-> {e.rule.id : e \in batch}]
      BY <1>4 DEF Payload
    <2> HIDE DEF new
    <2> QED BY <2>1, <2>2, <2>3 DEF AlertPayload, RuleSymbols
  <1> HIDE DEF new
  <1> QED BY <1>1, <1>2, <1>6, <1>7, <1>8, <1>9, <1>10, <1>11 DEF Parts, x, batch, alert, new

LEMMA SkipDoes ==
  ASSUME Sound, SkipMove
  PROVE  /\ Shape(tick') /\ WorkOK(tick') /\ tick'.at = tick.at
         /\ tick.alert = NoAlert /\ tick'.alert = NoAlert /\ tick'.fired = tick.fired
  <1> DEFINE x == Tail(tick.moves)
             rest == [tick EXCEPT !.moves = x]
  <1>1. tick.running /\ tick.alert = NoAlert /\ tick.moves # <<>>
    BY DEF SkipMove, TestingMoves, Between
  <1>2. tick' = rest
    BY DEF SkipMove
  <1>3. Shape(tick) /\ WorkOK(tick)
    BY DEF Sound
  <1>4. x \in Seq(Range(Followed))
    BY <1>1, FirstMove
  <1> HIDE DEF x
  <1>5. /\ Parts(tick, rest) /\ rest.todo = tick.todo /\ rest.fired = tick.fired
        /\ rest.moves = x /\ rest.alert = tick.alert
    BY <1>3, MovesKept
  <1> HIDE DEF rest
  <1>6. WorkOK(rest)
    BY <1>1, <1>3, <1>4, <1>5 DEF WorkOK, Parts
  <1> QED BY <1>1, <1>2, <1>5, <1>6 DEF Parts

(* The gate lets every move through that reaches the threshold. *)
LEMMA GateLetsThrough ==
  ASSUME Sound, NEW s \in Symbols, NEW price \in Prices, Alerts(s, price)
  PROVE  Emits(MoveGate(state[s].price, price, tick.settings.threshold))
  <1> DEFINE from == state[s].price
             th == tick.settings.threshold
             in == MoveGate(from, price, th)
  <1>1. from \in Nat /\ price \in Nat /\ th \in Nat \ {0}
    BY NumbersAssumption DEF Sound, TypesOK, WorkOK, StateRows
  <1>2. 100 * AbsValue(price - from) >= AbsValue(th) * from
    BY DEF Alerts, Reaches
  <1> HIDE DEF from, th
  <1>3. /\ in.from = from /\ in.to = price /\ in.floor = th /\ in.vol = 0
        /\ in.spreadCap = 0 /\ in.minVolume = 0 /\ in.cooling = FALSE
        /\ in.restricted = FALSE /\ in.persists = TRUE
    BY DEF MoveGate
  <1> HIDE DEF in
  <1>4. Healthy(in)
    BY <1>3 DEF Healthy
  <1>5. AbsValue(th) = th
    BY <1>1 DEF AbsValue
  <1>6. AbsValue(price - from) \in Nat
    BY <1>1 DEF AbsValue
  <1>7. 5 * in.vol * in.from = 0
    BY <1>1, <1>3
  <1>8. Significant(in)
    <2>1. 100 * AbsValue(in.to - in.from) >= in.floor * in.from
      BY <1>2, <1>3, <1>5
    <2>2. 200 * AbsValue(in.to - in.from) >= 0
      BY <1>3, <1>6
    <2> QED BY <1>7, <2>1, <2>2 DEF Significant
  <1>9. Emits(in)
    BY <1>3, <1>4, <1>8 DEF Emits
  <1> QED BY <1>9 DEF in, from, th

LEMMA EvaluateDoes ==
  ASSUME Sound, NEW price \in Prices, EvaluateMove(price)
  PROVE  LET s == ProviderSymbol(Head(tick.moves))
             new == Payload(MoveAlert(s))
         IN  /\ s \in Symbols /\ tick.alert = NoAlert /\ tick.fired = {}
             /\ state' = [state EXCEPT ![s] = Entry(s, price)]
             /\ Shape(tick') /\ WorkOK(tick') /\ tick'.at = tick.at /\ tick'.fired = {}
             /\ new \in AlertPayload /\ new.kind = "move" /\ new.symbol = s /\ new.at = tick.at
             /\ new.rules = {}
             /\ \/ /\ stateFile' = state' /\ NoFault /\ Alerts(s, price)
                   /\ raised' = raised \cup {new} /\ DOMAIN tick'.alert = AlertFields
                   /\ tick'.alert.step = "store" /\ Payload(tick'.alert) = new
                \/ /\ stateFile' = state' /\ NoFault /\ ~Alerts(s, price)
                   /\ raised' = raised /\ tick'.alert = NoAlert
                \/ /\ stateFile' = stateFile /\ raised' = raised /\ Fault("write")
                   /\ tick'.alert = NoAlert
  <1> DEFINE s == ProviderSymbol(Head(tick.moves))
             alert == MoveAlert(s)
             new == Payload(alert)
             x == Tail(tick.moves)
             rest == [tick EXCEPT !.moves = x]
             sent == [alert EXCEPT !.step = "store"]
             sends == [rest EXCEPT !.alert = sent]
             emits == Alerts(s, price) /\ Emits(MoveGate(state[s].price, price, tick.settings.threshold))
  <1>1. tick.running /\ tick.alert = NoAlert /\ tick.moves # <<>> /\ tick.fired = {}
    BY DEF EvaluateMove, TestingMoves, Between
  <1>2. /\ state' = [state EXCEPT ![s] = Entry(s, price)]
        /\ \/ /\ stateFile' = state' /\ NoFault
              /\ \/ emits /\ tick' = sends /\ raised' = raised \cup {new}
                 \/ ~emits /\ tick' = rest /\ raised' = raised
           \/ /\ stateFile' = stateFile /\ raised' = raised /\ Fault("write")
              /\ tick' = Rest(tick.at)
    BY DEF EvaluateMove, Raise
  <1>3. Shape(tick) /\ WorkOK(tick)
    BY DEF Sound
  <1>4. x \in Seq(Range(Followed)) /\ s \in Symbols
    BY <1>1, FirstMove
  <1>5. emits <=> Alerts(s, price)
    BY <1>4, GateLetsThrough
  <1> HIDE DEF emits
  <1>6. /\ DOMAIN alert = AlertFields /\ alert.kind = "move" /\ alert.symbol = s
        /\ alert.at = tick.at /\ alert.cooldown = tick.settings.cooldown /\ alert.rules = {}
    BY MoveAlertParts
  <1> HIDE DEF alert, x, s
  <1>7. DOMAIN sent = AlertFields /\ sent.step = "store" /\ Payload(sent) = new
    BY <1>6, AlertSteps
  <1>8. /\ new.kind = "move" /\ new.symbol = s /\ new.at = tick.at
        /\ new.cooldown = tick.settings.cooldown /\ new.rules = {}
    BY <1>6, PayloadFields
  <1>9. new \in AlertPayload
    <2>1. tick.at \in Times /\ tick.settings.cooldown \in Nat
      BY <1>3 DEF WorkOK
    <2>2. new = [kind |-> "move", symbol |-> s, at |-> tick.at,
                 cooldown |-> tick.settings.cooldown, rules |-> {}]
      BY <1>6 DEF Payload
    <2> HIDE DEF new
    <2> QED BY <1>4, <2>1, <2>2 DEF AlertPayload
  <1>10. /\ Parts(tick, rest) /\ rest.todo = tick.todo /\ rest.fired = tick.fired
         /\ rest.moves = x /\ rest.alert = tick.alert
    BY <1>3, MovesKept
  <1> HIDE DEF rest, sent, new
  <1>11. WorkOK(rest)
    BY <1>1, <1>3, <1>4, <1>10 DEF WorkOK, Parts
  <1>12. /\ Parts(rest, sends) /\ sends.todo = rest.todo /\ sends.fired = rest.fired
         /\ sends.moves = rest.moves /\ sends.alert = sent
    <2>1. Shape(rest)
      BY <1>10 DEF Parts
    <2> QED BY <2>1, AlertKept
  <1> HIDE DEF sends
  <1>13. WorkOK(sends)
    BY <1>1, <1>10, <1>11, <1>12 DEF WorkOK, Parts
  <1>14. CASE stateFile' = state' /\ NoFault /\ emits /\ tick' = sends /\ raised' = raised \cup {new}
    BY <1>1, <1>2, <1>4, <1>5, <1>7, <1>8, <1>9, <1>10, <1>12, <1>13, <1>14 DEF Parts, s, alert, new
  <1>15. CASE stateFile' = state' /\ NoFault /\ ~emits /\ tick' = rest /\ raised' = raised
    BY <1>1, <1>2, <1>4, <1>5, <1>8, <1>9, <1>10, <1>11, <1>15 DEF Parts, s, alert, new
  <1>16. CASE /\ stateFile' = stateFile /\ raised' = raised /\ Fault("write")
              /\ tick' = Rest(tick.at)
    <2>1. Shape(tick') /\ WorkOK(tick') /\ tick'.at = tick.at /\ tick'.fired = {} /\ tick'.alert = NoAlert
      BY <1>3, <1>16, RestParts DEF WorkOK
    <2> QED BY <1>1, <1>2, <1>4, <1>8, <1>9, <1>16, <2>1 DEF s, alert, new
  <1> QED BY <1>2, <1>14, <1>15, <1>16

LEMMA ProceedDoes ==
  ASSUME Sound, tick.alert.step # "done", NEW step \in {"agent", "done"}, Proceed(step)
  PROVE  /\ Shape(tick') /\ WorkOK(tick') /\ tick'.at = tick.at
         /\ tick'.fired = tick.fired
         /\ step = "done" => tick'.alert = NoAlert
         /\ step = "agent" => /\ DOMAIN tick'.alert = AlertFields /\ tick'.alert.step = "agent"
                              /\ Payload(tick'.alert) = Payload(tick.alert)
  <1> DEFINE a == tick.alert
             b == [a EXCEPT !.step = step]
             c == IF step = "done" THEN NoAlert ELSE b
             u == [tick EXCEPT !.alert = c]
  <1>1. tick' = u
    BY DEF Proceed
  <1>2. Shape(tick) /\ WorkOK(tick) /\ DOMAIN a = AlertFields /\ a.step # "done"
    BY DEF Sound, AlertOK
  <1> HIDE DEF a
  <1>3. DOMAIN b = AlertFields /\ b.step = step /\ Payload(b) = Payload(a)
    BY <1>2, AlertSteps
  <1>4. c = NoAlert \/ (step = "agent" /\ c = b)
    OBVIOUS
  <1>5. step = "done" => c = NoAlert
    OBVIOUS
  <1>6. step = "agent" => c = b
    OBVIOUS
  <1> HIDE DEF b, c
  <1>7. /\ Parts(tick, u) /\ u.todo = tick.todo /\ u.fired = tick.fired
        /\ u.moves = tick.moves /\ u.alert = c
    <2>1. Shape(tick)
      BY <1>2
    <2> QED BY <2>1, AlertKept
  <1> HIDE DEF u
  <1>8. tick.running
    <2>1. tick.alert # NoAlert
      BY NoAlertFields
    <2> QED BY <1>2, <2>1 DEF WorkOK
  <1>9. WorkOK(u)
    BY <1>2, <1>7, <1>8 DEF WorkOK, Parts
  <1> QED BY <1>1, <1>3, <1>5, <1>6, <1>7, <1>9 DEF Parts, a

LEMMA RestDoes ==
  ASSUME Sound, tick' = Rest(tick.at)
  PROVE  /\ Shape(tick') /\ WorkOK(tick') /\ tick'.at = tick.at
         /\ tick'.fired = {} /\ tick'.alert = NoAlert
  BY RestParts DEF Sound, WorkOK
----------------------------------------------------------------------------
(* What is known stays true.                                               *)

TickKept == /\ Shape(tick') /\ WorkOK(tick') /\ tick'.at <= now' /\ tick.at <= tick'.at
            /\ DOMAIN tick'.alert = AlertFields /\ tick'.alert.step \in {"store", "agent", "done"}
            /\ tick'.alert.step = "done" => tick'.alert = NoAlert
            /\ tick'.alert.step # "done" => Payload(tick'.alert) \in raised'
            /\ raised \subseteq raised' /\ raised' \subseteq AlertPayload

LEMMA SoundFacts ==
  ASSUME Sound
  PROVE  /\ now \in Nat /\ now \in Times /\ tick.at \in Nat /\ tick.at \in Times /\ tick.at <= now
         /\ Shape(tick) /\ WorkOK(tick) /\ raised \subseteq AlertPayload /\ stored \subseteq raised
         /\ DOMAIN tick.alert = AlertFields /\ tick.alert.step \in {"store", "agent", "done"}
         /\ tick.alert.step = "done" => tick.alert = NoAlert
         /\ tick.alert.step # "done" => Payload(tick.alert) \in raised
  BY TimesType DEF Sound, TypesOK, WorkOK, AlertOK

(* A step that ends an alert, or starts with none and leaves none. *)
LEMMA NoAlertLeft ==
  ASSUME Sound, Shape(tick'), WorkOK(tick'), tick'.at = tick.at, now' = now,
         tick'.alert = NoAlert, raised' = raised
  PROVE  TickKept
  BY SoundFacts, NoAlertFields DEF TickKept

LEMMA NothingMoves ==
  ASSUME Sound, tick' = tick, raised' = raised, now' \in Nat, now <= now'
  PROVE  TickKept
  <1>1. tick'.at <= now'
    BY SoundFacts
  <1> QED BY <1>1, SoundFacts DEF TickKept

LEMMA TickStep ==
  ASSUME Sound, [Next]_vars PROVE TickKept
  <1> USE DEF memory, tables, poolVars
  <1>1. CASE BeginTick
    <2>1. /\ Shape(tick') /\ WorkOK(tick') /\ tick'.at = now
          /\ tick'.fired = {} /\ tick'.alert = NoAlert
      BY <1>1, BeginDoes
    <2>2. now' = now /\ raised' = raised
      BY <1>1 DEF BeginTick
    <2> QED BY <2>1, <2>2, SoundFacts, NoAlertFields DEF TickKept
  <1>2. CASE EndTick
    <2>1. tick' = Rest(tick.at) /\ now' = now /\ raised' = raised
      BY <1>2 DEF EndTick
    <2> QED BY <2>1, RestDoes, NoAlertLeft
  <1>3. CASE FilterEvent
    <2>1. Shape(tick') /\ WorkOK(tick') /\ tick'.at = tick.at /\ tick'.alert = NoAlert
      BY <1>3, FilterDoes
    <2>2. now' = now /\ raised' = raised
      BY <1>3 DEF FilterEvent
    <2> QED BY <2>1, <2>2, NoAlertLeft
  <1>4. ASSUME NEW s \in RuleSymbols, RaiseRuleAlert(s) PROVE TickKept
    <2> DEFINE new == Payload(RuleAlert(s, {e \in tick.fired : e.symbol = s}))
    <2>1. /\ Shape(tick') /\ WorkOK(tick') /\ tick'.at = tick.at
          /\ DOMAIN tick'.alert = AlertFields /\ tick'.alert.step = "store"
          /\ Payload(tick'.alert) = new /\ raised' = raised \cup {new} /\ new \in AlertPayload
      BY <1>4, RaiseDoes
    <2>2. now' = now
      BY <1>4 DEF RaiseRuleAlert
    <2> HIDE DEF new
    <2> QED BY <2>1, <2>2, SoundFacts DEF TickKept
  <1>5. CASE SkipMove
    <2>1. Shape(tick') /\ WorkOK(tick') /\ tick'.at = tick.at /\ tick'.alert = NoAlert
      BY <1>5, SkipDoes
    <2>2. now' = now /\ raised' = raised
      BY <1>5 DEF SkipMove
    <2> QED BY <2>1, <2>2, NoAlertLeft
  <1>6. ASSUME NEW p \in Prices, EvaluateMove(p) PROVE TickKept
    <2> DEFINE new == Payload(MoveAlert(ProviderSymbol(Head(tick.moves))))
    <2>1. /\ Shape(tick') /\ WorkOK(tick') /\ tick'.at = tick.at /\ new \in AlertPayload
          /\ \/ /\ raised' = raised \cup {new} /\ DOMAIN tick'.alert = AlertFields
                /\ tick'.alert.step = "store" /\ Payload(tick'.alert) = new
             \/ raised' = raised /\ tick'.alert = NoAlert
      BY <1>6, EvaluateDoes
    <2>2. now' = now
      BY <1>6 DEF EvaluateMove
    <2> HIDE DEF new
    <2>3. CASE raised' = raised /\ tick'.alert = NoAlert
      BY <2>1, <2>2, <2>3, NoAlertLeft
    <2>4. CASE /\ raised' = raised \cup {new} /\ DOMAIN tick'.alert = AlertFields
               /\ tick'.alert.step = "store" /\ Payload(tick'.alert) = new
      BY <2>1, <2>2, <2>4, SoundFacts DEF TickKept
    <2> QED BY <2>1, <2>3, <2>4
  <1>7. CASE StoreAlert \/ TryEnqueueAgent
    <2>1. now' = now /\ raised' = raised
      BY <1>7 DEF StoreAlert, TryEnqueueAgent
    <2>2. PICK step \in {"agent", "done"} : Proceed(step)
      BY <1>7 DEF StoreAlert, TryEnqueueAgent
    <2>3. tick.alert.step # "done"
      BY <1>7 DEF StoreAlert, TryEnqueueAgent
    <2>4. /\ Shape(tick') /\ WorkOK(tick') /\ tick'.at = tick.at
          /\ step = "done" => tick'.alert = NoAlert
          /\ step = "agent" => /\ DOMAIN tick'.alert = AlertFields /\ tick'.alert.step = "agent"
                               /\ Payload(tick'.alert) = Payload(tick.alert)
      BY <2>2, <2>3, ProceedDoes
    <2>5. CASE step = "done"
      BY <2>1, <2>4, <2>5, NoAlertLeft
    <2>6. CASE step = "agent"
      BY <2>1, <2>3, <2>4, <2>6, SoundFacts DEF TickKept
    <2> QED BY <2>5, <2>6
  <1>8. ASSUME NEW t \in pending, StoreDecision(t) \/ DropTrigger(t) PROVE TickKept
    <2>1. tick' = tick /\ raised' = raised /\ now' = now
      BY <1>8 DEF StoreDecision, DropTrigger
    <2> QED BY <2>1, NothingMoves, SoundFacts
  <1>9. CASE Advance
    <2>1. tick' = tick /\ raised' = raised /\ now' = now + 1
      BY <1>9 DEF Advance
    <2>2. now' \in Nat /\ now <= now'
      BY <2>1, SoundFacts
    <2> QED BY <2>1, <2>2, NothingMoves
  <1>10. CASE CancelContext \/ UNCHANGED vars
    <2>1. tick' = tick /\ raised' = raised /\ now' = now
      BY <1>10 DEF CancelContext, vars
    <2> QED BY <2>1, NothingMoves, SoundFacts
  <1>11. CASE Restart
    <2>1. tick' = Rest(tick.at) /\ raised' = raised /\ now' = now
      BY <1>11 DEF Restart
    <2> QED BY <2>1, RestDoes, NoAlertLeft
  <1> QED BY <1>1, <1>2, <1>3, <1>4, <1>5, <1>6, <1>7, <1>8, <1>9, <1>10, <1>11
          DEF Next, Tick, RuleSymbols

(* Disturbances are counted and not forgotten. *)
LEMMA FaultsGrow ==
  ASSUME [Next]_vars, faults \subseteq FaultKinds
  PROVE  faults \subseteq faults' /\ faults' \subseteq FaultKinds
  <1> USE DEF memory, tables, poolVars
  <1>1. \A kind : Fault(kind) => faults \subseteq faults' /\ faults' \subseteq FaultKinds
    BY DEF Fault
  <1>2. NoFault => faults' = faults
    BY DEF NoFault
  <1>3. \A kind : CallFails(kind) => faults \subseteq faults' /\ faults' \subseteq FaultKinds
    BY <1>1, <1>2 DEF CallFails
  <1>4. CASE BeginTick \/ FilterEvent
    BY <1>1, <1>2, <1>4 DEF BeginTick, SettingsRead, FilterEvent, Remember
  <1>5. ASSUME NEW p \in Prices, EvaluateMove(p)
        PROVE  faults \subseteq faults' /\ faults' \subseteq FaultKinds
    BY <1>1, <1>2, <1>5 DEF EvaluateMove
  <1>6. CASE StoreAlert \/ TryEnqueueAgent
    BY <1>2, <1>3, <1>6 DEF StoreAlert, TryEnqueueAgent, CallSucceeds
  <1>7. CASE CancelContext \/ Restart
    BY <1>1, <1>2, <1>7 DEF CancelContext, Restart
  <1>8. ASSUME \/ EndTick \/ SkipMove \/ Advance \/ UNCHANGED vars
               \/ \E s \in Held \cup {PortfolioRuleSymbol} : RaiseRuleAlert(s)
               \/ \E t \in pending : StoreDecision(t) \/ DropTrigger(t)
        PROVE  faults' = faults
    BY <1>8 DEF EndTick, SkipMove, Advance, vars, RaiseRuleAlert, StoreDecision, DropTrigger
  <1> QED BY <1>4, <1>5, <1>6, <1>7, <1>8, faults \subseteq FaultKinds DEF Next, Tick

(* The steps that touch the memories or the files. *)
LEMMA MemoryKept ==
  ASSUME [Next]_vars
  PROVE  \/ UNCHANGED <<state, stateFile, dedup, dedupFile, phase>>
         \/ FilterEvent \/ CancelContext \/ Restart
         \/ \E p \in Prices : EvaluateMove(p)
  BY DEF Next, Tick, BeginTick, EndTick, RaiseRuleAlert, SkipMove, StoreAlert, TryEnqueueAgent,
         StoreDecision, DropTrigger, Advance, vars, memory, tables, poolVars

LEMMA MemoryStep ==
  ASSUME Sound, [Next]_vars
  PROVE  /\ state' \in [Symbols -> StateRows] /\ stateFile' \in [Symbols -> StateRows]
         /\ dedup' \in [DedupKeys -> Times \cup {None}] /\ dedupFile' \in [DedupKeys -> Times \cup {None}]
         /\ phase' \in {"running", "canceled"}
         /\ FilesOK'
  <1>1. /\ state \in [Symbols -> StateRows] /\ stateFile \in [Symbols -> StateRows]
        /\ dedup \in [DedupKeys -> Times \cup {None}] /\ dedupFile \in [DedupKeys -> Times \cup {None}]
        /\ phase \in {"running", "canceled"} /\ FilesOK /\ faults \subseteq FaultKinds
    BY DEF Sound, TypesOK
  <1>2. faults \subseteq faults'
    BY <1>1, FaultsGrow
  <1>3. CASE UNCHANGED <<state, stateFile, dedup, dedupFile, phase>>
    BY <1>1, <1>2, <1>3 DEF FilesOK
  <1>4. CASE FilterEvent
    <2> DEFINE e == Head(tick.todo)
               key == <<e.rule.id, e.symbol>>
    <2>1. e \in RuleEventSet
      BY <1>4, FilterDoes
    <2>2. key \in DedupKeys
      BY <2>1, EventFields
    <2>3. UNCHANGED <<state, stateFile, phase>> /\ (UNCHANGED <<dedup, dedupFile>> \/ Remember(key))
      BY <1>4 DEF FilterEvent
    <2> HIDE DEF e, key
    <2>4. CASE UNCHANGED <<dedup, dedupFile>>
      BY <1>1, <1>2, <2>3, <2>4 DEF FilesOK
    <2>5. CASE Remember(key)
      <3>1. dedup' \in [DedupKeys -> Times \cup {None}]
        <4>1. dedup' = [dedup EXCEPT ![key] = tick.at]
          BY <2>5 DEF Remember
        <4> QED BY <1>1, <2>2, <4>1, SoundFacts
      <3>2. dedupFile' = dedup' \/ (dedupFile' = dedupFile /\ "dedup" \in faults')
        BY <2>5 DEF Remember, Fault
      <3> QED BY <1>1, <1>2, <2>3, <3>1, <3>2 DEF FilesOK
    <2> QED BY <2>3, <2>4, <2>5
  <1>5. CASE CancelContext
    <2>1. /\ UNCHANGED <<state, stateFile, dedup, dedupFile>> /\ phase' = "canceled"
          /\ "stop" \in faults'
      BY <1>5 DEF CancelContext, Fault, memory
    <2> QED BY <1>1, <1>2, <2>1 DEF FilesOK
  <1>6. CASE Restart
    BY <1>1, <1>2, <1>6 DEF Restart, Reload, FilesOK
  <1>7. ASSUME NEW p \in Prices, EvaluateMove(p)
        PROVE  /\ state' \in [Symbols -> StateRows] /\ stateFile' \in [Symbols -> StateRows]
               /\ UNCHANGED <<dedup, dedupFile, phase>>
    <2> DEFINE s == ProviderSymbol(Head(tick.moves))
    <2>1. /\ s \in Symbols /\ state' = [state EXCEPT ![s] = Entry(s, p)]
          /\ stateFile' = state' \/ stateFile' = stateFile
      BY <1>7, EvaluateDoes
    <2> HIDE DEF s
    <2>2. Entry(s, p) \in StateRows
      BY <1>1, <2>1, SoundFacts, NumbersAssumption DEF Entry, StateRows
    <2>3. UNCHANGED <<dedup, dedupFile, phase>>
      BY <1>7 DEF EvaluateMove
    <2> QED BY <1>1, <2>1, <2>2, <2>3
  <1>8. CASE \E p \in Prices : EvaluateMove(p)
    BY <1>1, <1>2, <1>7, <1>8 DEF FilesOK
  <1> QED BY <1>3, <1>4, <1>5, <1>6, <1>8, MemoryKept

(* An alert is stored, and copied, after it has been raised. *)
LEMMA TablesStep ==
  ASSUME Sound, [Next]_vars
  PROVE  stored' \subseteq raised' /\ labs' \subseteq stored'
  <1> USE DEF memory, tables, poolVars
  <1>1. stored \subseteq raised /\ labs \subseteq stored /\ raised \subseteq raised'
    BY TickStep DEF Sound, TypesOK, TickKept
  <1>2. CASE StoreAlert
    <2>1. Payload(tick.alert) \in raised
      <3>1. tick.alert.step # "done"
        BY <1>2 DEF StoreAlert
      <3> QED BY <3>1, SoundFacts
    <2> DEFINE new == Payload(tick.alert)
    <2>2. /\ stored' = stored \cup {new} \/ stored' = stored
          /\ labs' = labs \/ (labs' = labs \cup {new} /\ stored' = stored \cup {new})
      BY <1>2 DEF StoreAlert, InsertRecentAlert, RecordLabSignal, HandlerFails
    <2> HIDE DEF new
    <2> QED BY <1>1, <2>1, <2>2 DEF new
  <1>3. ASSUME ~StoreAlert PROVE UNCHANGED tables
    BY <1>3 DEF Next, Tick, BeginTick, EndTick, FilterEvent, RaiseRuleAlert, SkipMove, EvaluateMove,
         TryEnqueueAgent, StoreDecision, DropTrigger, Advance, CancelContext, Restart, vars
  <1> QED BY <1>1, <1>2, <1>3

LEMMA ClockStep ==
  ASSUME Sound, [Next]_vars PROVE now' \in Times /\ now' # 0 /\ now <= now'
  <1> USE DEF memory, tables, poolVars
  <1>1. now \in Times /\ now # 0
    BY DEF Sound, TypesOK
  <1>2. CASE Advance
    BY <1>1, <1>2, TimesType DEF Advance
  <1>3. ASSUME ~Advance PROVE now' = now
    BY <1>3 DEF Next, Tick, BeginTick, EndTick, FilterEvent, RaiseRuleAlert, SkipMove, EvaluateMove,
         StoreAlert, TryEnqueueAgent, StoreDecision, DropTrigger, CancelContext, Restart, vars
  <1> QED BY <1>1, <1>2, <1>3, TimesType

LEMMA SoundInit == Init => Sound
  <1> SUFFICES ASSUME Init PROVE Sound
    OBVIOUS
  <1>1. /\ now = 1 /\ phase = "running" /\ tick = Rest(0) /\ faults = {}
        /\ state = [s \in Symbols |-> Unseen] /\ stateFile = state
        /\ dedup = [k \in DedupKeys |-> None] /\ dedupFile = dedup
        /\ raised = {} /\ stored = {} /\ labs = {}
    BY DEF Init
  <1>2. Unseen \in StateRows
    BY DEF Unseen, StateRows
  <1>3. now \in Times
    BY <1>1, NumbersAssumption DEF Times
  <1>4. TypesOK /\ FilesOK
    BY <1>1, <1>2, <1>3 DEF TypesOK, FilesOK
  <1>5. Shape(tick) /\ WorkOK(tick) /\ tick.at = 0 /\ tick.alert = NoAlert
    BY <1>1, RestParts, TimesType
  <1>6. AlertOK(tick.alert)
    BY <1>5, NoAlertFields DEF AlertOK
  <1> QED BY <1>1, <1>4, <1>5, <1>6 DEF Sound

LEMMA SoundStep ==
  ASSUME Sound, [Next]_vars PROVE Sound'
  <1>1. TickKept
    BY TickStep
  <1>2. TypesOK'
    <2>1. now' \in Times /\ now' # 0
      BY ClockStep
    <2>2. faults' \subseteq FaultKinds
      BY FaultsGrow DEF Sound, TypesOK
    <2>3. raised' \subseteq AlertPayload
      BY <1>1 DEF TickKept
    <2> QED BY <2>1, <2>2, <2>3, MemoryStep, TablesStep DEF TypesOK
  <1>3. FilesOK'
    BY MemoryStep
  <1>4. Shape(tick)' /\ WorkOK(tick)' /\ AlertOK(tick.alert)' /\ (tick.at <= now)'
    BY <1>1 DEF TickKept, AlertOK, Shape, WorkOK
  <1> QED BY <1>2, <1>3, <1>4 DEF Sound

LEMMA AlwaysSound == Spec => []Sound
  <1>1. Sound /\ [Next]_vars => Sound'
    BY SoundStep
  <1> QED BY SoundInit, <1>1, PTL DEF Spec

(* Every variable has its type; what is stored has been raised, and what   *)
(* the Lab has a copy of has been stored (persistRecentAlert and its       *)
(* handler).                                                               *)
THEOREM TypeCorrect == Spec => []TypeOK
  <1>1. Sound => TypeOK
    BY DEF Sound, TypesOK, WorkOK, AlertOK, StateRows, TypeOK
  <1> QED BY <1>1, AlwaysSound, PTL
----------------------------------------------------------------------------
(* The cooldown of rules.                                                  *)

(* Something remembered has been lost: a write of the file has failed and  *)
(* the service was started anew.                                           *)
Lost == faults \cap {"stop", "crash"} # {} /\ "dedup" \in faults

Fires(a, id, s) == a.symbol = ProviderSymbol(s) /\ id \in a.rules
Key(e) == <<e.rule.id, e.symbol>>

AboutRules ==
    \A a \in raised : /\ a.at \in Nat /\ a.at <= tick.at
                      /\ a.rules # {} => \E s \in RuleSymbols : a.symbol = ProviderSymbol(s)

(* The last alert of each rule and symbol is remembered. *)
AlertsRemembered ==
    \A a \in raised, id \in RuleIds, s \in RuleSymbols :
        Fires(a, id, s) => dedup[<<id, s>>] \in Nat /\ a.at <= dedup[<<id, s>>]

(* What has fired in this tick has cooled down, and is remembered. *)
FiredCooled ==
    \A e \in tick.fired :
        /\ dedup[Key(e)] = tick.at
        /\ \A a \in raised : Fires(a, e.rule.id, e.symbol) /\ a.at < tick.at
               => tick.at - a.at >= RuleCooldown(e.rule, DefaultCooldown)

RulesInv == /\ AboutRules
            /\ ~Lost => AlertsRemembered /\ FiredCooled
            /\ RulesCoolDown

LEMMA LostStays ==
  ASSUME Sound, [Next]_vars, ~Lost' PROVE ~Lost
  BY FaultsGrow DEF Sound, TypesOK, Lost

LEMMA RuleCooldownType ==
  ASSUME NEW i \in DOMAIN Rules PROVE RuleCooldown(Rules[i], DefaultCooldown) \in Nat
  BY RulesAssumption, NumbersAssumption DEF RuleCooldown

LEMMA LeastCooldown ==
  ASSUME NEW e \in RuleEventSet
  PROVE  /\ Cooldown(e.rule.id) \in Nat /\ RuleCooldown(e.rule, DefaultCooldown) \in Nat
         /\ Cooldown(e.rule.id) <= RuleCooldown(e.rule, DefaultCooldown)
  <1> DEFINE of(id) == {i \in DOMAIN Rules : Rules[i].id = id}
             C(id) == {RuleCooldown(Rules[i], DefaultCooldown) : i \in of(id)}
             id == e.rule.id
             c == RuleCooldown(e.rule, DefaultCooldown)
  <1>1. PICK i \in DOMAIN Rules : e.rule = Rules[i]
    BY EventFields
  <1>2. i \in of(id) /\ c = RuleCooldown(Rules[i], DefaultCooldown)
    BY <1>1
  <1>3. C(id) \in SUBSET Nat /\ c \in C(id)
    BY <1>2, RuleCooldownType
  <1>4. Cooldown(id) = Min(C(id))
    BY DEF Cooldown
  <1> HIDE DEF C, c, id
  <1>5. PICK x \in C(id) : \A y \in C(id) : x <= y
    BY <1>3, LeastOf
  <1>6. Min(C(id)) \in C(id) /\ \A y \in C(id) : Min(C(id)) <= y
    BY <1>5 DEF Min
  <1>7. Cooldown(id) \in Nat /\ c \in Nat /\ Cooldown(id) <= c
    BY <1>3, <1>4, <1>6
  <1> QED BY <1>7 DEF id, c

LEMMA RulesInit == Init => RulesInv
  <1> SUFFICES ASSUME Init PROVE RulesInv
    OBVIOUS
  <1>1. raised = {} /\ tick = Rest(0)
    BY DEF Init
  <1>2. tick.fired = {}
    BY <1>1, RestParts, TimesType
  <1> QED BY <1>1, <1>2 DEF RulesInv, AboutRules, AlertsRemembered, FiredCooled, RulesCoolDown

(* A step that raises no alert of a rule and forgets nothing. *)
LEMMA RulesQuiet ==
  ASSUME Sound, RulesInv, [Next]_vars, dedup' = dedup,
         \A a \in raised' : a \in raised \/ (a.rules = {} /\ a.at \in Nat /\ a.at <= tick'.at),
         tick.at <= tick'.at, tick'.at \in Nat,
         tick'.fired = {} \/ (tick'.fired = tick.fired /\ tick'.at = tick.at)
  PROVE  RulesInv'
  <1>1. AboutRules'
    BY SoundFacts DEF RulesInv, AboutRules
  <1>2. ASSUME ~Lost' PROVE AlertsRemembered' /\ FiredCooled'
    <2>1. AlertsRemembered /\ FiredCooled
      BY <1>2, LostStays DEF RulesInv
    <2>2. AlertsRemembered'
      BY <2>1 DEF AlertsRemembered, Fires
    <2>3. FiredCooled'
      BY <2>1 DEF FiredCooled, Fires, Key
    <2> QED BY <2>2, <2>3
  <1>3. RulesCoolDown'
    <2> SUFFICES ASSUME ~Lost', NEW a \in raised', NEW b \in raised', NEW id \in a.rules \cap b.rules,
                        a.symbol = b.symbol, a.at < b.at
                 PROVE  b.at - a.at >= Cooldown(id)
      BY DEF RulesCoolDown, Lost, Cooldown
    <2>1. a \in raised /\ b \in raised
      OBVIOUS
    <2>2. ~Lost
      BY LostStays
    <2> QED BY <2>1, <2>2 DEF RulesInv, RulesCoolDown, Lost
  <1> QED BY <1>1, <1>2, <1>3 DEF RulesInv

(* The first event fires. *)
LEMMA RulesFire ==
  ASSUME Sound, RulesInv, FilterEvent, [Next]_vars,
         ~Cools(Key(Head(tick.todo)), RuleCooldown(Head(tick.todo).rule, DefaultCooldown))
  PROVE  RulesInv'
  <1> DEFINE e == Head(tick.todo)
             k == Key(e)
             c == RuleCooldown(e.rule, DefaultCooldown)
  <1>1. /\ e \in RuleEventSet /\ tick'.at = tick.at /\ tick'.fired = tick.fired \cup {e}
    BY FilterDoes DEF Key
  <1>2. k \in DedupKeys /\ c \in Nat /\ k = <<e.rule.id, e.symbol>> /\ e.rule.id \in RuleIds /\ e.symbol \in RuleSymbols
    BY <1>1, EventFields, LeastCooldown DEF Key
  <1>3. Remember(k) /\ raised' = raised
    BY DEF FilterEvent, Key
  <1>4. ~Cools(k, c)
    OBVIOUS
  <1>5. k = Key(e)
    OBVIOUS
  <1> HIDE DEF e, k, c
  <1>6. /\ dedup \in [DedupKeys -> Times \cup {None}] /\ tick.at \in Nat
        /\ dedup' = [dedup EXCEPT ![k] = tick.at]
    BY <1>3, SoundFacts DEF Sound, TypesOK, Remember
  <1>7. /\ dedup'[k] = tick.at
        /\ \A j \in DedupKeys : dedup'[j] = tick.at \/ dedup'[j] = dedup[j]
        /\ \A j \in DedupKeys : dedup[j] = tick.at => dedup'[j] = tick.at
    BY <1>2, <1>6
  <1>8. AboutRules'
    BY <1>1, <1>3 DEF RulesInv, AboutRules
  <1>9. \A a \in raised : a.at \in Nat /\ a.at <= tick.at
    BY DEF RulesInv, AboutRules
  <1>10. ASSUME ~Lost' PROVE AlertsRemembered' /\ FiredCooled'
    <2>1. AlertsRemembered /\ FiredCooled
      BY <1>10, LostStays DEF RulesInv
    <2>2. AlertsRemembered'
      <3> SUFFICES ASSUME NEW a \in raised, NEW id \in RuleIds, NEW s \in RuleSymbols, Fires(a, id, s)
                   PROVE  dedup'[<<id, s>>] \in Nat /\ a.at <= dedup'[<<id, s>>]
        BY <1>3 DEF AlertsRemembered, Fires
      <3>1. dedup[<<id, s>>] \in Nat /\ a.at <= dedup[<<id, s>>]
        BY <2>1 DEF AlertsRemembered
      <3>2. <<id, s>> \in DedupKeys
        BY DEF DedupKeys, RuleSymbols
      <3> QED BY <1>6, <1>7, <1>9, <3>1, <3>2
    <2>3. \A a \in raised : Fires(a, e.rule.id, e.symbol) => tick.at - a.at >= c
      <3> SUFFICES ASSUME NEW a \in raised, Fires(a, e.rule.id, e.symbol) PROVE tick.at - a.at >= c
        OBVIOUS
      <3>1. dedup[k] \in Nat /\ a.at <= dedup[k]
        BY <1>2, <2>1 DEF AlertsRemembered
      <3>2. tick.at - dedup[k] >= c
        BY <1>2, <1>4, <1>6, <3>1, NoneAssumption DEF Cools
      <3> QED BY <1>2, <1>6, <1>9, <3>1, <3>2
    <2>4. FiredCooled'
      <3> SUFFICES ASSUME NEW f \in tick.fired \cup {e}
                   PROVE  /\ dedup'[Key(f)] = tick.at
                          /\ \A a \in raised : Fires(a, f.rule.id, f.symbol) /\ a.at < tick.at
                                => tick.at - a.at >= RuleCooldown(f.rule, DefaultCooldown)
        BY <1>1, <1>3 DEF FiredCooled, Fires, Key
      <3>1. CASE f = e
        BY <1>5, <1>7, <2>3, <3>1 DEF c
      <3>2. CASE f \in tick.fired
        <4>1. f \in RuleEventSet
          BY <3>2, SoundFacts DEF WorkOK
        <4>2. Key(f) \in DedupKeys
          BY <4>1, EventFields DEF Key
        <4>3. dedup[Key(f)] = tick.at
          BY <2>1, <3>2 DEF FiredCooled
        <4>4. dedup'[Key(f)] = tick.at
          BY <1>7, <4>2, <4>3
        <4> QED BY <2>1, <3>2, <4>4 DEF FiredCooled
      <3> QED BY <3>1, <3>2
    <2> QED BY <2>2, <2>4
  <1>11. RulesCoolDown'
    <2> SUFFICES ASSUME ~Lost' PROVE RulesCoolDown'
      BY DEF RulesCoolDown, Lost
    <2>1. ~Lost
      BY LostStays
    <2> QED BY <1>3, <2>1 DEF RulesInv, RulesCoolDown, Lost, Cooldown
  <1> QED BY <1>8, <1>10, <1>11 DEF RulesInv

(* The events of one symbol become an alert. *)
LEMMA RulesRaise ==
  ASSUME Sound, RulesInv, NEW s \in RuleSymbols, RaiseRuleAlert(s), [Next]_vars
  PROVE  RulesInv'
  <1> DEFINE batch == {e \in tick.fired : e.symbol = s}
             new == Payload(RuleAlert(s, batch))
  <1>1. /\ tick'.at = tick.at /\ tick'.fired = tick.fired \ batch /\ raised' = raised \cup {new}
        /\ new.symbol = ProviderSymbol(s) /\ new.at = tick.at /\ new.rules = {e.rule.id : e \in batch}
    BY RaiseDoes
  <1>2. dedup' = dedup
    BY DEF RaiseRuleAlert, memory
  <1> HIDE DEF new
  <1>3. tick.at \in Nat /\ tick.fired \subseteq RuleEventSet
    BY SoundFacts DEF WorkOK
  <1>4. \A a \in raised : a.at \in Nat /\ a.at <= tick.at
    BY DEF RulesInv, AboutRules
  <1>5. AboutRules'
    BY <1>1, <1>3 DEF RulesInv, AboutRules
  <1>6. \A id \in new.rules : \E e \in tick.fired : e.symbol = s /\ e.rule.id = id
    BY <1>1
  <1>7. ASSUME ~Lost' PROVE AlertsRemembered' /\ FiredCooled'
    <2>1. AlertsRemembered /\ FiredCooled
      BY <1>7, LostStays DEF RulesInv
    <2>2. ASSUME NEW id \in RuleIds, NEW t \in RuleSymbols, Fires(new, id, t)
          PROVE  dedup[<<id, t>>] \in Nat /\ new.at <= dedup[<<id, t>>]
      <3>1. t = s
        BY <1>1, <2>2, SpellingAssumption DEF Fires, RuleSymbols
      <3>2. PICK e \in tick.fired : e.symbol = s /\ e.rule.id = id
        BY <1>6, <2>2 DEF Fires
      <3>3. dedup[<<id, s>>] = tick.at
        BY <2>1, <3>2 DEF FiredCooled, Key
      <3> QED BY <1>1, <1>3, <3>1, <3>3
    <2>3. AlertsRemembered'
      BY <1>1, <1>2, <2>1, <2>2 DEF AlertsRemembered, Fires
    <2>4. FiredCooled'
      <3> SUFFICES ASSUME NEW f \in tick.fired
                   PROVE  /\ dedup[Key(f)] = tick.at
                          /\ \A a \in raised \cup {new} : Fires(a, f.rule.id, f.symbol) /\ a.at < tick.at
                                => tick.at - a.at >= RuleCooldown(f.rule, DefaultCooldown)
        BY <1>1, <1>2 DEF FiredCooled, Fires, Key
      <3>1. ~ (new.at < tick.at)
        BY <1>1, <1>3
      <3> QED BY <2>1, <3>1 DEF FiredCooled
    <2> QED BY <2>3, <2>4
  <1>8. RulesCoolDown'
    <2> SUFFICES ASSUME ~Lost', NEW a \in raised', NEW b \in raised', NEW id \in a.rules \cap b.rules,
                        a.symbol = b.symbol, a.at < b.at
                 PROVE  b.at - a.at >= Cooldown(id)
      BY DEF RulesCoolDown, Lost, Cooldown
    <2>1. ~Lost /\ FiredCooled
      BY LostStays DEF RulesInv
    <2>2. a.at \in Nat /\ b.at \in Nat /\ a.at <= tick.at /\ b.at <= tick.at
      BY <1>1, <1>3, <1>4
    <2>3. a \in raised
      BY <1>1, <1>3, <2>2
    <2>4. CASE b \in raised
      BY <2>1, <2>3, <2>4 DEF RulesInv, RulesCoolDown, Lost
    <2>5. CASE b = new
      <3>1. PICK e \in tick.fired : e.symbol = s /\ e.rule.id = id
        BY <1>6, <2>5
      <3>2. Fires(a, e.rule.id, e.symbol) /\ a.at < tick.at
        BY <1>1, <2>5, <3>1 DEF Fires
      <3>3. tick.at - a.at >= RuleCooldown(e.rule, DefaultCooldown)
        BY <2>1, <2>3, <3>2 DEF FiredCooled
      <3>4. /\ Cooldown(id) \in Nat /\ RuleCooldown(e.rule, DefaultCooldown) \in Nat
            /\ Cooldown(id) <= RuleCooldown(e.rule, DefaultCooldown)
        BY <1>3, <3>1, LeastCooldown
      <3> QED BY <1>1, <1>3, <2>2, <2>5, <3>3, <3>4
    <2> QED BY <1>1, <2>4, <2>5
  <1> QED BY <1>5, <1>7, <1>8 DEF RulesInv

(* The service starts again, with what the file says. *)
LEMMA RulesRestart ==
  ASSUME Sound, RulesInv, Restart, [Next]_vars PROVE RulesInv'
  <1>1. dedup' = dedupFile /\ raised' = raised /\ tick' = Rest(tick.at)
    BY DEF Restart, Reload
  <1>2. tick'.at = tick.at /\ tick'.fired = {}
    BY <1>1, RestDoes
  <1>3. faults' \cap {"stop", "crash"} # {}
    <2>1. faults \subseteq faults'
      BY FaultsGrow DEF Sound, TypesOK
    <2>2. CASE phase = "canceled"
      BY <2>1, <2>2 DEF Sound, FilesOK
    <2>3. CASE Fault("crash")
      BY <2>3 DEF Fault
    <2> QED BY <2>2, <2>3 DEF Restart
  <1>4. CASE ~Lost'
    <2>1. "dedup" \notin faults
      BY <1>3, <1>4, FaultsGrow DEF Lost, Sound, TypesOK
    <2>2. dedup' = dedup
      BY <1>1, <2>1 DEF Sound, FilesOK
    <2> QED BY <1>1, <1>2, <2>2, SoundFacts, RulesQuiet
  <1>5. CASE Lost'
    <2>1. AboutRules'
      BY <1>1, <1>2 DEF RulesInv, AboutRules
    <2>2. RulesCoolDown'
      BY <1>5 DEF RulesCoolDown, Lost
    <2> QED BY <1>5, <2>1, <2>2 DEF RulesInv
  <1> QED BY <1>4, <1>5

LEMMA RulesStep ==
  ASSUME Sound, RulesInv, [Next]_vars PROVE RulesInv'
  <1> USE DEF memory, tables, poolVars
  <1>0. tick.at \in Nat /\ now \in Nat /\ tick.at <= now
    BY SoundFacts
  <1>1. CASE BeginTick
    <2>1. tick'.at = now /\ tick'.fired = {} /\ dedup' = dedup /\ raised' = raised
      BY <1>1, BeginDoes DEF BeginTick
    <2> QED BY <1>0, <2>1, RulesQuiet
  <1>2. CASE EndTick
    <2>1. tick'.at = tick.at /\ tick'.fired = {} /\ dedup' = dedup /\ raised' = raised
      BY <1>2, RestDoes DEF EndTick
    <2> QED BY <1>0, <2>1, RulesQuiet
  <1>3. CASE FilterEvent
    <2> DEFINE e == Head(tick.todo)
               cools == Cools(Key(e), RuleCooldown(e.rule, DefaultCooldown))
    <2>1. CASE ~cools
      BY <1>3, <2>1, RulesFire
    <2>2. CASE cools
      <3>1. tick'.at = tick.at /\ tick'.fired = tick.fired
        BY <1>3, <2>2, FilterDoes DEF Key
      <3>2. raised' = raised /\ dedup' = dedup
        BY <1>3, <2>2 DEF FilterEvent, Key
      <3> QED BY <1>0, <3>1, <3>2, RulesQuiet
    <2> QED BY <2>1, <2>2
  <1>4. ASSUME NEW s \in RuleSymbols, RaiseRuleAlert(s) PROVE RulesInv'
    BY <1>4, RulesRaise
  <1>5. CASE SkipMove
    <2>1. tick'.at = tick.at /\ tick'.fired = tick.fired
      BY <1>5, SkipDoes
    <2>2. raised' = raised /\ dedup' = dedup
      BY <1>5 DEF SkipMove
    <2> QED BY <1>0, <2>1, <2>2, RulesQuiet
  <1>6. ASSUME NEW p \in Prices, EvaluateMove(p) PROVE RulesInv'
    <2> DEFINE new == Payload(MoveAlert(ProviderSymbol(Head(tick.moves))))
    <2>1. /\ tick'.at = tick.at /\ tick'.fired = {} /\ new.at = tick.at /\ new.rules = {}
          /\ raised' = raised \/ raised' = raised \cup {new}
      BY <1>6, EvaluateDoes
    <2>2. dedup' = dedup
      BY <1>6 DEF EvaluateMove
    <2> HIDE DEF new
    <2>3. \A a \in raised' : a \in raised \/ (a.rules = {} /\ a.at \in Nat /\ a.at <= tick'.at)
      BY <1>0, <2>1
    <2> QED BY <1>0, <2>1, <2>2, <2>3, RulesQuiet
  <1>7. CASE StoreAlert \/ TryEnqueueAgent
    <2>1. dedup' = dedup /\ raised' = raised
      BY <1>7 DEF StoreAlert, TryEnqueueAgent
    <2>2. tick.alert.step # "done" /\ \E step \in {"agent", "done"} : Proceed(step)
      BY <1>7 DEF StoreAlert, TryEnqueueAgent
    <2>3. tick'.at = tick.at /\ tick'.fired = tick.fired
      BY <2>2, ProceedDoes
    <2> QED BY <1>0, <2>1, <2>3, RulesQuiet
  <1>8. ASSUME tick' = tick, dedup' = dedup, raised' = raised PROVE RulesInv'
    BY <1>0, <1>8, RulesQuiet
  <1>9. ASSUME NEW t \in pending, StoreDecision(t) \/ DropTrigger(t) PROVE RulesInv'
    BY <1>8, <1>9 DEF StoreDecision, DropTrigger
  <1>10. CASE Advance \/ CancelContext \/ UNCHANGED vars
    BY <1>8, <1>10 DEF Advance, CancelContext, vars
  <1>11. CASE Restart
    BY <1>11, RulesRestart
  <1> QED BY <1>1, <1>2, <1>3, <1>4, <1>5, <1>6, <1>7, <1>9, <1>10, <1>11
          DEF Next, Tick, RuleSymbols

(* A rule fires again for a symbol only after its cooldown, for any rule   *)
(* file and any snapshots and across any restarts, unless a write of the   *)
(* memory's file has failed before one (Dedup.ShouldFire with its file).   *)
THEOREM RuleCooldownsHold == Spec => []RulesCoolDown
  <1>1. Sound /\ RulesInv /\ [Next]_vars => RulesInv'
    BY RulesStep
  <1>2. RulesInv => RulesCoolDown
    BY DEF RulesInv
  <1> QED BY RulesInit, <1>1, <1>2, AlwaysSound, PTL DEF Spec
----------------------------------------------------------------------------
(* Nothing that is remembered as fired goes astray.                        *)

(* The alerts that are stored, and the one that is about to be. *)
OnItsWay == IF tick.alert.step = "store" THEN {Payload(tick.alert)} ELSE {}
Known == stored \cup OnItsWay

MovesKnown ==
    \A s \in Symbols : state[s].alertAt # None =>
        \E a \in Known : a.kind = "move" /\ a.symbol = s /\ a.at = state[s].alertAt

(* A rule that has fired is in an alert, or waits to be put into one. *)
RuleKnown(alerts, events, at, id, s, time) ==
    \/ \E a \in alerts : Fires(a, id, s) /\ a.at = time
    \/ at = time /\ \E e \in events : e.rule.id = id /\ e.symbol = s
RulesKnown ==
    \A id \in RuleIds, s \in RuleSymbols : dedup[<<id, s>>] # None =>
        RuleKnown(Known, tick.fired, tick.at, id, s, dedup[<<id, s>>])

NothingLost == faults = {} => labs = stored /\ MovesKnown /\ RulesKnown

(* As long as nothing has failed the service runs and its calls succeed. *)
LEMMA Undisturbed ==
  ASSUME Sound, [Next]_vars, faults' = {}
  PROVE  /\ faults = {} /\ phase = "running" /\ ~Restart /\ ~CancelContext
         /\ \A kind : ~Fault(kind) /\ ~CallFails(kind)
  <1>1. faults = {}
    BY FaultsGrow DEF Sound, TypesOK
  <1>2. phase = "running"
    BY <1>1 DEF Sound, FilesOK, TypesOK
  <1>3. \A kind : ~Fault(kind)
    BY DEF Fault
  <1> QED BY <1>1, <1>2, <1>3 DEF CallFails, CancelContext, Restart

(* A step that remembers nothing new and keeps what is under way. *)
LEMMA LosesNothing ==
  ASSUME NothingLost, faults = {}, labs' = stored', Known \subseteq Known',
         state' = state, dedup' = dedup,
         tick.fired = {} \/ (tick'.fired = tick.fired /\ tick'.at = tick.at)
  PROVE  NothingLost'
  <1>1. MovesKnown /\ RulesKnown
    BY DEF NothingLost
  <1>2. MovesKnown'
    BY <1>1 DEF MovesKnown
  <1>3. RulesKnown'
    <2>1. ASSUME NEW id \in RuleIds, NEW s \in RuleSymbols, dedup[<<id, s>>] # None
          PROVE  RuleKnown(Known', tick'.fired, tick'.at, id, s, dedup[<<id, s>>])
      BY <1>1, <2>1 DEF RulesKnown, RuleKnown
    <2>2. \A id \in RuleIds, s \in RuleSymbols :
            dedup'[<<id, s>>] # None
              => RuleKnown(Known', tick'.fired, tick'.at, id, s, dedup'[<<id, s>>])
      BY <2>1
    <2> QED BY <2>2 DEF RulesKnown, RuleKnown, Fires
  <1> QED BY <1>2, <1>3 DEF NothingLost

LEMMA KnownWithoutAlert ==
  /\ tick.alert = NoAlert => Known = stored
  /\ tick'.alert = NoAlert => Known' = stored'
  <1>1. NoAlert.step # "store"
    BY NoAlertFields
  <1> QED BY <1>1 DEF Known, OnItsWay

LEMMA LostFire ==
  ASSUME Sound, NothingLost, FilterEvent, faults = {}, labs' = stored', stored' = stored,
         ~Cools(Key(Head(tick.todo)), RuleCooldown(Head(tick.todo).rule, DefaultCooldown))
  PROVE  NothingLost'
  <1> DEFINE e == Head(tick.todo)
             k == Key(e)
  <1>1. /\ e \in RuleEventSet /\ tick'.at = tick.at /\ tick'.fired = tick.fired \cup {e}
        /\ tick.alert = NoAlert /\ tick'.alert = NoAlert
    BY FilterDoes DEF Key
  <1>2. Remember(k) /\ state' = state
    BY DEF FilterEvent, Key
  <1>3. k = <<e.rule.id, e.symbol>> /\ k \in DedupKeys
    BY <1>1, EventFields DEF Key
  <1> HIDE DEF e, k
  <1>4. /\ dedup \in [DedupKeys -> Times \cup {None}] /\ dedup' = [dedup EXCEPT ![k] = tick.at]
    BY <1>2 DEF Sound, TypesOK, Remember
  <1>5. dedup'[k] = tick.at /\ \A j \in DedupKeys : j # k => dedup'[j] = dedup[j]
    BY <1>3, <1>4
  <1>6. Known' = Known
    BY <1>1, KnownWithoutAlert
  <1>7. MovesKnown /\ RulesKnown
    BY DEF NothingLost
  <1>8. MovesKnown'
    BY <1>2, <1>6, <1>7 DEF MovesKnown
  <1>9. RulesKnown'
    <2>1. ASSUME NEW id \in RuleIds, NEW s \in RuleSymbols, dedup'[<<id, s>>] # None
          PROVE  RuleKnown(Known', tick'.fired, tick'.at, id, s, dedup'[<<id, s>>])
      <3>1. <<id, s>> \in DedupKeys
        BY DEF DedupKeys, RuleSymbols
      <3>2. CASE <<id, s>> = k
        <4>1. e.rule.id = id /\ e.symbol = s /\ e \in tick'.fired
          BY <1>1, <1>3, <3>2
        <4> QED BY <1>1, <1>5, <3>2, <4>1 DEF RuleKnown
      <3>3. CASE <<id, s>> # k
        <4>1. dedup'[<<id, s>>] = dedup[<<id, s>>]
          BY <1>5, <3>1, <3>3
        <4>2. RuleKnown(Known, tick.fired, tick.at, id, s, dedup'[<<id, s>>])
          BY <1>7, <2>1, <4>1 DEF RulesKnown
        <4> QED BY <1>1, <1>6, <4>2 DEF RuleKnown
      <3> QED BY <3>2, <3>3
    <2> QED BY <2>1 DEF RulesKnown, RuleKnown, Fires
  <1> QED BY <1>8, <1>9 DEF NothingLost

LEMMA LostRaise ==
  ASSUME Sound, NothingLost, NEW t \in RuleSymbols, RaiseRuleAlert(t), faults = {}
  PROVE  NothingLost'
  <1> DEFINE batch == {e \in tick.fired : e.symbol = t}
             new == Payload(RuleAlert(t, batch))
  <1>1. /\ tick'.at = tick.at /\ tick'.fired = tick.fired \ batch /\ tick.alert = NoAlert
        /\ tick'.alert.step = "store" /\ Payload(tick'.alert) = new
        /\ new.symbol = ProviderSymbol(t) /\ new.at = tick.at /\ new.rules = {e.rule.id : e \in batch}
    BY RaiseDoes
  <1>2. state' = state /\ dedup' = dedup /\ stored' = stored /\ labs' = labs
    BY DEF RaiseRuleAlert, memory, tables
  <1> HIDE DEF new
  <1>3. Known = stored /\ Known' = stored \cup {new}
    BY <1>1, <1>2, KnownWithoutAlert DEF Known, OnItsWay
  <1>4. labs = stored /\ MovesKnown /\ RulesKnown
    BY DEF NothingLost
  <1>5. MovesKnown'
    BY <1>2, <1>3, <1>4 DEF MovesKnown
  <1>6. RulesKnown'
    <2>1. ASSUME NEW id \in RuleIds, NEW s \in RuleSymbols, dedup[<<id, s>>] # None
          PROVE  RuleKnown(Known', tick'.fired, tick'.at, id, s, dedup[<<id, s>>])
      <3>1. CASE \E a \in Known : Fires(a, id, s) /\ a.at = dedup[<<id, s>>]
        BY <1>3, <3>1 DEF RuleKnown
      <3>2. ASSUME NEW e \in tick.fired, e.rule.id = id, e.symbol = s, tick.at = dedup[<<id, s>>]
            PROVE  RuleKnown(Known', tick'.fired, tick'.at, id, s, dedup[<<id, s>>])
        <4>1. CASE s # t
          <5>1. e \in tick'.fired
            BY <1>1, <3>2, <4>1
          <5> QED BY <1>1, <3>2, <5>1 DEF RuleKnown
        <4>2. CASE s = t
          <5>1. id \in new.rules
            BY <1>1, <3>2, <4>2
          <5>2. Fires(new, id, s) /\ new.at = dedup[<<id, s>>] /\ new \in Known'
            BY <1>1, <1>3, <3>2, <4>2, <5>1 DEF Fires
          <5> QED BY <5>2 DEF RuleKnown
        <4> QED BY <4>1, <4>2
      <3> QED BY <1>4, <2>1, <3>1, <3>2 DEF RulesKnown, RuleKnown
    <2>2. \A id \in RuleIds, s \in RuleSymbols :
            dedup'[<<id, s>>] # None
              => RuleKnown(Known', tick'.fired, tick'.at, id, s, dedup'[<<id, s>>])
      BY <1>2, <2>1
    <2> QED BY <2>2 DEF RulesKnown, RuleKnown, Fires
  <1> QED BY <1>2, <1>4, <1>5, <1>6 DEF NothingLost

LEMMA LostEvaluate ==
  ASSUME Sound, NothingLost, NEW p \in Prices, EvaluateMove(p), [Next]_vars, faults' = {}
  PROVE  NothingLost'
  <1> DEFINE s == ProviderSymbol(Head(tick.moves))
             new == Payload(MoveAlert(s))
  <1>1. faults = {} /\ ~Fault("write")
    BY Undisturbed
  <1>2. /\ s \in Symbols /\ tick.alert = NoAlert /\ tick.fired = {}
        /\ state' = [state EXCEPT ![s] = Entry(s, p)]
        /\ new.kind = "move" /\ new.symbol = s /\ new.at = tick.at
        /\ \/ /\ Alerts(s, p) /\ tick'.alert.step = "store" /\ Payload(tick'.alert) = new
           \/ ~Alerts(s, p) /\ tick'.alert = NoAlert
    BY <1>1, EvaluateDoes
  <1>3. dedup' = dedup /\ stored' = stored /\ labs' = labs
    BY DEF EvaluateMove, tables
  <1> HIDE DEF new, s
  <1>4. Known = stored
    BY <1>2, KnownWithoutAlert
  <1>5. \/ Alerts(s, p) /\ Known' = stored \cup {new}
        \/ ~Alerts(s, p) /\ Known' = stored
    BY <1>2, <1>3, KnownWithoutAlert DEF Known, OnItsWay
  <1>6. labs = stored /\ MovesKnown /\ RulesKnown
    BY <1>1 DEF NothingLost
  <1>7. /\ \A r \in Symbols : r # s => state'[r] = state[r]
        /\ state'[s].alertAt = IF Alerts(s, p) THEN tick.at ELSE state[s].alertAt
    <2>1. state \in [Symbols -> StateRows]
      BY DEF Sound, TypesOK
    <2>2. Entry(s, p).alertAt = IF Alerts(s, p) THEN tick.at ELSE state[s].alertAt
      BY DEF Entry
    <2> QED BY <1>2, <2>1, <2>2
  <1>8. MovesKnown'
    <2> SUFFICES ASSUME NEW r \in Symbols, state'[r].alertAt # None
                 PROVE  \E a \in Known' : a.kind = "move" /\ a.symbol = r /\ a.at = state'[r].alertAt
      BY DEF MovesKnown
    <2>1. CASE state'[r].alertAt = state[r].alertAt
      BY <1>4, <1>5, <1>6, <2>1 DEF MovesKnown
    <2>2. CASE r = s /\ Alerts(s, p)
      <3>1. new \in Known' /\ new.at = state'[r].alertAt
        BY <1>2, <1>5, <1>7, <2>2
      <3> QED BY <1>2, <2>2, <3>1
    <2> QED BY <1>7, <2>1, <2>2
  <1>9. RulesKnown'
    BY <1>2, <1>3, <1>4, <1>5, <1>6 DEF RulesKnown, RuleKnown, Fires
  <1> QED BY <1>3, <1>6, <1>8, <1>9 DEF NothingLost

LEMMA LostStore ==
  ASSUME Sound, NothingLost, StoreAlert, [Next]_vars, faults' = {}
  PROVE  NothingLost'
  <1> DEFINE new == Payload(tick.alert)
  <1>1. faults = {} /\ ~CallFails("store")
    BY Undisturbed
  <1>2. tick.alert.step = "store" /\ labs = stored
    BY <1>1 DEF StoreAlert, NothingLost
  <1>3. stored' = stored \cup {new} /\ labs' = labs \cup {new}
    BY <1>1 DEF StoreAlert, InsertRecentAlert, RecordLabSignal
  <1>4. state' = state /\ dedup' = dedup
    BY DEF StoreAlert, memory
  <1>5. tick'.fired = tick.fired /\ tick'.at = tick.at
    <2>1. PICK step \in {"agent", "done"} : Proceed(step)
      BY DEF StoreAlert
    <2> QED BY <1>2, <2>1, ProceedDoes
  <1> HIDE DEF new
  <1>6. Known = stored \cup {new}
    BY <1>2 DEF Known, OnItsWay, new
  <1>7. Known \subseteq Known'
    BY <1>3, <1>6 DEF Known
  <1> QED BY <1>1, <1>2, <1>3, <1>4, <1>5, <1>7, LosesNothing

LEMMA LostStep ==
  ASSUME Sound, NothingLost, [Next]_vars PROVE NothingLost'
  <1> SUFFICES ASSUME faults' = {} PROVE NothingLost'
    BY DEF NothingLost
  <1> USE DEF memory, tables, poolVars
  <1>0. /\ faults = {} /\ phase = "running" /\ ~Restart /\ ~CancelContext
        /\ \A kind : ~Fault(kind) /\ ~CallFails(kind)
        /\ labs = stored
    BY Undisturbed DEF NothingLost
  <1>1. CASE BeginTick \/ EndTick
    <2>1. tick.fired = {} /\ tick.alert = NoAlert
      BY <1>1, SoundFacts DEF WorkOK, BeginTick, EndTick, Between
    <2>2. state' = state /\ dedup' = dedup /\ stored' = stored /\ labs' = labs
      BY <1>1 DEF BeginTick, EndTick
    <2>3. Known \subseteq Known'
      BY <2>1, <2>2, KnownWithoutAlert DEF Known
    <2> QED BY <1>0, <2>1, <2>2, <2>3, LosesNothing
  <1>2. CASE FilterEvent
    <2> DEFINE cools == Cools(Key(Head(tick.todo)), RuleCooldown(Head(tick.todo).rule, DefaultCooldown))
    <2>1. state' = state /\ stored' = stored /\ labs' = labs
      BY <1>2 DEF FilterEvent
    <2>2. CASE ~cools
      BY <1>0, <1>2, <2>1, <2>2, LostFire
    <2>3. CASE cools
      <3>1. dedup' = dedup
        BY <1>2, <2>3 DEF FilterEvent, Key
      <3>2. /\ tick'.fired = tick.fired /\ tick'.at = tick.at
            /\ tick.alert = NoAlert /\ tick'.alert = NoAlert
        BY <1>2, <2>3, FilterDoes DEF Key
      <3>3. Known \subseteq Known'
        BY <2>1, <3>2, KnownWithoutAlert
      <3> QED BY <1>0, <2>1, <3>1, <3>2, <3>3, LosesNothing
    <2> QED BY <2>2, <2>3
  <1>3. ASSUME NEW s \in RuleSymbols, RaiseRuleAlert(s) PROVE NothingLost'
    BY <1>0, <1>3, LostRaise
  <1>4. CASE SkipMove
    <2>1. /\ tick'.fired = tick.fired /\ tick'.at = tick.at
          /\ tick.alert = NoAlert /\ tick'.alert = NoAlert
      BY <1>4, SkipDoes
    <2>2. state' = state /\ dedup' = dedup /\ stored' = stored /\ labs' = labs
      BY <1>4 DEF SkipMove
    <2>3. Known \subseteq Known'
      BY <2>1, <2>2, KnownWithoutAlert
    <2> QED BY <1>0, <2>1, <2>2, <2>3, LosesNothing
  <1>5. ASSUME NEW p \in Prices, EvaluateMove(p) PROVE NothingLost'
    BY <1>5, LostEvaluate
  <1>6. CASE StoreAlert
    BY <1>6, LostStore
  <1>7. CASE TryEnqueueAgent
    <2>1. tick.alert.step = "agent" /\ Proceed("done")
      BY <1>7 DEF TryEnqueueAgent
    <2>2. tick'.fired = tick.fired /\ tick'.at = tick.at
      BY <2>1, ProceedDoes
    <2>3. state' = state /\ dedup' = dedup /\ stored' = stored /\ labs' = labs
      BY <1>7 DEF TryEnqueueAgent
    <2>4. Known \subseteq Known'
      BY <2>1, <2>3 DEF Known, OnItsWay
    <2> QED BY <1>0, <2>2, <2>3, <2>4, LosesNothing
  <1>8. ASSUME tick' = tick, state' = state, dedup' = dedup, stored' = stored, labs' = labs
        PROVE  NothingLost'
    <2>1. Known' = Known
      BY <1>8 DEF Known, OnItsWay
    <2> QED BY <1>0, <1>8, <2>1, LosesNothing
  <1>9. ASSUME NEW t \in pending, StoreDecision(t) \/ DropTrigger(t) PROVE NothingLost'
    BY <1>8, <1>9 DEF StoreDecision, DropTrigger
  <1>10. CASE Advance \/ UNCHANGED vars
    BY <1>8, <1>10 DEF Advance, vars
  <1> QED BY <1>0, <1>1, <1>2, <1>3, <1>4, <1>5, <1>6, <1>7, <1>9, <1>10 DEF Next, Tick, RuleSymbols

LEMMA LostInit == Init => NothingLost
  <1> SUFFICES ASSUME Init PROVE NothingLost
    OBVIOUS
  <1>1. /\ labs = {} /\ stored = {}
        /\ state = [s \in Symbols |-> Unseen] /\ dedup = [k \in DedupKeys |-> None]
    BY DEF Init
  <1>2. MovesKnown
    BY <1>1 DEF MovesKnown, Unseen
  <1>3. RulesKnown
    <2>1. \A id \in RuleIds, s \in RuleSymbols : <<id, s>> \in DedupKeys
      BY DEF DedupKeys, RuleSymbols
    <2> QED BY <1>1, <2>1 DEF RulesKnown
  <1> QED BY <1>1, <1>2, <1>3 DEF NothingLost

(* Between ticks and as long as nothing has failed, whatever is remembered *)
(* as fired is in recent_alerts and has its copy for the Lab: the gate     *)
(* after Evaluate and the grouping after ShouldFire lose no alert.         *)
THEOREM AlertsAreKept == Spec => []NothingSwallowed
  <1>1. Sound /\ NothingLost /\ [Next]_vars => NothingLost'
    BY LostStep
  <1>2. Sound /\ NothingLost => NothingSwallowed
    <2> SUFFICES ASSUME Sound, NothingLost, ~tick.running, faults = {}
                 PROVE  NothingSwallowed
      BY DEF NothingSwallowed
    <2>1. tick.fired = {} /\ tick.alert = NoAlert
      BY SoundFacts DEF WorkOK
    <2>2. Known = stored
      BY <2>1, KnownWithoutAlert
    <2>3. labs = stored /\ MovesKnown /\ RulesKnown
      BY DEF NothingLost
    <2>4. ASSUME NEW k \in DedupKeys, dedup[k] # None
          PROVE  \E a \in stored : /\ a.symbol = ProviderSymbol(k[2])
                                   /\ k[1] \in a.rules /\ a.at = dedup[k]
      <3>1. k = <<k[1], k[2]>> /\ k[1] \in RuleIds /\ k[2] \in RuleSymbols
        BY DEF DedupKeys, RuleSymbols
      <3>2. PICK a \in stored : Fires(a, k[1], k[2]) /\ a.at = dedup[<<k[1], k[2]>>]
        BY <2>1, <2>2, <2>3, <2>4, <3>1 DEF RulesKnown, RuleKnown
      <3> QED BY <3>1, <3>2 DEF Fires
    <2>5. \A s \in Symbols : state[s].alertAt # None =>
              \E a \in stored : a.kind = "move" /\ a.symbol = s /\ a.at = state[s].alertAt
      BY <2>2, <2>3 DEF MovesKnown
    <2> QED BY <2>3, <2>4, <2>5 DEF NothingSwallowed
  <1> QED BY LostInit, <1>1, <1>2, AlwaysSound, PTL DEF Spec
----------------------------------------------------------------------------
(* The daily limit of the agent.                                           *)

Triggers == decisions \cup pending

(* Orderly, of the triggers that may yet become decisions too. *)
OrderlyTriggers(s, x) == {d \in Triggers : /\ d.symbol = s /\ ~d.queued /\ d.counted # None
                                           /\ d.at >= x /\ d.counted <= x + UnitsPerDay}

TriggersOK == /\ IsFiniteSet(decisions) /\ IsFiniteSet(pending)
              /\ \A d \in Triggers : d.at \in Nat /\ (d.counted = None \/ d.counted \in Nat)
Capped == MaxPerDay > 0 =>
              \A s \in Symbols, x \in Times : Cardinality(OrderlyTriggers(s, x)) <= MaxPerDay
CapInv == TriggersOK /\ Capped

(* The steps after which there are no more triggers than before. *)
LEMMA NoMoreTriggers ==
  ASSUME CapInv, Triggers' \subseteq Triggers, IsFiniteSet(decisions'), IsFiniteSet(pending')
  PROVE  CapInv'
  <1>1. TriggersOK'
    BY DEF CapInv, TriggersOK
  <1>2. ASSUME MaxPerDay > 0, NEW s \in Symbols, NEW x \in Times
        PROVE  Cardinality(OrderlyTriggers(s, x)') <= MaxPerDay
    <2> DEFINE old == OrderlyTriggers(s, x)
               new == OrderlyTriggers(s, x)'
    <2>1. new \subseteq old /\ old \subseteq Triggers
      BY DEF OrderlyTriggers
    <2>2. IsFiniteSet(Triggers)
      BY FS_Union DEF CapInv, TriggersOK, Triggers
    <2>3. Cardinality(old) <= MaxPerDay
      BY <1>2 DEF CapInv, Capped
    <2> HIDE DEF old, new
    <2>4. IsFiniteSet(old)
      BY <2>1, <2>2, FS_Subset
    <2>5. Cardinality(new) <= Cardinality(old) /\ Cardinality(new) \in Nat /\ Cardinality(old) \in Nat
      BY <2>1, <2>4, FS_Subset, FS_CardinalityType
    <2>6. Cardinality(new) <= MaxPerDay
      BY <2>3, <2>5, NumbersAssumption
    <2> QED BY <2>6 DEF new
  <1>3. Capped'
    BY <1>2 DEF Capped
  <1> QED BY <1>1, <1>3 DEF CapInv

(* A trigger is added: one that was counted, with none of its symbol under *)
(* way, is within the limit together with what the count has seen.         *)
LEMMA CapEnqueue ==
  ASSUME Sound, CapInv, TryEnqueueAgent PROVE CapInv'
  <1> DEFINE a == tick.alert
  <1>1. decisions' = decisions /\ a.at \in Nat
    <2>1. a.step # "done" /\ decisions' = decisions
      BY DEF TryEnqueueAgent
    <2>2. Payload(a) \in AlertPayload /\ Payload(a).at = a.at
      BY <2>1, SoundFacts, PayloadFields
    <2>3. a.at \in Times
      BY <2>2 DEF AlertPayload
    <2> QED BY <2>1, <2>3, TimesType
  <1>2. PICK counted \in {now, None} :
             \/ pending' = pending
             \/ /\ pending' = pending \cup {Trigger(a, counted)}
                /\ counted = now => ~AtCap(a.symbol, DecisionsCount(a.symbol))
    BY NoneAssumption, SoundFacts DEF TryEnqueueAgent
  <1> HIDE DEF a
  <1>3. CASE pending' = pending
    <2>1. Triggers' = Triggers
      BY <1>1, <1>3 DEF Triggers
    <2>2. IsFiniteSet(decisions') /\ IsFiniteSet(pending')
      BY <1>1, <1>3 DEF CapInv, TriggersOK
    <2> QED BY <2>1, <2>2, NoMoreTriggers
  <1>4. CASE /\ pending' = pending \cup {Trigger(a, counted)}
             /\ counted = now => ~AtCap(a.symbol, DecisionsCount(a.symbol))
    <2> DEFINE t == Trigger(a, counted)
    <2>1. /\ t.symbol = a.symbol /\ t.at = a.at /\ t.counted = counted
          /\ t.queued = (\E d \in pending : d.symbol = a.symbol)
      BY DEF Trigger
    <2>2. Triggers' = Triggers \cup {t}
      BY <1>1, <1>4 DEF Triggers
    <2>3. pending' = pending \cup {t}
      BY <1>4
    <2> HIDE DEF t
    <2>4. IsFiniteSet(decisions') /\ IsFiniteSet(pending') /\ IsFiniteSet(Triggers)
      BY <1>1, <2>3, FS_AddElement, FS_Union DEF CapInv, TriggersOK, Triggers
    <2>5. TriggersOK'
      BY <1>1, <2>1, <2>2, <2>4, SoundFacts DEF CapInv, TriggersOK
    <2>6. ASSUME MaxPerDay > 0, NEW s \in Symbols, NEW x \in Times
          PROVE  Cardinality(OrderlyTriggers(s, x)') <= MaxPerDay
      <3> DEFINE old == OrderlyTriggers(s, x)
                 new == OrderlyTriggers(s, x)'
                 seen == {d \in decisions : d.symbol = s /\ InLastDay(d)}
      <3>1. old \subseteq Triggers /\ new \subseteq old \cup {t}
        BY <2>2 DEF OrderlyTriggers
      <3>2. IsFiniteSet(old) /\ Cardinality(old) \in Nat
        BY <2>4, <3>1, FS_Subset, FS_CardinalityType
      <3>3. Cardinality(old) <= MaxPerDay
        BY <2>6 DEF CapInv, Capped
      <3>4. CASE t \notin new
        <4>1. new \subseteq old
          BY <3>1, <3>4
        <4> HIDE DEF old, new
        <4>2. Cardinality(new) <= Cardinality(old) /\ Cardinality(new) \in Nat
          BY <3>2, <4>1, FS_Subset, FS_CardinalityType
        <4>3. Cardinality(new) <= MaxPerDay
          BY <3>2, <3>3, <4>2, NumbersAssumption
        <4> QED BY <4>3 DEF new
      <3>5. CASE t \in new
        <4>1. a.symbol = s /\ ~t.queued /\ counted # None /\ counted <= x + UnitsPerDay
          BY <2>1, <3>5 DEF OrderlyTriggers
        <4>2. counted = now /\ now - UnitsPerDay <= x /\ \A d \in pending : d.symbol # s
          <5>1. counted = now
            BY <4>1
          <5> QED BY <2>1, <4>1, <5>1, SoundFacts, TimesType, NumbersAssumption
        <4>3. old \subseteq seen
          <5> SUFFICES ASSUME NEW d \in old PROVE d \in seen
            OBVIOUS
          <5>1. d \in Triggers /\ d.symbol = s /\ d.at >= x /\ d.at \in Nat
            BY DEF OrderlyTriggers, CapInv, TriggersOK
          <5>2. d \in decisions
            BY <4>2, <5>1 DEF Triggers
          <5>3. d.at >= now - UnitsPerDay
            BY <4>2, <5>1, SoundFacts, TimesType, NumbersAssumption
          <5> QED BY <5>1, <5>2, <5>3 DEF InLastDay
        <4>4. ~AtCap(s, Cardinality(seen))
          BY <1>4, <4>1, <4>2 DEF DecisionsCount
        <4>5. AgentCapApplies(s)
          BY SpellingAssumption DEF AgentCapApplies
        <4>6. IsFiniteSet(seen)
          <5>1. seen \subseteq decisions
            OBVIOUS
          <5> QED BY <5>1, FS_Subset DEF CapInv, TriggersOK
        <4> HIDE DEF old, new, seen
        <4>7. Cardinality(seen) < MaxPerDay /\ Cardinality(seen) \in Nat
          BY <2>6, <4>4, <4>5, <4>6, FS_CardinalityType, NumbersAssumption DEF AtCap
        <4>8. Cardinality(old) <= Cardinality(seen)
          BY <4>3, <4>6, FS_Subset
        <4>9. IsFiniteSet(old \cup {t}) /\ Cardinality(old \cup {t}) <= Cardinality(old) + 1
          <5>1. IsFiniteSet(old) /\ Cardinality(old) \in Nat
            BY <3>2
          <5> HIDE DEF t
          <5>2. /\ IsFiniteSet(old \cup {t})
                /\ Cardinality(old \cup {t}) = Cardinality(old) \/ Cardinality(old \cup {t}) = Cardinality(old) + 1
            BY <5>1, FS_AddElement
          <5> QED BY <5>1, <5>2
        <4>10. Cardinality(new) <= Cardinality(old \cup {t}) /\ Cardinality(new) \in Nat
               /\ Cardinality(old \cup {t}) \in Nat
          BY <3>1, <4>9, FS_Subset, FS_CardinalityType
        <4>11. Cardinality(new) <= MaxPerDay
          BY <3>2, <4>7, <4>8, <4>9, <4>10, NumbersAssumption
        <4> QED BY <4>11 DEF new
      <3> QED BY <3>4, <3>5
    <2>7. Capped'
      BY <2>6 DEF Capped
    <2> QED BY <2>5, <2>7 DEF CapInv
  <1> QED BY <1>2, <1>3, <1>4

LEMMA CapStep ==
  ASSUME Sound, CapInv, [Next]_vars PROVE CapInv'
  <1> USE DEF memory, tables, poolVars
  <1>0. IsFiniteSet(decisions) /\ IsFiniteSet(pending)
    BY DEF CapInv, TriggersOK
  <1>1. CASE TryEnqueueAgent
    BY <1>1, CapEnqueue
  <1>2. ASSUME NEW t \in pending, StoreDecision(t) \/ DropTrigger(t) PROVE CapInv'
    <2>1. pending' = pending \ {t} /\ (decisions' = decisions \/ decisions' = decisions \cup {t})
      BY <1>2 DEF StoreDecision, DropTrigger
    <2>2. Triggers' \subseteq Triggers
      BY <2>1 DEF Triggers
    <2>3. IsFiniteSet(decisions') /\ IsFiniteSet(pending')
      BY <1>0, <2>1, FS_AddElement, FS_RemoveElement
    <2> QED BY <2>2, <2>3, NoMoreTriggers
  <1>3. ASSUME UNCHANGED <<pending, decisions>> PROVE CapInv'
    <2>1. Triggers' = Triggers
      BY <1>3 DEF Triggers
    <2> QED BY <1>0, <1>3, <2>1, NoMoreTriggers
  <1>4. ASSUME ~TryEnqueueAgent, ~ \E t \in pending : StoreDecision(t) \/ DropTrigger(t)
        PROVE  UNCHANGED <<pending, decisions>>
    BY <1>4 DEF Next, Tick, BeginTick, EndTick, FilterEvent, RaiseRuleAlert, SkipMove, EvaluateMove,
         StoreAlert, Advance, CancelContext, Restart, vars
  <1> QED BY <1>1, <1>2, <1>3, <1>4

LEMMA CapInit == Init => CapInv
  <1> SUFFICES ASSUME Init PROVE CapInv
    OBVIOUS
  <1>1. decisions = {} /\ pending = {}
    BY DEF Init
  <1>2. Triggers = {} /\ \A s, x : OrderlyTriggers(s, x) = {}
    BY <1>1 DEF Triggers, OrderlyTriggers
  <1>3. TriggersOK
    BY <1>1, <1>2, FS_EmptySet DEF TriggersOK
  <1>4. Capped
    BY <1>2, FS_EmptySet, NumbersAssumption DEF Capped
  <1> QED BY <1>3, <1>4 DEF CapInv

(* The daily limit of a symbol is exceeded only by triggers enqueued       *)
(* behind another one of the symbol, or whose count failed, for any limit, *)
(* length of the day and disturbances (tryEnqueueAgent counts decisions    *)
(* that are stored, not those under way).                                  *)
THEOREM CapExceededByBacklog == Spec => []CapNeedsBacklog
  <1>1. Sound /\ CapInv /\ [Next]_vars => CapInv'
    BY CapStep
  <1>2. CapInv => CapNeedsBacklog
    <2> SUFFICES ASSUME CapInv, MaxPerDay > 0, NEW s \in Symbols, NEW x \in Times
                 PROVE  Cardinality(Orderly(s, x)) <= MaxPerDay
      BY DEF CapNeedsBacklog
    <2> DEFINE old == OrderlyTriggers(s, x)
               done == Orderly(s, x)
    <2>1. done \subseteq old /\ old \subseteq Triggers
      BY DEF Orderly, OrderlyTriggers, Triggers
    <2>2. IsFiniteSet(Triggers)
      BY FS_Union DEF CapInv, TriggersOK, Triggers
    <2>3. Cardinality(old) <= MaxPerDay
      BY DEF CapInv, Capped
    <2> HIDE DEF old, done
    <2>4. IsFiniteSet(old)
      BY <2>1, <2>2, FS_Subset
    <2>5. Cardinality(done) <= Cardinality(old) /\ Cardinality(done) \in Nat /\ Cardinality(old) \in Nat
      BY <2>1, <2>4, FS_Subset, FS_CardinalityType
    <2>6. Cardinality(done) <= MaxPerDay
      BY <2>3, <2>5, NumbersAssumption
    <2> QED BY <2>6 DEF done
  <1> QED BY CapInit, <1>1, <1>2, AlwaysSound, PTL DEF Spec
=============================================================================
