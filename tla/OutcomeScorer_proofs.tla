------------------------ MODULE OutcomeScorer_proofs ------------------------
(***************************************************************************)
(* Proofs about the outcome scorer, for any number of scorers, decisions,  *)
(* horizons and failures, any prices and any pages and batches.            *)
(*                                                                         *)
(* Outcomes are final: two scorers that have taken the same pair, at       *)
(* different times and with different prices, leave one outcome of it,     *)
(* because the insert itself looks (Single).                               *)
(*                                                                         *)
(* What they are computed from is right: a pair that a scorer has taken is *)
(* due (PairOK), so the snapshots before its decision no longer change and *)
(* what was read of them in one step is still true when it is inserted in  *)
(* another (PricedOK); that the candles of several requests are those of   *)
(* one (Complete) bounds the prices.  Inv says so of every scorer and of   *)
(* every outcome.                                                          *)
(***************************************************************************)
EXTENDS OutcomeScorer, SequenceTheorems, DataTheorems

(* No pair has two outcomes. *)
Single == \A o, x \in outcomes : o.pair = x.pair => o = x

(* All that a step can do to the outcomes. *)
LEMMA OutcomesOnlyInserted ==
  ASSUME Next
  PROVE  UNCHANGED outcomes \/ \E s \in Scorers : InsertOutcome(Outcome(s))
  <1>1. ASSUME NEW s \in Scorers, Work(s)
        PROVE  UNCHANGED outcomes \/ InsertOutcome(Outcome(s))
    <2>1. CASE StartTick(s) \/ ReadEnd(s)
      BY <2>1 DEF StartTick, ReadEnd, TablesUnchanged
    <2>2. ASSUME NEW p \in scorer[s].batch, FetchPrices(s, p) \/ ReadStart(s, p)
          PROVE  UNCHANGED outcomes
      BY <2>2 DEF FetchPrices, ReadStart, TablesUnchanged
    <2>3. CASE Insert(s)
      BY <2>3 DEF Insert
    <2> QED BY <1>1, <2>1, <2>2, <2>3 DEF Work
  <1>2. ASSUME NEW s \in Scorers, Crash(s) PROVE UNCHANGED outcomes
    BY <1>2 DEF Crash, TablesUnchanged
  <1>3. ASSUME NEW x \in Symbols, NEW a \in Actions, StoreDecision(x, a)
        PROVE  UNCHANGED outcomes
    BY <1>3 DEF StoreDecision
  <1>4. CASE PostSnapshot \/ Advance
    BY <1>4 DEF PostSnapshot, Advance
  <1> QED BY <1>1, <1>2, <1>3, <1>4 DEF Next

LEMMA InsertKeeps ==
  ASSUME NEW o, Single, InsertOutcome(o)
  PROVE  outcomes \subseteq outcomes' /\ Single'
  BY DEF Single, InsertOutcome, Scored

LEMMA SingleKept ==
  ASSUME Single, [Next]_vars
  PROVE  outcomes \subseteq outcomes' /\ Single'
  <1>1. CASE UNCHANGED outcomes
    BY <1>1 DEF Single
  <1>2. ASSUME NEW s \in Scorers, InsertOutcome(Outcome(s))
        PROVE  outcomes \subseteq outcomes' /\ Single'
    BY <1>2, InsertKeeps
  <1> QED BY <1>1, <1>2, OutcomesOnlyInserted DEF vars

LEMMA OneEach ==
  ASSUME NEW S, \A o, x \in S : o.pair = x.pair => o = x, NEW p
  PROVE  Cardinality({o \in S : o.pair = p}) <= 1
  <1> DEFINE T == {o \in S : o.pair = p}
  <1>1. CASE T = {}
    BY <1>1, FS_EmptySet
  <1>2. ASSUME NEW o \in T PROVE Cardinality(T) = 1
    <2>1. T = {o}
      OBVIOUS
    <2> QED BY <2>1, FS_Singleton
  <1> QED BY <1>1, <1>2

(* What has been scored stays, and no pair is scored twice, whichever      *)
(* scorer comes second: InsertAgentDecisionOutcome.                        *)
THEOREM ScoresStay == Spec => OutcomesAreFinal
  <1> DEFINE Final == /\ outcomes \subseteq outcomes'
                      /\ \A p \in Pairs' : Cardinality({o \in outcomes' : o.pair = p}) <= 1
  <1>1. Init => Single
    BY DEF Init, Single
  <1>2. Single /\ [Next]_vars => Single'
    BY SingleKept
  <1>3. Single /\ [Next]_vars => [Final]_vars
    <2> SUFFICES ASSUME Single, [Next]_vars PROVE Final
      OBVIOUS
    <2>1. outcomes \subseteq outcomes' /\ Single'
      BY SingleKept
    <2>2. \A p : Cardinality({o \in outcomes' : o.pair = p}) <= 1
      BY <2>1, OneEach DEF Single
    <2> QED BY <2>1, <2>2
  <1> QED BY <1>1, <1>2, <1>3, PTL DEF Spec, OutcomesAreFinal
----------------------------------------------------------------------------
(* Numbers.                                                                *)

LEMMA MinOfTwo ==
  ASSUME NEW a \in Int, NEW b \in Int
  PROVE  Min({a, b}) \in {a, b} /\ Min({a, b}) <= a /\ Min({a, b}) <= b
  <1>1. \E x \in {a, b} : \A y \in {a, b} : x <= y
    <2>1. CASE a <= b
      BY <2>1
    <2>2. CASE b <= a
      BY <2>2
    <2> QED BY <2>1, <2>2
  <1> QED BY <1>1 DEF Min
----------------------------------------------------------------------------
(* Candles.                                                                *)

LEMMA WidthType ==
  ASSUME NEW span \in Nat PROVE Width(span) \in Nat \ {0}
  <1> DEFINE fits == {i \in DOMAIN Granularities : span <= Granularities[i].span}
             i    == IF fits = {} THEN Len(Granularities) ELSE Min(fits)
  <1>1. Granularities \in Seq([span : Nat, width : Nat \ {0}]) /\ Granularities # <<>>
    BY CandlesAssumption
  <1>2. DOMAIN Granularities = 1..Len(Granularities) /\ Len(Granularities) \in Nat \ {0}
    BY <1>1, EmptySeq, LenProperties
  <1>3. i \in DOMAIN Granularities
    <2>1. fits \in SUBSET Nat
      BY <1>2
    <2>2. fits # {} => Min(fits) \in fits
      BY <2>1, MinOf
    <2> QED BY <1>2, <2>2
  <1> HIDE DEF i
  <1>4. Granularities[i] \in [span : Nat, width : Nat \ {0}]
    BY <1>1, <1>2, <1>3, ElementOfSeq
  <1>5. Width(span) = Granularities[i].width
    BY DEF Width, i
  <1> QED BY <1>4, <1>5

(* How many spans of m fit before b. *)
LEMMA Quotient ==
  ASSUME NEW a \in Nat, NEW m \in Nat \ {0}
  PROVE  \E k \in Nat : k * m <= a /\ a < (k + 1) * m /\ k <= a
  <1> DEFINE S == {j \in Nat : a < (j + 1) * m}
  <1>1. a \in S
    <2>1. (a + 1) * m >= a + 1
      OBVIOUS
    <2> QED BY <2>1
  <1>2. PICK k \in S : \A j \in S : k <= j
    BY <1>1, LeastOf
  <1>3. k <= a
    BY <1>1, <1>2
  <1>4. k * m <= a
    <2>1. CASE k = 0
      BY <2>1
    <2>2. CASE k # 0
      <3>1. k - 1 \in Nat /\ k - 1 \notin S
        BY <1>2, <2>2
      <3>2. ~ (a < ((k - 1) + 1) * m)
        BY <3>1
      <3>3. (k - 1) + 1 = k
        BY <3>1
      <3>4. k * m \in Nat
        BY <3>1
      <3> QED BY <3>2, <3>3, <3>4
    <2> QED BY <2>1, <2>2
  <1> QED BY <1>2, <1>3, <1>4

(* No bucket is lost or doubled where two requests meet. *)
LEMMA Complete ==
  ASSUME NEW trades, NEW since \in Nat, NEW until \in Nat, since < until
  PROVE  FetchProductCandles(trades, since, until) = Answer(trades, Width(until - since), since, until)
  <1> DEFINE w == Width(until - since)
             m == MaxCandles * w
             Ks == {k \in 0..(until - since) : since + k * m < until}
             to(k) == Min({since + (k + 1) * m, until})
             chunk(k) == [from |-> since + k * m, to |-> to(k)]
  <1>1. w \in Nat \ {0} /\ MaxCandles \in Nat \ {0}
    <2>1. until - since \in Nat
      OBVIOUS
    <2> QED BY <2>1, WidthType, CandlesAssumption
  <1>2. m \in Nat \ {0}
    <2> HIDE DEF w
    <2> QED BY <1>1
  <1>3. Chunks(since, until) = {chunk(k) : k \in Ks}
    BY DEF Chunks
  <1> HIDE DEF m
  <1>4. ASSUME NEW k \in Ks
        PROVE  /\ since <= since + k * m /\ to(k) \in Int /\ to(k) <= until
               /\ since + k * m \in Int /\ since + (k + 1) * m \in Int
               /\ to(k) \in {since + (k + 1) * m, until}
    <2>1. k \in Nat
      OBVIOUS
    <2>2. k * m \in Nat /\ (k + 1) * m \in Nat
      BY <1>2, <2>1
    <2>3. since + (k + 1) * m \in Int
      BY <2>2
    <2>4. to(k) \in {since + (k + 1) * m, until} /\ to(k) <= until
      BY <2>3, MinOfTwo
    <2> QED BY <2>2, <2>3, <2>4
  <1> DEFINE Had(b) == b % w = 0 /\ trades \cap b..(b + w - 1) # {}
  <1>5. Answer(trades, w, since, until) = {Candle(trades, b, w) : b \in {b \in since..until : Had(b)}}
    BY DEF Answer
  <1>6. \A k \in Ks : Answer(trades, w, chunk(k).from, chunk(k).to) =
                        {Candle(trades, b, w) : b \in {b \in (since + k * m)..to(k) : Had(b)}}
    <2> HIDE DEF to
    <2> QED BY DEF Answer
  <1>7. FetchProductCandles(trades, since, until) =
           UNION {Answer(trades, w, chunk(k).from, chunk(k).to) : k \in Ks}
    BY <1>3 DEF FetchProductCandles
  <1> HIDE DEF w, Had, to
  <1>8. ASSUME NEW k \in Ks PROVE (since + k * m)..to(k) \subseteq since..until
    BY <1>4
  <1>9. ASSUME NEW b \in since..until PROVE \E k \in Ks : b \in (since + k * m)..to(k)
    <2>1. b - since \in Nat
      OBVIOUS
    <2>2. PICK k \in Nat : k * m <= b - since /\ b - since < (k + 1) * m /\ k <= b - since
      BY <1>2, <2>1, Quotient
    <2>3. k * m \in Nat /\ (k + 1) * m \in Nat
      BY <1>2
    <2>4. CASE since + k * m < until
      <3>1. k \in Ks
        BY <2>2, <2>4
      <3>2. b <= to(k)
        BY <1>4, <2>2, <2>3, <3>1
      <3>3. b \in (since + k * m)..to(k)
        BY <1>4, <2>2, <2>3, <3>1, <3>2
      <3> QED BY <3>1, <3>3
    <2>5. CASE ~ (since + k * m < until)
      <3>1. b = until /\ since + k * m = b
        BY <2>2, <2>3, <2>5
      <3>2. k # 0
        <4>1. k = 0 => k * m = 0
          BY <1>2
        <4> QED BY <3>1, <4>1
      <3> DEFINE j == k - 1
      <3>3. j \in Nat /\ (j + 1) * m = k * m /\ j <= b - since
        BY <2>2, <3>2
      <3>4. j * m \in Nat /\ j * m = k * m - m
        BY <1>2, <3>3
      <3> HIDE DEF j
      <3>5. since + j * m < until
        BY <1>2, <2>3, <3>1, <3>4
      <3>6. j \in Ks
        BY <3>1, <3>3, <3>5
      <3>7. to(j) = until
        BY <1>4, <3>1, <3>3, <3>6
      <3>8. b \in (since + j * m)..to(j)
        BY <1>4, <3>1, <3>4, <3>5, <3>6, <3>7
      <3> QED BY <3>6, <3>8
    <2> QED BY <2>4, <2>5
  <1> HIDE DEF Ks, chunk
  <1>10. ASSUME NEW c PROVE c \in FetchProductCandles(trades, since, until) <=> c \in Answer(trades, w, since, until)
    <2>1. ASSUME c \in FetchProductCandles(trades, since, until) PROVE c \in Answer(trades, w, since, until)
      <3>0. PICK k \in Ks : c \in Answer(trades, w, chunk(k).from, chunk(k).to)
        BY <1>7, <2>1
      <3>1. c \in {Candle(trades, b, w) : b \in {b \in (since + k * m)..to(k) : Had(b)}}
        BY <1>6, <3>0
      <3>2. PICK b \in (since + k * m)..to(k) : Had(b) /\ c = Candle(trades, b, w)
        BY <3>1
      <3>3. b \in since..until
        BY <1>8, <3>2
      <3> QED BY <1>5, <3>2, <3>3
    <2>2. ASSUME c \in Answer(trades, w, since, until) PROVE c \in FetchProductCandles(trades, since, until)
      <3>1. PICK b \in since..until : Had(b) /\ c = Candle(trades, b, w)
        BY <1>5, <2>2
      <3>2. PICK k \in Ks : b \in (since + k * m)..to(k)
        BY <1>9
      <3>3. c \in Answer(trades, w, chunk(k).from, chunk(k).to)
        BY <1>6, <3>1, <3>2
      <3> QED BY <1>7, <3>3
    <2> QED BY <2>1, <2>2
  <1> QED BY <1>10 DEF w

(* A fetched candle closes with a trade in it, the last there is. *)
LEMMA Fetched ==
  ASSUME NEW trades \in SUBSET Nat, NEW since \in Nat, NEW until \in Nat, since < until,
         NEW c \in FetchProductCandles(trades, since, until)
  PROVE  LET w == Width(until - since)
         IN  /\ c.start \in since..until /\ c = Candle(trades, c.start, w)
             /\ c.close \in trades /\ c.start <= c.close /\ c.close < c.start + w
             /\ \A t \in trades : c.start <= t /\ t < c.start + w => t <= c.close
  <1> DEFINE w == Width(until - since)
  <1>1. w \in Nat \ {0}
    BY WidthType
  <1>2. c \in Answer(trades, w, since, until)
    BY Complete
  <1> HIDE DEF w
  <1>3. PICK b \in since..until : trades \cap b..(b + w - 1) # {} /\ c = Candle(trades, b, w)
    BY <1>2 DEF Answer
  <1> DEFINE In == trades \cap b..(b + w - 1)
  <1>4. c.start = b /\ c.close = Max(In)
    BY <1>3 DEF Candle
  <1>5. b \in Nat /\ b + w - 1 \in Nat
    BY <1>1
  <1>6. In \in SUBSET (0..(b + w - 1))
    BY <1>5
  <1>7. Max(In) \in In /\ \A y \in In : y <= Max(In)
    <2>1. In # {}
      BY <1>3
    <2> HIDE DEF In
    <2> QED BY <1>5, <1>6, <2>1, MaxOf
  <1>8. \A t \in trades : b <= t /\ t < b + w => t \in In
    BY <1>1, <1>5
  <1>9. Max(In) \in trades /\ b <= Max(In) /\ Max(In) < b + w
    BY <1>1, <1>5, <1>7
  <1> HIDE DEF In
  <1> QED BY <1>3, <1>4, <1>7, <1>8, <1>9 DEF w

(* The first and the last of some candles. *)
LEMMA Ends ==
  ASSUME NEW trades \in SUBSET Nat, NEW since \in Nat, NEW until \in Nat, since < until,
         FetchProductCandles(trades, since, until) # {}
  PROVE  LET candles == FetchProductCandles(trades, since, until)
         IN  /\ First(candles) \in trades /\ Last(candles) \in trades
             /\ since <= First(candles) /\ First(candles) <= Last(candles)
             /\ Last(candles) < until + Width(until - since)
  <1> DEFINE C == FetchProductCandles(trades, since, until)
             w == Width(until - since)
             starts == {c.start : c \in C}
  <1>1. w \in Nat \ {0}
    BY WidthType
  <1>2. \A c \in C : /\ c.start \in since..until /\ c = Candle(trades, c.start, w)
                     /\ c.close \in trades /\ c.start <= c.close /\ c.close < c.start + w
                     /\ \A t \in trades : c.start <= t /\ t < c.start + w => t <= c.close
    BY Fetched
  <1> HIDE DEF C, w
  <1>3. starts # {} /\ starts \in SUBSET (0..until) /\ starts \in SUBSET Nat
    <2>1. C # {}
      BY DEF C
    <2> QED BY <1>2, <2>1
  <1>4. \E c \in C : \A d \in C : c.start <= d.start
    <2>1. PICK x \in starts : \A y \in starts : x <= y
      <3> HIDE DEF starts
      <3> QED BY <1>3, LeastOf
    <2> QED BY <2>1
  <1>5. \E c \in C : \A d \in C : c.start >= d.start
    <2>1. Max(starts) \in starts /\ \A y \in starts : y <= Max(starts)
      <3> HIDE DEF starts
      <3> QED BY <1>3, MaxOf
    <2> DEFINE x == Max(starts)
    <2>2. x \in starts /\ \A y \in starts : y <= x
      BY <2>1
    <2> HIDE DEF x
    <2>3. PICK c \in C : c.start = x
      BY <2>2
    <2>4. \A d \in C : d.start <= x
      BY <2>2
    <2>5. \A d \in C : c.start >= d.start
      BY <1>2, <2>3, <2>4
    <2> QED BY <2>5
  <1> DEFINE f == CHOOSE c \in C : \A d \in C : c.start <= d.start
             l == CHOOSE c \in C : \A d \in C : c.start >= d.start
  <1>6. f \in C /\ \A d \in C : f.start <= d.start
    BY <1>4
  <1>7. l \in C /\ \A d \in C : l.start >= d.start
    BY <1>5
  <1>8. First(C) = f.close /\ Last(C) = l.close
    BY DEF First, Last
  <1> HIDE DEF f, l, starts
  <1>9. /\ f.start \in since..until /\ f.close \in trades /\ f.start <= f.close /\ f.close < f.start + w
        /\ l.start \in since..until /\ l.close \in trades /\ l.start <= l.close /\ l.close < l.start + w
        /\ \A t \in trades : l.start <= t /\ t < l.start + w => t <= l.close
        /\ f.start <= l.start
    BY <1>2, <1>6, <1>7
  <1>10. f.close \in Nat /\ l.close \in Nat
    BY <1>9
  <1>11. f.close <= l.close
    <2>1. CASE f.close < l.start
      BY <1>9, <1>10, <2>1
    <2>2. CASE l.start <= f.close
      <3>1. f.close < l.start + w
        BY <1>1, <1>9, <1>10
      <3> QED BY <1>9, <2>2, <3>1
    <2> QED BY <1>9, <1>10, <2>1, <2>2
  <1>12. since <= f.close /\ l.close < until + w
    BY <1>1, <1>9, <1>10
  <1> QED BY <1>8, <1>9, <1>11, <1>12 DEF C, w
----------------------------------------------------------------------------
(* What is known of the tables and of each scorer.                         *)

DecisionRows == [symbol : Symbols, at : Times, action : Actions]

TablesOK == /\ now \in Times /\ faults \in 0..MaxFaults
            /\ decisions \in Seq(DecisionRows)
            /\ snapshots \subseteq Times

(* A pair that has been taken is due. *)
PairOK(p) == p \in Pairs /\ now >= Deadline(p)

Near(p) == {t \in snapshots : t <= At(p) /\ t >= At(p) - Lookback}
FromOK(p, from) == from <= At(p) /\ (from = Max(Near(p)) \/ Cardinality(Near(p)) > Page)
CandleOK(p, from, to) == /\ At(p) <= from /\ from <= to
                         /\ to < Deadline(p) + Width(Duration[p.horizon])
PricedOK(p, from, to) ==
    /\ from \in Times /\ to \in Times
    /\ IsDaily(p) => FromOK(p, from) /\ to >= Deadline(p)
    /\ ~IsDaily(p) => CandleOK(p, from, to)

OutcomeOK(o) == /\ PairOK(o.pair) /\ PricedOK(o.pair, o.from, o.to)
                /\ {o.realized, o.excess} \subseteq {None, 1, -1}

ScorerOK(r) ==
    /\ r = [batch |-> r.batch, step |-> r.step, pair |-> r.pair, from |-> r.from, to |-> r.to]
    /\ IsFiniteSet(r.batch) /\ Cardinality(r.batch) <= Limit
    /\ \A p \in r.batch : PairOK(p)
    /\ r.step \in {"idle", "end", "insert"}
    /\ r.step = "idle" => r.pair = None
    /\ r.step = "end" => /\ PairOK(r.pair) /\ IsDaily(r.pair)
                         /\ r.from \in Times /\ FromOK(r.pair, r.from)
    /\ r.step = "insert" => PairOK(r.pair) /\ PricedOK(r.pair, r.from, r.to)

Inv == /\ TablesOK
       /\ \A o \in outcomes : OutcomeOK(o)
       /\ scorer = [s \in Scorers |-> scorer[s]]
       /\ \A s \in Scorers : ScorerOK(scorer[s])

LEMMA TimesType == Times = 0..MaxNow /\ MaxNow \in Nat /\ Times \subseteq Nat
  BY ScorerAssumption DEF Times

LEMMA PairFields ==
  ASSUME TablesOK, NEW p \in Pairs
  PROVE  /\ p.id \in DOMAIN decisions /\ p.horizon \in Horizons
         /\ decisions[p.id] \in DecisionRows /\ At(p) \in Times /\ At(p) \in Nat
         /\ Duration[p.horizon] \in Nat \ {0}
         /\ Deadline(p) \in Nat /\ At(p) < Deadline(p) /\ Deadline(p) - At(p) = Duration[p.horizon]
  <1>1. p.id \in DOMAIN decisions /\ p.horizon \in Horizons
    BY DEF Pairs
  <1>2. decisions[p.id] \in DecisionRows
    <2>1. decisions \in Seq(DecisionRows)
      BY DEF TablesOK
    <2> QED BY <1>1, <2>1, ElementOfSeq, LenProperties
  <1>3. At(p) \in Times /\ At(p) \in Nat
    BY <1>2, TimesType DEF DecisionRows, At
  <1>4. Duration[p.horizon] \in Nat \ {0}
    BY <1>1, ScorerAssumption
  <1>5. Deadline(p) = At(p) + Duration[p.horizon]
    BY DEF Deadline
  <1>6. Deadline(p) \in Nat /\ At(p) < Deadline(p) /\ Deadline(p) - At(p) = Duration[p.horizon]
    BY <1>3, <1>4, <1>5
  <1> QED BY <1>1, <1>2, <1>3, <1>4, <1>6

LEMMA PairsFinite ==
  ASSUME TablesOK PROVE IsFiniteSet(Pairs)
  <1> DEFINE D == DOMAIN decisions
             f == [p \in Pairs |-> <<p.id, p.horizon>>]
  <1>1. IsFiniteSet(D)
    <2>1. D = 1..Len(decisions) /\ Len(decisions) \in Nat
      BY LenProperties DEF TablesOK
    <2> QED BY <2>1, FS_Interval
  <1>2. IsFiniteSet(D \X Horizons)
    <2>1. IsFiniteSet(Horizons)
      BY ScorerAssumption
    <2> HIDE DEF D
    <2> QED BY <1>1, <2>1, FS_Product
  <1>3. \A p \in Pairs : p = [id |-> p.id, horizon |-> p.horizon] /\ p.id \in D /\ p.horizon \in Horizons
    BY DEF Pairs
  <1>4. f \in [Pairs -> D \X Horizons]
    BY <1>3
  <1>5. \A p, q \in Pairs : f[p] = f[q] => p = q
    <2> SUFFICES ASSUME NEW p \in Pairs, NEW q \in Pairs, f[p] = f[q] PROVE p = q
      OBVIOUS
    <2>1. <<p.id, p.horizon>> = <<q.id, q.horizon>>
      OBVIOUS
    <2>2. p.id = q.id /\ p.horizon = q.horizon
      BY <2>1
    <2> QED BY <1>3, <2>2
  <1> HIDE DEF f, D
  <1>6. f \in Injection(Pairs, D \X Horizons)
    BY <1>4, <1>5 DEF Injection, IsInjective
  <1> QED BY <1>2, <1>6, FS_Injection

(* The minute of a snapshot is cut off, and no more than that. *)
LEMMA MinuteCut ==
  ASSUME NEW t \in Nat
  PROVE  TakenAt(t) \in 0..t /\ t < TakenAt(t) + Minute
  <1>1. Minute \in Nat \ {0}
    BY MinuteAssumption
  <1>2. t % Minute \in 0..(Minute - 1) /\ t % Minute <= t
    BY <1>1
  <1> QED BY <1>1, <1>2 DEF TakenAt

(* Decisions are only added, snapshots only those of this minute.          *)
LEMMA TablesGrow ==
  ASSUME TablesOK, [Next]_vars
  PROVE  /\ TablesOK'
         /\ now' >= now
         /\ DOMAIN decisions \subseteq DOMAIN decisions'
         /\ \A i \in DOMAIN decisions : decisions'[i] = decisions[i]
         /\ \/ snapshots' = snapshots
            \/ snapshots' = snapshots \cup {TakenAt(now)} /\ now' = now
  <1>1. /\ now \in Times /\ faults \in 0..MaxFaults
        /\ decisions \in Seq(DecisionRows) /\ snapshots \subseteq Times
        /\ MaxNow \in Nat /\ Times = 0..MaxNow /\ MaxFaults \in Nat
    BY ScorerAssumption DEF TablesOK, Times
  <1>2. faults' \in 0..MaxFaults
    <2>1. Fault \/ NoFault => faults' \in 0..MaxFaults
      BY <1>1 DEF Fault, NoFault
    <2>2. ASSUME NEW s \in Scorers, Work(s) \/ Crash(s) PROVE Fault \/ NoFault
      BY <2>2 DEF Work, StartTick, FetchPrices, ReadStart, ReadEnd, Insert, Crash
    <2>3. ASSUME NEW x \in Symbols, NEW a \in Actions, StoreDecision(x, a) PROVE NoFault
      BY <2>3 DEF StoreDecision, NoFault
    <2>4. CASE PostSnapshot \/ Advance \/ UNCHANGED vars
      BY <1>1, <2>4 DEF PostSnapshot, Advance, vars
    <2> QED BY <2>1, <2>2, <2>3, <2>4 DEF Next
  <1>3. CASE UNCHANGED <<now, decisions, snapshots>>
    BY <1>1, <1>2, <1>3 DEF TablesOK
  <1>4. ASSUME NEW s \in Scorers, Work(s) \/ Crash(s) PROVE UNCHANGED <<now, decisions, snapshots>>
    BY <1>4 DEF Work, StartTick, FetchPrices, ReadStart, ReadEnd, Insert, Crash, TablesUnchanged
  <1>5. ASSUME NEW x \in Symbols, NEW a \in Actions, StoreDecision(x, a)
        PROVE  /\ TablesOK' /\ UNCHANGED <<now, snapshots>>
               /\ DOMAIN decisions \subseteq DOMAIN decisions'
               /\ \A i \in DOMAIN decisions : decisions'[i] = decisions[i]
    <2> DEFINE d == [symbol |-> x, at |-> now, action |-> a]
    <2>1. d \in DecisionRows
      BY <1>1 DEF DecisionRows
    <2>2. decisions' = Append(decisions, d) /\ UNCHANGED <<now, snapshots>>
      BY <1>5 DEF StoreDecision
    <2> HIDE DEF d
    <2>3. /\ decisions' \in Seq(DecisionRows) /\ Len(decisions') = Len(decisions) + 1
          /\ \A i \in 1..Len(decisions) : decisions'[i] = decisions[i]
      BY <1>1, <2>1, <2>2, AppendProperties
    <2>4. DOMAIN decisions = 1..Len(decisions) /\ DOMAIN decisions' = 1..Len(decisions') /\ Len(decisions) \in Nat
      BY <1>1, <2>3, LenProperties
    <2>5. DOMAIN decisions \subseteq DOMAIN decisions'
      BY <2>3, <2>4
    <2>6. TablesOK'
      BY <1>1, <1>2, <2>2, <2>3 DEF TablesOK
    <2> QED BY <2>2, <2>3, <2>4, <2>5, <2>6
  <1>6. CASE PostSnapshot
    <2>1. now \in Nat /\ now \in 0..MaxNow
      BY <1>1, TimesType DEF TablesOK
    <2>2. TakenAt(now) \in 0..now
      BY <2>1, MinuteCut
    <2>3. TakenAt(now) \in Times
      <3>1. \A x \in 0..now : x \in 0..MaxNow
        BY <2>1, TimesType
      <3> QED BY <2>2, <3>1 DEF Times
    <2>4. /\ UNCHANGED <<now, decisions, faults>>
          /\ snapshots' = snapshots \cup {TakenAt(now)}
      BY <1>6 DEF PostSnapshot
    <2>5. TablesOK'
      <3>1. snapshots' \subseteq Times
        BY <2>3, <2>4 DEF TablesOK
      <3> QED BY <2>4, <3>1 DEF TablesOK, Times
    <2>6. now' >= now
      BY <2>1, <2>4
    <2> QED BY <2>4, <2>5, <2>6
  <1>7. CASE Advance
    BY <1>1, <1>2, <1>7 DEF Advance, TablesOK
  <1> QED BY <1>1, <1>3, <1>4, <1>5, <1>6, <1>7 DEF Next, vars

(* So what is known of a pair stays true. *)
LEMMA PairStays ==
  ASSUME TablesOK, [Next]_vars, NEW p, PairOK(p)
  PROVE  /\ PairOK(p)'
         /\ At(p)' = At(p) /\ Deadline(p)' = Deadline(p) /\ IsDaily(p)' = IsDaily(p)
         /\ Near(p)' = Near(p)
  <1>1. p \in Pairs /\ now >= Deadline(p)
    BY DEF PairOK
  <1>2. /\ p.id \in DOMAIN decisions /\ p.horizon \in Horizons
        /\ At(p) \in Nat /\ Deadline(p) \in Nat /\ At(p) < Deadline(p)
    BY <1>1, PairFields
  <1>3. /\ TablesOK' /\ now' >= now
        /\ DOMAIN decisions \subseteq DOMAIN decisions'
        /\ decisions'[p.id] = decisions[p.id]
        /\ \/ snapshots' = snapshots
           \/ snapshots' = snapshots \cup {TakenAt(now)} /\ now' = now
    BY <1>2, TablesGrow
  <1>4. At(p)' = At(p) /\ IsDaily(p)' = IsDaily(p)
    BY <1>3 DEF At, IsDaily
  <1>5. Deadline(p)' = Deadline(p)
    BY <1>4 DEF Deadline
  <1>6. p \in Pairs'
    BY <1>1, <1>3 DEF Pairs
  <1>7. now \in Nat /\ now' \in Nat
    BY <1>3, TimesType DEF TablesOK
  <1>8. PairOK(p)'
    BY <1>1, <1>2, <1>3, <1>5, <1>6, <1>7 DEF PairOK
  <1>9. Near(p)' = Near(p)
    <2>1. TakenAt(now) \in Nat /\ now < TakenAt(now) + Minute
      BY <1>7, MinuteCut
    <2>2. Minute \in Nat /\ Minute <= Duration[p.horizon] /\ Duration[p.horizon] \in Nat
      BY <1>2, ScorerAssumption, MinuteAssumption
    <2>3. Deadline(p) = At(p) + Duration[p.horizon]
      BY DEF Deadline
    <2>4. ~ (TakenAt(now) <= At(p))
      BY <1>1, <1>2, <1>7, <2>1, <2>2, <2>3
    <2> QED BY <1>3, <1>4, <2>4 DEF Near
  <1> QED BY <1>4, <1>5, <1>8, <1>9

LEMMA PricesStay ==
  ASSUME TablesOK, [Next]_vars, NEW p, PairOK(p), NEW from, NEW to
  PROVE  /\ FromOK(p, from) => FromOK(p, from)'
         /\ PricedOK(p, from, to) => PricedOK(p, from, to)'
  <1>1. /\ At(p)' = At(p) /\ Deadline(p)' = Deadline(p) /\ IsDaily(p)' = IsDaily(p)
        /\ Near(p)' = Near(p)
    BY PairStays
  <1>2. FromOK(p, from) => FromOK(p, from)'
    BY <1>1 DEF FromOK
  <1>3. CandleOK(p, from, to) => CandleOK(p, from, to)'
    BY <1>1 DEF CandleOK
  <1>4. Times' = Times
    BY DEF Times
  <1> QED BY <1>1, <1>2, <1>3, <1>4 DEF PricedOK

LEMMA RecordsStay ==
  ASSUME TablesOK, [Next]_vars, NEW r
  PROVE  /\ OutcomeOK(r) => OutcomeOK(r)'
         /\ ScorerOK(r) => ScorerOK(r)'
  <1>1. ASSUME OutcomeOK(r) PROVE OutcomeOK(r)'
    <2>1. PairOK(r.pair) /\ PricedOK(r.pair, r.from, r.to) /\ {r.realized, r.excess} \subseteq {None, 1, -1}
      BY <1>1 DEF OutcomeOK
    <2>2. PairOK(r.pair)' /\ PricedOK(r.pair, r.from, r.to)'
      BY <2>1, PairStays, PricesStay
    <2> QED BY <2>1, <2>2 DEF OutcomeOK
  <1>2. ASSUME ScorerOK(r) PROVE ScorerOK(r)'
    <2>1. \A p \in r.batch : PairOK(p)'
      BY <1>2, PairStays DEF ScorerOK
    <2>2. r.step = "end" => /\ PairOK(r.pair)' /\ IsDaily(r.pair)'
                            /\ r.from \in Times /\ FromOK(r.pair, r.from)'
      <3> SUFFICES ASSUME r.step = "end"
                   PROVE  PairOK(r.pair)' /\ IsDaily(r.pair)' /\ r.from \in Times /\ FromOK(r.pair, r.from)'
        OBVIOUS
      <3>1. PairOK(r.pair) /\ IsDaily(r.pair) /\ r.from \in Times /\ FromOK(r.pair, r.from)
        BY <1>2 DEF ScorerOK
      <3> QED BY <3>1, PairStays, PricesStay
    <2>3. r.step = "insert" => PairOK(r.pair)' /\ PricedOK(r.pair, r.from, r.to)'
      <3> SUFFICES ASSUME r.step = "insert" PROVE PairOK(r.pair)' /\ PricedOK(r.pair, r.from, r.to)'
        OBVIOUS
      <3>1. PairOK(r.pair) /\ PricedOK(r.pair, r.from, r.to)
        BY <1>2 DEF ScorerOK
      <3> QED BY <3>1, PairStays, PricesStay
    <2>4. Times' = Times
      BY DEF Times
    <2> QED BY <1>2, <2>1, <2>2, <2>3, <2>4 DEF ScorerOK
  <1> QED BY <1>1, <1>2
----------------------------------------------------------------------------
(* What a step leaves a scorer with.                                       *)

Sets(s, r) == scorer' = [q \in Scorers |-> IF q = s THEN r ELSE scorer[q]]
Does(s) == \E r : ScorerOK(r) /\ Sets(s, r)

BatchOK(b) == IsFiniteSet(b) /\ Cardinality(b) <= Limit /\ \A p \in b : PairOK(p)

LEMMA IdleOK ==
  ASSUME NEW b, BatchOK(b) PROVE ScorerOK([Idle EXCEPT !.batch = b])
  BY DEF ScorerOK, BatchOK, Idle

LEMMA OneScorer ==
  ASSUME Inv, NEW s \in Scorers
  PROVE  ScorerOK(scorer[s]) /\ BatchOK(scorer[s].batch) /\ scorer = [q \in Scorers |-> scorer[q]]
  BY DEF Inv, ScorerOK, BatchOK

LEMMA Skips ==
  ASSUME Inv, NEW s \in Scorers, NEW p, SkipPair(s, p) PROVE Does(s)
  <1> DEFINE b == scorer[s].batch \ {p}
             r == [Idle EXCEPT !.batch = b]
  <1>1. BatchOK(scorer[s].batch)
    BY OneScorer
  <1>2. IsFiniteSet(b) /\ Cardinality(b) <= Cardinality(scorer[s].batch)
    BY <1>1, FS_Subset DEF BatchOK
  <1>3. Cardinality(b) \in Nat /\ Cardinality(scorer[s].batch) \in Nat /\ Limit \in Nat
    BY <1>1, <1>2, FS_CardinalityType, ScorerAssumption DEF BatchOK
  <1>4. BatchOK(b)
    BY <1>1, <1>2, <1>3 DEF BatchOK
  <1>5. scorer = [q \in Scorers |-> scorer[q]]
    BY OneScorer
  <1>6. scorer' = [scorer EXCEPT ![s] = r]
    BY DEF SkipPair
  <1> HIDE DEF b
  <1>7. ScorerOK(r)
    BY <1>4, IdleOK
  <1> HIDE DEF r
  <1>8. Sets(s, r)
    BY <1>5, <1>6 DEF Sets
  <1> QED BY <1>7, <1>8 DEF Does

(* A record of a scorer, and one it becomes by the assignments of the code. *)
Record(b, step, p, from, to) == [batch |-> b, step |-> step, pair |-> p, from |-> from, to |-> to]
With(x, p, from, to, step)   == [x EXCEPT !.pair = p, !.from = from, !.to = to, !.step = step]
WithStart(x, p, from, step)  == [x EXCEPT !.pair = p, !.from = from, !.step = step]

LEMMA Fields ==
  ASSUME NEW x, NEW b, NEW c, NEW d, NEW e, NEW f,
         x = Record(b, c, d, e, f), NEW p, NEW from, NEW to, NEW step
  PROVE  /\ With(x, p, from, to, step) = Record(b, step, p, from, to)
         /\ WithStart(x, p, from, step) = Record(b, step, p, from, f)
  <1> DEFINE y == [x EXCEPT !.pair = p, !.from = from, !.to = to, !.step = step]
             z == [x EXCEPT !.pair = p, !.from = from, !.step = step]
             r == [batch |-> b, step |-> step, pair |-> p, from |-> from, to |-> to]
             q == [batch |-> b, step |-> step, pair |-> p, from |-> from, to |-> f]
             F == {"batch", "step", "pair", "from", "to"}
  <1>1. DOMAIN x = F /\ x = [batch |-> b, step |-> c, pair |-> d, from |-> e, to |-> f]
    BY DEF Record
  <1>2. y = [i \in DOMAIN x |-> IF i = "step" THEN step ELSE IF i = "to" THEN to
                                 ELSE IF i = "from" THEN from ELSE IF i = "pair" THEN p ELSE x[i]]
    OBVIOUS
  <1>3. z = [i \in DOMAIN x |-> IF i = "step" THEN step
                                 ELSE IF i = "from" THEN from ELSE IF i = "pair" THEN p ELSE x[i]]
    OBVIOUS
  <1> HIDE DEF y, z
  <1>4. r = [i \in F |-> r[i]] /\ q = [i \in F |-> q[i]]
    OBVIOUS
  <1>5. \A i \in F : r[i] = IF i = "step" THEN step ELSE IF i = "to" THEN to
                            ELSE IF i = "from" THEN from ELSE IF i = "pair" THEN p ELSE x[i]
    BY <1>1
  <1>6. \A i \in F : q[i] = IF i = "step" THEN step
                            ELSE IF i = "from" THEN from ELSE IF i = "pair" THEN p ELSE x[i]
    BY <1>1
  <1> HIDE DEF r, q, F
  <1>7. y = r
    BY <1>1, <1>2, <1>4, <1>5
  <1>8. z = q
    BY <1>1, <1>3, <1>4, <1>6
  <1>9. y = With(x, p, from, to, step) /\ z = WithStart(x, p, from, step)
    BY DEF y, z, With, WithStart
  <1>10. r = Record(b, step, p, from, to) /\ q = Record(b, step, p, from, f)
    BY DEF r, q, Record
  <1> QED BY <1>7, <1>8, <1>9, <1>10

LEMMA Prices ==
  ASSUME Inv, NEW s \in Scorers, NEW p, NEW from, NEW to,
         PairOK(p), PricedOK(p, from, to), Priced(s, p, from, to)
  PROVE  Does(s)
  <1> DEFINE b == scorer[s].batch
             r == Record(b, "insert", p, from, to)
  <1>1. BatchOK(b) /\ scorer = [q \in Scorers |-> scorer[q]] /\ ScorerOK(scorer[s])
    BY OneScorer
  <1>2. ScorerOK(r)
    <2> HIDE DEF b
    <2> QED BY <1>1 DEF ScorerOK, BatchOK, Record
  <1>3. PICK c, d, e, f : scorer[s] = Record(b, c, d, e, f)
    BY <1>1 DEF ScorerOK, Record
  <1>4. scorer' = [scorer EXCEPT ![s] = With(scorer[s], p, from, to, "insert")]
    BY <1>1 DEF Priced, With
  <1>5. scorer' = [scorer EXCEPT ![s] = r]
    <2> DEFINE x == scorer[s]
    <2>1. x = Record(b, c, d, e, f)
      BY <1>3
    <2> HIDE DEF x, b
    <2>2. With(x, p, from, to, "insert") = Record(b, "insert", p, from, to)
      BY <2>1, Fields
    <2> QED BY <1>4, <2>2 DEF x
  <1> HIDE DEF r
  <1>6. Sets(s, r)
    BY <1>1, <1>5 DEF Sets
  <1> QED BY <1>2, <1>6 DEF Does

LEMMA Starts ==
  ASSUME Inv, NEW s \in Scorers, StartTick(s) PROVE Does(s)
  <1>1. PICK b \in SUBSET Unscored(now) :
           IsBatch(b, Unscored(now)) /\ scorer' = [scorer EXCEPT ![s].batch = b]
    BY DEF StartTick
  <1>2. scorer = [q \in Scorers |-> scorer[q]] /\ scorer[s] = Idle
    BY OneScorer DEF StartTick
  <1>3. \A p \in b : PairOK(p)
    BY <1>1 DEF Unscored, PairOK
  <1>4. IsFiniteSet(b) /\ IsFiniteSet(Unscored(now))
    <2>1. IsFiniteSet(Pairs)
      BY PairsFinite DEF Inv
    <2>2. Unscored(now) \in SUBSET Pairs
      BY DEF Unscored
    <2> QED BY <1>1, <2>1, <2>2, FS_Subset
  <1>5. Cardinality(b) <= Limit
    <2>1. Cardinality(Unscored(now)) \in Int /\ Limit \in Int
      BY <1>4, FS_CardinalityType, ScorerAssumption
    <2> QED BY <1>1, <2>1, MinOfTwo DEF IsBatch
  <1> DEFINE r == [Idle EXCEPT !.batch = b]
  <1>6. ScorerOK(r)
    BY <1>3, <1>4, <1>5, IdleOK DEF BatchOK
  <1>7. scorer' = [scorer EXCEPT ![s] = r]
    BY <1>1, <1>2
  <1> HIDE DEF r
  <1>8. Sets(s, r)
    BY <1>2, <1>7 DEF Sets
  <1> QED BY <1>6, <1>8 DEF Does

LEMMA NextIsOK ==
  ASSUME Inv, NEW s \in Scorers, NEW p, IsNext(p, s) PROVE PairOK(p) /\ p \in Pairs
  BY OneScorer DEF IsNext, BatchOK, PairOK

LEMMA FetchesPrices ==
  ASSUME Inv, NEW s \in Scorers, NEW p, FetchPrices(s, p) PROVE Does(s)
  <1> DEFINE x == decisions[p.id].symbol
             C == CandlesFor(x, p)
  <1>1. PairOK(p) /\ p \in Pairs /\ ~IsDaily(p)
    BY NextIsOK DEF FetchPrices
  <1>2. \/ C # {} /\ Priced(s, p, First(C), Last(C))
        \/ SkipPair(s, p)
    BY DEF FetchPrices
  <1>3. ASSUME C # {} PROVE PricedOK(p, First(C), Last(C))
    <2>1. At(p) \in Nat /\ Deadline(p) \in Nat /\ At(p) < Deadline(p) /\ Deadline(p) - At(p) = Duration[p.horizon]
      BY <1>1, PairFields DEF Inv
    <2>2. now \in Nat /\ now \in Times /\ Times = 0..MaxNow /\ MaxNow \in Nat
      BY TimesType DEF Inv, TablesOK
    <2>3. x \in DOMAIN Trades
      BY <1>3 DEF CandlesFor
    <2> DEFINE T == Trades[x] \cap 0..now
    <2>4. T \in SUBSET Nat /\ T \subseteq Times
      BY <2>2
    <2>5. C = FetchProductCandles(T, At(p), Deadline(p))
      BY <2>3 DEF CandlesFor
    <2> HIDE DEF T, C
    <2>6. /\ First(C) \in T /\ Last(C) \in T
          /\ At(p) <= First(C) /\ First(C) <= Last(C)
          /\ Last(C) < Deadline(p) + Width(Duration[p.horizon])
      BY <1>3, <2>1, <2>4, <2>5, Ends
    <2>7. First(C) \in Times /\ Last(C) \in Times
      BY <2>4, <2>6
    <2> QED BY <1>1, <2>6, <2>7 DEF PricedOK, CandleOK
  <1> HIDE DEF C
  <1> QED BY <1>1, <1>2, <1>3, Prices, Skips

(* The page has all the snapshots of the lookback if it is not full.       *)
LEMMA StartsNear ==
  ASSUME TablesOK, NEW p \in Pairs, StartSnapshots(p) # {}
  PROVE  Max(StartSnapshots(p)) \in Times /\ FromOK(p, Max(StartSnapshots(p)))
  <1> DEFINE since == At(p) - Lookback
             after == {t \in snapshots : t >= since}
             found == StartSnapshots(p)
  <1>1. /\ At(p) \in Nat /\ Lookback \in Nat /\ since \in Int /\ Page \in Nat
        /\ snapshots \in SUBSET (0..MaxNow) /\ MaxNow \in Nat
    <2>1. At(p) \in Nat
      BY PairFields
    <2>2. Lookback \in Nat /\ Page \in Nat
      BY ScorerAssumption
    <2>3. snapshots \in SUBSET (0..MaxNow) /\ MaxNow \in Nat
      BY TimesType DEF TablesOK
    <2> QED BY <2>1, <2>2, <2>3
  <1>2. found = {t \in after : Cardinality({u \in after : u < t}) < Page /\ t <= At(p)}
    BY DEF StartSnapshots, OldestSince
  <1>3. Near(p) = {t \in after : t <= At(p)}
    BY <1>1 DEF Near
  <1>4. found \in SUBSET (0..MaxNow) /\ found \in SUBSET Near(p) /\ Near(p) \in SUBSET (0..MaxNow)
    BY <1>1, <1>2, <1>3
  <1>5. IsFiniteSet(Near(p)) /\ Cardinality(Near(p)) \in Nat
    <2>1. IsFiniteSet(0..MaxNow)
      BY <1>1, FS_Interval
    <2> QED BY <1>4, <2>1, FS_Subset, FS_CardinalityType
  <1>6. Max(found) \in found
    <2> HIDE DEF found
    <2>1. found # {}
      BY DEF found
    <2> QED BY <1>1, <1>4, <2>1, MaxOf
  <1>7. ASSUME ~ (Cardinality(Near(p)) > Page) PROVE found = Near(p)
    <2>1. Cardinality(Near(p)) <= Page
      BY <1>1, <1>5, <1>7
    <2>2. ASSUME NEW t \in Near(p) PROVE t \in found
      <3> DEFINE U == {u \in after : u < t}
      <3>1. U \in SUBSET Near(p)
        <4>1. \A u \in U : u \in after /\ u < t /\ u \in Nat
          <5>1. snapshots \subseteq Nat
            BY <1>1
          <5>2. after \subseteq snapshots
            OBVIOUS
          <5> HIDE DEF after
          <5> QED BY <5>1, <5>2
        <4>2. t \in Nat /\ t <= At(p)
          <5>1. t \in snapshots /\ t <= At(p)
            BY <1>3, <2>2
          <5> QED BY <1>1, <5>1
        <4>3. \A u \in U : u <= At(p)
          BY <1>1, <4>1, <4>2
        <4> HIDE DEF U, after
        <4> QED BY <1>3, <4>1, <4>3
      <3>2. IsFiniteSet(U) /\ Cardinality(U) < Cardinality(Near(p)) /\ Cardinality(U) \in Nat
        <4>1. t \notin U
          <5>1. t \in Nat
            BY <1>4, <2>2
          <5> QED BY <5>1
        <4> HIDE DEF U
        <4>2. U # Near(p)
          BY <2>2, <4>1
        <4> QED BY <1>5, <3>1, <4>2, FS_Subset, FS_CardinalityType
      <3>3. Cardinality(U) < Page
        BY <1>1, <1>5, <2>1, <3>2
      <3> QED BY <1>2, <1>3, <2>2, <3>3
    <2> QED BY <1>4, <2>2
  <1>8. Max(found) <= At(p) /\ Max(found) \in Times
    BY <1>2, <1>4, <1>6, TimesType
  <1> HIDE DEF found
  <1>9. FromOK(p, Max(found))
    BY <1>7, <1>8 DEF FromOK
  <1> QED BY <1>8, <1>9 DEF found

LEMMA ReadsStart ==
  ASSUME Inv, NEW s \in Scorers, NEW p, ReadStart(s, p) PROVE Does(s)
  <1> DEFINE found == StartSnapshots(p)
             m == Max(found)
             b == scorer[s].batch
  <1>1. PairOK(p) /\ p \in Pairs /\ IsDaily(p)
    BY NextIsOK DEF ReadStart
  <1>2. \/ /\ found # {}
           /\ scorer' = [scorer EXCEPT ![s].pair = p, ![s].from = m, ![s].step = "end"]
        \/ SkipPair(s, p)
    BY DEF ReadStart
  <1>3. ASSUME found # {}, scorer' = [scorer EXCEPT ![s].pair = p, ![s].from = m, ![s].step = "end"]
        PROVE  Does(s)
    <2>1. m \in Times /\ FromOK(p, m)
      BY <1>1, <1>3, StartsNear DEF Inv
    <2> HIDE DEF m
    <2>2. BatchOK(b) /\ scorer = [q \in Scorers |-> scorer[q]] /\ ScorerOK(scorer[s])
      BY OneScorer
    <2>3. PICK c, d, e, f : scorer[s] = Record(b, c, d, e, f)
      BY <2>2 DEF ScorerOK, Record
    <2> DEFINE r == Record(b, "end", p, m, f)
    <2>4. ScorerOK(r)
      <3> HIDE DEF b
      <3> QED BY <1>1, <2>1, <2>2 DEF ScorerOK, BatchOK, Record
    <2>5. scorer' = [scorer EXCEPT ![s] = WithStart(scorer[s], p, m, "end")]
      BY <1>3, <2>2 DEF WithStart
    <2>6. scorer' = [scorer EXCEPT ![s] = r]
      <3> DEFINE x == scorer[s]
      <3>1. x = Record(b, c, d, e, f)
        BY <2>3
      <3> HIDE DEF x, b
      <3>2. WithStart(x, p, m, "end") = Record(b, "end", p, m, f)
        BY <3>1, Fields
      <3> QED BY <2>5, <3>2 DEF x
    <2> HIDE DEF r
    <2>7. Sets(s, r)
      BY <2>2, <2>6 DEF Sets
    <2> QED BY <2>4, <2>7 DEF Does
  <1> HIDE DEF m, found
  <1> QED BY <1>2, <1>3, Skips

LEMMA ReadsEnd ==
  ASSUME Inv, NEW s \in Scorers, ReadEnd(s) PROVE Does(s)
  <1> DEFINE p == scorer[s].pair
             from == scorer[s].from
             found == OldestSince(Deadline(p), 1)
             m == Max(found)
  <1>1. scorer[s].step = "end"
    BY DEF ReadEnd
  <1>2. PairOK(p) /\ IsDaily(p) /\ from \in Times /\ FromOK(p, from)
    BY <1>1, OneScorer DEF ScorerOK
  <1>3. (found # {} /\ Priced(s, p, from, m)) \/ SkipPair(s, p)
    BY DEF ReadEnd
  <1>4. ASSUME found # {} PROVE PricedOK(p, from, m)
    <2>1. found \in SUBSET snapshots /\ \A t \in found : t >= Deadline(p)
      BY DEF OldestSince
    <2>2. snapshots \subseteq Times /\ Times = 0..MaxNow /\ MaxNow \in Nat
      BY TimesType DEF Inv, TablesOK
    <2> HIDE DEF found
    <2>3. found \in SUBSET (0..MaxNow)
      BY <2>1, <2>2
    <2>4. m \in found
      BY <1>4, <2>2, <2>3, MaxOf
    <2> HIDE DEF m, p, from
    <2>5. m \in Times /\ m >= Deadline(p)
      BY <2>1, <2>2, <2>4
    <2> QED BY <1>2, <2>5 DEF PricedOK
  <1> HIDE DEF m, found, p, from
  <1> QED BY <1>2, <1>3, <1>4, Prices, Skips

LEMMA OutcomeIsOK ==
  ASSUME Inv, NEW s \in Scorers, scorer[s].step = "insert" PROVE OutcomeOK(Outcome(s))
  <1> DEFINE p == scorer[s].pair
             from == scorer[s].from
             to == scorer[s].to
             o == Outcome(s)
  <1>1. PairOK(p) /\ PricedOK(p, from, to)
    BY OneScorer DEF ScorerOK
  <1>2. o.pair = p /\ o.from = from /\ o.to = to /\ o.realized = Realized(p) /\ o.excess = Excess(p)
    BY DEF Outcome
  <1> HIDE DEF o, p, from, to
  <1>3. Realized(p) \in {None, 1, -1}
    BY DEF Realized
  <1>4. Excess(p) \in {None, 1, -1}
    BY <1>3 DEF Excess
  <1>5. OutcomeOK(o)
    BY <1>1, <1>2, <1>3, <1>4 DEF OutcomeOK
  <1> QED BY <1>5 DEF o

(* A step of a scorer. *)
LEMMA ScorerStep ==
  ASSUME Inv, NEW s \in Scorers, Work(s) \/ Crash(s)
  PROVE  Does(s) /\ \A o \in outcomes' : OutcomeOK(o)
  <1>0. \A o \in outcomes : OutcomeOK(o)
    BY DEF Inv
  <1>1. CASE StartTick(s)
    <2>1. outcomes' = outcomes
      BY <1>1 DEF StartTick, TablesUnchanged
    <2> QED BY <1>0, <1>1, <2>1, Starts
  <1>2. ASSUME NEW p, FetchPrices(s, p) PROVE Does(s) /\ \A o \in outcomes' : OutcomeOK(o)
    <2>1. outcomes' = outcomes
      BY <1>2 DEF FetchPrices, TablesUnchanged
    <2> QED BY <1>0, <1>2, <2>1, FetchesPrices
  <1>3. ASSUME NEW p, ReadStart(s, p) PROVE Does(s) /\ \A o \in outcomes' : OutcomeOK(o)
    <2>1. outcomes' = outcomes
      BY <1>3 DEF ReadStart, TablesUnchanged
    <2> QED BY <1>0, <1>3, <2>1, ReadsStart
  <1>4. CASE ReadEnd(s)
    <2>1. outcomes' = outcomes
      BY <1>4 DEF ReadEnd, TablesUnchanged
    <2> QED BY <1>0, <1>4, <2>1, ReadsEnd
  <1>5. CASE Insert(s)
    <2>1. SkipPair(s, scorer[s].pair) /\ OutcomeOK(Outcome(s))
      BY <1>5, OutcomeIsOK DEF Insert
    <2>2. \A o \in outcomes' : o \in outcomes \/ o = Outcome(s)
      BY <1>5 DEF Insert, InsertOutcome
    <2> QED BY <1>0, <2>1, <2>2, Skips
  <1>6. CASE Crash(s)
    <2>1. outcomes' = outcomes /\ scorer' = [scorer EXCEPT ![s] = Idle]
      BY <1>6 DEF Crash, TablesUnchanged
    <2>2. BatchOK({})
      <3>1. Limit \in Nat
        BY ScorerAssumption
      <3> QED BY <3>1, FS_EmptySet DEF BatchOK
    <2>3. ScorerOK(Idle)
      <3>1. Idle = [Idle EXCEPT !.batch = {}]
        BY DEF Idle
      <3> QED BY <2>2, <3>1, IdleOK
    <2>4. Sets(s, Idle)
      BY <2>1, OneScorer DEF Sets
    <2> QED BY <1>0, <2>1, <2>3, <2>4 DEF Does
  <1> QED BY <1>1, <1>2, <1>3, <1>4, <1>5, <1>6 DEF Work

LEMMA InvInit == Init => Inv
  <1> SUFFICES ASSUME Init PROVE Inv
    OBVIOUS
  <1>1. TablesOK
    <2>1. /\ now = 0 /\ faults = 0 /\ decisions = <<>> /\ snapshots = {}
          /\ MaxNow \in Nat /\ MaxFaults \in Nat
      BY ScorerAssumption DEF Init
    <2>2. decisions \in Seq(DecisionRows)
      BY <2>1, EmptySeq
    <2> QED BY <2>1, <2>2 DEF TablesOK, Times
  <1>2. ScorerOK(Idle)
    <2>1. BatchOK({})
      <3>1. Limit \in Nat
        BY ScorerAssumption
      <3> QED BY <3>1, FS_EmptySet DEF BatchOK
    <2>2. Idle = [Idle EXCEPT !.batch = {}]
      BY DEF Idle
    <2> QED BY <2>1, <2>2, IdleOK
  <1>3. scorer = [s \in Scorers |-> Idle] /\ outcomes = {}
    BY DEF Init
  <1> QED BY <1>1, <1>2, <1>3 DEF Inv

LEMMA InvKept ==
  ASSUME Inv, [Next]_vars PROVE Inv'
  <1>1. TablesOK' /\ TablesOK
    BY TablesGrow DEF Inv
  <1>2. ASSUME NEW o, OutcomeOK(o) PROVE OutcomeOK(o)'
    BY <1>1, <1>2, RecordsStay
  <1>3. ASSUME NEW r, ScorerOK(r) PROVE ScorerOK(r)'
    BY <1>1, <1>3, RecordsStay
  <1>4. /\ \A o \in outcomes' : OutcomeOK(o)
        /\ scorer' = [s \in Scorers |-> scorer'[s]]
        /\ \A s \in Scorers : ScorerOK(scorer'[s])
    <2>0. /\ \A o \in outcomes : OutcomeOK(o)
          /\ scorer = [s \in Scorers |-> scorer[s]]
          /\ \A s \in Scorers : ScorerOK(scorer[s])
      BY DEF Inv
    <2>1. ASSUME NEW s \in Scorers, Work(s) \/ Crash(s)
          PROVE  /\ \A o \in outcomes' : OutcomeOK(o)
                 /\ scorer' = [q \in Scorers |-> scorer'[q]]
                 /\ \A q \in Scorers : ScorerOK(scorer'[q])
      <3>1. Does(s) /\ \A o \in outcomes' : OutcomeOK(o)
        BY <2>1, ScorerStep
      <3>2. PICK r : ScorerOK(r) /\ Sets(s, r)
        BY <3>1 DEF Does
      <3>3. \A q \in Scorers : scorer'[q] = r \/ scorer'[q] = scorer[q]
        BY <3>2 DEF Sets
      <3>4. scorer' = [q \in Scorers |-> scorer'[q]]
        BY <3>2 DEF Sets
      <3> QED BY <2>0, <3>1, <3>2, <3>3, <3>4
    <2>2. CASE UNCHANGED <<outcomes, scorer>>
      BY <2>0, <2>2
    <2>3. ASSUME NEW x \in Symbols, NEW a \in Actions, StoreDecision(x, a)
          PROVE  UNCHANGED <<outcomes, scorer>>
      BY <2>3 DEF StoreDecision
    <2>4. PostSnapshot \/ Advance \/ UNCHANGED vars => UNCHANGED <<outcomes, scorer>>
      BY DEF PostSnapshot, Advance, vars
    <2> QED BY <2>1, <2>2, <2>3, <2>4 DEF Next
  <1>5. \A o \in outcomes' : OutcomeOK(o)'
    <2> TAKE o \in outcomes'
    <2> QED BY <1>2, <1>4
  <1>6. ASSUME NEW s \in Scorers PROVE ScorerOK(scorer[s])'
    <2> DEFINE r == scorer'[s]
    <2>1. PICK x : x = scorer'[s]
      OBVIOUS
    <2>2. ScorerOK(x)'
      BY <1>3, <1>4, <2>1
    <2> QED BY <2>1, <2>2
  <1> QED BY <1>1, <1>4, <1>5, <1>6 DEF Inv
----------------------------------------------------------------------------
LEMMA Invariant == Spec => []Inv
  <1>1. Init => Inv
    BY InvInit
  <1>2. Inv /\ [Next]_vars => Inv'
    BY InvKept
  <1> QED BY <1>1, <1>2, PTL DEF Spec

(* Every variable has its type; a scorer's batch holds only pairs of       *)
(* stored decisions, and no more than Limit (ListUnscoredDecisionHorizons). *)
THEOREM TypeCorrect == Spec => []TypeOK
  <1>1. Inv => TypeOK
    <2> SUFFICES ASSUME Inv PROVE TypeOK
      OBVIOUS
    <2>1. /\ now \in Times /\ faults \in 0..MaxFaults
          /\ decisions \in Seq([symbol : Symbols, at : Times, action : Actions])
          /\ snapshots \subseteq Times
      BY DEF Inv, TablesOK, DecisionRows
    <2>2. \A o \in outcomes : /\ o.pair \in Pairs /\ o.from \in Times /\ o.to \in Times
                              /\ {o.realized, o.excess} \subseteq {None, 1, -1}
      BY DEF Inv, OutcomeOK, PairOK, PricedOK
    <2>3. ASSUME NEW s \in Scorers
          PROVE  /\ scorer[s].batch \subseteq Pairs /\ Cardinality(scorer[s].batch) <= Limit
                 /\ scorer[s].step \in {"idle", "end", "insert"}
                 /\ scorer[s].pair \in IF scorer[s].step = "idle" THEN {None} ELSE Pairs
      <3>1. ScorerOK(scorer[s])
        BY DEF Inv
      <3> QED BY <3>1 DEF ScorerOK, PairOK
    <2> QED BY <2>1, <2>2, <2>3 DEF TypeOK
  <1> QED BY <1>1, Invariant, PTL

(* The return of a daily decision runs from a snapshot at or before it, the *)
(* nearest one unless a whole page of them lies in the lookback, to one not *)
(* before the deadline, whatever is posted while it is computed            *)
(* (computeNAV).                                                           *)
THEOREM NavBracketed == Spec => []NavBrackets
  <1>1. Inv => NavBrackets
    <2> SUFFICES ASSUME Inv, NEW o \in outcomes, IsDaily(o.pair)
                 PROVE  /\ o.from <= At(o.pair) /\ o.to >= Deadline(o.pair)
                        /\ LET near == {t \in snapshots : t <= At(o.pair) /\ t >= At(o.pair) - Lookback}
                           IN  o.from = Max(near) \/ Cardinality(near) > Page
      BY DEF NavBrackets
    <2>1. OutcomeOK(o)
      BY DEF Inv
    <2>2. FromOK(o.pair, o.from) /\ o.to >= Deadline(o.pair)
      BY <2>1 DEF OutcomeOK, PricedOK
    <2> QED BY <2>2 DEF FromOK, Near
  <1> QED BY <1>1, Invariant, PTL

(* The return of a symbol runs from a price of its first candle after the  *)
(* decision to one less than a candle's width after the deadline, however  *)
(* late the scorer comes and whatever trades meanwhile (computeOutcome).   *)
THEOREM CandlesBracketed == Spec => []CandlesBracket
  <1>1. Inv => CandlesBracket
    <2> SUFFICES ASSUME Inv, NEW o \in outcomes, ~IsDaily(o.pair)
                 PROVE  CandleOK(o.pair, o.from, o.to)
      BY DEF CandlesBracket, CandleOK
    <2>1. OutcomeOK(o)
      BY DEF Inv
    <2> QED BY <2>1 DEF OutcomeOK, PricedOK
  <1> QED BY <1>1, Invariant, PTL

(* What is fetched of any product for any span is what the exchange has of *)
(* it, at every moment: requests that meet lose no candle and double none  *)
(* (FetchProductCandles).                                                  *)
THEOREM CandlesAreComplete == Spec => []CandlesComplete
  <1>1. CandlesComplete
    <2>1. 0..now \subseteq Nat
      OBVIOUS
    <2> QED BY <2>1, Complete DEF CandlesComplete, FetchIsComplete
  <1> QED BY <1>1, PTL
=============================================================================
