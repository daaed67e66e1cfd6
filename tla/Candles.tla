------------------------------ MODULE Candles ------------------------------
(***************************************************************************)
(* The candles of a product (internal/broker/coinbase/candles.go): how     *)
(* wide they are for a span of time, and how requests for a long span are  *)
(* split, answered and put together.  The exchange is external: it answers *)
(* with the candles that start in the span asked for, and has one for each *)
(* bucket in which something was traded.                                   *)
(***************************************************************************)
EXTENDS Integers, FiniteSets, FiniteSetsExt, Sequences

CONSTANTS
  Granularities,   (* [span, width]: candles of the first whose span is     *)
                   (* long enough, of the last if none is                   *)
  MaxCandles       (* maxCandlesPerRequest                                  *)

ASSUME CandlesAssumption ==
    /\ Granularities \in Seq([span : Nat, width : Nat \ {0}]) /\ Granularities # <<>>
    /\ MaxCandles \in Nat \ {0}

(* candleGranularity *)
Width(span) ==
    LET fits == {i \in DOMAIN Granularities : span <= Granularities[i].span}
    IN  Granularities[IF fits = {} THEN Len(Granularities) ELSE Min(fits)].width

(* The exchange: a candle starts at a multiple of its width and closes     *)
(* with the last trade in it so far.                                       *)
Candle(trades, start, width) ==
    [start |-> start, close |-> Max(trades \cap start..(start + width - 1))]
Answer(trades, width, from, to) ==
    {Candle(trades, b, width) : b \in
        {b \in from..to : b % width = 0 /\ trades \cap b..(b + width - 1) # {}}}

Chunks_NoOverlap(since, until) ==
    LET width   == Width(until - since)
        maxSpan == MaxCandles * width
    IN  {[from |-> since + k * maxSpan, to |-> Min({since + (k + 1) * maxSpan - width, until})] :
           k \in {k \in 0..(until - since) : since + k * maxSpan < until}}
(* The requests.  A request starts a nanosecond after the end of the one   *)
(* before it, in whole seconds at the same time.                           *)
Chunks(since, until) ==
    LET maxSpan == MaxCandles * Width(until - since)
    IN  {[from |-> since + k * maxSpan, to |-> Min({since + (k + 1) * maxSpan, until})] :
           k \in {k \in 0..(until - since) : since + k * maxSpan < until}}

(* A candle answered twice is kept once. *)
FetchProductCandles(trades, since, until) ==
    LET width == Width(until - since)
    IN  UNION {Answer(trades, width, c.from, c.to) : c \in Chunks(since, until)}

(* What is fetched for a span is what the exchange has for it: no bucket   *)
(* is lost or doubled where two requests meet (FetchProductCandles).       *)
FetchIsComplete(trades, times) ==
    \A since, until \in times : since < until =>
        FetchProductCandles(trades, since, until) =
            Answer(trades, Width(until - since), since, until)
=============================================================================
