----------------------------- MODULE FairValue -----------------------------
(***************************************************************************)
(* The fair value estimator (engine/fair_value.rs) and its trackers         *)
(* (engine/buildup/metrics.rs).  Prices are logarithms in whole units, so   *)
(* that a log-return is a difference.  A signal is abstracted to the samples *)
(* it has and the way it points, which its averages may turn either way with *)
(* each sample; where it counts at all, it counts fully.  The fair value is  *)
(* abstracted to what it is computed from.                                   *)
(***************************************************************************)
EXTENDS Integers, Sequences, SequencesExt, FiniteSetsExt

CONSTANTS
    Price,               \* prices
    VolCapacity,         \* vol_ring_capacity
    SessionCapacity,     \* vol_session_capacity
    VolMinWarmup,        \* vol_min_warmup
    StrikeWarmupCount,   \* strike_warmup_count
    TradeWarmup,         \* samples of an average of trades before it counts
    Signal               \* the signals an instance looks at

AllSignals == {"basis", "cvd", "obi", "basis_level", "cvd_level", "obi_level",
               "spot_cvd", "liquidation"}

ASSUME FairValueAssumption ==
    /\ Price \subseteq Nat
    /\ VolCapacity \in Nat \ {0} /\ SessionCapacity \in Nat \ {0}
    /\ VolMinWarmup \in Nat
    /\ StrikeWarmupCount \in Nat \ {0}
    /\ TradeWarmup \in Nat \ {0}
    /\ Signal \subseteq AllSignals

NoPrice == -1
Capacity == [short |-> VolCapacity, session |-> SessionCapacity]
Window == DOMAIN Capacity

-----------------------------------------------------------------------------
(* RealizedVolTracker: a ring of log-returns and the sum of their squares. *)

NewVol(w) == [returns |-> [i \in 1..Capacity[w] |-> 0],
              head |-> 1, count |-> 0, sum_sq |-> 0, prev_price |-> NoPrice]

Square(r) == r * r

\* Mutant: the first return that is overwritten stays in the sum.
EvictedLate(v, w) == IF v.count > Capacity[w] THEN Square(v.returns[v.head]) ELSE 0

\* What the return about to be overwritten has in the sum.
Evicted(v, w) == IF v.count >= Capacity[w] THEN Square(v.returns[v.head]) ELSE 0

\* Mutant: the write position runs past the end of the ring.
VolUpdateUnwrapped(v, w, price) ==
    IF v.prev_price = NoPrice
    THEN [v EXCEPT !.prev_price = price]
    ELSE [v EXCEPT !.head = @ + 1, !.count = @ + 1, !.prev_price = price]

VolUpdate(v, w, price) ==
    IF v.prev_price = NoPrice
    THEN [v EXCEPT !.prev_price = price]
    ELSE LET r == price - v.prev_price
         IN [returns |-> [v.returns EXCEPT ![v.head] = r],
             head |-> (v.head % Capacity[w]) + 1,
             count |-> v.count + 1,
             sum_sq |-> v.sum_sq - Evicted(v, w) + Square(r),
             prev_price |-> price]

\* realized_vol: the variance as a pair, or none before the warm-up.
Variance(v, w) == LET n == IF v.count < Capacity[w] THEN v.count ELSE Capacity[w]
                  IN IF n < VolMinWarmup THEN <<>> ELSE <<v.sum_sq, n>>

-----------------------------------------------------------------------------
(* The signals.  A tracker says up (1) or down (-1) once it has its samples, *)
(* is fresh and its average is above its threshold, and else nothing (0).    *)

Pointing == {-1, 0, 1}
NoSignal == [samples |-> 0, says |-> 0]

\* A sample turns the average; samples are counted up to the warm-up.
Sampled(t, warmup, turn) ==
    LET n == IF t.samples < warmup THEN t.samples + 1 ELSE warmup
    IN [samples |-> n, says |-> IF n = warmup THEN turn ELSE 0]

\* The tracker of signal s gets a sample.
Sample(f, s, warmup, turn) ==
    [f EXCEPT !.signal = [u \in Signal |-> IF u = s THEN Sampled(@[u], warmup, turn) ELSE @[u]]]

CvdAccelTracker(f, turn) == Sample(f, "cvd", TradeWarmup, turn)
CvdLevelTracker(f, turn) == Sample(f, "cvd_level", TradeWarmup, turn)
SpotCvdTracker(f, turn) == Sample(f, "spot_cvd", TradeWarmup, turn)
\* A velocity has a direction only from its second sample on.
ObiVelocityTracker(f, turn) == Sample(f, "obi", 2, turn)
BasisDeltaTracker(f, turn) == Sample(f, "basis", 2, turn)
ObiLevelTracker(f, turn) == Sample(f, "obi_level", 1, turn)
BasisLevelTracker(f, turn) == Sample(f, "basis_level", 1, turn)
LiquidationTracker(f, turn) == Sample(f, "liquidation", 1, turn)

-----------------------------------------------------------------------------
(* The estimator.                                                           *)

NoEstimate == [strike |-> NoPrice, btc |-> NoPrice, variance |-> <<>>, momentum |-> 0]

NewFairValue == [strike_price |-> NoPrice,
                 strike_warmup_buffer |-> <<>>,
                 current_btc |-> NoPrice,
                 vol |-> [w \in Window |-> NewVol(w)],
                 vol_fresh |-> FALSE,      \* both windows have the same limit
                 mids |-> {},              \* the mid prices that are known
                 signal |-> [s \in Signal |-> NoSignal],
                 estimate |-> NoEstimate]

\* Mutant: the buffer is not sorted.
MedianUnsorted(buffer) == buffer[Len(buffer) \div 2 + 1]

\* How many of the prices come before the i-th in the sorted buffer, and itself.
Rank(buffer, i) ==
    Cardinality({j \in DOMAIN buffer : \/ buffer[j] < buffer[i]
                                       \/ buffer[j] = buffer[i] /\ j <= i})

Sorted(buffer) ==
    [k \in DOMAIN buffer |-> buffer[CHOOSE i \in DOMAIN buffer : Rank(buffer, i) = k]]

Median(buffer) == Sorted(buffer)[Len(buffer) \div 2 + 1]

TrySetStrike(f, price) ==
    LET buffer == Append(f.strike_warmup_buffer, price)
    IN IF f.strike_price # NoPrice THEN f
       ELSE IF Len(buffer) < StrikeWarmupCount THEN [f EXCEPT !.strike_warmup_buffer = buffer]
       ELSE [f EXCEPT !.strike_warmup_buffer = Sorted(buffer), !.strike_price = Median(buffer)]

UpdateBtcPrice(f, price) == [f EXCEPT !.current_btc = price]

UpdateVol(f, price) == [f EXCEPT !.vol = [w \in Window |-> VolUpdate(f.vol[w], w, price)],
                                 !.vol_fresh = TRUE]

UpdateCvd(f, turn) == CvdLevelTracker(CvdAccelTracker(f, turn), turn)
UpdateObi(f, turn) == ObiLevelTracker(ObiVelocityTracker(f, turn), turn)
UpdateSpotCvd(f, turn) == SpotCvdTracker(f, turn)
UpdateLiquidation(f, turn) == LiquidationTracker(f, turn)

\* The basis needs both mid prices; the one that did not change may be old.
UpdateMid(f, mid, turn) ==
    LET g == [f EXCEPT !.mids = @ \cup {mid}]
    IN IF g.mids = {"futures", "spot"}
       THEN BasisLevelTracker(BasisDeltaTracker(g, turn), turn)
       ELSE g
UpdateSpotMid(f, turn) == UpdateMid(f, "spot", turn)
UpdateFuturesMid(f, turn) == UpdateMid(f, "futures", turn)

IsStale(f) == ~f.vol_fresh
IsWarm(f) == f.strike_price # NoPrice /\ f.current_btc # NoPrice
IsVolWarm(f) == f.vol["short"].count >= VolMinWarmup

\* cvd_signal, obi_signal, basis_signal.
Says(f, s) == IF s \in Signal THEN f.signal[s].says ELSE 0

\* recompute: all that the fair value and the edge come from.  The momentum is
\* the side the signals pull to together.
Momentum(f) == LET pull == MapThenSumSet(LAMBDA s : Says(f, s), Signal)
               IN IF pull > 0 THEN 1 ELSE IF pull < 0 THEN -1 ELSE 0
Recompute(f) == [f EXCEPT !.estimate = [strike |-> f.strike_price, btc |-> f.current_btc,
                                        variance |-> Variance(f.vol["short"], "short"),
                                        momentum |-> Momentum(f)]]
=============================================================================
