-------------------------- MODULE MarketDataProofs --------------------------
(***************************************************************************)
(* The market data, for every capacity, warm-up, threshold and set of       *)
(* signals: an order is priced on this market's data only, the volatility   *)
(* window holds the last returns, the strike is the median of the first     *)
(* ticks, and the buildup guard has a reason.  What the estimator holds is  *)
(* stated of the prices read in this market (Holds); an event adds a price  *)
(* to both, or to neither, and the end of every iteration recomputes.       *)
(***************************************************************************)
EXTENDS MarketData, SetProofs

MaybePrice == Price \cup {NoPrice}
Spots == [tick : BOOLEAN, price : Price]

VolType(w) == [returns : [1..Capacity[w] -> Int], head : 1..Capacity[w],
               count : Nat, sum_sq : Int, prev_price : MaybePrice]

Trackers == [samples : Nat, says : Pointing]

Estimates == [strike : MaybePrice, btc : MaybePrice,
              variance : {<<>>} \cup (Int \X Nat), momentum : Pointing]

\* The fields of the estimator.
FairValues == [strike_price : MaybePrice,
               strike_warmup_buffer : Seq(Price),
               current_btc : MaybePrice,
               vol : [Window -> VolType("short") \cup VolType("session")],
               vol_fresh : BOOLEAN,
               mids : SUBSET {"futures", "spot"},
               signal : [Signal -> Trackers],
               estimate : Estimates]

IsFairValue(f) == /\ f \in FairValues
                  /\ Len(f.strike_warmup_buffer) <= StrikeWarmupCount
                  /\ \A w \in Window : f.vol[w] \in VolType(w)

\* The ticks among ps, and whether m is the median of those at the positions S.
TicksOf(ps) == {k \in DOMAIN ps : ps[k].tick}
FirstTicksOf(ps) == {k \in TicksOf(ps) : Cardinality({j \in TicksOf(ps) : j <= k}) <= StrikeWarmupCount}
MedianOf(m, ps, S) == /\ Cardinality({k \in S : ps[k].price < m}) <= Cardinality(S) \div 2
                      /\ Cardinality({k \in S : ps[k].price <= m}) > Cardinality(S) \div 2

\* The last price is that of the last tick.
BtcHolds(f, ps) ==
    IF f.current_btc = NoPrice THEN TicksOf(ps) = {}
    ELSE TicksOf(ps) # {} /\ f.current_btc = ps[Max(TicksOf(ps))].price

\* Before there is a strike, the buffer holds the ticks in their order.
StrikeHolds(f, ps, market) ==
    IF market = 0 THEN f.strike_price = NoPrice
    ELSE IF f.strike_price = NoPrice
    THEN /\ Cardinality(TicksOf(ps)) < StrikeWarmupCount
         /\ Len(f.strike_warmup_buffer) = Cardinality(TicksOf(ps))
         /\ \A k \in TicksOf(ps) :
               f.strike_warmup_buffer[Cardinality({j \in TicksOf(ps) : j <= k})] = ps[k].price
    ELSE /\ Cardinality(TicksOf(ps)) >= StrikeWarmupCount
         /\ MedianOf(f.strike_price, ps, FirstTicksOf(ps))

\* The a-th last return is a places before the head.
ReturnOf(ps, k) == ps[k].price - ps[k - 1].price
Place(head, a, w) == IF a < head THEN head - a ELSE head - a + Capacity[w]
WindowOf(ps, w) == {k \in 2..Len(ps) : k > Len(ps) - Capacity[w]}
SquaresOf(ps) == [k \in 2..Len(ps) |-> Square(ReturnOf(ps, k))]

RingHolds(v, ps, w) ==
    /\ v.count = IF ps = <<>> THEN 0 ELSE Len(ps) - 1
    /\ v.prev_price = IF ps = <<>> THEN NoPrice ELSE ps[Len(ps)].price
    /\ \A a \in 1..Capacity[w] :
          Len(ps) + 1 - a >= 2 => v.returns[Place(v.head, a, w)] = ReturnOf(ps, Len(ps) + 1 - a)
    /\ v.sum_sq = SumFunctionOnSet(SquaresOf(ps), WindowOf(ps, w))

VolHolds(f, ps) == \A w \in Window : RingHolds(f.vol[w], ps, w)

\* What the estimator f holds when ps are the prices read in the market.
Holds(f, market, ps) == /\ IsFairValue(f)
                        /\ BtcHolds(f, ps)
                        /\ StrikeHolds(f, ps, market)
                        /\ VolHolds(f, ps)

\* Fresh or not: best prices renew any book there is.
BooksOfMarket == \A s \in MarketSide : book[s] = NoBook \/ book[s].market = active

Estimated == IsWarm(fair_value) => /\ fair_value.estimate.strike = fair_value.strike_price
                                   /\ fair_value.estimate.btc = fair_value.current_btc

MInv == /\ active \in 0..MaxMarkets
        /\ book \in [MarketSide -> [market : 0..MaxMarkets, fresh : BOOLEAN]]
        /\ phase \in {"quiet", "quoting"}
        /\ buildup_guard_active \in BOOLEAN
        /\ prices \in Seq(Spots)
        /\ Len(prices) <= MaxPrices
        /\ strike_price = fair_value.strike_price
        /\ Holds(fair_value, active, prices)
        /\ BooksOfMarket
        /\ Estimated
-----------------------------------------------------------------------------
(* What the updates of the estimator do, and what they leave alone.         *)

\* The estimators f and g differ in their signals, if at all.
SameData(f, g) == /\ f.strike_price = g.strike_price
                  /\ f.strike_warmup_buffer = g.strike_warmup_buffer
                  /\ f.current_btc = g.current_btc
                  /\ f.vol = g.vol
                  /\ f.vol_fresh = g.vol_fresh
                  /\ f.estimate = g.estimate

LEMMA SampleEffect ==
    ASSUME NEW f, IsFairValue(f), NEW s, NEW warmup \in Nat, NEW turn \in Pointing
    PROVE  IsFairValue(Sample(f, s, warmup, turn)) /\ SameData(f, Sample(f, s, warmup, turn))
  <1> DEFINE signal == [u \in Signal |-> IF u = s THEN Sampled(f.signal[u], warmup, turn)
                                         ELSE f.signal[u]]
  <1>1. f \in FairValues
    BY DEF IsFairValue
  <1>2. \A u \in Signal : f.signal[u] \in Trackers
    BY <1>1 DEF FairValues
  <1>3. signal \in [Signal -> Trackers]
    BY <1>2 DEF Sampled, Trackers, Pointing
  <1> HIDE DEF signal
  <1>4. Sample(f, s, warmup, turn) = [f EXCEPT !.signal = signal]
    BY <1>1 DEF Sample, signal, FairValues
  <1> QED
    BY <1>1, <1>3, <1>4 DEF IsFairValue, FairValues, SameData

\* The updates that feed the signals.
LEMMA FlowEffect ==
    ASSUME NEW f, IsFairValue(f), NEW turn \in Pointing,
           NEW g \in {UpdateObi(f, turn), UpdateFuturesMid(f, turn), UpdateSpotMid(f, turn),
                      UpdateCvd(f, turn), UpdateSpotCvd(f, turn), UpdateLiquidation(f, turn)}
    PROVE  IsFairValue(g) /\ SameData(f, g)
  <1>1. \A w \in {1, 2, TradeWarmup} : w \in Nat
    BY FairValueAssumption
  <1> DEFINE Good(h) == IsFairValue(h) /\ SameData(f, h)
  <1>2. ASSUME NEW h, Good(h), NEW s, NEW w \in {1, 2, TradeWarmup}
        PROVE  Good(Sample(h, s, w, turn))
    <2>1. IsFairValue(Sample(h, s, w, turn)) /\ SameData(h, Sample(h, s, w, turn))
      BY <1>1, <1>2, SampleEffect
    <2> QED
      BY <1>2, <2>1 DEF SameData
  <1>3. Good(f)
    BY DEF SameData
  <1>4. ASSUME NEW mid \in {"futures", "spot"}
        PROVE  Good(UpdateMid(f, mid, turn))
    <2> DEFINE h == [f EXCEPT !.mids = @ \cup {mid}]
    <2>1. Good(h)
      BY DEF IsFairValue, FairValues, SameData
    <2> HIDE DEF Good
    <2>2. Good(Sample(Sample(h, "basis", 2, turn), "basis_level", 1, turn))
      BY <1>2, <2>1
    <2> QED
      BY <2>1, <2>2 DEF UpdateMid, BasisDeltaTracker, BasisLevelTracker
  <1> HIDE DEF Good
  <1>5. /\ Good(Sample(Sample(f, "obi", 2, turn), "obi_level", 1, turn))
        /\ Good(Sample(Sample(f, "cvd", TradeWarmup, turn), "cvd_level", TradeWarmup, turn))
        /\ Good(Sample(f, "spot_cvd", TradeWarmup, turn))
        /\ Good(Sample(f, "liquidation", 1, turn))
    BY <1>2, <1>3
  <1>6. Good(g)
    BY <1>4, <1>5 DEF UpdateObi, UpdateFuturesMid, UpdateSpotMid, UpdateCvd, UpdateSpotCvd,
                      UpdateLiquidation, ObiVelocityTracker, ObiLevelTracker, CvdAccelTracker,
                      CvdLevelTracker, SpotCvdTracker, LiquidationTracker
  <1> QED
    BY <1>6 DEF Good

LEMMA SameHolds ==
    ASSUME NEW f, NEW g, NEW market, NEW ps, Holds(f, market, ps), IsFairValue(g), SameData(f, g)
    PROVE  Holds(g, market, ps)
  BY DEF Holds, SameData, BtcHolds, StrikeHolds, VolHolds

\* recompute changes the estimate, to what the estimator holds.
LEMMA RecomputeEffect ==
    ASSUME NEW f, IsFairValue(f)
    PROVE  /\ IsFairValue(Recompute(f))
           /\ Recompute(f).estimate.strike = f.strike_price
           /\ Recompute(f).estimate.btc = f.current_btc
           /\ \A x \in {"strike_price", "strike_warmup_buffer", "current_btc", "vol", "vol_fresh",
                        "signal"} : Recompute(f)[x] = f[x]
  <1> DEFINE estimate == [strike |-> f.strike_price, btc |-> f.current_btc,
                          variance |-> Variance(f.vol["short"], "short"),
                          momentum |-> Momentum(f)]
  <1>1. f \in FairValues /\ f.vol["short"] \in VolType("short")
    BY DEF IsFairValue, Window, Capacity
  <1>2. Capacity["short"] \in Nat
    BY FairValueAssumption DEF Capacity
  <1>3. Variance(f.vol["short"], "short") \in {<<>>} \cup (Int \X Nat)
    BY <1>1, <1>2 DEF Variance, VolType
  <1>4. Momentum(f) \in Pointing
    BY DEF Momentum, Pointing
  <1>5. estimate \in Estimates
    BY <1>1, <1>3, <1>4 DEF Estimates, FairValues
  <1>6. estimate.strike = f.strike_price /\ estimate.btc = f.current_btc
    OBVIOUS
  <1> HIDE DEF estimate
  <1>7. Recompute(f) = [f EXCEPT !.estimate = estimate]
    BY DEF Recompute, estimate
  <1> QED
    BY <1>1, <1>5, <1>6, <1>7 DEF IsFairValue, FairValues
-----------------------------------------------------------------------------
(* The volatility window: what is read is what was written.                 *)

LEMMA CapacityPositive == \A w \in Window : Capacity[w] \in Nat \ {0}
  BY FairValueAssumption DEF Capacity, Window

LEMMA SquareNat == \A r \in Int : Square(r) \in Nat
  BY DEF Square

LEMMA AppendFacts ==
    ASSUME NEW ps \in Seq(Spots), NEW x \in Spots
    PROVE  /\ Append(ps, x) \in Seq(Spots)
           /\ Len(ps) \in Nat
           /\ Len(Append(ps, x)) = Len(ps) + 1
           /\ Append(ps, x)[Len(ps) + 1] = x
           /\ \A k \in 1..Len(ps) : Append(ps, x)[k] = ps[k]
           /\ DOMAIN ps = 1..Len(ps)
           /\ DOMAIN Append(ps, x) = 1..(Len(ps) + 1)
           /\ Append(ps, x) # <<>>
           /\ (ps = <<>>) = (Len(ps) = 0)
  OBVIOUS

LEMMA PriceNat == \A p \in Price : p \in Nat /\ p \in Int /\ p # NoPrice
  <1>1. Price \subseteq Nat
    BY Zenon, FairValueAssumption
  <1> QED
    BY <1>1 DEF NoPrice

LEMMA PriceInt == \A ps \in Seq(Spots) : \A k \in 1..Len(ps) : ps[k].price \in Price /\ ps[k].price \in Int
  <1> SUFFICES ASSUME NEW ps \in Seq(Spots), NEW k \in 1..Len(ps)
               PROVE  ps[k].price \in Price
    BY PriceNat
  <1>1. ps[k] \in Spots
    OBVIOUS
  <1> QED
    BY <1>1 DEF Spots

LEMMA ReturnInt == \A ps \in Seq(Spots) : \A k \in 2..Len(ps) : ReturnOf(ps, k) \in Int
  BY PriceInt DEF ReturnOf

LEMMA SquaresNat == \A ps \in Seq(Spots) : \A k \in 2..Len(ps) : SquaresOf(ps)[k] \in Nat
  <1> SUFFICES ASSUME NEW ps \in Seq(Spots), NEW k \in 2..Len(ps)
               PROVE  SquaresOf(ps)[k] \in Nat
    OBVIOUS
  <1>1. SquaresOf(ps)[k] = Square(ReturnOf(ps, k))
    BY DEF SquaresOf
  <1>2. ReturnOf(ps, k) \in Int
    BY ReturnInt
  <1> QED
    BY <1>1, <1>2, SquareNat

LEMMA WindowFinite ==
    ASSUME NEW ps \in Seq(Spots), NEW w \in Window
    PROVE  IsFiniteSet(WindowOf(ps, w)) /\ \A k \in WindowOf(ps, w) : SquaresOf(ps)[k] \in Nat
  <1>1. WindowOf(ps, w) \subseteq 2..Len(ps) /\ Len(ps) \in Int
    BY DEF WindowOf
  <1>2. IsFiniteSet(2..Len(ps))
    BY <1>1, FS_Interval
  <1> QED
    BY <1>1, <1>2, FS_Subset, SquaresNat

\* A new price moves the window by one.
LEMMA WindowAppend ==
    ASSUME NEW ps \in Seq(Spots), NEW x \in Spots, NEW w \in Window, Len(ps) >= 1
    PROVE  LET n == Len(ps)
               qs == Append(ps, x)
           IN SumFunctionOnSet(SquaresOf(qs), WindowOf(qs, w)) =
                 SumFunctionOnSet(SquaresOf(ps), WindowOf(ps, w)) + Square(ReturnOf(qs, n + 1))
                 - IF n + 1 - Capacity[w] >= 2 THEN Square(ReturnOf(ps, n + 1 - Capacity[w])) ELSE 0
  <1> DEFINE n == Len(ps)
             qs == Append(ps, x)
             old == n + 1 - Capacity[w]
             kept == {k \in 2..n : k > old}
             s == SquaresOf(ps)
             t == SquaresOf(qs)
  <1>0. n \in Nat /\ n >= 1 /\ Capacity[w] \in Nat /\ Capacity[w] >= 1 /\ old \in Int
    BY CapacityPositive
  <1>1. /\ qs \in Seq(Spots) /\ Len(qs) = n + 1
        /\ \A k \in 1..n : qs[k] = ps[k]
    BY AppendFacts
  <1> HIDE DEF qs
  <1>2. \A k \in 2..n : ReturnOf(qs, k) = ReturnOf(ps, k)
    BY <1>1 DEF ReturnOf
  <1>3. /\ \A k \in 2..n : s[k] = Square(ReturnOf(ps, k)) /\ t[k] = s[k]
        /\ t[n + 1] = Square(ReturnOf(qs, n + 1))
    BY <1>0, <1>1, <1>2 DEF SquaresOf
  <1>4. /\ \A k \in 2..n : s[k] \in Int
        /\ \A k \in 2..(n + 1) : t[k] \in Int
    BY <1>0, <1>1, SquaresNat
  <1>5. /\ WindowOf(qs, w) = kept \cup {n + 1}
        /\ WindowOf(ps, w) = IF old >= 2 THEN kept \cup {old} ELSE kept
        /\ n + 1 \notin kept /\ old \notin kept
    BY <1>0, <1>1 DEF WindowOf
  <1>6. /\ IsFiniteSet(WindowOf(ps, w)) /\ IsFiniteSet(WindowOf(qs, w)) /\ IsFiniteSet(kept)
        /\ kept \subseteq 2..n
    BY <1>1, <1>5, WindowFinite, FS_Subset
  <1> HIDE DEF kept, s, t
  <1>7. SumFunctionOnSet(t, WindowOf(qs, w)) = t[n + 1] + SumFunctionOnSet(t, kept)
    <2>1. \A k \in WindowOf(qs, w) : t[k] \in Int
      <3>1. kept \subseteq 2..(n + 1) /\ n + 1 \in 2..(n + 1)
        BY <1>0, <1>6
      <3> QED
        BY <1>4, <1>5, <3>1
    <2>2. WindowOf(qs, w) \ {n + 1} = kept /\ n + 1 \in WindowOf(qs, w)
      BY <1>5
    <2>3. \A k \in WindowOf(qs, w) : SumFunctionOnSet(t, WindowOf(qs, w)) =
                                       t[k] + SumFunctionOnSet(t, WindowOf(qs, w) \ {k})
      BY <1>6, <2>1, SumRemove
    <2> QED
      BY <2>2, <2>3
  <1>8. SumFunctionOnSet(t, kept) = SumFunctionOnSet(s, kept)
    <2>1. \A k \in kept : t[k] \in Int /\ t[k] = s[k]
      BY <1>3, <1>4, <1>6
    <2> QED
      BY <1>6, <2>1, SumExtensional
  <1>9. SumFunctionOnSet(s, kept) \in Int
    <2>1. \A k \in kept : s[k] \in Int
      BY <1>4, <1>6
    <2> QED
      BY <1>6, <2>1, SumInt
  <1>10. CASE old >= 2
    <2>1. \A k \in WindowOf(ps, w) : s[k] \in Int
      BY <1>4 DEF WindowOf
    <2>2. WindowOf(ps, w) \ {old} = kept /\ old \in WindowOf(ps, w)
      BY <1>5, <1>10
    <2>3. \A k \in WindowOf(ps, w) : SumFunctionOnSet(s, WindowOf(ps, w)) =
                                       s[k] + SumFunctionOnSet(s, WindowOf(ps, w) \ {k})
      BY <1>6, <2>1, SumRemove
    <2>4. SumFunctionOnSet(s, WindowOf(ps, w)) = s[old] + SumFunctionOnSet(s, kept)
      BY <2>2, <2>3
    <2>5. old \in 2..n /\ s[old] = Square(ReturnOf(ps, old))
      BY <1>0, <1>3, <1>10
    <2>6. s[old] \in Int /\ t[n + 1] \in Int
      BY <1>0, <1>4, <2>5
    <2> HIDE DEF old
    <2>7. SumFunctionOnSet(t, WindowOf(qs, w)) = SumFunctionOnSet(s, WindowOf(ps, w)) + t[n + 1] - s[old]
      BY <1>7, <1>8, <1>9, <2>4, <2>6
    <2> QED
      BY <1>3, <1>10, <2>5, <2>7 DEF s, t, qs, old
  <1>11. CASE ~(old >= 2)
    <2>1. t[n + 1] \in Int
      BY <1>0, <1>4
    <2>2. SumFunctionOnSet(t, WindowOf(qs, w)) = SumFunctionOnSet(s, WindowOf(ps, w)) + t[n + 1] - 0
      BY <1>5, <1>7, <1>8, <1>9, <1>11, <2>1
    <2> QED
      BY <1>3, <1>11, <2>2 DEF s, t, qs, old
  <1> QED
    BY <1>10, <1>11

\* The places of the ring, and where they are after the next write.
LEMMA PlaceFacts ==
    ASSUME NEW w \in Window, NEW head \in 1..Capacity[w]
    PROVE  LET next == (head % Capacity[w]) + 1
           IN /\ next \in 1..Capacity[w]
              /\ Place(head, Capacity[w], w) = head
              /\ Place(next, 1, w) = head
              /\ \A a \in 2..Capacity[w] : /\ Place(next, a, w) = Place(head, a - 1, w)
                                           /\ Place(next, a, w) \in 1..Capacity[w]
                                           /\ Place(next, a, w) # head
  <1> DEFINE c == Capacity[w]
  <1>1. c \in Nat /\ c >= 1
    BY CapacityPositive
  <1> HIDE DEF c
  <1>2. head \in Nat /\ head >= 1 /\ head <= c
    BY <1>1 DEF c
  <1>3. head % c = IF head = c THEN 0 ELSE head
    BY <1>1, <1>2, SMTT(30)
  <1> QED
    BY <1>1, <1>2, <1>3 DEF Place, c

LEMMA RingAppend ==
    ASSUME NEW ps \in Seq(Spots), NEW x \in Spots, NEW w \in Window, NEW v \in VolType(w),
           RingHolds(v, ps, w)
    PROVE  /\ VolUpdate(v, w, x.price) \in VolType(w)
           /\ RingHolds(VolUpdate(v, w, x.price), Append(ps, x), w)
  <1> DEFINE n == Len(ps)
             c == Capacity[w]
             qs == Append(ps, x)
             u == VolUpdate(v, w, x.price)
             r == x.price - v.prev_price
  <1>1. /\ n \in Nat /\ c \in Nat /\ c >= 1
        /\ qs \in Seq(Spots) /\ Len(qs) = n + 1 /\ qs[n + 1] = x /\ qs # <<>>
        /\ \A k \in 1..n : qs[k] = ps[k]
        /\ (ps = <<>>) = (n = 0)
    BY AppendFacts, CapacityPositive
  <1>2. /\ v.returns \in [1..c -> Int] /\ v.head \in 1..c /\ v.count \in Nat
        /\ v.sum_sq \in Int /\ v.prev_price \in MaybePrice
        /\ v = [returns |-> v.returns, head |-> v.head, count |-> v.count, sum_sq |-> v.sum_sq,
                prev_price |-> v.prev_price]
    BY DEF VolType
  <1>3. x.price \in Price /\ x.price \in Int
    BY PriceNat DEF Spots
  <1>4. CASE n = 0
    <2>1. v.prev_price = NoPrice /\ v.count = 0
      BY <1>1, <1>4 DEF RingHolds
    <2>2. u = [v EXCEPT !.prev_price = x.price]
      BY <2>1 DEF VolUpdate
    <2>3. u \in VolType(w)
      BY <1>2, <1>3, <2>2 DEF VolType, MaybePrice
    <2>4. /\ u.count = 0 /\ u.prev_price = x.price /\ u.sum_sq = v.sum_sq
      BY <1>2, <2>1, <2>2
    <2>5. WindowOf(ps, w) = {} /\ WindowOf(qs, w) = {}
      BY <1>1, <1>4 DEF WindowOf
    <2>6. u.sum_sq = SumFunctionOnSet(SquaresOf(qs), WindowOf(qs, w))
      <3>1. v.sum_sq = SumFunctionOnSet(SquaresOf(ps), WindowOf(ps, w))
        BY DEF RingHolds
      <3> QED
        BY <2>4, <2>5, <3>1, SumEmpty
    <2> HIDE DEF u, qs
    <2>7. RingHolds(u, qs, w)
      BY <1>1, <1>4, <2>4, <2>6 DEF RingHolds
    <2> QED
      BY <2>3, <2>7 DEF u, qs
  <1>5. CASE n # 0
    <2>1. n >= 1 /\ v.count = n - 1 /\ v.prev_price = ps[n].price
      BY <1>1, <1>5 DEF RingHolds
    <2>2. v.prev_price # NoPrice /\ v.prev_price \in Int
      BY <1>1, <2>1, PriceInt, PriceNat
    <2>3. u = [returns |-> [v.returns EXCEPT ![v.head] = r],
               head |-> (v.head % c) + 1,
               count |-> v.count + 1,
               sum_sq |-> v.sum_sq - Evicted(v, w) + Square(r),
               prev_price |-> x.price]
      BY <2>2 DEF VolUpdate
    <2>4. r \in Int /\ r = ReturnOf(qs, n + 1) /\ Square(r) \in Int
      <3>1. r = ReturnOf(qs, n + 1)
        BY <1>1, <2>1 DEF ReturnOf
      <3>2. r \in Int
        BY <1>3, <2>2
      <3> HIDE DEF r
      <3> QED
        BY <3>1, <3>2, SquareNat
    <2>5. \A k \in 2..n : ReturnOf(qs, k) = ReturnOf(ps, k)
      BY <1>1 DEF ReturnOf
    <2>6. \A a \in 1..c : n + 1 - a >= 2 => v.returns[Place(v.head, a, w)] = ReturnOf(ps, n + 1 - a)
      BY DEF RingHolds
    <2>7. Evicted(v, w) = IF n + 1 - c >= 2 THEN Square(ReturnOf(ps, n + 1 - c)) ELSE 0
      <3>1. Place(v.head, c, w) = v.head
        BY <1>2, PlaceFacts
      <3>2. n + 1 - c >= 2 => v.returns[v.head] = ReturnOf(ps, n + 1 - c)
        BY <1>1, <2>6, <3>1
      <3> QED
        BY <1>1, <2>1, <3>2 DEF Evicted
    <2>8. Evicted(v, w) \in Int
      <3>1. v.returns[v.head] \in Int
        BY <1>2
      <3> QED
        BY <3>1, SquareNat DEF Evicted
    <2>9. (v.head % c) + 1 \in 1..c
      BY <1>2, PlaceFacts
    <2> HIDE DEF r
    <2>10. u \in VolType(w)
      <3>1. /\ [v.returns EXCEPT ![v.head] = r] \in [1..c -> Int]
            /\ v.count + 1 \in Nat
            /\ v.sum_sq - Evicted(v, w) + Square(r) \in Int
            /\ x.price \in MaybePrice
        BY <1>2, <1>3, <2>4, <2>8 DEF MaybePrice
      <3> QED
        BY <2>3, <2>9, <3>1 DEF VolType
    <2>11. /\ u.count = n /\ u.prev_price = x.price
           /\ u.sum_sq = v.sum_sq - Evicted(v, w) + Square(r)
           /\ u.returns = [v.returns EXCEPT ![v.head] = r]
           /\ u.head = (v.head % c) + 1
      BY <1>1, <2>1, <2>3
    <2>12. u.sum_sq = SumFunctionOnSet(SquaresOf(qs), WindowOf(qs, w))
      <3>1. v.sum_sq = SumFunctionOnSet(SquaresOf(ps), WindowOf(ps, w))
        BY DEF RingHolds
      <3>2. SumFunctionOnSet(SquaresOf(qs), WindowOf(qs, w)) = v.sum_sq + Square(r) - Evicted(v, w)
        BY <2>1, <2>4, <2>7, <3>1, WindowAppend
      <3> QED
        BY <1>2, <2>4, <2>8, <2>11, <3>2
    <2>13. ASSUME NEW a \in 1..c, n + 2 - a >= 2
           PROVE  u.returns[Place(u.head, a, w)] = ReturnOf(qs, n + 2 - a)
      <3>1. CASE a = 1
        <4>1. Place(u.head, a, w) = v.head
          BY <1>2, <2>11, <3>1, PlaceFacts
        <4>2. u.returns[v.head] = r
          BY <1>2, <2>11
        <4> QED
          BY <1>1, <2>4, <3>1, <4>1, <4>2
      <3>2. CASE a # 1
        <4>1. a \in 2..c /\ a - 1 \in 1..c /\ n + 1 - (a - 1) = n + 2 - a /\ n + 2 - a \in 2..n
          BY <1>1, <2>13, <3>2
        <4>2. /\ Place(u.head, a, w) = Place(v.head, a - 1, w)
              /\ Place(u.head, a, w) \in 1..c
              /\ Place(u.head, a, w) # v.head
          BY <1>2, <2>11, <4>1, PlaceFacts
        <4>3. u.returns[Place(u.head, a, w)] = v.returns[Place(v.head, a - 1, w)]
          BY <1>2, <2>11, <4>2
        <4>4. v.returns[Place(v.head, a - 1, w)] = ReturnOf(ps, n + 2 - a)
          BY <2>6, <2>13, <4>1
        <4> QED
          BY <2>5, <4>1, <4>3, <4>4
      <3> QED
        BY <3>1, <3>2
    <2> HIDE DEF u, qs
    <2>14. RingHolds(u, qs, w)
      <3>1. Len(qs) + 1 = n + 2 /\ Len(qs) - 1 = n
        BY <1>1
      <3>2. \A a \in 1..c : Len(qs) + 1 - a >= 2 =>
                u.returns[Place(u.head, a, w)] = ReturnOf(qs, Len(qs) + 1 - a)
        BY <2>13, <3>1
      <3> QED
        BY <1>1, <2>11, <2>12, <3>1, <3>2 DEF RingHolds
    <2> QED
      BY <2>10, <2>14 DEF u, qs
  <1> QED
    BY <1>4, <1>5
-----------------------------------------------------------------------------
(* The median.                                                              *)

\* The rank in the sorted buffer.
LEMMA SortRankBijection ==
    ASSUME NEW b \in Seq(Price)
    PROVE  [i \in DOMAIN b |-> Rank(b, i)] \in Bijection(DOMAIN b, 1..Len(b))
  <1> DEFINE T == DOMAIN b
             Before(j, i) == b[j] < b[i] \/ (b[j] = b[i] /\ j <= i)
             D == [i \in T |-> {j \in T : Before(j, i)}]
  <1>0. \A i \in T : b[i] \in Price /\ i \in Nat
    OBVIOUS
  <1>1. T = 1..Len(b) /\ Len(b) \in Nat /\ \A i \in T : b[i] \in Nat /\ i \in Nat
    BY <1>0, PriceNat
  <1>2. IsFiniteSet(T) /\ Cardinality(T) = Len(b)
    <2> DEFINE n == Len(b)
    <2>1. n \in Nat
      BY <1>1
    <2> HIDE DEF n
    <2>2. IsFiniteSet(1..n) /\ Cardinality(1..n) = n
      BY <2>1, FS_Interval
    <2> QED
      BY <1>1, <2>2 DEF n
  <1>3. /\ \A i \in T : Before(i, i)
        /\ \A i, j \in T : i # j => \/ Before(j, i) /\ ~Before(i, j)
                                    \/ Before(i, j) /\ ~Before(j, i)
        /\ \A h, i, j \in T : Before(h, i) /\ Before(i, j) => Before(h, j)
    <2> HIDE DEF T
    <2> QED
      BY <1>1
  <1>4. [i \in T |-> Rank(b, i)] = [i \in T |-> Cardinality({j \in T : Before(j, i)})]
    BY Zenon DEF Rank
  <1> HIDE DEF Before, T
  <1>5. /\ D \in [T -> SUBSET T] /\ \A i \in T : i \in D[i]
        /\ \A i, j \in T : i # j => \/ i \in D[j] /\ j \notin D[i] /\ D[i] \subseteq D[j]
                                    \/ j \in D[i] /\ i \notin D[j] /\ D[j] \subseteq D[i]
    BY <1>3
  <1>6. [i \in T |-> Rank(b, i)] = [i \in T |-> Cardinality(D[i])]
    BY <1>4
  <1> HIDE DEF D
  <1>7. [i \in T |-> Rank(b, i)] \in Bijection(T, 1..Cardinality(T))
    BY <1>2, <1>5, <1>6, RankBijection
  <1> QED
    BY <1>2, <1>7 DEF T

\* The price in the middle of the sorted buffer is a median of it.
LEMMA MedianSplits ==
    ASSUME NEW b \in Seq(Price), Len(b) >= 1
    PROVE  /\ Sorted(b) \in Seq(Price) /\ Len(Sorted(b)) = Len(b)
           /\ Median(b) \in Price
           /\ Cardinality({i \in DOMAIN b : b[i] < Median(b)}) <= Len(b) \div 2
           /\ Cardinality({i \in DOMAIN b : b[i] <= Median(b)}) > Len(b) \div 2
  <1> DEFINE n == Len(b)
             T == DOMAIN b
             At(k) == CHOOSE i \in T : Rank(b, i) = k
  <1>0. \A i \in T : b[i] \in Price /\ i \in Nat
    OBVIOUS
  <1>1. T = 1..n /\ n \in Nat /\ \A i \in T : b[i] \in Price /\ b[i] \in Nat /\ i \in Nat
    BY <1>0, PriceNat
  <1>2. IsFiniteSet(T) /\ Cardinality(T) = n
    BY <1>1, FS_Interval
  <1>3. \A k \in T : \E i \in T : Rank(b, i) = k
    <2>1. [i \in T |-> Rank(b, i)] \in Surjection(T, 1..n)
      BY SortRankBijection DEF Bijection
    <2> QED
      BY <1>1, <2>1 DEF Surjection
  <1>4. \A k \in T : At(k) \in T /\ Rank(b, At(k)) = k
    BY <1>3
  <1> HIDE DEF At
  <1>5. Sorted(b) = [k \in T |-> b[At(k)]]
    BY DEF Sorted, At
  <1>6. Sorted(b) \in Seq(Price) /\ Len(Sorted(b)) = Len(b)
    BY <1>1, <1>4, <1>5
  <1> DEFINE h == (n \div 2) + 1
             i == At(h)
  <1>7. h \in T /\ n \div 2 \in Nat /\ h - 1 = n \div 2
    BY <1>1
  <1>8. i \in T /\ Rank(b, i) = h /\ Median(b) = b[i]
    BY <1>4, <1>5, <1>7 DEF Median
  <1> HIDE DEF i
  <1> DEFINE S == {j \in T : b[j] < b[i] \/ (b[j] = b[i] /\ j <= i)}
             Below == {j \in T : b[j] < b[i]}
             Upto == {j \in T : b[j] <= b[i]}
  <1>9. /\ i \in S /\ Below \in SUBSET (S \ {i}) /\ S \in SUBSET Upto
        /\ Upto \in SUBSET T /\ S \in SUBSET T
    <2> HIDE DEF T
    <2>1. i \in S /\ i \notin Below
      BY <1>1, <1>8
    <2>2. \A j \in T : j \in Below => j \in S
      OBVIOUS
    <2>3. \A j \in T : j \in S => j \in Upto
      BY <1>1, <1>8
    <2> QED
      BY <2>1, <2>2, <2>3
  <1>10. Cardinality(S) = h
    BY Zenon, <1>8 DEF Rank
  <1> HIDE DEF S, Below, Upto
  <1>11. IsFiniteSet(S) /\ IsFiniteSet(Upto)
    BY <1>2, <1>9, FS_Subset
  <1>12. IsFiniteSet(S \ {i}) /\ Cardinality(S \ {i}) = h - 1
    BY <1>9, <1>10, <1>11, FS_RemoveElement
  <1>13. Cardinality(Below) <= h - 1 /\ h <= Cardinality(Upto)
    <2>1. Cardinality(Below) <= Cardinality(S \ {i})
      BY <1>9, <1>12, FS_Subset
    <2>2. Cardinality(S) <= Cardinality(Upto)
      BY <1>9, <1>11, FS_Subset
    <2> QED
      BY <1>10, <1>12, <2>1, <2>2
  <1>14. Cardinality(Upto) \in Nat
    BY <1>11, FS_CardinalityType
  <1> QED
    BY <1>1, <1>6, <1>7, <1>8, <1>13, <1>14 DEF Below, Upto
-----------------------------------------------------------------------------
(* The ticks, the last of them and the first.                               *)

LEMMA TicksFacts ==
    ASSUME NEW ps \in Seq(Spots)
    PROVE  /\ TicksOf(ps) \in SUBSET (1..Len(ps)) /\ TicksOf(ps) \in SUBSET Nat
           /\ IsFiniteSet(TicksOf(ps)) /\ Cardinality(TicksOf(ps)) \in Nat
           /\ FirstTicksOf(ps) \in SUBSET TicksOf(ps)
  <1>1. TicksOf(ps) \in SUBSET (1..Len(ps)) /\ Len(ps) \in Nat
    BY DEF TicksOf
  <1>2. IsFiniteSet(1..Len(ps))
    BY <1>1, FS_Interval
  <1>3. IsFiniteSet(TicksOf(ps))
    BY <1>1, <1>2, FS_Subset
  <1> QED
    BY <1>1, <1>3, FS_CardinalityType DEF FirstTicksOf

LEMMA TicksAppend ==
    ASSUME NEW ps \in Seq(Spots), NEW x \in Spots
    PROVE  /\ TicksOf(Append(ps, x)) = IF x.tick THEN TicksOf(ps) \cup {Len(ps) + 1} ELSE TicksOf(ps)
           /\ Len(ps) + 1 \notin TicksOf(ps)
           /\ \A k \in TicksOf(ps) : Append(ps, x)[k] = ps[k] /\ k <= Len(ps)
           /\ Append(ps, x)[Len(ps) + 1] = x
           /\ Cardinality(TicksOf(Append(ps, x))) =
                 Cardinality(TicksOf(ps)) + IF x.tick THEN 1 ELSE 0
  <1> DEFINE qs == Append(ps, x)
  <1>1. /\ qs \in Seq(Spots) /\ Len(ps) \in Nat /\ qs[Len(ps) + 1] = x
        /\ \A k \in 1..Len(ps) : qs[k] = ps[k]
        /\ DOMAIN ps = 1..Len(ps) /\ DOMAIN qs = 1..(Len(ps) + 1)
    BY AppendFacts
  <1> HIDE DEF qs
  <1>2. TicksOf(ps) \in SUBSET (1..Len(ps)) /\ IsFiniteSet(TicksOf(ps))
        /\ Cardinality(TicksOf(ps)) \in Nat
    BY TicksFacts
  <1>3. TicksOf(qs) = IF x.tick THEN TicksOf(ps) \cup {Len(ps) + 1} ELSE TicksOf(ps)
    BY <1>1 DEF TicksOf
  <1>4. Len(ps) + 1 \notin TicksOf(ps)
    BY <1>1, <1>2
  <1>5. Cardinality(TicksOf(ps) \cup {Len(ps) + 1}) = Cardinality(TicksOf(ps)) + 1
    BY <1>2, <1>4, FS_AddElement
  <1> QED
    BY <1>1, <1>2, <1>3, <1>4, <1>5 DEF qs

LEMMA LastTick ==
    ASSUME NEW ps \in Seq(Spots), NEW x \in Spots, x.tick
    PROVE  Max(TicksOf(Append(ps, x))) = Len(ps) + 1
  <1> DEFINE T == TicksOf(Append(ps, x))
             n == Len(ps) + 1
  <1>1. n \in Nat /\ n \in T /\ \A k \in T : k \in Nat /\ k <= n
    BY TicksAppend, TicksFacts
  <1> HIDE DEF T, n
  <1>2. \E m \in T : \A k \in T : m >= k
    BY <1>1
  <1>3. Max(T) \in T /\ \A k \in T : Max(T) >= k
    BY <1>2 DEF Max
  <1>4. Max(T) = n
    <2>1. Max(T) \in Nat /\ Max(T) <= n /\ Max(T) >= n
      BY <1>1, <1>3
    <2> QED
      BY <1>1, <2>1
  <1> QED
    BY <1>4 DEF T, n

\* The last price after an event of the spot market.
LEMMA BtcAppend ==
    ASSUME NEW ps \in Seq(Spots), NEW x \in Spots, NEW f, NEW g, BtcHolds(f, ps),
           g.current_btc = IF x.tick THEN x.price ELSE f.current_btc
    PROVE  BtcHolds(g, Append(ps, x))
  <1> DEFINE qs == Append(ps, x)
  <1>1. CASE x.tick
    <2>1. x.price \in Price /\ x.price # NoPrice
      BY PriceNat DEF Spots
    <2>2. Max(TicksOf(qs)) = Len(ps) + 1 /\ qs[Len(ps) + 1] = x /\ TicksOf(qs) # {}
      BY <1>1, LastTick, TicksAppend
    <2> HIDE DEF qs
    <2>3. BtcHolds(g, qs)
      BY <1>1, <2>1, <2>2 DEF BtcHolds
    <2> QED
      BY <2>3 DEF qs
  <1>2. CASE ~x.tick
    <2> DEFINE T == TicksOf(ps)
    <2>1. /\ TicksOf(qs) = T /\ g.current_btc = f.current_btc
          /\ \A k \in T : qs[k] = ps[k] /\ k <= Len(ps)
          /\ T \in SUBSET Nat
          /\ Len(ps) \in Nat
      BY <1>2, TicksAppend, TicksFacts
    <2> HIDE DEF T, qs
    <2>2. CASE T = {}
      BY <2>1, <2>2 DEF BtcHolds, T, qs
    <2>3. CASE T # {}
      <3>1. \E m \in T : \A k \in T : m >= k
        <4> DEFINE U == {Len(ps) - k : k \in T}
        <4>1. U \in SUBSET Nat /\ U # {}
          <5>1. \A k \in T : Len(ps) - k \in Nat
            BY <2>1
          <5> QED
            BY <2>3, <5>1
        <4>2. PICK u \in U : \A y \in U : u <= y
          BY <4>1, NatMinimum
        <4>3. PICK m \in T : u = Len(ps) - m
          BY <4>2
        <4>4. \A k \in T : Len(ps) - k \in U
          OBVIOUS
        <4>5. \A k \in T : m >= k
          <5> SUFFICES ASSUME NEW k \in T PROVE m >= k
            OBVIOUS
          <5>1. Len(ps) - m <= Len(ps) - k
            BY <4>2, <4>3, <4>4
          <5>2. m \in Nat /\ k \in Nat /\ Len(ps) \in Nat
            BY <2>1
          <5> QED
            BY <5>1, <5>2
        <4> QED
          BY <4>5
      <3>2. Max(T) \in T
        BY <3>1 DEF Max
      <3> QED
        BY <2>1, <2>3, <3>2 DEF BtcHolds, T, qs
    <2> QED
      BY <2>2, <2>3
  <1> QED
    BY <1>1, <1>2
-----------------------------------------------------------------------------
(* The strike.                                                              *)

LEMMA RankAppend ==
    ASSUME NEW n \in Nat, NEW T \in SUBSET (1..n), IsFiniteSet(T)
    PROVE  /\ \A k \in T : /\ RankIn(T \cup {n + 1}, k) = RankIn(T, k)
                           /\ RankIn(T, k) \in 1..Cardinality(T)
           /\ RankIn(T \cup {n + 1}, n + 1) = Cardinality(T) + 1
  <1>1. Cardinality(T) \in Nat /\ T \in SUBSET Nat
    BY FS_CardinalityType
  <1>2. ASSUME NEW k \in T
        PROVE  RankIn(T \cup {n + 1}, k) = RankIn(T, k) /\ RankIn(T, k) \in 1..Cardinality(T)
    <2>1. {j \in T \cup {n + 1} : j <= k} = {j \in T : j <= k}
      <3>1. k \in Nat /\ k <= n /\ ~(n + 1 <= k)
        OBVIOUS
      <3> QED
        BY <3>1
    <2>2. [j \in T |-> RankIn(T, j)] \in [T -> 1..Cardinality(T)]
      BY <1>1, RankInBijection DEF Bijection, Surjection
    <2>3. [j \in T |-> RankIn(T, j)][k] \in 1..Cardinality(T)
      BY <2>2
    <2> QED
      BY <2>1, <2>3 DEF RankIn
  <1>3. RankIn(T \cup {n + 1}, n + 1) = Cardinality(T) + 1
    <2>1. {j \in T \cup {n + 1} : j <= n + 1} = T \cup {n + 1} /\ n + 1 \notin T
      <3>1. \A j \in T : j <= n + 1 /\ j # n + 1
        OBVIOUS
      <3> DEFINE m == n + 1
      <3>2. m <= m
        OBVIOUS
      <3>3. \A j \in T : j <= m /\ j # m
        BY <3>1
      <3> HIDE DEF m
      <3>4. {j \in T \cup {m} : j <= m} = T \cup {m} /\ m \notin T
        BY Zenon, <3>2, <3>3
      <3> QED
        BY <3>4 DEF m
    <2>2. Cardinality(T \cup {n + 1}) = Cardinality(T) + 1
      BY <2>1, FS_AddElement
    <2> QED
      BY <2>1, <2>2 DEF RankIn
  <1> QED
    BY <1>2, <1>3

\* The positions of T, and of the buffer b, with a price in W.
PricedIn(T, ps, W) == {k \in T : ps[k].price \in W}
BufferedIn(b, W) == {i \in DOMAIN b : b[i] \in W}

\* Counting ticks, counting prices in the buffer.
LEMMA CountByRank ==
    ASSUME NEW T \in SUBSET Nat, IsFiniteSet(T), NEW b, DOMAIN b = 1..Cardinality(T), NEW ps,
           \A k \in T : b[RankIn(T, k)] = ps[k].price, NEW W
    PROVE  Cardinality(PricedIn(T, ps, W)) = Cardinality(BufferedIn(b, W))
  <1> DEFINE A == {k \in T : ps[k].price \in W}
             B == {i \in DOMAIN b : b[i] \in W}
             r == [k \in T |-> RankIn(T, k)]
             q == [k \in A |-> RankIn(T, k)]
  <1>1. r \in Bijection(T, 1..Cardinality(T))
    BY RankInBijection
  <1>2. /\ \A k \in T : RankIn(T, k) \in DOMAIN b
        /\ \A j, k \in T : RankIn(T, j) = RankIn(T, k) => j = k
        /\ \A i \in DOMAIN b : \E k \in T : RankIn(T, k) = i
    <2>1. /\ \A k \in T : r[k] \in DOMAIN b
          /\ \A j, k \in T : r[j] = r[k] => j = k
          /\ \A i \in DOMAIN b : \E k \in T : r[k] = i
      <3> HIDE DEF r
      <3> QED
        BY <1>1 DEF Bijection, Injection, Surjection, IsInjective
    <2> QED
      BY <2>1
  <1>3. IsFiniteSet(A)
    BY FS_Subset
  <1>4. q \in Injection(A, B)
    BY <1>2 DEF Injection, IsInjective
  <1>5. q \in Surjection(A, B)
    BY <1>2 DEF Surjection
  <1>6. ExistsBijection(A, B)
    BY <1>4, <1>5 DEF ExistsBijection, Bijection
  <1> HIDE DEF A, B, q
  <1>7. Cardinality(B) = Cardinality(A)
    BY <1>3, <1>6, FS_Bijection
  <1> QED
    BY <1>7 DEF A, B, PricedIn, BufferedIn

\* After the first ticks, and without a tick, nothing is to be done.
LEMMA StrikeKept ==
    ASSUME NEW ps \in Seq(Spots), NEW x \in Spots, NEW f, NEW market, StrikeHolds(f, ps, market),
           f.strike_price # NoPrice \/ ~x.tick \/ market = 0
    PROVE  StrikeHolds(f, Append(ps, x), market)
  <1> DEFINE n == Len(ps)
             qs == Append(ps, x)
             T == TicksOf(ps)
             U == TicksOf(qs)
  <1>1. /\ n \in Nat /\ T \in SUBSET (1..n) /\ IsFiniteSet(T) /\ Cardinality(T) \in Nat
        /\ U = IF x.tick THEN T \cup {n + 1} ELSE T
        /\ \A k \in T : qs[k] = ps[k]
        /\ Cardinality(U) = Cardinality(T) + IF x.tick THEN 1 ELSE 0
        /\ FirstTicksOf(ps) \in SUBSET T
    BY TicksFacts, TicksAppend
  <1> HIDE DEF qs, n
  <1>2. CASE market = 0
    BY <1>2 DEF StrikeHolds, qs
  <1>3. CASE market # 0 /\ f.strike_price = NoPrice
    <2>1. ~x.tick /\ U = T
      BY <1>1, <1>3
    <2> QED
      BY <1>1, <1>3, <2>1 DEF StrikeHolds, qs
  <1>4. CASE market # 0 /\ f.strike_price # NoPrice
    <2>1. Cardinality(T) >= StrikeWarmupCount /\ MedianOf(f.strike_price, ps, FirstTicksOf(ps))
      BY <1>4 DEF StrikeHolds
    <2>2. FirstTicksOf(qs) = FirstTicksOf(ps)
      <3>1. CASE ~x.tick
        BY <1>1, <3>1 DEF FirstTicksOf
      <3>2. CASE x.tick
        <4>1. /\ \A k \in T : RankIn(U, k) = RankIn(T, k)
              /\ RankIn(U, n + 1) = Cardinality(T) + 1
              /\ U = T \cup {n + 1}
          BY <1>1, <3>2, RankAppend
        <4>2. ~(Cardinality(T) + 1 <= StrikeWarmupCount)
          BY <1>1, <2>1, FairValueAssumption
        <4>3. /\ FirstTicksOf(qs) = {k \in U : RankIn(U, k) <= StrikeWarmupCount}
              /\ FirstTicksOf(ps) = {k \in T : RankIn(T, k) <= StrikeWarmupCount}
          BY DEF FirstTicksOf, RankIn
        <4> HIDE DEF U, T
        <4> QED
          BY <4>1, <4>2, <4>3
      <3> QED
        BY <3>1, <3>2
    <2>3. \A k \in FirstTicksOf(ps) : qs[k].price = ps[k].price
      BY <1>1
    <2>4. MedianOf(f.strike_price, qs, FirstTicksOf(qs))
      <3> DEFINE S == FirstTicksOf(ps)
                 m == f.strike_price
      <3> HIDE DEF S, m
      <3>1. /\ {k \in S : qs[k].price < m} = {k \in S : ps[k].price < m}
            /\ {k \in S : qs[k].price <= m} = {k \in S : ps[k].price <= m}
        BY <2>3 DEF S
      <3> QED
        BY <2>1, <2>2, <3>1 DEF MedianOf, S, m
    <2>5. Cardinality(U) >= StrikeWarmupCount
      BY <1>1, <2>1, FairValueAssumption
    <2> QED
      BY <1>4, <2>4, <2>5 DEF StrikeHolds, qs
  <1> QED
    BY <1>2, <1>3, <1>4

\* try_set_strike, in a market without a strike.
LEMMA StrikeTick ==
    ASSUME NEW ps \in Seq(Spots), NEW x \in Spots, x.tick, NEW f, IsFairValue(f), NEW market,
           market # 0, StrikeHolds(f, ps, market), f.strike_price = NoPrice
    PROVE  LET g == TrySetStrike(f, x.price)
           IN /\ IsFairValue(g)
              /\ StrikeHolds(g, Append(ps, x), market)
              /\ g.vol = f.vol /\ g.current_btc = f.current_btc
  <1> DEFINE n == Len(ps)
             qs == Append(ps, x)
             T == TicksOf(ps)
             U == TicksOf(qs)
             b == Append(f.strike_warmup_buffer, x.price)
             g == TrySetStrike(f, x.price)
             c == Cardinality(T)
  <1>1. /\ n \in Nat /\ T \in SUBSET (1..n) /\ IsFiniteSet(T) /\ c \in Nat
        /\ U = T \cup {n + 1}
        /\ \A k \in T : qs[k] = ps[k]
        /\ qs[n + 1] = x
        /\ Cardinality(U) = c + 1
        /\ U \in SUBSET Nat /\ IsFiniteSet(U)
    BY TicksFacts, TicksAppend, AppendFacts
  <1>2. /\ c < StrikeWarmupCount
        /\ Len(f.strike_warmup_buffer) = c
        /\ \A k \in T : f.strike_warmup_buffer[RankIn(T, k)] = ps[k].price
    BY DEF StrikeHolds, RankIn
  <1>3. /\ f.strike_warmup_buffer \in Seq(Price) /\ x.price \in Price
        /\ f \in FairValues
    BY DEF IsFairValue, FairValues, Spots
  <1>4. /\ b \in Seq(Price) /\ Len(b) = c + 1 /\ b[c + 1] = x.price /\ DOMAIN b = 1..(c + 1)
        /\ \A i \in 1..c : b[i] = f.strike_warmup_buffer[i]
    BY <1>1, <1>2, <1>3
  <1> HIDE DEF n, qs, b, c, T, U
  <1>9. /\ \A k \in T : RankIn(U, k) = RankIn(T, k) /\ RankIn(T, k) \in 1..c
        /\ RankIn(U, n + 1) = c + 1
    BY <1>1, RankAppend DEF c
  <1>10. \A k \in U : RankIn(U, k) \in 1..(c + 1)
    <2> SUFFICES ASSUME NEW k \in U PROVE RankIn(U, k) \in 1..(c + 1)
      OBVIOUS
    <2>1. CASE k \in T
      <3>1. RankIn(U, k) \in 1..c
        BY <1>9, <2>1
      <3> QED
        BY <1>1, <3>1
    <2>2. CASE k = n + 1
      BY <1>1, <1>9, <2>2
    <2> QED
      BY <1>1, <2>1, <2>2
  <1>5. \A k \in U : b[RankIn(U, k)] = qs[k].price
    <2>2. \A k \in T : b[RankIn(U, k)] = qs[k].price
      BY <1>1, <1>2, <1>4, <1>9
    <2> QED
      BY <1>1, <1>4, <1>9, <2>2
  <1>6. StrikeWarmupCount \in Nat
    BY FairValueAssumption
  <1>7. CASE c + 1 < StrikeWarmupCount
    <2>1. g = [f EXCEPT !.strike_warmup_buffer = b]
      BY <1>4, <1>7 DEF TrySetStrike, b
    <2>2. /\ IsFairValue(g) /\ g.strike_price = NoPrice /\ g.strike_warmup_buffer = b
          /\ g.vol = f.vol /\ g.current_btc = f.current_btc
      <3>1. Len(b) <= StrikeWarmupCount
        BY <1>1, <1>4, <1>6, <1>7
      <3>2. \A w \in Window : f.vol[w] \in VolType(w)
        BY DEF IsFairValue
      <3> QED
        BY <1>3, <1>4, <2>1, <3>1, <3>2 DEF IsFairValue, FairValues
    <2> HIDE DEF g
    <2>3. StrikeHolds(g, qs, market)
      BY <1>1, <1>4, <1>5, <1>7, <2>2 DEF StrikeHolds, RankIn, U
    <2> QED
      BY <2>2, <2>3 DEF g, qs
  <1>8. CASE ~(c + 1 < StrikeWarmupCount)
    <2>1. g = [f EXCEPT !.strike_warmup_buffer = Sorted(b), !.strike_price = Median(b)]
      BY <1>4, <1>8 DEF TrySetStrike, b
    <2>2. c + 1 = StrikeWarmupCount /\ Len(b) >= 1
      BY <1>1, <1>2, <1>4, <1>6, <1>8
    <2>3. /\ Sorted(b) \in Seq(Price) /\ Len(Sorted(b)) = Len(b)
          /\ Median(b) \in Price
          /\ Cardinality({i \in DOMAIN b : b[i] < Median(b)}) <= Len(b) \div 2
          /\ Cardinality({i \in DOMAIN b : b[i] <= Median(b)}) > Len(b) \div 2
      BY <1>4, <2>2, MedianSplits
    <2> DEFINE m == Median(b)
    <2>4. m \in Price /\ m # NoPrice
      BY <2>3, PriceNat
    <2>5. /\ IsFairValue(g) /\ g.strike_price = m
          /\ g.vol = f.vol /\ g.current_btc = f.current_btc
      <3> HIDE DEF m
      <3>1. g = [f EXCEPT !.strike_warmup_buffer = Sorted(b), !.strike_price = m]
        BY <2>1 DEF m
      <3>2. Len(Sorted(b)) <= StrikeWarmupCount
        BY <1>4, <1>6, <2>2, <2>3
      <3> QED
        BY <1>3, <2>3, <2>4, <3>1, <3>2 DEF IsFairValue, FairValues, MaybePrice
    <2> HIDE DEF g
    <2>6. FirstTicksOf(qs) = U
      <3>1. FirstTicksOf(qs) = {k \in U : RankIn(U, k) <= StrikeWarmupCount}
        BY DEF FirstTicksOf, RankIn, U
      <3>2. \A k \in U : RankIn(U, k) <= StrikeWarmupCount
        <4> SUFFICES ASSUME NEW k \in U PROVE RankIn(U, k) <= StrikeWarmupCount
          OBVIOUS
        <4>1. RankIn(U, k) \in 1..(c + 1)
          BY <1>10
        <4> QED
          BY <1>1, <1>6, <2>2, <4>1
      <3> QED
        BY <3>1, <3>2
    <2>7. MedianOf(m, qs, U)
      <3> HIDE DEF m
      <3> DEFINE Lower == {y \in Int : y < m}
                 Upto == {y \in Int : y <= m}
      <3>1. DOMAIN b = 1..Cardinality(U)
        BY <1>1, <1>4
      <3>2. ASSUME NEW W
            PROVE  Cardinality(PricedIn(U, qs, W)) = Cardinality(BufferedIn(b, W))
        <4>1. U \in SUBSET Nat /\ IsFiniteSet(U)
          BY <1>1
        <4>2. \A k \in U : b[RankIn(U, k)] = qs[k].price
          BY <1>5
        <4> QED
          BY <3>1, <4>1, <4>2, CountByRank
      <3>3. \A i \in DOMAIN b : b[i] \in Int
        <4>1. \A i \in DOMAIN b : b[i] \in Price
          BY <1>4
        <4> QED
          BY <4>1, PriceNat
      <3>4. \A k \in U : qs[k].price \in Int
        BY <1>4, <1>5, <1>10, <3>3
      <3>5. /\ {k \in U : qs[k].price < m} = PricedIn(U, qs, Lower)
            /\ {k \in U : qs[k].price <= m} = PricedIn(U, qs, Upto)
        BY <3>4 DEF PricedIn
      <3>6. /\ {i \in DOMAIN b : b[i] < m} = BufferedIn(b, Lower)
            /\ {i \in DOMAIN b : b[i] <= m} = BufferedIn(b, Upto)
        BY <3>3 DEF BufferedIn
      <3> HIDE DEF Lower, Upto
      <3>7. /\ Cardinality({k \in U : qs[k].price < m}) = Cardinality({i \in DOMAIN b : b[i] < m})
            /\ Cardinality({k \in U : qs[k].price <= m}) = Cardinality({i \in DOMAIN b : b[i] <= m})
        BY <3>2, <3>5, <3>6
      <3> QED
        BY <1>1, <1>4, <2>3, <3>7 DEF MedianOf, m
    <2>8. StrikeHolds(g, qs, market)
      BY <1>1, <1>6, <2>2, <2>4, <2>5, <2>6, <2>7 DEF StrikeHolds, U
    <2> QED
      BY <2>5, <2>8 DEF g, qs
  <1> QED
    BY <1>7, <1>8
-----------------------------------------------------------------------------
(* The invariant.                                                           *)

LEMMA VolAppend ==
    ASSUME NEW ps \in Seq(Spots), NEW x \in Spots, NEW f, IsFairValue(f), VolHolds(f, ps)
    PROVE  LET g == UpdateVol(f, x.price)
           IN /\ IsFairValue(g)
              /\ VolHolds(g, Append(ps, x))
              /\ g.strike_price = f.strike_price /\ g.current_btc = f.current_btc
              /\ g.strike_warmup_buffer = f.strike_warmup_buffer
  <1> DEFINE vol == [w \in Window |-> VolUpdate(f.vol[w], w, x.price)]
             g == UpdateVol(f, x.price)
  <1>1. \A w \in Window : vol[w] \in VolType(w) /\ RingHolds(vol[w], Append(ps, x), w)
    BY RingAppend DEF IsFairValue, VolHolds
  <1>2. vol \in [Window -> VolType("short") \cup VolType("session")]
    BY <1>1 DEF Window, Capacity
  <1> HIDE DEF vol
  <1>3. f \in FairValues
    BY DEF IsFairValue
  <1>4. g = [f EXCEPT !.vol = vol, !.vol_fresh = TRUE]
    BY DEF UpdateVol, vol
  <1>5. /\ g.vol = vol /\ g.strike_price = f.strike_price /\ g.current_btc = f.current_btc
        /\ g.strike_warmup_buffer = f.strike_warmup_buffer /\ g \in FairValues
    BY <1>2, <1>3, <1>4 DEF FairValues
  <1> HIDE DEF g
  <1>6. IsFairValue(g)
    BY <1>1, <1>5 DEF IsFairValue
  <1>7. VolHolds(g, Append(ps, x))
    BY <1>1, <1>5 DEF VolHolds
  <1> QED
    BY <1>5, <1>6, <1>7 DEF g

\* A tick of the spot market.
LEMMA TickHolds ==
    ASSUME NEW ps \in Seq(Spots), NEW p \in Price, NEW turn \in Pointing, NEW f, NEW market,
           Holds(f, market, ps)
    PROVE  LET h == UpdateSpotMid(UpdateVol(UpdateBtcPrice(f, p), p), turn)
           IN /\ h.strike_price = f.strike_price
              /\ Holds(IF f.strike_price = NoPrice /\ market # 0 THEN TrySetStrike(h, p) ELSE h,
                       market, Append(ps, Tick(p)))
  <1> DEFINE x == Tick(p)
             qs == Append(ps, x)
             f1 == UpdateBtcPrice(f, p)
             f2 == UpdateVol(f1, p)
             h == UpdateSpotMid(f2, turn)
             g == IF f.strike_price = NoPrice /\ market # 0 THEN TrySetStrike(h, p) ELSE h
  <1>1. x \in Spots /\ x.tick /\ x.price = p
    BY DEF Tick, Spots
  <1>2. IsFairValue(f) /\ BtcHolds(f, ps) /\ StrikeHolds(f, ps, market) /\ VolHolds(f, ps)
    BY DEF Holds
  <1>3. /\ IsFairValue(f1) /\ VolHolds(f1, ps)
        /\ f1.strike_price = f.strike_price /\ f1.strike_warmup_buffer = f.strike_warmup_buffer
        /\ f1.current_btc = p
    BY <1>2 DEF UpdateBtcPrice, IsFairValue, FairValues, MaybePrice, VolHolds
  <1> HIDE DEF f1, x
  <1>4. /\ IsFairValue(f2) /\ VolHolds(f2, qs)
        /\ f2.strike_price = f.strike_price /\ f2.strike_warmup_buffer = f.strike_warmup_buffer
        /\ f2.current_btc = p
    BY <1>1, <1>3, VolAppend
  <1> HIDE DEF f2, qs
  <1>5. IsFairValue(h) /\ SameData(f2, h)
    BY <1>4, FlowEffect
  <1>6. /\ VolHolds(h, qs)
        /\ h.strike_price = f.strike_price /\ h.strike_warmup_buffer = f.strike_warmup_buffer
        /\ h.current_btc = p
    BY <1>4, <1>5 DEF SameData, VolHolds
  <1> HIDE DEF h
  <1>7. StrikeHolds(h, ps, market)
    BY <1>2, <1>6 DEF StrikeHolds
  <1>8. IsFairValue(g) /\ StrikeHolds(g, qs, market) /\ g.vol = h.vol /\ g.current_btc = p
    <2>1. CASE f.strike_price = NoPrice /\ market # 0
      BY <1>1, <1>5, <1>6, <1>7, <2>1, StrikeTick DEF qs
    <2>2. CASE ~(f.strike_price = NoPrice /\ market # 0)
      BY <1>1, <1>5, <1>6, <1>7, <2>2, StrikeKept DEF qs
    <2> QED
      BY <2>1, <2>2
  <1> HIDE DEF g
  <1>9. BtcHolds(g, qs)
    BY <1>1, <1>2, <1>8, BtcAppend DEF qs
  <1>10. VolHolds(g, qs)
    BY <1>6, <1>8 DEF VolHolds
  <1>11. Holds(g, market, qs)
    BY <1>8, <1>9, <1>10 DEF Holds
  <1> QED
    BY <1>6, <1>11 DEF g, h, f2, f1, qs, x

\* A depth snapshot of the spot market.
LEMMA DepthHolds ==
    ASSUME NEW ps \in Seq(Spots), NEW p \in Price, NEW obi \in Pointing, NEW basis \in Pointing,
           NEW f, NEW market, Holds(f, market, ps)
    PROVE  LET h == UpdateSpotMid(UpdateVol(UpdateObi(f, obi), p), basis)
           IN /\ h.strike_price = f.strike_price
              /\ Holds(h, market, Append(ps, Depth(p)))
  <1> DEFINE x == Depth(p)
             qs == Append(ps, x)
             f1 == UpdateObi(f, obi)
             f2 == UpdateVol(f1, p)
             h == UpdateSpotMid(f2, basis)
  <1>1. x \in Spots /\ ~x.tick /\ x.price = p
    BY DEF Depth, Spots
  <1>2. IsFairValue(f) /\ BtcHolds(f, ps) /\ StrikeHolds(f, ps, market)
    BY DEF Holds
  <1>3. IsFairValue(f1) /\ SameData(f, f1)
    BY <1>2, FlowEffect
  <1>4. Holds(f1, market, ps)
    BY <1>3, SameHolds
  <1> HIDE DEF f1, x
  <1>5. /\ IsFairValue(f2) /\ VolHolds(f2, qs)
        /\ f2.strike_price = f1.strike_price /\ f2.strike_warmup_buffer = f1.strike_warmup_buffer
        /\ f2.current_btc = f1.current_btc
    BY <1>1, <1>3, <1>4, VolAppend DEF Holds
  <1> HIDE DEF f2
  <1>6. IsFairValue(h) /\ SameData(f2, h)
    BY <1>5, FlowEffect
  <1> HIDE DEF h
  <1>7. /\ h.strike_price = f.strike_price /\ h.strike_warmup_buffer = f.strike_warmup_buffer
        /\ h.current_btc = f.current_btc /\ h.vol = f2.vol
    BY <1>3, <1>5, <1>6 DEF SameData
  <1>8. BtcHolds(h, qs)
    BY <1>1, <1>2, <1>7, BtcAppend
  <1>9. StrikeHolds(h, qs, market)
    <2>1. StrikeHolds(h, ps, market)
      BY <1>2, <1>7 DEF StrikeHolds
    <2> QED
      BY <1>1, <2>1, StrikeKept
  <1>10. VolHolds(h, qs)
    BY <1>5, <1>7 DEF VolHolds
  <1>11. Holds(h, market, qs)
    BY <1>6, <1>8, <1>9, <1>10 DEF Holds
  <1> QED
    BY <1>7, <1>11 DEF h, f2, f1, qs, x

\* A new estimator, at the start and after a rotation.
LEMMA NewHolds ==
    ASSUME NEW market
    PROVE  Holds(NewFairValue, market, <<>>) /\ NewFairValue.strike_price = NoPrice
  <1> DEFINE f == NewFairValue
  <1>1. \A w \in Window : NewVol(w) \in VolType(w)
    BY CapacityPositive DEF NewVol, VolType, MaybePrice
  <1>2. \A w \in Window : f.vol[w] = NewVol(w)
    BY DEF NewFairValue
  <1>3. /\ f.strike_price = NoPrice /\ f.strike_warmup_buffer = <<>> /\ f.current_btc = NoPrice
        /\ NoPrice \in MaybePrice
    BY DEF NewFairValue, MaybePrice
  <1>4. /\ [w \in Window |-> NewVol(w)] \in [Window -> VolType("short") \cup VolType("session")]
        /\ [s \in Signal |-> NoSignal] \in [Signal -> Trackers]
        /\ NoEstimate \in Estimates
    BY <1>1, <1>3 DEF Window, Capacity, NoSignal, Trackers, Pointing, NoEstimate, Estimates
  <1>5. f \in FairValues
    BY <1>3, <1>4 DEF NewFairValue, FairValues
  <1>6. IsFairValue(f)
    BY <1>1, <1>2, <1>3, <1>5, FairValueAssumption DEF IsFairValue
  <1>7. /\ TicksOf(<<>>) = {} /\ Cardinality(TicksOf(<<>>)) = 0
        /\ <<>> \in Seq(Spots) /\ Len(<<>>) = 0
    BY FS_EmptySet DEF TicksOf
  <1>8. BtcHolds(f, <<>>) /\ StrikeHolds(f, <<>>, market)
    BY <1>3, <1>7, FairValueAssumption DEF BtcHolds, StrikeHolds
  <1>9. ASSUME NEW w \in Window PROVE RingHolds(f.vol[w], <<>>, w)
    <2>1. WindowOf(<<>>, w) = {}
      BY DEF WindowOf
    <2>2. SumFunctionOnSet(SquaresOf(<<>>), {}) = 0
      BY SumEmpty
    <2>3. \A a \in 1..Capacity[w] : ~(Len(<<>>) + 1 - a >= 2)
      <3> SUFFICES ASSUME NEW a \in 1..Capacity[w] PROVE ~(0 + 1 - a >= 2)
        BY <1>7
      <3>1. a \in Int /\ a >= 1
        BY CapacityPositive
      <3> QED
        BY <3>1
    <2>4. f.vol[w].count = 0 /\ f.vol[w].prev_price = NoPrice /\ f.vol[w].sum_sq = 0
      <3>1. NewVol(w).count = 0 /\ NewVol(w).prev_price = NoPrice /\ NewVol(w).sum_sq = 0
        BY DEF NewVol
      <3> HIDE DEF f
      <3> QED
        BY <1>2, <3>1
    <2> HIDE DEF f
    <2> QED
      BY <2>1, <2>2, <2>3, <2>4 DEF RingHolds
  <1> QED
    BY <1>3, <1>6, <1>8, <1>9 DEF Holds, VolHolds

LEMMA GuardBoolean == \A f : \A dark \in BOOLEAN : BuildupGuard(f, dark) \in BOOLEAN
  BY DEF BuildupGuard

\* What the end of an iteration needs, and what it leaves behind.
LEMMA FinishStep ==
    ASSUME NEW f, NEW market \in 0..MaxMarkets, NEW books, NEW ph \in {"quiet", "quoting"},
           NEW dark \in BOOLEAN,
           FinishIteration(f, market, books, ph, dark),
           active' = market,
           prices' \in Seq(Spots), Len(prices') <= MaxPrices,
           Holds(f, market, prices'),
           strike_price' = f.strike_price,
           IsWarm(f) /\ market = 0 => FALSE,
           books \in [MarketSide -> [market : 0..MaxMarkets, fresh : BOOLEAN]],
           \A s \in MarketSide : books[s] = NoBook \/ books[s].market = market
    PROVE  MInv'
  <1>1. /\ book' = books
        /\ fair_value' = IF IsWarm(f) /\ market # 0 THEN Recompute(f) ELSE f
        /\ phase' \in {"quiet", "quoting"}
        /\ buildup_guard_active' \in BOOLEAN
    BY GuardBoolean DEF FinishIteration
  <1>2. IsFairValue(f)
    BY DEF Holds
  <1>3. /\ Holds(fair_value', market, prices')
        /\ fair_value'.strike_price = f.strike_price
        /\ IsWarm(fair_value') => /\ fair_value'.estimate.strike = fair_value'.strike_price
                                  /\ fair_value'.estimate.btc = fair_value'.current_btc
    <2>1. CASE IsWarm(f) /\ market # 0
      <3> DEFINE g == Recompute(f)
      <3>1. /\ IsFairValue(g) /\ g.estimate.strike = f.strike_price
            /\ g.estimate.btc = f.current_btc
            /\ g.strike_price = f.strike_price
            /\ g.strike_warmup_buffer = f.strike_warmup_buffer
            /\ g.current_btc = f.current_btc
            /\ g.vol = f.vol
        BY <1>2, RecomputeEffect
      <3> HIDE DEF g
      <3>2. Holds(g, market, prices')
        BY <3>1 DEF Holds, BtcHolds, StrikeHolds, VolHolds
      <3> QED
        BY <1>1, <2>1, <3>1, <3>2 DEF g
    <2>2. CASE ~(IsWarm(f) /\ market # 0)
      BY <1>1, <2>2
    <2> QED
      BY <2>1, <2>2
  <1>4. Estimated'
    BY <1>3 DEF Estimated
  <1>5. BooksOfMarket'
    BY <1>1 DEF BooksOfMarket
  <1> QED
    BY <1>1, <1>3, <1>4, <1>5 DEF MInv

LEMMA NotWarmWithoutMarket ==
    ASSUME NEW f, NEW ps, Holds(f, 0, ps) PROVE ~IsWarm(f)
  BY DEF Holds, StrikeHolds, IsWarm

\* An iteration that reads no price and stays in the market.
LEMMA FinishSame ==
    ASSUME MInv, NEW f, NEW books, FinishIteration(f, active, books, phase, buildup_guard_active),
           UNCHANGED <<active, strike_price, prices>>,
           IsFairValue(f), SameData(fair_value, f),
           books \in [MarketSide -> [market : 0..MaxMarkets, fresh : BOOLEAN]],
           \A s \in MarketSide : books[s] = NoBook \/ books[s].market = active
    PROVE  MInv'
  <1>1. /\ active \in 0..MaxMarkets /\ phase \in {"quiet", "quoting"}
        /\ buildup_guard_active \in BOOLEAN /\ prices \in Seq(Spots) /\ Len(prices) <= MaxPrices
        /\ strike_price = fair_value.strike_price /\ Holds(fair_value, active, prices)
    BY DEF MInv
  <1>2. Holds(f, active, prices)
    BY <1>1, SameHolds
  <1>3. f.strike_price = strike_price
    BY <1>1 DEF SameData
  <1>4. ~(IsWarm(f) /\ active = 0)
    BY <1>2, NotWarmWithoutMarket
  <1>5. active' = active /\ strike_price' = f.strike_price /\ prices' = prices
    BY <1>3
  <1> QED
    BY <1>1, <1>2, <1>4, <1>5, FinishStep

LEMMA MInvInit == Init => MInv
  <1> SUFFICES ASSUME Init PROVE MInv
    OBVIOUS
  <1>1. Holds(fair_value, active, prices) /\ fair_value.strike_price = NoPrice
    BY NewHolds DEF Init
  <1>2. MaxMarkets \in Nat /\ MaxPrices \in Nat
    BY MarketDataAssumption
  <1>3. ~IsWarm(fair_value)
    BY <1>1 DEF IsWarm
  <1>4. book \in [MarketSide -> [market : 0..MaxMarkets, fresh : BOOLEAN]]
    BY <1>2 DEF Init, NoBooks, NoBook
  <1>5. BooksOfMarket
    BY DEF BooksOfMarket, Init, NoBooks, NoBook
  <1>6. prices \in Seq(Spots) /\ Len(prices) = 0
    BY DEF Init
  <1>7. /\ active \in 0..MaxMarkets /\ phase \in {"quiet", "quoting"}
        /\ buildup_guard_active \in BOOLEAN /\ strike_price = NoPrice
    <2>1. 0 \in 0..MaxMarkets /\ FALSE \in BOOLEAN
      BY <1>2
    <2> QED
      BY Zenon, <2>1 DEF Init
  <1> QED
    BY <1>1, <1>2, <1>3, <1>4, <1>5, <1>6, <1>7 DEF MInv, Estimated

LEMMA MInvRotation == MInv /\ OnMarketRotation => MInv'
  <1> SUFFICES ASSUME MInv, OnMarketRotation PROVE MInv'
    OBVIOUS
  <1>1. /\ active < MaxMarkets /\ active' = active + 1 /\ active \in 0..MaxMarkets
        /\ strike_price' = NoPrice /\ prices' = <<>>
        /\ FinishIteration(NewFairValue, active', NoBooks, "quiet", FALSE)
    BY DEF OnMarketRotation, MInv
  <1>2. MaxMarkets \in Nat /\ MaxPrices \in Nat
    BY MarketDataAssumption
  <1>3. active' \in 0..MaxMarkets /\ active' # 0
    BY <1>1, <1>2
  <1>4. Holds(NewFairValue, active', prices') /\ NewFairValue.strike_price = NoPrice
    BY <1>1, NewHolds
  <1>5. /\ NoBooks \in [MarketSide -> [market : 0..MaxMarkets, fresh : BOOLEAN]]
        /\ \A s \in MarketSide : NoBooks[s] = NoBook
    BY <1>2 DEF NoBooks, NoBook
  <1>6. prices' \in Seq(Spots) /\ Len(prices') <= MaxPrices
    BY <1>1, <1>2
  <1> QED
    BY <1>1, <1>3, <1>4, <1>5, <1>6, FinishStep

LEMMA MInvTick == ASSUME MInv, NEW p \in Price, OnBinanceTick(p) PROVE MInv'
  <1>1. /\ active \in 0..MaxMarkets /\ phase \in {"quiet", "quoting"}
        /\ buildup_guard_active \in BOOLEAN /\ prices \in Seq(Spots)
        /\ strike_price = fair_value.strike_price /\ Holds(fair_value, active, prices)
        /\ book \in [MarketSide -> [market : 0..MaxMarkets, fresh : BOOLEAN]] /\ BooksOfMarket
    BY DEF MInv
  <1>2. Len(prices) < MaxPrices /\ prices' = Append(prices, Tick(p)) /\ active' = active
    BY DEF OnBinanceTick
  <1>3. PICK turn \in Pointing :
           LET h == UpdateSpotMid(UpdateVol(UpdateBtcPrice(fair_value, p), p), turn)
               g == IF strike_price = NoPrice /\ active # 0 THEN TrySetStrike(h, p) ELSE h
           IN strike_price' = g.strike_price /\ Finish(g)
    BY DEF OnBinanceTick
  <1> DEFINE h == UpdateSpotMid(UpdateVol(UpdateBtcPrice(fair_value, p), p), turn)
             g == IF strike_price = NoPrice /\ active # 0 THEN TrySetStrike(h, p) ELSE h
  <1>4. Holds(g, active, prices')
    BY <1>1, <1>2, TickHolds
  <1>5. strike_price' = g.strike_price /\ FinishIteration(g, active, book, phase, buildup_guard_active)
    BY <1>3 DEF Finish
  <1> HIDE DEF g
  <1>6. prices' \in Seq(Spots) /\ Len(prices') <= MaxPrices
    <2>1. Tick(p) \in Spots /\ MaxPrices \in Nat
      BY MarketDataAssumption DEF Tick, Spots
    <2> QED
      BY <1>1, <1>2, <2>1, AppendFacts
  <1>7. ~(IsWarm(g) /\ active = 0)
    BY <1>4, NotWarmWithoutMarket
  <1>8. \A s \in MarketSide : book[s] = NoBook \/ book[s].market = active
    BY <1>1 DEF BooksOfMarket
  <1> QED
    BY <1>1, <1>2, <1>4, <1>5, <1>6, <1>7, <1>8, FinishStep

LEMMA MInvDepth == ASSUME MInv, NEW p \in Price, OnBinanceDepth(p) PROVE MInv'
  <1>1. /\ active \in 0..MaxMarkets /\ phase \in {"quiet", "quoting"}
        /\ buildup_guard_active \in BOOLEAN /\ prices \in Seq(Spots)
        /\ strike_price = fair_value.strike_price /\ Holds(fair_value, active, prices)
        /\ book \in [MarketSide -> [market : 0..MaxMarkets, fresh : BOOLEAN]] /\ BooksOfMarket
    BY DEF MInv
  <1>2. /\ Len(prices) < MaxPrices /\ prices' = Append(prices, Depth(p)) /\ active' = active
        /\ strike_price' = strike_price
    BY DEF OnBinanceDepth
  <1>3. PICK obi \in Pointing, basis \in Pointing :
           Finish(UpdateSpotMid(UpdateVol(UpdateObi(fair_value, obi), p), basis))
    BY DEF OnBinanceDepth
  <1> DEFINE g == UpdateSpotMid(UpdateVol(UpdateObi(fair_value, obi), p), basis)
  <1>4. g.strike_price = fair_value.strike_price /\ Holds(g, active, prices')
    BY <1>1, <1>2, DepthHolds
  <1>5. strike_price' = g.strike_price /\ FinishIteration(g, active, book, phase, buildup_guard_active)
    BY <1>1, <1>2, <1>3, <1>4 DEF Finish
  <1> HIDE DEF g
  <1>6. prices' \in Seq(Spots) /\ Len(prices') <= MaxPrices
    <2>1. Depth(p) \in Spots /\ MaxPrices \in Nat
      BY MarketDataAssumption DEF Depth, Spots
    <2> QED
      BY <1>1, <1>2, <2>1, AppendFacts
  <1>7. ~(IsWarm(g) /\ active = 0)
    BY <1>4, NotWarmWithoutMarket
  <1>8. \A s \in MarketSide : book[s] = NoBook \/ book[s].market = active
    BY <1>1 DEF BooksOfMarket
  <1> QED
    BY <1>1, <1>2, <1>4, <1>5, <1>6, <1>7, <1>8, FinishStep

LEMMA MInvFlow == MInv /\ OnFlow => MInv'
  <1> SUFFICES ASSUME MInv, OnFlow PROVE MInv'
    OBVIOUS
  <1>1. /\ IsFairValue(fair_value)
        /\ book \in [MarketSide -> [market : 0..MaxMarkets, fresh : BOOLEAN]]
        /\ \A s \in MarketSide : book[s] = NoBook \/ book[s].market = active
    BY DEF MInv, Holds, BooksOfMarket
  <1>2. UNCHANGED <<active, strike_price, prices>>
    BY DEF OnFlow
  <1>3. PICK turn \in Pointing : \/ Finish(UpdateObi(fair_value, turn))
                                 \/ Finish(UpdateFuturesMid(fair_value, turn))
                                 \/ Finish(UpdateCvd(fair_value, turn))
                                 \/ Finish(UpdateSpotCvd(fair_value, turn))
                                 \/ Finish(UpdateLiquidation(fair_value, turn))
    BY DEF OnFlow
  <1>4. \E f : Finish(f) /\ IsFairValue(f) /\ SameData(fair_value, f)
    BY <1>1, <1>3, FlowEffect
  <1>5. PICK f : /\ FinishIteration(f, active, book, phase, buildup_guard_active)
                 /\ IsFairValue(f) /\ SameData(fair_value, f)
    BY <1>4 DEF Finish
  <1> QED
    BY <1>1, <1>2, <1>5, FinishSame

\* A book event, a renewal of a book and any other event: the estimator is only
\* recomputed.
LEMMA MInvBooks ==
    ASSUME MInv, NEW books, FinishWith(books), UNCHANGED <<active, strike_price, prices>>,
           books \in [MarketSide -> [market : 0..MaxMarkets, fresh : BOOLEAN]],
           \A s \in MarketSide : books[s] = NoBook \/ books[s].market = active
    PROVE  MInv'
  <1>1. IsFairValue(fair_value) /\ SameData(fair_value, fair_value)
    BY DEF MInv, Holds, SameData
  <1> QED
    BY <1>1, FinishSame DEF FinishWith

LEMMA MInvBook ==
    ASSUME MInv, NEW s \in MarketSide, NEW market \in 1..MaxMarkets, OnPolymarketBook(s, market)
    PROVE  MInv'
  <1>1. PICK fresh \in BOOLEAN :
           FinishWith(IF market = active
                      THEN [book EXCEPT ![s] = [market |-> market, fresh |-> fresh]] ELSE book)
    BY DEF OnPolymarketBook
  <1> DEFINE books == IF market = active
                      THEN [book EXCEPT ![s] = [market |-> market, fresh |-> fresh]] ELSE book
  <1>2. UNCHANGED <<active, strike_price, prices>>
    BY DEF OnPolymarketBook
  <1>3. /\ book \in [MarketSide -> [market : 0..MaxMarkets, fresh : BOOLEAN]]
        /\ \A z \in MarketSide : book[z] = NoBook \/ book[z].market = active
        /\ active \in 0..MaxMarkets
    BY DEF MInv, BooksOfMarket
  <1>4. /\ books \in [MarketSide -> [market : 0..MaxMarkets, fresh : BOOLEAN]]
        /\ \A z \in MarketSide : books[z] = NoBook \/ books[z].market = active
    BY <1>3
  <1>5. FinishWith(books)
    BY <1>1
  <1> HIDE DEF books
  <1> QED
    BY <1>2, <1>4, <1>5, MInvBooks

LEMMA MInvBestBidAsk ==
    ASSUME MInv, NEW s \in MarketSide, NEW market \in 1..MaxMarkets, OnBestBidAsk(s, market)
    PROVE  MInv'
  <1> DEFINE books == IF market = active /\ book[s] # NoBook
                      THEN [book EXCEPT ![s].fresh = TRUE] ELSE book
  <1>1. FinishWith(books) /\ UNCHANGED <<active, strike_price, prices>>
    BY DEF OnBestBidAsk
  <1>2. /\ book \in [MarketSide -> [market : 0..MaxMarkets, fresh : BOOLEAN]]
        /\ \A z \in MarketSide : book[z] = NoBook \/ book[z].market = active
    BY DEF MInv, BooksOfMarket
  <1>3. /\ books \in [MarketSide -> [market : 0..MaxMarkets, fresh : BOOLEAN]]
        /\ \A z \in MarketSide : books[z] = NoBook \/ books[z].market = active
    BY <1>2
  <1> HIDE DEF books
  <1> QED
    BY <1>1, <1>3, MInvBooks

LEMMA MInvOther == MInv /\ OnOther => MInv'
  <1> SUFFICES ASSUME MInv, OnOther PROVE MInv'
    OBVIOUS
  <1>1. FinishWith(book) /\ UNCHANGED <<active, strike_price, prices>>
    BY DEF OnOther, Finish, FinishWith
  <1>2. /\ book \in [MarketSide -> [market : 0..MaxMarkets, fresh : BOOLEAN]]
        /\ \A z \in MarketSide : book[z] = NoBook \/ book[z].market = active
    BY DEF MInv, BooksOfMarket
  <1> QED
    BY <1>1, <1>2, MInvBooks

LEMMA MInvAges == MInv /\ Ages => MInv'
  <1> SUFFICES ASSUME MInv, Ages PROVE MInv'
    OBVIOUS
  <1>1. UNCHANGED <<active, strike_price, phase, buildup_guard_active, prices>>
    BY DEF Ages
  <1>2. IsFairValue(fair_value) /\ fair_value \in FairValues
    BY DEF MInv, Holds, IsFairValue
  <1>3. CASE fair_value' = [fair_value EXCEPT !.vol_fresh = FALSE] /\ UNCHANGED book
    <2>1. /\ IsFairValue(fair_value')
          /\ \A x \in {"strike_price", "strike_warmup_buffer", "current_btc", "vol", "estimate"} :
                fair_value'[x] = fair_value[x]
      BY <1>2, <1>3 DEF IsFairValue, FairValues
    <2> QED
      BY <1>1, <1>3, <2>1 DEF MInv, Holds, BtcHolds, StrikeHolds, VolHolds, BooksOfMarket,
                              Estimated, IsWarm
  <1>4. ASSUME NEW s \in Signal, fair_value' = [fair_value EXCEPT !.signal[s].says = 0],
               UNCHANGED book
        PROVE  MInv'
    <2>1. /\ IsFairValue(fair_value')
          /\ \A x \in {"strike_price", "strike_warmup_buffer", "current_btc", "vol", "estimate"} :
                fair_value'[x] = fair_value[x]
      BY <1>2, <1>4 DEF IsFairValue, FairValues, Trackers, Pointing
    <2> QED
      BY <1>1, <1>4, <2>1 DEF MInv, Holds, BtcHolds, StrikeHolds, VolHolds, BooksOfMarket,
                              Estimated, IsWarm
  <1>5. ASSUME NEW s \in MarketSide, book' = [book EXCEPT ![s].fresh = FALSE],
               UNCHANGED fair_value
        PROVE  MInv'
    <2>1. /\ book' \in [MarketSide -> [market : 0..MaxMarkets, fresh : BOOLEAN]]
          /\ \A z \in MarketSide : book'[z] = NoBook \/ book'[z].market = active
      <3>1. /\ book \in [MarketSide -> [market : 0..MaxMarkets, fresh : BOOLEAN]]
            /\ \A z \in MarketSide : book[z] = NoBook \/ book[z].market = active
        BY DEF MInv, BooksOfMarket
      <3>2. /\ book' \in [MarketSide -> [market : 0..MaxMarkets, fresh : BOOLEAN]]
            /\ \A z \in MarketSide : z # s => book'[z] = book[z]
            /\ book'[s] = [market |-> book[s].market, fresh |-> FALSE]
        BY <1>5, <3>1
      <3>3. book'[s] = NoBook \/ book'[s].market = active
        <4>1. CASE book[s] = NoBook
          <5>1. book[s].market = 0
            BY <4>1 DEF NoBook
          <5> QED
            BY <3>2, <5>1 DEF NoBook
        <4>2. CASE book[s] # NoBook
          BY <3>1, <3>2, <4>2
        <4> QED
          BY <4>1, <4>2
      <3> QED
        BY <3>1, <3>2, <3>3
    <2> QED
      BY <1>1, <1>5, <2>1 DEF MInv, BooksOfMarket, Estimated
  <1> QED
    BY <1>3, <1>4, <1>5 DEF Ages

LEMMA MInvStep == MInv /\ [Next]_vars => MInv'
  <1> SUFFICES ASSUME MInv, [Next]_vars PROVE MInv'
    OBVIOUS
  <1>1. CASE OnMarketRotation
    BY <1>1, MInvRotation
  <1>2. CASE \E p \in Price : OnBinanceTick(p) \/ OnBinanceDepth(p)
    BY <1>2, MInvTick, MInvDepth
  <1>3. CASE OnFlow
    BY <1>3, MInvFlow
  <1>4. CASE \E s \in MarketSide, market \in 1..MaxMarkets :
                OnPolymarketBook(s, market) \/ OnBestBidAsk(s, market)
    BY <1>4, MInvBook, MInvBestBidAsk
  <1>5. CASE OnOther
    BY <1>5, MInvOther
  <1>6. CASE Ages
    BY <1>6, MInvAges
  <1>7. CASE UNCHANGED vars
    BY <1>7 DEF vars, MInv, BooksOfMarket, Estimated
  <1> QED
    BY <1>1, <1>2, <1>3, <1>4, <1>5, <1>6, <1>7 DEF Next

\* In every state, the estimator holds what the prices of this market say.
THEOREM MarketDataInvariant == Spec => []MInv
  <1> QED
    BY MInvInit, MInvStep, PTL DEF Spec

-----------------------------------------------------------------------------
(* The properties.                                                          *)

\* The estimator of FairValue and the state of the engine keep their types.
THEOREM MarketDataTypeCorrect == Spec => []TypeOK
  <1>1. MInv => TypeOK
    <2> SUFFICES ASSUME MInv PROVE TypeOK
      OBVIOUS
    <2>1. /\ fair_value \in FairValues /\ Len(fair_value.strike_warmup_buffer) <= StrikeWarmupCount
          /\ \A w \in Window : fair_value.vol[w] \in VolType(w)
          /\ \A w \in Window : RingHolds(fair_value.vol[w], prices, w)
          /\ prices \in Seq(Spots) /\ strike_price = fair_value.strike_price
      BY DEF MInv, Holds, IsFairValue, VolHolds
    <2>2. /\ fair_value.strike_price \in Price \cup {NoPrice}
          /\ fair_value.strike_warmup_buffer \in Seq(Price)
          /\ fair_value.current_btc \in Price \cup {NoPrice}
          /\ fair_value.signal \in [Signal -> Trackers]
      BY <2>1 DEF FairValues, MaybePrice
    <2>3. ASSUME NEW w \in Window
          PROVE  /\ fair_value.vol[w].head \in 1..Capacity[w]
                 /\ fair_value.vol[w].count \in Nat
                 /\ fair_value.vol[w].sum_sq \in Nat
      <3>1. SumFunctionOnSet(SquaresOf(prices), WindowOf(prices, w)) \in Nat
        BY <2>1, WindowFinite, SumNat
      <3>2. fair_value.vol[w].sum_sq = SumFunctionOnSet(SquaresOf(prices), WindowOf(prices, w))
        BY <2>1 DEF RingHolds
      <3>3. fair_value.vol[w] \in VolType(w)
        BY <2>1
      <3> QED
        BY <3>1, <3>2, <3>3 DEF VolType
    <2>4. ASSUME NEW s \in Signal
          PROVE  /\ fair_value.signal[s].samples \in Nat
                 /\ Says(fair_value, s) \in Pointing
      <3>1. fair_value.signal[s] \in Trackers
        BY <2>2
      <3> QED
        BY <3>1 DEF Trackers, Says
    <2>5. /\ active \in 0..MaxMarkets
          /\ book \in [MarketSide -> [market : 0..MaxMarkets, fresh : BOOLEAN]]
          /\ phase \in {"quiet", "quoting"}
          /\ buildup_guard_active \in BOOLEAN
          /\ Len(prices) <= MaxPrices
      BY DEF MInv
    <2> QED
      BY <2>1, <2>2, <2>3, <2>4, <2>5 DEF TypeOK
  <1> QED
    BY <1>1, MarketDataInvariant, PTL

\* For every capacity, the running sum of RealizedVolTracker is the sum over the
\* last returns, whatever order rings were written and overwritten in.
THEOREM VolWindowHolds == Spec => []VolWindow
  <1>1. MInv => VolWindow
    <2> SUFFICES ASSUME MInv PROVE VolWindow
      OBVIOUS
    <2>1. \A w \in Window : fair_value.vol[w].sum_sq =
                               SumFunctionOnSet(SquaresOf(prices), WindowOf(prices, w))
      BY DEF MInv, Holds, VolHolds, RingHolds
    <2>2. SquaredReturn = SquaresOf(prices)
      BY DEF SquaredReturn, SquaresOf, Returns, Return, ReturnOf
    <2>3. \A w \in Window : {k \in Returns : k > Len(prices) - Capacity[w]} = WindowOf(prices, w)
      BY DEF Returns, WindowOf
    <2> QED
      BY <2>1, <2>2, <2>3 DEF VolWindow
  <1> QED
    BY <1>1, MarketDataInvariant, PTL

LEMMA TicksAre == Ticks = TicksOf(prices) /\ FirstTicks = FirstTicksOf(prices)
  BY DEF Ticks, TicksOf, FirstTicks, FirstTicksOf, Quantify

\* For every warm-up, try_set_strike takes the median of the first ticks of the
\* market, and keeps it.
THEOREM StrikeIsMedianHolds == Spec => []StrikeIsMedian
  <1>1. MInv => StrikeIsMedian
    <2> SUFFICES ASSUME MInv PROVE StrikeIsMedian
      OBVIOUS
    <2>1. /\ strike_price = fair_value.strike_price
          /\ StrikeHolds(fair_value, prices, active)
          /\ prices \in Seq(Spots)
      BY DEF MInv, Holds
    <2>2. \A m : MedianOf(m, prices, FirstTicksOf(prices)) => IsMedian(m, FirstTicks)
      BY TicksAre DEF MedianOf, IsMedian, Quantify
    <2>3. Cardinality(Ticks) \in Nat /\ StrikeWarmupCount \in Nat
      BY <2>1, TicksAre, TicksFacts, FairValueAssumption
    <2> QED
      BY <2>1, <2>2, <2>3, TicksAre DEF StrikeHolds, StrikeIsMedian
  <1> QED
    BY <1>1, MarketDataInvariant, PTL

\* For every warm-up and every order of events, also those of other markets,
\* quote_tick may post only on this market's book, strike, tick and volatility.
THEOREM PricedOnThisMarketHolds == Spec => []PricedOnThisMarket
  <1>1. MInv => PricedOnThisMarket
    <2> SUFFICES ASSUME MInv, NEW s \in MarketSide, MayPost(s)
                 PROVE  /\ book[s].market = active
                        /\ Cardinality(Ticks) >= StrikeWarmupCount
                        /\ fair_value.estimate.strike = strike_price
                        /\ fair_value.estimate.btc = prices[Max(Ticks)].price
                        /\ Cardinality(Returns) >= VolMinWarmup
      BY DEF PricedOnThisMarket
    <2>1. IsWarm(fair_value) /\ IsVolWarm(fair_value) /\ book[s].fresh
      BY DEF MayPost, CanQuote
    <2>2. /\ strike_price = fair_value.strike_price
          /\ Holds(fair_value, active, prices)
          /\ prices \in Seq(Spots)
      BY DEF MInv
    <2>3. book[s].market = active
      BY <2>1 DEF MInv, BooksOfMarket, NoBook
    <2>4. Cardinality(Ticks) >= StrikeWarmupCount
      BY <2>1, <2>2, TicksAre DEF Holds, StrikeHolds, IsWarm
    <2>5. fair_value.estimate.strike = strike_price
      BY <2>1, <2>2 DEF MInv, Estimated
    <2>6. fair_value.estimate.btc = prices[Max(Ticks)].price
      <3>1. fair_value.current_btc # NoPrice /\ fair_value.estimate.btc = fair_value.current_btc
        BY <2>1 DEF IsWarm, MInv, Estimated
      <3> QED
        BY <2>2, <3>1, TicksAre DEF Holds, BtcHolds
    <2>7. Cardinality(Returns) >= VolMinWarmup
      <3>1. fair_value.vol["short"].count >= VolMinWarmup /\ VolMinWarmup \in Nat
        BY <2>1, FairValueAssumption DEF IsVolWarm
      <3>2. fair_value.vol["short"].count = IF prices = <<>> THEN 0 ELSE Len(prices) - 1
        BY <2>2 DEF Holds, VolHolds, RingHolds, Window, Capacity
      <3> DEFINE n == Len(prices)
      <3>3. n \in Nat /\ (prices = <<>>) = (n = 0)
        BY <2>2
      <3>4. Cardinality(2..n) = IF 2 > n THEN 0 ELSE n - 1
        <4> HIDE DEF n
        <4> QED
          BY <3>3, FS_Interval
      <3> QED
        BY <3>1, <3>2, <3>3, <3>4 DEF Returns
    <2> QED
      BY <2>3, <2>4, <2>5, <2>6, <2>7
  <1> QED
    BY <1>1, MarketDataInvariant, PTL

\* Every step but the passing of time ends with an iteration on some estimator.
LEMMA StepFinishes ==
    ASSUME MInv, Next
    PROVE  \/ Ages
           \/ \E f, market, books, ph, dark :
                 /\ FinishIteration(f, market, books, ph, dark)
                 /\ f \in FairValues
                 /\ \/ dark = buildup_guard_active
                    \/ dark = FALSE /\ active' # active
  <1> DEFINE Finishes == \E f, market, books, ph, dark :
                            /\ FinishIteration(f, market, books, ph, dark)
                            /\ f \in FairValues
                            /\ \/ dark = buildup_guard_active
                               \/ dark = FALSE /\ active' # active
  <1>1. /\ Holds(fair_value, active, prices) /\ prices \in Seq(Spots)
        /\ strike_price = fair_value.strike_price /\ active \in Int
        /\ IsFairValue(fair_value) /\ fair_value \in FairValues
    BY MarketDataAssumption DEF MInv, Holds, IsFairValue
  <1>2. ASSUME NEW f, Finish(f), IsFairValue(f) PROVE Finishes
    BY <1>2 DEF Finish, IsFairValue
  <1>3. ASSUME NEW books, FinishWith(books) PROVE Finishes
    BY <1>1, <1>3 DEF FinishWith
  <1>4. ASSUME OnMarketRotation PROVE Finishes
    <2>1. FinishIteration(NewFairValue, active', NoBooks, "quiet", FALSE) /\ active' = active + 1
      BY <1>4 DEF OnMarketRotation
    <2>3. active' # active
      <3>1. active \in Int
        BY <1>1
      <3> QED
        BY <2>1, <3>1
    <2>2. NewFairValue \in FairValues
      BY NewHolds DEF Holds, IsFairValue
    <2> QED
      BY <2>1, <2>2, <2>3
  <1> HIDE DEF Finishes
  <1>5. ASSUME NEW p \in Price, OnBinanceTick(p) PROVE Finishes
    <2>1. PICK turn \in Pointing :
             LET h == UpdateSpotMid(UpdateVol(UpdateBtcPrice(fair_value, p), p), turn)
                 g == IF strike_price = NoPrice /\ active # 0 THEN TrySetStrike(h, p) ELSE h
             IN Finish(g)
      BY <1>5 DEF OnBinanceTick
    <2> DEFINE h == UpdateSpotMid(UpdateVol(UpdateBtcPrice(fair_value, p), p), turn)
               g == IF strike_price = NoPrice /\ active # 0 THEN TrySetStrike(h, p) ELSE h
    <2>2. Holds(g, active, Append(prices, Tick(p)))
      BY <1>1, TickHolds
    <2>3. Finish(g)
      BY <2>1
    <2> HIDE DEF g
    <2> QED
      BY <1>2, <2>2, <2>3 DEF Holds
  <1>6. ASSUME NEW p \in Price, OnBinanceDepth(p) PROVE Finishes
    <2>1. PICK obi \in Pointing, basis \in Pointing :
             Finish(UpdateSpotMid(UpdateVol(UpdateObi(fair_value, obi), p), basis))
      BY <1>6 DEF OnBinanceDepth
    <2>2. Holds(UpdateSpotMid(UpdateVol(UpdateObi(fair_value, obi), p), basis), active,
                Append(prices, Depth(p)))
      BY <1>1, DepthHolds
    <2> QED
      BY <1>2, <2>1, <2>2 DEF Holds
  <1>7. ASSUME OnFlow PROVE Finishes
    <2>1. PICK turn \in Pointing : \/ Finish(UpdateObi(fair_value, turn))
                                   \/ Finish(UpdateFuturesMid(fair_value, turn))
                                   \/ Finish(UpdateCvd(fair_value, turn))
                                   \/ Finish(UpdateSpotCvd(fair_value, turn))
                                   \/ Finish(UpdateLiquidation(fair_value, turn))
      BY <1>7 DEF OnFlow
    <2>2. \E f : Finish(f) /\ IsFairValue(f)
      BY <1>1, <2>1, FlowEffect
    <2> QED
      BY <1>2, <2>2
  <1>8. ASSUME NEW s \in MarketSide, NEW market \in 1..MaxMarkets,
               OnPolymarketBook(s, market) \/ OnBestBidAsk(s, market)
        PROVE  Finishes
    BY <1>3, <1>8 DEF OnPolymarketBook, OnBestBidAsk
  <1>9. ASSUME OnOther PROVE Finishes
    BY <1>1, <1>2, <1>9 DEF OnOther
  <1> QED
    BY <1>4, <1>5, <1>6, <1>7, <1>8, <1>9 DEF Next, Finishes

\* For every pair of thresholds, the guard of check_buildup_guard changes only
\* with a reason, and never while the strength is between them.
THEOREM DarkWithReasonHolds == Spec => DarkWithReason
  <1> DEFINE Reason == buildup_guard_active' # buildup_guard_active =>
          IF buildup_guard_active'
          THEN Consensus(fair_value') /\ HasLeading(fair_value') /\ Strength(fair_value') >= GoDark
          ELSE \/ active' # active
               \/ ~Consensus(fair_value') \/ ~HasLeading(fair_value')
               \/ Strength(fair_value') < GoLive
  <1>1. Strength(fair_value') \in Nat
    <2> DEFINE S == {s \in Velocity : Says(fair_value', s) # 0}
    <2>1. IsFiniteSet(Velocity)
      <3>1. Velocity = ({} \cup {"cvd"}) \cup {"obi"} \cup {"basis"}
        BY DEF Velocity
      <3> QED
        BY <3>1, FS_EmptySet, FS_AddElement
    <2>2. IsFiniteSet(S)
      BY <2>1, FS_Subset
    <2>3. \A s \in S : Weight[s] \in Nat
      BY DEF Weight, Velocity
    <2> QED
      BY <2>2, <2>3, SumNat DEF Strength
  <1>2. ASSUME NEW f, NEW market, NEW books, NEW ph, NEW dark \in BOOLEAN,
               FinishIteration(f, market, books, ph, dark), f \in FairValues,
               buildup_guard_active \in BOOLEAN,
               dark = buildup_guard_active \/ (dark = FALSE /\ active' # active)
        PROVE  Reason
    <2>1. fair_value' = IF IsWarm(f) /\ market # 0 THEN Recompute(f) ELSE f
      BY <1>2 DEF FinishIteration
    <2>2. fair_value'.signal = f.signal
      BY <1>2, <2>1 DEF Recompute, FairValues
    <2>3. \A s : Says(fair_value', s) = Says(f, s)
      BY <2>2 DEF Says
    <2>4. /\ Consensus(f) = Consensus(fair_value')
          /\ HasLeading(f) = HasLeading(fair_value')
          /\ Strength(f) = Strength(fair_value')
      <3>1. {s \in Velocity : Says(f, s) # 0} = {s \in Velocity : Says(fair_value', s) # 0}
        BY <2>3
      <3> QED
        BY <2>3, <3>1 DEF Consensus, HasLeading, Strength
    <2>5. buildup_guard_active' = dark \/ buildup_guard_active' = BuildupGuard(f, dark)
      BY <1>2 DEF FinishIteration
    <2>6. GoLive \in Nat /\ GoLive >= 1 /\ GoDark \in Nat /\ GoDark >= 1
      BY MarketDataAssumption
    <2>7. /\ dark => BuildupGuard(f, dark) = (BuildupScore(f) >= GoLive)
          /\ ~dark => BuildupGuard(f, dark) = (BuildupScore(f) >= GoDark)
      BY DEF BuildupGuard
    <2>10. /\ Consensus(fair_value') /\ HasLeading(fair_value') =>
                 BuildupScore(f) = Strength(fair_value')
           /\ ~(Consensus(fair_value') /\ HasLeading(fair_value')) => BuildupScore(f) = 0
      BY <2>4 DEF BuildupScore
    <2>8. CASE buildup_guard_active' = dark
      BY <1>2, <2>8
    <2>9. CASE buildup_guard_active' = BuildupGuard(f, dark)
      <3>1. CASE dark
        <4>1. buildup_guard_active' = (BuildupScore(f) >= GoLive)
          BY <2>7, <2>9, <3>1
        <4>2. CASE BuildupScore(f) >= GoLive
          <5>1. buildup_guard_active' = TRUE
            BY <4>1, <4>2
          <5>2. buildup_guard_active = TRUE
            BY <1>2, <3>1
          <5> QED
            BY <5>1, <5>2
        <4>3. CASE ~(BuildupScore(f) >= GoLive)
          <5>1. ~buildup_guard_active'
            BY <4>1, <4>3
          <5>2. \/ ~Consensus(fair_value') \/ ~HasLeading(fair_value')
                \/ Strength(fair_value') < GoLive
            BY <1>1, <2>6, <2>10, <4>3
          <5> QED
            BY <5>1, <5>2
        <4> QED
          BY <4>2, <4>3
      <3>2. CASE ~dark
        <4>1. buildup_guard_active' = (BuildupScore(f) >= GoDark)
          BY <2>7, <2>9, <3>2
        <4>2. CASE BuildupScore(f) >= GoDark
          <5>1. buildup_guard_active' = TRUE
            BY <4>1, <4>2
          <5>2. /\ Consensus(fair_value') /\ HasLeading(fair_value')
                /\ Strength(fair_value') >= GoDark
            BY <1>1, <2>6, <2>10, <4>2
          <5> QED
            BY <5>1, <5>2
        <4>3. CASE ~(BuildupScore(f) >= GoDark)
          <5>1. ~buildup_guard_active'
            BY <4>1, <4>3
          <5>2. buildup_guard_active = FALSE \/ active' # active
            BY <1>2, <3>2
          <5>3. buildup_guard_active' \in BOOLEAN
            BY <2>9, GuardBoolean
          <5> QED
            BY <5>1, <5>2, <5>3
        <4> QED
          BY <4>2, <4>3
      <3> QED
        BY <3>1, <3>2
    <2> QED
      BY <2>5, <2>8, <2>9
  <1>3. MInv /\ [Next]_vars => [Reason]_vars
    <2> SUFFICES ASSUME MInv, Next PROVE Reason
      BY DEF vars
    <2>1. buildup_guard_active \in BOOLEAN
      BY DEF MInv
    <2>2. CASE Ages
      BY <2>2 DEF Ages
    <2> HIDE DEF Reason
    <2>3. CASE ~Ages
      <3>1. PICK f, market, books, ph, dark :
                 /\ FinishIteration(f, market, books, ph, dark)
                 /\ f \in FairValues
                 /\ \/ dark = buildup_guard_active
                    \/ dark = FALSE /\ active' # active
        BY <2>3, StepFinishes
      <3> QED
        BY <1>2, <2>1, <3>1
    <2> QED
      BY <2>2, <2>3
  <1> QED
    BY <1>3, MarketDataInvariant, PTL DEF Spec, DarkWithReason
=============================================================================
