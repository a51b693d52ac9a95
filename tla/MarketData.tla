----------------------------- MODULE MarketData -----------------------------
(***************************************************************************)
(* The market data the engine quotes on (engine/strategy.rs): what an       *)
(* iteration of its loop, an event and quote_tick, does to the fair value,  *)
(* the strike, the books, the phase and the buildup guard.  Any event may   *)
(* arrive at any time, also one of another market: the channel is only a    *)
(* delay.  The age of a value is abstracted to whether it is within its     *)
(* limit.  The bot may be paused, draining or without a heartbeat at any     *)
(* time.  Orders and positions are TradingBot's.                             *)
(***************************************************************************)
EXTENDS FairValue

CONSTANTS
    MarketSide,
    MaxMarkets,          \* bound: rotations
    MaxPrices,           \* bound: spot prices read in one market
    GoDark, GoLive       \* buildup_go_dark_threshold, buildup_go_live_threshold

ASSUME MarketDataAssumption ==
    /\ MaxMarkets \in Nat
    /\ MaxPrices \in Nat
    /\ GoDark \in Nat
    /\ GoLive \in 1..GoDark

NoBook == [market |-> 0, fresh |-> FALSE]
NoBooks == [s \in MarketSide |-> NoBook]

VARIABLES
    fair_value,
    active,              \* the active market, 0 for none
    strike_price,        \* the engine's own copy
    book,                \* poly_yes_book, poly_no_book: of which market, and fresh or not
    phase,
    buildup_guard_active,
    prices               \* history: spot prices read in this market

vars == <<fair_value, active, strike_price, book, phase, buildup_guard_active, prices>>

Tick(p) == [tick |-> TRUE, price |-> p]
Depth(p) == [tick |-> FALSE, price |-> p]

Init == /\ fair_value = NewFairValue
        /\ active = 0
        /\ strike_price = NoPrice
        /\ book = NoBooks
        /\ phase = "quiet"
        /\ buildup_guard_active = FALSE
        /\ prices = <<>>

-----------------------------------------------------------------------------
(* quote_tick, as far as market data goes.                                 *)

\* Its first guards.
CanQuote(f, ph) == /\ ph = "quoting"
                   /\ IsWarm(f)
                   /\ ~IsStale(f)
                   /\ IsVolWarm(f)

\* A maker order of the side may be posted.
MayPost(s) == CanQuote(fair_value, phase) /\ book[s].fresh /\ ~buildup_guard_active

Velocity == {"cvd", "obi", "basis"}
Leading == {"cvd", "basis"}
Weight == [cvd |-> 4, basis |-> 3, obi |-> 3]

Consensus(f) == \E d \in {-1, 1} : /\ \E s \in Velocity : Says(f, s) = d
                                   /\ \A s \in Velocity : Says(f, s) # -d
HasLeading(f) == \E s \in Leading : Says(f, s) # 0

Strength(f) == SumFunctionOnSet(Weight, {s \in Velocity : Says(f, s) # 0})

\* Mutant: the signals need not agree.
BuildupScoreUnvetoed(f) == IF HasLeading(f) THEN Strength(f) ELSE 0

\* buildup_score: none without agreement and a signal of the futures market.
BuildupScore(f) == IF Consensus(f) /\ HasLeading(f) THEN Strength(f) ELSE 0

\* check_buildup_guard: dark at the higher threshold, live below the lower one.
BuildupGuard(f, dark) == BuildupScore(f) >= IF dark THEN GoLive ELSE GoDark

\* The end of on_event, and quote_tick: it looks at the guard unless it returns
\* before, also because the fair value is at an extreme or no book is fresh.
FinishIteration(f, market, books, ph, dark) ==
    /\ book' = books
    /\ fair_value' = IF IsWarm(f) /\ market # 0 THEN Recompute(f) ELSE f
    /\ phase' \in {ph, "quoting"}
    /\ \/ buildup_guard_active' = dark
       \/ /\ CanQuote(f, phase') /\ \E s \in MarketSide : books[s].fresh
          /\ buildup_guard_active' = BuildupGuard(f, dark)

Finish(f) == FinishIteration(f, active, book, phase, buildup_guard_active)
FinishWith(books) == FinishIteration(fair_value, active, books, phase, buildup_guard_active)

-----------------------------------------------------------------------------
(* on_event.                                                               *)

\* Mutant: the estimator is not reset.
OnMarketRotationKeeping == /\ active < MaxMarkets
                           /\ active' = active + 1
                           /\ strike_price' = NoPrice
                           /\ prices' = <<>>
                           /\ FinishIteration(fair_value, active', NoBooks, "quiet", FALSE)

OnMarketRotation == /\ active < MaxMarkets
                    /\ active' = active + 1
                    /\ strike_price' = NoPrice
                    /\ prices' = <<>>
                    /\ FinishIteration(NewFairValue, active', NoBooks, "quiet", FALSE)

OnBinanceTick(p) ==
    /\ Len(prices) < MaxPrices
    /\ prices' = Append(prices, Tick(p))
    /\ \E turn \in Pointing :
          LET f == UpdateSpotMid(UpdateVol(UpdateBtcPrice(fair_value, p), p), turn)
              g == IF strike_price = NoPrice /\ active # 0 THEN TrySetStrike(f, p) ELSE f
          IN /\ strike_price' = g.strike_price
             /\ Finish(g)
    /\ UNCHANGED active

\* A depth snapshot feeds the volatility and the basis, but is not the price.
OnBinanceDepth(p) ==
    /\ Len(prices) < MaxPrices
    /\ prices' = Append(prices, Depth(p))
    /\ \E obi, basis \in Pointing :
          Finish(UpdateSpotMid(UpdateVol(UpdateObi(fair_value, obi), p), basis))
    /\ UNCHANGED <<active, strike_price>>

\* The other events of Binance; a book with one side only has no mid price.
OnFlow == /\ \E turn \in Pointing : \/ Finish(UpdateObi(fair_value, turn))
                                     \/ Finish(UpdateFuturesMid(fair_value, turn))
                                     \/ Finish(UpdateCvd(fair_value, turn))
                                     \/ Finish(UpdateSpotCvd(fair_value, turn))
                                     \/ Finish(UpdateLiquidation(fair_value, turn))
          /\ UNCHANGED <<active, strike_price, prices>>

\* Mutant: the book is taken whatever its token is.
OnPolymarketBookAnyAsset(s, market) ==
    /\ \E fresh \in BOOLEAN :
          FinishWith([book EXCEPT ![s] = [market |-> market, fresh |-> fresh]])
    /\ UNCHANGED <<active, strike_price, prices>>

\* A book of a token; its time is the exchange's.
OnPolymarketBook(s, market) ==
    /\ \E fresh \in BOOLEAN :
          FinishWith(IF market = active
                     THEN [book EXCEPT ![s] = [market |-> market, fresh |-> fresh]] ELSE book)
    /\ UNCHANGED <<active, strike_price, prices>>

\* Best prices only renew a book there is.
OnBestBidAsk(s, market) ==
    /\ FinishWith(IF market = active /\ book[s] # NoBook
                  THEN [book EXCEPT ![s].fresh = TRUE] ELSE book)
    /\ UNCHANGED <<active, strike_price, prices>>

\* Any other event, and an iteration without one: quote_tick alone.
OnOther == /\ Finish(fair_value)
           /\ UNCHANGED <<active, strike_price, prices>>

\* Time passes: something is too old now (a rejected post does that to a book).
Ages == /\ \/ /\ fair_value.vol_fresh
              /\ fair_value' = [fair_value EXCEPT !.vol_fresh = FALSE]
              /\ UNCHANGED book
           \/ /\ \E s \in Signal : /\ Says(fair_value, s) # 0
                                    /\ fair_value' = [fair_value EXCEPT !.signal[s].says = 0]
              /\ UNCHANGED book
           \/ /\ \E s \in MarketSide : book[s].fresh /\ book' = [book EXCEPT ![s].fresh = FALSE]
              /\ UNCHANGED fair_value
        /\ UNCHANGED <<active, strike_price, phase, buildup_guard_active, prices>>

Next == \/ OnMarketRotation
        \/ \E p \in Price : OnBinanceTick(p) \/ OnBinanceDepth(p)
        \/ OnFlow
        \/ \E s \in MarketSide, market \in 1..MaxMarkets :
              OnPolymarketBook(s, market) \/ OnBestBidAsk(s, market)
        \/ OnOther
        \/ Ages

Spec == Init /\ [][Next]_vars

-----------------------------------------------------------------------------
(* Properties.                                                             *)

TypeOK == /\ fair_value.strike_price \in Price \cup {NoPrice}
          /\ fair_value.strike_warmup_buffer \in Seq(Price)
          /\ Len(fair_value.strike_warmup_buffer) <= StrikeWarmupCount
          /\ fair_value.current_btc \in Price \cup {NoPrice}
          /\ \A w \in Window : /\ fair_value.vol[w].head \in 1..Capacity[w]
                               /\ fair_value.vol[w].count \in Nat
                               /\ fair_value.vol[w].sum_sq \in Nat
          /\ \A s \in Signal : /\ fair_value.signal[s].samples \in Nat
                               /\ Says(fair_value, s) \in Pointing
          /\ active \in 0..MaxMarkets
          /\ strike_price \in Price \cup {NoPrice}
          /\ book \in [MarketSide -> [market : 0..MaxMarkets, fresh : BOOLEAN]]
          /\ phase \in {"quiet", "quoting"}
          /\ buildup_guard_active \in BOOLEAN
          /\ Len(prices) <= MaxPrices

\* The log-return of the k-th price.
Return(k) == prices[k].price - prices[k - 1].price
Returns == 2..Len(prices)
SquaredReturn == [k \in Returns |-> Square(Return(k))]

\* The running sum of squares, kept by adding the new return and subtracting the
\* one that is overwritten, is the sum over the last returns the window holds: of
\* this market, none twice and none too long.
VolWindow ==
    \A w \in Window :
        fair_value.vol[w].sum_sq =
            SumFunctionOnSet(SquaredReturn, {k \in Returns : k > Len(prices) - Capacity[w]})

\* Where the ticks are among the prices.
Ticks == {k \in DOMAIN prices : prices[k].tick}
FirstTicks == {k \in Ticks : Quantify(Ticks, LAMBDA j : j <= k) <= StrikeWarmupCount}

\* As many of the prices lie below m as above it, give or take the middle.
IsMedian(m, S) ==
    /\ Quantify(S, LAMBDA k : prices[k].price < m) <= Cardinality(S) \div 2
    /\ Quantify(S, LAMBDA k : prices[k].price <= m) > Cardinality(S) \div 2

\* "The strike price is set from the median of the first strike_warmup_count
\* BinanceTick prices after market rotation": of these ticks and of no others,
\* not earlier and not later, and once and for all.
StrikeIsMedian ==
    /\ strike_price = fair_value.strike_price
    /\ active = 0 => strike_price = NoPrice
    /\ active # 0 =>
          IF Cardinality(Ticks) < StrikeWarmupCount THEN strike_price = NoPrice
          ELSE IsMedian(strike_price, FirstTicks)

\* Whenever an order may be posted, it is priced on this market's data only: on
\* its book, its strike, its last tick, and a volatility that has its samples
\* from prices read since the rotation.
PricedOnThisMarket ==
    \A s \in MarketSide : MayPost(s) =>
        /\ book[s].market = active
        /\ Cardinality(Ticks) >= StrikeWarmupCount
        /\ fair_value.estimate.strike = strike_price
        /\ fair_value.estimate.btc = prices[Max(Ticks)].price
        /\ Cardinality(Returns) >= VolMinWarmup

\* The guard goes dark only on signals that agree, one of them of the futures
\* market, and wakes only when these are gone or weak or the market is over: a
\* strength between the thresholds changes nothing, so that the bot does not
\* cancel and post with every sample.
DarkWithReason ==
    [][buildup_guard_active' # buildup_guard_active =>
          IF buildup_guard_active'
          THEN Consensus(fair_value') /\ HasLeading(fair_value') /\ Strength(fair_value') >= GoDark
          ELSE \/ active' # active
               \/ ~Consensus(fair_value') \/ ~HasLeading(fair_value')
               \/ Strength(fair_value') < GoLive]_vars
=============================================================================
