--------------------------- MODULE StrategyEngine ---------------------------
(***************************************************************************)
(* The strategy engine thread (engine/strategy.rs and the loop in          *)
(* main.rs).  One iteration of the loop receives an event, drains all      *)
(* feedback (one action per report), handles the event and sends the       *)
(* commands it left pending ("recv"), and then runs quote_tick and sends   *)
(* its commands ("quote").  Control events skip the second half.           *)
(*                                                                         *)
(* Market data only decides which of its branches quote_tick takes: fair   *)
(* value, edge, book prices, volatility and the buildup score are the free *)
(* choices of the quote actions.                                           *)
(***************************************************************************)
EXTENDS Quoter, Sizing

CONSTANTS
    MaxUnpaired,             \* risk.max_unpaired_shares
    RebalanceThreshold,      \* risk.rebalance_threshold
    RebalanceSize,           \* risk.rebalance_size
    ClobMin,                 \* the literal minimum of a taker order
    HeartbeatDeadThreshold,  \* risk.heartbeat_dead_threshold
    Inputs                   \* bound: the rarer events that may occur

InputKind == {"heartbeat", "pause", "drain"}

ASSUME EngineAssumption ==
    /\ Inputs \subseteq InputKind
    /\ MaxUnpaired \in Nat
    /\ RebalanceThreshold \in Nat \ {0}
    /\ RebalanceSize \in Nat
    /\ ClobMin \in Nat
    /\ HeartbeatDeadThreshold \in Nat \ {0}

VARIABLES
    pc,                  \* where the loop is: recv, quote, exited, or dead
    phase,               \* MarketPhase
    market,              \* state.active_condition_id
    book,                \* per side: none, invalid (timestamp zeroed), updated
    position,            \* shares recorded in the current market, per side
    quoter,
    pending_rebalance,
    pending_commands,
    paused,
    draining,
    heartbeat_healthy,
    heartbeat_failures,
    counted              \* ghost: shares ever recorded for each order

engineVars == <<pc, phase, market, book, position, quoter, pending_rebalance,
                pending_commands, paused, draining, heartbeat_healthy,
                heartbeat_failures, counted>>

riskVars == <<paused, draining, heartbeat_healthy, heartbeat_failures>>

EngineTypeOK ==
    /\ pc \in {"recv", "quote", "exited", "dead"}
    /\ phase \in {"idle", "quiet", "quoting"}
    /\ market \in Market
    /\ book \in [MarketSide -> {"none", "invalid", "updated"}]
    /\ position \in [MarketSide -> Nat]
    /\ quoter \in QuoterState
    /\ pending_rebalance \in BOOLEAN
    /\ pending_commands \in Seq(Command)
    /\ paused \in BOOLEAN
    /\ draining \in BOOLEAN
    /\ heartbeat_healthy \in BOOLEAN
    /\ heartbeat_failures \in 0..HeartbeatDeadThreshold
    /\ counted \in [OrderId -> Nat]

EngineInit ==
    /\ pc = "recv"
    /\ phase = "idle"
    /\ market = 0
    /\ book = [s \in MarketSide |-> "none"]
    /\ position = [s \in MarketSide |-> 0]
    /\ quoter = NewQuoter
    /\ pending_rebalance = FALSE
    /\ pending_commands = <<>>
    /\ paused = FALSE
    /\ draining = FALSE
    /\ heartbeat_healthy = TRUE
    /\ heartbeat_failures = 0
    /\ counted = [i \in OrderId |-> 0]

Unpaired(s) == Greatest(position[s] - position[Other(s)], 0)
Imbalance == Greatest(Unpaired("yes"), Unpaired("no"))

\* Mutant: requests under way do not hold a drain back.
NoRestingOrder(q) == ~HasRestingOrders(q)

\* has_no_open_position: it looks at the quoter only.
HasNoOpenPosition(q) ==
    /\ ~HasRestingOrders(q)
    /\ \A s \in MarketSide : ~IsPending(q, s)

-----------------------------------------------------------------------------
(* on_feedback, one action per kind of report.                             *)

\* Mutant: a fill is netted against the other side.
RecordNetFill(s, i, n) ==
    /\ position' = [position EXCEPT ![Other(s)] = @ - n]
    /\ counted' = IF i \in OrderId THEN [counted EXCEPT ![i] = @ + n] ELSE counted

RecordFill(s, i, n) ==
    /\ position' = [position EXCEPT ![s] = @ + n]
    /\ counted' = IF i \in OrderId THEN [counted EXCEPT ![i] = @ + n] ELSE counted

RecordNothing == UNCHANGED <<position, counted>>

Feed(kind) == /\ pc = "recv"
              /\ fbq # <<>>
              /\ Head(fbq).kind = kind
              /\ fbq' = Tail(fbq)
              /\ UNCHANGED <<pc, phase, market, pending_commands, riskVars, cmdq>>

OnPosted == LET fb == Head(fbq) IN
    /\ Feed("posted")
    /\ quoter' = OnOrderPosted(quoter, fb.side, fb.id, fb.size)
    /\ RecordNothing
    /\ UNCHANGED <<book, pending_rebalance>>

OnAlreadyFilled == LET fb == Head(fbq) IN
    /\ Feed("filled")
    /\ RecordFill(fb.side, fb.id, fb.size)
    /\ quoter' = OnOrderFailed(quoter, fb.side)
    /\ UNCHANGED <<book, pending_rebalance>>

\* The local book of the side is considered stale until its next update.
OnFailed == LET fb == Head(fbq) IN
    /\ Feed("failed")
    /\ quoter' = OnOrderFailed(quoter, fb.side)
    /\ book' = [book EXCEPT ![fb.side] = IF @ = "none" THEN @ ELSE "invalid"]
    /\ RecordNothing
    /\ UNCHANGED pending_rebalance

\* Mutant: an order with fills already recorded is taken to have no others.
CancelDeltaFirstOnly(fb) ==
    IF fb.ok /\ KnownForCancel(quoter, fb.side, fb.id)
            /\ RecordedForCancel(quoter, fb.side, fb.id) = 0
    THEN fb.size
    ELSE 0

\* Shares the cancel reveals beyond those already recorded for that order.
CancelDelta(fb) ==
    IF fb.ok /\ KnownForCancel(quoter, fb.side, fb.id)
    THEN Greatest(fb.size - RecordedForCancel(quoter, fb.side, fb.id), 0)
    ELSE 0

OnCancelled == LET fb == Head(fbq) IN
    /\ Feed("cancelled")
    /\ RecordFill(fb.side, fb.id, CancelDelta(fb))
    /\ quoter' = OnCancelResult(quoter, fb.side)
    /\ UNCHANGED <<book, pending_rebalance>>

\* Mutant: a killed taker leaves the engine waiting.
OnRebalancedFilledOnly == LET fb == Head(fbq) IN
    /\ Feed("rebalanced")
    /\ IF fb.ok THEN RecordFill(fb.side, fb.id, fb.size) ELSE RecordNothing
    /\ pending_rebalance' = (pending_rebalance /\ ~fb.ok)
    /\ UNCHANGED <<book, quoter>>

OnRebalanced == LET fb == Head(fbq) IN
    /\ Feed("rebalanced")
    /\ IF fb.ok THEN RecordFill(fb.side, fb.id, fb.size) ELSE RecordNothing
    /\ pending_rebalance' = FALSE
    /\ UNCHANGED <<book, quoter>>

FeedbackNext == OnPosted \/ OnAlreadyFilled \/ OnFailed \/ OnCancelled \/ OnRebalanced

-----------------------------------------------------------------------------
(* on_event.  An event is handled once the feedback queue has been found   *)
(* empty; its handler appends "pend" to the pending commands, all of which *)
(* go to the executor before quote_tick runs.                              *)

Receiving == pc = "recv" /\ fbq = <<>>

\* Mutant: what the handler appends overtakes what was already queued.
DispatchFirst(pend) ==
    /\ cmdq' = pend \o cmdq \o pending_commands
    /\ pending_commands' = <<>>
    /\ pc' = "quote"
    /\ UNCHANGED fbq

Dispatch(pend) ==
    /\ cmdq' = cmdq \o pending_commands \o pend
    /\ pending_commands' = <<>>
    /\ pc' = "quote"
    /\ UNCHANGED fbq

\* Every event ends a quiet period that has lasted long enough.
QuietMayEnd(ph) ==
    phase' \in IF ph = "quiet" /\ ~paused THEN {"quiet", "quoting"} ELSE {ph}

\* Mutant: the quoter is not reset.
OnMarketRotationKeepingQuoter ==
    /\ Receiving
    /\ market < MaxMarkets
    /\ market' = market + 1
    /\ book' = [s \in MarketSide |-> "none"]
    /\ position' = [s \in MarketSide |-> 0]
    /\ pending_rebalance' = FALSE
    /\ QuietMayEnd("quiet")
    /\ Dispatch(<<MarketRotation(market + 1)>>)
    /\ UNCHANGED <<quoter, counted, riskVars>>

OnMarketRotation ==
    /\ Receiving
    /\ market < MaxMarkets
    /\ market' = market + 1
    /\ book' = [s \in MarketSide |-> "none"]
    /\ position' = [s \in MarketSide |-> 0]
    /\ quoter' = NewQuoter
    /\ pending_rebalance' = FALSE
    /\ QuietMayEnd("quiet")
    /\ Dispatch(<<MarketRotation(market + 1)>>)
    /\ UNCHANGED <<counted, riskVars>>

\* A user WebSocket report that order i has "cumulative" shares matched.
OnTradeStatusUpdate(i, cumulative) ==
    /\ Receiving
    /\ \/ \E s \in MarketSide :
             /\ quoter.order[s].id = i
             /\ RecordFill(s, i, WsDelta(quoter, s, cumulative))
             /\ quoter' = IF WsDelta(quoter, s, cumulative) = 0 THEN quoter
                          ELSE OnFill(RecordWsFill(quoter, s, cumulative), s,
                                      cumulative >= quoter.order[s].size)
       \/ /\ \A s \in MarketSide : quoter.order[s].id # i
          /\ RecordNothing
          /\ UNCHANGED quoter
    /\ QuietMayEnd(phase)
    /\ Dispatch(<<>>)
    /\ UNCHANGED <<market, book, pending_rebalance, riskVars>>

\* PolymarketBook, or PolymarketBestBidAsk when the side already has a book.
OnBookUpdate(s) ==
    /\ Receiving
    /\ market # 0
    /\ book' = [book EXCEPT ![s] = "updated"]
    /\ QuietMayEnd(phase)
    /\ Dispatch(<<>>)
    /\ UNCHANGED <<market, position, quoter, pending_rebalance, riskVars, counted>>

OnHeartbeatOk ==
    /\ "heartbeat" \in Inputs
    /\ Receiving
    /\ heartbeat_healthy' = TRUE
    /\ heartbeat_failures' = 0
    /\ QuietMayEnd(phase)
    /\ Dispatch(<<>>)
    /\ UNCHANGED <<market, book, position, quoter, pending_rebalance, paused,
                   draining, counted>>

\* The failure that reaches the threshold cancels all resting orders.  The
\* count is capped there: beyond the threshold its value is never used.
HeartbeatDies == heartbeat_healthy /\ heartbeat_failures + 1 >= HeartbeatDeadThreshold

OnHeartbeatFailed ==
    /\ "heartbeat" \in Inputs
    /\ Receiving
    /\ heartbeat_failures' = Least(heartbeat_failures + 1, HeartbeatDeadThreshold)
    /\ IF HeartbeatDies
       THEN /\ heartbeat_healthy' = FALSE
            /\ quoter' = OnCancelSent(quoter, Cancellable(quoter, MarketSide))
            /\ Dispatch(CancelActions(quoter, MarketSide, market))
       ELSE /\ UNCHANGED <<heartbeat_healthy, quoter>>
            /\ Dispatch(<<>>)
    /\ QuietMayEnd(phase)
    /\ UNCHANGED <<market, book, position, pending_rebalance, paused, draining,
                   counted>>

\* Binance and futures ticks, and every event that leaves this state alone.
OnMarketData ==
    /\ Receiving
    /\ QuietMayEnd(phase)
    /\ Dispatch(<<>>)
    /\ UNCHANGED <<market, book, position, quoter, pending_rebalance, riskVars,
                   counted>>

-----------------------------------------------------------------------------
(* Control events: handled by the loop itself, which then waits for the    *)
(* next event without sending the pending commands.                        *)

\* Shutdown and DrainAndRestart, which differ in the exit code only.
OnDrain ==
    /\ "drain" \in Inputs
    /\ Receiving
    /\ draining' = TRUE
    /\ pc' = IF HasNoOpenPosition(quoter) THEN "exited" ELSE "recv"
    /\ UNCHANGED <<phase, market, book, position, quoter, pending_rebalance,
                   pending_commands, paused, heartbeat_healthy,
                   heartbeat_failures, counted, channelVars>>

OnPause ==
    /\ "pause" \in Inputs
    /\ Receiving
    /\ paused' = TRUE
    /\ quoter' = OnCancelSent(quoter, Cancellable(quoter, MarketSide))
    /\ cmdq' = cmdq \o CancelActions(quoter, MarketSide, market)
    /\ UNCHANGED <<pc, phase, market, book, position, pending_rebalance,
                   pending_commands, draining, heartbeat_healthy,
                   heartbeat_failures, counted, fbq>>

OnResume ==
    /\ "pause" \in Inputs
    /\ Receiving
    /\ paused' = FALSE
    /\ UNCHANGED <<pc, phase, market, book, position, quoter, pending_rebalance,
                   pending_commands, draining, heartbeat_healthy,
                   heartbeat_failures, counted, channelVars>>

-----------------------------------------------------------------------------
(* quote_tick.                                                             *)

CanQuote ==
    /\ phase = "quoting" /\ ~draining /\ ~paused
    /\ heartbeat_healthy
    /\ \E s \in MarketSide : book[s] = "updated"

\* The end of an iteration: send quote_tick's commands, then stop the loop if
\* a drain has nothing left to wait for.
EndIteration(cmds) ==
    /\ pc = "quote"
    /\ cmdq' = cmdq \o cmds
    /\ pc' = IF draining /\ HasNoOpenPosition(quoter') THEN "exited" ELSE "recv"
    /\ UNCHANGED <<phase, market, book, position, riskVars, counted, fbq>>

\* Mutant: the side with more shares is taken for the lagging one.
LaggingSwapped(s) == Unpaired(s) > 0

\* The side the imbalance lags on, if any, and whether a taker would fix it.
Lagging(s) == Unpaired(Other(s)) > 0
TakerWillHandle == Imbalance >= RebalanceThreshold

\* The taker rebalance at the end of quote_tick, with the quoter q it finds.
\* It needs a book of the lagging side, however old, and a feasible price.
NeedsRebalance(s) ==
    /\ Lagging(s)
    /\ TakerWillHandle
    /\ ~pending_rebalance
    /\ book[s] # "none"

Rebalance(q, s, cmds) ==
    /\ quoter' = OnCancelSent(q, Cancellable(q, {s}))
    /\ pending_rebalance' = TRUE
    /\ EndIteration(cmds
         \o CancelActions(q, {s}, market)
         \o <<RebalanceTaker(s, Greatest(Least(RebalanceSize, Imbalance), ClobMin),
                             market)>>)

NoRebalance(q, cmds) ==
    /\ quoter' = q
    /\ UNCHANGED pending_rebalance
    /\ EndIteration(cmds)

FinishQuoting(q, cmds) ==
    \/ \E s \in MarketSide : NeedsRebalance(s) /\ Rebalance(q, s, cmds)
    \/ NoRebalance(q, cmds)

\* A guard returns early; those that read market data may always do so.
QuoteNothing == /\ NoRebalance(quoter, <<>>)
                /\ UNCHANGED pending_commands

\* The buildup guard is active.  Its cancels join pending_commands, which the
\* next event sends; the taker's commands are sent at once.
QuoteDark ==
    /\ CanQuote
    /\ FinishQuoting(OnCancelSent(quoter, Cancellable(quoter, MarketSide)), <<>>)
    /\ pending_commands' = pending_commands
                           \o CancelActions(quoter, MarketSide, market)

\* A side is postable when its book is fresh and its target price lies in the
\* posting zone below the best ask; orders of the other sides are cancelled.
Postable == SUBSET {s \in MarketSide : book[s] = "updated"}

QuoteZone(postable) ==
    /\ CanQuote
    /\ Cancellable(quoter, MarketSide \ postable) # {}
    /\ quoter' = OnCancelSent(quoter, Cancellable(quoter, MarketSide \ postable))
    /\ EndIteration(CancelActions(quoter, MarketSide \ postable, market))
    /\ UNCHANGED <<pending_rebalance, pending_commands>>

\* Mutant: a side may act while a post or a cancel of it is under way.
MayActWhilePending(s) ==
    /\ Unpaired(s) < MaxUnpaired
    /\ position[s] < MaxTotalShares
    /\ OrderSize(position[s]) >= MinOrderSize

\* evaluate_side's guards that do not read prices.
MayAct(s) ==
    /\ ~IsPending(quoter, s)
    /\ Unpaired(s) < MaxUnpaired
    /\ position[s] < MaxTotalShares
    /\ OrderSize(position[s]) >= MinOrderSize

\* The sides "act" on which the prices call for an action too: a post where
\* nothing rests, a requoting cancel where an order does.
Posts(act) == {s \in act : ~Resting(quoter, s)}
Requotes(act) == {s \in act : Resting(quoter, s)}

\* Mutant: the size does not shrink as shares accumulate.
MakerActionsFullSize(act) ==
    OnSides(act, [s \in MarketSide |->
                     IF Resting(quoter, s)
                     THEN CancelOrder(s, quoter.order[s].id, market)
                     ELSE PostOrder(s, MaxOrderSize, market)])

MakerActions(act) ==
    OnSides(act, [s \in MarketSide |->
                     IF Resting(quoter, s)
                     THEN CancelOrder(s, quoter.order[s].id, market)
                     ELSE PostOrder(s, OrderSize(position[s]), market)])

QuoteMakers(postable) ==
    /\ CanQuote
    /\ Cancellable(quoter, MarketSide \ postable) = {}
    /\ \E act \in SUBSET {s \in postable :
                             MayAct(s) /\ ~(Lagging(s) /\ TakerWillHandle)} :
          FinishQuoting(OnCancelSent(MarkPostPending(quoter, Posts(act)),
                                     Requotes(act)),
                        MakerActions(act))
    /\ UNCHANGED pending_commands

QuoteNext ==
    \/ QuoteNothing
    \/ QuoteDark
    \/ \E postable \in Postable : QuoteZone(postable) \/ QuoteMakers(postable)

EventNext ==
    \/ OnMarketRotation
    \/ \E s \in MarketSide : OnBookUpdate(s)
    \/ OnHeartbeatOk
    \/ OnHeartbeatFailed
    \/ OnMarketData

ControlNext == OnDrain \/ OnPause \/ OnResume
=============================================================================
