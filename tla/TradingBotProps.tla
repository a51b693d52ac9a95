-------------------------- MODULE TradingBotProps ---------------------------
(***************************************************************************)
(* What the trading core promises, and what its documentation promises     *)
(* that the code does not keep.  Which run checks which property, and      *)
(* under which faults, is in the configurations.                           *)
(***************************************************************************)
EXTENDS TradingBot, FiniteSetsExt

\* What is under way: the reports on their way to the engine, the one the
\* executor still owes, and the commands not yet taken.
Reports == fbq \o reply
InSeq(seq, P(_)) == \E k \in 1..Len(seq) : P(seq[k])
CountIn(seq, P(_)) == Quantify(1..Len(seq), LAMBDA k : P(seq[k]))

PostsUnderWay(s) ==
    CountIn(cmdq, LAMBDA c : c.op = "post" /\ c.side = s)
    + CountIn(Reports,
              LAMBDA r : r.kind \in {"posted", "filled", "failed"} /\ r.side = s)

CancelsUnderWay(s) ==
    CountIn(pending_commands \o cmdq, LAMBDA c : c.op = "cancel" /\ c.side = s)
    + CountIn(Reports, LAMBDA r : r.kind = "cancelled" /\ r.side = s)

TakersUnderWay ==
    CountIn(cmdq, LAMBDA c : c.op = "rebalance")
    + CountIn(Reports, LAMBDA r : r.kind = "rebalanced")

Flag(b) == IF b THEN 1 ELSE 0

Held(s) == {i \in Orders : quoter.order[s].id = i}
LiveMakers(s) == {i \in Orders : clob[i].live /\ clob[i].side = s}
Makers(s) == {i \in Orders : clob[i].maker /\ clob[i].side = s}

\* The engine still has the order, or is still to hear of it.
Open(i) == \/ \E s \in MarketSide : i \in Held(s)
           \/ InSeq(Reports, LAMBDA r : r.id = i)

-----------------------------------------------------------------------------
(* Counting fills.                                                         *)

\* No share is ever recorded twice, whichever of the user WebSocket, the
\* cancel result and the placement response reports it first, repeats it or
\* reports it out of order, across rotations and failed calls
\* (record_ws_fill, lookup_order_for_cancel).
NoDoubleCount == \A i \in Orders : counted[i] <= clob[i].matched

\* Once the engine has let go of an order and no report of it is under way,
\* every share the exchange matched for it has been recorded, although any
\* WebSocket report may have been lost or have come before the order was known.
SettledExact == \A i \in Orders : ~Open(i) => counted[i] = clob[i].matched

\* The quoter's own count of a resting order is what the position holds of it,
\* so that the next delta is neither too large nor too small.
FilledMirrorsCounted ==
    \A s \in MarketSide : \A i \in Held(s) :
        counted[i] = quoter.order[s].size_filled

-----------------------------------------------------------------------------
(* Requests and answers.                                                   *)

\* Every pending flag of the engine stands for exactly one command or report
\* that is still under way: a flag never outlives its answer, which would
\* block the side for the rest of the market, and no side ever has two posts
\* or two cancels under way.
FlagsMirrorPipeline ==
    /\ \A s \in MarketSide :
          /\ PostsUnderWay(s) = Flag(quoter.pending_post[s])
          /\ CancelsUnderWay(s) = Flag(quoter.pending_cancel[s])
    /\ TakersUnderWay = Flag(pending_rebalance)

-----------------------------------------------------------------------------
(* Orders on the exchange.                                                 *)

\* At most one maker order of a side is live on the exchange.
OneLiveOrderPerSide == \A s \in MarketSide : Cardinality(LiveMakers(s)) <= 1

\* Every live maker order is known to the engine, or about to be: it can still
\* be cancelled, and its fills can still be recorded.
NoOrphan == \A i \in Orders : clob[i].live => Open(i)

MatchedShares == [i \in Orders |-> clob[i].matched]

\* However fills, requotes and taker hedges interleave, the maker shares
\* bought on a side stay within the cap the batches add up to.
MakerCap ==
    \A s \in MarketSide : SumFunctionOnSet(MatchedShares, Makers(s)) <= MaxTotalShares

\* The largest taker hedge.
MaxTaker == Greatest(RebalanceSize, ClobMin) + FokSlack

\* The imbalance of the recorded position stays within what one maker order and
\* one taker hedge, both decided before the other was recorded, add to the
\* largest imbalance a maker order may be posted at.  (max_unpaired_shares
\* alone bounds nothing: it only gates new posts.)
ImbalanceBounded == Imbalance <= (MaxUnpaired - 1) + MaxOrderSize + MaxTaker

-----------------------------------------------------------------------------
(* Rotation.                                                               *)

\* No pending flag outlives its answer, also when a rotation has reset the
\* flags while older commands and reports of the side are still under way.
FlagsNeverStuck ==
    /\ \A s \in MarketSide :
          /\ quoter.pending_post[s] => PostsUnderWay(s) > 0
          /\ quoter.pending_cancel[s] => CancelsUnderWay(s) > 0
    /\ pending_rebalance => TakersUnderWay > 0

\* The executor never places an order for another market than the one whose
\* rotation it handled last, however far the engine has run ahead of it.
PlacedInCurrentMarket ==
    [][Len(clob') > Len(clob) => clob'[Len(clob')].market = exec_market]_vars

\* Unless cancel_all fails, no order of an earlier market is live once the
\* executor has handled a rotation: not even one posted just before it.
RotationLeavesNothing == \A i \in Orders : clob[i].live => clob[i].market = exec_market

-----------------------------------------------------------------------------
(* Draining.                                                               *)

\* A drain that stops the loop before any rotation has waited for every maker
\* order: none is left on the exchange and every share one bought has been
\* recorded.  (A rotation empties the quoter, and the loop then stops with the
\* orders still live: see DrainResolves.)
DrainBeforeRotation ==
    pc \in {"exited", "dead"} /\ market <= 1 =>
        \A i \in Orders : clob[i].maker => ~clob[i].live /\ counted[i] = clob[i].matched

\* The fill accounting is the ledger's.
Ledger == INSTANCE FillLedger
             WITH matched <- [i \in Orders |-> clob[i].matched]
ImplementsLedger == Ledger!Spec

-----------------------------------------------------------------------------
(* Liveness.  The threads run; some event always arrives (market data      *)
(* streams in continuously), which is what makes the engine drain its      *)
(* feedback; the executor's calls return.  Nothing is assumed of fills, of *)
(* rotations or of the choices quote_tick makes.                           *)

EventArrives == OnMarketData /\ UNCHANGED <<clob, executorVars>>
FeedbackStep == FeedbackNext /\ UNCHANGED <<clob, executorVars>>
QuoteStep == QuoteNext /\ UNCHANGED <<clob, executorVars>>

Fairness == /\ WF_vars(FeedbackStep)
            /\ WF_vars(QuoteStep)
            /\ SF_vars(EventArrives)
            /\ WF_vars(ExecutorStep)

FairSpec == Spec /\ Fairness

\* Whatever calls fail, a side that waits for a post or a cancel does not wait
\* for ever, although a dark engine keeps its cancels back until the next event.
SidesUnblock ==
    \A s \in MarketSide :
        /\ quoter.pending_post[s] ~> ~quoter.pending_post[s]
        /\ quoter.pending_cancel[s] ~> ~quoter.pending_cancel[s]

\* A taker hedge is answered, unless the loop has stopped in the meantime.
HedgeUnblocks == pending_rebalance ~> (~pending_rebalance \/ pc \in {"exited", "dead"})

\* A drain ends with the next rotation at the latest, if rotations go on: the
\* rotation resets what still rests or pends, whatever calls failed before it.
RotationArrives == OnMarketRotation /\ UNCHANGED <<clob, executorVars>>
DrainEnds == SF_vars(RotationArrives)
                => ((draining /\ market < MaxMarkets) ~> pc \in {"exited", "dead"})

-----------------------------------------------------------------------------
(* What the documentation says and the code does not do.                   *)

\* "Cancel resting maker on rebalance side to prevent double-fill": when the
\* taker reaches the exchange, no maker order of its side is live there.
NoMakerBesideTaker ==
    cmdq # <<>> /\ Head(cmdq).op = "rebalance" /\ reply = <<>> =>
        LiveMakers(Head(cmdq).side) = {}

\* README.md: /shutdown and /set "never abandon open positions", they "wait for
\* the current trade to resolve first": when a drain has ended the process, the
\* recorded shares are paired and no order is live, with nobody left to cancel
\* it or to record its fills.
NoOrderLive == \A i \in Orders : ~clob[i].live
DrainResolves == pc = "dead" => Imbalance = 0 /\ NoOrderLive
=============================================================================
