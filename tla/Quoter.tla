------------------------------- MODULE Quoter -------------------------------
(***************************************************************************)
(* The quoter (engine/quoter.rs): what the engine believes of the one      *)
(* maker order it rests on each side, and which post or cancel of that     *)
(* side has not been answered yet.                                         *)
(*                                                                         *)
(* The state is a record q of functions of the side; each method of the    *)
(* code is an operator from the quoter to the quoter.                      *)
(***************************************************************************)
EXTENDS BotTypes

\* ManagedOrder and ClearedOrder; id 0 is the code's None.
ManagedOrder == [id : 0..MaxOrders, size : Nat, size_filled : Nat]
ClearedOrder == [id : 0..MaxOrders, size_filled : Nat]

NoOrder == [id |-> 0, size |-> 0, size_filled |-> 0]
NoCleared == [id |-> 0, size_filled |-> 0]

QuoterState == [order : [MarketSide -> ManagedOrder],
                pending_cancel : [MarketSide -> BOOLEAN],
                pending_post : [MarketSide -> BOOLEAN],
                last_cleared : [MarketSide -> ClearedOrder]]

\* Quoter::new and Quoter::reset.
NewQuoter == [order |-> [s \in MarketSide |-> NoOrder],
              pending_cancel |-> [s \in MarketSide |-> FALSE],
              pending_post |-> [s \in MarketSide |-> FALSE],
              last_cleared |-> [s \in MarketSide |-> NoCleared]]

Resting(q, s) == q.order[s].id # 0
IsPending(q, s) == q.pending_cancel[s] \/ q.pending_post[s]
HasRestingOrders(q) == \E s \in MarketSide : Resting(q, s)

\* A posted order replaces whatever the side had, whoever it was.
OnOrderPosted(q, s, i, n) ==
    [q EXCEPT !.order[s] = [id |-> i, size |-> n, size_filled |-> 0],
              !.pending_post[s] = FALSE]

OnOrderFailedForgotten(q, s) == q   \* mutant: a failed post keeps its flag
OnOrderFailed(q, s) == [q EXCEPT !.pending_post[s] = FALSE]

MarkPostPending(q, S) ==
    [q EXCEPT !.pending_post = [s \in MarketSide |-> s \in S \/ q.pending_post[s]]]

OnCancelSent(q, S) ==
    [q EXCEPT !.pending_cancel = [s \in MarketSide |-> s \in S \/ q.pending_cancel[s]]]

\* The snapshot kept for a late CancelResult when the side's order is dropped.
Snapshot(q, s) ==
    IF Resting(q, s)
    THEN [id |-> q.order[s].id, size_filled |-> q.order[s].size_filled]
    ELSE q.last_cleared[s]

\* Mutant: the flag survives the result.
OnCancelResultForgotten(q, s) ==
    [q EXCEPT !.last_cleared[s] = Snapshot(q, s), !.order[s] = NoOrder]

\* The result clears the side's order, whichever order was cancelled.
OnCancelResult(q, s) ==
    [q EXCEPT !.last_cleared[s] = Snapshot(q, s),
              !.order[s] = NoOrder,
              !.pending_cancel[s] = FALSE]

\* record_ws_fill: shares newly matched according to a cumulative report, and
\* the order's record of them.
WsDeltaUndeduped(q, s, cumulative) == cumulative   \* mutant
WsDelta(q, s, cumulative) == Greatest(cumulative - q.order[s].size_filled, 0)
RecordWsFillForgotten(q, s, cumulative) == q   \* mutant
RecordWsFill(q, s, cumulative) ==
    [q EXCEPT !.order[s].size_filled = Greatest(q.order[s].size_filled, cumulative)]

\* Mutants: a partial fill drops the order; a full fill settles the cancel too.
OnFillAlwaysFull(q, s, was_full) ==
    [q EXCEPT !.last_cleared[s] = Snapshot(q, s), !.order[s] = NoOrder]
OnFillSettlesCancel(q, s, was_full) == IF was_full THEN OnCancelResult(q, s) ELSE q

OnFill(q, s, was_full) ==
    IF was_full
    THEN [q EXCEPT !.last_cleared[s] = Snapshot(q, s), !.order[s] = NoOrder]
    ELSE q

\* lookup_order_for_cancel: is the order known, and what is already recorded.
KnownForCancel(q, s, i) == q.order[s].id = i \/ q.last_cleared[s].id = i
RecordedForCancel(q, s, i) ==
    IF q.order[s].id = i THEN q.order[s].size_filled ELSE q.last_cleared[s].size_filled

\* The sides of S that cancel_side_action and cancel_all_actions cancel.
Cancellable(q, S) == {s \in S : Resting(q, s) /\ ~q.pending_cancel[s]}
CancelActions(q, S, m) ==
    OnSides(Cancellable(q, S),
            [s \in MarketSide |-> CancelOrder(s, q.order[s].id, m)])
=============================================================================
