------------------------------ MODULE BotTypes ------------------------------
(***************************************************************************)
(* The vocabulary every part of the bot shares: the two sides of a binary  *)
(* market, the commands the engine sends to the executor, the feedback the *)
(* executor sends back, and the bounded channels between the two threads.  *)
(*                                                                         *)
(* Shares are natural numbers of an indivisible unit.  Prices, token ids   *)
(* and timestamps are abstracted: a market is the number of rotations that *)
(* led to it (0: none yet), which also stands for its pair of token ids.   *)
(***************************************************************************)
EXTENDS Integers, Sequences, FiniteSets

CONSTANTS
    MaxOrders,     \* bound on the orders the exchange ever accepts
    MaxMarkets,    \* bound on the market rotations of a behaviour
    ChannelCap     \* capacity of the executor and feedback channels

ASSUME BoundsAssumption ==
    /\ MaxOrders \in Nat \ {0}
    /\ MaxMarkets \in Nat \ {0}
    /\ ChannelCap \in Nat \ {0}

VARIABLES
    cmdq,   \* engine -> executor commands, blocking FIFO
    fbq     \* executor -> engine feedback, lossy FIFO

channelVars == <<cmdq, fbq>>

MarketSide == {"yes", "no"}
Other(s) == IF s = "yes" THEN "no" ELSE "yes"

\* An order id is the order's rank on the exchange; 0 stands for no order.
OrderId == 1..MaxOrders
Market == 0..MaxMarkets

\* V2ExecutorCommand.  "market" is the market of the token ids a command
\* carries; TickSizeChanged only touches the SDK's price cache and is left out.
Command == [op : {"post", "cancel", "rebalance", "rotate"}, side : MarketSide,
            id : 0..MaxOrders, size : Nat, market : Market]

PostOrder(s, n, m) ==
    [op |-> "post", side |-> s, id |-> 0, size |-> n, market |-> m]
CancelOrder(s, i, m) ==
    [op |-> "cancel", side |-> s, id |-> i, size |-> 0, market |-> m]
RebalanceTaker(s, n, m) ==
    [op |-> "rebalance", side |-> s, id |-> 0, size |-> n, market |-> m]
MarketRotation(m) ==
    [op |-> "rotate", side |-> "yes", id |-> 0, size |-> 0, market |-> m]

\* V2ExecutorFeedback.  "posted" and "filled" are OrderPosted with already_filled
\* false and true; "ok" is FALSE when CancelResult carries no size_matched and
\* when RebalanceResult is not filled.
Feedback == [kind : {"posted", "filled", "failed", "cancelled", "rebalanced"},
             side : MarketSide, id : 0..MaxOrders, size : Nat, ok : BOOLEAN]

OrderPosted(s, i, n) ==
    [kind |-> "posted", side |-> s, id |-> i, size |-> n, ok |-> TRUE]
OrderFilled(s, i, n) ==
    [kind |-> "filled", side |-> s, id |-> i, size |-> n, ok |-> TRUE]
OrderFailed(s) ==
    [kind |-> "failed", side |-> s, id |-> 0, size |-> 0, ok |-> FALSE]
CancelResult(s, i, n, known) ==
    [kind |-> "cancelled", side |-> s, id |-> i, size |-> n, ok |-> known]
\* RebalanceResult names no order: its id here only feeds the ghost "counted".
RebalanceResult(s, i, n, filled) ==
    [kind |-> "rebalanced", side |-> s, id |-> i, size |-> n, ok |-> filled]

\* f[s] for each side s of S, YES before NO: the order in which the engine
\* treats the two sides everywhere.
OnSides(S, f) == (IF "yes" \in S THEN <<f["yes"]>> ELSE <<>>)
                 \o (IF "no" \in S THEN <<f["no"]>> ELSE <<>>)

Least(a, b) == IF a <= b THEN a ELSE b
Greatest(a, b) == IF a >= b THEN a ELSE b
=============================================================================
