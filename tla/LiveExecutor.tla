---------------------------- MODULE LiveExecutor ----------------------------
(***************************************************************************)
(* The executor task (executor/live.rs): it takes one command at a time    *)
(* from the channel, talks to the exchange, and reports back.  A handler   *)
(* that changes the exchange does so in one step and reports in a later    *)
(* one ("reply"), so that a fill can reach the engine over the user        *)
(* WebSocket before the handler's own report does.                         *)
(***************************************************************************)
EXTENDS Exchange

CONSTANTS
    Faults,     \* calls that may fail: post, cancel, status, cancelAll, prewarm
    FokSlack    \* how far clob_safe_fok_size may move a taker size either way

FaultKind == {"post", "cancel", "status", "cancelAll", "prewarm"}

ASSUME ExecutorAssumption == /\ Faults \subseteq FaultKind
                             /\ FokSlack \in Nat

VARIABLES
    reply,         \* the report the running handler still owes: a sequence of 0 or 1
    caches_warm,   \* the SDK caches of the current market are loaded
    exec_market    \* ghost: the market of the last rotation handled

executorVars == <<reply, caches_warm, exec_market>>

ExecutorTypeOK == /\ reply \in Seq(Feedback) /\ Len(reply) <= 1
                  /\ caches_warm \in BOOLEAN
                  /\ exec_market \in Market

ExecutorInit == /\ reply = <<>>
                /\ caches_warm = FALSE
                /\ exec_market = 0

\* feedback_tx.try_send: a full channel drops the report.
SendFeedback(fb) == fbq' = IF Len(fbq) < ChannelCap THEN Append(fbq, fb) ELSE fbq

\* The executor is idle and op is the next command: take it.
Receive(op) == /\ reply = <<>>
               /\ cmdq # <<>>
               /\ Head(cmdq).op = op
               /\ cmdq' = Tail(cmdq)

\* The handler ends with a report and no change to the exchange.
Answer(fb) == /\ SendFeedback(fb)
              /\ UNCHANGED <<clob, executorVars>>

\* The handler has changed the exchange and still owes its report.
Owe(fb) == /\ reply' = <<fb>>
           /\ UNCHANGED <<fbq, caches_warm, exec_market>>

PostAccepted == LET c == Head(cmdq) IN
    /\ Receive("post") /\ caches_warm /\ RoomForOrder
    /\ Accept(c.side, c.size, 0, c.market, TRUE)
    /\ Owe(OrderPosted(c.side, NextId, c.size))

\* The exchange reports status "matched" although the order is post-only.
PostFilled == LET c == Head(cmdq) IN
    /\ Receive("post") /\ caches_warm /\ RoomForOrder
    /\ Accept(c.side, c.size, c.size, c.market, TRUE)
    /\ Owe(OrderFilled(c.side, NextId, c.size))

\* Caches cold, or the order crosses the book.
PostRejected == /\ Receive("post")
                /\ Answer(OrderFailed(Head(cmdq).side))

\* The request fails after the exchange accepted the order.
PostErrored == LET c == Head(cmdq) IN
    /\ "post" \in Faults
    /\ Receive("post") /\ caches_warm /\ RoomForOrder
    /\ Accept(c.side, c.size, 0, c.market, TRUE)
    /\ Owe(OrderFailed(c.side))

\* handle_cancel, first call: whether it succeeds is only logged.
HandleCancel == LET c == Head(cmdq) IN
    /\ Receive("cancel")
    /\ \/ Cancel(c.id)
       \/ "cancel" \in Faults /\ UNCHANGED clob
    /\ Owe(CancelResult(c.side, c.id, 0, FALSE))

\* handle_cancel, second call: the fill size the exchange reports by then.
CancelStatus ==
    /\ reply # <<>> /\ Head(reply).kind = "cancelled"
    /\ LET r == Head(reply) IN
       \/ SendFeedback(CancelResult(r.side, r.id, clob[r.id].matched, TRUE))
       \/ "status" \in Faults /\ SendFeedback(r)
    /\ reply' = <<>>
    /\ UNCHANGED <<cmdq, clob, caches_warm, exec_market>>

\* Any other handler sends the report it owes.
Reply ==
    /\ reply # <<>> /\ Head(reply).kind # "cancelled"
    /\ SendFeedback(Head(reply))
    /\ reply' = <<>>
    /\ UNCHANGED <<cmdq, clob, caches_warm, exec_market>>

\* handle_rebalance_taker fills the whole FOK, at the size the CLOB accepts.
TakerFilled == LET c == Head(cmdq) IN
    /\ Receive("rebalance") /\ caches_warm /\ RoomForOrder
    /\ \E n \in (c.size - FokSlack)..(c.size + FokSlack) :
          /\ n > 0
          /\ Accept(c.side, n, n, c.market, FALSE)
          /\ Owe(RebalanceResult(c.side, NextId, n, TRUE))

\* Caches cold, no valid size, killed by the exchange, or a failed request.
TakerKilled == LET c == Head(cmdq) IN
    /\ Receive("rebalance")
    /\ Answer(RebalanceResult(c.side, 0, 0, FALSE))

\* The request fails after the exchange filled the FOK.
TakerErrored == LET c == Head(cmdq) IN
    /\ "post" \in Faults
    /\ Receive("rebalance") /\ caches_warm /\ RoomForOrder
    /\ Accept(c.side, c.size, c.size, c.market, FALSE)
    /\ Owe(RebalanceResult(c.side, 0, 0, FALSE))

\* Mutant: the outgoing market's orders are left alone.
RotateWithoutCancel ==
    /\ Receive("rotate")
    /\ caches_warm' = TRUE
    /\ exec_market' = Head(cmdq).market
    /\ UNCHANGED <<clob, fbq, reply>>

\* on_market_rotation: a failed cancel_all is only logged; trading stays
\* blocked for the whole market when a cache fails to load.
Rotate ==
    /\ Receive("rotate")
    /\ \/ CancelAll
       \/ "cancelAll" \in Faults /\ UNCHANGED clob
    /\ \/ caches_warm' = TRUE
       \/ "prewarm" \in Faults /\ caches_warm' = FALSE
    /\ exec_market' = Head(cmdq).market
    /\ UNCHANGED <<fbq, reply>>

ExecutorNext ==
    \/ PostAccepted \/ PostFilled \/ PostRejected \/ PostErrored
    \/ HandleCancel \/ CancelStatus \/ Reply
    \/ TakerFilled \/ TakerKilled \/ TakerErrored
    \/ Rotate
=============================================================================
