----------------------------- MODULE TradingBot -----------------------------
(***************************************************************************)
(* The trading core: the strategy engine thread and the executor task over *)
(* their two channels (main.rs), the exchange they trade on, and the user  *)
(* WebSocket that reports fills to the engine in its own time.             *)
(***************************************************************************)
EXTENDS StrategyEngine, LiveExecutor

vars == <<channelVars, clob, executorVars, engineVars>>

TypeOK == /\ cmdq \in Seq(Command)
          /\ fbq \in Seq(Feedback)
          /\ ClobTypeOK
          /\ ExecutorTypeOK
          /\ EngineTypeOK

Init == /\ cmdq = <<>>
        /\ fbq = <<>>
        /\ ExchangeInit
        /\ ExecutorInit
        /\ EngineInit

\* The user WebSocket reports what was matched at some earlier moment: late,
\* twice, out of order, before the executor's own report, or never.
FillReport == \E i \in Orders : \E cumulative \in 1..clob[i].matched :
                  OnTradeStatusUpdate(i, cumulative)

EngineStep == /\ \/ FeedbackNext \/ EventNext \/ FillReport
                 \/ ControlNext \/ QuoteNext
              /\ UNCHANGED <<clob, executorVars>>

ExecutorStep == /\ pc # "dead"
                /\ ExecutorNext
                /\ UNCHANGED engineVars

ExchangeStep == /\ \E i \in Orders : clob[i].maker /\ Match(i)
                /\ UNCHANGED <<channelVars, executorVars, engineVars>>

\* Half a second after the drain completed, the command listener ends the
\* process whatever the executor is doing.
ProcessExit == /\ pc = "exited"
               /\ pc' = "dead"
               /\ UNCHANGED <<phase, market, book, position, quoter,
                              pending_rebalance, pending_commands, riskVars,
                              counted, channelVars, clob, executorVars>>

Next == EngineStep \/ ExecutorStep \/ ExchangeStep \/ ProcessExit

Spec == Init /\ [][Next]_vars
=============================================================================
