-------------------------- MODULE TradingBotProofs --------------------------
(***************************************************************************)
(* The trading core, for every value of the constants: the sizes of the    *)
(* orders, type correctness, and that rotation is safe.                    *)
(***************************************************************************)
EXTENDS TradingBot, TradingBotProps, SetProofs

-----------------------------------------------------------------------------
(* What the two loops of quoter.rs compute, for every configuration: the   *)
(* recursive functions of Sizing are well-defined, every batch is a        *)
(* positive number of shares, and so is every order until the cap.         *)
(*                                                                         *)
(* The inductions are by minimal counterexample.                           *)

Halved(n) == IF n \div 2 >= MinOrderSize THEN n \div 2 ELSE MinOrderSize

\* f is the sequence of sizes of the loop's first n iterations.
IsBatchSizes(f, n) == /\ f \in [0..n -> Nat \ {0}]
                      /\ f[0] = MaxOrderSize
                      /\ \A k \in 1..n : f[k] = Halved(f[k - 1])

\* f is the sequence of totals of the loop's first n iterations.
IsBatchTotals(f, n) == /\ f \in [0..n -> Nat]
                       /\ f[0] = 0
                       /\ \A k \in 1..n : f[k] = f[k - 1] + BatchSize[k - 1]

LEMMA HalvedPositive == \A n \in Nat : Halved(n) \in Nat \ {0}
  BY SizingAssumption DEF Halved

\* The first loop can run for any number of iterations.
LEMMA BatchSizesExist == \A n \in Nat : \E f : IsBatchSizes(f, n)
  <1> DEFINE T == {n \in Nat : ~ \E f : IsBatchSizes(f, n)}
  <1> SUFFICES ASSUME T # {} PROVE FALSE
    OBVIOUS
  <1>1. PICK n \in T : \A m \in T : n <= m
    BY NatMinimum
  <1>2. CASE n = 0
    <2>1. IsBatchSizes([k \in 0..0 |-> MaxOrderSize], 0)
      BY SizingAssumption DEF IsBatchSizes
    <2> QED
      BY <1>2, <2>1
  <1>3. CASE n # 0
    <2>1. n \in Nat /\ n - 1 \in Nat /\ n - 1 \notin T
      BY <1>1, <1>3
    <2>2. PICK f : IsBatchSizes(f, n - 1)
      BY <2>1
    <2> DEFINE g == [k \in 0..n |-> IF k = n THEN Halved(f[n - 1]) ELSE f[k]]
    <2>3. Halved(f[n - 1]) \in Nat \ {0}
      BY <2>1, <2>2, HalvedPositive DEF IsBatchSizes
    <2>4. g \in [0..n -> Nat \ {0}]
      BY <2>1, <2>2, <2>3 DEF IsBatchSizes
    <2>5. g[0] = MaxOrderSize
      BY <2>1, <2>2, <1>3 DEF IsBatchSizes
    <2>6. ASSUME NEW k \in 1..n
          PROVE  g[k] = Halved(g[k - 1])
      <3>1. g[k - 1] = f[k - 1]
        BY <2>1
      <3>2. CASE k = n
        BY <2>1, <3>1, <3>2
      <3>3. CASE k # n
        <4>1. k \in 1..(n - 1) /\ g[k] = f[k]
          BY <2>1, <3>3
        <4> QED
          BY <2>2, <3>1, <4>1 DEF IsBatchSizes
      <3> QED
        BY <3>2, <3>3
    <2> QED
      BY <2>4, <2>5, <2>6 DEF IsBatchSizes
  <1> QED
    BY <1>2, <1>3

\* The recursive definition has the value it says it has.
LEMMA BatchSizeRec ==
    BatchSize = [k \in 0..MaxBatches |->
                   IF k = 0 THEN MaxOrderSize
                   ELSE IF BatchSize[k - 1] \div 2 >= MinOrderSize
                        THEN BatchSize[k - 1] \div 2
                        ELSE MinOrderSize]
  <1>1. PICK f : IsBatchSizes(f, MaxBatches)
    BY BatchSizesExist, SizingAssumption
  <1>2. f = [k \in 0..MaxBatches |->
               IF k = 0 THEN MaxOrderSize
               ELSE IF f[k - 1] \div 2 >= MinOrderSize
                    THEN f[k - 1] \div 2
                    ELSE MinOrderSize]
    BY <1>1, SizingAssumption DEF IsBatchSizes, Halved
  <1> QED
    BY <1>2, Zenon DEF BatchSize

\* Every batch is a positive number of shares.
LEMMA BatchSizeType == BatchSize \in [0..MaxBatches -> Nat \ {0}]
  <1> DEFINE T == {n \in 0..MaxBatches : BatchSize[n] \notin Nat \ {0}}
  <1>1. \A k \in 0..MaxBatches :
           BatchSize[k] = IF k = 0 THEN MaxOrderSize ELSE Halved(BatchSize[k - 1])
    BY BatchSizeRec DEF Halved
  <1>2. T = {}
    <2> SUFFICES ASSUME T # {} PROVE FALSE
      OBVIOUS
    <2>1. PICK n \in T : \A m \in T : n <= m
      <3>1. T \in SUBSET Nat
        BY SizingAssumption
      <3> HIDE DEF T
      <3> QED
        BY <3>1, NatMinimum
    <2>2. n # 0
      BY <1>1, SizingAssumption
    <2>3. n - 1 \in 0..MaxBatches /\ n - 1 \notin T
      BY <2>1, <2>2, SizingAssumption
    <2> QED
      BY <1>1, <2>2, <2>3, HalvedPositive
  <1> QED
    BY <1>2, BatchSizeRec

\* Halving stays between the configured minimum and maximum.
LEMMA BatchSizeBounds ==
    ASSUME MinOrderSize <= MaxOrderSize
    PROVE  \A k \in 0..MaxBatches : BatchSize[k] \in MinOrderSize..MaxOrderSize
  <1> DEFINE T == {n \in 0..MaxBatches : BatchSize[n] \notin MinOrderSize..MaxOrderSize}
  <1>1. \A k \in 0..MaxBatches :
           BatchSize[k] = IF k = 0 THEN MaxOrderSize ELSE Halved(BatchSize[k - 1])
    BY BatchSizeRec DEF Halved
  <1>2. \A n \in MinOrderSize..MaxOrderSize : Halved(n) \in MinOrderSize..MaxOrderSize
    BY SizingAssumption DEF Halved
  <1> SUFFICES ASSUME T # {} PROVE FALSE
    OBVIOUS
  <1>3. PICK n \in T : \A m \in T : n <= m
    <2>1. T \in SUBSET Nat
      BY SizingAssumption
    <2> HIDE DEF T
    <2> QED
      BY <2>1, NatMinimum
  <1>4. n # 0
    BY <1>1, SizingAssumption
  <1>5. n - 1 \in 0..MaxBatches /\ n - 1 \notin T
    BY <1>3, <1>4, SizingAssumption
  <1> QED
    BY <1>1, <1>2, <1>4, <1>5

\* The second loop can run for as many iterations as there are batches.
LEMMA BatchTotalsExist == \A n \in 0..MaxBatches : \E f : IsBatchTotals(f, n)
  <1> DEFINE T == {n \in 0..MaxBatches : ~ \E f : IsBatchTotals(f, n)}
  <1> SUFFICES ASSUME T # {} PROVE FALSE
    OBVIOUS
  <1>1. PICK n \in T : \A m \in T : n <= m
    <2>1. T \in SUBSET Nat
      BY SizingAssumption
    <2> HIDE DEF T
    <2> QED
      BY <2>1, NatMinimum
  <1>2. CASE n = 0
    <2>1. IsBatchTotals([k \in 0..0 |-> 0], 0)
      BY DEF IsBatchTotals
    <2> QED
      BY <1>2, <2>1
  <1>3. CASE n # 0
    <2>1. n \in 1..MaxBatches /\ n - 1 \in 0..MaxBatches /\ n - 1 \notin T
      BY <1>1, <1>3, SizingAssumption
    <2>2. PICK f : IsBatchTotals(f, n - 1)
      BY <2>1
    <2> DEFINE g == [k \in 0..n |->
                        IF k = n THEN f[n - 1] + BatchSize[n - 1] ELSE f[k]]
    <2>3. g \in [0..n -> Nat]
      <3>1. f[n - 1] \in Nat /\ BatchSize[n - 1] \in Nat
        BY <2>1, <2>2, BatchSizeType, SizingAssumption DEF IsBatchTotals
      <3> QED
        BY <2>1, <2>2, <3>1 DEF IsBatchTotals
    <2>4. g[0] = 0 /\ \A k \in 1..n : g[k] = g[k - 1] + BatchSize[k - 1]
      BY <2>1, <2>2 DEF IsBatchTotals
    <2> QED
      BY <2>3, <2>4 DEF IsBatchTotals
  <1> QED
    BY <1>2, <1>3

LEMMA BatchTotalRec ==
    BatchTotal = [k \in 0..MaxBatches |->
                    IF k = 0 THEN 0 ELSE BatchTotal[k - 1] + BatchSize[k - 1]]
  <1>1. PICK f : IsBatchTotals(f, MaxBatches)
    BY BatchTotalsExist, SizingAssumption
  <1>2. f = [k \in 0..MaxBatches |->
               IF k = 0 THEN 0 ELSE f[k - 1] + BatchSize[k - 1]]
    BY <1>1, SizingAssumption DEF IsBatchTotals
  <1> QED
    BY <1>2, Zenon DEF BatchTotal

LEMMA BatchTotalType == BatchTotal \in [0..MaxBatches -> Nat]
  <1> DEFINE T == {n \in 0..MaxBatches : BatchTotal[n] \notin Nat}
  <1>1. T = {}
    <2> SUFFICES ASSUME T # {} PROVE FALSE
      OBVIOUS
    <2>1. PICK n \in T : \A m \in T : n <= m
      <3>1. T \in SUBSET Nat
        BY SizingAssumption
      <3> HIDE DEF T
      <3> QED
        BY <3>1, NatMinimum
    <2>2. n # 0
      BY BatchTotalRec, SizingAssumption
    <2>3. n - 1 \in 0..MaxBatches /\ n - 1 \notin T
      BY <2>1, <2>2, SizingAssumption
    <2> QED
      BY <2>2, <2>3, BatchTotalRec, BatchSizeType
  <1> QED
    BY <1>1, BatchTotalRec

\* Until a side has its full allowance, the order it may post asks for at
\* least one share, for no more than is left of the allowance, and for no more
\* than the largest order configured (dynamic_order_size, and the cap that
\* follows it in evaluate_side).
THEOREM OrderSizeFits ==
    ASSUME NEW shares \in Nat, shares < MaxTotalShares
    PROVE  /\ OrderSize(shares) \in Nat \ {0}
           /\ shares + OrderSize(shares) <= MaxTotalShares
           /\ MinOrderSize <= MaxOrderSize => OrderSize(shares) <= MaxOrderSize
  <1> DEFINE Batches == 0..(MaxBatches - 1)
             d == DynamicOrderSize(shares)
  <1>1. MaxTotalShares \in Nat
    BY BatchTotalType, SizingAssumption DEF MaxTotalShares
  <1>2. \/ d = MinOrderSize
        \/ \E j \in 0..MaxBatches : d = BatchSize[j]
    <2>1. CASE \E j \in Batches : InBatch(j, shares)
      <3>1. (CHOOSE j \in Batches : InBatch(j, shares)) \in 0..MaxBatches
        BY <2>1, SizingAssumption
      <3> QED
        BY <2>1, <3>1 DEF DynamicOrderSize
    <2>2. CASE ~ \E j \in Batches : InBatch(j, shares)
      BY <2>2 DEF DynamicOrderSize
    <2> QED
      BY <2>1, <2>2
  <1>3. d \in Nat \ {0}
    BY <1>2, BatchSizeType, SizingAssumption
  <1>4. MinOrderSize <= MaxOrderSize => d <= MaxOrderSize
    BY <1>2, BatchSizeBounds, SizingAssumption
  <1> HIDE DEF d
  <1>5. OrderSize(shares) = IF d <= MaxTotalShares - shares THEN d
                            ELSE MaxTotalShares - shares
    BY DEF OrderSize, d
  <1> QED
    BY <1>1, <1>3, <1>4, <1>5, SizingAssumption

-----------------------------------------------------------------------------
(* The vocabulary and the quoter's operators.                              *)

\* The constructors build commands and reports.
LEMMA CommandTypes ==
    ASSUME NEW s \in MarketSide, NEW i \in 0..MaxOrders, NEW n \in Nat, NEW m \in Market
    PROVE  /\ PostOrder(s, n, m) \in Command
           /\ CancelOrder(s, i, m) \in Command
           /\ RebalanceTaker(s, n, m) \in Command
           /\ MarketRotation(m) \in Command
  BY BoundsAssumption
     DEF PostOrder, CancelOrder, RebalanceTaker, MarketRotation, Command, MarketSide

LEMMA FeedbackTypes ==
    ASSUME NEW s \in MarketSide, NEW i \in 0..MaxOrders, NEW n \in Nat, NEW b \in BOOLEAN
    PROVE  /\ OrderPosted(s, i, n) \in Feedback
           /\ OrderFilled(s, i, n) \in Feedback
           /\ OrderFailed(s) \in Feedback
           /\ CancelResult(s, i, n, b) \in Feedback
           /\ RebalanceResult(s, i, n, b) \in Feedback
  BY BoundsAssumption
     DEF OrderPosted, OrderFilled, OrderFailed, CancelResult, RebalanceResult, Feedback

\* A selection of sides yields a sequence of what the function yields on them.
LEMMA OnSidesType ==
    ASSUME NEW T, NEW S, NEW f, \A s \in S \cap MarketSide : f[s] \in T
    PROVE  OnSides(S, f) \in Seq(T)
  BY DEF OnSides, MarketSide

\* A new quoter, and every method of the quoter, yields a quoter.
LEMMA QuoterMethods ==
    ASSUME NEW q \in QuoterState, NEW s \in MarketSide, NEW S
    PROVE  /\ \A i \in 0..MaxOrders, n \in Nat : OnOrderPosted(q, s, i, n) \in QuoterState
           /\ OnOrderFailed(q, s) \in QuoterState
           /\ MarkPostPending(q, S) \in QuoterState
           /\ OnCancelSent(q, S) \in QuoterState
           /\ OnCancelResult(q, s) \in QuoterState
           /\ \A n \in Nat : RecordWsFill(q, s, n) \in QuoterState
           /\ \A b \in BOOLEAN : OnFill(q, s, b) \in QuoterState
  <1> USE BoundsAssumption DEF QuoterState, ManagedOrder, ClearedOrder
  <1>0. Snapshot(q, s) \in ClearedOrder
    BY DEF Snapshot
  <1>1. \A i \in 0..MaxOrders, n \in Nat : OnOrderPosted(q, s, i, n) \in QuoterState
    BY DEF OnOrderPosted
  <1>2. OnOrderFailed(q, s) \in QuoterState
    BY DEF OnOrderFailed
  <1>3. MarkPostPending(q, S) \in QuoterState
    BY DEF MarkPostPending
  <1>4. OnCancelSent(q, S) \in QuoterState
    BY DEF OnCancelSent
  <1>5. OnCancelResult(q, s) \in QuoterState
    <2>1. OnCancelResult(q, s) =
            [q EXCEPT !.last_cleared = [q.last_cleared EXCEPT ![s] = Snapshot(q, s)],
                      !.order = [q.order EXCEPT ![s] = NoOrder],
                      !.pending_cancel = [q.pending_cancel EXCEPT ![s] = FALSE]]
      BY DEF OnCancelResult
    <2>2. [q.order EXCEPT ![s] = NoOrder] \in [MarketSide -> ManagedOrder]
      BY DEF NoOrder
    <2>3. [q.pending_cancel EXCEPT ![s] = FALSE] \in [MarketSide -> BOOLEAN]
      OBVIOUS
    <2>4. [q.last_cleared EXCEPT ![s] = Snapshot(q, s)] \in [MarketSide -> ClearedOrder]
      BY <1>0
    <2> QED
      BY <2>1, <2>2, <2>3, <2>4
  <1>6. \A n \in Nat : RecordWsFill(q, s, n) \in QuoterState
    <2> SUFFICES ASSUME NEW n \in Nat PROVE RecordWsFill(q, s, n) \in QuoterState
      OBVIOUS
    <2> DEFINE o == [q.order[s] EXCEPT !.size_filled = Greatest(@, n)]
    <2>1. o \in ManagedOrder
      BY DEF Greatest
    <2>2. RecordWsFill(q, s, n) = [q EXCEPT !.order = [q.order EXCEPT ![s] = o]]
      BY DEF RecordWsFill
    <2>3. [q.order EXCEPT ![s] = o] \in [MarketSide -> ManagedOrder]
      BY <2>1
    <2> QED
      BY <2>2, <2>3
  <1>7. \A b \in BOOLEAN : OnFill(q, s, b) \in QuoterState
    <2>1. [q EXCEPT !.last_cleared[s] = Snapshot(q, s), !.order[s] = NoOrder] =
            [q EXCEPT !.last_cleared = [q.last_cleared EXCEPT ![s] = Snapshot(q, s)],
                      !.order = [q.order EXCEPT ![s] = NoOrder]]
      OBVIOUS
    <2>2. [q.order EXCEPT ![s] = NoOrder] \in [MarketSide -> ManagedOrder]
      BY DEF NoOrder
    <2>3. [q.last_cleared EXCEPT ![s] = Snapshot(q, s)] \in [MarketSide -> ClearedOrder]
      BY <1>0
    <2> QED
      BY <2>1, <2>2, <2>3 DEF OnFill
  <1> QED
    BY <1>1, <1>2, <1>3, <1>4, <1>5, <1>6, <1>7

LEMMA NewQuoterType == NewQuoter \in QuoterState
  BY BoundsAssumption
     DEF NewQuoter, QuoterState, ManagedOrder, ClearedOrder, NoOrder, NoCleared

-----------------------------------------------------------------------------
(* Order ids.  An id is what the exchange numbered an accepted order with: *)
(* the engine only ever cancels, and the executor only ever asks the       *)
(* status of, an order that exists.  The type invariant is not inductive   *)
(* without it, for a status reads the fill size of that order.             *)

KnownCommand == {c \in Command : c.op = "cancel" => c.id \in Orders}
KnownFeedback ==
    {fb \in Feedback : fb.kind \in {"posted", "cancelled"} => fb.id \in Orders}

IdsKnown ==
    /\ cmdq \in Seq(KnownCommand)
    /\ pending_commands \in Seq(KnownCommand)
    /\ fbq \in Seq(KnownFeedback)
    /\ reply \in Seq(KnownFeedback)
    /\ \A s \in MarketSide : Resting(quoter, s) => quoter.order[s].id \in Orders

IInv == TypeOK /\ IdsKnown

\* The cancels of a quoter that holds known orders are known commands.
LEMMA CancelActionsType ==
    ASSUME NEW q \in QuoterState, NEW S, NEW m \in Market,
           \A s \in MarketSide : Resting(q, s) => q.order[s].id \in Orders
    PROVE  CancelActions(q, S, m) \in Seq(KnownCommand)
  <1> DEFINE f == [s \in MarketSide |-> CancelOrder(s, q.order[s].id, m)]
  <1>1. \A s \in Cancellable(q, S) \cap MarketSide : f[s] \in KnownCommand
    <2> SUFFICES ASSUME NEW s \in Cancellable(q, S) \cap MarketSide
                 PROVE  CancelOrder(s, q.order[s].id, m) \in KnownCommand
      OBVIOUS
    <2>1. q.order[s].id \in 0..MaxOrders
      BY DEF QuoterState, ManagedOrder
    <2>2. q.order[s].id \in Orders
      BY DEF Cancellable
    <2>3. CancelOrder(s, q.order[s].id, m) \in Command
      BY <2>1, CommandTypes
    <2> QED
      BY <2>2, <2>3 DEF KnownCommand, CancelOrder
  <1> HIDE DEF f
  <1>2. OnSides(Cancellable(q, S), f) \in Seq(KnownCommand)
    BY <1>1, OnSidesType
  <1> QED
    BY <1>2 DEF CancelActions, f

\* Known orders stay known.
LEMMA OrdersGrow ==
    ASSUME Len(clob) \in Nat, Len(clob)' \in Nat, Len(clob)' >= Len(clob)
    PROVE  /\ Orders \subseteq Orders'
           /\ \A seq : seq \in Seq(KnownCommand) => seq \in Seq(KnownCommand')
           /\ \A seq : seq \in Seq(KnownFeedback) => seq \in Seq(KnownFeedback')
  <1>1. Orders \subseteq Orders'
    BY DEF Orders
  <1>2. KnownCommand \subseteq KnownCommand'
    BY <1>1 DEF KnownCommand
  <1>3. KnownFeedback \subseteq KnownFeedback'
    BY <1>1 DEF KnownFeedback
  <1> QED
    BY <1>1, <1>2, <1>3

\* Known commands and reports are commands and reports.
LEMMA KnownTypes ==
    /\ \A seq : seq \in Seq(KnownCommand') => seq \in Seq(Command)
    /\ \A seq : seq \in Seq(KnownFeedback') => seq \in Seq(Feedback)
  BY DEF KnownCommand, KnownFeedback

-----------------------------------------------------------------------------
(* The executor.                                                           *)

LEMMA SendFeedbackType ==
    ASSUME fbq \in Seq(KnownFeedback), NEW fb \in KnownFeedback', SendFeedback(fb),
           \A seq : seq \in Seq(KnownFeedback) => seq \in Seq(KnownFeedback')
    PROVE  fbq' \in Seq(KnownFeedback')
  BY DEF SendFeedback

\* What is left to show of an executor action.
ExecutorGoal ==
    /\ cmdq' \in Seq(KnownCommand)
    /\ fbq' \in Seq(KnownFeedback')
    /\ reply' \in Seq(KnownFeedback') /\ Len(reply') <= 1
    /\ clob' \in Seq(Order) /\ Len(clob') <= MaxOrders /\ Len(clob') >= Len(clob)
    /\ caches_warm' \in BOOLEAN
    /\ exec_market' \in Market

LEMMA ExecutorCombine ==
    ASSUME IInv, UNCHANGED engineVars, ExecutorGoal
    PROVE  IInv'
  <1> USE DEF ExecutorGoal
  <1>1. Orders \subseteq Orders' /\ cmdq' \in Seq(KnownCommand')
        /\ pending_commands' \in Seq(KnownCommand')
    BY OrdersGrow DEF IInv, TypeOK, ClobTypeOK, IdsKnown, engineVars
  <1>2. /\ cmdq' \in Seq(Command)
        /\ fbq' \in Seq(Feedback)
        /\ reply' \in Seq(Feedback)
    BY KnownTypes, <1>1
  <1>3. TypeOK'
    BY <1>2 DEF IInv, TypeOK, ClobTypeOK, ExecutorTypeOK, EngineTypeOK, engineVars,
                riskVars
  <1>4. IdsKnown'
    BY <1>1 DEF IInv, IdsKnown, engineVars, Resting
  <1> QED
    BY <1>3, <1>4 DEF IInv

\* The next command is well-typed, and so is what remains.
LEMMA ReceiveType ==
    ASSUME IInv, NEW op, Receive(op)
    PROVE  /\ Head(cmdq) \in KnownCommand
           /\ Head(cmdq) \in Command
           /\ cmdq' \in Seq(KnownCommand)
  BY DEF IInv, IdsKnown, Receive, KnownCommand

\* An accepted order gets the next id.
LEMMA AcceptType ==
    ASSUME IInv, RoomForOrder, NEW c \in Command, NEW n \in Nat, NEW k \in Nat,
           NEW maker \in BOOLEAN, Accept(c.side, n, k, c.market, maker)
    PROVE  /\ clob' \in Seq(Order) /\ Len(clob') <= MaxOrders
           /\ Len(clob') >= Len(clob)
           /\ NextId \in Orders' /\ NextId \in 0..MaxOrders
  <1>1. [side |-> c.side, size |-> n, matched |-> k, live |-> k < n,
         market |-> c.market, maker |-> maker] \in Order
    BY DEF Order, Command
  <1> QED
    BY <1>1, BoundsAssumption
       DEF IInv, TypeOK, ClobTypeOK, Accept, RoomForOrder, NextId, Orders

\* Whatever the executor does keeps ids known and everything well-typed.
LEMMA ExecutorStepInv ==
    ASSUME IInv, ExecutorStep
    PROVE  IInv'
  <1> DEFINE c == Head(cmdq)
  <1>t. /\ fbq \in Seq(KnownFeedback) /\ reply \in Seq(KnownFeedback) /\ Len(reply) <= 1
        /\ cmdq \in Seq(KnownCommand)
        /\ clob \in Seq(Order) /\ Len(clob) <= MaxOrders
        /\ caches_warm \in BOOLEAN /\ exec_market \in Market
    BY DEF IInv, IdsKnown, TypeOK, ClobTypeOK, ExecutorTypeOK
  <1>u. UNCHANGED engineVars
    BY DEF ExecutorStep
  <1> SUFFICES ExecutorGoal
    BY <1>u, ExecutorCombine
  <1>z. 0 \in 0..MaxOrders /\ 0 \in Nat /\ FALSE \in BOOLEAN
    BY BoundsAssumption
  <1>g. ASSUME Len(clob') \in Nat, Len(clob') >= Len(clob)
        PROVE  \A seq : seq \in Seq(KnownFeedback) => seq \in Seq(KnownFeedback')
    BY <1>t, <1>g, OrdersGrow
  <1>s. ASSUME UNCHANGED clob
        PROVE  \A seq : seq \in Seq(KnownFeedback) => seq \in Seq(KnownFeedback')
    BY <1>t, <1>s, OrdersGrow
  \* The two ways a handler's first step ends.
  <1>o. ASSUME NEW op, Receive(op), NEW fb \in KnownFeedback', Owe(fb),
               clob' \in Seq(Order), Len(clob') <= MaxOrders, Len(clob') >= Len(clob)
        PROVE  ExecutorGoal
    <2>1. cmdq' \in Seq(KnownCommand)
      BY <1>o, ReceiveType
    <2>2. reply' \in Seq(KnownFeedback') /\ Len(reply') <= 1
      BY <1>o DEF Owe
    <2>3. fbq' \in Seq(KnownFeedback')
      BY <1>o, <1>g, <1>t DEF Owe
    <2> QED
      BY <2>1, <2>2, <2>3, <1>o, <1>t DEF ExecutorGoal, Owe
  <1>a. ASSUME NEW op, Receive(op), NEW fb \in KnownFeedback', Answer(fb)
        PROVE  ExecutorGoal
    <2>1. cmdq' \in Seq(KnownCommand)
      BY <1>a, ReceiveType
    <2>2. UNCHANGED clob /\ UNCHANGED executorVars /\ SendFeedback(fb)
      BY <1>a DEF Answer
    <2>3. fbq' \in Seq(KnownFeedback')
      BY <2>2, <1>a, <1>s, <1>t, SendFeedbackType
    <2>4. reply' \in Seq(KnownFeedback')
      BY <2>2, <1>s, <1>t DEF executorVars
    <2> QED
      BY <2>1, <2>2, <2>3, <2>4, <1>t DEF ExecutorGoal, executorVars
  <1>1. CASE PostAccepted
    <2>1. /\ Receive("post") /\ RoomForOrder
          /\ Accept(c.side, c.size, 0, c.market, TRUE)
          /\ Owe(OrderPosted(c.side, NextId, c.size))
      BY <1>1 DEF PostAccepted
    <2>2. c \in Command
      BY <2>1, ReceiveType
    <2>3. /\ clob' \in Seq(Order) /\ Len(clob') <= MaxOrders /\ Len(clob') >= Len(clob)
          /\ NextId \in Orders' /\ NextId \in 0..MaxOrders
      BY <2>1, <2>2, AcceptType DEF Command
    <2>4. OrderPosted(c.side, NextId, c.size) \in KnownFeedback'
      BY <2>2, <2>3, FeedbackTypes DEF KnownFeedback, OrderPosted, Command
    <2> QED
      BY <2>1, <2>3, <2>4, <1>o
  <1>2. CASE PostFilled
    <2>1. /\ Receive("post") /\ RoomForOrder
          /\ Accept(c.side, c.size, c.size, c.market, TRUE)
          /\ Owe(OrderFilled(c.side, NextId, c.size))
      BY <1>2 DEF PostFilled
    <2>2. c \in Command
      BY <2>1, ReceiveType
    <2>3. /\ clob' \in Seq(Order) /\ Len(clob') <= MaxOrders /\ Len(clob') >= Len(clob)
          /\ NextId \in Orders' /\ NextId \in 0..MaxOrders
      BY <2>1, <2>2, AcceptType DEF Command
    <2>4. OrderFilled(c.side, NextId, c.size) \in KnownFeedback'
      BY <2>2, <2>3, FeedbackTypes DEF KnownFeedback, OrderFilled, Command
    <2> QED
      BY <2>1, <2>3, <2>4, <1>o
  <1>3. CASE PostRejected
    <2>1. Receive("post") /\ Answer(OrderFailed(c.side))
      BY <1>3 DEF PostRejected
    <2>2. c \in Command
      BY <2>1, ReceiveType
    <2>3. OrderFailed(c.side) \in KnownFeedback'
      BY <2>2, BoundsAssumption, FeedbackTypes DEF KnownFeedback, OrderFailed, Command, Feedback
    <2> QED
      BY <2>1, <2>3, <1>a
  <1>4. CASE PostErrored
    <2>1. /\ Receive("post") /\ RoomForOrder
          /\ Accept(c.side, c.size, 0, c.market, TRUE)
          /\ Owe(OrderFailed(c.side))
      BY <1>4 DEF PostErrored
    <2>2. c \in Command
      BY <2>1, ReceiveType
    <2>3. clob' \in Seq(Order) /\ Len(clob') <= MaxOrders /\ Len(clob') >= Len(clob)
      BY <2>1, <2>2, AcceptType DEF Command
    <2>4. OrderFailed(c.side) \in KnownFeedback'
      BY <2>2, BoundsAssumption, FeedbackTypes DEF KnownFeedback, OrderFailed, Command, Feedback
    <2> QED
      BY <2>1, <2>3, <2>4, <1>o
  <1>5. CASE HandleCancel
    <2>1. /\ Receive("cancel")
          /\ Cancel(c.id) \/ UNCHANGED clob
          /\ Owe(CancelResult(c.side, c.id, 0, FALSE))
      BY <1>5 DEF HandleCancel
    <2>2. c \in KnownCommand /\ c \in Command /\ c.op = "cancel"
      BY <2>1, ReceiveType DEF Receive
    <2>3. /\ clob' \in Seq(Order) /\ Len(clob') = Len(clob)
          /\ Len(clob') <= MaxOrders /\ Len(clob') >= Len(clob)
      <3>1. CASE UNCHANGED clob
        BY <3>1, <1>t
      <3>2. CASE Cancel(c.id)
        <4> DEFINE o == [clob[c.id] EXCEPT !.live = FALSE]
        <4>1. c.id \in 1..Len(clob)
          BY <2>2 DEF KnownCommand, Orders
        <4>2. o \in Order
          <5>1. clob[c.id] \in Order
            BY <4>1, <1>t
          <5> QED
            BY <5>1 DEF Order
        <4>3. clob' = [clob EXCEPT ![c.id] = o]
          BY <3>2 DEF Cancel
        <4> HIDE DEF o
        <4> QED
          BY <4>1, <4>2, <4>3, <1>t
      <3> QED
        BY <2>1, <3>1, <3>2
    <2>4. c.id \in Orders'
      BY <2>2, <2>3 DEF KnownCommand, Orders
    <2>5. CancelResult(c.side, c.id, 0, FALSE) \in KnownFeedback'
      BY <2>2, <2>4, FeedbackTypes DEF KnownFeedback, CancelResult, Command
    <2> QED
      BY <2>1, <2>3, <2>5, <1>o, <1>t
  <1>6. CASE CancelStatus
    <2> DEFINE r == Head(reply)
    <2>1. /\ reply # <<>> /\ r.kind = "cancelled"
          /\ \/ SendFeedback(CancelResult(r.side, r.id, clob[r.id].matched, TRUE))
             \/ SendFeedback(r)
          /\ reply' = <<>>
          /\ UNCHANGED <<cmdq, clob, caches_warm, exec_market>>
      BY <1>6 DEF CancelStatus
    <2>2. r \in KnownFeedback
      BY <2>1, <1>t
    <2>3. r.id \in Orders /\ r.side \in MarketSide /\ r.id \in 0..MaxOrders
      BY <2>1, <2>2 DEF KnownFeedback, Feedback
    <2>4. clob[r.id].matched \in Nat
      <3>1. clob[r.id] \in Order
        BY <2>3, <1>t DEF Orders
      <3> QED
        BY <3>1 DEF Order
    <2>5. Orders' = Orders
      BY <2>1 DEF Orders
    <2>6. CancelResult(r.side, r.id, clob[r.id].matched, TRUE) \in KnownFeedback'
      BY <2>3, <2>4, <2>5, FeedbackTypes DEF KnownFeedback, CancelResult
    <2>7. r \in KnownFeedback'
      BY <2>2, <2>5 DEF KnownFeedback
    <2>8. fbq' \in Seq(KnownFeedback')
      BY <2>1, <2>6, <2>7, <1>s, <1>t, SendFeedbackType
    <2> QED
      BY <2>1, <2>8, <1>t DEF ExecutorGoal
  <1>7. CASE Reply
    <2>1. /\ reply # <<>> /\ SendFeedback(Head(reply)) /\ reply' = <<>>
          /\ UNCHANGED <<cmdq, clob, caches_warm, exec_market>>
      BY <1>7 DEF Reply
    <2>2. Head(reply) \in KnownFeedback'
      BY <2>1, <1>t DEF KnownFeedback, Orders
    <2>3. fbq' \in Seq(KnownFeedback')
      BY <2>1, <2>2, <1>s, <1>t, SendFeedbackType
    <2> QED
      BY <2>1, <2>3, <1>t DEF ExecutorGoal
  <1>8. CASE TakerFilled
    <2>1. PICK n \in (c.size - FokSlack)..(c.size + FokSlack) :
             /\ Receive("rebalance") /\ RoomForOrder
             /\ n > 0
             /\ Accept(c.side, n, n, c.market, FALSE)
             /\ Owe(RebalanceResult(c.side, NextId, n, TRUE))
      BY <1>8 DEF TakerFilled
    <2>2. c \in Command /\ n \in Nat
      BY <2>1, ReceiveType, ExecutorAssumption DEF Command
    <2>3. /\ clob' \in Seq(Order) /\ Len(clob') <= MaxOrders /\ Len(clob') >= Len(clob)
          /\ NextId \in Orders' /\ NextId \in 0..MaxOrders
      BY <2>1, <2>2, AcceptType DEF Command
    <2>4. RebalanceResult(c.side, NextId, n, TRUE) \in KnownFeedback'
      BY <2>2, <2>3, FeedbackTypes DEF KnownFeedback, RebalanceResult, Command
    <2> QED
      BY <2>1, <2>3, <2>4, <1>o
  <1>9. CASE TakerKilled
    <2>1. Receive("rebalance") /\ Answer(RebalanceResult(c.side, 0, 0, FALSE))
      BY <1>9 DEF TakerKilled
    <2>2. c \in Command
      BY <2>1, ReceiveType
    <2>3. RebalanceResult(c.side, 0, 0, FALSE) \in KnownFeedback'
      <3>1. RebalanceResult(c.side, 0, 0, FALSE) \in Feedback
        BY <2>2, <1>z, FeedbackTypes DEF Command
      <3> QED
        BY <3>1 DEF KnownFeedback, RebalanceResult
    <2> QED
      BY <2>1, <2>3, <1>a
  <1>10. CASE TakerErrored
    <2>1. /\ Receive("rebalance") /\ RoomForOrder
          /\ Accept(c.side, c.size, c.size, c.market, FALSE)
          /\ Owe(RebalanceResult(c.side, 0, 0, FALSE))
      BY <1>10 DEF TakerErrored
    <2>2. c \in Command
      BY <2>1, ReceiveType
    <2>3. clob' \in Seq(Order) /\ Len(clob') <= MaxOrders /\ Len(clob') >= Len(clob)
      BY <2>1, <2>2, AcceptType DEF Command
    <2>4. RebalanceResult(c.side, 0, 0, FALSE) \in KnownFeedback'
      <3>1. RebalanceResult(c.side, 0, 0, FALSE) \in Feedback
        BY <2>2, <1>z, FeedbackTypes DEF Command
      <3> QED
        BY <3>1 DEF KnownFeedback, RebalanceResult
    <2> QED
      BY <2>1, <2>3, <2>4, <1>o
  <1>11. CASE Rotate
    <2>1. /\ Receive("rotate")
          /\ CancelAll \/ UNCHANGED clob
          /\ caches_warm' \in BOOLEAN
          /\ exec_market' = c.market
          /\ UNCHANGED <<fbq, reply>>
      BY <1>11 DEF Rotate
    <2>2. c \in Command /\ cmdq' \in Seq(KnownCommand)
      BY <2>1, ReceiveType
    <2>3. clob' \in Seq(Order) /\ Len(clob') = Len(clob)
      <3>1. CASE UNCHANGED clob
        BY <3>1, <1>t
      <3>2. CASE CancelAll
        <4>1. clob' = [i \in 1..Len(clob) |-> [clob[i] EXCEPT !.live = FALSE]]
          BY <3>2 DEF CancelAll, Orders
        <4>2. \A i \in 1..Len(clob) : [clob[i] EXCEPT !.live = FALSE] \in Order
          <5>1. \A o \in Order : [o EXCEPT !.live = FALSE] \in Order
            BY DEF Order
          <5> QED
            BY <5>1, <1>t
        <4> QED
          BY <4>1, <4>2, <1>t
      <3> QED
        BY <2>1, <3>1, <3>2
    <2>4. fbq' \in Seq(KnownFeedback') /\ reply' \in Seq(KnownFeedback')
      BY <2>1, <2>3, <1>g, <1>t
    <2> QED
      BY <2>1, <2>2, <2>3, <2>4, <1>t DEF ExecutorGoal, Command
  <1> QED
    BY <1>1, <1>2, <1>3, <1>4, <1>5, <1>6, <1>7, <1>8, <1>9, <1>10, <1>11
       DEF ExecutorStep, ExecutorNext

-----------------------------------------------------------------------------
(* The engine.                                                             *)

KnownQuoter == {q \in QuoterState :
                   \A s \in MarketSide : Resting(q, s) => q.order[s].id \in Orders}

\* No method of the quoter makes up an order.
LEMMA QuoterKeepsKnown ==
    ASSUME NEW q \in KnownQuoter, NEW s \in MarketSide, NEW S,
           Len(clob) \in Nat, Len(clob) <= MaxOrders
    PROVE  /\ \A i \in Orders, n \in Nat : OnOrderPosted(q, s, i, n) \in KnownQuoter
           /\ OnOrderFailed(q, s) \in KnownQuoter
           /\ MarkPostPending(q, S) \in KnownQuoter
           /\ OnCancelSent(q, S) \in KnownQuoter
           /\ OnCancelResult(q, s) \in KnownQuoter
           /\ \A n \in Nat : RecordWsFill(q, s, n) \in KnownQuoter
           /\ \A b \in BOOLEAN : OnFill(q, s, b) \in KnownQuoter
  <1>q. q \in QuoterState /\ \A t \in MarketSide : q.order[t].id # 0 => q.order[t].id \in Orders
    BY DEF KnownQuoter, Resting
  <1>0. Orders \subseteq 0..MaxOrders
    BY BoundsAssumption DEF Orders
  <1>d. q.order \in [MarketSide -> ManagedOrder]
    BY <1>q DEF QuoterState
  <1>1. \A i \in Orders, n \in Nat : OnOrderPosted(q, s, i, n) \in KnownQuoter
    <2> SUFFICES ASSUME NEW i \in Orders, NEW n \in Nat
                 PROVE  OnOrderPosted(q, s, i, n) \in KnownQuoter
      OBVIOUS
    <2>1. OnOrderPosted(q, s, i, n) \in QuoterState
      BY <1>0, <1>q, QuoterMethods
    <2>2. \A t \in MarketSide : OnOrderPosted(q, s, i, n).order[t].id
                                  = IF t = s THEN i ELSE q.order[t].id
      BY <1>q, <1>d DEF OnOrderPosted, QuoterState
    <2> QED
      BY <2>1, <2>2, <1>q DEF KnownQuoter, Resting
  <1>2. OnOrderFailed(q, s) \in KnownQuoter
    <2>1. OnOrderFailed(q, s).order = q.order
      BY <1>q DEF OnOrderFailed, QuoterState
    <2> QED
      BY <2>1, <1>q, QuoterMethods DEF KnownQuoter, Resting
  <1>3. MarkPostPending(q, S) \in KnownQuoter
    <2>1. MarkPostPending(q, S).order = q.order
      BY <1>q DEF MarkPostPending, QuoterState
    <2> QED
      BY <2>1, <1>q, QuoterMethods DEF KnownQuoter, Resting
  <1>4. OnCancelSent(q, S) \in KnownQuoter
    <2>1. OnCancelSent(q, S).order = q.order
      BY <1>q DEF OnCancelSent, QuoterState
    <2> QED
      BY <2>1, <1>q, QuoterMethods DEF KnownQuoter, Resting
  <1>5. OnCancelResult(q, s) \in KnownQuoter
    <2>1. \A t \in MarketSide : OnCancelResult(q, s).order[t].id
                                  = IF t = s THEN 0 ELSE q.order[t].id
      BY <1>q, <1>d DEF OnCancelResult, QuoterState, NoOrder
    <2> QED
      BY <2>1, <1>q, QuoterMethods DEF KnownQuoter, Resting
  <1>6. \A n \in Nat : RecordWsFill(q, s, n) \in KnownQuoter
    <2> SUFFICES ASSUME NEW n \in Nat PROVE RecordWsFill(q, s, n) \in KnownQuoter
      OBVIOUS
    <2>1. \A t \in MarketSide : RecordWsFill(q, s, n).order[t].id = q.order[t].id
      BY <1>q, <1>d DEF RecordWsFill, QuoterState, ManagedOrder
    <2> QED
      BY <2>1, <1>q, QuoterMethods DEF KnownQuoter, Resting
  <1>7. \A b \in BOOLEAN : OnFill(q, s, b) \in KnownQuoter
    <2> SUFFICES ASSUME NEW b \in BOOLEAN PROVE OnFill(q, s, b) \in KnownQuoter
      OBVIOUS
    <2>1. \A t \in MarketSide : OnFill(q, s, b).order[t].id
                                  = IF b /\ t = s THEN 0 ELSE q.order[t].id
      BY <1>q, <1>d DEF OnFill, QuoterState, NoOrder
    <2> QED
      BY <2>1, <1>q, QuoterMethods DEF KnownQuoter, Resting
  <1> QED
    BY <1>1, <1>2, <1>3, <1>4, <1>5, <1>6, <1>7

\* What is left to show of an engine action.
EngineGoal ==
    /\ cmdq' \in Seq(KnownCommand)
    /\ pending_commands' \in Seq(KnownCommand)
    /\ fbq' \in Seq(KnownFeedback)
    /\ quoter' \in KnownQuoter
    /\ EngineTypeOK'

LEMMA EngineCombine ==
    ASSUME IInv, UNCHANGED <<clob, executorVars>>, EngineGoal
    PROVE  IInv'
  <1>1. KnownCommand' = KnownCommand /\ KnownFeedback' = KnownFeedback /\ Orders' = Orders
    BY DEF KnownCommand, KnownFeedback, Orders
  <1>2. IdsKnown'
    BY <1>1 DEF EngineGoal, KnownQuoter, IInv, IdsKnown, executorVars, Resting
  <1>3. cmdq' \in Seq(Command) /\ fbq' \in Seq(Feedback)
    BY <1>1, KnownTypes DEF EngineGoal
  <1>4. TypeOK'
    BY <1>3 DEF EngineGoal, IInv, TypeOK, ClobTypeOK, ExecutorTypeOK, executorVars
  <1> QED
    BY <1>2, <1>4 DEF IInv

\* What the invariant says of the engine's state.
LEMMA EngineFacts ==
    ASSUME IInv
    PROVE  /\ cmdq \in Seq(KnownCommand)
           /\ pending_commands \in Seq(KnownCommand)
           /\ fbq \in Seq(KnownFeedback)
           /\ quoter \in KnownQuoter
           /\ quoter \in QuoterState
           /\ Len(clob) \in Nat /\ Len(clob) <= MaxOrders
           /\ clob \in Seq(Order)
           /\ EngineTypeOK
  BY DEF IInv, TypeOK, IdsKnown, KnownQuoter, EngineTypeOK, ClobTypeOK

\* Recording a fill keeps the position and the ghost well-typed.
LEMMA RecordFillType ==
    ASSUME EngineTypeOK, NEW s \in MarketSide, NEW i, NEW n \in Nat, RecordFill(s, i, n)
    PROVE  /\ position' \in [MarketSide -> Nat]
           /\ counted' \in [OrderId -> Nat]
  BY DEF EngineTypeOK, RecordFill

\* A report leaves the engine's other state alone.
LEMMA FeedType ==
    ASSUME IInv, NEW kind, Feed(kind)
    PROVE  /\ Head(fbq) \in KnownFeedback
           /\ Head(fbq) \in Feedback
           /\ Head(fbq).kind = kind
           /\ fbq' \in Seq(KnownFeedback)
  BY EngineFacts DEF Feed, KnownFeedback

LEMMA FeedbackStepInv ==
    ASSUME IInv, FeedbackNext, UNCHANGED <<clob, executorVars>>
    PROVE  IInv'
  <1> DEFINE fb == Head(fbq)
  <1> SUFFICES EngineGoal
    BY EngineCombine
  <1>k. ASSUME NEW kind, Feed(kind), quoter' \in KnownQuoter,
               position' \in [MarketSide -> Nat], counted' \in [OrderId -> Nat],
               book' \in [MarketSide -> {"none", "invalid", "updated"}],
               pending_rebalance' \in BOOLEAN
        PROVE  EngineGoal
    <2>1. fbq' \in Seq(KnownFeedback)
      BY <1>k, FeedType
    <2>2. quoter' \in QuoterState
      BY <1>k DEF KnownQuoter
    <2>3. UNCHANGED <<pc, phase, market, pending_commands, riskVars, cmdq>>
      BY <1>k DEF Feed
    <2>4. EngineTypeOK'
      BY <1>k, <2>2, <2>3, EngineFacts DEF EngineTypeOK, riskVars
    <2> QED
      BY <1>k, <2>1, <2>3, <2>4, EngineFacts DEF EngineGoal
  <1>f. /\ position \in [MarketSide -> Nat] /\ counted \in [OrderId -> Nat]
        /\ book \in [MarketSide -> {"none", "invalid", "updated"}]
        /\ pending_rebalance \in BOOLEAN
    BY EngineFacts DEF EngineTypeOK
  <1>1. CASE OnPosted
    <2>1. /\ Feed("posted")
          /\ quoter' = OnOrderPosted(quoter, fb.side, fb.id, fb.size)
          /\ UNCHANGED <<position, counted, book, pending_rebalance>>
      BY <1>1 DEF OnPosted, RecordNothing
    <2>2. fb.side \in MarketSide /\ fb.id \in Orders /\ fb.size \in Nat
      BY <2>1, FeedType DEF KnownFeedback, Feedback
    <2>3. quoter' \in KnownQuoter
      BY <2>1, <2>2, EngineFacts, QuoterKeepsKnown
    <2> QED
      BY <2>1, <2>3, <1>f, <1>k
  <1>2. CASE OnAlreadyFilled
    <2>1. /\ Feed("filled")
          /\ RecordFill(fb.side, fb.id, fb.size)
          /\ quoter' = OnOrderFailed(quoter, fb.side)
          /\ UNCHANGED <<book, pending_rebalance>>
      BY <1>2 DEF OnAlreadyFilled
    <2>2. fb.side \in MarketSide /\ fb.size \in Nat
      BY <2>1, FeedType DEF Feedback
    <2>3. quoter' \in KnownQuoter
      BY <2>1, <2>2, EngineFacts, QuoterKeepsKnown
    <2>4. position' \in [MarketSide -> Nat] /\ counted' \in [OrderId -> Nat]
      BY <2>1, <2>2, EngineFacts, RecordFillType
    <2> QED
      BY <2>1, <2>3, <2>4, <1>f, <1>k
  <1>3. CASE OnFailed
    <2>1. /\ Feed("failed")
          /\ quoter' = OnOrderFailed(quoter, fb.side)
          /\ book' = [book EXCEPT ![fb.side] = IF @ = "none" THEN @ ELSE "invalid"]
          /\ UNCHANGED <<position, counted, pending_rebalance>>
      BY <1>3 DEF OnFailed, RecordNothing
    <2>2. fb.side \in MarketSide
      BY <2>1, FeedType DEF Feedback
    <2>3. quoter' \in KnownQuoter
      BY <2>1, <2>2, EngineFacts, QuoterKeepsKnown
    <2>4. book' \in [MarketSide -> {"none", "invalid", "updated"}]
      BY <2>1, <1>f
    <2> QED
      BY <2>1, <2>3, <2>4, <1>f, <1>k
  <1>4. CASE OnCancelled
    <2>1. /\ Feed("cancelled")
          /\ RecordFill(fb.side, fb.id, CancelDelta(fb))
          /\ quoter' = OnCancelResult(quoter, fb.side)
          /\ UNCHANGED <<book, pending_rebalance>>
      BY <1>4 DEF OnCancelled
    <2>2. fb.side \in MarketSide /\ fb.size \in Nat
      BY <2>1, FeedType DEF Feedback
    <2>3. quoter' \in KnownQuoter
      BY <2>1, <2>2, EngineFacts, QuoterKeepsKnown
    <2>4. CancelDelta(fb) \in Nat
      <3>1. RecordedForCancel(quoter, fb.side, fb.id) \in Nat
        BY <2>2, EngineFacts
           DEF RecordedForCancel, QuoterState, ManagedOrder, ClearedOrder
      <3> QED
        BY <3>1, <2>2 DEF CancelDelta, Greatest
    <2>5. position' \in [MarketSide -> Nat] /\ counted' \in [OrderId -> Nat]
      BY <2>1, <2>2, <2>4, EngineFacts, RecordFillType
    <2> QED
      BY <2>1, <2>3, <2>5, <1>f, <1>k
  <1>5. CASE OnRebalanced
    <2>1. /\ Feed("rebalanced")
          /\ RecordFill(fb.side, fb.id, fb.size) \/ UNCHANGED <<position, counted>>
          /\ pending_rebalance' = FALSE
          /\ UNCHANGED <<book, quoter>>
      BY <1>5 DEF OnRebalanced, RecordNothing
    <2>2. fb.side \in MarketSide /\ fb.size \in Nat
      BY <2>1, FeedType DEF Feedback
    <2>3. position' \in [MarketSide -> Nat] /\ counted' \in [OrderId -> Nat]
      BY <2>1, <2>2, <1>f, EngineFacts, RecordFillType
    <2> QED
      BY <2>1, <2>3, <1>f, <1>k, EngineFacts
  <1> QED
    BY <1>1, <1>2, <1>3, <1>4, <1>5 DEF FeedbackNext

\* An event's commands, and all that were pending, are known commands.
LEMMA DispatchType ==
    ASSUME IInv, NEW pend \in Seq(KnownCommand), Dispatch(pend)
    PROVE  /\ cmdq' \in Seq(KnownCommand)
           /\ pending_commands' \in Seq(KnownCommand)
           /\ fbq' \in Seq(KnownFeedback)
           /\ pc' = "quote"
  <1>1. cmdq \o pending_commands \in Seq(KnownCommand)
    BY EngineFacts
  <1>2. (cmdq \o pending_commands) \o pend \in Seq(KnownCommand)
    BY <1>1
  <1> QED
    BY <1>2, EngineFacts DEF Dispatch

\* An order the quoter holds has a size and a fill count.
LEMMA WsDeltaType ==
    ASSUME NEW q \in QuoterState, NEW s \in MarketSide, NEW n \in Nat
    PROVE  WsDelta(q, s, n) \in Nat
  BY DEF WsDelta, Greatest, QuoterState, ManagedOrder

LEMMA EventStepInv ==
    ASSUME IInv, EventNext \/ FillReport, UNCHANGED <<clob, executorVars>>
    PROVE  IInv'
  <1> SUFFICES EngineGoal
    BY EngineCombine
  <1>f. /\ position \in [MarketSide -> Nat] /\ counted \in [OrderId -> Nat]
        /\ book \in [MarketSide -> {"none", "invalid", "updated"}]
        /\ pending_rebalance \in BOOLEAN /\ quoter \in KnownQuoter
        /\ market \in Market /\ phase \in {"idle", "quiet", "quoting"}
        /\ paused \in BOOLEAN /\ draining \in BOOLEAN
        /\ heartbeat_healthy \in BOOLEAN
        /\ heartbeat_failures \in 0..HeartbeatDeadThreshold
    BY EngineFacts DEF EngineTypeOK
  <1>e. <<>> \in Seq(KnownCommand)
    OBVIOUS
  <1>k. ASSUME NEW pend \in Seq(KnownCommand), Dispatch(pend),
               NEW ph \in {"idle", "quiet", "quoting"}, QuietMayEnd(ph),
               market' \in Market,
               book' \in [MarketSide -> {"none", "invalid", "updated"}],
               position' \in [MarketSide -> Nat], counted' \in [OrderId -> Nat],
               quoter' \in KnownQuoter, pending_rebalance' \in BOOLEAN,
               paused' \in BOOLEAN, draining' \in BOOLEAN,
               heartbeat_healthy' \in BOOLEAN,
               heartbeat_failures' \in 0..HeartbeatDeadThreshold
        PROVE  EngineGoal
    <2>1. /\ cmdq' \in Seq(KnownCommand) /\ pending_commands' \in Seq(KnownCommand)
          /\ fbq' \in Seq(KnownFeedback) /\ pc' = "quote"
      BY <1>k, DispatchType
    <2>2. phase' \in {"idle", "quiet", "quoting"}
      BY <1>k DEF QuietMayEnd
    <2>3. pending_commands' \in Seq(Command)
      BY <2>1 DEF KnownCommand
    <2>4. quoter' \in QuoterState
      BY <1>k DEF KnownQuoter
    <2>5. EngineTypeOK'
      BY <1>k, <2>1, <2>2, <2>3, <2>4 DEF EngineTypeOK
    <2> QED
      BY <1>k, <2>1, <2>5 DEF EngineGoal
  <1>1. CASE OnMarketRotation
    <2>1. /\ market < MaxMarkets /\ market' = market + 1
          /\ book' = [s \in MarketSide |-> "none"]
          /\ position' = [s \in MarketSide |-> 0]
          /\ quoter' = NewQuoter
          /\ pending_rebalance' = FALSE
          /\ QuietMayEnd("quiet")
          /\ Dispatch(<<MarketRotation(market + 1)>>)
          /\ UNCHANGED <<counted, paused, draining, heartbeat_healthy,
                         heartbeat_failures>>
      BY <1>1 DEF OnMarketRotation, riskVars
    <2>2. market + 1 \in Market
      BY <2>1, <1>f, BoundsAssumption DEF Market
    <2>3. MarketRotation(market + 1) \in KnownCommand
      <3>1. MarketRotation(market + 1) \in Command
        BY <2>2, BoundsAssumption, CommandTypes DEF MarketSide
      <3> QED
        BY <3>1 DEF KnownCommand, MarketRotation
    <2>4. <<MarketRotation(market + 1)>> \in Seq(KnownCommand)
      BY <2>3
    <2>5. quoter' \in KnownQuoter
      BY <2>1, NewQuoterType DEF KnownQuoter, NewQuoter, Resting, NoOrder
    <2>6. /\ book' \in [MarketSide -> {"none", "invalid", "updated"}]
          /\ position' \in [MarketSide -> Nat]
      BY <2>1
    <2> QED
      BY <2>1, <2>2, <2>4, <2>5, <2>6, <1>f, <1>k
  <1>2. ASSUME NEW s \in MarketSide, OnBookUpdate(s)
        PROVE  EngineGoal
    <2>1. /\ book' = [book EXCEPT ![s] = "updated"]
          /\ QuietMayEnd(phase)
          /\ Dispatch(<<>>)
          /\ UNCHANGED <<market, position, quoter, pending_rebalance, paused,
                         draining, heartbeat_healthy, heartbeat_failures, counted>>
      BY <1>2 DEF OnBookUpdate, riskVars
    <2>2. book' \in [MarketSide -> {"none", "invalid", "updated"}]
      BY <2>1, <1>f
    <2> QED
      BY <2>1, <2>2, <1>e, <1>f, <1>k
  <1>3. CASE OnHeartbeatOk
    <2>1. /\ heartbeat_healthy' = TRUE /\ heartbeat_failures' = 0
          /\ QuietMayEnd(phase)
          /\ Dispatch(<<>>)
          /\ UNCHANGED <<market, book, position, quoter, pending_rebalance, paused,
                         draining, counted>>
      BY <1>3 DEF OnHeartbeatOk
    <2>2. heartbeat_failures' \in 0..HeartbeatDeadThreshold
      BY <2>1, EngineAssumption
    <2> QED
      BY <2>1, <2>2, <1>e, <1>f, <1>k
  <1>4. CASE OnHeartbeatFailed
    <2>1. /\ heartbeat_failures' = Least(heartbeat_failures + 1, HeartbeatDeadThreshold)
          /\ QuietMayEnd(phase)
          /\ UNCHANGED <<market, book, position, pending_rebalance, paused, draining,
                         counted>>
      BY <1>4 DEF OnHeartbeatFailed
    <2>2. heartbeat_failures' \in 0..HeartbeatDeadThreshold
      BY <2>1, <1>f, EngineAssumption DEF Least
    <2>3. CASE HeartbeatDies
      <3>1. /\ heartbeat_healthy' = FALSE
            /\ quoter' = OnCancelSent(quoter, Cancellable(quoter, MarketSide))
            /\ Dispatch(CancelActions(quoter, MarketSide, market))
        BY <1>4, <2>3 DEF OnHeartbeatFailed
      <3>2. CancelActions(quoter, MarketSide, market) \in Seq(KnownCommand)
        BY <1>f, CancelActionsType DEF KnownQuoter
      <3>3. quoter' \in KnownQuoter
        BY <3>1, EngineFacts, QuoterKeepsKnown DEF MarketSide
      <3> QED
        BY <2>1, <2>2, <3>1, <3>2, <3>3, <1>f, <1>k
    <2>4. CASE ~HeartbeatDies
      <3>1. UNCHANGED <<heartbeat_healthy, quoter>> /\ Dispatch(<<>>)
        BY <1>4, <2>4 DEF OnHeartbeatFailed
      <3> QED
        BY <2>1, <2>2, <3>1, <1>e, <1>f, <1>k
    <2> QED
      BY <2>3, <2>4
  <1>5. CASE OnMarketData
    <2>1. /\ QuietMayEnd(phase)
          /\ Dispatch(<<>>)
          /\ UNCHANGED <<market, book, position, quoter, pending_rebalance, paused,
                         draining, heartbeat_healthy, heartbeat_failures, counted>>
      BY <1>5 DEF OnMarketData, riskVars
    <2> QED
      BY <2>1, <1>e, <1>f, <1>k
  <1>6. ASSUME NEW i \in Orders, NEW n \in 1..clob[i].matched, OnTradeStatusUpdate(i, n)
        PROVE  EngineGoal
    <2>1. n \in Nat
      <3>1. clob[i] \in Order
        BY EngineFacts DEF Orders
      <3> QED
        BY <3>1 DEF Order
    <2>2. /\ QuietMayEnd(phase)
          /\ Dispatch(<<>>)
          /\ UNCHANGED <<market, book, pending_rebalance, paused,
                         draining, heartbeat_healthy, heartbeat_failures>>
      BY <1>6 DEF OnTradeStatusUpdate, riskVars
    <2>3. ASSUME NEW s \in MarketSide,
                 RecordFill(s, i, WsDelta(quoter, s, n)),
                 quoter' = IF WsDelta(quoter, s, n) = 0 THEN quoter
                           ELSE OnFill(RecordWsFill(quoter, s, n), s,
                                       n >= quoter.order[s].size)
          PROVE  EngineGoal
      <3>1. position' \in [MarketSide -> Nat] /\ counted' \in [OrderId -> Nat]
        BY <2>1, <2>3, EngineFacts, WsDeltaType, RecordFillType
      <3>2. RecordWsFill(quoter, s, n) \in KnownQuoter
        BY <2>1, EngineFacts, QuoterKeepsKnown
      <3>3. OnFill(RecordWsFill(quoter, s, n), s, n >= quoter.order[s].size)
              \in KnownQuoter
        <4>1. (n >= quoter.order[s].size) \in BOOLEAN
          OBVIOUS
        <4> QED
          BY <3>2, <4>1, EngineFacts, QuoterKeepsKnown
      <3>4. quoter' \in KnownQuoter
        BY <2>3, <3>3, <1>f
      <3> QED
        BY <2>2, <3>1, <3>4, <1>e, <1>f, <1>k
    <2>4. CASE UNCHANGED <<position, counted, quoter>>
      BY <2>2, <2>4, <1>e, <1>f, <1>k
    <2> QED
      BY <1>6, <2>3, <2>4 DEF OnTradeStatusUpdate, RecordNothing
  <1> QED
    BY <1>1, <1>2, <1>3, <1>4, <1>5, <1>6 DEF EventNext, FillReport

LEMMA ControlStepInv ==
    ASSUME IInv, ControlNext, UNCHANGED <<clob, executorVars>>
    PROVE  IInv'
  <1> SUFFICES EngineGoal
    BY EngineCombine
  <1>1. CASE OnDrain
    BY <1>1, EngineFacts DEF OnDrain, EngineGoal, EngineTypeOK, channelVars
  <1>2. CASE OnResume
    BY <1>2, EngineFacts DEF OnResume, EngineGoal, EngineTypeOK, channelVars
  <1>3. CASE OnPause
    <2>1. /\ paused' = TRUE
          /\ quoter' = OnCancelSent(quoter, Cancellable(quoter, MarketSide))
          /\ cmdq' = cmdq \o CancelActions(quoter, MarketSide, market)
          /\ UNCHANGED <<pc, phase, market, book, position, pending_rebalance,
                         pending_commands, draining, heartbeat_healthy,
                         heartbeat_failures, counted, fbq>>
      BY <1>3 DEF OnPause
    <2>2. quoter' \in KnownQuoter
      BY <2>1, EngineFacts, QuoterKeepsKnown DEF MarketSide
    <2>3. CancelActions(quoter, MarketSide, market) \in Seq(KnownCommand)
      BY EngineFacts, CancelActionsType DEF KnownQuoter, EngineTypeOK
    <2>4. cmdq' \in Seq(KnownCommand)
      BY <2>1, <2>3, EngineFacts
    <2>5. EngineTypeOK'
      BY <2>1, <2>2, EngineFacts DEF EngineTypeOK, KnownQuoter
    <2> QED
      BY <2>1, <2>2, <2>4, <2>5, EngineFacts DEF EngineGoal
  <1> QED
    BY <1>1, <1>2, <1>3 DEF ControlNext

\* The end of an iteration, whatever it sent.
LEMMA EndIterationType ==
    ASSUME IInv, NEW cmds \in Seq(KnownCommand), EndIteration(cmds),
           quoter' \in KnownQuoter, pending_rebalance' \in BOOLEAN,
           pending_commands' \in Seq(KnownCommand)
    PROVE  EngineGoal
  <1>1. /\ cmdq' = cmdq \o cmds
        /\ pc' \in {"exited", "recv"}
        /\ UNCHANGED <<phase, market, book, position, paused, draining,
                       heartbeat_healthy, heartbeat_failures, counted, fbq>>
    BY DEF EndIteration, riskVars
  <1>2. cmdq' \in Seq(KnownCommand)
    BY <1>1, EngineFacts
  <1>3. pending_commands' \in Seq(Command)
    BY DEF KnownCommand
  <1>4. EngineTypeOK'
    BY <1>1, <1>3, EngineFacts DEF EngineTypeOK, KnownQuoter
  <1> QED
    BY <1>1, <1>2, <1>4, EngineFacts DEF EngineGoal

\* The taker hedge, or none, at the end of quote_tick.
LEMMA FinishQuotingType ==
    ASSUME IInv, NEW q \in KnownQuoter, NEW cmds \in Seq(KnownCommand),
           FinishQuoting(q, cmds), pending_commands' \in Seq(KnownCommand)
    PROVE  EngineGoal
  <1>1. CASE NoRebalance(q, cmds)
    <2>1. quoter' \in KnownQuoter /\ pending_rebalance' \in BOOLEAN /\ EndIteration(cmds)
      BY <1>1, EngineFacts DEF NoRebalance, EngineTypeOK
    <2> QED
      BY <2>1, EndIterationType
  <1>2. ASSUME NEW s \in MarketSide, Rebalance(q, s, cmds)
        PROVE  EngineGoal
    <2> DEFINE n == Greatest(Least(RebalanceSize, Imbalance), ClobMin)
               taker == RebalanceTaker(s, n, market)
               cancels == CancelActions(q, {s}, market)
    <2>1. market \in Market /\ position \in [MarketSide -> Nat]
      BY EngineFacts DEF EngineTypeOK
    <2>2. n \in Nat
      <3>1. Unpaired("yes") \in Nat /\ Unpaired("no") \in Nat
        BY <2>1 DEF Unpaired, Greatest, Other, MarketSide
      <3>2. Imbalance \in Nat
        BY <3>1 DEF Imbalance, Greatest
      <3> QED
        BY <3>2, EngineAssumption DEF Least, Greatest
    <2>3. taker \in KnownCommand
      <3>1. RebalanceTaker(s, n, market) \in Command
        BY <2>1, <2>2, BoundsAssumption, CommandTypes
      <3> QED
        BY <3>1 DEF KnownCommand, RebalanceTaker
    <2>4. cancels \in Seq(KnownCommand)
      BY <2>1, CancelActionsType DEF KnownQuoter
    <2>5. /\ quoter' = OnCancelSent(q, Cancellable(q, {s}))
          /\ pending_rebalance' = TRUE
          /\ EndIteration(cmds \o cancels \o <<taker>>)
      BY <1>2 DEF Rebalance
    <2>6. quoter' \in KnownQuoter
      BY <2>5, EngineFacts, QuoterKeepsKnown
    <2> HIDE DEF taker, cancels
    <2>7. cmds \o cancels \o <<taker>> \in Seq(KnownCommand)
      BY <2>3, <2>4
    <2> QED
      BY <2>5, <2>6, <2>7, EndIterationType
  <1> QED
    BY <1>1, <1>2 DEF FinishQuoting

\* The maker actions of sides that may act are known commands.
LEMMA MakerActionsType ==
    ASSUME IInv, NEW act \in SUBSET MarketSide, \A s \in act : MayAct(s)
    PROVE  MakerActions(act) \in Seq(KnownCommand)
  <1>f. /\ position \in [MarketSide -> Nat] /\ market \in Market
        /\ quoter \in QuoterState
        /\ \A s \in MarketSide : Resting(quoter, s) => quoter.order[s].id \in Orders
    BY EngineFacts DEF EngineTypeOK, KnownQuoter
  <1> DEFINE f == [s \in MarketSide |->
                     IF Resting(quoter, s)
                     THEN CancelOrder(s, quoter.order[s].id, market)
                     ELSE PostOrder(s, OrderSize(position[s]), market)]
  <1>1. ASSUME NEW s \in act \cap MarketSide
        PROVE  f[s] \in KnownCommand
    <2>1. CASE Resting(quoter, s)
      <3>1. quoter.order[s].id \in Orders /\ quoter.order[s].id \in 0..MaxOrders
        BY <2>1, <1>f DEF QuoterState, ManagedOrder
      <3>2. CancelOrder(s, quoter.order[s].id, market) \in Command
        BY <3>1, <1>f, CommandTypes
      <3>3. CancelOrder(s, quoter.order[s].id, market) \in KnownCommand
        BY <3>1, <3>2 DEF KnownCommand, CancelOrder
      <3> QED
        BY <2>1, <3>3
    <2>2. CASE ~Resting(quoter, s)
      <3>1. position[s] \in Nat /\ position[s] < MaxTotalShares
        BY <1>f DEF MayAct
      <3>2. OrderSize(position[s]) \in Nat
        BY <3>1, OrderSizeFits
      <3>3. PostOrder(s, OrderSize(position[s]), market) \in Command
        BY <3>2, <1>f, BoundsAssumption, CommandTypes
      <3>4. PostOrder(s, OrderSize(position[s]), market) \in KnownCommand
        BY <3>3 DEF KnownCommand, PostOrder
      <3> QED
        BY <2>2, <3>4
    <2> QED
      BY <2>1, <2>2
  <1> HIDE DEF f
  <1>2. OnSides(act, f) \in Seq(KnownCommand)
    BY <1>1, OnSidesType
  <1> QED
    BY <1>2 DEF MakerActions, f

LEMMA QuoteStepInv ==
    ASSUME IInv, QuoteNext, UNCHANGED <<clob, executorVars>>
    PROVE  IInv'
  <1> SUFFICES EngineGoal
    BY EngineCombine
  <1>e. <<>> \in Seq(KnownCommand)
    OBVIOUS
  <1>f. /\ quoter \in KnownQuoter /\ market \in Market
        /\ pending_commands \in Seq(KnownCommand)
        /\ pending_rebalance \in BOOLEAN
    BY EngineFacts DEF EngineTypeOK
  <1>y. "yes" \in MarketSide
    BY DEF MarketSide
  <1>1. CASE QuoteNothing
    <2>1. FinishQuoting(quoter, <<>>) /\ UNCHANGED pending_commands
      BY <1>1 DEF QuoteNothing, FinishQuoting
    <2> QED
      BY <2>1, <1>e, <1>f, FinishQuotingType
  <1>2. CASE QuoteDark
    <2> DEFINE q == OnCancelSent(quoter, Cancellable(quoter, MarketSide))
               cancels == CancelActions(quoter, MarketSide, market)
    <2>1. FinishQuoting(q, <<>>) /\ pending_commands' = pending_commands \o cancels
      BY <1>2 DEF QuoteDark
    <2>2. q \in KnownQuoter
      BY <1>y, EngineFacts, QuoterKeepsKnown
    <2>3. cancels \in Seq(KnownCommand)
      BY <1>f, CancelActionsType DEF KnownQuoter
    <2> HIDE DEF q, cancels
    <2>4. pending_commands' \in Seq(KnownCommand)
      BY <2>1, <2>3, <1>f
    <2> QED
      BY <2>1, <2>2, <2>4, <1>e, FinishQuotingType
  <1>3. ASSUME NEW postable \in Postable, QuoteZone(postable)
        PROVE  EngineGoal
    <2> DEFINE S == MarketSide \ postable
    <2>1. /\ quoter' = OnCancelSent(quoter, Cancellable(quoter, S))
          /\ EndIteration(CancelActions(quoter, S, market))
          /\ UNCHANGED <<pending_rebalance, pending_commands>>
      BY <1>3 DEF QuoteZone
    <2>2. quoter' \in KnownQuoter
      BY <2>1, <1>y, EngineFacts, QuoterKeepsKnown
    <2>3. CancelActions(quoter, S, market) \in Seq(KnownCommand)
      BY <1>f, CancelActionsType DEF KnownQuoter
    <2> QED
      BY <2>1, <2>2, <2>3, <1>f, EndIterationType
  <1>4. ASSUME NEW postable \in Postable, QuoteMakers(postable)
        PROVE  EngineGoal
    <2>1. PICK act \in SUBSET {s \in postable :
                                  MayAct(s) /\ ~(Lagging(s) /\ TakerWillHandle)} :
             FinishQuoting(OnCancelSent(MarkPostPending(quoter, Posts(act)),
                                        Requotes(act)),
                           MakerActions(act))
      BY <1>4 DEF QuoteMakers
    <2>2. act \in SUBSET MarketSide /\ \A s \in act : MayAct(s)
      BY DEF Postable
    <2>3. MakerActions(act) \in Seq(KnownCommand)
      BY <2>2, MakerActionsType
    <2>4. OnCancelSent(MarkPostPending(quoter, Posts(act)), Requotes(act)) \in KnownQuoter
      <3>1. MarkPostPending(quoter, Posts(act)) \in KnownQuoter
        BY <1>y, EngineFacts, QuoterKeepsKnown
      <3> QED
        BY <3>1, <1>y, EngineFacts, QuoterKeepsKnown
    <2>5. pending_commands' \in Seq(KnownCommand)
      BY <1>4, <1>f DEF QuoteMakers
    <2> QED
      BY <2>1, <2>3, <2>4, <2>5, FinishQuotingType
  <1> QED
    BY <1>1, <1>2, <1>3, <1>4 DEF QuoteNext

-----------------------------------------------------------------------------
(* The exchange, the end of the process, and the theorem.                  *)

LEMMA ExchangeStepInv ==
    ASSUME IInv, ExchangeStep
    PROVE  IInv'
  <1>1. PICK i \in Orders : Match(i)
    BY DEF ExchangeStep
  <1>2. UNCHANGED <<cmdq, fbq, reply, caches_warm, exec_market, engineVars>>
    BY DEF ExchangeStep, channelVars, executorVars
  <1>3. clob \in Seq(Order) /\ Len(clob) <= MaxOrders /\ clob[i] \in Order
    BY EngineFacts DEF Orders
  <1> DEFINE n == clob[i].matched + 1
             b == n < clob[i].size
             o == [clob[i] EXCEPT !.matched = n, !.live = b]
  <1>4. o \in Order
    <2>1. n \in Nat /\ b \in BOOLEAN
      BY <1>3 DEF Order
    <2> HIDE DEF n, b
    <2> QED
      BY <1>3, <2>1 DEF Order
  <1>5. clob' = [clob EXCEPT ![i] = o]
    <2>1. i \in DOMAIN clob
      BY <1>3 DEF Orders
    <2> QED
      BY <1>1, <2>1 DEF Match
  <1> HIDE DEF n, b, o
  <1>6. clob' \in Seq(Order) /\ Len(clob') = Len(clob)
    <2>1. i \in 1..Len(clob)
      BY DEF Orders
    <2> QED
      BY <2>1, <1>3, <1>4, <1>5
  <1>7. Orders' = Orders
    BY <1>6 DEF Orders
  <1>8. KnownCommand' = KnownCommand /\ KnownFeedback' = KnownFeedback
    BY <1>7 DEF KnownCommand, KnownFeedback
  <1>9. TypeOK'
    BY <1>2, <1>3, <1>6
       DEF IInv, TypeOK, ClobTypeOK, ExecutorTypeOK, EngineTypeOK, engineVars, riskVars
  <1>10. IdsKnown'
    BY <1>2, <1>7, <1>8 DEF IInv, IdsKnown, engineVars, Resting
  <1> QED
    BY <1>9, <1>10 DEF IInv

LEMMA ProcessExitInv ==
    ASSUME IInv, ProcessExit
    PROVE  IInv'
  <1> SUFFICES EngineGoal
    BY EngineCombine DEF ProcessExit
  <1> QED
    BY EngineFacts DEF ProcessExit, EngineGoal, EngineTypeOK, riskVars, channelVars

LEMMA StutterInv ==
    ASSUME IInv, UNCHANGED vars
    PROVE  IInv'
  BY DEF IInv, TypeOK, IdsKnown, ClobTypeOK, ExecutorTypeOK, EngineTypeOK, vars,
         channelVars, executorVars, engineVars, riskVars, KnownCommand, KnownFeedback,
         Orders, Resting

LEMMA InitInv == Init => IInv
  <1> SUFFICES ASSUME Init PROVE IInv
    OBVIOUS
  <1> USE DEF Init, ExchangeInit, ExecutorInit, EngineInit
  <1>0. 0 \in Market /\ 0 \in 0..HeartbeatDeadThreshold
    BY BoundsAssumption, EngineAssumption DEF Market
  <1>1. EngineTypeOK
    <2>1. /\ [s \in MarketSide |-> "none"]
               \in [MarketSide -> {"none", "invalid", "updated"}]
          /\ [s \in MarketSide |-> 0] \in [MarketSide -> Nat]
          /\ [i \in OrderId |-> 0] \in [OrderId -> Nat]
      OBVIOUS
    <2>2. pending_commands \in Seq(Command)
      OBVIOUS
    <2> QED
      BY <1>0, <2>1, <2>2, NewQuoterType DEF EngineTypeOK
  <1>3. ExecutorTypeOK
    <2>1. reply \in Seq(Feedback) /\ Len(reply) <= 1
      OBVIOUS
    <2> QED
      BY <1>0, <2>1 DEF ExecutorTypeOK
  <1>4. ClobTypeOK
    BY BoundsAssumption DEF ClobTypeOK
  <1>5. TypeOK
    BY <1>1, <1>3, <1>4 DEF TypeOK
  <1>2. IdsKnown
    BY DEF IdsKnown, NewQuoter, Resting, NoOrder
  <1> QED
    BY <1>2, <1>5 DEF IInv

LEMMA NextInv ==
    ASSUME IInv, [Next]_vars
    PROVE  IInv'
  <1>1. CASE EngineStep
    BY <1>1, FeedbackStepInv, EventStepInv, ControlStepInv, QuoteStepInv DEF EngineStep
  <1>2. CASE ExecutorStep
    BY <1>2, ExecutorStepInv
  <1>3. CASE ExchangeStep
    BY <1>3, ExchangeStepInv
  <1>4. CASE ProcessExit
    BY <1>4, ProcessExitInv
  <1>5. CASE UNCHANGED vars
    BY <1>5, StutterInv
  <1> QED
    BY <1>1, <1>2, <1>3, <1>4, <1>5 DEF Next

\* Every state is well-typed, and every order id that the engine, the executor
\* or a queue holds names an order the exchange has accepted: nothing is ever
\* cancelled, and no status asked, of an order that does not exist.
THEOREM IdsAlwaysKnown == Spec => []IInv
  BY InitInv, NextInv, PTL DEF Spec

\* The trading core is well-typed for every configuration, every number of
\* orders and markets and every set of failing calls; in particular a recorded
\* position never goes negative and the heartbeat count never passes its
\* threshold.
THEOREM TypeCorrect == Spec => []TypeOK
  <1>1. IInv => TypeOK
    BY DEF IInv
  <1> QED
    BY <1>1, IdsAlwaysKnown, PTL

-----------------------------------------------------------------------------
(* Rotation: whatever the engine queues, however far it runs ahead of the  *)
(* executor, an order is placed in the market whose rotation the executor  *)
(* handled last, and no order of an earlier market survives a rotation     *)
(* whose cancel_all succeeds.                                              *)

\* The commands the engine may send while m is its market.
Local(m) == {c \in Command : c.op # "rotate" /\ c.market = m}

\* Read from its head, a queue takes the executor from market m to market n:
\* a rotation may lead anywhere, every other command belongs to the market that
\* is current when it is taken.
Chained(q, m, n) ==
    /\ q \in Seq(Command)
    /\ \A k \in 1..Len(q) :
          q[k].op # "rotate" => q[k].market = IF k = 1 THEN m ELSE q[k - 1].market
    /\ n = IF q = <<>> THEN m ELSE q[Len(q)].market

\* What the engine has queued leads from the executor's market to its own, and
\* what it holds back belongs to its own.
MarketChain == /\ Chained(cmdq, exec_market, market)
               /\ pending_commands \in Seq(Local(market))

-----------------------------------------------------------------------------
(* Chains.                                                                 *)

\* Commands of the current market extend a chain.
LEMMA ChainedConcat ==
    ASSUME NEW q, NEW m, NEW n, Chained(q, m, n), NEW seq \in Seq(Local(n))
    PROVE  Chained(q \o seq, m, n)
  <1> DEFINE r == q \o seq
  <1>1. q \in Seq(Command) /\ seq \in Seq(Command) /\ r \in Seq(Command)
    BY DEF Chained, Local
  <1>2. \A k \in 1..Len(seq) : seq[k].market = n
    BY DEF Local
  <1>3. /\ Len(q) \in Nat /\ Len(seq) \in Nat /\ Len(r) = Len(q) + Len(seq)
        /\ \A k \in 1..Len(r) : r[k] = IF k <= Len(q) THEN q[k] ELSE seq[k - Len(q)]
    BY <1>1
  <1>4. ASSUME NEW k \in 1..Len(r), r[k].op # "rotate"
        PROVE  r[k].market = IF k = 1 THEN m ELSE r[k - 1].market
    <2>1. CASE k <= Len(q)
      BY <1>3, <1>4, <2>1 DEF Chained
    <2>2. CASE k > Len(q)
      <3>1. r[k].market = n
        BY <1>2, <1>3, <2>2
      <3>2. CASE Len(q) = 0
        <4>1. q = <<>> /\ n = m
          BY <1>1, <3>2 DEF Chained
        <4>2. k # 1 => r[k - 1].market = n
          BY <1>2, <1>3, <2>2, <3>2
        <4> QED
          BY <3>1, <4>1, <4>2
      <3>3. CASE Len(q) # 0
        <4>1. n = q[Len(q)].market
          BY <1>1, <3>3 DEF Chained
        <4>2. k # 1 /\ k - 1 \in 1..Len(r)
          BY <1>3, <2>2, <3>3
        <4>3. r[k - 1].market = n
          BY <1>2, <1>3, <2>2, <4>1, <4>2
        <4> QED
          BY <3>1, <4>2, <4>3
      <3> QED
        BY <3>2, <3>3
    <2> QED
      BY <1>3, <2>1, <2>2
  <1>5. n = IF r = <<>> THEN m ELSE r[Len(r)].market
    <2>1. CASE Len(seq) = 0
      <3>1. r = q
        BY <1>1, <2>1
      <3> QED
        BY <3>1 DEF Chained
    <2>2. CASE Len(seq) # 0
      <3>1. Len(r) \in 1..Len(r) /\ Len(r) > Len(q) /\ r # <<>>
        BY <1>1, <1>3, <2>2
      <3>2. r[Len(r)] = seq[Len(seq)]
        BY <1>3, <3>1
      <3> QED
        BY <1>2, <1>3, <2>2, <3>1, <3>2
    <2> QED
      BY <2>1, <2>2
  <1> QED
    BY <1>1, <1>4, <1>5 DEF Chained

\* A rotation extends a chain to its own market.
LEMMA ChainedRotate ==
    ASSUME NEW q, NEW m, NEW n, Chained(q, m, n), NEW next \in Market
    PROVE  Chained(q \o <<MarketRotation(next)>>, m, next)
  <1> DEFINE c == MarketRotation(next)
             r == q \o <<c>>
  <1>1. c \in Command /\ c.op = "rotate" /\ c.market = next
    BY BoundsAssumption, CommandTypes DEF MarketRotation, MarketSide
  <1> HIDE DEF c
  <1>2. q \in Seq(Command) /\ r \in Seq(Command)
    BY <1>1 DEF Chained
  <1>3. /\ Len(q) \in Nat /\ Len(r) = Len(q) + 1 /\ r # <<>>
        /\ r[Len(r)] = c
        /\ \A k \in 1..Len(q) : r[k] = q[k]
    BY <1>1, <1>2
  <1>4. ASSUME NEW k \in 1..Len(r), r[k].op # "rotate"
        PROVE  r[k].market = IF k = 1 THEN m ELSE r[k - 1].market
    <2>1. k \in 1..Len(q)
      BY <1>1, <1>3, <1>4
    <2>2. k # 1 => k - 1 \in 1..Len(q)
      BY <1>3, <2>1
    <2> QED
      BY <1>3, <1>4, <2>1, <2>2 DEF Chained
  <1>5. next = IF r = <<>> THEN m ELSE r[Len(r)].market
    BY <1>1, <1>3
  <1>6. Chained(r, m, next)
    <2> HIDE DEF r
    <2> QED
      BY <1>2, <1>4, <1>5 DEF Chained
  <1> QED
    BY <1>6 DEF c

\* What remains of a chain starts at the market of the command taken.
LEMMA ChainedTail ==
    ASSUME NEW q, NEW m, NEW n, Chained(q, m, n), q # <<>>
    PROVE  /\ Chained(Tail(q), Head(q).market, n)
           /\ Head(q).op # "rotate" => Head(q).market = m
  <1> DEFINE r == Tail(q)
  <1>1. q \in Seq(Command) /\ r \in Seq(Command)
    BY DEF Chained
  <1>2. /\ Len(q) \in Nat \ {0} /\ Len(r) = Len(q) - 1 /\ Head(q) = q[1]
        /\ \A k \in 1..Len(r) : r[k] = q[k + 1]
    BY <1>1
  <1>3. Head(q).op # "rotate" => Head(q).market = m
    BY <1>2 DEF Chained
  <1>4. ASSUME NEW k \in 1..Len(r), r[k].op # "rotate"
        PROVE  r[k].market = IF k = 1 THEN Head(q).market ELSE r[k - 1].market
    <2>1. k + 1 \in 1..Len(q) /\ k + 1 # 1 /\ r[k] = q[k + 1]
      BY <1>2
    <2>2. q[k + 1].market = q[(k + 1) - 1].market
      BY <1>4, <2>1 DEF Chained
    <2>3. k # 1 => r[k - 1] = q[k]
      BY <1>2
    <2> QED
      BY <1>2, <2>1, <2>2, <2>3
  <1>5. n = IF r = <<>> THEN Head(q).market ELSE r[Len(r)].market
    <2>1. n = q[Len(q)].market
      BY <1>2 DEF Chained
    <2>2. CASE r = <<>>
      <3>1. Len(q) = 1
        BY <1>2, <2>2
      <3> QED
        BY <1>2, <2>1, <2>2, <3>1
    <2>3. CASE r # <<>>
      <3>1. Len(r) \in 1..Len(r)
        BY <1>1, <2>3
      <3>2. r[Len(r)] = q[Len(q)]
        BY <1>2, <3>1
      <3> QED
        BY <2>1, <2>3, <3>2
    <2> QED
      BY <2>2, <2>3
  <1> QED
    BY <1>1, <1>3, <1>4, <1>5 DEF Chained

-----------------------------------------------------------------------------
(* The engine.                                                             *)

LEMMA CancelActionsLocal ==
    ASSUME IInv, NEW q \in KnownQuoter, NEW S
    PROVE  CancelActions(q, S, market) \in Seq(Local(market))
  <1> DEFINE f == [s \in MarketSide |-> CancelOrder(s, q.order[s].id, market)]
  <1>1. ASSUME NEW s \in Cancellable(q, S) \cap MarketSide
        PROVE  f[s] \in Local(market)
    <2>1. q.order[s].id \in 0..MaxOrders /\ market \in Market
      BY EngineFacts DEF KnownQuoter, QuoterState, ManagedOrder, EngineTypeOK
    <2>2. CancelOrder(s, q.order[s].id, market) \in Command
      BY <2>1, CommandTypes
    <2> QED
      BY <2>2 DEF Local, CancelOrder
  <1> HIDE DEF f
  <1> QED
    BY <1>1, OnSidesType DEF CancelActions, f

LEMMA MakerActionsLocal ==
    ASSUME IInv, NEW act \in SUBSET MarketSide, \A s \in act : MayAct(s)
    PROVE  MakerActions(act) \in Seq(Local(market))
  <1> DEFINE f == [s \in MarketSide |->
                     IF Resting(quoter, s)
                     THEN CancelOrder(s, quoter.order[s].id, market)
                     ELSE PostOrder(s, OrderSize(position[s]), market)]
  <1>1. ASSUME NEW s \in act \cap MarketSide
        PROVE  f[s] \in Local(market)
    <2>1. /\ quoter.order[s].id \in 0..MaxOrders /\ market \in Market
          /\ 0 \in 0..MaxOrders
      BY EngineFacts, BoundsAssumption DEF QuoterState, ManagedOrder, EngineTypeOK
    <2>2. OrderSize(position[s]) \in Nat
      BY EngineFacts, OrderSizeFits DEF MayAct, EngineTypeOK
    <2>3. /\ CancelOrder(s, quoter.order[s].id, market) \in Command
          /\ PostOrder(s, OrderSize(position[s]), market) \in Command
      BY <2>1, <2>2, CommandTypes
    <2> QED
      BY <2>3 DEF Local, CancelOrder, PostOrder
  <1> HIDE DEF f
  <1> QED
    BY <1>1, OnSidesType DEF MakerActions, f

\* Sending commands of its own market, at once or by holding them back.
Sends == /\ UNCHANGED <<market, exec_market>>
         /\ \E seq \in Seq(Local(market)) : cmdq' = cmdq \o seq
         /\ pending_commands' \in Seq(Local(market))

LEMMA SendsChain ==
    ASSUME MarketChain, Sends
    PROVE  MarketChain'
  <1>1. PICK seq \in Seq(Local(market)) : cmdq' = cmdq \o seq
    BY DEF Sends
  <1>2. Chained(cmdq \o seq, exec_market, market)
    BY ChainedConcat DEF MarketChain
  <1>3. Chained(cmdq, exec_market, market)' /\ (pending_commands \in Seq(Local(market)))'
    BY <1>1, <1>2 DEF Sends, Chained, Local
  <1> QED
    BY <1>3 DEF MarketChain

\* An event that is not a rotation sends what was held back.
LEMMA DispatchSends ==
    ASSUME MarketChain, NEW pend \in Seq(Local(market)), Dispatch(pend),
           UNCHANGED <<market, exec_market>>
    PROVE  Sends
  <1>1. pending_commands \o pend \in Seq(Local(market))
    BY DEF MarketChain
  <1>2. cmdq' = cmdq \o (pending_commands \o pend)
    <2>1. /\ cmdq \in Seq(Command) /\ pending_commands \in Seq(Command)
          /\ pend \in Seq(Command)
      BY DEF MarketChain, Chained, Local
    <2>2. cmdq' = (cmdq \o pending_commands) \o pend
      BY DEF Dispatch
    <2> QED
      BY <2>1, <2>2
  <1>3. pending_commands' \in Seq(Local(market))
    BY DEF Dispatch
  <1> QED
    BY <1>1, <1>2, <1>3 DEF Sends

LEMMA EventChain ==
    ASSUME IInv, MarketChain, EventNext \/ FillReport, UNCHANGED executorVars
    PROVE  MarketChain'
  <1>0. <<>> \in Seq(Local(market)) /\ UNCHANGED exec_market
    BY DEF executorVars
  <1>1. CASE OnMarketRotation
    <2>1. /\ market < MaxMarkets /\ market' = market + 1
          /\ Dispatch(<<MarketRotation(market + 1)>>)
      BY <1>1 DEF OnMarketRotation
    <2>2. market + 1 \in Market
      BY <2>1, EngineFacts, BoundsAssumption DEF EngineTypeOK, Market
    <2>3. Chained(cmdq \o pending_commands, exec_market, market)
      BY ChainedConcat DEF MarketChain
    <2>4. Chained(cmdq', exec_market, market + 1)
      BY <2>1, <2>2, <2>3, ChainedRotate DEF Dispatch
    <2>5. Chained(cmdq, exec_market, market)'
      BY <1>0, <2>1, <2>4 DEF Chained
    <2>6. (pending_commands \in Seq(Local(market)))'
      BY <2>1 DEF Dispatch
    <2> QED
      BY <2>5, <2>6 DEF MarketChain
  <1>2. ASSUME NEW s \in MarketSide, OnBookUpdate(s)
        PROVE  Sends
    BY <1>0, <1>2, DispatchSends DEF OnBookUpdate
  <1>3. CASE OnHeartbeatOk
    BY <1>0, <1>3, DispatchSends, SendsChain DEF OnHeartbeatOk
  <1>4. CASE OnHeartbeatFailed
    <2>1. CancelActions(quoter, MarketSide, market) \in Seq(Local(market))
      BY EngineFacts, CancelActionsLocal
    <2>2. \/ Dispatch(CancelActions(quoter, MarketSide, market))
          \/ Dispatch(<<>>)
      BY <1>4 DEF OnHeartbeatFailed
    <2>3. UNCHANGED market
      BY <1>4 DEF OnHeartbeatFailed
    <2> QED
      BY <1>0, <2>1, <2>2, <2>3, DispatchSends, SendsChain
  <1>5. CASE OnMarketData
    BY <1>0, <1>5, DispatchSends, SendsChain DEF OnMarketData
  <1>6. CASE FillReport
    BY <1>0, <1>6, DispatchSends, SendsChain DEF FillReport, OnTradeStatusUpdate
  <1> QED
    BY <1>1, <1>2, <1>3, <1>4, <1>5, <1>6, SendsChain DEF EventNext

LEMMA ControlChain ==
    ASSUME IInv, MarketChain, ControlNext, UNCHANGED executorVars
    PROVE  MarketChain'
  <1>1. CASE OnPause
    <2>1. CancelActions(quoter, MarketSide, market) \in Seq(Local(market))
      BY EngineFacts, CancelActionsLocal
    <2>2. Sends
      BY <1>1, <2>1 DEF OnPause, Sends, MarketChain, executorVars
    <2> QED
      BY <2>2, SendsChain
  <1>2. CASE OnDrain \/ OnResume
    <2>1. UNCHANGED <<cmdq, exec_market, market, pending_commands>>
      BY <1>2 DEF OnDrain, OnResume, channelVars, executorVars
    <2> QED
      BY <2>1 DEF MarketChain, Chained, Local
  <1> QED
    BY <1>1, <1>2 DEF ControlNext

LEMMA FinishQuotingSends ==
    ASSUME IInv, MarketChain, NEW q \in KnownQuoter, NEW cmds \in Seq(Local(market)),
           FinishQuoting(q, cmds), UNCHANGED exec_market,
           pending_commands' \in Seq(Local(market))
    PROVE  Sends
  <1>1. CASE NoRebalance(q, cmds)
    BY <1>1 DEF NoRebalance, EndIteration, Sends
  <1>2. ASSUME NEW s \in MarketSide, Rebalance(q, s, cmds)
        PROVE  Sends
    <2> DEFINE n == Greatest(Least(RebalanceSize, Imbalance), ClobMin)
               taker == RebalanceTaker(s, n, market)
               cancels == CancelActions(q, {s}, market)
    <2>1. market \in Market /\ position \in [MarketSide -> Nat]
      BY EngineFacts DEF EngineTypeOK
    <2>2. n \in Nat
      <3>1. Unpaired("yes") \in Nat /\ Unpaired("no") \in Nat
        BY <2>1 DEF Unpaired, Greatest, Other, MarketSide
      <3>2. Imbalance \in Nat
        BY <3>1 DEF Imbalance, Greatest
      <3> QED
        BY <3>2, EngineAssumption DEF Least, Greatest
    <2>3. taker \in Local(market)
      <3>1. RebalanceTaker(s, n, market) \in Command
        BY <2>1, <2>2, BoundsAssumption, CommandTypes
      <3> QED
        BY <3>1 DEF Local, RebalanceTaker
    <2>4. cancels \in Seq(Local(market))
      BY CancelActionsLocal
    <2>5. EndIteration(cmds \o cancels \o <<taker>>)
      BY <1>2 DEF Rebalance
    <2> HIDE DEF taker, cancels
    <2>6. cmds \o cancels \o <<taker>> \in Seq(Local(market))
      BY <2>3, <2>4
    <2> QED
      BY <2>5, <2>6 DEF EndIteration, Sends
  <1> QED
    BY <1>1, <1>2 DEF FinishQuoting

LEMMA QuoteChain ==
    ASSUME IInv, MarketChain, QuoteNext, UNCHANGED executorVars
    PROVE  MarketChain'
  <1> SUFFICES Sends
    BY SendsChain
  <1>0. /\ <<>> \in Seq(Local(market)) /\ UNCHANGED exec_market
        /\ quoter \in KnownQuoter /\ pending_commands \in Seq(Local(market))
        /\ "yes" \in MarketSide
    BY EngineFacts DEF executorVars, MarketChain, MarketSide
  <1>1. CASE QuoteNothing
    BY <1>0, <1>1, FinishQuotingSends DEF QuoteNothing, FinishQuoting
  <1>2. CASE QuoteDark
    <2> DEFINE q == OnCancelSent(quoter, Cancellable(quoter, MarketSide))
               cancels == CancelActions(quoter, MarketSide, market)
    <2>1. FinishQuoting(q, <<>>) /\ pending_commands' = pending_commands \o cancels
      BY <1>2 DEF QuoteDark
    <2>2. q \in KnownQuoter
      BY <1>0, EngineFacts, QuoterKeepsKnown
    <2>3. cancels \in Seq(Local(market))
      BY <1>0, CancelActionsLocal
    <2> HIDE DEF q, cancels
    <2>4. pending_commands' \in Seq(Local(market))
      BY <1>0, <2>1, <2>3
    <2> QED
      BY <1>0, <2>1, <2>2, <2>4, FinishQuotingSends
  <1>3. ASSUME NEW postable \in Postable, QuoteZone(postable)
        PROVE  Sends
    <2>1. CancelActions(quoter, MarketSide \ postable, market) \in Seq(Local(market))
      BY <1>0, CancelActionsLocal
    <2> QED
      BY <1>0, <1>3, <2>1 DEF QuoteZone, EndIteration, Sends
  <1>4. ASSUME NEW postable \in Postable, QuoteMakers(postable)
        PROVE  Sends
    <2>1. PICK act \in SUBSET {s \in postable :
                                  MayAct(s) /\ ~(Lagging(s) /\ TakerWillHandle)} :
             FinishQuoting(OnCancelSent(MarkPostPending(quoter, Posts(act)),
                                        Requotes(act)),
                           MakerActions(act))
      BY <1>4 DEF QuoteMakers
    <2>2. act \in SUBSET MarketSide /\ \A s \in act : MayAct(s)
      BY DEF Postable
    <2>3. MakerActions(act) \in Seq(Local(market))
      BY <2>2, MakerActionsLocal
    <2>4. OnCancelSent(MarkPostPending(quoter, Posts(act)), Requotes(act)) \in KnownQuoter
      <3>1. MarkPostPending(quoter, Posts(act)) \in KnownQuoter
        BY <1>0, EngineFacts, QuoterKeepsKnown
      <3> QED
        BY <3>1, <1>0, EngineFacts, QuoterKeepsKnown
    <2>5. pending_commands' \in Seq(Local(market))
      BY <1>0, <1>4 DEF QuoteMakers
    <2> QED
      BY <1>0, <2>1, <2>3, <2>4, <2>5, FinishQuotingSends
  <1> QED
    BY <1>1, <1>2, <1>3, <1>4 DEF QuoteNext

-----------------------------------------------------------------------------
(* The executor.                                                           *)

\* Every executor action takes no command, a rotation, or one that belongs to
\* the executor's market; and it leaves the exchange alone, accepts an order of
\* that market, or cancels.
NoCommand == UNCHANGED <<cmdq, exec_market>>
OwnCommand == /\ cmdq # <<>> /\ Head(cmdq).op # "rotate"
              /\ cmdq' = Tail(cmdq)
              /\ UNCHANGED exec_market
TakesRotation == /\ cmdq # <<>>
                 /\ cmdq' = Tail(cmdq)
                 /\ exec_market' = Head(cmdq).market

Accepts == \E s, n, k, maker :
              /\ cmdq # <<>> /\ Head(cmdq).op # "rotate"
              /\ Accept(s, n, k, Head(cmdq).market, maker)

LEMMA ExecutorShape ==
    ASSUME ExecutorStep
    PROVE  /\ NoCommand \/ OwnCommand \/ TakesRotation
           /\ \/ UNCHANGED clob /\ UNCHANGED exec_market
              \/ Accepts /\ UNCHANGED exec_market
              \/ Cancel(Head(cmdq).id) /\ Head(cmdq).op = "cancel" /\ cmdq # <<>>
                                       /\ UNCHANGED exec_market
              \/ Rotate
  <1> USE DEF NoCommand, OwnCommand, TakesRotation, Accepts, Receive, Owe, Answer,
              executorVars
  <1>1. CASE PostAccepted
    BY <1>1 DEF PostAccepted
  <1>2. CASE PostFilled
    BY <1>2 DEF PostFilled
  <1>3. CASE PostRejected
    BY <1>3 DEF PostRejected
  <1>4. CASE PostErrored
    BY <1>4 DEF PostErrored
  <1>5. CASE HandleCancel
    BY <1>5 DEF HandleCancel
  <1>6. CASE CancelStatus
    BY <1>6 DEF CancelStatus
  <1>7. CASE Reply
    BY <1>7 DEF Reply
  <1>8. CASE TakerFilled
    BY <1>8 DEF TakerFilled
  <1>9. CASE TakerKilled
    BY <1>9 DEF TakerKilled
  <1>10. CASE TakerErrored
    BY <1>10 DEF TakerErrored
  <1>11. CASE Rotate
    BY <1>11 DEF Rotate
  <1> QED
    BY <1>1, <1>2, <1>3, <1>4, <1>5, <1>6, <1>7, <1>8, <1>9, <1>10, <1>11
       DEF ExecutorStep, ExecutorNext

LEMMA ExecutorChain ==
    ASSUME MarketChain, ExecutorStep
    PROVE  MarketChain'
  <1>1. UNCHANGED <<market, pending_commands>>
    BY DEF ExecutorStep, engineVars
  <1>2. Chained(cmdq', exec_market', market)
    <2>1. CASE NoCommand
      BY <2>1 DEF NoCommand, MarketChain
    <2>2. CASE OwnCommand
      BY <2>2, ChainedTail DEF OwnCommand, MarketChain
    <2>3. CASE TakesRotation
      BY <2>3, ChainedTail DEF TakesRotation, MarketChain
    <2> QED
      BY <2>1, <2>2, <2>3, ExecutorShape
  <1> QED
    BY <1>1, <1>2 DEF MarketChain, Chained, Local

LEMMA ChainNext ==
    ASSUME IInv, MarketChain, [Next]_vars
    PROVE  MarketChain'
  <1>u. ASSUME UNCHANGED <<cmdq, exec_market, market, pending_commands>>
        PROVE  MarketChain'
    BY <1>u DEF MarketChain, Chained, Local
  <1>1. CASE EngineStep
    <2>1. UNCHANGED executorVars
      BY <1>1 DEF EngineStep
    <2>2. CASE FeedbackNext
      BY <2>1, <2>2, <1>u DEF FeedbackNext, OnPosted, OnAlreadyFilled, OnFailed,
                              OnCancelled, OnRebalanced, Feed, executorVars
    <2> QED
      BY <1>1, <2>1, <2>2, EventChain, ControlChain, QuoteChain DEF EngineStep
  <1>2. CASE ExecutorStep
    BY <1>2, ExecutorChain
  <1>3. CASE ExchangeStep
    BY <1>3, <1>u DEF ExchangeStep, channelVars, executorVars, engineVars
  <1>4. CASE ProcessExit
    BY <1>4, <1>u DEF ProcessExit, channelVars, executorVars
  <1>5. CASE UNCHANGED vars
    BY <1>5, <1>u DEF vars, channelVars, executorVars, engineVars
  <1> QED
    BY <1>1, <1>2, <1>3, <1>4, <1>5 DEF Next

LEMMA ChainInit == Init => MarketChain
  BY DEF Init, ExecutorInit, EngineInit, MarketChain, Chained

\* The engine's queue always leads from the executor's market to the engine's.
THEOREM MarketChainHolds == Spec => []MarketChain
  BY InitInv, NextInv, ChainInit, ChainNext, PTL DEF Spec

-----------------------------------------------------------------------------
(* What it is for.                                                         *)

\* The step that accepts an order.
LEMMA AcceptsInMarket ==
    ASSUME IInv, MarketChain, Accepts
    PROVE  /\ Len(clob') = Len(clob) + 1
           /\ clob'[Len(clob')].market = exec_market
           /\ \A i \in Orders : clob'[i] = clob[i]
  <1>1. PICK s, n, k, maker : Accept(s, n, k, Head(cmdq).market, maker)
    BY DEF Accepts
  <1>2. Head(cmdq).market = exec_market
    BY ChainedTail DEF Accepts, MarketChain
  <1> DEFINE o == [side |-> s, size |-> n, matched |-> k, live |-> k < n,
                   market |-> Head(cmdq).market, maker |-> maker]
  <1>3. clob' = Append(clob, o)
    BY <1>1 DEF Accept
  <1>4. o.market = exec_market
    BY <1>2
  <1> HIDE DEF o
  <1>5. clob \in Seq(Order)
    BY EngineFacts
  <1> QED
    BY <1>3, <1>4, <1>5 DEF Orders

\* Accepting an order and moving to another market are different steps.
LEMMA AcceptsKeepsMarket ==
    ASSUME IInv, [Next]_vars, Accepts
    PROVE  UNCHANGED exec_market
  <1>0. clob \in Seq(Order)
    BY EngineFacts
  <1>1. Len(clob') # Len(clob)
    BY <1>0 DEF Accepts, Accept
  <1>2. CASE ExecutorStep
    <2>1. ~Rotate
      BY <1>0, <1>1 DEF Rotate, CancelAll, Orders
    <2> QED
      BY <1>2, <2>1, ExecutorShape
  <1>3. CASE ~ExecutorStep
    BY <1>3, <1>1 DEF Next, EngineStep, ExchangeStep, ProcessExit, vars, executorVars
  <1> QED
    BY <1>2, <1>3

\* No step of anything else accepts an order.
LEMMA OthersAcceptNothing ==
    ASSUME IInv, [Next]_vars, ~Accepts
    PROVE  Len(clob') = Len(clob)
  <1>0. clob \in Seq(Order)
    BY EngineFacts
  <1>1. CASE EngineStep \/ ProcessExit \/ UNCHANGED vars
    BY <1>1 DEF EngineStep, ProcessExit, vars
  <1>2. CASE ExchangeStep
    BY <1>0, <1>2 DEF ExchangeStep, Match
  <1>3. CASE ExecutorStep
    <2>1. CASE Rotate
      BY <1>0, <2>1 DEF Rotate, CancelAll, Orders
    <2>2. CASE ~Rotate
      BY <1>0, <1>3, <2>2, ExecutorShape DEF Cancel
    <2> QED
      BY <2>1, <2>2
  <1> QED
    BY <1>1, <1>2, <1>3 DEF Next

\* However far the engine runs ahead, and whatever fails, the executor places
\* every order in the market whose rotation it handled last (the one channel
\* between them keeps rotations and orders in the order they were decided in).
THEOREM PlacedInCurrentMarketHolds == Spec => PlacedInCurrentMarket
  <1>1. ASSUME IInv, MarketChain, [Next]_vars
        PROVE  [Len(clob') > Len(clob) => clob'[Len(clob')].market = exec_market]_vars
    <2>1. CASE Accepts
      BY <1>1, <2>1, AcceptsInMarket
    <2>2. CASE ~Accepts
      <3>1. Len(clob') = Len(clob) /\ Len(clob) \in Nat
        BY <1>1, <2>2, OthersAcceptNothing, EngineFacts
      <3> QED
        BY <3>1
    <2> QED
      BY <2>1, <2>2
  <1> QED
    BY <1>1, IdsAlwaysKnown, MarketChainHolds, PTL DEF Spec, PlacedInCurrentMarket

\* A step that accepts no order makes none live, and keeps its market.
LEMMA NothingRevived ==
    ASSUME IInv, [Next]_vars, ~Accepts
    PROVE  /\ Orders' = Orders
           /\ \A i \in Orders : /\ clob'[i].live => clob[i].live
                                /\ clob'[i].market = clob[i].market
  <1>0. /\ clob \in Seq(Order) /\ \A i \in Orders : clob[i] \in Order
        /\ Orders = DOMAIN clob
    BY EngineFacts DEF Orders
  <1>1. Orders' = Orders
    BY OthersAcceptNothing DEF Orders
  <1>2. CASE UNCHANGED clob
    BY <1>1, <1>2
  <1>3. CASE ExchangeStep
    <2>1. PICK j \in Orders : Match(j)
      BY <1>3 DEF ExchangeStep
    <2> DEFINE o == [clob[j] EXCEPT !.matched = @ + 1,
                                    !.live = clob[j].matched + 1 < clob[j].size]
    <2>2. clob' = [clob EXCEPT ![j] = o] /\ clob[j].live
      BY <1>0, <2>1 DEF Match
    <2>3. o.market = clob[j].market
      BY <1>0 DEF Order
    <2> HIDE DEF o
    <2> QED
      BY <1>0, <1>1, <2>2, <2>3
  <1>4. ASSUME NEW j, Cancel(j)
        PROVE  \A i \in Orders : /\ clob'[i].live => clob[i].live
                                 /\ clob'[i].market = clob[i].market
    <2> DEFINE o == [clob[j] EXCEPT !.live = FALSE]
    <2>1. clob' = [clob EXCEPT ![j] = o]
      BY <1>4 DEF Cancel
    <2>2. j \in Orders => o.market = clob[j].market /\ o.live = FALSE
      BY <1>0 DEF Order
    <2> HIDE DEF o
    <2> QED
      BY <1>0, <2>1, <2>2
  <1>5. CASE CancelAll
    <2>1. \A i \in Orders : clob'[i] = [clob[i] EXCEPT !.live = FALSE]
      BY <1>5 DEF CancelAll
    <2>2. \A o \in Order : LET p == [o EXCEPT !.live = FALSE]
                           IN  p.live = FALSE /\ p.market = o.market
      BY DEF Order
    <2> QED
      BY <1>0, <1>1, <2>1, <2>2
  <1>6. CASE ExecutorStep
    BY <1>1, <1>2, <1>4, <1>5, <1>6, ExecutorShape DEF Rotate
  <1> QED
    BY <1>1, <1>2, <1>3, <1>6 DEF Next, EngineStep, ProcessExit, vars

\* When cancel_all does not fail, nothing of an earlier market stays live once
\* the executor has handled a rotation (on_market_rotation in live.rs).
THEOREM RotationLeavesNothingHolds ==
    ASSUME "cancelAll" \notin Faults
    PROVE  Spec => []RotationLeavesNothing
  <1>1. Init => RotationLeavesNothing
    BY DEF Init, ExchangeInit, RotationLeavesNothing, Orders
  <1>2. ASSUME IInv, MarketChain, RotationLeavesNothing, [Next]_vars
        PROVE  RotationLeavesNothing'
    <2>0. clob \in Seq(Order) /\ Len(clob) \in Nat
      BY <1>2, EngineFacts
    <2>1. CASE Accepts
      <3>1. UNCHANGED exec_market
        BY <1>2, <2>1, AcceptsKeepsMarket
      <3>2. \A i \in Orders' : i \in Orders \/ i = Len(clob')
        BY <1>2, <2>0, <2>1, AcceptsInMarket DEF Orders
      <3> QED
        BY <1>2, <2>1, <3>1, <3>2, AcceptsInMarket DEF RotationLeavesNothing
    <2>2. CASE ~Accepts
      <3>1. CASE UNCHANGED exec_market
        BY <1>2, <2>2, <3>1, NothingRevived DEF RotationLeavesNothing
      <3>2. CASE ~UNCHANGED exec_market
        <4>1. Rotate
          BY <1>2, <3>2, ExecutorShape
             DEF Next, EngineStep, ExchangeStep, ProcessExit, vars, executorVars
        <4>2. CancelAll
          BY <4>1 DEF Rotate
        <4>3. \A o \in Order : [o EXCEPT !.live = FALSE].live = FALSE
          BY DEF Order
        <4>4. \A i \in Orders : clob'[i].live = FALSE
          <5>1. \A i \in Orders : clob[i] \in Order
            BY <2>0 DEF Orders
          <5>2. \A i \in Orders : clob'[i] = [clob[i] EXCEPT !.live = FALSE]
            BY <4>2 DEF CancelAll
          <5> QED
            BY <4>3, <5>1, <5>2
        <4> QED
          BY <1>2, <2>2, <4>4, NothingRevived DEF RotationLeavesNothing
      <3> QED
        BY <3>1, <3>2
    <2> QED
      BY <2>1, <2>2
  <1> QED
    BY <1>1, <1>2, IdsAlwaysKnown, MarketChainHolds, PTL DEF Spec
=============================================================================
