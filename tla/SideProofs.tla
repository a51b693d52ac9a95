----------------------------- MODULE SideProofs -------------------------------
(***************************************************************************)
(* The orders of the first market, for any number of markets: the rotation *)
(* to the next one is what cuts the ties between orders and answers.       *)
(*                                                                         *)
(* First what the engine believes of a side, whatever fails: the order it  *)
(* holds is the one the exchange has, what it cancels is that order or the *)
(* last one it dropped, and the imbalance of the position stays within its *)
(* bound.                                                                  *)
(*                                                                         *)
(* Then what becomes of the orders when no call of the executor fails:     *)
(* none is live without the engine knowing or being about to hear of it,   *)
(* none is let go before all of it is counted; and last, from that, why no *)
(* side ever buys more than the accumulation cap.                          *)
(***************************************************************************)
EXTENDS FlowProofs

\* The commands and the reports under way.
Sent == Range(cmdq) \union Range(pending_commands)
Waiting == Range(fbq) \union Range(reply)

OrdersSound(o) == \A i \in 1..Len(o) : /\ o[i].matched <= o[i].size
                                       /\ o[i].live => o[i].maker /\ o[i].matched < o[i].size

\* The order p is what may become of the order o.
Evolves(o, p) == /\ p.side = o.side /\ p.size = o.size /\ p.maker = o.maker
                 /\ p.live => o.live
                 /\ ~o.live => p.matched = o.matched

\* An announced order is the one on the exchange.
Announced(r, o) ==
    r.kind = "posted" => o[r.id].maker /\ o[r.id].side = r.side /\ o[r.id].size = r.size

\* The quoter q has its orders right, and one request of a side at a time.
HeldFaithful(q, o) ==
    \A s \in MarketSide :
        /\ q.order[s].id # 0 => /\ o[q.order[s].id].side = s
                                /\ o[q.order[s].id].size = q.order[s].size
                                /\ ~q.pending_post[s]
        /\ q.pending_post[s] => ~q.pending_cancel[s]

\* The order a cancel of the side is about: the one held, or the last one
\* dropped, all of which has been counted.
Target(s, i) == \/ quoter.order[s].id = i
                \/ /\ quoter.order[s].id = 0 /\ quoter.last_cleared[s].id = i
                   /\ counted[i] = clob[i].size

Aimed ==
    /\ \A c \in Sent : c.op = "cancel" => Target(c.side, c.id)
    /\ \A r \in Waiting : r.kind = "cancelled" => Target(r.side, r.id)

SideInv == /\ OrdersSound(clob)
           /\ \A r \in Waiting : Announced(r, clob)
           /\ HeldFaithful(quoter, clob)
           /\ Aimed

-----------------------------------------------------------------------------
(* The sets of items.                                                      *)

LEMMA RangeConcat ==
    ASSUME NEW S, NEW a \in Seq(S), NEW b \in Seq(S)
    PROVE  Range(a \o b) = Range(a) \union Range(b)
  <1> DEFINE r == a \o b
  <1>1. /\ Len(a) \in Nat /\ Len(b) \in Nat /\ Len(r) = Len(a) + Len(b)
        /\ \A k \in 1..Len(a) : r[k] = a[k]
        /\ \A k \in 1..Len(b) : r[Len(a) + k] = b[k]
        /\ DOMAIN a = 1..Len(a) /\ DOMAIN b = 1..Len(b) /\ DOMAIN r = 1..Len(r)
    OBVIOUS
  <1> HIDE DEF r
  <1>2. ASSUME NEW k \in 1..Len(r)
        PROVE  r[k] \in Range(a) \union Range(b)
    <2>1. CASE k <= Len(a)
      BY <1>1, <2>1 DEF Range
    <2>2. CASE k > Len(a)
      <3>1. k - Len(a) \in 1..Len(b) /\ r[k] = b[k - Len(a)]
        BY <1>1, <2>2
      <3> QED
        BY <1>1, <3>1 DEF Range
    <2> QED
      BY <1>1, <2>1, <2>2
  <1>3. ASSUME NEW k \in 1..Len(a)
        PROVE  a[k] \in Range(r)
    <2>1. k \in 1..Len(r) /\ r[k] = a[k]
      BY <1>1
    <2> QED
      BY <1>1, <2>1 DEF Range
  <1>4. ASSUME NEW k \in 1..Len(b)
        PROVE  b[k] \in Range(r)
    <2>1. Len(a) + k \in 1..Len(r) /\ r[Len(a) + k] = b[k]
      BY <1>1
    <2> QED
      BY <1>1, <2>1 DEF Range
  <1>5. Range(r) \subseteq Range(a) \union Range(b)
    BY <1>1, <1>2 DEF Range
  <1>6. Range(a) \subseteq Range(r) /\ Range(b) \subseteq Range(r)
    BY <1>1, <1>3, <1>4 DEF Range
  <1> QED
    BY <1>5, <1>6 DEF r

LEMMA RangeNone ==
    ASSUME NEW a, a = <<>>
    PROVE  Range(a) = {}
  BY DEF Range

LEMMA RangeOne ==
    ASSUME NEW e
    PROVE  Range(<<e>>) = {e}
  <1>1. DOMAIN <<e>> = {1} /\ <<e>>[1] = e
    OBVIOUS
  <1> QED
    BY <1>1 DEF Range

LEMMA RangeAppend ==
    ASSUME NEW S, NEW a \in Seq(S), NEW e \in S
    PROVE  Range(Append(a, e)) = Range(a) \union {e}
  <1> DEFINE b == <<e>>
  <1>1. Append(a, e) = a \o b /\ b \in Seq(S) /\ Range(b) = {e}
    BY RangeOne
  <1> HIDE DEF b
  <1> QED
    BY <1>1, RangeConcat

LEMMA RangeTail ==
    ASSUME NEW S, NEW a \in Seq(S), a # <<>>
    PROVE  Range(a) = {Head(a)} \union Range(Tail(a))
  <1> DEFINE b == <<Head(a)>>
             c == Tail(a)
  <1>1. a = b \o c /\ b \in Seq(S) /\ c \in Seq(S) /\ Range(b) = {Head(a)}
    BY RangeOne
  <1> HIDE DEF b, c
  <1>2. Range(b \o c) = Range(b) \union Range(c)
    BY <1>1, RangeConcat
  <1> QED
    BY <1>1, <1>2 DEF c

LEMMA RangeType ==
    ASSUME NEW S, NEW a \in Seq(S)
    PROVE  Range(a) \subseteq S
  BY DEF Range

\* What the invariants say of the sets of items.
LEMMA ItemFacts ==
    ASSUME IInv
    PROVE  /\ Sent \subseteq Command /\ Waiting \subseteq Feedback
           /\ \A c \in Sent : c.op = "cancel" => c.id \in Orders
           /\ \A r \in Waiting : r.kind \in {"posted", "cancelled"} => r.id \in Orders
           /\ 0 \notin Orders /\ Orders = 1..Len(clob) /\ Len(clob) \in Nat
           /\ \A i \in Orders : clob[i] \in Order /\ clob[i].matched \in Nat
                                /\ clob[i].size \in Nat /\ clob[i].side \in MarketSide
           /\ \A s \in MarketSide : quoter.order[s].id # 0 => quoter.order[s].id \in Orders
  <1>1. /\ Range(cmdq) \subseteq KnownCommand /\ Range(pending_commands) \subseteq KnownCommand
        /\ Range(fbq) \subseteq KnownFeedback /\ Range(reply) \subseteq KnownFeedback
    BY RangeType, FillFacts
  <1>2. \A i \in Orders : clob[i] \in Order
    BY FillFacts
  <1> QED
    BY <1>1, <1>2, FillFacts DEF Sent, Waiting, KnownCommand, KnownFeedback, Order, Orders

\* What a count of nothing says of the items.
LEMMA NoneAround ==
    ASSUME NEW a \in Seq(Command), NEW b \in Seq(Command),
           NEW c \in Seq(Feedback), NEW d \in Seq(Feedback), NEW T, NEW R,
           Num(a, T) + Num(b, T) + Num(c, R) + Num(d, R) <= 0
    PROVE  /\ \A x \in Range(b) \union Range(a) : x \notin T
           /\ \A x \in Range(c) \union Range(d) : x \notin R
  <1>1. /\ Num(a, T) \in Nat /\ Num(b, T) \in Nat /\ Num(c, R) \in Nat /\ Num(d, R) \in Nat
    BY AtFinite
  <1>2. Num(a, T) = 0 /\ Num(b, T) = 0 /\ Num(c, R) = 0 /\ Num(d, R) = 0
    BY <1>1
  <1>3. /\ \A k \in 1..Len(a) : a[k] \notin T
        /\ \A k \in 1..Len(b) : b[k] \notin T
        /\ \A k \in 1..Len(c) : c[k] \notin R
        /\ \A k \in 1..Len(d) : d[k] \notin R
    BY <1>2, AtFinite
  <1>4. /\ DOMAIN a = 1..Len(a) /\ DOMAIN b = 1..Len(b)
        /\ DOMAIN c = 1..Len(c) /\ DOMAIN d = 1..Len(d)
    OBVIOUS
  <1> QED
    BY <1>3, <1>4 DEF Range

\* In the first market a flag that is down means that nothing is under way.
LEMMA NothingUnraised ==
    ASSUME IInv, FlowInv, market <= 1, NEW s \in MarketSide
    PROVE  /\ ~quoter.pending_post[s] =>
                 /\ \A c \in Sent : ~(c.op = "post" /\ c.side = s)
                 /\ \A r \in Waiting : r.side = s =>
                       r.kind \notin {"posted", "filled", "failed"}
           /\ ~quoter.pending_cancel[s] =>
                 /\ \A c \in Sent : ~(c.op = "cancel" /\ c.side = s)
                 /\ \A r \in Waiting : ~(r.kind = "cancelled" /\ r.side = s)
  <1>0. Greatest(market, 1) = 1
    BY EngineFacts DEF EngineTypeOK, Market, Greatest
  <1>1. /\ cmdq \in Seq(Command) /\ pending_commands \in Seq(Command)
        /\ fbq \in Seq(Feedback) /\ reply \in Seq(Feedback)
    BY QueueFacts
  <1>2. ASSUME NEW T, NEW R, NEW u, Backed(Flow(T, R), u), ~u
        PROVE  (\A c \in Sent : c \notin T) /\ (\A r \in Waiting : r \notin R)
    <2>1. Flag(u) = 0
      BY <1>2 DEF Flag
    <2>2. Flow(T, R) <= 0
      BY <1>0, <1>2, <2>1 DEF Backed
    <2>3. Num(pending_commands, T) + Num(cmdq, T) + Num(fbq, R) + Num(reply, R) <= 0
      BY <2>2 DEF Flow
    <2> QED
      BY <1>1, <2>3, NoneAround DEF Sent, Waiting
  <1>3. Sent \subseteq Command /\ Waiting \subseteq Feedback
    BY ItemFacts
  <1>4. ASSUME ~quoter.pending_post[s]
        PROVE  /\ \A c \in Sent : ~(c.op = "post" /\ c.side = s)
               /\ \A r \in Waiting : r.side = s =>
                     r.kind \notin {"posted", "filled", "failed"}
    <2>1. /\ \A c \in Sent : c \notin PostsOf(s)
          /\ \A r \in Waiting : r \notin PlacedOf(s)
      BY <1>2, <1>4 DEF FlowInv
    <2> QED
      BY <1>3, <2>1 DEF PostsOf, PlacedOf
  <1>5. ASSUME ~quoter.pending_cancel[s]
        PROVE  /\ \A c \in Sent : ~(c.op = "cancel" /\ c.side = s)
               /\ \A r \in Waiting : ~(r.kind = "cancelled" /\ r.side = s)
    <2>1. /\ \A c \in Sent : c \notin CancelsOf(s)
          /\ \A r \in Waiting : r \notin CancelledOf(s)
      BY <1>2, <1>5 DEF FlowInv
    <2> QED
      BY <1>3, <2>1 DEF CancelsOf, CancelledOf
  <1> QED
    BY <1>4, <1>5

LEMMA NoCancelUnraised ==
    ASSUME IInv', FlowInv', market' <= 1, NEW s \in MarketSide,
           ~quoter'.pending_cancel[s]
    PROVE  /\ \A c \in Sent' : ~(c.op = "cancel" /\ c.side = s)
           /\ \A r \in Waiting' : ~(r.kind = "cancelled" /\ r.side = s)
  <1> DEFINE T == CancelsOf(s)
             R == CancelledOf(s)
  <1>0. Greatest(market', 1) = 1
    BY DEF IInv, TypeOK, EngineTypeOK, Market, Greatest
  <1>1. /\ cmdq' \in Seq(Command) /\ pending_commands' \in Seq(Command)
        /\ fbq' \in Seq(Feedback) /\ reply' \in Seq(Feedback)
    BY DEF IInv, TypeOK, ExecutorTypeOK, EngineTypeOK
  <1>2. Flag(quoter'.pending_cancel[s]) = 0
    BY DEF Flag
  <1>3. Flow(T, R)' <= 0
    BY <1>0, <1>2 DEF FlowInv, Backed
  <1> HIDE DEF T, R
  <1>4. Num(pending_commands', T) + Num(cmdq', T) + Num(fbq', R) + Num(reply', R) <= 0
    BY <1>3 DEF Flow
  <1>5. (\A c \in Sent' : c \notin T) /\ (\A r \in Waiting' : r \notin R)
    BY <1>1, <1>4, NoneAround DEF Sent, Waiting
  <1>6. Sent' \subseteq Command /\ Waiting' \subseteq Feedback
    BY <1>1, RangeType DEF Sent, Waiting
  <1> QED
    BY <1>5, <1>6 DEF T, R, CancelsOf, CancelledOf

\* A report leaves the other items where they are.
LEMMA FeedItems ==
    ASSUME IInv, NEW kind, Feed(kind), UNCHANGED reply
    PROVE  /\ Waiting = {Head(fbq)} \union Waiting' /\ Sent' = Sent
           /\ Range(fbq) = {Head(fbq)} \union Range(fbq')
           /\ Head(fbq) \in Feedback /\ Head(fbq).kind = kind /\ Head(fbq).side \in MarketSide
  <1>1. fbq # <<>> /\ fbq' = Tail(fbq) /\ UNCHANGED <<cmdq, pending_commands>>
    BY DEF Feed
  <1>2. Range(fbq) = {Head(fbq)} \union Range(fbq')
    BY <1>1, QueueFacts, RangeTail
  <1>3. Head(fbq) \in Feedback /\ Head(fbq).kind = kind
    BY FeedType
  <1> QED
    BY <1>1, <1>2, <1>3 DEF Waiting, Sent, Feedback

-----------------------------------------------------------------------------
(* The executor and the exchange.                                          *)

\* The exchange, seen from its orders.
LEMMA AcceptEvolves ==
    ASSUME IInv, OrdersSound(clob), NEW s \in MarketSide, NEW n \in Nat, NEW x \in Nat, x <= n,
           NEW m, NEW maker \in BOOLEAN, x < n => maker, Accept(s, n, x, m, maker)
    PROVE  /\ OrdersSound(clob') /\ Len(clob') = Len(clob) + 1
           /\ \A i \in Orders : Evolves(clob[i], clob'[i])
           /\ Orders' \ Orders = {NextId}
           /\ clob'[NextId].side = s /\ clob'[NextId].size = n
           /\ clob'[NextId].matched = x /\ clob'[NextId].maker = maker
           /\ clob'[NextId].live = (x < n)
  <1> DEFINE new == [side |-> s, size |-> n, matched |-> x, live |-> x < n, market |-> m,
                     maker |-> maker]
  <1>0. clob \in Seq(Order) /\ Len(clob) \in Nat
    BY FillFacts
  <1>1. /\ Len(clob') = Len(clob) + 1
        /\ \A i \in 1..Len(clob) : clob'[i] = clob[i]
        /\ clob'[Len(clob) + 1] = new
    <2>1. clob' = Append(clob, new)
      BY DEF Accept
    <2> HIDE DEF new
    <2> QED
      BY <1>0, <2>1
  <1>2. Orders' \ Orders = {NextId}
    BY <1>0, <1>1 DEF Orders, NextId
  <1>3. OrdersSound(clob')
    <2> SUFFICES ASSUME NEW i \in 1..Len(clob')
                 PROVE  /\ clob'[i].matched <= clob'[i].size
                        /\ clob'[i].live => clob'[i].maker /\ clob'[i].matched < clob'[i].size
      BY DEF OrdersSound
    <2>1. CASE i \in 1..Len(clob)
      BY <1>1, <2>1 DEF OrdersSound
    <2>2. CASE i = Len(clob) + 1
      <3>1. /\ clob'[i].matched = x /\ clob'[i].size = n
            /\ clob'[i].live = (x < n) /\ clob'[i].maker = maker
        BY <1>1, <2>2
      <3> QED
        BY <3>1
    <2> QED
      BY <1>0, <1>1, <2>1, <2>2
  <1> QED
    BY <1>0, <1>1, <1>2, <1>3 DEF Orders, NextId, Evolves

LEMMA CancelEvolves ==
    ASSUME IInv, OrdersSound(clob),
           \/ UNCHANGED clob \/ CancelAll \/ \E j \in Orders : Cancel(j)
    PROVE  /\ OrdersSound(clob') /\ Len(clob') = Len(clob) /\ Orders' = Orders
           /\ \A i \in Orders : Evolves(clob[i], clob'[i])
           /\ \A j \in Orders : Cancel(j) => ~clob'[j].live
  <1>0. clob \in Seq(Order) /\ Len(clob) \in Nat /\ Orders = 1..Len(clob)
    BY FillFacts DEF Orders
  <1>d. \A o \in Order : /\ [o EXCEPT !.live = FALSE].live = FALSE
                         /\ [o EXCEPT !.live = FALSE].side = o.side
                         /\ [o EXCEPT !.live = FALSE].size = o.size
                         /\ [o EXCEPT !.live = FALSE].maker = o.maker
                         /\ [o EXCEPT !.live = FALSE].matched = o.matched
    BY DEF Order
  <1>1. /\ Len(clob') = Len(clob)
        /\ \A i \in Orders : clob'[i] = clob[i] \/ clob'[i] = [clob[i] EXCEPT !.live = FALSE]
        /\ \A j \in Orders : Cancel(j) => clob'[j] = [clob[j] EXCEPT !.live = FALSE]
    <2>1. CASE CancelAll
      BY <1>0, <2>1 DEF CancelAll, Cancel
    <2>2. ASSUME NEW j \in Orders, Cancel(j)
          PROVE  /\ Len(clob') = Len(clob)
                 /\ \A i \in Orders : clob'[i] = IF i = j THEN [clob[i] EXCEPT !.live = FALSE]
                                                 ELSE clob[i]
      <3> DEFINE o == [clob[j] EXCEPT !.live = FALSE]
      <3>1. clob' = [clob EXCEPT ![j] = o]
        BY <2>2 DEF Cancel
      <3> HIDE DEF o
      <3>2. /\ Len(clob') = Len(clob)
            /\ \A i \in Orders : clob'[i] = IF i = j THEN o ELSE clob[i]
        BY <1>0, <3>1
      <3> QED
        BY <3>2 DEF o
    <2> QED
      BY <2>1, <2>2
  <1>2. \A i \in Orders : clob[i] \in Order
    BY FillFacts
  <1>3. ASSUME NEW i \in Orders
        PROVE  /\ Evolves(clob[i], clob'[i])
               /\ clob'[i].matched = clob[i].matched
    BY <1>1, <1>2, <1>d DEF Evolves
  <1>4. OrdersSound(clob')
    BY <1>0, <1>1, <1>3 DEF OrdersSound, Evolves
  <1>5. \A j \in Orders : Cancel(j) => ~clob'[j].live
    BY <1>1, <1>2, <1>d
  <1> QED
    BY <1>0, <1>1, <1>3, <1>4, <1>5 DEF Orders

\* The report r is an answer to the command c, the orders being o.
Outcome(c, r, o) ==
    /\ Answers(c, r) /\ r.side = c.side /\ Announced(r, o)
    /\ r.kind \in {"posted", "filled"} => r.size = c.size
    /\ r.kind = "filled" => o[r.id].side = c.side
    /\ r.kind = "cancelled" => r.id = c.id
    /\ r.kind = "rebalanced" => r.size <= c.size + FokSlack

\* Where the reports come from: they answer commands, and a cancel's is
\* completed before it is sent.
Explained(r) == \/ r \in Waiting
                \/ \E c \in Sent : Outcome(c, r, clob')
                \/ \E p \in Waiting : /\ p.kind = "cancelled" /\ r.kind = "cancelled"
                                      /\ p.side = r.side /\ p.id = r.id

LEMMA TakesItems ==
    ASSUME IInv, UNCHANGED engineVars, NEW op, Receive(op), NEW r,
           Owe(r) \/ (r \in Feedback /\ Answer(r)), Outcome(Head(cmdq), r, clob')
    PROVE  Sent' \subseteq Sent /\ \A p \in Waiting' : Explained(p)
  <1>1. cmdq # <<>> /\ cmdq' = Tail(cmdq) /\ reply = <<>> /\ UNCHANGED pending_commands
    BY DEF Receive, engineVars
  <1>2. Range(cmdq) = {Head(cmdq)} \union Range(cmdq')
    BY <1>1, RangeTail, QueueFacts
  <1>3. Sent' \subseteq Sent /\ Head(cmdq) \in Sent
    BY <1>1, <1>2 DEF Sent
  <1>4. Waiting' \subseteq Waiting \union {r}
    <2>1. CASE Owe(r)
      <3>1. reply' = <<r>> /\ UNCHANGED fbq /\ Range(<<r>>) = {r}
        BY <2>1, RangeOne DEF Owe
      <3> QED
        BY <3>1 DEF Waiting
    <2>2. CASE r \in Feedback /\ Answer(r)
      <3>1. UNCHANGED reply /\ SendFeedback(r)
        BY <2>2 DEF Answer, executorVars
      <3>2. Range(fbq') \subseteq Range(fbq) \union {r}
        BY <2>2, <3>1, RangeAppend, QueueFacts DEF SendFeedback
      <3> QED
        BY <3>1, <3>2 DEF Waiting
    <2> QED
      BY <2>1, <2>2
  <1> QED
    BY <1>3, <1>4 DEF Explained

LEMMA RepliesItems ==
    ASSUME IInv, UNCHANGED <<engineVars, cmdq>>, reply # <<>>, reply' = <<>>,
           NEW r \in Feedback, SendFeedback(r), Explained(r)
    PROVE  Sent' \subseteq Sent /\ \A p \in Waiting' : Explained(p)
  <1>1. Sent' = Sent
    BY DEF Sent, engineVars
  <1>2. Range(fbq') \subseteq Range(fbq) \union {r}
    BY RangeAppend, QueueFacts DEF SendFeedback
  <1>3. Waiting' \subseteq Waiting \union {r}
    BY <1>2, RangeNone DEF Waiting
  <1> QED
    BY <1>1, <1>3 DEF Explained

LEMMA ExecutorEffect ==
    ASSUME IInv, IInv', OrdersSound(clob), ExecutorStep
    PROVE  /\ UNCHANGED engineVars
           /\ OrdersSound(clob') /\ Len(clob') >= Len(clob)
           /\ \A i \in Orders : Evolves(clob[i], clob'[i])
           /\ Sent' \subseteq Sent /\ \A r \in Waiting' : Explained(r)
  <1> DEFINE c == Head(cmdq)
             h == Head(reply)
             Keeps == /\ OrdersSound(clob') /\ Len(clob') >= Len(clob)
                      /\ \A i \in Orders : Evolves(clob[i], clob'[i])
             Items == Sent' \subseteq Sent /\ \A r \in Waiting' : Explained(r)
  <1>0. /\ UNCHANGED engineVars
        /\ 0 \in 0..MaxOrders /\ 0 \in Nat
        /\ Len(clob) \in Nat /\ Orders = 1..Len(clob) /\ NextId = Len(clob) + 1
        /\ FokSlack \in Nat
    BY ItemFacts, BoundsAssumption, ExecutorAssumption DEF ExecutorStep, NextId
  <1>t. ASSUME NEW op, Receive(op)
        PROVE  /\ c \in Command /\ c.op = op /\ c \in Sent
               /\ c.side \in MarketSide /\ c.size \in Nat
    <2>1. c \in Command /\ c.op = op
      BY <1>t, ReceiveType DEF Receive
    <2>2. cmdq # <<>> /\ cmdq \in Seq(Command)
      BY <1>t, QueueFacts DEF Receive
    <2>3. c \in Range(cmdq)
      BY <2>2, RangeTail
    <2> QED
      BY <2>1, <2>3 DEF Command, Sent
  <1>h. reply # <<>> => h \in Feedback /\ h \in Waiting
    BY QueueFacts, RangeTail DEF Waiting
  <1>a. ASSUME NEW s \in MarketSide, NEW n \in Nat, NEW x \in Nat, x <= n,
               NEW m, NEW maker \in BOOLEAN, x < n => maker, Accept(s, n, x, m, maker)
        PROVE  /\ Keeps /\ clob'[NextId].side = s /\ clob'[NextId].size = n
               /\ clob'[NextId].maker = maker
    BY <1>0, <1>a, AcceptEvolves
  <1>k. ASSUME \/ UNCHANGED clob \/ CancelAll \/ \E j \in Orders : Cancel(j)
        PROVE  Keeps
    BY <1>0, <1>k, CancelEvolves
  <1>o. ASSUME NEW op, Receive(op), NEW r, Owe(r), Outcome(c, r, clob')
        PROVE  Items
    BY <1>0, <1>o, TakesItems
  <1>n. ASSUME NEW op, Receive(op), NEW r \in Feedback, Answer(r), Outcome(c, r, clob')
        PROVE  Items /\ Keeps
    <2>1. UNCHANGED clob
      BY <1>n DEF Answer
    <2> HIDE DEF c
    <2>2. Items
      BY <1>0, <1>n, TakesItems DEF c
    <2> QED
      BY <1>k, <2>1, <2>2
  <1> HIDE DEF Keeps, Items
  <1>1. CASE PostAccepted
    <2> DEFINE r == OrderPosted(c.side, NextId, c.size)
               maker == TRUE
    <2>1. /\ Receive("post") /\ Owe(r) /\ Accept(c.side, c.size, 0, c.market, maker)
      BY <1>1 DEF PostAccepted
    <2>2. /\ c.op = "post" /\ c.side \in MarketSide /\ c.size \in Nat /\ 0 <= c.size
      BY <1>t, <2>1
    <2>3. r.kind = "posted" /\ r.id = NextId /\ r.side = c.side /\ r.size = c.size
      BY DEF OrderPosted
    <2>4. maker \in BOOLEAN /\ (0 < c.size => maker) /\ maker = TRUE
      OBVIOUS
    <2> HIDE DEF r, c, maker
    <2>5. /\ Keeps /\ clob'[NextId].side = c.side /\ clob'[NextId].size = c.size
          /\ clob'[NextId].maker = maker
      BY <1>0, <1>a, <2>1, <2>2, <2>4
    <2>6. Outcome(c, r, clob')
      BY <2>2, <2>3, <2>4, <2>5 DEF Outcome, Answers, Announced
    <2> QED
      BY <1>0, <1>o, <2>1, <2>5, <2>6 DEF Keeps, Items
  <1>2. CASE PostFilled
    <2> DEFINE r == OrderFilled(c.side, NextId, c.size)
               maker == TRUE
               n == c.size
    <2>1. /\ Receive("post") /\ Owe(r) /\ Accept(c.side, n, n, c.market, maker)
      BY <1>2 DEF PostFilled
    <2>2. /\ c.op = "post" /\ c.side \in MarketSide /\ n \in Nat /\ n <= n
      BY <1>t, <2>1
    <2>3. r.kind = "filled" /\ r.side = c.side /\ r.size = c.size /\ r.id = NextId
      BY DEF OrderFilled
    <2>4. maker \in BOOLEAN /\ (n < n => maker)
      OBVIOUS
    <2>5. Keeps /\ clob'[NextId].side = c.side
      <3> HIDE DEF r, c, maker, n
      <3> QED
        BY <1>0, <1>a, <2>1, <2>2, <2>4
    <2>6. Outcome(c, r, clob')
      <3> HIDE DEF r, c
      <3> QED
        BY <2>2, <2>3, <2>5 DEF Outcome, Answers, Announced
    <2>7. Items
      BY <1>o, <2>1, <2>6
    <2> HIDE DEF r, c, maker, n
    <2> QED
      BY <1>0, <2>5, <2>7 DEF Keeps, Items
  <1>3. CASE PostRejected
    <2> DEFINE r == OrderFailed(c.side)
    <2>1. /\ Receive("post") /\ Answer(r)
      BY <1>3 DEF PostRejected
    <2>2. c.op = "post" /\ c.side \in MarketSide
      BY <1>t, <2>1
    <2>3. r \in Feedback /\ r.kind = "failed" /\ r.side = c.side
      BY <1>0, <2>2, FeedbackTypes DEF OrderFailed
    <2>4. Outcome(c, r, clob')
      <3> HIDE DEF r, c
      <3> QED
        BY <2>2, <2>3 DEF Outcome, Answers, Announced
    <2> QED
      BY <1>0, <1>n, <2>1, <2>3, <2>4 DEF Keeps, Items
  <1>4. CASE PostErrored
    <2> DEFINE r == OrderFailed(c.side)
               maker == TRUE
    <2>1. /\ Receive("post") /\ Owe(r) /\ Accept(c.side, c.size, 0, c.market, maker)
      BY <1>4 DEF PostErrored
    <2>2. /\ c.op = "post" /\ c.side \in MarketSide /\ c.size \in Nat /\ 0 <= c.size
      BY <1>t, <2>1
    <2>3. r.kind = "failed" /\ r.side = c.side
      BY DEF OrderFailed
    <2>4. maker \in BOOLEAN /\ (0 < c.size => maker)
      OBVIOUS
    <2> HIDE DEF r, c, maker
    <2>5. Keeps
      BY <1>0, <1>a, <2>1, <2>2, <2>4
    <2>6. Outcome(c, r, clob')
      BY <2>2, <2>3 DEF Outcome, Answers, Announced
    <2> QED
      BY <1>0, <1>o, <2>1, <2>5, <2>6 DEF Keeps, Items
  <1>5. CASE HandleCancel
    <2> DEFINE r == CancelResult(c.side, c.id, 0, FALSE)
    <2>1. Receive("cancel") /\ Owe(r) /\ (Cancel(c.id) \/ UNCHANGED clob)
      BY <1>5 DEF HandleCancel
    <2>2. c \in Sent /\ c.op = "cancel"
      BY <1>t, <2>1
    <2>3. c.id \in Orders
      BY <2>2, ItemFacts
    <2>4. r.kind = "cancelled" /\ r.id = c.id /\ r.side = c.side
      BY DEF CancelResult
    <2> HIDE DEF r, c
    <2>5. Outcome(c, r, clob')
      BY <2>2, <2>4 DEF Outcome, Answers, Announced
    <2> QED
      BY <1>0, <1>k, <1>o, <2>1, <2>3, <2>5 DEF Keeps, Items
  <1>6. CASE CancelStatus
    <2> DEFINE r == CancelResult(h.side, h.id, clob[h.id].matched, TRUE)
    <2>1. /\ reply # <<>> /\ h.kind = "cancelled" /\ reply' = <<>> /\ UNCHANGED <<cmdq, clob>>
          /\ SendFeedback(r) \/ SendFeedback(h)
      BY <1>6 DEF CancelStatus
    <2>2. r.kind = "cancelled" /\ r.side = h.side /\ r.id = h.id
      BY DEF CancelResult
    <2>3. h.id \in Orders /\ clob[h.id].matched \in Nat /\ h \in Feedback /\ h \in Waiting
      BY <1>h, <2>1, ItemFacts
    <2>4. r \in Feedback
      BY <2>3 DEF Feedback, CancelResult
    <2>5. Explained(h) /\ Explained(r)
      BY <2>1, <2>2, <2>3 DEF Explained
    <2> HIDE DEF r, h
    <2>6. Items
      BY <1>0, <2>1, <2>3, <2>4, <2>5, RepliesItems DEF Items
    <2> QED
      BY <1>0, <1>k, <2>1, <2>6 DEF Keeps, Items
  <1>7. CASE Reply
    <2>1. /\ reply # <<>> /\ reply' = <<>> /\ UNCHANGED <<cmdq, clob>> /\ SendFeedback(h)
      BY <1>7 DEF Reply
    <2>2. h \in Feedback /\ Explained(h)
      BY <1>h, <2>1 DEF Explained
    <2>3. Items
      BY <1>0, <2>1, <2>2, RepliesItems DEF Items
    <2> QED
      BY <1>0, <1>k, <2>1, <2>3 DEF Keeps, Items
  <1>8. CASE TakerFilled
    <2>1. PICK n \in (c.size - FokSlack)..(c.size + FokSlack) :
             /\ n > 0 /\ Accept(c.side, n, n, c.market, FALSE)
             /\ Owe(RebalanceResult(c.side, NextId, n, TRUE))
      BY <1>8 DEF TakerFilled
    <2> DEFINE r == RebalanceResult(c.side, NextId, n, TRUE)
               maker == FALSE
    <2>2. Receive("rebalance") /\ Owe(r) /\ Accept(c.side, n, n, c.market, maker)
      BY <1>8, <2>1 DEF TakerFilled
    <2>3. /\ c.op = "rebalance" /\ c.side \in MarketSide /\ c.size \in Nat
      BY <1>t, <2>2
    <2>4. n \in Nat /\ n <= c.size + FokSlack /\ n <= n /\ ~(n < n)
      BY <1>0, <2>1, <2>3
    <2>5. r.kind = "rebalanced" /\ r.size = n /\ r.side = c.side
      BY DEF RebalanceResult
    <2>6. maker \in BOOLEAN /\ (n < n => maker)
      BY <2>4
    <2>7. Outcome(c, r, clob')
      <3> HIDE DEF r, c
      <3> QED
        BY <2>3, <2>4, <2>5 DEF Outcome, Answers, Announced
    <2>8. Items
      BY <1>o, <2>2, <2>7
    <2> HIDE DEF r, c, maker
    <2>9. Keeps
      BY <1>a, <2>2, <2>3, <2>4, <2>6
    <2> QED
      BY <1>0, <2>8, <2>9 DEF Keeps, Items
  <1>9. CASE TakerKilled
    <2> DEFINE r == RebalanceResult(c.side, 0, 0, FALSE)
    <2>1. /\ Receive("rebalance") /\ Answer(r)
      BY <1>9 DEF TakerKilled
    <2>2. c.op = "rebalance" /\ c.side \in MarketSide /\ c.size \in Nat
      BY <1>t, <2>1
    <2>3. r \in Feedback /\ r.kind = "rebalanced" /\ r.side = c.side /\ r.size = 0
      BY <1>0, <2>2, FeedbackTypes DEF RebalanceResult
    <2>4. Outcome(c, r, clob')
      <3> HIDE DEF r, c
      <3> QED
        BY <1>0, <2>2, <2>3 DEF Outcome, Answers, Announced
    <2> QED
      BY <1>0, <1>n, <2>1, <2>3, <2>4 DEF Keeps, Items
  <1>10. CASE TakerErrored
    <2> DEFINE r == RebalanceResult(c.side, 0, 0, FALSE)
               maker == FALSE
               n == c.size
    <2>1. /\ Receive("rebalance") /\ Owe(r) /\ Accept(c.side, n, n, c.market, maker)
      BY <1>10 DEF TakerErrored
    <2>2. /\ c.op = "rebalance" /\ c.side \in MarketSide /\ n \in Nat /\ n <= n /\ ~(n < n)
      BY <1>t, <2>1
    <2>3. r.kind = "rebalanced" /\ r.side = c.side /\ r.size = 0
      BY DEF RebalanceResult
    <2>4. maker \in BOOLEAN /\ (n < n => maker)
      BY <2>2
    <2>5. Outcome(c, r, clob')
      <3> HIDE DEF r, c
      <3> QED
        BY <1>0, <2>2, <2>3 DEF Outcome, Answers, Announced, n
    <2>6. Items
      BY <1>o, <2>1, <2>5
    <2> HIDE DEF r, c, maker, n
    <2>7. Keeps
      BY <1>a, <2>1, <2>2, <2>4
    <2> QED
      BY <1>0, <2>6, <2>7 DEF Keeps, Items
  <1>11. CASE Rotate
    <2>1. /\ Receive("rotate") /\ (CancelAll \/ UNCHANGED clob) /\ UNCHANGED <<fbq, reply>>
      BY <1>11 DEF Rotate
    <2>2. cmdq # <<>> /\ cmdq' = Tail(cmdq) /\ UNCHANGED pending_commands
      BY <1>0, <2>1 DEF Receive, engineVars
    <2>3. Sent' \subseteq Sent
      BY <2>2, RangeTail, QueueFacts DEF Sent
    <2>4. Waiting' = Waiting
      BY <2>1 DEF Waiting
    <2> QED
      BY <1>0, <1>k, <2>1, <2>3, <2>4 DEF Keeps, Explained
  <1> QED
    BY <1>1, <1>2, <1>3, <1>4, <1>5, <1>6, <1>7, <1>8, <1>9, <1>10, <1>11
       DEF ExecutorStep, ExecutorNext

\* A counterparty takes a share of a live order.
LEMMA ExchangeEffect ==
    ASSUME IInv, OrdersSound(clob), ExchangeStep
    PROVE  /\ UNCHANGED <<engineVars, cmdq, fbq, reply>>
           /\ OrdersSound(clob') /\ Len(clob') = Len(clob)
           /\ \A i \in Orders : Evolves(clob[i], clob'[i])
  <1>1. PICK j \in Orders : clob[j].maker /\ Match(j)
    BY DEF ExchangeStep
  <1>2. UNCHANGED <<channelVars, executorVars, engineVars>>
    BY DEF ExchangeStep
  <1> DEFINE o == [clob[j] EXCEPT !.matched = @ + 1,
                                  !.live = clob[j].matched + 1 < clob[j].size]
  <1>3. clob[j].live /\ clob' = [clob EXCEPT ![j] = o]
    BY <1>1 DEF Match
  <1>4. /\ clob[j] \in Order /\ clob \in Seq(Order) /\ Len(clob) \in Nat
        /\ Orders = 1..Len(clob)
        /\ clob[j].matched \in Nat /\ clob[j].size \in Nat
    BY FillFacts, ItemFacts
  <1>5. /\ o.side = clob[j].side /\ o.size = clob[j].size /\ o.maker = clob[j].maker
        /\ o.matched = clob[j].matched + 1
        /\ o.live = (clob[j].matched + 1 < clob[j].size)
    BY <1>4 DEF Order
  <1> HIDE DEF o
  <1>6. /\ Len(clob') = Len(clob) /\ Orders' = Orders
        /\ \A i \in Orders : clob'[i] = IF i = j THEN o ELSE clob[i]
    BY <1>3, <1>4 DEF Orders
  <1>7. clob[j].matched < clob[j].size /\ clob[j].maker
    BY <1>1, <1>3, <1>4 DEF OrdersSound
  <1>8. /\ OrdersSound(clob')
        /\ \A i \in Orders : Evolves(clob[i], clob'[i])
    <2>1. ASSUME NEW i \in Orders
          PROVE  /\ clob'[i].matched <= clob'[i].size
                 /\ clob'[i].live => clob'[i].maker /\ clob'[i].matched < clob'[i].size
                 /\ Evolves(clob[i], clob'[i])
      <3>1. CASE i = j
        <4>1. clob'[i] = o
          BY <1>6, <3>1
        <4>2. o.matched <= o.size /\ (o.live => o.matched < o.size)
          <5>1. clob[j].matched + 1 <= clob[j].size
            BY <1>4, <1>7
          <5>2. o.live => clob[j].matched + 1 < clob[j].size
            BY <1>5, Zenon
          <5> QED
            BY <1>5, <5>1, <5>2
        <4>m. o.maker
          BY <1>5, <1>7, Zenon
        <4>3. Evolves(clob[j], o)
          <5>1. o.side = clob[j].side /\ o.size = clob[j].size /\ o.maker = clob[j].maker
            BY <1>5
          <5>2. clob[j].live
            BY <1>3
          <5> QED
            BY <5>1, <5>2 DEF Evolves
        <4> QED
          BY <3>1, <4>1, <4>2, <4>m, <4>3
      <3>2. CASE i # j
        BY <1>4, <1>6, <3>2 DEF Evolves, OrdersSound
      <3> QED
        BY <3>1, <3>2
    <2> QED
      BY <1>4, <1>6, <2>1 DEF OrdersSound
  <1> QED
    BY <1>2, <1>4, <1>6, <1>8 DEF channelVars, executorVars

\* What is left to show of a step of the executor or of the exchange.
LEMMA OutsideSide ==
    ASSUME IInv, SideInv, UNCHANGED engineVars,
           OrdersSound(clob'), \A i \in Orders : Evolves(clob[i], clob'[i]),
           Sent' \subseteq Sent, \A r \in Waiting' : Explained(r)
    PROVE  SideInv'
  <1>0. UNCHANGED <<quoter, counted>>
    BY DEF engineVars
  <1>1. ASSUME NEW r \in Waiting'
        PROVE  Announced(r, clob')
    <2>1. CASE r \in Waiting
      BY <2>1, ItemFacts DEF SideInv, Announced, Evolves
    <2>2. CASE r \notin Waiting
      BY <1>1, <2>2 DEF Explained, Outcome, Announced
    <2> QED
      BY <2>1, <2>2
  <1>2. HeldFaithful(quoter, clob')
    BY ItemFacts DEF SideInv, HeldFaithful, Evolves
  <1>3. ASSUME NEW s, NEW i \in Orders, Target(s, i)
        PROVE  Target(s, i)'
    BY <1>0, <1>3 DEF Target, Evolves
  <1>4. ASSUME NEW c \in Sent, c.op = "cancel"
        PROVE  Target(c.side, c.id)'
    BY <1>3, <1>4, ItemFacts DEF SideInv, Aimed
  <1>5. ASSUME NEW r \in Waiting, r.kind = "cancelled"
        PROVE  Target(r.side, r.id)'
    BY <1>3, <1>5, ItemFacts DEF SideInv, Aimed
  <1>6. ASSUME NEW r \in Waiting', r.kind = "cancelled"
        PROVE  Target(r.side, r.id)'
    <2>1. CASE \E c \in Sent : Outcome(c, r, clob')
      <3>1. PICK c \in Sent : Outcome(c, r, clob')
        BY <2>1
      <3>2. c.op = "cancel" /\ c.side = r.side /\ c.id = r.id
        BY <1>6, <3>1 DEF Outcome, Answers
      <3> QED
        BY <1>4, <3>2
    <2> QED
      BY <1>5, <1>6, <2>1 DEF Explained
  <1>7. Aimed'
    BY <1>4, <1>6 DEF Aimed
  <1> QED
    BY <1>0, <1>1, <1>2, <1>7 DEF SideInv

LEMMA OutsideKeepsSide ==
    ASSUME IInv, IInv', SideInv, ExecutorStep \/ ExchangeStep
    PROVE  SideInv'
  <1>0. OrdersSound(clob)
    BY DEF SideInv
  <1>1. CASE ExecutorStep
    BY <1>0, <1>1, ExecutorEffect, OutsideSide
  <1>2. CASE ExchangeStep
    <2>1. /\ UNCHANGED <<engineVars, cmdq, fbq, reply>>
          /\ OrdersSound(clob') /\ \A i \in Orders : Evolves(clob[i], clob'[i])
      BY <1>0, <1>2, ExchangeEffect
    <2>2. Sent' = Sent /\ Waiting' = Waiting
      BY <2>1 DEF Sent, Waiting, engineVars
    <2>3. \A r \in Waiting' : Explained(r)
      BY <2>2 DEF Explained
    <2> QED
      BY <2>1, <2>2, <2>3, OutsideSide
  <1> QED
    BY <1>1, <1>2

-----------------------------------------------------------------------------
(* The engine takes a report.                                              *)

\* An order that is counted in full stays so.
LEMMA CountedStays ==
    ASSUME IInv, IInv', FillInv', OrdersSound(clob), UNCHANGED clob,
           NEW s, NEW i, NEW n \in Nat, RecordFill(s, i, n),
           NEW j \in Orders, counted[j] = clob[j].size
    PROVE  counted'[j] = clob'[j].size
  <1>1. /\ j \in OrderId /\ counted \in [OrderId -> Nat] /\ counted' \in [OrderId -> Nat]
        /\ clob[j].matched \in Nat /\ clob[j].size \in Nat
    BY FillFacts, FillFactsNext, ItemFacts
  <1>2. counted'[j] <= clob[j].matched /\ clob[j].matched <= clob[j].size
    BY DEF FillInv, NoDoubleCount, OrdersSound, Orders
  <1>3. counted'[j] >= counted[j]
    <2>1. CASE i = j
      BY <1>1, <2>1 DEF RecordFill
    <2>2. CASE i # j
      BY <1>1, <2>2 DEF RecordFill
    <2> QED
      BY <2>1, <2>2
  <1>4. counted'[j] \in Nat
    BY <1>1
  <1> QED
    BY <1>1, <1>2, <1>3, <1>4

\* What is left to show of a report.
LEMMA FeedSide ==
    ASSUME IInv, SideInv, UNCHANGED <<clob, reply>>, NEW kind, Feed(kind),
           HeldFaithful(quoter', clob),
           \A c \in Sent : c.op = "cancel" => Target(c.side, c.id)',
           \A r \in Waiting' : r.kind = "cancelled" => Target(r.side, r.id)'
    PROVE  SideInv'
  <1>1. Waiting' \subseteq Waiting /\ Sent' = Sent
    BY FeedItems
  <1>2. Aimed'
    BY <1>1 DEF Aimed
  <1>3. \A r \in Waiting' : Announced(r, clob')
    BY <1>1 DEF SideInv
  <1> QED
    BY <1>2, <1>3 DEF SideInv

\* The announcement of an order: until then the side had none, and its
\* quoter had asked for nothing else.
LEMMA PostedSide ==
    ASSUME IInv, IInv', SideInv, FlowInv, market <= 1, market' <= 1,
           UNCHANGED <<clob, reply>>, OnPosted
    PROVE  SideInv'
  <1> DEFINE r == Head(fbq)
             s == r.side
  <1>1. /\ Feed("posted") /\ quoter' = OnOrderPosted(quoter, s, r.id, r.size)
        /\ UNCHANGED counted
    BY DEF OnPosted, RecordNothing
  <1>2. /\ Waiting = {r} \union Waiting' /\ r.kind = "posted" /\ s \in MarketSide
    BY <1>1, FeedItems
  <1>3. r.id # 0 /\ Announced(r, clob)
    BY <1>2, ItemFacts DEF SideInv
  <1>4. quoter.pending_post[s]
    BY <1>2, NothingUnraised
  <1>5. ~quoter.pending_cancel[s]
    BY <1>2, <1>4 DEF SideInv, HeldFaithful
  <1> HIDE DEF r
  <1>6. /\ quoter'.order[s].id = r.id /\ quoter'.order[s].size = r.size
        /\ ~quoter'.pending_post[s]
        /\ quoter'.pending_cancel = quoter.pending_cancel
        /\ quoter'.last_cleared = quoter.last_cleared
        /\ \A t \in MarketSide : t # s => /\ quoter'.order[t] = quoter.order[t]
                                          /\ quoter'.pending_post[t] = quoter.pending_post[t]
    BY <1>1, <1>2, EngineFacts DEF OnOrderPosted, QuoterState
  <1>7. HeldFaithful(quoter', clob)
    <2> SUFFICES ASSUME NEW t \in MarketSide
                 PROVE  /\ quoter'.order[t].id # 0 =>
                              /\ clob[quoter'.order[t].id].side = t
                              /\ clob[quoter'.order[t].id].size = quoter'.order[t].size
                              /\ ~quoter'.pending_post[t]
                        /\ quoter'.pending_post[t] => ~quoter'.pending_cancel[t]
      BY DEF HeldFaithful
    <2>1. CASE t = s
      BY <1>2, <1>3, <1>6, <2>1 DEF Announced
    <2>2. CASE t # s
      BY <1>6, <2>2 DEF SideInv, HeldFaithful
    <2> QED
      BY <2>1, <2>2
  <1>8. /\ \A c \in Sent : c.op = "cancel" => c.side # s
        /\ \A p \in Waiting' : p.kind = "cancelled" => p.side # s
    BY <1>2, <1>5, NothingUnraised
  <1>9. /\ \A c \in Sent : c.side \in MarketSide
        /\ \A p \in Waiting' : p.side \in MarketSide
    BY <1>2, ItemFacts DEF Command, Feedback
  <1>10. ASSUME NEW t \in MarketSide, t # s, NEW i, Target(t, i)
         PROVE  Target(t, i)'
    BY <1>1, <1>6, <1>10 DEF Target
  <1>11. /\ \A c \in Sent : c.op = "cancel" => Target(c.side, c.id)'
         /\ \A p \in Waiting' : p.kind = "cancelled" => Target(p.side, p.id)'
    BY <1>2, <1>8, <1>9, <1>10 DEF SideInv, Aimed
  <1> QED
    BY <1>1, <1>7, <1>11, FeedSide

\* A report that leaves what is held alone.
LEMMA LastSide ==
    ASSUME IInv, IInv', SideInv, UNCHANGED <<clob, reply>>, NEW kind, Feed(kind),
           quoter'.order = quoter.order, quoter'.last_cleared = quoter.last_cleared,
           quoter'.pending_cancel = quoter.pending_cancel,
           \A s \in MarketSide : quoter'.pending_post[s] => quoter.pending_post[s],
           \A i \in Orders : counted[i] = clob[i].size => counted'[i] = clob[i].size
    PROVE  SideInv'
  <1>1. HeldFaithful(quoter', clob)
    BY DEF SideInv, HeldFaithful
  <1>2. ASSUME NEW s, NEW i \in Orders, Target(s, i)
        PROVE  Target(s, i)'
    BY <1>2 DEF Target
  <1>3. Waiting' \subseteq Waiting
    BY FeedItems
  <1>4. \A r \in Waiting' : r.kind = "cancelled" => Target(r.side, r.id)'
    BY <1>2, <1>3, ItemFacts DEF SideInv, Aimed
  <1>5. \A c \in Sent : c.op = "cancel" => Target(c.side, c.id)'
    BY <1>2, ItemFacts DEF SideInv, Aimed
  <1> QED
    BY <1>1, <1>4, <1>5, FeedSide

\* Placed and already filled, refused, or hedged.
LEMMA SettledSide ==
    ASSUME IInv, IInv', SideInv, FillInv', UNCHANGED <<clob, reply>>,
           OnAlreadyFilled \/ OnFailed \/ OnRebalanced
    PROVE  SideInv'
  <1> DEFINE r == Head(fbq)
             q == OnOrderFailed(quoter, r.side)
  <1>0. q.order = quoter.order /\ q.last_cleared = quoter.last_cleared
        /\ q.pending_cancel = quoter.pending_cancel
        /\ \A s \in MarketSide : q.pending_post[s] => quoter.pending_post[s]
    BY FillFacts DEF OnOrderFailed, QuoterState
  <1>1. PICK kind : Feed(kind)
    BY DEF OnAlreadyFilled, OnFailed, OnRebalanced
  <1>2. r.size \in Nat
    BY <1>1, FeedItems DEF Feedback
  <1>3. quoter' = q \/ quoter' = quoter
    BY DEF OnAlreadyFilled, OnFailed, OnRebalanced
  <1>4. UNCHANGED counted \/ RecordFill(r.side, r.id, r.size)
    BY DEF OnAlreadyFilled, OnFailed, OnRebalanced, RecordNothing
  <1>5. OrdersSound(clob)
    BY DEF SideInv
  <1> HIDE DEF q, r
  <1>6. ASSUME NEW i \in Orders, counted[i] = clob[i].size
        PROVE  counted'[i] = clob[i].size
    BY <1>2, <1>4, <1>5, <1>6, CountedStays
  <1> QED
    BY <1>0, <1>1, <1>3, <1>6, LastSide

LEMMA DeltaType ==
    ASSUME IInv, NEW r \in Feedback
    PROVE  CancelDelta(r) \in Nat
  <1>1. /\ quoter \in QuoterState /\ r.size \in Nat /\ r.side \in MarketSide
    BY FillFacts DEF Feedback
  <1>2. RecordedForCancel(quoter, r.side, r.id) \in Nat
    BY <1>1 DEF RecordedForCancel, QuoterState, ManagedOrder, ClearedOrder
  <1> QED
    BY <1>1, <1>2 DEF CancelDelta, Greatest

\* The result of a cancel, the only one of its side.
LEMMA CancelledSide ==
    ASSUME IInv, IInv', SideInv, FillInv', FlowInv', market <= 1, market' <= 1,
           UNCHANGED <<clob, reply>>, OnCancelled
    PROVE  SideInv'
  <1> DEFINE r == Head(fbq)
             s == r.side
             d == CancelDelta(r)
  <1>1. /\ Feed("cancelled") /\ quoter' = OnCancelResult(quoter, s) /\ RecordFill(s, r.id, d)
    BY DEF OnCancelled
  <1>2. /\ Waiting = {r} \union Waiting' /\ s \in MarketSide /\ r \in Feedback
    BY <1>1, FeedItems
  <1>3. d \in Nat
    BY <1>2, DeltaType
  <1>4. OrdersSound(clob)
    BY DEF SideInv
  <1> HIDE DEF r, d
  <1>5. ASSUME NEW i \in Orders, counted[i] = clob[i].size
        PROVE  counted'[i] = clob[i].size
    BY <1>1, <1>3, <1>4, <1>5, CountedStays
  <1>6. /\ quoter'.order[s].id = 0 /\ ~quoter'.pending_cancel[s]
        /\ quoter'.pending_post = quoter.pending_post
        /\ \A t \in MarketSide : t # s => /\ quoter'.order[t] = quoter.order[t]
                                          /\ quoter'.last_cleared[t] = quoter.last_cleared[t]
                                          /\ quoter'.pending_cancel[t] = quoter.pending_cancel[t]
    BY <1>1, <1>2, FillFacts DEF OnCancelResult, QuoterState, NoOrder
  <1>7. HeldFaithful(quoter', clob)
    <2> SUFFICES ASSUME NEW t \in MarketSide
                 PROVE  /\ quoter'.order[t].id # 0 =>
                              /\ clob[quoter'.order[t].id].side = t
                              /\ clob[quoter'.order[t].id].size = quoter'.order[t].size
                              /\ ~quoter'.pending_post[t]
                        /\ quoter'.pending_post[t] => ~quoter'.pending_cancel[t]
      BY DEF HeldFaithful
    <2>1. CASE t = s
      BY <1>6, <2>1
    <2>2. CASE t # s
      BY <1>6, <2>2 DEF SideInv, HeldFaithful
    <2> QED
      BY <2>1, <2>2
  <1>8. Sent' = Sent
    BY <1>1, FeedItems
  <1>9. /\ \A c \in Sent : c.op = "cancel" => c.side # s
        /\ \A p \in Waiting' : p.kind = "cancelled" => p.side # s
    BY <1>2, <1>6, <1>8, NoCancelUnraised
  <1>10. ASSUME NEW t \in MarketSide, t # s, NEW i \in Orders, Target(t, i)
         PROVE  Target(t, i)'
    BY <1>5, <1>6, <1>10 DEF Target
  <1>11. /\ \A c \in Sent : c.side \in MarketSide /\ (c.op = "cancel" => c.id \in Orders)
         /\ \A p \in Waiting' : p.side \in MarketSide
                                /\ (p.kind = "cancelled" => p.id \in Orders)
    BY <1>2, ItemFacts DEF Command, Feedback
  <1>12. /\ \A c \in Sent : c.op = "cancel" => Target(c.side, c.id)'
         /\ \A p \in Waiting' : p.kind = "cancelled" => Target(p.side, p.id)'
    BY <1>2, <1>9, <1>10, <1>11 DEF SideInv, Aimed
  <1> QED
    BY <1>1, <1>7, <1>12, FeedSide

LEMMA FeedbackSide ==
    ASSUME IInv, IInv', SideInv, FillInv', FlowInv, FlowInv', market <= 1, market' <= 1,
           UNCHANGED <<clob, reply>>, FeedbackNext
    PROVE  SideInv'
  BY PostedSide, SettledSide, CancelledSide DEF FeedbackNext

-----------------------------------------------------------------------------
(* What the engine asks for.                                               *)

Lead(s) == position[s] - position[Other(s)]

\* The largest size quote_tick asks a taker for, before the executor adjusts it.
TakerMost == Greatest(RebalanceSize, ClobMin)

\* No request of a side while a post of it is under way.
Polite(q) == \A s \in MarketSide :
                q.pending_post[s] => q.order[s].id = 0 /\ ~q.pending_cancel[s]

\* A post is no larger than an order may be and fits below the cap, and a taker is
\* for the lagging side.
Fits(c) == /\ c.op = "post" => /\ MinOrderSize <= MaxOrderSize => c.size <= MaxOrderSize
                               /\ position[c.side] + c.size <= MaxTotalShares
           /\ c.op = "rebalance" => c.size <= TakerMost /\ Lead(c.side) < 0

\* A quoter that was q and is p then sends the commands a.
Requests(q, p, a) ==
    /\ p.order = q.order /\ p.last_cleared = q.last_cleared
    /\ Polite(q) => Polite(p)
    /\ \A s \in MarketSide : p.pending_post[s] =>
           q.pending_post[s] \/ (q.order[s].id = 0 /\ Lead(s) < MaxUnpaired)
    /\ \A c \in Range(a) : Fits(c) /\ (c.op = "cancel" => q.order[c.side].id = c.id)

\* A step of the engine that only sends: a at once, b with the next event.
OnlySends ==
    /\ UNCHANGED <<fbq, counted, position>>
    /\ pc' \in {"recv", "quote"} \/ HasNoOpenPosition(quoter')
    /\ \E a \in Seq(Command) : \E b \in Seq(Command) :
          SendsNow(a, b) /\ Requests(quoter, quoter', b \o a)

LEMMA OnSidesRange ==
    ASSUME NEW S, NEW f
    PROVE  \A c \in Range(OnSides(S, f)) : \E s \in S \cap MarketSide : c = f[s]
  <1> DEFINE T == {f["yes"], f["no"]}
             a == IF "yes" \in S THEN <<f["yes"]>> ELSE <<>>
             b == IF "no" \in S THEN <<f["no"]>> ELSE <<>>
  <1>1. a \in Seq(T) /\ b \in Seq(T) /\ OnSides(S, f) = a \o b
    <2>1. f["yes"] \in T /\ f["no"] \in T
      OBVIOUS
    <2> HIDE DEF T
    <2>2. a \in Seq(T) /\ b \in Seq(T)
      BY <2>1
    <2> QED
      BY <2>2 DEF OnSides
  <1>2. /\ Range(a) = IF "yes" \in S THEN {f["yes"]} ELSE {}
        /\ Range(b) = IF "no" \in S THEN {f["no"]} ELSE {}
    BY RangeOne, RangeNone
  <1> HIDE DEF T, a, b
  <1>3. Range(a \o b) = Range(a) \union Range(b)
    BY <1>1, RangeConcat
  <1>4. ASSUME NEW c \in Range(a \o b)
        PROVE  \E s \in S \cap MarketSide : c = f[s]
    <2>1. \/ "yes" \in S /\ c = f["yes"]
          \/ "no" \in S /\ c = f["no"]
      BY <1>2, <1>3
    <2> QED
      BY <2>1 DEF MarketSide
  <1> QED
    BY <1>1, <1>3, <1>4

LEMMA RequestsConcat ==
    ASSUME NEW q, NEW p, NEW r, NEW a \in Seq(Command), NEW b \in Seq(Command),
           Requests(q, p, a), Requests(p, r, b)
    PROVE  Requests(q, r, a \o b)
  <1>1. Range(a \o b) = Range(a) \union Range(b)
    BY RangeConcat
  <1> QED
    BY <1>1 DEF Requests

\* Cancels are sent where an order rests.
LEMMA CancelRequests ==
    ASSUME IInv, NEW q \in KnownQuoter, NEW S
    PROVE  /\ CancelActions(q, S, market) \in Seq(Command)
           /\ Requests(q, OnCancelSent(q, Cancellable(q, S)), CancelActions(q, S, market))
  <1> DEFINE f == [s \in MarketSide |-> CancelOrder(s, q.order[s].id, market)]
             C == Cancellable(q, S)
             p == OnCancelSent(q, C)
  <1>1. CancelActions(q, S, market) \in Seq(Command)
    BY CancelRaises
  <1>2. CancelActions(q, S, market) = OnSides(C, f)
    BY DEF CancelActions
  <1>3. \A s \in MarketSide : f[s].side = s /\ f[s].id = q.order[s].id /\ Fits(f[s])
    BY DEF CancelOrder, Fits
  <1>4. /\ p.order = q.order /\ p.last_cleared = q.last_cleared
        /\ p.pending_post = q.pending_post
        /\ \A s \in MarketSide : p.pending_cancel[s] = (s \in C \/ q.pending_cancel[s])
        /\ \A s \in C : q.order[s].id # 0
    BY DEF OnCancelSent, Cancellable, Resting, KnownQuoter, QuoterState
  <1> HIDE DEF f, C, p
  <1>6. \A c \in Range(OnSides(C, f)) : \E s \in C \cap MarketSide : c = f[s]
    BY OnSidesRange
  <1>7. Polite(q) => Polite(p)
    BY <1>4 DEF Polite
  <1> QED
    BY <1>1, <1>2, <1>3, <1>4, <1>6, <1>7 DEF Requests, p, C

\* quote_tick acts on sides that wait for nothing: it posts where no order
\* rests and cancels where one does.
LEMMA MakerRequests ==
    ASSUME IInv, NEW act \in SUBSET MarketSide, \A s \in act : MayAct(s)
    PROVE  Requests(quoter,
                    OnCancelSent(MarkPostPending(quoter, Posts(act)), Requotes(act)),
                    MakerActions(act))
  <1> DEFINE f == [s \in MarketSide |->
                     IF Resting(quoter, s)
                     THEN CancelOrder(s, quoter.order[s].id, market)
                     ELSE PostOrder(s, OrderSize(position[s]), market)]
             m == MarkPostPending(quoter, Posts(act))
             p == OnCancelSent(m, Requotes(act))
  <1>0. quoter \in QuoterState /\ position \in [MarketSide -> Nat]
    BY EngineFacts DEF EngineTypeOK
  <1>1. \A s \in MarketSide : f[s].op = "cancel" =>
                                 f[s].side = s /\ f[s].id = quoter.order[s].id
    BY DEF CancelOrder, PostOrder
  <1>2. MakerActions(act) = OnSides(act, f)
    BY DEF MakerActions
  <1>3. /\ p.order = quoter.order /\ p.last_cleared = quoter.last_cleared
        /\ \A s \in MarketSide :
              /\ p.pending_post[s] = (s \in Posts(act) \/ quoter.pending_post[s])
              /\ p.pending_cancel[s] = (s \in Requotes(act) \/ quoter.pending_cancel[s])
    BY <1>0 DEF MarkPostPending, OnCancelSent, QuoterState
  <1>4. \A s \in act : ~quoter.pending_post[s] /\ ~quoter.pending_cancel[s]
    BY DEF MayAct, IsPending
  <1>5. \A s \in act : Lead(s) < MaxUnpaired
    BY <1>0, EngineAssumption DEF MayAct, Unpaired, Greatest, Lead, Other, MarketSide
  <1>8. ASSUME NEW s \in act
        PROVE  Fits(f[s])
    <2>1. position[s] \in Nat /\ position[s] < MaxTotalShares
      BY <1>0 DEF MayAct
    <2>2. /\ MinOrderSize <= MaxOrderSize => OrderSize(position[s]) <= MaxOrderSize
          /\ position[s] + OrderSize(position[s]) <= MaxTotalShares
      BY <2>1, OrderSizeFits
    <2>3. /\ f[s].op \in {"post", "cancel"}
          /\ f[s].op = "post" => f[s].size = OrderSize(position[s]) /\ f[s].side = s
      BY DEF CancelOrder, PostOrder
    <2> QED
      BY <2>2, <2>3 DEF Fits
  <1> HIDE DEF f, m, p
  <1>6. \A c \in Range(OnSides(act, f)) : \E s \in act \cap MarketSide : c = f[s]
    BY OnSidesRange
  <1>7. Polite(quoter) => Polite(p)
    BY <1>3, <1>4 DEF Polite, Posts, Requotes, Resting
  <1>9. \A s \in MarketSide : p.pending_post[s] =>
           quoter.pending_post[s] \/ (quoter.order[s].id = 0 /\ Lead(s) < MaxUnpaired)
    BY <1>3, <1>5 DEF Posts, Resting
  <1>10. ASSUME NEW c \in Range(OnSides(act, f))
         PROVE  Fits(c) /\ (c.op = "cancel" => quoter.order[c.side].id = c.id)
    <2>1. PICK s \in act \cap MarketSide : c = f[s]
      BY <1>6
    <2> QED
      BY <1>1, <1>8, <2>1
  <1> DEFINE a == MakerActions(act)
  <1>11. \A c \in Range(a) : Fits(c) /\ (c.op = "cancel" => quoter.order[c.side].id = c.id)
    BY <1>2, <1>10
  <1> HIDE DEF a
  <1>12. Requests(quoter, p, a)
    BY <1>3, <1>7, <1>9, <1>11 DEF Requests
  <1> QED
    BY <1>12 DEF p, m, a

\* The end of quote_tick: what the taker adds to the commands, and the loop
\* stops only when nothing rests and nothing pends.
LEMMA FinishRequests ==
    ASSUME IInv, NEW q \in KnownQuoter, NEW cmds \in Seq(Command),
           FinishQuoting(q, cmds)
    PROVE  /\ \E b \in Seq(Command) : cmdq' = cmdq \o (cmds \o b) /\ Requests(q, quoter', b)
           /\ UNCHANGED <<fbq, counted, position>>
           /\ pc' = "recv" \/ HasNoOpenPosition(quoter')
  <1>0. ASSUME NEW d, EndIteration(d)
        PROVE  /\ cmdq' = cmdq \o d /\ UNCHANGED <<fbq, counted, position>>
               /\ pc' = "recv" \/ HasNoOpenPosition(quoter')
    BY <1>0 DEF EndIteration
  <1>1. CASE NoRebalance(q, cmds)
    <2> DEFINE b == <<>>
    <2>1. quoter' = q /\ EndIteration(cmds)
      BY <1>1 DEF NoRebalance
    <2>2. b \in Seq(Command) /\ cmds \o b = cmds /\ Range(b) = {}
      BY RangeNone
    <2> HIDE DEF b
    <2>3. Requests(q, quoter', b)
      BY <2>1, <2>2 DEF Requests
    <2> QED
      BY <1>0, <2>1, <2>2, <2>3
  <1>2. ASSUME NEW s \in MarketSide, Lagging(s), Rebalance(q, s, cmds)
        PROVE  /\ \E b \in Seq(Command) : cmdq' = cmdq \o (cmds \o b)
                                          /\ Requests(q, quoter', b)
               /\ UNCHANGED <<fbq, counted, position>>
               /\ pc' = "recv" \/ HasNoOpenPosition(quoter')
    <2> DEFINE n == Greatest(Least(RebalanceSize, Imbalance), ClobMin)
               taker == RebalanceTaker(s, n, market)
               cancels == CancelActions(q, {s}, market)
               one == <<taker>>
    <2>1. market \in Market /\ position \in [MarketSide -> Nat]
      BY EngineFacts DEF EngineTypeOK
    <2>2. n \in Nat /\ n <= TakerMost
      <3>1. Unpaired("yes") \in Nat /\ Unpaired("no") \in Nat
        BY <2>1 DEF Unpaired, Greatest, Other, MarketSide
      <3>2. Imbalance \in Nat
        BY <3>1 DEF Imbalance, Greatest
      <3> QED
        BY <3>2, EngineAssumption DEF Least, Greatest, TakerMost
    <2>3. taker \in Command /\ taker.op = "rebalance" /\ taker.size = n /\ taker.side = s
      BY <2>1, <2>2, BoundsAssumption, CommandTypes DEF RebalanceTaker
    <2>l. Lead(s) < 0
      BY <1>2, <2>1 DEF Lagging, Unpaired, Greatest, Lead, Other, MarketSide
    <2>f. Fits(taker)
      BY <2>2, <2>3, <2>l DEF Fits
    <2>4. /\ quoter' = OnCancelSent(q, Cancellable(q, {s}))
          /\ EndIteration(cmds \o cancels \o one)
      BY <1>2 DEF Rebalance
    <2>5. Requests(q, quoter', cancels) /\ cancels \in Seq(Command)
      BY <2>4, CancelRequests
    <2>6. one \in Seq(Command)
      BY <2>3
    <2>r. Range(one) = {taker}
      BY RangeOne
    <2> HIDE DEF taker, cancels, one
    <2>7. Requests(quoter', quoter', one)
      BY <2>3, <2>f, <2>r DEF Requests
    <2> DEFINE b == cancels \o one
    <2>8. Requests(q, quoter', b)
      BY <2>5, <2>6, <2>7, RequestsConcat
    <2>9. b \in Seq(Command) /\ cmds \o cancels \o one = cmds \o b
      BY <2>5, <2>6
    <2> HIDE DEF b
    <2> QED
      BY <1>0, <2>4, <2>8, <2>9
  <1> QED
    BY <1>1, <1>2 DEF FinishQuoting, NeedsRebalance

LEMMA ConcatAssoc ==
    ASSUME NEW S, NEW a \in Seq(S), NEW b \in Seq(S), NEW c \in Seq(S)
    PROVE  b \o a \in Seq(S) /\ a \o c \in Seq(S) /\ (b \o a) \o c = b \o (a \o c)
  OBVIOUS

\* A step that only sends the cancels of some sides.
LEMMA SendsCancels ==
    ASSUME IInv, NEW S,
           quoter' = OnCancelSent(quoter, Cancellable(quoter, S)),
           SendsNow(CancelActions(quoter, S, market), <<>>),
           UNCHANGED <<fbq, counted, position>>,
           pc' \in {"recv", "quote"} \/ HasNoOpenPosition(quoter')
    PROVE  OnlySends
  <1> DEFINE a == CancelActions(quoter, S, market)
             e == <<>>
  <1>1. a \in Seq(Command) /\ Requests(quoter, quoter', a)
    BY CancelRequests, EngineFacts
  <1>2. e \in Seq(Command) /\ e \o a = a
    BY <1>1
  <1>3. SendsNow(a, e)
    OBVIOUS
  <1> HIDE DEF a, e
  <1> QED
    BY <1>1, <1>2, <1>3 DEF OnlySends

\* A step that asks for nothing.
LEMMA SendsNothing ==
    ASSUME IInv, SendsNow(<<>>, <<>>),
           UNCHANGED <<quoter, fbq, counted, position>>,
           pc' \in {"recv", "quote"} \/ HasNoOpenPosition(quoter')
    PROVE  OnlySends
  <1> DEFINE e == <<>>
  <1>1. e \in Seq(Command) /\ e \o e = e /\ Range(e) = {} /\ SendsNow(e, e)
    BY RangeNone
  <1> HIDE DEF e
  <1>2. Requests(quoter, quoter', e)
    BY <1>1 DEF Requests
  <1> QED
    BY <1>1, <1>2 DEF OnlySends

\* A quote action that holds back b and sends a, then the taker's commands.
LEMMA SendsFinished ==
    ASSUME IInv, NEW q \in KnownQuoter,
           NEW a \in Seq(Command), NEW b \in Seq(Command),
           Requests(quoter, q, b \o a),
           FinishQuoting(q, a), pending_commands' = pending_commands \o b
    PROVE  OnlySends
  <1>1. PICK c \in Seq(Command) : cmdq' = cmdq \o (a \o c) /\ Requests(q, quoter', c)
    BY FinishRequests
  <1>2. /\ UNCHANGED <<fbq, counted, position>>
        /\ pc' = "recv" \/ HasNoOpenPosition(quoter')
    BY FinishRequests
  <1>3. b \o a \in Seq(Command) /\ a \o c \in Seq(Command) /\ (b \o a) \o c = b \o (a \o c)
    BY ConcatAssoc
  <1>4. Requests(quoter, quoter', b \o (a \o c))
    <2>1. Requests(quoter, quoter', (b \o a) \o c)
      BY <1>1, <1>3, RequestsConcat
    <2> QED
      BY <1>3, <2>1
  <1> DEFINE d == a \o c
  <1>5. SendsNow(d, b) /\ d \in Seq(Command) /\ Requests(quoter, quoter', b \o d)
    BY <1>1, <1>3, <1>4 DEF SendsNow
  <1> HIDE DEF d
  <1> QED
    BY <1>2, <1>5 DEF OnlySends

LEMMA QuoteSends ==
    ASSUME IInv, QuoteNext
    PROVE  OnlySends
  <1>0. /\ quoter \in KnownQuoter /\ pending_commands \in Seq(Command)
        /\ cmdq \in Seq(Command)
        /\ Len(clob) \in Nat /\ Len(clob) <= MaxOrders
        /\ "yes" \in MarketSide
    BY EngineFacts, QueueFacts DEF MarketSide
  <1>e. ASSUME NEW d, EndIteration(d)
        PROVE  /\ cmdq' = cmdq \o d /\ UNCHANGED <<fbq, counted, position>>
               /\ pc' \in {"recv", "quote"} \/ HasNoOpenPosition(quoter')
    BY <1>e DEF EndIteration
  <1>1. CASE QuoteNothing
    <2>1. EndIteration(<<>>) /\ UNCHANGED <<quoter, pending_commands>>
      BY <1>1 DEF QuoteNothing, NoRebalance
    <2>2. SendsNow(<<>>, <<>>)
      <3>1. pending_commands \o <<>> = pending_commands
        BY <1>0
      <3> QED
        BY <1>e, <2>1, <3>1 DEF SendsNow
    <2> QED
      BY <1>e, <2>1, <2>2, SendsNothing
  <1>2. CASE QuoteDark
    <2> DEFINE q == OnCancelSent(quoter, Cancellable(quoter, MarketSide))
               b == CancelActions(quoter, MarketSide, market)
               e == <<>>
    <2>1. FinishQuoting(q, e) /\ pending_commands' = pending_commands \o b
      BY <1>2 DEF QuoteDark
    <2>2. q \in KnownQuoter
      BY <1>0, QuoterKeepsKnown
    <2>3. b \in Seq(Command) /\ Requests(quoter, q, b)
      BY <1>0, CancelRequests
    <2>4. e \in Seq(Command) /\ b \o e = b
      BY <2>3
    <2> HIDE DEF q, b, e
    <2> QED
      BY <2>1, <2>2, <2>3, <2>4, SendsFinished
  <1>3. ASSUME NEW postable \in Postable, QuoteZone(postable)
        PROVE  OnlySends
    <2> DEFINE S == MarketSide \ postable
    <2>1. /\ quoter' = OnCancelSent(quoter, Cancellable(quoter, S))
          /\ EndIteration(CancelActions(quoter, S, market))
          /\ UNCHANGED pending_commands
      BY <1>3 DEF QuoteZone
    <2>2. SendsNow(CancelActions(quoter, S, market), <<>>)
      <3>1. pending_commands \o <<>> = pending_commands
        BY <1>0
      <3> QED
        BY <1>e, <2>1, <3>1 DEF SendsNow
    <2> HIDE DEF S
    <2> QED
      BY <1>e, <2>1, <2>2, SendsCancels
  <1>4. ASSUME NEW postable \in Postable, QuoteMakers(postable)
        PROVE  OnlySends
    <2>1. PICK act \in SUBSET {s \in postable :
                                  MayAct(s) /\ ~(Lagging(s) /\ TakerWillHandle)} :
             FinishQuoting(OnCancelSent(MarkPostPending(quoter, Posts(act)),
                                        Requotes(act)),
                           MakerActions(act))
      BY <1>4 DEF QuoteMakers
    <2>2. act \in SUBSET MarketSide /\ \A s \in act : MayAct(s)
      BY DEF Postable
    <2> DEFINE a == MakerActions(act)
               q == OnCancelSent(MarkPostPending(quoter, Posts(act)), Requotes(act))
               e == <<>>
    <2>3. a \in Seq(Command)
      <3>1. a \in Seq(KnownCommand)
        BY <2>2, MakerActionsType
      <3> QED
        BY <3>1 DEF KnownCommand
    <2>4. q \in KnownQuoter
      <3>1. MarkPostPending(quoter, Posts(act)) \in KnownQuoter
        BY <1>0, QuoterKeepsKnown
      <3> QED
        BY <3>1, <1>0, QuoterKeepsKnown
    <2>5. Requests(quoter, q, a)
      BY <2>2, MakerRequests
    <2>6. pending_commands' = pending_commands \o e
      BY <1>0, <1>4 DEF QuoteMakers
    <2>7. e \in Seq(Command) /\ e \o a = a
      BY <2>3
    <2>8. FinishQuoting(q, a)
      BY <2>1
    <2> HIDE DEF a, q, e
    <2> QED
      BY <2>3, <2>4, <2>5, <2>6, <2>7, <2>8, SendsFinished
  <1> QED
    BY <1>1, <1>2, <1>3, <1>4 DEF QuoteNext

LEMMA ControlSends ==
    ASSUME IInv, ControlNext
    PROVE  OnlySends
  <1>0. pending_commands \o <<>> = pending_commands /\ cmdq \o <<>> = cmdq
    BY QueueFacts
  <1>1. CASE OnPause
    BY <1>0, <1>1, SendsCancels DEF OnPause, Receiving, SendsNow
  <1>2. CASE OnDrain \/ OnResume
    <2>1. /\ SendsNow(<<>>, <<>>) /\ UNCHANGED <<quoter, fbq, counted, position>>
          /\ pc' \in {"recv", "quote"} \/ HasNoOpenPosition(quoter')
      BY <1>0, <1>2 DEF OnDrain, OnResume, Receiving, channelVars, SendsNow
    <2> QED
      BY <2>1, SendsNothing
  <1> QED
    BY <1>1, <1>2 DEF ControlNext

LEMMA EventSends ==
    ASSUME IInv, EventNext
    PROVE  OnMarketRotation \/ OnlySends
  <1>d. ASSUME NEW a, Dispatch(a)
        PROVE  SendsNow(a, <<>>) /\ UNCHANGED fbq /\ pc' = "quote"
    BY <1>d DEF Dispatch, SendsNow
  <1>2. ASSUME Dispatch(<<>>), UNCHANGED <<quoter, counted, position>>
        PROVE  OnlySends
    BY <1>2, <1>d, SendsNothing
  <1>3. ASSUME NEW s \in MarketSide, OnBookUpdate(s)
        PROVE  OnlySends
    BY <1>2, <1>3 DEF OnBookUpdate
  <1>4. CASE OnHeartbeatOk \/ OnMarketData
    BY <1>2, <1>4 DEF OnHeartbeatOk, OnMarketData
  <1>5. CASE OnHeartbeatFailed
    <2>1. CASE HeartbeatDies
      <3>1. /\ quoter' = OnCancelSent(quoter, Cancellable(quoter, MarketSide))
            /\ Dispatch(CancelActions(quoter, MarketSide, market))
            /\ UNCHANGED <<counted, position>>
        BY <1>5, <2>1 DEF OnHeartbeatFailed
      <3> QED
        BY <1>d, <3>1, SendsCancels
    <2>2. CASE ~HeartbeatDies
      BY <1>2, <1>5, <2>2 DEF OnHeartbeatFailed
    <2> QED
      BY <2>1, <2>2
  <1> QED
    BY <1>3, <1>4, <1>5 DEF EventNext

LEMMA SentItems ==
    ASSUME IInv, NEW a \in Seq(Command), NEW b \in Seq(Command), SendsNow(a, b)
    PROVE  Sent' \subseteq Sent \union Range(b \o a)
  <1>0. /\ cmdq \in Seq(Command) /\ pending_commands \in Seq(Command)
        /\ cmdq \o pending_commands \in Seq(Command)
    BY QueueFacts
  <1>1. Range(b \o a) = Range(b) \union Range(a)
    BY RangeConcat
  <1>2. CASE cmdq' = cmdq \o a /\ pending_commands' = pending_commands \o b
    BY <1>0, <1>1, <1>2, RangeConcat DEF Sent
  <1>3. CASE cmdq' = (cmdq \o pending_commands) \o a /\ pending_commands' = <<>>
    <2> DEFINE p == cmdq \o pending_commands
    <2>1. p \in Seq(Command) /\ cmdq' = p \o a
      BY <1>0, <1>3
    <2>2. Range(p) = Range(cmdq) \union Range(pending_commands)
      BY <1>0, RangeConcat
    <2> HIDE DEF p
    <2>3. Range(cmdq') = Range(p) \union Range(a) /\ Range(pending_commands') = {}
      BY <1>3, <2>1, RangeConcat, RangeNone
    <2> QED
      BY <1>1, <2>2, <2>3 DEF Sent
  <1> QED
    BY <1>2, <1>3 DEF SendsNow

LEMMA SendsSide ==
    ASSUME IInv, SideInv, UNCHANGED <<clob, reply>>, OnlySends
    PROVE  SideInv'
  <1>1. PICK a \in Seq(Command) : \E b \in Seq(Command) :
           SendsNow(a, b) /\ Requests(quoter, quoter', b \o a)
    BY DEF OnlySends
  <1>2. PICK b \in Seq(Command) : SendsNow(a, b) /\ Requests(quoter, quoter', b \o a)
    BY <1>1
  <1>3. Sent' \subseteq Sent \union Range(b \o a)
    BY <1>2, SentItems
  <1>4. Waiting' = Waiting /\ UNCHANGED counted
    BY DEF Waiting, OnlySends
  <1>5. quoter'.order = quoter.order /\ quoter'.last_cleared = quoter.last_cleared
    BY <1>2 DEF Requests
  <1>6. HeldFaithful(quoter', clob)
    <2>1. Polite(quoter)
      BY DEF SideInv, HeldFaithful, Polite
    <2> QED
      BY <1>2, <1>5, <2>1 DEF Requests, SideInv, HeldFaithful, Polite
  <1>7. ASSUME NEW s, NEW i, Target(s, i)
        PROVE  Target(s, i)'
    BY <1>4, <1>5, <1>7 DEF Target
  <1>8. \A c \in Range(b \o a) : c.op = "cancel" => Target(c.side, c.id)
    BY <1>2 DEF Requests, Target
  <1>9. Aimed'
    BY <1>3, <1>4, <1>7, <1>8 DEF SideInv, Aimed
  <1> QED
    BY <1>4, <1>6, <1>9 DEF SideInv

-----------------------------------------------------------------------------
(* The rotation to the first market, which finds nothing.                  *)

LEMMA RotationFresh ==
    ASSUME IInv, IdleFirst, market <= 1, market' <= 1, OnMarketRotation
    PROVE  /\ Waiting = {} /\ UNCHANGED counted /\ pc' = "quote"
           /\ fbq = <<>> /\ fbq' = <<>> /\ reply = <<>>
           /\ quoter' = NewQuoter /\ position' = [s \in MarketSide |-> 0]
           /\ \A s \in MarketSide : quoter.order[s].id = 0
           /\ \A c \in Sent' : c.op = "rotate"
  <1> DEFINE c == MarketRotation(market + 1)
             one == <<c>>
  <1>1. /\ market' = market + 1 /\ quoter' = NewQuoter /\ UNCHANGED counted
        /\ position' = [s \in MarketSide |-> 0]
        /\ Dispatch(one)
    BY DEF OnMarketRotation
  <1>2. market = 0
    BY <1>1, EngineFacts DEF EngineTypeOK, Market
  <1>3. /\ cmdq = <<>> /\ pending_commands = <<>> /\ fbq = <<>> /\ reply = <<>>
        /\ \A s \in MarketSide : quoter.order[s].id = 0
    BY <1>2 DEF IdleFirst, Resting
  <1>4. cmdq' = one /\ pending_commands' = <<>> /\ fbq' = <<>> /\ pc' = "quote"
    BY <1>1, <1>3 DEF Dispatch
  <1>5. c.op = "rotate" /\ Range(one) = {c}
    BY RangeOne DEF MarketRotation
  <1> HIDE DEF c, one
  <1>6. Waiting = {} /\ Sent' = {c}
    BY <1>3, <1>4, <1>5, RangeNone DEF Waiting, Sent
  <1> QED
    BY <1>1, <1>3, <1>4, <1>5, <1>6

LEMMA RotationSide ==
    ASSUME IInv, SideInv, IdleFirst, market <= 1, market' <= 1, UNCHANGED <<clob, reply>>,
           OnMarketRotation
    PROVE  SideInv'
  <1>1. Waiting' = {} /\ quoter' = NewQuoter /\ \A c \in Sent' : c.op = "rotate"
    BY RotationFresh, RangeNone DEF Waiting
  <1>2. \A s \in MarketSide : ~NewQuoter.pending_post[s] /\ NewQuoter.order[s].id = 0
    BY DEF NewQuoter, NoOrder
  <1>3. HeldFaithful(quoter', clob') /\ Aimed'
    BY <1>1, <1>2 DEF HeldFaithful, Aimed
  <1> QED
    BY <1>1, <1>3 DEF SideInv

-----------------------------------------------------------------------------
(* A report of the user WebSocket.                                         *)

\* What a new cumulative count does to the quoter.
LEMMA ReportQuoter ==
    ASSUME IInv, NEW i \in Orders, NEW n \in Nat, NEW s \in MarketSide,
           quoter.order[s].id = i,
           quoter' = OnFill(RecordWsFill(quoter, s, n), s, n >= quoter.order[s].size)
    PROVE  /\ quoter'.pending_post = quoter.pending_post
           /\ quoter'.pending_cancel = quoter.pending_cancel
           /\ \A t \in MarketSide : t # s => /\ quoter'.order[t] = quoter.order[t]
                                             /\ quoter'.last_cleared[t] = quoter.last_cleared[t]
           /\ IF n >= quoter.order[s].size
              THEN quoter'.order[s].id = 0 /\ quoter'.last_cleared[s].id = i
              ELSE quoter'.order[s] = [id |-> i, size |-> quoter.order[s].size,
                                       size_filled |-> Greatest(quoter.order[s].size_filled, n)]
  <1> DEFINE w == RecordWsFill(quoter, s, n)
             full == n >= quoter.order[s].size
             m == Greatest(quoter.order[s].size_filled, n)
  <1>0. /\ quoter \in QuoterState /\ i # 0
        /\ quoter.order \in [MarketSide -> ManagedOrder]
    BY FillFacts, ItemFacts DEF QuoterState
  <1>1. /\ w \in QuoterState
        /\ w.last_cleared = quoter.last_cleared
        /\ w.pending_cancel = quoter.pending_cancel
        /\ w.pending_post = quoter.pending_post
        /\ w.order[s] = [id |-> i, size |-> quoter.order[s].size, size_filled |-> m]
        /\ \A t \in MarketSide : t # s => w.order[t] = quoter.order[t]
    <2>1. w \in QuoterState
      BY <1>0, QuoterMethods
    <2>2. w.order = [quoter.order EXCEPT ![s].size_filled = m]
      BY <1>0 DEF RecordWsFill, QuoterState
    <2>3. /\ w.last_cleared = quoter.last_cleared
          /\ w.pending_cancel = quoter.pending_cancel
          /\ w.pending_post = quoter.pending_post
      BY <1>0 DEF RecordWsFill, QuoterState
    <2> HIDE DEF m
    <2>4. w.order[s] = [id |-> i, size |-> quoter.order[s].size, size_filled |-> m]
      BY <1>0, <2>2 DEF ManagedOrder
    <2> QED
      BY <1>0, <2>1, <2>2, <2>3, <2>4
  <1> HIDE DEF w
  <1>2. Snapshot(w, s).id = i
    BY <1>0, <1>1 DEF Snapshot, Resting
  <1>3. CASE full
    BY <1>1, <1>2, <1>3 DEF OnFill, QuoterState, NoOrder, w
  <1>4. CASE ~full
    BY <1>1, <1>4 DEF OnFill, w
  <1> QED
    BY <1>3, <1>4

\* The report counts order i of side s up to n shares; the quoter drops the
\* order when that is all of it.
CountsTo(i, s, n) ==
    /\ quoter.order[s].id = i /\ n <= clob[i].matched /\ quoter.order[s].size_filled < n
    /\ counted'[i] = n /\ \A j \in Orders : j # i => counted'[j] = counted[j]
    /\ position' = [position EXCEPT ![s] = @ + (n - quoter.order[s].size_filled)]
    /\ quoter'.pending_post = quoter.pending_post
    /\ quoter'.pending_cancel = quoter.pending_cancel
    /\ \A t \in MarketSide : t # s => /\ quoter'.order[t] = quoter.order[t]
                                      /\ quoter'.last_cleared[t] = quoter.last_cleared[t]
    /\ IF n >= quoter.order[s].size
       THEN quoter'.order[s].id = 0 /\ quoter'.last_cleared[s].id = i
       ELSE quoter'.order[s] = [id |-> i, size |-> quoter.order[s].size, size_filled |-> n]

LEMMA ReportEffect ==
    ASSUME IInv, FillInv, UNCHANGED <<clob, reply>>, FillReport
    PROVE  /\ Sent' = Sent /\ Waiting' = Waiting /\ pc' = "quote" /\ UNCHANGED fbq
           /\ \/ UNCHANGED <<counted, quoter, position>>
              \/ \E i \in Orders : \E s \in MarketSide : \E n \in Nat : CountsTo(i, s, n)
  <1>0. PICK i \in Orders : \E n \in 1..clob[i].matched : OnTradeStatusUpdate(i, n)
    BY DEF FillReport
  <1>1. PICK n \in 1..clob[i].matched : OnTradeStatusUpdate(i, n)
    BY <1>0
  <1>2. Dispatch(<<>>) /\ UNCHANGED fbq /\ pc' = "quote"
    BY <1>1 DEF OnTradeStatusUpdate, Dispatch
  <1>3. Sent' = Sent /\ Waiting' = Waiting
    <2> DEFINE p == cmdq \o pending_commands
    <2>1. /\ cmdq \in Seq(Command) /\ pending_commands \in Seq(Command)
          /\ p \in Seq(Command)
      BY QueueFacts
    <2>2. cmdq' = p \o <<>> /\ pending_commands' = <<>>
      BY <1>2 DEF Dispatch
    <2>3. Range(p) = Range(cmdq) \union Range(pending_commands)
      BY <2>1, RangeConcat
    <2> HIDE DEF p
    <2>4. p \o <<>> = p
      BY <2>1
    <2> QED
      BY <1>2, <2>2, <2>3, <2>4, RangeNone DEF Sent, Waiting
  <1>4. ASSUME NEW s \in MarketSide, quoter.order[s].id = i,
               RecordFill(s, i, WsDelta(quoter, s, n)), WsDelta(quoter, s, n) # 0,
               quoter' = OnFill(RecordWsFill(quoter, s, n), s, n >= quoter.order[s].size)
        PROVE  n \in Nat /\ CountsTo(i, s, n)
    <2> DEFINE d == WsDelta(quoter, s, n)
               f == quoter.order[s].size_filled
    <2>0. /\ n \in Nat /\ clob[i].matched \in Nat /\ n <= clob[i].matched
          /\ i # 0 /\ i \in OrderId /\ counted[i] \in Nat /\ f \in Nat
          /\ counted[i] = f
      <3>1. clob[i].matched \in Nat /\ i # 0 /\ i \in OrderId /\ counted[i] \in Nat
        BY FillFacts
      <3>2. f \in Nat
        BY FillFacts DEF QuoterState, ManagedOrder
      <3>3. counted[i] = f
        BY <1>4, <3>1 DEF FillInv, QuoterSound, HeldSound
      <3> QED
        BY <3>1, <3>2, <3>3
    <2>1. d = n - f /\ f < n /\ Greatest(f, n) = n
      BY <1>4, <2>0 DEF WsDelta, Greatest
    <2>2. position' = [position EXCEPT ![s] = @ + d]
      BY <1>4 DEF RecordFill
    <2>3. counted' = [counted EXCEPT ![i] = @ + d]
      BY <1>4, <2>0 DEF RecordFill
    <2>r. /\ quoter'.pending_post = quoter.pending_post
          /\ quoter'.pending_cancel = quoter.pending_cancel
          /\ \A t \in MarketSide : t # s => /\ quoter'.order[t] = quoter.order[t]
                                            /\ quoter'.last_cleared[t] = quoter.last_cleared[t]
          /\ IF n >= quoter.order[s].size
             THEN quoter'.order[s].id = 0 /\ quoter'.last_cleared[s].id = i
             ELSE quoter'.order[s] = [id |-> i, size |-> quoter.order[s].size,
                                      size_filled |-> Greatest(f, n)]
      BY <1>4, <2>0, ReportQuoter
    <2> HIDE DEF d
    <2>4. counted'[i] = n /\ \A j \in Orders : j # i => counted'[j] = counted[j]
      <3>1. counted[i] + d = n
        BY <2>0, <2>1
      <3> QED
        BY <2>0, <2>3, <3>1, FillFacts
    <2> QED
      BY <1>4, <2>0, <2>1, <2>2, <2>4, <2>r DEF CountsTo
  <1>5. ASSUME NEW s \in MarketSide, quoter.order[s].id = i,
               RecordFill(s, i, WsDelta(quoter, s, n)), WsDelta(quoter, s, n) = 0
        PROVE  UNCHANGED <<counted, position>>
    <2>1. position \in [MarketSide -> Nat] /\ counted \in [OrderId -> Nat]
      BY EngineFacts, FillFacts DEF EngineTypeOK
    <2> QED
      BY <1>5, <2>1 DEF RecordFill
  <1> QED
    BY <1>1, <1>2, <1>3, <1>4, <1>5 DEF OnTradeStatusUpdate, RecordNothing

\* The order is dropped only when the exchange has nothing left of it to
\* match, and everything is counted then.
LEMMA ReportSide ==
    ASSUME IInv, IInv', FillInv, SideInv, UNCHANGED <<clob, reply>>, FillReport
    PROVE  SideInv'
  <1>0. Sent' = Sent /\ Waiting' = Waiting
    BY ReportEffect
  <1>1. CASE UNCHANGED <<counted, quoter, position>>
    BY <1>0, <1>1 DEF SideInv, Aimed, Target
  <1>2. ASSUME NEW i \in Orders, NEW s \in MarketSide, NEW n \in Nat, CountsTo(i, s, n)
        PROVE  SideInv'
    <2>1. /\ clob[i].side = s /\ clob[i].size = quoter.order[s].size /\ i # 0
          /\ clob[i].size \in Nat /\ clob[i].matched \in Nat /\ clob[i].matched <= clob[i].size
          /\ ~quoter.pending_post[s]
      <3>1. clob[i].matched <= clob[i].size
        BY DEF SideInv, OrdersSound, Orders
      <3> QED
        BY <1>2, <3>1, ItemFacts, FillFacts DEF SideInv, HeldFaithful, CountsTo
    <2>2. n >= quoter.order[s].size => counted'[i] = clob[i].size
      BY <1>2, <2>1 DEF CountsTo
    <2>3. HeldFaithful(quoter', clob)
      <3> SUFFICES ASSUME NEW t \in MarketSide
                   PROVE  /\ quoter'.order[t].id # 0 =>
                                /\ clob[quoter'.order[t].id].side = t
                                /\ clob[quoter'.order[t].id].size = quoter'.order[t].size
                                /\ ~quoter'.pending_post[t]
                          /\ quoter'.pending_post[t] => ~quoter'.pending_cancel[t]
        BY DEF HeldFaithful
      <3>1. CASE t = s
        BY <1>2, <2>1, <3>1 DEF SideInv, HeldFaithful, CountsTo
      <3>2. CASE t # s
        BY <1>2, <3>2 DEF SideInv, HeldFaithful, CountsTo
      <3> QED
        BY <3>1, <3>2
    <2>4. ASSUME NEW t \in MarketSide, NEW j \in Orders, Target(t, j)
          PROVE  Target(t, j)'
      <3>1. counted[j] = clob[j].size => counted'[j] = clob[j].size
        <4>1. counted[i] <= clob[i].matched /\ counted[i] = quoter.order[s].size_filled
              /\ counted[i] \in Nat
          BY <1>2, <2>1, FillFacts DEF FillInv, NoDoubleCount, QuoterSound, HeldSound, CountsTo
        <4>2. counted[i] # clob[i].size
          BY <1>2, <2>1, <4>1 DEF CountsTo
        <4> QED
          BY <1>2, <4>2 DEF CountsTo
      <3>2. CASE t = s
        <4>1. j = i
          BY <1>2, <2>1, <2>4, <3>2 DEF Target, CountsTo
        <4> QED
          BY <1>2, <2>2, <3>2, <4>1 DEF Target, CountsTo
      <3>3. CASE t # s
        BY <1>2, <2>4, <3>1, <3>3 DEF Target, CountsTo
      <3> QED
        BY <3>2, <3>3
    <2>5. /\ \A c \in Sent : c.side \in MarketSide /\ (c.op = "cancel" => c.id \in Orders)
          /\ \A p \in Waiting : p.side \in MarketSide
                                /\ (p.kind = "cancelled" => p.id \in Orders)
      BY ItemFacts DEF Command, Feedback
    <2>6. Aimed'
      BY <1>0, <2>4, <2>5 DEF SideInv, Aimed
    <2> QED
      BY <1>0, <2>3, <2>6 DEF SideInv
  <1> QED
    BY <1>1, <1>2, ReportEffect

-----------------------------------------------------------------------------

LEMMA SideNext ==
    ASSUME market <= 1, market' <= 1, IInv, IInv', FillInv, FillInv', FlowInv, FlowInv', IdleFirst,
           SideInv, [Next]_vars
    PROVE  SideInv'
  <1>k. ASSUME UNCHANGED <<quoter, counted, clob, cmdq, pending_commands, fbq, reply>>
        PROVE  SideInv'
    BY <1>k DEF SideInv, Aimed, Target, Sent, Waiting
  <1>1. CASE EngineStep
    <2>1. UNCHANGED <<clob, reply>>
      BY <1>1 DEF EngineStep, executorVars
    <2> QED
      BY <1>1, <2>1, FeedbackSide, RotationSide, EventSends, ControlSends, QuoteSends,
         SendsSide, ReportSide DEF EngineStep
  <1>2. CASE ExecutorStep \/ ExchangeStep
    BY <1>2, OutsideKeepsSide
  <1>4. CASE ProcessExit
    BY <1>4, <1>k DEF ProcessExit, channelVars, executorVars
  <1>5. CASE UNCHANGED vars
    BY <1>5, <1>k DEF vars, channelVars, executorVars, engineVars
  <1> QED
    BY <1>1, <1>2, <1>4, <1>5 DEF Next

LEMMA SideInit == Init => SideInv
  <1> SUFFICES ASSUME Init
               PROVE  SideInv
    OBVIOUS
  <1>1. /\ cmdq = <<>> /\ pending_commands = <<>> /\ fbq = <<>> /\ reply = <<>>
        /\ clob = <<>> /\ quoter = NewQuoter
    BY DEF Init, ExchangeInit, ExecutorInit, EngineInit
  <1>2. Sent = {} /\ Waiting = {}
    BY <1>1, RangeNone DEF Sent, Waiting
  <1>3. OrdersSound(clob)
    BY <1>1 DEF OrdersSound
  <1>4. HeldFaithful(quoter, clob)
    BY <1>1 DEF HeldFaithful, NewQuoter, NoOrder
  <1> QED
    BY <1>2, <1>3, <1>4 DEF SideInv, Aimed

\* Markets only move forward: before the first there was none.
LEMMA MarketForward ==
    ASSUME IInv, [Next]_vars, market' <= 1
    PROVE  market <= 1
  <1> SUFFICES market' = market \/ market' = market + 1
    BY EngineFacts DEF EngineTypeOK, Market
  <1>1. CASE FeedbackNext
    BY <1>1 DEF FeedbackNext, OnPosted, OnAlreadyFilled, OnFailed, OnCancelled, OnRebalanced,
                Feed
  <1>2. CASE EventNext
    BY <1>2 DEF EventNext, OnMarketRotation, OnBookUpdate, OnHeartbeatOk, OnHeartbeatFailed,
                OnMarketData
  <1>3. CASE FillReport
    BY <1>3 DEF FillReport, OnTradeStatusUpdate
  <1>4. CASE ControlNext
    BY <1>4 DEF ControlNext, OnDrain, OnPause, OnResume
  <1>5. CASE QuoteNext
    <2>1. \E cmds : EndIteration(cmds)
      BY <1>5 DEF QuoteNext, QuoteNothing, QuoteDark, QuoteZone, QuoteMakers, FinishQuoting,
                  Rebalance, NoRebalance
    <2> QED
      BY <2>1 DEF EndIteration
  <1>6. CASE ExecutorStep \/ ExchangeStep \/ ProcessExit
    BY <1>6 DEF ExecutorStep, ExchangeStep, ProcessExit, engineVars
  <1>7. CASE UNCHANGED vars
    BY <1>7 DEF vars, engineVars
  <1> QED
    BY <1>1, <1>2, <1>3, <1>4, <1>5, <1>6, <1>7 DEF Next, EngineStep

LEMMA SideHolds ==
    ASSUME ChannelCap >= 5 * MaxMarkets
    PROVE  Spec => [](IInv /\ FillInv /\ FlowInv /\ IdleFirst /\ (market <= 1 => SideInv))
  <1>1. IInv /\ FillInv /\ FlowInv /\ IdleFirst /\ (market <= 1 => SideInv)
           /\ IInv' /\ FillInv' /\ FlowInv' /\ [Next]_vars
           => (market <= 1 => SideInv)'
    BY SideNext, MarketForward
  <1> QED
    BY <1>1, SideInit, FlowHolds, IdsAlwaysKnown, FillInvHolds, PTL DEF Spec

-----------------------------------------------------------------------------
(* What a side may still gain over the other: the rest of its maker order, *)
(* the largest one while a post of it is under way, and the taker hedge    *)
(* under way.                                                              *)

Rest(s) == IF quoter.pending_post[s] THEN MaxOrderSize
           ELSE IF quoter.order[s].id # 0
                THEN quoter.order[s].size - quoter.order[s].size_filled
                ELSE 0

HedgeComing(s) == \/ \E c \in Sent : c.op = "rebalance" /\ c.side = s
                  \/ \E r \in Waiting : r.kind = "rebalanced" /\ r.side = s
Hedge(s) == IF HedgeComing(s) THEN MaxTaker ELSE 0

Exposure(s) == Lead(s) + Rest(s) + Hedge(s)
ExposureMost == (MaxUnpaired - 1) + MaxOrderSize + MaxTaker

\* No order and no hedge is larger than it may be.
SizesFit ==
    /\ \A c \in Sent : /\ c.op = "post" => c.size <= MaxOrderSize
                       /\ c.op = "rebalance" => c.size <= TakerMost
    /\ \A r \in Waiting : /\ r.kind \in {"posted", "filled"} => r.size <= MaxOrderSize
                          /\ r.kind = "rebalanced" => r.size <= MaxTaker
    /\ \A s \in MarketSide : quoter.order[s].id # 0 =>
                                 quoter.order[s].size <= MaxOrderSize

ExposureInv == /\ SizesFit
               /\ \A s \in MarketSide : Exposure(s) <= ExposureMost

LEMMA ExposureTypes ==
    ASSUME IInv, NEW s \in MarketSide
    PROVE  /\ Lead(s) \in Int /\ Rest(s) \in Int /\ Hedge(s) \in Nat /\ Hedge(s) <= MaxTaker
           /\ position[s] \in Nat /\ Other(s) \in MarketSide /\ position[Other(s)] \in Nat
           /\ quoter.order[s].size \in Nat /\ quoter.order[s].size_filled \in Nat
  <1>1. position \in [MarketSide -> Nat] /\ Other(s) \in MarketSide /\ MaxTaker \in Nat
        /\ MaxOrderSize \in Nat
    BY EngineFacts, EngineAssumption, ExecutorAssumption, SizingAssumption
       DEF EngineTypeOK, Other, MarketSide, MaxTaker, Greatest
  <1>2. quoter.order[s].size \in Nat /\ quoter.order[s].size_filled \in Nat
    BY FillFacts DEF QuoterState, ManagedOrder
  <1> QED
    BY <1>1, <1>2 DEF Lead, Rest, Hedge

LEMMA ExposureTypesNext ==
    ASSUME IInv', NEW s \in MarketSide
    PROVE  /\ Lead(s)' \in Int /\ Rest(s)' \in Int /\ Hedge(s)' \in Nat
           /\ Hedge(s)' <= MaxTaker
           /\ quoter'.order[s].size \in Nat /\ quoter'.order[s].size_filled \in Nat
  <1>1. position' \in [MarketSide -> Nat] /\ Other(s) \in MarketSide /\ MaxTaker \in Nat
        /\ MaxOrderSize \in Nat
    BY EngineAssumption, ExecutorAssumption, SizingAssumption
       DEF IInv, TypeOK, EngineTypeOK, Other, MarketSide, MaxTaker, Greatest
  <1>2. quoter'.order[s].size \in Nat /\ quoter'.order[s].size_filled \in Nat
    <2>1. quoter' \in QuoterState
      BY DEF IInv, TypeOK, EngineTypeOK
    <2> QED
      BY <2>1 DEF QuoterState, ManagedOrder
  <1> QED
    BY <1>1, <1>2 DEF Lead, Rest, Hedge

LEMMA Bounds ==
    /\ MaxOrderSize \in Nat /\ MaxOrderSize >= 1 /\ MaxTaker \in Nat /\ MaxUnpaired \in Nat
    /\ ExposureMost \in Int /\ TakerMost \in Nat /\ FokSlack \in Nat
    /\ MaxTaker = TakerMost + FokSlack
  <1>1. MaxOrderSize \in Nat /\ MaxOrderSize >= 1
    BY SizingAssumption
  <1>2. TakerMost \in Nat /\ FokSlack \in Nat /\ MaxUnpaired \in Nat
    BY EngineAssumption, ExecutorAssumption DEF TakerMost, Greatest
  <1>3. MaxTaker = TakerMost + FokSlack
    BY DEF MaxTaker, TakerMost
  <1> QED
    BY <1>1, <1>2, <1>3 DEF ExposureMost

\* A side gains no more than it gives up of what it may still gain.
LEMMA NoMoreExposed ==
    ASSUME IInv, IInv', ExposureInv, NEW s \in MarketSide, NEW n \in Int,
           Lead(s)' <= Lead(s) + n, Rest(s)' + Hedge(s)' + n <= Rest(s) + Hedge(s)
    PROVE  Exposure(s)' <= ExposureMost
  <1> DEFINE a == Lead(s)  b == Rest(s)  c == Hedge(s)
             x == Lead(s)' y == Rest(s)' z == Hedge(s)'
  <1>1. a \in Int /\ b \in Int /\ c \in Int /\ x \in Int /\ y \in Int /\ z \in Int
        /\ ExposureMost \in Int
    BY ExposureTypes, ExposureTypesNext, Bounds
  <1>2. a + b + c <= ExposureMost
    BY DEF ExposureInv, Exposure
  <1>3. x <= a + n /\ y + z + n <= b + c
    OBVIOUS
  <1> HIDE DEF a, b, c, x, y, z
  <1>4. x + y + z <= ExposureMost
    BY <1>1, <1>2, <1>3
  <1> QED
    BY <1>4 DEF Exposure, x, y, z

\* A hedge does not come out of nothing.
LEMMA HedgeStays ==
    ASSUME IInv, IInv', NEW s \in MarketSide, HedgeComing(s)' => HedgeComing(s)
    PROVE  Hedge(s)' <= Hedge(s)
  <1>1. MaxTaker \in Nat /\ UNCHANGED MaxTaker
    BY Bounds
  <1> QED
    BY <1>1 DEF Hedge

LEMMA OutsideExposure ==
    ASSUME IInv, IInv', ExposureInv, UNCHANGED engineVars,
           Sent' \subseteq Sent, \A r \in Waiting' : Explained(r)
    PROVE  ExposureInv'
  <1>0. UNCHANGED <<quoter, position>>
    BY DEF engineVars
  <1>1. \A r \in Waiting' : \/ r \in Waiting
                            \/ r.kind = "cancelled"
                            \/ \E c \in Sent : Outcome(c, r, clob')
    BY DEF Explained
  <1>2. SizesFit'
    <2>1. ASSUME NEW r \in Waiting'
          PROVE  /\ r.kind \in {"posted", "filled"} => r.size <= MaxOrderSize
                 /\ r.kind = "rebalanced" => r.size <= MaxTaker
      <3>1. CASE r \in Waiting
        BY <3>1 DEF ExposureInv, SizesFit
      <3>2. CASE r.kind = "cancelled"
        BY <3>2
      <3>3. ASSUME NEW c \in Sent, Outcome(c, r, clob')
            PROVE  /\ r.kind \in {"posted", "filled"} => r.size <= MaxOrderSize
                   /\ r.kind = "rebalanced" => r.size <= MaxTaker
        <4>1. r.kind \in {"posted", "filled"} => r.size <= MaxOrderSize
          BY <3>3 DEF Outcome, Answers, ExposureInv, SizesFit
        <4>2. CASE r.kind = "rebalanced"
          <5>1. c.op = "rebalance" /\ r.size <= c.size + FokSlack
            BY <3>3, <4>2 DEF Outcome, Answers
          <5>2. c.size <= TakerMost
            BY <5>1 DEF ExposureInv, SizesFit
          <5>3. c.size \in Nat /\ r.size \in Nat
            <6>1. r \in Feedback
              BY <2>1, RangeType DEF Waiting, IInv, TypeOK, ExecutorTypeOK
            <6> QED
              BY <6>1, ItemFacts DEF Feedback, Command
          <5>4. r.size <= MaxTaker
            BY <5>1, <5>2, <5>3, Bounds
          <5> QED
            BY <4>1, <5>4
        <4> QED
          BY <4>1, <4>2
      <3> QED
        BY <1>1, <3>1, <3>2, <3>3
    <2> QED
      BY <1>0, <2>1 DEF ExposureInv, SizesFit
  <1>3. ASSUME NEW s \in MarketSide
        PROVE  Exposure(s)' <= ExposureMost
    <2>1. ASSUME NEW r \in Waiting', r.kind = "rebalanced", r.side = s
          PROVE  HedgeComing(s)
      <3>1. CASE r \in Waiting
        BY <2>1, <3>1 DEF HedgeComing
      <3>2. ASSUME NEW c \in Sent, Outcome(c, r, clob')
            PROVE  HedgeComing(s)
        BY <2>1, <3>2 DEF Outcome, Answers, HedgeComing
      <3> QED
        BY <1>1, <2>1, <3>1, <3>2
    <2>2. HedgeComing(s)' => HedgeComing(s)
      BY <2>1 DEF HedgeComing
    <2>3. Lead(s)' = Lead(s) /\ Rest(s)' = Rest(s)
      BY <1>0 DEF Lead, Rest
    <2>4. Hedge(s)' <= Hedge(s)
      BY <2>2, HedgeStays
    <2>5. /\ Lead(s)' <= Lead(s) + 0 /\ Rest(s)' + Hedge(s)' + 0 <= Rest(s) + Hedge(s)
      BY <2>3, <2>4, ExposureTypes, ExposureTypesNext
    <2> QED
      BY <2>5, NoMoreExposed
  <1> QED
    BY <1>2, <1>3 DEF ExposureInv

LEMMA OutsideKeepsExposure ==
    ASSUME IInv, IInv', SideInv, ExposureInv, ExecutorStep \/ ExchangeStep
    PROVE  ExposureInv'
  <1>0. OrdersSound(clob)
    BY DEF SideInv
  <1>1. CASE ExecutorStep
    BY <1>0, <1>1, ExecutorEffect, OutsideExposure
  <1>2. CASE ExchangeStep
    <2>1. UNCHANGED <<engineVars, cmdq, fbq, reply>>
      BY <1>0, <1>2, ExchangeEffect
    <2>2. Sent' = Sent /\ Waiting' = Waiting /\ UNCHANGED engineVars
      BY <2>1 DEF Sent, Waiting, engineVars
    <2>3. \A r \in Waiting' : Explained(r)
      BY <2>2 DEF Explained
    <2> QED
      BY <2>2, <2>3, OutsideExposure
  <1> QED
    BY <1>1, <1>2

-----------------------------------------------------------------------------
(* The exposure, as the engine takes reports.                              *)

LEMMA FeedSizes ==
    ASSUME IInv, ExposureInv, UNCHANGED reply, NEW kind, Feed(kind),
           \A s \in MarketSide : \/ quoter'.order[s].id = 0
                                 \/ quoter'.order[s] = quoter.order[s]
                                 \/ quoter'.order[s].size <= MaxOrderSize
    PROVE  SizesFit' /\ \A s \in MarketSide : HedgeComing(s)' => HedgeComing(s)
  <1>1. Waiting' \subseteq Waiting /\ Sent' = Sent
    BY FeedItems
  <1> QED
    BY <1>1 DEF ExposureInv, SizesFit, HedgeComing

\* While a report is about the post of a side, the side has no order.
LEMMA PostPending ==
    ASSUME IInv, SideInv, FlowInv, market <= 1, NEW r \in Waiting,
           r.kind \in {"posted", "filled", "failed"}, r.side \in MarketSide
    PROVE  /\ quoter.pending_post[r.side] /\ quoter.order[r.side].id = 0
           /\ Rest(r.side) = MaxOrderSize
  <1>1. quoter.pending_post[r.side]
    BY NothingUnraised
  <1> QED
    BY <1>1 DEF SideInv, HeldFaithful, Rest

\* The post of a side is answered: n shares of it are recorded at once, the
\* rest of it rests.
LEMMA AnsweredExposure ==
    ASSUME IInv, IInv', SideInv, FlowInv, market <= 1, market' <= 1, ExposureInv,
           UNCHANGED <<clob, reply>>, NEW r, r = Head(fbq),
           OnPosted \/ OnAlreadyFilled \/ OnFailed
    PROVE  ExposureInv'
  <1> DEFINE s == r.side
  <1>1. PICK kind \in {"posted", "filled", "failed"} : Feed(kind) /\ r.kind = kind
    <2>1. \/ Feed("posted") \/ Feed("filled") \/ Feed("failed")
      BY DEF OnPosted, OnAlreadyFilled, OnFailed
    <2> QED
      BY <2>1 DEF Feed
  <1>2. /\ r \in Waiting /\ r \in Feedback /\ s \in MarketSide /\ r.size \in Nat
        /\ r.kind \in {"posted", "filled", "failed"}
    BY <1>1, FeedItems DEF Feedback
  <1>3. /\ quoter.pending_post[s] /\ quoter.order[s].id = 0 /\ Rest(s) = MaxOrderSize
    BY <1>2, PostPending
  <1>4. r.kind \in {"posted", "filled"} => r.size <= MaxOrderSize
    BY <1>2 DEF ExposureInv, SizesFit
  <1>5. quoter \in QuoterState /\ position \in [MarketSide -> Nat]
    BY EngineFacts DEF EngineTypeOK
  <1>6. \/ /\ r.kind = "posted" /\ UNCHANGED position
           /\ quoter' = OnOrderPosted(quoter, s, r.id, r.size)
        \/ /\ r.kind = "filled" /\ position' = [position EXCEPT ![s] = @ + r.size]
           /\ quoter' = OnOrderFailed(quoter, s)
        \/ /\ r.kind = "failed" /\ UNCHANGED position
           /\ quoter' = OnOrderFailed(quoter, s)
    BY DEF OnPosted, OnAlreadyFilled, OnFailed, Feed, RecordFill, RecordNothing
  <1>7. /\ ~quoter'.pending_post[s]
        /\ IF r.kind = "posted"
           THEN quoter'.order[s] = [id |-> r.id, size |-> r.size, size_filled |-> 0]
           ELSE quoter'.order[s].id = 0
        /\ \A t \in MarketSide : t # s => /\ quoter'.order[t] = quoter.order[t]
                                          /\ quoter'.pending_post[t] = quoter.pending_post[t]
    <2>1. CASE quoter' = OnOrderPosted(quoter, s, r.id, r.size) /\ r.kind = "posted"
      BY <1>2, <1>5, <2>1 DEF OnOrderPosted, QuoterState
    <2>2. CASE quoter' = OnOrderFailed(quoter, s) /\ r.kind # "posted"
      BY <1>2, <1>3, <1>5, <2>2 DEF OnOrderFailed, QuoterState
    <2> QED
      BY <1>6, <2>1, <2>2
  <1>8. \A t \in MarketSide : \/ quoter'.order[t].id = 0
                              \/ quoter'.order[t] = quoter.order[t]
                              \/ quoter'.order[t].size <= MaxOrderSize
    <2> SUFFICES ASSUME NEW t \in MarketSide
                 PROVE  \/ quoter'.order[t].id = 0
                        \/ quoter'.order[t] = quoter.order[t]
                        \/ quoter'.order[t].size <= MaxOrderSize
      OBVIOUS
    <2>1. CASE t = s /\ r.kind = "posted"
      BY <1>4, <1>7, <2>1
    <2>2. CASE t = s /\ r.kind # "posted"
      BY <1>7, <2>2
    <2>3. CASE t # s
      BY <1>7, <2>3
    <2> QED
      BY <2>1, <2>2, <2>3
  <1>9. SizesFit' /\ \A t \in MarketSide : HedgeComing(t)' => HedgeComing(t)
    BY <1>1, <1>8, FeedSizes
  <1>10. ASSUME NEW t \in MarketSide
         PROVE  Exposure(t)' <= ExposureMost
    <2>h. Hedge(t)' <= Hedge(t) /\ Hedge(t)' \in Nat /\ Hedge(t) \in Nat
          /\ Rest(t) \in Int /\ Lead(t) \in Int
      BY <1>9, HedgeStays, ExposureTypes, ExposureTypesNext
    <2>1. CASE t = s
      <3>1. CASE r.kind = "posted"
        <4>1. Rest(s)' = r.size - 0 \/ Rest(s)' = 0
          BY <1>3, <1>7, <3>1 DEF Rest
        <4>2. Rest(s)' \in Int /\ Rest(s)' <= Rest(s)
          BY <1>2, <1>3, <1>4, <3>1, <4>1, Bounds
        <4>3. Lead(s)' = Lead(s)
          BY <1>6, <3>1 DEF Lead
        <4>4. Lead(t)' <= Lead(t) + 0 /\ Rest(t)' + Hedge(t)' + 0 <= Rest(t) + Hedge(t)
          BY <2>1, <2>h, <4>2, <4>3
        <4> QED
          BY <4>4, NoMoreExposed
      <3>2. CASE r.kind = "filled"
        <4>1. Rest(s)' = 0
          BY <1>7, <3>2 DEF Rest
        <4>2. Lead(s)' = Lead(s) + r.size
          BY <1>2, <1>5, <1>6, <3>2 DEF Lead, Other, MarketSide
        <4>3. Lead(t)' <= Lead(t) + r.size
              /\ Rest(t)' + Hedge(t)' + r.size <= Rest(t) + Hedge(t)
          BY <1>2, <1>3, <1>4, <2>1, <2>h, <3>2, <4>1, <4>2, Bounds
        <4> QED
          BY <1>2, <4>3, NoMoreExposed
      <3>3. CASE r.kind = "failed"
        <4>1. Rest(s)' = 0
          BY <1>7, <3>3 DEF Rest
        <4>2. Lead(s)' = Lead(s)
          BY <1>6, <3>3 DEF Lead
        <4>3. Lead(t)' <= Lead(t) + 0 /\ Rest(t)' + Hedge(t)' + 0 <= Rest(t) + Hedge(t)
          BY <1>3, <2>1, <2>h, <4>1, <4>2, Bounds
        <4> QED
          BY <4>3, NoMoreExposed
      <3> QED
        BY <1>2, <3>1, <3>2, <3>3
    <2>2. CASE t # s
      <3>1. Rest(t)' = Rest(t)
        BY <1>7, <2>2 DEF Rest
      <3>2. Lead(t)' \in Int /\ Lead(t)' <= Lead(t)
        BY <1>2, <1>5, <1>6, <2>2 DEF Lead, Other, MarketSide
      <3>3. Lead(t)' <= Lead(t) + 0 /\ Rest(t)' + Hedge(t)' + 0 <= Rest(t) + Hedge(t)
        BY <2>h, <3>1, <3>2
      <3> QED
        BY <3>3, NoMoreExposed
    <2> QED
      BY <2>1, <2>2
  <1> QED
    BY <1>9, <1>10 DEF ExposureInv

\* A cancel result records no more than what was left of the order it is
\* about: the side's order, or one that was counted in full.
LEMMA CancelledExposure ==
    ASSUME IInv, IInv', SideInv, FillInv, FillInv', ExposureInv,
           UNCHANGED <<clob, reply>>, NEW r, r = Head(fbq),
           OnCancelled
    PROVE  ExposureInv'
  <1> DEFINE s == r.side
             d == CancelDelta(r)
  <1>1. /\ Feed("cancelled") /\ quoter' = OnCancelResult(quoter, s) /\ RecordFill(s, r.id, d)
    BY DEF OnCancelled
  <1>2. /\ r \in Waiting /\ s \in MarketSide /\ r \in Feedback /\ r.kind = "cancelled"
    BY <1>1, FeedItems
  <1>3. d \in Nat
    BY <1>2, DeltaType
  <1>4. /\ r.id \in Orders /\ r.id \in OrderId /\ r.id # 0
        /\ clob[r.id].size \in Nat /\ clob[r.id].matched \in Nat
        /\ clob[r.id].matched <= clob[r.id].size
        /\ counted[r.id] \in Nat
    <2>1. r.id \in Orders
      BY <1>2, ItemFacts
    <2>2. clob[r.id].matched <= clob[r.id].size
      BY <2>1 DEF SideInv, OrdersSound, Orders
    <2> QED
      BY <2>1, <2>2, FillFacts, ItemFacts
  <1>5. quoter \in QuoterState /\ position \in [MarketSide -> Nat]
    BY EngineFacts DEF EngineTypeOK
  <1>6. Target(s, r.id)
    BY <1>2 DEF SideInv, Aimed
  <1> HIDE DEF d
  <1>7. counted[r.id] + d <= clob[r.id].size
    <2>1. counted'[r.id] = counted[r.id] + d
      BY <1>1, <1>4, FillFacts DEF RecordFill
    <2>2. counted'[r.id] <= clob[r.id].matched
      BY <1>4 DEF FillInv, NoDoubleCount, Orders
    <2> QED
      BY <1>3, <1>4, <2>1, <2>2
  <1>8. /\ quoter'.order[s].id = 0
        /\ quoter'.pending_post = quoter.pending_post
        /\ \A t \in MarketSide : t # s => quoter'.order[t] = quoter.order[t]
    BY <1>1, <1>2, <1>5 DEF OnCancelResult, QuoterState, NoOrder
  <1>9. SizesFit' /\ \A t \in MarketSide : HedgeComing(t)' => HedgeComing(t)
    BY <1>1, <1>8, FeedSizes
  <1>10. Rest(s)' + d <= Rest(s)
    <2>1. CASE quoter.order[s].id = r.id
      <3>1. /\ ~quoter.pending_post[s]
            /\ quoter.order[s].size = clob[r.id].size
            /\ counted[r.id] = quoter.order[s].size_filled
        BY <1>2, <1>4, <2>1 DEF SideInv, HeldFaithful, FillInv, QuoterSound, HeldSound
      <3>2. Rest(s)' = 0 /\ Rest(s) = quoter.order[s].size - quoter.order[s].size_filled
        BY <1>4, <1>8, <2>1, <3>1 DEF Rest
      <3> QED
        BY <1>3, <1>4, <1>7, <3>1, <3>2
    <2>2. CASE quoter.order[s].id = 0 /\ counted[r.id] = clob[r.id].size
      <3>1. d = 0
        BY <1>3, <1>4, <1>7, <2>2
      <3>2. Rest(s)' = Rest(s) /\ Rest(s) \in Int
        BY <1>2, <1>8, <2>2, ExposureTypes DEF Rest
      <3> QED
        BY <3>1, <3>2
    <2> QED
      BY <1>6, <2>1, <2>2 DEF Target
  <1>11. position' = [position EXCEPT ![s] = @ + d]
    BY <1>1 DEF RecordFill
  <1>12. ASSUME NEW t \in MarketSide
         PROVE  Exposure(t)' <= ExposureMost
    <2>h. Hedge(t)' <= Hedge(t) /\ Hedge(t)' \in Nat /\ Hedge(t) \in Nat
          /\ Rest(t) \in Int /\ Lead(t) \in Int /\ Rest(t)' \in Int
      BY <1>9, HedgeStays, ExposureTypes, ExposureTypesNext
    <2>1. CASE t = s
      <3>1. Lead(s)' = Lead(s) + d
        BY <1>2, <1>3, <1>5, <1>11 DEF Lead, Other, MarketSide
      <3>2. Lead(t)' <= Lead(t) + d /\ Rest(t)' + Hedge(t)' + d <= Rest(t) + Hedge(t)
        BY <1>3, <1>10, <2>1, <2>h, <3>1
      <3> QED
        BY <1>3, <3>2, NoMoreExposed
    <2>2. CASE t # s
      <3>1. Rest(t)' = Rest(t)
        BY <1>8, <2>2 DEF Rest
      <3>2. Lead(t)' \in Int /\ Lead(t)' <= Lead(t)
        BY <1>2, <1>3, <1>5, <1>11, <2>2 DEF Lead, Other, MarketSide
      <3>3. Lead(t)' <= Lead(t) + 0 /\ Rest(t)' + Hedge(t)' + 0 <= Rest(t) + Hedge(t)
        BY <2>h, <3>1, <3>2
      <3> QED
        BY <3>3, NoMoreExposed
    <2> QED
      BY <2>1, <2>2
  <1> QED
    BY <1>9, <1>12 DEF ExposureInv

\* In the first market a hedge that is answered was the only one.
LEMMA NoHedgeUnraised ==
    ASSUME IInv', FlowInv', market' <= 1, ~pending_rebalance'
    PROVE  \A s : ~HedgeComing(s)'
  <1>0. Greatest(market', 1) = 1
    BY DEF IInv, TypeOK, EngineTypeOK, Market, Greatest
  <1>1. /\ cmdq' \in Seq(Command) /\ pending_commands' \in Seq(Command)
        /\ fbq' \in Seq(Feedback) /\ reply' \in Seq(Feedback)
    BY DEF IInv, TypeOK, ExecutorTypeOK, EngineTypeOK
  <1>2. Flag(pending_rebalance') = 0
    BY DEF Flag
  <1>3. Flow(Takers, Hedged)' <= 0
    BY <1>0, <1>2 DEF FlowInv, Backed
  <1>4. Num(pending_commands', Takers) + Num(cmdq', Takers)
           + Num(fbq', Hedged) + Num(reply', Hedged) <= 0
    BY <1>3 DEF Flow, Takers, Hedged
  <1>5. (\A c \in Sent' : c \notin Takers) /\ (\A r \in Waiting' : r \notin Hedged)
    BY <1>1, <1>4, NoneAround DEF Sent, Waiting
  <1>6. Sent' \subseteq Command /\ Waiting' \subseteq Feedback
    BY <1>1, RangeType DEF Sent, Waiting
  <1> QED
    BY <1>5, <1>6 DEF Takers, Hedged, HedgeComing

LEMMA RebalancedExposure ==
    ASSUME IInv, IInv', ExposureInv, FlowInv', market <= 1, market' <= 1,
           UNCHANGED <<clob, reply>>, NEW r, r = Head(fbq),
           OnRebalanced
    PROVE  ExposureInv'
  <1> DEFINE s == r.side
             n == IF r.ok THEN r.size ELSE 0
  <1>1. Feed("rebalanced") /\ UNCHANGED quoter /\ ~pending_rebalance'
    BY DEF OnRebalanced
  <1>2. /\ r \in Waiting /\ s \in MarketSide /\ r \in Feedback /\ r.kind = "rebalanced"
        /\ r.size \in Nat
    BY <1>1, FeedItems DEF Feedback
  <1>3. n \in Nat /\ n <= MaxTaker
    BY <1>2, Bounds DEF ExposureInv, SizesFit
  <1>5. position \in [MarketSide -> Nat]
    BY EngineFacts DEF EngineTypeOK
  <1>6. position' = [position EXCEPT ![s] = @ + n]
    BY <1>2, <1>5 DEF OnRebalanced, RecordFill, RecordNothing
  <1>h. Hedge(s) = MaxTaker
    BY <1>2 DEF Hedge, HedgeComing
  <1> HIDE DEF n
  <1>9. SizesFit'
    BY <1>1, FeedSizes
  <1>10. ASSUME NEW t \in MarketSide
         PROVE  Exposure(t)' <= ExposureMost
    <2>h. /\ Hedge(t)' = 0 /\ Hedge(t) \in Nat /\ Rest(t)' = Rest(t)
          /\ Rest(t) \in Int /\ Lead(t) \in Int
      <3>1. ~HedgeComing(t)'
        BY <1>1, NoHedgeUnraised
      <3> QED
        BY <1>1, <3>1, ExposureTypes DEF Hedge, Rest
    <2>1. CASE t = s
      <3>1. Lead(s)' = Lead(s) + n
        BY <1>2, <1>3, <1>5, <1>6 DEF Lead, Other, MarketSide
      <3>2. Lead(t)' <= Lead(t) + n /\ Rest(t)' + Hedge(t)' + n <= Rest(t) + Hedge(t)
        BY <1>3, <1>h, <2>1, <2>h, <3>1, Bounds
      <3> QED
        BY <1>3, <3>2, NoMoreExposed
    <2>2. CASE t # s
      <3>2. Lead(t)' \in Int /\ Lead(t)' <= Lead(t)
        BY <1>2, <1>3, <1>5, <1>6, <2>2 DEF Lead, Other, MarketSide
      <3>3. Lead(t)' <= Lead(t) + 0 /\ Rest(t)' + Hedge(t)' + 0 <= Rest(t) + Hedge(t)
        BY <2>h, <3>2
      <3> QED
        BY <3>3, NoMoreExposed
    <2> QED
      BY <2>1, <2>2
  <1> QED
    BY <1>9, <1>10 DEF ExposureInv

LEMMA FeedbackExposure ==
    ASSUME IInv, IInv', SideInv, FillInv, FillInv', FlowInv, FlowInv', market <= 1, market' <= 1,
           ExposureInv, UNCHANGED <<clob, reply>>, FeedbackNext
    PROVE  ExposureInv'
  <1>1. PICK r : r = Head(fbq)
    OBVIOUS
  <1> QED
    BY <1>1, AnsweredExposure, CancelledExposure, RebalancedExposure DEF FeedbackNext

-----------------------------------------------------------------------------
(* The exposure, as the engine counts fills and asks for orders.           *)

LEMMA ReportExposure ==
    ASSUME IInv, IInv', SideInv, FillInv, ExposureInv,
           UNCHANGED <<clob, reply>>, FillReport
    PROVE  ExposureInv'
  <1>0. Sent' = Sent /\ Waiting' = Waiting
    BY ReportEffect
  <1>1. CASE UNCHANGED <<counted, quoter, position>>
    BY <1>0, <1>1 DEF ExposureInv, SizesFit, Exposure, Lead, Rest, Hedge, HedgeComing
  <1>2. ASSUME NEW i \in Orders, NEW s \in MarketSide, NEW n \in Nat, CountsTo(i, s, n)
        PROVE  ExposureInv'
    <2> DEFINE f == quoter.order[s].size_filled
               m == quoter.order[s].size
    <2>1. /\ i # 0 /\ ~quoter.pending_post[s] /\ quoter.order[s].id = i
          /\ f \in Nat /\ m \in Nat /\ f < n /\ n <= m
          /\ position \in [MarketSide -> Nat]
      <3>1. /\ clob[i].matched <= clob[i].size /\ clob[i].matched \in Nat
            /\ clob[i].size \in Nat /\ i # 0
        BY FillFacts, ItemFacts DEF SideInv, OrdersSound, Orders
      <3>2. clob[i].size = m /\ ~quoter.pending_post[s]
        BY <1>2, <3>1 DEF SideInv, HeldFaithful, CountsTo
      <3>3. f \in Nat /\ m \in Nat
        BY ExposureTypes
      <3>4. n <= m
        BY <1>2, <3>1, <3>2 DEF CountsTo
      <3> QED
        BY <1>2, <3>1, <3>2, <3>3, <3>4, EngineFacts DEF CountsTo, EngineTypeOK
    <2>2. position' = [position EXCEPT ![s] = @ + (n - f)]
      BY <1>2 DEF CountsTo
    <2>3. /\ quoter'.pending_post = quoter.pending_post
          /\ \A t \in MarketSide : t # s => quoter'.order[t] = quoter.order[t]
          /\ IF n >= m THEN quoter'.order[s].id = 0
             ELSE quoter'.order[s] = [id |-> i, size |-> m, size_filled |-> n]
      BY <1>2 DEF CountsTo
    <2>4. Rest(s) = m - f
      BY <2>1 DEF Rest
    <2>5. Rest(s)' = m - n
      <3>1. CASE n >= m
        BY <2>1, <2>3, <3>1 DEF Rest
      <3>2. CASE ~(n >= m)
        BY <2>1, <2>3, <3>2 DEF Rest
      <3> QED
        BY <3>1, <3>2
    <2>6. ASSUME NEW t \in MarketSide, quoter'.order[t].id # 0
          PROVE  quoter'.order[t].size <= MaxOrderSize
      <3>1. m <= MaxOrderSize
        BY <2>1 DEF ExposureInv, SizesFit
      <3>2. CASE t = s
        BY <2>3, <2>6, <3>1, <3>2
      <3>3. CASE t # s
        BY <2>3, <2>6, <3>3 DEF ExposureInv, SizesFit
      <3> QED
        BY <3>2, <3>3
    <2>7. SizesFit'
      BY <1>0, <2>6 DEF ExposureInv, SizesFit
    <2> HIDE DEF f, m
    <2>8. ASSUME NEW t \in MarketSide
          PROVE  Exposure(t)' <= ExposureMost
      <3>h. /\ Hedge(t)' = Hedge(t) /\ Hedge(t) \in Nat /\ Rest(t) \in Int /\ Lead(t) \in Int
        BY <1>0, ExposureTypes DEF Hedge, HedgeComing
      <3>1. CASE t = s
        <4>1. Lead(s)' = Lead(s) + (n - f)
          BY <2>1, <2>2 DEF Lead, Other, MarketSide
        <4>2. /\ n - f \in Int /\ Lead(t)' <= Lead(t) + (n - f)
              /\ Rest(t)' + Hedge(t)' + (n - f) <= Rest(t) + Hedge(t)
          BY <2>1, <2>4, <2>5, <3>1, <3>h, <4>1
        <4> QED
          BY <4>2, NoMoreExposed
      <3>2. CASE t # s
        <4>1. Rest(t)' = Rest(t)
          BY <2>3, <3>2 DEF Rest
        <4>2. Lead(t)' \in Int /\ Lead(t)' <= Lead(t)
          BY <2>1, <2>2, <3>2 DEF Lead, Other, MarketSide
        <4>3. Lead(t)' <= Lead(t) + 0 /\ Rest(t)' + Hedge(t)' + 0 <= Rest(t) + Hedge(t)
          BY <3>h, <4>1, <4>2
        <4> QED
          BY <4>3, NoMoreExposed
      <3> QED
        BY <3>1, <3>2
    <2> QED
      BY <2>7, <2>8 DEF ExposureInv
  <1> QED
    BY <1>1, <1>2, ReportEffect

LEMMA RotationExposure ==
    ASSUME IInv, IdleFirst, market <= 1, market' <= 1, UNCHANGED <<clob, reply>>, OnMarketRotation
    PROVE  ExposureInv'
  <1>1. /\ Waiting' = {} /\ quoter' = NewQuoter /\ \A c \in Sent' : c.op = "rotate"
        /\ position' = [s \in MarketSide |-> 0]
    BY RotationFresh, RangeNone DEF Waiting
  <1>2. \A s \in MarketSide : ~NewQuoter.pending_post[s] /\ NewQuoter.order[s].id = 0
    BY DEF NewQuoter, NoOrder
  <1>3. SizesFit'
    BY <1>1, <1>2 DEF SizesFit
  <1>4. ASSUME NEW s \in MarketSide
        PROVE  Exposure(s)' <= ExposureMost
    <2>1. Lead(s)' = 0
      BY <1>1 DEF Lead, Other, MarketSide
    <2>2. Rest(s)' = 0 /\ Hedge(s)' = 0
      BY <1>1, <1>2 DEF Rest, Hedge, HedgeComing
    <2>3. Exposure(s)' = 0
      BY <2>1, <2>2 DEF Exposure
    <2> QED
      BY <2>3, Bounds DEF ExposureMost
  <1> QED
    BY <1>3, <1>4 DEF ExposureInv

\* A post is asked for only below max_unpaired_shares, and a hedge only for the
\* side that lags.
LEMMA SendsExposure ==
    ASSUME IInv, IInv', SideInv, ExposureInv, MinOrderSize <= MaxOrderSize,
           UNCHANGED <<clob, reply>>, OnlySends
    PROVE  ExposureInv'
  <1>1. PICK a \in Seq(Command) : \E b \in Seq(Command) :
           SendsNow(a, b) /\ Requests(quoter, quoter', b \o a)
    BY DEF OnlySends
  <1>2. PICK b \in Seq(Command) : SendsNow(a, b) /\ Requests(quoter, quoter', b \o a)
    BY <1>1
  <1>3. Sent' \subseteq Sent \union Range(b \o a)
    BY <1>2, SentItems
  <1>4. Waiting' = Waiting /\ UNCHANGED position
    BY DEF Waiting, OnlySends
  <1>5. /\ quoter'.order = quoter.order
        /\ \A c \in Range(b \o a) : Fits(c)
        /\ \A s \in MarketSide : quoter'.pending_post[s] =>
              quoter.pending_post[s] \/ (quoter.order[s].id = 0 /\ Lead(s) < MaxUnpaired)
    BY <1>2 DEF Requests
  <1>6. SizesFit'
    BY <1>3, <1>4, <1>5 DEF ExposureInv, SizesFit, Fits
  <1>7. ASSUME NEW s \in MarketSide
        PROVE  Exposure(s)' <= ExposureMost
    <2>0. /\ Lead(s)' = Lead(s) /\ Lead(s) \in Int /\ Rest(s)' \in Int /\ Rest(s) \in Int
          /\ Hedge(s)' \in Nat /\ Hedge(s)' <= MaxTaker /\ Hedge(s) \in Nat
      BY <1>4, ExposureTypes, ExposureTypesNext DEF Lead
    <2>1. Rest(s)' <= MaxOrderSize
      <3>1. quoter'.order[s].id # 0 => quoter'.order[s].size <= MaxOrderSize
        BY <1>6 DEF SizesFit
      <3> QED
        BY <3>1, ExposureTypesNext, Bounds DEF Rest
    <2>2. CASE ~quoter.pending_post[s] /\ quoter'.pending_post[s]
      <3>1. Lead(s)' <= MaxUnpaired - 1
        BY <1>5, <2>0, <2>2, Bounds
      <3> QED
        BY <2>0, <2>1, <3>1, Bounds DEF Exposure, ExposureMost
    <2>3. CASE HedgeComing(s)' /\ ~HedgeComing(s)
      <3>1. PICK c \in Range(b \o a) : c.op = "rebalance" /\ c.side = s
        BY <1>3, <1>4, <2>3 DEF HedgeComing
      <3>2. Lead(s)' <= 0 - 1
        BY <1>5, <2>0, <3>1 DEF Fits
      <3> QED
        BY <2>0, <2>1, <3>2, Bounds DEF Exposure, ExposureMost
    <2>4. CASE /\ quoter.pending_post[s] \/ ~quoter'.pending_post[s]
               /\ HedgeComing(s)' => HedgeComing(s)
      <3>1. Rest(s)' <= Rest(s)
        <4>1. CASE quoter.pending_post[s]
          <5>1. quoter.order[s].id = 0 /\ Rest(s) = MaxOrderSize
            BY <4>1 DEF SideInv, HeldFaithful, Rest
          <5> QED
            BY <2>1, <5>1
        <4>2. CASE ~quoter.pending_post[s] /\ ~quoter'.pending_post[s]
          BY <1>5, <2>0, <4>2 DEF Rest
        <4> QED
          BY <2>4, <4>1, <4>2
      <3>2. Hedge(s)' <= Hedge(s)
        BY <2>4, HedgeStays
      <3>3. Lead(s)' <= Lead(s) + 0 /\ Rest(s)' + Hedge(s)' + 0 <= Rest(s) + Hedge(s)
        BY <2>0, <3>1, <3>2
      <3> QED
        BY <3>3, NoMoreExposed
    <2> QED
      BY <2>2, <2>3, <2>4
  <1> QED
    BY <1>6, <1>7 DEF ExposureInv

-----------------------------------------------------------------------------

LEMMA ExposureNext ==
    ASSUME market <= 1, market' <= 1, MinOrderSize <= MaxOrderSize,
           IInv, IInv', FillInv, FillInv', FlowInv, FlowInv', IdleFirst, SideInv,
           ExposureInv, [Next]_vars
    PROVE  ExposureInv'
  <1>k. ASSUME UNCHANGED <<quoter, position, cmdq, pending_commands, fbq, reply>>
        PROVE  ExposureInv'
    BY <1>k DEF ExposureInv, SizesFit, Exposure, Lead, Rest, Hedge, HedgeComing, Sent,
                Waiting
  <1>1. CASE EngineStep
    <2>1. UNCHANGED <<clob, reply>>
      BY <1>1 DEF EngineStep, executorVars
    <2> QED
      BY <1>1, <2>1, FeedbackExposure, RotationExposure, EventSends, ControlSends,
         QuoteSends, SendsExposure, ReportExposure DEF EngineStep
  <1>2. CASE ExecutorStep \/ ExchangeStep
    BY <1>2, OutsideKeepsExposure
  <1>3. CASE ProcessExit
    BY <1>3, <1>k DEF ProcessExit, channelVars, executorVars
  <1>4. CASE UNCHANGED vars
    BY <1>4, <1>k DEF vars, channelVars, executorVars, engineVars
  <1> QED
    BY <1>1, <1>2, <1>3, <1>4 DEF Next

LEMMA ExposureInit == Init => ExposureInv
  <1> SUFFICES ASSUME Init
               PROVE  ExposureInv
    OBVIOUS
  <1>1. /\ cmdq = <<>> /\ pending_commands = <<>> /\ fbq = <<>> /\ reply = <<>>
        /\ quoter = NewQuoter /\ position = [s \in MarketSide |-> 0]
    BY DEF Init, ExchangeInit, ExecutorInit, EngineInit
  <1>2. Sent = {} /\ Waiting = {}
    BY <1>1, RangeNone DEF Sent, Waiting
  <1>3. \A s \in MarketSide : ~quoter.pending_post[s] /\ quoter.order[s].id = 0
    BY <1>1 DEF NewQuoter, NoOrder
  <1>4. SizesFit
    BY <1>2, <1>3 DEF SizesFit
  <1>5. ASSUME NEW s \in MarketSide
        PROVE  Exposure(s) <= ExposureMost
    <2>1. Lead(s) = 0
      BY <1>1 DEF Lead, Other, MarketSide
    <2>2. Rest(s) = 0 /\ Hedge(s) = 0
      BY <1>2, <1>3 DEF Rest, Hedge, HedgeComing
    <2>3. Exposure(s) = 0
      BY <2>1, <2>2 DEF Exposure
    <2> QED
      BY <2>3, Bounds DEF ExposureMost
  <1> QED
    BY <1>4, <1>5 DEF ExposureInv

\* The exposure bounds the imbalance: nothing of a side is negative.
LEMMA ExposureBoundsImbalance ==
    ASSUME IInv, SideInv, FillInv, ExposureInv
    PROVE  ImbalanceBounded
  <1>1. ASSUME NEW s \in MarketSide
        PROVE  Rest(s) >= 0
    <2>1. CASE ~quoter.pending_post[s] /\ quoter.order[s].id # 0
      <3> DEFINE i == quoter.order[s].id
      <3>1. i \in Orders /\ i \in OrderId
        BY <2>1, FillFacts
      <3>2. /\ counted[i] = quoter.order[s].size_filled
            /\ clob[i].size = quoter.order[s].size
        BY <2>1 DEF FillInv, QuoterSound, HeldSound, SideInv, HeldFaithful
      <3>3. /\ counted[i] <= clob[i].matched /\ clob[i].matched <= clob[i].size
            /\ counted[i] \in Nat /\ clob[i].matched \in Nat /\ clob[i].size \in Nat
        BY <3>1, FillFacts, ItemFacts
           DEF FillInv, NoDoubleCount, SideInv, OrdersSound, Orders
      <3>4. Rest(s) = quoter.order[s].size - quoter.order[s].size_filled
        BY <2>1 DEF Rest
      <3> HIDE DEF i
      <3> QED
        BY <3>2, <3>3, <3>4
    <2>2. CASE ~(~quoter.pending_post[s] /\ quoter.order[s].id # 0)
      BY <2>2, Bounds DEF Rest
    <2> QED
      BY <2>1, <2>2
  <1>2. ASSUME NEW s \in MarketSide
        PROVE  Unpaired(s) \in Nat /\ Unpaired(s) <= ExposureMost
    <2>1. Exposure(s) <= ExposureMost
      BY DEF ExposureInv
    <2>2. Lead(s) <= ExposureMost
      BY <1>1, <2>1, ExposureTypes, Bounds DEF Exposure
    <2>3. 0 <= ExposureMost
      BY Bounds DEF ExposureMost
    <2>4. Unpaired(s) = IF Lead(s) >= 0 THEN Lead(s) ELSE 0
      BY ExposureTypes DEF Unpaired, Greatest, Lead
    <2> QED
      BY <2>2, <2>3, <2>4, ExposureTypes
  <1>3. Imbalance <= ExposureMost
    BY <1>2 DEF Imbalance, Greatest, MarketSide
  <1> QED
    BY <1>3 DEF ImbalanceBounded, ExposureMost

\* In the first market, whatever calls fail and however maker fills, requotes and
\* taker hedges interleave, the imbalance of the recorded position stays within
\* what one maker order and one hedge, decided before the other was recorded,
\* add to the largest imbalance a post is allowed at (evaluate_side's
\* max_unpaired check and the taker's pending_rebalance).  The configuration
\* must not ask for a smallest order above the largest, and the feedback channel
\* must hold the answers of all markets.
THEOREM ImbalanceBoundedHolds ==
    ASSUME ChannelCap >= 5 * MaxMarkets, MinOrderSize <= MaxOrderSize
    PROVE  Spec => [](market <= 1 => ImbalanceBounded)
  <1>1. /\ IInv /\ FillInv /\ FlowInv /\ IdleFirst
        /\ (market <= 1 => SideInv) /\ (market <= 1 => ExposureInv)
        /\ IInv' /\ FillInv' /\ FlowInv' /\ [Next]_vars
        => (market <= 1 => ExposureInv)'
    BY ExposureNext, MarketForward
  <1>2. IInv /\ SideInv /\ FillInv /\ ExposureInv => ImbalanceBounded
    BY ExposureBoundsImbalance
  <1> QED
    BY <1>1, <1>2, ExposureInit, SideHolds, PTL DEF Spec
-----------------------------------------------------------------------------
(* What becomes of the orders.                                             *)

\* The exchange will match no more of the order.
Final(i, n, o) == i \in 1..Len(o) /\ ~o[i].live /\ o[i].matched = n

\* What a report says of the end of the order it names is what the exchange
\* did, and stays so.
Truthful(r, o) ==
    /\ r.kind = "filled" => Final(r.id, r.size, o)
    /\ r.kind = "failed" => r.id = 0
    /\ r.kind = "cancelled" => ~o[r.id].live /\ (r.ok => o[r.id].matched = r.size)
    /\ r.kind = "rebalanced" =>
          IF r.ok THEN Final(r.id, r.size, o) /\ ~o[r.id].maker ELSE r.id = 0

\* A live order is held, or about to be.
Reached == \A i \in Orders : clob[i].live =>
              \/ quoter.order[clob[i].side].id = i
              \/ \E r \in Waiting : r.kind = "posted" /\ r.id = i

\* SettledExact over the set of the reports.
Settled == \A i \in Orders :
              \/ counted[i] = clob[i].matched
              \/ \E s \in MarketSide : quoter.order[s].id = i
              \/ \E r \in Waiting : r.id = i

OrderInv == /\ \A r \in Waiting : Truthful(r, clob)
            /\ \A r \in Range(fbq) : r.kind = "cancelled" => r.ok
            /\ Reached
            /\ Settled
            /\ pc \in {"exited", "dead"} => HasNoOpenPosition(quoter)

-----------------------------------------------------------------------------
(* The steps of the executor and of the exchange.                          *)

\* A report that was true stays true.
LEMMA TruthStays ==
    ASSUME IInv, NEW r \in Waiting, Truthful(r, clob),
           Len(clob') \in Nat, Len(clob') >= Len(clob),
           \A i \in Orders : Evolves(clob[i], clob'[i])
    PROVE  Truthful(r, clob')
  <1>1. r.kind = "cancelled" => r.id \in Orders
    BY ItemFacts
  <1>2. Orders = 1..Len(clob) /\ \A i \in Orders : i \in 1..Len(clob')
    BY ItemFacts
  <1>3. ASSUME NEW i, NEW n, Final(i, n, clob)
        PROVE  Final(i, n, clob') /\ (~clob[i].maker => ~clob'[i].maker)
    BY <1>2, <1>3 DEF Final, Evolves
  <1> QED
    BY <1>1, <1>3 DEF Truthful, Evolves

\* What is left to show of a step of the executor or of the exchange.
LEMMA OutsideOrders ==
    ASSUME IInv, IInv', OrderInv, UNCHANGED engineVars, Len(clob') >= Len(clob),
           \A i \in Orders : Evolves(clob[i], clob'[i]),
           \A r \in Waiting' : r \in Waiting \/ Truthful(r, clob'),
           \A r \in Waiting : \E p \in Waiting' : p.id = r.id /\ p.kind = r.kind,
           \A i \in Orders' \ Orders : \E r \in Waiting' :
                                          r.id = i /\ (clob'[i].live => r.kind = "posted"),
           \A r \in Range(fbq') : r.kind = "cancelled" => r.ok
    PROVE  OrderInv'
  <1>0. UNCHANGED <<quoter, counted, pc>>
    BY DEF engineVars
  <1>l. Len(clob') \in Nat
    BY FillFactsNext
  <1>1. \A r \in Waiting' : Truthful(r, clob')
    BY <1>l, TruthStays DEF OrderInv
  <1>2. Reached'
    <2> SUFFICES ASSUME NEW i \in Orders', clob'[i].live
                 PROVE  \/ quoter.order[clob'[i].side].id = i
                        \/ \E r \in Waiting' : r.kind = "posted" /\ r.id = i
      BY <1>0 DEF Reached
    <2>1. CASE i \in Orders
      BY <2>1 DEF OrderInv, Reached, Evolves
    <2>2. CASE i \notin Orders
      BY <2>2
    <2> QED
      BY <2>1, <2>2
  <1>3. Settled'
    <2> SUFFICES ASSUME NEW i \in Orders'
                 PROVE  \/ counted[i] = clob'[i].matched
                        \/ \E s \in MarketSide : quoter.order[s].id = i
                        \/ \E r \in Waiting' : r.id = i
      BY <1>0 DEF Settled
    <2>1. CASE i \in Orders /\ clob[i].live
      BY <2>1, ItemFacts DEF OrderInv, Reached
    <2>2. CASE i \in Orders /\ ~clob[i].live
      BY <2>2 DEF OrderInv, Settled, Evolves
    <2>3. CASE i \notin Orders
      BY <2>3
    <2> QED
      BY <2>1, <2>2, <2>3
  <1>4. pc' \in {"exited", "dead"} => HasNoOpenPosition(quoter')
    BY <1>0 DEF OrderInv
  <1> QED
    BY <1>0, <1>1, <1>2, <1>3, <1>4 DEF OrderInv

\* A handler that takes a command and owes a true report.
LEMMA OwesOrders ==
    ASSUME IInv, IInv', OrderInv, UNCHANGED engineVars, NEW op, Receive(op),
           NEW r, Owe(r), Len(clob') >= Len(clob),
           \A i \in Orders : Evolves(clob[i], clob'[i]), Truthful(r, clob'),
           \A i \in Orders' \ Orders : r.id = i /\ (clob'[i].live => r.kind = "posted")
    PROVE  OrderInv'
  <1>1. reply = <<>> /\ reply' = <<r>> /\ UNCHANGED fbq
    BY DEF Receive, Owe
  <1>2. Range(reply) = {} /\ Range(reply') = {r}
    BY <1>1, RangeNone, RangeOne
  <1>3. Waiting' = Waiting \union {r}
    BY <1>1, <1>2 DEF Waiting
  <1>4. \A p \in Range(fbq') : p.kind = "cancelled" => p.ok
    BY <1>1 DEF OrderInv
  <1> QED
    BY <1>3, <1>4, OutsideOrders

\* A handler that takes a command and reports that nothing came of it.
LEMMA AnswersOrders ==
    ASSUME IInv, IInv', OrderInv, UNCHANGED engineVars, NEW op, Receive(op),
           NEW r \in Feedback, Answer(r), r.kind \in {"failed", "rebalanced"},
           r.id = 0, ~r.ok, Len(clob') >= Len(clob),
           \A i \in Orders : Evolves(clob[i], clob'[i])
    PROVE  OrderInv'
  <1>1. UNCHANGED <<reply, clob>> /\ SendFeedback(r)
    BY DEF Receive, Answer, executorVars
  <1>2. Range(fbq) \subseteq Range(fbq') /\ Range(fbq') \subseteq Range(fbq) \union {r}
    BY <1>1, RangeAppend, QueueFacts DEF SendFeedback
  <1>3. Waiting \subseteq Waiting' /\ Waiting' \subseteq Waiting \union {r}
    BY <1>1, <1>2 DEF Waiting
  <1>4. Truthful(r, clob')
    BY DEF Truthful
  <1>5. Orders' = Orders
    BY <1>1 DEF Orders
  <1>6. \A p \in Range(fbq') : p.kind = "cancelled" => p.ok
    BY <1>2 DEF OrderInv
  <1> QED
    BY <1>3, <1>4, <1>5, <1>6, OutsideOrders

\* A handler that sends the report it owes, completed if it is a cancel's.
LEMMA RepliesOrders ==
    ASSUME IInv, IInv', OrderInv, UNCHANGED <<engineVars, clob>>,
           \A i \in Orders : Evolves(clob[i], clob'[i]),
           reply # <<>>, reply' = <<>>, NEW r \in Feedback, SendFeedback(r),
           Len(fbq) < ChannelCap, r.kind = Head(reply).kind, r.id = Head(reply).id,
           Truthful(r, clob), r.kind = "cancelled" => r.ok
    PROVE  OrderInv'
  <1> DEFINE h == Head(reply)
  <1>1. Range(reply) = {h} /\ Range(reply') = {}
    <2>1. /\ reply \in Seq(Feedback) /\ Len(reply) <= 1
      BY QueueFacts
    <2>2. Tail(reply) = <<>>
      BY <2>1
    <2>3. Range(Tail(reply)) = {} /\ Range(reply) = {h} \union Range(Tail(reply))
      BY <2>1, <2>2, RangeNone, RangeTail
    <2> QED
      BY <2>3, RangeNone
  <1>2. Range(fbq') = Range(fbq) \union {r}
    BY RangeAppend, QueueFacts DEF SendFeedback
  <1>3. Waiting = Range(fbq) \union {h} /\ Waiting' = Range(fbq) \union {r}
    BY <1>1, <1>2 DEF Waiting
  <1>4. Len(clob') >= Len(clob) /\ Orders' = Orders
    BY FillFacts DEF Orders
  <1>5. \A p \in Range(fbq') : p.kind = "cancelled" => p.ok
    BY <1>2 DEF OrderInv
  <1>6. \A p \in Waiting : \E p2 \in Waiting' : p2.id = p.id /\ p2.kind = p.kind
    BY <1>3
  <1>7. \A p \in Waiting' : p \in Waiting \/ Truthful(p, clob')
    BY <1>3
  <1> HIDE DEF h
  <1> QED
    BY <1>4, <1>5, <1>6, <1>7, OutsideOrders

\* An order the exchange accepts: the only new one.
LEMMA Accepted ==
    ASSUME IInv, SideInv, NEW s \in MarketSide, NEW n \in Nat, NEW x \in Nat, x = 0 \/ x = n,
           NEW m, NEW maker \in BOOLEAN, x = n \/ maker, Accept(s, n, x, m, maker)
    PROVE  /\ Orders' \ Orders = {NextId} /\ NextId \in 1..Len(clob')
           /\ clob'[NextId].matched = x /\ clob'[NextId].maker = maker
           /\ x = n => ~clob'[NextId].live
  <1>0. x \in Nat /\ x <= n /\ (x = n => ~(x < n)) /\ OrdersSound(clob)
    BY DEF SideInv
  <1>1. x < n => maker
    BY <1>0
  <1>2. /\ OrdersSound(clob') /\ Len(clob') = Len(clob) + 1
        /\ \A i \in Orders : Evolves(clob[i], clob'[i])
        /\ Orders' \ Orders = {NextId}
        /\ clob'[NextId].side = s /\ clob'[NextId].size = n
        /\ clob'[NextId].matched = x /\ clob'[NextId].maker = maker
        /\ clob'[NextId].live = (x < n)
    BY <1>0, <1>1, AcceptEvolves
  <1>3. NextId \in 1..Len(clob')
    BY <1>2, ItemFacts DEF NextId
  <1>4. x = n => ~clob'[NextId].live
    BY <1>0, <1>2
  <1> QED
    BY <1>2, <1>3, <1>4

\* A step of the executor, none of whose calls fails.
LEMMA ExecutorOrders ==
    ASSUME IInv, IInv', SideInv, OrderInv, FlowInv, ChannelCap >= 5 * MaxMarkets,
           "post" \notin Faults, "cancel" \notin Faults, "status" \notin Faults, ExecutorStep
    PROVE  OrderInv'
  <1> DEFINE c == Head(cmdq)
             h == Head(reply)
  <1>0. /\ UNCHANGED engineVars /\ 0 \in 0..MaxOrders /\ 0 \in Nat
        /\ Len(clob') >= Len(clob) /\ \A i \in Orders : Evolves(clob[i], clob'[i])
    BY ExecutorEffect, BoundsAssumption DEF SideInv
  <1>t. ASSUME NEW op, Receive(op)
        PROVE  c \in Command /\ c.op = op /\ c \in Sent /\ c.side \in MarketSide /\ c.size \in Nat
    <2>1. c \in Command /\ c.op = op
      BY <1>t, ReceiveType DEF Receive
    <2>2. cmdq # <<>> /\ cmdq \in Seq(Command)
      BY <1>t, QueueFacts DEF Receive
    <2>3. c \in Range(cmdq)
      BY <2>2, RangeTail
    <2> QED
      BY <2>1, <2>3 DEF Command, Sent
  <1>h. reply # <<>> => h \in Feedback /\ h \in Waiting /\ Truthful(h, clob)
    <2>1. reply # <<>> => h \in Feedback /\ h \in Waiting
      BY QueueFacts, RangeTail DEF Waiting
    <2> QED
      BY <2>1 DEF OrderInv
  <1>f. ASSUME Handles \/ Finishes
        PROVE  Len(fbq) < ChannelCap
    BY <1>f, RoomForReport
  <1>1. CASE PostAccepted
    <2> DEFINE r == OrderPosted(c.side, NextId, c.size)
               maker == TRUE
               n == c.size
    <2>1. /\ Receive("post") /\ Owe(r) /\ Accept(c.side, n, 0, c.market, maker)
      BY <1>1 DEF PostAccepted
    <2>2. n \in Nat /\ c.side \in MarketSide /\ 0 \in Nat /\ maker \in BOOLEAN /\ maker
      BY <1>t, <2>1
    <2>3. r.kind = "posted" /\ r.id = NextId
      BY DEF OrderPosted
    <2> HIDE DEF r, maker, n, c
    <2>4. Orders' \ Orders = {NextId}
      BY <1>0, <2>1, <2>2, Accepted
    <2>5. Truthful(r, clob')
      BY <2>3 DEF Truthful
    <2> QED
      BY <1>0, <2>1, <2>3, <2>4, <2>5, OwesOrders
  <1>2. CASE PostFilled
    <2> DEFINE r == OrderFilled(c.side, NextId, c.size)
               maker == TRUE
               n == c.size
    <2>1. /\ Receive("post") /\ Owe(r) /\ Accept(c.side, n, n, c.market, maker)
      BY <1>2 DEF PostFilled
    <2>2. n \in Nat /\ c.side \in MarketSide /\ maker \in BOOLEAN
      BY <1>t, <2>1
    <2>3. r.kind = "filled" /\ r.id = NextId /\ r.size = n
      BY DEF OrderFilled
    <2> HIDE DEF r, maker, n, c
    <2>4. /\ Orders' \ Orders = {NextId} /\ NextId \in 1..Len(clob')
          /\ clob'[NextId].matched = n /\ ~clob'[NextId].live
      BY <2>1, <2>2, Accepted
    <2>5. Truthful(r, clob')
      BY <2>3, <2>4 DEF Truthful, Final
    <2> QED
      BY <1>0, <2>1, <2>3, <2>4, <2>5, OwesOrders
  <1>3. CASE PostRejected
    <2>1. /\ Receive("post") /\ Answer(OrderFailed(c.side)) /\ c.side \in MarketSide
      BY <1>3, <1>t DEF PostRejected
    <2>2. OrderFailed(c.side) \in Feedback
      BY <1>0, <2>1, FeedbackTypes
    <2>3. /\ OrderFailed(c.side).kind = "failed" /\ OrderFailed(c.side).id = 0
          /\ ~OrderFailed(c.side).ok
      BY DEF OrderFailed
    <2> QED
      BY <1>0, <2>1, <2>2, <2>3, AnswersOrders
  <1>4. CASE PostErrored
    BY <1>4 DEF PostErrored
  <1>5. CASE HandleCancel
    <2> DEFINE r == CancelResult(c.side, c.id, 0, FALSE)
    <2>1. Receive("cancel") /\ Owe(r) /\ Cancel(c.id)
      BY <1>5 DEF HandleCancel
    <2>2. c \in Sent /\ c.op = "cancel"
      BY <1>t, <2>1
    <2>3. c.id \in Orders
      BY <2>2, ItemFacts
    <2>4. Orders' = Orders /\ ~clob'[c.id].live
      BY <2>1, <2>3, CancelEvolves DEF SideInv
    <2>5. r.kind = "cancelled" /\ r.id = c.id /\ r.ok = FALSE
      BY DEF CancelResult
    <2> HIDE DEF r, c
    <2>6. Truthful(r, clob')
      BY <2>4, <2>5 DEF Truthful
    <2> QED
      BY <1>0, <2>1, <2>4, <2>6, OwesOrders
  <1>6. CASE CancelStatus
    <2> DEFINE r == CancelResult(h.side, h.id, clob[h.id].matched, TRUE)
    <2>1. /\ reply # <<>> /\ h.kind = "cancelled" /\ reply' = <<>>
          /\ UNCHANGED <<cmdq, clob>> /\ SendFeedback(r)
      BY <1>6 DEF CancelStatus
    <2>2. /\ r.kind = "cancelled" /\ r.side = h.side /\ r.id = h.id /\ r.ok = TRUE
          /\ r.size = clob[h.id].matched
      BY DEF CancelResult
    <2>3. h.id \in Orders /\ clob[h.id].matched \in Nat /\ h \in Feedback
      BY <1>h, <2>1, ItemFacts
    <2>4. r \in Feedback
      BY <2>3 DEF Feedback, CancelResult
    <2> HIDE DEF r
    <2>5. Truthful(r, clob)
      BY <1>h, <2>1, <2>2 DEF Truthful
    <2>6. Finishes
      BY <2>1, <2>2, <2>4 DEF Finishes
    <2> HIDE DEF h
    <2> QED
      BY <1>0, <1>f, <2>1, <2>2, <2>4, <2>5, <2>6, RepliesOrders DEF h
  <1>7. CASE Reply
    <2>1. /\ reply # <<>> /\ h.kind # "cancelled" /\ reply' = <<>> /\ UNCHANGED <<cmdq, clob>>
          /\ SendFeedback(h)
      BY <1>7 DEF Reply
    <2>2. h \in Feedback /\ Truthful(h, clob)
      BY <1>h, <2>1
    <2>3. Finishes
      BY <2>1, <2>2 DEF Finishes
    <2> QED
      BY <1>0, <1>f, <2>1, <2>2, <2>3, RepliesOrders
  <1>8. CASE TakerFilled
    <2>1. PICK n \in (c.size - FokSlack)..(c.size + FokSlack) :
             /\ n > 0 /\ Accept(c.side, n, n, c.market, FALSE)
             /\ Owe(RebalanceResult(c.side, NextId, n, TRUE))
      BY <1>8 DEF TakerFilled
    <2>2. Receive("rebalance")
      BY <1>8 DEF TakerFilled
    <2> DEFINE r == RebalanceResult(c.side, NextId, n, TRUE)
               maker == FALSE
    <2>3. n \in Nat /\ c.side \in MarketSide /\ maker \in BOOLEAN
      BY <1>t, <2>1, <2>2, ExecutorAssumption
    <2>4. r.kind = "rebalanced" /\ r.id = NextId /\ r.size = n /\ r.ok = TRUE
      BY DEF RebalanceResult
    <2>5. Owe(r) /\ Accept(c.side, n, n, c.market, maker)
      BY <2>1
    <2>m. ~maker
      OBVIOUS
    <2> HIDE DEF r, maker, c
    <2>6. /\ Orders' \ Orders = {NextId} /\ NextId \in 1..Len(clob')
          /\ clob'[NextId].matched = n /\ ~clob'[NextId].live
          /\ clob'[NextId].maker = maker
      BY <2>3, <2>5, Accepted
    <2>7. Truthful(r, clob')
      BY <2>4, <2>6, <2>m DEF Truthful, Final
    <2> QED
      BY <1>0, <2>2, <2>4, <2>5, <2>6, <2>7, OwesOrders
  <1>9. CASE TakerKilled
    <2> DEFINE r == RebalanceResult(c.side, 0, 0, FALSE)
    <2>1. /\ Receive("rebalance") /\ Answer(r) /\ c.side \in MarketSide
      BY <1>9, <1>t DEF TakerKilled
    <2>2. r \in Feedback
      BY <1>0, <2>1, FeedbackTypes
    <2>3. r.kind = "rebalanced" /\ r.id = 0 /\ ~r.ok
      BY DEF RebalanceResult
    <2> HIDE DEF r
    <2> QED
      BY <1>0, <2>1, <2>2, <2>3, AnswersOrders
  <1>10. CASE TakerErrored
    BY <1>10 DEF TakerErrored
  <1>11. CASE Rotate
    <2>1. /\ CancelAll \/ UNCHANGED clob
          /\ UNCHANGED <<fbq, reply>>
      BY <1>11 DEF Rotate
    <2>2. Orders' = Orders
      BY <2>1, CancelEvolves DEF SideInv
    <2>3. Waiting' = Waiting /\ \A p \in Range(fbq') : p.kind = "cancelled" => p.ok
      BY <2>1 DEF Waiting, OrderInv
    <2> QED
      BY <1>0, <2>2, <2>3, OutsideOrders
  <1> QED
    BY <1>1, <1>2, <1>3, <1>4, <1>5, <1>6, <1>7, <1>8, <1>9, <1>10, <1>11
       DEF ExecutorStep, ExecutorNext

\* A counterparty takes a share of a live order, which the engine holds or is
\* about to hear of.
LEMMA ExchangeOrders ==
    ASSUME IInv, IInv', SideInv, OrderInv, ExchangeStep
    PROVE  OrderInv'
  <1>1. /\ UNCHANGED <<engineVars, fbq, reply>> /\ Len(clob') = Len(clob)
        /\ \A i \in Orders : Evolves(clob[i], clob'[i])
    BY ExchangeEffect DEF SideInv
  <1>2. Waiting' = Waiting /\ Orders' = Orders /\ Len(clob') >= Len(clob)
    BY <1>1, ItemFacts DEF Waiting, Orders
  <1>3. \A p \in Range(fbq') : p.kind = "cancelled" => p.ok
    BY <1>1 DEF OrderInv
  <1> QED
    BY <1>1, <1>2, <1>3, OutsideOrders

-----------------------------------------------------------------------------
(* The reports the engine handles.                                         *)

\* What is left to show of a report.
LEMMA FeedOrders ==
    ASSUME IInv, OrderInv, UNCHANGED <<clob, reply>>, NEW kind, Feed(kind),
           \A i \in Orders : clob[i].live =>
              \/ quoter'.order[clob[i].side].id = i
              \/ \E r \in Waiting' : r.kind = "posted" /\ r.id = i,
           \A i \in Orders :
              \/ counted'[i] = clob[i].matched
              \/ \E s \in MarketSide : quoter'.order[s].id = i
              \/ \E r \in Waiting' : r.id = i
    PROVE  OrderInv'
  <1>1. /\ Waiting' \subseteq Waiting /\ Range(fbq') \subseteq Range(fbq) /\ pc' = "recv"
    BY FeedItems DEF Feed
  <1>2. Reached' /\ Settled'
    BY DEF Reached, Settled, Orders
  <1> QED
    BY <1>1, <1>2 DEF OrderInv

\* The announcement of an order: until then the side had none.
LEMMA PostedOrders ==
    ASSUME IInv, IInv', SideInv, OrderInv, FlowInv, market <= 1, market' <= 1,
           UNCHANGED <<clob, reply>>, OnPosted
    PROVE  OrderInv'
  <1> DEFINE r == Head(fbq)
             s == r.side
  <1>1. /\ Feed("posted") /\ quoter' = OnOrderPosted(quoter, s, r.id, r.size)
        /\ UNCHANGED counted
    BY DEF OnPosted, RecordNothing
  <1>2. /\ Waiting = {r} \union Waiting' /\ r.kind = "posted" /\ s \in MarketSide
    BY <1>1, FeedItems
  <1>3. r.id \in Orders /\ clob[r.id].side = s
    BY <1>2, ItemFacts DEF SideInv, Announced
  <1>4. quoter.pending_post[s]
    BY <1>2, NothingUnraised
  <1>5. quoter.order[s].id = 0
    BY <1>2, <1>4 DEF SideInv, HeldFaithful
  <1> HIDE DEF r
  <1>6. /\ quoter'.order[s].id = r.id
        /\ \A t \in MarketSide : t # s => quoter'.order[t] = quoter.order[t]
    BY <1>1, <1>2, EngineFacts DEF OnOrderPosted, QuoterState
  <1>7. ASSUME NEW i \in Orders, NEW t \in MarketSide, quoter.order[t].id = i
        PROVE  quoter'.order[t].id = i
    BY <1>5, <1>6, <1>7, ItemFacts
  <1>8. ASSUME NEW i \in Orders, clob[i].live
        PROVE  \/ quoter'.order[clob[i].side].id = i
               \/ \E p \in Waiting' : p.kind = "posted" /\ p.id = i
    <2>1. CASE quoter.order[clob[i].side].id = i
      BY <1>7, <2>1, ItemFacts
    <2>2. CASE \E p \in Waiting : p.kind = "posted" /\ p.id = i
      BY <1>2, <1>3, <1>6, <2>2
    <2> QED
      BY <1>8, <2>1, <2>2 DEF OrderInv, Reached
  <1>9. ASSUME NEW i \in Orders
        PROVE  \/ counted'[i] = clob[i].matched
               \/ \E t \in MarketSide : quoter'.order[t].id = i
               \/ \E p \in Waiting' : p.id = i
    <2>1. CASE i = r.id
      BY <1>2, <1>6, <2>1
    <2>2. CASE i # r.id
      BY <1>1, <1>2, <1>7, <2>2 DEF OrderInv, Settled
    <2> QED
      BY <2>1, <2>2
  <1> QED
    BY <1>1, <1>8, <1>9, FeedOrders

\* A report that settles the order it names and leaves what is held alone.
LEMMA LastReport ==
    ASSUME IInv, IInv', OrderInv, UNCHANGED <<clob, reply>>, NEW kind, Feed(kind),
           kind # "posted", quoter'.order = quoter.order,
           \A i \in Orders : IF i = Head(fbq).id THEN counted'[i] = clob[i].matched
                             ELSE counted'[i] = counted[i]
    PROVE  OrderInv'
  <1>1. Waiting = {Head(fbq)} \union Waiting' /\ Head(fbq).kind # "posted"
    BY FeedItems
  <1>2. ASSUME NEW i \in Orders, clob[i].live
        PROVE  \/ quoter'.order[clob[i].side].id = i
               \/ \E r \in Waiting' : r.kind = "posted" /\ r.id = i
    BY <1>1, <1>2 DEF OrderInv, Reached
  <1>3. ASSUME NEW i \in Orders
        PROVE  \/ counted'[i] = clob[i].matched
               \/ \E s \in MarketSide : quoter'.order[s].id = i
               \/ \E r \in Waiting' : r.id = i
    BY <1>1 DEF OrderInv, Settled
  <1> QED
    BY <1>2, <1>3, FeedOrders

\* Placed and already filled, refused, or hedged.
LEMMA SettledOrders ==
    ASSUME IInv, IInv', OrderInv, FillInv, UNCHANGED <<clob, reply>>,
           OnAlreadyFilled \/ OnFailed \/ OnRebalanced
    PROVE  OrderInv'
  <1> DEFINE r == Head(fbq)
  <1>1. ASSUME NEW kind, Feed(kind)
        PROVE  /\ r.kind = kind /\ r.side \in MarketSide /\ Truthful(r, clob)
               /\ r.id # 0 => r.id \in Orders /\ Sound(r, clob, counted, quoter)
    BY <1>1, FeedItems, FeedFill DEF OrderInv
  <1>o. OnOrderFailed(quoter, r.side).order = quoter.order
    BY FillFacts DEF OnOrderFailed, QuoterState
  <1>2. ASSUME NEW kind, Feed(kind), kind \in {"filled", "rebalanced"},
               RecordFill(r.side, r.id, r.size), Final(r.id, r.size, clob)
        PROVE  \A i \in Orders : IF i = r.id THEN counted'[i] = clob[i].matched
                                 ELSE counted'[i] = counted[i]
    <2>1. r.kind = kind /\ (r.id # 0 => Sound(r, clob, counted, quoter))
      BY <1>1, <1>2
    <2> HIDE DEF r
    <2>2. r.id \in Orders /\ clob[r.id].matched = r.size
      BY <1>2, ItemFacts DEF Final
    <2>3. counted[r.id] = 0 /\ r.size \in Nat
      BY <1>2, <2>1, <2>2, ItemFacts DEF Sound
    <2> QED
      BY <1>2, <2>2, <2>3, FillFacts DEF RecordFill
  <1>3. ASSUME r.id = 0
        PROVE  \A i \in Orders : i # r.id
    BY <1>3, ItemFacts
  <1>4. CASE OnAlreadyFilled
    <2>1. /\ Feed("filled") /\ RecordFill(r.side, r.id, r.size)
          /\ quoter' = OnOrderFailed(quoter, r.side)
      BY <1>4 DEF OnAlreadyFilled
    <2>2. Final(r.id, r.size, clob)
      BY <1>1, <2>1 DEF Truthful
    <2>3. \A i \in Orders : IF i = r.id THEN counted'[i] = clob[i].matched
                            ELSE counted'[i] = counted[i]
      BY <1>2, <2>1, <2>2
    <2> QED
      BY <1>o, <2>1, <2>3, LastReport
  <1>5. CASE OnFailed
    <2>1. /\ Feed("failed") /\ UNCHANGED counted
          /\ quoter' = OnOrderFailed(quoter, r.side)
      BY <1>5 DEF OnFailed, RecordNothing
    <2>2. r.id = 0
      BY <1>1, <2>1 DEF Truthful
    <2>3. \A i \in Orders : IF i = r.id THEN counted'[i] = clob[i].matched
                            ELSE counted'[i] = counted[i]
      BY <1>3, <2>1, <2>2
    <2> QED
      BY <1>o, <2>1, <2>3, LastReport
  <1>6. CASE OnRebalanced
    <2>1. /\ Feed("rebalanced") /\ UNCHANGED quoter
          /\ IF r.ok THEN RecordFill(r.side, r.id, r.size) ELSE UNCHANGED counted
      BY <1>6 DEF OnRebalanced, RecordNothing
    <2>2. IF r.ok THEN Final(r.id, r.size, clob) ELSE r.id = 0
      BY <1>1, <2>1 DEF Truthful
    <2>3. \A i \in Orders : IF i = r.id THEN counted'[i] = clob[i].matched
                            ELSE counted'[i] = counted[i]
      BY <1>2, <1>3, <2>1, <2>2
    <2> QED
      BY <2>1, <2>3, LastReport
  <1> QED
    BY <1>4, <1>5, <1>6

\* A cancel result settles the order it is about: the one the side holds, or the
\* last one it had.
LEMMA CancelledOrders ==
    ASSUME IInv, IInv', SideInv, OrderInv, FillInv,
           UNCHANGED <<clob, reply>>, OnCancelled
    PROVE  OrderInv'
  <1> DEFINE r == Head(fbq)
             s == r.side
             d == CancelDelta(r)
  <1>1. /\ Feed("cancelled") /\ quoter' = OnCancelResult(quoter, s) /\ RecordFill(s, r.id, d)
    BY DEF OnCancelled
  <1>2. /\ Waiting = {r} \union Waiting' /\ r.kind = "cancelled" /\ s \in MarketSide
        /\ r \in Range(fbq) /\ r \in Waiting
    BY <1>1, FeedItems
  <1>3. /\ r.id \in Orders /\ r.id # 0 /\ r.ok
        /\ ~clob[r.id].live /\ clob[r.id].matched = r.size
        /\ Target(s, r.id)
    <2>1. r.id \in Orders /\ r.id # 0
      BY <1>2, ItemFacts
    <2>2. r.ok /\ Truthful(r, clob) /\ Target(s, r.id)
      BY <1>2 DEF OrderInv, SideInv, Aimed
    <2> HIDE DEF r
    <2> QED
      BY <1>2, <2>1, <2>2 DEF Truthful
  <1>u. r.id \in UnderWay
    BY <1>1, <1>3, FeedFill
  <1>4. counted[r.id] \in Nat /\ r.size \in Nat /\ counted[r.id] <= r.size
    BY <1>3, FillFacts DEF FillInv, NoDoubleCount
  <1>5. d = r.size - counted[r.id]
    <2>1. KnownForCancel(quoter, s, r.id)
      BY <1>3 DEF KnownForCancel, Target
    <2>2. RecordedForCancel(quoter, s, r.id) = counted[r.id]
      BY <1>2, <1>3, <1>u
         DEF FillInv, QuoterSound, HeldSound, ClearedSound, RecordedForCancel, Target
    <2> QED
      BY <1>3, <1>4, <2>1, <2>2 DEF CancelDelta, Greatest
  <1> HIDE DEF r, d
  <1>6. \A i \in Orders : IF i = r.id THEN counted'[i] = clob[i].matched
                          ELSE counted'[i] = counted[i]
    <2>1. \A i \in Orders : i \in OrderId
      BY FillFacts
    <2>2. counted' = [counted EXCEPT ![r.id] = @ + d]
      BY <1>1, <1>3, <2>1 DEF RecordFill
    <2>3. counted \in [OrderId -> Nat]
      BY FillFacts
    <2>4. \A i \in Orders : counted'[i] = IF i = r.id THEN counted[i] + d ELSE counted[i]
      BY <2>1, <2>2, <2>3
    <2>5. counted[r.id] + d = clob[r.id].matched
      BY <1>3, <1>4, <1>5
    <2> QED
      BY <2>4, <2>5
  <1>7. \A t \in MarketSide : t # s => quoter'.order[t] = quoter.order[t]
    BY <1>1, <1>2, FillFacts DEF OnCancelResult, QuoterState, NoOrder
  <1>8. \A i \in Orders : quoter.order[s].id = i => i = r.id
    BY <1>3, ItemFacts DEF Target
  <1>9. ASSUME NEW i \in Orders, clob[i].live
         PROVE  \/ quoter'.order[clob[i].side].id = i
                \/ \E p \in Waiting' : p.kind = "posted" /\ p.id = i
    <2>1. CASE quoter.order[clob[i].side].id = i
      BY <1>3, <1>7, <1>8, <1>9, <2>1, ItemFacts
    <2>2. CASE \E p \in Waiting : p.kind = "posted" /\ p.id = i
      BY <1>2, <2>2
    <2> QED
      BY <1>9, <2>1, <2>2 DEF OrderInv, Reached
  <1>10. ASSUME NEW i \in Orders
         PROVE  \/ counted'[i] = clob[i].matched
                \/ \E t \in MarketSide : quoter'.order[t].id = i
                \/ \E p \in Waiting' : p.id = i
    <2>1. CASE i = r.id
      BY <1>6, <2>1
    <2>2. CASE i # r.id
      <3>1. \A t \in MarketSide : quoter.order[t].id = i => quoter'.order[t].id = i
        BY <1>7, <1>8, <2>2
      <3> QED
        BY <1>2, <1>6, <2>2, <3>1 DEF OrderInv, Settled
    <2> QED
      BY <2>1, <2>2
  <1> QED
    BY <1>1, <1>9, <1>10, FeedOrders

LEMMA FeedbackOrders ==
    ASSUME IInv, IInv', SideInv, OrderInv, FillInv, FlowInv, market <= 1, market' <= 1,
           UNCHANGED <<clob, reply>>, FeedbackNext
    PROVE  OrderInv'
  BY PostedOrders, SettledOrders, CancelledOrders DEF FeedbackNext

-----------------------------------------------------------------------------
(* The engine's other steps.                                               *)

\* A step that only sends.
LEMMA SendsOrders ==
    ASSUME IInv, OrderInv, UNCHANGED <<clob, reply>>, OnlySends
    PROVE  OrderInv'
  <1>1. quoter'.order = quoter.order
    BY DEF OnlySends, Requests
  <1>2. Waiting' = Waiting /\ UNCHANGED <<fbq, counted>>
    BY DEF Waiting, OnlySends
  <1>3. Reached' /\ Settled'
    BY <1>1, <1>2 DEF OrderInv, Reached, Settled, Orders
  <1>4. pc' \in {"exited", "dead"} => HasNoOpenPosition(quoter')
    BY DEF OnlySends
  <1> QED
    BY <1>2, <1>3, <1>4 DEF OrderInv

\* The rotation to the first market finds nothing at all.
LEMMA RotationOrders ==
    ASSUME IInv, OrderInv, IdleFirst, market <= 1, market' <= 1, UNCHANGED <<clob, reply>>,
           OnMarketRotation
    PROVE  OrderInv'
  <1>1. /\ Waiting = {} /\ UNCHANGED counted /\ pc' = "quote" /\ fbq' = <<>> /\ reply = <<>>
        /\ \A s \in MarketSide : quoter.order[s].id = 0
    BY RotationFresh
  <1>2. Range(fbq') = {} /\ Waiting' = {}
    BY <1>1, RangeNone DEF Waiting
  <1>3. \A i \in Orders : ~clob[i].live /\ counted[i] = clob[i].matched
    BY <1>1, ItemFacts DEF OrderInv, Reached, Settled
  <1>4. Reached' /\ Settled'
    BY <1>1, <1>3 DEF Reached, Settled, Orders
  <1> QED
    BY <1>1, <1>2, <1>4 DEF OrderInv

\* A report of the user WebSocket drops the order only when the exchange has
\* nothing left of it to match, and everything is counted then.
LEMMA ReportOrders ==
    ASSUME IInv, IInv', SideInv, OrderInv, FillInv, UNCHANGED <<clob, reply>>, FillReport
    PROVE  OrderInv'
  <1>0. Waiting' = Waiting /\ pc' = "quote" /\ UNCHANGED fbq
    BY ReportEffect
  <1>1. CASE UNCHANGED <<counted, quoter, position>>
    BY <1>0, <1>1 DEF OrderInv, Reached, Settled, Orders
  <1>2. ASSUME NEW i \in Orders, NEW s \in MarketSide, NEW n \in Nat, CountsTo(i, s, n)
        PROVE  OrderInv'
    <2>1. /\ quoter.order[s].id = i /\ i # 0 /\ clob[i].size = quoter.order[s].size
          /\ clob[i].matched <= clob[i].size
          /\ clob[i].live => clob[i].matched < clob[i].size
          /\ clob[i].size \in Nat /\ clob[i].matched \in Nat /\ n <= clob[i].matched
      <3>1. /\ clob[i].matched <= clob[i].size
            /\ clob[i].live => clob[i].matched < clob[i].size
        BY DEF SideInv, OrdersSound, Orders
      <3> QED
        BY <1>2, <3>1, ItemFacts DEF SideInv, HeldFaithful, CountsTo
    <2>2. n >= quoter.order[s].size => ~clob[i].live /\ counted'[i] = clob[i].matched
      BY <1>2, <2>1 DEF CountsTo
    <2>3. ~(n >= quoter.order[s].size) => quoter'.order[s].id = i
      BY <1>2 DEF CountsTo
    <2>4. \A t \in MarketSide : \A j \in Orders :
             j # i /\ quoter.order[t].id = j => quoter'.order[t].id = j
      BY <1>2, <2>1 DEF CountsTo
    <2>5. Reached'
      <3>1. ASSUME NEW j \in Orders, clob[j].live
            PROVE  \/ quoter'.order[clob[j].side].id = j
                   \/ \E r \in Waiting : r.kind = "posted" /\ r.id = j
        <4>1. CASE quoter.order[clob[j].side].id = j
          <5>1. clob[j].side \in MarketSide
            BY ItemFacts
          <5>2. CASE j = i
            <6>1. clob[i].side = s
              BY <1>2, <2>1 DEF SideInv, HeldFaithful
            <6> QED
              BY <2>2, <2>3, <3>1, <5>2, <6>1
          <5> QED
            BY <2>4, <4>1, <5>1, <5>2
        <4> QED
          BY <3>1, <4>1 DEF OrderInv, Reached
      <3> QED
        BY <1>0, <3>1 DEF Reached, Orders
    <2>6. Settled'
      <3>1. ASSUME NEW j \in Orders
            PROVE  \/ counted'[j] = clob[j].matched
                   \/ \E t \in MarketSide : quoter'.order[t].id = j
                   \/ \E r \in Waiting : r.id = j
        <4>1. CASE j = i
          BY <2>2, <2>3, <4>1
        <4>2. CASE j # i
          BY <1>2, <2>4, <4>2 DEF OrderInv, Settled, CountsTo
        <4> QED
          BY <4>1, <4>2
      <3> QED
        BY <1>0, <3>1 DEF Settled, Orders
    <2> QED
      BY <1>0, <2>5, <2>6 DEF OrderInv
  <1> QED
    BY <1>1, <1>2, ReportEffect

-----------------------------------------------------------------------------

\* A feedback channel with room for the five reports of each market, and no call
\* of the executor fails: post_order, cancel_order, get_order.
CalmCalls == /\ ChannelCap >= 5 * MaxMarkets
             /\ {"post", "cancel", "status"} \cap Faults = {}

LEMMA OrderNext ==
    ASSUME CalmCalls, market <= 1, market' <= 1, IInv, IInv', FillInv, FlowInv, IdleFirst,
           SideInv, OrderInv, [Next]_vars
    PROVE  OrderInv'
  <1>0. /\ ChannelCap >= 5 * MaxMarkets
        /\ "post" \notin Faults /\ "cancel" \notin Faults /\ "status" \notin Faults
    BY DEF CalmCalls
  <1>k. ASSUME UNCHANGED <<quoter, counted, clob, fbq, reply>>,
               pc' = pc \/ (pc = "exited" /\ pc' = "dead")
        PROVE  OrderInv'
    BY <1>k DEF OrderInv, Waiting, Reached, Settled, Orders
  <1>1. CASE EngineStep
    <2>1. UNCHANGED <<clob, reply>>
      BY <1>1 DEF EngineStep, executorVars
    <2> QED
      BY <1>0, <1>1, <2>1, FeedbackOrders, RotationOrders, EventSends, ControlSends,
         QuoteSends, SendsOrders, ReportOrders DEF EngineStep
  <1>2. CASE ExecutorStep
    BY <1>0, <1>2, ExecutorOrders
  <1>3. CASE ExchangeStep
    BY <1>3, ExchangeOrders
  <1>4. CASE ProcessExit
    BY <1>4, <1>k DEF ProcessExit, channelVars, executorVars
  <1>5. CASE UNCHANGED vars
    BY <1>5, <1>k DEF vars, channelVars, executorVars, engineVars
  <1> QED
    BY <1>1, <1>2, <1>3, <1>4, <1>5 DEF Next

LEMMA OrderInit == Init => OrderInv
  <1> SUFFICES ASSUME Init
               PROVE  OrderInv
    OBVIOUS
  <1>1. fbq = <<>> /\ reply = <<>> /\ clob = <<>> /\ pc = "recv"
    BY DEF Init, ExchangeInit, ExecutorInit, EngineInit
  <1>2. Waiting = {} /\ Range(fbq) = {}
    BY <1>1, RangeNone DEF Waiting
  <1>3. Orders = {}
    BY <1>1 DEF Orders
  <1> QED
    BY <1>1, <1>2, <1>3 DEF OrderInv, Reached, Settled

LEMMA OrderHolds ==
    ASSUME CalmCalls
    PROVE  Spec => [](IInv /\ FlowInv /\ (market <= 1 => SideInv /\ OrderInv))
  <1>0. ChannelCap >= 5 * MaxMarkets
    BY DEF CalmCalls
  <1>1. IInv /\ FillInv /\ FlowInv /\ IdleFirst /\ (market <= 1 => SideInv)
           /\ (market <= 1 => OrderInv) /\ IInv' /\ [Next]_vars
           => (market <= 1 => OrderInv)'
    BY OrderNext, MarketForward
  <1> QED
    BY <1>0, <1>1, OrderInit, SideHolds, PTL DEF Spec

-----------------------------------------------------------------------------
(* What follows for the orders.                                            *)

\* An open order is held, or named by a report under way.
LEMMA OpenIs ==
    ASSUME IInv, NEW i \in Orders
    PROVE  Open(i) <=> \/ \E s \in MarketSide : quoter.order[s].id = i
                       \/ \E r \in Waiting : r.id = i
  <1>1. fbq \in Seq(Feedback) /\ reply \in Seq(Feedback) /\ Reports \in Seq(Feedback)
    BY QueueFacts DEF Reports
  <1>2. Range(Reports) = Waiting
    BY <1>1, RangeConcat DEF Reports, Waiting
  <1>3. DOMAIN Reports = 1..Len(Reports)
    BY <1>1
  <1>4. InSeq(Reports, LAMBDA r : r.id = i) <=> \E k \in 1..Len(Reports) : Reports[k].id = i
    BY DEF InSeq
  <1>5. (\E k \in 1..Len(Reports) : Reports[k].id = i) <=> \E r \in Waiting : r.id = i
    BY <1>2, <1>3 DEF Range
  <1>6. \A s \in MarketSide : i \in Held(s) <=> quoter.order[s].id = i
    BY DEF Held
  <1> QED
    BY <1>4, <1>5, <1>6 DEF Open

\* Until the first market ends, once the engine has let go of an order and no
\* report of it is under way, every share matched for it has been recorded,
\* although user WebSocket reports get lost or come too early: the cancel result,
\* the placement response and the last report that fills the order carry what is
\* missing (on_feedback).
THEOREM SettledExactHolds ==
    ASSUME CalmCalls
    PROVE  Spec => [](market <= 1 => SettledExact)
  <1>1. IInv /\ OrderInv => SettledExact
    BY OpenIs DEF OrderInv, Settled, SettledExact
  <1> QED
    BY <1>1, OrderHolds, PTL

\* Until the first market ends every live maker order is known to the engine or
\* about to be: the quoter never drops one that the exchange may still match
\* (on_cancel_result, on_fill).
THEOREM NoOrphanHolds ==
    ASSUME CalmCalls
    PROVE  Spec => [](market <= 1 => NoOrphan)
  <1>1. IInv /\ OrderInv => NoOrphan
    BY OpenIs, ItemFacts DEF OrderInv, Reached, NoOrphan
  <1> QED
    BY <1>1, OrderHolds, PTL

\* A drain that stops the loop in the first market, or before it, leaves no maker
\* order on the exchange and no share of one unrecorded: has_no_open_position looks
\* at the resting orders and at the flags, and the flags cover what is still under
\* way.  However many markets there may be, only a rotation cuts a drain short.
THEOREM DrainBeforeRotationHolds ==
    ASSUME CalmCalls
    PROVE  Spec => []DrainBeforeRotation
  <1>1. IInv /\ FlowInv /\ (market <= 1 => SideInv /\ OrderInv) => DrainBeforeRotation
    <2> SUFFICES ASSUME IInv, FlowInv, SideInv, OrderInv, market <= 1,
                        pc \in {"exited", "dead"}, NEW i \in Orders, clob[i].maker
                 PROVE  ~clob[i].live /\ counted[i] = clob[i].matched
      BY DEF DrainBeforeRotation
    <2>1. \A s \in MarketSide : /\ quoter.order[s].id = 0
                                /\ ~quoter.pending_post[s] /\ ~quoter.pending_cancel[s]
      BY DEF OrderInv, HasNoOpenPosition, HasRestingOrders, Resting, IsPending
    <2>2. \A r \in Waiting : r.kind = "rebalanced"
      <3> SUFFICES ASSUME NEW r \in Waiting
                   PROVE  r.kind = "rebalanced"
        OBVIOUS
      <3>1. r \in Feedback /\ r.side \in MarketSide
        BY ItemFacts DEF Feedback
      <3>2. r.kind \notin {"posted", "filled", "failed", "cancelled"}
        BY <2>1, <3>1, NothingUnraised
      <3> QED
        BY <3>1, <3>2 DEF Feedback
    <2>3. \A r \in Waiting : r.id # i
      BY <2>2, ItemFacts DEF OrderInv, Truthful
    <2>4. i # 0 /\ clob[i].side \in MarketSide
      BY ItemFacts
    <2> QED
      BY <2>1, <2>3, <2>4 DEF OrderInv, Reached, Settled
  <1> QED
    BY <1>1, OrderHolds, PTL

\* Two items of a kind, when at most one is under way.
LEMMA AtMostOne ==
    ASSUME NEW S, NEW a \in Seq(S), NEW b \in Seq(S), NEW T,
           Num(a, T) + Num(b, T) <= 1,
           NEW x \in Range(a) \union Range(b), NEW y \in Range(a) \union Range(b),
           x \in T, y \in T
    PROVE  x = y
  <1> DEFINE m == Num(a, T)
             n == Num(b, T)
  <1>1. m \in Nat /\ n \in Nat
    BY AtFinite
  <1>2. /\ m = 0 <=> \A k \in 1..Len(a) : a[k] \notin T
        /\ n = 0 <=> \A k \in 1..Len(b) : b[k] \notin T
    BY AtFinite
  <1>3. DOMAIN a = 1..Len(a) /\ DOMAIN b = 1..Len(b)
    OBVIOUS
  <1>4. ASSUME NEW c \in Seq(S), Num(c, T) = 1, x \in Range(c), y \in Range(c)
        PROVE  x = y
    <2>1. IsFiniteSet(At(c, T)) /\ Cardinality(At(c, T)) = 1
      BY <1>4, AtFinite DEF Num
    <2>2. PICK k : At(c, T) = {k}
      BY <2>1, FS_Singleton
    <2>3. \A l \in 1..Len(c) : c[l] \in T => l = k
      BY <2>2 DEF At
    <2>4. DOMAIN c = 1..Len(c)
      OBVIOUS
    <2> QED
      BY <1>4, <2>3, <2>4 DEF Range
  <1>5. m + n <= 1
    OBVIOUS
  <1>6. CASE m = 0
    <2>1. x \in Range(b) /\ y \in Range(b)
      BY <1>2, <1>3, <1>6 DEF Range
    <2>2. n # 0
      BY <1>2, <1>3, <2>1 DEF Range
    <2> HIDE DEF m
    <2>3. n = 1
      BY <1>1, <1>5, <1>6, <2>2
    <2> QED
      BY <1>4, <2>1, <2>3
  <1>7. CASE m # 0
    <2> HIDE DEF m, n
    <2>1. m = 1 /\ n = 0
      BY <1>1, <1>5, <1>7
    <2>2. x \in Range(a) /\ y \in Range(a)
      BY <1>2, <1>3, <2>1 DEF Range, n
    <2> QED
      BY <1>4, <2>1, <2>2 DEF m
  <1> QED
    BY <1>6, <1>7

\* Until the first market ends at most one maker order of a side is live:
\* evaluate_side posts where nothing rests and nothing pends, and a cancelled order
\* is dead before its result makes room for the next one.
THEOREM OneLiveOrderPerSideHolds ==
    ASSUME CalmCalls
    PROVE  Spec => [](market <= 1 => OneLiveOrderPerSide)
  <1>1. ASSUME market <= 1, IInv, FlowInv, SideInv, OrderInv, NEW s \in MarketSide,
               NEW i \in LiveMakers(s), NEW j \in LiveMakers(s)
        PROVE  i = j
    <2>0. /\ market <= 1 /\ i \in Orders /\ j \in Orders
          /\ clob[i].live /\ clob[i].side = s /\ clob[j].live /\ clob[j].side = s
      BY <1>1 DEF LiveMakers
    <2>1. ASSUME NEW k \in Orders, clob[k].live, clob[k].side = s
          PROVE  \/ quoter.order[s].id = k /\ ~quoter.pending_post[s]
                 \/ /\ quoter.pending_post[s]
                    /\ \E r \in Waiting : r.kind = "posted" /\ r.id = k /\ r.side = s
      <3>1. CASE quoter.order[s].id = k
        BY <1>1, <3>1, ItemFacts DEF SideInv, HeldFaithful
      <3>2. CASE \E r \in Waiting : r.kind = "posted" /\ r.id = k
        <4>1. PICK r \in Waiting : r.kind = "posted" /\ r.id = k
          BY <3>2
        <4>2. r.side = s
          BY <1>1, <2>1, <4>1 DEF SideInv, Announced
        <4>3. quoter.pending_post[s]
          BY <1>1, <2>0, <4>1, <4>2, NothingUnraised
        <4> QED
          BY <4>1, <4>2, <4>3
      <3> QED
        BY <1>1, <2>1, <3>1, <3>2 DEF OrderInv, Reached
    <2>2. CASE ~quoter.pending_post[s]
      BY <2>0, <2>1, <2>2
    <2>3. CASE quoter.pending_post[s]
      <3>1. PICK p \in Waiting : p.kind = "posted" /\ p.id = i /\ p.side = s
        BY <2>0, <2>1, <2>3
      <3>2. PICK r \in Waiting : r.kind = "posted" /\ r.id = j /\ r.side = s
        BY <2>0, <2>1, <2>3
      <3> DEFINE T == PostsOf(s)
                 R == PlacedOf(s)
      <3>3. p \in R /\ r \in R
        BY <1>1, <3>1, <3>2, ItemFacts DEF PlacedOf
      <3>4. /\ fbq \in Seq(Feedback) /\ reply \in Seq(Feedback)
            /\ cmdq \in Seq(Command) /\ pending_commands \in Seq(Command)
        BY <1>1, QueueFacts
      <3>5. Flow(T, R) <= 1
        <4>1. Greatest(market, 1) = 1
          BY <1>1, <2>0, EngineFacts DEF EngineTypeOK, Market, Greatest
        <4> QED
          BY <1>1, <2>3, <4>1 DEF FlowInv, Backed, Flag
      <3> HIDE DEF T, R
      <3>6. Num(fbq, R) + Num(reply, R) <= 1
        <4>1. /\ Num(pending_commands, T) \in Nat /\ Num(cmdq, T) \in Nat
              /\ Num(fbq, R) \in Nat /\ Num(reply, R) \in Nat
          BY <3>4, AtFinite
        <4> QED
          BY <3>5, <4>1 DEF Flow
      <3>7. p \in Range(fbq) \union Range(reply) /\ r \in Range(fbq) \union Range(reply)
        BY <3>1, <3>2 DEF Waiting
      <3>8. p = r
        BY <3>3, <3>4, <3>6, <3>7, AtMostOne
      <3> QED
        BY <3>1, <3>2, <3>8
    <2> QED
      BY <2>2, <2>3
  <1>2. market <= 1 /\ IInv /\ FlowInv /\ SideInv /\ OrderInv => OneLiveOrderPerSide
    <2> SUFFICES ASSUME market <= 1, IInv, FlowInv, SideInv, OrderInv, NEW s \in MarketSide
                 PROVE  Cardinality(LiveMakers(s)) <= 1
      BY DEF OneLiveOrderPerSide
    <2>1. CASE LiveMakers(s) = {}
      BY <2>1, FS_EmptySet
    <2>2. CASE LiveMakers(s) # {}
      <3>1. PICK i : i \in LiveMakers(s)
        BY <2>2
      <3>2. LiveMakers(s) = {i}
        <4>1. ASSUME NEW j \in LiveMakers(s)
              PROVE  j = i
          BY <1>1, <3>1
        <4> QED
          BY <3>1, <4>1
      <3>3. Cardinality({i}) = 1
        BY FS_Singleton
      <3> QED
        BY <3>2, <3>3
    <2> QED
      BY <2>1, <2>2
  <1> QED
    BY <1>2, OrderHolds, PTL

-----------------------------------------------------------------------------
(* The accumulation cap.                                                   *)

\* What may yet be counted of each order, counted shares included.
Claims == [i \in Orders |-> IF clob[i].live \/ counted[i] # clob[i].matched
                            THEN clob[i].size ELSE counted[i]]
Claimed(s) == SumFunctionOnSet(Claims, Makers(s))
Recorded(s) == SumFunctionOnSet(counted, Makers(s))

\* No side is claimed beyond the cap, not even when the post under way is accepted.
WithinCap == /\ \A s \in MarketSide : Claimed(s) <= MaxTotalShares
             /\ \A c \in Sent : c.op = "post" => Claimed(c.side) + c.size <= MaxTotalShares

CapInv == /\ WithinCap
          /\ \A s \in MarketSide : Recorded(s) <= position[s]
          /\ \A r \in Waiting : r.kind = "filled" => clob[r.id].side = r.side
          /\ market = 0 => Orders = {}

\* A step records n shares of order i, for the side s and the order's own.
Gains(s, i, n) ==
    /\ \A j \in Orders : counted'[j] = IF j = i THEN counted[j] + n ELSE counted[j]
    /\ \A t \in MarketSide : position'[t] = IF t = s THEN position[t] + n ELSE position[t]
    /\ n = 0 \/ \A t \in MarketSide : i \in Makers(t) => t = s

LEMMA MakerTypes ==
    ASSUME IInv, NEW s \in MarketSide
    PROVE  /\ IsFiniteSet(Makers(s)) /\ Makers(s) \subseteq Orders /\ Makers(s) \subseteq OrderId
           /\ \A i \in Makers(s) : Claims[i] \in Nat /\ counted[i] \in Nat
           /\ Claimed(s) \in Nat /\ Recorded(s) \in Nat
           /\ position[s] \in Nat /\ MaxTotalShares \in Nat
  <1>1. Orders = 1..Len(clob) /\ Len(clob) \in Nat
    BY ItemFacts
  <1>2. IsFiniteSet(Makers(s)) /\ Makers(s) \subseteq Orders
    <2>1. IsFiniteSet(Orders)
      BY <1>1, FS_Interval
    <2>2. Makers(s) \subseteq Orders
      BY DEF Makers
    <2> QED
      BY <2>1, <2>2, FS_Subset
  <1>3. \A i \in Makers(s) : Claims[i] \in Nat /\ counted[i] \in Nat
    BY <1>2, ItemFacts, FillFacts DEF Claims
  <1>4. Claimed(s) \in Nat /\ Recorded(s) \in Nat
    BY <1>2, <1>3, SumNat DEF Claimed, Recorded
  <1>5. position[s] \in Nat /\ MaxTotalShares \in Nat
    BY EngineFacts, BatchTotalType, SizingAssumption DEF EngineTypeOK, MaxTotalShares
  <1> QED
    BY <1>2, <1>3, <1>4, <1>5, FillFacts

LEMMA MakerTypesNext ==
    ASSUME IInv', NEW s \in MarketSide
    PROVE  /\ IsFiniteSet(Makers(s)') /\ Makers(s)' \subseteq Orders'
           /\ \A i \in Makers(s)' : Claims'[i] \in Nat /\ counted'[i] \in Nat
           /\ Claimed(s)' \in Nat /\ Recorded(s)' \in Nat /\ position'[s] \in Nat
  <1>1. Orders' = 1..Len(clob') /\ Len(clob') \in Nat
    BY FillFactsNext DEF Orders
  <1>2. IsFiniteSet(Makers(s)') /\ Makers(s)' \subseteq Orders'
    <2>1. IsFiniteSet(Orders')
      BY <1>1, FS_Interval
    <2>2. Makers(s)' \subseteq Orders'
      BY DEF Makers
    <2> QED
      BY <2>1, <2>2, FS_Subset
  <1>3. \A i \in Makers(s)' : Claims'[i] \in Nat /\ counted'[i] \in Nat
    <2>1. \A i \in Orders' : clob'[i].size \in Nat /\ counted'[i] \in Nat
      BY FillFactsNext DEF Order
    <2> QED
      BY <1>2, <2>1 DEF Claims
  <1>4. Claimed(s)' \in Nat /\ Recorded(s)' \in Nat
    BY <1>2, <1>3, SumNat DEF Claimed, Recorded
  <1>5. position'[s] \in Nat
    BY DEF IInv, TypeOK, EngineTypeOK
  <1> QED
    BY <1>2, <1>3, <1>4, <1>5

\* A sum over one element more.
LEMMA SumAdded ==
    ASSUME NEW S, IsFiniteSet(S), NEW e, e \notin S, NEW f, \A x \in S \union {e} : f[x] \in Int
    PROVE  SumFunctionOnSet(f, S \union {e}) = f[e] + SumFunctionOnSet(f, S)
  <1> DEFINE T == S \union {e}
  <1>1. IsFiniteSet(T) /\ T \ {e} = S /\ e \in T
    BY FS_AddElement
  <1>2. \A x \in T : f[x] \in Int
    OBVIOUS
  <1> HIDE DEF T
  <1>3. SumFunctionOnSet(f, T) = f[e] + SumFunctionOnSet(f, T \ {e})
    BY <1>1, <1>2, SumRemove
  <1> QED
    BY <1>1, <1>3 DEF T

\* The claim of an order only shrinks.
LEMMA ClaimShrinks ==
    ASSUME IInv, IInv', FillInv, FillInv', OrdersSound(clob), OrdersSound(clob'),
           NEW i \in Orders, i \in Orders',
           Evolves(clob[i], clob'[i]), counted'[i] >= counted[i]
    PROVE  Claims'[i] <= Claims[i]
  <1>1. /\ clob[i].size \in Nat /\ clob[i].matched \in Nat /\ counted[i] \in Nat
        /\ clob'[i].matched \in Nat /\ counted'[i] \in Nat
    BY ItemFacts, FillFacts, FillFactsNext
  <1>2. /\ counted[i] <= clob[i].matched /\ counted'[i] <= clob'[i].matched
        /\ clob[i].matched <= clob[i].size /\ clob'[i].matched <= clob'[i].size
    BY DEF FillInv, NoDoubleCount, OrdersSound, Orders
  <1>3. /\ Claims[i] = IF clob[i].live \/ counted[i] # clob[i].matched
                       THEN clob[i].size ELSE counted[i]
        /\ Claims'[i] = IF clob'[i].live \/ counted'[i] # clob'[i].matched
                        THEN clob'[i].size ELSE counted'[i]
    BY DEF Claims
  <1>4. CASE clob[i].live
    BY <1>1, <1>2, <1>3, <1>4 DEF Evolves
  <1>5. CASE ~clob[i].live
    BY <1>1, <1>2, <1>3, <1>5 DEF Evolves
  <1> QED
    BY <1>4, <1>5

\* What is left of the claims, when the makers of a side stay the same.
LEMMA ClaimedShrinks ==
    ASSUME IInv, IInv', FillInv, FillInv', OrdersSound(clob), OrdersSound(clob'),
           \A i \in Orders : i \in Orders' /\ Evolves(clob[i], clob'[i]) /\ counted'[i] >= counted[i],
           NEW s \in MarketSide
    PROVE  /\ \A i \in Makers(s) : Claims'[i] \in Nat /\ Claims'[i] <= Claims[i]
           /\ SumFunctionOnSet(Claims', Makers(s)) <= Claimed(s)
           /\ Makers(s) \subseteq Makers(s)'
           /\ Makers(s)' \ Makers(s) \subseteq Orders' \ Orders
  <1>1. Makers(s) \subseteq Makers(s)' /\ Makers(s)' \ Makers(s) \subseteq Orders' \ Orders
    BY DEF Makers, Evolves
  <1>2. IsFiniteSet(Makers(s)) /\ Makers(s) \subseteq Orders
        /\ \A i \in Makers(s) : Claims[i] \in Nat
    BY MakerTypes
  <1>3. \A i \in Makers(s) : Claims'[i] \in Nat
    BY <1>1, MakerTypesNext
  <1>4. \A i \in Makers(s) : Claims'[i] <= Claims[i]
    BY <1>2, ClaimShrinks
  <1> DEFINE f == Claims
             g == Claims'
             S == Makers(s)
  <1>5. \A i \in S : f[i] \in Int /\ g[i] \in Int /\ g[i] <= f[i]
    BY <1>2, <1>3, <1>4
  <1>6. IsFiniteSet(S)
    BY <1>2
  <1> HIDE DEF f, g, S
  <1>7. SumFunctionOnSet(g, S) <= SumFunctionOnSet(f, S)
    BY <1>5, <1>6, SumMonotone
  <1> QED
    BY <1>1, <1>3, <1>4, <1>7 DEF Claimed, f, g, S

\* A step of the engine that accepts nothing and asks for nothing.
LEMMA ClaimedInside ==
    ASSUME IInv, IInv', FillInv, FillInv', SideInv, CapInv, UNCHANGED clob,
           \A i \in Orders : counted'[i] >= counted[i], Sent' \subseteq Sent
    PROVE  WithinCap'
  <1>1. /\ OrdersSound(clob) /\ OrdersSound(clob') /\ Orders' = Orders
        /\ \A i \in Orders : Evolves(clob[i], clob'[i])
    BY DEF SideInv, Orders, Evolves
  <1>2. ASSUME NEW s \in MarketSide
        PROVE  /\ Claimed(s)' <= Claimed(s) /\ Claimed(s) \in Nat /\ Claimed(s)' \in Nat
               /\ MaxTotalShares \in Nat
    <2>1. Makers(s)' = Makers(s)
      BY DEF Makers, Orders
    <2>2. SumFunctionOnSet(Claims', Makers(s)) <= Claimed(s)
      BY <1>1, ClaimedShrinks
    <2> QED
      BY <2>1, <2>2, MakerTypes, MakerTypesNext DEF Claimed
  <1>3. ASSUME NEW c \in Sent', c.op = "post"
        PROVE  Claimed(c.side)' + c.size <= MaxTotalShares
    <2>1. c \in Sent /\ c.side \in MarketSide /\ c.size \in Nat
      BY <1>3, ItemFacts DEF Command
    <2>2. Claimed(c.side) + c.size <= MaxTotalShares
      BY <1>3, <2>1 DEF CapInv, WithinCap
    <2> QED
      BY <1>2, <2>1, <2>2
  <1>4. \A s \in MarketSide : Claimed(s)' <= MaxTotalShares
    BY <1>2 DEF CapInv, WithinCap
  <1> QED
    BY <1>3, <1>4 DEF WithinCap

\* n shares of order i are counted, for the side it is of.
LEMMA RecordedInside ==
    ASSUME IInv, IInv', CapInv, UNCHANGED clob, NEW s \in MarketSide, NEW i, NEW n \in Nat,
           Gains(s, i, n)
    PROVE  \A t \in MarketSide : Recorded(t)' <= position'[t]
  <1> SUFFICES ASSUME NEW t \in MarketSide
               PROVE  Recorded(t)' <= position'[t]
    OBVIOUS
  <1> DEFINE M == Makers(t)
             R == M \ {i}
             f == counted
             g == counted'
  <1>0. /\ \A j \in Orders : g[j] = IF j = i THEN f[j] + n ELSE f[j]
        /\ position'[t] = IF t = s THEN position[t] + n ELSE position[t]
        /\ n = 0 \/ (i \in M => t = s)
    BY DEF Gains
  <1>1. M' = M
    BY DEF Makers, Orders
  <1>2. /\ IsFiniteSet(M) /\ M \subseteq Orders /\ \A j \in M : f[j] \in Nat
        /\ Recorded(t) \in Nat /\ position[t] \in Nat /\ position'[t] \in Nat
        /\ SumFunctionOnSet(f, M) <= position[t]
    BY MakerTypes, MakerTypesNext DEF CapInv, Recorded
  <1>3. \A j \in M : g[j] = IF j = i THEN f[j] + n ELSE f[j]
    BY <1>0, <1>2
  <1>4. \A j \in M : g[j] \in Nat
    BY <1>2, <1>3
  <1>5. Recorded(t)' = SumFunctionOnSet(g, M)
    BY <1>1 DEF Recorded
  <1>6. IsFiniteSet(R) /\ R \subseteq M
    BY <1>2, FS_Subset
  <1>7. CASE i \in M /\ n # 0
    <2>1. position'[t] = position[t] + n
      BY <1>0, <1>7
    <2>2. g[i] = f[i] + n /\ f[i] \in Nat
      BY <1>2, <1>3, <1>7
    <2> HIDE DEF M, f, g
    <2>3. \A j \in R : f[j] \in Int /\ f[j] = g[j]
      BY <1>2, <1>3
    <2> HIDE DEF R
    <2>4. SumFunctionOnSet(f, R) = SumFunctionOnSet(g, R)
      BY <1>6, <2>3, SumExtensional
    <2>5. SumFunctionOnSet(f, R) \in Int
      BY <1>6, <2>3, SumInt
    <2>6. /\ SumFunctionOnSet(f, M) = f[i] + SumFunctionOnSet(f, R)
          /\ SumFunctionOnSet(g, M) = g[i] + SumFunctionOnSet(g, R)
      <3>1. \A j \in M : f[j] \in Int /\ g[j] \in Int
        BY <1>2, <1>4
      <3> QED
        BY <1>2, <1>7, <3>1, SumRemove DEF R
    <2> QED
      BY <1>2, <1>5, <2>1, <2>2, <2>4, <2>5, <2>6
  <1>8. CASE ~(i \in M /\ n # 0)
    <2>1. \A j \in M : f[j] \in Int /\ f[j] = g[j]
      BY <1>2, <1>3, <1>8
    <2>2. position'[t] >= position[t]
      BY <1>0, <1>2
    <2> HIDE DEF M, f, g, R
    <2>3. SumFunctionOnSet(f, M) = SumFunctionOnSet(g, M)
      BY <1>2, <2>1, SumExtensional
    <2>4. SumFunctionOnSet(f, M) \in Int
      BY <1>2, <2>1, SumInt
    <2> QED
      BY <1>2, <1>5, <2>2, <2>3, <2>4
  <1> QED
    BY <1>7, <1>8
-----------------------------------------------------------------------------
(* The post under way.                                                     *)

\* In the first market a post under way is the only one of its side, and its flag is up.
LEMMA PostAlone ==
    ASSUME IInv', FlowInv', market' <= 1, NEW c \in Sent', c.op = "post"
    PROVE  /\ quoter'.pending_post[c.side]
           /\ \A r \in Waiting' : r.side = c.side => r.kind \notin {"posted", "filled", "failed"}
  <1> DEFINE s == c.side
             T == PostsOf(s)
             R == PlacedOf(s)
  <1>0. Greatest(market', 1) = 1
    BY DEF IInv, TypeOK, EngineTypeOK, Market, Greatest
  <1>1. /\ cmdq' \in Seq(Command) /\ pending_commands' \in Seq(Command)
        /\ fbq' \in Seq(Feedback) /\ reply' \in Seq(Feedback)
    BY DEF IInv, TypeOK, ExecutorTypeOK, EngineTypeOK
  <1>2. c \in Command /\ s \in MarketSide
    BY <1>1, RangeType DEF Sent, Command
  <1>3. c \in T
    BY <1>2 DEF PostsOf
  <1>4. /\ Flow(T, R)' <= Flag(quoter'.pending_post[s]) /\ Flag(quoter'.pending_post[s]) \in {0, 1}
    BY <1>0, <1>2 DEF FlowInv, Backed, Flag
  <1>5. quoter'.pending_post[s] \/ Flag(quoter'.pending_post[s]) = 0
    BY DEF Flag
  <1>6. Waiting' \subseteq Feedback
    BY <1>1, RangeType DEF Waiting
  <1> DEFINE a == Num(pending_commands', T)  b == Num(cmdq', T)
             d == Num(fbq', R)               e == Num(reply', R)
  <1>7. a \in Nat /\ b \in Nat /\ d \in Nat /\ e \in Nat
    BY <1>1, AtFinite
  <1>8. a + b + d + e <= Flag(quoter'.pending_post[s])
    BY <1>4 DEF Flow
  <1>9. a # 0 \/ b # 0
    <2>1. DOMAIN pending_commands' = 1..Len(pending_commands') /\ DOMAIN cmdq' = 1..Len(cmdq')
      BY <1>1
    <2>2. \/ \E k \in 1..Len(pending_commands') : pending_commands'[k] \in T
          \/ \E k \in 1..Len(cmdq') : cmdq'[k] \in T
      BY <1>3, <2>1 DEF Sent, Range
    <2> QED
      BY <1>1, <2>2, AtFinite
  <1>10. Flag(quoter'.pending_post[s]) # 0 /\ d + e <= 0
    <2> HIDE DEF a, b, d, e
    <2> QED
      BY <1>4, <1>7, <1>8, <1>9
  <1>11. ASSUME NEW r \in Waiting', r \in R
         PROVE  FALSE
    <2>1. DOMAIN fbq' = 1..Len(fbq') /\ DOMAIN reply' = 1..Len(reply')
      BY <1>1
    <2>2. \/ \E k \in 1..Len(fbq') : fbq'[k] \in R
          \/ \E k \in 1..Len(reply') : reply'[k] \in R
      BY <1>11, <2>1 DEF Waiting, Range
    <2>3. d # 0 \/ e # 0
      BY <1>1, <2>2, AtFinite
    <2> HIDE DEF d, e
    <2> QED
      BY <1>7, <1>10, <2>3
  <1>12. \A r \in Waiting' : r.side = s => r.kind \notin {"posted", "filled", "failed"}
    BY <1>6, <1>11 DEF PlacedOf
  <1> QED
    BY <1>5, <1>10, <1>12

\* When a side holds nothing and nothing of it is reported, its orders are over
\* and counted, and claim no more than is recorded.
LEMMA MakersSettled ==
    ASSUME IInv, FillInv, SideInv, OrderInv, CapInv, NEW s \in MarketSide,
           quoter.order[s].id = 0,
           \A r \in Waiting : r.side = s => r.kind \notin {"posted", "filled", "cancelled"}
    PROVE  Claimed(s) <= position[s]
  <1>1. ASSUME NEW i \in Makers(s)
        PROVE  ~clob[i].live /\ counted[i] = clob[i].matched
    <2>0. /\ i \in Orders /\ i # 0 /\ clob[i].maker /\ clob[i].side = s
          /\ \A t \in MarketSide : quoter.order[t].id # i
      <3>1. i \in Orders /\ i # 0 /\ clob[i].maker /\ clob[i].side = s
        BY ItemFacts DEF Makers
      <3>2. ASSUME NEW t \in MarketSide, quoter.order[t].id = i
            PROVE  FALSE
        <4>1. t = s
          BY <3>1, <3>2 DEF SideInv, HeldFaithful
        <4> QED
          BY <3>1, <3>2, <4>1
      <3> QED
        BY <3>1, <3>2
    <2>1. ASSUME NEW r \in Waiting, r.id = i
          PROVE  r.kind = "cancelled" /\ counted[i] = clob[i].size
      <3>1. r \in Feedback /\ r.side \in MarketSide
        BY ItemFacts DEF Feedback
      <3>2. r.kind \notin {"posted", "filled"}
        BY <2>0, <2>1 DEF SideInv, Announced, CapInv
      <3>3. r.kind \notin {"failed", "rebalanced"}
        BY <2>0, <2>1 DEF OrderInv, Truthful
      <3>4. r.kind = "cancelled"
        BY <3>1, <3>2, <3>3 DEF Feedback
      <3> QED
        BY <2>0, <2>1, <3>1, <3>4 DEF SideInv, Aimed, Target
    <2>2. ~clob[i].live
      BY <2>0, <2>1, ItemFacts DEF OrderInv, Reached
    <2>3. CASE counted[i] = clob[i].size
      <3>1. /\ counted[i] <= clob[i].matched /\ clob[i].matched <= clob[i].size
            /\ clob[i].size \in Nat /\ clob[i].matched \in Nat
        BY <2>0, ItemFacts DEF FillInv, NoDoubleCount, SideInv, OrdersSound, Orders
      <3> QED
        BY <2>2, <2>3, <3>1
    <2> QED
      BY <2>0, <2>1, <2>2, <2>3 DEF OrderInv, Settled
  <1>2. \A i \in Makers(s) : i \in Orders /\ Claims[i] = counted[i]
    BY <1>1, MakerTypes DEF Claims
  <1> DEFINE f == Claims
             M == Makers(s)
  <1>3. IsFiniteSet(M) /\ \A i \in M : f[i] \in Int /\ f[i] = counted[i]
    BY <1>2, MakerTypes
  <1> HIDE DEF f, M
  <1>4. SumFunctionOnSet(f, M) = SumFunctionOnSet(counted, M)
    BY <1>3, SumExtensional
  <1> QED
    BY <1>4 DEF Claimed, CapInv, Recorded, f, M

\* A step of the engine that only sends: a post is for a side that waits for
\* nothing, and fits below the cap together with what is recorded.
LEMMA SendsCap ==
    ASSUME IInv, IInv', FillInv, FillInv', FlowInv', SideInv, SideInv', OrderInv, CapInv,
           market <= 1, market' <= 1, UNCHANGED <<clob, reply>>, OnlySends
    PROVE  WithinCap' /\ Waiting' = Waiting
  <1>1. PICK a \in Seq(Command) : \E b \in Seq(Command) :
           SendsNow(a, b) /\ Requests(quoter, quoter', b \o a)
    BY DEF OnlySends
  <1>2. PICK b \in Seq(Command) : SendsNow(a, b) /\ Requests(quoter, quoter', b \o a)
    BY <1>1
  <1>3. Sent' \subseteq Sent \union Range(b \o a)
    BY <1>2, SentItems
  <1>4. Waiting' = Waiting /\ UNCHANGED <<counted, position>>
    BY DEF Waiting, OnlySends
  <1>5. UNCHANGED Claims /\ \A s \in MarketSide : Makers(s)' = Makers(s)
    BY <1>4 DEF Claims, Makers, Orders
  <1>6. \A s \in MarketSide : Claimed(s)' = Claimed(s)
    BY <1>5 DEF Claimed
  <1>7. ASSUME NEW c \in Sent', c.op = "post"
        PROVE  Claimed(c.side)' + c.size <= MaxTotalShares
    <2>1. c \in Command /\ c.side \in MarketSide /\ c.size \in Nat
      <3>1. cmdq' \in Seq(Command) /\ pending_commands' \in Seq(Command)
        BY DEF IInv, TypeOK, EngineTypeOK
      <3> QED
        BY <3>1, RangeType DEF Sent, Command
    <2>2. CASE c \in Sent
      BY <1>6, <1>7, <2>1, <2>2 DEF CapInv, WithinCap
    <2>3. CASE c \notin Sent
      <3>1. position[c.side] + c.size <= MaxTotalShares
        BY <1>2, <1>3, <1>7, <2>3 DEF Requests, Fits
      <3>2. /\ quoter'.pending_post[c.side]
            /\ \A r \in Waiting : r.side = c.side => r.kind \notin {"posted", "filled", "failed"}
        BY <1>4, <1>7, PostAlone
      <3>3. quoter.order[c.side].id = 0 /\ ~quoter'.pending_cancel[c.side]
        BY <1>2, <2>1, <3>2 DEF Requests, SideInv, HeldFaithful
      <3>4. \A r \in Waiting : r.side = c.side => r.kind # "cancelled"
        BY <1>4, <2>1, <3>3, NoCancelUnraised
      <3>5. Claimed(c.side) <= position[c.side]
        BY <2>1, <3>2, <3>3, <3>4, MakersSettled
      <3> QED
        BY <1>6, <2>1, <3>1, <3>5, MakerTypes
    <2> QED
      BY <2>2, <2>3
  <1> QED
    BY <1>4, <1>6, <1>7 DEF CapInv, WithinCap
-----------------------------------------------------------------------------
(* The cap, outside the engine.                                            *)

\* The exchange accepts the order c asks for, and its report is under way.
Places(c) ==
    /\ c.op = "post" /\ Orders' \ Orders = {NextId}
    /\ clob'[NextId].side = c.side /\ clob'[NextId].size = c.size
    /\ \E r \in Waiting' : r.kind \in {"posted", "filled"} /\ r.side = c.side

LEMMA ExecutorAccepts ==
    ASSUME IInv, SideInv, "post" \notin Faults, ExecutorStep
    PROVE  \/ Orders' = Orders
           \/ Sent # {} /\ Orders' \ Orders = {NextId} /\ ~clob'[NextId].maker
           \/ \E c \in Sent : Places(c)
  <1> DEFINE c == Head(cmdq)
  <1>0. OrdersSound(clob) /\ 0 \in Nat
    BY DEF SideInv
  <1>t. ASSUME NEW op, Receive(op)
        PROVE  c \in Sent /\ c.op = op /\ c.side \in MarketSide /\ c.size \in Nat
    <2>1. c \in Command /\ c.op = op
      BY <1>t, ReceiveType DEF Receive
    <2>2. cmdq # <<>> /\ cmdq \in Seq(Command)
      BY <1>t, QueueFacts DEF Receive
    <2>3. c \in Range(cmdq)
      BY <2>2, RangeTail
    <2> QED
      BY <2>1, <2>3 DEF Command, Sent
  <1>o. ASSUME NEW r, Owe(r)
        PROVE  r \in Waiting'
    <2>1. Range(reply') = {r}
      BY <1>o, RangeOne DEF Owe
    <2> QED
      BY <2>1 DEF Waiting
  <1>k. ASSUME UNCHANGED clob \/ CancelAll \/ \E j \in Orders : Cancel(j)
        PROVE  Orders' = Orders
    BY <1>0, <1>k, CancelEvolves
  <1>p. ASSUME NEW x \in Nat, x = 0 \/ x = c.size, NEW m, NEW r,
               Receive("post"), Owe(r), Accept(c.side, c.size, x, m, TRUE),
               r.kind \in {"posted", "filled"}, r.side = c.side
        PROVE  \E d \in Sent : Places(d)
    <2> DEFINE n == c.size
               maker == TRUE
    <2>1. /\ c \in Sent /\ c.op = "post" /\ c.side \in MarketSide /\ n \in Nat
          /\ x <= n /\ maker \in BOOLEAN /\ (x < n => maker)
      BY <1>p, <1>t
    <2>2. Accept(c.side, n, x, m, maker) /\ r \in Waiting'
      BY <1>o, <1>p
    <2> HIDE DEF c, n, maker
    <2>3. /\ Orders' \ Orders = {NextId}
          /\ clob'[NextId].side = c.side /\ clob'[NextId].size = n
      BY <1>0, <2>1, <2>2, AcceptEvolves
    <2> QED
      BY <1>p, <2>1, <2>2, <2>3 DEF Places, n
  <1>1. CASE PostAccepted
    BY <1>0, <1>1, <1>p DEF PostAccepted, OrderPosted
  <1>2. CASE PostFilled
    <2>1. c.size \in Nat
      BY <1>2, <1>t DEF PostFilled
    <2> QED
      BY <1>2, <1>p, <2>1 DEF PostFilled, OrderFilled
  <1>3. CASE PostRejected \/ TakerKilled
    BY <1>3, <1>k DEF PostRejected, TakerKilled, Answer
  <1>4. CASE PostErrored \/ TakerErrored
    BY <1>4 DEF PostErrored, TakerErrored
  <1>5. CASE HandleCancel
    <2>1. Receive("cancel") /\ (Cancel(c.id) \/ UNCHANGED clob)
      BY <1>5 DEF HandleCancel
    <2>2. c \in Sent /\ c.op = "cancel"
      BY <1>t, <2>1
    <2>3. c.id \in Orders
      BY <2>2, ItemFacts
    <2> QED
      BY <1>k, <2>1, <2>3
  <1>6. CASE CancelStatus \/ Reply
    BY <1>6, <1>k DEF CancelStatus, Reply
  <1>7. CASE TakerFilled
    <2>1. PICK n \in (c.size - FokSlack)..(c.size + FokSlack) :
             n > 0 /\ Accept(c.side, n, n, c.market, FALSE)
      BY <1>7 DEF TakerFilled
    <2> DEFINE maker == FALSE
    <2>2. c \in Sent /\ c.side \in MarketSide /\ n \in Nat /\ maker \in BOOLEAN
      <3>1. Receive("rebalance")
        BY <1>7 DEF TakerFilled
      <3>2. c \in Sent /\ c.side \in MarketSide /\ c.size \in Nat
        BY <1>t, <3>1
      <3> QED
        BY <2>1, <3>2, ExecutorAssumption
    <2>3. n <= n /\ (n < n => maker) /\ ~maker
      BY <2>2
    <2>a. Accept(c.side, n, n, c.market, maker)
      BY <2>1
    <2> HIDE DEF c, maker
    <2>4. Orders' \ Orders = {NextId} /\ clob'[NextId].maker = maker
      BY <1>0, <2>2, <2>3, <2>a, AcceptEvolves
    <2> QED
      BY <2>2, <2>3, <2>4
  <1>8. CASE Rotate
    BY <1>8, <1>k DEF Rotate
  <1> QED
    BY <1>1, <1>2, <1>3, <1>4, <1>5, <1>6, <1>7, <1>8 DEF ExecutorStep, ExecutorNext

\* An accepted order claims no more than its post, the only one of its side.
LEMMA PlacedCap ==
    ASSUME IInv, IInv', FillInv, FillInv', FlowInv', market <= 1, market' <= 1,
           OrdersSound(clob), OrdersSound(clob'), CapInv, UNCHANGED counted,
           \A i \in Orders : i \in Orders' /\ Evolves(clob[i], clob'[i]),
           NEW s \in MarketSide, \/ Makers(s)' = Makers(s)
                                 \/ \E c \in Sent : Places(c) /\ c.side = s
    PROVE  /\ Claimed(s)' <= MaxTotalShares
           /\ Sent' \subseteq Sent => \A c \in Sent' : c.op = "post" /\ c.side = s =>
                                         Claimed(s)' + c.size <= MaxTotalShares
  <1> DEFINE M == Makers(s)
             rest == SumFunctionOnSet(Claims', M)
  <1>0. \A i \in Orders : counted'[i] >= counted[i] /\ counted[i] \in Nat
    BY FillFacts
  <1>1. rest <= Claimed(s) /\ Makers(s)' \ M \subseteq Orders' \ Orders /\ M \subseteq Makers(s)'
    BY <1>0, ClaimedShrinks
  <1>2. /\ IsFiniteSet(M) /\ M \subseteq Orders /\ Claimed(s) \in Nat /\ MaxTotalShares \in Nat
        /\ Claimed(s) <= MaxTotalShares /\ Claimed(s)' \in Nat
        /\ \A i \in Makers(s)' : Claims'[i] \in Nat
    BY MakerTypes, MakerTypesNext DEF CapInv, WithinCap
  <1>3. rest \in Nat
    <2> DEFINE g == Claims'
    <2>1. \A i \in M : g[i] \in Nat
      BY <1>1, <1>2
    <2> HIDE DEF g, M
    <2>2. SumFunctionOnSet(g, M) \in Nat
      BY <1>2, <2>1, SumNat
    <2> QED
      BY <2>2 DEF g
  <1>4. CASE Makers(s)' = M
    <2>1. Claimed(s)' = rest
      BY <1>4 DEF Claimed
    <2>2. \A c \in Sent : c.op = "post" /\ c.side = s =>
             Claimed(s) + c.size <= MaxTotalShares /\ c.size \in Nat
      BY ItemFacts DEF CapInv, WithinCap, Command
    <2> HIDE DEF rest, M
    <2> QED
      BY <1>1, <1>2, <1>3, <2>1, <2>2
  <1>5. CASE Makers(s)' # M
    <2>1. PICK c \in Sent : Places(c) /\ c.side = s
      BY <1>5
    <2>2. /\ Makers(s)' = M \union {NextId} /\ NextId \notin Orders /\ NextId \in Orders'
          /\ clob'[NextId].size = c.size
      BY <1>1, <1>5, <2>1 DEF Places
    <2>3. counted'[NextId] = 0
      <3>1. NextId \in OrderId
        BY <2>2, FillFactsNext
      <3> QED
        BY <2>2, <3>1 DEF FillInv, NothingUnaccepted
    <2>4. c.size \in Nat /\ c.op = "post"
      BY <2>1, ItemFacts DEF Command, Places
    <2>5. Claims'[NextId] <= c.size
      BY <2>2, <2>3, <2>4 DEF Claims
    <2>6. Claimed(s)' = Claims'[NextId] + rest
      <3> DEFINE e == NextId
                 g == Claims'
      <3>1. e \notin M /\ \A i \in M \union {e} : g[i] \in Int
        BY <1>2, <2>2
      <3> HIDE DEF e, g, M
      <3>2. SumFunctionOnSet(g, M \union {e}) = g[e] + SumFunctionOnSet(g, M)
        BY <1>2, <3>1, SumAdded
      <3>3. Claimed(s)' = SumFunctionOnSet(g, M \union {e})
        BY <2>2 DEF Claimed, g, e
      <3> QED
        BY <3>2, <3>3 DEF g, e
    <2>7. Claimed(s) + c.size <= MaxTotalShares
      BY <2>1, <2>4 DEF CapInv, WithinCap
    <2>8. Claims'[NextId] \in Nat
      BY <1>2, <2>2
    <2>9. \A d \in Sent' : ~(d.op = "post" /\ d.side = s)
      <3>1. PICK r \in Waiting' : r.kind \in {"posted", "filled"} /\ r.side = s
        BY <2>1 DEF Places
      <3> QED
        BY <3>1, PostAlone
    <2> HIDE DEF rest
    <2> QED
      BY <1>1, <1>2, <1>3, <2>4, <2>5, <2>6, <2>7, <2>8, <2>9
  <1> QED
    BY <1>4, <1>5

\* The executor and the exchange change no count, and each new order is the one
\* its post asked for.
LEMMA CapOutside ==
    ASSUME IInv, IInv', FillInv, FillInv', FlowInv', IdleFirst, SideInv, SideInv', OrderInv,
           CapInv, market <= 1, market' <= 1, "post" \notin Faults, ExecutorStep \/ ExchangeStep
    PROVE  CapInv'
  <1>0. OrdersSound(clob) /\ OrdersSound(clob')
    BY DEF SideInv
  <1>1. /\ UNCHANGED engineVars /\ Len(clob') >= Len(clob)
        /\ \A i \in Orders : Evolves(clob[i], clob'[i])
        /\ Sent' \subseteq Sent /\ \A r \in Waiting' : Explained(r)
        /\ \/ Orders' = Orders
           \/ Sent # {} /\ Orders' \ Orders = {NextId} /\ ~clob'[NextId].maker
           \/ \E c \in Sent : Places(c)
    <2>1. CASE ExecutorStep
      BY <1>0, <2>1, ExecutorEffect, ExecutorAccepts
    <2>2. CASE ExchangeStep
      <3>1. /\ UNCHANGED <<engineVars, cmdq, fbq, reply>> /\ Len(clob') = Len(clob)
            /\ \A i \in Orders : Evolves(clob[i], clob'[i])
        BY <1>0, <2>2, ExchangeEffect
      <3>2. Sent' = Sent /\ Waiting' = Waiting /\ Orders' = Orders
        BY <3>1 DEF Sent, Waiting, engineVars, Orders
      <3> QED
        BY <3>1, <3>2, FillFacts DEF Explained
    <2> QED
      BY <2>1, <2>2
  <1>2. UNCHANGED <<counted, position, market>>
    BY <1>1 DEF engineVars
  <1>3. /\ Orders = 1..Len(clob) /\ Orders' = 1..Len(clob')
        /\ Len(clob) \in Nat /\ Len(clob') \in Nat
    BY FillFacts, FillFactsNext DEF Orders
  <1>4. \A i \in Orders : i \in Orders'
    BY <1>1, <1>3
  <1>5. \A s \in MarketSide : Makers(s) \subseteq Makers(s)'
                              /\ Makers(s)' \ Makers(s) \subseteq Orders' \ Orders
    BY <1>1, <1>4 DEF Makers, Evolves
  <1>6. ASSUME NEW s \in MarketSide, Makers(s)' # Makers(s)
        PROVE  \E c \in Sent : Places(c) /\ c.side = s
    <2>1. PICK i : i \in Makers(s)' /\ i \in Orders' \ Orders
      BY <1>5, <1>6
    <2>2. clob'[i].maker /\ clob'[i].side = s
      BY <2>1 DEF Makers
    <2> QED
      BY <1>1, <2>1, <2>2 DEF Places
  <1>7. WithinCap'
    <2>1. ASSUME NEW s \in MarketSide
          PROVE  /\ Claimed(s)' <= MaxTotalShares
                 /\ \A c \in Sent' : c.op = "post" /\ c.side = s =>
                       Claimed(s)' + c.size <= MaxTotalShares
      BY <1>0, <1>1, <1>2, <1>4, <1>6, PlacedCap
    <2>2. \A c \in Sent' : c.side \in MarketSide
      BY <1>1, ItemFacts DEF Command
    <2> QED
      BY <2>1, <2>2 DEF WithinCap
  <1>8. ASSUME NEW s \in MarketSide
        PROVE  Recorded(s)' <= position'[s]
    <2> DEFINE M == Makers(s)
               N == Makers(s)'
               e == NextId
               f == counted
    <2>1. IsFiniteSet(M) /\ \A i \in M : f[i] \in Nat
      BY MakerTypes
    <2>2. Recorded(s)' = SumFunctionOnSet(f, N)
      BY <1>2 DEF Recorded
    <2>3. SumFunctionOnSet(f, M) <= position[s]
      BY DEF CapInv, Recorded
    <2>4. CASE N = M
      BY <1>2, <2>2, <2>3, <2>4
    <2>5. CASE N # M
      <3>1. N = M \union {e} /\ e \notin M /\ f[e] = 0
        <4>1. N = M \union {e} /\ e \in Orders' /\ e \notin Orders
          BY <1>5, <1>6, <2>5 DEF Places
        <4>2. e \in OrderId
          BY <4>1, FillFactsNext
        <4>3. f[e] = 0
          BY <1>2, <4>1, <4>2 DEF FillInv, NothingUnaccepted
        <4>4. e \notin M
          BY <4>1 DEF Makers
        <4> QED
          BY <4>1, <4>3, <4>4
      <3> HIDE DEF M, N, e, f
      <3>2. SumFunctionOnSet(f, M \union {e}) = f[e] + SumFunctionOnSet(f, M)
        BY <2>1, <3>1, SumAdded
      <3>3. SumFunctionOnSet(f, M) \in Nat
        BY <2>1, SumNat
      <3> QED
        BY <1>2, <2>2, <2>3, <3>1, <3>2, <3>3
    <2> QED
      BY <2>4, <2>5
  <1>9. ASSUME NEW r \in Waiting', r.kind = "filled"
        PROVE  clob'[r.id].side = r.side
    <2>1. CASE r \in Waiting
      <3>1. r.id \in Orders
        BY <1>3, <1>9, <2>1 DEF OrderInv, Truthful, Final
      <3> QED
        BY <1>1, <1>9, <2>1, <3>1 DEF CapInv, Evolves
    <2>2. CASE r \notin Waiting
      BY <1>1, <1>9, <2>2 DEF Explained, Outcome
    <2> QED
      BY <2>1, <2>2
  <1>10. market' = 0 => Orders' = {}
    <2>1. ASSUME market = 0
          PROVE  Sent = {} /\ Orders = {}
      <3>1. cmdq = <<>> /\ pending_commands = <<>>
        BY <2>1 DEF IdleFirst
      <3> QED
        BY <2>1, <3>1, RangeNone DEF Sent, CapInv
    <2> QED
      BY <1>1, <1>2, <2>1
  <1> QED
    BY <1>7, <1>8, <1>9, <1>10 DEF CapInv
-----------------------------------------------------------------------------
(* The cap, as the engine takes reports.                                   *)

\* What is left to show of a report that records n shares of order i.
LEMMA FeedCap ==
    ASSUME IInv, IInv', FillInv, FillInv', SideInv, CapInv, UNCHANGED <<clob, reply>>,
           NEW kind, Feed(kind), NEW s \in MarketSide, NEW i, NEW n \in Nat,
           Gains(s, i, n)
    PROVE  CapInv'
  <1>1. Sent' = Sent /\ Waiting' \subseteq Waiting
    BY FeedItems
  <1>2. Orders' = Orders /\ UNCHANGED market
    BY DEF Orders, Feed
  <1>3. \A j \in Orders : counted'[j] >= counted[j]
    <2>1. \A j \in Orders : counted[j] \in Nat
      BY FillFacts
    <2> QED
      BY <2>1 DEF Gains
  <1>4. WithinCap'
    BY <1>1, <1>3, ClaimedInside
  <1>5. \A t \in MarketSide : Recorded(t)' <= position'[t]
    BY RecordedInside
  <1> QED
    BY <1>1, <1>2, <1>4, <1>5 DEF CapInv

LEMMA FillGains ==
    ASSUME IInv, NEW s \in MarketSide, NEW i, NEW n, RecordFill(s, i, n)
    PROVE  /\ i \in Orders => counted'[i] = counted[i] + n
           /\ (n = 0 \/ \A t \in MarketSide : i \in Makers(t) => t = s) => Gains(s, i, n)
  <1>1. position \in [MarketSide -> Nat] /\ counted \in [OrderId -> Nat] /\ Orders \subseteq OrderId
    BY EngineFacts, FillFacts DEF EngineTypeOK
  <1> QED
    BY <1>1 DEF RecordFill, Gains

LEMMA NothingGains ==
    ASSUME IInv, NEW s \in MarketSide, NEW i, RecordNothing
    PROVE  Gains(s, i, 0)
  <1>1. \A j \in Orders : counted[j] \in Nat
    BY FillFacts
  <1>2. \A t \in MarketSide : position[t] \in Nat
    BY EngineFacts DEF EngineTypeOK
  <1> QED
    BY <1>1, <1>2 DEF RecordNothing, Gains

\* Announced or refused, nothing is recorded; an order filled as it was placed, a
\* cancel's order and a hedge are recorded for their side.
LEMMA CapFeedback ==
    ASSUME IInv, IInv', FillInv, FillInv', SideInv, OrderInv, CapInv,
           UNCHANGED <<clob, reply>>, FeedbackNext
    PROVE  CapInv'
  <1> DEFINE r == Head(fbq)
             d == CancelDelta(r)
  <1>1. PICK kind : Feed(kind)
    BY DEF FeedbackNext, OnPosted, OnAlreadyFilled, OnFailed, OnCancelled, OnRebalanced
  <1>2. r \in Waiting /\ r \in Feedback /\ r.kind = kind /\ r.side \in MarketSide /\ r.size \in Nat
    BY <1>1, FeedItems DEF Feedback
  <1>n. ASSUME RecordNothing
        PROVE  CapInv'
    <2>1. 0 \in Nat /\ Gains(r.side, r.id, 0)
      BY <1>2, <1>n, NothingGains
    <2> QED
      BY <1>1, <1>2, <2>1, FeedCap
  <1>f. ASSUME NEW n \in Nat, RecordFill(r.side, r.id, n),
               n = 0 \/ \A t \in MarketSide : r.id \in Makers(t) => t = r.side
        PROVE  CapInv'
    <2>1. Gains(r.side, r.id, n)
      BY <1>2, <1>f, FillGains
    <2> QED
      BY <1>1, <1>2, <2>1, FeedCap
  <1>3. CASE OnPosted \/ OnFailed
    BY <1>3, <1>n DEF OnPosted, OnFailed
  <1>4. CASE OnAlreadyFilled
    <2>1. Feed("filled") /\ RecordFill(r.side, r.id, r.size)
      BY <1>4 DEF OnAlreadyFilled
    <2>2. r.kind = "filled"
      BY <2>1, FeedItems
    <2>3. \A t \in MarketSide : r.id \in Makers(t) => t = r.side
      BY <1>2, <2>2 DEF CapInv, Makers
    <2> QED
      BY <1>2, <1>f, <2>1, <2>3
  <1>5. CASE OnRebalanced
    <2>1. Feed("rebalanced") /\ IF r.ok THEN RecordFill(r.side, r.id, r.size) ELSE RecordNothing
      BY <1>5 DEF OnRebalanced
    <2>2. r.kind = "rebalanced"
      BY <2>1, FeedItems
    <2>3. r.ok => \A t \in MarketSide : r.id \notin Makers(t)
      BY <1>2, <2>2 DEF OrderInv, Truthful, Makers
    <2> QED
      BY <1>2, <1>f, <1>n, <2>1, <2>3
  <1>6. CASE OnCancelled
    <2>1. Feed("cancelled") /\ RecordFill(r.side, r.id, d)
      BY <1>6 DEF OnCancelled
    <2>2. r.kind = "cancelled" /\ d \in Nat
      BY <1>2, <2>1, FeedItems, DeltaType
    <2>3. r.id \in Orders /\ r.id # 0
      BY <1>2, <2>2, ItemFacts
    <2>4. Target(r.side, r.id)
      BY <1>2, <2>2 DEF SideInv, Aimed
    <2>5. CASE quoter.order[r.side].id = r.id
      <3>1. clob[r.id].side = r.side
        BY <1>2, <2>3, <2>5 DEF SideInv, HeldFaithful
      <3>2. \A t \in MarketSide : r.id \in Makers(t) => t = r.side
        BY <3>1 DEF Makers
      <3> QED
        BY <1>f, <2>1, <2>2, <3>2
    <2>6. CASE counted[r.id] = clob[r.id].size
      <3>1. counted'[r.id] = counted[r.id] + d
        BY <1>2, <2>1, <2>3, FillGains
      <3>2. counted'[r.id] <= clob[r.id].matched
        BY <2>3 DEF FillInv, NoDoubleCount, Orders
      <3>3. clob[r.id].matched <= clob[r.id].size
        BY <2>3 DEF SideInv, OrdersSound, Orders
      <3>4. clob[r.id].size \in Nat /\ clob[r.id].matched \in Nat
        BY <2>3, ItemFacts
      <3> HIDE DEF d
      <3>5. d = 0
        BY <2>2, <2>6, <3>1, <3>2, <3>3, <3>4
      <3> QED
        BY <1>f, <2>1, <2>2, <3>5
    <2> QED
      BY <2>4, <2>5, <2>6 DEF Target
  <1> QED
    BY <1>3, <1>4, <1>5, <1>6 DEF FeedbackNext

-----------------------------------------------------------------------------
(* The cap, as the engine counts fills and asks for orders.                *)

LEMMA CapReport ==
    ASSUME IInv, IInv', FillInv, FillInv', SideInv, CapInv,
           UNCHANGED <<clob, reply>>, FillReport
    PROVE  CapInv'
  <1>1. Sent' = Sent /\ Waiting' = Waiting
    BY ReportEffect
  <1>2. Orders' = Orders /\ UNCHANGED market
    BY DEF Orders, FillReport, OnTradeStatusUpdate
  <1>3. \A j \in Orders : counted[j] \in Nat
    BY FillFacts
  <1>4. ASSUME NEW s \in MarketSide, NEW i, NEW n \in Nat, Gains(s, i, n)
        PROVE  CapInv'
    <2>1. \A j \in Orders : counted'[j] >= counted[j]
      BY <1>3, <1>4 DEF Gains
    <2>2. WithinCap'
      BY <1>1, <2>1, ClaimedInside
    <2>3. \A t \in MarketSide : Recorded(t)' <= position'[t]
      BY <1>4, RecordedInside
    <2> QED
      BY <1>1, <1>2, <2>2, <2>3 DEF CapInv
  <1>5. CASE UNCHANGED <<counted, quoter, position>>
    <2>1. "yes" \in MarketSide /\ 0 \in Nat
      BY DEF MarketSide
    <2>2. Gains("yes", 0, 0)
      BY <1>5, <2>1, NothingGains DEF RecordNothing
    <2> QED
      BY <1>4, <2>1, <2>2
  <1>6. ASSUME NEW i \in Orders, NEW s \in MarketSide, NEW n \in Nat, CountsTo(i, s, n)
        PROVE  CapInv'
    <2> DEFINE d == n - quoter.order[s].size_filled
    <2>1. /\ clob[i].side = s /\ counted[i] = quoter.order[s].size_filled
          /\ d \in Nat /\ counted'[i] = counted[i] + d
      <3>1. clob[i].side = s
        BY <1>6, ItemFacts DEF SideInv, HeldFaithful, CountsTo
      <3>2. counted[i] = quoter.order[s].size_filled
        BY <1>6, ItemFacts DEF FillInv, QuoterSound, HeldSound, CountsTo
      <3>3. quoter.order[s].size_filled < n /\ counted'[i] = n
        BY <1>6 DEF CountsTo
      <3> QED
        BY <1>3, <3>1, <3>2, <3>3
    <2>2. /\ \A j \in Orders : j # i => counted'[j] = counted[j]
          /\ position' = [position EXCEPT ![s] = @ + d]
      BY <1>6 DEF CountsTo
    <2>3. position \in [MarketSide -> Nat]
      BY EngineFacts DEF EngineTypeOK
    <2>4. \A t \in MarketSide : i \in Makers(t) => t = s
      BY <2>1 DEF Makers
    <2> HIDE DEF d
    <2>5. Gains(s, i, d)
      BY <2>1, <2>2, <2>3, <2>4 DEF Gains
    <2> QED
      BY <1>4, <2>1, <2>5
  <1> QED
    BY <1>5, <1>6, ReportEffect

LEMMA CapSends ==
    ASSUME IInv, IInv', FillInv, FillInv', FlowInv', SideInv, SideInv', OrderInv, CapInv,
           market <= 1, market' <= 1, UNCHANGED <<clob, reply, market>>, OnlySends
    PROVE  CapInv'
  <1>1. WithinCap' /\ Waiting' = Waiting
    BY SendsCap
  <1>2. UNCHANGED <<counted, position>>
    BY DEF OnlySends
  <1>3. Orders' = Orders /\ \A s \in MarketSide : Makers(s)' = Makers(s)
    BY DEF Makers, Orders
  <1>4. \A s \in MarketSide : Recorded(s)' = Recorded(s)
    BY <1>2, <1>3 DEF Recorded
  <1> QED
    BY <1>1, <1>2, <1>3, <1>4 DEF CapInv

\* Nothing is on the exchange before the first rotation.
LEMMA CapRotation ==
    ASSUME IInv, IInv', IdleFirst, CapInv, market <= 1, market' <= 1, UNCHANGED <<clob, reply>>,
           OnMarketRotation
    PROVE  CapInv'
  <1>1. market < MaxMarkets /\ market' = market + 1 /\ market \in Nat
    BY EngineFacts DEF OnMarketRotation, EngineTypeOK, Market
  <1>2. market = 0 /\ market' # 0
    BY <1>1, BoundsAssumption
  <1>3. Orders' = {}
    BY <1>2 DEF CapInv, Orders
  <1>4. /\ Waiting' = {} /\ position' = [s \in MarketSide |-> 0]
        /\ \A c \in Sent' : c.op = "rotate"
    BY RotationFresh, RangeNone DEF Waiting
  <1>5. \A s \in MarketSide : Makers(s)' = {}
    BY <1>3 DEF Makers
  <1>6. \A s \in MarketSide : Claimed(s)' = 0 /\ Recorded(s)' = 0
    BY <1>5, SumEmpty DEF Claimed, Recorded
  <1>7. \A s \in MarketSide : MaxTotalShares \in Nat
    BY MakerTypes
  <1> QED
    BY <1>2, <1>4, <1>6, <1>7 DEF CapInv, WithinCap

-----------------------------------------------------------------------------

LEMMA CapNext ==
    ASSUME CalmCalls, market <= 1, market' <= 1, IInv, IInv', FillInv, FillInv', FlowInv',
           IdleFirst, SideInv, SideInv', OrderInv, CapInv, [Next]_vars
    PROVE  CapInv'
  <1>0. "post" \notin Faults
    BY DEF CalmCalls
  <1>k. ASSUME UNCHANGED <<quoter, counted, position, market, clob, cmdq, pending_commands,
                           fbq, reply>>
        PROVE  CapInv'
    <2>1. Sent' = Sent /\ Waiting' = Waiting /\ Orders' = Orders
          /\ \A s \in MarketSide : Makers(s)' = Makers(s)
      BY <1>k DEF Sent, Waiting, Orders, Makers
    <2>2. Claims' = Claims
      BY <1>k, <2>1 DEF Claims
    <2>3. \A s \in MarketSide : Claimed(s)' = Claimed(s) /\ Recorded(s)' = Recorded(s)
      BY <1>k, <2>1, <2>2 DEF Claimed, Recorded
    <2>4. WithinCap'
      <3>1. \A c \in Sent : c.side \in MarketSide
        BY ItemFacts DEF Command
      <3> QED
        BY <2>1, <2>3, <3>1 DEF CapInv, WithinCap
    <2> QED
      BY <1>k, <2>1, <2>3, <2>4 DEF CapInv
  <1>1. CASE EngineStep
    <2>1. UNCHANGED <<clob, reply>>
      BY <1>1 DEF EngineStep, executorVars
    <2>2. CASE FeedbackNext
      BY <2>1, <2>2, CapFeedback
    <2>3. CASE FillReport
      BY <2>1, <2>3, CapReport
    <2>4. CASE OnMarketRotation
      BY <1>0, <2>1, <2>4, CapRotation
    <2>5. ASSUME OnlySends, UNCHANGED market
          PROVE  CapInv'
      BY <1>0, <2>1, <2>5, CapSends
    <2>6. CASE EventNext /\ ~OnMarketRotation
      <3>1. UNCHANGED market
        BY <2>6 DEF EventNext, OnBookUpdate, OnHeartbeatOk, OnHeartbeatFailed, OnMarketData
      <3>2. OnlySends
        BY <2>6, EventSends
      <3> QED
        BY <2>5, <3>1, <3>2
    <2>7. CASE ControlNext
      <3>1. UNCHANGED market
        BY <2>7 DEF ControlNext, OnDrain, OnPause, OnResume
      <3> QED
        BY <2>5, <2>7, <3>1, ControlSends
    <2>8. CASE QuoteNext
      <3>1. UNCHANGED market
        BY <2>8 DEF QuoteNext, QuoteNothing, QuoteDark, QuoteZone, QuoteMakers,
                    FinishQuoting, Rebalance, NoRebalance, EndIteration
      <3> QED
        BY <2>5, <2>8, <3>1, QuoteSends
    <2> QED
      BY <1>1, <2>2, <2>3, <2>4, <2>6, <2>7, <2>8 DEF EngineStep
  <1>2. CASE ExecutorStep \/ ExchangeStep
    BY <1>0, <1>2, CapOutside
  <1>3. CASE ProcessExit
    BY <1>3, <1>k DEF ProcessExit, channelVars, executorVars
  <1>4. CASE UNCHANGED vars
    BY <1>4, <1>k DEF vars, channelVars, executorVars, engineVars
  <1> QED
    BY <1>1, <1>2, <1>3, <1>4 DEF Next

LEMMA CapInit == Init => CapInv
  <1> SUFFICES ASSUME Init
               PROVE  CapInv
    OBVIOUS
  <1>1. /\ cmdq = <<>> /\ pending_commands = <<>> /\ fbq = <<>> /\ reply = <<>>
        /\ clob = <<>> /\ position = [s \in MarketSide |-> 0]
    BY DEF Init, ExchangeInit, ExecutorInit, EngineInit
  <1>2. Sent = {} /\ Waiting = {} /\ Orders = {}
    BY <1>1, RangeNone DEF Sent, Waiting, Orders
  <1>3. \A s \in MarketSide : Makers(s) = {}
    BY <1>2 DEF Makers
  <1>4. \A s \in MarketSide : Claimed(s) = 0 /\ Recorded(s) = 0
    BY <1>3, SumEmpty DEF Claimed, Recorded
  <1>5. MaxTotalShares \in Nat
    BY BatchTotalType, SizingAssumption DEF MaxTotalShares
  <1> QED
    BY <1>1, <1>2, <1>4, <1>5 DEF CapInv, WithinCap

\* Nothing more was matched than is claimed.
LEMMA MatchedClaimed ==
    ASSUME IInv, FillInv, SideInv, CapInv
    PROVE  MakerCap
  <1> SUFFICES ASSUME NEW s \in MarketSide
               PROVE  SumFunctionOnSet(MatchedShares, Makers(s)) <= MaxTotalShares
    BY DEF MakerCap
  <1> DEFINE f == MatchedShares
             g == Claims
             M == Makers(s)
  <1>1. /\ IsFiniteSet(M) /\ M \subseteq Orders /\ \A i \in M : g[i] \in Nat
        /\ Claimed(s) \in Nat /\ MaxTotalShares \in Nat /\ Claimed(s) <= MaxTotalShares
    BY MakerTypes DEF CapInv, WithinCap
  <1>2. ASSUME NEW i \in M
        PROVE  f[i] \in Nat /\ f[i] <= g[i]
    <2>1. clob[i].matched <= clob[i].size /\ clob[i].matched \in Nat /\ clob[i].size \in Nat
      BY <1>1, ItemFacts DEF SideInv, OrdersSound, Orders
    <2>2. f[i] = clob[i].matched
      BY <1>1 DEF MatchedShares
    <2> QED
      BY <1>1, <2>1, <2>2 DEF Claims
  <1>3. Claimed(s) = SumFunctionOnSet(g, M)
    BY DEF Claimed
  <1> HIDE DEF f, g, M
  <1>4. SumFunctionOnSet(f, M) <= SumFunctionOnSet(g, M) /\ SumFunctionOnSet(f, M) \in Nat
    BY <1>1, <1>2, SumMonotone, SumNat
  <1>5. SumFunctionOnSet(f, M) <= MaxTotalShares
    BY <1>1, <1>3, <1>4
  <1> QED
    BY <1>5 DEF f, M

\* However fills, requotes, cancels and hedges of the first market interleave, the
\* maker shares bought
\* on a side stay within the cap the batches add up to: what rests, what is not
\* yet counted and the post under way all fit below it with the shares recorded,
\* because a post is sized when everything of its side has been counted
\* (evaluate_side, calculate_order_size).
THEOREM MakerCapHolds ==
    ASSUME CalmCalls
    PROVE  Spec => [](market <= 1 => MakerCap)
  <1>0. ChannelCap >= 5 * MaxMarkets
    BY DEF CalmCalls
  <1>1. /\ IInv /\ FillInv /\ FlowInv /\ IdleFirst
        /\ (market <= 1 => SideInv /\ OrderInv) /\ (market <= 1 => CapInv)
        /\ IInv' /\ FillInv' /\ FlowInv' /\ (market <= 1 => SideInv)' /\ [Next]_vars
        => (market <= 1 => CapInv)'
    BY CapNext, MarketForward
  <1>2. IInv /\ FillInv /\ SideInv /\ CapInv => MakerCap
    BY MatchedClaimed
  <1> QED
    BY <1>0, <1>1, <1>2, CapInit, SideHolds, OrderHolds, PTL DEF Spec
=============================================================================
