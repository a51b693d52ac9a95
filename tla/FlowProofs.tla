----------------------------- MODULE FlowProofs -------------------------------
(***************************************************************************)
(* Requests and answers, for every value of the constants: whatever fails, *)
(* a pending flag of the engine never outlives the answers under way,      *)
(* provided the feedback channel has room for the answers of every market. *)
(* In the first market a flag stands for exactly one request.              *)
(***************************************************************************)
EXTENDS FillProofs, FiniteSetTheorems

\* How many items of the queue are in the set T.
At(seq, T) == {k \in 1..Len(seq) : seq[k] \in T}
Num(seq, T) == Cardinality(At(seq, T))

\* The commands of a kind, and the reports that answer them.
PostsOf(s) == {c \in Command : c.op = "post" /\ c.side = s}
PlacedOf(s) ==
    {r \in Feedback : r.kind \in {"posted", "filled", "failed"} /\ r.side = s}
CancelsOf(s) == {c \in Command : c.op = "cancel" /\ c.side = s}
CancelledOf(s) == {r \in Feedback : r.kind = "cancelled" /\ r.side = s}
Takers == {c \in Command : c.op = "rebalance"}
Hedged == {r \in Feedback : r.kind = "rebalanced"}

\* What is under way of the commands T and their answers R.
Flow(T, R) == Num(pending_commands, T) + Num(cmdq, T) + Num(fbq, R) + Num(reply, R)

\* A flag stands for something under way, and every rotation, which resets the
\* flags, leaves at most one unanswered request behind.
Backed(n, flag) == /\ Flag(flag) <= n
                   /\ n <= Flag(flag) + Greatest(market, 1) - 1

FlowInv ==
    /\ \A s \in MarketSide :
          /\ Backed(Flow(PostsOf(s), PlacedOf(s)), quoter.pending_post[s])
          /\ Backed(Flow(CancelsOf(s), CancelledOf(s)), quoter.pending_cancel[s])
    /\ Backed(Flow(Takers, Hedged), pending_rebalance)
    /\ \A k \in 1..Len(pending_commands) : pending_commands[k].op = "cancel"

\* Nothing happens before the first rotation.
IdleFirst ==
    market = 0 =>
        /\ phase = "idle" /\ ~pending_rebalance
        /\ \A s \in MarketSide : quoter.order[s].id = 0 /\ ~IsPending(quoter, s)
        /\ cmdq = <<>> /\ pending_commands = <<>> /\ fbq = <<>> /\ reply = <<>>

-----------------------------------------------------------------------------
(* Counting the items of a queue.                                          *)

LEMMA LenInterval ==
    \A n \in Nat : IsFiniteSet(1..n) /\ Cardinality(1..n) = n
  <1> SUFFICES ASSUME NEW n \in Nat
               PROVE  IsFiniteSet(1..n) /\ Cardinality(1..n) = n
    OBVIOUS
  <1>1. 1 \in Int /\ n \in Int
    OBVIOUS
  <1>2. IsFiniteSet(1..n) /\ Cardinality(1..n) = IF 1 > n THEN 0 ELSE n - 1 + 1
    BY <1>1, FS_Interval, Zenon
  <1> QED
    BY <1>2

LEMMA AtFinite ==
    ASSUME NEW S, NEW seq \in Seq(S), NEW T
    PROVE  /\ IsFiniteSet(At(seq, T)) /\ Num(seq, T) \in Nat
           /\ Num(seq, T) <= Len(seq)
           /\ Num(seq, T) = 0 <=> \A k \in 1..Len(seq) : seq[k] \notin T
  <1>1. Len(seq) \in Nat
    OBVIOUS
  <1>2. IsFiniteSet(1..Len(seq)) /\ Cardinality(1..Len(seq)) = Len(seq)
    BY <1>1, LenInterval
  <1>3. At(seq, T) \in SUBSET (1..Len(seq))
    BY DEF At
  <1>4. IsFiniteSet(At(seq, T)) /\ Cardinality(At(seq, T)) <= Len(seq)
    BY <1>2, <1>3, FS_Subset
  <1>5. Cardinality(At(seq, T)) \in Nat
    BY <1>4, FS_CardinalityType
  <1>6. Cardinality(At(seq, T)) = 0 <=> At(seq, T) = {}
    BY <1>4, FS_EmptySet
  <1> QED
    BY <1>4, <1>5, <1>6 DEF Num, At

LEMMA NumNone ==
    ASSUME NEW seq, seq = <<>>, NEW T
    PROVE  Num(seq, T) = 0
  <1>1. At(seq, T) = {}
    BY DEF At
  <1> QED
    BY <1>1, FS_EmptySet DEF Num

LEMMA NumOne ==
    ASSUME NEW e, NEW T
    PROVE  Num(<<e>>, T) = IF e \in T THEN 1 ELSE 0
  <1>1. At(<<e>>, T) = IF e \in T THEN {1} ELSE {}
    BY DEF At
  <1> QED
    BY <1>1, FS_EmptySet, FS_Singleton DEF Num

LEMMA NumConcat ==
    ASSUME NEW S, NEW a \in Seq(S), NEW b \in Seq(S), NEW T
    PROVE  Num(a \o b, T) = Num(a, T) + Num(b, T)
  <1> DEFINE r == a \o b
             shifted == {k \in (Len(a) + 1)..(Len(a) + Len(b)) : r[k] \in T}
             f == [k \in At(b, T) |-> Len(a) + k]
  <1>1. /\ r \in Seq(S)
        /\ Len(a) \in Nat /\ Len(b) \in Nat /\ Len(r) = Len(a) + Len(b)
        /\ \A k \in 1..Len(a) : r[k] = a[k]
        /\ \A k \in 1..Len(b) : r[Len(a) + k] = b[k]
    OBVIOUS
  <1> HIDE DEF r
  <1>2. At(r, T) = At(a, T) \cup shifted /\ At(a, T) \cap shifted = {}
    BY <1>1 DEF At
  <1>3. f \in Bijection(At(b, T), shifted)
    <2>1. f \in [At(b, T) -> shifted]
      BY <1>1 DEF At
    <2>2. \A k, l \in At(b, T) : f[k] = f[l] => k = l
      BY <1>1 DEF At
    <2>3. \A l \in shifted : \E k \in At(b, T) : f[k] = l
      <3> SUFFICES ASSUME NEW l \in shifted PROVE \E k \in At(b, T) : f[k] = l
        OBVIOUS
      <3>1. l - Len(a) \in 1..Len(b) /\ Len(a) + (l - Len(a)) = l
        BY <1>1
      <3>2. l - Len(a) \in At(b, T)
        BY <1>1, <3>1 DEF At
      <3> QED
        BY <3>1, <3>2
    <2> HIDE DEF f, shifted
    <2>4. f \in Injection(At(b, T), shifted)
      BY <2>1, <2>2 DEF Injection, IsInjective
    <2>5. f \in Surjection(At(b, T), shifted)
      BY <2>1, <2>3 DEF Surjection
    <2> QED
      BY <2>4, <2>5 DEF Bijection
  <1> HIDE DEF f, shifted
  <1>4. /\ IsFiniteSet(At(a, T)) /\ IsFiniteSet(At(b, T))
        /\ Num(a, T) \in Nat /\ Num(b, T) \in Nat
    BY AtFinite
  <1>5. IsFiniteSet(shifted) /\ Cardinality(shifted) = Num(b, T)
    BY <1>3, <1>4, FS_Bijection DEF ExistsBijection, Num
  <1>6. Cardinality(At(r, T)) = Num(a, T) + Num(b, T) - Cardinality({})
    BY <1>2, <1>4, <1>5, FS_Union DEF Num
  <1> QED
    BY <1>4, <1>6, FS_EmptySet DEF Num, r

LEMMA NumAppend ==
    ASSUME NEW S, NEW a \in Seq(S), NEW e \in S, NEW T
    PROVE  Num(Append(a, e), T) = Num(a, T) + (IF e \in T THEN 1 ELSE 0)
  <1> DEFINE b == <<e>>
  <1>1. Append(a, e) = a \o b /\ b \in Seq(S)
    OBVIOUS
  <1>2. Num(b, T) = IF e \in T THEN 1 ELSE 0
    BY NumOne
  <1> HIDE DEF b
  <1> QED
    BY <1>1, <1>2, NumConcat

LEMMA NumTail ==
    ASSUME NEW S, NEW a \in Seq(S), a # <<>>, NEW T
    PROVE  Num(a, T) = Num(Tail(a), T) + (IF Head(a) \in T THEN 1 ELSE 0)
  <1> DEFINE b == <<Head(a)>>
             c == Tail(a)
  <1>1. a = b \o c /\ b \in Seq(S) /\ c \in Seq(S)
    OBVIOUS
  <1>2. Num(b, T) = IF Head(a) \in T THEN 1 ELSE 0
    BY NumOne
  <1> HIDE DEF b, c
  <1>3. Num(a, T) = Num(b, T) + Num(c, T) /\ Num(b, T) \in Nat /\ Num(c, T) \in Nat
    BY <1>1, NumConcat, AtFinite
  <1> QED
    BY <1>2, <1>3 DEF c

\* Two disjoint kinds of items.
LEMMA NumUnion ==
    ASSUME NEW S, NEW seq \in Seq(S), NEW T, NEW R, T \cap R = {}
    PROVE  Num(seq, T \cup R) = Num(seq, T) + Num(seq, R)
  <1>1. At(seq, T \cup R) = At(seq, T) \cup At(seq, R) /\ At(seq, T) \cap At(seq, R) = {}
    BY DEF At
  <1>2. IsFiniteSet(At(seq, T)) /\ IsFiniteSet(At(seq, R))
        /\ Num(seq, T) \in Nat /\ Num(seq, R) \in Nat
    BY AtFinite
  <1>3. Cardinality(At(seq, T) \cup At(seq, R))
           = Cardinality(At(seq, T)) + Cardinality(At(seq, R)) - Cardinality({})
    BY <1>1, <1>2, FS_Union
  <1>4. Cardinality(At(seq, T \cup R)) = Cardinality(At(seq, T) \cup At(seq, R))
    BY <1>1, Zenon
  <1>5. Cardinality({}) = 0
    BY FS_EmptySet
  <1> QED
    BY <1>2, <1>3, <1>4, <1>5 DEF Num

LEMMA NumAll ==
    ASSUME NEW S, NEW seq \in Seq(S)
    PROVE  Num(seq, S) = Len(seq)
  <1>1. At(seq, S) = 1..Len(seq) /\ Len(seq) \in Nat
    BY DEF At
  <1> QED
    BY <1>1, LenInterval DEF Num

-----------------------------------------------------------------------------
(* The executor answers every command but a rotation with one report.      *)

Answers(c, r) ==
    \/ /\ c.op = "post" /\ r.kind \in {"posted", "filled", "failed"}
       /\ r.side = c.side
    \/ c.op = "cancel" /\ r.kind = "cancelled" /\ r.side = c.side
    \/ c.op = "rebalance" /\ r.kind = "rebalanced"

\* The reports R are the answers to the commands T.
Answered(T, R) ==
    /\ \A c \in Command : c.op = "rotate" => c \notin T
    /\ \A c \in Command, r \in Feedback : Answers(c, r) => (c \in T <=> r \in R)
    /\ \A r, q \in Feedback : r.kind = q.kind /\ r.side = q.side => (r \in R <=> q \in R)

LEMMA AnsweredPairs ==
    /\ \A s \in MarketSide : /\ Answered(PostsOf(s), PlacedOf(s))
                             /\ Answered(CancelsOf(s), CancelledOf(s))
    /\ Answered(Takers, Hedged)
  <1>1. ASSUME NEW s \in MarketSide
        PROVE  Answered(PostsOf(s), PlacedOf(s))
    BY DEF Answered, Answers, PostsOf, PlacedOf
  <1>2. ASSUME NEW s \in MarketSide
        PROVE  Answered(CancelsOf(s), CancelledOf(s))
    BY DEF Answered, Answers, CancelsOf, CancelledOf
  <1>3. Answered(Takers, Hedged)
    BY DEF Answered, Answers, Takers, Hedged
  <1> QED
    BY <1>1, <1>2, <1>3

\* The three ways the executor moves: it takes a command, which it answers at
\* once or owes an answer; it sends the answer it owes; it handles a rotation.
Takes == reply = <<>> /\ cmdq # <<>> /\ cmdq' = Tail(cmdq)

Handles == /\ Takes
           /\ \E r \in Feedback : /\ Answers(Head(cmdq), r)
                                  /\ \/ reply' = <<r>> /\ UNCHANGED fbq
                                     \/ reply' = <<>> /\ SendFeedback(r)

Finishes == /\ reply # <<>> /\ reply' = <<>> /\ UNCHANGED cmdq
            /\ \E r \in Feedback : /\ r.kind = Head(reply).kind
                                   /\ r.side = Head(reply).side
                                   /\ SendFeedback(r)

Rotates == Takes /\ Head(cmdq).op = "rotate" /\ UNCHANGED <<fbq, reply>>

LEMMA ExecutorMoves ==
    ASSUME IInv, IInv', ExecutorStep
    PROVE  /\ Handles \/ Finishes \/ Rotates
           /\ UNCHANGED engineVars
  <1> DEFINE c == Head(cmdq)
  <1>0. /\ UNCHANGED engineVars
        /\ 0 \in 0..MaxOrders /\ 0 \in Nat
        /\ \A i \in Orders : clob[i].matched \in Nat
        /\ reply \in Seq(KnownFeedback)
    BY FillFacts, BoundsAssumption DEF ExecutorStep
  <1> SUFFICES Handles \/ Finishes \/ Rotates
    BY <1>0
  <1>o. ASSUME NEW op, Receive(op), NEW r, Owe(r), Answers(c, r)
        PROVE  Handles
    <2>1. reply' = <<r>> /\ UNCHANGED fbq
      BY <1>o DEF Owe
    <2>2. r \in Feedback
      <3>1. reply' \in Seq(Feedback)
        BY DEF IInv, TypeOK, ExecutorTypeOK
      <3>2. reply'[1] = r /\ 1 \in 1..Len(reply')
        BY <2>1
      <3> QED
        BY <3>1, <3>2
    <2> QED
      BY <1>o, <2>1, <2>2 DEF Handles, Takes, Receive
  <1>a. ASSUME NEW op, Receive(op), NEW r \in Feedback, Answer(r), Answers(c, r)
        PROVE  Handles
    BY <1>a DEF Handles, Takes, Receive, Answer, executorVars
  <1>t. ASSUME NEW op, Receive(op)
        PROVE  c \in Command /\ c.op = op
    BY <1>t, ReceiveType DEF Receive
  <1>1. CASE PostAccepted
    BY <1>1, <1>o, <1>t DEF PostAccepted, Answers, OrderPosted
  <1>2. CASE PostFilled
    BY <1>2, <1>o, <1>t DEF PostFilled, Answers, OrderFilled
  <1>3. CASE PostRejected
    <2>1. Receive("post") /\ Answer(OrderFailed(c.side)) /\ c.side \in MarketSide
      BY <1>3, <1>t DEF PostRejected, Command
    <2>2. OrderFailed(c.side) \in Feedback
      BY <1>0, <2>1, FeedbackTypes
    <2>3. Answers(c, OrderFailed(c.side))
      BY <2>1, <1>t DEF Answers, OrderFailed
    <2> QED
      BY <1>a, <2>1, <2>2, <2>3
  <1>4. CASE PostErrored
    BY <1>4, <1>o, <1>t DEF PostErrored, Answers, OrderFailed
  <1>5. CASE HandleCancel
    BY <1>5, <1>o, <1>t DEF HandleCancel, Answers, CancelResult
  <1>6. CASE CancelStatus
    <2> DEFINE r == Head(reply)
               fb == CancelResult(r.side, r.id, clob[r.id].matched, TRUE)
    <2>1. /\ reply # <<>> /\ r.kind = "cancelled" /\ reply' = <<>> /\ UNCHANGED cmdq
          /\ SendFeedback(fb) \/ SendFeedback(r)
      BY <1>6 DEF CancelStatus
    <2>2. r \in Feedback /\ r.id \in Orders
      BY <1>0, <2>1 DEF KnownFeedback
    <2>3. fb \in Feedback /\ fb.kind = r.kind /\ fb.side = r.side
      BY <1>0, <2>1, <2>2 DEF Feedback, CancelResult
    <2> HIDE DEF fb
    <2> QED
      BY <2>1, <2>2, <2>3 DEF Finishes
  <1>7. CASE Reply
    <2>1. Head(reply) \in Feedback
      BY <1>0, <1>7 DEF Reply, KnownFeedback
    <2> QED
      BY <1>7, <2>1 DEF Reply, Finishes
  <1>8. CASE TakerFilled
    BY <1>8, <1>o, <1>t DEF TakerFilled, Answers, RebalanceResult
  <1>9. CASE TakerKilled
    <2>1. /\ Receive("rebalance") /\ Answer(RebalanceResult(c.side, 0, 0, FALSE))
          /\ c.side \in MarketSide
      BY <1>9, <1>t DEF TakerKilled, Command
    <2>2. RebalanceResult(c.side, 0, 0, FALSE) \in Feedback
      BY <1>0, <2>1, FeedbackTypes
    <2>3. Answers(c, RebalanceResult(c.side, 0, 0, FALSE))
      BY <2>1, <1>t DEF Answers, RebalanceResult
    <2> QED
      BY <1>a, <2>1, <2>2, <2>3
  <1>10. CASE TakerErrored
    BY <1>10, <1>o, <1>t DEF TakerErrored, Answers, RebalanceResult
  <1>11. CASE Rotate
    BY <1>11 DEF Rotate, Rotates, Takes, Receive
  <1> QED
    BY <1>0, <1>1, <1>2, <1>3, <1>4, <1>5, <1>6, <1>7, <1>8, <1>9, <1>10, <1>11
       DEF ExecutorStep, ExecutorNext

\* What the invariants say of the queues.
LEMMA QueueFacts ==
    ASSUME IInv
    PROVE  /\ cmdq \in Seq(Command) /\ pending_commands \in Seq(Command)
           /\ fbq \in Seq(Feedback) /\ reply \in Seq(Feedback) /\ Len(reply) <= 1
           /\ \A T : /\ Num(cmdq, T) \in Nat /\ Num(pending_commands, T) \in Nat
                     /\ Num(fbq, T) \in Nat /\ Num(reply, T) \in Nat
                     /\ \A R : Flow(T, R) \in Nat
  <1>1. /\ cmdq \in Seq(Command) /\ pending_commands \in Seq(Command)
        /\ fbq \in Seq(Feedback) /\ reply \in Seq(Feedback) /\ Len(reply) <= 1
    BY DEF IInv, TypeOK, ExecutorTypeOK, EngineTypeOK
  <1>2. ASSUME NEW T
        PROVE  /\ Num(cmdq, T) \in Nat /\ Num(pending_commands, T) \in Nat
               /\ Num(fbq, T) \in Nat /\ Num(reply, T) \in Nat
    BY <1>1, AtFinite
  <1> QED
    BY <1>1, <1>2 DEF Flow

\* The executor neither loses nor invents an answer while the feedback channel
\* has room.
LEMMA ExecutorFlow ==
    ASSUME IInv, IInv', Handles \/ Finishes \/ Rotates, UNCHANGED pending_commands,
           Len(fbq) < ChannelCap, NEW T, NEW R, Answered(T, R)
    PROVE  Flow(T, R)' = Flow(T, R)
  <1>0. /\ cmdq \in Seq(Command) /\ fbq \in Seq(Feedback) /\ reply \in Seq(Feedback)
        /\ Len(reply) <= 1
        /\ Num(cmdq, T) \in Nat /\ Num(pending_commands, T) \in Nat
        /\ Num(fbq, R) \in Nat /\ Num(reply, R) \in Nat
        /\ reply = <<>> => Num(reply, R) = 0
        /\ reply' = <<>> => Num(reply', R) = 0
    BY QueueFacts, NumNone
  <1>s. ASSUME NEW r \in Feedback, SendFeedback(r)
        PROVE  Num(fbq', R) = Num(fbq, R) + (IF r \in R THEN 1 ELSE 0)
    BY <1>0, <1>s, NumAppend DEF SendFeedback
  <1>t. ASSUME Takes
        PROVE  /\ Head(cmdq) \in Command /\ Num(cmdq', T) \in Nat
               /\ Num(cmdq, T) = Num(cmdq', T) + (IF Head(cmdq) \in T THEN 1 ELSE 0)
    <2>1. cmdq' \in Seq(Command) /\ Head(cmdq) \in Command
      BY <1>0, <1>t DEF Takes
    <2> QED
      BY <1>0, <1>t, <2>1, NumTail, AtFinite DEF Takes
  <1>1. CASE Handles
    <2>1. PICK r \in Feedback : /\ Answers(Head(cmdq), r)
                                /\ \/ reply' = <<r>> /\ UNCHANGED fbq
                                   \/ reply' = <<>> /\ SendFeedback(r)
      BY <1>1 DEF Handles
    <2>2. Takes /\ reply = <<>>
      BY <1>1 DEF Handles, Takes
    <2>3. Head(cmdq) \in T <=> r \in R
      BY <1>t, <2>1, <2>2 DEF Answered
    <2>4. Num(<<r>>, R) = IF r \in R THEN 1 ELSE 0
      BY NumOne
    <2>5. Num(fbq', R) + Num(reply', R) = Num(fbq, R) + (IF r \in R THEN 1 ELSE 0)
      <3>1. CASE reply' = <<r>> /\ UNCHANGED fbq
        BY <1>0, <2>4, <3>1
      <3>2. CASE reply' = <<>> /\ SendFeedback(r)
        BY <1>0, <1>s, <3>2
      <3> QED
        BY <2>1, <3>1, <3>2
    <2>6. Num(fbq', R) \in Nat /\ Num(reply', R) \in Nat
      <3>1. fbq' \in Seq(Feedback) /\ reply' \in Seq(Feedback)
        BY DEF IInv, TypeOK, ExecutorTypeOK
      <3> QED
        BY <3>1, AtFinite
    <2> DEFINE one == IF r \in R THEN 1 ELSE 0
    <2>7. /\ Num(cmdq, T) = Num(cmdq', T) + one /\ Num(cmdq', T) \in Nat
          /\ Num(fbq', R) + Num(reply', R) = Num(fbq, R) + one
          /\ Num(reply, R) = 0 /\ one \in Nat
          /\ Num(pending_commands', T) = Num(pending_commands, T)
      BY <1>0, <1>t, <2>2, <2>3, <2>5
    <2> DEFINE p == Num(pending_commands, T)
               c == Num(cmdq, T)
               f == Num(fbq, R)
               d == Num(cmdq', T)
               g == Num(fbq', R)
               h == Num(reply', R)
    <2>8. Flow(T, R) = p + c + f + 0 /\ Flow(T, R)' = p + d + g + h
      BY <2>7 DEF Flow
    <2>9. p \in Nat /\ c \in Nat /\ f \in Nat /\ d \in Nat /\ g \in Nat /\ h \in Nat
      BY <1>0, <2>6, <2>7
    <2>10. c = d + one /\ g + h = f + one /\ one \in Nat
      BY <2>7
    <2> HIDE DEF one, p, c, f, d, g, h
    <2> QED
      BY <2>8, <2>9, <2>10
  <1>2. CASE Finishes
    <2>1. PICK r \in Feedback : /\ r.kind = Head(reply).kind /\ r.side = Head(reply).side
                                /\ SendFeedback(r)
      BY <1>2 DEF Finishes
    <2>2. reply # <<>> /\ reply' = <<>> /\ UNCHANGED cmdq
      BY <1>2 DEF Finishes
    <2>3. Num(reply, R) = IF r \in R THEN 1 ELSE 0
      <3>1. Head(reply) \in Feedback /\ Num(Tail(reply), R) = 0
        <4>1. /\ Head(reply) \in Feedback /\ Tail(reply) \in Seq(Feedback)
              /\ Len(Tail(reply)) = Len(reply) - 1 /\ Len(reply) \in Nat
          BY <1>0, <2>2
        <4>2. /\ Num(Tail(reply), R) \in Nat
              /\ Num(Tail(reply), R) <= Len(Tail(reply))
          BY <4>1, AtFinite
        <4> QED
          BY <1>0, <4>1, <4>2
      <3>2. Head(reply) \in R <=> r \in R
        BY <2>1, <3>1 DEF Answered
      <3>3. Num(reply, R) = Num(Tail(reply), R) + (IF Head(reply) \in R THEN 1 ELSE 0)
        BY <1>0, <2>2, NumTail
      <3> QED
        BY <1>0, <3>1, <3>2, <3>3
    <2> QED
      BY <1>0, <1>s, <2>1, <2>2, <2>3 DEF Flow
  <1>3. CASE Rotates
    <2>1. Head(cmdq) \notin T /\ UNCHANGED <<fbq, reply>> /\ Takes
      BY <1>3, <1>t DEF Rotates, Answered
    <2> QED
      BY <1>0, <1>t, <2>1 DEF Flow
  <1> QED
    BY <1>1, <1>2, <1>3

\* As many commands and answers are under way as flags are up, but for one
\* leftover of a kind for every rotation.
LEMMA FlowBound ==
    ASSUME IInv, FlowInv
    PROVE  /\ \A s \in MarketSide : /\ Flow(PostsOf(s), PlacedOf(s)) <= MaxMarkets
                                    /\ Flow(CancelsOf(s), CancelledOf(s)) <= MaxMarkets
           /\ Flow(Takers, Hedged) <= MaxMarkets
  <1>1. ASSUME NEW n \in Nat, NEW b, Backed(n, b)
        PROVE  n <= MaxMarkets
    <2>1. market \in Nat /\ market <= MaxMarkets /\ MaxMarkets \in Nat \ {0}
      BY EngineFacts, BoundsAssumption DEF EngineTypeOK, Market
    <2>2. Flag(b) \in {0, 1}
      BY DEF Flag
    <2> QED
      BY <1>1, <2>1, <2>2 DEF Backed, Greatest
  <1> QED
    BY <1>1, QueueFacts DEF FlowInv

\* All reports are answers of one of the five kinds.
LEMMA ReportsSplit ==
    ASSUME NEW seq \in Seq(Feedback)
    PROVE  Len(seq) = Num(seq, PlacedOf("yes")) + Num(seq, PlacedOf("no"))
                         + Num(seq, CancelledOf("yes")) + Num(seq, CancelledOf("no"))
                         + Num(seq, Hedged)
  <1> DEFINE A == PlacedOf("yes")
             B == PlacedOf("no")
             C == CancelledOf("yes")
             D == CancelledOf("no")
             E == Hedged
  <1>1. /\ A \cap B = {} /\ (A \cup B) \cap C = {} /\ ((A \cup B) \cup C) \cap D = {}
        /\ (((A \cup B) \cup C) \cup D) \cap E = {}
    BY DEF PlacedOf, CancelledOf, Hedged
  <1>2. Feedback = (((A \cup B) \cup C) \cup D) \cup E
    <2>1. \A r \in Feedback :
             /\ r.kind \in {"posted", "filled", "failed", "cancelled", "rebalanced"}
             /\ r.side \in {"yes", "no"}
      BY DEF Feedback, MarketSide
    <2> QED
      BY <2>1 DEF PlacedOf, CancelledOf, Hedged
  <1> HIDE DEF A, B, C, D, E
  <1>3. Num(seq, A \cup B) = Num(seq, A) + Num(seq, B)
    BY <1>1, NumUnion
  <1>4. Num(seq, (A \cup B) \cup C) = Num(seq, A \cup B) + Num(seq, C)
    BY <1>1, NumUnion
  <1>5. Num(seq, ((A \cup B) \cup C) \cup D) = Num(seq, (A \cup B) \cup C) + Num(seq, D)
    BY <1>1, NumUnion
  <1>6. Num(seq, (((A \cup B) \cup C) \cup D) \cup E)
           = Num(seq, ((A \cup B) \cup C) \cup D) + Num(seq, E)
    BY <1>1, NumUnion
  <1>7. Len(seq) = Num(seq, (((A \cup B) \cup C) \cup D) \cup E)
    BY <1>2, NumAll
  <1> QED
    BY <1>3, <1>4, <1>5, <1>6, <1>7 DEF A, B, C, D, E

\* The answer the executor works on still has room in the channel.
LEMMA RoomForReport ==
    ASSUME IInv, FlowInv, ChannelCap >= 5 * MaxMarkets, Handles \/ Finishes
    PROVE  Len(fbq) < ChannelCap
  <1> DEFINE Busy(T, R) == Num(cmdq, T) + Num(reply, R)
  <1>1. \/ \E s \in MarketSide : \/ Busy(PostsOf(s), PlacedOf(s)) # 0
                                 \/ Busy(CancelsOf(s), CancelledOf(s)) # 0
        \/ Busy(Takers, Hedged) # 0
    <2>n. \A T, R : /\ Num(cmdq, T) \in Nat /\ Num(reply, R) \in Nat
                    /\ Num(cmdq, T) # 0 \/ Num(reply, R) # 0 => Busy(T, R) # 0
      BY QueueFacts
    <2> HIDE DEF Busy
    <2>1. CASE Handles
      <3>1. cmdq # <<>> /\ \E r \in Feedback : Answers(Head(cmdq), r)
        BY <2>1 DEF Handles, Takes
      <3> DEFINE c == Head(cmdq)
      <3>2. c \in Command /\ c = cmdq[1] /\ 1 \in 1..Len(cmdq) /\ cmdq \in Seq(Command)
        BY <3>1, QueueFacts
      <3>3. c.op \in {"post", "cancel", "rebalance"} /\ c.side \in MarketSide
        BY <3>1, <3>2 DEF Answers, Command
      <3>4. \A T : c \in T => Num(cmdq, T) # 0
        BY <3>2, AtFinite
      <3> HIDE DEF c
      <3>5. \/ c \in PostsOf(c.side) \/ c \in CancelsOf(c.side) \/ c \in Takers
        BY <3>2, <3>3 DEF PostsOf, CancelsOf, Takers
      <3> QED
        BY <2>n, <3>3, <3>4, <3>5
    <2>2. CASE Finishes
      <3>1. reply # <<>>
        BY <2>2 DEF Finishes
      <3> DEFINE r == Head(reply)
      <3>2. r \in Feedback /\ r = reply[1] /\ 1 \in 1..Len(reply) /\ reply \in Seq(Feedback)
        BY <3>1, QueueFacts
      <3>3. /\ r.kind \in {"posted", "filled", "failed", "cancelled", "rebalanced"}
            /\ r.side \in MarketSide
        BY <3>2 DEF Feedback
      <3>4. \A R : r \in R => Num(reply, R) # 0
        BY <3>2, AtFinite
      <3> HIDE DEF r
      <3>5. \/ r \in PlacedOf(r.side) \/ r \in CancelledOf(r.side) \/ r \in Hedged
        BY <3>2, <3>3 DEF PlacedOf, CancelledOf, Hedged
      <3> QED
        BY <2>n, <3>3, <3>4, <3>5
    <2> QED
      BY <2>1, <2>2
  <1> DEFINE a == Num(fbq, PlacedOf("yes"))
             b == Num(fbq, PlacedOf("no"))
             c == Num(fbq, CancelledOf("yes"))
             d == Num(fbq, CancelledOf("no"))
             e == Num(fbq, Hedged)
  <1>2. Len(fbq) = a + b + c + d + e
    BY QueueFacts, ReportsSplit
  <1>3. ASSUME NEW T, NEW R, Flow(T, R) <= MaxMarkets
        PROVE  /\ Num(fbq, R) <= MaxMarkets
               /\ Busy(T, R) # 0 => Num(fbq, R) < MaxMarkets
    <2>1. /\ Num(pending_commands, T) \in Nat /\ Num(cmdq, T) \in Nat
          /\ Num(fbq, R) \in Nat /\ Num(reply, R) \in Nat /\ MaxMarkets \in Nat
      BY QueueFacts, BoundsAssumption
    <2> QED
      BY <1>3, <2>1 DEF Flow
  <1>4. /\ a <= MaxMarkets /\ b <= MaxMarkets /\ c <= MaxMarkets /\ d <= MaxMarkets
        /\ e <= MaxMarkets
        /\ \/ a < MaxMarkets \/ b < MaxMarkets \/ c < MaxMarkets \/ d < MaxMarkets
           \/ e < MaxMarkets
    BY <1>1, <1>3, FlowBound DEF MarketSide
  <1>5. /\ a \in Nat /\ b \in Nat /\ c \in Nat /\ d \in Nat /\ e \in Nat
        /\ MaxMarkets \in Nat /\ ChannelCap \in Nat
    BY QueueFacts, BoundsAssumption
  <1> HIDE DEF a, b, c, d, e
  <1> QED
    BY <1>2, <1>4, <1>5

LEMMA ExecutorKeepsFlow ==
    ASSUME IInv, IInv', FlowInv, ChannelCap >= 5 * MaxMarkets, ExecutorStep
    PROVE  FlowInv'
  <1>1. /\ Handles \/ Finishes \/ Rotates
        /\ UNCHANGED <<market, quoter, pending_rebalance, pending_commands>>
    BY ExecutorMoves DEF engineVars
  <1>2. ASSUME NEW T, NEW R, Answered(T, R)
        PROVE  Flow(T, R)' = Flow(T, R)
    <2>1. CASE Handles \/ Finishes
      BY <1>1, <1>2, <2>1, RoomForReport, ExecutorFlow
    <2>2. CASE Rotates
      <3>1. /\ cmdq \in Seq(Command) /\ Head(cmdq) \in Command
            /\ cmdq # <<>> /\ cmdq' = Tail(cmdq) /\ Head(cmdq) \notin T
            /\ UNCHANGED <<fbq, reply, pending_commands>>
        BY <1>1, <1>2, <2>2, QueueFacts DEF Rotates, Takes, Answered
      <3>2. Num(cmdq, T) = Num(cmdq', T) + 0 /\ Num(cmdq', T) \in Nat
        <4>1. cmdq' \in Seq(Command)
          BY <3>1
        <4> QED
          BY <3>1, <4>1, NumTail, AtFinite
      <3> QED
        BY <3>1, <3>2 DEF Flow
    <2> QED
      BY <1>1, <2>1, <2>2
  <1>3. /\ \A s \in MarketSide :
              /\ Flow(PostsOf(s), PlacedOf(s))' = Flow(PostsOf(s), PlacedOf(s))
              /\ Flow(CancelsOf(s), CancelledOf(s))' = Flow(CancelsOf(s), CancelledOf(s))
        /\ Flow(Takers, Hedged)' = Flow(Takers, Hedged)
    BY <1>2, AnsweredPairs
  <1> QED
    BY <1>1, <1>3 DEF FlowInv, Backed

-----------------------------------------------------------------------------
(* The engine.                                                             *)

\* A report lowers the flag it answers.
LEMMA FeedFlow ==
    ASSUME IInv, IInv', NEW kind, Feed(kind), UNCHANGED reply,
           NEW T, NEW R, NEW flag \in BOOLEAN, Backed(Flow(T, R), flag)
    PROVE  LET lowered == flag /\ Head(fbq) \notin R
           IN  /\ Flag(lowered) <= Flow(T, R)'
               /\ Flow(T, R)' <= Flag(lowered) + Greatest(market', 1) - 1
  <1> DEFINE lowered == flag /\ Head(fbq) \notin R
             one == IF Head(fbq) \in R THEN 1 ELSE 0
             g == Greatest(market, 1)
  <1>1. /\ fbq \in Seq(Feedback) /\ fbq' \in Seq(Feedback)
        /\ fbq # <<>> /\ fbq' = Tail(fbq)
        /\ UNCHANGED <<cmdq, pending_commands, reply, market>>
    BY QueueFacts DEF Feed, IInv, TypeOK
  <1>2. Num(fbq, R) = Num(fbq', R) + one /\ Num(fbq', R) \in Nat
    BY <1>1, NumTail, AtFinite
  <1> DEFINE x == Num(pending_commands, T)
             c == Num(cmdq, T)
             f == Num(fbq, R)
             d == Num(fbq', R)
             h == Num(reply, R)
  <1>3. Flow(T, R) = x + c + f + h /\ Flow(T, R)' = x + c + d + h
    BY <1>1 DEF Flow
  <1>4. x \in Nat /\ c \in Nat /\ f \in Nat /\ d \in Nat /\ h \in Nat /\ f = d + one
    BY <1>2, QueueFacts
  <1>5. market \in Nat
    BY EngineFacts, BoundsAssumption DEF EngineTypeOK, Market
  <1>6. /\ Flag(flag) \in {0, 1} /\ Flag(lowered) \in {0, 1} /\ one \in {0, 1}
        /\ one = 1 => Flag(lowered) = 0
        /\ one = 0 => Flag(lowered) = Flag(flag)
    BY DEF Flag
  <1>7. Flag(flag) <= Flow(T, R) /\ Flow(T, R) <= Flag(flag) + g - 1
    BY DEF Backed
  <1>8. g \in Nat /\ g >= 1 /\ Greatest(market', 1) = g
    BY <1>1, <1>5 DEF Greatest
  <1>9. /\ Flag(lowered) <= Flow(T, R)'
        /\ Flow(T, R)' <= Flag(lowered) + Greatest(market', 1) - 1
    <2> DEFINE u == Flag(flag)
               v == Flag(lowered)
    <2>1. /\ u \in {0, 1} /\ v \in {0, 1} /\ one \in {0, 1}
          /\ one = 1 => v = 0
          /\ one = 0 => v = u
      BY <1>6
    <2>2. u <= x + c + f + h /\ x + c + f + h <= u + g - 1
      BY <1>3, <1>7
    <2> HIDE DEF u, v, one, x, c, f, d, h, g, lowered
    <2>3. v <= x + c + d + h /\ x + c + d + h <= v + g - 1
      BY <1>4, <1>8, <2>1, <2>2
    <2> QED
      BY <1>3, <1>8, <2>3 DEF v
  <1> QED
    BY <1>9

LEMMA FeedbackFlow ==
    ASSUME IInv, IInv', FlowInv, UNCHANGED reply, FeedbackNext
    PROVE  FlowInv'
  <1> DEFINE r == Head(fbq)
             Lowered(kind) ==
                /\ \A s \in MarketSide :
                      /\ quoter'.pending_post[s]
                            = (quoter.pending_post[s] /\ r \notin PlacedOf(s))
                      /\ quoter'.pending_cancel[s]
                            = (quoter.pending_cancel[s] /\ r \notin CancelledOf(s))
                /\ pending_rebalance' = (pending_rebalance /\ r \notin Hedged)
  <1>0. /\ quoter \in QuoterState /\ pending_rebalance \in BOOLEAN
        /\ \A s \in MarketSide : /\ quoter.pending_post[s] \in BOOLEAN
                                 /\ quoter.pending_cancel[s] \in BOOLEAN
    BY EngineFacts DEF EngineTypeOK, QuoterState
  <1>k. ASSUME NEW kind, Feed(kind), Lowered(kind)
        PROVE  FlowInv'
    <2>1. UNCHANGED pending_commands
      BY <1>k DEF Feed
    <2>2. ASSUME NEW T, NEW R, NEW flag \in BOOLEAN, Backed(Flow(T, R), flag), NEW low,
                 low = (flag /\ r \notin R)
          PROVE  /\ Flag(low) <= Flow(T, R)'
                 /\ Flow(T, R)' <= Flag(low) + Greatest(market', 1) - 1
      BY <1>k, <2>2, FeedFlow
    <2>3. ASSUME NEW s \in MarketSide
          PROVE  /\ Backed(Flow(PostsOf(s), PlacedOf(s)), quoter.pending_post[s])'
                 /\ Backed(Flow(CancelsOf(s), CancelledOf(s)), quoter.pending_cancel[s])'
      <3>1. Backed(Flow(PostsOf(s), PlacedOf(s)), quoter.pending_post[s])'
        BY <1>0, <1>k, <2>2 DEF FlowInv, Backed
      <3>2. Backed(Flow(CancelsOf(s), CancelledOf(s)), quoter.pending_cancel[s])'
        BY <1>0, <1>k, <2>2 DEF FlowInv, Backed
      <3> QED
        BY <3>1, <3>2
    <2>4. Backed(Flow(Takers, Hedged), pending_rebalance)'
      BY <1>0, <1>k, <2>2 DEF FlowInv, Backed
    <2> QED
      BY <2>1, <2>3, <2>4 DEF FlowInv
  <1>t. ASSUME NEW kind, Feed(kind)
        PROVE  r \in Feedback /\ r.kind = kind /\ r.side \in MarketSide
    BY <1>t, FeedType DEF Feedback
  <1>1. CASE OnPosted
    <2>1. /\ Feed("posted") /\ r.kind = "posted" /\ r.side \in MarketSide /\ r \in Feedback
          /\ quoter' = OnOrderPosted(quoter, r.side, r.id, r.size)
          /\ UNCHANGED pending_rebalance
      BY <1>1, <1>t DEF OnPosted
    <2> HIDE DEF r
    <2>2. /\ quoter'.pending_post = [quoter.pending_post EXCEPT ![r.side] = FALSE]
          /\ quoter'.pending_cancel = quoter.pending_cancel
      BY <1>0, <2>1 DEF OnOrderPosted, QuoterState
    <2>3. Lowered("posted")
      BY <1>0, <2>1, <2>2 DEF PlacedOf, CancelledOf, Hedged, QuoterState
    <2> QED
      BY <1>k, <2>1, <2>3
  <1>2. CASE OnAlreadyFilled
    <2>1. /\ Feed("filled") /\ r.kind = "filled" /\ r.side \in MarketSide /\ r \in Feedback
          /\ quoter' = OnOrderFailed(quoter, r.side)
          /\ UNCHANGED pending_rebalance
      BY <1>2, <1>t DEF OnAlreadyFilled
    <2> HIDE DEF r
    <2>2. /\ quoter'.pending_post = [quoter.pending_post EXCEPT ![r.side] = FALSE]
          /\ quoter'.pending_cancel = quoter.pending_cancel
      BY <1>0, <2>1 DEF OnOrderFailed, QuoterState
    <2>3. Lowered("filled")
      BY <1>0, <2>1, <2>2 DEF PlacedOf, CancelledOf, Hedged, QuoterState
    <2> QED
      BY <1>k, <2>1, <2>3
  <1>3. CASE OnFailed
    <2>1. /\ Feed("failed") /\ r.kind = "failed" /\ r.side \in MarketSide /\ r \in Feedback
          /\ quoter' = OnOrderFailed(quoter, r.side)
          /\ UNCHANGED pending_rebalance
      BY <1>3, <1>t DEF OnFailed
    <2> HIDE DEF r
    <2>2. /\ quoter'.pending_post = [quoter.pending_post EXCEPT ![r.side] = FALSE]
          /\ quoter'.pending_cancel = quoter.pending_cancel
      BY <1>0, <2>1 DEF OnOrderFailed, QuoterState
    <2>3. Lowered("failed")
      BY <1>0, <2>1, <2>2 DEF PlacedOf, CancelledOf, Hedged, QuoterState
    <2> QED
      BY <1>k, <2>1, <2>3
  <1>4. CASE OnCancelled
    <2>1. /\ Feed("cancelled") /\ r.kind = "cancelled" /\ r.side \in MarketSide
          /\ r \in Feedback /\ quoter' = OnCancelResult(quoter, r.side)
          /\ UNCHANGED pending_rebalance
      BY <1>4, <1>t DEF OnCancelled
    <2> HIDE DEF r
    <2>2. /\ quoter'.pending_cancel = [quoter.pending_cancel EXCEPT ![r.side] = FALSE]
          /\ quoter'.pending_post = quoter.pending_post
      BY <1>0, <2>1 DEF OnCancelResult, QuoterState
    <2>3. Lowered("cancelled")
      BY <1>0, <2>1, <2>2 DEF PlacedOf, CancelledOf, Hedged, QuoterState
    <2> QED
      BY <1>k, <2>1, <2>3
  <1>5. CASE OnRebalanced
    <2>1. /\ Feed("rebalanced") /\ r.kind = "rebalanced" /\ r.side \in MarketSide
          /\ r \in Feedback /\ pending_rebalance' = FALSE /\ UNCHANGED quoter
      BY <1>5, <1>t DEF OnRebalanced
    <2> HIDE DEF r
    <2>3. Lowered("rebalanced")
      BY <1>0, <2>1 DEF PlacedOf, CancelledOf, Hedged, QuoterState
    <2> QED
      BY <1>k, <2>1, <2>3
  <1> QED
    BY <1>1, <1>2, <1>3, <1>4, <1>5 DEF FeedbackNext

\* The commands a raise the flags of the quoter q, and the hedge's flag h, to
\* those of p and g: one flag for every post, cancel and hedge.
Raises(q, h, p, g, a) ==
    /\ \A s \in MarketSide :
          /\ Num(a, PostsOf(s)) + Flag(q.pending_post[s]) = Flag(p.pending_post[s])
          /\ Num(a, CancelsOf(s)) + Flag(q.pending_cancel[s]) = Flag(p.pending_cancel[s])
    /\ Num(a, Takers) + Flag(h) = Flag(g)

LEMMA FlagType == \A b : Flag(b) \in {0, 1}
  BY DEF Flag

\* One item for a flag that was down.
LEMMA FlagOr ==
    ASSUME NEW n, NEW c \in BOOLEAN, NEW x \in BOOLEAN, NEW y, n = IF c THEN 1 ELSE 0,
           y = (c \/ x), c => ~x
    PROVE  n + Flag(x) = Flag(y)
  <1>1. CASE c = TRUE
    <2>1. x = FALSE /\ y = TRUE /\ n = 1
      BY <1>1
    <2> QED
      BY <2>1 DEF Flag
  <1>2. CASE c = FALSE
    <2>1. n = 0 /\ y = x
      BY <1>2
    <2>2. Flag(x) \in {0, 1} /\ Flag(y) = Flag(x)
      BY <2>1 DEF Flag
    <2> QED
      BY <2>1, <2>2
  <1> QED
    BY <1>1, <1>2

LEMMA RaisesNothing ==
    ASSUME NEW q, NEW h, NEW p, NEW a, a = <<>>,
           p.pending_post = q.pending_post, p.pending_cancel = q.pending_cancel
    PROVE  Raises(q, h, p, h, a)
  <1>1. \A T : Num(a, T) = 0
    BY NumNone
  <1> QED
    BY <1>1, FlagType DEF Raises

LEMMA RaisesConcat ==
    ASSUME NEW q, NEW h, NEW p, NEW g, NEW o, NEW f,
           NEW a \in Seq(Command), NEW b \in Seq(Command),
           Raises(q, h, p, g, a), Raises(p, g, o, f, b)
    PROVE  Raises(q, h, o, f, a \o b)
  <1>1. ASSUME NEW T
        PROVE  Num(a \o b, T) = Num(a, T) + Num(b, T)
               /\ Num(a, T) \in Nat /\ Num(b, T) \in Nat
    BY NumConcat, AtFinite
  <1>2. \A m, n \in Nat : \A x, y, z \in {0, 1} :
           m + x = y /\ n + y = z => (m + n) + x = z
    OBVIOUS
  <1>3. ASSUME NEW s \in MarketSide
        PROVE  /\ Num(a \o b, PostsOf(s)) + Flag(q.pending_post[s])
                     = Flag(o.pending_post[s])
               /\ Num(a \o b, CancelsOf(s)) + Flag(q.pending_cancel[s])
                     = Flag(o.pending_cancel[s])
    <2>1. Num(a \o b, PostsOf(s)) + Flag(q.pending_post[s]) = Flag(o.pending_post[s])
      <3> DEFINE m == Num(a, PostsOf(s))
                 n == Num(b, PostsOf(s))
                 x == Flag(q.pending_post[s])
                 y == Flag(p.pending_post[s])
                 z == Flag(o.pending_post[s])
      <3>1. /\ m \in Nat /\ n \in Nat /\ x \in {0, 1} /\ y \in {0, 1} /\ z \in {0, 1}
            /\ m + x = y /\ n + y = z /\ Num(a \o b, PostsOf(s)) = m + n
        BY <1>1, FlagType DEF Raises
      <3> HIDE DEF m, n, x, y, z
      <3>2. (m + n) + x = z
        BY <3>1
      <3> QED
        BY <3>1, <3>2 DEF x, z
    <2>2. Num(a \o b, CancelsOf(s)) + Flag(q.pending_cancel[s])
             = Flag(o.pending_cancel[s])
      <3> DEFINE m == Num(a, CancelsOf(s))
                 n == Num(b, CancelsOf(s))
                 x == Flag(q.pending_cancel[s])
                 y == Flag(p.pending_cancel[s])
                 z == Flag(o.pending_cancel[s])
      <3>1. /\ m \in Nat /\ n \in Nat /\ x \in {0, 1} /\ y \in {0, 1} /\ z \in {0, 1}
            /\ m + x = y /\ n + y = z /\ Num(a \o b, CancelsOf(s)) = m + n
        BY <1>1, FlagType DEF Raises
      <3> HIDE DEF m, n, x, y, z
      <3>2. (m + n) + x = z
        BY <3>1
      <3> QED
        BY <3>1, <3>2 DEF x, z
    <2> QED
      BY <2>1, <2>2
  <1>4. Num(a \o b, Takers) + Flag(h) = Flag(f)
    <2> DEFINE m == Num(a, Takers)
               n == Num(b, Takers)
               x == Flag(h)
               y == Flag(g)
               z == Flag(f)
    <2>1. /\ m \in Nat /\ n \in Nat /\ x \in {0, 1} /\ y \in {0, 1} /\ z \in {0, 1}
          /\ m + x = y /\ n + y = z /\ Num(a \o b, Takers) = m + n
      BY <1>1, FlagType DEF Raises
    <2> HIDE DEF m, n, x, y, z
    <2>2. (m + n) + x = z
      BY <2>1
    <2> QED
      BY <2>1, <2>2 DEF x, z
  <1> QED
    BY <1>3, <1>4 DEF Raises

\* What is sent, or held back, is under way.
LEMMA SendFlow ==
    ASSUME IInv, UNCHANGED <<fbq, reply>>, NEW a \in Seq(Command), NEW b \in Seq(Command),
           SendsNow(a, b), NEW T, NEW R
    PROVE  Flow(T, R)' = Flow(T, R) + Num(b \o a, T)
  <1>1. /\ cmdq \in Seq(Command) /\ pending_commands \in Seq(Command)
        /\ Num(cmdq, T) \in Nat /\ Num(pending_commands, T) \in Nat
        /\ Num(fbq, R) \in Nat /\ Num(reply, R) \in Nat
        /\ Num(a, T) \in Nat /\ Num(b, T) \in Nat
    BY QueueFacts, AtFinite
  <1>2. Num(b \o a, T) = Num(b, T) + Num(a, T)
    BY NumConcat
  <1>3. Num(cmdq', T) + Num(pending_commands', T)
           = Num(cmdq, T) + Num(pending_commands, T) + Num(a, T) + Num(b, T)
        /\ Num(cmdq', T) \in Nat /\ Num(pending_commands', T) \in Nat
    <2>1. CASE cmdq' = cmdq \o a /\ pending_commands' = pending_commands \o b
      <3>1. /\ Num(cmdq', T) = Num(cmdq, T) + Num(a, T)
            /\ Num(pending_commands', T) = Num(pending_commands, T) + Num(b, T)
        BY <1>1, <2>1, NumConcat
      <3> QED
        BY <1>1, <3>1
    <2>2. CASE /\ b = <<>>
               /\ cmdq' = (cmdq \o pending_commands) \o a
               /\ pending_commands' = <<>>
      <3> DEFINE w == cmdq \o pending_commands
      <3>1. w \in Seq(Command) /\ Num(w, T) = Num(cmdq, T) + Num(pending_commands, T)
        BY <1>1, NumConcat
      <3>2. cmdq' = w \o a
        BY <2>2
      <3> HIDE DEF w
      <3>3. Num(cmdq', T) = Num(w, T) + Num(a, T)
        BY <3>1, <3>2, NumConcat
      <3>4. Num(b, T) = 0 /\ Num(pending_commands', T) = 0
        BY <2>2, NumNone
      <3> QED
        BY <1>1, <3>1, <3>3, <3>4
    <2> QED
      BY <2>1, <2>2 DEF SendsNow
  <1> DEFINE c == Num(cmdq, T)
             x == Num(pending_commands, T)
             c2 == Num(cmdq', T)
             x2 == Num(pending_commands', T)
             f == Num(fbq, R)
             r == Num(reply, R)
             m == Num(a, T)
             n == Num(b, T)
  <1>4. /\ Flow(T, R) = x + c + f + r /\ Flow(T, R)' = x2 + c2 + f + r
        /\ Num(b \o a, T) = n + m
    BY <1>2 DEF Flow
  <1>5. /\ c \in Nat /\ x \in Nat /\ c2 \in Nat /\ x2 \in Nat /\ f \in Nat /\ r \in Nat
        /\ m \in Nat /\ n \in Nat /\ c2 + x2 = c + x + m + n
    BY <1>1, <1>3
  <1> HIDE DEF c, x, c2, x2, f, r, m, n
  <1> QED
    BY <1>4, <1>5

\* A step that sends what raises its flags.
LEMMA SendKeepsFlow ==
    ASSUME IInv, FlowInv, NEW a \in Seq(Command), NEW b \in Seq(Command),
           SendsNow(a, b), UNCHANGED <<fbq, reply, market>>,
           \A k \in 1..Len(b) : b[k].op = "cancel",
           Raises(quoter, pending_rebalance, quoter', pending_rebalance', b \o a)
    PROVE  FlowInv'
  <1>1. ASSUME NEW T, NEW R, NEW u, NEW v, Backed(Flow(T, R), u),
               Num(b \o a, T) + Flag(u) = Flag(v)
        PROVE  /\ Flag(v) <= Flow(T, R)'
               /\ Flow(T, R)' <= Flag(v) + Greatest(market', 1) - 1
    <2>1. /\ Flow(T, R)' = Flow(T, R) + Num(b \o a, T)
          /\ Flow(T, R) \in Nat /\ Num(b \o a, T) \in Nat
          /\ Flag(u) \in {0, 1} /\ Flag(v) \in {0, 1}
      <3>1. b \o a \in Seq(Command)
        OBVIOUS
      <3>2. Flow(T, R) \in Nat
        BY QueueFacts
      <3> QED
        BY <3>1, <3>2, SendFlow, AtFinite, FlagType
    <2>2. Greatest(market', 1) = Greatest(market, 1) /\ Greatest(market, 1) \in Nat
      <3>1. market \in Nat
        BY EngineFacts, BoundsAssumption DEF EngineTypeOK, Market
      <3> QED
        BY <3>1 DEF Greatest
    <2>3. Flag(u) <= Flow(T, R) /\ Flow(T, R) <= Flag(u) + Greatest(market, 1) - 1
      BY <1>1 DEF Backed
    <2> DEFINE n == Flow(T, R)
               n2 == Flow(T, R)'
               m == Num(b \o a, T)
               g == Greatest(market, 1)
               x == Flag(u)
               y == Flag(v)
    <2>4. /\ n2 = n + m /\ n \in Nat /\ m \in Nat /\ g \in Nat
          /\ x \in {0, 1} /\ y \in {0, 1} /\ m + x = y
          /\ x <= n /\ n <= x + g - 1
      BY <1>1, <2>1, <2>2, <2>3
    <2> HIDE DEF n, n2, m, g, x, y
    <2>5. y <= n2 /\ n2 <= y + g - 1
      BY <2>4
    <2> QED
      BY <2>2, <2>5 DEF n2, y, g
  <1>2. ASSUME NEW s \in MarketSide
        PROVE  /\ Backed(Flow(PostsOf(s), PlacedOf(s)), quoter.pending_post[s])'
               /\ Backed(Flow(CancelsOf(s), CancelledOf(s)), quoter.pending_cancel[s])'
    <2>1. Backed(Flow(PostsOf(s), PlacedOf(s)), quoter.pending_post[s])'
      BY <1>1 DEF FlowInv, Raises, Backed
    <2>2. Backed(Flow(CancelsOf(s), CancelledOf(s)), quoter.pending_cancel[s])'
      BY <1>1 DEF FlowInv, Raises, Backed
    <2> QED
      BY <2>1, <2>2
  <1>3. Backed(Flow(Takers, Hedged), pending_rebalance)'
    BY <1>1 DEF FlowInv, Raises, Backed
  <1>4. \A k \in 1..Len(pending_commands') : pending_commands'[k].op = "cancel"
    <2>1. \/ pending_commands' = pending_commands \o b
          \/ pending_commands' = <<>>
      BY DEF SendsNow
    <2>2. CASE pending_commands' = pending_commands \o b
      <3> SUFFICES ASSUME NEW k \in 1..Len(pending_commands')
                   PROVE  pending_commands'[k].op = "cancel"
        OBVIOUS
      <3>1. pending_commands \in Seq(Command)
        BY QueueFacts
      <3>2. \/ k \in 1..Len(pending_commands) /\ pending_commands'[k] = pending_commands[k]
            \/ /\ k - Len(pending_commands) \in 1..Len(b)
               /\ pending_commands'[k] = b[k - Len(pending_commands)]
        BY <2>2, <3>1
      <3> QED
        BY <3>2 DEF FlowInv
    <2> QED
      BY <2>1, <2>2
  <1> QED
    BY <1>2, <1>3, <1>4 DEF FlowInv

\* One item at most for a side.
LEMMA OnSidesNum ==
    ASSUME NEW S, NEW f, NEW V, \A t \in S \cap MarketSide : f[t] \in V,
           NEW s \in MarketSide, NEW T,
           \A t \in S \cap MarketSide : f[t] \in T => t = s
    PROVE  Num(OnSides(S, f), T) = IF s \in S /\ f[s] \in T THEN 1 ELSE 0
  <1> DEFINE a == IF "yes" \in S THEN <<f["yes"]>> ELSE <<>>
             b == IF "no" \in S THEN <<f["no"]>> ELSE <<>>
  <1>1. a \in Seq(V) /\ b \in Seq(V) /\ OnSides(S, f) = a \o b
    BY DEF OnSides, MarketSide
  <1>2. Num(a, T) = IF "yes" \in S /\ f["yes"] \in T THEN 1 ELSE 0
    BY NumOne, NumNone
  <1>3. Num(b, T) = IF "no" \in S /\ f["no"] \in T THEN 1 ELSE 0
    BY NumOne, NumNone
  <1> HIDE DEF a, b
  <1>4. Num(a \o b, T) = Num(a, T) + Num(b, T)
    BY <1>1, NumConcat
  <1>5. /\ s \in {"yes", "no"}
        /\ "yes" \in S /\ f["yes"] \in T => s = "yes"
        /\ "no" \in S /\ f["no"] \in T => s = "no"
    BY DEF MarketSide
  <1> QED
    BY <1>1, <1>2, <1>3, <1>4, <1>5

LEMMA CancelRaises ==
    ASSUME IInv, NEW q \in KnownQuoter, NEW S, NEW h
    PROVE  /\ Raises(q, h, OnCancelSent(q, Cancellable(q, S)), h, CancelActions(q, S, market))
           /\ CancelActions(q, S, market) \in Seq(Command)
           /\ \A k \in 1..Len(CancelActions(q, S, market)) :
                 CancelActions(q, S, market)[k].op = "cancel"
  <1> DEFINE f == [s \in MarketSide |-> CancelOrder(s, q.order[s].id, market)]
             C == Cancellable(q, S)
             p == OnCancelSent(q, C)
             V == {c \in Command : c.op = "cancel"}
  <1>0. q \in QuoterState /\ market \in Market
    BY EngineFacts DEF KnownQuoter, EngineTypeOK
  <1>1. \A t \in MarketSide : /\ f[t] \in Command /\ f[t].op = "cancel" /\ f[t].side = t
                              /\ f[t] \in V
    <2>1. ASSUME NEW t \in MarketSide
          PROVE  CancelOrder(t, q.order[t].id, market) \in Command
      <3>1. q.order[t].id \in 0..MaxOrders
        BY <1>0 DEF QuoterState, ManagedOrder
      <3> QED
        BY <1>0, <3>1, CommandTypes
    <2> QED
      BY <2>1 DEF CancelOrder
  <1>2. /\ p.pending_post = q.pending_post
        /\ \A s \in MarketSide : p.pending_cancel[s] = (s \in C \/ q.pending_cancel[s])
        /\ \A s \in C : ~q.pending_cancel[s]
    BY <1>0 DEF OnCancelSent, QuoterState, Cancellable
  <1>3. CancelActions(q, S, market) = OnSides(C, f)
    BY DEF CancelActions
  <1> HIDE DEF f, C, p
  <1>4. OnSides(C, f) \in Seq(V)
    BY <1>1, OnSidesType
  <1>5. ASSUME NEW s \in MarketSide
        PROVE  /\ Num(OnSides(C, f), PostsOf(s)) = 0
               /\ Num(OnSides(C, f), CancelsOf(s)) = IF s \in C THEN 1 ELSE 0
               /\ Num(OnSides(C, f), Takers) = 0
    <2>1. /\ \A t \in MarketSide : f[t] \notin PostsOf(s) /\ f[t] \notin Takers
          /\ \A t \in MarketSide : f[t] \in CancelsOf(s) <=> t = s
      BY <1>1 DEF PostsOf, CancelsOf, Takers
    <2>2. \A t \in C \cap MarketSide : f[t] \in V
      BY <1>1
    <2> DEFINE T == CancelsOf(s)
    <2> HIDE DEF V, T
    <2>3. Num(OnSides(C, f), PostsOf(s)) = IF s \in C /\ f[s] \in PostsOf(s) THEN 1 ELSE 0
      BY <2>1, <2>2, OnSidesNum
    <2>c. \A t \in C \cap MarketSide : f[t] \in T => t = s
      BY <2>1 DEF T
    <2>4. Num(OnSides(C, f), T) = IF s \in C /\ f[s] \in T THEN 1 ELSE 0
      BY <2>2, <2>c, OnSidesNum
    <2>5. Num(OnSides(C, f), Takers) = IF s \in C /\ f[s] \in Takers THEN 1 ELSE 0
      BY <2>1, <2>2, OnSidesNum
    <2>6. f[s] \notin PostsOf(s) /\ f[s] \notin Takers /\ f[s] \in CancelsOf(s)
      BY <2>1
    <2>7. CASE s \in C
      BY <2>3, <2>4, <2>5, <2>6, <2>7 DEF T
    <2>8. CASE s \notin C
      BY <2>3, <2>4, <2>5, <2>8 DEF T
    <2> QED
      BY <2>7, <2>8
  <1>6. Raises(q, h, p, h, OnSides(C, f))
    <2>1. Num(OnSides(C, f), Takers) = 0
      BY <1>5 DEF MarketSide
    <2>2. ASSUME NEW s \in MarketSide
          PROVE  /\ Num(OnSides(C, f), PostsOf(s)) + Flag(q.pending_post[s])
                       = Flag(p.pending_post[s])
                 /\ Num(OnSides(C, f), CancelsOf(s)) + Flag(q.pending_cancel[s])
                       = Flag(p.pending_cancel[s])
      <3>1. q.pending_cancel[s] \in BOOLEAN /\ (s \in C) \in BOOLEAN
        BY <1>0 DEF QuoterState
      <3>2. Num(OnSides(C, f), CancelsOf(s)) + Flag(q.pending_cancel[s])
               = Flag(p.pending_cancel[s])
        <4> DEFINE n == Num(OnSides(C, f), CancelsOf(s))
                   c == s \in C
                   x == q.pending_cancel[s]
                   y == p.pending_cancel[s]
        <4>1. c \in BOOLEAN /\ x \in BOOLEAN
          BY <3>1
        <4>2. n = IF c THEN 1 ELSE 0
          BY <1>5
        <4>3. y = (c \/ x)
          BY <1>2, Zenon
        <4>4. c => ~x
          BY <1>2, Zenon
        <4> HIDE DEF n, c, x, y
        <4>5. n + Flag(x) = Flag(y)
          BY <4>1, <4>2, <4>3, <4>4, FlagOr
        <4> QED
          BY <4>5 DEF n, x, y
      <3>3. Flag(q.pending_post[s]) \in {0, 1} /\ p.pending_post[s] = q.pending_post[s]
        BY <1>2, FlagType
      <3> QED
        BY <1>5, <3>2, <3>3
    <2>3. Flag(h) \in {0, 1}
      BY FlagType
    <2> QED
      BY <2>1, <2>2, <2>3 DEF Raises
  <1>7. OnSides(C, f) \in Seq(Command)
    BY <1>4
  <1>8. \A k \in 1..Len(OnSides(C, f)) : OnSides(C, f)[k].op = "cancel"
    <2>1. \A k \in 1..Len(OnSides(C, f)) : OnSides(C, f)[k] \in V
      BY <1>4
    <2> QED
      BY <2>1
  <1> QED
    BY <1>3, <1>6, <1>7, <1>8 DEF p, C

\* quote_tick posts and requotes only where nothing is pending.
LEMMA MakerRaises ==
    ASSUME IInv, NEW act \in SUBSET MarketSide, \A s \in act : MayAct(s), NEW h
    PROVE  Raises(quoter, h,
                  OnCancelSent(MarkPostPending(quoter, Posts(act)), Requotes(act)), h,
                  MakerActions(act))
  <1> DEFINE f == [s \in MarketSide |->
                     IF Resting(quoter, s)
                     THEN CancelOrder(s, quoter.order[s].id, market)
                     ELSE PostOrder(s, OrderSize(position[s]), market)]
             m == MarkPostPending(quoter, Posts(act))
             p == OnCancelSent(m, Requotes(act))
  <1>0. /\ quoter \in QuoterState /\ market \in Market
        /\ position \in [MarketSide -> Nat]
    BY EngineFacts DEF EngineTypeOK
  <1>1. \A t \in act : /\ f[t] \in Command /\ f[t].side = t
                       /\ f[t].op = IF Resting(quoter, t) THEN "cancel" ELSE "post"
    <2> SUFFICES ASSUME NEW t \in act
                 PROVE  /\ f[t] \in Command /\ f[t].side = t
                        /\ f[t].op = IF Resting(quoter, t) THEN "cancel" ELSE "post"
      OBVIOUS
    <2>1. quoter.order[t].id \in 0..MaxOrders /\ OrderSize(position[t]) \in Nat
      BY <1>0, OrderSizeFits DEF MayAct, QuoterState, ManagedOrder
    <2>2. /\ CancelOrder(t, quoter.order[t].id, market) \in Command
          /\ PostOrder(t, OrderSize(position[t]), market) \in Command
      BY <1>0, <2>1, BoundsAssumption, CommandTypes
    <2> QED
      BY <2>2 DEF CancelOrder, PostOrder
  <1>2. /\ \A s \in MarketSide :
              /\ p.pending_post[s] = (s \in Posts(act) \/ quoter.pending_post[s])
              /\ p.pending_cancel[s] = (s \in Requotes(act) \/ quoter.pending_cancel[s])
        /\ \A s \in act : ~quoter.pending_post[s] /\ ~quoter.pending_cancel[s]
    <2>1. /\ m.pending_cancel = quoter.pending_cancel
          /\ p.pending_post = m.pending_post
          /\ \A s \in MarketSide :
                /\ m.pending_post[s] = (s \in Posts(act) \/ quoter.pending_post[s])
                /\ p.pending_cancel[s] = (s \in Requotes(act) \/ m.pending_cancel[s])
      BY <1>0 DEF MarkPostPending, OnCancelSent, QuoterState
    <2> QED
      BY <2>1 DEF MayAct, IsPending
  <1>3. MakerActions(act) = OnSides(act, f)
    BY DEF MakerActions
  <1> HIDE DEF f, m, p
  <1>4. ASSUME NEW s \in MarketSide
        PROVE  /\ Num(OnSides(act, f), PostsOf(s)) = IF s \in Posts(act) THEN 1 ELSE 0
               /\ Num(OnSides(act, f), CancelsOf(s)) = IF s \in Requotes(act) THEN 1 ELSE 0
               /\ Num(OnSides(act, f), Takers) = 0
    <2>1. \A t \in act : /\ f[t] \notin Takers
                         /\ f[t] \in PostsOf(s) <=> t = s /\ ~Resting(quoter, t)
                         /\ f[t] \in CancelsOf(s) <=> t = s /\ Resting(quoter, t)
      BY <1>1 DEF PostsOf, CancelsOf, Takers
    <2>2. \A t \in act \cap MarketSide : f[t] \in Command
      BY <1>1
    <2>3. Num(OnSides(act, f), PostsOf(s))
             = IF s \in act /\ f[s] \in PostsOf(s) THEN 1 ELSE 0
      BY <2>1, <2>2, OnSidesNum
    <2>4. Num(OnSides(act, f), CancelsOf(s))
             = IF s \in act /\ f[s] \in CancelsOf(s) THEN 1 ELSE 0
      BY <2>1, <2>2, OnSidesNum
    <2>5. Num(OnSides(act, f), Takers) = IF s \in act /\ f[s] \in Takers THEN 1 ELSE 0
      BY <2>1, <2>2, OnSidesNum
    <2> QED
      BY <2>1, <2>3, <2>4, <2>5 DEF Posts, Requotes
  <1>5. Posts(act) \subseteq act /\ Requotes(act) \subseteq act
    BY DEF Posts, Requotes
  <1>6. Num(OnSides(act, f), Takers) = 0
    BY <1>4 DEF MarketSide
  <1>7. Raises(quoter, h, p, h, OnSides(act, f))
    <2>1. ASSUME NEW s \in MarketSide
          PROVE  /\ Num(OnSides(act, f), PostsOf(s)) + Flag(quoter.pending_post[s])
                       = Flag(p.pending_post[s])
                 /\ Num(OnSides(act, f), CancelsOf(s)) + Flag(quoter.pending_cancel[s])
                       = Flag(p.pending_cancel[s])
      <3>1. /\ quoter.pending_cancel[s] \in BOOLEAN /\ quoter.pending_post[s] \in BOOLEAN
            /\ (s \in Posts(act)) \in BOOLEAN /\ (s \in Requotes(act)) \in BOOLEAN
        BY <1>0 DEF QuoterState
      <3>2. /\ s \in Posts(act) => ~quoter.pending_post[s]
            /\ s \in Requotes(act) => ~quoter.pending_cancel[s]
        BY <1>2, <1>5
      <3>3. Num(OnSides(act, f), PostsOf(s)) + Flag(quoter.pending_post[s])
               = Flag(p.pending_post[s])
        BY <1>2, <1>4, <3>1, <3>2, FlagOr, ZenonT(60)
      <3>4. Num(OnSides(act, f), CancelsOf(s)) + Flag(quoter.pending_cancel[s])
               = Flag(p.pending_cancel[s])
        BY <1>2, <1>4, <3>1, <3>2, FlagOr, ZenonT(60)
      <3> QED
        BY <3>3, <3>4
    <2>2. Flag(h) \in {0, 1}
      BY FlagType
    <2> QED
      BY <1>6, <2>1, <2>2 DEF Raises
  <1> QED
    BY <1>3, <1>7 DEF p, m

LEMMA FinishRaises ==
    ASSUME IInv, NEW q \in KnownQuoter, NEW cmds \in Seq(Command),
           FinishQuoting(q, cmds)
    PROVE  /\ \E b \in Seq(Command) :
                 /\ cmdq' = cmdq \o (cmds \o b)
                 /\ Raises(q, pending_rebalance, quoter', pending_rebalance', b)
           /\ UNCHANGED <<fbq, market>>
  <1>1. CASE NoRebalance(q, cmds)
    <2> DEFINE b == <<>>
    <2>1. /\ cmdq' = cmdq \o cmds /\ quoter' = q
          /\ UNCHANGED <<fbq, market, pending_rebalance>>
      BY <1>1 DEF NoRebalance, EndIteration
    <2>2. b \in Seq(Command) /\ cmds \o b = cmds /\ b = <<>>
      OBVIOUS
    <2> HIDE DEF b
    <2>3. Raises(q, pending_rebalance, quoter', pending_rebalance', b)
      BY <2>1, <2>2, RaisesNothing
    <2> QED
      BY <2>1, <2>2, <2>3
  <1>2. ASSUME NEW s \in MarketSide, NeedsRebalance(s), Rebalance(q, s, cmds)
        PROVE  /\ \E b \in Seq(Command) :
                     /\ cmdq' = cmdq \o (cmds \o b)
                     /\ Raises(q, pending_rebalance, quoter', pending_rebalance', b)
               /\ UNCHANGED <<fbq, market>>
    <2> DEFINE n == Greatest(Least(RebalanceSize, Imbalance), ClobMin)
               taker == RebalanceTaker(s, n, market)
               cancels == CancelActions(q, {s}, market)
               one == <<taker>>
    <2>1. market \in Market /\ position \in [MarketSide -> Nat]
      BY EngineFacts DEF EngineTypeOK
    <2>2. n \in Nat
      <3>1. Unpaired("yes") \in Nat /\ Unpaired("no") \in Nat
        BY <2>1 DEF Unpaired, Greatest, Other, MarketSide
      <3>2. Imbalance \in Nat
        BY <3>1 DEF Imbalance, Greatest
      <3> QED
        BY <3>2, EngineAssumption DEF Least, Greatest
    <2>3. taker \in Command /\ taker.op = "rebalance"
      BY <2>1, <2>2, BoundsAssumption, CommandTypes DEF RebalanceTaker
    <2>4. /\ quoter' = OnCancelSent(q, Cancellable(q, {s}))
          /\ pending_rebalance' = TRUE /\ pending_rebalance = FALSE
          /\ cmdq' = cmdq \o (cmds \o cancels \o one)
          /\ UNCHANGED <<fbq, market>>
      BY <1>2, EngineFacts DEF Rebalance, EndIteration, NeedsRebalance, EngineTypeOK
    <2>5. /\ Raises(q, pending_rebalance, quoter', pending_rebalance, cancels)
          /\ cancels \in Seq(Command)
      BY <2>4, CancelRaises
    <2>6. \A T : Num(one, T) = IF taker \in T THEN 1 ELSE 0
      BY NumOne
    <2>7. one \in Seq(Command)
      BY <2>3
    <2> HIDE DEF taker, cancels, one
    <2>8. Raises(quoter', pending_rebalance, quoter', pending_rebalance', one)
      <3>1. /\ taker \in Takers
            /\ \A t \in MarketSide : taker \notin PostsOf(t) /\ taker \notin CancelsOf(t)
        BY <2>3 DEF Takers, PostsOf, CancelsOf
      <3> QED
        BY <2>4, <2>6, <3>1, FlagType DEF Raises, Flag
    <2>9. Raises(q, pending_rebalance, quoter', pending_rebalance', cancels \o one)
      BY <2>5, <2>7, <2>8, RaisesConcat
    <2> DEFINE b == cancels \o one
    <2>10. b \in Seq(Command) /\ cmds \o cancels \o one = cmds \o b
      BY <2>5, <2>7
    <2> HIDE DEF b
    <2> QED
      BY <2>4, <2>9, <2>10 DEF b
  <1> QED
    BY <1>1, <1>2 DEF FinishQuoting

\* A quote action that holds back b and sends a, then the taker's commands.
LEMMA FinishFlow ==
    ASSUME IInv, FlowInv, UNCHANGED reply, NEW q \in KnownQuoter,
           NEW a \in Seq(Command), NEW b \in Seq(Command),
           \A k \in 1..Len(b) : b[k].op = "cancel",
           Raises(quoter, pending_rebalance, q, pending_rebalance, b \o a),
           FinishQuoting(q, a), pending_commands' = pending_commands \o b
    PROVE  FlowInv'
  <1>1. PICK c \in Seq(Command) :
           /\ cmdq' = cmdq \o (a \o c)
           /\ Raises(q, pending_rebalance, quoter', pending_rebalance', c)
    BY FinishRaises
  <1>2. UNCHANGED <<fbq, reply, market>>
    BY FinishRaises
  <1>3. b \o a \in Seq(Command) /\ a \o c \in Seq(Command) /\ (b \o a) \o c = b \o (a \o c)
    OBVIOUS
  <1>4. Raises(quoter, pending_rebalance, quoter', pending_rebalance', b \o (a \o c))
    <2>1. Raises(quoter, pending_rebalance, quoter', pending_rebalance', (b \o a) \o c)
      BY <1>1, <1>3, RaisesConcat
    <2> QED
      BY <1>3, <2>1
  <1> DEFINE d == a \o c
  <1>5. SendsNow(d, b)
    BY <1>1 DEF SendsNow
  <1>6. d \in Seq(Command)
    BY <1>3
  <1>7. Raises(quoter, pending_rebalance, quoter', pending_rebalance', b \o d)
    BY <1>4
  <1> HIDE DEF d
  <1> QED
    BY <1>2, <1>5, <1>6, <1>7, SendKeepsFlow

\* A step that only sends the cancels of some sides.
LEMMA CancelFlow ==
    ASSUME IInv, FlowInv, NEW S,
           quoter' = OnCancelSent(quoter, Cancellable(quoter, S)),
           SendsNow(CancelActions(quoter, S, market), <<>>),
           UNCHANGED <<fbq, reply, market, pending_rebalance>>
    PROVE  FlowInv'
  <1> DEFINE a == CancelActions(quoter, S, market)
             e == <<>>
  <1>1. /\ a \in Seq(Command)
        /\ Raises(quoter, pending_rebalance, quoter', pending_rebalance, a)
    BY CancelRaises, EngineFacts
  <1>2. e \in Seq(Command) /\ e \o a = a /\ \A k \in 1..Len(e) : e[k].op = "cancel"
    BY <1>1
  <1>3. SendsNow(a, e)
    OBVIOUS
  <1> HIDE DEF a, e
  <1> QED
    BY <1>1, <1>2, <1>3, SendKeepsFlow

\* A step that sends nothing new and leaves the flags alone.
LEMMA QuietFlow ==
    ASSUME IInv, FlowInv, SendsNow(<<>>, <<>>),
           quoter'.pending_post = quoter.pending_post,
           quoter'.pending_cancel = quoter.pending_cancel,
           UNCHANGED <<fbq, reply, market, pending_rebalance>>
    PROVE  FlowInv'
  <1> DEFINE e == <<>>
  <1>1. e \in Seq(Command) /\ e \o e = e /\ e = <<>>
        /\ \A k \in 1..Len(e) : e[k].op = "cancel"
    OBVIOUS
  <1>2. SendsNow(e, e)
    OBVIOUS
  <1> HIDE DEF e
  <1>3. Raises(quoter, pending_rebalance, quoter', pending_rebalance, e)
    BY <1>1, RaisesNothing
  <1> QED
    BY <1>1, <1>2, <1>3, SendKeepsFlow

LEMMA QuoteFlow ==
    ASSUME IInv, FlowInv, UNCHANGED reply, QuoteNext
    PROVE  FlowInv'
  <1>0. /\ quoter \in KnownQuoter /\ pending_commands \in Seq(Command)
        /\ cmdq \in Seq(Command)
        /\ Len(clob) \in Nat /\ Len(clob) <= MaxOrders
        /\ "yes" \in MarketSide
    BY EngineFacts, QueueFacts DEF MarketSide
  <1>1. CASE QuoteNothing
    <2>1. /\ SendsNow(<<>>, <<>>) /\ UNCHANGED <<quoter, fbq, market, pending_rebalance>>
      BY <1>0, <1>1 DEF QuoteNothing, NoRebalance, EndIteration, SendsNow
    <2> QED
      BY <2>1, QuietFlow
  <1>2. CASE QuoteDark
    <2> DEFINE q == OnCancelSent(quoter, Cancellable(quoter, MarketSide))
               b == CancelActions(quoter, MarketSide, market)
               e == <<>>
    <2>1. FinishQuoting(q, e) /\ pending_commands' = pending_commands \o b
      BY <1>2 DEF QuoteDark
    <2>2. q \in KnownQuoter
      BY <1>0, QuoterKeepsKnown
    <2>3. /\ b \in Seq(Command) /\ \A k \in 1..Len(b) : b[k].op = "cancel"
          /\ Raises(quoter, pending_rebalance, q, pending_rebalance, b)
      BY <1>0, CancelRaises
    <2>4. e \in Seq(Command) /\ b \o e = b
      BY <2>3
    <2> HIDE DEF q, b, e
    <2> QED
      BY <2>1, <2>2, <2>3, <2>4, FinishFlow
  <1>3. ASSUME NEW postable \in Postable, QuoteZone(postable)
        PROVE  FlowInv'
    <2> DEFINE S == MarketSide \ postable
    <2>1. /\ quoter' = OnCancelSent(quoter, Cancellable(quoter, S))
          /\ SendsNow(CancelActions(quoter, S, market), <<>>)
          /\ UNCHANGED <<fbq, market, pending_rebalance>>
      <3>1. pending_commands \o <<>> = pending_commands
        BY <1>0
      <3> QED
        BY <1>3, <3>1 DEF QuoteZone, EndIteration, SendsNow
    <2> HIDE DEF S
    <2> QED
      BY <2>1, CancelFlow
  <1>4. ASSUME NEW postable \in Postable, QuoteMakers(postable)
        PROVE  FlowInv'
    <2>1. PICK act \in SUBSET {s \in postable :
                                  MayAct(s) /\ ~(Lagging(s) /\ TakerWillHandle)} :
             FinishQuoting(OnCancelSent(MarkPostPending(quoter, Posts(act)),
                                        Requotes(act)),
                           MakerActions(act))
      BY <1>4 DEF QuoteMakers
    <2>2. act \in SUBSET MarketSide /\ \A s \in act : MayAct(s)
      BY DEF Postable
    <2> DEFINE a == MakerActions(act)
               q == OnCancelSent(MarkPostPending(quoter, Posts(act)), Requotes(act))
               e == <<>>
    <2>3. a \in Seq(Command)
      <3>1. a \in Seq(KnownCommand)
        BY <2>2, MakerActionsType
      <3> QED
        BY <3>1 DEF KnownCommand
    <2>4. q \in KnownQuoter
      <3>1. MarkPostPending(quoter, Posts(act)) \in KnownQuoter
        BY <1>0, QuoterKeepsKnown
      <3> QED
        BY <3>1, <1>0, QuoterKeepsKnown
    <2>5. Raises(quoter, pending_rebalance, q, pending_rebalance, a)
      BY <2>2, MakerRaises
    <2>6. pending_commands' = pending_commands \o e
      BY <1>0, <1>4 DEF QuoteMakers
    <2>7. e \in Seq(Command) /\ e \o a = a /\ \A k \in 1..Len(e) : e[k].op = "cancel"
      BY <2>3
    <2>8. FinishQuoting(q, a)
      BY <2>1
    <2> HIDE DEF a, q, e
    <2> QED
      BY <2>3, <2>4, <2>5, <2>6, <2>7, <2>8, FinishFlow
  <1> QED
    BY <1>1, <1>2, <1>3, <1>4 DEF QuoteNext

LEMMA ControlFlow ==
    ASSUME IInv, FlowInv, UNCHANGED reply, ControlNext
    PROVE  FlowInv'
  <1>0. pending_commands \o <<>> = pending_commands /\ cmdq \o <<>> = cmdq
    BY QueueFacts
  <1>1. CASE OnPause
    BY <1>0, <1>1, CancelFlow DEF OnPause, SendsNow
  <1>2. CASE OnDrain \/ OnResume
    <2>1. SendsNow(<<>>, <<>>) /\ UNCHANGED <<quoter, fbq, market, pending_rebalance>>
      BY <1>0, <1>2 DEF OnDrain, OnResume, channelVars, SendsNow
    <2> QED
      BY <2>1, QuietFlow
  <1> QED
    BY <1>1, <1>2 DEF ControlNext

\* A report of the user WebSocket leaves the flags alone.
LEMMA ReportFlow ==
    ASSUME IInv, FlowInv, UNCHANGED reply, FillReport
    PROVE  FlowInv'
  <1>0. PICK i \in Orders : \E n \in 1..clob[i].matched : OnTradeStatusUpdate(i, n)
    BY DEF FillReport
  <1>1. PICK n \in 1..clob[i].matched : OnTradeStatusUpdate(i, n)
    BY <1>0
  <1>2. quoter \in QuoterState
    BY EngineFacts
  <1>3. /\ quoter'.pending_post = quoter.pending_post
        /\ quoter'.pending_cancel = quoter.pending_cancel
    <2>1. ASSUME NEW s \in MarketSide, NEW b,
                 quoter' = OnFill(RecordWsFill(quoter, s, n), s, b)
          PROVE  /\ quoter'.pending_post = quoter.pending_post
                 /\ quoter'.pending_cancel = quoter.pending_cancel
      <3> DEFINE q == RecordWsFill(quoter, s, n)
      <3>1. /\ q.pending_post = quoter.pending_post
            /\ q.pending_cancel = quoter.pending_cancel
            /\ q = [order |-> q.order, pending_cancel |-> q.pending_cancel,
                    pending_post |-> q.pending_post, last_cleared |-> q.last_cleared]
        BY <1>2 DEF RecordWsFill, QuoterState
      <3>2. quoter' = OnFill(q, s, b)
        BY <2>1
      <3> HIDE DEF q
      <3> QED
        BY <3>1, <3>2 DEF OnFill
    <2> QED
      BY <1>1, <2>1 DEF OnTradeStatusUpdate
  <1>4. SendsNow(<<>>, <<>>) /\ UNCHANGED <<fbq, market, pending_rebalance>>
    BY <1>1 DEF OnTradeStatusUpdate, Dispatch, SendsNow
  <1> QED
    BY <1>3, <1>4, QuietFlow

\* A rotation resets the flags: what was under way is left behind.
LEMMA RotationFlow ==
    ASSUME IInv, FlowInv, IdleFirst, UNCHANGED reply, OnMarketRotation
    PROVE  FlowInv'
  <1> DEFINE c == MarketRotation(market + 1)
             a == <<c>>
             e == <<>>
  <1>1. /\ quoter' = NewQuoter /\ pending_rebalance' = FALSE /\ market' = market + 1
        /\ market \in Nat /\ market + 1 \in Market
        /\ Dispatch(a)
    BY EngineFacts, BoundsAssumption DEF OnMarketRotation, EngineTypeOK, Market
  <1>2. /\ c \in Command /\ c.op = "rotate"
        /\ a \in Seq(Command) /\ e \in Seq(Command)
    <2>1. c \in Command
      BY <1>1, BoundsAssumption, CommandTypes DEF MarketSide
    <2> QED
      BY <2>1 DEF MarketRotation
  <1> HIDE DEF c
  <1>3. SendsNow(a, e) /\ UNCHANGED fbq /\ pending_commands' = <<>>
    BY <1>1 DEF Dispatch, SendsNow
  <1>4. ASSUME NEW T, NEW R, Answered(T, R), NEW u, Backed(Flow(T, R), u)
        PROVE  Flow(T, R)' \in Nat /\ Flow(T, R)' <= Greatest(market', 1) - 1
    <2>1. c \notin T
      BY <1>2, <1>4 DEF Answered
    <2>2. Num(a, T) = 0
      BY <2>1, NumOne
    <2>3. e \o a = a
      OBVIOUS
    <2> HIDE DEF a, e
    <2>4. Flow(T, R)' = Flow(T, R) + Num(e \o a, T) /\ Flow(T, R) \in Nat
      BY <1>2, <1>3, SendFlow, QueueFacts
    <2>5. Flow(T, R)' = Flow(T, R)
      BY <2>2, <2>3, <2>4
    <2>6. CASE market = 0
      <3>1. /\ Num(pending_commands, T) = 0 /\ Num(cmdq, T) = 0
            /\ Num(fbq, R) = 0 /\ Num(reply, R) = 0
        BY <2>6, NumNone DEF IdleFirst
      <3>2. Flow(T, R) = 0
        BY <3>1 DEF Flow
      <3> QED
        BY <1>1, <2>5, <2>6, <3>2 DEF Greatest
    <2>7. CASE market # 0
      <3>1. Flag(u) \in {0, 1} /\ Flow(T, R) <= Flag(u) + Greatest(market, 1) - 1
        BY <1>4, FlagType DEF Backed
      <3>2. Greatest(market, 1) = market /\ Greatest(market', 1) = market + 1
        BY <1>1, <2>7 DEF Greatest
      <3> QED
        BY <1>1, <2>4, <2>5, <3>1, <3>2
    <2> QED
      BY <2>6, <2>7
  <1>5. /\ \A s \in MarketSide : ~quoter'.pending_post[s] /\ ~quoter'.pending_cancel[s]
        /\ ~pending_rebalance'
    BY <1>1 DEF NewQuoter
  <1>6. ASSUME NEW s \in MarketSide
        PROVE  /\ Backed(Flow(PostsOf(s), PlacedOf(s)), quoter.pending_post[s])'
               /\ Backed(Flow(CancelsOf(s), CancelledOf(s)), quoter.pending_cancel[s])'
    <2>1. /\ Flow(PostsOf(s), PlacedOf(s))' \in Nat
          /\ Flow(PostsOf(s), PlacedOf(s))' <= Greatest(market', 1) - 1
          /\ Flow(CancelsOf(s), CancelledOf(s))' \in Nat
          /\ Flow(CancelsOf(s), CancelledOf(s))' <= Greatest(market', 1) - 1
      BY <1>4, AnsweredPairs DEF FlowInv
    <2>2. Greatest(market', 1) \in Nat
      BY <1>1 DEF Greatest
    <2> DEFINE n == Flow(PostsOf(s), PlacedOf(s))'
               m == Flow(CancelsOf(s), CancelledOf(s))'
               g == Greatest(market', 1)
    <2>3. n \in Nat /\ m \in Nat /\ g \in Nat /\ n <= g - 1 /\ m <= g - 1
      BY <2>1, <2>2
    <2>4. Flag(quoter'.pending_post[s]) = 0 /\ Flag(quoter'.pending_cancel[s]) = 0
      BY <1>5 DEF Flag
    <2> HIDE DEF n, m, g
    <2>5. 0 <= n /\ n <= 0 + g - 1 /\ 0 <= m /\ m <= 0 + g - 1
      BY <2>3
    <2> QED
      BY <2>4, <2>5 DEF n, m, g, Backed
  <1>7. Backed(Flow(Takers, Hedged), pending_rebalance)'
    <2>1. /\ Flow(Takers, Hedged)' \in Nat
          /\ Flow(Takers, Hedged)' <= Greatest(market', 1) - 1
      BY <1>4, AnsweredPairs DEF FlowInv
    <2>2. Greatest(market', 1) \in Nat
      BY <1>1 DEF Greatest
    <2> DEFINE n == Flow(Takers, Hedged)'
               g == Greatest(market', 1)
    <2>3. n \in Nat /\ g \in Nat /\ n <= g - 1
      BY <2>1, <2>2
    <2>4. Flag(pending_rebalance') = 0
      BY <1>5 DEF Flag
    <2> HIDE DEF n, g
    <2>5. 0 <= n /\ n <= 0 + g - 1
      BY <2>3
    <2> QED
      BY <2>4, <2>5 DEF n, g, Backed
  <1> QED
    BY <1>3, <1>6, <1>7 DEF FlowInv

LEMMA EventFlow ==
    ASSUME IInv, FlowInv, IdleFirst, UNCHANGED reply, EventNext
    PROVE  FlowInv'
  <1>1. CASE OnMarketRotation
    BY <1>1, RotationFlow
  <1>2. ASSUME Dispatch(<<>>), UNCHANGED <<quoter, market, pending_rebalance>>
        PROVE  FlowInv'
    <2>1. SendsNow(<<>>, <<>>) /\ UNCHANGED fbq
      BY <1>2 DEF Dispatch, SendsNow
    <2> QED
      BY <1>2, <2>1, QuietFlow
  <1>3. ASSUME NEW s \in MarketSide, OnBookUpdate(s)
        PROVE  FlowInv'
    BY <1>2, <1>3 DEF OnBookUpdate
  <1>4. CASE OnHeartbeatOk \/ OnMarketData
    BY <1>2, <1>4 DEF OnHeartbeatOk, OnMarketData
  <1>5. CASE OnHeartbeatFailed
    <2>1. CASE HeartbeatDies
      <3>1. /\ quoter' = OnCancelSent(quoter, Cancellable(quoter, MarketSide))
            /\ Dispatch(CancelActions(quoter, MarketSide, market))
            /\ UNCHANGED <<market, pending_rebalance>>
        BY <1>5, <2>1 DEF OnHeartbeatFailed
      <3>2. SendsNow(CancelActions(quoter, MarketSide, market), <<>>) /\ UNCHANGED fbq
        BY <3>1 DEF Dispatch, SendsNow
      <3> QED
        BY <3>1, <3>2, CancelFlow
    <2>2. CASE ~HeartbeatDies
      BY <1>2, <1>5, <2>2 DEF OnHeartbeatFailed
    <2> QED
      BY <2>1, <2>2
  <1> QED
    BY <1>1, <1>3, <1>4, <1>5 DEF EventNext

\* The first rotation is what starts everything.
LEMMA IdleNext ==
    ASSUME IInv, IInv', IdleFirst, [Next]_vars
    PROVE  IdleFirst'
  <1> SUFFICES ASSUME market' = 0
               PROVE  IdleFirst'
    BY DEF IdleFirst
  <1>0. market \in Nat /\ quoter \in QuoterState
    BY EngineFacts, BoundsAssumption DEF EngineTypeOK, Market
  <1>k. ASSUME market = 0,
               UNCHANGED <<phase, quoter, pending_rebalance, cmdq, pending_commands, fbq,
                           reply>>
        PROVE  IdleFirst'
    BY <1>k DEF IdleFirst, IsPending
  <1>d. ASSUME market = 0, phase = "idle", Dispatch(<<>>), QuietMayEnd(phase),
               UNCHANGED <<quoter, pending_rebalance, reply>>
        PROVE  IdleFirst'
    <2>1. /\ phase' = phase
          /\ cmdq = <<>> /\ pending_commands = <<>> /\ fbq = <<>>
      BY <1>d DEF QuietMayEnd, IdleFirst
    <2>2. UNCHANGED <<cmdq, pending_commands, fbq>>
      BY <1>d, <2>1 DEF Dispatch
    <2> QED
      BY <1>d, <1>k, <2>1, <2>2
  <1>c. ASSUME market = 0
        PROVE  /\ Cancellable(quoter, MarketSide) = {}
               /\ OnCancelSent(quoter, {}) = quoter
               /\ CancelActions(quoter, MarketSide, market) = <<>>
    <2>1. Cancellable(quoter, MarketSide) = {}
      BY <1>c DEF IdleFirst, Cancellable, Resting
    <2>2. [s \in MarketSide |-> s \in {} \/ quoter.pending_cancel[s]] = quoter.pending_cancel
      BY <1>0 DEF QuoterState
    <2>3. OnCancelSent(quoter, {}) = quoter
      BY <1>0, <2>2 DEF OnCancelSent, QuoterState
    <2> QED
      BY <2>1, <2>3 DEF CancelActions, OnSides
  <1>1. CASE EngineStep
    <2>0. UNCHANGED reply
      BY <1>1 DEF EngineStep, executorVars
    <2>1. CASE FeedbackNext
      <3>1. fbq # <<>> /\ UNCHANGED market
        BY <2>1 DEF FeedbackNext, Feed, OnPosted, OnAlreadyFilled, OnFailed, OnCancelled,
                    OnRebalanced
      <3> QED
        BY <3>1 DEF IdleFirst
    <2>2. CASE EventNext
      <3>1. CASE OnMarketRotation
        BY <1>0, <3>1 DEF OnMarketRotation
      <3>2. CASE \E s \in MarketSide : OnBookUpdate(s)
        BY <3>2 DEF OnBookUpdate
      <3>3. CASE OnHeartbeatOk \/ OnMarketData
        BY <1>d, <2>0, <3>3 DEF OnHeartbeatOk, OnMarketData, IdleFirst
      <3>4. CASE OnHeartbeatFailed
        <4>1. market = 0 /\ QuietMayEnd(phase) /\ UNCHANGED pending_rebalance
          BY <3>4 DEF OnHeartbeatFailed
        <4>2. quoter' = quoter /\ Dispatch(<<>>)
          BY <1>c, <3>4, <4>1 DEF OnHeartbeatFailed
        <4> QED
          BY <1>d, <2>0, <4>1, <4>2 DEF IdleFirst
      <3> QED
        BY <2>2, <3>1, <3>2, <3>3, <3>4 DEF EventNext
    <2>3. CASE FillReport
      <3>1. PICK i \in Orders : \E n \in 1..clob[i].matched : OnTradeStatusUpdate(i, n)
        BY <2>3 DEF FillReport
      <3>2. PICK n \in 1..clob[i].matched : OnTradeStatusUpdate(i, n)
        BY <3>1
      <3>3. /\ market = 0 /\ i # 0 /\ Dispatch(<<>>) /\ QuietMayEnd(phase)
            /\ UNCHANGED pending_rebalance
        BY <3>2 DEF OnTradeStatusUpdate, Orders
      <3>4. UNCHANGED quoter
        BY <3>2, <3>3 DEF OnTradeStatusUpdate, IdleFirst
      <3> QED
        BY <1>d, <2>0, <3>3, <3>4 DEF IdleFirst
    <2>4. CASE ControlNext
      <3>1. CASE OnPause
        <4>1. /\ market = 0 /\ UNCHANGED <<phase, pending_rebalance, pending_commands, fbq>>
              /\ cmdq = <<>>
          BY <3>1 DEF OnPause, IdleFirst
        <4>2. quoter' = quoter /\ cmdq' = cmdq \o <<>>
          BY <1>c, <3>1, <4>1 DEF OnPause
        <4>3. cmdq' = cmdq
          BY <4>2, QueueFacts
        <4> QED
          BY <1>k, <2>0, <4>1, <4>2, <4>3
      <3>2. CASE OnDrain \/ OnResume
        BY <1>k, <2>0, <3>2 DEF OnDrain, OnResume, channelVars
      <3> QED
        BY <2>4, <3>1, <3>2 DEF ControlNext
    <2>5. CASE QuoteNext
      <3>1. UNCHANGED market
        BY <2>5 DEF QuoteNext, QuoteNothing, QuoteDark, QuoteZone, QuoteMakers,
                    FinishQuoting, Rebalance, NoRebalance, EndIteration
      <3>2. ~CanQuote
        BY <3>1 DEF IdleFirst, CanQuote
      <3>3. QuoteNothing
        BY <2>5, <3>2 DEF QuoteNext, QuoteDark, QuoteZone, QuoteMakers
      <3>4. /\ UNCHANGED <<phase, quoter, pending_rebalance, pending_commands, fbq>>
            /\ cmdq' = cmdq \o <<>>
        BY <3>3 DEF QuoteNothing, NoRebalance, EndIteration
      <3>5. cmdq' = cmdq
        BY <3>4, QueueFacts
      <3> QED
        BY <1>k, <2>0, <3>1, <3>4, <3>5
    <2> QED
      BY <1>1, <2>1, <2>2, <2>3, <2>4, <2>5 DEF EngineStep
  <1>2. CASE ExecutorStep
    <2>1. Handles \/ Finishes \/ Rotates
      BY <1>2, ExecutorMoves
    <2>2. UNCHANGED market
      BY <1>2, ExecutorMoves DEF engineVars
    <2> QED
      BY <2>1, <2>2 DEF Handles, Finishes, Rotates, Takes, IdleFirst
  <1>3. CASE ExchangeStep
    BY <1>3, <1>k DEF ExchangeStep, channelVars, executorVars, engineVars
  <1>4. CASE ProcessExit
    BY <1>4, <1>k DEF ProcessExit, channelVars, executorVars
  <1>5. CASE UNCHANGED vars
    BY <1>5, <1>k DEF vars, channelVars, executorVars, engineVars
  <1> QED
    BY <1>1, <1>2, <1>3, <1>4, <1>5 DEF Next

LEMMA FlowNext ==
    ASSUME IInv, IInv', FlowInv, IdleFirst, ChannelCap >= 5 * MaxMarkets, [Next]_vars
    PROVE  FlowInv'
  <1>k. ASSUME UNCHANGED <<market, quoter, pending_rebalance, cmdq, pending_commands, fbq,
                           reply>>
        PROVE  FlowInv'
    BY <1>k DEF FlowInv, Backed, Flow
  <1>1. CASE EngineStep
    <2>1. UNCHANGED reply
      BY <1>1 DEF EngineStep, executorVars
    <2> QED
      BY <1>1, <2>1, FeedbackFlow, EventFlow, ReportFlow, ControlFlow, QuoteFlow
         DEF EngineStep
  <1>2. CASE ExecutorStep
    BY <1>2, ExecutorKeepsFlow
  <1>3. CASE ExchangeStep
    BY <1>3, <1>k DEF ExchangeStep, channelVars, executorVars, engineVars
  <1>4. CASE ProcessExit
    BY <1>4, <1>k DEF ProcessExit, channelVars, executorVars
  <1>5. CASE UNCHANGED vars
    BY <1>5, <1>k DEF vars, channelVars, executorVars, engineVars
  <1> QED
    BY <1>1, <1>2, <1>3, <1>4, <1>5 DEF Next

LEMMA FlowInit == Init => FlowInv /\ IdleFirst
  <1> SUFFICES ASSUME Init
               PROVE  FlowInv /\ IdleFirst
    OBVIOUS
  <1>1. /\ cmdq = <<>> /\ pending_commands = <<>> /\ fbq = <<>> /\ reply = <<>>
        /\ market = 0 /\ phase = "idle" /\ pending_rebalance = FALSE /\ quoter = NewQuoter
    BY DEF Init, ExchangeInit, ExecutorInit, EngineInit
  <1>2. \A s \in MarketSide : /\ quoter.pending_post[s] = FALSE
                              /\ quoter.pending_cancel[s] = FALSE
                              /\ quoter.order[s].id = 0
    BY <1>1 DEF NewQuoter, NoOrder
  <1>3. \A T, R : Flow(T, R) = 0
    <2> SUFFICES ASSUME NEW T, NEW R PROVE Flow(T, R) = 0
      OBVIOUS
    <2>1. /\ Num(pending_commands, T) = 0 /\ Num(cmdq, T) = 0
          /\ Num(fbq, R) = 0 /\ Num(reply, R) = 0
      BY <1>1, NumNone
    <2> QED
      BY <2>1 DEF Flow
  <1>4. IdleFirst
    BY <1>1, <1>2 DEF IdleFirst, IsPending
  <1>5. Backed(0, FALSE)
    BY <1>1 DEF Backed, Flag, Greatest
  <1>6. \A T, R : Backed(Flow(T, R), FALSE)
    BY <1>3, <1>5
  <1>7. \A k \in 1..Len(pending_commands) : pending_commands[k].op = "cancel"
    BY <1>1
  <1> QED
    BY <1>1, <1>2, <1>4, <1>6, <1>7 DEF FlowInv

\* Both invariants hold in every state.
LEMMA FlowHolds ==
    ASSUME ChannelCap >= 5 * MaxMarkets
    PROVE  Spec => [](FlowInv /\ IdleFirst)
  <1>1. IInv /\ IInv' /\ FlowInv /\ IdleFirst /\ [Next]_vars => FlowInv' /\ IdleFirst'
    BY FlowNext, IdleNext
  <1> QED
    BY <1>1, FlowInit, IdsAlwaysKnown, PTL DEF Spec

\* The properties count what FlowInv counts.
LEMMA CountsAreFlows ==
    ASSUME IInv, FlowInv
    PROVE  /\ \A s \in MarketSide :
                 /\ PostsUnderWay(s) = Flow(PostsOf(s), PlacedOf(s))
                 /\ CancelsUnderWay(s) = Flow(CancelsOf(s), CancelledOf(s))
           /\ TakersUnderWay = Flow(Takers, Hedged)
  <1> DEFINE both == pending_commands \o cmdq
  <1>0. /\ cmdq \in Seq(Command) /\ pending_commands \in Seq(Command)
        /\ both \in Seq(Command)
        /\ fbq \in Seq(Feedback) /\ reply \in Seq(Feedback) /\ Reports \in Seq(Feedback)
    BY QueueFacts DEF Reports
  <1>r. ASSUME NEW R
        PROVE  Num(Reports, R) = Num(fbq, R) + Num(reply, R)
    BY <1>0, NumConcat DEF Reports
  <1>b. ASSUME NEW T
        PROVE  Num(both, T) = Num(pending_commands, T) + Num(cmdq, T)
    BY <1>0, NumConcat
  <1>c. \A k \in 1..Len(cmdq) : cmdq[k] \in Command
    BY <1>0
  <1>d. \A k \in 1..Len(Reports) : Reports[k] \in Feedback
    BY <1>0
  <1>e. \A k \in 1..Len(both) : both[k] \in Command
    BY <1>0
  <1>n. \A T, R : /\ Num(pending_commands, T) \in Nat /\ Num(cmdq, T) \in Nat
                  /\ Num(fbq, R) \in Nat /\ Num(reply, R) \in Nat
    BY QueueFacts
  <1>p. ASSUME NEW T, \A c \in T : c.op # "cancel"
        PROVE  Num(pending_commands, T) = 0
    BY <1>0, <1>p, AtFinite DEF FlowInv
  <1> HIDE DEF both
  <1>1. ASSUME NEW s \in MarketSide
        PROVE  PostsUnderWay(s) = Flow(PostsOf(s), PlacedOf(s))
    <2>1. {k \in 1..Len(cmdq) : cmdq[k].op = "post" /\ cmdq[k].side = s}
             = At(cmdq, PostsOf(s))
      BY <1>c DEF At, PostsOf
    <2>2. {k \in 1..Len(Reports) :
              Reports[k].kind \in {"posted", "filled", "failed"} /\ Reports[k].side = s}
             = At(Reports, PlacedOf(s))
      BY <1>d DEF At, PlacedOf
    <2>3. CountIn(cmdq, LAMBDA c : c.op = "post" /\ c.side = s) = Num(cmdq, PostsOf(s))
      BY <2>1, Zenon DEF CountIn, Quantify, Num
    <2>4. CountIn(Reports,
                  LAMBDA r : r.kind \in {"posted", "filled", "failed"} /\ r.side = s)
             = Num(Reports, PlacedOf(s))
      BY <2>2, Zenon DEF CountIn, Quantify, Num
    <2>5. PostsUnderWay(s) = Num(cmdq, PostsOf(s)) + Num(Reports, PlacedOf(s))
      BY <2>3, <2>4, Zenon DEF PostsUnderWay
    <2>6. Num(pending_commands, PostsOf(s)) = 0
      BY <1>p DEF PostsOf
    <2> QED
      BY <1>n, <1>r, <2>5, <2>6 DEF Flow
  <1>2. ASSUME NEW s \in MarketSide
        PROVE  CancelsUnderWay(s) = Flow(CancelsOf(s), CancelledOf(s))
    <2>1. {k \in 1..Len(both) : both[k].op = "cancel" /\ both[k].side = s}
             = At(both, CancelsOf(s))
      BY <1>e DEF At, CancelsOf
    <2>2. {k \in 1..Len(Reports) : Reports[k].kind = "cancelled" /\ Reports[k].side = s}
             = At(Reports, CancelledOf(s))
      BY <1>d DEF At, CancelledOf
    <2>3. CountIn(both, LAMBDA c : c.op = "cancel" /\ c.side = s) = Num(both, CancelsOf(s))
      BY <2>1, Zenon DEF CountIn, Quantify, Num
    <2>4. CountIn(Reports, LAMBDA r : r.kind = "cancelled" /\ r.side = s)
             = Num(Reports, CancelledOf(s))
      BY <2>2, Zenon DEF CountIn, Quantify, Num
    <2>5. CancelsUnderWay(s) = Num(both, CancelsOf(s)) + Num(Reports, CancelledOf(s))
      BY <2>3, <2>4, Zenon DEF CancelsUnderWay, both
    <2> QED
      BY <1>b, <1>n, <1>r, <2>5 DEF Flow
  <1>3. TakersUnderWay = Flow(Takers, Hedged)
    <2>1. {k \in 1..Len(cmdq) : cmdq[k].op = "rebalance"} = At(cmdq, Takers)
      BY <1>c DEF At, Takers
    <2>2. {k \in 1..Len(Reports) : Reports[k].kind = "rebalanced"} = At(Reports, Hedged)
      BY <1>d DEF At, Hedged
    <2>3. CountIn(cmdq, LAMBDA c : c.op = "rebalance") = Num(cmdq, Takers)
      BY <2>1, Zenon DEF CountIn, Quantify, Num
    <2>4. CountIn(Reports, LAMBDA r : r.kind = "rebalanced") = Num(Reports, Hedged)
      BY <2>2, Zenon DEF CountIn, Quantify, Num
    <2>5. TakersUnderWay = Num(cmdq, Takers) + Num(Reports, Hedged)
      BY <2>3, <2>4, Zenon DEF TakersUnderWay
    <2>6. Num(pending_commands, Takers) = 0
      BY <1>p DEF Takers
    <2> QED
      BY <1>n, <1>r, <2>5, <2>6 DEF Flow
  <1> QED
    BY <1>1, <1>2, <1>3

\* Whatever calls fail and however many rotations reset the flags, a pending
\* flag stands for a command or report under way (pending_post, pending_cancel
\* and pending_rebalance of strategy.rs), when the feedback channel has room for
\* five reports of every market: the executor's try_send then never drops one.
THEOREM FlagsNeverStuckHolds ==
    ASSUME ChannelCap >= 5 * MaxMarkets
    PROVE  Spec => []FlagsNeverStuck
  <1>1. IInv /\ FlowInv => FlagsNeverStuck
    <2> SUFFICES ASSUME IInv, FlowInv
                 PROVE  FlagsNeverStuck
      OBVIOUS
    <2>1. ASSUME NEW n \in Nat, NEW b, b, Flag(b) <= n
          PROVE  n > 0
      BY <2>1 DEF Flag
    <2> QED
      BY <2>1, CountsAreFlows, QueueFacts DEF FlowInv, Backed, FlagsNeverStuck
  <1> QED
    BY <1>1, FlowHolds, IdsAlwaysKnown, PTL

\* Until the first market ends a flag stands for exactly one command or report: no side ever
\* has two posts, two cancels or two hedges under way (evaluate_side and
\* cancel_side_action, which check the flags before they raise them).
THEOREM FlagsMirrorPipelineHolds ==
    ASSUME ChannelCap >= 5 * MaxMarkets
    PROVE  Spec => [](market <= 1 => FlagsMirrorPipeline)
  <1>1. IInv /\ FlowInv /\ market <= 1 => FlagsMirrorPipeline
    <2> SUFFICES ASSUME IInv, FlowInv, market <= 1
                 PROVE  FlagsMirrorPipeline
      OBVIOUS
    <2>1. Greatest(market, 1) = 1
      BY EngineFacts DEF EngineTypeOK, Market, Greatest
    <2>2. ASSUME NEW n \in Nat, NEW b, Backed(n, b)
          PROVE  n = Flag(b)
      BY <2>1, <2>2, FlagType DEF Backed
    <2> QED
      BY <2>2, CountsAreFlows, QueueFacts DEF FlowInv, FlagsMirrorPipeline
  <1> QED
    BY <1>1, FlowHolds, IdsAlwaysKnown, PTL
=============================================================================
