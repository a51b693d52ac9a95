----------------------------- MODULE FillProofs ------------------------------
(***************************************************************************)
(* The fill accounting is sound for every value of the constants: whatever *)
(* fails, is lost or is reset, no share is recorded twice, the quoter's    *)
(* count of a resting order is what the position holds of it, and the bot  *)
(* implements FillLedger.                                                  *)
(*                                                                         *)
(* The argument: an order is the subject of at most one command or report  *)
(* under way.  Its announcement finds it unknown to the engine and nothing *)
(* counted of it; it is cancelled at most once, since the flag that        *)
(* remembers the cancel is only ever cleared together with the order.      *)
(***************************************************************************)
EXTENDS TradingBotProofs

\* The orders a queue is about; each is the subject of one item of the queue.
Ids(seq) == {seq[k].id : k \in 1..Len(seq)} \ {0}
Once(seq) == \A k, l \in 1..Len(seq) : seq[k].id # 0 /\ seq[k].id = seq[l].id => k = l

UnderWay == Ids(cmdq) \union Ids(pending_commands) \union Ids(fbq) \union Ids(reply)

UnderWayOnce ==
    /\ Once(cmdq) /\ Once(pending_commands) /\ Once(fbq)
    /\ Ids(cmdq) \intersect Ids(pending_commands) = {}
    /\ Ids(cmdq) \intersect Ids(fbq) = {}
    /\ Ids(cmdq) \intersect Ids(reply) = {}
    /\ Ids(pending_commands) \intersect Ids(fbq) = {}
    /\ Ids(pending_commands) \intersect Ids(reply) = {}
    /\ Ids(fbq) \intersect Ids(reply) = {}

\* Nothing is known of an order the exchange has not accepted.
NothingUnaccepted ==
    /\ UnderWay \subseteq Orders
    /\ \A s \in MarketSide : quoter.last_cleared[s].id # 0 =>
                                 quoter.last_cleared[s].id \in Orders
    /\ \A i \in OrderId : i \notin Orders => counted[i] = 0

\* The quoter q has never seen the order.
Untouched(q, i) == \A s \in MarketSide : q.order[s].id # i /\ q.last_cleared[s].id # i

\* A report names no more shares than the exchange has matched, and an
\* announcement comes before anything else the engine learns of its order.
Sound(r, orders, cnt, q) ==
    r.id # 0 =>
        IF r.kind = "cancelled"
        THEN r.ok => r.size <= orders[r.id].matched
        ELSE /\ cnt[r.id] = 0
             /\ Untouched(q, r.id)
             /\ r.kind # "posted" => r.size <= orders[r.id].matched

AllSound(seq, orders, cnt, q) == \A k \in 1..Len(seq) : Sound(seq[k], orders, cnt, q)

ReportsSound == /\ AllSound(fbq, clob, counted, quoter)
                /\ AllSound(reply, clob, counted, quoter)

\* What the quoter q holds, W being the orders under way and cnt what is counted:
\* an order it may cancel is not under way, the count of a held order is exact,
\* and so is that of a dropped order whose cancel result is still to come.
HeldSound(q, W, cnt) ==
    \A s \in MarketSide : q.order[s].id # 0 =>
        /\ cnt[q.order[s].id] = q.order[s].size_filled
        /\ ~q.pending_cancel[s] => q.order[s].id \notin W
        /\ \A t \in MarketSide : /\ q.last_cleared[t].id # q.order[s].id
                                 /\ t # s => q.order[t].id # q.order[s].id

ClearedSound(q, W, cnt) ==
    \A s \in MarketSide :
        q.last_cleared[s].id # 0 /\ q.last_cleared[s].id \in W =>
            cnt[q.last_cleared[s].id] = q.last_cleared[s].size_filled

QuoterSound(q, W, cnt) == HeldSound(q, W, cnt) /\ ClearedSound(q, W, cnt)

FillInv == /\ UnderWayOnce
           /\ NothingUnaccepted
           /\ ReportsSound
           /\ QuoterSound(quoter, UnderWay, counted)
           /\ NoDoubleCount

-----------------------------------------------------------------------------
(* The orders a queue is about.                                            *)

LEMMA IdsOfOne ==
    ASSUME NEW e
    PROVE  Ids(<<e>>) = {e.id} \ {0} /\ Once(<<e>>)
  BY DEF Ids, Once

LEMMA IdsOfNone == Ids(<<>>) = {} /\ Once(<<>>)
  BY DEF Ids, Once

\* Two queues in a row.
LEMMA IdsConcat ==
    ASSUME NEW T, NEW a \in Seq(T), NEW b \in Seq(T)
    PROVE  /\ Ids(a \o b) = Ids(a) \union Ids(b)
           /\ Once(a) /\ Once(b) /\ Ids(a) \intersect Ids(b) = {} => Once(a \o b)
  <1> DEFINE r == a \o b
  <1>1. /\ Len(a) \in Nat /\ Len(b) \in Nat /\ Len(r) = Len(a) + Len(b)
        /\ \A k \in 1..Len(a) : r[k] = a[k]
        /\ \A k \in 1..Len(b) : r[Len(a) + k] = b[k]
        /\ \A k \in 1..Len(r) : r[k] = IF k <= Len(a) THEN a[k] ELSE b[k - Len(a)]
    OBVIOUS
  <1> HIDE DEF r
  <1>2. Ids(r) \subseteq Ids(a) \union Ids(b)
    <2> SUFFICES ASSUME NEW k \in 1..Len(r), r[k].id # 0
                 PROVE  r[k].id \in Ids(a) \union Ids(b)
      BY DEF Ids
    <2>1. CASE k <= Len(a)
      BY <1>1, <2>1 DEF Ids
    <2>2. CASE k > Len(a)
      <3>1. k - Len(a) \in 1..Len(b) /\ r[k] = b[k - Len(a)]
        BY <1>1, <2>2
      <3> QED
        BY <3>1 DEF Ids
    <2> QED
      BY <1>1, <2>1, <2>2
  <1>3. Ids(a) \subseteq Ids(r)
    <2> SUFFICES ASSUME NEW k \in 1..Len(a), a[k].id # 0
                 PROVE  a[k].id \in Ids(r)
      BY DEF Ids
    <2> QED
      BY <1>1 DEF Ids
  <1>4. Ids(b) \subseteq Ids(r)
    <2> SUFFICES ASSUME NEW k \in 1..Len(b), b[k].id # 0
                 PROVE  b[k].id \in Ids(r)
      BY DEF Ids
    <2>1. Len(a) + k \in 1..Len(r) /\ r[Len(a) + k] = b[k]
      BY <1>1
    <2> QED
      BY <2>1 DEF Ids
  <1>5. ASSUME Once(a), Once(b), Ids(a) \intersect Ids(b) = {}
        PROVE  Once(r)
    <2> SUFFICES ASSUME NEW k \in 1..Len(r), NEW l \in 1..Len(r),
                        r[k].id # 0, r[k].id = r[l].id
                 PROVE  k = l
      BY DEF Once
    <2>1. \A j \in 1..Len(r) :
             \/ j \in 1..Len(a) /\ r[j] = a[j]
             \/ j - Len(a) \in 1..Len(b) /\ r[j] = b[j - Len(a)]
      BY <1>1
    <2>2. \A j \in 1..Len(a), m \in 1..Len(b) : a[j].id # 0 => a[j].id # b[m].id
      BY <1>5 DEF Ids
    <2>3. CASE k \in 1..Len(a) /\ r[k] = a[k]
      <3>1. CASE l \in 1..Len(a) /\ r[l] = a[l]
        BY <1>5, <2>3, <3>1 DEF Once
      <3>2. CASE l - Len(a) \in 1..Len(b) /\ r[l] = b[l - Len(a)]
        BY <2>2, <2>3, <3>2
      <3> QED
        BY <2>1, <3>1, <3>2
    <2>4. CASE k - Len(a) \in 1..Len(b) /\ r[k] = b[k - Len(a)]
      <3>1. CASE l \in 1..Len(a) /\ r[l] = a[l]
        BY <2>2, <2>4, <3>1
      <3>2. CASE l - Len(a) \in 1..Len(b) /\ r[l] = b[l - Len(a)]
        <4>1. k - Len(a) = l - Len(a)
          BY <1>5, <2>4, <3>2 DEF Once
        <4> QED
          BY <4>1, <1>1
      <3> QED
        BY <2>1, <3>1, <3>2
    <2> QED
      BY <2>1, <2>3, <2>4
  <1> QED
    BY <1>2, <1>3, <1>4, <1>5 DEF r

LEMMA IdsAppend ==
    ASSUME NEW T, NEW a \in Seq(T), NEW e \in T
    PROVE  /\ Ids(Append(a, e)) = Ids(a) \union ({e.id} \ {0})
           /\ Once(a) /\ e.id \notin Ids(a) => Once(Append(a, e))
  <1> DEFINE b == <<e>>
  <1>1. Append(a, e) = a \o b /\ b \in Seq(T)
    OBVIOUS
  <1>2. Ids(b) = {e.id} \ {0} /\ Once(b)
    BY IdsOfOne
  <1> HIDE DEF b
  <1>3. /\ Ids(a \o b) = Ids(a) \union Ids(b)
        /\ Once(a) /\ Once(b) /\ Ids(a) \intersect Ids(b) = {} => Once(a \o b)
    BY <1>1, IdsConcat
  <1> QED
    BY <1>1, <1>2, <1>3

\* Taking the first item.
LEMMA IdsTail ==
    ASSUME NEW T, NEW a \in Seq(T), a # <<>>
    PROVE  /\ Ids(a) = Ids(Tail(a)) \union ({Head(a).id} \ {0})
           /\ Once(a) => Once(Tail(a)) /\ Head(a).id \notin Ids(Tail(a))
  <1> DEFINE r == Tail(a)
  <1>1. /\ Len(a) \in Nat \ {0} /\ Len(r) = Len(a) - 1 /\ Head(a) = a[1]
        /\ \A k \in 1..Len(r) : k + 1 \in 1..Len(a) /\ r[k] = a[k + 1]
        /\ \A k \in 1..Len(a) : k = 1 \/ (k - 1 \in 1..Len(r) /\ a[k] = r[k - 1])
    OBVIOUS
  <1> HIDE DEF r
  <1>2. Ids(a) \subseteq Ids(r) \union ({a[1].id} \ {0})
    <2> SUFFICES ASSUME NEW k \in 1..Len(a), a[k].id # 0, k # 1
                 PROVE  a[k].id \in Ids(r)
      BY DEF Ids
    <2>1. k - 1 \in 1..Len(r) /\ a[k] = r[k - 1]
      BY <1>1
    <2> QED
      BY <2>1 DEF Ids
  <1>3. Ids(r) \subseteq Ids(a)
    <2> SUFFICES ASSUME NEW k \in 1..Len(r), r[k].id # 0
                 PROVE  r[k].id \in Ids(a)
      BY DEF Ids
    <2>1. k + 1 \in 1..Len(a) /\ r[k] = a[k + 1]
      BY <1>1
    <2> QED
      BY <2>1 DEF Ids
  <1>4. {a[1].id} \ {0} \subseteq Ids(a)
    BY <1>1 DEF Ids
  <1>5. ASSUME Once(a)
        PROVE  Once(r) /\ a[1].id \notin Ids(r)
    <2>1. \A k, l \in 1..Len(r) : r[k].id # 0 /\ r[k].id = r[l].id => k = l
      <3> SUFFICES ASSUME NEW k \in 1..Len(r), NEW l \in 1..Len(r),
                          r[k].id # 0, r[k].id = r[l].id
                   PROVE  k = l
        OBVIOUS
      <3>1. k + 1 = l + 1
        BY <1>1, <1>5 DEF Once
      <3> QED
        BY <3>1, <1>1
    <2>2. ASSUME NEW k \in 1..Len(r), r[k].id # 0 PROVE r[k].id # a[1].id
      <3>1. r[k] = a[k + 1] /\ k + 1 \in 1..Len(a) /\ k + 1 # 1 /\ 1 \in 1..Len(a)
        BY <1>1
      <3> QED
        BY <1>5, <2>2, <3>1 DEF Once
    <2> QED
      BY <2>1, <2>2 DEF Once, Ids
  <1> QED
    BY <1>1, <1>2, <1>3, <1>4, <1>5 DEF r

-----------------------------------------------------------------------------
(* The executor.                                                           *)

\* Where the items under way and the order ids come from.
LEMMA FillFacts ==
    ASSUME IInv
    PROVE  /\ cmdq \in Seq(KnownCommand) /\ pending_commands \in Seq(KnownCommand)
           /\ fbq \in Seq(KnownFeedback) /\ reply \in Seq(KnownFeedback)
           /\ Len(reply) <= 1
           /\ clob \in Seq(Order) /\ Len(clob) \in Nat /\ Len(clob) <= MaxOrders
           /\ \A i \in Orders : clob[i] \in Order /\ clob[i].matched \in Nat
           /\ Orders \subseteq OrderId /\ 0 \notin OrderId
           /\ counted \in [OrderId -> Nat]
           /\ quoter \in QuoterState
           /\ \A s \in MarketSide : quoter.order[s].id # 0 => quoter.order[s].id \in Orders
  <1>1. \A i \in Orders : clob[i] \in Order
    BY EngineFacts DEF Orders
  <1>2. \A i \in Orders : clob[i].matched \in Nat
    BY <1>1 DEF Order
  <1>3. Orders \subseteq OrderId /\ 0 \notin OrderId
    BY EngineFacts, BoundsAssumption DEF Orders, OrderId
  <1> QED
    BY <1>1, <1>2, <1>3, EngineFacts
       DEF IInv, IdsKnown, TypeOK, ExecutorTypeOK, EngineTypeOK, KnownQuoter, Resting

LEMMA FillFactsNext ==
    ASSUME IInv'
    PROVE  /\ clob' \in Seq(Order) /\ Len(clob') \in Nat
           /\ \A i \in Orders' : clob'[i] \in Order /\ clob'[i].matched \in Nat
           /\ Orders' \subseteq OrderId
           /\ counted' \in [OrderId -> Nat]
           /\ quoter' \in QuoterState
  <1>1. clob' \in Seq(Order) /\ Len(clob') <= MaxOrders
    BY DEF IInv, TypeOK, ClobTypeOK
  <1>2. \A i \in Orders' : clob'[i] \in Order
    BY <1>1 DEF Orders
  <1>3. \A i \in Orders' : clob'[i].matched \in Nat
    BY <1>2 DEF Order
  <1>4. Orders' \subseteq OrderId
    BY <1>1, BoundsAssumption DEF Orders, OrderId
  <1>5. counted' \in [OrderId -> Nat] /\ quoter' \in QuoterState
    BY DEF IInv, TypeOK, EngineTypeOK, OrderId
  <1> QED
    BY <1>1, <1>2, <1>3, <1>4, <1>5

\* Reports stay sound while the exchange goes on matching.
LEMMA SoundGrows ==
    ASSUME IInv, IInv', NEW r, r.id = 0 \/ r.id \in Orders, r.size \in Nat,
           NEW cnt, NEW q, Sound(r, clob, cnt, q), Len(clob') >= Len(clob),
           \A i \in Orders : clob'[i].matched >= clob[i].matched
    PROVE  Sound(r, clob', cnt, q)
  <1>1. CASE r.id = 0
    BY <1>1 DEF Sound
  <1>2. CASE r.id \in Orders
    <2>1. r.id \in Orders'
      BY <1>2, FillFacts DEF Orders
    <2>2. clob[r.id].matched \in Nat /\ clob'[r.id].matched \in Nat
      BY <1>2, <2>1, FillFacts, FillFactsNext
    <2>3. r.size <= clob[r.id].matched => r.size <= clob'[r.id].matched
      BY <1>2, <2>2
    <2> QED
      BY <2>3 DEF Sound
  <1> QED
    BY <1>1, <1>2

\* What is left to show of a step of the executor or the exchange.
LEMMA OutsideKeeps ==
    ASSUME IInv, IInv', FillInv, UNCHANGED engineVars,
           Len(clob') >= Len(clob),
           \A i \in Orders : clob'[i].matched >= clob[i].matched,
           UnderWayOnce', UnderWay' \subseteq UnderWay \union (Orders' \ Orders),
           AllSound(fbq', clob', counted, quoter),
           AllSound(reply', clob', counted, quoter)
    PROVE  FillInv'
  <1>1. UNCHANGED <<quoter, counted, pending_commands>>
    BY DEF engineVars
  <1>2. Orders \subseteq Orders'
    BY FillFacts DEF Orders
  <1>3. NothingUnaccepted'
    <2>1. UnderWay' \subseteq Orders'
      BY <1>2 DEF FillInv, NothingUnaccepted
    <2> QED
      BY <1>1, <1>2, <2>1 DEF FillInv, NothingUnaccepted, OrderId
  <1>4. QuoterSound(quoter, UnderWay', counted)
    <2>1. \A s \in MarketSide : /\ quoter.order[s].id # 0 => quoter.order[s].id \in Orders
                                /\ quoter.last_cleared[s].id # 0 =>
                                       quoter.last_cleared[s].id \in Orders
      BY FillFacts DEF FillInv, NothingUnaccepted
    <2>2. \A i \in Orders : i \in UnderWay' => i \in UnderWay
      OBVIOUS
    <2> QED
      BY <2>1, <2>2 DEF FillInv, QuoterSound, HeldSound, ClearedSound
  <1>5. NoDoubleCount'
    <2> SUFFICES ASSUME NEW i \in Orders'
                 PROVE  counted[i] <= clob'[i].matched
      BY <1>1 DEF NoDoubleCount
    <2>1. clob'[i].matched \in Nat /\ i \in OrderId
      BY FillFactsNext
    <2>2. CASE i \in Orders
      <3>1. clob[i].matched \in Nat /\ counted[i] \in Nat
        BY <2>1, <2>2, FillFacts
      <3>2. counted[i] <= clob[i].matched /\ clob[i].matched <= clob'[i].matched
        BY <2>2 DEF FillInv, NoDoubleCount
      <3> QED
        BY <2>1, <3>1, <3>2
    <2>3. CASE i \notin Orders
      BY <2>1, <2>3 DEF FillInv, NothingUnaccepted
    <2> QED
      BY <2>2, <2>3
  <1> QED
    BY <1>1, <1>3, <1>4, <1>5 DEF FillInv, ReportsSound

LEMMA AllSoundGrows ==
    ASSUME IInv, IInv', NEW seq \in Seq(KnownFeedback), Ids(seq) \subseteq Orders,
           NEW cnt, NEW q, AllSound(seq, clob, cnt, q), Len(clob') >= Len(clob),
           \A i \in Orders : clob'[i].matched >= clob[i].matched
    PROVE  AllSound(seq, clob', cnt, q)
  <1> SUFFICES ASSUME NEW k \in 1..Len(seq)
               PROVE  Sound(seq[k], clob', cnt, q)
    BY DEF AllSound
  <1>1. seq[k].id = 0 \/ seq[k].id \in Orders
    BY DEF Ids
  <1>2. seq[k].size \in Nat
    <2>1. seq[k] \in Feedback
      BY DEF KnownFeedback
    <2> QED
      BY <2>1 DEF Feedback
  <1>3. Sound(seq[k], clob, cnt, q)
    BY DEF AllSound
  <1> QED
    BY <1>1, <1>2, <1>3, SoundGrows

\* Reports added to, or taken from, a queue.
LEMMA AllSoundAppend ==
    ASSUME NEW T, NEW seq \in Seq(T), NEW r \in T, NEW orders, NEW cnt, NEW q,
           AllSound(seq, orders, cnt, q), Sound(r, orders, cnt, q)
    PROVE  AllSound(Append(seq, r), orders, cnt, q)
  <1> SUFFICES ASSUME NEW k \in 1..Len(Append(seq, r))
               PROVE  Sound(Append(seq, r)[k], orders, cnt, q)
    BY DEF AllSound
  <1>1. \/ k \in 1..Len(seq) /\ Append(seq, r)[k] = seq[k]
        \/ Append(seq, r)[k] = r
    OBVIOUS
  <1> QED
    BY <1>1 DEF AllSound

\* A handler takes a command and owes a report: none of an order, of the order
\* it cancels, or of one it has placed.
LEMMA OwesKeeps ==
    ASSUME IInv, IInv', FillInv, NEW op, Receive(op), NEW fb,
           reply' = <<fb>>, UNCHANGED <<fbq, engineVars>>,
           Len(clob') >= Len(clob),
           \A i \in Orders : clob'[i].matched >= clob[i].matched,
           fb.id \in {0, Head(cmdq).id} \union (Orders' \ Orders),
           Sound(fb, clob', counted, quoter)
    PROVE  FillInv'
  <1>1. /\ reply = <<>> /\ cmdq # <<>> /\ cmdq' = Tail(cmdq)
        /\ UNCHANGED <<fbq, pending_commands>>
    BY DEF Receive, engineVars
  <1>2. /\ Ids(cmdq) = Ids(cmdq') \union ({Head(cmdq).id} \ {0})
        /\ Once(cmdq') /\ Head(cmdq).id \notin Ids(cmdq')
    <2>1. Once(cmdq) /\ cmdq \in Seq(KnownCommand)
      BY FillFacts DEF FillInv, UnderWayOnce
    <2> QED
      BY <1>1, <2>1, IdsTail
  <1>3. Ids(reply) = {} /\ Ids(reply') = {fb.id} \ {0}
    BY <1>1, IdsOfOne, IdsOfNone
  <1>4. UnderWay' \subseteq UnderWay \union (Orders' \ Orders)
    BY <1>1, <1>2, <1>3 DEF UnderWay
  <1>5. UnderWayOnce'
    <2>1. UnderWay \subseteq Orders
      BY DEF FillInv, NothingUnaccepted
    <2> QED
      BY <1>1, <1>2, <1>3, <2>1 DEF FillInv, UnderWayOnce, UnderWay
  <1>6. AllSound(fbq', clob', counted, quoter)
    <2>1. Ids(fbq) \subseteq Orders /\ AllSound(fbq, clob, counted, quoter)
      BY DEF FillInv, NothingUnaccepted, UnderWay, ReportsSound
    <2> QED
      BY <1>1, <2>1, FillFacts, AllSoundGrows
  <1>7. AllSound(reply', clob', counted, quoter)
    <2>1. Len(reply') = 1 /\ reply'[1] = fb
      OBVIOUS
    <2> QED
      BY <2>1 DEF AllSound
  <1> QED
    BY <1>4, <1>5, <1>6, <1>7, OutsideKeeps

\* A handler ends with a report of no order, or without one.
LEMMA AnswersKeeps ==
    ASSUME IInv, IInv', FillInv, NEW op, Receive(op),
           NEW fb \in KnownFeedback, fb.id = 0, SendFeedback(fb) \/ UNCHANGED fbq,
           UNCHANGED <<reply, engineVars>>,
           Len(clob') >= Len(clob),
           \A i \in Orders : clob'[i].matched >= clob[i].matched
    PROVE  FillInv'
  <1>1. /\ cmdq # <<>> /\ cmdq' = Tail(cmdq) /\ UNCHANGED <<reply, pending_commands>>
    BY DEF Receive, engineVars
  <1>2. /\ Ids(cmdq) = Ids(cmdq') \union ({Head(cmdq).id} \ {0}) /\ Once(cmdq')
    <2>1. Once(cmdq) /\ cmdq \in Seq(KnownCommand)
      BY FillFacts DEF FillInv, UnderWayOnce
    <2> QED
      BY <1>1, <2>1, IdsTail
  <1>3. fbq' = fbq \/ fbq' = Append(fbq, fb)
    BY DEF SendFeedback
  <1>4. Ids(fbq') = Ids(fbq) /\ Once(fbq')
    <2>1. Once(fbq) /\ fbq \in Seq(KnownFeedback)
      BY FillFacts DEF FillInv, UnderWayOnce
    <2>2. fb.id \notin Ids(fbq)
      BY DEF Ids
    <2>3. Ids(Append(fbq, fb)) = Ids(fbq) \union ({fb.id} \ {0}) /\ Once(Append(fbq, fb))
      BY <2>1, <2>2, IdsAppend
    <2> QED
      BY <1>3, <2>1, <2>3
  <1>5. UnderWay' \subseteq UnderWay
    BY <1>1, <1>2, <1>4 DEF UnderWay
  <1>6. UnderWayOnce'
    BY <1>1, <1>2, <1>4 DEF FillInv, UnderWayOnce
  <1>7. Ids(fbq) \subseteq Orders /\ Ids(reply) \subseteq Orders
        /\ AllSound(fbq, clob, counted, quoter) /\ AllSound(reply, clob, counted, quoter)
    BY DEF FillInv, NothingUnaccepted, UnderWay, ReportsSound
  <1>8. AllSound(fbq, clob', counted, quoter) /\ AllSound(reply, clob', counted, quoter)
    BY <1>7, FillFacts, AllSoundGrows
  <1>9. AllSound(fbq', clob', counted, quoter)
    <2>1. Sound(fb, clob', counted, quoter)
      BY DEF Sound
    <2>2. AllSound(Append(fbq, fb), clob', counted, quoter)
      BY <1>8, <2>1, FillFacts, AllSoundAppend
    <2> QED
      BY <1>3, <1>8, <2>2
  <1> QED
    BY <1>1, <1>5, <1>6, <1>8, <1>9, OutsideKeeps

\* A handler sends the report it owes, as it is or with what it has learnt.
LEMMA RepliesKeeps ==
    ASSUME IInv, IInv', FillInv, reply # <<>>, reply' = <<>>,
           NEW fb \in KnownFeedback, fb.id = Head(reply).id, SendFeedback(fb),
           Sound(fb, clob, counted, quoter), UNCHANGED <<cmdq, clob, engineVars>>
    PROVE  FillInv'
  <1>1. UNCHANGED pending_commands /\ (fbq' = fbq \/ fbq' = Append(fbq, fb))
    BY DEF SendFeedback, engineVars
  <1>2. Ids(reply) = {fb.id} \ {0} /\ Ids(reply') = {}
    <2>1. Len(reply) = 1 /\ reply[1] = Head(reply)
      <3>1. reply \in Seq(KnownFeedback) /\ Len(reply) <= 1
        BY FillFacts
      <3>2. Len(reply) \in Nat \ {0} /\ Head(reply) = reply[1]
        BY <3>1
      <3>3. \A n \in Nat \ {0} : n <= 1 => n = 1
        OBVIOUS
      <3>4. Len(reply) = 1
        BY <3>1, <3>2, <3>3, Zenon
      <3> QED
        BY <3>2, <3>4
    <2>2. Ids(reply) = {reply[k].id : k \in {1}} \ {0}
      BY <2>1 DEF Ids
    <2> QED
      BY <2>1, <2>2, IdsOfNone
  <1>3. Ids(fbq') \subseteq Ids(fbq) \union Ids(reply) /\ Once(fbq')
    <2>1. Once(fbq) /\ fbq \in Seq(KnownFeedback) /\ Ids(fbq) \intersect Ids(reply) = {}
      BY FillFacts DEF FillInv, UnderWayOnce
    <2>2. fb.id \notin Ids(fbq)
      BY <1>2, <2>1 DEF Ids
    <2>3. Ids(Append(fbq, fb)) = Ids(fbq) \union ({fb.id} \ {0}) /\ Once(Append(fbq, fb))
      BY <2>1, <2>2, IdsAppend
    <2> QED
      BY <1>1, <1>2, <2>1, <2>3
  <1>4. UnderWay' \subseteq UnderWay
    BY <1>1, <1>2, <1>3 DEF UnderWay
  <1>5. UnderWayOnce'
    BY <1>1, <1>2, <1>3 DEF FillInv, UnderWayOnce
  <1>6. AllSound(fbq', clob', counted, quoter)
    <2>1. AllSound(fbq, clob, counted, quoter)
      BY DEF FillInv, ReportsSound
    <2>2. AllSound(Append(fbq, fb), clob, counted, quoter)
      BY <2>1, FillFacts, AllSoundAppend
    <2> QED
      BY <1>1, <2>1, <2>2
  <1>7. AllSound(reply', clob', counted, quoter)
    BY DEF AllSound
  <1>8. \A i \in Orders : clob'[i].matched >= clob[i].matched
    BY FillFacts
  <1>9. Len(clob') >= Len(clob)
    BY FillFacts
  <1> QED
    BY <1>4, <1>5, <1>6, <1>7, <1>8, <1>9, OutsideKeeps

\* What a step of the executor does to the exchange's orders: it forgets none
\* and takes back no share.
LEMMA AcceptMatches ==
    ASSUME IInv, NEW s, NEW n, NEW k, NEW m, NEW maker, Accept(s, n, k, m, maker)
    PROVE  /\ Len(clob') = Len(clob) + 1
           /\ \A i \in Orders : clob'[i] = clob[i]
           /\ NextId \in Orders' \ Orders
           /\ clob'[NextId].matched = k
  <1> DEFINE o == [side |-> s, size |-> n, matched |-> k, live |-> k < n,
                   market |-> m, maker |-> maker]
  <1>0. clob \in Seq(Order) /\ Len(clob) \in Nat
    BY FillFacts
  <1>1. clob' = Append(clob, o)
    BY DEF Accept
  <1>2. o.matched = k
    OBVIOUS
  <1> HIDE DEF o
  <1>3. /\ Len(clob') = Len(clob) + 1 /\ clob'[Len(clob) + 1] = o
        /\ \A i \in 1..Len(clob) : clob'[i] = clob[i]
    BY <1>0, <1>1
  <1>4. NextId \in Orders' \ Orders
    BY <1>0, <1>3 DEF NextId, Orders
  <1> QED
    BY <1>2, <1>3, <1>4 DEF NextId, Orders

LEMMA CancelMatches ==
    ASSUME IInv, \/ \E j : Cancel(j)
                 \/ CancelAll
                 \/ UNCHANGED clob
    PROVE  /\ Len(clob') = Len(clob)
           /\ \A i \in Orders : clob'[i].matched = clob[i].matched
  <1>0. /\ clob \in Seq(Order) /\ Len(clob) \in Nat
        /\ \A i \in Orders : clob[i] \in Order
        /\ Orders = DOMAIN clob
    BY FillFacts DEF Orders
  <1>1. ASSUME NEW j, Cancel(j)
        PROVE  /\ Len(clob') = Len(clob)
               /\ \A i \in Orders : clob'[i].matched = clob[i].matched
    <2> DEFINE o == [clob[j] EXCEPT !.live = FALSE]
    <2>1. clob' = [clob EXCEPT ![j] = o]
      BY <1>1 DEF Cancel
    <2>2. j \in Orders => o.matched = clob[j].matched
      BY <1>0 DEF Order
    <2> HIDE DEF o
    <2> QED
      BY <1>0, <2>1, <2>2
  <1>2. CASE CancelAll
    <2>1. clob' = [i \in 1..Len(clob) |-> [clob[i] EXCEPT !.live = FALSE]]
      BY <1>2 DEF CancelAll, Orders
    <2>2. \A i \in Orders : clob'[i] = [clob[i] EXCEPT !.live = FALSE]
      BY <2>1 DEF Orders
    <2>3. \A p \in Order : [p EXCEPT !.live = FALSE].matched = p.matched
      BY DEF Order
    <2>4. Len(clob') = Len(clob)
      BY <1>0, <2>1
    <2> QED
      BY <1>0, <2>2, <2>3, <2>4
  <1> QED
    BY <1>1, <1>2

\* A step of the executor keeps the invariant.
LEMMA ExecutorFill ==
    ASSUME IInv, IInv', FillInv, ExecutorStep
    PROVE  FillInv'
  <1> DEFINE c == Head(cmdq)
             Grows == /\ Len(clob') >= Len(clob)
                      /\ \A i \in Orders : clob'[i].matched >= clob[i].matched
  <1>0. /\ UNCHANGED engineVars
        /\ Len(clob) \in Nat
        /\ \A i \in Orders : clob[i].matched \in Nat
        /\ 0 \in 0..MaxOrders /\ 0 \in Nat
    BY FillFacts, BoundsAssumption DEF ExecutorStep
  \* What a handler owes after it placed an order, or placed one and knows not.
  <1>n. ASSUME NEW op, Receive(op), NEW s, NEW n, NEW k \in Nat, NEW m, NEW maker,
               Accept(s, n, k, m, maker), NEW fb, Owe(fb),
               \/ fb.id = 0
               \/ /\ fb.id = NextId /\ fb.kind # "cancelled"
                  /\ fb.kind # "posted" => fb.size = k
        PROVE  FillInv'
    <2>1. /\ Len(clob') = Len(clob) + 1
          /\ \A i \in Orders : clob'[i] = clob[i]
          /\ NextId \in Orders' \ Orders
          /\ clob'[NextId].matched = k
      BY <1>n, AcceptMatches
    <2>2. Grows
      BY <1>0, <2>1
    <2>3. Sound(fb, clob', counted, quoter)
      <3>1. CASE fb.id = 0
        BY <3>1 DEF Sound
      <3>2. CASE fb.id # 0
        <4>1. counted[NextId] = 0 /\ NextId # 0
          BY <2>1, FillFacts, FillFactsNext DEF FillInv, NothingUnaccepted
        <4>2. Untouched(quoter, NextId)
          BY <2>1, <4>1, FillFacts DEF FillInv, NothingUnaccepted, Untouched
        <4> QED
          BY <1>n, <2>1, <3>2, <4>1, <4>2 DEF Sound
      <3> QED
        BY <1>n, <3>1, <3>2
    <2> QED
      BY <1>0, <1>n, <2>1, <2>2, <2>3, OwesKeeps DEF Owe
  <1>a. ASSUME NEW op, Receive(op), NEW fb \in KnownFeedback, fb.id = 0, Answer(fb)
        PROVE  FillInv'
    BY <1>0, <1>a, AnswersKeeps DEF Answer, executorVars
  <1>t. ASSUME NEW op, Receive(op)
        PROVE  c \in Command /\ c \in KnownCommand /\ c.op = op
    BY <1>t, ReceiveType DEF Receive
  <1>1. CASE PostAccepted
    BY <1>0, <1>1, <1>n DEF PostAccepted, OrderPosted
  <1>2. CASE PostFilled
    BY <1>0, <1>2, <1>n, <1>t DEF PostFilled, OrderFilled, Command
  <1>3. CASE PostRejected
    <2>1. Receive("post") /\ Answer(OrderFailed(c.side)) /\ c.side \in MarketSide
      BY <1>3, <1>t DEF PostRejected, Command
    <2>2. OrderFailed(c.side) \in KnownFeedback /\ OrderFailed(c.side).id = 0
      BY <1>0, <2>1, FeedbackTypes DEF KnownFeedback, OrderFailed, Feedback
    <2> QED
      BY <1>a, <2>1, <2>2
  <1>4. CASE PostErrored
    <2>1. /\ Receive("post") /\ Accept(c.side, c.size, 0, c.market, TRUE)
          /\ Owe(OrderFailed(c.side))
      BY <1>4 DEF PostErrored
    <2>2. /\ OrderFailed(c.side).id = 0 /\ OrderFailed(c.side).kind = "failed"
          /\ OrderFailed(c.side).size = 0
      BY DEF OrderFailed
    <2> QED
      BY <1>0, <1>n, <2>1, <2>2
  <1>5. CASE HandleCancel
    <2>1. /\ Receive("cancel")
          /\ Cancel(c.id) \/ UNCHANGED clob
          /\ Owe(CancelResult(c.side, c.id, 0, FALSE))
      BY <1>5 DEF HandleCancel
    <2>2. Grows
      BY <1>0, <2>1, CancelMatches
    <2> DEFINE fb == CancelResult(c.side, c.id, 0, FALSE)
    <2>3. fb.id = c.id /\ Sound(fb, clob', counted, quoter)
      BY DEF CancelResult, Sound
    <2> HIDE DEF fb
    <2> QED
      BY <1>0, <2>1, <2>2, <2>3, OwesKeeps DEF Owe, fb
  <1>6. CASE CancelStatus
    <2> DEFINE r == Head(reply)
               fb == CancelResult(r.side, r.id, clob[r.id].matched, TRUE)
    <2>1. /\ reply # <<>> /\ r.kind = "cancelled" /\ reply' = <<>>
          /\ UNCHANGED <<cmdq, clob>>
          /\ SendFeedback(fb) \/ SendFeedback(r)
      BY <1>6 DEF CancelStatus
    <2>2. r \in KnownFeedback /\ r \in Feedback /\ r.id \in Orders /\ r = reply[1]
          /\ 1 \in 1..Len(reply)
      BY <2>1, FillFacts DEF KnownFeedback
    <2>3. Sound(r, clob, counted, quoter)
      BY <2>2 DEF FillInv, ReportsSound, AllSound
    <2>4. fb.id = r.id /\ fb \in KnownFeedback
      BY <2>1, <2>2, <1>0, FillFacts DEF KnownFeedback, Feedback, CancelResult
    <2>5. Sound(fb, clob, counted, quoter)
      BY <2>2, <1>0 DEF Sound, CancelResult
    <2> HIDE DEF fb, r
    <2> QED
      BY <1>0, <2>1, <2>2, <2>3, <2>4, <2>5, RepliesKeeps DEF r
  <1>7. CASE Reply
    <2>1. /\ reply # <<>> /\ reply' = <<>> /\ SendFeedback(Head(reply))
          /\ UNCHANGED <<cmdq, clob>>
      BY <1>7 DEF Reply
    <2>2. Head(reply) \in KnownFeedback /\ Head(reply) = reply[1] /\ 1 \in 1..Len(reply)
      BY <2>1, FillFacts
    <2>3. Sound(Head(reply), clob, counted, quoter)
      BY <2>2 DEF FillInv, ReportsSound, AllSound
    <2> QED
      BY <1>0, <2>1, <2>2, <2>3, RepliesKeeps
  <1>8. CASE TakerFilled
    <2>1. PICK n \in (c.size - FokSlack)..(c.size + FokSlack) :
             /\ n > 0 /\ Receive("rebalance")
             /\ Accept(c.side, n, n, c.market, FALSE)
             /\ Owe(RebalanceResult(c.side, NextId, n, TRUE))
      BY <1>8 DEF TakerFilled
    <2>2. n \in Nat
      <3>1. c.size \in Nat
        BY <2>1, <1>t DEF Command
      <3> QED
        BY <2>1, <3>1, ExecutorAssumption
    <2> QED
      BY <2>1, <2>2, <1>n DEF RebalanceResult
  <1>9. CASE TakerKilled
    <2>1. /\ Receive("rebalance") /\ Answer(RebalanceResult(c.side, 0, 0, FALSE))
          /\ c.side \in MarketSide
      BY <1>9, <1>t DEF TakerKilled, Command
    <2>2. /\ RebalanceResult(c.side, 0, 0, FALSE) \in KnownFeedback
          /\ RebalanceResult(c.side, 0, 0, FALSE).id = 0
      BY <1>0, <2>1 DEF KnownFeedback, RebalanceResult, Feedback
    <2> QED
      BY <1>a, <2>1, <2>2
  <1>10. CASE TakerErrored
    <2>1. /\ Receive("rebalance") /\ Accept(c.side, c.size, c.size, c.market, FALSE)
          /\ Owe(RebalanceResult(c.side, 0, 0, FALSE)) /\ c.size \in Nat
      BY <1>10, <1>t DEF TakerErrored, Command
    <2> QED
      BY <2>1, <1>n DEF RebalanceResult
  <1>11. CASE Rotate
    <2>1. /\ Receive("rotate")
          /\ CancelAll \/ UNCHANGED clob
          /\ UNCHANGED <<fbq, reply>>
      BY <1>11 DEF Rotate
    <2>2. Grows
      BY <1>0, <2>1, CancelMatches
    <2>3. /\ OrderFailed("yes") \in KnownFeedback /\ OrderFailed("yes").id = 0
      BY <1>0, FeedbackTypes DEF KnownFeedback, OrderFailed, Feedback, MarketSide
    <2> QED
      BY <1>0, <2>1, <2>2, <2>3, AnswersKeeps
  <1> QED
    BY <1>1, <1>2, <1>3, <1>4, <1>5, <1>6, <1>7, <1>8, <1>9, <1>10, <1>11
       DEF ExecutorStep, ExecutorNext

-----------------------------------------------------------------------------
(* The exchange.                                                           *)

LEMMA ExchangeFill ==
    ASSUME IInv, IInv', FillInv, ExchangeStep
    PROVE  FillInv'
  <1>1. PICK j \in Orders : Match(j)
    BY DEF ExchangeStep
  <1>2. UNCHANGED <<cmdq, fbq, reply, engineVars>> /\ UNCHANGED pending_commands
    BY DEF ExchangeStep, channelVars, executorVars, engineVars
  <1>0. /\ clob \in Seq(Order) /\ Len(clob) \in Nat
        /\ \A i \in Orders : clob[i] \in Order /\ clob[i].matched \in Nat
        /\ Orders = DOMAIN clob
    BY FillFacts DEF Orders
  <1> DEFINE o == [clob[j] EXCEPT !.matched = clob[j].matched + 1,
                                  !.live = clob[j].matched + 1 < clob[j].size]
  <1>3. clob' = [clob EXCEPT ![j] = o]
    BY <1>0, <1>1 DEF Match
  <1>4. o.matched = clob[j].matched + 1
    BY <1>0 DEF Order
  <1> HIDE DEF o
  <1>5. Len(clob') >= Len(clob)
    BY <1>0, <1>3
  <1>6. \A i \in Orders : clob'[i].matched >= clob[i].matched
    BY <1>0, <1>3, <1>4
  <1>7. UnderWay' = UnderWay /\ UnderWayOnce'
    BY <1>2 DEF FillInv, UnderWay, UnderWayOnce
  <1>8. /\ Ids(fbq) \subseteq Orders /\ Ids(reply) \subseteq Orders
        /\ AllSound(fbq, clob, counted, quoter) /\ AllSound(reply, clob, counted, quoter)
    BY DEF FillInv, NothingUnaccepted, UnderWay, ReportsSound
  <1>9. /\ AllSound(fbq, clob', counted, quoter)
        /\ AllSound(reply, clob', counted, quoter)
    BY <1>5, <1>6, <1>8, FillFacts, AllSoundGrows
  <1> QED
    BY <1>2, <1>5, <1>6, <1>7, <1>9, OutsideKeeps

\* A step that leaves the queues and the accounts alone.
LEMMA IdleFill ==
    ASSUME FillInv, UNCHANGED <<cmdq, fbq, reply, pending_commands, clob, quoter, counted>>
    PROVE  FillInv'
  <1>1. UnderWayOnce' /\ UnderWay' = UnderWay
    BY DEF FillInv, UnderWay, UnderWayOnce
  <1>2. NothingUnaccepted' /\ NoDoubleCount'
    BY <1>1 DEF FillInv, NothingUnaccepted, NoDoubleCount, Orders, OrderId
  <1>3. ReportsSound'
    BY DEF FillInv, ReportsSound, AllSound
  <1>4. QuoterSound(quoter, UnderWay, counted)'
    BY <1>1 DEF FillInv, QuoterSound, HeldSound, ClearedSound
  <1> QED
    BY <1>1, <1>2, <1>3, <1>4 DEF FillInv

-----------------------------------------------------------------------------
(* The engine.                                                             *)

\* The reports of a queue survive what the engine learns of other orders.
LEMMA ReportsKept ==
    ASSUME NEW seq, NEW orders, NEW cnt, NEW q, AllSound(seq, orders, cnt, q),
           NEW cnt2, NEW q2,
           \A i \in Ids(seq) : cnt[i] = 0 /\ Untouched(q, i)
                                  => cnt2[i] = 0 /\ Untouched(q2, i)
    PROVE  AllSound(seq, orders, cnt2, q2)
  <1> SUFFICES ASSUME NEW k \in 1..Len(seq), seq[k].id # 0
               PROVE  Sound(seq[k], orders, cnt2, q2)
    BY DEF AllSound, Sound
  <1>1. Sound(seq[k], orders, cnt, q)
    BY DEF AllSound
  <1>2. seq[k].id \in Ids(seq)
    BY DEF Ids
  <1> QED
    BY <1>1, <1>2 DEF Sound

\* What is left to show of a step of the engine.
LEMMA EngineKeeps ==
    ASSUME IInv, IInv', FillInv, UNCHANGED <<clob, reply>>,
           UnderWayOnce', UnderWay' \subseteq Orders,
           AllSound(fbq', clob, counted, quoter),
           \A i \in UnderWay' : counted[i] = 0 /\ Untouched(quoter, i)
                                   => counted'[i] = 0 /\ Untouched(quoter', i),
           \A s \in MarketSide : quoter'.last_cleared[s].id # 0 =>
                                     quoter'.last_cleared[s].id \in Orders,
           \A i \in OrderId : counted'[i] # counted[i] =>
                                  i \in Orders /\ counted'[i] <= clob[i].matched,
           QuoterSound(quoter', UnderWay', counted')
    PROVE  FillInv'
  <1>1. Orders' = Orders
    BY DEF Orders
  <1>2. NothingUnaccepted'
    <2>1. \A i \in OrderId : i \notin Orders => counted'[i] = 0
      BY DEF FillInv, NothingUnaccepted
    <2> QED
      BY <1>1, <2>1 DEF NothingUnaccepted, OrderId
  <1>3. ReportsSound'
    <2>1. Ids(fbq') \subseteq UnderWay' /\ Ids(reply) \subseteq UnderWay'
      BY DEF UnderWay
    <2>2. AllSound(reply, clob, counted, quoter)
      BY DEF FillInv, ReportsSound
    <2>3. AllSound(fbq', clob, counted', quoter')
      BY <2>1, ReportsKept
    <2>4. AllSound(reply, clob, counted', quoter')
      BY <2>1, <2>2, ReportsKept
    <2> QED
      BY <2>3, <2>4 DEF ReportsSound
  <1>4. NoDoubleCount'
    <2>1. \A i \in Orders : counted'[i] <= clob[i].matched
      BY FillFacts DEF FillInv, NoDoubleCount
    <2> QED
      BY <1>1, <2>1 DEF NoDoubleCount
  <1> QED
    BY <1>2, <1>3, <1>4 DEF FillInv
\* A report is taken from the queue: nothing else is under way for its order.
LEMMA FeedFill ==
    ASSUME IInv, FillInv, NEW kind, Feed(kind), UNCHANGED reply
    PROVE  LET r == Head(fbq) IN
           /\ UnderWayOnce'
           /\ UnderWay' \subseteq UnderWay /\ UnderWay' \subseteq Orders
           /\ r.id # 0 => r.id \in UnderWay /\ r.id \in Orders /\ r.id \notin UnderWay'
           /\ Sound(r, clob, counted, quoter)
           /\ AllSound(fbq', clob, counted, quoter)
           /\ r.kind = kind /\ r.side \in MarketSide /\ r.size \in Nat
           /\ r.kind \in {"posted", "cancelled"} => r.id # 0
  <1> DEFINE r == Head(fbq)
  <1>1. /\ fbq # <<>> /\ fbq' = Tail(fbq) /\ r.kind = kind
        /\ UNCHANGED <<cmdq, pending_commands>>
    BY DEF Feed
  <1>2. /\ fbq \in Seq(KnownFeedback) /\ r \in KnownFeedback /\ r \in Feedback
        /\ fbq[1] = r /\ 1 \in 1..Len(fbq)
        /\ \A k \in 1..Len(Tail(fbq)) : k + 1 \in 1..Len(fbq) /\ Tail(fbq)[k] = fbq[k + 1]
    BY <1>1, FillFacts DEF KnownFeedback
  <1>3. Ids(fbq) = Ids(fbq') \union ({r.id} \ {0}) /\ Once(fbq') /\ r.id \notin Ids(fbq')
    <2>1. Once(fbq)
      BY DEF FillInv, UnderWayOnce
    <2> QED
      BY <1>1, <1>2, <2>1, IdsTail
  <1>4. UnderWayOnce'
    BY <1>1, <1>3 DEF FillInv, UnderWayOnce
  <1>5. UnderWay' \subseteq UnderWay /\ UnderWay \subseteq Orders
    BY <1>1, <1>3 DEF FillInv, NothingUnaccepted, UnderWay
  <1>6. r.id # 0 => r.id \in UnderWay /\ r.id \in Orders /\ r.id \notin UnderWay'
    <2> SUFFICES ASSUME r.id # 0
                 PROVE  r.id \in UnderWay /\ r.id \notin UnderWay'
      BY <1>5
    <2>1. r.id \in Ids(fbq)
      BY <1>3
    <2>2. r.id \notin Ids(cmdq) /\ r.id \notin Ids(pending_commands) /\ r.id \notin Ids(reply)
      BY <2>1 DEF FillInv, UnderWayOnce
    <2> QED
      BY <1>1, <1>3, <2>1, <2>2 DEF UnderWay
  <1>7. AllSound(fbq, clob, counted, quoter)
    BY DEF FillInv, ReportsSound
  <1>8. Sound(r, clob, counted, quoter)
    BY <1>2, <1>7 DEF AllSound
  <1>9. AllSound(Tail(fbq), clob, counted, quoter)
    BY <1>2, <1>7 DEF AllSound
  <1>10. r.side \in MarketSide /\ r.size \in Nat
    BY <1>2 DEF Feedback
  <1>11. r.kind \in {"posted", "cancelled"} => r.id # 0
    BY <1>2, FillFacts DEF KnownFeedback
  <1> HIDE DEF r
  <1> QED
    BY <1>1, <1>4, <1>5, <1>6, <1>8, <1>9, <1>10, <1>11 DEF r

\* What the engine counts of an order the report names for the first time.
LEMMA FirstCount ==
    ASSUME IInv, IInv', FillInv, UNCHANGED <<clob, reply>>, NEW kind, Feed(kind),
           kind # "cancelled", kind # "posted",
           LET r == Head(fbq) IN RecordFill(r.side, r.id, r.size) \/ UNCHANGED counted,
           quoter'.order = quoter.order, quoter'.last_cleared = quoter.last_cleared,
           quoter'.pending_cancel = quoter.pending_cancel
    PROVE  FillInv'
  <1> DEFINE r == Head(fbq)
  <1>1. /\ UnderWayOnce'
        /\ UnderWay' \subseteq UnderWay /\ UnderWay' \subseteq Orders
        /\ r.id # 0 => r.id \in UnderWay /\ r.id \in Orders /\ r.id \notin UnderWay'
        /\ Sound(r, clob, counted, quoter)
        /\ AllSound(fbq', clob, counted, quoter)
        /\ r.kind = kind /\ r.size \in Nat
    BY FeedFill
  <1>2. RecordFill(r.side, r.id, r.size) \/ UNCHANGED counted
    OBVIOUS
  <1> HIDE DEF r
  <1>3. r.id # 0 => /\ counted[r.id] = 0 /\ Untouched(quoter, r.id)
                    /\ r.size <= clob[r.id].matched
    BY <1>1 DEF Sound
  <1>4. \A i \in OrderId : \/ counted'[i] = counted[i]
                           \/ i = r.id /\ counted'[i] = counted[i] + r.size
    BY <1>2, FillFacts DEF RecordFill
  <1>5. \A i \in Orders : Untouched(quoter, i) => Untouched(quoter', i)
    BY DEF Untouched
  <1>6. \A i \in UnderWay' : i \in OrderId /\ counted'[i] = counted[i]
    BY <1>1, <1>4, FillFacts
  <1>7. \A i \in OrderId : counted'[i] # counted[i] =>
                               i \in Orders /\ counted'[i] <= clob[i].matched
    <2> SUFFICES ASSUME NEW i \in OrderId, counted'[i] # counted[i]
                 PROVE  i \in Orders /\ counted'[i] <= clob[i].matched
      OBVIOUS
    <2>1. i = r.id /\ counted'[i] = counted[i] + r.size /\ r.id # 0
      BY <1>4, FillFacts
    <2> QED
      BY <1>1, <1>3, <2>1
  <1>8. QuoterSound(quoter', UnderWay', counted')
    <2>1. \A s \in MarketSide : quoter.order[s].id # 0 =>
             counted'[quoter.order[s].id] = counted[quoter.order[s].id]
      BY <1>3, <1>4, FillFacts DEF Untouched
    <2>2. HeldSound(quoter', UnderWay', counted')
      BY <1>1, <2>1 DEF FillInv, QuoterSound, HeldSound
    <2>3. ClearedSound(quoter', UnderWay', counted')
      BY <1>1, <1>6 DEF FillInv, QuoterSound, ClearedSound
    <2> QED
      BY <2>2, <2>3 DEF QuoterSound
  <1>9. \A s \in MarketSide : quoter'.last_cleared[s].id # 0 =>
                                  quoter'.last_cleared[s].id \in Orders
    BY DEF FillInv, NothingUnaccepted
  <1> QED
    BY <1>1, <1>5, <1>6, <1>7, <1>8, <1>9, EngineKeeps
\* A placed order takes its side; nothing of it has been counted.
LEMMA PostedFill ==
    ASSUME IInv, IInv', FillInv, UNCHANGED <<clob, reply>>, OnPosted
    PROVE  FillInv'
  <1> DEFINE r == Head(fbq)
  <1>1. /\ UnderWayOnce'
        /\ UnderWay' \subseteq UnderWay /\ UnderWay' \subseteq Orders
        /\ r.id # 0 /\ r.id \in Orders /\ r.id \notin UnderWay'
        /\ Sound(r, clob, counted, quoter)
        /\ AllSound(fbq', clob, counted, quoter)
        /\ r.kind = "posted" /\ r.side \in MarketSide
    BY FeedFill DEF OnPosted
  <1>2. /\ quoter' = OnOrderPosted(quoter, r.side, r.id, r.size)
        /\ UNCHANGED counted
    BY DEF OnPosted, RecordNothing
  <1> HIDE DEF r
  <1>3. counted[r.id] = 0 /\ Untouched(quoter, r.id)
    BY <1>1 DEF Sound
  <1>4. /\ quoter'.last_cleared = quoter.last_cleared
        /\ \A t \in MarketSide :
              IF t = r.side
              THEN quoter'.order[t].id = r.id /\ quoter'.order[t].size_filled = 0
              ELSE quoter'.order[t] = quoter.order[t]
        /\ quoter'.pending_cancel = quoter.pending_cancel
    BY <1>1, <1>2, FillFacts DEF OnOrderPosted, QuoterState
  <1>5. \A i \in UnderWay' : Untouched(quoter, i) => Untouched(quoter', i)
    BY <1>1, <1>4 DEF Untouched
  <1>6. HeldSound(quoter', UnderWay', counted)
    <2> SUFFICES ASSUME NEW s \in MarketSide, quoter'.order[s].id # 0
                 PROVE  /\ counted[quoter'.order[s].id] = quoter'.order[s].size_filled
                        /\ ~quoter'.pending_cancel[s] => quoter'.order[s].id \notin UnderWay'
                        /\ \A t \in MarketSide :
                              /\ quoter'.last_cleared[t].id # quoter'.order[s].id
                              /\ t # s => quoter'.order[t].id # quoter'.order[s].id
      BY DEF HeldSound
    <2>1. CASE s = r.side
      BY <1>1, <1>3, <1>4, <2>1 DEF Untouched
    <2>2. CASE s # r.side
      <3>1. quoter'.order[s] = quoter.order[s]
        BY <1>4, <2>2
      <3> QED
        BY <1>1, <1>3, <1>4, <3>1 DEF FillInv, QuoterSound, HeldSound, Untouched
    <2> QED
      BY <2>1, <2>2
  <1>7. ClearedSound(quoter', UnderWay', counted)
    BY <1>1, <1>4 DEF FillInv, QuoterSound, ClearedSound
  <1>8. \A s \in MarketSide : quoter'.last_cleared[s].id # 0 =>
                                  quoter'.last_cleared[s].id \in Orders
    BY <1>4 DEF FillInv, NothingUnaccepted
  <1> QED
    BY <1>1, <1>2, <1>5, <1>6, <1>7, <1>8, EngineKeeps DEF QuoterSound

\* A cancel result counts what it reveals beyond what was counted, whether the
\* side still has the order or remembers it.
LEMMA CancelledFill ==
    ASSUME IInv, IInv', FillInv, UNCHANGED <<clob, reply>>, OnCancelled
    PROVE  FillInv'
  <1> DEFINE r == Head(fbq)
             d == CancelDelta(r)
  <1>1. /\ UnderWayOnce'
        /\ UnderWay' \subseteq UnderWay /\ UnderWay' \subseteq Orders
        /\ r.id # 0 /\ r.id \in UnderWay /\ r.id \in Orders /\ r.id \notin UnderWay'
        /\ Sound(r, clob, counted, quoter)
        /\ AllSound(fbq', clob, counted, quoter)
        /\ r.kind = "cancelled" /\ r.side \in MarketSide /\ r.size \in Nat
    BY FeedFill DEF OnCancelled
  <1>2. RecordFill(r.side, r.id, d) /\ quoter' = OnCancelResult(quoter, r.side)
    BY DEF OnCancelled
  <1>3. \/ d = 0
        \/ /\ r.size <= clob[r.id].matched
           /\ d = r.size - counted[r.id] /\ counted[r.id] \in Nat
           /\ \/ quoter.order[r.side].id = r.id
              \/ quoter.last_cleared[r.side].id = r.id
    <2>1. r.ok => r.size <= clob[r.id].matched
      BY <1>1 DEF Sound
    <2>2. counted[r.id] \in Nat
      BY <1>1, FillFacts
    <2>3. KnownForCancel(quoter, r.side, r.id) =>
             RecordedForCancel(quoter, r.side, r.id) = counted[r.id]
      BY <1>1 DEF FillInv, QuoterSound, HeldSound, ClearedSound, KnownForCancel,
                  RecordedForCancel
    <2> QED
      BY <1>1, <2>1, <2>2, <2>3 DEF CancelDelta, Greatest, KnownForCancel
  <1> HIDE DEF r, d
  <1>4. \A i \in OrderId : counted'[i] = IF i = r.id THEN counted[i] + d ELSE counted[i]
    BY <1>1, <1>2, FillFacts DEF RecordFill
  <1>5. /\ \A t \in MarketSide :
              IF t = r.side
              THEN /\ quoter'.order[t].id = 0
                   /\ quoter'.last_cleared[t] = Snapshot(quoter, t)
              ELSE /\ quoter'.order[t] = quoter.order[t]
                   /\ quoter'.last_cleared[t] = quoter.last_cleared[t]
                   /\ quoter'.pending_cancel[t] = quoter.pending_cancel[t]
    BY <1>1, <1>2, FillFacts DEF OnCancelResult, QuoterState, NoOrder
  <1>6. \A t \in MarketSide : \/ quoter'.last_cleared[t] = quoter.last_cleared[t]
                              \/ /\ quoter.order[t].id # 0
                                 /\ quoter'.last_cleared[t].id = quoter.order[t].id
                                 /\ quoter'.last_cleared[t].size_filled
                                       = quoter.order[t].size_filled
                                 /\ t = r.side
    <2>1. \A t \in MarketSide :
             IF quoter.order[t].id # 0
             THEN /\ Snapshot(quoter, t).id = quoter.order[t].id
                  /\ Snapshot(quoter, t).size_filled = quoter.order[t].size_filled
             ELSE Snapshot(quoter, t) = quoter.last_cleared[t]
      BY DEF Snapshot, Resting
    <2> QED
      BY <1>5, <2>1
  <1>7. \A i \in UnderWay' : Untouched(quoter, i) => Untouched(quoter', i)
    <2> SUFFICES ASSUME NEW i \in UnderWay', Untouched(quoter, i), NEW t \in MarketSide
                 PROVE  quoter'.order[t].id # i /\ quoter'.last_cleared[t].id # i
      BY DEF Untouched
    <2>1. i # 0
      BY <1>1, FillFacts
    <2> QED
      BY <1>5, <1>6, <2>1 DEF Untouched
  <1>8. \A i \in UnderWay' : counted'[i] = counted[i]
    BY <1>1, <1>4, FillFacts
  <1>9. \A i \in OrderId : counted'[i] # counted[i] =>
                               i \in Orders /\ counted'[i] <= clob[i].matched
    <2> SUFFICES ASSUME NEW i \in OrderId, counted'[i] # counted[i]
                 PROVE  i \in Orders /\ counted'[i] <= clob[i].matched
      OBVIOUS
    <2>1. i = r.id /\ counted'[i] = counted[i] + d /\ counted[i] \in Nat
      BY <1>4, FillFacts
    <2>2. d # 0
      BY <2>1
    <2>3. counted'[i] = r.size
      BY <1>1, <1>3, <2>1, <2>2
    <2> QED
      BY <1>1, <1>3, <2>1, <2>2, <2>3
  <1>10. HeldSound(quoter', UnderWay', counted')
    <2> SUFFICES ASSUME NEW s \in MarketSide, quoter'.order[s].id # 0
                 PROVE  /\ counted'[quoter'.order[s].id] = quoter'.order[s].size_filled
                        /\ ~quoter'.pending_cancel[s] => quoter'.order[s].id \notin UnderWay'
                        /\ \A t \in MarketSide :
                              /\ quoter'.last_cleared[t].id # quoter'.order[s].id
                              /\ t # s => quoter'.order[t].id # quoter'.order[s].id
      BY DEF HeldSound
    <2>1. /\ s # r.side /\ quoter'.order[s] = quoter.order[s]
          /\ quoter'.pending_cancel[s] = quoter.pending_cancel[s]
          /\ quoter.order[s].id # 0
      BY <1>5
    <2>2. /\ counted[quoter.order[s].id] = quoter.order[s].size_filled
          /\ ~quoter.pending_cancel[s] => quoter.order[s].id \notin UnderWay
          /\ \A t \in MarketSide :
                /\ quoter.last_cleared[t].id # quoter.order[s].id
                /\ t # s => quoter.order[t].id # quoter.order[s].id
      BY <2>1 DEF FillInv, QuoterSound, HeldSound
    <2>3. counted'[quoter.order[s].id] = counted[quoter.order[s].id]
      <3>1. quoter.order[s].id \in OrderId /\ counted[quoter.order[s].id] \in Nat
        BY <2>1, FillFacts
      <3>2. quoter.order[s].id = r.id => d = 0
        BY <1>1, <1>3, <2>1, <2>2
      <3> QED
        BY <1>4, <3>1, <3>2
    <2>4. \A t \in MarketSide : /\ quoter'.last_cleared[t].id # quoter.order[s].id
                                /\ t # s => quoter'.order[t].id # quoter.order[s].id
      BY <1>5, <1>6, <2>1, <2>2
    <2> QED
      BY <1>1, <2>1, <2>2, <2>3, <2>4
  <1>11. ClearedSound(quoter', UnderWay', counted')
    <2> SUFFICES ASSUME NEW s \in MarketSide, quoter'.last_cleared[s].id \in UnderWay',
                        quoter'.last_cleared[s].id # 0
                 PROVE  counted'[quoter'.last_cleared[s].id]
                           = quoter'.last_cleared[s].size_filled
      BY DEF ClearedSound
    <2>1. counted'[quoter'.last_cleared[s].id] = counted[quoter'.last_cleared[s].id]
      BY <1>8
    <2> QED
      BY <1>1, <1>6, <2>1 DEF FillInv, QuoterSound, HeldSound, ClearedSound
  <1>12. \A s \in MarketSide : quoter'.last_cleared[s].id # 0 =>
                                  quoter'.last_cleared[s].id \in Orders
    BY <1>6, FillFacts DEF FillInv, NothingUnaccepted
  <1> QED
    BY <1>1, <1>7, <1>8, <1>9, <1>10, <1>11, <1>12, EngineKeeps DEF QuoterSound

LEMMA FeedbackFill ==
    ASSUME IInv, IInv', FillInv, UNCHANGED <<clob, reply>>, FeedbackNext
    PROVE  FillInv'
  <1> DEFINE r == Head(fbq)
  <1>1. CASE OnAlreadyFilled
    <2>1. /\ Feed("filled")
          /\ RecordFill(r.side, r.id, r.size)
          /\ quoter' = OnOrderFailed(quoter, r.side)
      BY <1>1 DEF OnAlreadyFilled
    <2>2. /\ quoter'.order = quoter.order /\ quoter'.last_cleared = quoter.last_cleared
          /\ quoter'.pending_cancel = quoter.pending_cancel
      BY <2>1, FillFacts DEF OnOrderFailed, QuoterState
    <2> QED
      BY <2>1, <2>2, FirstCount
  <1>2. CASE OnFailed
    <2>1. /\ Feed("failed")
          /\ UNCHANGED counted
          /\ quoter' = OnOrderFailed(quoter, r.side)
      BY <1>2 DEF OnFailed, RecordNothing
    <2>2. /\ quoter'.order = quoter.order /\ quoter'.last_cleared = quoter.last_cleared
          /\ quoter'.pending_cancel = quoter.pending_cancel
      BY <2>1, FillFacts DEF OnOrderFailed, QuoterState
    <2> QED
      BY <2>1, <2>2, FirstCount
  <1>3. CASE OnRebalanced
    BY <1>3, FirstCount DEF OnRebalanced, RecordNothing
  <1> QED
    BY <1>1, <1>2, <1>3, PostedFill, CancelledFill DEF FeedbackNext
-----------------------------------------------------------------------------
(* What the engine sends.                                                  *)

\* The commands a are sent by a quoter that was q and is p then: each cancel is
\* of an order that q holds and was not cancelling.
Batch(q, p, a) ==
    /\ p.order = q.order /\ p.last_cleared = q.last_cleared
    /\ \A s \in MarketSide : q.pending_cancel[s] => p.pending_cancel[s]
    /\ \A i \in Ids(a) : \E s \in MarketSide :
          q.order[s].id = i /\ ~q.pending_cancel[s] /\ p.pending_cancel[s]
    /\ Once(a)

\* What is sent was not under way, and is under way now.
LEMMA BatchKeeps ==
    ASSUME NEW q, NEW p, NEW a, Batch(q, p, a), NEW W, NEW cnt, QuoterSound(q, W, cnt)
    PROVE  /\ Ids(a) \intersect W = {}
           /\ QuoterSound(p, W \union Ids(a), cnt)
  <1>1. \A i \in Ids(a) : i # 0
    BY DEF Ids
  <1>2. \A i \in Ids(a) : i \notin W
    BY <1>1 DEF Batch, QuoterSound, HeldSound
  <1>3. HeldSound(p, W \union Ids(a), cnt)
    <2> SUFFICES ASSUME NEW s \in MarketSide, p.order[s].id # 0
                 PROVE  /\ cnt[p.order[s].id] = p.order[s].size_filled
                        /\ ~p.pending_cancel[s] => p.order[s].id \notin W \union Ids(a)
                        /\ \A t \in MarketSide :
                              /\ p.last_cleared[t].id # p.order[s].id
                              /\ t # s => p.order[t].id # p.order[s].id
      BY DEF HeldSound
    <2>1. /\ cnt[q.order[s].id] = q.order[s].size_filled
          /\ ~q.pending_cancel[s] => q.order[s].id \notin W
          /\ \A t \in MarketSide : /\ q.last_cleared[t].id # q.order[s].id
                                   /\ t # s => q.order[t].id # q.order[s].id
      BY DEF Batch, QuoterSound, HeldSound
    <2>2. ASSUME ~p.pending_cancel[s]
          PROVE  q.order[s].id \notin W \union Ids(a)
      <3>1. q.order[s].id \notin W
        BY <2>1, <2>2 DEF Batch
      <3>2. q.order[s].id \notin Ids(a)
        BY <2>1, <2>2 DEF Batch
      <3> QED
        BY <3>1, <3>2
    <2> QED
      BY <2>1, <2>2 DEF Batch
  <1>4. ClearedSound(p, W \union Ids(a), cnt)
    <2> SUFFICES ASSUME NEW s \in MarketSide, q.last_cleared[s].id # 0,
                        q.last_cleared[s].id \in W \union Ids(a)
                 PROVE  cnt[q.last_cleared[s].id] = q.last_cleared[s].size_filled
      BY DEF Batch, ClearedSound
    <2>1. q.last_cleared[s].id \notin Ids(a)
      BY <1>1 DEF Batch, QuoterSound, HeldSound
    <2> QED
      BY <2>1 DEF QuoterSound, ClearedSound
  <1> QED
    BY <1>2, <1>3, <1>4 DEF QuoterSound

LEMMA OnSidesIds ==
    ASSUME NEW T, NEW S, NEW f, \A s \in S \cap MarketSide : f[s] \in T
    PROVE  /\ OnSides(S, f) \in Seq(T)
           /\ Ids(OnSides(S, f)) = {f[s].id : s \in S \cap MarketSide} \ {0}
           /\ (\A s, t \in S \cap MarketSide : s # t /\ f[s].id # 0 => f[s].id # f[t].id)
                 => Once(OnSides(S, f))
  <1> DEFINE a == IF "yes" \in S THEN <<f["yes"]>> ELSE <<>>
             b == IF "no" \in S THEN <<f["no"]>> ELSE <<>>
  <1>1. a \in Seq(T) /\ b \in Seq(T) /\ OnSides(S, f) = a \o b
    BY DEF OnSides, MarketSide
  <1>2. /\ Once(a)
        /\ Ids(a) = IF "yes" \in S THEN {f["yes"].id} \ {0} ELSE {}
    BY IdsOfOne, IdsOfNone
  <1>3. /\ Once(b)
        /\ Ids(b) = IF "no" \in S THEN {f["no"].id} \ {0} ELSE {}
    BY IdsOfOne, IdsOfNone
  <1> HIDE DEF a, b
  <1>4. /\ Ids(a \o b) = Ids(a) \union Ids(b)
        /\ Ids(a) \intersect Ids(b) = {} => Once(a \o b)
    BY <1>1, <1>2, <1>3, IdsConcat
  <1>5. {f[s].id : s \in S \cap MarketSide} \ {0} = Ids(a) \union Ids(b)
    BY <1>2, <1>3 DEF MarketSide
  <1>6. ASSUME \A s, t \in S \cap MarketSide : s # t /\ f[s].id # 0 => f[s].id # f[t].id
        PROVE  Ids(a) \intersect Ids(b) = {}
    <2>1. "yes" \in S /\ "no" \in S /\ f["yes"].id # 0 => f["yes"].id # f["no"].id
      BY <1>6 DEF MarketSide
    <2> QED
      BY <1>2, <1>3, <2>1
  <1> QED
    BY <1>1, <1>4, <1>5, <1>6

\* Cancels are sent only where none is pending.
LEMMA CancelBatch ==
    ASSUME IInv, NEW q \in KnownQuoter, NEW S, NEW W, NEW cnt, QuoterSound(q, W, cnt)
    PROVE  /\ Batch(q, OnCancelSent(q, Cancellable(q, S)), CancelActions(q, S, market))
           /\ CancelActions(q, S, market) \in Seq(KnownCommand)
  <1> DEFINE f == [s \in MarketSide |-> CancelOrder(s, q.order[s].id, market)]
             C == Cancellable(q, S)
             p == OnCancelSent(q, C)
  <1>1. CancelActions(q, S, market) \in Seq(KnownCommand)
    BY EngineFacts, CancelActionsType DEF KnownQuoter, EngineTypeOK
  <1>2. \A s \in C \cap MarketSide : f[s].id = q.order[s].id /\ f[s].id # 0
    BY DEF Cancellable, Resting, CancelOrder
  <1>3. \A s, t \in MarketSide : s # t /\ q.order[s].id # 0 => q.order[s].id # q.order[t].id
    BY DEF QuoterSound, HeldSound
  <1>4. /\ p.order = q.order /\ p.last_cleared = q.last_cleared
        /\ \A s \in MarketSide : p.pending_cancel[s] = (s \in C \/ q.pending_cancel[s])
    BY DEF OnCancelSent, KnownQuoter, QuoterState
  <1>5. \A s \in C : ~q.pending_cancel[s]
    BY DEF Cancellable
  <1>6. CancelActions(q, S, market) = OnSides(C, f)
    BY DEF CancelActions
  <1> HIDE DEF f, C, p
  <1>7. /\ Ids(OnSides(C, f)) = {f[s].id : s \in C \cap MarketSide} \ {0}
        /\ Once(OnSides(C, f))
    <2> DEFINE T == {f[s] : s \in C \cap MarketSide}
    <2>1. \A s \in C \cap MarketSide : f[s] \in T
      OBVIOUS
    <2>2. \A s, t \in C \cap MarketSide : s # t /\ f[s].id # 0 => f[s].id # f[t].id
      BY <1>2, <1>3
    <2> HIDE DEF T
    <2> QED
      BY <2>1, <2>2, OnSidesIds
  <1> QED
    BY <1>1, <1>2, <1>4, <1>5, <1>6, <1>7 DEF Batch, p, C

\* A requote cancels only where nothing is pending; a post is of no order yet.
LEMMA MakerBatch ==
    ASSUME IInv, NEW act \in SUBSET MarketSide, \A s \in act : MayAct(s),
           NEW W, NEW cnt, QuoterSound(quoter, W, cnt)
    PROVE  Batch(quoter, OnCancelSent(MarkPostPending(quoter, Posts(act)), Requotes(act)),
                 MakerActions(act))
  <1> DEFINE f == [s \in MarketSide |->
                     IF Resting(quoter, s)
                     THEN CancelOrder(s, quoter.order[s].id, market)
                     ELSE PostOrder(s, OrderSize(position[s]), market)]
             m == MarkPostPending(quoter, Posts(act))
             p == OnCancelSent(m, Requotes(act))
  <1>0. quoter \in QuoterState
    BY EngineFacts
  <1>1. \A s \in MarketSide : f[s].id = quoter.order[s].id
    BY DEF CancelOrder, PostOrder, Resting
  <1>2. \A s, t \in MarketSide : s # t /\ quoter.order[s].id # 0 =>
                                    quoter.order[s].id # quoter.order[t].id
    BY DEF QuoterSound, HeldSound
  <1>3. /\ m.order = quoter.order /\ m.last_cleared = quoter.last_cleared
        /\ m.pending_cancel = quoter.pending_cancel
        /\ p.order = m.order /\ p.last_cleared = m.last_cleared
        /\ \A s \in MarketSide :
              p.pending_cancel[s] = (s \in Requotes(act) \/ m.pending_cancel[s])
    BY <1>0 DEF MarkPostPending, OnCancelSent, QuoterState
  <1>4. \A s \in act : ~quoter.pending_cancel[s]
    BY DEF MayAct, IsPending
  <1>5. MakerActions(act) = OnSides(act, f)
    BY DEF MakerActions
  <1> HIDE DEF f, m, p
  <1>6. /\ Ids(OnSides(act, f)) = {f[s].id : s \in act \cap MarketSide} \ {0}
        /\ Once(OnSides(act, f))
    <2> DEFINE T == {f[s] : s \in act \cap MarketSide}
    <2>1. \A s \in act \cap MarketSide : f[s] \in T
      OBVIOUS
    <2>2. \A s, t \in act \cap MarketSide : s # t /\ f[s].id # 0 => f[s].id # f[t].id
      BY <1>1, <1>2
    <2> HIDE DEF T
    <2> QED
      BY <2>1, <2>2, OnSidesIds, ZenonT(90)
  <1>7. \A i \in Ids(OnSides(act, f)) : \E s \in MarketSide :
           quoter.order[s].id = i /\ ~quoter.pending_cancel[s] /\ p.pending_cancel[s]
    BY <1>1, <1>3, <1>4, <1>6 DEF Requotes, Resting
  <1> QED
    BY <1>3, <1>5, <1>6, <1>7 DEF Batch, p, m
\* Commands that were not under way are sent: a to the executor, after what was
\* held back if that is sent too, and b is held back.
SendsNow(a, b) == \/ cmdq' = cmdq \o a /\ pending_commands' = pending_commands \o b
                  \/ /\ b = <<>>
                     /\ cmdq' = (cmdq \o pending_commands) \o a
                     /\ pending_commands' = <<>>

LEMMA SendUnderWay ==
    ASSUME IInv, FillInv, NEW a \in Seq(KnownCommand), NEW b \in Seq(KnownCommand),
           SendsNow(a, b), UNCHANGED <<fbq, reply>>, Once(a), Once(b),
           Ids(a) \intersect Ids(b) = {},
           Ids(a) \intersect UnderWay = {}, Ids(b) \intersect UnderWay = {}
    PROVE  UnderWayOnce' /\ UnderWay' = UnderWay \union Ids(a) \union Ids(b)
  <1>0. /\ cmdq \in Seq(KnownCommand) /\ pending_commands \in Seq(KnownCommand)
        /\ cmdq \o pending_commands \in Seq(KnownCommand)
        /\ Once(cmdq) /\ Once(pending_commands)
        /\ Ids(cmdq) \intersect Ids(pending_commands) = {}
    BY FillFacts DEF FillInv, UnderWayOnce
  <1>1. /\ Ids(a) \intersect Ids(cmdq) = {} /\ Ids(a) \intersect Ids(pending_commands) = {}
        /\ Ids(b) \intersect Ids(cmdq) = {} /\ Ids(b) \intersect Ids(pending_commands) = {}
        /\ Ids(a) \intersect Ids(fbq) = {} /\ Ids(b) \intersect Ids(fbq) = {}
        /\ Ids(a) \intersect Ids(reply) = {} /\ Ids(b) \intersect Ids(reply) = {}
    BY DEF UnderWay
  <1>2. CASE cmdq' = cmdq \o a /\ pending_commands' = pending_commands \o b
    <2>1. Ids(cmdq') = Ids(cmdq) \union Ids(a) /\ Once(cmdq')
      BY <1>0, <1>1, <1>2, IdsConcat
    <2>2. Ids(pending_commands') = Ids(pending_commands) \union Ids(b)
          /\ Once(pending_commands')
      BY <1>0, <1>1, <1>2, IdsConcat
    <2> QED
      BY <1>1, <2>1, <2>2 DEF FillInv, UnderWayOnce, UnderWay
  <1>3. CASE /\ b = <<>>
             /\ cmdq' = (cmdq \o pending_commands) \o a
             /\ pending_commands' = <<>>
    <2>1. /\ Ids(cmdq \o pending_commands) = Ids(cmdq) \union Ids(pending_commands)
          /\ Once(cmdq \o pending_commands)
      BY <1>0, IdsConcat
    <2>2. Ids(cmdq') = (Ids(cmdq) \union Ids(pending_commands)) \union Ids(a) /\ Once(cmdq')
      <3> DEFINE p == cmdq \o pending_commands
      <3>1. /\ p \in Seq(KnownCommand) /\ Ids(p) = Ids(cmdq) \union Ids(pending_commands)
            /\ Once(p) /\ cmdq' = p \o a
        BY <1>0, <1>3, <2>1
      <3> HIDE DEF p
      <3>2. Ids(p) \intersect Ids(a) = {}
        BY <1>1, <3>1
      <3>3. Ids(p \o a) = Ids(p) \union Ids(a) /\ Once(p \o a)
        BY <3>1, <3>2, IdsConcat
      <3> QED
        BY <3>1, <3>3
    <2>3. Ids(pending_commands') = {} /\ Ids(b) = {} /\ Once(pending_commands')
      BY <1>3, IdsOfNone
    <2> QED
      BY <1>1, <2>2, <2>3 DEF FillInv, UnderWayOnce, UnderWay
  <1> QED
    BY <1>2, <1>3 DEF SendsNow

\* What is left to show of a step that counts nothing and sends commands.
LEMMA SendKeeps ==
    ASSUME IInv, IInv', FillInv, NEW a \in Seq(KnownCommand), NEW b \in Seq(KnownCommand),
           SendsNow(a, b), UNCHANGED <<fbq, reply, clob, counted>>, Once(a), Once(b),
           Ids(a) \intersect Ids(b) = {},
           Ids(a) \intersect UnderWay = {}, Ids(b) \intersect UnderWay = {},
           Ids(a) \subseteq Orders, Ids(b) \subseteq Orders,
           quoter'.order = quoter.order, quoter'.last_cleared = quoter.last_cleared,
           QuoterSound(quoter', UnderWay \union Ids(a) \union Ids(b), counted)
    PROVE  FillInv'
  <1>1. UnderWayOnce' /\ UnderWay' = UnderWay \union Ids(a) \union Ids(b)
    BY SendUnderWay
  <1>2. UnderWay' \subseteq Orders /\ AllSound(fbq, clob, counted, quoter)
    BY <1>1 DEF FillInv, NothingUnaccepted, ReportsSound
  <1>3. QuoterSound(quoter', UnderWay', counted')
    BY <1>1
  <1>4. \A i \in UnderWay' : Untouched(quoter, i) => Untouched(quoter', i)
    BY DEF Untouched
  <1>5. \A s \in MarketSide : quoter'.last_cleared[s].id # 0 =>
                                  quoter'.last_cleared[s].id \in Orders
    BY DEF FillInv, NothingUnaccepted
  <1> QED
    BY <1>1, <1>2, <1>3, <1>4, <1>5, EngineKeeps

\* One batch, sent at once or with what was held back.
LEMMA SendOneBatch ==
    ASSUME IInv, IInv', FillInv, NEW a \in Seq(KnownCommand), SendsNow(a, <<>>),
           Batch(quoter, quoter', a), UNCHANGED <<fbq, reply, clob, counted>>
    PROVE  FillInv'
  <1> DEFINE b == <<>>
  <1>1. b \in Seq(KnownCommand) /\ Ids(b) = {} /\ Once(b) /\ SendsNow(a, b)
    BY IdsOfNone
  <1> HIDE DEF b
  <1>2. QuoterSound(quoter, UnderWay, counted)
    BY DEF FillInv
  <1>3. /\ Ids(a) \intersect UnderWay = {}
        /\ QuoterSound(quoter', UnderWay \union Ids(a), counted)
    BY <1>2, BatchKeeps
  <1>4. UnderWay \union Ids(a) \union Ids(b) = UnderWay \union Ids(a)
    BY <1>1
  <1>5. Ids(a) \subseteq Orders
    <2>1. \A i \in Ids(a) : i # 0
      BY DEF Ids
    <2> QED
      BY <2>1, FillFacts DEF Batch
  <1>6. Once(a) /\ quoter'.order = quoter.order /\ quoter'.last_cleared = quoter.last_cleared
    BY DEF Batch
  <1> QED
    BY <1>1, <1>3, <1>4, <1>5, <1>6, SendKeeps

\* The quoter that sends nothing.
LEMMA NoBatch ==
    ASSUME NEW q, NEW p, p.order = q.order, p.last_cleared = q.last_cleared,
           p.pending_cancel = q.pending_cancel
    PROVE  Batch(q, p, <<>>)
  BY IdsOfNone DEF Batch

\* An event that counts nothing and sends what was held back, with a batch.
LEMMA DispatchBatch ==
    ASSUME IInv, IInv', FillInv, NEW a \in Seq(KnownCommand), Dispatch(a),
           Batch(quoter, quoter', a), UNCHANGED <<reply, clob, counted>>
    PROVE  FillInv'
  <1>1. SendsNow(a, <<>>) /\ UNCHANGED fbq
    BY DEF Dispatch, SendsNow
  <1> QED
    BY <1>1, SendOneBatch

\* The end of quote_tick: its own commands and the taker's.
LEMMA FinishFill ==
    ASSUME IInv, NEW q \in KnownQuoter, NEW W, QuoterSound(q, W, counted),
           NEW cmds \in Seq(KnownCommand), FinishQuoting(q, cmds)
    PROVE  /\ \E b \in Seq(KnownCommand) :
                 /\ Once(b) /\ Ids(b) \intersect W = {} /\ Ids(b) \subseteq Orders
                 /\ cmdq' = cmdq \o (cmds \o b)
                 /\ quoter'.order = q.order /\ quoter'.last_cleared = q.last_cleared
                 /\ QuoterSound(quoter', W \union Ids(b), counted)
           /\ UNCHANGED <<fbq, counted>>
  <1>1. CASE NoRebalance(q, cmds)
    <2> DEFINE b == <<>>
    <2>1. /\ cmdq' = cmdq \o cmds /\ quoter' = q
          /\ UNCHANGED <<fbq, counted>>
      BY <1>1 DEF NoRebalance, EndIteration
    <2>2. /\ b \in Seq(KnownCommand) /\ Once(b) /\ Ids(b) = {}
          /\ cmds \o b = cmds
      BY IdsOfNone
    <2> HIDE DEF b
    <2>3. QuoterSound(quoter', W \union Ids(b), counted)
      <3>1. W \union Ids(b) = W
        BY <2>2
      <3> QED
        BY <2>1, <3>1
    <2> QED
      BY <2>1, <2>2, <2>3
  <1>2. ASSUME NEW s \in MarketSide, Rebalance(q, s, cmds)
        PROVE  /\ \E b \in Seq(KnownCommand) :
                     /\ Once(b) /\ Ids(b) \intersect W = {} /\ Ids(b) \subseteq Orders
                     /\ cmdq' = cmdq \o (cmds \o b)
                     /\ quoter'.order = q.order /\ quoter'.last_cleared = q.last_cleared
                     /\ QuoterSound(quoter', W \union Ids(b), counted)
               /\ UNCHANGED <<fbq, counted>>
    <2> DEFINE n == Greatest(Least(RebalanceSize, Imbalance), ClobMin)
               taker == RebalanceTaker(s, n, market)
               cancels == CancelActions(q, {s}, market)
               b == cancels \o <<taker>>
    <2>1. market \in Market /\ position \in [MarketSide -> Nat]
      BY EngineFacts DEF EngineTypeOK
    <2>2. n \in Nat
      <3>1. Unpaired("yes") \in Nat /\ Unpaired("no") \in Nat
        BY <2>1 DEF Unpaired, Greatest, Other, MarketSide
      <3>2. Imbalance \in Nat
        BY <3>1 DEF Imbalance, Greatest
      <3> QED
        BY <3>2, EngineAssumption DEF Least, Greatest
    <2>3. taker \in KnownCommand /\ taker.id = 0
      <3>1. RebalanceTaker(s, n, market) \in Command
        BY <2>1, <2>2, BoundsAssumption, CommandTypes
      <3> QED
        BY <3>1 DEF KnownCommand, RebalanceTaker
    <2>4. /\ quoter' = OnCancelSent(q, Cancellable(q, {s}))
          /\ cmdq' = cmdq \o (cmds \o cancels \o <<taker>>)
          /\ UNCHANGED <<fbq, counted>>
      BY <1>2 DEF Rebalance, EndIteration
    <2>5. Batch(q, quoter', cancels) /\ cancels \in Seq(KnownCommand)
      BY <2>4, CancelBatch
    <2> HIDE DEF taker, cancels
    <2>6. /\ b \in Seq(KnownCommand)
          /\ cmds \o cancels \o <<taker>> = cmds \o b
      BY <2>3, <2>5
    <2>7. Ids(b) = Ids(cancels) /\ Once(b)
      <3> DEFINE one == <<taker>>
      <3>1. Ids(one) = {} /\ Once(one) /\ one \in Seq(KnownCommand)
        BY <2>3, IdsOfOne
      <3> HIDE DEF one
      <3>2. Once(cancels)
        BY <2>5 DEF Batch
      <3>3. /\ Ids(cancels \o one) = Ids(cancels) \union Ids(one)
            /\ Ids(cancels) \intersect Ids(one) = {} => Once(cancels \o one)
        BY <2>5, <3>1, <3>2, IdsConcat, ZenonT(60)
      <3> QED
        BY <3>1, <3>3 DEF one
    <2>8. /\ Ids(cancels) \intersect W = {}
          /\ QuoterSound(quoter', W \union Ids(cancels), counted)
      BY <2>5, BatchKeeps
    <2>9. Ids(cancels) \subseteq Orders
      <3>1. \A i \in Ids(cancels) : i # 0
        BY DEF Ids
      <3> QED
        BY <2>5, <3>1 DEF Batch, KnownQuoter, Resting
    <2>10. quoter'.order = q.order /\ quoter'.last_cleared = q.last_cleared
      BY <2>5 DEF Batch
    <2> HIDE DEF b
    <2>11. QuoterSound(quoter', W \union Ids(b), counted) /\ Ids(b) \intersect W = {}
      BY <2>7, <2>8
    <2> QED
      BY <2>4, <2>6, <2>7, <2>9, <2>10, <2>11
  <1> QED
    BY <1>1, <1>2 DEF FinishQuoting
LEMMA QuoteFill ==
    ASSUME IInv, IInv', FillInv, UNCHANGED <<clob, reply>>, QuoteNext
    PROVE  FillInv'
  <1>0. /\ QuoterSound(quoter, UnderWay, counted)
        /\ quoter \in KnownQuoter /\ quoter \in QuoterState
        /\ cmdq \in Seq(KnownCommand) /\ pending_commands \in Seq(KnownCommand)
        /\ <<>> \in Seq(KnownCommand) /\ Ids(<<>>) = {} /\ Once(<<>>)
        /\ "yes" \in MarketSide
    BY EngineFacts, IdsOfNone DEF FillInv, MarketSide
  <1>b. ASSUME NEW q \in KnownQuoter, NEW a \in Seq(KnownCommand), Batch(quoter, q, a)
        PROVE  /\ Ids(a) \intersect UnderWay = {} /\ Ids(a) \subseteq Orders /\ Once(a)
               /\ QuoterSound(q, UnderWay \union Ids(a), counted)
               /\ q.order = quoter.order /\ q.last_cleared = quoter.last_cleared
    <2>1. \A i \in Ids(a) : i # 0
      BY DEF Ids
    <2>2. Ids(a) \subseteq Orders
      BY <1>b, <2>1, FillFacts DEF Batch
    <2>3. /\ Ids(a) \intersect UnderWay = {}
          /\ QuoterSound(q, UnderWay \union Ids(a), counted)
      BY <1>0, <1>b, BatchKeeps
    <2> QED
      BY <1>b, <2>2, <2>3 DEF Batch
  \* A quote action that sends a batch at once, and then the taker's commands.
  <1>s. ASSUME NEW q \in KnownQuoter, NEW a \in Seq(KnownCommand), Batch(quoter, q, a),
               FinishQuoting(q, a), UNCHANGED pending_commands
        PROVE  FillInv'
    <2>1. /\ Ids(a) \intersect UnderWay = {} /\ Ids(a) \subseteq Orders /\ Once(a)
          /\ QuoterSound(q, UnderWay \union Ids(a), counted)
          /\ q.order = quoter.order /\ q.last_cleared = quoter.last_cleared
      BY <1>s, <1>b
    <2> DEFINE W == UnderWay \union Ids(a)
    <2>2. QuoterSound(q, W, counted)
      BY <2>1
    <2> HIDE DEF W
    <2>3. PICK b \in Seq(KnownCommand) :
             /\ Once(b) /\ Ids(b) \intersect W = {} /\ Ids(b) \subseteq Orders
             /\ cmdq' = cmdq \o (a \o b)
             /\ quoter'.order = q.order /\ quoter'.last_cleared = q.last_cleared
             /\ QuoterSound(quoter', W \union Ids(b), counted)
      BY <1>s, <2>2, FinishFill
    <2>4. UNCHANGED <<fbq, counted>>
      BY <1>s, <2>2, FinishFill
    <2> DEFINE c == a \o b
    <2>5. /\ c \in Seq(KnownCommand) /\ cmdq' = cmdq \o c
          /\ Ids(c) = Ids(a) \union Ids(b) /\ Once(c)
      <3>1. Ids(a) \intersect Ids(b) = {}
        BY <2>3 DEF W
      <3> QED
        BY <2>1, <2>3, <3>1, IdsConcat
    <2> HIDE DEF c
    <2> DEFINE e == <<>>
    <2>6. /\ e \in Seq(KnownCommand) /\ Ids(e) = {} /\ Once(e)
          /\ SendsNow(c, e)
      <3>1. pending_commands \o e = pending_commands
        BY <1>0
      <3> QED
        BY <1>0, <1>s, <2>5, <3>1 DEF SendsNow
    <2> HIDE DEF e
    <2>7. /\ Ids(c) \intersect UnderWay = {} /\ Ids(c) \subseteq Orders
          /\ Ids(c) \intersect Ids(e) = {} /\ Ids(e) \intersect UnderWay = {}
          /\ Ids(e) \subseteq Orders
      BY <2>1, <2>3, <2>5, <2>6 DEF W
    <2>8. QuoterSound(quoter', UnderWay \union Ids(c) \union Ids(e), counted)
      <3>1. UnderWay \union Ids(c) \union Ids(e) = W \union Ids(b)
        BY <2>5, <2>6 DEF W
      <3> QED
        BY <2>3, <3>1
    <2>9. quoter'.order = quoter.order /\ quoter'.last_cleared = quoter.last_cleared
      BY <2>1, <2>3
    <2> QED
      BY <2>4, <2>5, <2>6, <2>7, <2>8, <2>9, SendKeeps
  <1>1. CASE QuoteNothing
    <2>1. Batch(quoter, quoter, <<>>)
      BY NoBatch
    <2>2. FinishQuoting(quoter, <<>>) /\ UNCHANGED pending_commands
      BY <1>1 DEF QuoteNothing, FinishQuoting
    <2> QED
      BY <1>0, <1>s, <2>1, <2>2
  <1>2. CASE QuoteDark
    <2> DEFINE q == OnCancelSent(quoter, Cancellable(quoter, MarketSide))
               b == CancelActions(quoter, MarketSide, market)
    <2>1. FinishQuoting(q, <<>>) /\ pending_commands' = pending_commands \o b
      BY <1>2 DEF QuoteDark
    <2>2. q \in KnownQuoter
      BY <1>0, EngineFacts, QuoterKeepsKnown
    <2>3. Batch(quoter, q, b) /\ b \in Seq(KnownCommand)
      BY <1>0, CancelBatch
    <2> HIDE DEF q, b
    <2>4. /\ Ids(b) \intersect UnderWay = {} /\ Ids(b) \subseteq Orders /\ Once(b)
          /\ QuoterSound(q, UnderWay \union Ids(b), counted)
          /\ q.order = quoter.order /\ q.last_cleared = quoter.last_cleared
      BY <1>b, <2>2, <2>3
    <2> DEFINE W == UnderWay \union Ids(b)
    <2>5. QuoterSound(q, W, counted)
      BY <2>4
    <2> HIDE DEF W
    <2>6. PICK a \in Seq(KnownCommand) :
             /\ Once(a) /\ Ids(a) \intersect W = {} /\ Ids(a) \subseteq Orders
             /\ cmdq' = cmdq \o (<<>> \o a)
             /\ quoter'.order = q.order /\ quoter'.last_cleared = q.last_cleared
             /\ QuoterSound(quoter', W \union Ids(a), counted)
      BY <1>0, <2>1, <2>2, <2>5, FinishFill
    <2>7. UNCHANGED <<fbq, counted>>
      BY <1>0, <2>1, <2>2, <2>5, FinishFill
    <2>8. SendsNow(a, b)
      <3>1. <<>> \o a = a
        OBVIOUS
      <3> QED
        BY <2>1, <2>6, <3>1 DEF SendsNow
    <2>9. /\ Ids(a) \intersect UnderWay = {} /\ Ids(a) \intersect Ids(b) = {}
          /\ UnderWay \union Ids(a) \union Ids(b) = W \union Ids(a)
      BY <2>6 DEF W
    <2>10. QuoterSound(quoter', UnderWay \union Ids(a) \union Ids(b), counted)
      BY <2>6, <2>9
    <2>11. quoter'.order = quoter.order /\ quoter'.last_cleared = quoter.last_cleared
      BY <2>4, <2>6
    <2> QED
      BY <2>3, <2>4, <2>6, <2>7, <2>8, <2>9, <2>10, <2>11, SendKeeps
  <1>3. ASSUME NEW postable \in Postable, QuoteZone(postable)
        PROVE  FillInv'
    <2> DEFINE a == CancelActions(quoter, MarketSide \ postable, market)
    <2>1. /\ quoter' = OnCancelSent(quoter, Cancellable(quoter, MarketSide \ postable))
          /\ cmdq' = cmdq \o a
          /\ UNCHANGED <<pending_commands, fbq, counted>>
      BY <1>3 DEF QuoteZone, EndIteration
    <2>2. Batch(quoter, quoter', a) /\ a \in Seq(KnownCommand)
      BY <1>0, <2>1, CancelBatch
    <2> HIDE DEF a
    <2>3. SendsNow(a, <<>>)
      BY <1>0, <2>1 DEF SendsNow
    <2> QED
      BY <2>1, <2>2, <2>3, SendOneBatch
  <1>4. ASSUME NEW postable \in Postable, QuoteMakers(postable)
        PROVE  FillInv'
    <2>1. PICK act \in SUBSET {s \in postable :
                                  MayAct(s) /\ ~(Lagging(s) /\ TakerWillHandle)} :
             FinishQuoting(OnCancelSent(MarkPostPending(quoter, Posts(act)),
                                        Requotes(act)),
                           MakerActions(act))
      BY <1>4 DEF QuoteMakers
    <2>2. act \in SUBSET MarketSide /\ \A s \in act : MayAct(s)
      BY DEF Postable
    <2> DEFINE a == MakerActions(act)
               q == OnCancelSent(MarkPostPending(quoter, Posts(act)), Requotes(act))
    <2>3. a \in Seq(KnownCommand)
      BY <2>2, MakerActionsType
    <2>4. q \in KnownQuoter
      <3>1. MarkPostPending(quoter, Posts(act)) \in KnownQuoter
        BY <1>0, EngineFacts, QuoterKeepsKnown
      <3> QED
        BY <3>1, <1>0, EngineFacts, QuoterKeepsKnown
    <2>5. Batch(quoter, q, a)
      BY <1>0, <2>2, MakerBatch
    <2>6. UNCHANGED pending_commands
      BY <1>4 DEF QuoteMakers
    <2> HIDE DEF a, q
    <2> QED
      BY <1>s, <2>1, <2>3, <2>4, <2>5, <2>6 DEF a, q
  <1> QED
    BY <1>1, <1>2, <1>3, <1>4 DEF QuoteNext

LEMMA ControlFill ==
    ASSUME IInv, IInv', FillInv, UNCHANGED <<clob, reply>>, ControlNext
    PROVE  FillInv'
  <1>0. /\ QuoterSound(quoter, UnderWay, counted)
        /\ quoter \in KnownQuoter /\ pending_commands \in Seq(KnownCommand)
    BY EngineFacts DEF FillInv
  <1>1. CASE OnPause
    <2> DEFINE a == CancelActions(quoter, MarketSide, market)
    <2>1. /\ quoter' = OnCancelSent(quoter, Cancellable(quoter, MarketSide))
          /\ cmdq' = cmdq \o a
          /\ UNCHANGED <<pending_commands, fbq, counted>>
      BY <1>1 DEF OnPause
    <2>2. Batch(quoter, quoter', a) /\ a \in Seq(KnownCommand)
      BY <1>0, <2>1, CancelBatch
    <2> HIDE DEF a
    <2>3. SendsNow(a, <<>>)
      BY <1>0, <2>1 DEF SendsNow
    <2> QED
      BY <2>1, <2>2, <2>3, SendOneBatch
  <1>2. CASE OnDrain \/ OnResume
    BY <1>2, IdleFill DEF OnDrain, OnResume, channelVars
  <1> QED
    BY <1>1, <1>2 DEF ControlNext
\* A report of the user WebSocket counts what the side's order has not counted
\* yet, and drops the order once it is filled.
LEMMA ReportFill ==
    ASSUME IInv, IInv', FillInv, UNCHANGED <<clob, reply>>, FillReport
    PROVE  FillInv'
  <1>0. PICK i \in Orders : \E n \in 1..clob[i].matched : OnTradeStatusUpdate(i, n)
    BY DEF FillReport
  <1>1. PICK n \in 1..clob[i].matched : OnTradeStatusUpdate(i, n)
    BY <1>0
  <1>2. /\ Dispatch(<<>>) /\ UNCHANGED fbq
    BY <1>1 DEF OnTradeStatusUpdate, Dispatch
  <1>3. CASE UNCHANGED <<counted, quoter>>
    <2>1. Batch(quoter, quoter', <<>>) /\ <<>> \in Seq(KnownCommand)
      BY <1>3, NoBatch
    <2> QED
      BY <1>2, <1>3, <2>1, DispatchBatch
  <1>4. ASSUME NEW s \in MarketSide, quoter.order[s].id = i,
               RecordFill(s, i, WsDelta(quoter, s, n)), WsDelta(quoter, s, n) # 0,
               quoter' = OnFill(RecordWsFill(quoter, s, n), s, n >= quoter.order[s].size)
        PROVE  FillInv'
    <2>0. /\ n \in Nat /\ clob[i].matched \in Nat /\ n <= clob[i].matched
          /\ i # 0 /\ i \in OrderId /\ counted[i] \in Nat
          /\ quoter.order[s].size_filled \in Nat
          /\ quoter.order \in [MarketSide -> ManagedOrder]
      <3>1. clob[i].matched \in Nat /\ i # 0 /\ i \in OrderId /\ counted[i] \in Nat
        BY FillFacts
      <3>2. /\ quoter.order[s].size_filled \in Nat
            /\ quoter.order \in [MarketSide -> ManagedOrder]
        BY FillFacts DEF QuoterState, ManagedOrder
      <3> QED
        BY <3>1, <3>2
    <2>1. /\ counted[i] = quoter.order[s].size_filled
          /\ \A t \in MarketSide : /\ quoter.last_cleared[t].id # i
                                   /\ t # s => quoter.order[t].id # i
      BY <1>4, <2>0 DEF FillInv, QuoterSound, HeldSound
    <2>2. counted' = [counted EXCEPT ![i] = n]
      <3>1. counted[i] + WsDelta(quoter, s, n) = n
        BY <1>4, <2>0, <2>1 DEF WsDelta, Greatest
      <3> QED
        BY <1>4, <2>0, <3>1 DEF RecordFill
    <2> DEFINE w == RecordWsFill(quoter, s, n)
               full == n >= quoter.order[s].size
    <2>3. /\ w \in QuoterState
          /\ w.last_cleared = quoter.last_cleared
          /\ w.pending_cancel = quoter.pending_cancel
          /\ w.order[s].id = i /\ w.order[s].size_filled = n
          /\ \A t \in MarketSide : t # s => w.order[t] = quoter.order[t]
      <3>1. w \in QuoterState
        BY <2>0, FillFacts, QuoterMethods
      <3>2. Greatest(quoter.order[s].size_filled, n) = n
        BY <1>4, <2>0 DEF WsDelta, Greatest
      <3>3. w.order = [quoter.order EXCEPT ![s].size_filled = n]
        BY <3>2, FillFacts DEF RecordWsFill, QuoterState
      <3>4. /\ w.last_cleared = quoter.last_cleared
            /\ w.pending_cancel = quoter.pending_cancel
        BY FillFacts DEF RecordWsFill, QuoterState
      <3>5. w.order[s].id = i /\ w.order[s].size_filled = n
        BY <1>4, <2>0, <3>3 DEF ManagedOrder
      <3> QED
        BY <2>0, <3>1, <3>3, <3>4, <3>5
    <2> HIDE DEF w
    <2>4. /\ quoter'.pending_cancel = quoter.pending_cancel
          /\ \A t \in MarketSide : t # s => /\ quoter'.order[t] = quoter.order[t]
                                            /\ quoter'.last_cleared[t] = quoter.last_cleared[t]
          /\ IF full
             THEN /\ quoter'.order[s].id = 0
                  /\ quoter'.last_cleared[s].id = i /\ quoter'.last_cleared[s].size_filled = n
             ELSE /\ quoter'.order[s].id = i /\ quoter'.order[s].size_filled = n
                  /\ quoter'.last_cleared[s] = quoter.last_cleared[s]
      <3>1. /\ Snapshot(w, s).id = i /\ Snapshot(w, s).size_filled = n
        BY <2>0, <2>3 DEF Snapshot, Resting
      <3>2. CASE full
        BY <1>4, <2>3, <3>1, <3>2 DEF OnFill, QuoterState, NoOrder, w
      <3>3. CASE ~full
        BY <1>4, <2>3, <3>3 DEF OnFill, w
      <3> QED
        BY <3>2, <3>3
    <2> HIDE DEF full
    <2> DEFINE e == <<>>
    <2>5. e \in Seq(KnownCommand) /\ Ids(e) = {} /\ Once(e) /\ SendsNow(e, e)
      BY <1>2, IdsOfNone DEF Dispatch, SendsNow
    <2> HIDE DEF e
    <2>6. UnderWayOnce' /\ UnderWay' = UnderWay
      BY <1>2, <2>5, SendUnderWay
    <2>7. UnderWay' \subseteq Orders /\ AllSound(fbq', clob, counted, quoter)
      BY <1>2, <2>6 DEF FillInv, NothingUnaccepted, ReportsSound
    <2>8. \A j \in UnderWay' : counted[j] = 0 /\ Untouched(quoter, j)
                                   => counted'[j] = 0 /\ Untouched(quoter', j)
      <3> SUFFICES ASSUME NEW j \in UnderWay', counted[j] = 0, Untouched(quoter, j)
                   PROVE  counted'[j] = 0 /\ Untouched(quoter', j)
        OBVIOUS
      <3>1. j # i /\ j # 0 /\ j \in OrderId
        BY <1>4, <2>7, FillFacts DEF Untouched
      <3>2. counted'[j] = 0
        BY <2>2, <3>1, FillFacts
      <3> QED
        BY <2>4, <3>1, <3>2 DEF Untouched
    <2>9. \A t \in MarketSide : quoter'.last_cleared[t].id # 0 =>
                                    quoter'.last_cleared[t].id \in Orders
      BY <2>4 DEF FillInv, NothingUnaccepted
    <2>10. \A j \in OrderId : counted'[j] # counted[j] =>
                                  j \in Orders /\ counted'[j] <= clob[j].matched
      BY <2>0, <2>2, FillFacts
    <2>11. HeldSound(quoter', UnderWay', counted')
      <3> SUFFICES ASSUME NEW r \in MarketSide, quoter'.order[r].id # 0
                   PROVE  /\ counted'[quoter'.order[r].id] = quoter'.order[r].size_filled
                          /\ ~quoter'.pending_cancel[r] => quoter'.order[r].id \notin UnderWay'
                          /\ \A t \in MarketSide :
                                /\ quoter'.last_cleared[t].id # quoter'.order[r].id
                                /\ t # r => quoter'.order[t].id # quoter'.order[r].id
        BY DEF HeldSound
      <3>1. quoter'.order[r].id = quoter.order[r].id /\ quoter.order[r].id \in OrderId
        BY <1>4, <2>4, FillFacts
      <3>2. /\ counted[quoter.order[r].id] = quoter.order[r].size_filled
            /\ ~quoter.pending_cancel[r] => quoter.order[r].id \notin UnderWay
            /\ \A t \in MarketSide :
                  /\ quoter.last_cleared[t].id # quoter.order[r].id
                  /\ t # r => quoter.order[t].id # quoter.order[r].id
        BY <3>1 DEF FillInv, QuoterSound, HeldSound
      <3>3. counted'[quoter'.order[r].id] = quoter'.order[r].size_filled
        <4>1. CASE r = s
          BY <1>4, <2>0, <2>2, <2>4, <3>1, <4>1, FillFacts
        <4>2. CASE r # s
          <5>1. quoter'.order[r] = quoter.order[r] /\ quoter.order[r].id # i
            BY <2>1, <2>4, <4>2
          <5> QED
            BY <2>2, <3>1, <3>2, <5>1, FillFacts
        <4> QED
          BY <4>1, <4>2
      <3>4. \A t \in MarketSide : /\ quoter'.last_cleared[t].id # quoter'.order[r].id
                                  /\ t # r => quoter'.order[t].id # quoter'.order[r].id
        BY <1>4, <2>1, <2>4, <3>1, <3>2
      <3> QED
        BY <2>4, <2>6, <3>1, <3>2, <3>3, <3>4
    <2>12. ClearedSound(quoter', UnderWay', counted')
      <3> SUFFICES ASSUME NEW t \in MarketSide, quoter'.last_cleared[t].id # 0,
                          quoter'.last_cleared[t].id \in UnderWay'
                   PROVE  counted'[quoter'.last_cleared[t].id]
                             = quoter'.last_cleared[t].size_filled
        BY DEF ClearedSound
      <3>1. CASE quoter'.last_cleared[t] = quoter.last_cleared[t]
        <4>1. /\ counted[quoter.last_cleared[t].id] = quoter.last_cleared[t].size_filled
              /\ quoter.last_cleared[t].id # i /\ quoter.last_cleared[t].id \in OrderId
          BY <2>1, <2>6, <2>7, <3>1, FillFacts DEF FillInv, QuoterSound, ClearedSound
        <4> QED
          BY <2>2, <3>1, <4>1, FillFacts
      <3>2. CASE quoter'.last_cleared[t].id = i /\ quoter'.last_cleared[t].size_filled = n
        BY <2>0, <2>2, <3>2, FillFacts
      <3> QED
        BY <2>4, <3>1, <3>2
    <2> QED
      BY <2>6, <2>7, <2>8, <2>9, <2>10, <2>11, <2>12, EngineKeeps DEF QuoterSound
  <1>5. ASSUME NEW s \in MarketSide, quoter.order[s].id = i,
               RecordFill(s, i, WsDelta(quoter, s, n)), WsDelta(quoter, s, n) = 0,
               UNCHANGED quoter
        PROVE  FillInv'
    <2>1. counted' = counted
      BY <1>5, FillFacts DEF RecordFill
    <2> QED
      BY <1>3, <1>5, <2>1
  <1> QED
    BY <1>1, <1>3, <1>4, <1>5 DEF OnTradeStatusUpdate, RecordNothing

LEMMA EventFill ==
    ASSUME IInv, IInv', FillInv, UNCHANGED <<clob, reply>>, EventNext
    PROVE  FillInv'
  <1>0. /\ QuoterSound(quoter, UnderWay, counted)
        /\ quoter \in KnownQuoter /\ <<>> \in Seq(KnownCommand)
    BY EngineFacts DEF FillInv
  <1>n. ASSUME Dispatch(<<>>), UNCHANGED <<quoter, counted>>
        PROVE  FillInv'
    <2>1. Batch(quoter, quoter', <<>>)
      BY <1>n, NoBatch
    <2> QED
      BY <1>0, <1>n, <2>1, DispatchBatch
  <1>1. CASE OnMarketRotation
    <2> DEFINE c == MarketRotation(market + 1)
               a == <<c>>
               e == <<>>
    <2>1. /\ market < MaxMarkets /\ quoter' = NewQuoter /\ Dispatch(a)
          /\ UNCHANGED counted
      BY <1>1 DEF OnMarketRotation
    <2>2. c \in KnownCommand /\ c.id = 0
      <3>1. market + 1 \in Market
        BY <2>1, EngineFacts, BoundsAssumption DEF EngineTypeOK, Market
      <3>2. c \in Command
        BY <3>1, BoundsAssumption, CommandTypes DEF MarketSide
      <3> QED
        BY <3>2 DEF KnownCommand, MarketRotation
    <2> HIDE DEF c
    <2>3. /\ a \in Seq(KnownCommand) /\ Ids(a) = {} /\ Once(a)
          /\ e \in Seq(KnownCommand) /\ Ids(e) = {} /\ Once(e)
      BY <2>2, IdsOfOne, IdsOfNone
    <2>4. SendsNow(a, e) /\ UNCHANGED fbq
      BY <2>1 DEF Dispatch, SendsNow
    <2> HIDE DEF a, e
    <2>5. UnderWayOnce' /\ UnderWay' = UnderWay
      BY <2>3, <2>4, SendUnderWay
    <2>6. UnderWay' \subseteq Orders /\ AllSound(fbq', clob, counted, quoter)
      BY <2>4, <2>5 DEF FillInv, NothingUnaccepted, ReportsSound
    <2>7. \A t \in MarketSide : quoter'.order[t].id = 0 /\ quoter'.last_cleared[t].id = 0
      BY <2>1 DEF NewQuoter, NoOrder, NoCleared
    <2>8. \A i \in UnderWay' : Untouched(quoter', i)
      BY <2>6, <2>7, FillFacts DEF Untouched
    <2>9. QuoterSound(quoter', UnderWay', counted')
      BY <2>7 DEF QuoterSound, HeldSound, ClearedSound
    <2> QED
      BY <2>1, <2>5, <2>6, <2>7, <2>8, <2>9, EngineKeeps
  <1>2. ASSUME NEW s \in MarketSide, OnBookUpdate(s)
        PROVE  FillInv'
    BY <1>2, <1>n DEF OnBookUpdate
  <1>3. CASE OnHeartbeatOk
    BY <1>3, <1>n DEF OnHeartbeatOk
  <1>4. CASE OnHeartbeatFailed
    <2>1. CASE HeartbeatDies
      <3> DEFINE a == CancelActions(quoter, MarketSide, market)
      <3>1. /\ quoter' = OnCancelSent(quoter, Cancellable(quoter, MarketSide))
            /\ Dispatch(a) /\ UNCHANGED counted
        BY <1>4, <2>1 DEF OnHeartbeatFailed
      <3>2. Batch(quoter, quoter', a) /\ a \in Seq(KnownCommand)
        BY <1>0, <3>1, CancelBatch
      <3> HIDE DEF a
      <3> QED
        BY <3>1, <3>2, DispatchBatch
    <2>2. CASE ~HeartbeatDies
      BY <1>4, <1>n, <2>2 DEF OnHeartbeatFailed
    <2> QED
      BY <2>1, <2>2
  <1>5. CASE OnMarketData
    BY <1>5, <1>n DEF OnMarketData
  <1> QED
    BY <1>1, <1>2, <1>3, <1>4, <1>5 DEF EventNext

LEMMA FillNext ==
    ASSUME IInv, IInv', FillInv, [Next]_vars
    PROVE  FillInv'
  <1>1. CASE EngineStep
    <2>1. UNCHANGED <<clob, reply>>
      BY <1>1 DEF EngineStep, executorVars
    <2> QED
      BY <1>1, <2>1, FeedbackFill, EventFill, ReportFill, ControlFill, QuoteFill
         DEF EngineStep
  <1>2. CASE ExecutorStep
    BY <1>2, ExecutorFill
  <1>3. CASE ExchangeStep
    BY <1>3, ExchangeFill
  <1>4. CASE ProcessExit
    BY <1>4, IdleFill DEF ProcessExit, channelVars, executorVars
  <1>5. CASE UNCHANGED vars
    BY <1>5, IdleFill DEF vars, channelVars, executorVars, engineVars
  <1> QED
    BY <1>1, <1>2, <1>3, <1>4, <1>5 DEF Next

LEMMA FillInit == Init => FillInv
  <1> SUFFICES ASSUME Init
               PROVE  FillInv
    OBVIOUS
  <1> USE DEF Init, ExchangeInit, ExecutorInit, EngineInit
  <1>1. UnderWayOnce /\ UnderWay = {}
    BY IdsOfNone DEF UnderWayOnce, UnderWay
  <1>2. /\ \A s \in MarketSide : quoter.order[s].id = 0 /\ quoter.last_cleared[s].id = 0
        /\ \A i \in OrderId : counted[i] = 0
    BY DEF NewQuoter, NoOrder, NoCleared
  <1>3. NothingUnaccepted
    BY <1>1, <1>2 DEF NothingUnaccepted
  <1>4. ReportsSound
    BY DEF ReportsSound, AllSound
  <1>5. QuoterSound(quoter, UnderWay, counted)
    BY <1>2 DEF QuoterSound, HeldSound, ClearedSound
  <1>6. NoDoubleCount
    BY DEF NoDoubleCount, Orders
  <1> QED
    BY <1>1, <1>3, <1>4, <1>5, <1>6 DEF FillInv

\* The accounting is sound in every state, whatever fails or is lost.
THEOREM FillInvHolds == Spec => []FillInv
  BY InitInv, NextInv, FillInit, FillNext, PTL DEF Spec
\* No share is ever recorded twice, whichever of the user WebSocket, the cancel
\* result and the placement response reports it, in whatever order and however
\* often (record_ws_fill and lookup_order_for_cancel).
THEOREM NoDoubleCountHolds == Spec => []NoDoubleCount
  <1>1. FillInv => NoDoubleCount
    BY DEF FillInv
  <1> QED
    BY <1>1, FillInvHolds, PTL

\* The quoter's count of a resting order is what the position holds of it, also
\* for an order that took the place of one not yet settled.
THEOREM FilledMirrorsCountedHolds == Spec => []FilledMirrorsCounted
  <1>1. IInv /\ FillInv => FilledMirrorsCounted
    <2> SUFFICES ASSUME IInv, FillInv, NEW s \in MarketSide, NEW i \in Held(s)
                 PROVE  counted[i] = quoter.order[s].size_filled
      BY DEF FilledMirrorsCounted
    <2>1. quoter.order[s].id = i /\ i # 0
      BY FillFacts DEF Held
    <2> QED
      BY <2>1 DEF FillInv, QuoterSound, HeldSound
  <1> QED
    BY <1>1, IdsAlwaysKnown, FillInvHolds, PTL

-----------------------------------------------------------------------------
(* The ledger.                                                             *)

\* A step that counts: shares of one order.
Counts == \E i : \E n \in Nat :
             counted' = IF i \in OrderId THEN [counted EXCEPT ![i] = @ + n] ELSE counted

LEMMA RecordFillCounts ==
    ASSUME NEW s, NEW i, NEW n \in Nat, RecordFill(s, i, n)
    PROVE  Counts
  BY DEF RecordFill, Counts

LEMMA EngineCounts ==
    ASSUME IInv, EngineStep
    PROVE  Counts \/ UNCHANGED counted
  <1> DEFINE fb == Head(fbq)
  <1>1. CASE OnPosted \/ OnFailed
    BY <1>1 DEF OnPosted, OnFailed, RecordNothing
  <1>2. CASE OnAlreadyFilled
    <2>1. Feed("filled") /\ RecordFill(fb.side, fb.id, fb.size)
      BY <1>2 DEF OnAlreadyFilled
    <2>2. fb.size \in Nat
      BY <2>1, FeedType DEF Feedback
    <2> QED
      BY <2>1, <2>2, RecordFillCounts
  <1>3. CASE OnCancelled
    <2>1. Feed("cancelled") /\ RecordFill(fb.side, fb.id, CancelDelta(fb))
      BY <1>3 DEF OnCancelled
    <2>2. fb.size \in Nat /\ fb.side \in MarketSide
      BY <2>1, FeedType DEF Feedback
    <2>3. RecordedForCancel(quoter, fb.side, fb.id) \in Nat
      BY <2>2, EngineFacts DEF RecordedForCancel, QuoterState, ManagedOrder, ClearedOrder
    <2>4. CancelDelta(fb) \in Nat
      BY <2>2, <2>3 DEF CancelDelta, Greatest
    <2> QED
      BY <2>1, <2>4, RecordFillCounts
  <1>4. CASE OnRebalanced
    <2>1. /\ Feed("rebalanced")
          /\ RecordFill(fb.side, fb.id, fb.size) \/ UNCHANGED counted
      BY <1>4 DEF OnRebalanced, RecordNothing
    <2>2. fb.size \in Nat
      BY <2>1, FeedType DEF Feedback
    <2> QED
      BY <2>1, <2>2, RecordFillCounts
  <1>5. CASE FillReport
    <2>1. PICK i \in Orders : \E n \in 1..clob[i].matched : OnTradeStatusUpdate(i, n)
      BY <1>5 DEF FillReport
    <2>2. PICK n \in 1..clob[i].matched : OnTradeStatusUpdate(i, n)
      BY <2>1
    <2>3. n \in Nat
      BY FillFacts
    <2>4. \A s \in MarketSide : WsDelta(quoter, s, n) \in Nat
      BY <2>3, EngineFacts, WsDeltaType
    <2> QED
      BY <2>2, <2>4, RecordFillCounts DEF OnTradeStatusUpdate, RecordNothing
  <1>6. CASE EventNext
    BY <1>6 DEF EventNext, OnMarketRotation, OnBookUpdate, OnHeartbeatOk,
                OnHeartbeatFailed, OnMarketData
  <1>7. CASE ControlNext
    BY <1>7 DEF ControlNext, OnDrain, OnPause, OnResume
  <1>8. CASE QuoteNext
    <2>1. \E cmds : EndIteration(cmds)
      BY <1>8 DEF QuoteNext, QuoteNothing, QuoteDark, QuoteZone, QuoteMakers,
                  FinishQuoting, Rebalance, NoRebalance
    <2> QED
      BY <2>1 DEF EndIteration
  <1> QED
    BY <1>1, <1>2, <1>3, <1>4, <1>5, <1>6, <1>7, <1>8 DEF EngineStep, FeedbackNext

Matched == [i \in Orders |-> clob[i].matched]

LEMMA LedgerInit == Init => Ledger!Init
  BY DEF Init, ExchangeInit, EngineInit, Ledger!Init, Orders, OrderId

LEMMA LedgerStep ==
    ASSUME IInv, IInv', FillInv, FillInv', [Next]_vars
    PROVE  [Ledger!Next]_<<Matched, counted>>
  <1>0. /\ Len(clob) \in Nat /\ Len(clob') \in Nat /\ Len(clob') <= MaxOrders
        /\ Len(Matched) = Len(clob) /\ Len(Matched') = Len(clob')
        /\ \A i \in Orders' : clob'[i].matched \in Nat
    <2>1. Len(clob) \in Nat /\ Len(clob') \in Nat /\ Len(clob') <= MaxOrders
      BY FillFacts, FillFactsNext DEF IInv, TypeOK, ClobTypeOK
    <2>2. Len(Matched) = Len(clob) /\ Len(Matched') = Len(clob')
      BY <2>1 DEF Matched, Orders
    <2> QED
      BY <2>1, <2>2, FillFactsNext
  <1>1. ASSUME UNCHANGED <<clob, counted>>
        PROVE  UNCHANGED <<Matched, counted>>
    BY <1>1 DEF Matched, Orders
  \* Only the exchange and the executor change what is matched.
  <1>2. CASE Accepts /\ ExecutorStep
    <2>1. Len(clob') = Len(clob) + 1 /\ \A i \in Orders : clob'[i] = clob[i]
      <3>1. PICK s, n, k, maker : Accept(s, n, k, Head(cmdq).market, maker)
        BY <1>2 DEF Accepts
      <3> QED
        BY <3>1, AcceptMatches
    <2>2. /\ Len(Matched) < MaxOrders
          /\ Len(Matched') = Len(Matched) + 1
      <3>1. Len(clob) < MaxOrders
        BY <1>0, <2>1, BoundsAssumption
      <3> QED
        BY <1>0, <2>1, <3>1
    <2>3. Matched'[Len(Matched')] \in Nat
      BY <1>0, <2>1 DEF Matched, Orders
    <2>4. \A i \in 1..Len(Matched) : Matched'[i] = Matched[i]
      BY <1>0, <2>1 DEF Matched, Orders
    <2>5. UNCHANGED counted
      BY <1>2 DEF ExecutorStep, engineVars
    <2> QED
      BY <2>2, <2>3, <2>4, <2>5 DEF Ledger!Next, Ledger!Accept, Matched
  <1>3. CASE ~Accepts /\ ExecutorStep
    <2>1. \/ \E j : Cancel(j)
          \/ CancelAll
          \/ UNCHANGED clob
      BY <1>3, ExecutorShape DEF Rotate
    <2>2. Len(clob') = Len(clob) /\ \A i \in Orders : clob'[i].matched = clob[i].matched
      BY <2>1, CancelMatches
    <2>3. UNCHANGED counted
      BY <1>3 DEF ExecutorStep, engineVars
    <2>4. Matched' = Matched
      BY <2>2 DEF Matched, Orders
    <2> QED
      BY <2>3, <2>4
  <1>4. CASE ExchangeStep
    <2>1. PICK j \in Orders : Match(j)
      BY <1>4 DEF ExchangeStep
    <2>2. UNCHANGED counted
      BY <1>4 DEF ExchangeStep, engineVars
    <2>3. /\ clob \in Seq(Order) /\ j \in DOMAIN clob
          /\ \A i \in Orders : clob[i] \in Order
      BY FillFacts DEF Orders
    <2> DEFINE o == [clob[j] EXCEPT !.matched = clob[j].matched + 1,
                                    !.live = clob[j].matched + 1 < clob[j].size]
    <2>4. clob' = [clob EXCEPT ![j] = o]
      BY <2>1, <2>3 DEF Match
    <2>5. o.matched = clob[j].matched + 1
      BY <2>3 DEF Order
    <2> HIDE DEF o
    <2>6. Len(clob') = Len(clob) /\ Orders' = Orders
      BY <2>3, <2>4 DEF Orders
    <2>7. \A i \in Orders : clob'[i].matched =
             IF i = j THEN clob[j].matched + 1 ELSE clob[i].matched
      BY <2>3, <2>4, <2>5 DEF Orders
    <2>8. Matched' = [Matched EXCEPT ![j] = @ + 1]
      BY <2>6, <2>7 DEF Matched
    <2>9. j \in 1..Len(Matched)
      BY <1>0 DEF Orders
    <2> QED
      BY <2>2, <2>8, <2>9 DEF Ledger!Next, Ledger!MatchShare, Matched
  \* Only the engine counts.
  <1>5. CASE EngineStep
    <2>1. Counts \/ UNCHANGED counted
      BY <1>5, EngineCounts
    <2>2. UNCHANGED clob /\ Orders' = Orders /\ Matched' = Matched
      BY <1>5 DEF EngineStep, Matched, Orders
    <2>3. CASE Counts /\ counted' # counted
      <3>1. PICK i \in OrderId, n \in Nat : counted' = [counted EXCEPT ![i] = @ + n]
        BY <2>3 DEF Counts
      <3> DEFINE m == counted[i] + n
      <3>2. counted[i] \in Nat /\ m \in Nat /\ counted' = [counted EXCEPT ![i] = m]
            /\ counted'[i] = m
        BY <3>1, FillFacts
      <3>3. m # counted[i]
        <4>1. m = counted[i] => counted' = counted
          BY <3>2, FillFacts
        <4> QED
          BY <2>3, <4>1
      <3>4. m >= counted[i] + 1 /\ m # 0
        BY <3>1, <3>2, <3>3
      <3> HIDE DEF m
      <3>5. i \in Orders /\ m <= clob[i].matched
        BY <2>2, <3>2, <3>4 DEF FillInv, NothingUnaccepted, NoDoubleCount
      <3>6. m \in (counted[i] + 1)..Matched[i] /\ i \in 1..Len(Matched)
        BY <1>0, <3>2, <3>4, <3>5, FillFacts DEF Matched, Orders
      <3> QED
        BY <2>2, <3>2, <3>6 DEF Ledger!Next, Ledger!Count, Matched
    <2> QED
      BY <2>1, <2>2, <2>3
  <1>6. CASE ProcessExit \/ UNCHANGED vars
    BY <1>1, <1>6 DEF ProcessExit, vars, engineVars
  <1> QED
    BY <1>2, <1>3, <1>4, <1>5, <1>6 DEF Next

\* The bot's accounting is the ledger's: it counts fills of accepted orders
\* only, each order's total only grows, and never beyond what is matched.
THEOREM ImplementsLedgerHolds == Spec => ImplementsLedger
  <1>1. Init => Ledger!Init
    BY LedgerInit
  <1>2. IInv /\ IInv' /\ FillInv /\ FillInv' /\ [Next]_vars
           => [Ledger!Next]_<<Matched, counted>>
    BY LedgerStep
  <1> QED
    BY <1>1, <1>2, IdsAlwaysKnown, FillInvHolds, PTL
       DEF Spec, ImplementsLedger, Ledger!Spec, Matched
=============================================================================
