----------------------------- MODULE FillLedger -----------------------------
(***************************************************************************)
(* What the bot's fill accounting promises, apart from how reports travel: *)
(* a ledger of orders, the shares the exchange has matched for each, and   *)
(* the shares the bot has counted, which only grow and never run ahead of  *)
(* the exchange.                                                           *)
(***************************************************************************)
EXTENDS Integers, Sequences

CONSTANT MaxOrders
VARIABLES matched,   \* per accepted order, in order of acceptance
          counted    \* per order id, accepted or not

Init == /\ matched = <<>>
        /\ counted = [i \in 1..MaxOrders |-> 0]

\* A maker order starts with nothing matched; a taker order, or a maker order
\* that crosses, is matched as it is accepted.
Accept == /\ Len(matched) < MaxOrders
          /\ Len(matched') = Len(matched) + 1
          /\ matched'[Len(matched')] \in Nat
          /\ \A i \in 1..Len(matched) : matched'[i] = matched[i]
          /\ UNCHANGED counted

MatchShare(i) == /\ matched' = [matched EXCEPT ![i] = @ + 1]
                 /\ UNCHANGED counted

\* The bot learns of fills of one order: some of those not yet counted.
Count(i) == /\ \E n \in (counted[i] + 1)..matched[i] :
                  counted' = [counted EXCEPT ![i] = n]
            /\ UNCHANGED matched

Next == \/ Accept
        \/ \E i \in 1..Len(matched) : MatchShare(i) \/ Count(i)

Spec == Init /\ [][Next]_<<matched, counted>>
=============================================================================
