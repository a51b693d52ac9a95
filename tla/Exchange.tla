------------------------------ MODULE Exchange ------------------------------
(***************************************************************************)
(* The Polymarket CLOB as the bot relies on it (an external service): it   *)
(* gives every accepted order an id, matches live orders share by share,   *)
(* and cancels them.  An order's shares matched are final.                 *)
(***************************************************************************)
EXTENDS BotTypes

VARIABLE clob   \* every order ever accepted, in order of its id

Order == [side : MarketSide, size : Nat, matched : Nat, live : BOOLEAN,
          market : Market, maker : BOOLEAN]

ClobTypeOK == /\ clob \in Seq(Order)
              /\ Len(clob) <= MaxOrders

ExchangeInit == clob = <<>>

Orders == 1..Len(clob)
NextId == Len(clob) + 1
RoomForOrder == Len(clob) < MaxOrders

Accept(s, n, matched, m, maker) ==
    clob' = Append(clob, [side |-> s, size |-> n, matched |-> matched,
                          live |-> matched < n, market |-> m, maker |-> maker])

\* A counterparty takes one share of a live order.
Match(i) ==
    /\ clob[i].live
    /\ clob' = [clob EXCEPT ![i].matched = @ + 1,
                            ![i].live = clob[i].matched + 1 < clob[i].size]

Cancel(i) == clob' = [clob EXCEPT ![i].live = FALSE]

CancelAll == clob' = [i \in Orders |-> [clob[i] EXCEPT !.live = FALSE]]
=============================================================================
