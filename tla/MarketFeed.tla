----------------------------- MODULE MarketFeed -----------------------------
(***************************************************************************)
(* The rotation manager and the market WebSocket (market_ws.rs) that       *)
(* follows it over a watch channel: the channel holds the tokens of the    *)
(* market announced last, and remembers whether they were looked at.       *)
(***************************************************************************)
EXTENDS RotationManager

VARIABLES
    session,   \* waiting (no tokens yet), open (connecting or streaming), backoff
    tokens     \* the market whose tokens the session was opened with

wsVars == <<session, tokens>>
vars == <<managerVars, wsVars>>

TypeOK == /\ ManagerTypeOK
          /\ session \in {"waiting", "open", "backoff"}
          /\ tokens \in MarketName

Init == /\ ManagerInit
        /\ session = "waiting"
        /\ tokens = NoMarket

\* The head of the loop: borrow_and_update, then a session for what it found.
OpenSession == /\ tokens' = last
               /\ seen' = TRUE
               /\ session' = IF last = NoMarket THEN "waiting" ELSE "open"

\* changed() returns, before the first market or during a session.
TokensChanged == /\ session \in {"waiting", "open"}
                 /\ ~seen
                 /\ OpenSession

\* The session ends by an error or a Close: changes are not looked at until
\* the back-off has passed.
SessionEnds == /\ session = "open"
               /\ session' = "backoff"
               /\ UNCHANGED <<tokens, seen>>

\* Mutant: the session that failed is opened again.
BackoffEndsSameTokens == /\ session = "backoff"
                         /\ session' = "open"
                         /\ seen' = TRUE
                         /\ UNCHANGED tokens

BackoffEnds == /\ session = "backoff"
               /\ OpenSession

WsNext == TokensChanged \/ SessionEnds \/ BackoffEnds

ManagerStep == /\ ManagerNext
               /\ UNCHANGED wsVars

TimePasses == /\ Tick
              /\ tokens' = Ages(tokens)
              /\ UNCHANGED session

WsStep == /\ WsNext
          /\ UNCHANGED <<clockVars, rpc, timer, current, next,
                         prewarm_attempted, found, fresh, last>>

Next == ManagerStep \/ TimePasses \/ WsStep

Spec == Init /\ [][Next]_vars

-----------------------------------------------------------------------------
(* Properties.                                                             *)

\* An announcement, as far as the watch channel can tell: the manager never
\* reads "seen", so what holds of these steps holds of every announcement.
Announcement == seen /\ ~seen'

\* Announcements only move forward: every announced market ends later than the
\* one announced before it, whether it was prewarmed or polled, and although a
\* timer that fires early makes the poll find the running market again.  (An
\* announcement makes the engine drop its position and its orders.)
AnnouncedInOrder == [][Announcement => last' > last]_vars

\* The expiry timer is set for the end of the current market, and for no other
\* moment: a timer left behind would end a market early, late or never.
ExpiryFollowsCurrent ==
    IF current = NoMarket
    THEN timer = NoTimer
    ELSE /\ timer \in Nat
         /\ timer <= Remaining(current)
         /\ Remaining(current) <= timer + Drift

\* A session open for other tokens than the announced ones is about to learn of
\* the change: an announcement during a session, a reconnection or a back-off is
\* never missed.
SessionFollows == session = "open" /\ tokens # last => ~seen

\* "Emit rotation immediately for new markets that have time remaining": a market
\* is still running, or to come, when it is announced.
AnnouncedWithTimeLeft == [][Announcement => last' >= 1]_vars
=============================================================================
