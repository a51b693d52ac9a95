-------------------------- MODULE RotationManager ---------------------------
(***************************************************************************)
(* The rotation manager (gateway/polymarket/rotation.rs): one task with    *)
(* two timers, the expiry of the current market and a periodic             *)
(* housekeeping tick that prewarms the next market and looks for one when  *)
(* there is none.  Each network call is an await during which time passes  *)
(* and neither timer is served.                                            *)
(*                                                                         *)
(* Markets follow each other on a fixed schedule.  A market is named by    *)
(* its distance from the one running now, which is 1: the market after it  *)
(* is 2, one that has ended is 0 or less.  One unit of time is one         *)
(* housekeeping period.  Order books and tick sizes are left out.          *)
(***************************************************************************)
EXTENDS Integers

CONSTANTS
    Duration,   \* length of a market
    Lead,       \* prewarm_lead_ms
    Ahead,      \* how many markets, the running one included, Gamma may list
    MaxWait,    \* bound: how much time one arm of the select may take
    Drift       \* how much too early the expiry timer may fire by the wall clock

ASSUME ScheduleAssumption ==
    /\ Duration \in Nat \ {0}
    /\ Lead \in 1..Duration
    /\ Ahead \in Nat \ {0}
    /\ MaxWait \in 0..(Duration - 1)
    /\ Drift \in 0..(Duration - 1)

NoMarket == -2
LongEnded == -1   \* bound: distances are not told apart below this one
NoTimer == -1
Listed == 1..Ahead
MarketName == {NoMarket, LongEnded, 0} \union Listed

VARIABLES
    left,        \* until the running market ends
    due,         \* housekeeping ticks missed, which burst (bound: MaxWait + 1)
    waited,      \* time spent in the arm under way
    rpc,         \* where the task is: select, or the await it is in
    timer,       \* until expiry_sleep fires, or NoTimer for the far future
    current,     \* current_market
    next,        \* next_market, prewarmed
    prewarm_attempted,
    found,       \* the market the calls under way are about
    fresh,       \* decided on discovery: found is to be announced
    last,        \* last_emitted_condition_id, also what the watch channel holds
    seen         \* the watch channel's value has been looked at

clockVars == <<left, due, waited>>
managerVars == <<clockVars, rpc, timer, current, next, prewarm_attempted,
                 found, fresh, last, seen>>

ManagerTypeOK ==
    /\ left \in 1..Duration
    /\ due \in 0..(MaxWait + 1)
    /\ waited \in 0..MaxWait
    /\ rpc \in {"select", "prewarm", "prewarm_fetch", "poll", "poll_fetch"}
    /\ timer \in {NoTimer} \union 0..(Ahead * Duration)
    /\ current \in MarketName
    /\ next \in MarketName
    /\ prewarm_attempted \in BOOLEAN
    /\ found \in MarketName
    /\ fresh \in BOOLEAN
    /\ last \in MarketName
    /\ seen \in BOOLEAN

\* The first tick of a tokio interval is immediate.
ManagerInit ==
    /\ left \in 1..Duration
    /\ due = 1
    /\ waited = 0
    /\ rpc = "select"
    /\ timer = NoTimer
    /\ current = NoMarket
    /\ next = NoMarket
    /\ prewarm_attempted = FALSE
    /\ found = NoMarket
    /\ fresh = FALSE
    /\ last = NoMarket
    /\ seen = TRUE

Remaining(m) == IF m >= 1 THEN left + (m - 1) * Duration ELSE 0

ReadyToExpire == rpc = "select" /\ timer = 0
ReadyToHouseKeep == rpc = "select" /\ due > 0

\* The name a market has once the running one has ended.
Older(m) == IF m \in {NoMarket, LongEnded} THEN m ELSE m - 1
Ages(m) == IF left > 1 THEN m ELSE Older(m)

\* Time passes while a call is under way, and while neither timer is ready.
Tick ==
    /\ ~ReadyToExpire /\ ~ReadyToHouseKeep
    /\ rpc # "select" => waited < MaxWait
    /\ left' = IF left > 1 THEN left - 1 ELSE Duration
    /\ due' = IF due <= MaxWait THEN due + 1 ELSE due
    /\ waited' = IF rpc = "select" THEN 0 ELSE waited + 1
    /\ timer' = IF timer > 0 THEN timer - 1 ELSE timer
    /\ current' = Ages(current)
    /\ next' = Ages(next)
    /\ found' = Ages(found)
    /\ last' = Ages(last)
    /\ UNCHANGED <<rpc, prewarm_attempted, fresh, seen>>

\* emit_rotation_events: the watch channel gets the tokens of the same market.
Emit(m) == last' = m /\ seen' = FALSE

\* expiry_instant.
ArmTimer(m) == \E d \in 0..Drift :
                   timer' = IF Remaining(m) > d THEN Remaining(m) - d ELSE 0

\* The expiry arm: switch to the prewarmed market, or to none.
ExpireToNext ==
    /\ ReadyToExpire /\ next # NoMarket
    /\ Emit(next)
    /\ ArmTimer(next)
    /\ current' = next
    /\ next' = NoMarket
    /\ prewarm_attempted' = FALSE
    /\ UNCHANGED <<clockVars, rpc, found, fresh>>

\* Mutant: the timer that has fired is not parked.
ExpireToNoneUnparked ==
    /\ ReadyToExpire /\ next = NoMarket
    /\ current' = NoMarket
    /\ prewarm_attempted' = FALSE
    /\ UNCHANGED <<clockVars, rpc, timer, next, found, fresh, last, seen>>

ExpireToNone ==
    /\ ReadyToExpire /\ next = NoMarket
    /\ timer' = NoTimer
    /\ current' = NoMarket
    /\ prewarm_attempted' = FALSE
    /\ UNCHANGED <<clockVars, rpc, next, found, fresh, last, seen>>

\* The housekeeping arm.
ShouldPrewarm == /\ current # NoMarket
                 /\ Remaining(current) \in 1..Lead
                 /\ ~prewarm_attempted

Await(call) == /\ rpc' = call
               /\ waited' = 0
               /\ UNCHANGED <<left, timer, current, next, prewarm_attempted, last, seen>>

HouseKeep ==
    /\ ReadyToHouseKeep
    /\ due' = due - 1
    /\ Await(IF current = NoMarket THEN "poll"
             ELSE IF ShouldPrewarm THEN "prewarm" ELSE "select")
    /\ UNCHANGED <<found, fresh>>

\* discover_market_after: a market listed to end after the current one.
PrewarmFound ==
    /\ rpc = "prewarm"
    /\ found' \in {m \in Listed : m > current}
    /\ rpc' = "prewarm_fetch"
    /\ UNCHANGED <<clockVars, timer, current, next, prewarm_attempted, fresh,
                   last, seen>>

PrewarmDone ==
    /\ rpc = "prewarm_fetch"
    /\ next' = found
    /\ prewarm_attempted' = TRUE
    /\ found' = NoMarket
    /\ rpc' = "select"
    /\ waited' = 0
    /\ UNCHANGED <<left, due, timer, current, fresh, last, seen>>

\* Either discovery fails: the next housekeeping tick tries again.
DiscoveryFails ==
    /\ rpc \in {"prewarm", "poll"}
    /\ Await("select")
    /\ UNCHANGED <<due, found, fresh>>

\* discover_next_market: some listed market that has not ended.  Whether it is
\* announced is decided before its tick size and books are fetched.
PollFound ==
    /\ rpc = "poll"
    /\ found' \in Listed
    /\ fresh' = (found' # last)
    /\ rpc' = "poll_fetch"
    /\ UNCHANGED <<clockVars, timer, current, next, prewarm_attempted, last, seen>>

\* Mutants: a market found again is announced again; the timer is not armed.
PollDoneAgain ==
    /\ rpc = "poll_fetch"
    /\ Emit(found)
    /\ current' = found
    /\ ArmTimer(found)
    /\ found' = NoMarket
    /\ rpc' = "select"
    /\ waited' = 0
    /\ UNCHANGED <<left, due, next, prewarm_attempted, fresh>>

PollDoneUnarmed ==
    /\ rpc = "poll_fetch"
    /\ IF fresh THEN Emit(found) ELSE UNCHANGED <<last, seen>>
    /\ current' = found
    /\ found' = NoMarket
    /\ rpc' = "select"
    /\ waited' = 0
    /\ UNCHANGED <<left, due, timer, next, prewarm_attempted, fresh>>

PollDone ==
    /\ rpc = "poll_fetch"
    /\ IF fresh THEN Emit(found) ELSE UNCHANGED <<last, seen>>
    /\ current' = found
    /\ ArmTimer(found)
    /\ found' = NoMarket
    /\ rpc' = "select"
    /\ waited' = 0
    /\ UNCHANGED <<left, due, next, prewarm_attempted, fresh>>

CallEnds == PrewarmFound \/ PrewarmDone \/ PollFound \/ PollDone \/ DiscoveryFails

ManagerNext == \/ ExpireToNext \/ ExpireToNone
               \/ HouseKeep
               \/ CallEnds
=============================================================================
