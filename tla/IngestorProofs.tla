--------------------------- MODULE IngestorProofs ---------------------------
(***************************************************************************)
(* The rotation manager, the market WebSocket and the thread they run in.  *)
(*                                                                         *)
(* First the feed.  Every announcement moves forward, for every schedule,  *)
(* lead, drift of the clocks and duration of the calls                     *)
(* (AnnouncedInOrderHolds).  The argument is about what is behind what:    *)
(* the current market is the one announced last, a prewarmed or fresh      *)
(* market ends after it, and while a call lasts at most one market ends,   *)
(* since a call is shorter than a market.                                  *)
(*                                                                         *)
(* Then the thread.  The feed behaves in it, whatever else runs beside it  *)
(* and however often a send blocks, as it does alone: the thread's steps   *)
(* are steps of MarketFeed or leave its variables (IngestorImplementsFeed).*)
(* The heartbeat's failures are explained by its losses                    *)
(* (FailuresExplainedHolds): each loss is followed by at most one          *)
(* rejection, and the invariant counts the rejections still owed.          *)
(***************************************************************************)
EXTENDS Ingestor, TLAPS

\* The market that "found" names while its books are fetched.
Fetching == rpc \in {"prewarm_fetch", "poll_fetch"}

\* If m has ended, it did so during the arm under way.
EndedInArm(m) == m >= 0 /\ (m = 0 => Duration - left < waited)

CurrentIsLast == IF current = NoMarket THEN last <= 1 ELSE last = current

CurrentTimely ==
    current # NoMarket =>
        /\ current >= 0
        /\ rpc # "select" => rpc \in {"prewarm", "prewarm_fetch"} /\ EndedInArm(current)

FoundTimely ==
    /\ rpc \in {"prewarm", "prewarm_fetch"} => current # NoMarket
    /\ rpc = "prewarm_fetch" => found > current
    /\ rpc \in {"poll", "poll_fetch"} => current = NoMarket
    /\ rpc = "poll_fetch" => /\ EndedInArm(found)
                             /\ IF fresh THEN found > last ELSE found = last

NextIsLater == next # NoMarket => current # NoMarket /\ next > current

IInv == /\ TypeOK
        /\ CurrentIsLast
        /\ CurrentTimely
        /\ FoundTimely
        /\ NextIsLater
        /\ ExpiryFollowsCurrent
        /\ SessionFollows
-----------------------------------------------------------------------------
(* The length of markets.                                                  *)

\* Products of non-negative numbers, as far as the schedule needs them.
LEMMA TimesNat ==
    ASSUME NEW k \in Nat, NEW d \in Nat
    PROVE  k * d \in Nat
  BY SMT

LEMMA TimesMonotone ==
    ASSUME NEW j \in Nat, NEW k \in Nat, NEW d \in Nat, j <= k
    PROVE  j * d <= k * d
  <1>1. (k - j) * d \in Nat
    BY TimesNat, k - j \in Nat
  <1>2. (k - j) * d = k * d - j * d
    BY SMT
  <1>3. j * d \in Nat /\ k * d \in Nat
    BY TimesNat
  <1> QED BY <1>1, <1>2, <1>3

LEMMA TimesPred ==
    ASSUME NEW k \in Int, NEW d \in Int
    PROVE  (k - 1) * d = k * d - d
  BY SMT

\* What is left of a market tells whether it has ended, and whether it is at
\* most the running one; it is never more than the listed markets take.
LEMMA RemainingBounds ==
    ASSUME left \in 1..Duration, NEW m \in MarketName
    PROVE  /\ Remaining(m) \in 0..(Ahead * Duration)
           /\ m >= 1 <=> Remaining(m) > 0
           /\ Remaining(m) < Duration => m <= 1
  <1>1. CASE m >= 1
    <2>1. m \in 1..Ahead
      BY <1>1, ScheduleAssumption DEF MarketName, Listed, NoMarket, LongEnded
    <2>2. (m - 1) * Duration \in Nat
      BY <2>1, TimesNat, m - 1 \in Nat, ScheduleAssumption
    <2>3. m * Duration <= Ahead * Duration
      BY <2>1, TimesMonotone, ScheduleAssumption
    <2>4. (m - 1) * Duration = m * Duration - Duration
      BY <2>1, TimesPred, ScheduleAssumption
    <2>5. m * Duration \in Nat /\ Ahead * Duration \in Nat
      BY <2>1, TimesNat, ScheduleAssumption
    <2>6. m >= 2 => Duration <= (m - 1) * Duration
      <3>1. SUFFICES ASSUME m >= 2 PROVE 1 * Duration <= (m - 1) * Duration
        BY ScheduleAssumption
      <3> QED BY <3>1, <2>1, TimesMonotone, m - 1 \in Nat, 1 <= m - 1, ScheduleAssumption
    <2>7. Remaining(m) = left + (m - 1) * Duration
      BY <1>1 DEF Remaining
    <2> QED BY <1>1, <2>1, <2>2, <2>3, <2>4, <2>5, <2>6, <2>7, ScheduleAssumption
  <1>2. CASE ~(m >= 1)
    <2>1. Remaining(m) = 0
      BY <1>2 DEF Remaining
    <2>2. Ahead * Duration \in Nat
      BY TimesNat, ScheduleAssumption
    <2> QED BY <1>2, <2>1, <2>2, ScheduleAssumption
          DEF MarketName, NoMarket, LongEnded
  <1> QED BY <1>1, <1>2

\* When a unit of time passes, a market that has not ended has one unit less
\* left, and one that has ended still has nothing left.
LEMMA RemainingAges ==
    ASSUME left \in 1..Duration, Tick, NEW m \in MarketName
    PROVE  LET n == Ages(m)
               after == IF n >= 1 THEN left' + (n - 1) * Duration ELSE 0
           IN  /\ n \in MarketName
               /\ n = NoMarket <=> m = NoMarket
               /\ after = IF Remaining(m) > 0 THEN Remaining(m) - 1 ELSE 0
  <1> DEFINE n == Ages(m)
             after == IF n >= 1 THEN left' + (n - 1) * Duration ELSE 0
  <1>0. left' = IF left > 1 THEN left - 1 ELSE Duration
    BY DEF Tick
  <1>1. n \in MarketName /\ (n = NoMarket <=> m = NoMarket)
    BY ScheduleAssumption
    DEF Ages, Older, MarketName, Listed, NoMarket, LongEnded
  <1>2. Remaining(m) \in Nat /\ (m >= 1 <=> Remaining(m) > 0)
    BY RemainingBounds, TimesNat, ScheduleAssumption
  <1>3. CASE ~(m >= 1)
    <2>1. ~(n >= 1)
      BY <1>3, ScheduleAssumption
      DEF Ages, Older, MarketName, Listed, NoMarket, LongEnded
    <2> QED BY <1>1, <1>2, <1>3, <2>1
  <1>4. CASE m >= 1
    <2>1. m \in 1..Ahead
      BY <1>4, ScheduleAssumption DEF MarketName, Listed, NoMarket, LongEnded
    <2>2. (m - 1) * Duration \in Nat
      BY <2>1, TimesNat, m - 1 \in Nat, ScheduleAssumption
    <2>3. Remaining(m) = left + (m - 1) * Duration
      BY <1>4 DEF Remaining
    <2>4. CASE left > 1
      <3>1. n = m
        BY <2>4 DEF Ages
      <3> QED BY <1>0, <1>1, <1>2, <1>4, <2>1, <2>2, <2>3, <2>4, <3>1, ScheduleAssumption
    <2>5. CASE ~(left > 1)
      <3>1. n = m - 1
        BY <2>1, <2>5 DEF Ages, Older, NoMarket, LongEnded
      <3>2. left = 1 /\ left' = Duration
        BY <1>0, <2>5, ScheduleAssumption
      <3>3. CASE m = 1
        <4>1. ~(n >= 1) /\ (m - 1) * Duration = 0
          BY <3>1, <3>3, ScheduleAssumption
        <4>2. Remaining(m) = 1
          BY <2>3, <3>2, <4>1
        <4> QED BY <1>1, <4>1, <4>2
      <3>4. CASE m # 1
        <4>1. (n - 1) * Duration = (m - 1) * Duration - Duration
          BY <3>1, <2>1, TimesPred, m - 1 \in Int, ScheduleAssumption
        <4>2. n >= 1
          BY <3>1, <3>4, <2>1
        <4> QED BY <1>1, <1>2, <1>4, <2>2, <2>3, <3>2, <4>1, <4>2, ScheduleAssumption
      <3> QED BY <3>3, <3>4
    <2> QED BY <2>4, <2>5
  <1> QED BY <1>3, <1>4
-----------------------------------------------------------------------------
(* The initial states and the steps.                                       *)

\* Nothing has been announced, nothing is awaited.
LEMMA InitIInv == Init => IInv
  <1> SUFFICES ASSUME Init PROVE IInv
    OBVIOUS
  <1> USE ScheduleAssumption DEF Init, ManagerInit, NoMarket, NoTimer
  <1>1. TypeOK
    <2>1. timer \in {NoTimer} \union 0..(Ahead * Duration)
      OBVIOUS
    <2>2. NoMarket \in MarketName
      BY DEF MarketName
    <2>3. due \in 0..(MaxWait + 1) /\ waited \in 0..MaxWait
      OBVIOUS
    <2>4. ManagerTypeOK
      BY <2>1, <2>2, <2>3 DEF ManagerTypeOK
    <2> QED BY <2>2, <2>4 DEF TypeOK
  <1>2. CurrentIsLast /\ CurrentTimely /\ FoundTimely /\ NextIsLater
    BY DEF CurrentIsLast, CurrentTimely, FoundTimely, NextIsLater
  <1>3. ExpiryFollowsCurrent /\ SessionFollows
    BY DEF ExpiryFollowsCurrent, SessionFollows
  <1> QED BY <1>1, <1>2, <1>3 DEF IInv

\* expiry_instant: at most Drift before the end of the market, never after it.
LEMMA ArmTimerSets ==
    ASSUME left \in 1..Duration, NEW m \in MarketName, ArmTimer(m)
    PROVE  /\ timer' \in 0..(Ahead * Duration)
           /\ timer' <= Remaining(m)
           /\ Remaining(m) <= timer' + Drift
  <1>1. PICK d \in 0..Drift : timer' = IF Remaining(m) > d THEN Remaining(m) - d ELSE 0
    BY DEF ArmTimer
  <1>2. Remaining(m) \in 0..(Ahead * Duration)
    BY RemainingBounds
  <1>3. Ahead * Duration \in Nat /\ Drift \in Nat
    BY TimesNat, ScheduleAssumption
  <1> QED BY <1>1, <1>2, <1>3

\* The variables of the schedule, which no step but the passing of time changes,
\* keep what is left of every market.
LEMMA RemainingKept ==
    ASSUME left' = left, NEW m
    PROVE  (IF m >= 1 THEN left' + (m - 1) * Duration ELSE 0) = Remaining(m)
  BY DEF Remaining

\* Time passes.
LEMMA TimePassesIInv == IInv /\ TimePasses => IInv'
  <1> SUFFICES ASSUME IInv, TimePasses PROVE IInv'
    OBVIOUS
  <1>0. Tick /\ tokens' = Ages(tokens) /\ session' = session
    BY DEF TimePasses
  <1>t. /\ left \in 1..Duration /\ due \in 0..(MaxWait + 1) /\ waited \in 0..MaxWait
        /\ timer \in {NoTimer} \union 0..(Ahead * Duration)
        /\ current \in MarketName /\ next \in MarketName /\ found \in MarketName
        /\ last \in MarketName /\ tokens \in MarketName
    BY DEF IInv, TypeOK, ManagerTypeOK
  <1>a. Ahead * Duration \in Nat
    BY TimesNat, ScheduleAssumption
  <1>b. left' = IF left > 1 THEN left - 1 ELSE Duration
    BY <1>0 DEF Tick
  <1>c. left' \in 1..Duration
    BY <1>b, <1>t, ScheduleAssumption
  <1>d. /\ current' = Ages(current) /\ next' = Ages(next)
        /\ found' = Ages(found) /\ last' = Ages(last)
        /\ rpc' = rpc /\ fresh' = fresh /\ seen' = seen
        /\ prewarm_attempted' = prewarm_attempted
    BY <1>0 DEF Tick
  <1>1. TypeOK'
    <2>1. due' \in 0..(MaxWait + 1) /\ waited' \in 0..MaxWait
      BY <1>0, <1>t, ScheduleAssumption DEF Tick
    <2>2. timer' \in {NoTimer} \union 0..(Ahead * Duration)
      BY <1>0, <1>t, <1>a DEF Tick, NoTimer
    <2>3. /\ current' \in MarketName /\ next' \in MarketName /\ found' \in MarketName
          /\ last' \in MarketName /\ tokens' \in MarketName
      BY <1>0, <1>d, <1>t, RemainingAges
    <2> QED BY <1>0, <1>c, <1>d, <2>1, <2>2, <2>3 DEF IInv, TypeOK, ManagerTypeOK
  <1>e. /\ current' = NoMarket <=> current = NoMarket
        /\ next' = NoMarket <=> next = NoMarket
    BY <1>0, <1>d, <1>t, RemainingAges
  <1>f. rpc = "select" /\ current # NoMarket => current >= 1
    <2> SUFFICES ASSUME rpc = "select", current # NoMarket PROVE current >= 1
      OBVIOUS
    <2>1. timer # 0
      BY <1>0 DEF Tick, ReadyToExpire
    <2>2. timer \in Nat /\ timer <= Remaining(current)
      BY DEF IInv, ExpiryFollowsCurrent
    <2>3. Remaining(current) > 0
      BY <2>1, <2>2, <1>t, <1>a, RemainingBounds
    <2> QED BY <2>3, <1>t, RemainingBounds
  <1>g. ASSUME NEW m \in MarketName, rpc # "select", EndedInArm(m)
        PROVE  /\ m = 0 => left > 1
               /\ Ages(m) >= 0
               /\ Ages(m) = 0 => Duration - left' < waited'
    <2>1. waited < MaxWait /\ waited' = waited + 1
      BY <1>0, <1>g DEF Tick
    <2>2. m >= 0 /\ (m = 0 => Duration - left < waited)
      BY <1>g DEF EndedInArm
    <2>3. m = 0 => left > 1
      BY <2>1, <2>2, <1>t, ScheduleAssumption
    <2>4. m \in Int
      BY <1>g, ScheduleAssumption DEF MarketName, Listed, NoMarket, LongEnded
    <2> QED BY <1>b, <1>t, <2>1, <2>2, <2>3, <2>4, ScheduleAssumption
          DEF Ages, Older, NoMarket, LongEnded
  <1>2. CurrentIsLast'
    <2>1. last <= 1 => Ages(last) <= 1
      BY <1>t, ScheduleAssumption
      DEF Ages, Older, MarketName, Listed, NoMarket, LongEnded
    <2> QED BY <1>d, <1>e, <2>1 DEF IInv, CurrentIsLast
  <1>3. CurrentTimely'
    <2> SUFFICES ASSUME current # NoMarket
                 PROVE  /\ current' >= 0
                        /\ rpc # "select" =>
                             /\ rpc \in {"prewarm", "prewarm_fetch"}
                             /\ current' = 0 => Duration - left' < waited'
      BY <1>d, <1>e DEF CurrentTimely, EndedInArm
    <2>1. CASE rpc = "select"
      <3>1. current >= 1
        BY <1>f, <2>1
      <3> QED BY <2>1, <3>1, <1>d, <1>t, ScheduleAssumption
            DEF Ages, Older, MarketName, Listed, NoMarket, LongEnded
    <2>2. CASE rpc # "select"
      <3>1. rpc \in {"prewarm", "prewarm_fetch"} /\ EndedInArm(current)
        BY <2>2 DEF IInv, CurrentTimely
      <3> QED BY <2>2, <3>1, <1>d, <1>g, <1>t
    <2> QED BY <2>1, <2>2
  \* A market ahead of one that has just ended, or has not, stays ahead of it.
  <1>h. ASSUME NEW m \in MarketName, NEW n \in MarketName, n > m, n >= 0,
               n = 0 => left > 1, m = 0 => left > 1
        PROVE  Ages(n) > Ages(m)
    BY <1>h, <1>t, ScheduleAssumption
    DEF Ages, Older, MarketName, Listed, NoMarket, LongEnded
  <1>i. current # NoMarket => current >= 0 /\ (current = 0 => left > 1)
    <2> SUFFICES ASSUME current # NoMarket
                 PROVE  current >= 0 /\ (current = 0 => left > 1)
      OBVIOUS
    <2>1. CASE rpc = "select"
      <3>1. current >= 1
        BY <2>1, <1>f
      <3> QED BY <3>1, <1>t, ScheduleAssumption
            DEF MarketName, Listed, NoMarket, LongEnded
    <2>2. CASE rpc # "select"
      <3>1. EndedInArm(current)
        BY <2>2 DEF IInv, CurrentTimely
      <3> QED BY <2>2, <3>1, <1>g, <1>t DEF EndedInArm
    <2> QED BY <2>1, <2>2
  <1>4. FoundTimely'
    <2>1. rpc = "prewarm_fetch" => found' > current'
      <3> SUFFICES ASSUME rpc = "prewarm_fetch" PROVE Ages(found) > Ages(current)
        BY <1>d
      <3>1. current # NoMarket /\ found > current
        BY DEF IInv, FoundTimely
      <3>2. current \in Int /\ found \in Int
        BY <1>t, ScheduleAssumption DEF MarketName, Listed, NoMarket, LongEnded
      <3>3. found >= 0 /\ found # 0
        BY <3>1, <3>2, <1>i
      <3> QED BY <3>1, <3>3, <1>h, <1>i, <1>t
    <2>2. rpc = "poll_fetch" => /\ found' >= 0
                                /\ found' = 0 => Duration - left' < waited'
                                /\ IF fresh THEN found' > last' ELSE found' = last'
      <3> SUFFICES ASSUME rpc = "poll_fetch"
                   PROVE  /\ found' >= 0
                          /\ found' = 0 => Duration - left' < waited'
                          /\ IF fresh THEN found' > last' ELSE found' = last'
        OBVIOUS
      <3>1. EndedInArm(found) /\ (IF fresh THEN found > last ELSE found = last)
        BY DEF IInv, FoundTimely
      <3>2. found >= 0 /\ (found = 0 => left > 1)
        BY <3>1, <1>g, <1>t DEF EndedInArm
      <3>3. found' >= 0 /\ (found' = 0 => Duration - left' < waited')
        BY <3>1, <1>d, <1>g, <1>t
      <3>4. found > last => Ages(found) > Ages(last)
        BY <3>2, <1>t, ScheduleAssumption
        DEF Ages, Older, MarketName, Listed, NoMarket, LongEnded
      <3> QED BY <3>1, <3>3, <3>4, <1>d
    <2> QED BY <1>d, <1>e, <2>1, <2>2 DEF IInv, FoundTimely, EndedInArm
  <1>5. NextIsLater'
    <2> SUFFICES ASSUME next # NoMarket PROVE current # NoMarket /\ Ages(next) > Ages(current)
      BY <1>d, <1>e DEF NextIsLater
    <2>1. current # NoMarket /\ next > current
      BY DEF IInv, NextIsLater
    <2>2. current \in Int /\ next \in Int
      BY <1>t, ScheduleAssumption DEF MarketName, Listed, NoMarket, LongEnded
    <2>3. next >= 0 /\ next # 0
      BY <2>1, <2>2, <1>i
    <2> QED BY <2>1, <2>3, <1>h, <1>i, <1>t
  <1>6. ExpiryFollowsCurrent'
    <2>1. CASE current = NoMarket
      <3>1. timer = NoTimer
        BY <2>1 DEF IInv, ExpiryFollowsCurrent
      <3>2. timer' = NoTimer
        BY <3>1, <1>0 DEF Tick, NoTimer
      <3> QED BY <2>1, <3>2, <1>e DEF ExpiryFollowsCurrent
    <2>2. CASE current # NoMarket
      <3>1. /\ timer \in Nat /\ timer <= Remaining(current)
            /\ Remaining(current) <= timer + Drift
        BY <2>2 DEF IInv, ExpiryFollowsCurrent
      <3>2. timer' = IF timer > 0 THEN timer - 1 ELSE timer
        BY <1>0 DEF Tick
      <3>3. Remaining(current)' = IF Remaining(current) > 0 THEN Remaining(current) - 1 ELSE 0
        BY <1>0, <1>d, <1>t, RemainingAges DEF Remaining
      <3>4. Remaining(current) \in Nat
        BY <1>t, <1>a, RemainingBounds
      <3>5. /\ timer' \in Nat /\ timer' <= Remaining(current)'
            /\ Remaining(current)' <= timer' + Drift
        BY <3>1, <3>2, <3>3, <3>4, ScheduleAssumption
      <3> QED BY <2>2, <3>5, <1>e DEF ExpiryFollowsCurrent
    <2> QED BY <2>1, <2>2
  <1>7. SessionFollows'
    BY <1>0, <1>d DEF IInv, SessionFollows
  <1> QED BY <1>1, <1>2, <1>3, <1>4, <1>5, <1>6, <1>7 DEF IInv

\* The expiry arm: the prewarmed market ends after the current one, and a timer
\* that fires leaves less than a market's length of the current one.
LEMMA ExpireIInv ==
    IInv /\ (ExpireToNext \/ ExpireToNone) /\ UNCHANGED wsVars => IInv'
  <1> SUFFICES ASSUME IInv, ExpireToNext \/ ExpireToNone, UNCHANGED wsVars PROVE IInv'
    OBVIOUS
  <1>0. /\ left \in 1..Duration /\ rpc = "select" /\ timer = 0
        /\ current \in MarketName /\ next \in MarketName
        /\ UNCHANGED <<left, due, waited, rpc, found, fresh, session, tokens>>
    BY DEF IInv, TypeOK, ManagerTypeOK, ExpireToNext, ExpireToNone, ReadyToExpire,
           clockVars, wsVars
  <1>1. current # NoMarket
    BY <1>0 DEF IInv, ExpiryFollowsCurrent, NoTimer
  <1>2. CASE ExpireToNext
    <2>1. /\ next # NoMarket /\ current' = next /\ next' = NoMarket
          /\ last' = next /\ seen' = FALSE /\ ArmTimer(next)
          /\ prewarm_attempted' = FALSE
      BY <1>2 DEF ExpireToNext, Emit
    <2>2. /\ timer' \in 0..(Ahead * Duration) /\ timer' <= Remaining(next)
          /\ Remaining(next) <= timer' + Drift
      BY <1>0, <2>1, ArmTimerSets
    <2>3. TypeOK'
      BY <1>0, <2>1, <2>2 DEF IInv, TypeOK, ManagerTypeOK, MarketName
    <2>4. next >= 0
      BY <1>0, <1>1, <2>1, ScheduleAssumption
      DEF IInv, NextIsLater, CurrentTimely, MarketName, Listed, NoMarket, LongEnded
    <2>5. CurrentIsLast' /\ CurrentTimely' /\ FoundTimely' /\ NextIsLater'
      BY <1>0, <2>1, <2>4
      DEF CurrentIsLast, CurrentTimely, FoundTimely, NextIsLater
    <2>6. timer' \in Nat /\ Remaining(current)' = Remaining(next)
      BY <1>0, <2>1, <2>2, TimesNat, ScheduleAssumption DEF Remaining
    <2>7. ExpiryFollowsCurrent' /\ SessionFollows'
      BY <2>1, <2>2, <2>6 DEF ExpiryFollowsCurrent, SessionFollows
    <2> QED BY <2>3, <2>5, <2>7 DEF IInv
  <1>3. CASE ExpireToNone
    <2>1. /\ next = NoMarket /\ next' = next /\ current' = NoMarket
          /\ last' = last /\ seen' = seen /\ timer' = NoTimer
          /\ prewarm_attempted' = FALSE
      BY <1>3 DEF ExpireToNone
    <2>2. TypeOK'
      BY <1>0, <2>1 DEF IInv, TypeOK, ManagerTypeOK, MarketName
    <2>3. last <= 1
      <3>1. last = current /\ Remaining(current) <= 0 + Drift
        BY <1>0, <1>1 DEF IInv, CurrentIsLast, ExpiryFollowsCurrent
      <3>2. Remaining(current) \in Nat
        BY <1>0, RemainingBounds, TimesNat, ScheduleAssumption
      <3> QED BY <1>0, <3>1, <3>2, RemainingBounds, ScheduleAssumption
    <2>4. CurrentIsLast' /\ CurrentTimely' /\ FoundTimely' /\ NextIsLater'
      BY <1>0, <2>1, <2>3
      DEF CurrentIsLast, CurrentTimely, FoundTimely, NextIsLater
    <2>5. ExpiryFollowsCurrent' /\ SessionFollows'
      BY <1>0, <2>1 DEF IInv, ExpiryFollowsCurrent, SessionFollows
    <2> QED BY <2>2, <2>4, <2>5 DEF IInv
  <1> QED BY <1>2, <1>3

\* The housekeeping arm only prewarms while the current market runs.
LEMMA HouseKeepIInv == IInv /\ HouseKeep /\ UNCHANGED wsVars => IInv'
  <1> SUFFICES ASSUME IInv, HouseKeep, UNCHANGED wsVars PROVE IInv'
    OBVIOUS
  <1> DEFINE call == IF current = NoMarket THEN "poll"
                     ELSE IF ShouldPrewarm THEN "prewarm" ELSE "select"
  <1>0. /\ rpc = "select" /\ rpc' = call /\ waited' = 0
        /\ due \in 0..(MaxWait + 1) /\ due > 0 /\ due' = due - 1
        /\ UNCHANGED <<left, timer, current, next, prewarm_attempted, found, fresh,
                       last, seen, session, tokens>>
    BY DEF HouseKeep, Await, ReadyToHouseKeep, wsVars, IInv, TypeOK, ManagerTypeOK
  <1>1. TypeOK'
    <2>1. due' \in 0..(MaxWait + 1) /\ 0 \in 0..MaxWait
      BY <1>0, ScheduleAssumption
    <2> QED BY <1>0, <2>1 DEF IInv, TypeOK, ManagerTypeOK
  <1>2. call = "prewarm" => current # NoMarket /\ current >= 1
    <2> SUFFICES ASSUME call = "prewarm" PROVE current # NoMarket /\ current >= 1
      OBVIOUS
    <2>1. current # NoMarket /\ Remaining(current) \in 1..Lead
      BY DEF ShouldPrewarm
    <2>2. Remaining(current) > 0
      BY <2>1, ScheduleAssumption
    <2> QED BY <2>1, <2>2, RemainingBounds DEF IInv, TypeOK, ManagerTypeOK
  <1>3. CurrentTimely'
    <2> SUFFICES ASSUME current # NoMarket
                 PROVE  /\ current >= 0
                        /\ call # "select" =>
                             /\ call \in {"prewarm", "prewarm_fetch"}
                             /\ current >= 0 /\ (current = 0 => Duration - left < 0)
      BY <1>0 DEF CurrentTimely, EndedInArm
    <2>1. current >= 0
      BY DEF IInv, CurrentTimely
    <2> QED BY <1>2, <2>1
  <1>4. CurrentIsLast' /\ FoundTimely' /\ NextIsLater'
    BY <1>0, <1>2 DEF IInv, CurrentIsLast, FoundTimely, NextIsLater
  <1>5. ExpiryFollowsCurrent' /\ SessionFollows'
    BY <1>0 DEF IInv, ExpiryFollowsCurrent, SessionFollows, Remaining
  <1> QED BY <1>1, <1>3, <1>4, <1>5 DEF IInv

\* A discovery answers or fails.
LEMMA CallUnderWayIInv ==
    IInv /\ (PrewarmFound \/ PrewarmDone \/ DiscoveryFails \/ PollFound)
         /\ UNCHANGED wsVars => IInv'
  <1> SUFFICES ASSUME IInv,
                      PrewarmFound \/ PrewarmDone \/ DiscoveryFails \/ PollFound,
                      UNCHANGED wsVars
               PROVE  IInv'
    OBVIOUS
  <1>0. UNCHANGED <<left, due, timer, current, last, seen, session, tokens>>
    BY DEF PrewarmFound, PrewarmDone, DiscoveryFails, PollFound, Await, clockVars, wsVars
  <1>1. CurrentIsLast' /\ ExpiryFollowsCurrent' /\ SessionFollows'
    BY <1>0 DEF IInv, CurrentIsLast, ExpiryFollowsCurrent, SessionFollows, Remaining
  <1>2. Listed \subseteq MarketName /\ NoMarket \in MarketName
    BY DEF MarketName
  <1>3. CASE PrewarmFound
    <2>1. /\ rpc = "prewarm" /\ rpc' = "prewarm_fetch" /\ found' \in Listed
          /\ found' > current
          /\ UNCHANGED <<left, due, waited, timer, current, next,
                         prewarm_attempted, fresh, last, seen, session, tokens>>
      BY <1>3 DEF PrewarmFound, clockVars, wsVars
    <2>2. TypeOK'
      BY <1>2, <2>1 DEF IInv, TypeOK, ManagerTypeOK
    <2>3. CurrentTimely' /\ FoundTimely' /\ NextIsLater'
      BY <2>1 DEF IInv, CurrentTimely, FoundTimely, NextIsLater, EndedInArm
    <2> QED BY <1>1, <2>2, <2>3 DEF IInv
  <1>4. CASE PrewarmDone
    <2>1. /\ rpc = "prewarm_fetch" /\ rpc' = "select" /\ next' = found
          /\ waited' = 0 /\ found' = NoMarket /\ prewarm_attempted' = TRUE
          /\ UNCHANGED <<left, due, timer, current, fresh, last, seen, session, tokens>>
      BY <1>4 DEF PrewarmDone, wsVars
    <2>2. TypeOK'
      BY <1>2, <2>1, ScheduleAssumption DEF IInv, TypeOK, ManagerTypeOK
    <2>3. CurrentTimely' /\ FoundTimely' /\ NextIsLater'
      BY <2>1 DEF IInv, CurrentTimely, FoundTimely, NextIsLater, EndedInArm
    <2> QED BY <1>1, <2>2, <2>3 DEF IInv
  <1>5. CASE DiscoveryFails
    <2>1. /\ rpc' = "select" /\ waited' = 0
          /\ UNCHANGED <<left, due, timer, current, next, prewarm_attempted, found,
                         fresh, last, seen, session, tokens>>
      BY <1>5 DEF DiscoveryFails, Await, wsVars
    <2>2. TypeOK'
      BY <2>1, ScheduleAssumption DEF IInv, TypeOK, ManagerTypeOK
    <2>3. CurrentTimely' /\ FoundTimely' /\ NextIsLater'
      BY <2>1 DEF IInv, CurrentTimely, FoundTimely, NextIsLater
    <2> QED BY <1>1, <2>2, <2>3 DEF IInv
  <1>6. CASE PollFound
    <2>1. /\ rpc = "poll" /\ rpc' = "poll_fetch" /\ found' \in Listed
          /\ fresh' = (found' # last)
          /\ UNCHANGED <<left, due, waited, timer, current, next,
                         prewarm_attempted, last, seen, session, tokens>>
      BY <1>6 DEF PollFound, clockVars, wsVars
    <2>2. TypeOK'
      BY <1>2, <2>1 DEF IInv, TypeOK, ManagerTypeOK
    <2>3. current = NoMarket /\ last <= 1
      BY <2>1 DEF IInv, FoundTimely, CurrentIsLast
    <2>4. last \in Int /\ found' \in Int /\ found' >= 1
      BY <2>1, ScheduleAssumption
      DEF IInv, TypeOK, ManagerTypeOK, MarketName, Listed, NoMarket, LongEnded
    <2>5. found' >= 0 /\ found' # 0 /\ (found' # last => found' > last)
      BY <2>3, <2>4
    <2>6. IF fresh' THEN found' > last' ELSE found' = last'
      BY <2>1, <2>5, Zenon
    <2>7. CurrentTimely' /\ FoundTimely' /\ NextIsLater'
      BY <2>1, <2>3, <2>5, <2>6
      DEF IInv, CurrentTimely, FoundTimely, NextIsLater, EndedInArm
    <2> QED BY <1>1, <2>2, <2>7 DEF IInv
  <1> QED BY <1>3, <1>4, <1>5, <1>6

\* A poll ends: what it found is current, and announced unless it was before.
LEMMA PollDoneIInv == IInv /\ PollDone /\ UNCHANGED wsVars => IInv'
  <1> SUFFICES ASSUME IInv, PollDone, UNCHANGED wsVars PROVE IInv'
    OBVIOUS
  <1>0. /\ rpc = "poll_fetch" /\ rpc' = "select" /\ waited' = 0
        /\ current' = found /\ found' = NoMarket /\ ArmTimer(found)
        /\ IF fresh THEN last' = found /\ seen' = FALSE ELSE UNCHANGED <<last, seen>>
        /\ UNCHANGED <<left, due, next, prewarm_attempted, fresh, session, tokens>>
    BY DEF PollDone, Emit, wsVars
  <1>1. left \in 1..Duration /\ found \in MarketName
    BY DEF IInv, TypeOK, ManagerTypeOK
  <1>2. /\ timer' \in 0..(Ahead * Duration) /\ timer' <= Remaining(found)
        /\ Remaining(found) <= timer' + Drift
    BY <1>0, <1>1, ArmTimerSets
  <1>3. /\ current = NoMarket /\ found >= 0
        /\ IF fresh THEN found > last ELSE found = last
    BY <1>0 DEF IInv, FoundTimely, EndedInArm
  <1>4. TypeOK'
    <2>1. last' \in MarketName /\ seen' \in BOOLEAN
      BY <1>0 DEF IInv, TypeOK, ManagerTypeOK
    <2> QED BY <1>0, <1>2, <2>1, ScheduleAssumption
          DEF IInv, TypeOK, ManagerTypeOK, MarketName
  <1>5. CurrentIsLast' /\ CurrentTimely' /\ FoundTimely'
    BY <1>0, <1>3 DEF CurrentIsLast, CurrentTimely, FoundTimely, NoMarket
  <1>6. NextIsLater'
    BY <1>0, <1>3 DEF IInv, NextIsLater
  <1>7. ExpiryFollowsCurrent'
    <2>1. timer' \in Nat /\ Remaining(current)' = Remaining(found)
      BY <1>0, <1>2, TimesNat, ScheduleAssumption DEF Remaining
    <2> QED BY <1>0, <1>2, <1>3, <2>1 DEF ExpiryFollowsCurrent, NoMarket
  <1>8. SessionFollows'
    BY <1>0 DEF IInv, SessionFollows
  <1> QED BY <1>4, <1>5, <1>6, <1>7, <1>8 DEF IInv

\* The market WebSocket reads the channel and touches nothing of the manager's.
LEMMA WsIInv == IInv /\ WsStep => IInv'
  <1> SUFFICES ASSUME IInv, WsStep PROVE IInv'
    OBVIOUS
  <1>0. UNCHANGED <<left, due, waited, rpc, timer, current, next, prewarm_attempted,
                    found, fresh, last>>
    BY DEF WsStep, clockVars
  <1>1. /\ session' \in {"waiting", "open", "backoff"}
        /\ tokens' \in {tokens, last} /\ seen' \in {seen, TRUE}
        /\ session' = "open" /\ tokens' # last => ~seen'
    BY DEF WsStep, WsNext, TokensChanged, SessionEnds, BackoffEnds, OpenSession,
           IInv, TypeOK, SessionFollows
  <1>2. TypeOK'
    BY <1>0, <1>1 DEF IInv, TypeOK, ManagerTypeOK
  <1>3. CurrentIsLast' /\ CurrentTimely' /\ FoundTimely' /\ NextIsLater'
    BY <1>0
    DEF IInv, CurrentIsLast, CurrentTimely, FoundTimely, NextIsLater, EndedInArm
  <1>4. ExpiryFollowsCurrent' /\ SessionFollows'
    BY <1>0, <1>1 DEF IInv, ExpiryFollowsCurrent, SessionFollows, Remaining
  <1> QED BY <1>2, <1>3, <1>4 DEF IInv

LEMMA NextIInv == IInv /\ [Next]_vars => IInv'
  <1> SUFFICES ASSUME IInv, [Next]_vars PROVE IInv'
    OBVIOUS
  <1>1. CASE ManagerStep
    BY <1>1, ExpireIInv, HouseKeepIInv, CallUnderWayIInv, PollDoneIInv
    DEF ManagerStep, ManagerNext, CallEnds
  <1>2. CASE TimePasses
    BY <1>2, TimePassesIInv
  <1>3. CASE WsStep
    BY <1>3, WsIInv
  <1>4. CASE UNCHANGED vars
    BY <1>4 DEF vars, managerVars, clockVars, wsVars, IInv, TypeOK, ManagerTypeOK,
                CurrentIsLast, CurrentTimely, FoundTimely, NextIsLater, EndedInArm,
                ExpiryFollowsCurrent, SessionFollows, Remaining
  <1> QED BY <1>1, <1>2, <1>3, <1>4 DEF Next

\* What is behind what holds throughout.
THEOREM FeedInvariant == Spec => []IInv
  BY InitIInv, NextIInv, PTL DEF Spec
-----------------------------------------------------------------------------
(* What the manager and its feed promise.                                  *)

\* Every variable of the manager and the feed keeps its type.
THEOREM FeedTypeCorrect == Spec => []TypeOK
  <1>1. IInv => TypeOK
    BY DEF IInv
  <1> QED BY <1>1, FeedInvariant, PTL

\* The expiry timer is set for the end of the current market, for every schedule
\* and every drift below a market's length.
THEOREM ExpiryFollowsCurrentHolds == Spec => []ExpiryFollowsCurrent
  <1>1. IInv => ExpiryFollowsCurrent
    BY DEF IInv
  <1> QED BY <1>1, FeedInvariant, PTL

\* No announcement is lost to the market WebSocket.
THEOREM SessionFollowsHolds == Spec => []SessionFollows
  <1>1. IInv => SessionFollows
    BY DEF IInv
  <1> QED BY <1>1, FeedInvariant, PTL

\* Announcements only move forward: only the expiry arm and the end of a poll
\* announce, the first the prewarmed market, the second a fresh one.
THEOREM AnnouncedInOrderHolds == Spec => AnnouncedInOrder
  <1>1. IInv /\ [Next]_vars => [Announcement => last' > last]_vars
    <2> SUFFICES ASSUME IInv, Next, Announcement PROVE last' > last
      OBVIOUS
    <2>1. CASE ManagerStep
      <3>1. CASE ExpireToNext
        <4>1. last' = next /\ next # NoMarket
          BY <3>1 DEF ExpireToNext, Emit
        <4> QED BY <4>1 DEF IInv, NextIsLater, CurrentIsLast
      <3>2. CASE PollDone
        <4>1. rpc = "poll_fetch" /\ fresh /\ last' = found
          BY <3>2 DEF PollDone, Emit, Announcement
        <4> QED BY <4>1 DEF IInv, FoundTimely
      <3>3. CASE ExpireToNone \/ HouseKeep \/ PrewarmFound \/ PrewarmDone
                 \/ PollFound \/ DiscoveryFails
        BY <3>3 DEF ExpireToNone, HouseKeep, PrewarmFound, PrewarmDone, PollFound,
                    DiscoveryFails, Await, Announcement
      <3> QED BY <2>1, <3>1, <3>2, <3>3 DEF ManagerStep, ManagerNext, CallEnds
    <2>2. CASE TimePasses
      BY <2>2 DEF TimePasses, Tick, Announcement
    <2>3. CASE WsStep
      BY <2>3 DEF WsStep, WsNext, TokensChanged, SessionEnds, BackoffEnds,
                  OpenSession, Announcement
    <2> QED BY <2>1, <2>2, <2>3 DEF Next
  <1> QED BY <1>1, FeedInvariant, PTL DEF Spec, AnnouncedInOrder
-----------------------------------------------------------------------------
(* The ingestor thread.                                                    *)

\* The next post that reaches the exchange is going to be rejected.
Owed == IF heartbeat_id = "outdated" \/ (heartbeat_id = "none" /\ server_session)
        THEN 1 ELSE 0

HeartbeatInv == /\ HeartbeatTypeOK
                /\ consecutive_failures + Owed <= lost + lost

ThreadTypeOK == /\ ingestor \in {"starting", "up", "ended"}
                /\ channel \in {"open", "full", "blocked"}
-----------------------------------------------------------------------------
(* The feed inside the thread.                                             *)

LEMMA IngestorStepIsFeedStep == [IngestorNext]_allVars => [Next]_vars
  <1> SUFFICES ASSUME [IngestorNext]_allVars PROVE [Next]_vars
    OBVIOUS
  <1>1. CASE FeedStep
    BY <1>1 DEF FeedStep, Next
  <1>2. CASE ClockStep
    BY <1>2 DEF ClockStep, Next
  <1>3. CASE HeartbeatAuthenticates \/ HeartbeatStep \/ SessionLostStep
    BY <1>3 DEF HeartbeatAuthenticates, HeartbeatStep, SessionLostStep
  <1>4. CASE SessionStep \/ EngineReceives
    BY <1>4 DEF SessionStep, EngineReceives
  <1>5. CASE UNCHANGED allVars
    BY <1>5 DEF allVars
  <1> QED BY <1>1, <1>2, <1>3, <1>4, <1>5 DEF IngestorNext

\* The thread implements the feed: the tasks beside the manager and the market
\* WebSocket, and the channel that stops them all, add no step to the two.
THEOREM IngestorImplementsFeed == IngestorSpec => Spec
  <1>1. IngestorInit => Init
    BY DEF IngestorInit
  <1> QED BY <1>1, IngestorStepIsFeedStep, PTL DEF IngestorSpec, Spec

\* Inside the thread too, announcements only move forward...
THEOREM IngestorAnnouncesInOrder == IngestorSpec => AnnouncedInOrder
  BY IngestorImplementsFeed, AnnouncedInOrderHolds, PTL

\* ... the expiry timer is the current market's...
THEOREM IngestorExpiryFollowsCurrent == IngestorSpec => []ExpiryFollowsCurrent
  BY IngestorImplementsFeed, ExpiryFollowsCurrentHolds, PTL

\* ... and an open session of the market WebSocket misses no announcement.
THEOREM IngestorSessionFollows == IngestorSpec => []SessionFollows
  BY IngestorImplementsFeed, SessionFollowsHolds, PTL
-----------------------------------------------------------------------------
(* The heartbeat.                                                          *)

LEMMA InitHeartbeatInv == IngestorInit => HeartbeatInv /\ ThreadTypeOK
  <1> SUFFICES ASSUME IngestorInit PROVE HeartbeatInv /\ ThreadTypeOK
    OBVIOUS
  <1>1. ThreadTypeOK
    BY DEF IngestorInit, ThreadTypeOK
  <1>2. HeartbeatTypeOK
    <2>1. 0 \in 0..(2 * MaxLost) /\ 0 \in 0..MaxLost /\ 0 \in 0..HeartbeatDeadThreshold
      BY HeartbeatAssumption
    <2>2. {server_session, heartbeat_healthy} \subseteq BOOLEAN
      BY DEF IngestorInit, HeartbeatInit
    <2> QED BY <2>1, <2>2 DEF IngestorInit, HeartbeatInit, HeartbeatTypeOK
  <1>3. Owed = 0 /\ consecutive_failures = 0 /\ lost = 0
    BY DEF IngestorInit, HeartbeatInit, Owed
  <1> QED BY <1>1, <1>2, <1>3 DEF HeartbeatInv

\* The engine's count stays below the threshold, whether or not it is told.
LEMMA ReportsTyped ==
    ASSUME HeartbeatTypeOK, NEW full \in BOOLEAN,
           Reports(CountOk, full) \/ Reports(CountFailed, full)
    PROVE  /\ heartbeat_failures' \in 0..HeartbeatDeadThreshold
           /\ heartbeat_healthy' \in BOOLEAN
  <1>1. heartbeat_failures' \in 0..HeartbeatDeadThreshold
    BY HeartbeatAssumption
    DEF HeartbeatTypeOK, Reports, CountOk, CountFailed, healthVars
  <1>2. heartbeat_healthy' \in BOOLEAN
    BY HeartbeatAssumption
    DEF HeartbeatTypeOK, Reports, CountOk, CountFailed, healthVars
  <1> QED BY <1>1, <1>2

LEMMA PostHeartbeatInv ==
    ASSUME HeartbeatInv, NEW full \in BOOLEAN, PostHeartbeat(full)
    PROVE  HeartbeatInv'
  <1>t. HeartbeatTypeOK
    BY DEF HeartbeatInv
  <1>r. /\ heartbeat_failures' \in 0..HeartbeatDeadThreshold
        /\ heartbeat_healthy' \in BOOLEAN
    BY <1>t, ReportsTyped DEF PostHeartbeat, HeartbeatOk, HeartbeatRejected, HeartbeatLost
  <1>1. CASE HeartbeatOk(full)
    BY <1>1, <1>r, HeartbeatAssumption
    DEF HeartbeatInv, HeartbeatTypeOK, HeartbeatOk, Owed
  <1>2. CASE HeartbeatRejected(full)
    <2>1. Owed = 1 /\ Owed' = 0
      BY <1>2, <1>t DEF HeartbeatRejected, ExtractHeartbeatId, Owed, HeartbeatTypeOK
    <2>2. consecutive_failures' <= lost' + lost'
      BY <1>2, <1>t, <2>1 DEF HeartbeatInv, HeartbeatTypeOK, HeartbeatRejected
    <2> QED BY <1>2, <1>t, <1>r, <2>1, <2>2, HeartbeatAssumption
            DEF HeartbeatInv, HeartbeatTypeOK, HeartbeatRejected, ExtractHeartbeatId
  <1>3. CASE HeartbeatLost(full)
    <2>1. Owed \in Nat /\ (Owed' = 0 \/ Owed' = 1)
      BY DEF Owed
    <2>2. /\ losses' \in 0..MaxLost /\ lost' \in 0..losses' /\ lost' = lost + 1
          /\ consecutive_failures' = consecutive_failures + 1
          /\ losses \in Nat /\ losses + 1 <= MaxLost /\ lost \in 0..losses
      BY <1>3, <1>t, HeartbeatAssumption DEF HeartbeatTypeOK, HeartbeatLost, Lose
    <2>3. /\ lost \in Nat /\ consecutive_failures \in Nat
          /\ consecutive_failures <= lost + lost
      <3>1. lost \in Nat /\ consecutive_failures \in Nat
        BY <1>t, HeartbeatAssumption DEF HeartbeatTypeOK
      <3>2. consecutive_failures + Owed <= lost + lost
        BY DEF HeartbeatInv
      <3> QED BY <2>1, <3>1, <3>2
    <2>4. consecutive_failures' + Owed' <= lost' + lost'
      <3>1. CASE Owed' = 0
        BY <2>2, <2>3, <3>1
      <3>2. CASE Owed' = 1
        BY <2>2, <2>3, <3>2
      <3> QED BY <2>1, <3>1, <3>2
    <2>5. consecutive_failures' \in 0..(2 * MaxLost)
      <3>1. lost + 1 <= MaxLost
        BY <2>2, <2>3, HeartbeatAssumption
      <3>2. consecutive_failures + 1 \in 0..(2 * MaxLost)
        BY <2>3, <3>1, HeartbeatAssumption
      <3> QED BY <2>2, <3>2
    <2> QED BY <1>3, <1>t, <1>r, <2>2, <2>4, <2>5
            DEF HeartbeatInv, HeartbeatTypeOK, HeartbeatLost
  <1> QED BY <1>1, <1>2, <1>3 DEF PostHeartbeat

LEMMA SessionLostInv == HeartbeatInv /\ SessionLost => HeartbeatInv'
  <1> SUFFICES ASSUME HeartbeatInv, SessionLost PROVE HeartbeatInv'
    OBVIOUS
  <1>1. Owed = 0 /\ Owed' = 1
    BY DEF SessionLost, Owed
  <1> QED BY <1>1, HeartbeatAssumption
          DEF HeartbeatInv, HeartbeatTypeOK, SessionLost, Lose, healthVars

LEMMA StepHeartbeatInv == HeartbeatInv /\ [IngestorNext]_allVars => HeartbeatInv'
  <1> SUFFICES ASSUME HeartbeatInv, [IngestorNext]_allVars PROVE HeartbeatInv'
    OBVIOUS
  <1>1. CASE HeartbeatStep
    <2>1. PostHeartbeat(channel = "full") /\ (channel = "full") \in BOOLEAN
      BY <1>1 DEF HeartbeatStep
    <2> QED BY <2>1, PostHeartbeatInv
  <1>2. CASE SessionLostStep
    BY <1>2, SessionLostInv DEF SessionLostStep
  <1>3. CASE UNCHANGED heartbeatVars
    BY <1>3 DEF heartbeatVars, taskVars, healthVars, HeartbeatInv, HeartbeatTypeOK, Owed
  <1> QED BY <1>1, <1>2, <1>3
          DEF IngestorNext, HeartbeatAuthenticates, FeedStep, ClockStep, SessionStep,
              EngineReceives, allVars

LEMMA StepThreadTypeOK == ThreadTypeOK /\ [IngestorNext]_allVars => ThreadTypeOK'
  BY DEF ThreadTypeOK, IngestorNext, allVars, threadVars, HeartbeatAuthenticates, FeedStep,
         ClockStep, HeartbeatStep, SessionLostStep, SessionStep, FuturesSession, SpotSession,
         UserSession, MarketMessages, EngineReceives, TrySend, BlockingSend

LEMMA HeartbeatInvariant == IngestorSpec => [](HeartbeatInv /\ ThreadTypeOK)
  BY InitHeartbeatInv, StepHeartbeatInv, StepThreadTypeOK, PTL DEF IngestorSpec

\* Every variable of the thread keeps its type; the task's failures stay below
\* twice the losses there may be.
THEOREM IngestorTypeCorrect == IngestorSpec => []IngestorTypeOK
  <1>1. TypeOK /\ HeartbeatInv /\ ThreadTypeOK => IngestorTypeOK
    BY DEF HeartbeatInv, ThreadTypeOK, IngestorTypeOK
  <1> QED BY <1>1, HeartbeatInvariant, IngestorImplementsFeed, FeedTypeCorrect, PTL

\* However many posts and sessions are lost, and in whatever order, the failures
\* counted in a row are at most twice the losses since the last success.
THEOREM FailuresExplainedHolds == IngestorSpec => []FailuresExplained
  <1>1. HeartbeatInv => FailuresExplained
    BY HeartbeatAssumption DEF HeartbeatInv, HeartbeatTypeOK, Owed, FailuresExplained
  <1> QED BY <1>1, HeartbeatInvariant, PTL
=============================================================================
