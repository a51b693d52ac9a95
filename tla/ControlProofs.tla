---------------------------- MODULE ControlProofs ----------------------------
(***************************************************************************)
(* The command listener handles no update twice, and none of a session     *)
(* before it, for every number and order of commands, polls that are lost, *)
(* crashes and restarts, as long as no flush fails.  The argument follows  *)
(* the update up to which everything was handled: the batch is always the  *)
(* run of updates behind it, and what a session that ended had handled but *)
(* not confirmed is within one poll of what is confirmed, so the next      *)
(* session's flush passes it.  The engine is paused as the last accepted   *)
(* order says: the channel between them keeps the orders' order.  The      *)
(* queue of redemptions loses no id while one redemption is under way at a *)
(* time: its task has them all, in the file or among the lines it writes.  *)
(***************************************************************************)
EXTENDS ControlPlane, SetProofs

\* The updates up to this one were handled or flushed.
Handled == Later(confirmed, last_update_id) - Len(batch)

BatchInv ==
    /\ listener \in {"handle", "restart"} <=> batch # <<>>
    /\ \A k \in 1..Len(batch) : batch[k] = last_update_id - Len(batch) + k
    /\ batch # <<>> => confirmed + Len(batch) <= last_update_id
    /\ last_update_id <= confirmed + PollLimit
    /\ listener = "flush" => last_update_id = 0

AnsweredInv ==
    ~unflushed =>
        \A i \in UpdateId : answers[i] # <<>> =>
            /\ Len(answers[i]) = 1
            /\ i <= Len(updates)
            /\ i <= confirmed + PollLimit
            /\ listener # "flush" => i <= Handled

StaleInv ==
    /\ process # "up" => listener = "flush"
    /\ old_updates \in 0..Len(updates)
    /\ MaxUpdates <= PollLimit /\ ~unflushed /\ listener # "flush" => old_updates <= Handled

CInv == ListenerTypeOK /\ BatchInv /\ AnsweredInv /\ StaleInv
-----------------------------------------------------------------------------
(* What a poll returns.                                                    *)

LEMMA FetchedIs ==
    ASSUME ListenerTypeOK
    PROVE  LET from == Later(confirmed, last_update_id)
           IN  \E m \in Nat :
                 /\ from + m <= Len(updates) /\ m <= PollLimit
                 /\ m = PollLimit \/ from + m = Len(updates)
                 /\ Fetched = [k \in 1..m |-> from + k]
                 /\ Fetched \in Seq(1..Len(updates)) /\ Len(Fetched) = m
                 /\ Fetched = <<>> <=> m = 0
                 /\ m > 0 => Last(Fetched) = from + m
                 /\ from \in confirmed..Len(updates) /\ last_update_id <= from
  <1> DEFINE from == Later(confirmed, last_update_id)
             n == Len(updates) - from
             m == IF n > PollLimit THEN PollLimit ELSE n
  <1>1. Len(updates) \in Nat
    BY DEF ListenerTypeOK
  <1>2. from \in confirmed..Len(updates) /\ last_update_id <= from /\ from \in Nat
    BY <1>1 DEF ListenerTypeOK, Later
  <1>3. /\ m \in Nat /\ from + m <= Len(updates) /\ m <= PollLimit
        /\ m = PollLimit \/ from + m = Len(updates)
    BY <1>1, <1>2, ListenerAssumption
  <1>4. Fetched = [k \in 1..m |-> from + k]
    BY DEF Fetched
  <1> HIDE DEF from, n, m
  <1>5. \A k \in 1..m : from + k \in 1..Len(updates)
    BY <1>1, <1>2, <1>3
  <1>6. Fetched \in Seq(1..Len(updates)) /\ Len(Fetched) = m
    BY <1>3, <1>4, <1>5
  <1>7. Fetched = <<>> <=> m = 0
    BY <1>3, <1>6
  <1>8. m > 0 => Last(Fetched) = from + m
    BY <1>3, <1>4, <1>6 DEF Last
  <1> QED BY <1>2, <1>3, <1>4, <1>6, <1>7, <1>8 DEF from
-----------------------------------------------------------------------------
(* The invariant.                                                          *)

LEMMA InitCInv == Init => CInv
  <1> SUFFICES ASSUME Init PROVE CInv
    OBVIOUS
  <1>1. ListenerTypeOK
    <2>1. updates \in Seq(Command) /\ Len(updates) = 0 /\ batch \in Seq(1..Len(updates))
          /\ inbox \in Seq(ControlEvent)
      BY DEF Init, ListenerInit, EngineInit
    <2>2. answers \in [UpdateId -> Seq(Answer)]
      BY DEF Init, ListenerInit
    <2>3. {config_loads, unflushed} \subseteq BOOLEAN
      BY DEF Init, ListenerInit
    <2>4. /\ confirmed \in 0..Len(updates) /\ last_update_id \in 0..Len(updates)
          /\ config_file \in 0..Len(updates) /\ Len(updates) <= MaxUpdates
      BY <2>1, ListenerAssumption DEF Init, ListenerInit
    <2>5. /\ listener \in {"flush", "poll", "handle", "restart"} /\ commanded \in BOOLEAN
          /\ loop \in {"running", "ending", "over"}
      BY DEF Init, ListenerInit, EngineInit
    <2> QED BY <2>1, <2>2, <2>3, <2>4, <2>5 DEF ListenerTypeOK
  <1>2. BatchInv
    BY ListenerAssumption DEF Init, ListenerInit, BatchInv
  <1>3. AnsweredInv
    BY DEF Init, ListenerInit, AnsweredInv
  <1>4. StaleInv
    BY DEF Init, ListenerInit, StaleInv
  <1> QED BY <1>1, <1>2, <1>3, <1>4 DEF CInv

\* The variables the invariant is about, but for updates, inbox and loop.
quietVars == <<confirmed, pollVars, listener, commanded, answers, configVars, unflushed>>

\* More commands may have been sent, and events taken from the channel.
LEMMA QuietCInv ==
    ASSUME CInv, UNCHANGED quietVars, UNCHANGED old_updates,
           \/ UNCHANGED updates
           \/ \E c \in Command : updates' = Append(updates, c) /\ Len(updates) < MaxUpdates,
           inbox' \in Seq(ControlEvent), loop' \in {"running", "ending", "over"},
           process' # "up" => listener = "flush"
    PROVE  CInv'
  <1>1. /\ updates' \in Seq(Command) /\ Len(updates') \in Nat
        /\ Len(updates) <= Len(updates') /\ Len(updates') <= MaxUpdates
    <2>1. updates \in Seq(Command) /\ Len(updates) \in Nat /\ Len(updates) <= MaxUpdates
      BY DEF CInv, ListenerTypeOK
    <2>2. CASE UNCHANGED updates
      BY <2>1, <2>2
    <2>3. ASSUME NEW c \in Command, updates' = Append(updates, c), Len(updates) < MaxUpdates
          PROVE  /\ updates' \in Seq(Command) /\ Len(updates') \in Nat
                 /\ Len(updates) <= Len(updates') /\ Len(updates') <= MaxUpdates
      BY <2>1, <2>3, ListenerAssumption
    <2> QED BY <2>2, <2>3
  <1>2. 0..Len(updates) \subseteq 0..Len(updates') /\ 1..Len(updates) \subseteq 1..Len(updates')
    BY <1>1 DEF CInv, ListenerTypeOK
  <1>3. batch \in Seq(1..Len(updates'))
    BY <1>1, <1>2 DEF CInv, ListenerTypeOK
  <1>4. ListenerTypeOK'
    BY <1>1, <1>2, <1>3 DEF CInv, ListenerTypeOK, quietVars, pollVars, configVars
  <1>5. BatchInv'
    BY DEF CInv, BatchInv, quietVars, pollVars
  <1>6. Handled' = Handled
    BY DEF quietVars, pollVars, Handled, Later
  <1>7. AnsweredInv'
    <2> SUFFICES ASSUME ~unflushed, NEW i \in UpdateId, answers[i] # <<>>
                 PROVE  /\ Len(answers[i]) = 1
                        /\ i <= Len(updates')
                        /\ i <= confirmed + PollLimit
                        /\ listener # "flush" => i <= Handled
      BY <1>6 DEF AnsweredInv, quietVars, pollVars
    <2>1. i \in Nat /\ i <= Len(updates)
      BY DEF CInv, AnsweredInv, UpdateId
    <2> QED BY <1>1, <2>1 DEF CInv, AnsweredInv, ListenerTypeOK
  <1>8. StaleInv'
    BY <1>2, <1>6 DEF CInv, StaleInv, quietVars
  <1> QED BY <1>4, <1>5, <1>7, <1>8 DEF CInv

\* A session that ends leaves what it handled within one poll of what is confirmed.
LEMMA ProcessEndsCInv == CInv /\ ProcessEnds => CInv'
  <1> SUFFICES ASSUME CInv, ProcessEnds PROVE CInv'
    OBVIOUS
  <1>0. /\ listener' = "flush" /\ last_update_id' = 0 /\ batch' = <<>> /\ commanded' = FALSE
        /\ inbox' = <<>> /\ loop' = "over"
        /\ UNCHANGED <<updates, confirmed, config_file, config_loads, answers, unflushed, old_updates>>
    BY DEF ProcessEnds, ListenerStarts, serverVars, configVars
  <1>t. ListenerTypeOK /\ Len(updates) \in Nat
    BY DEF CInv, ListenerTypeOK
  <1>1. ListenerTypeOK'
    <2>1. inbox' \in Seq(ControlEvent) /\ batch' \in Seq(1..Len(updates))
      BY <1>0
    <2>2. last_update_id' \in 0..Len(updates)
      BY <1>0, <1>t
    <2> QED BY <1>0, <1>t, <2>1, <2>2 DEF ListenerTypeOK
  <1>2. BatchInv'
    <2>1. 0 <= confirmed + PollLimit
      BY <1>t, ListenerAssumption DEF ListenerTypeOK
    <2> QED BY <1>0, <2>1 DEF BatchInv
  <1>3. AnsweredInv'
    BY <1>0 DEF CInv, AnsweredInv
  <1>4. StaleInv'
    BY <1>0 DEF CInv, StaleInv
  <1> QED BY <1>1, <1>2, <1>3, <1>4 DEF CInv

\* The flush passes everything an earlier session handled.
LEMMA FlushCInv ==
    ASSUME CInv, Flush, UNCHANGED <<loop, old_updates>>, process' = process, process = "up"
    PROVE  CInv'
  <1> DEFINE from == Later(confirmed, last_update_id)
  <1>t. ListenerTypeOK /\ Len(updates) \in Nat /\ confirmed \in 0..Len(updates)
        /\ confirmed \in Nat
    BY DEF CInv, ListenerTypeOK
  <1>0. /\ listener = "flush" /\ listener' = "poll" /\ PollUpdates
        /\ last_update_id = 0 /\ batch = <<>>
        /\ UNCHANGED <<updates, batch, commanded, answers, config_file, config_loads, unflushed, inbox>>
    BY DEF Flush, CInv, BatchInv, configVars
  <1>1. PICK m \in Nat :
           /\ from + m <= Len(updates) /\ m <= PollLimit
           /\ m = PollLimit \/ from + m = Len(updates)
           /\ Fetched = <<>> <=> m = 0
           /\ m > 0 => Last(Fetched) = from + m
    BY <1>t, FetchedIs
  <1>2. from = confirmed
    BY <1>0, <1>t DEF Later
  <1>3. confirmed' = confirmed /\ last_update_id' = IF m = 0 THEN 0 ELSE confirmed + m
    BY <1>0, <1>1, <1>2 DEF PollUpdates
  <1> DEFINE to == confirmed + m
  <1>4. to \in 0..Len(updates) /\ to \in Nat /\ confirmed <= to
    BY <1>1, <1>2, <1>t
  <1>5. Handled' = to
    <2>1. Later(confirmed, IF m = 0 THEN 0 ELSE confirmed + m) = to
      BY <1>t DEF Later
    <2>2. Handled' = to - 0
      BY <2>1, <1>0, <1>3 DEF Handled
    <2> QED BY <2>2, <1>4
  <1>6. ListenerTypeOK'
    <2>1. last_update_id' \in 0..Len(updates)
      BY <1>3, <1>4
    <2> QED BY <1>0, <1>t, <1>3, <2>1 DEF ListenerTypeOK
  <1>7. BatchInv'
    <2>1. (IF m = 0 THEN 0 ELSE confirmed + m) <= confirmed + PollLimit
      BY <1>1, <1>t, ListenerAssumption
    <2> QED BY <1>0, <1>3, <2>1 DEF BatchInv
  <1>8. \A i \in Nat : i <= Len(updates) /\ i <= confirmed + PollLimit => i <= to
    BY <1>1, <1>2, <1>t, ListenerAssumption
  <1>9. AnsweredInv'
    BY <1>0, <1>3, <1>5, <1>8 DEF CInv, AnsweredInv, UpdateId
  <1>10. StaleInv'
    <2>1. old_updates \in Nat /\ old_updates <= Len(updates)
      BY <1>t DEF CInv, StaleInv
    <2>2. MaxUpdates <= PollLimit => old_updates <= to
      <3>1. Len(updates) <= MaxUpdates
        BY <1>t DEF ListenerTypeOK
      <3>2. MaxUpdates <= PollLimit => old_updates <= confirmed + PollLimit
        BY <2>1, <3>1, <1>t, ListenerAssumption
      <3> QED BY <2>1, <3>2, <1>8
    <2> QED BY <1>0, <1>5, <2>2 DEF CInv, StaleInv
  <1> QED BY <1>6, <1>7, <1>9, <1>10 DEF CInv

\* Nothing is claimed once a flush has failed.
LEMMA FlushFailsCInv ==
    ASSUME CInv, FlushFails, UNCHANGED <<loop, old_updates>>, process' = process, process = "up"
    PROVE  CInv'
  <1>0. /\ listener = "flush" /\ listener' = "poll" /\ unflushed' = TRUE
        /\ UNCHANGED <<updates, confirmed, pollVars, commanded, answers, configVars, inbox>>
    BY DEF FlushFails, serverVars
  <1>1. ListenerTypeOK'
    BY <1>0 DEF CInv, ListenerTypeOK, pollVars, configVars
  <1>2. BatchInv'
    BY <1>0 DEF CInv, BatchInv, pollVars
  <1>3. AnsweredInv' /\ StaleInv'
    BY <1>0 DEF CInv, AnsweredInv, StaleInv
  <1> QED BY <1>1, <1>2, <1>3 DEF CInv

\* A poll fetches the updates behind those handled, and no other.
LEMMA PollCInv ==
    ASSUME CInv, Poll, UNCHANGED <<loop, old_updates>>, process' = process, process = "up"
    PROVE  CInv'
  <1> DEFINE from == Later(confirmed, last_update_id)
  <1>t. ListenerTypeOK /\ Len(updates) \in Nat /\ confirmed \in 0..Len(updates)
        /\ confirmed \in Nat /\ last_update_id \in Nat
    BY DEF CInv, ListenerTypeOK
  <1>0. /\ listener = "poll" /\ listener' = "handle" /\ PollUpdates
        /\ Fetched # <<>> /\ batch' = Fetched /\ batch = <<>>
        /\ UNCHANGED <<updates, commanded, answers, config_file, config_loads, unflushed, inbox>>
    BY DEF Poll, CInv, BatchInv, configVars
  <1>1. PICK m \in Nat :
           /\ from + m <= Len(updates) /\ m <= PollLimit
           /\ Fetched = [k \in 1..m |-> from + k]
           /\ Fetched \in Seq(1..Len(updates)) /\ Len(Fetched) = m
           /\ Fetched = <<>> <=> m = 0
           /\ m > 0 => Last(Fetched) = from + m
           /\ from \in confirmed..Len(updates) /\ last_update_id <= from
    BY <1>t, FetchedIs
  <1> DEFINE to == from + m
  <1>2. from \in Nat /\ confirmed <= from /\ m > 0 /\ to \in 0..Len(updates) /\ from <= to
    BY <1>0, <1>1, <1>t
  <1>3. confirmed' = from /\ last_update_id' = to /\ Len(batch') = m
    BY <1>0, <1>1, <1>2 DEF PollUpdates
  <1>4. Handled = from /\ Handled' = from
    <2>1. Handled = from - 0
      BY <1>0 DEF Handled
    <2>2. Later(from, to) = to /\ to - m = from
      BY <1>1, <1>2 DEF Later
    <2>3. Handled' = to - m
      BY <1>3, <2>2 DEF Handled
    <2> QED BY <2>1, <2>2, <2>3, <1>2
  <1>5. ListenerTypeOK'
    <2>1. confirmed' \in 0..Len(updates) /\ last_update_id' \in 0..Len(updates)
          /\ batch' \in Seq(1..Len(updates))
      BY <1>0, <1>1, <1>2, <1>3
    <2> QED BY <1>0, <1>t, <2>1 DEF ListenerTypeOK
  <1>6. BatchInv'
    <2>1. \A k \in 1..m : Fetched[k] = to - m + k
      BY <1>1, <1>2
    <2>2. from + m <= to /\ to <= from + PollLimit
      BY <1>1, <1>2, ListenerAssumption
    <2> QED BY <1>0, <1>3, <2>1, <2>2 DEF BatchInv
  <1>7. AnsweredInv'
    <2> SUFFICES ASSUME ~unflushed, NEW i \in UpdateId, answers[i] # <<>>
                 PROVE  /\ Len(answers[i]) = 1
                        /\ i <= Len(updates)
                        /\ i <= from + PollLimit
                        /\ i <= from
      BY <1>0, <1>3, <1>4 DEF AnsweredInv
    <2>1. /\ Len(answers[i]) = 1 /\ i <= Len(updates) /\ i <= from /\ i \in Nat
      BY <1>0, <1>4 DEF CInv, AnsweredInv, UpdateId
    <2> QED BY <2>1, <1>2, ListenerAssumption
  <1>8. StaleInv'
    BY <1>0, <1>4 DEF CInv, StaleInv
  <1> QED BY <1>5, <1>6, <1>7, <1>8 DEF CInv

\* A poll that is lost confirms what was handled before it.
LEMMA PollFailsCInv ==
    ASSUME CInv, PollFails, UNCHANGED <<loop, old_updates>>, process' = process, process = "up"
    PROVE  CInv'
  <1> DEFINE from == Later(confirmed, last_update_id)
  <1>t. ListenerTypeOK /\ Len(updates) \in Nat /\ confirmed \in Nat /\ last_update_id \in Nat
    BY DEF CInv, ListenerTypeOK
  <1>0. /\ listener = "poll" /\ confirmed' = from /\ batch = <<>>
        /\ UNCHANGED <<updates, last_update_id, batch, listener, commanded, answers, config_file,
                       config_loads, unflushed, inbox>>
    BY DEF PollFails, CInv, BatchInv, configVars, pollVars
  <1>1. /\ from \in 0..Len(updates) /\ from \in Nat
        /\ confirmed <= from /\ last_update_id <= from
    BY <1>t DEF ListenerTypeOK, Later
  <1>2. Handled = from /\ Handled' = from
    <2>1. Later(from, last_update_id) = from
      BY <1>1, <1>t DEF Later
    <2>2. Handled = from - 0 /\ Handled' = from - 0
      BY <1>0, <2>1 DEF Handled
    <2> QED BY <2>2, <1>1
  <1>3. ListenerTypeOK'
    BY <1>0, <1>1, <1>t DEF ListenerTypeOK
  <1>4. BatchInv'
    <2>1. last_update_id <= from + PollLimit
      BY <1>1, <1>t, ListenerAssumption
    <2> QED BY <1>0, <2>1 DEF CInv, BatchInv
  <1>5. AnsweredInv'
    <2> SUFFICES ASSUME ~unflushed, NEW i \in UpdateId, answers[i] # <<>>
                 PROVE  /\ Len(answers[i]) = 1
                        /\ i <= Len(updates)
                        /\ i <= from + PollLimit
                        /\ i <= from
      BY <1>0, <1>2 DEF AnsweredInv
    <2>1. /\ Len(answers[i]) = 1 /\ i <= Len(updates) /\ i <= from /\ i \in Nat
      BY <1>0, <1>2 DEF CInv, AnsweredInv, UpdateId
    <2> QED BY <2>1, <1>1, ListenerAssumption
  <1>6. StaleInv'
    BY <1>0, <1>2 DEF CInv, StaleInv
  <1> QED BY <1>3, <1>4, <1>5, <1>6 DEF CInv

\* An update of the batch gets its answer, and the next is taken.
Answered(a) == /\ listener \in {"handle", "restart"}
               /\ Says(a)
               /\ GoOn
               /\ UNCHANGED <<serverVars, last_update_id, unflushed>>

\* The update that is answered is the one behind those handled.
LEMMA CurrentIs ==
    ASSUME CInv, listener \in {"handle", "restart"}
    PROVE  /\ Len(batch) \in Nat \ {0} /\ Current = batch[1] /\ Current \in UpdateId
           /\ Current \in 1..Len(updates)
           /\ Handled \in Nat /\ Current = Handled + 1
           /\ Later(confirmed, last_update_id) = last_update_id
           /\ Handled = last_update_id - Len(batch)
           /\ ~unflushed => answers[Current] = <<>>
  <1>t. /\ ListenerTypeOK /\ Len(updates) \in Nat /\ confirmed \in Nat /\ last_update_id \in Nat
        /\ Len(updates) <= MaxUpdates
    BY DEF CInv, ListenerTypeOK
  <1>1. /\ batch # <<>> /\ batch \in Seq(1..Len(updates)) /\ Len(batch) \in Nat \ {0}
        /\ Current = batch[1] /\ batch[1] \in 1..Len(updates)
    BY DEF CInv, BatchInv, ListenerTypeOK, Current
  <1>2. confirmed + Len(batch) <= last_update_id /\ batch[1] = last_update_id - Len(batch) + 1
    BY <1>1 DEF CInv, BatchInv
  <1>3. Later(confirmed, last_update_id) = last_update_id
    BY <1>1, <1>2, <1>t DEF Later
  <1>4. Handled = last_update_id - Len(batch) /\ Handled \in Nat /\ Current = Handled + 1
    BY <1>1, <1>2, <1>3, <1>t DEF Handled
  <1>5. Current \in UpdateId
    BY <1>1, <1>t, ListenerAssumption DEF UpdateId
  <1>6. ~unflushed => answers[Current] = <<>>
    <2> SUFFICES ASSUME ~unflushed, answers[Current] # <<>> PROVE FALSE
      OBVIOUS
    <2>1. Current <= Handled
      BY <1>5 DEF CInv, AnsweredInv
    <2> QED BY <2>1, <1>4
  <1> QED BY <1>1, <1>3, <1>4, <1>5, <1>6

LEMMA AnsweredCInv ==
    ASSUME CInv, NEW a \in Answer, Answered(a), commanded' \in BOOLEAN,
           inbox' \in Seq(ControlEvent), process = "up",
           UNCHANGED <<configVars, loop, old_updates, process>>
    PROVE  CInv'
  <1>t. ListenerTypeOK /\ Len(updates) \in Nat /\ batch \in Seq(1..Len(updates))
    BY DEF CInv, ListenerTypeOK
  <1>0. /\ batch' = Tail(batch) /\ listener' = IF Len(batch) = 1 THEN "poll" ELSE "handle"
        /\ answers' = [answers EXCEPT ![Current] = Append(@, a)]
        /\ UNCHANGED <<updates, confirmed, last_update_id, unflushed, config_file,
                       config_loads, loop, old_updates, process>>
    BY DEF Answered, Says, GoOn, serverVars, configVars
  <1>1. /\ Len(batch) \in Nat \ {0} /\ Current \in UpdateId
        /\ Current \in 1..Len(updates)
        /\ Handled \in Nat /\ Current = Handled + 1
        /\ Later(confirmed, last_update_id) = last_update_id
        /\ Handled = last_update_id - Len(batch)
        /\ ~unflushed => answers[Current] = <<>>
    BY CurrentIs DEF Answered
  <1>2. /\ Tail(batch) \in Seq(1..Len(updates)) /\ Len(Tail(batch)) = Len(batch) - 1
        /\ \A k \in 1..(Len(batch) - 1) : Tail(batch)[k] = batch[k + 1]
    BY <1>1, <1>t
  <1>3. last_update_id \in Nat /\ confirmed \in Nat
    BY <1>t DEF ListenerTypeOK
  <1>4. Handled' = Current
    <2>1. Handled' = last_update_id - (Len(batch) - 1)
      BY <1>0, <1>1, <1>2 DEF Handled, Later
    <2>2. last_update_id - (Len(batch) - 1) = Handled + 1
      BY <1>1, <1>3
    <2> QED BY <2>1, <2>2, <1>1
  <1>5. ListenerTypeOK'
    <2>1. answers' \in [UpdateId -> Seq(Answer)]
      BY <1>0, <1>1 DEF CInv, ListenerTypeOK
    <2> QED BY <1>0, <1>2, <1>t, <2>1 DEF ListenerTypeOK
  <1>6. BatchInv'
    <2>1. listener' \in {"handle", "restart"} <=> Tail(batch) # <<>>
      <3>1. CASE Len(batch) = 1
        BY <1>0, <1>2, <3>1
      <3>2. CASE Len(batch) # 1
        <4>1. Len(Tail(batch)) # 0
          BY <1>1, <1>2, <3>2
        <4>2. Tail(batch) # <<>>
          <5>1. Len(<<>>) = 0
            OBVIOUS
          <5> QED BY <4>1, <5>1, Zenon
        <4> QED BY <1>0, <3>2, <4>2
      <3> QED BY <3>1, <3>2
    <2>2. \A k \in 1..Len(Tail(batch)) :
             Tail(batch)[k] = last_update_id - Len(Tail(batch)) + k
      <3> SUFFICES ASSUME NEW k \in 1..(Len(batch) - 1)
                   PROVE  batch[k + 1] = last_update_id - (Len(batch) - 1) + k
        BY <1>2
      <3>1. k + 1 \in 1..Len(batch)
        BY <1>1
      <3>2. batch[k + 1] = last_update_id - Len(batch) + (k + 1)
        BY <3>1 DEF CInv, BatchInv
      <3> QED BY <3>2, <1>1, <1>3
    <2>3. Tail(batch) # <<>> => confirmed + Len(Tail(batch)) <= last_update_id
      <3>1. confirmed + Len(batch) <= last_update_id
        BY DEF CInv, BatchInv, Answered
      <3> QED BY <3>1, <1>1, <1>2, <1>3
    <2>4. last_update_id <= confirmed + PollLimit /\ listener' # "flush"
      BY <1>0 DEF CInv, BatchInv
    <2> QED BY <1>0, <2>1, <2>2, <2>3, <2>4 DEF BatchInv
  <1>7. AnsweredInv'
    <2> SUFFICES ASSUME ~unflushed, NEW i \in UpdateId, answers'[i] # <<>>
                 PROVE  /\ Len(answers'[i]) = 1
                        /\ i <= Len(updates)
                        /\ i <= confirmed + PollLimit
                        /\ i <= Current
      BY <1>0, <1>4 DEF AnsweredInv
    <2>1. CASE i = Current
      <3>1. answers'[i] = Append(<<>>, a)
        BY <1>0, <1>1, <2>1 DEF CInv, ListenerTypeOK
      <3>2. Len(answers'[i]) = 1
        BY <3>1
      <3>3. Handled + 1 <= last_update_id
        BY <1>1, <1>3
      <3>4. last_update_id <= confirmed + PollLimit
        BY DEF CInv, BatchInv
      <3>5. Current <= confirmed + PollLimit
        BY <1>1, <1>3, <3>3, <3>4, ListenerAssumption
      <3>6. Current \in Nat /\ Current <= Len(updates)
        BY <1>1, <1>t
      <3> QED BY <2>1, <3>2, <3>5, <3>6
    <2>2. CASE i # Current
      <3>1. answers'[i] = answers[i]
        BY <1>0, <2>2 DEF CInv, ListenerTypeOK
      <3>2. /\ Len(answers[i]) = 1 /\ i <= Len(updates) /\ i <= confirmed + PollLimit
            /\ i <= Handled /\ i \in Nat
        BY <3>1 DEF CInv, AnsweredInv, Answered, UpdateId
      <3> QED BY <1>1, <3>1, <3>2
    <2> QED BY <2>1, <2>2
  <1>8. StaleInv'
    <2>1. old_updates \in Nat
      BY <1>t DEF CInv, StaleInv
    <2>2. MaxUpdates <= PollLimit /\ ~unflushed => old_updates <= Current
      BY <2>1, <1>1 DEF CInv, StaleInv, Answered
    <2> QED BY <1>0, <1>4, <2>2 DEF CInv, StaleInv
  <1> QED BY <1>5, <1>6, <1>7, <1>8 DEF CInv

\* /set keeps its update until the engine is asked to restart.
LEMMA HandleSetCInv ==
    ASSUME CInv, HandleSet, UNCHANGED <<loop, old_updates>>, process' = process, process = "up"
    PROVE  CInv'
  <1>t. ListenerTypeOK /\ Len(updates) \in Nat
    BY DEF CInv, ListenerTypeOK
  <1>0. /\ listener = "handle" /\ listener' = "restart" /\ config_file' = Current
        /\ config_loads' \in BOOLEAN /\ commanded' = TRUE
        /\ UNCHANGED <<updates, confirmed, last_update_id, batch, answers, unflushed, inbox>>
    BY DEF HandleSet, Taking, serverVars, pollVars
  <1>1. Current \in 0..Len(updates)
    BY <1>0, <1>t, CurrentIs
  <1>2. Handled' = Handled
    BY <1>0 DEF Handled, Later
  <1>3. ListenerTypeOK'
    BY <1>0, <1>1, <1>t DEF ListenerTypeOK
  <1>4. BatchInv'
    BY <1>0 DEF CInv, BatchInv
  <1>5. AnsweredInv' /\ StaleInv'
    BY <1>0, <1>2 DEF CInv, AnsweredInv, StaleInv
  <1> QED BY <1>3, <1>4, <1>5 DEF CInv

LEMMA TrySendTyped ==
    ASSUME ListenerTypeOK, NEW event \in ControlEvent, TrySend(event)
    PROVE  inbox' \in Seq(ControlEvent) /\ \E a \in Answer : Says(a)
  <1>1. inbox \in Seq(ControlEvent)
    BY DEF ListenerTypeOK
  <1>2. "accepted" \in Answer /\ "refused" \in Answer
    BY DEF Answer
  <1>3. inbox' = inbox \/ inbox' = Append(inbox, event)
    BY DEF TrySend
  <1> QED BY <1>1, <1>2, <1>3 DEF TrySend

LEMMA ListenerCInv ==
    ASSUME CInv, ListenerNext \/ HandleRedeem, process = "up",
           UNCHANGED <<loop, old_updates, process>>
    PROVE  CInv'
  <1>t. ListenerTypeOK /\ inbox \in Seq(ControlEvent) /\ commanded \in BOOLEAN
    BY DEF CInv, ListenerTypeOK
  <1>a. {"accepted", "refused", "ignored", "spawned"} = Answer
    BY DEF Answer
  <1>1. CASE Flush \/ FlushFails \/ Poll \/ PollFails \/ HandleSet
    BY <1>1, FlushCInv, FlushFailsCInv, PollCInv, PollFailsCInv, HandleSetCInv
  <1>2. CASE Ignore \/ RateLimit \/ RefuseSet \/ HandleRedeem
    <2>1. \E a \in Answer : Answered(a)
      BY <1>2, <1>a DEF Ignore, RateLimit, RefuseSet, HandleRedeem, Taking, Answered
    <2>2. /\ commanded' \in BOOLEAN /\ inbox' \in Seq(ControlEvent) /\ UNCHANGED configVars
      BY <1>2, <1>t DEF Ignore, RateLimit, RefuseSet, HandleRedeem
    <2> QED BY <2>1, <2>2, AnsweredCInv
  <1>3. CASE HandleControl
    <2>1. PICK c \in Critical : Taking(c) /\ TrySend(EventOf[c])
      BY <1>3 DEF HandleControl
    <2>2. EventOf[c] \in ControlEvent
      BY DEF Critical, EventOf, ControlEvent
    <2>3. inbox' \in Seq(ControlEvent) /\ \E a \in Answer : Says(a)
      BY <1>t, <2>1, <2>2, TrySendTyped
    <2>4. listener = "handle" /\ GoOn /\ UNCHANGED <<serverVars, last_update_id, unflushed>>
          /\ commanded' \in BOOLEAN /\ UNCHANGED configVars
      BY <1>3, <2>1 DEF HandleControl, Taking
    <2>5. \E a \in Answer : Answered(a)
      BY <2>3, <2>4 DEF Answered
    <2> QED BY <2>3, <2>4, <2>5, AnsweredCInv
  <1>4. CASE SendRestart
    <2>1. inbox' \in Seq(ControlEvent) /\ \E a \in Answer : Says(a)
      BY <1>4, <1>t, TrySendTyped DEF SendRestart, ControlEvent
    <2>2. listener = "restart" /\ GoOn /\ UNCHANGED <<serverVars, last_update_id, unflushed>>
          /\ commanded' \in BOOLEAN /\ UNCHANGED configVars
      BY <1>4, <1>t DEF SendRestart
    <2>3. \E a \in Answer : Answered(a)
      BY <2>1, <2>2 DEF Answered
    <2> QED BY <2>1, <2>2, <2>3, AnsweredCInv
  <1> QED BY <1>1, <1>2, <1>3, <1>4 DEF ListenerNext

\* The engine takes events from the channel and ends its loop.
LEMMA EngineCInv == CInv /\ EngineStep => CInv'
  <1> SUFFICES ASSUME CInv, EngineStep PROVE CInv'
    OBVIOUS
  <1>1. process = "up" /\ EngineNext /\ UNCHANGED <<listenerVars, processVars>>
    BY DEF EngineStep, InEngine
  <1>2. inbox \in Seq(ControlEvent) /\ loop \in {"running", "ending", "over"}
    BY DEF CInv, ListenerTypeOK
  <1>3. loop' \in {"running", "ending", "over"}
    BY <1>1, <1>2
    DEF EngineNext, OnControlEvent, OnDrain, OnPause, OnResume, OnEvent, LoopOver, Finish
  <1>4. inbox' \in Seq(ControlEvent)
    <2>1. inbox' = inbox \/ (inbox # <<>> /\ inbox' = Tail(inbox))
      BY <1>1 DEF EngineNext, OnControlEvent, OnDrain, OnPause, OnResume, OnEvent, LoopOver, Take
    <2> QED BY <1>2, <2>1
  <1> QED BY <1>1, <1>3, <1>4, QuietCInv
          DEF listenerVars, serverVars, quietVars, processVars

\* A new process starts with the flush.
LEMMA ProcessStartsCInv == CInv /\ ProcessStarts => CInv'
  <1> SUFFICES ASSUME CInv, ProcessStarts PROVE CInv'
    OBVIOUS
  <1>0. /\ process # "up" /\ process' = "up" /\ old_updates' = Len(updates) /\ loop' = "running"
        /\ UNCHANGED <<listenerVars, inbox>>
    BY DEF ProcessStarts
  <1>1. listener = "flush" /\ Len(updates) \in 0..Len(updates)
    BY <1>0 DEF CInv, StaleInv, ListenerTypeOK
  <1>2. ListenerTypeOK'
    BY <1>0 DEF CInv, ListenerTypeOK, listenerVars, serverVars, pollVars, configVars
  <1>3. BatchInv'
    BY <1>0 DEF CInv, BatchInv, listenerVars, serverVars, pollVars
  <1>4. AnsweredInv' /\ StaleInv'
    BY <1>0, <1>1 DEF CInv, AnsweredInv, StaleInv, listenerVars, serverVars, pollVars
  <1> QED BY <1>2, <1>3, <1>4 DEF CInv

LEMMA NextCInv == CInv /\ [Next]_vars => CInv'
  <1> SUFFICES ASSUME CInv, [Next]_vars PROVE CInv'
    OBVIOUS
  <1>t. inbox \in Seq(ControlEvent) /\ loop \in {"running", "ending", "over"}
        /\ (process # "up" => listener = "flush")
    BY DEF CInv, ListenerTypeOK, StaleInv
  <1> USE DEF listenerVars, quietVars, processVars
  <1>1. CASE OperatorSends
    BY <1>1, <1>t, QuietCInv DEF OperatorSends, Send
  <1>2. CASE ListenerStep
    BY <1>2, ListenerCInv DEF ListenerStep
  <1>3. CASE RedeemStep
    <2>1. CASE HandleRedeem
      BY <1>3, <2>1, ListenerCInv DEF RedeemStep
    <2>2. CASE ~HandleRedeem
      BY <1>3, <1>t, <2>2, QuietCInv DEF RedeemStep, serverVars
    <2> QED BY <2>1, <2>2
  <1>4. CASE EngineStep
    BY <1>4, EngineCInv
  <1>5. CASE WatcherStep
    BY <1>5, <1>t, QuietCInv DEF WatcherStep, serverVars
  <1>6. CASE ProcessEnds
    BY <1>6, ProcessEndsCInv
  <1>7. CASE ProcessStarts
    BY <1>7, ProcessStartsCInv
  <1>8. CASE ProcessFails
    BY <1>8, <1>t, QuietCInv DEF ProcessFails, serverVars
  <1>9. CASE UNCHANGED vars
    BY <1>9, <1>t, QuietCInv DEF vars, serverVars
  <1> QED BY <1>1, <1>2, <1>3, <1>4, <1>5, <1>6, <1>7, <1>8, <1>9 DEF Next

THEOREM ControlInvariant == Spec => []CInv
  BY InitCInv, NextCInv, PTL DEF Spec
-----------------------------------------------------------------------------
(* What the listener promises.                                             *)

\* No update is carried out twice, whatever is lost and whenever the process ends,
\* unless a flush failed.
THEOREM HandledOnceHolds == Spec => []HandledOnce
  <1>1. CInv => HandledOnce
    <2> SUFFICES ASSUME CInv, NEW i \in UpdateId, Len(answers[i]) > 1, ~unflushed PROVE FALSE
      BY DEF HandledOnce, CInv, ListenerTypeOK
    <2>1. answers[i] # <<>>
      OBVIOUS
    <2>2. Len(answers[i]) = 1
      BY <2>1 DEF CInv, AnsweredInv
    <2> QED BY <2>2
  <1> QED BY <1>1, ControlInvariant, PTL

\* What a session handles was sent after it had started: no poll's limit is below
\* what may be pending, and no flush failed.
THEOREM StaleNotProcessedHolds ==
    ASSUME MaxUpdates <= PollLimit PROVE Spec => StaleNotProcessed
  <1>1. CInv /\ [Next]_vars =>
          [\A i \in UpdateId : answers'[i] # answers[i] => i > old_updates \/ unflushed]_vars
    <2> SUFFICES ASSUME CInv, Next, NEW i \in UpdateId, answers'[i] # answers[i], ~unflushed
                 PROVE  i > old_updates
      OBVIOUS
    <2>1. listener \in {"handle", "restart"} /\ \E a \in Answer : Says(a)
      <3>1. answers' # answers
        OBVIOUS
      <3>2. ListenerNext \/ HandleRedeem
        BY <3>1 DEF Next, OperatorSends, Send, ListenerStep, RedeemStep, EngineStep, InEngine,
               WatcherStep, ProcessEnds, ProcessStarts, ProcessFails, listenerVars
      <3>3. "accepted" \in Answer /\ "refused" \in Answer /\ "ignored" \in Answer /\ "spawned" \in Answer
        BY DEF Answer
      <3> QED BY <3>1, <3>2, <3>3
              DEF ListenerNext, Flush, FlushFails, Poll, PollFails, Ignore, RateLimit, HandleControl,
                  HandleSet, RefuseSet, SendRestart, HandleRedeem, Taking, TrySend
    <2>2. i = Current
      BY <2>1 DEF Says, CInv, ListenerTypeOK
    <2>3. Current = Handled + 1 /\ Handled \in Nat
      BY <2>1, CurrentIs
    <2>4. old_updates <= Handled /\ old_updates \in Nat
      BY <2>1 DEF CInv, StaleInv, ListenerTypeOK
    <2> QED BY <2>2, <2>3, <2>4
  <1> QED BY <1>1, ControlInvariant, PTL DEF Spec, StaleNotProcessed
-----------------------------------------------------------------------------
(* Pausing.                                                                *)

Pausing == {"pause", "resume"}

\* Whether an engine with this flag is paused once it has read the channel.
PausedAfter(channel, flag) ==
    IF \E k \in 1..Len(channel) : channel[k] \in Pausing
    THEN \E k \in 1..Len(channel) :
            channel[k] = "pause" /\ \A l \in 1..Len(channel) : channel[l] \in Pausing => l <= k
    ELSE flag

\* The /stop and /resume this session accepted, and whether the last was a /stop.
Obeyed == {i \in UpdateId : /\ i > old_updates /\ answers[i] = <<"accepted">>
                            /\ updates[i] \in {"stop", "resume"}}
StopWanted == \E i \in Obeyed : updates[i] = "stop" /\ \A j \in Obeyed : j <= i

PauseInv ==
    /\ paused \in BOOLEAN
    /\ process # "up" => inbox = <<>> /\ ~paused
    /\ listener = "restart" => updates[Current] = "set"
    /\ process = "up" /\ loop = "running" /\ ~unflushed =>
          (PausedAfter(inbox, paused) <=> StopWanted)

LEMMA PausedNone ==
    ASSUME NEW flag \in BOOLEAN
    PROVE  PausedAfter(<<>>, flag) <=> flag
  BY DEF PausedAfter

LEMMA PausedAppend ==
    ASSUME NEW q \in Seq(ControlEvent), NEW e \in ControlEvent, NEW flag \in BOOLEAN
    PROVE  PausedAfter(Append(q, e), flag)
              <=> IF e \in Pausing THEN e = "pause" ELSE PausedAfter(q, flag)
  <1> DEFINE r == Append(q, e)
             n == Len(q)
  <1>1. /\ n \in Nat /\ Len(r) = n + 1 /\ r[n + 1] = e
        /\ \A k \in 1..n : r[k] = q[k]
        /\ \A k \in 1..(n + 1) : k \in 1..n \/ k = n + 1
        /\ \A k \in 1..n : k \in 1..(n + 1) /\ k <= n + 1 /\ ~(n + 1 <= k)
        /\ n + 1 \in 1..(n + 1) /\ n + 1 <= n + 1
    OBVIOUS
  <1> HIDE DEF r, n
  <1>2. CASE e \in Pausing
    BY <1>1, <1>2 DEF PausedAfter
  <1>3. CASE e \notin Pausing
    <2>1. e # "pause"
      BY <1>3 DEF Pausing
    <2>2. (\E k \in 1..(n + 1) : r[k] \in Pausing) <=> \E k \in 1..n : q[k] \in Pausing
      BY <1>1, <1>3
    <2>3. ASSUME NEW k \in 1..n
          PROVE  (\A l \in 1..(n + 1) : r[l] \in Pausing => l <= k)
                    <=> \A l \in 1..n : q[l] \in Pausing => l <= k
      BY <1>1, <1>3
    <2>4. (\E k \in 1..(n + 1) :
              r[k] = "pause" /\ \A l \in 1..(n + 1) : r[l] \in Pausing => l <= k)
             <=> \E k \in 1..n : q[k] = "pause" /\ \A l \in 1..n : q[l] \in Pausing => l <= k
      BY <1>1, <2>1, <2>3
    <2> QED
      BY <1>1, <1>3, <2>2, <2>4 DEF PausedAfter, n
  <1> QED
    BY <1>2, <1>3 DEF r

LEMMA PausedTail ==
    ASSUME NEW q \in Seq(ControlEvent), q # <<>>, NEW flag \in BOOLEAN
    PROVE  PausedAfter(q, flag)
              <=> PausedAfter(Tail(q), IF Head(q) \in Pausing THEN Head(q) = "pause" ELSE flag)
  <1> DEFINE r == Tail(q)
             n == Len(r)
             e == Head(q)
             mark == IF e \in Pausing THEN e = "pause" ELSE flag
  <1>1. /\ n \in Nat /\ Len(q) = n + 1 /\ q[1] = e
        /\ \A k \in 1..n : q[k + 1] = r[k]
        /\ \A k \in 1..(n + 1) : k = 1 \/ (k - 1 \in 1..n /\ q[k] = r[k - 1])
        /\ \A k \in 1..n : k + 1 \in 1..(n + 1) /\ ~(k + 1 <= 1) /\ 1 <= k + 1
        /\ \A k, l \in 1..n : k + 1 <= l + 1 <=> k <= l
        /\ 1 \in 1..(n + 1) /\ 1 <= 1
    OBVIOUS
  <1>e. mark \in BOOLEAN
    OBVIOUS
  <1> SUFFICES PausedAfter(q, flag) <=> PausedAfter(r, mark)
    OBVIOUS
  <1> HIDE DEF r, n, e, mark
  <1>2. CASE \E k \in 1..n : r[k] \in Pausing
    <2>1. \E k \in 1..(n + 1) : q[k] \in Pausing
      BY <1>1, <1>2
    <2>2. ASSUME NEW k \in 1..n
          PROVE  (\A l \in 1..(n + 1) : q[l] \in Pausing => l <= k + 1)
                    <=> \A l \in 1..n : r[l] \in Pausing => l <= k
      <3>1. ASSUME \A l \in 1..(n + 1) : q[l] \in Pausing => l <= k + 1, NEW l \in 1..n,
                   r[l] \in Pausing
            PROVE  l <= k
        BY <1>1, <3>1
      <3>2. ASSUME \A l \in 1..n : r[l] \in Pausing => l <= k, NEW l \in 1..(n + 1),
                   q[l] \in Pausing
            PROVE  l <= k + 1
        <4>1. CASE l = 1
          BY <1>1, <4>1
        <4>2. CASE l # 1
          <5>1. l - 1 \in 1..n /\ q[l] = r[l - 1]
            BY <1>1, <4>2
          <5>2. l - 1 <= k
            BY <3>2, <5>1
          <5> QED
            BY <5>2
        <4> QED
          BY <4>1, <4>2
      <3> QED
        BY <3>1, <3>2
    <2>3. ~ \A l \in 1..(n + 1) : q[l] \in Pausing => l <= 1
      BY <1>1, <1>2
    <2>4. ASSUME NEW k \in 1..(n + 1), q[k] = "pause",
                 \A l \in 1..(n + 1) : q[l] \in Pausing => l <= k
          PROVE  \E m \in 1..n : r[m] = "pause" /\ \A l \in 1..n : r[l] \in Pausing => l <= m
      <3>1. k # 1
        BY <2>3, <2>4
      <3>2. k - 1 \in 1..n /\ r[k - 1] = "pause" /\ (k - 1) + 1 = k
        BY <1>1, <2>4, <3>1
      <3>3. \A l \in 1..n : r[l] \in Pausing => l <= k - 1
        BY <2>2, <2>4, <3>2
      <3> QED
        BY <3>2, <3>3
    <2>5. ASSUME NEW m \in 1..n, r[m] = "pause", \A l \in 1..n : r[l] \in Pausing => l <= m
          PROVE  \E k \in 1..(n + 1) :
                    q[k] = "pause" /\ \A l \in 1..(n + 1) : q[l] \in Pausing => l <= k
      <3>1. m + 1 \in 1..(n + 1) /\ q[m + 1] = "pause"
        BY <1>1, <2>5
      <3>2. \A l \in 1..(n + 1) : q[l] \in Pausing => l <= m + 1
        BY <2>2, <2>5
      <3> QED
        BY <3>1, <3>2
    <2> QED
      BY <1>1, <1>2, <2>1, <2>4, <2>5 DEF PausedAfter, n
  <1>3. CASE ~ \E k \in 1..n : r[k] \in Pausing
    <2>1. PausedAfter(r, mark) <=> mark
      BY <1>3, <1>e DEF PausedAfter, n
    <2>2. \A k \in 1..(n + 1) : q[k] \in Pausing => k = 1
      BY <1>1, <1>3
    <2>3. CASE e \in Pausing
      <3>1. \E k \in 1..(n + 1) : q[k] \in Pausing
        BY <1>1, <2>3
      <3>2. "pause" \in Pausing
        BY DEF Pausing
      <3>3. (\E k \in 1..(n + 1) :
                q[k] = "pause" /\ \A l \in 1..(n + 1) : q[l] \in Pausing => l <= k)
               <=> e = "pause"
        <4>1. \A l \in 1..(n + 1) : q[l] \in Pausing => l <= 1
          BY <1>1, <2>2
        <4>2. \A k \in 1..(n + 1) : q[k] = "pause" => q[k] = e
          BY <1>1, <2>2, <3>2
        <4> QED
          BY <1>1, <4>1, <4>2
      <3>4. PausedAfter(q, flag) <=> e = "pause"
        BY <1>1, <3>1, <3>3 DEF PausedAfter
      <3> QED
        BY <2>1, <2>3, <3>4 DEF mark
    <2>4. CASE e \notin Pausing
      <3>1. ~ \E k \in 1..(n + 1) : q[k] \in Pausing
        BY <1>1, <2>2, <2>4
      <3>2. PausedAfter(q, flag) <=> flag
        BY <1>1, <3>1 DEF PausedAfter
      <3> QED
        BY <2>1, <2>4, <3>2 DEF mark
    <2> QED
      BY <2>3, <2>4
  <1> QED
    BY <1>2, <1>3

\* While no update is answered, the orders obeyed are the same, whatever is sent.
LEMMA StopWantedQuiet ==
    ASSUME CInv, ~unflushed, UNCHANGED <<answers, old_updates>>,
           UNCHANGED updates \/ \E c \in Command : updates' = Append(updates, c)
    PROVE  StopWanted' <=> StopWanted
  <1>1. \A i \in UpdateId : answers[i] = <<"accepted">> => updates'[i] = updates[i]
    <2> SUFFICES ASSUME NEW i \in UpdateId, answers[i] = <<"accepted">>
                 PROVE  updates'[i] = updates[i]
      OBVIOUS
    <2>1. answers[i] # <<>>
      OBVIOUS
    <2>2. i <= Len(updates) /\ i \in UpdateId
      BY <2>1 DEF CInv, AnsweredInv
    <2>3. updates \in Seq(Command) /\ Len(updates) \in Nat /\ i \in 1..Len(updates)
      BY <2>2 DEF CInv, ListenerTypeOK, UpdateId
    <2> QED
      BY <2>3
  <1>2. Obeyed' = Obeyed
    BY <1>1 DEF Obeyed
  <1>3. \A i \in Obeyed : updates'[i] = updates[i]
    BY <1>1 DEF Obeyed
  <1> QED
    BY <1>2, <1>3 DEF StopWanted

\* An order that is accepted comes after all that were obeyed.
LEMMA StopWantedAnswered ==
    ASSUME CInv, ~unflushed, MaxUpdates <= PollLimit, NEW a \in Answer, Answered(a),
           UNCHANGED old_updates
    PROVE  StopWanted' <=> IF a = "accepted" /\ updates[Current] \in {"stop", "resume"}
                           THEN updates[Current] = "stop" ELSE StopWanted
  <1> DEFINE now == Current
             order == a = "accepted" /\ updates[now] \in {"stop", "resume"}
  <1>1. /\ now \in UpdateId /\ now \in Nat /\ Handled \in Nat /\ now = Handled + 1
        /\ answers[now] = <<>>
    BY CurrentIs DEF Answered, UpdateId
  <1>2. old_updates \in Nat /\ now > old_updates
    BY <1>1 DEF CInv, StaleInv, ListenerTypeOK, Answered
  <1>3. /\ UNCHANGED updates
        /\ \A i \in UpdateId : answers'[i] = IF i = now THEN <<a>> ELSE answers[i]
    BY <1>1 DEF Answered, Says, serverVars, CInv, ListenerTypeOK
  <1>4. \A i \in Obeyed : i \in Nat /\ i < now /\ i <= now /\ ~(now <= i)
    <2> SUFFICES ASSUME NEW i \in Obeyed PROVE i \in Nat /\ i < now
      BY <1>1
    <2>1. i \in UpdateId /\ i \in Nat /\ answers[i] # <<>>
      BY DEF Obeyed, UpdateId
    <2>2. i <= Handled
      BY <2>1 DEF CInv, AnsweredInv, Answered
    <2> QED
      BY <1>1, <2>1, <2>2
  <1>5. <<a>> = <<"accepted">> <=> a = "accepted"
    OBVIOUS
  <1>6. Obeyed' = IF order THEN Obeyed \cup {now} ELSE Obeyed
    <2>1. answers[now] # <<"accepted">>
      BY <1>1
    <2> HIDE DEF now
    <2> QED
      BY <1>1, <1>2, <1>3, <1>5, <2>1 DEF Obeyed
  <1> HIDE DEF now
  <1>7. CASE order
    <2>1. now <= now
      BY <1>1
    <2> QED
      BY <1>3, <1>4, <1>6, <1>7, <2>1 DEF StopWanted, now
  <1>8. CASE ~order
    BY <1>3, <1>6, <1>8 DEF StopWanted, now
  <1> QED
    BY <1>7, <1>8

LEMMA InitPauseInv == Init => PauseInv
  <1> SUFFICES ASSUME Init PROVE PauseInv
    OBVIOUS
  <1>1. inbox = <<>> /\ paused = FALSE /\ process = "up" /\ listener = "flush"
    BY DEF Init, EngineInit, ListenerInit
  <1>2. Obeyed = {}
    BY DEF Init, ListenerInit, Obeyed
  <1>3. PausedAfter(inbox, paused) <=> FALSE
    BY <1>1, PausedNone
  <1> QED
    BY <1>1, <1>2, <1>3 DEF PauseInv, StopWanted

\* A step that neither answers an update nor takes an event.
LEMMA QuietPauseInv ==
    ASSUME CInv, PauseInv, UNCHANGED <<answers, old_updates, inbox, paused, process>>,
           UNCHANGED updates \/ \E c \in Command : updates' = Append(updates, c),
           loop' = "running" => loop = "running", unflushed => unflushed',
           listener' = "restart" => UNCHANGED <<listener, batch>>
    PROVE  PauseInv'
  <1>1. listener' = "restart" => updates'[Current'] = "set"
    <2> SUFFICES ASSUME listener' = "restart" PROVE updates'[Current'] = "set"
      OBVIOUS
    <2>1. Current' = Current /\ listener = "restart"
      BY DEF Current
    <2>2. Current \in 1..Len(updates) /\ updates \in Seq(Command)
      BY <2>1, CurrentIs DEF CInv, ListenerTypeOK
    <2>3. updates'[Current] = updates[Current]
      BY <2>2
    <2> QED
      BY <2>1, <2>3 DEF PauseInv
  <1>2. ~unflushed => (StopWanted' <=> StopWanted)
    BY StopWantedQuiet
  <1> QED
    BY <1>1, <1>2 DEF PauseInv

\* An order that is accepted is the last event of the channel; no other answer
\* puts an order there.
LEMMA AnsweredPauseInv ==
    ASSUME CInv, PauseInv, MaxUpdates <= PollLimit, process = "up",
           NEW a \in Answer, Answered(a), NEW e \in ControlEvent,
           UNCHANGED <<old_updates, paused, process, loop>>,
           \/ /\ UNCHANGED inbox
              /\ a # "accepted" \/ updates[Current] \notin {"stop", "resume"}
           \/ /\ inbox' = Append(inbox, e) /\ a = "accepted"
              /\ e = "pause" <=> updates[Current] = "stop"
              /\ e = "resume" <=> updates[Current] = "resume"
    PROVE  PauseInv'
  <1>1. inbox \in Seq(ControlEvent) /\ paused \in BOOLEAN
    BY DEF CInv, ListenerTypeOK, PauseInv
  <1>2. listener' # "restart" /\ unflushed' = unflushed
    BY DEF Answered, GoOn
  <1>3. ~unflushed => (StopWanted' <=> IF a = "accepted" /\ updates[Current] \in {"stop", "resume"}
                                       THEN updates[Current] = "stop" ELSE StopWanted)
    BY StopWantedAnswered
  <1>4. PausedAfter(Append(inbox, e), paused)
           <=> IF e \in Pausing THEN e = "pause" ELSE PausedAfter(inbox, paused)
    BY <1>1, PausedAppend
  <1>5. CASE UNCHANGED inbox /\ (a # "accepted" \/ updates[Current] \notin {"stop", "resume"})
    BY <1>2, <1>3, <1>5 DEF PauseInv
  <1>6. CASE /\ inbox' = Append(inbox, e) /\ a = "accepted"
             /\ e = "pause" <=> updates[Current] = "stop"
             /\ e = "resume" <=> updates[Current] = "resume"
    <2>1. e \in Pausing <=> updates[Current] \in {"stop", "resume"}
      BY <1>6 DEF Pausing
    <2> QED
      BY <1>2, <1>3, <1>4, <1>6, <2>1 DEF PauseInv
  <1> QED
    BY <1>5, <1>6

LEMMA ListenerPauseInv ==
    ASSUME CInv, PauseInv, MaxUpdates <= PollLimit, ListenerNext \/ HandleRedeem,
           process = "up", UNCHANGED <<old_updates, paused, process, loop>>
    PROVE  PauseInv'
  <1>a. {"accepted", "refused", "ignored", "spawned"} = Answer
        /\ {"pause", "resume", "shutdown", "restart"} = ControlEvent
    BY DEF Answer, ControlEvent
  <1>1. CASE Flush \/ FlushFails \/ Poll \/ PollFails
    BY <1>1, QuietPauseInv DEF Flush, FlushFails, Poll, PollFails, serverVars, pollVars
  <1>2. CASE HandleSet
    <2>1. /\ UNCHANGED <<updates, answers, unflushed, inbox, batch>> /\ updates[Current] = "set"
          /\ Current' = Current
      BY <1>2 DEF HandleSet, Taking, serverVars, pollVars, Current
    <2>2. ~unflushed => (StopWanted' <=> StopWanted)
      BY <2>1, StopWantedQuiet
    <2> QED
      BY <2>1, <2>2 DEF PauseInv
  <1>3. CASE Ignore \/ RateLimit \/ RefuseSet \/ HandleRedeem
    <2>1. \E a \in Answer : Answered(a) /\ a # "accepted"
      BY <1>3, <1>a DEF Ignore, RateLimit, RefuseSet, HandleRedeem, Taking, Answered
    <2>2. UNCHANGED inbox
      BY <1>3 DEF Ignore, RateLimit, RefuseSet, HandleRedeem
    <2>3. "pause" \in ControlEvent
      BY <1>a
    <2> QED
      BY <2>1, <2>2, <2>3, AnsweredPauseInv
  <1>4. CASE HandleControl
    <2>1. PICK c \in Critical : Taking(c) /\ TrySend(EventOf[c])
      BY <1>4 DEF HandleControl
    <2>2. /\ EventOf[c] \in ControlEvent
          /\ EventOf[c] = "pause" <=> c = "stop"
          /\ EventOf[c] = "resume" <=> c = "resume"
      BY DEF Critical, EventOf, ControlEvent
    <2>3. updates[Current] = c /\ listener = "handle"
          /\ GoOn /\ UNCHANGED <<serverVars, last_update_id, unflushed>>
      BY <1>4, <2>1 DEF HandleControl, Taking
    <2>4. CASE inbox' = Append(inbox, EventOf[c]) /\ Says("accepted")
      <3>1. "accepted" \in Answer /\ Answered("accepted")
        BY <1>a, <2>3, <2>4 DEF Answered
      <3> QED
        BY <2>2, <2>3, <2>4, <3>1, AnsweredPauseInv
    <2>5. CASE UNCHANGED inbox /\ Says("refused")
      <3>1. "refused" \in Answer /\ Answered("refused")
        BY <1>a, <2>3, <2>5 DEF Answered
      <3> QED
        BY <2>2, <2>5, <3>1, AnsweredPauseInv
    <2> QED
      BY <2>1, <2>4, <2>5 DEF TrySend
  <1>5. CASE SendRestart
    <2>1. updates[Current] = "set" /\ listener = "restart"
          /\ GoOn /\ UNCHANGED <<serverVars, last_update_id, unflushed>>
      BY <1>5 DEF SendRestart, PauseInv
    <2>2. CASE inbox' = Append(inbox, "restart") /\ Says("accepted")
      <3>1. "accepted" \in Answer /\ Answered("accepted") /\ "restart" \in ControlEvent
        BY <1>a, <2>1, <2>2 DEF Answered
      <3> QED
        BY <2>1, <2>2, <3>1, AnsweredPauseInv
    <2>3. CASE UNCHANGED inbox /\ Says("refused")
      <3>1. "refused" \in Answer /\ Answered("refused") /\ "restart" \in ControlEvent
        BY <1>a, <2>1, <2>3 DEF Answered
      <3> QED
        BY <2>3, <3>1, AnsweredPauseInv
    <2> QED
      BY <1>5, <2>2, <2>3 DEF SendRestart, TrySend
  <1> QED
    BY <1>1, <1>2, <1>3, <1>4, <1>5 DEF ListenerNext

\* The engine takes the first event of the channel.
LEMMA EnginePauseInv == CInv /\ PauseInv /\ EngineStep => PauseInv'
  <1> SUFFICES ASSUME CInv, PauseInv, EngineStep PROVE PauseInv'
    OBVIOUS
  <1>1. process = "up" /\ EngineNext
        /\ UNCHANGED <<updates, answers, unflushed, listener, batch, old_updates, process>>
    BY DEF EngineStep, InEngine, listenerVars, serverVars, pollVars, processVars
  <1>2. inbox \in Seq(ControlEvent) /\ paused \in BOOLEAN
    BY DEF CInv, ListenerTypeOK, PauseInv
  <1>3. CASE OnEvent \/ LoopOver
    BY <1>1, <1>3, QuietPauseInv DEF OnEvent, LoopOver, Finish, engineVars
  <1>4. CASE OnControlEvent
    <2>1. /\ inbox # <<>> /\ inbox' = Tail(inbox) /\ loop = "running"
          /\ paused' = IF Head(inbox) \in Pausing THEN Head(inbox) = "pause" ELSE paused
      BY <1>4 DEF OnControlEvent, OnDrain, OnPause, OnResume, Take, Pausing
    <2>2. paused' \in BOOLEAN
      BY <1>2, <2>1
    <2>3. PausedAfter(inbox', paused') <=> PausedAfter(inbox, paused)
      BY <1>2, <2>1, PausedTail
    <2>4. ~unflushed => (StopWanted' <=> StopWanted)
      BY <1>1, StopWantedQuiet
    <2>5. Current' = Current
      BY <1>1 DEF Current
    <2> QED
      BY <1>1, <2>1, <2>2, <2>3, <2>4, <2>5 DEF PauseInv
  <1> QED
    BY <1>1, <1>3, <1>4 DEF EngineNext

\* What a new session has accepted so far is nothing.
LEMMA ProcessStartsPauseInv == CInv /\ PauseInv /\ ProcessStarts => PauseInv'
  <1> SUFFICES ASSUME CInv, PauseInv, ProcessStarts PROVE PauseInv'
    OBVIOUS
  <1>1. /\ process # "up" /\ process' = "up" /\ old_updates' = Len(updates)
        /\ UNCHANGED <<updates, answers, unflushed, listener, batch, inbox, paused>>
    BY DEF ProcessStarts, listenerVars, serverVars, pollVars, engineVars
  <1>2. inbox = <<>> /\ paused = FALSE /\ listener = "flush"
    BY <1>1 DEF PauseInv, CInv, StaleInv
  <1>3. PausedAfter(inbox', paused') <=> FALSE
    BY <1>1, <1>2, PausedNone
  <1>4. ~unflushed => Obeyed' = {}
    <2> SUFFICES ASSUME ~unflushed, NEW i \in UpdateId, i > Len(updates),
                        answers[i] = <<"accepted">>
                 PROVE  FALSE
      BY <1>1 DEF Obeyed
    <2>1. answers[i] # <<>>
      OBVIOUS
    <2>2. i <= Len(updates)
      BY <2>1 DEF CInv, AnsweredInv
    <2>3. i \in Nat /\ Len(updates) \in Nat
      BY DEF CInv, ListenerTypeOK, UpdateId
    <2> QED
      BY <2>2, <2>3
  <1> QED
    BY <1>1, <1>2, <1>3, <1>4 DEF PauseInv, StopWanted

LEMMA NextPauseInv ==
    ASSUME MaxUpdates <= PollLimit PROVE CInv /\ PauseInv /\ [Next]_vars => PauseInv'
  <1> SUFFICES ASSUME CInv, PauseInv, [Next]_vars PROVE PauseInv'
    OBVIOUS
  <1> USE DEF listenerVars, serverVars, pollVars, engineVars, processVars
  <1>1. CASE OperatorSends
    BY <1>1, QuietPauseInv DEF OperatorSends, Send
  <1>2. CASE ListenerStep
    BY <1>2, ListenerPauseInv DEF ListenerStep
  <1>3. CASE RedeemStep
    <2>1. CASE HandleRedeem
      BY <1>3, <2>1, ListenerPauseInv DEF RedeemStep
    <2>2. CASE ~HandleRedeem
      BY <1>3, <2>2, QuietPauseInv DEF RedeemStep
    <2> QED
      BY <2>1, <2>2
  <1>4. CASE EngineStep
    BY <1>4, EnginePauseInv
  <1>5. CASE WatcherStep
    BY <1>5, QuietPauseInv DEF WatcherStep
  <1>6. CASE ProcessEnds
    <2>1. process' # "up" /\ inbox' = <<>> /\ paused' = FALSE /\ listener' = "flush"
      BY <1>6 DEF ProcessEnds, Exit, MainReturns, Crash, ListenerStarts
    <2> QED
      BY <2>1 DEF PauseInv
  <1>7. CASE ProcessStarts
    BY <1>7, ProcessStartsPauseInv
  <1>8. CASE ProcessFails
    <2>1. process # "up" /\ process' # "up" /\ UNCHANGED <<inbox, paused, listener>>
      BY <1>8 DEF ProcessFails
    <2>2. listener = "flush"
      BY <2>1 DEF CInv, StaleInv
    <2> QED
      BY <2>1, <2>2 DEF PauseInv
  <1>9. CASE UNCHANGED vars
    BY <1>9, QuietPauseInv DEF vars
  <1> QED
    BY <1>1, <1>2, <1>3, <1>4, <1>5, <1>6, <1>7, <1>8, <1>9 DEF Next

\* Once the engine has read its channel it is paused exactly if the last /stop or
\* /resume this session accepted was a /stop, whatever is sent, lost or ended when:
\* no poll's limit is below what may be pending, and no flush failed.
THEOREM PauseFollowsOperatorHolds ==
    ASSUME MaxUpdates <= PollLimit PROVE Spec => []PauseFollowsOperator
  <1>1. PauseInv => PauseFollowsOperator
    <2> SUFFICES ASSUME PauseInv, process = "up", loop = "running", inbox = <<>>, ~unflushed
                 PROVE  paused <=> StopWanted
      BY DEF PauseFollowsOperator, StopWanted, Obeyed
    <2>1. PausedAfter(inbox, paused) <=> paused
      BY PausedNone DEF PauseInv
    <2> QED
      BY <2>1 DEF PauseInv
  <1>2. Init => PauseInv
    BY InitPauseInv
  <1>3. CInv /\ PauseInv /\ [Next]_vars => PauseInv'
    BY NextPauseInv
  <1> QED
    BY <1>1, <1>2, <1>3, ControlInvariant, PTL DEF Spec
-----------------------------------------------------------------------------
(* The redeem queue: its types.                                            *)

LEMMA TaskFinite == IsFiniteSet(Task)
  <1>1. IsFiniteSet({"auto", "redeem", "specific"})
    <2>1. {"auto", "redeem", "specific"} = ({"auto"} \cup {"redeem"}) \cup {"specific"}
      OBVIOUS
    <2>2. \A x : IsFiniteSet({x})
      BY FS_Singleton
    <2>3. \A S, T : IsFiniteSet(S) /\ IsFiniteSet(T) => IsFiniteSet(S \cup T)
      BY FS_Union
    <2>4. IsFiniteSet({"auto"} \cup {"redeem"})
      BY <2>2, <2>3
    <2>5. IsFiniteSet(({"auto"} \cup {"redeem"}) \cup {"specific"})
      BY <2>2, <2>3, <2>4
    <2> QED
      BY Zenon, <2>1, <2>5
  <1> QED
    BY <1>1, QueueAssumption, FS_Subset

LEMMA InodeNat == 1 \in Inode /\ \A i \in Inode : i \in Nat /\ i # NoInode
  <1>1. Cardinality(Task) \in Nat
    BY TaskFinite, FS_CardinalityType
  <1> QED
    BY <1>1 DEF Inode, NoInode

\* The file is created with every id.
LEMMA CreatedWith ==
    /\ SetToSeq(ConditionId) \in Seq(ConditionId)
    /\ ToSet(SetToSeq(ConditionId)) = ConditionId
  <1> DEFINE n == Cardinality(ConditionId)
             ids == SetToSeq(ConditionId)
  <1>1. IsFiniteSet(ConditionId) /\ n \in Nat
    BY QueueAssumption, FS_CardinalityType
  <1>2. \E f \in [1..n -> ConditionId] : IsInjective(f)
    <2>1. IsFiniteSet(1..n) /\ Cardinality(1..n) = n
      BY <1>1, FS_Interval
    <2>2. PICK f : f \in Bijection(1..n, ConditionId)
      BY <1>1, <2>1, FS_SameCardinalityBij DEF ExistsBijection
    <2> QED
      BY <2>2 DEF Bijection, Injection
  <1>3. ids \in [1..n -> ConditionId] /\ IsInjective(ids)
    BY <1>2 DEF SetToSeq
  <1> HIDE DEF ids
  <1>4. ids \in Surjection(1..n, ConditionId)
    <2>1. ids \in Injection(1..n, ConditionId)
      BY <1>3 DEF Injection
    <2>2. IsFiniteSet(1..n) /\ Cardinality(1..n) = n
      BY <1>1, FS_Interval
    <2> QED
      BY <1>1, <2>1, <2>2, FS_Injection
  <1>5. ids \in Seq(ConditionId) /\ DOMAIN ids = 1..n
    BY <1>1, <1>3
  <1>6. ToSet(ids) = ConditionId
    BY <1>4, <1>5 DEF Surjection, ToSet
  <1> QED
    BY <1>5, <1>6 DEF ids

\* The lines that remain are those that were not redeemed.
LEMMA RemainingIs ==
    ASSUME NEW t, Lines \in Seq(ConditionId)
    PROVE  /\ Remaining(t) \in Seq(ConditionId)
           /\ ToSet(Lines) \subseteq ToSet(Remaining(t)) \cup task[t].redeemed
           /\ Kept(t) = {} => ToSet(Lines) \subseteq task[t].redeemed
  <1> DEFINE K == Kept(t)
             n == Cardinality(K)
             Nth(j) == CHOOSE k \in K : RankIn(K, k) = j
  <1>1. K \in SUBSET (1..Len(Lines)) /\ Len(Lines) \in Nat
    BY DEF Kept
  <1>2. K \in SUBSET Nat /\ IsFiniteSet(K) /\ n \in Nat
    <2> HIDE DEF K
    <2>1. IsFiniteSet(1..Len(Lines))
      BY <1>1, FS_Interval
    <2>2. IsFiniteSet(K)
      BY <1>1, <2>1, FS_Subset
    <2> QED
      BY <1>1, <2>2, FS_CardinalityType
  <1>3. \A k \in K : Lines[k] \in ConditionId /\ Lines[k] \in ToSet(Lines)
    BY DEF Kept, ToSet
  <1>4. \A x \in ToSet(Lines) : x \in task[t].redeemed \/ \E k \in K : Lines[k] = x
    BY DEF Kept, ToSet
  <1>5. Remaining(t) = [j \in 1..n |-> Lines[Nth(j)]]
    BY DEF Remaining, RankIn
  <1> HIDE DEF K
  <1>6. [k \in K |-> RankIn(K, k)] \in Bijection(K, 1..n)
    BY <1>2, RankInBijection
  <1>7. /\ \A k \in K : RankIn(K, k) \in 1..n
        /\ \A j, k \in K : RankIn(K, j) = RankIn(K, k) => j = k
        /\ \A j \in 1..n : \E k \in K : RankIn(K, k) = j
    BY <1>6 DEF Bijection, Injection, IsInjective, Surjection
  <1>8. \A j \in 1..n : Nth(j) \in K /\ RankIn(K, Nth(j)) = j
    BY <1>7
  <1> HIDE DEF Nth
  <1>9. \A k \in K : Nth(RankIn(K, k)) = k
    BY <1>7, <1>8
  <1>10. Remaining(t) \in Seq(ConditionId) /\ DOMAIN Remaining(t) = 1..n
    <2> DEFINE r == [j \in 1..n |-> Lines[Nth(j)]]
    <2>1. \A j \in 1..n : Lines[Nth(j)] \in ConditionId
      BY <1>3, <1>8
    <2> HIDE DEF n
    <2>2. r \in Seq(ConditionId) /\ DOMAIN r = 1..n
      BY <1>2, <2>1
    <2> QED
      BY <1>5, <2>2
  <1>11. \A k \in K : Lines[k] \in ToSet(Remaining(t))
    BY <1>5, <1>7, <1>9, <1>10 DEF ToSet
  <1>12. K = {} => ToSet(Lines) \subseteq task[t].redeemed
    BY <1>4
  <1> QED
    BY <1>4, <1>10, <1>11, <1>12 DEF K

\* A line written over another file leaves a file of ids, and an empty one with
\* just these lines.
LEMMA OverwrittenIs ==
    ASSUME NEW old \in Seq(ConditionId), NEW new \in Seq(ConditionId)
    PROVE  /\ Overwritten(old, new) \in Seq(ConditionId)
           /\ old = <<>> => Overwritten(old, new) = new
  <1>1. SubSeq(old, Len(new) + 1, Len(old)) \in Seq(ConditionId)
    <2>1. \A i \in (Len(new) + 1)..Len(old) : old[i] \in ConditionId
      OBVIOUS
    <2> QED
      BY <2>1
  <1>2. old = <<>> => SubSeq(old, Len(new) + 1, Len(old)) = <<>>
    OBVIOUS
  <1>3. new \o <<>> = new
    OBVIOUS
  <1> QED
    BY <1>1, <1>2, <1>3 DEF Overwritten

LEMMA LinesTyped == QueueTypeOK => Lines \in Seq(ConditionId)
  BY DEF QueueTypeOK, Lines

LEMMA BecomesTyped ==
    ASSUME QueueTypeOK, NEW t \in Task, NEW s \in TaskState, Becomes(t, s)
    PROVE  /\ task' \in [Task -> TaskState] /\ task'[t] = s
           /\ \A u \in Task \ {t} : task'[u] = task[u]
  BY DEF Becomes, QueueTypeOK

LEMMA TaskStates ==
    ASSUME QueueTypeOK, NEW t \in Task
    PROVE  /\ task[t] \in TaskState /\ Idle \in TaskState
           /\ task[t].todo \in SUBSET ConditionId /\ task[t].redeemed \in SUBSET ConditionId
           /\ task[t].remaining \in Seq(ConditionId) /\ task[t].fd \in Inode \cup {NoInode}
  BY DEF QueueTypeOK, TaskState, Idle


\* What a step of the control plane does to the queue.
QueueStep == TaskNext \/ (\E t \in Task : Begin(t)) \/ TasksEnd \/ UNCHANGED queueVars

LEMMA QueueStepTyped ==
    ASSUME QueueTypeOK, QueueStep
    PROVE  QueueTypeOK'
  <1>t. /\ redeems \in Inode \cup {NoInode} /\ tmp \in Inode \cup {NoInode}
        /\ content \in [Inode -> Seq(ConditionId)]
        /\ broadcast \subseteq ConditionId /\ listed \subseteq ConditionId
        /\ started \in 0..MaxRedeems /\ MaxRedeems \in Nat
    BY QueueAssumption DEF QueueTypeOK
  <1>1. ASSUME NEW t \in Task, Begin(t) PROVE QueueTypeOK'
    <2>1. PICK ids \in SUBSET ConditionId : Becomes(t, [Idle EXCEPT !.pc = "redeem", !.todo = ids])
      BY Zenon, <1>1 DEF Begin
    <2>2. [Idle EXCEPT !.pc = "redeem", !.todo = ids] \in TaskState
      BY TaskStates DEF TaskState
    <2>3. task' \in [Task -> TaskState]
      BY <2>1, <2>2, BecomesTyped
    <2>4. /\ started < MaxRedeems /\ started' = started + 1
          /\ UNCHANGED <<redeems, tmp, content, broadcast, listed>>
      BY Zenon, <1>1 DEF Begin
    <2> QED
      BY <1>t, <2>3, <2>4 DEF QueueTypeOK
  <1>2. ASSUME NEW t \in Task, Redeemed(t) PROVE QueueTypeOK'
    <2>1. PICK id \in task[t].todo :
              /\ Becomes(t, [task[t] EXCEPT !.todo = @ \ {id}, !.redeemed = @ \cup {id}])
              /\ broadcast' = broadcast \cup {id}
      BY Zenon, <1>2 DEF Redeemed
    <2>2. id \in ConditionId
      BY TaskStates
    <2>3. [task[t] EXCEPT !.todo = @ \ {id}, !.redeemed = @ \cup {id}] \in TaskState
      BY <2>2, TaskStates DEF TaskState
    <2>4. task' \in [Task -> TaskState]
      BY <2>1, <2>3, BecomesTyped
    <2> QED
      BY <1>2, <1>t, <2>1, <2>2, <2>4 DEF Redeemed, QueueTypeOK
  <1>3. ASSUME NEW t \in Task, Skipped(t) PROVE QueueTypeOK'
    <2>1. PICK id \in task[t].todo : Becomes(t, [task[t] EXCEPT !.todo = @ \ {id}])
      BY Zenon, <1>3 DEF Skipped
    <2>2. [task[t] EXCEPT !.todo = @ \ {id}] \in TaskState
      BY TaskStates DEF TaskState
    <2>3. task' \in [Task -> TaskState]
      BY <2>1, <2>2, BecomesTyped
    <2> QED
      BY <1>3, <1>t, <2>3 DEF Skipped, QueueTypeOK
  <1>4. ASSUME NEW t \in Task, Load(t) PROVE QueueTypeOK'
    <2> DEFINE s(pc) == [task[t] EXCEPT !.pc = pc, !.remaining = Remaining(t)]
    <2>1. Remaining(t) \in Seq(ConditionId)
      BY LinesTyped, RemainingIs
    <2>2. s("remove") \in TaskState /\ s("open") \in TaskState
      BY <2>1, TaskStates DEF TaskState
    <2>3. Becomes(t, Idle) \/ Becomes(t, s("remove")) \/ Becomes(t, s("open"))
      BY <1>4 DEF Load
    <2> HIDE DEF s
    <2>4. task' \in [Task -> TaskState]
      BY <2>2, <2>3, TaskStates, BecomesTyped
    <2> QED
      BY <1>4, <1>t, <2>4 DEF Load, QueueTypeOK
  <1>5. ASSUME NEW t \in Task, RemoveFile(t) PROVE QueueTypeOK'
    <2>1. task' \in [Task -> TaskState]
      BY <1>5, TaskStates, BecomesTyped DEF RemoveFile
    <2> QED
      BY <1>5, <1>t, <2>1 DEF RemoveFile, QueueTypeOK
  <1>6. ASSUME NEW t \in Task, Open(t) PROVE QueueTypeOK'
    <2>1. PICK i \in Inode : /\ tmp' = i
                             /\ content' = [content EXCEPT ![i] = <<>>]
                             /\ Becomes(t, [task[t] EXCEPT !.pc = "write", !.fd = i])
      BY Zenon, <1>6 DEF Open
    <2>2. [task[t] EXCEPT !.pc = "write", !.fd = i] \in TaskState
      BY TaskStates DEF TaskState
    <2>3. task' \in [Task -> TaskState]
      BY <2>1, <2>2, BecomesTyped
    <2> QED
      BY <1>6, <1>t, <2>1, <2>3 DEF Open, QueueTypeOK
  <1>7. ASSUME NEW t \in Task, Write(t) PROVE QueueTypeOK'
    <2> DEFINE s == [task[t] EXCEPT !.pc = "rename", !.fd = NoInode]
    <2>1. s \in TaskState
      BY TaskStates DEF TaskState
    <2>2. task' \in [Task -> TaskState]
      BY <1>7, <2>1, TaskStates, BecomesTyped DEF Write
    <2>3. content' = [content EXCEPT ![task[t].fd] = Overwritten(@, task[t].remaining)]
      BY <1>7 DEF Write
    <2>4. task[t].fd \in Inode => Overwritten(content[task[t].fd], task[t].remaining) \in Seq(ConditionId)
      BY <1>t, TaskStates, OverwrittenIs
    <2>5. content' \in [Inode -> Seq(ConditionId)]
      BY <1>t, <2>3, <2>4
    <2> QED
      BY <1>7, <1>t, <2>2, <2>5 DEF Write, QueueTypeOK
  <1>8. ASSUME NEW t \in Task, RenameFile(t) PROVE QueueTypeOK'
    <2>1. task' \in [Task -> TaskState]
      BY <1>8, TaskStates, BecomesTyped DEF RenameFile
    <2> QED
      BY <1>8, <1>t, <2>1 DEF RenameFile, QueueTypeOK
  <1>9. ASSUME NEW t \in Task, TimesOut(t) PROVE QueueTypeOK'
    <2> DEFINE s == [task[t] EXCEPT !.pc = "orphan"]
    <2>1. s \in TaskState
      BY TaskStates DEF TaskState
    <2>2. task' \in [Task -> TaskState]
      BY <1>9, <2>1, TaskStates, BecomesTyped DEF TimesOut
    <2> QED
      BY <1>9, <1>t, <2>2 DEF TimesOut, QueueTypeOK
  <1>10. CASE TasksEnd
    <2>1. task' \in [Task -> TaskState]
      BY <1>10 DEF TasksEnd, Idle, TaskState
    <2> QED
      BY <1>10, <1>t, <2>1 DEF TasksEnd, QueueTypeOK
  <1>11. CASE UNCHANGED queueVars
    BY <1>11 DEF queueVars, QueueTypeOK
  <1> QED
    BY Zenon, <1>1, <1>2, <1>3, <1>4, <1>5, <1>6, <1>7, <1>8, <1>9, <1>10, <1>11 DEF QueueStep, TaskNext

LEMMA NextQueueStep == [Next]_vars => QueueStep
  <1> SUFFICES ASSUME [Next]_vars PROVE QueueStep
    OBVIOUS
  <1>1. CASE RedeemStep
    BY <1>1 DEF RedeemStep, BeginFails, QueueStep
  <1>2. CASE ProcessEnds
    BY <1>2 DEF ProcessEnds, QueueStep
  <1>3. CASE EngineStep
    BY <1>3 DEF EngineStep, InEngine, QueueStep
  <1>4. CASE OperatorSends \/ ListenerStep \/ WatcherStep \/ ProcessStarts \/ ProcessFails
    BY <1>4 DEF OperatorSends, ListenerStep, WatcherStep, ProcessStarts, ProcessFails, QueueStep
  <1>5. CASE UNCHANGED vars
    BY <1>5 DEF vars, QueueStep
  <1> QED
    BY <1>1, <1>2, <1>3, <1>4, <1>5 DEF Next

LEMMA InitQueueTyped == Init => QueueTypeOK
  <1> SUFFICES ASSUME QueueInit PROVE QueueTypeOK
    BY DEF Init
  <1>1. content \in [Inode -> Seq(ConditionId)]
    BY CreatedWith DEF QueueInit
  <1>2. task \in [Task -> TaskState]
    BY DEF QueueInit, Idle, TaskState
  <1> QED
    BY <1>1, <1>2, InodeNat, QueueAssumption DEF QueueInit, QueueTypeOK

\* The engine's, the watcher's and the process's variables.
EngineTypeOK ==
    /\ process \in {"up", "down", "stopped", "failed"}
    /\ loaded \in 0..Len(updates)
    /\ crashes \in 0..MaxCrashes
    /\ ingestor \in {"up", "ended"}
    /\ {open_position, draining, paused} \subseteq BOOLEAN
    /\ pending_exit_code \in ExitCode \cup {NoCode}
    /\ drain_status \in Status
    /\ watcher \in {"waiting", "posting", "completing", "exiting"}

LEMMA StatusTyped ==
    /\ Idling \in Status /\ DrainingNow \in Status
    /\ \A code \in ExitCode \cup {NoCode} : Complete(code) \in Status
    /\ \A status \in Status : [status EXCEPT !.seen = TRUE] \in Status
    /\ CodeOf["shutdown"] \in ExitCode /\ CodeOf["restart"] \in ExitCode
  BY DEF Idling, DrainingNow, Complete, Status, CodeOf, ExitCode, Stopped, Restart, NoCode

LEMMA InitEngineTyped == Init => EngineTypeOK
  <1> SUFFICES ASSUME Init PROVE EngineTypeOK
    OBVIOUS
  <1>1. /\ process = "up" /\ loaded = 0 /\ crashes = 0 /\ ingestor \in {"up", "ended"}
        /\ updates = <<>> /\ EngineInit
    BY DEF Init, ListenerInit, IngestorState
  <1>2. loaded \in 0..Len(updates) /\ crashes \in 0..MaxCrashes
    BY <1>1, CrashAssumption
  <1> QED
    BY <1>1, <1>2, StatusTyped DEF EngineInit, EngineTypeOK

LEMMA EngineStepTyped == EngineTypeOK /\ EngineStep => EngineTypeOK'
  <1> SUFFICES ASSUME EngineTypeOK, EngineStep PROVE EngineTypeOK'
    OBVIOUS
  <1>1. EngineNext /\ UNCHANGED <<updates, process, loaded, crashes, ingestor>>
    BY DEF EngineStep, InEngine, listenerVars, serverVars, processVars
  <1>2. CASE OnPause \/ OnResume
    BY <1>1, <1>2 DEF EngineTypeOK, OnPause, OnResume, watcherVars
  <1>3. CASE LoopOver
    BY <1>1, <1>3 DEF EngineTypeOK, LoopOver, engineVars, watcherVars
  <1>4. CASE OnEvent
    <2>1. drain_status' = drain_status \/ drain_status' = Complete(pending_exit_code)
      BY <1>4 DEF OnEvent, Finish
    <2>2. drain_status' \in Status
      BY <2>1, StatusTyped DEF EngineTypeOK
    <2> QED
      BY <1>1, <1>4, <2>2 DEF EngineTypeOK, OnEvent
  <1>5. ASSUME NEW event \in {"shutdown", "restart"}, OnDrain(event) PROVE EngineTypeOK'
    <2>1. CodeOf[event] \in ExitCode
      BY StatusTyped
    <2>2. drain_status' = DrainingNow \/ drain_status' = Complete(CodeOf[event])
      BY <1>5 DEF OnDrain, Finish
    <2>3. drain_status' \in Status
      BY <2>1, <2>2, StatusTyped
    <2> QED
      BY <1>1, <1>5, <2>1, <2>3 DEF EngineTypeOK, OnDrain
  <1> QED
    BY <1>1, <1>2, <1>3, <1>4, <1>5 DEF EngineNext, OnControlEvent

LEMMA NextEngineTyped == CInv /\ EngineTypeOK /\ [Next]_vars => EngineTypeOK'
  <1> SUFFICES ASSUME CInv, EngineTypeOK, [Next]_vars PROVE EngineTypeOK'
    OBVIOUS
  <1> DEFINE kept == <<process, loaded, crashes, ingestor, open_position, draining, paused,
                       pending_exit_code, drain_status, watcher>>
  <1>t. /\ Len(updates) \in Nat /\ config_file \in 0..Len(updates)
        /\ loaded \in 0..Len(updates)
    BY DEF CInv, ListenerTypeOK, EngineTypeOK
  <1>1. CASE OperatorSends
    <2>1. UNCHANGED kept /\ \E c \in Command : updates' = Append(updates, c)
      BY <1>1 DEF OperatorSends, Send, engineVars, watcherVars, processVars
    <2>2. Len(updates') = Len(updates) + 1
      BY <2>1 DEF CInv, ListenerTypeOK
    <2>3. loaded' \in 0..Len(updates')
      BY <1>t, <2>1, <2>2
    <2> QED
      BY <2>1, <2>3 DEF EngineTypeOK
  <1>2. CASE ListenerStep
    <2>1. UNCHANGED updates
      BY <1>2 DEF ListenerStep, ListenerNext, Flush, FlushFails, Poll, PollFails, Ignore,
                  RateLimit, HandleControl, HandleSet, RefuseSet, SendRestart, serverVars
    <2>2. UNCHANGED kept
      BY <1>2 DEF ListenerStep, engineVars, watcherVars, processVars
    <2> QED
      BY <2>1, <2>2 DEF EngineTypeOK
  <1>3. CASE RedeemStep
    <2>1. UNCHANGED updates
      BY <1>3 DEF RedeemStep, HandleRedeem, listenerVars, serverVars
    <2>2. UNCHANGED kept
      BY <1>3 DEF RedeemStep, engineVars, watcherVars, processVars
    <2> QED
      BY <2>1, <2>2 DEF EngineTypeOK
  <1>4. CASE EngineStep
    BY <1>4, EngineStepTyped
  <1>5. CASE WatcherStep
    <2>1. /\ UNCHANGED <<updates, process, loaded, crashes, ingestor, open_position, draining,
                         paused, pending_exit_code>>
          /\ WatcherNext
      BY <1>5 DEF WatcherStep, listenerVars, serverVars, engineVars, processVars
    <2>2. drain_status' = drain_status \/ drain_status' = [drain_status EXCEPT !.seen = TRUE]
      BY <2>1 DEF WatcherNext, WatcherWakes, ProgressPosted, SummaryPosted
    <2>3. drain_status' \in Status
      BY <2>2, StatusTyped DEF EngineTypeOK
    <2>4. watcher' \in {"waiting", "posting", "completing", "exiting"}
      BY <2>1 DEF WatcherNext, WatcherWakes, ProgressPosted, SummaryPosted
    <2> QED
      BY <2>1, <2>3, <2>4 DEF EngineTypeOK
  <1>6. CASE ProcessEnds
    <2>1. /\ UNCHANGED <<updates, loaded, ingestor>>
          /\ open_position' = FALSE /\ draining' = FALSE /\ paused' = FALSE
          /\ pending_exit_code' = NoCode /\ drain_status' = Idling /\ watcher' = "waiting"
      BY <1>6 DEF ProcessEnds, serverVars
    <2>2. process' \in {"stopped", "down"} /\ crashes' \in 0..MaxCrashes
      BY <1>6, CrashAssumption DEF ProcessEnds, Exit, MainReturns, Crash, EngineTypeOK
    <2> QED
      BY <2>1, <2>2, StatusTyped DEF EngineTypeOK
  <1>7. CASE ProcessStarts
    <2>1. /\ process' = "up" /\ loaded' = config_file
          /\ ingestor' \in {"up", "ended"}
          /\ UNCHANGED <<updates, crashes, open_position, draining, paused, pending_exit_code,
                         drain_status, watcher>>
      BY <1>7 DEF ProcessStarts, IngestorState, listenerVars, serverVars, engineVars, watcherVars
    <2> QED
      BY <1>t, <2>1 DEF EngineTypeOK
  <1>8. CASE ProcessFails
    <2>1. /\ process' = "failed"
          /\ UNCHANGED <<updates, loaded, crashes, ingestor, open_position, draining, paused,
                         pending_exit_code, drain_status, watcher>>
      BY <1>8 DEF ProcessFails, listenerVars, serverVars, engineVars, watcherVars
    <2> QED
      BY <2>1 DEF EngineTypeOK
  <1>9. CASE UNCHANGED vars
    <2>1. UNCHANGED kept /\ UNCHANGED updates
      BY <1>9 DEF vars, listenerVars, serverVars, engineVars, watcherVars, processVars
    <2> QED
      BY <2>1 DEF EngineTypeOK
  <1> QED
    BY <1>1, <1>2, <1>3, <1>4, <1>5, <1>6, <1>7, <1>8, <1>9 DEF Next

\* Every variable of the control plane keeps to its type, whatever number of
\* redemptions overlap and wherever the process ends.
THEOREM ControlTypeCorrect == Spec => []TypeOK
  <1>1. Init => QueueTypeOK /\ EngineTypeOK
    BY InitQueueTyped, InitEngineTyped
  <1>2. CInv /\ QueueTypeOK /\ EngineTypeOK /\ [Next]_vars => QueueTypeOK' /\ EngineTypeOK'
    BY NextQueueStep, QueueStepTyped, NextEngineTyped
  <1>3. CInv /\ QueueTypeOK /\ EngineTypeOK => TypeOK
    BY DEF CInv, StaleInv, EngineTypeOK, TypeOK
  <1> QED
    BY <1>1, <1>2, <1>3, ControlInvariant, PTL DEF Spec

-----------------------------------------------------------------------------
(* The redeem queue: no id is lost, one redemption at a time.  The task     *)
(* under way still has, in the file or among the lines it writes, every id  *)
(* that was not redeemed; the temporary file is never the file itself.      *)

Busy(t) == ~At(t, "idle")

OneBusy == \A t, u \in Task : Busy(t) /\ Busy(u) => t = u

Unlost(ids) == listed \subseteq ids \cup broadcast

\* What a task that stands where it does may rely on.
TaskHolds(t) ==
    /\ task[t].redeemed \subseteq broadcast
    /\ task[t].pc \in {"open", "write", "rename"} => Unlost(ToSet(task[t].remaining))
    /\ At(t, "remove") => Unlost({})
    /\ At(t, "write") => task[t].fd = tmp /\ tmp # NoInode /\ content[tmp] = <<>>
    /\ At(t, "orphan") => task[t].fd # redeems /\ task[t].fd # NoInode
    /\ At(t, "rename") => tmp # NoInode /\ content[tmp] = task[t].remaining

QueueInv ==
    /\ QueueTypeOK
    /\ OneBusy
    /\ tmp = NoInode \/ tmp # redeems
    /\ \A t \in Task : TaskHolds(t)
    /\ NothingLost

LEMMA InitQueueInv == Init => QueueInv
  <1> SUFFICES ASSUME Init PROVE QueueInv
    OBVIOUS
  <1>1. QueueTypeOK
    BY InitQueueTyped
  <1>2. QueueInit
    BY DEF Init
  <1>3. \A t \in Task : task[t] = Idle
    BY <1>2 DEF QueueInit
  <1>4. OneBusy
    BY <1>3 DEF OneBusy, Busy, At, Idle
  <1>5. tmp = NoInode
    BY <1>2 DEF QueueInit
  <1>6. \A t \in Task : TaskHolds(t)
    BY <1>3 DEF TaskHolds, At, Idle
  <1>7. NothingLost
    <2>1. Lines = SetToSeq(ConditionId)
      BY <1>2, InodeNat DEF QueueInit, Lines
    <2> QED
      BY <1>2, <2>1, CreatedWith DEF QueueInit, NothingLost
  <1> QED
    BY <1>1, <1>4, <1>5, <1>6, <1>7 DEF QueueInv

\* A step of the only task under way disturbs no other.
LEMMA OthersIdle ==
    ASSUME QueueInv, NEW t \in Task, \A u \in Task : Busy(u) => u = t,
           NEW s \in TaskState, Becomes(t, s), QueueTypeOK',
           broadcast \subseteq broadcast',
           (tmp = NoInode \/ tmp # redeems)', TaskHolds(t)', NothingLost'
    PROVE  QueueInv'
  <1>1. task'[t] = s /\ \A u \in Task \ {t} : task'[u] = task[u]
    BY BecomesTyped DEF QueueInv
  <1>2. \A u \in Task \ {t} : task[u].pc = "idle"
    BY DEF Busy, At
  <1>3. OneBusy'
    BY <1>1, <1>2 DEF OneBusy, Busy, At
  <1>4. \A u \in Task \ {t} : TaskHolds(u)'
    BY <1>1, <1>2 DEF QueueInv, TaskHolds, At
  <1> QED
    BY <1>3, <1>4 DEF QueueInv

TaskStep(t) == \/ Redeemed(t) \/ Skipped(t) \/ Load(t) \/ RemoveFile(t)
               \/ Open(t) \/ Write(t) \/ RenameFile(t) \/ TimesOut(t)

LEMMA StepBusy == ASSUME NEW t, TaskStep(t) PROVE Busy(t)
  <1>1. Redeemed(t) => Busy(t)
    BY Zenon DEF Redeemed, Busy, At
  <1>2. Skipped(t) \/ Load(t) \/ RemoveFile(t) => Busy(t)
    BY DEF Skipped, Load, RemoveFile, Busy, At
  <1>3. Open(t) => task[t].pc = "open"
    BY Zenon DEF Open, At
  <1>4. Write(t) \/ RenameFile(t) \/ TimesOut(t) => Busy(t)
    BY DEF Write, RenameFile, TimesOut, Busy, At
  <1> QED
    BY <1>1, <1>2, <1>3, <1>4 DEF TaskStep, Busy, At

LEMMA StepQueueInv ==
    ASSUME QueueInv, NEW t \in Task, TaskStep(t), QueueTypeOK'
    PROVE  QueueInv'
  <1>t. /\ \A u \in Task : Busy(u) => u = t
        /\ TaskHolds(t) /\ NothingLost /\ (tmp = NoInode \/ tmp # redeems)
        /\ task[t] \in TaskState /\ Idle \in TaskState
        /\ Lines \in Seq(ConditionId)
        /\ redeems \in Inode \cup {NoInode} /\ tmp \in Inode \cup {NoInode}
        /\ content \in [Inode -> Seq(ConditionId)]
        /\ task[t].remaining \in Seq(ConditionId) /\ task[t].fd \in Inode \cup {NoInode}
    BY StepBusy, TaskStates, LinesTyped DEF QueueInv, OneBusy, QueueTypeOK
  <1>b. \A s : Becomes(t, s) => task'[t] = s
    BY DEF Becomes, QueueInv, QueueTypeOK
  <1>1. CASE Redeemed(t)
    <2>1. PICK id \in task[t].todo :
              /\ Becomes(t, [task[t] EXCEPT !.todo = @ \ {id}, !.redeemed = @ \cup {id}])
              /\ broadcast' = broadcast \cup {id}
      BY Zenon, <1>1 DEF Redeemed
    <2> DEFINE s == [task[t] EXCEPT !.todo = @ \ {id}, !.redeemed = @ \cup {id}]
    <2>2. task'[t] = s
      BY <1>b, <2>1
    <2>3. id \in ConditionId /\ task[t].pc = "redeem"
      <3>1. task[t].todo \in SUBSET ConditionId
        BY TaskStates DEF QueueInv
      <3> QED
        BY Zenon, <1>1, <3>1 DEF Redeemed, At
    <2>4. s \in TaskState /\ s.pc = "redeem" /\ s.redeemed = task[t].redeemed \cup {id}
      BY <1>t, <2>3 DEF TaskState
    <2>5. UNCHANGED <<redeems, tmp, content, listed>>
      BY Zenon, <1>1 DEF Redeemed
    <2> HIDE DEF s
    <2>6. TaskHolds(t)'
      BY <1>t, <2>1, <2>2, <2>4 DEF TaskHolds, At
    <2>7. NothingLost'
      BY <1>t, <2>1, <2>5 DEF NothingLost, Lines
    <2> QED
      BY <1>t, <2>1, <2>4, <2>5, <2>6, <2>7, OthersIdle DEF s
  <1>2. CASE Skipped(t)
    <2>1. PICK id \in task[t].todo : Becomes(t, [task[t] EXCEPT !.todo = @ \ {id}])
      BY Zenon, <1>2 DEF Skipped
    <2> DEFINE s == [task[t] EXCEPT !.todo = @ \ {id}]
    <2>2. task'[t] = s
      BY <1>b, <2>1
    <2>3. s \in TaskState
      BY <1>t, <2>1, TaskStates DEF QueueInv, TaskState
    <2>4. s.pc = "redeem" /\ s.redeemed = task[t].redeemed
      BY <1>2, <1>t DEF Skipped, At, TaskState
    <2>5. UNCHANGED <<redeems, tmp, content, broadcast, listed>>
      BY <1>2 DEF Skipped
    <2> HIDE DEF s
    <2>6. TaskHolds(t)'
      BY <1>t, <2>2, <2>4, <2>5 DEF TaskHolds, At
    <2>7. NothingLost'
      BY <1>t, <2>5 DEF NothingLost, Lines
    <2> QED
      BY <1>t, <2>1, <2>3, <2>5, <2>6, <2>7, OthersIdle DEF s
  <1>3. CASE Load(t)
    <2> DEFINE s(pc) == [task[t] EXCEPT !.pc = pc, !.remaining = Remaining(t)]
    <2>1. UNCHANGED <<redeems, tmp, content, broadcast, listed>>
      BY <1>3 DEF Load
    <2>2. NothingLost'
      BY <1>t, <2>1 DEF NothingLost, Lines
    <2>3. /\ Remaining(t) \in Seq(ConditionId)
          /\ ToSet(Lines) \subseteq ToSet(Remaining(t)) \cup task[t].redeemed
          /\ Kept(t) = {} => ToSet(Lines) \subseteq task[t].redeemed
      BY <1>t, RemainingIs
    <2>4. /\ s("remove") \in TaskState /\ s("open") \in TaskState
          /\ s("remove").pc = "remove" /\ s("open").pc = "open"
          /\ s("remove").redeemed = task[t].redeemed /\ s("open").redeemed = task[t].redeemed
          /\ s("open").remaining = Remaining(t)
      BY <1>t, <2>3 DEF TaskState
    <2>5. \/ Becomes(t, Idle)
          \/ Becomes(t, s("remove")) /\ Kept(t) = {}
          \/ Becomes(t, s("open"))
      BY <1>3 DEF Load
    <2> HIDE DEF s
    <2>6. CASE Becomes(t, Idle)
      <3>1. TaskHolds(t)'
        BY <1>b, <2>6 DEF TaskHolds, At, Idle
      <3> QED
        BY <1>t, <2>1, <2>2, <2>6, <3>1, OthersIdle
    <2>7. CASE Becomes(t, s("remove")) /\ Kept(t) = {}
      <3>1. Unlost({})
        BY <1>t, <2>3, <2>7 DEF Unlost, NothingLost, TaskHolds
      <3>2. TaskHolds(t)'
        BY <1>b, <1>t, <2>1, <2>4, <2>7, <3>1 DEF TaskHolds, At, Unlost
      <3> QED
        BY <1>t, <2>1, <2>2, <2>4, <2>7, <3>2, OthersIdle
    <2>8. CASE Becomes(t, s("open"))
      <3>1. Unlost(ToSet(Remaining(t)))
        BY <1>t, <2>3 DEF Unlost, NothingLost, TaskHolds
      <3>2. TaskHolds(t)'
        BY <1>b, <1>t, <2>1, <2>4, <2>8, <3>1 DEF TaskHolds, At, Unlost
      <3> QED
        BY <1>t, <2>1, <2>2, <2>4, <2>8, <3>2, OthersIdle
    <2> QED
      BY <2>5, <2>6, <2>7, <2>8
  <1>4. CASE RemoveFile(t)
    <2>1. /\ redeems' = NoInode /\ tmp' = NoInode /\ Becomes(t, Idle)
          /\ UNCHANGED <<content, broadcast, listed>> /\ At(t, "remove")
      BY <1>4 DEF RemoveFile
    <2>2. NothingLost'
      BY <1>t, <2>1 DEF NothingLost, TaskHolds, Unlost
    <2>3. TaskHolds(t)'
      BY <1>b, <2>1 DEF TaskHolds, At, Idle
    <2> QED
      BY <1>t, <2>1, <2>2, <2>3, OthersIdle
  <1>5. CASE Open(t)
    <2>1. PICK i \in Inode :
              /\ IF tmp = NoInode THEN Unused(i) /\ \A j \in Inode : Unused(j) => i <= j
                                  ELSE i = tmp
              /\ tmp' = i
              /\ content' = [content EXCEPT ![i] = <<>>]
              /\ Becomes(t, [task[t] EXCEPT !.pc = "write", !.fd = i])
      BY Zenon, <1>5 DEF Open
    <2>2. UNCHANGED <<redeems, broadcast, listed>> /\ At(t, "open")
      BY Zenon, <1>5 DEF Open
    <2>3. i # redeems /\ i # NoInode
      BY <1>t, <2>1, InodeNat DEF Unused
    <2> DEFINE s == [task[t] EXCEPT !.pc = "write", !.fd = i]
    <2>4. s \in TaskState /\ s.pc = "write" /\ s.fd = i
          /\ s.redeemed = task[t].redeemed /\ s.remaining = task[t].remaining
      BY <1>t DEF TaskState
    <2>5. task'[t] = s
      BY <1>b, <2>1
    <2>6. content'[i] = <<>>
      BY <1>t, <2>1
    <2> HIDE DEF s
    <2>7. TaskHolds(t)'
      BY <1>t, <2>1, <2>2, <2>3, <2>4, <2>5, <2>6 DEF TaskHolds, At, Unlost
    <2>8. NothingLost'
      BY <1>t, <2>1, <2>2, <2>3 DEF NothingLost, Lines
    <2> QED
      BY <1>t, <2>1, <2>2, <2>3, <2>4, <2>7, <2>8, OthersIdle DEF s
  <1>6. CASE Write(t)
    <2> DEFINE fd == task[t].fd
               s == [task[t] EXCEPT !.pc = "rename", !.fd = NoInode]
    <2>1. /\ content' = [content EXCEPT ![fd] = Overwritten(@, task[t].remaining)]
          /\ UNCHANGED <<redeems, tmp, broadcast, listed>>
          /\ (At(t, "orphan") /\ Becomes(t, Idle)) \/ (At(t, "write") /\ Becomes(t, s))
      BY <1>6 DEF Write, At
    <2>2. fd # redeems /\ fd \in Inode
      BY <1>t, <2>1 DEF TaskHolds
    <2>3. NothingLost'
      BY <1>t, <2>1, <2>2 DEF NothingLost, Lines
    <2>4. s \in TaskState /\ s.pc = "rename"
          /\ s.redeemed = task[t].redeemed /\ s.remaining = task[t].remaining
      BY <1>t DEF TaskState
    <2> HIDE DEF s
    <2>5. CASE At(t, "orphan") /\ Becomes(t, Idle)
      <3>1. TaskHolds(t)'
        BY <1>b, <2>5 DEF TaskHolds, At, Idle
      <3> QED
        BY <1>t, <2>1, <2>3, <2>5, <3>1, OthersIdle
    <2>6. CASE At(t, "write") /\ Becomes(t, s)
      <3>1. fd = tmp /\ tmp # NoInode /\ content[tmp] = <<>> /\ Unlost(ToSet(task[t].remaining))
        BY <1>t, <2>6 DEF TaskHolds, At
      <3>2. content'[tmp] = task[t].remaining
        BY <1>t, <2>1, <2>2, <3>1, OverwrittenIs
      <3>3. TaskHolds(t)'
        BY <1>b, <1>t, <2>1, <2>4, <2>6, <3>1, <3>2 DEF TaskHolds, At, Unlost
      <3> QED
        BY <1>t, <2>1, <2>3, <2>4, <2>6, <3>3, OthersIdle
    <2> QED
      BY <2>1, <2>5, <2>6
  <1>7. CASE RenameFile(t)
    <2>1. /\ redeems' = tmp /\ tmp' = NoInode /\ Becomes(t, Idle)
          /\ UNCHANGED <<content, broadcast, listed>>
          /\ tmp # NoInode /\ content[tmp] = task[t].remaining
          /\ Unlost(ToSet(task[t].remaining))
      BY <1>7, <1>t DEF RenameFile, TaskHolds, At
    <2>2. NothingLost'
      BY <2>1 DEF NothingLost, Lines, Unlost
    <2>3. TaskHolds(t)'
      BY <1>b, <2>1 DEF TaskHolds, At, Idle
    <2> QED
      BY <1>t, <2>1, <2>2, <2>3, OthersIdle
  <1>8. CASE TimesOut(t)
    <2> DEFINE s == [task[t] EXCEPT !.pc = "orphan"]
    <2>1. /\ UNCHANGED <<redeems, tmp, content, broadcast, listed>>
          /\ (At(t, "write") /\ Becomes(t, s)) \/ Becomes(t, Idle)
      BY <1>8 DEF TimesOut
    <2>2. NothingLost'
      BY <1>t, <2>1 DEF NothingLost, Lines
    <2>3. s \in TaskState /\ s.pc = "orphan" /\ s.redeemed = task[t].redeemed /\ s.fd = task[t].fd
      BY <1>t DEF TaskState
    <2> HIDE DEF s
    <2>4. CASE Becomes(t, Idle)
      <3>1. TaskHolds(t)'
        BY <1>b, <2>4 DEF TaskHolds, At, Idle
      <3> QED
        BY <1>t, <2>1, <2>2, <2>4, <3>1, OthersIdle
    <2>5. CASE At(t, "write") /\ Becomes(t, s)
      <3>1. TaskHolds(t)'
        BY <1>b, <1>t, <2>1, <2>3, <2>5 DEF TaskHolds, At
      <3> QED
        BY <1>t, <2>1, <2>2, <2>3, <2>5, <3>1, OthersIdle
    <2> QED
      BY <2>1, <2>4, <2>5
  <1> QED
    BY <1>1, <1>2, <1>3, <1>4, <1>5, <1>6, <1>7, <1>8 DEF TaskStep

\* A redemption begins when none is under way.
LEMMA BeginQueueInv ==
    ASSUME MaxConcurrent <= 1, QueueInv, QueueTypeOK', NEW t \in Task, Begin(t)
    PROVE  QueueInv'
  <1>1. PICK ids \in SUBSET ConditionId : Becomes(t, [Idle EXCEPT !.pc = "redeem", !.todo = ids])
    BY Zenon DEF Begin
  <1>2. /\ Cardinality({u \in Task : ~At(u, "idle")}) < MaxConcurrent
        /\ UNCHANGED <<redeems, tmp, content, broadcast, listed>>
    BY Zenon DEF Begin
  <1>3. \A u \in Task : ~Busy(u)
    <2> DEFINE B == {u \in Task : ~At(u, "idle")}
    <2>1. IsFiniteSet(B)
      BY TaskFinite, FS_Subset
    <2>2. Cardinality(B) \in Nat /\ Cardinality(B) < 1
      BY <1>2, <2>1, QueueAssumption, FS_CardinalityType
    <2>3. B = {}
      BY <2>1, <2>2, FS_EmptySet
    <2> QED
      BY <2>3 DEF Busy
  <1> DEFINE s == [Idle EXCEPT !.pc = "redeem", !.todo = ids]
  <1>4. s \in TaskState /\ s.pc = "redeem" /\ s.redeemed = {}
    <2>1. Idle \in TaskState /\ Idle.redeemed = {}
      BY TaskStates DEF QueueInv, Idle
    <2> QED
      BY <2>1 DEF TaskState
  <1>5. task'[t] = s
    BY <1>1 DEF Becomes, QueueInv, QueueTypeOK
  <1>6. NothingLost' /\ (tmp = NoInode \/ tmp # redeems)'
    BY <1>2 DEF QueueInv, NothingLost, Lines
  <1> HIDE DEF s
  <1>7. TaskHolds(t)'
    BY <1>4, <1>5 DEF TaskHolds, At
  <1> QED
    BY <1>1, <1>2, <1>3, <1>4, <1>6, <1>7, OthersIdle DEF s

LEMMA NextQueueInv == ASSUME MaxConcurrent <= 1 PROVE QueueInv /\ [Next]_vars => QueueInv'
  <1> SUFFICES ASSUME QueueInv, [Next]_vars PROVE QueueInv'
    OBVIOUS
  <1>1. QueueStep /\ QueueTypeOK'
    BY NextQueueStep, QueueStepTyped DEF QueueInv
  <1>2. CASE TaskNext
    <2>1. PICK t \in Task : TaskStep(t)
      BY Zenon, <1>2 DEF TaskNext, TaskStep
    <2> QED
      BY <1>1, <2>1, StepQueueInv
  <1>3. ASSUME NEW t \in Task, Begin(t) PROVE QueueInv'
    BY <1>1, <1>3, BeginQueueInv
  <1>4. CASE TasksEnd
    <2>1. /\ \A t \in Task : task'[t] = Idle
          /\ UNCHANGED <<redeems, tmp, content, broadcast, listed>>
      BY <1>4 DEF TasksEnd
    <2>2. OneBusy' /\ \A t \in Task : TaskHolds(t)'
      BY <2>1 DEF OneBusy, Busy, TaskHolds, At, Idle
    <2>3. NothingLost'
      BY <2>1 DEF QueueInv, NothingLost, Lines
    <2> QED
      BY <1>1, <2>1, <2>2, <2>3 DEF QueueInv
  <1>5. CASE UNCHANGED queueVars
    <2>1. UNCHANGED <<redeems, tmp, content, task, broadcast, listed>>
      BY <1>5 DEF queueVars
    <2>2. OneBusy' /\ \A t \in Task : TaskHolds(t)'
      BY <2>1 DEF QueueInv, OneBusy, Busy, TaskHolds, At, Unlost
    <2>3. NothingLost'
      BY <2>1 DEF QueueInv, NothingLost, Lines
    <2> QED
      BY <1>1, <2>1, <2>2, <2>3 DEF QueueInv
  <1> QED
    BY Zenon, <1>1, <1>2, <1>3, <1>4, <1>5 DEF QueueStep

\* One redemption at a time, an id that was not redeemed stays in the file, wherever
\* a redemption times out or the process ends.
THEOREM NothingLostHolds == ASSUME MaxConcurrent <= 1 PROVE Spec => []NothingLost
  <1>1. QueueInv => NothingLost
    BY DEF QueueInv
  <1> QED
    BY <1>1, InitQueueInv, NextQueueInv, PTL DEF Spec
=============================================================================
