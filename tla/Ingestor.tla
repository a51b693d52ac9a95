------------------------------ MODULE Ingestor ------------------------------
(***************************************************************************)
(* The ingestor thread (main.rs): the rotation manager, the market          *)
(* WebSocket, the heartbeat and the other WebSocket sessions are tasks of   *)
(* one single-threaded runtime and send into one bounded channel.           *)
(* Rotations and futures events are sent with a blocking send: on a full    *)
(* channel it stops all the tasks until the engine receives.  The first     *)
(* task that ends ends all of them.                                         *)
(***************************************************************************)
EXTENDS MarketFeed, Heartbeat

VARIABLES
    ingestor,     \* starting (the heartbeat authenticates), up, ended
    channel       \* open (room left), full, blocked (full, and a send waits for room)

threadVars == <<ingestor, channel>>
allVars == <<vars, heartbeatVars, threadVars>>

IngestorTypeOK == /\ TypeOK
                  /\ HeartbeatTypeOK
                  /\ ingestor \in {"starting", "up", "ended"}
                  /\ channel \in {"open", "full", "blocked"}

IngestorInit == /\ Init
                /\ HeartbeatInit
                /\ ingestor = "starting"
                /\ channel = "open"

Running == ingestor # "ended" /\ channel # "blocked"

\* The authentication of the heartbeat's client is the only call whose failure
\* ends a task: "tokio::select!" then drops the others.
HeartbeatAuthenticates == /\ Running
                          /\ ingestor = "starting"
                          /\ ingestor' \in {"up", "ended"}
                          /\ UNCHANGED <<vars, heartbeatVars, channel>>

\* try_send: what does not fit is dropped.
TrySend == channel' \in IF channel = "open" THEN {"open", "full"} ELSE {channel}

\* send: the thread waits for room.
BlockingSend == channel' \in IF channel = "open" THEN {"open", "full"} ELSE {"blocked"}

\* The manager and the market WebSocket do not wait for the heartbeat.  While an
\* announcement is blocked no task runs, so it does not matter that the watch
\* channel gets the tokens only then.
FeedStep == /\ Running
            /\ ManagerStep \/ WsStep
            /\ IF last' # last THEN BlockingSend ELSE UNCHANGED channel
            /\ UNCHANGED <<heartbeatVars, ingestor>>

\* The unit of time, a housekeeping period, is long beside a blocked send.
ClockStep == /\ TimePasses
             /\ UNCHANGED <<heartbeatVars, threadVars>>

HeartbeatStep == /\ Running
                 /\ ingestor = "up"
                 /\ PostHeartbeat(channel = "full")
                 /\ UNCHANGED <<vars, threadVars>>

SessionLostStep == SessionLost /\ UNCHANGED <<vars, threadVars>>

\* The other sessions: connecting, a message that is not too old, the end and the
\* back-off each send an event or nothing.  None of them ever ends its task, and
\* the engine does not read which of them are connected.
FuturesSession == Running /\ BlockingSend
SpotSession == Running /\ TrySend
UserSession == Running /\ TrySend
MarketMessages == Running /\ session = "open" /\ TrySend

SessionStep == /\ FuturesSession \/ SpotSession \/ UserSession \/ MarketMessages
               /\ UNCHANGED <<vars, heartbeatVars, ingestor>>

\* The engine receives an event; a send that waits takes its place.
EngineReceives == /\ channel # "open"
                  /\ channel' = IF channel = "blocked" THEN "full" ELSE "open"
                  /\ UNCHANGED <<vars, heartbeatVars, ingestor>>

IngestorNext == \/ HeartbeatAuthenticates \/ FeedStep \/ ClockStep
                \/ HeartbeatStep \/ SessionLostStep \/ SessionStep \/ EngineReceives

IngestorSpec == IngestorInit /\ [][IngestorNext]_allVars

-----------------------------------------------------------------------------
(* Properties.                                                             *)

\* The counted failures are explained by half as many losses: a post that is
\* lost costs one more heartbeat, rejected because the id went with it, and no
\* rejection repeats itself.  (The engine cancels every order at the threshold.)
FailuresExplained == consecutive_failures <= 2 * lost

\* The tasks run whenever no send blocks the thread, the engine keeps receiving,
\* and faster than events arrive, calls end, and the exchange is reached in the
\* end (losses are bounded).
IngestorFairness ==
    /\ WF_allVars(ClockStep)
    /\ WF_allVars(HeartbeatAuthenticates)
    /\ WF_allVars(EngineReceives)
    /\ SF_allVars(EngineReceives /\ channel' = "open")
    /\ SF_allVars(HeartbeatStep)
    /\ SF_allVars(HeartbeatStep /\ CountOk)
    /\ SF_allVars(FeedStep /\ ManagerStep)
    /\ SF_allVars(FeedStep /\ PollFound)
    /\ SF_allVars(FeedStep /\ TokensChanged)
    /\ SF_allVars(FeedStep /\ BackoffEnds)

FairIngestorSpec == IngestorSpec /\ IngestorFairness

Ended == ingestor = "ended"

\* Unless the ingestor has ended, the engine's heartbeat recovers: whatever ids
\* were lost or replaced, posts are accepted again and a success is reported.
HeartbeatRecovers == ~heartbeat_healthy ~> (heartbeat_healthy \/ Ended)

\* Rotations never stop: whatever prewarming, polling and the timers do, and
\* however often a blocked send stops the thread, another market is announced
\* again and again, unless the ingestor has ended.
AnnouncementsContinue == []<>Ended \/ []<><<Announcement>>_vars

\* The market WebSocket catches up with every rotation.
FeedCatchesUp == (tokens # last) ~> (tokens = last \/ Ended)
=============================================================================
