----------------------------- MODULE Heartbeat -----------------------------
(***************************************************************************)
(* The heartbeat task (gateway/polymarket/heartbeat.rs) and the session the *)
(* exchange keeps for it.  The task posts the id of the answer before; a    *)
(* rejection carries the id the exchange expects.  Ids are told apart only  *)
(* by whether the exchange still accepts them.                              *)
(***************************************************************************)
EXTENDS Integers

CONSTANTS
    HeartbeatDeadThreshold,  \* heartbeat_dead_threshold
    MaxLost                  \* bound: posts and sessions lost altogether

ASSUME HeartbeatAssumption == /\ HeartbeatDeadThreshold \in Nat \ {0}
                              /\ MaxLost \in Nat

VARIABLES
    heartbeat_id,            \* none, valid (the one the exchange expects) or outdated
    server_session,          \* the exchange has a heartbeat session for the bot
    consecutive_failures,
    lost,                    \* history: posts and sessions lost since the last success
    losses,                  \* and altogether
    heartbeat_failures, heartbeat_healthy   \* the engine's

taskVars == <<heartbeat_id, server_session, consecutive_failures, lost, losses>>
healthVars == <<heartbeat_failures, heartbeat_healthy>>
heartbeatVars == <<taskVars, healthVars>>

HeartbeatTypeOK ==
    /\ heartbeat_id \in {"none", "valid", "outdated"}
    /\ {server_session, heartbeat_healthy} \subseteq BOOLEAN
    /\ heartbeat_id = "valid" => server_session
    /\ consecutive_failures \in 0..(2 * MaxLost)
    /\ losses \in 0..MaxLost
    /\ lost \in 0..losses
    /\ heartbeat_failures \in 0..HeartbeatDeadThreshold

HeartbeatInit == /\ heartbeat_id = "none" /\ server_session = FALSE
                 /\ consecutive_failures = 0 /\ lost = 0 /\ losses = 0
                 /\ heartbeat_failures = 0 /\ heartbeat_healthy = TRUE

-----------------------------------------------------------------------------
(* The engine's count of failures, which stops to matter at the threshold. *)

\* Mutant: a success only starts the count again.
CountOkStaysDead == /\ heartbeat_failures' = 0
                    /\ UNCHANGED heartbeat_healthy

CountOk == /\ heartbeat_failures' = 0
           /\ heartbeat_healthy' = TRUE

CountFailed == /\ heartbeat_failures' = IF heartbeat_failures < HeartbeatDeadThreshold
                                        THEN heartbeat_failures + 1 ELSE heartbeat_failures
               /\ heartbeat_healthy' = (heartbeat_healthy
                                        /\ heartbeat_failures' < HeartbeatDeadThreshold)

\* try_send: the report is dropped when the channel is full.
Reports(count, full) == IF full THEN UNCHANGED healthVars ELSE count

-----------------------------------------------------------------------------
(* One post.                                                               *)

Lose == /\ losses < MaxLost
        /\ losses' = losses + 1
        /\ lost' = lost + 1

\* The exchange accepts the id it expects, and any start of a session.
HeartbeatOk(full) ==
    /\ heartbeat_id = "valid" \/ (heartbeat_id = "none" /\ ~server_session)
    /\ heartbeat_id' = "valid"
    /\ server_session' = TRUE
    /\ consecutive_failures' = 0
    /\ lost' = 0
    /\ UNCHANGED losses
    /\ Reports(CountOk, full)

\* extract_heartbeat_id_from_error: the id the exchange expects, if it has one.
\* Mutant: the id is kept.
ExtractHeartbeatIdKept == heartbeat_id' = heartbeat_id

ExtractHeartbeatId == heartbeat_id' = IF server_session THEN "valid" ELSE "none"

HeartbeatRejected(full) ==
    /\ heartbeat_id = "outdated" \/ (heartbeat_id = "none" /\ server_session)
    /\ ExtractHeartbeatId
    /\ consecutive_failures' = consecutive_failures + 1
    /\ UNCHANGED <<server_session, lost, losses>>
    /\ Reports(CountFailed, full)

\* The post or its answer is lost: the error has no id, and the one the task had
\* is given up.  The exchange may have seen the post.
HeartbeatLost(full) ==
    /\ Lose
    /\ heartbeat_id' = "none"
    /\ server_session' \in {server_session, TRUE}
    /\ consecutive_failures' = consecutive_failures + 1
    /\ Reports(CountFailed, full)

\* The exchange ends the session, or replaces its id.
SessionLost == /\ heartbeat_id = "valid"
               /\ Lose
               /\ heartbeat_id' = "outdated"
               /\ server_session' \in BOOLEAN
               /\ UNCHANGED <<consecutive_failures, healthVars>>

PostHeartbeat(full) == HeartbeatOk(full) \/ HeartbeatRejected(full) \/ HeartbeatLost(full)
=============================================================================
