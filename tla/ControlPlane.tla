--------------------------- MODULE ControlPlane ---------------------------
(***************************************************************************)
(* The control plane: the command listener, the engine loop of main.rs as   *)
(* far as control events go, the drain watcher that ends the process, the   *)
(* service manager that starts it again, and the redemptions, which end     *)
(* with the process.                                                        *)
(***************************************************************************)
EXTENDS CommandListener, RedeemQueue

CONSTANT MaxCrashes     \* bound: crashes

ASSUME CrashAssumption == MaxCrashes \in Nat

VARIABLES
    process,           \* up, down (to be started again), stopped, failed (does not start)
    loaded,            \* the configuration the process was started with
    old_updates,       \* history: the updates sent before the process started
    crashes,
    ingestor,          \* its thread: up, or ended (the heartbeat is not authenticated)
    open_position,     \* ~ has_no_open_position
    draining, paused, pending_exit_code,
    drain_status,      \* the watch channel: the latest status, and whether it was looked at
    watcher            \* waiting, posting, completing (the last message), exiting

engineVars == <<open_position, draining, paused, pending_exit_code>>
watcherVars == <<drain_status, watcher>>
processVars == <<process, loaded, old_updates, crashes, ingestor>>
vars == <<listenerVars, inbox, loop, queueVars, engineVars, watcherVars, processVars>>

Stopped == 0
Restart == 42
NoCode == -1
ExitCode == {Stopped, Restart}

Status == [kind : {"idle", "draining", "complete"}, code : ExitCode \cup {NoCode}, seen : BOOLEAN]
Idling == [kind |-> "idle", code |-> NoCode, seen |-> TRUE]
DrainingNow == [kind |-> "draining", code |-> NoCode, seen |-> FALSE]
Complete(code) == [kind |-> "complete", code |-> code, seen |-> FALSE]

TypeOK == /\ ListenerTypeOK
          /\ QueueTypeOK
          /\ process \in {"up", "down", "stopped", "failed"}
          /\ loaded \in 0..Len(updates)
          /\ old_updates \in 0..Len(updates)
          /\ crashes \in 0..MaxCrashes
          /\ ingestor \in {"up", "ended"}
          /\ {open_position, draining, paused} \subseteq BOOLEAN
          /\ pending_exit_code \in ExitCode \cup {NoCode}
          /\ drain_status \in Status
          /\ watcher \in {"waiting", "posting", "completing", "exiting"}

\* The ingestor's thread ends only if the heartbeat's authentication, its first call,
\* fails.  Which it is is chosen as the process starts (main only looks at the thread
\* after the engine's loop, so what follows from its end may come at any time).
IngestorState == IF "ingestor" \in Faults THEN {"up", "ended"} ELSE {"up"}

EngineInit == /\ open_position = FALSE /\ draining = FALSE /\ paused = FALSE
              /\ pending_exit_code = NoCode
              /\ drain_status = Idling /\ watcher = "waiting"
              /\ inbox = <<>> /\ loop = "running"

Init == /\ ListenerInit
        /\ QueueInit
        /\ EngineInit
        /\ process = "up" /\ loaded = 0 /\ old_updates = 0 /\ crashes = 0
        /\ ingestor \in IngestorState

-----------------------------------------------------------------------------
(* The engine loop.                                                        *)

Take(event) == /\ loop = "running"
               /\ inbox # <<>> /\ Head(inbox) = event
               /\ inbox' = Tail(inbox)

\* The loop ends with this status; what is still in the channel is not read.
Finish(code) == /\ drain_status' = Complete(code)
                /\ loop' = "ending"

CodeOf == [shutdown |-> Stopped, restart |-> Restart]

\* Mutant: the exit code is kept only if the loop can stop at once.
OnDrainForgotten(event) == /\ Take(event)
                           /\ draining' = TRUE
                           /\ open_position' \in BOOLEAN
                           /\ IF open_position'
                              THEN drain_status' = DrainingNow /\ UNCHANGED loop
                              ELSE Finish(CodeOf[event])
                           /\ UNCHANGED <<pending_exit_code, paused, watcher>>

\* Shutdown, DrainAndRestart: stop now, or drain the open position first.  The
\* code of an earlier drain is replaced.
OnDrain(event) == /\ Take(event)
                  /\ draining' = TRUE
                  /\ pending_exit_code' = CodeOf[event]
                  /\ open_position' \in BOOLEAN
                  /\ IF open_position'
                     THEN drain_status' = DrainingNow /\ UNCHANGED loop
                     ELSE Finish(CodeOf[event])
                  /\ UNCHANGED <<paused, watcher>>

OnPause == /\ Take("pause")
           /\ paused' = TRUE
           /\ open_position' \in BOOLEAN
           /\ UNCHANGED <<draining, pending_exit_code, loop, watcherVars>>

OnResume == /\ Take("resume")
            /\ paused' = FALSE
            /\ open_position' \in BOOLEAN
            /\ UNCHANGED <<draining, pending_exit_code, loop, watcherVars>>

\* Mutant: a drain that ends later ends with code 0.
OnEventDefaultCode == /\ loop = "running"
                      /\ open_position' \in BOOLEAN
                      /\ IF pending_exit_code # NoCode /\ ~open_position'
                         THEN Finish(Stopped)
                         ELSE UNCHANGED <<drain_status, loop>>
                      /\ UNCHANGED <<inbox, draining, paused, pending_exit_code, watcher>>

\* Any other event: feedback and fills open and close the position (a late
\* report may open one while the engine drains), and a drain may be complete.
OnEvent == /\ loop = "running"
           /\ open_position' \in BOOLEAN
           /\ IF pending_exit_code # NoCode /\ ~open_position'
              THEN Finish(pending_exit_code)
              ELSE UNCHANGED <<drain_status, loop>>
           /\ UNCHANGED <<inbox, draining, paused, pending_exit_code, watcher>>

\* After the loop: summaries and the database are flushed, then the receiving
\* end of the channel is dropped.
LoopOver == /\ loop = "ending"
            /\ loop' = "over"
            /\ UNCHANGED <<inbox, engineVars, watcherVars>>

OnControlEvent == \/ \E event \in {"shutdown", "restart"} : OnDrain(event)
                  \/ OnPause \/ OnResume

EngineNext == OnControlEvent \/ OnEvent \/ LoopOver

-----------------------------------------------------------------------------
(* The drain watcher.                                                      *)

\* changed() and borrow_and_update: only the latest status is seen.
WatcherWakes == /\ watcher = "waiting" /\ ~drain_status.seen
                /\ watcher' = IF drain_status.kind = "complete" THEN "completing" ELSE "posting"
                /\ drain_status' = [drain_status EXCEPT !.seen = TRUE]

\* Mutant: the status is marked as seen after the message instead of before it.
ProgressPostedLate == /\ watcher = "posting"
                      /\ watcher' = "waiting"
                      /\ drain_status' = [drain_status EXCEPT !.seen = TRUE]

\* The message is sent, or fails.
ProgressPosted == /\ watcher = "posting"
                  /\ watcher' = "waiting"
                  /\ UNCHANGED drain_status

SummaryPosted == /\ watcher = "completing"
                 /\ watcher' = "exiting"
                 /\ UNCHANGED drain_status

WatcherNext == WatcherWakes \/ ProgressPosted \/ SummaryPosted

-----------------------------------------------------------------------------
(* The process.                                                            *)

\* Half a second after the last message the watcher ends the process.
Exit == /\ watcher = "exiting"
        /\ process' = IF drain_status.code = Stopped THEN "stopped" ELSE "down"
        /\ UNCHANGED crashes

\* The main task waits for the engine's loop and for the ingestor's thread, in any
\* order.  If that has ended too, main returns, with code 0 whatever the drain's
\* code is, and does not wait for the watcher.
MainReturns == /\ loop = "over" /\ ingestor = "ended"
               /\ process' = "stopped"
               /\ UNCHANGED crashes

Crash == /\ "crash" \in Faults
         /\ crashes < MaxCrashes
         /\ crashes' = crashes + 1
         /\ process' = "down"

ProcessEnds == /\ process = "up"
               /\ Exit \/ MainReturns \/ Crash
               /\ TasksEnd
               /\ ListenerStarts
               /\ open_position' = FALSE /\ draining' = FALSE /\ paused' = FALSE
               /\ pending_exit_code' = NoCode
               /\ drain_status' = Idling /\ watcher' = "waiting"
               /\ inbox' = <<>> /\ loop' = "over"
               /\ UNCHANGED <<serverVars, configVars, answers, unflushed, loaded, old_updates,
                              ingestor>>

\* The service manager restarts on failure, exit code 42 included, and gives up
\* after a few starts that fail.
ProcessFails == /\ process = "down" /\ ~config_loads
                /\ process' = "failed"
                /\ UNCHANGED <<listenerVars, inbox, loop, queueVars, engineVars, watcherVars,
                               loaded, old_updates, crashes, ingestor>>

ProcessStarts == /\ process = "down" /\ config_loads
                 /\ process' = "up"
                 /\ loaded' = config_file
                 /\ old_updates' = Len(updates)
                 /\ loop' = "running" /\ ingestor' \in IngestorState
                 /\ UNCHANGED <<listenerVars, inbox, queueVars, engineVars, watcherVars, crashes>>

\* Commands arrive whether or not the process is up (bound: commands sent and
\* redemptions started together).
OperatorSends == /\ Len(updates) + started < MaxUpdates
                 /\ \E c \in Command : Send(c)
                 /\ UNCHANGED <<loop, queueVars, engineVars, watcherVars, processVars>>

ListenerStep == /\ process = "up"
                /\ ListenerNext
                /\ UNCHANGED <<loop, queueVars, engineVars, watcherVars, processVars>>

\* /redeem starts a redemption, and so does a rotation; the redemptions go on by
\* themselves.
RedeemStep == /\ process = "up"
              /\ \/ HandleRedeem /\ \E t \in Task \ {"auto"} : Begin(t) \/ BeginFails
                 \/ /\ "auto" \in Task /\ Begin("auto")
                    /\ Len(updates) + started < MaxUpdates
                    /\ UNCHANGED <<listenerVars, inbox>>
                 \/ TaskNext /\ UNCHANGED <<listenerVars, inbox>>
              /\ UNCHANGED <<loop, engineVars, watcherVars, processVars>>

InEngine(step) == /\ process = "up"
                  /\ step
                  /\ UNCHANGED <<listenerVars, queueVars, processVars>>

EngineStep == InEngine(EngineNext)

WatcherStep == /\ process = "up"
               /\ WatcherNext
               /\ UNCHANGED <<listenerVars, inbox, loop, queueVars, engineVars, processVars>>

Next == \/ OperatorSends \/ ListenerStep \/ RedeemStep \/ EngineStep \/ WatcherStep
        \/ ProcessEnds \/ ProcessStarts \/ ProcessFails

Spec == Init /\ [][Next]_vars

-----------------------------------------------------------------------------
(* Properties.                                                             *)

\* No update is carried out twice, whatever polls are lost and whenever the
\* process ends: polling moves past a batch before it is handled, and what a new
\* process finds unconfirmed is dropped, unless it could not be fetched.
HandledOnce == \A i \in UpdateId : Len(answers[i]) > 1 => unflushed

\* "Flush stale messages from previous sessions ... don't process them": what a
\* session handles was sent after it had started, unless a flush failed.
StaleNotProcessed ==
    [][\A i \in UpdateId : answers'[i] # answers[i] => i > old_updates \/ unflushed]_vars

\* Once the engine has read its channel it is paused exactly if the last /stop or
\* /resume this session accepted was a /stop: none is lost that was answered as done.
PauseFollowsOperator ==
    LET orders == {i \in UpdateId : /\ i > old_updates /\ answers[i] = <<"accepted">>
                                    /\ updates[i] \in {"stop", "resume"}}
    IN process = "up" /\ loop = "running" /\ inbox = <<>> /\ ~unflushed =>
          (paused <=> \E i \in orders : updates[i] = "stop" /\ \A j \in orders : j <= i)

Accepted(c) == {i \in UpdateId : "accepted" \in ToSet(answers[i]) /\ updates[i] = c}

\* The engine's thread and the watcher run, the watcher's messages to Telegram
\* end, and the position is closed in the end while the ingestor's thread runs (the
\* market's rotation resets it, and the rotations come from that thread).
Fairness == /\ WF_vars(WatcherStep)
            /\ WF_vars(InEngine(OnControlEvent))
            /\ SF_vars(InEngine(OnEvent /\ ~open_position' /\ ingestor # "ended"))
            /\ WF_vars(Exit /\ ProcessEnds)
            /\ WF_vars(ProcessStarts)

FairSpec == Spec /\ Fairness

\* An accepted /set is in force in the end, although a drain may come first and
\* only the latest drain status is seen: unless a /shutdown was accepted too, the
\* ingestor's thread has ended, the configuration does not load any more, or a
\* flush failed and an older /set is carried out again.
SetTakesEffect ==
    \A i \in UpdateId :
        (i \in Accepted("set")) ~> (loaded >= i \/ Accepted("shutdown") # {}
                                            \/ ingestor = "ended"
                                            \/ ~config_loads \/ unflushed)

\* An accepted /shutdown stops the bot, unless it crashes, an accepted /set, before
\* it or after it, restarts it, or the ingestor's thread has ended while the drain
\* waits for the position to close: then no rotation comes to end it.
ShutdownStops ==
    (Accepted("shutdown") # {})
        ~> (process = "stopped" \/ crashes > 0 \/ Accepted("set") # {}
                \/ (ingestor = "ended" /\ drain_status.kind = "draining"))

\* "exit 0 (/stop) = no restart, exit 42 (/set) or crash = restart": the service is
\* left stopped only if a /shutdown was accepted, or if the ingestor's thread had
\* ended, when main may return before the watcher exits with the drain's code.
StoppedByOperator == process = "stopped" => Accepted("shutdown") # {} \/ ingestor = "ended"
=============================================================================
