-------------------------- MODULE CommandListener --------------------------
(***************************************************************************)
(* The Telegram command listener (control/listener.rs, handlers.rs): one    *)
(* task that polls Telegram for updates and handles them one by one.        *)
(* Telegram keeps an update until a later poll confirms it with its offset, *)
(* so a listener that starts again finds the updates its predecessor        *)
(* fetched last.                                                            *)
(***************************************************************************)
EXTENDS Naturals, Sequences, SequencesExt

CONSTANTS
    Command,      \* the commands the operator may send
    MaxUpdates,   \* bound: updates sent
    PollLimit,    \* Telegram's limit on the updates of one poll
    Faults        \* flush, poll, channel, config, type, crash, ingestor

AllCommands == {"stop", "resume", "shutdown", "set", "redeem", "stranger"}

ASSUME ListenerAssumption ==
    /\ Command \subseteq AllCommands
    /\ MaxUpdates \in Nat
    /\ PollLimit \in Nat \ {0}
    /\ Faults \subseteq {"flush", "poll", "channel", "config", "type", "crash", "ingestor"}

VARIABLES
    updates,         \* the updates sent to the bot; an update's id is its place
    confirmed,       \* Telegram has forgotten the updates up to this one
    listener,        \* flush, poll, handle, or restart: the configuration is written
    last_update_id,
    batch,           \* ids of the polled updates still to handle
    commanded,       \* last_command_ms is set: a command may come within two seconds of it
    answers,         \* history: what the handler answered each time it took an update
    config_file,     \* the update whose value config.toml holds
    config_loads,    \* it parses: every value has its field's type
    unflushed,       \* history: some session could not flush
    inbox,           \* control events in the ingestor channel
    loop             \* the engine's loop: running, ending (channel still open), over

serverVars == <<updates, confirmed>>
pollVars == <<last_update_id, batch>>
configVars == <<config_file, config_loads>>
listenerVars == <<serverVars, pollVars, configVars, listener, commanded, answers, unflushed>>

UpdateId == 1..MaxUpdates
ControlEvent == {"pause", "resume", "shutdown", "restart"}
Answer == {"accepted", "refused", "ignored", "spawned"}

ListenerTypeOK ==
    /\ updates \in Seq(Command) /\ Len(updates) <= MaxUpdates
    /\ confirmed \in 0..Len(updates)
    /\ listener \in {"flush", "poll", "handle", "restart"}
    /\ last_update_id \in 0..Len(updates)
    /\ batch \in Seq(1..Len(updates))
    /\ commanded \in BOOLEAN
    /\ answers \in [UpdateId -> Seq(Answer)]
    /\ config_file \in 0..Len(updates)
    /\ {config_loads, unflushed} \subseteq BOOLEAN
    /\ inbox \in Seq(ControlEvent)
    /\ loop \in {"running", "ending", "over"}

\* Mutant: nothing is flushed.
ListenerStartsPolling == /\ listener' = "poll"
                         /\ last_update_id' = 0
                         /\ batch' = <<>>
                         /\ commanded' = FALSE

\* A new process: the listener remembers nothing of the one before.
ListenerStarts == /\ listener' = "flush"
                  /\ last_update_id' = 0
                  /\ batch' = <<>>
                  /\ commanded' = FALSE

ListenerInit == /\ updates = <<>> /\ confirmed = 0
                /\ listener = "flush" /\ last_update_id = 0 /\ batch = <<>>
                /\ commanded = FALSE
                /\ answers = [i \in UpdateId |-> <<>>]
                /\ config_file = 0 /\ config_loads = TRUE
                /\ unflushed = FALSE

\* Somebody sends the bot a command.
Send(c) == /\ Len(updates) < MaxUpdates
           /\ updates' = Append(updates, c)
           /\ UNCHANGED <<confirmed, pollVars, listener, commanded, answers, configVars, unflushed, inbox>>

Later(a, b) == IF a > b THEN a ELSE b

\* Mutant: one update too many.
FetchedPastEnd == LET from == Later(confirmed, last_update_id)
                  IN [k \in 1..PollLimit |-> from + k]

\* getUpdates with offset last_update_id + 1: Telegram forgets what comes before
\* the offset and returns the updates from there, up to its limit.
Fetched == LET from == Later(confirmed, last_update_id)
               n == Len(updates) - from
           IN [k \in 1..(IF n > PollLimit THEN PollLimit ELSE n) |-> from + k]

\* Mutant: the newest id is not recorded.
PollUpdatesUnrecorded == /\ confirmed' = Later(confirmed, last_update_id)
                         /\ UNCHANGED last_update_id

PollUpdates == /\ confirmed' = Later(confirmed, last_update_id)
               /\ last_update_id' = IF Fetched = <<>> THEN last_update_id ELSE Last(Fetched)

\* The first poll of a session: what it returns is not processed.
Flush == /\ listener = "flush"
         /\ PollUpdates
         /\ listener' = "poll"
         /\ UNCHANGED <<updates, batch, commanded, answers, configVars, unflushed, inbox>>

FlushFails == /\ listener = "flush"
              /\ "flush" \in Faults
              /\ ~unflushed              \* bound: one flush fails
              /\ listener' = "poll"
              /\ unflushed' = TRUE
              /\ UNCHANGED <<serverVars, pollVars, commanded, answers, configVars, inbox>>

Poll == /\ listener = "poll"
        /\ Fetched # <<>>
        /\ PollUpdates
        /\ batch' = Fetched
        /\ listener' = "handle"
        /\ UNCHANGED <<updates, commanded, answers, configVars, unflushed, inbox>>

\* Telegram has seen the offset, but its answer is lost or comes too late.
PollFails == /\ listener = "poll"
             /\ "poll" \in Faults
             /\ confirmed' = Later(confirmed, last_update_id)
             /\ UNCHANGED <<updates, pollVars, listener, commanded, answers, configVars, unflushed, inbox>>

Current == Head(batch)
Critical == {"stop", "shutdown", "resume"}
EventOf == [stop |-> "pause", resume |-> "resume", shutdown |-> "shutdown"]

Says(a) == answers' = [answers EXCEPT ![Current] = Append(@, a)]

\* The next update of the batch, or the next poll.
GoOn == /\ batch' = Tail(batch)
        /\ listener' = IF Len(batch) = 1 THEN "poll" ELSE "handle"

\* Mutant: what try_send returns is not looked at.
TrySendUnchecked(event) ==
    /\ \/ loop # "over" /\ inbox' = Append(inbox, event)
       \/ (loop = "over" \/ "channel" \in Faults) /\ UNCHANGED inbox
    /\ Says("accepted")

\* try_send, and what the handler makes of it.
TrySend(event) ==
    \/ /\ loop # "over"
       /\ inbox' = Append(inbox, event)
       /\ Says("accepted")
    \/ /\ loop = "over" \/ "channel" \in Faults
       /\ Says("refused")
       /\ UNCHANGED inbox

Taking(c) == listener = "handle" /\ updates[Current] = c

\* Somebody else's message: no reply.
Ignore == /\ Taking("stranger")
          /\ Says("ignored")
          /\ GoOn
          /\ UNCHANGED <<serverVars, last_update_id, commanded, configVars, unflushed, inbox>>

\* Within two seconds of the command before; critical commands are exempt.
RateLimit == /\ listener = "handle"
             /\ updates[Current] \notin Critical \cup {"stranger"}
             /\ commanded
             /\ Says("refused")
             /\ GoOn
             /\ UNCHANGED <<serverVars, last_update_id, commanded, configVars, unflushed, inbox>>

HandleControl == /\ \E c \in Critical : Taking(c) /\ TrySend(EventOf[c])
                 /\ commanded' = TRUE
                 /\ GoOn
                 /\ UNCHANGED <<serverVars, last_update_id, configVars, unflushed>>

\* /set: the configuration file is replaced first (the value is a number in the
\* parameter's range, but may be a fraction where an integer belongs)...
HandleSet == /\ Taking("set")
             /\ config_file' = Current
             /\ config_loads' \in {TRUE, "type" \notin Faults}
             /\ commanded' = TRUE
             /\ listener' = "restart"
             /\ UNCHANGED <<serverVars, pollVars, answers, unflushed, inbox>>

\* ... unless the value is not valid or the file cannot be written; ...
RefuseSet == /\ Taking("set")
             /\ "config" \in Faults
             /\ Says("refused")
             /\ commanded' = TRUE
             /\ GoOn
             /\ UNCHANGED <<serverVars, last_update_id, configVars, unflushed, inbox>>

\* ... then the engine is asked to drain and restart.
SendRestart == /\ listener = "restart"
               /\ TrySend("restart")
               /\ GoOn
               /\ UNCHANGED <<serverVars, last_update_id, commanded, configVars, unflushed>>

\* /redeem runs as a task of its own; the handler does not wait for it.
HandleRedeem == /\ Taking("redeem")
                /\ Says("spawned")
                /\ commanded' = TRUE
                /\ GoOn
                /\ UNCHANGED <<serverVars, last_update_id, configVars, unflushed, inbox>>

ListenerNext == \/ Flush \/ FlushFails \/ Poll \/ PollFails
                \/ Ignore \/ RateLimit \/ HandleControl
                \/ HandleSet \/ RefuseSet \/ SendRestart
=============================================================================
