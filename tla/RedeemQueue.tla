---------------------------- MODULE RedeemQueue ----------------------------
(***************************************************************************)
(* The queue of positions to redeem (control/wallet.rs): redeems.txt, and   *)
(* the tasks that redeem its condition ids and rewrite it through           *)
(* redeems.txt.tmp.  The automatic redeem, /redeem and /redeem <id> are     *)
(* tasks of their own and take no lock.  A file is modelled as its inode:   *)
(* a rename moves the inode another task may still hold open.               *)
(***************************************************************************)
EXTENDS Naturals, Sequences, SequencesExt, FiniteSets

CONSTANTS
    ConditionId,   \* condition ids, numbers
    Task,          \* auto, redeem, specific
    MaxRedeems,    \* bound: redemptions started
    MaxConcurrent  \* bound: redemptions under way at once

ASSUME QueueAssumption ==
    /\ ConditionId \subseteq Nat /\ IsFiniteSet(ConditionId)
    /\ Task \subseteq {"auto", "redeem", "specific"}
    /\ MaxRedeems \in Nat
    /\ MaxConcurrent \in Nat

Inode == 1..(Cardinality(Task) + 2)
NoInode == 0

VARIABLES
    redeems, tmp,  \* the inodes redeems.txt and redeems.txt.tmp name, or none
    content,       \* the lines of each inode
    task,          \* the tasks
    broadcast,     \* history: ids whose redemption was sent to the chain
    listed,        \* history: ids the file was created with
    started        \* redemptions started

queueVars == <<redeems, tmp, content, task, broadcast, listed, started>>

Idle == [pc |-> "idle", todo |-> {}, redeemed |-> {}, remaining |-> <<>>, fd |-> NoInode]

TaskState == [pc : {"idle", "redeem", "load", "open", "write", "rename", "remove", "orphan"},
              todo : SUBSET ConditionId, redeemed : SUBSET ConditionId,
              remaining : Seq(ConditionId), fd : Inode \cup {NoInode}]

QueueTypeOK == /\ redeems \in Inode \cup {NoInode}
               /\ tmp \in Inode \cup {NoInode}
               /\ content \in [Inode -> Seq(ConditionId)]
               /\ task \in [Task -> TaskState]
               /\ broadcast \subseteq ConditionId
               /\ listed \subseteq ConditionId
               /\ started \in 0..MaxRedeems

\* The operator has created the file with some ids (README).
QueueInit == /\ redeems = 1
             /\ tmp = NoInode
             /\ content = [i \in Inode |-> IF i = 1 THEN SetToSeq(ConditionId) ELSE <<>>]
             /\ task = [t \in Task |-> Idle]
             /\ broadcast = {}
             /\ listed = ConditionId
             /\ started = 0

Lines == IF redeems = NoInode THEN <<>> ELSE content[redeems]
Becomes(t, s) == task' = [task EXCEPT ![t] = s]
At(t, pc) == task[t].pc = pc

\* An inode nothing refers to.
Unused(i) == i \notin {redeems, tmp} \cup {task[t].fd : t \in Task}

\* redeem_inner and redeem_specific_inner: the ids of the Data API and of the
\* file, or the id the operator names.
Begin(t) == /\ At(t, "idle")
            /\ started < MaxRedeems
            /\ Cardinality({u \in Task : ~At(u, "idle")}) < MaxConcurrent
            /\ \E ids \in SUBSET ConditionId :
                  /\ IF t = "specific" THEN Cardinality(ids) = 1
                                       ELSE ToSet(Lines) \subseteq ids
                  /\ Becomes(t, [Idle EXCEPT !.pc = "redeem", !.todo = ids])
            /\ started' = started + 1
            /\ UNCHANGED <<redeems, tmp, content, broadcast, listed>>

\* The wallet or the RPC is not there, or the id has the wrong form.
BeginFails == UNCHANGED queueVars

\* One redeemPositions call: confirmed, or its receipt lost after it was sent.
Redeemed(t) == /\ At(t, "redeem")
               /\ \E id \in task[t].todo :
                     /\ Becomes(t, [task[t] EXCEPT !.todo = @ \ {id}, !.redeemed = @ \cup {id}])
                     /\ broadcast' = broadcast \cup {id}
               /\ UNCHANGED <<redeems, tmp, content, listed, started>>

\* Reverted, not sent, or no receipt in time: the id stays in the file.
Skipped(t) == /\ At(t, "redeem")
              /\ \E id \in task[t].todo : Becomes(t, [task[t] EXCEPT !.todo = @ \ {id}])
              /\ UNCHANGED <<redeems, tmp, content, broadcast, listed, started>>

\* The lines whose id was not redeemed, in their order.
Kept(t) == {k \in DOMAIN Lines : Lines[k] \notin task[t].redeemed}
Remaining(t) == LET Nth(j) == CHOOSE k \in Kept(t) : Cardinality({i \in Kept(t) : i <= k}) = j
                IN [j \in 1..Cardinality(Kept(t)) |-> Lines[Nth(j)]]

\* remove_redeemed_ids: read the file again...
Load(t) == /\ At(t, "redeem") /\ task[t].todo = {}
           /\ Becomes(t, IF task[t].redeemed = {} \/ redeems = NoInode THEN Idle
                         ELSE [task[t] EXCEPT !.pc = IF Kept(t) = {} THEN "remove" ELSE "open",
                                              !.remaining = Remaining(t)])
           /\ UNCHANGED <<redeems, tmp, content, broadcast, listed, started>>

\* ... remove it when nothing remains, or write what remains to the temporary
\* file (opened and truncated, then written) and rename that.
RemoveFile(t) == /\ At(t, "remove")
                 /\ redeems' = NoInode
                 /\ tmp' = NoInode
                 /\ Becomes(t, Idle)
                 /\ UNCHANGED <<content, broadcast, listed, started>>

\* Mutant: the file itself is opened, there is no temporary file.
OpenInPlace(t) == /\ At(t, "open")
                  /\ content' = [content EXCEPT ![redeems] = <<>>]
                  /\ Becomes(t, [task[t] EXCEPT !.pc = "write", !.fd = redeems])
                  /\ UNCHANGED <<redeems, tmp, broadcast, listed, started>>

Open(t) == /\ At(t, "open")
           /\ \E i \in Inode :
                 /\ IF tmp = NoInode
                    THEN Unused(i) /\ \A j \in Inode : Unused(j) => i <= j
                    ELSE i = tmp
                 /\ tmp' = i
                 /\ content' = [content EXCEPT ![i] = <<>>]
                 /\ Becomes(t, [task[t] EXCEPT !.pc = "write", !.fd = i])
           /\ UNCHANGED <<redeems, broadcast, listed, started>>

\* Another task may have written more lines to the same inode.
Overwritten(old, new) == new \o SubSeq(old, Len(new) + 1, Len(old))

Write(t) == /\ task[t].pc \in {"write", "orphan"}
            /\ content' = [content EXCEPT ![task[t].fd] = Overwritten(@, task[t].remaining)]
            /\ Becomes(t, IF At(t, "orphan") THEN Idle
                          ELSE [task[t] EXCEPT !.pc = "rename", !.fd = NoInode])
            /\ UNCHANGED <<redeems, tmp, broadcast, listed, started>>

\* A rename fails when another task has renamed or removed the temporary file.
RenameFile(t) == /\ At(t, "rename")
                 /\ redeems' = IF tmp = NoInode THEN redeems ELSE tmp
                 /\ tmp' = NoInode
                 /\ Becomes(t, Idle)
                 /\ UNCHANGED <<content, broadcast, listed, started>>

\* The time-out of the whole redemption drops the task where it stands; a write
\* under way in the blocking pool is still completed.
TimesOut(t) == /\ ~At(t, "idle") /\ ~At(t, "orphan")
               /\ Becomes(t, IF At(t, "write") THEN [task[t] EXCEPT !.pc = "orphan"] ELSE Idle)
               /\ UNCHANGED <<redeems, tmp, content, broadcast, listed, started>>

TaskNext == \E t \in Task : Redeemed(t) \/ Skipped(t) \/ Load(t) \/ RemoveFile(t)
                               \/ Open(t) \/ Write(t) \/ RenameFile(t) \/ TimesOut(t)

\* The process ends: the tasks with it, the files stay.
TasksEnd == /\ task' = [t \in Task |-> Idle]
            /\ UNCHANGED <<redeems, tmp, content, broadcast, listed, started>>

-----------------------------------------------------------------------------
\* "async, atomic write-temp-rename": whatever is interrupted, an id that was
\* not redeemed is still in the file.
NothingLost == listed \subseteq ToSet(Lines) \cup broadcast
=============================================================================
