-------------------------- MODULE InstanceTeardown --------------------------
(***************************************************************************)
(* Teardown of an automation instance: the service that deletes what an    *)
(* instance owns (automation-instance-teardown), the store that records    *)
(* how far it got (automation-instance, automation-runtime-interaction-    *)
(* postgres), the deleter that calls Discord and the supervisor that       *)
(* retries (automation-runtime).                                           *)
(*                                                                         *)
(* An instance owns one message, one channel and one role, deleted in that *)
(* order; a key stands for a guild and an instance id, and the order of    *)
(* the numbers for cmp_c_v2.  The key lock is the one KeyLockSpec          *)
(* describes, which KeyLock.tla shows the code to implement: a key is      *)
(* owned while a task works on it.                                         *)
(*                                                                         *)
(* A call that fails, times out or is cancelled may or may not have taken  *)
(* effect; MaxFaults bounds those, the failed scans and the crashes.       *)
(***************************************************************************)
EXTENDS Naturals, Sequences, FiniteSetsExt

CONSTANTS
  Keys,          \* instances, positive numbers
  Users,         \* tasks that execute a TeardownInstance action
  Retriers,      \* the slots of the supervisor's buffer_unordered
  PageLimit,     \* page_limit of the supervisor
  InOwnChannel,  \* instances whose message was posted in their own channel
  Forbidden,     \* instances whose role the bot may not delete
  MaxRequests,   \* bound on the users' requests
  MaxFaults      \* bound on failures and crashes

ASSUME TeardownAssumption ==
  /\ Keys \subseteq Nat \ {0} /\ IsFiniteSet(Keys)
  /\ PageLimit \in Nat \ {0}
  /\ MaxRequests \in Nat /\ MaxFaults \in Nat

Tasks == Users \cup Retriers

VARIABLES
  status,     \* key -> the row's status, or "absent"
  live,       \* key -> the resources that still exist in Discord
  task,       \* task -> where it is in teardown_locked, and with what
  sup,        \* the retry supervisor: its step, cursor, page and next cursor
  requests,   \* requests the users made
  faults,     \* failures so far
  succeeded,  \* history: keys some caller was told are torn down
  pending     \* history: keys this scan cycle still has to try

vars == <<status, live, task, sup, requests, faults, succeeded, pending>>

Resources == <<"message", "channel", "role">>
Idle == [pc |-> "idle", key |-> 0, exact |-> "none", at |-> 1]
NoCursor == [after |-> 0, through |-> 0]
Deleting == {k \in Keys : status[k] = "deleting"}

\* Mutant: there is no key lock.
LockedNever(k) == FALSE

\* try_lock refuses a key some task works on.
Locked(k) == \E t \in Tasks : task[t].key = k

Supervising(pc, cursor, page, next) == [pc |-> pc, cursor |-> cursor, page |-> page, next |-> next]

Init ==
  /\ status = [k \in Keys |-> "absent"]
  /\ live = [k \in Keys |-> {}]
  /\ task = [t \in Tasks |-> Idle]
  /\ sup = Supervising("scan", NoCursor, {}, NoCursor)
  /\ requests = 0
  /\ faults = 0
  /\ succeeded = {}
  /\ pending = {}

----------------------------------------------------------------------------
(* Steps of one task. *)

Goto(t, pc) == task' = [task EXCEPT ![t].pc = pc]
Return(t) == task' = [task EXCEPT ![t] = Idle]
Fault == faults < MaxFaults /\ faults' = faults + 1
NoFault == UNCHANGED faults

\* register_instance_v1: an instance is created with all it owns.
Register(k) ==
  /\ status[k] = "absent"
  /\ status' = [status EXCEPT ![k] = "active"]
  /\ live' = [live EXCEPT ![k] = Range(Resources)]
  /\ UNCHANGED <<task, sup, requests, faults, succeeded, pending>>

\* A user's request takes the key lock, or is answered InProgress.  An exact
\* request carries the manifest it expects.
Request(t, k, exact) ==
  /\ task[t] = Idle
  /\ requests < MaxRequests
  /\ requests' = requests + 1
  /\ task' = IF Locked(k) THEN task
             ELSE [task EXCEPT ![t] = [Idle EXCEPT !.pc = "lookup", !.key = k, !.exact = exact]]
  /\ UNCHANGED <<status, live, sup, faults, succeeded, pending>>

\* get_for_teardown_v1, before and after the claim: the row must be there and
\* match an exact request.
Lookup(t) ==
  /\ task[t].pc \in {"lookup", "recheck"}
  /\ LET k == task[t].key IN
     \/ /\ status[k] = "absent" \/ task[t].exact = "drift"
        /\ Return(t) /\ NoFault /\ UNCHANGED succeeded
     \/ /\ status[k] # "absent" /\ task[t].exact # "drift"
        /\ task[t].pc = "recheck" /\ task[t].at = 0
        /\ Return(t) /\ NoFault /\ succeeded' = succeeded \cup {k}
     \/ /\ status[k] # "absent" /\ task[t].exact # "drift"
        /\ ~(task[t].pc = "recheck" /\ task[t].at = 0)
        /\ Goto(t, IF task[t].pc = "lookup" THEN "claim" ELSE "delete")
        /\ NoFault /\ UNCHANGED succeeded
  /\ UNCHANGED <<status, live, sup, requests, pending>>

\* The effect of claim_deleting_v1 on the row.
ClaimedStatus(k) == IF status[k] \in {"active", "disabled"} THEN "deleting" ELSE status[k]

\* Mutant: a row in deletion is taken for a deleted one.
ClaimConfused(t) ==
  /\ task[t].pc = "claim"
  /\ LET k == task[t].key IN
     /\ status' = [status EXCEPT ![k] = ClaimedStatus(k)]
     /\ task' = [task EXCEPT ![t] = [@ EXCEPT !.pc = "recheck",
                                              !.at = IF status[k] \in {"deleting", "deleted"} THEN 0 ELSE 1]]
  /\ NoFault
  /\ UNCHANGED <<live, sup, requests, succeeded, pending>>

\* claim_deleting_v1: Claimed, AlreadyDeleting or AlreadyDeleted (at = 0).
Claim(t) ==
  /\ task[t].pc = "claim"
  /\ LET k == task[t].key IN
     /\ status' = [status EXCEPT ![k] = ClaimedStatus(k)]
     /\ task' = [task EXCEPT ![t] = [@ EXCEPT !.pc = "recheck",
                                              !.at = IF status[k] = "deleted" THEN 0 ELSE 1]]
  /\ NoFault
  /\ UNCHANGED <<live, sup, requests, succeeded, pending>>

\* What Discord answers a delete, and of which resource.  A deleted channel
\* takes its messages along, and a message of a channel that is gone is
\* reported with the channel's code.
Answer(k, r) ==
  IF r = "role" /\ k \in Forbidden THEN <<"forbidden", r>>
  ELSE IF r \in live[k] THEN <<"ok", r>>
  ELSE IF r = "message" /\ k \in InOwnChannel /\ "channel" \notin live[k] THEN <<"unknown", "channel">>
  ELSE <<"unknown", r>>

Without(k, r) ==
  live[k] \ ({r} \cup IF r = "channel" /\ k \in InOwnChannel THEN {"message"} ELSE {})

\* Mutant: every error is taken for a resource that is gone.
DeletedAnything(r, answer) == TRUE

\* Mutant: a resource that is gone counts as a failure.
DeletedOnlyNow(r, answer) == answer = <<"ok", r>>

\* classify_delete_response: success, or a 404 with exactly the code of the
\* resource's own kind.
Deleted(r, answer) == answer \in {<<"ok", r>>, <<"unknown", r>>}

\* One delete call of teardown_locked, messages before channels before roles.
Delete(t) ==
  /\ task[t].pc = "delete"
  /\ LET k == task[t].key
         r == Resources[task[t].at]
         answer == Answer(k, r)
     IN /\ live' = IF answer = <<"forbidden", r>> THEN live ELSE [live EXCEPT ![k] = Without(k, r)]
        /\ task' = IF ~Deleted(r, answer) THEN [task EXCEPT ![t] = Idle]
                   ELSE IF task[t].at = Len(Resources) THEN [task EXCEPT ![t].pc = "mark"]
                   ELSE [task EXCEPT ![t].at = @ + 1]
  /\ NoFault
  /\ UNCHANGED <<status, sup, requests, succeeded, pending>>

\* mark_deleted_v1 and the answer Completed or ResumedAndCompleted.  A row
\* that is active again is a conflict.
Mark(t) ==
  /\ task[t].pc = "mark"
  /\ LET k == task[t].key IN
     /\ status' = [status EXCEPT ![k] = IF @ = "deleting" THEN "deleted" ELSE @]
     /\ succeeded' = IF status[k] \in {"deleting", "deleted"} THEN succeeded \cup {k} ELSE succeeded
  /\ Return(t)
  /\ NoFault
  /\ UNCHANGED <<live, sup, requests, pending>>

\* The call a task waits for fails, times out, or the task is cancelled: the
\* guard is dropped, and the call took effect or not.
Interrupted(t) ==
  /\ task[t].pc # "idle"
  /\ Fault
  /\ Return(t)
  /\ LET k == task[t].key IN
     \/ UNCHANGED <<status, live>>
     \/ /\ task[t].pc = "claim"
        /\ status' = [status EXCEPT ![k] = ClaimedStatus(k)]
        /\ UNCHANGED live
     \/ /\ task[t].pc = "delete" /\ Answer(k, Resources[task[t].at])[1] = "ok"
        /\ live' = [live EXCEPT ![k] = Without(k, Resources[task[t].at])]
        /\ UNCHANGED status
     \/ /\ task[t].pc = "mark" /\ status[k] = "deleting"
        /\ status' = [status EXCEPT ![k] = "deleted"]
        /\ UNCHANGED live
  /\ UNCHANGED <<sup, requests, succeeded, pending>>

----------------------------------------------------------------------------
(* The retry supervisor. *)

\* Mutant: the cursor skips one key.
NextCursorSkips(page, through) ==
  IF page # {} /\ Max(page) < through THEN [after |-> Max(page) + 1, through |-> through]
  ELSE NoCursor

\* next_cursor_v2, or the initial cursor when the cycle is over.
NextCursor(page, through) ==
  IF page # {} /\ Max(page) < through THEN [after |-> Max(page), through |-> through]
  ELSE NoCursor

\* scan_retryable_v2: the first PageLimit deleting keys after the cursor, up
\* to the largest one there was when the cycle began.
Scan ==
  /\ sup.pc = "scan"
  /\ LET through == IF sup.cursor.through # 0 THEN sup.cursor.through
                    ELSE IF Deleting = {} THEN 0 ELSE Max(Deleting)
         found == {k \in Deleting : k > sup.cursor.after /\ k <= through}
         page == {k \in found : Cardinality({j \in found : j < k}) < PageLimit}
     IN sup' = Supervising("run", sup.cursor, page, NextCursor(page, through))
  /\ pending' = IF sup.cursor = NoCursor THEN Deleting ELSE pending
  /\ UNCHANGED <<status, live, task, requests, faults, succeeded>>

\* A scan that fails or times out leaves the cursor alone.
ScanFails ==
  /\ sup.pc = "scan"
  /\ Fault
  /\ sup' = [sup EXCEPT !.pc = "sleep"]
  /\ UNCHANGED <<status, live, task, requests, succeeded, pending>>

\* A free slot takes the next key of the page, the smallest one left; a key in
\* use is answered InProgress and left to its owner.
Retry(t) ==
  /\ sup.pc = "run" /\ sup.page # {} /\ task[t] = Idle
  /\ LET k == Min(sup.page) IN
     /\ task' = IF Locked(k) THEN task
                ELSE [task EXCEPT ![t] = [Idle EXCEPT !.pc = "lookup", !.key = k]]
     /\ pending' = pending \ {k}
  /\ sup' = [sup EXCEPT !.page = @ \ {Min(@)}]
  /\ UNCHANGED <<status, live, requests, faults, succeeded>>

\* The page is done: the cursor moves on and the supervisor sleeps.
PageDone ==
  /\ sup.pc = "run" /\ sup.page = {}
  /\ \A t \in Retriers : task[t] = Idle
  /\ sup' = Supervising("sleep", sup.next, {}, sup.next)
  /\ UNCHANGED <<status, live, task, requests, faults, succeeded, pending>>

Wake ==
  /\ sup.pc = "sleep"
  /\ sup' = [sup EXCEPT !.pc = "scan"]
  /\ UNCHANGED <<status, live, task, requests, faults, succeeded, pending>>

\* The process ends and starts again: tasks, locks and cursor are lost.
Crash ==
  /\ Fault
  /\ task' = [t \in Tasks |-> Idle]
  /\ sup' = Supervising("scan", NoCursor, {}, NoCursor)
  /\ pending' = {}
  /\ UNCHANGED <<status, live, requests, succeeded>>

Step(t) == Lookup(t) \/ Claim(t) \/ Delete(t) \/ Mark(t)

Next ==
  \/ \E k \in Keys : Register(k)
  \/ \E t \in Users, k \in Keys, exact \in {"none", "match", "drift"} : Request(t, k, exact)
  \/ \E t \in Tasks : Step(t) \/ Interrupted(t)
  \/ \E t \in Retriers : Retry(t)
  \/ Scan \/ ScanFails \/ PageDone \/ Wake \/ Crash

Spec == Init /\ [][Next]_vars

\* The runtime polls its tasks, a call returns (the HTTP client and the
\* database have timeouts), and the supervisor's sleep ends.
Fairness ==
  /\ \A t \in Tasks : WF_vars(Step(t))
  /\ \A t \in Retriers : WF_vars(Retry(t))
  /\ WF_vars(Scan) /\ WF_vars(PageDone) /\ WF_vars(Wake)

FairSpec == Spec /\ Fairness

----------------------------------------------------------------------------

TaskRecords ==
  [pc : {"idle", "lookup", "claim", "recheck", "delete", "mark"}, key : Keys \cup {0},
   exact : {"none", "match", "drift"}, at : 0..Len(Resources)]
Cursors == [after : Nat, through : Nat]
Supervisors ==
  [pc : {"scan", "run", "sleep"}, cursor : Cursors, page : SUBSET Keys, next : Cursors]

\* The values of the variables; and a key is worked on by one task at a time.
TypeOK ==
  /\ status \in [Keys -> {"absent", "active", "deleting", "deleted"}]
  /\ live \in [Keys -> SUBSET Range(Resources)]
  /\ task \in [Tasks -> TaskRecords]
  /\ sup \in Supervisors
  /\ requests \in 0..MaxRequests /\ faults \in 0..MaxFaults
  /\ succeeded \subseteq Keys /\ pending \subseteq Keys
  /\ \A s, t \in Tasks : s # t /\ task[s].key # 0 => task[s].key # task[t].key

\* The tombstone is honest: a deleted instance has nothing left in Discord and
\* an instance that is not claimed has lost nothing, over crashes, lost
\* answers, cancelled attempts and concurrent callers.  It is what
\* observe_teardown_exact_v1's ProvenSucceeded and ProvenNotStarted rest on.
TombstoneIsHonest ==
  \A k \in Keys :
    /\ status[k] = "deleted" => live[k] = {}
    /\ status[k] = "active" => live[k] = Range(Resources)

\* A caller that was told Completed, ResumedAndCompleted or AlreadyDeleted was
\* told the truth, and it stays true.
SuccessIsDurable == \A k \in succeeded : status[k] = "deleted"

\* When the supervisor is back at the initial cursor it has tried every
\* instance that was deleting when the cycle began and still is, although rows
\* enter and leave the set while it pages through.
CycleTriesAll ==
  sup.pc = "sleep" /\ sup.cursor = NoCursor => pending \cap Deleting = {}

\* Every teardown that was started is finished, in spite of failures and of
\* instances that can never be torn down.
TeardownCompletes == \A k \in Keys \ Forbidden : status[k] = "deleting" ~> status[k] = "deleted"
=============================================================================
