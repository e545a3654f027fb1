---------------------------- MODULE EffectJournal ----------------------------
(***************************************************************************)
(* The effect journal of one accepted interaction: the worker that carries *)
(* out its plan (automation-runtime, journaled_action_executor), the       *)
(* journal and the receipt it reports to (the SQL functions of the         *)
(* migrations 202607310022 and 202608010001), and the recovery that takes  *)
(* over when the worker is gone: the sweep over expired receipts, and      *)
(* recoverers that observe effects whose outcome is unknown, undo effects  *)
(* of an abandoned plan and close the response at its end                  *)
(* (tools/starring-runtime).                                               *)
(*                                                                         *)
(* A plan is a sequence of effects that ends with the edit of the          *)
(* interaction's response.  "create" stands for a role, channel, overwrite *)
(* or membership, "panel" for a posted message, "register" for an instance *)
(* row and "teardown" for the teardown of the instance the interaction was *)
(* routed to.                                                              *)
(*                                                                         *)
(* The lease of the receipt outlives the worker's deadline by a minute, so *)
(* the lease ends only after the worker is gone.                           *)
(***************************************************************************)
EXTENDS Naturals, Sequences, FiniteSetsExt

CONSTANTS
  Plans,        \* sequences of [kind, needs], needs a set of earlier indices
  Recoverers,   \* slots of the effect recovery supervisors, in all processes
  MaxAttempts   \* the attempt budget, 64 in the code

ASSUME PlansAssumption ==
  \A p \in Plans :
    /\ p \in Seq([kind : {"create", "panel", "register", "teardown", "response"}, needs : SUBSET Nat])
    /\ Len(p) > 1 /\ p[Len(p)].kind = "response"
    /\ \A i \in 1..Len(p) : p[i].needs \subseteq 1..(i - 1)
    /\ \A i \in 1..(Len(p) - 1) : p[i].kind \in {"create", "panel", "register", "teardown"}
    /\ \A i \in 1..(Len(p) - 1) : p[i].kind = "teardown" => i = Len(p) - 1 /\ p[i].needs = {}

ASSUME RecoveryAssumption == MaxAttempts \in Nat /\ "none" \notin Recoverers

VARIABLES
  plan,       \* the bound plan
  state,      \* effect -> its state in the journal
  due,        \* effects whose next_recovery_at, which is also the end of a
              \* recovery claim, has passed
  claim,      \* effect -> the recoverer that holds the current claim
  observed,   \* effect -> observation_attempt_count
  reobserved, \* effect -> compensation_observation_attempt_count
  receipt,    \* the receipt: executing, completed or recovery_required
  leaseOver,  \* the worker's claim on the receipt has expired
  tokenGone,  \* the interaction's token has expired
  rollback,   \* the rollback row: its state and abort_action_index
  real,       \* effect -> what is true outside: absent, present, or pending
              \* (a call that was cut off, an instance that is Deleting)
  worker,     \* the worker: where it is, its effect, what it knows
  task        \* recoverer -> its step, effect, whether it undoes, its finding

journal == <<state, due, claim, observed, reobserved>>
clock == <<leaseOver, tokenGone>>
vars == <<plan, journal, receipt, clock, rollback, real, worker, task>>

----------------------------------------------------------------------------
(* The plan and the states. *)

Effects == 1..Len(plan)
Response == Len(plan)
Mutable == Effects \ {Response}
Compensable == {i \in Mutable : plan[i].kind # "teardown"}
Dependents(i) == {j \in Effects : i \in plan[j].needs}

Succeeded == {"known_succeeded", "reconciled_succeeded"}
Undone == {"planned", "known_failed", "compensated"}
Observable == {"intended", "indeterminate", "observing", "observation_pending"}
Reobservable == {"compensation_intended", "compensation_indeterminate",
                 "compensation_observing", "compensation_observation_pending"}
Final == Succeeded \cup Undone \cup {"recovery_required"}
Nobody == "none"
Idle == [step |-> "idle", effect |-> 0, undo |-> FALSE, found |-> "nothing"]
Gone == [pc |-> "gone", effect |-> 0, knows |-> "nothing"]

\* receipt_authority_observe_v1 and claim_current_v1 ask that the instance an
\* interaction was routed to is active: its own teardown takes it away.
Authority == \A i \in Mutable : plan[i].kind = "teardown" => real[i] = "absent"

\* Mutant: effects that did not fail count as done.
AllDoneUnlessFailed(S, st) == \A i \in S : st[i] \in Succeeded \cup Observable

\* The test for effects in known_succeeded or reconciled_succeeded.
AllDone(S, st) == \A i \in S : st[i] \in Succeeded

Init ==
  /\ plan \in Plans
  /\ state = [i \in Effects |-> "planned"]
  /\ due = {}
  /\ claim = [i \in Effects |-> Nobody]
  /\ observed = [i \in Effects |-> 0]
  /\ reobserved = [i \in Effects |-> 0]
  /\ receipt = "executing"
  /\ leaseOver = FALSE
  /\ tokenGone = FALSE
  /\ rollback = [state |-> "none", abort |-> 0]
  /\ real = [i \in Effects |-> "absent"]
  /\ worker = [pc |-> "intend", effect |-> 1, knows |-> "nothing"]
  /\ task = [r \in Recoverers |-> Idle]

----------------------------------------------------------------------------
(* What the SQL functions share. *)

\* The effects from whose greatest index a rollback starts.
Begun(st) == {i \in Compensable : st[i] # "planned"}

\* require_rollback_v1: no rollback once the teardown succeeded, when nothing
\* is missing or when nothing was begun; an existing row stays.
RequireRollback(st, rb) ==
  IF \/ rb.state # "none"
     \/ \E i \in Mutable : plan[i].kind = "teardown" /\ st[i] \in Succeeded
     \/ AllDone(Mutable, st)
     \/ Begun(st) = {}
  THEN rb
  ELSE [state |-> "required", abort |-> Max(Begun(st))]

\* Mutant: an effect of unknown outcome does not hold up the rollback.
TryCompleteLoose(st, rb, rc) ==
  IF /\ rb.state = "required"
     /\ rc = "recovery_required"
     /\ \A i \in Compensable : i <= rb.abort => st[i] \notin Succeeded
  THEN [rb EXCEPT !.state = "completed"]
  ELSE rb

\* try_complete_rollback_v1.
TryComplete(st, rb, rc) ==
  IF /\ rb.state = "required"
     /\ rc = "recovery_required"
     /\ \A i \in Compensable : i <= rb.abort => st[i] \in Undone
  THEN [rb EXCEPT !.state = "completed"]
  ELSE rb

\* Mutant: the trigger only requires the rollback.
TerminalSyncOpen(st, rb) == RequireRollback(st, rb)

\* receipt_terminal_sync_v1, the trigger of a receipt that becomes
\* recovery_required.
TerminalSync(st, rb) == TryComplete(st, RequireRollback(st, rb), "recovery_required")

\* Effect i leaves the hands of whoever had it, in state s.
Moved(i, s) ==
  /\ state' = [state EXCEPT ![i] = s]
  /\ claim' = [claim EXCEPT ![i] = Nobody]

NotDue(i) == due' = due \ {i}
Authorized(i) == rollback.state = "required" /\ i <= rollback.abort
Abandoned == receipt = "recovery_required" \/ (receipt = "executing" /\ leaseOver)
ResponseOpen ==
  receipt = "executing" /\ leaseOver /\ rollback.state = "none" /\ AllDone(Mutable, state)

----------------------------------------------------------------------------
(* The worker. *)

\* intend_v1: the claim is current, nothing aborted the plan and what the
\* effect needs is there.  A refused worker stops.
Intend ==
  LET i == worker.effect IN
  /\ worker.pc = "intend"
  /\ receipt = "executing" /\ ~leaseOver /\ Authority
  /\ state[i] = "planned" /\ rollback.state = "none"
  /\ AllDone(plan[i].needs, state)
  /\ Moved(i, "intended")
  /\ NotDue(i)
  /\ worker' = [worker EXCEPT !.pc = "call"]
  /\ UNCHANGED <<plan, observed, reobserved, receipt, clock, rollback, real, task>>

\* What a call may leave behind whose answer is not known.
Unclear(i) == IF plan[i].kind = "register" THEN {"absent", "present"}
              ELSE {"absent", "present", "pending"}

\* execute_effect_call_v1 returns.
Call ==
  LET i == worker.effect IN
  /\ worker.pc = "call"
  /\ \E reply \in {"known_succeeded", "known_failed", "indeterminate"},
        fact \in {"absent", "present", "pending"} :
       /\ reply = "known_succeeded" => fact = "present"
       /\ reply = "known_failed" => fact = "absent"
       /\ fact \in Unclear(i)
       /\ real' = [real EXCEPT ![i] = fact]
       /\ worker' = [worker EXCEPT !.pc = "finish", !.knows = reply]
  /\ UNCHANGED <<plan, journal, receipt, clock, rollback, task>>

\* Where the worker goes after effect i: the next effect, the terminal outcome
\* it proposes, or nowhere when the response is left to recovery.
After(i, reply) ==
  CASE reply = "known_succeeded" /\ i # Response ->
         [pc |-> "intend", effect |-> i + 1, knows |-> "nothing"]
    [] i = Response /\ reply # "indeterminate" ->
         [pc |-> "terminal", effect |-> i, knows |-> "completed"]
    [] i = Response /\ reply = "indeterminate" -> Gone
    [] i = 1 /\ i # Response /\ reply = "known_failed" ->
         [pc |-> "terminal", effect |-> i, knows |-> "failed"]
    [] OTHER -> [pc |-> "terminal", effect |-> i, knows |-> "recovery_required"]

\* finish_v1, which does not ask for a current claim.
Finish ==
  LET i == worker.effect
      reply == worker.knows
      st == [state EXCEPT ![i] = reply] IN
  /\ worker.pc = "finish"
  /\ state[i] = "intended"
  /\ state' = st
  /\ due' = IF reply = "indeterminate" THEN due \cup {i} ELSE due \ {i}
  /\ rollback' = IF reply # "known_succeeded" /\ i # Response
                 THEN RequireRollback(st, rollback) ELSE rollback
  /\ worker' = After(i, reply)
  /\ UNCHANGED <<plan, claim, observed, reobserved, receipt, clock, real, task>>

\* receipt_finish_v1 and its extension accept a proposal.  "failed" is refused
\* once the execution was intended.
Accepted(proposal) ==
  /\ receipt = "executing" /\ ~leaseOver /\ Authority
  /\ \/ proposal = "recovery_required"
     \/ /\ proposal = "completed"
        /\ rollback.state = "none"
        /\ AllDone(Mutable, state)
        /\ state[Response] \in Succeeded \cup {"known_failed"}

\* finish_terminal_v1, accepted or refused, is the last the worker does.
FinishTerminal ==
  LET proposal == worker.knows IN
  /\ worker.pc = "terminal"
  /\ receipt' = IF Accepted(proposal) THEN proposal ELSE receipt
  /\ rollback' = IF Accepted(proposal) /\ proposal = "recovery_required"
                 THEN TerminalSync(state, rollback) ELSE rollback
  /\ worker' = Gone
  /\ UNCHANGED <<plan, journal, clock, real, task>>

\* The worker stops for good: its process crashed, its deadline elapsed, the
\* journal refused it or did not answer.  A call it was in is cut off.
Stop ==
  /\ worker.pc # "gone"
  /\ worker' = Gone
  /\ IF worker.pc = "call"
     THEN \E fact \in Unclear(worker.effect) : real' = [real EXCEPT ![worker.effect] = fact]
     ELSE UNCHANGED real
  /\ UNCHANGED <<plan, journal, receipt, clock, rollback, task>>

----------------------------------------------------------------------------
(* Time and the world. *)

ExpireLease ==
  /\ worker.pc = "gone" /\ ~leaseOver
  /\ leaseOver' = TRUE
  /\ UNCHANGED <<plan, journal, receipt, tokenGone, rollback, real, worker, task>>

\* The token is issued with the interaction and outlives the lease.
ExpireToken ==
  /\ leaseOver /\ ~tokenGone
  /\ tokenGone' = TRUE
  /\ UNCHANGED <<plan, journal, receipt, leaseOver, rollback, real, worker, task>>

\* next_recovery_at passes; for a claimed effect that ends the claim.
Elapse(i) ==
  /\ i \notin due /\ state[i] \in Observable \cup Reobservable
  /\ due' = due \cup {i}
  /\ UNCHANGED <<plan, state, claim, observed, reobserved, receipt, clock, rollback, real, worker, task>>

\* A call that was cut off lands or is lost; a teardown that began is finished
\* by the teardown's own retries.
Settle(i) ==
  /\ real[i] = "pending"
  /\ \E fact \in {"present", "absent"} :
       /\ plan[i].kind = "teardown" => fact = "present"
       /\ real' = [real EXCEPT ![i] = fact]
  /\ UNCHANGED <<plan, journal, receipt, clock, rollback, worker, task>>

----------------------------------------------------------------------------
(* The sweep over receipts. *)

\* terminalize_expired_v1 while the token is good, token_expire_v1 after that:
\* resolve_receipt_v1 completes a receipt whose provisioning is done, waits for
\* a response that is being recovered, and gives up any other.
Sweep ==
  /\ receipt = "executing" /\ leaseOver
  /\ tokenGone \/ Authority
  /\ LET s == state[Response]
         lapsed == s \in Observable /\ tokenGone /\ ~(s = "observing" /\ Response \notin due) IN
     \/ /\ ResponseOpen /\ s \in Final
        /\ receipt' = "completed"
        /\ UNCHANGED <<journal, rollback>>
     \/ /\ ResponseOpen /\ lapsed
        /\ receipt' = "completed"
        /\ Moved(Response, "recovery_required") /\ NotDue(Response)
        /\ UNCHANGED <<observed, reobserved, rollback>>
     \/ /\ ~ResponseOpen
        /\ receipt' = "recovery_required"
        /\ rollback' = TerminalSync(state, rollback)
        /\ UNCHANGED journal
  /\ UNCHANGED <<plan, clock, real, worker, task>>

----------------------------------------------------------------------------
(* Recovery of one effect by recoverer r. *)

Begin(r, step, i, undo) ==
  task' = [task EXCEPT ![r] = [step |-> step, effect |-> i, undo |-> undo, found |-> "nothing"]]
Return(r) == task' = [task EXCEPT ![r] = Idle]

\* Mutant: no attempt is the last.
SpentNever(i, count) == FALSE

\* The attempt budget of a claim is exhausted.
Spent(i, count) == count[i] >= MaxAttempts

\* The claim of effect i for an observation.
Grant(r, i) ==
  /\ state' = [state EXCEPT ![i] = IF @ \in Observable THEN "observing" ELSE "compensation_observing"]
  /\ observed' = IF state[i] \in Observable THEN [observed EXCEPT ![i] = @ + 1] ELSE observed
  /\ reobserved' = IF state[i] \in Observable THEN reobserved ELSE [reobserved EXCEPT ![i] = @ + 1]
  /\ claim' = [claim EXCEPT ![i] = r]
  /\ Begin(r, "observe", i, state[i] \notin Observable)

\* recovery_claim_v1.
Claim(r, i) ==
  /\ task[r] = Idle
  /\ i # Response /\ i \in due /\ Abandoned /\ Authority
  /\ NotDue(i)
  /\ LET undo == state[i] \in Reobservable
         spent == Spent(i, IF undo THEN reobserved ELSE observed) IN
     /\ state[i] \in Observable \/ (undo /\ Authorized(i))
     /\ \/ ~spent /\ Grant(r, i) /\ UNCHANGED rollback
        \/ /\ spent /\ Moved(i, "recovery_required")
           /\ rollback' = IF undo THEN rollback ELSE RequireRollback(state', rollback)
           /\ UNCHANGED <<observed, reobserved, task>>
  /\ UNCHANGED <<plan, receipt, clock, real, worker>>

\* response_tail_claim_v1: without a token the response cannot be read back.
ClaimResponse(r) ==
  /\ task[r] = Idle
  /\ ResponseOpen /\ Authority
  /\ state[Response] \in Observable /\ Response \in due
  /\ NotDue(Response)
  /\ LET hopeless == tokenGone \/ Spent(Response, observed) IN
     \/ ~hopeless /\ Grant(r, Response) /\ UNCHANGED receipt
     \/ /\ hopeless /\ Moved(Response, "recovery_required")
        /\ receipt' = "completed"
        /\ UNCHANGED <<observed, reobserved, task>>
  /\ UNCHANGED <<plan, clock, rollback, real, worker>>

\* response_tail_finalize_v1 with close_known_state.
CloseKnown(r) ==
  /\ task[r] = Idle
  /\ ResponseOpen /\ Authority /\ state[Response] \in Final
  /\ receipt' = "completed"
  /\ UNCHANGED <<plan, journal, clock, rollback, real, worker, task>>

\* Mutant: a created resource that is not found was never created.
FindingsHasty(i, undo) ==
  {"deferred", "blocked"} \cup
  (IF undo THEN IF real[i] = "absent" THEN {"restored"} ELSE {}
   ELSE IF real[i] = "present" THEN {"adopted"} ELSE {"failed"})

\* What an observation of effect i may conclude.  Discord is searched for a
\* created resource, which proves that it is there but not that it is not; a
\* panel cannot be told from a similar one; the instance row and the response
\* can be read back.
Findings(i, undo) ==
  LET provable == CASE undo -> {"absent"}
                    [] ~undo /\ plan[i].kind = "create" -> {"present"}
                    [] ~undo /\ plan[i].kind = "panel" -> {}
                    [] OTHER -> {"absent", "present"}
      seen == IF i = Response /\ real[i] = "pending" THEN "absent" ELSE real[i] IN
  {"deferred", "blocked"} \cup
  (IF seen \notin provable THEN {}
   ELSE IF undo THEN {"restored"}
   ELSE IF seen = "present" THEN {"adopted"} ELSE {"failed"})

Observe(r) ==
  /\ task[r].step = "observe"
  /\ \E found \in Findings(task[r].effect, task[r].undo) :
       task' = [task EXCEPT ![r].step = "reconcile", ![r].found = found]
  /\ UNCHANGED <<plan, journal, receipt, clock, rollback, real, worker>>

\* The state a finding leads to.
Reconciled(found, undo) ==
  CASE found = "adopted" -> "reconciled_succeeded"
    [] found = "failed" -> "known_failed"
    [] found = "restored" -> "compensated"
    [] found = "blocked" -> "recovery_required"
    [] found = "deferred" -> IF undo THEN "compensation_observation_pending" ELSE "observation_pending"

\* The claim of r on effect i is the current one and has not ended.
Holds(r, i) ==
  /\ claim[i] = r /\ i \notin due
  /\ state[i] = IF task[r].undo THEN "compensation_observing" ELSE "observing"

\* reconcile_v1 for a mutable effect.
Reconcile(r) ==
  LET i == task[r].effect IN
  /\ task[r].step = "reconcile" /\ i # Response
  /\ Holds(r, i) /\ receipt # "completed"
  /\ task[r].undo => Authorized(i)
  /\ Moved(i, Reconciled(task[r].found, task[r].undo)) /\ NotDue(i)
  /\ LET rb == IF task[r].undo \/ task[r].found = "deferred" THEN rollback
               ELSE RequireRollback(state', rollback) IN
     rollback' = TryComplete(state', rb, receipt)
  /\ Return(r)
  /\ UNCHANGED <<plan, observed, reobserved, receipt, clock, real, worker>>

\* response_tail_finalize_v1 for an observed response.
FinalizeResponse(r) ==
  /\ task[r].step = "reconcile" /\ task[r].effect = Response
  /\ Holds(r, Response)
  /\ ResponseOpen
  /\ Authority \/ task[r].found = "blocked"
  /\ Moved(Response, Reconciled(task[r].found, FALSE)) /\ NotDue(Response)
  /\ receipt' = IF task[r].found = "deferred" THEN receipt ELSE "completed"
  /\ Return(r)
  /\ UNCHANGED <<plan, observed, reobserved, clock, rollback, real, worker>>

\* Mutant: an effect is undone before those that build on it.
UndoableEarly(i) == i \in Compensable /\ state[i] \in Succeeded

\* An effect that succeeded and that nothing builds on any more.
Undoable(i) ==
  /\ i \in Compensable /\ state[i] \in Succeeded
  /\ \A j \in Dependents(i) : state[j] \in Undone

\* compensation_intend_v1.
IntendUndo(r, i) ==
  /\ task[r] = Idle
  /\ Abandoned /\ Authority /\ Authorized(i) /\ Undoable(i)
  /\ state' = [state EXCEPT ![i] = "compensation_intended"]
  /\ claim' = [claim EXCEPT ![i] = r]
  /\ NotDue(i)
  /\ Begin(r, "undo", i, TRUE)
  /\ UNCHANGED <<plan, observed, reobserved, receipt, clock, rollback, real, worker>>

\* The call that undoes an effect.  One that is put off by a rate limit ends
\* the task and is only observed from then on.
Undo(r) ==
  LET i == task[r].effect IN
  /\ task[r].step = "undo"
  /\ \E found \in {"compensated", "compensation_indeterminate", "recovery_required"},
        fact \in {real[i], "absent"} :
       /\ found = "compensated" => fact = "absent"
       /\ found = "recovery_required" => fact = real[i]
       /\ real' = [real EXCEPT ![i] = fact]
       /\ task' = [task EXCEPT ![r].step = "report", ![r].found = found]
  /\ UNCHANGED <<plan, journal, receipt, clock, rollback, worker>>

\* compensation_finish_v1, which asks for the claim but not for its lease.
FinishUndo(r) ==
  LET i == task[r].effect
      found == task[r].found IN
  /\ task[r].step = "report"
  /\ state[i] = "compensation_intended" /\ claim[i] = r /\ Authorized(i)
  /\ Moved(i, found)
  /\ due' = IF found = "compensation_indeterminate" THEN due \cup {i} ELSE due \ {i}
  /\ rollback' = TryComplete(state', rollback, receipt)
  /\ Return(r)
  /\ UNCHANGED <<plan, observed, reobserved, receipt, clock, real, worker>>

\* A recoverer is cancelled by its timeout, crashes, is put off or is refused.
Abandon(r) ==
  /\ task[r] # Idle
  /\ Return(r)
  /\ UNCHANGED <<plan, journal, receipt, clock, rollback, real, worker>>

----------------------------------------------------------------------------

Work == Intend \/ Call \/ Finish \/ FinishTerminal \/ Stop
Recover(r) ==
  \/ \E i \in Effects : Claim(r, i) \/ IntendUndo(r, i)
  \/ ClaimResponse(r) \/ CloseKnown(r)
  \/ Observe(r) \/ Reconcile(r) \/ FinalizeResponse(r)
  \/ Undo(r) \/ FinishUndo(r) \/ Abandon(r)

Next ==
  \/ Work \/ ExpireLease \/ ExpireToken \/ Sweep
  \/ \E i \in Effects : Elapse(i) \/ Settle(i)
  \/ \E r \in Recoverers : Recover(r)

Spec == Init /\ [][Next]_vars

\* The worker is polled until its deadline, clocks advance, and the two
\* supervisors repeat their scans and bound every task by a timeout.  Nothing
\* is assumed of calls that were cut off, nor that an observation ever
\* concludes.
Fairness ==
  /\ WF_vars(Work) /\ WF_vars(ExpireLease) /\ WF_vars(ExpireToken) /\ WF_vars(Sweep)
  /\ WF_vars(\E i \in Effects : Elapse(i))
  /\ \A r \in Recoverers : WF_vars(Recover(r))

FairSpec == Spec /\ Fairness

----------------------------------------------------------------------------

States == Observable \cup Reobservable \cup Final
Rollbacks == [state : {"none", "required", "completed"}, abort : Effects \cup {0}]
Workers ==
  [pc : {"intend", "call", "finish", "terminal", "gone"}, effect : Effects \cup {0},
   knows : {"nothing", "known_succeeded", "known_failed", "indeterminate",
            "completed", "failed", "recovery_required"}]
TaskRecords ==
  [step : {"idle", "observe", "reconcile", "undo", "report"}, effect : Effects \cup {0},
   undo : BOOLEAN,
   found : {"nothing", "deferred", "blocked", "restored", "adopted", "failed",
            "compensated", "compensation_indeterminate", "recovery_required"}]

TypeOK ==
  /\ plan \in Plans
  /\ state \in [Effects -> States]
  /\ due \subseteq Effects
  /\ claim \in [Effects -> Recoverers \cup {Nobody}]
  /\ observed \in [Effects -> 0..MaxAttempts] /\ reobserved \in [Effects -> 0..MaxAttempts]
  /\ receipt \in {"executing", "completed", "recovery_required"}
  /\ leaseOver \in BOOLEAN /\ tokenGone \in BOOLEAN
  /\ rollback \in Rollbacks
  /\ real \in [Effects -> {"absent", "present", "pending"}]
  /\ worker \in Workers
  /\ task \in [Recoverers -> TaskRecords]

\* The journal is honest about the world: a mutable effect it records as
\* succeeded is there, one it records as not begun, failed or compensated is
\* not, whatever calls were cut off, landed late or were observed by whom.
JournalIsHonest ==
  \A i \in Mutable :
    /\ state[i] \in Succeeded => real[i] = "present"
    /\ state[i] \in Undone => real[i] = "absent"

\* A completed receipt means that all the plan provisions is there: it was
\* neither left out nor is it taken back afterwards by a recoverer.
CompletedIsWhole == receipt = "completed" => \A i \in Mutable : real[i] = "present"

\* A completed rollback left nothing behind of the effects it undoes, beyond
\* its abort index included.
RollbackIsClean == rollback.state = "completed" => \A i \in Compensable : real[i] = "absent"

\* Effects are undone in reverse: when compensation of an effect has been
\* intended, nothing that builds on it exists or may still appear.
UndoneInReverse ==
  \A i \in Mutable : state[i] \in Reobservable \cup {"compensated"} =>
    \A j \in Dependents(i) : real[j] = "absent"

\* No effect is waiting, and a rollback that is not complete is blocked by an
\* effect in recovery_required.
Resolved ==
  /\ \A i \in Mutable : state[i] \in Final
  /\ rollback.state = "required" => \E i \in Mutable : state[i] = "recovery_required"

\* Recovery converges or is explicitly blocked: the receipt becomes terminal
\* and every effect final, whoever crashes where.  The exception is an
\* interaction whose own instance is being torn down: it has no authority left
\* with which its effects could be recovered, only its receipt is closed.
RecoveryConverges == <>[](receipt # "executing" /\ (Resolved \/ ~Authority))
=============================================================================
