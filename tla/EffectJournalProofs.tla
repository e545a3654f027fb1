------------------------ MODULE EffectJournalProofs ------------------------
(***************************************************************************)
(* The effect journal is honest, a completed receipt is whole and a        *)
(* completed rollback is clean, for any plans, recoverers and budget of    *)
(* attempts.                                                               *)
(***************************************************************************)
EXTENDS EffectJournal, WellFoundedInduction, TLAPS

\* While the worker is there nobody else is: the lease runs, the receipt is
\* open, and no recoverer has a task.
WorkerAlone ==
  worker.pc # "gone" =>
    receipt = "executing" /\ ~leaseOver /\ \A r \in Recoverers : task[r] = Idle

\* The worker carries out the plan in order: what is before its effect
\* succeeded, what is behind it is untouched, and what it is about to report
\* is true.
WorkerInOrder ==
  LET i == worker.effect IN
  worker.pc \in {"intend", "call", "finish"} =>
    /\ i \in Effects
    /\ \A j \in Effects : /\ j < i => state[j] \in Succeeded
                          /\ j > i => state[j] = "planned"
    /\ state[i] = IF worker.pc = "intend" THEN "planned" ELSE "intended"
    /\ worker.pc = "finish" =>
         /\ worker.knows \in {"known_succeeded", "known_failed", "indeterminate"}
         /\ worker.knows = "known_succeeded" => real[i] = "present"
         /\ worker.knows = "known_failed" => real[i] = "absent"

\* Nothing exists of an effect that was never intended.
PlannedIsAbsent == \A i \in Effects : state[i] = "planned" => real[i] = "absent"

\* Once compensation of an effect was intended, it never counts as done again.
Taken == Reobservable \cup {"compensated", "recovery_required"}

\* What a recoverer has found out stays true for as long as its claim can
\* still be accepted.
TaskKnows(r) ==
  LET i == task[r].effect
      found == task[r].found IN
  /\ task[r].step # "idle" => i \in Effects
  /\ task[r].step \in {"undo", "report"} => task[r].undo
  /\ task[r].step # "idle" /\ task[r].undo => i \in Mutable /\ state[i] \in Taken
  /\ task[r].step = "report" =>
       /\ found \in {"compensated", "compensation_indeterminate", "recovery_required"}
       /\ found = "compensated" => real[i] = "absent"
  /\ task[r].step = "reconcile" =>
       /\ found \in IF task[r].undo THEN {"deferred", "blocked", "restored"}
                    ELSE {"deferred", "blocked", "adopted", "failed"}
       /\ found = "restored" => real[i] = "absent"
       /\ found = "adopted" /\ state[i] \in Observable => real[i] = "present"
       /\ found = "failed" /\ i # Response => real[i] = "absent"

\* A receipt is completed over a plan that is done.
CompletedIsDone == receipt = "completed" => AllDone(Mutable, state)

\* The response is only begun when everything before it succeeded, and then
\* nothing is rolled back any more.
ResponseIsLast ==
  state[Response] # "planned" => AllDone(Mutable, state) /\ rollback.state = "none"

\* A rollback reaches every effect that was begun, and is complete when all of
\* them are undone.
RollbackCovers ==
  rollback.state # "none" =>
    \A i \in Compensable :
      /\ state[i] # "planned" => i <= rollback.abort
      /\ rollback.state = "completed" => state[i] \in Undone

\* An effect is only taken back in a rollback, and when what builds on it is
\* undone already.
UndoneBelow ==
  \A i \in Mutable : state[i] \in Reobservable \cup {"compensated"} =>
    /\ rollback.state # "none"
    /\ \A j \in Dependents(i) : state[j] \in Undone

\* The inductive invariant.
IInv ==
  /\ TypeOK
  /\ WorkerAlone
  /\ WorkerInOrder
  /\ JournalIsHonest
  /\ PlannedIsAbsent
  /\ \A r \in Recoverers : TaskKnows(r)
  /\ CompletedIsDone
  /\ ResponseIsLast
  /\ RollbackCovers
  /\ UndoneBelow

----------------------------------------------------------------------------
(* Lemmas about the plan and the rollback row. *)

\* The greatest element of a set of indices is one of them and bounds them.
LEMMA MaxOfIndices ==
  ASSUME NEW n \in Nat, NEW S \in SUBSET (1..n), S # {}
  PROVE  Max(S) \in S /\ \A j \in S : j <= Max(S)
<1> DEFINE T == {n - j : j \in S}
<1>1. T \subseteq Nat /\ T # {}
  <2>1. PICK j \in S : TRUE
    BY Zenon
  <2>2. n - j \in T
    BY Zenon
  <2>3. \A k \in S : n - k \in Nat
    OBVIOUS
  <2> QED
    BY <2>2, <2>3, Zenon
<1>2. PICK x \in T : \A y \in T : ~(<<y, x>> \in OpToRel(<, Nat))
  BY <1>1, NatLessThanWellFounded, WFMin, Zenon
<1>3. \A y \in T : ~(y < x)
  BY <1>1, <1>2, Zenon DEF OpToRel
<1>4. PICK m \in S : x = n - m
  BY Zenon
<1>5. \A j \in S : m >= j
  <2> SUFFICES ASSUME NEW j \in S PROVE m >= j
    BY Zenon
  <2>1. n - j \in T
    BY Zenon
  <2> QED
    BY <1>3, <1>4, <2>1
<1> QED
  BY <1>5, Zenon DEF Max

\* The indices of a plan: the response is the last effect, and what an effect
\* needs comes before it.
LEMMA PlanFacts ==
  ASSUME plan \in Plans
  PROVE  /\ Response \in Effects /\ Response \in Nat /\ Response # 1
         /\ Effects = 1..Response /\ Effects \subseteq Nat /\ 0 \notin Effects
         /\ Mutable = Effects \ {Response} /\ Compensable \subseteq Mutable
         /\ \A i \in Effects : i <= Response
         /\ \A i \in Mutable : i + 1 \in Effects
         /\ \A i \in Effects : \A j \in Dependents(i) : j \in Effects /\ i < j
         /\ \A i \in Effects : plan[i].needs \subseteq Effects
<1>1. plan \in Seq([kind : {"create", "panel", "register", "teardown", "response"}, needs : SUBSET Nat])
  BY PlansAssumption, Zenon
<1>2. /\ Len(plan) \in Nat /\ Len(plan) > 1
      /\ \A i \in 1..Len(plan) : plan[i].needs \subseteq 1..(i - 1)
  BY <1>1, PlansAssumption
<1> QED
  BY <1>2 DEF Response, Effects, Mutable, Compensable, Dependents

\* No step changes the plan, nor what is defined from it.
LEMMA PlanKept ==
  ASSUME plan' = plan
  PROVE  /\ Effects' = Effects /\ Response' = Response /\ Mutable' = Mutable
         /\ Compensable' = Compensable /\ Rollbacks' = Rollbacks
         /\ Workers' = Workers /\ TaskRecords' = TaskRecords
         /\ \A i : Dependents(i)' = Dependents(i)
BY DEF Effects, Response, Mutable, Compensable, Dependents, Rollbacks, Workers, TaskRecords

\* What require_rollback_v1 leaves: the row as it was, or a new one that
\* reaches every effect that was begun in a plan that is not done.
LEMMA RequireRollbackFacts ==
  ASSUME plan \in Plans, NEW st, NEW rb \in Rollbacks
  PROVE  LET new == RequireRollback(st, rb) IN
         /\ new \in Rollbacks
         /\ \/ new = rb
            \/ /\ rb.state = "none" /\ new.state = "required"
               /\ ~AllDone(Mutable, st)
               /\ \A i \in Compensable : st[i] # "planned" => i <= new.abort
<1> DEFINE new == RequireRollback(st, rb)
<1>1. CASE new = rb
  BY <1>1, Zenon
<1>2. CASE new # rb
  <2>1. /\ rb.state = "none" /\ ~AllDone(Mutable, st) /\ Begun(st) # {}
        /\ new = [state |-> "required", abort |-> Max(Begun(st))]
    BY <1>2, Zenon DEF RequireRollback
  <2>2. Begun(st) \in SUBSET (1..Response) /\ Response \in Nat
    BY PlanFacts, Zenon DEF Begun
  <2>3. Max(Begun(st)) \in Begun(st) /\ \A j \in Begun(st) : j <= Max(Begun(st))
    BY <2>1, <2>2, MaxOfIndices, Zenon
  <2>4. Max(Begun(st)) \in Effects
    BY <2>2, <2>3, PlanFacts, Zenon
  <2> QED
    BY <2>1, <2>3, <2>4 DEF Rollbacks, Begun
<1> QED
  BY <1>1, <1>2, Zenon

\* What try_complete_rollback_v1 leaves: the row as it was, or a completed one
\* up to whose abort index everything is undone.
LEMMA TryCompleteFacts ==
  ASSUME NEW st, NEW rb \in Rollbacks, NEW rc
  PROVE  LET new == TryComplete(st, rb, rc) IN
         /\ new \in Rollbacks
         /\ \/ new = rb
            \/ /\ rb.state = "required" /\ new.state = "completed" /\ new.abort = rb.abort
               /\ \A i \in Compensable : i <= new.abort => st[i] \in Undone
BY DEF TryComplete, Rollbacks

\* How a step may change the rollback row: it is left alone, required over
\* all that was begun in a plan that is not done, or completed.
RollbackMoves ==
  /\ rollback' \in Rollbacks
  /\ rollback' # rollback =>
       /\ rollback.state = "none" =>
            /\ ~AllDone(Mutable, state')
            /\ \A i \in Compensable : state'[i] # "planned" => i <= rollback'.abort
       /\ rollback.state # "none" => rollback'.abort = rollback.abort
       /\ rollback.state # "completed" /\ rollback'.state # "none"
       /\ rollback'.state = "completed" =>
            \A i \in Compensable : i <= rollback'.abort => state'[i] \in Undone

\* Requiring a rollback, trying to complete one, and the one after the other
\* move the row this way.
LEMMA RollbackCalls ==
  ASSUME IInv, NEW rc,
         NEW mid, mid = rollback \/ mid = RequireRollback(state', rollback),
         rollback' = mid \/ rollback' = TryComplete(state', mid, rc)
  PROVE  RollbackMoves
<1>1. plan \in Plans /\ rollback \in Rollbacks
  BY Zenon DEF IInv, TypeOK
<1>2. /\ mid \in Rollbacks
      /\ \/ mid = rollback
         \/ /\ rollback.state = "none" /\ mid.state = "required"
            /\ ~AllDone(Mutable, state')
            /\ \A i \in Compensable : state'[i] # "planned" => i <= mid.abort
  BY <1>1, RequireRollbackFacts, Zenon
<1>3. /\ rollback' \in Rollbacks
      /\ \/ rollback' = mid
         \/ /\ mid.state = "required" /\ rollback'.state = "completed" /\ rollback'.abort = mid.abort
            /\ \A i \in Compensable : i <= rollback'.abort => state'[i] \in Undone
  BY <1>2, TryCompleteFacts
<1> QED
  BY <1>1, <1>2, <1>3, Zenon DEF RollbackMoves

\* A step that moves an effect which is neither done nor undone, and does not
\* begin to take it back, keeps the order of the plan and of the rollback.
LEMMA JournalStep ==
  ASSUME IInv, plan' = plan, RollbackMoves,
         NEW i \in Effects, NEW s \in States \ {"planned"},
         state' = [state EXCEPT ![i] = s],
         state[i] \in Observable \cup Reobservable,
         s \in Reobservable \cup {"compensated"} => state[i] \in Reobservable,
         receipt' = "completed" => receipt = "completed" \/ AllDone(Mutable, state)
  PROVE  CompletedIsDone' /\ ResponseIsLast' /\ RollbackCovers' /\ UndoneBelow'
<1> USE PlanKept, PlanFacts DEF IInv, TypeOK, Observable, Reobservable, Succeeded, Undone, Final, States
<1>1. plan \in Plans /\ state \in [Effects -> States]
  BY Zenon
<1>2. CompletedIsDone'
  BY <1>1, Zenon DEF CompletedIsDone, AllDone
<1>3. ResponseIsLast'
  BY <1>1 DEF ResponseIsLast, AllDone, RollbackMoves
<1>4. RollbackCovers'
  BY <1>1, Zenon DEF RollbackCovers, RollbackMoves, Rollbacks
<1>5. UndoneBelow'
  BY <1>1 DEF UndoneBelow, RollbackMoves
<1> QED
  BY <1>2, <1>3, <1>4, <1>5, Zenon

\* The same for a step that moves no effect.
LEMMA JournalSame ==
  ASSUME IInv, plan' = plan, RollbackMoves, state' = state,
         receipt' = "completed" => receipt = "completed" \/ AllDone(Mutable, state)
  PROVE  CompletedIsDone' /\ ResponseIsLast' /\ RollbackCovers' /\ UndoneBelow'
<1> USE PlanKept, PlanFacts DEF IInv
<1>0. plan \in Plans /\ rollback \in Rollbacks
  BY Zenon DEF TypeOK
<1>1. CompletedIsDone'
  BY <1>0, Zenon DEF CompletedIsDone, AllDone
<1>2. ResponseIsLast'
  BY <1>0, Zenon DEF ResponseIsLast, AllDone, RollbackMoves
<1>3. RollbackCovers'
  BY <1>0, Zenon DEF RollbackCovers, RollbackMoves, Rollbacks, Undone
<1>4. UndoneBelow'
  BY <1>0, Zenon DEF UndoneBelow, RollbackMoves
<1> QED
  BY <1>1, <1>2, <1>3, <1>4, Zenon

----------------------------------------------------------------------------
(* The invariant is inductive. *)

\* A plan that was just bound satisfies the inductive invariant.
LEMMA InitIInv == Init => IInv
<1> SUFFICES ASSUME Init PROVE IInv
  BY Zenon
<1> USE PlanFacts, RecoveryAssumption DEF Init
<1>1. TypeOK
  <2>1. plan \in Plans /\ 1 \in Effects /\ 0 \in 0..MaxAttempts /\ "planned" \in States
    BY DEF States, Final, Undone
  <2>2. /\ rollback \in Rollbacks /\ worker \in Workers /\ Idle \in TaskRecords
    BY <2>1, Zenon DEF Rollbacks, Workers, TaskRecords, Idle
  <2> QED
    BY <2>1, <2>2, Zenon DEF TypeOK
<1>2. WorkerAlone /\ WorkerInOrder
  BY DEF WorkerAlone, WorkerInOrder, Idle
<1>3. JournalIsHonest /\ PlannedIsAbsent
  BY Zenon DEF JournalIsHonest, PlannedIsAbsent, Succeeded
<1>4. \A r \in Recoverers : TaskKnows(r)
  BY Zenon DEF TaskKnows, Idle
<1>5. CompletedIsDone /\ ResponseIsLast /\ RollbackCovers /\ UndoneBelow
  BY Zenon DEF CompletedIsDone, ResponseIsLast, RollbackCovers, UndoneBelow, Reobservable
<1> QED
  BY <1>1, <1>2, <1>3, <1>4, <1>5, Zenon DEF IInv

\* The worker's steps keep the invariant.  Everybody else is idle meanwhile.
LEMMA WorkIInv == IInv /\ Work => IInv'
<1> SUFFICES ASSUME IInv, Work PROVE IInv'
  BY Zenon
<1> USE PlanFacts, PlanKept DEF IInv
<1> DEFINE i == worker.effect
<1>1. CASE Intend
  <2>0. /\ i \in Effects /\ state[i] = "planned" /\ rollback.state = "none"
        /\ plan' = plan /\ state' = [state EXCEPT ![i] = "intended"]
        /\ worker' = [worker EXCEPT !.pc = "call"] /\ worker.pc = "intend"
        /\ receipt' = receipt /\ leaseOver' = leaseOver /\ rollback' = rollback
        /\ real' = real /\ task' = task
    BY <1>1, Zenon DEF Intend, WorkerInOrder, Moved, clock
  <2>1. TypeOK'
    <3>1. "intended" \in States /\ worker' \in Workers
      BY <2>0, Zenon DEF States, Observable, TypeOK, Workers
    <3> QED
      BY <1>1, <2>0, <3>1 DEF Intend, TypeOK, Moved, NotDue, clock
  <2>2. WorkerAlone' /\ WorkerInOrder'
    BY <2>0 DEF WorkerAlone, WorkerInOrder, TypeOK
  <2>3. JournalIsHonest' /\ PlannedIsAbsent'
    BY <2>0, Zenon DEF JournalIsHonest, PlannedIsAbsent, Succeeded, Undone, TypeOK
  <2>4. \A r \in Recoverers : TaskKnows(r)'
    BY <2>0 DEF TaskKnows, WorkerAlone, Idle
  <2>5. CompletedIsDone' /\ RollbackCovers'
    BY <2>0, Zenon DEF CompletedIsDone, RollbackCovers, WorkerAlone
  <2>6. ResponseIsLast'
    BY <2>0 DEF ResponseIsLast, WorkerInOrder, AllDone, TypeOK
  <2>7. UndoneBelow'
    BY <2>0, Zenon DEF UndoneBelow, TypeOK, Reobservable
  <2> QED
    BY <2>1, <2>2, <2>3, <2>4, <2>5, <2>6, <2>7, Zenon
<1>2. CASE Call
  <2>1. PICK reply \in {"known_succeeded", "known_failed", "indeterminate"},
             fact \in {"absent", "present", "pending"} :
          /\ reply = "known_succeeded" => fact = "present"
          /\ reply = "known_failed" => fact = "absent"
          /\ real' = [real EXCEPT ![i] = fact]
          /\ worker' = [worker EXCEPT !.pc = "finish", !.knows = reply]
    BY <1>2, Zenon DEF Call
  <2>2. /\ i \in Effects /\ state[i] = "intended" /\ worker.pc = "call"
        /\ plan' = plan /\ state' = state /\ due' = due /\ claim' = claim
        /\ observed' = observed /\ reobserved' = reobserved /\ receipt' = receipt
        /\ leaseOver' = leaseOver /\ tokenGone' = tokenGone /\ rollback' = rollback
        /\ task' = task
    BY <1>2, Zenon DEF Call, WorkerInOrder, journal, clock
  <2>3. TypeOK'
    <3>1. worker' \in Workers
      BY <2>1, <2>2, Zenon DEF TypeOK, Workers
    <3> QED
      BY <2>1, <2>2, <3>1, Zenon DEF TypeOK
  <2>4. WorkerAlone' /\ WorkerInOrder'
    BY <2>1, <2>2, Zenon DEF WorkerAlone, WorkerInOrder, TypeOK, Workers
  <2>5. JournalIsHonest' /\ PlannedIsAbsent'
    BY <2>1, <2>2, Zenon DEF JournalIsHonest, PlannedIsAbsent, Succeeded, Undone, TypeOK
  <2>6. \A r \in Recoverers : TaskKnows(r)'
    BY <2>2 DEF TaskKnows, WorkerAlone, Idle
  <2>7. CompletedIsDone' /\ ResponseIsLast' /\ RollbackCovers' /\ UndoneBelow'
    BY <2>2, JournalSame, Zenon DEF RollbackMoves, TypeOK
  <2> QED
    BY <2>3, <2>4, <2>5, <2>6, <2>7, Zenon
<1>3. CASE Finish
  <2> DEFINE reply == worker.knows
  <2>1. /\ i \in Effects /\ state[i] = "intended" /\ worker.pc = "finish"
        /\ reply \in {"known_succeeded", "known_failed", "indeterminate"}
        /\ reply = "known_succeeded" => real[i] = "present"
        /\ reply = "known_failed" => real[i] = "absent"
        /\ plan' = plan /\ state' = [state EXCEPT ![i] = reply]
        /\ due' = IF reply = "indeterminate" THEN due \cup {i} ELSE due \ {i}
        /\ claim' = claim /\ observed' = observed /\ reobserved' = reobserved
        /\ receipt' = receipt /\ leaseOver' = leaseOver /\ tokenGone' = tokenGone
        /\ real' = real /\ task' = task /\ worker' = After(i, reply)
        /\ \/ rollback' = rollback
           \/ rollback' = RequireRollback(state', rollback)
    BY <1>3, Zenon DEF Finish, WorkerInOrder, clock
  <2>2. reply \in States \ {"planned"}
    BY <2>1, Zenon DEF States, Final, Succeeded, Undone, Observable
  <2>3. worker' \in Workers
    BY <2>1, Zenon DEF After, Gone, Workers, TypeOK
  <2>4. RollbackMoves
    BY <2>1, RollbackCalls, Zenon
  <2>5. TypeOK'
    BY <2>1, <2>2, <2>3, <2>4, Zenon DEF TypeOK, RollbackMoves
  <2>6. WorkerAlone'
    BY <2>1, Zenon DEF WorkerAlone
  <2>7. WorkerInOrder'
    <3>1. worker'.pc \in {"intend", "call", "finish"} =>
            /\ i # Response /\ reply = "known_succeeded"
            /\ worker' = [pc |-> "intend", effect |-> i + 1, knows |-> "nothing"]
      BY <2>1, Zenon DEF After, Gone
    <3> QED
      BY <2>1, <3>1, SMTT(30) DEF WorkerInOrder, Succeeded, TypeOK
  <2>8. JournalIsHonest' /\ PlannedIsAbsent'
    BY <2>1, Zenon DEF JournalIsHonest, PlannedIsAbsent, Succeeded, Undone, TypeOK
  <2>9. \A r \in Recoverers : TaskKnows(r)'
    BY <2>1 DEF TaskKnows, WorkerAlone, Idle
  <2>10. CompletedIsDone' /\ ResponseIsLast' /\ RollbackCovers' /\ UndoneBelow'
    BY <2>1, <2>2, <2>4, JournalStep, Zenon DEF Observable, Reobservable
  <2> QED
    BY <2>5, <2>6, <2>7, <2>8, <2>9, <2>10, Zenon
<1>4. CASE FinishTerminal
  <2>1. /\ plan' = plan /\ state' = state /\ due' = due /\ claim' = claim
        /\ observed' = observed /\ reobserved' = reobserved
        /\ leaseOver' = leaseOver /\ tokenGone' = tokenGone
        /\ real' = real /\ task' = task /\ worker' = Gone
        /\ receipt' # receipt => Accepted(worker.knows) /\ receipt' = worker.knows
        /\ rollback' = rollback \/ rollback' = TerminalSync(state, rollback)
    BY <1>4, Zenon DEF FinishTerminal, journal, clock
  <2>2. RollbackMoves
    BY <2>1, RollbackCalls, Zenon DEF TerminalSync
  <2>3. /\ receipt' \in {"executing", "completed", "recovery_required"}
        /\ receipt' = "completed" => receipt = "completed" \/ AllDone(Mutable, state)
    BY <2>1, Zenon DEF Accepted, TypeOK
  <2>4. TypeOK'
    <3>1. Gone \in Workers
      BY Zenon DEF Gone, Workers
    <3> QED
      BY <2>1, <2>2, <2>3, <3>1, Zenon DEF TypeOK, RollbackMoves
  <2>5. WorkerAlone' /\ WorkerInOrder'
    BY <2>1, Zenon DEF WorkerAlone, WorkerInOrder, Gone
  <2>6. JournalIsHonest' /\ PlannedIsAbsent'
    BY <2>1, Zenon DEF JournalIsHonest, PlannedIsAbsent
  <2>7. \A r \in Recoverers : TaskKnows(r)'
    BY <2>1, Zenon DEF TaskKnows
  <2>8. CompletedIsDone' /\ ResponseIsLast' /\ RollbackCovers' /\ UndoneBelow'
    BY <2>1, <2>2, <2>3, JournalSame, Zenon
  <2> QED
    BY <2>4, <2>5, <2>6, <2>7, <2>8, Zenon
<1>5. CASE Stop
  <2>1. /\ plan' = plan /\ state' = state /\ due' = due /\ claim' = claim
        /\ observed' = observed /\ reobserved' = reobserved /\ receipt' = receipt
        /\ leaseOver' = leaseOver /\ tokenGone' = tokenGone /\ rollback' = rollback
        /\ task' = task /\ worker' = Gone /\ worker.pc # "gone"
    BY <1>5, Zenon DEF Stop, journal, clock
  <2>2. \/ real' = real
        \/ /\ i \in Effects /\ state[i] = "intended"
           /\ \E fact \in {"absent", "present", "pending"} : real' = [real EXCEPT ![i] = fact]
    BY <1>5, Zenon DEF Stop, Unclear, WorkerInOrder
  <2>3. TypeOK'
    <3>1. Gone \in Workers
      BY DEF Gone, Workers
    <3>2. real' \in [Effects -> {"absent", "present", "pending"}]
      BY <2>2, Zenon DEF TypeOK
    <3> QED
      BY <2>1, <3>1, <3>2, Zenon DEF TypeOK
  <2>4. WorkerAlone' /\ WorkerInOrder'
    BY <2>1, Zenon DEF WorkerAlone, WorkerInOrder, Gone
  <2>5. JournalIsHonest' /\ PlannedIsAbsent'
    BY <2>1, <2>2, Zenon DEF JournalIsHonest, PlannedIsAbsent, Succeeded, Undone, TypeOK
  <2>6. \A r \in Recoverers : TaskKnows(r)'
    BY <2>1 DEF TaskKnows, WorkerAlone, Idle
  <2>7. CompletedIsDone' /\ ResponseIsLast' /\ RollbackCovers' /\ UndoneBelow'
    BY <2>1, JournalSame, Zenon DEF RollbackMoves, TypeOK
  <2> QED
    BY <2>3, <2>4, <2>5, <2>6, <2>7
<1> QED
  BY <1>1, <1>2, <1>3, <1>4, <1>5, Zenon DEF Work

\* So do the clocks, and a call that lands late: nothing in the journal or in
\* what a recoverer found rests on a call that is pending.
LEMMA ClockIInv ==
  ASSUME IInv, ExpireLease \/ ExpireToken \/ \E i \in Effects : Elapse(i) \/ Settle(i)
  PROVE  IInv'
<1> USE PlanFacts, PlanKept DEF IInv
<1>1. /\ plan' = plan /\ state' = state /\ claim' = claim
      /\ observed' = observed /\ reobserved' = reobserved /\ receipt' = receipt
      /\ rollback' = rollback /\ worker' = worker /\ task' = task
  BY Zenon DEF ExpireLease, ExpireToken, Elapse, Settle, journal, clock
<1>2. CompletedIsDone' /\ ResponseIsLast' /\ RollbackCovers' /\ UndoneBelow'
  BY <1>1, JournalSame, Zenon DEF RollbackMoves, TypeOK
<1>3. CASE ExpireLease \/ ExpireToken
  <2>1. TypeOK'
    BY <1>1, <1>3, Zenon DEF ExpireLease, ExpireToken, TypeOK, journal
  <2>2. WorkerAlone' /\ WorkerInOrder' /\ JournalIsHonest' /\ PlannedIsAbsent'
    BY <1>1, <1>3 DEF ExpireLease, ExpireToken, WorkerAlone, WorkerInOrder, JournalIsHonest,
      PlannedIsAbsent
  <2>3. \A r \in Recoverers : TaskKnows(r)'
    BY <1>1, <1>3, Zenon DEF ExpireLease, ExpireToken, TaskKnows
  <2> QED
    BY <1>2, <2>1, <2>2, <2>3, Zenon
<1>4. ASSUME NEW i \in Effects, Elapse(i) PROVE IInv'
  <2>1. TypeOK'
    BY <1>1, <1>4, Zenon DEF Elapse, TypeOK, clock
  <2>2. WorkerAlone' /\ WorkerInOrder' /\ JournalIsHonest' /\ PlannedIsAbsent'
    BY <1>1, <1>4, Zenon DEF Elapse, WorkerAlone, WorkerInOrder, JournalIsHonest,
       PlannedIsAbsent, clock
  <2>3. \A r \in Recoverers : TaskKnows(r)'
    BY <1>1, <1>4 DEF Elapse, TaskKnows
  <2> QED
    BY <1>2, <2>1, <2>2, <2>3, Zenon
<1>5. ASSUME NEW i \in Effects, Settle(i) PROVE IInv'
  <2>1. PICK fact \in {"present", "absent"} : real' = [real EXCEPT ![i] = fact]
    BY <1>5, Zenon DEF Settle
  <2>2. real[i] = "pending" /\ due' = due /\ leaseOver' = leaseOver /\ tokenGone' = tokenGone
    BY <1>5, Zenon DEF Settle, journal, clock
  <2>3. TypeOK'
    BY <1>1, <2>1, <2>2, Zenon DEF TypeOK
  <2>4. WorkerAlone' /\ WorkerInOrder'
    BY <1>1, <2>1, <2>2, Zenon DEF WorkerAlone, WorkerInOrder, TypeOK
  <2>5. JournalIsHonest' /\ PlannedIsAbsent'
    BY <1>1, <2>1, <2>2, Zenon DEF JournalIsHonest, PlannedIsAbsent, TypeOK
  <2>6. \A r \in Recoverers : TaskKnows(r)'
    BY <1>1, <2>1, <2>2 DEF TaskKnows, TypeOK
  <2> QED
    BY <1>2, <2>3, <2>4, <2>5, <2>6, Zenon
<1> QED
  BY <1>3, <1>4, <1>5, Zenon

\* The sweep runs when the worker is gone.  It completes a receipt over a plan
\* that is done, and gives up any other together with its rollback.
LEMMA SweepIInv == IInv /\ Sweep => IInv'
<1> SUFFICES ASSUME IInv, Sweep PROVE IInv'
  OBVIOUS
<1> USE PlanFacts, PlanKept DEF IInv
<1>1. /\ plan' = plan /\ leaseOver' = leaseOver /\ tokenGone' = tokenGone
      /\ real' = real /\ worker' = worker /\ task' = task
      /\ receipt = "executing" /\ leaseOver
  BY Zenon DEF Sweep, clock
<1>2. worker.pc = "gone" /\ worker'.pc = "gone"
  BY <1>1, Zenon DEF WorkerAlone
<1>3. WorkerAlone' /\ WorkerInOrder'
  BY <1>1, <1>2, Zenon DEF WorkerAlone, WorkerInOrder
<1>4. CASE /\ ResponseOpen /\ receipt' = "completed"
           /\ Moved(Response, "recovery_required") /\ NotDue(Response)
           /\ UNCHANGED <<observed, reobserved, rollback>>
           /\ state[Response] \in Observable
  <2>1. /\ state' = [state EXCEPT ![Response] = "recovery_required"]
        /\ claim' = [claim EXCEPT ![Response] = Nobody] /\ due' = due \ {Response}
        /\ observed' = observed /\ reobserved' = reobserved /\ rollback' = rollback
        /\ AllDone(Mutable, state)
    BY <1>4, Zenon DEF Moved, NotDue, ResponseOpen
  <2>2. /\ "recovery_required" \in States \ {"planned"}
        /\ "recovery_required" \notin Reobservable \cup {"compensated"}
    BY Zenon DEF States, Final, Reobservable
  <2>3. RollbackMoves
    BY <2>1, Zenon DEF RollbackMoves, TypeOK
  <2>4. TypeOK'
    BY <1>1, <1>4, <2>1, <2>2, Zenon DEF TypeOK
  <2>5. JournalIsHonest' /\ PlannedIsAbsent'
    BY <1>1, <2>1, Zenon DEF JournalIsHonest, PlannedIsAbsent, TypeOK
  <2>6. \A r \in Recoverers : TaskKnows(r)'
    BY <1>1, <2>1 DEF TaskKnows, TypeOK, Taken, Observable
  <2>7. CompletedIsDone' /\ ResponseIsLast' /\ RollbackCovers' /\ UndoneBelow'
    <3>1. Response \in Effects
      BY Zenon DEF TypeOK
    <3> QED
      BY <1>1, <1>4, <2>1, <2>2, <2>3, <3>1, JournalStep, Zenon
  <2> QED
    BY <1>3, <2>4, <2>5, <2>6, <2>7, Zenon
<1>5. CASE /\ state' = state /\ due' = due /\ claim' = claim
           /\ observed' = observed /\ reobserved' = reobserved
           /\ \/ receipt' = "completed" /\ ResponseOpen /\ rollback' = rollback
              \/ receipt' = "recovery_required" /\ rollback' = TerminalSync(state, rollback)
  <2>1. RollbackMoves
    BY <1>5, RollbackCalls, Zenon DEF TerminalSync
  <2>2. TypeOK'
    BY <1>1, <1>5, <2>1, Zenon DEF TypeOK, RollbackMoves
  <2>3. JournalIsHonest' /\ PlannedIsAbsent'
    BY <1>1, <1>5, Zenon DEF JournalIsHonest, PlannedIsAbsent
  <2>4. \A r \in Recoverers : TaskKnows(r)'
    BY <1>1, <1>5, Zenon DEF TaskKnows
  <2>5. CompletedIsDone' /\ ResponseIsLast' /\ RollbackCovers' /\ UndoneBelow'
    BY <1>1, <1>5, <2>1, JournalSame, Zenon DEF ResponseOpen
  <2> QED
    BY <1>3, <2>2, <2>3, <2>4, <2>5
<1> QED
  BY <1>4, <1>5, Zenon DEF Sweep, journal

\* A task that ended knows nothing, and the others keep what they know when
\* an effect is moved: nobody takes a compensated effect for an unknown one.
LEMMA TasksStep ==
  ASSUME IInv, plan' = plan, real' = real,
         NEW i \in Effects, NEW s \in States, state' = [state EXCEPT ![i] = s],
         state[i] \in Taken => s \in Taken,
         s \in Observable => state[i] \in Observable
  PROVE  \A q \in Recoverers : task'[q] \in {Idle, task[q]} => TaskKnows(q)'
<1>1. /\ Effects' = Effects /\ Mutable' = Mutable /\ Response' = Response
      /\ state \in [Effects -> States]
      /\ \A q \in Recoverers : TaskKnows(q)
  BY PlanKept, Zenon DEF IInv, TypeOK
<1> SUFFICES ASSUME NEW q \in Recoverers, task'[q] \in {Idle, task[q]} PROVE TaskKnows(q)'
  BY Zenon
<1>2. CASE task'[q] = Idle
  <2>1. task'[q].step = "idle"
    BY <1>2 DEF Idle
  <2> QED
    BY <2>1, Zenon DEF TaskKnows
<1>3. CASE task'[q] = task[q]
  BY <1>1, <1>3, Zenon DEF TaskKnows
<1> QED
  BY <1>2, <1>3, Zenon

\* The recoverers' steps keep the invariant.
LEMMA RecoverIInv ==
  ASSUME IInv, NEW r \in Recoverers, Recover(r)
  PROVE  IInv'
<1> USE PlanFacts, PlanKept DEF IInv
<1>0. /\ plan' = plan /\ leaseOver' = leaseOver /\ tokenGone' = tokenGone /\ worker' = worker
      /\ task[r] # Idle \/ Abandoned \/ ResponseOpen
  <2>1. CASE \E i \in Effects : Claim(r, i) \/ IntendUndo(r, i)
    BY <2>1, Zenon DEF Claim, IntendUndo, clock
  <2>2. CASE ClaimResponse(r) \/ CloseKnown(r) \/ Observe(r)
    BY <2>2 DEF ClaimResponse, CloseKnown, Observe, clock, Idle
  <2>3. CASE Reconcile(r)
    <3>1. plan' = plan /\ leaseOver' = leaseOver /\ tokenGone' = tokenGone /\ worker' = worker
      BY <2>3, Zenon DEF Reconcile, clock
    <3>2. task[r].step = "reconcile"
      BY <2>3, Zenon DEF Reconcile
    <3> QED
      BY <3>1, <3>2 DEF Idle
  <2>4. CASE FinalizeResponse(r) \/ Abandon(r)
    BY <2>4, Zenon DEF FinalizeResponse, Abandon, clock, Idle
  <2>5. CASE Undo(r) \/ FinishUndo(r)
    BY <2>5 DEF Undo, FinishUndo, clock, Idle
  <2> QED
    BY <2>1, <2>2, <2>3, <2>4, <2>5, Zenon DEF Recover
<1>a. WorkerAlone' /\ WorkerInOrder'
  <2>1. worker.pc = "gone"
    BY <1>0, Zenon DEF WorkerAlone, Abandoned, ResponseOpen
  <2> QED
    BY <1>0, <2>1, Zenon DEF WorkerAlone, WorkerInOrder
<1>b. plan \in Plans /\ state \in [Effects -> States] /\ task \in [Recoverers -> TaskRecords]
  BY Zenon DEF TypeOK
<1>1. ASSUME NEW i \in Effects, Claim(r, i) PROVE IInv'
  <2>1. /\ i \in Mutable /\ due' = due \ {i} /\ receipt' = receipt /\ real' = real
        /\ state[i] \in Observable \cup Reobservable
    BY <1>1, <1>b, Zenon DEF Claim, NotDue
  <2>2. CASE /\ Grant(r, i) /\ UNCHANGED rollback
             /\ ~Spent(i, IF state[i] \in Reobservable THEN reobserved ELSE observed)
    <3> DEFINE s == IF state[i] \in Observable THEN "observing" ELSE "compensation_observing"
               new == [step |-> "observe", effect |-> i, undo |-> state[i] \notin Observable,
                       found |-> "nothing"]
    <3>1. /\ state' = [state EXCEPT ![i] = s] /\ claim' = [claim EXCEPT ![i] = r]
          /\ rollback' = rollback /\ task' = [task EXCEPT ![r] = new]
      BY <2>2, <1>b, Zenon DEF Grant, Begin
    <3>2. observed' \in [Effects -> 0..MaxAttempts] /\ reobserved' \in [Effects -> 0..MaxAttempts]
      <4>1. observed \in [Effects -> 0..MaxAttempts] /\ reobserved \in [Effects -> 0..MaxAttempts]
        BY Zenon DEF TypeOK
      <4>2. IF state[i] \in Observable THEN observed[i] < MaxAttempts ELSE reobserved[i] < MaxAttempts
        BY <2>1, <2>2, <4>1, RecoveryAssumption DEF Spent, Observable, Reobservable
      <4> QED
        BY <2>2, <4>1, <4>2, RecoveryAssumption DEF Grant
    <3>3. /\ s \in States \ {"planned"}
          /\ s \in Reobservable \cup {"compensated"} => state[i] \in Reobservable
          /\ state[i] \in Taken => s \in Taken
          /\ s \in Observable => state[i] \in Observable
      BY <2>1, Zenon DEF States, Observable, Reobservable, Taken
    <3>4. RollbackMoves
      BY <3>1, RollbackCalls, Zenon
    <3>5. TypeOK'
      <4>1. new \in TaskRecords
        BY Zenon DEF TaskRecords
      <4> QED
        BY <1>0, <2>1, <3>1, <3>2, <3>3, <4>1, Zenon DEF TypeOK
    <3>6. JournalIsHonest' /\ PlannedIsAbsent'
      BY <1>0, <1>b, <2>1, <3>1, Zenon DEF JournalIsHonest, PlannedIsAbsent, Succeeded, Undone
    <3>7. \A q \in Recoverers : TaskKnows(q)'
      <4>1. \A q \in Recoverers \ {r} : TaskKnows(q)'
        BY <1>0, <1>b, <2>1, <3>1, <3>3, TasksStep, Zenon
      <4>2. TaskKnows(r)'
        BY <1>0, <1>b, <2>1, <3>1, Zenon DEF TaskKnows, Taken, Reobservable
      <4> QED
        BY <4>1, <4>2, Zenon
    <3>8. CompletedIsDone' /\ ResponseIsLast' /\ RollbackCovers' /\ UndoneBelow'
      <4> HIDE DEF s
      <4> QED
        BY <1>0, <2>1, <3>1, <3>3, <3>4, JournalStep, Zenon
    <3> QED
      BY <1>a, <3>5, <3>6, <3>7, <3>8, Zenon
  <2>3. CASE /\ Moved(i, "recovery_required") /\ UNCHANGED <<observed, reobserved, task>>
             /\ \/ rollback' = rollback
                \/ rollback' = RequireRollback(state', rollback)
    <3>1. /\ state' = [state EXCEPT ![i] = "recovery_required"]
          /\ claim' = [claim EXCEPT ![i] = Nobody]
          /\ observed' = observed /\ reobserved' = reobserved /\ task' = task
      BY <2>3, Zenon DEF Moved
    <3>2. /\ "recovery_required" \in States \ {"planned"} /\ "recovery_required" \in Taken
          /\ "recovery_required" \notin Reobservable \cup {"compensated"} \cup Observable
      BY Zenon DEF States, Final, Reobservable, Observable, Taken
    <3>3. RollbackMoves
      BY <2>3, RollbackCalls, Zenon
    <3>4. TypeOK'
      BY <1>0, <2>1, <3>1, <3>2, <3>3, Zenon DEF TypeOK, RollbackMoves
    <3>5. JournalIsHonest' /\ PlannedIsAbsent'
      BY <1>0, <1>b, <2>1, <3>1, Zenon DEF JournalIsHonest, PlannedIsAbsent, Succeeded, Undone
    <3>6. \A q \in Recoverers : TaskKnows(q)'
      BY <1>0, <2>1, <3>1, <3>2, TasksStep, Zenon
    <3>7. CompletedIsDone' /\ ResponseIsLast' /\ RollbackCovers' /\ UndoneBelow'
      BY <1>0, <2>1, <3>1, <3>2, <3>3, JournalStep, Zenon
    <3> QED
      BY <1>a, <3>4, <3>5, <3>6, <3>7
  <2> QED
    BY <1>1, <2>2, <2>3, Zenon DEF Claim
<1>2. ASSUME NEW i \in Effects, IntendUndo(r, i) PROVE IInv'
  <2> DEFINE new == [step |-> "undo", effect |-> i, undo |-> TRUE, found |-> "nothing"]
  <2>1. /\ i \in Compensable /\ state[i] \in Succeeded
        /\ \A j \in Dependents(i) : state[j] \in Undone
        /\ rollback.state = "required" /\ receipt # "completed"
        /\ state' = [state EXCEPT ![i] = "compensation_intended"]
        /\ claim' = [claim EXCEPT ![i] = r] /\ due' = due \ {i}
        /\ task' = [task EXCEPT ![r] = new]
        /\ observed' = observed /\ reobserved' = reobserved /\ receipt' = receipt
        /\ rollback' = rollback /\ real' = real
    BY <1>2, Zenon DEF IntendUndo, Abandoned, Authorized, Undoable, NotDue, Begin
  <2>2. /\ "compensation_intended" \in States /\ "compensation_intended" \in Taken
        /\ "compensation_intended" \notin Observable \cup Succeeded \cup Undone
    BY Zenon DEF States, Final, Reobservable, Observable, Taken, Succeeded, Undone
  <2>3. TypeOK'
    <3>1. new \in TaskRecords
      BY Zenon DEF TaskRecords
    <3> QED
      BY <1>0, <2>1, <2>2, <3>1, Zenon DEF TypeOK
  <2>4. JournalIsHonest' /\ PlannedIsAbsent'
    BY <1>0, <1>b, <2>1, <2>2, Zenon DEF JournalIsHonest, PlannedIsAbsent
  <2>5. \A q \in Recoverers : TaskKnows(q)'
    <3>1. \A q \in Recoverers \ {r} : TaskKnows(q)'
      BY <1>0, <1>b, <2>1, <2>2, TasksStep, Zenon
    <3>2. TaskKnows(r)'
      BY <1>0, <1>b, <2>1, <2>2, Zenon DEF TaskKnows
    <3> QED
      BY <3>1, <3>2
  <2>6. CompletedIsDone' /\ ResponseIsLast'
    BY <1>0, <1>b, <2>1, Zenon DEF CompletedIsDone, ResponseIsLast
  <2>7. RollbackCovers'
    BY <1>0, <1>b, <2>1, Zenon DEF RollbackCovers, Succeeded
  <2>8. UndoneBelow'
    BY <1>0, <1>b, <2>1, <2>2 DEF UndoneBelow, Succeeded, Undone
  <2> QED
    BY <1>a, <2>3, <2>4, <2>5, <2>6, <2>7, <2>8, Zenon
<1>3. CASE ClaimResponse(r)
  <2>1. /\ Response \in Effects /\ due' = due \ {Response} /\ real' = real /\ rollback' = rollback
        /\ state[Response] \in Observable /\ AllDone(Mutable, state)
    BY <1>3, <1>b, Zenon DEF ClaimResponse, NotDue, ResponseOpen
  <2>2. RollbackMoves
    BY <2>1, RollbackCalls, Zenon
  <2>3. CASE Grant(r, Response) /\ UNCHANGED receipt /\ ~Spent(Response, observed)
    <3> DEFINE new == [step |-> "observe", effect |-> Response, undo |-> FALSE, found |-> "nothing"]
    <3>1. /\ state' = [state EXCEPT ![Response] = "observing"]
          /\ claim' = [claim EXCEPT ![Response] = r]
          /\ observed' = [observed EXCEPT ![Response] = @ + 1] /\ reobserved' = reobserved
          /\ receipt' = receipt /\ task' = [task EXCEPT ![r] = new]
      BY <1>b, <2>1, <2>3, Zenon DEF Grant, Begin
    <3>2. /\ "observing" \in States \ {"planned"} /\ "observing" \in Observable
          /\ "observing" \notin Reobservable \cup {"compensated"} /\ state[Response] \notin Taken
      BY <2>1, Zenon DEF States, Observable, Reobservable, Taken
    <3>3. observed' \in [Effects -> 0..MaxAttempts]
      BY <2>1, <2>3, <3>1, RecoveryAssumption DEF Spent, TypeOK
    <3>4. TypeOK'
      <4>1. new \in TaskRecords
        BY <2>1, Zenon DEF TaskRecords
      <4> QED
        BY <1>0, <2>1, <3>1, <3>2, <3>3, <4>1, Zenon DEF TypeOK
    <3>5. JournalIsHonest' /\ PlannedIsAbsent'
      BY <1>0, <1>b, <2>1, <3>1, Zenon DEF JournalIsHonest, PlannedIsAbsent
    <3>6. \A q \in Recoverers : TaskKnows(q)'
      <4>1. \A q \in Recoverers \ {r} : TaskKnows(q)'
        BY <1>0, <1>b, <2>1, <3>1, <3>2, TasksStep, Zenon
      <4>2. TaskKnows(r)'
        BY <1>0, <1>b, <2>1, <3>1, Zenon DEF TaskKnows
      <4> QED
        BY <4>1, <4>2, Zenon
    <3>7. CompletedIsDone' /\ ResponseIsLast' /\ RollbackCovers' /\ UndoneBelow'
      BY <1>0, <2>1, <2>2, <3>1, <3>2, JournalStep, Zenon
    <3> QED
      BY <1>a, <3>4, <3>5, <3>6, <3>7, Zenon
  <2>4. CASE /\ Moved(Response, "recovery_required") /\ receipt' = "completed"
             /\ UNCHANGED <<observed, reobserved, task>>
    <3>1. /\ state' = [state EXCEPT ![Response] = "recovery_required"]
          /\ claim' = [claim EXCEPT ![Response] = Nobody]
          /\ observed' = observed /\ reobserved' = reobserved /\ task' = task
          /\ receipt' = "completed"
      BY <2>4, Zenon DEF Moved
    <3>2. /\ "recovery_required" \in States \ {"planned"} /\ "recovery_required" \in Taken
          /\ "recovery_required" \notin Reobservable \cup {"compensated"} \cup Observable
      BY Zenon DEF States, Final, Reobservable, Observable, Taken
    <3>3. TypeOK'
      BY <1>0, <2>1, <3>1, <3>2, Zenon DEF TypeOK
    <3>4. JournalIsHonest' /\ PlannedIsAbsent'
      BY <1>0, <1>b, <2>1, <3>1, Zenon DEF JournalIsHonest, PlannedIsAbsent
    <3>5. \A q \in Recoverers : TaskKnows(q)'
      BY <1>0, <2>1, <3>1, <3>2, TasksStep, Zenon
    <3>6. CompletedIsDone' /\ ResponseIsLast' /\ RollbackCovers' /\ UndoneBelow'
      BY <1>0, <2>1, <2>2, <3>1, <3>2, JournalStep, Zenon
    <3> QED
      BY <1>a, <3>3, <3>4, <3>5, <3>6
  <2> QED
    BY <1>3, <2>3, <2>4, Zenon DEF ClaimResponse
<1>4. CASE CloseKnown(r)
  <2>1. /\ state' = state /\ due' = due /\ claim' = claim /\ observed' = observed
        /\ reobserved' = reobserved /\ real' = real /\ rollback' = rollback /\ task' = task
        /\ receipt' = "completed" /\ AllDone(Mutable, state)
    BY <1>4, Zenon DEF CloseKnown, ResponseOpen, journal
  <2>2. TypeOK' /\ JournalIsHonest' /\ PlannedIsAbsent'
    BY <1>0, <1>b, <2>1, Zenon DEF TypeOK, JournalIsHonest, PlannedIsAbsent
  <2>3. \A q \in Recoverers : TaskKnows(q)'
    BY <1>0, <1>b, <2>1, Zenon DEF TaskKnows
  <2>4. CompletedIsDone' /\ ResponseIsLast' /\ RollbackCovers' /\ UndoneBelow'
    BY <1>0, <2>1, RollbackCalls, JournalSame, Zenon
  <2> QED
    BY <1>a, <2>2, <2>3, <2>4, Zenon
<1>5. CASE Observe(r)
  <2> DEFINE i == task[r].effect
  <2>1. PICK found \in Findings(i, task[r].undo) :
          task' = [task EXCEPT ![r].step = "reconcile", ![r].found = found]
    BY <1>5, Zenon DEF Observe
  <2>2. /\ state' = state /\ due' = due /\ claim' = claim /\ observed' = observed
        /\ reobserved' = reobserved /\ real' = real /\ rollback' = rollback
        /\ receipt' = receipt /\ task[r].step = "observe"
    BY <1>5, Zenon DEF Observe, journal
  <2>3. /\ found \in IF task[r].undo THEN {"deferred", "blocked", "restored"}
                     ELSE {"deferred", "blocked", "adopted", "failed"}
        /\ found = "restored" => real[i] = "absent"
        /\ found = "adopted" => real[i] = "present"
        /\ found = "failed" /\ i # Response => real[i] = "absent"
    <3>1. CASE task[r].undo
      <4>1. task[r].undo = TRUE
        BY <1>b, <3>1, Zenon DEF TaskRecords
      <4>2. found \in Findings(i, TRUE)
        BY <2>1, <4>1, Zenon
      <4>3. i # Response
        BY <1>b, <2>2, <3>1, Zenon DEF TaskKnows
      <4> QED
        BY <3>1, <4>2, <4>3, Zenon DEF Findings
    <3>2. CASE ~task[r].undo /\ i = Response /\ real[i] = "pending"
      BY <2>1, <3>2, Zenon DEF Findings
    <3>3. CASE ~task[r].undo /\ ~(i = Response /\ real[i] = "pending")
      <4>1. /\ found = "adopted" => real[i] = "present"
            /\ found = "failed" => real[i] = "absent"
            /\ found \in {"deferred", "blocked", "adopted", "failed"}
        BY <2>1, <3>3, Zenon DEF Findings
      <4> QED
        BY <3>3, <4>1, Zenon
    <3> QED
      BY <3>1, <3>2, <3>3, Zenon
  <2>4. TypeOK'
    <3>1. [task[r] EXCEPT !.step = "reconcile", !.found = found] \in TaskRecords
      BY <1>b, <2>3, Zenon DEF TaskRecords
    <3> QED
      BY <1>0, <1>b, <2>1, <2>2, <3>1, Zenon DEF TypeOK
  <2>5. JournalIsHonest' /\ PlannedIsAbsent'
    BY <1>0, <1>b, <2>2, Zenon DEF JournalIsHonest, PlannedIsAbsent
  <2>6. \A q \in Recoverers : TaskKnows(q)'
    <3>1. ASSUME NEW q \in Recoverers, q # r PROVE TaskKnows(q)'
      BY <1>0, <1>b, <2>1, <2>2, <3>1, Zenon DEF TaskKnows
    <3>2. TaskKnows(r)'
      BY <1>0, <1>b, <2>1, <2>2, <2>3 DEF TaskKnows, TaskRecords
    <3> QED
      BY <3>1, <3>2, Zenon
  <2>7. CompletedIsDone' /\ ResponseIsLast' /\ RollbackCovers' /\ UndoneBelow'
    BY <1>0, <2>2, RollbackCalls, JournalSame, Zenon
  <2> QED
    BY <1>a, <2>4, <2>5, <2>6, <2>7, Zenon
<1>6. CASE Reconcile(r)
  <2> DEFINE i == task[r].effect
             found == task[r].found
             s == Reconciled(found, task[r].undo)
  <2>1. /\ task[r].step = "reconcile" /\ i # Response
        /\ state[i] = IF task[r].undo THEN "compensation_observing" ELSE "observing"
        /\ state' = [state EXCEPT ![i] = s] /\ claim' = [claim EXCEPT ![i] = Nobody]
        /\ due' = due \ {i} /\ task' = [task EXCEPT ![r] = Idle]
        /\ observed' = observed /\ reobserved' = reobserved /\ receipt' = receipt /\ real' = real
    BY <1>6, Zenon DEF Reconcile, Holds, Moved, NotDue, Return
  <2>2. /\ i \in Mutable
        /\ found \in IF task[r].undo THEN {"deferred", "blocked", "restored"}
                     ELSE {"deferred", "blocked", "adopted", "failed"}
        /\ found = "restored" => real[i] = "absent"
        /\ found = "adopted" => real[i] = "present"
        /\ found = "failed" => real[i] = "absent"
    BY <1>b, <2>1, Zenon DEF TaskKnows, Observable
  <2>3. RollbackMoves
    <3>1. PICK mid : /\ mid = rollback \/ mid = RequireRollback(state', rollback)
                     /\ rollback' = TryComplete(state', mid, receipt)
      BY <1>6, Zenon DEF Reconcile
    <3> QED
      BY <3>1, RollbackCalls, Zenon
  <2>4. /\ s \in States \ {"planned"} /\ state[i] \in Observable \cup Reobservable
        /\ s \in Reobservable \cup {"compensated"} => state[i] \in Reobservable
        /\ state[i] \in Taken => s \in Taken
        /\ s \in Observable => state[i] \in Observable
        /\ s \in Succeeded => real[i] = "present"
        /\ s \in Undone => real[i] = "absent"
    <3>1. CASE task[r].undo
      BY <2>1, <2>2, <3>1, Zenon DEF Reconciled, States, Final, Observable, Reobservable,
         Taken, Succeeded, Undone
    <3>2. CASE ~task[r].undo
      BY <2>1, <2>2, <3>2, Zenon DEF Reconciled, States, Final, Observable, Reobservable,
         Taken, Succeeded, Undone
    <3> QED
      BY <3>1, <3>2, Zenon
  <2> HIDE DEF s, i
  <2>5. TypeOK'
    <3>1. Idle \in TaskRecords
      BY Zenon DEF TaskRecords, Idle
    <3> QED
      BY <1>0, <2>1, <2>3, <2>4, <3>1, Zenon DEF TypeOK, RollbackMoves
  <2>6. JournalIsHonest' /\ PlannedIsAbsent'
    BY <1>0, <1>b, <2>1, <2>4, Zenon DEF JournalIsHonest, PlannedIsAbsent
  <2>7. \A q \in Recoverers : TaskKnows(q)'
    BY <1>0, <1>b, <2>1, <2>2, <2>4, TasksStep, Zenon
  <2>8. CompletedIsDone' /\ ResponseIsLast' /\ RollbackCovers' /\ UndoneBelow'
    BY <1>0, <1>b, <2>1, <2>2, <2>3, <2>4, JournalStep, Zenon
  <2> QED
    BY <1>a, <2>5, <2>6, <2>7, <2>8
<1>7. CASE FinalizeResponse(r)
  <2> DEFINE s == Reconciled(task[r].found, FALSE)
  <2>1. /\ Response \in Effects /\ task[r].step = "reconcile" /\ ~task[r].undo
        /\ state[Response] = "observing" /\ AllDone(Mutable, state)
        /\ state' = [state EXCEPT ![Response] = s] /\ claim' = [claim EXCEPT ![Response] = Nobody]
        /\ due' = due \ {Response} /\ task' = [task EXCEPT ![r] = Idle]
        /\ observed' = observed /\ reobserved' = reobserved /\ real' = real
        /\ rollback' = rollback /\ receipt' \in {receipt, "completed"}
    <3>1. ~task[r].undo
      BY <1>7, <1>b, Zenon DEF FinalizeResponse, TaskKnows
    <3> QED
      BY <1>7, <1>b, <3>1, Zenon DEF FinalizeResponse, Holds, Moved, NotDue, Return, ResponseOpen
  <2>2. task[r].found \in {"deferred", "blocked", "adopted", "failed"}
    BY <2>1, Zenon DEF TaskKnows
  <2>3. /\ s \in States \ {"planned"} /\ state[Response] \in Observable
        /\ s \notin Reobservable \cup {"compensated"} /\ state[Response] \notin Taken
    BY <2>1, <2>2, Zenon DEF Reconciled, States, Final, Observable, Reobservable, Taken,
       Succeeded, Undone
  <2> HIDE DEF s
  <2>4. TypeOK'
    <3>1. Idle \in TaskRecords
      BY DEF TaskRecords, Idle
    <3> QED
      BY <1>0, <2>1, <2>3, <3>1, Zenon DEF TypeOK
  <2>5. JournalIsHonest' /\ PlannedIsAbsent'
    BY <1>0, <1>b, <2>1, <2>3, Zenon DEF JournalIsHonest, PlannedIsAbsent
  <2>6. \A q \in Recoverers : TaskKnows(q)'
    BY <1>0, <1>b, <2>1, <2>3, TasksStep, Zenon
  <2>7. CompletedIsDone' /\ ResponseIsLast' /\ RollbackCovers' /\ UndoneBelow'
    BY <1>0, <2>1, <2>3, RollbackCalls, JournalStep, Zenon
  <2> QED
    BY <1>a, <2>4, <2>5, <2>6, <2>7
<1>8. CASE Undo(r)
  <2> DEFINE i == task[r].effect
  <2>1. PICK found \in {"compensated", "compensation_indeterminate", "recovery_required"},
             fact \in {real[i], "absent"} :
          /\ found = "compensated" => fact = "absent"
          /\ real' = [real EXCEPT ![i] = fact]
          /\ task' = [task EXCEPT ![r].step = "report", ![r].found = found]
    BY <1>8, Zenon DEF Undo
  <2>2. /\ state' = state /\ due' = due /\ claim' = claim /\ observed' = observed
        /\ reobserved' = reobserved /\ rollback' = rollback /\ receipt' = receipt
        /\ task[r].step = "undo" /\ task[r].undo /\ i \in Mutable /\ state[i] \in Taken
    BY <1>8, Zenon DEF Undo, journal, TaskKnows
  <2>3. TypeOK'
    <3>1. [task[r] EXCEPT !.step = "report", !.found = found] \in TaskRecords
      BY <1>b, <2>1, Zenon DEF TaskRecords
    <3>2. real' \in [Effects -> {"absent", "present", "pending"}]
      BY <1>b, <2>1, <2>2, Zenon DEF TypeOK
    <3>3. task' \in [Recoverers -> TaskRecords]
      BY <1>b, <2>1, <3>1, Zenon
    <3> QED
      BY <1>0, <2>2, <3>2, <3>3, Zenon DEF TypeOK
  <2>4. JournalIsHonest' /\ PlannedIsAbsent'
    BY <1>0, <1>b, <2>1, <2>2, Zenon DEF JournalIsHonest, PlannedIsAbsent, Succeeded, Undone, Taken,
      Reobservable, TypeOK
  <2>5. \A q \in Recoverers : TaskKnows(q)'
    <3>1. ASSUME NEW q \in Recoverers, q # r PROVE TaskKnows(q)'
      <4>1. task'[q] = task[q] /\ state[i] \notin Observable
        BY <1>b, <2>1, <2>2, <3>1, Zenon DEF Taken, Reobservable, Observable
      <4> QED
        BY <1>0, <1>b, <2>1, <2>2, <4>1, Zenon DEF TaskKnows, TypeOK
    <3>2. TaskKnows(r)'
      BY <1>0, <1>b, <2>1, <2>2 DEF TaskKnows, TaskRecords, TypeOK
    <3> QED
      BY <3>1, <3>2, Zenon
  <2>6. CompletedIsDone' /\ ResponseIsLast' /\ RollbackCovers' /\ UndoneBelow'
    BY <1>0, <2>2, RollbackCalls, JournalSame, Zenon
  <2> QED
    BY <1>a, <2>3, <2>4, <2>5, <2>6, Zenon
<1>9. CASE FinishUndo(r)
  <2> DEFINE i == task[r].effect
             s == task[r].found
  <2>1. /\ task[r].step = "report" /\ state[i] = "compensation_intended"
        /\ state' = [state EXCEPT ![i] = s] /\ claim' = [claim EXCEPT ![i] = Nobody]
        /\ due' \in {due \cup {i}, due \ {i}} /\ task' = [task EXCEPT ![r] = Idle]
        /\ observed' = observed /\ reobserved' = reobserved /\ receipt' = receipt /\ real' = real
        /\ rollback' = TryComplete(state', rollback, receipt)
    BY <1>9, Zenon DEF FinishUndo, Moved, Return
  <2>2. /\ i \in Mutable
        /\ s \in {"compensated", "compensation_indeterminate", "recovery_required"}
        /\ s = "compensated" => real[i] = "absent"
    BY <2>1, Zenon DEF TaskKnows
  <2>3. /\ s \in States \ {"planned"} /\ s \in Taken /\ s \notin Observable \cup Succeeded
        /\ state[i] \in Reobservable
        /\ s \in Undone => s = "compensated"
    BY <2>1, <2>2, Zenon DEF States, Final, Observable, Reobservable, Taken, Succeeded, Undone
  <2> HIDE DEF s, i
  <2>4. RollbackMoves
    BY <2>1, RollbackCalls, Zenon
  <2>5. TypeOK'
    <3>1. Idle \in TaskRecords
      BY DEF TaskRecords, Idle
    <3> QED
      BY <1>0, <1>b, <2>1, <2>2, <2>3, <2>4, <3>1 DEF TypeOK, RollbackMoves
  <2>6. JournalIsHonest' /\ PlannedIsAbsent'
    BY <1>0, <1>b, <2>1, <2>2, <2>3, Zenon DEF JournalIsHonest, PlannedIsAbsent
  <2>7. \A q \in Recoverers : TaskKnows(q)'
    BY <1>0, <1>b, <2>1, <2>2, <2>3, TasksStep, Zenon
  <2>8. CompletedIsDone' /\ ResponseIsLast' /\ RollbackCovers' /\ UndoneBelow'
    BY <1>0, <1>b, <2>1, <2>2, <2>3, <2>4, JournalStep, Zenon
  <2> QED
    BY <1>a, <2>5, <2>6, <2>7, <2>8
<1>10. CASE Abandon(r)
  <2>1. /\ state' = state /\ due' = due /\ claim' = claim /\ observed' = observed
        /\ reobserved' = reobserved /\ real' = real /\ rollback' = rollback /\ receipt' = receipt
        /\ task' = [task EXCEPT ![r] = Idle]
    BY <1>10, Zenon DEF Abandon, Return, journal
  <2>2. TypeOK' /\ JournalIsHonest' /\ PlannedIsAbsent'
    <3>1. Idle \in TaskRecords
      BY DEF TaskRecords, Idle
    <3> QED
      BY <1>0, <1>b, <2>1, <3>1, Zenon DEF TypeOK, JournalIsHonest, PlannedIsAbsent
  <2>3. \A q \in Recoverers : TaskKnows(q)'
    <3> SUFFICES ASSUME NEW q \in Recoverers PROVE TaskKnows(q)'
      BY Zenon
    <3>1. CASE q = r
      BY <1>0, <1>b, <2>1, <3>1, Zenon DEF TaskKnows, Idle
    <3>2. CASE q # r
      BY <1>0, <1>b, <2>1, <3>2, Zenon DEF TaskKnows
    <3> QED
      BY <3>1, <3>2, Zenon
  <2>4. CompletedIsDone' /\ ResponseIsLast' /\ RollbackCovers' /\ UndoneBelow'
    BY <1>0, <2>1, RollbackCalls, JournalSame, Zenon
  <2> QED
    BY <1>a, <2>2, <2>3, <2>4
<1> QED
  BY <1>1, <1>2, <1>3, <1>4, <1>5, <1>6, <1>7, <1>8, <1>9, <1>10, Zenon DEF Recover

\* Every step keeps the inductive invariant.
LEMMA NextIInv == IInv /\ [Next]_vars => IInv'
<1> SUFFICES ASSUME IInv, [Next]_vars PROVE IInv'
  BY Zenon
<1>1. CASE UNCHANGED vars
  <2> USE PlanKept DEF IInv, vars, journal, clock
  <2>1. TypeOK' /\ WorkerAlone' /\ WorkerInOrder'
    BY <1>1, Zenon DEF TypeOK, WorkerAlone, WorkerInOrder
  <2>2. JournalIsHonest' /\ PlannedIsAbsent' /\ \A r \in Recoverers : TaskKnows(r)'
    BY <1>1, Zenon DEF JournalIsHonest, PlannedIsAbsent, TaskKnows
  <2>3. CompletedIsDone' /\ ResponseIsLast' /\ RollbackCovers' /\ UndoneBelow'
    BY <1>1, JournalSame, Zenon DEF RollbackMoves, TypeOK
  <2> QED
    BY <2>1, <2>2, <2>3, Zenon
<1> QED
  BY <1>1, WorkIInv, ClockIInv, SweepIInv, RecoverIInv, Zenon DEF Next

\* What the inductive invariant says of the world outside.
LEMMA IInvSuffices ==
  IInv => JournalIsHonest /\ CompletedIsWhole /\ RollbackIsClean /\ UndoneInReverse
<1> SUFFICES ASSUME IInv
             PROVE  JournalIsHonest /\ CompletedIsWhole /\ RollbackIsClean /\ UndoneInReverse
  BY Zenon
<1> USE PlanFacts DEF IInv
<1>0. plan \in Plans /\ rollback \in Rollbacks
  BY Zenon DEF TypeOK
<1>1. CompletedIsWhole
  BY <1>0, Zenon DEF CompletedIsWhole, CompletedIsDone, AllDone, JournalIsHonest
<1>2. RollbackIsClean
  BY <1>0, Zenon DEF RollbackIsClean, RollbackCovers, JournalIsHonest
<1>3. UndoneInReverse
  <2> SUFFICES ASSUME NEW i \in Mutable, state[i] \in Reobservable \cup {"compensated"},
                      NEW j \in Dependents(i)
               PROVE  real[j] = "absent"
    BY Zenon DEF UndoneInReverse
  <2>1. j \in Effects /\ state[j] \in Undone /\ rollback.state # "none"
    BY <1>0, Zenon DEF UndoneBelow
  <2>2. CASE j \in Mutable
    BY <2>1, <2>2, Zenon DEF JournalIsHonest
  <2>3. CASE j = Response
    BY <2>1, <2>3, Zenon DEF ResponseIsLast, PlannedIsAbsent
  <2> QED
    BY <1>0, <2>1, <2>2, <2>3, Zenon
<1> QED
  BY <1>1, <1>2, <1>3, Zenon

----------------------------------------------------------------------------
(* The theorems. *)

\* The journal of an interaction stays within its types.
THEOREM EffectJournalTyped == Spec => []TypeOK
<1>1. IInv => TypeOK
  BY Zenon DEF IInv
<1> QED
  BY <1>1, InitIInv, NextIInv, PTL DEF Spec

\* Whoever crashes where, and whichever calls land late: an effect that the
\* journal records as succeeded is there, and one that it records as untouched,
\* failed or compensated is not.
THEOREM JournalIsHonestAlways == Spec => []JournalIsHonest
BY InitIInv, NextIInv, IInvSuffices, PTL DEF Spec

\* A completed receipt means that the whole plan is provisioned and stays so.
THEOREM CompletedIsWholeAlways == Spec => []CompletedIsWhole
BY InitIInv, NextIInv, IInvSuffices, PTL DEF Spec

\* A completed rollback left nothing behind of what can be compensated.
THEOREM RollbackIsCleanAlways == Spec => []RollbackIsClean
BY InitIInv, NextIInv, IInvSuffices, PTL DEF Spec

\* Nothing is taken back under an effect that builds on it or may still appear.
THEOREM UndoneInReverseAlways == Spec => []UndoneInReverse
BY InitIInv, NextIInv, IInvSuffices, PTL DEF Spec

============================================================================
