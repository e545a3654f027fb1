------------------------- MODULE ResourceExecution -------------------------
(***************************************************************************)
(* One approved execution of a resource plan: the approval of the request, *)
(* executor-core's forward run over the ordered operations, and the        *)
(* rollback it makes when a step fails.  Every call to the chat service is *)
(* a step of its own; it may succeed, fail without effect, or fail after   *)
(* it took effect (a timeout, or a creation whose answer cannot be read).  *)
(* Somebody else may change the guild at any time.                         *)
(***************************************************************************)
EXTENDS ResourcePlan

CONSTANTS
  DesiredStates,   \* the desired states considered
  Snapshots,       \* the guild states a plan may be made from
  Verdicts,        \* the policy verdicts considered
  Users,           \* who may approve or reject
  FirstNewId,      \* the service's ids of new resources start here
  OtherNames,      \* the names somebody else may give to a resource
  MaxFaults,       \* bound: calls the service answers with an error
  MaxDrift         \* bound: changes made by somebody else

\* The service numbers what it creates later with ids nobody has seen, every
\* guild has its @everyone role, and an overwrite or a parent names something
\* of the same guild.
ASSUME ResourceAssumption ==
  /\ GuildId \in Nat /\ FirstNewId \in Nat /\ GuildId < FirstNewId
  /\ OtherNames \subseteq STRING \ {NoKey}
  /\ \A d \in DesiredStates :
       /\ Normalized(d)
       /\ \A n \in DOMAIN d : d[n].match[2] < FirstNewId
  /\ \A g \in Snapshots :
       /\ IsGuild(g)
       /\ EveryoneRole \in DOMAIN g
       /\ \A r \in DOMAIN g :
            /\ r[2] < FirstNewId
            /\ g[r].parent \in DOMAIN g \cup {None}
            /\ DOMAIN g[r].overwrites \subseteq DOMAIN g

VARIABLES
  desired,    \* the request's normalized desired state
  snapshot,   \* the request's guild state
  plan,       \* the request's operation graph, in execution order
  guild,      \* the guild itself
  approval,   \* the ApprovalRequest
  phase,      \* where execute_with_rollback is
  bound,      \* the resolution context's bindings
  steps,      \* the job's StepResults
  undone,     \* the RollbackStepResults: step -> outcome
  nextId,     \* the next id the service hands out
  lost,       \* history: calls that failed after they took effect
  drift       \* history: changes made by somebody else

vars == <<desired, snapshot, plan, guild, approval, phase, bound, steps, undone,
          nextId, lost, drift>>

request == <<desired, snapshot, plan>>

NoAction == [do |-> "None"]

----------------------------------------------------------------------------
(* approval-manager.                                                       *)

RequiredFor(verdict) == IF verdict = "RequireApproval" THEN 1 ELSE 0

ApprovalState(a) ==
  IF a.verdict = "Deny" THEN "Blocked"
  ELSE IF a.rejected THEN "Rejected"
  ELSE IF RequiredFor(a.verdict) = 0 THEN "ReadyToExecute"
  ELSE IF Cardinality(a.approvals) >= RequiredFor(a.verdict) THEN "Approved"
  ELSE "PendingApproval"

CanExecute(a) == ApprovalState(a) \in {"ReadyToExecute", "Approved"}

Init ==
  /\ desired \in {d \in DesiredStates : Validate(d)}
  /\ snapshot \in Snapshots
  /\ plan = CompileOperations(snapshot, desired)
  /\ guild = snapshot
  /\ approval \in [verdict : Verdicts, approvals : {{}}, rejected : {FALSE}]
  /\ phase = "Review"
  /\ bound = << >>
  /\ steps = << >> /\ undone = << >>
  /\ nextId = FirstNewId
  /\ lost = << >> /\ drift = 0

Approve(user) ==
  /\ phase = "Review"
  /\ ApprovalState(approval) = "PendingApproval"
  /\ user \notin approval.approvals
  /\ approval' = [approval EXCEPT !.approvals = @ \cup {user}]
  /\ UNCHANGED <<request, guild, phase, bound, steps, undone, nextId, lost, drift>>

Reject(user) ==
  /\ phase = "Review"
  /\ ApprovalState(approval) = "PendingApproval"
  /\ approval' = [approval EXCEPT !.rejected = TRUE]
  /\ UNCHANGED <<request, guild, phase, bound, steps, undone, nextId, lost, drift>>

\* execute: the plan was compiled from the snapshot, so its order exists.
Start ==
  /\ phase = "Review"
  /\ plan.ok
  /\ CanExecute(approval)
  /\ phase' = "Forward"
  /\ UNCHANGED <<request, guild, approval, bound, steps, undone, nextId, lost, drift>>

----------------------------------------------------------------------------
(* executor-core: the call run_op makes for an operation, its keys         *)
(* resolved.  A creation has no reference yet; an update of a channel      *)
(* carries no parent.                                                      *)

Call(d, current, bindings, node) ==
  LET kind == IF node.kind = "Role" THEN "Role" ELSE "Channel"
      intent == IntentOf(d, kind, node.key)
      upsert == node.kind = "Overwrite"
      create == node.op = "Create" /\ ~upsert
  IN [op |-> IF upsert THEN "Upsert" ELSE node.op,
      kind |-> kind,
      ref |-> IF create THEN None ELSE KeyRef(d, current, bindings, kind, node.key),
      target |-> IF upsert THEN TargetRef(d, current, bindings, node.target) ELSE None,
      name |-> intent.name,
      value |-> IF upsert THEN OverwriteValue(intent, node.target) ELSE intent.value,
      parent |-> IF create /\ intent.parent # NoKey
                 THEN KeyRef(d, current, bindings, "Channel", intent.parent) ELSE None]

Resolved(call) == {call.ref, call.target, call.parent} \cap {Missing, Conflict} = {}

----------------------------------------------------------------------------
(* The chat service, external: what it makes of a call and what it         *)
(* answers.                                                                *)

\* A role created without permissions gets those of @everyone, and a channel
\* created in a category gets the category's overwrites.
NewResource(g, call) ==
  [name |-> call.name,
   value |-> Given(call.value, IF call.kind = "Role" THEN g[EveryoneRole].value ELSE 0, Unset),
   parent |-> call.parent,
   overwrites |-> IF call.parent \in DOMAIN g THEN g[call.parent].overwrites ELSE << >>]

Updated(c, call) ==
  [c EXCEPT !.name = Given(call.name, @, NoKey), !.value = Given(call.value, @, Unset)]

Overwritten(c, call) ==
  [c EXCEPT !.overwrites = With(@, call.target, call.value)]

\* What is left of a resource when others are gone: it is no longer under a
\* category that is gone, and has no overwrites for roles that are gone.
Detached(c, gone) ==
  [c EXCEPT !.parent = IF @ \in gone THEN None ELSE @,
            !.overwrites = Restrict(@, DOMAIN @ \ gone)]

Effect(g, call, newId) ==
  LET known == call.ref \in DOMAIN g
  IN CASE call.op = "Create" -> With(g, <<call.kind, newId>>, NewResource(g, call))
       [] call.op = "Update" /\ known -> With(g, call.ref, Updated(g[call.ref], call))
       [] call.op = "Upsert" /\ known -> With(g, call.ref, Overwritten(g[call.ref], call))
       [] call.op = "Delete" /\ known ->
            [r \in DOMAIN g \ {call.ref} |-> Detached(g[r], {call.ref})]
       [] OTHER -> g

\* A call that names what is not there is refused, and so is the deletion of
\* @everyone.
Known(call) ==
  /\ call.op # "Create" => call.ref \in DOMAIN guild
  /\ call.op = "Delete" => call.ref # EveryoneRole
  /\ {call.target, call.parent} \subseteq DOMAIN guild \cup {None}

Faults ==
  Cardinality({n \in DOMAIN steps : steps[n].outcome = "Failed"})
    + Cardinality({n \in DOMAIN undone : undone[n] = "Failed"})

Answers(call) ==
  IF ~Known(call) THEN {"Failed"}
  ELSE {"Ok"} \cup IF Faults < MaxFaults THEN {"Failed", "Lost"} ELSE {}

Serve(call, answer) ==
  /\ answer \in Answers(call)
  /\ guild' = IF answer = "Failed" THEN guild ELSE Effect(guild, call, nextId)
  /\ nextId' = IF answer # "Failed" /\ call.op = "Create" THEN nextId + 1 ELSE nextId
  /\ lost' = IF answer = "Lost" THEN Append(lost, <<call, nextId>>) ELSE lost

----------------------------------------------------------------------------
(* executor-core: run_op and the rollback action it records.               *)

Stopped == \E n \in DOMAIN steps : steps[n].outcome # "Success"

\* Mutant: what was created is remembered by its name.
RollbackActionByName(call, newId) ==
  LET named == {r \in DOMAIN guild : r[1] = call.kind /\ guild[r].name = call.name}
  IN [do |-> "Delete",
      ref |-> IF call.op = "Create" /\ named # {} THEN CHOOSE r \in named : TRUE
              ELSE <<call.kind, newId>>]

\* The before image is the snapshot's; of an overwrite it may be Unset.
RollbackAction(call, newId) ==
  CASE call.op = "Create" -> [do |-> "Delete", ref |-> <<call.kind, newId>>]
    [] call.op = "Upsert" ->
         [do |-> "RestoreOverwrite", ref |-> call.ref, target |-> call.target,
          value |-> IF /\ call.ref \in DOMAIN snapshot
                       /\ call.target \in DOMAIN snapshot[call.ref].overwrites
                    THEN snapshot[call.ref].overwrites[call.target] ELSE Unset]
    [] call.op \in {"Update", "Delete"} /\ call.ref \in DOMAIN snapshot ->
         [do |-> IF call.op = "Update" THEN "Restore" ELSE "Recreate", ref |-> call.ref]
    [] OTHER -> NoAction

StepResult(outcome, action) == [outcome |-> outcome, rollback |-> action]

\* The next operation and its call, the keys looked up in the snapshot.
NextNode == plan.nodes[Len(steps) + 1]

NextCall == Call(desired, snapshot, bound, NextNode)

Running == phase = "Forward" /\ Len(steps) < Len(plan.nodes) /\ ~Stopped

RunOp(answer) ==
  /\ Running
  /\ Resolved(NextCall)
  /\ Serve(NextCall, answer)
  /\ bound' = IF answer = "Ok" /\ NextCall.op = "Create"
              THEN Bind(bound, NextNode, <<NextCall.kind, nextId>>) ELSE bound
  /\ steps' = Append(steps, IF answer = "Ok"
                            THEN StepResult("Success", RollbackAction(NextCall, nextId))
                            ELSE StepResult("Failed", NoAction))
  /\ UNCHANGED <<request, approval, phase, undone, drift>>

\* A key that does not resolve fails the step before any call is made.
RunUnresolved ==
  /\ Running
  /\ ~Resolved(NextCall)
  /\ steps' = Append(steps, StepResult("Unresolved", NoAction))
  /\ UNCHANGED <<request, guild, approval, phase, bound, undone, nextId, lost, drift>>

\* The loop ends: everything after a failed step is Skipped.
FinishForward ==
  /\ phase = "Forward"
  /\ ~Running
  /\ steps' = [n \in 1..Len(plan.nodes) |->
                 IF n \in DOMAIN steps THEN steps[n] ELSE StepResult("Skipped", NoAction)]
  /\ phase' = IF Stopped THEN "Rollback" ELSE "Succeeded"
  /\ UNCHANGED <<request, guild, approval, bound, undone, nextId, lost, drift>>

----------------------------------------------------------------------------
(* executor-core: the rollback.                                            *)

\* The steps that succeeded with a recorded action and are still to be undone.
ToUndo ==
  {n \in DOMAIN steps \ DOMAIN undone :
     steps[n].outcome = "Success" /\ steps[n].rollback # NoAction}

\* Last step first.
Undoing(n) == phase = "Rollback" /\ n \in ToUndo /\ \A m \in ToUndo : m <= n

\* run_rollback: the call an action makes.  A restored or recreated resource
\* gets the snapshot's name, value and parent; the live adapter's update
\* sends no parent, and overwrites are never part of either.
UndoCall(action) ==
  LET call(op, ref, name, value, parent) ==
        [op |-> op, kind |-> action.ref[1], ref |-> ref, target |-> None,
         name |-> name, value |-> value, parent |-> parent]
      before == snapshot[action.ref]
  IN CASE action.do = "Delete" -> call("Delete", action.ref, NoKey, Unset, None)
       [] action.do = "Restore" -> call("Update", action.ref, before.name, before.value, None)
       [] action.do = "Recreate" ->
            call("Create", None, before.name, before.value, before.parent)
       [] OTHER -> [call("Upsert", action.ref, NoKey, action.value, None)
                      EXCEPT !.target = action.target]

\* An overwrite that was not there before cannot be removed.
Removes(action) == action.do = "RestoreOverwrite" /\ action.value = Unset

Undo(n, answer) ==
  /\ Undoing(n)
  /\ ~Removes(steps[n].rollback)
  /\ Serve(UndoCall(steps[n].rollback), answer)
  /\ undone' = With(undone, n, IF answer = "Ok" THEN "Undone" ELSE "Failed")
  /\ UNCHANGED <<request, approval, phase, bound, steps, drift>>

SkipUndo(n) ==
  /\ Undoing(n)
  /\ Removes(steps[n].rollback)
  /\ undone' = With(undone, n, "Skipped")
  /\ UNCHANGED <<request, guild, approval, phase, bound, steps, nextId, lost, drift>>

\* Mutant: a skipped undo counts as done.
RollbackStatusWithoutSkipped ==
  IF DOMAIN undone = {} THEN "NotRequired"
  ELSE IF \A n \in DOMAIN undone : undone[n] # "Failed" THEN "Succeeded"
  ELSE "Failed"

RollbackStatus ==
  IF DOMAIN undone = {} THEN "NotRequired"
  ELSE IF \A n \in DOMAIN undone : undone[n] = "Undone" THEN "Succeeded"
  ELSE IF \A n \in DOMAIN undone : undone[n] = "Failed" THEN "Failed"
  ELSE "Partial"

FinishRollback ==
  /\ phase = "Rollback"
  /\ ToUndo = {}
  /\ phase' = "RolledBack"
  /\ UNCHANGED <<request, guild, approval, bound, steps, undone, nextId, lost, drift>>

----------------------------------------------------------------------------
(* Somebody else: a role or a channel is deleted or renamed while the      *)
(* request waits or runs.                                                  *)

Drift(ref) ==
  /\ drift < MaxDrift
  /\ ref # EveryoneRole
  /\ phase \in {"Review", "Forward", "Rollback"}
  /\ \E op \in {"Delete", "Update"}, name \in OtherNames :
       guild' = Effect(guild, [op |-> op, kind |-> ref[1], ref |-> ref, target |-> None,
                               name |-> name, value |-> Unset, parent |-> None], nextId)
  /\ drift' = drift + 1
  /\ UNCHANGED <<request, approval, phase, bound, steps, undone, nextId, lost>>

Job ==
  \/ Start
  \/ \E answer \in {"Ok", "Failed", "Lost"} :
       RunOp(answer) \/ \E n \in DOMAIN steps : Undo(n, answer)
  \/ RunUnresolved \/ FinishForward \/ FinishRollback
  \/ \E n \in DOMAIN steps : SkipUndo(n)

Next ==
  \/ \E user \in Users : Approve(user) \/ Reject(user)
  \/ Job
  \/ \E ref \in DOMAIN guild : Drift(ref)

Spec == Init /\ [][Next]_vars

----------------------------------------------------------------------------
(* Properties.                                                             *)

\* What a key must stand for: the parent of a channel is another channel that
\* is to be there, and the target of an overwrite a role that is to be there.
WellReferenced ==
  \A n \in DOMAIN desired :
    /\ desired[n].parent # NoKey =>
         /\ desired[n].parent # desired[n].key
         /\ \E m \in Declared(desired, "Channel", desired[n].parent) :
              desired[m].state = "Present"
    /\ \A o \in Range(desired[n].overwrites) :
         o.target # Everyone =>
           \E m \in Declared(desired, "Role", o.target) : desired[m].state = "Present"

\* The dependency order of the graph is enough for every key: no step of the
\* job fails to resolve one (derive_dependencies and topological_order
\* against run_op's lookups).
OrderResolvesKeys ==
  WellReferenced => \A n \in DOMAIN steps : steps[n].outcome # "Unresolved"

\* A job that succeeds on a guild nobody else touched leaves the guild that
\* virtual-apply showed in the preview, up to the ids of what it created and
\* up to what the service adds of its own: a role created without permissions
\* has some, a channel created in a category may have more overwrites, and
\* what names a deleted category or role does so no longer.
PreviewHolds ==
  LET shown == VirtualApply(desired, snapshot, plan.nodes)
      first == FirstSynthetic(snapshot)
      real(r) == IF r[2] < first THEN r ELSE <<r[1], r[2] - first + FirstNewId>>
      defaulted(r) ==
        /\ r[1] = "Role" /\ r \notin DOMAIN snapshot
        /\ \E n \in DOMAIN desired :
             /\ KeyRef(desired, snapshot, shown.bound, "Role", desired[n].key) = r
             /\ desired[n].value = Unset
      same(r, c, s) ==
        /\ c.name = s.name
        /\ c.value = s.value \/ defaulted(r)
        /\ c.parent = IF s.parent \in DOMAIN shown.guild THEN real(s.parent) ELSE None
        /\ \A t \in DOMAIN s.overwrites \cap DOMAIN shown.guild :
             real(t) \in DOMAIN c.overwrites /\ c.overwrites[real(t)] = s.overwrites[t]
        /\ \A t \in DOMAIN c.overwrites :
             \/ t \in {real(u) : u \in DOMAIN s.overwrites \cap DOMAIN shown.guild}
             \/ r \notin DOMAIN snapshot /\ s.parent # None /\ t \in DOMAIN guild
  IN phase = "Succeeded" /\ drift = 0 =>
       /\ shown.ok
       /\ DOMAIN guild = {real(r) : r \in DOMAIN shown.guild}
       /\ \A r \in DOMAIN shown.guild : same(r, guild[real(r)], shown.guild[r])

\* No two intents of a kind name or match the same resource, and no two
\* overwrites of a channel are about the same role.
WellPosed ==
  /\ WellReferenced
  /\ \A m, n \in DOMAIN desired : m # n /\ desired[m].kind = desired[n].kind =>
       /\ desired[m].name # desired[n].name \/ desired[m].name = NoKey
       /\ \/ Resolve(snapshot, desired[m]) # Resolve(snapshot, desired[n])
          \/ Resolve(snapshot, desired[m]) = Missing
  /\ \A n \in DOMAIN desired : \A o, q \in Range(desired[n].overwrites) :
       LET target(x) == OverwriteTarget(snapshot, desired, x.target)
       IN o # q => target(o) # target(q) \/ target(o) = Missing

\* A second diff after a successful job finds nothing left to do, for a
\* well-posed desired state and a guild nobody else touched (diff against
\* compile_operations and execute).
SucceededIsConverged ==
  phase = "Succeeded" /\ drift = 0 /\ WellPosed => IsNoOp(Diff(guild, desired))

DeletedSomething ==
  \E n \in DOMAIN steps : steps[n].outcome = "Success" /\ plan.nodes[n].op = "Delete"

\* A rollback that reports NotRequired or Succeeded leaves the snapshot, but
\* for the effect of a call that failed after it took effect: the resource
\* that call created, or what it made of the snapshot.  Runs that deleted
\* something are excepted (execute's rollback actions and rollback_status).
RollbackLeavesAtMostTheLostCall ==
  phase = "RolledBack" /\ RollbackStatus \in {"NotRequired", "Succeeded"}
    /\ drift = 0 /\ ~DeletedSomething
    => \/ guild = snapshot
       \/ \E n \in DOMAIN lost :
            LET call == lost[n][1]
                new == <<call.kind, lost[n][2]>>
            IN IF call.op = "Create"
               THEN /\ DOMAIN guild = DOMAIN snapshot \cup {new}
                    /\ \A r \in DOMAIN snapshot : guild[r] = snapshot[r]
                    /\ guild[new].name = call.name
               ELSE guild = Effect(snapshot, call, lost[n][2])

\* What the request may change.
Managed ==
  {Resolve(snapshot, desired[n]) : n \in {m \in DOMAIN desired : desired[m].owner # "Referenced"}}

\* Neither the job nor its rollback changes a resource that existed before and
\* that no Managed or Adopted intent matches, not even after somebody else
\* changed the guild: it loses no more than its parent, or its overwrites for
\* a role, when the job deletes that parent or that role (the ownership
\* checks of diff_role and diff_channel).
UnmanagedIsUntouched ==
  [][Job => \A r \in DOMAIN guild \ Managed :
              r[2] < FirstNewId =>
                /\ r \in DOMAIN guild'
                /\ guild'[r] = Detached(guild[r], DOMAIN guild \ DOMAIN guild')]_vars
=============================================================================
