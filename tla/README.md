# Starring: a TLA+ model of its durable protocols

Starring turns an authored automation into a published RuleSet, has people
approve it, activates it, and converges a Discord runtime onto it. What can go
wrong there is mostly about *order*: two controllers and a dead one, a call
that lands after its sender gave up, a lease that ends on the very instant a
heartbeat is written, a crash between two writes. This directory models those
protocols in TLA+, checks them with TLC on small instances and proves the most
important facts with TLAPS for all instances.

## The system and its parts

```
 authoring ──► promotion ──► activation request ──► active RuleSet version
                               (approvals, apply)          │
                                                           ▼
 Discord ◄── gateway/worker ◄── runtime deployment ◄── convergence store
    │            │                 (phases, evidence)      (leases, serving)
    └─ interaction ─► receipt ─► effects ─► instance, teardown
```

| part | source | module | state of the work |
|---|---|---|---|
| runtime deployment state machine | `crates/automation-runtime-convergence` | `RuntimeDeployment`, `DeploymentCommands` | modelled, checked, proved |
| durable convergence store | `crates/automation-runtime-convergence-postgres` | `RuntimeConvergence`, `ServingLane` | modelled without the product drain, checked, proved, refinement proved |
| approval-bound activation | `crates/automation-ruleset-activation` (and `-postgres`) | `RuleSetActivation` | modelled, checked, proved |
| RuleSet versions, active pointer, readiness gate | `crates/automation-ruleset`, `-readiness` | `RuleSetActivation` | as the activation service uses them |
| interaction receipts, effect journal and its recovery | `migrations/202607310022…`, `202608010001…`, `crates/automation-runtime`, `tools/starring-runtime` | `EffectJournal` | modelled from a bound plan on, checked, safety proved |
| instances and teardown | `crates/automation-instance`, `-instance-teardown`, `automation-runtime` (deleter, retry supervisor) | `InstanceTeardown` | modelled, checked, safety proved |
| key lock of the teardown service | `crates/automation-instance-teardown/src/service.rs` | `KeyLockSpec`, `KeyLock` | modelled, checked, refinement proved |
| authoring promotion | `crates/authoring-promotion` (and `-postgres`) | `Promotion` | modelled, checked, safety proved |
| resource plan: diff, operation graph, preview | `crates/diff-engine`, `operation-graph`, `virtual-apply` | `ResourcePlan` | modelled as operators, lemmas proved |
| approved execution with rollback | `crates/executor-core`, `approval-manager` | `ResourceExecution` | modelled, checked, proved |
| panel installation | `crates/automation-panel-installation` | | planned |
| controller, worker, registry, runtime process | `crates/automation-runtime-{controller,worker,registry}`, `tools/starring-runtime` | | planned |
| product promotion orchestrator | `crates/authoring-application-postgres/src/product_promotions` | | not modelled |
| stateful runtime | `crates/automation-stateful-runtime` | | planned |
| compilers, design harness, HTTP, web, operators, certification tools | | | not modelled: pure or I/O-bound, see `PROJECT.json` |

`PROJECT.json` lists every part with the reason when it is left out, the lines
each definition stands for, and the hazards that the properties aim at.

## Modules

### RuntimeDeployment and DeploymentCommands

`RuntimeDeployment` is the domain type of `machine.rs` as operators: a
deployment is a snapshot record `d`; for every method `CanX(d, ...)` holds when
the method returns `Applied` and `X(d, ...)` is the snapshot it leaves. An
`Option` is a set with at most one element. `ValidSnapshot` is
`validate_snapshot`, what `restore` asks of every row it loads.
The target, the activation request and the generation that all evidence repeats
are compared together, and `generation` stands for them; reasons and messages
are dropped with their format checks. The seven panel counts that must be zero
are one count, `pending`.

`DeploymentCommands` puts one deployment under every sequence of these commands,
with times in any order and guards that may be stale. It asks what the domain
type guarantees *on its own*, whatever store and clock are around it.
A product drain passes its source and its result through `restore`; the model
leaves those two checks out, and the proof shows that they never refuse.

### RuntimeConvergence and ServingLane

The store over those operators: `runtime_deployments`, the lane's row of
`runtime_serving_leases` and `runtime_attestations`, for one guild and RuleSet
key. Each method is one transaction that locks the deployment row, then the
authority, then (where it needs it) the serving slot, and reads the database
clock last; so each is one step at `now`. Requests come from `Sessions(r)` and
`ServingIdentities(x)`: the current holder's, or stale by one in each field.
Failed calls and replays change nothing and are stutters.

The environment has two actions: `Tick`, and `MoveAuthority`, which stands for
every reason the authority lock accepts or refuses a deployment (the active
version, the installation, the tenant). Whether two processes really route at
the same time also depends on the gateway-owner lease of the worker, which is
not part of this module: the serving properties are about the database.

`ServingLane` is what the rest of the system relies on, in three variables: the
runtime that is served, the certificates issued, and the deployment the lane is
closed for. Its actions close the lane for a deployment, abandon that, certify a
process of it, and stop. A served runtime stops once and is never revived; being
served again takes a new certificate in a lane that was closed in between.
`ImplementsServingLane` is the refinement. `Served` is the serving row while
`IsServing` holds of it, so the clock alone can be a `Stop`; `Issued` is the
attestation table; `ClosedFor` is the deployment that has its drain evidence and
is not resolved. A lost Live deployment closes the lane for itself.

### RuleSetActivation

One RuleSet with its requests, its active pointer, and one worker per apply
attempt. A worker's program counter stops at each `await` of `apply_claimed` or
`apply_product_claimed` whose order matters: claim, prepare (read the active
version and the environment), renew the lease, send the activation, complete,
release or supersede. The activation call is separate from its worker: `Stop`
(a crash, the deadline, an error of the store) leaves `sent` behind and the
call still lands, or is lost. The lookups before a claim are part of the claim,
which repeats all they check. All versions are published in `Init`; they are
never deleted, so a missing target is only reached as an error
(`PrepareFails`). Attempt numbers, error texts and the reasons of decisions are
dropped.

The 45 s deadline of an attempt begins when the reply to its claim arrives
(`ClaimReplies`, `startedAt`), while its 60 s lease begins with the claim's
commit: a slow reply can use up the lease before the attempt does anything, and
another attempt may then resume the request beside it. What keeps the two apart
is `renew_apply_lease`, which is refused to an attempt that no longer owns the
request and otherwise gives it a new lease that ends after everything its
deadline still allows. `Tick` waits for the deadline of a running worker and for
a sent call; with `Deadline + Flight < Lease` it says that a call abandoned at
the deadline reaches the database within a lease. The code bounds the first term
and not the second, so this is an assumption about the database connection, and
`MoverOwnsRequest` rests on it.

`ValidRequest` is `ActivationRequest::validate` with its times: creation, expiry,
link, approvals and the one decision that a final state must carry (`decisions`
holds the rejection, the completion and the termination). The digests of the
approval context and the attempt counter are left out.

`SweepIsExclusive` says whether the boot sweep may run beside attempts.

The PostgreSQL store runs legacy requests on this path and refuses product
ones; the in-memory store runs both. The model has both.

### ResourcePlan and ResourceExecution

`ResourcePlan` holds the pure part as operators: `Validate` and `Diff` of a
desired state against a guild, the operations it compiles to, the symbols each
one produces and consumes, `TopologicalOrder` (of the ready operations the
first is next) and `VirtualApply`, the preview. A reference is a kind and an id,
a guild maps references to resources, and a desired state is the sequence of its
role intents followed by its channel intents, so that roles and channels share
one definition where the code has two of the same shape. A change is known by
its place in the diff, intent and overwrite, which is also the order of the
`OpId`s. Permissions or the channel type are one `value`, and so are the two
halves of an overwrite. Loops over the graph and over the operations are
recursive functions (`Emitted`, `Applied`).

`Normalized` and `IsGuild` say what the inputs look like: what
`desired_compiler::compile` returns, and a guild state whose parents and
overwrites name things of the guild (`ResourceAssumption`).

`ResourceExecution` runs such a plan: the approval gate, one step per call to
Discord, and the rollback over the recorded actions in reverse. A call succeeds,
fails without effect, or fails after it took effect (`lost`). `Drift` is another
administrator who deletes something or renames it to one of `OtherNames` while
the request waits or runs.

What Discord makes of a call (`Effect`) is external, and not what virtual-apply
makes of the operation (`ApplyOperation`). The two differ in four ways, all of
them in the model:

- a role created without permissions gets those of `@everyone`, since the adapter
  then sends none (`bot-runtime/src/adapter.rs:33`); the preview shows none
  (`virtual-apply/src/apply.rs:83`);
- a channel created in a category starts with the category's overwrites; the
  preview shows it without any;
- deleting a category leaves its channels without a parent, and deleting a role
  removes its overwrites (`Detached`); the preview keeps both;
- `@everyone` cannot be deleted, and a call that names something unknown is
  refused; the preview ignores or applies it.

`PreviewHolds` allows exactly the first three differences and nothing else. They
also reach resources the plan does not manage: `UnmanagedIsUntouched` says that
such a resource loses its parent, or its overwrite for a role, when the job
deletes that parent or role, and is changed in no other way. A rollback that
recreates what was deleted does not bring those references back, which is one of
the reasons why `RollbackLeavesAtMostTheLostCall` excepts runs that deleted
something.

### KeyLockSpec, KeyLock and InstanceTeardown

`KeyLock` is the try-lock of the teardown service at the grain of its memory
operations: the registry under its mutex, the clone of an `Arc`, the
compare-exchange outside of the mutex, the two halves of the guard's drop, and
the drop of a reference. Reference counts are counted, not assumed.
`KeyLockSpec` is what a caller relies on; `ImplementsKeyLock` is the refinement,
with the holder of a guard as the owner.

`InstanceTeardown` uses the abstract lock. A task stops at each `await` of
`teardown_locked`: look up, claim the row as Deleting, delete message, channel
and role, mark Deleted. `Interrupted` is an error or a cancellation with or
without the effect; `Crash` ends the process. The supervisor pages over the
Deleting rows with a keyset cursor whose end is fixed when a cycle begins, and a
slot answers InProgress for a key in use. A page is the set of the first
`PageLimit` keys the scan finds, and retries take its least key. Discord's answer
to a delete names the resource it does not know, as its error code does.

### Promotion

One promotion record, its activation request, the registry's artifact and what
the approval context depends on. A task is a call of `submit` or `resume`; each
`await` of `resume_to_activation_pending` is a step, and `Fault` ends a task at
any of them, before or after the call took effect. The eight rounds of the loop,
the revision checks of the journal and the classification of every conflict are
kept. `Expire` stands for every reader or decision that finds a request due; the
PostgreSQL store does it on a decision and on `get` of a legacy request only, the
in-memory store on every `get`. All times are those of one database clock.

### EffectJournal

One interaction from the moment its plan is bound. The worker intends an effect,
calls, reports the result and goes on; at the end it proposes a terminal state
for the receipt. `Stop` ends it anywhere (crash, deadline, a refused or lost
journal write), and a call it was in may have happened, not happened, or be
`pending` and land later (`Settle`). The sweep and the recoverers take over when
the lease of the receipt is over: `Claim`, `Observe`, `Reconcile` for effects of
unknown outcome, `IntendUndo`, `Undo`, `FinishUndo` for those to be taken back,
`ClaimResponse`, `FinalizeResponse`, `CloseKnown` for the response at the end of
the plan. `RequireRollback`, `TryComplete` and `TerminalSync` are the SQL helpers
and the trigger that all of them call, inside the caller's transaction.
`real` is the world outside, which no guard reads except through `Authority`
(the status of the routed instance) and an observation.

The lease (5 min) outlives the worker's deadline (4 min) by a margin that the
code asserts at compile time, so `ExpireLease` waits for the worker to be gone.
That matters: `finish_v1` asks for no current claim and does not try to complete
the rollback, so a result reported after the receipt became `recovery_required`
would leave the rollback open. The model takes the margin as real time.

Digests, revisions and identities in the SQL guards are one comparison with the
claim (`Holds`); an exact replay answers what was written before and is a
stutter.

## Runs

| run | what is in it | distinct states | result |
|---|---|---|---|
| `DeploymentCommands` | two controllers, three processes, a previous runtime or none, times 0..1, up to revision 18 and token 4 | 95,360 | passes |
| `RuntimeConvergenceOne` | one deployment, two controllers, two processes, failures, skew, two attempts | 262,168 | passes |
| `RuntimeConvergenceTwo` | a deployment that replaces another, heartbeats, disconnects, expiry | 477,960 | passes |
| `RuleSetActivation` | a legacy and a product request, three attempts, two approvers, a sweep | 6,482,173 | passes |
| `ConcurrentSweep` | as above with legacy requests and a sweep beside the attempts | | violated |
| `ResourceExecution` | desired states of up to two roles and two channels over four guilds, two failed or lost calls, one change by somebody else to one of two names | 2,018,660 | passes |
| `KeyLock` | three callers, two keys, five entries | 104,088 | passes |
| `InstanceTeardown` | three instances, one of which can never be deleted, a user, a retry slot, pages of one, two faults | 227,306 | passes |
| `TeardownOwnChannel` | one instance whose message is in its own channel | | violated |
| `Promotion` | two callers, two digests, a clock that passes the expiry, one fault | 1,302,628 | passes |
| `PromotionExpiry` | one caller, one fault | | violated |
| `EffectJournal` | three plans (create, create, register; create, panel; create, teardown; each with its response), two recoverers, two attempts | 461,947 | passes |

What the properties say:

- `RestoreAccepts`, `RowDecodes`, `RequestsValidate`: no legal sequence, retry or
  takeover writes a row that the next load refuses. All three stores re-validate
  on load, so such a row would be stuck for good.
- `StatusIsKnown`: whoever asks for the status of a Live deployment on the current
  target is not answered with InvalidPersistedState or a missing attestation. The
  row, its attestation and the serving row are written by different methods and
  in different attempts; `project_status` compares them with each other and with
  the clock.
- `TypeOK` of `RuleSetActivation`: no request or worker carries a time that has
  not come, and no lease ends later than one term from now, however often it is
  renewed.
- `BlockedNeedsOperator`, `RetryDiscipline`: a failed runtime is worked on again
  only in a later attempt, after its time, or by the operator.
- `ActivationIsDurable`, `EndingIsFinal`: what is attested or ended stays so.
- `ServingIsCertified`, `DrainStaysClosed`: the serving row follows what was
  certified, and nobody serves between an accepted drain and the next
  certification.
- `ImplementsServingLane`: the history of the lane is one of `ServingLane`. It
  says more than the two invariants: a heartbeat that is accepted late, or a
  certificate used for a second interval, can leave every single state in order
  and still breaks the refinement.
- `HolderCanProgress`: the holder of a live lease on the current target always
  has its phase's next step open. It is the invariant form of "nothing that an
  earlier attempt left behind refuses this one for good"; it excludes a drain
  whose predecessor still serves, and panel evidence that is ahead of the clock.
  The run has one deployment; that a predecessor on the lane leaves nothing
  behind either is proved, not checked.
- `MoverOwnsRequest`, `AppliedWhenActive`, `PointerMoveIsApproved`: a call that
  can still move the pointer belongs to the owner of the request, Applied
  implies active at the moment of the write, and the pointer only moves for a
  fully approved, linked request from its approved baseline.
- `OrderResolvesKeys`, `PreviewHolds`, `SucceededIsConverged`: the derived order
  is enough for every key, a success is what the preview showed up to what
  Discord does of its own, and a second diff finds nothing to do. The first asks that a parent or a target is a channel
  or a role that is to be there (`WellReferenced`); the last also that no two
  intents or overwrites are about the same thing (`WellPosed`). `validate` checks
  neither.
- `RollbackLeavesAtMostTheLostCall`, `UnmanagedIsUntouched`: a rollback that
  reports no problem leaves the snapshot or the effect of the one lost call, and
  nothing outside of the plan's resources is touched, drift or not, but for
  references to what the plan deletes.
- `MutualExclusion`, `ImplementsKeyLock`: the lock excludes, and InProgress is
  only said while somebody holds the key, so no key is ever stuck. That nobody
  decides on an entry the registry has forgotten (`EntryIsRegistered`) and that a
  set flag has a holder (`HeldHasHolder`) is proved along with them.
- `TombstoneIsHonest`, `SuccessIsDurable`, `CycleTriesAll`: Deleted means that
  nothing is left, a caller was told the truth, and a page boundary skips nobody.
- `TeardownCompletes`: a teardown that was started is finished, whatever fails
  in between and whoever in front of it can never be finished.
- `LinkedIsJournaled`, `ExpiredIsTrue`, `FailureIsExplained`: what can be
  approved is in the journal, the journal says Expired only of an expired
  request, and a call fails only for a reason outside of the service.
- `PromotionSettles`: callers that resume after every failure come to an end.
- `JournalIsHonest`: what the journal calls succeeded is there and what it calls
  failed, untouched or compensated is not, although calls land late.
- `CompletedIsWhole`, `RollbackIsClean`, `UndoneInReverse`: a completed receipt
  means the whole plan, a completed rollback none of it, and nothing is undone
  under an effect that builds on it or may still appear.
- `RecoveryConverges`: the receipt becomes terminal, every effect final, and a
  rollback that stays open is blocked by an effect marked for the operator.

`ConcurrentSweep` shows a disagreement with the design document
(`docs/superpowers/specs/2026-07-12-approval-bound-activation-18f-design.md`,
Boot Recovery). `recover_one` reads the active version, then bookkeeps; the
bookkeeping only asks for Applying. In the counterexample the sweep lists a
request, the request's attempt is released, another request is applied, the
first one is claimed again, and the sweep then marks it Applied though the other
version is active. With the sweep alone (`RuleSetActivation`) it cannot happen.

`TeardownOwnChannel`: an attempt deletes the channel its own message is in and is
then cut off. Every retry deletes the message first, is answered 404 with code
10003 (unknown channel), which `delete_message_with_client` does not take for
"already gone", and fails; the role is never removed. `CURRENT_STATE.md:639` says
"Resumable, idempotent instance teardown."

`PromotionExpiry`: a request that was marked expired by anyone but the resume
that also journals it answers NotPending from then on; every later resume ends in
a conflict and the journal stays at ActivationPending. The design document says
"promotion records expiry when observed"
(`docs/superpowers/specs/2026-07-18-authoring-promotion-bridge-design.md:362`).

Observations made while modelling, which no run is about:

- A teardown in a plan targets the instance the interaction was routed to
  (`automation-core`, `validate.rs`), and every later claim asks that this
  instance is active. Once the teardown began the response cannot be intended
  and no effect of the interaction can be claimed: an effect of unknown outcome,
  and an earlier one that should be rolled back, stay as they are, and only the
  receipt is closed when its token expires. `RecoveryConverges` excepts this case
  (`~Authority`); without the exception TLC finds it in eleven states.
- The worker proposes `failed` when the first effect of a plan failed. The
  receipt refuses that once the execution was intended, so the receipt stays
  `executing` until its lease ends and is then closed by the sweep.

### Bounds

The smallest bounds at which every action fires and the interesting orders
happen. `MaxAttempt = 2` is one failure and its retry. In
`RuntimeConvergenceOne` a controller lease of 2 and a serving lease of 1 let each
expire before the other. In `RuntimeConvergenceTwo` the first deployment goes
Live, serves, and is replaced; `MaxServingRevision` leaves two certifications and
two heartbeats or disconnects. In `RuleSetActivation` three attempts are an
apply, a resume behind it and the attempt of another request, and the clock
reaches the end of the first lease. Symmetry is over controllers and
processes, attempts and approvers, which the specifications only compare; the
properties checked with it are invariants and action properties.

In `ResourceExecution` two roles and two channels are the smallest plans with a
parent, an overwrite on a role and a name that two intents could match; two
faults are a failed call and a failed undo. In `KeyLock` the third caller can
clone an entry between the two halves of a drop, and five entries are more than
three callers and two keys can refer to. `InstanceTeardown` pages by one, so
that the instance that can never be deleted fills a page; two faults are a lost
answer and a crash. `Promotion` has a fault for one caller while the other goes
on, and the clock can pass the expiry at any step; its counter of rounds keeps
the code's eight. In `EffectJournal` two attempts stand for the budget of 64: one
observation that is put off and one that is the last. Two recoverers are enough
for a claim that ends under its holder, and the plans cover an effect of every
class with and without dependents.

`CHECK_DEADLOCK FALSE` for the runs whose bounded clocks and counters stop, whose
deployment or request ends, or whose interaction is over; `KeyLock` and
`Promotion` are checked for deadlock.

### Fairness and liveness

`InstanceTeardown`: weak fairness of each task's next step, of a free retry slot
and of the supervisor's scan, page end and sleep. Tasks are polled by the async
runtime, calls have timeouts, and the supervisor loops until shutdown. No
fairness on faults, crashes, requests or registrations.

`Promotion`: weak fairness of a caller's steps and of its next `resume`; the
design document prescribes the retry for every failure short of expiry and
drift. Nothing is assumed of reviewers, drift, faults or the clock.

`EffectJournal`: weak fairness of the worker (up to its deadline), of the clocks
(`ExpireLease`, `ExpireToken`, `Elapse`), of the sweep and of each recoverer as a
whole: the supervisors repeat their scans and bound every task by a timeout. It
is not assumed that an observation ever concludes, that a recoverer does
anything but give up a task, nor that a cut-off call lands; the budget of
attempts is what ends such an effect.

The convergence store, the activation service and the deployment commands have
no fairness: they only answer calls, nothing in the modelled crates retries on
its own, and a bounded clock would make "eventually" hold for the wrong reason.
`HolderCanProgress` is the safety side there.

## Proofs

Eight modules hold theorems, each those of one part or of two; the resource plan
and its execution have three.

### The deployment commands and the store

`RuntimeConvergenceProofs` begins with the lemmas about the domain commands and
proves at its end, for `DeploymentCommands` with any
sets of deployments, controllers, processes, failures and reports and any bounds:

- `RestoreAcceptsAlways`: every snapshot is well typed and `RestoreAccepts`;
- `BlockedNeedsOperatorAlways`, `EndingIsFinalAlways`,
  `ActivationIsDurableAlways`: the three action properties.

`RestoreAccepts` is not inductive by itself. `IndInv` adds `Coherent`: a pending
condition exists only in RuntimePending, a Blocked deployment holds no lease,
and the gateway evidence is not older than the panel evidence. The last one is
what `recover_live` needs, since the recovery it writes is held to an order that
`validate_snapshot` never asks of a Live snapshot. There is one lemma per
command, and the store's proofs use them as well. Lemmas about groups of fields that a command leaves
alone (`AcceptanceKept`, `BeforeActivation`, `LeaseChangeInv`) carry the
conjuncts over; `EvidenceOfPhase` and `EvidenceCounts` say once which evidence a
phase holds. The assumptions used are that `Self` is an id, that `Generation` and
the bounds are naturals, and that `Previous` holds runtime processes.

For the store it proves, for any deployments, controllers, processes,
failures and reports, any durations and any bounds on time, attempts and
revisions:

- `RowDecodesAlways`: `RowDecodes`, on rows that keep their types (`LaneTyped`);
- `StatusIsKnownAlways`: `StatusIsKnown`;
- `ServingIsCertifiedAlways`, `DrainStaysClosedAlways`, `RetryDisciplineAlways`;
- `HolderCanProgressAlways`: `HolderCanProgress`, under the hypothesis
  `ReplacementExists` (two processes, so that a lost one can be replaced, and a
  panel report that is acceptable);
- `ServingLaneRefined`: `Spec => ImplementsServingLane`, the refinement.

The inductive invariant `LaneInv` holds `RowDecodes`, `ServingIsCertified` and
`DrainStaysClosed` and adds what they need of
each other. `RowSound` says of every row that its snapshot satisfies `IndInv`,
that its evidence is at most `Skew` ahead of the clock (`Timely`: later evidence
can therefore still be dated) and that whoever holds a lease in spite of a
failure is in a later attempt and not before its retry (`RetrySound`, of which
`RetryDiscipline` is the visible part). `OneUnresolved` is the lane's unique
index, also for a lost Live deployment that becomes unresolved again.
`PreviousIsOnRecord` says that until the drain is accepted the serving row is
the one of the runtime to be replaced, and that it was served when the request
was made: that is why a drain can be accepted as soon as it has stopped.
`AttestedAttemptsAreOver` says that a lease is always held in an attempt that
has no attestation yet: that is why a certification never meets an occupied
slot. There is one lemma per store method and per mutation. `RowStep`
carries the invariant over for what writes one row of a deployment that is
unresolved anyway (the mutations, claims and operator recovery), `LeaseStep` for
what writes the serving row only (heartbeat and disconnect).

The refinement needs one invariant more, `AttestedRevisions`: no attestation is
newer than the row of its deployment. Every command leaves the next revision
(`NextRevision` and the lemmas before it), so the identity of a certification is
new. Every method but certification, heartbeat and disconnect writes one row and
nothing else that the lane shows (`WritesRow`); `WriteRefines` shows once that
such a write closes the lane, abandons it or is a stutter, from `OneUnresolved`
and `DrainStaysClosed` before and after it. `ServingRefines` does the same for
the clock and for what writes the serving row. `StatusIsKnown` rests on the same
fact: `LiveOnRecord` says that a Live row names the attestation of its own
revision and attempt, and only a certification makes a row Live, under a revision
that no earlier attestation has. The assumptions
used are that generations, durations and `MaxTime` are naturals, leases and the
retry delay not zero.

### Activation, effects, teardown, promotion

`RuleSetActivationProofs` proves for any requests, attempts, approvers, target
versions and durations with `Deadline + Flight < Lease`:

- `ActivationTyped`, `RequestsValidateAlways`: `TypeOK` and `RequestsValidate`,
  whether or not the boot sweep runs alone;
- `MoverOwnsRequestAlways`, `AppliedWhenActiveAlways`,
  `PointerMoveIsApprovedAlways`: under the hypothesis `SweepIsExclusive`, without
  which `ConcurrentSweep` refutes the second.

`RowInv` carries the first two; it adds that only a product request is about to
be superseded. `ExclusiveInv` is about attempts that hold their request, from the
renewal of the lease until their call has landed (`Holding`). Such an attempt owns
its request under a lease that ends after its deadline and its call's flight
(`HasClaim`, `InTime`), so nobody can resume the request behind it. Before the
renewal an attempt may have lost its request, and then the renewal is refused.
With one Applying request at a time (`OneApplying`) and one attempt that owns it,
what the owner saw of the pointer stays so until its own call lands
(`KnowsPointer`). `SweepAlone` says the same of the sweep: a matched request
cannot have a call on its way, which would be to a target that is not active yet.

`EffectJournalProofs` proves for any plans that satisfy `PlansAssumption`, any
recoverers and any budget of attempts `EffectJournalTyped`,
`JournalIsHonestAlways`, `CompletedIsWholeAlways`, `RollbackIsCleanAlways` and
`UndoneInReverseAlways`. The invariant follows the knowledge of the actors.
While the worker is there it is alone (`WorkerAlone`) and goes through the plan
in order (`WorkerInOrder`). What a recoverer has found out stays true for as
long as its report can be accepted (`TaskKnows`), since an effect whose
compensation was intended never counts as done again. That the response comes
last and only over a plan that is done (`ResponseIsLast`, `CompletedIsDone`)
keeps completion and rollback apart.

`InstanceTeardownProofs` proves for any finite set of instances, any callers and
slots, any page limit and any number of requests and faults `TeardownTyped`,
`TombstoneIsHonestAlways`, `SuccessIsDurableAlways` and `CycleTriesAllAlways`.
`TaskSound` says what a task knows at each step of `teardown_locked`: the row is
claimed, and all resources before the one it is at are gone, which no other task
can undo. `CycleSound` says where an instance is that the cycle has not tried
yet: in the page, or ahead of the cursor and not beyond the cycle's end. The
crux is `PageLeavesNone`: a page that is full and the cursor behind its largest
key leave nobody out. It needs the least and the largest element of a finite set
of naturals (`LeastKey`, `LargestKey`, from the well-foundedness of `<`).

The same module proves for `KeyLock`, with any finite sets of callers and keys and any set of entries:

- `KeyLockExcludes`, `KeyLockRegistered`, `KeyLockNotStuck`: `MutualExclusion`,
  `EntryIsRegistered` and `HeldHasHolder`;
- `KeyLockRefines`: `LockSpec => ImplementsKeyLock`, the refinement.

The inductive invariant holds the last two and adds that two keys never share an entry
(`RegistryInjective`) and that a guard's entry has its flag set and one guard
(`GuardsHold`). The crux is the reference count: `FreshIsUnused` says that a count
of zero means that nothing refers to an entry, so a new one is not an old one in
use, and `CountTwoIsAlone` that a count of two seen by a guard's drop leaves no
other caller with a clone, so the entry may be removed. Both are facts about
cardinalities, from `KeyLockAssumption`. The refinement maps every step to a
grant, a refusal, a leave or a stutter.

`PromotionProofs` proves for any callers, digests, time to live, length of time
and number of faults `PromotionTyped`, `LinkedIsJournaledAlways`,
`ExpiredIsTrueAlways` and `FailureIsExplainedAlways`. `RequestSound` and
`JournalSound` relate the row, the request and the artifact. `CallSound` is about
stale readings: what a call has read is an earlier state of the row, equal to it
when the revision is (`ReadSound`), and what it is about to propose is acceptable
on what it read. A call that goes round again has used fewer rounds than the row
has revisions, and a row has at most three transitions: that is why no number of
concurrent calls exhausts the eight rounds.

### The resource plan and its execution

`ResourceExecutionProofs`, `ResourceOutcomeProofs` and `ResourcePreviewProofs`
prove for all desired states, guilds, users, numbers of faults and of changes by
others that `ResourceAssumption` admits, and so for plans of every size:

- `OrderIsEnough`: `OrderResolvesKeys`;
- `UnmanagedStaysUntouched`: the action property `UnmanagedIsUntouched`;
- `ReportedRollbackHolds`: `RollbackLeavesAtMostTheLostCall`;
- `SuccessConverges`: `SucceededIsConverged`;
- `PreviewIsKept`: `PreviewHolds`.

*The plan.* An induction over natural numbers is made here on the set of those
where the claim fails, whose least element (`WFMin` and the well-foundedness of
`<`) leads to a contradiction; that is how `Emitted` and `Applied` are unfolded
without an induction rule over a predicate. `TopologicalOrder` lists each node at
most once and after its dependencies (`Ordered`), and all of them when it is as
long as the graph. So node `n` of a plan is the change at place `Order[n]` of the
diff, and `CallAt` says which call `run_op` makes of it: its reference is what
the intent at that place matches in the snapshot, or what a creation bound.

*The job.* `Inv` types the state and says that what is bound was created by the
job (`FirstNewId` or above, which the snapshot has not), and that every recorded
action touches such a resource or one that a managed or adopted intent resolves
to in the snapshot. From this `UnmanagedStaysUntouched` follows for every call,
also of the rollback and under drift. `BindingsInv` says that a key is bound
exactly when the step that creates its resource succeeded; with `Ordered` every
key is bound or found when its operation comes, which is `OrderIsEnough`.
`InjectiveInv` says that no two keys are bound to one resource.

*The rollback.* `Clean(snapshot, A, guild)` says that the guild differs from the
snapshot by what the actions in `A` will undo and by nothing else: resources that
`A` deletes, names and values that `A` restores, overwrites that `A` restores. A
successful call adds an action that undoes it (`Reverts`), an undo carries one out
and takes it away (`CarriesOut`); no two actions delete the same resource
(`ActionInv`). A call whose answer was lost stays in the guild while the others
are undone around it: `EffectsCommute` shows that an undo and the lost call can
change places or that the undo wipes its effect out. `RollbackInv` carries
`CleanOrLost`, the guild being clean or one lost call away from it, for as long
as nobody else changed the guild, nothing was deleted and no undo failed or was
skipped. With nothing left to undo, clean means equal to the snapshot.

*The outcome.* `Settled` says after each step of a clean run that the intents and
overwrites that are done, or that the diff had nothing to do for, are as desired,
and that every name in the guild is the snapshot's or the one its own intent
gives, so that no second resource comes to bear a name an intent matches by. At
the end of the plan all places are done and the second diff is a no-op.
`PreviewInv` runs virtual-apply beside the job: after the same number of
operations the two guilds have the same resources up to the renumbering `Real`
of the ids, alike but for what Discord adds and takes away, and the bindings are
renumbered alike (`Simulated`).

### Only model-checked

The liveness properties `TeardownCompletes`, `PromotionSettles` and
`RecoveryConverges`: fairness and `ENABLED` are beyond this prover. Every
invariant, action property and refinement that a passing run checks has a theorem.

## Not modelled

- Product drain in the convergence store, controller and worker loops, serving
  registry, gateway: on the plan.
- Panel installation and its journal: on the plan.
- Product promotion orchestrator (`authoring-application-postgres`): the stages
  of `Promotion` once more, in SQL functions and with their own rows.
- Before a plan is bound: the claim of a receipt by duplicate deliveries, the
  acknowledgement phases, `recover_v1`, and the blocking of a route while an
  interaction on it is unresolved. A teardown of an instance that the same plan
  registers is left out as well (`PlansAssumption`).
- Late effects of cancelled *deletes* in `InstanceTeardown`: a delete that lands
  late removes what a retry removes anyway. The store's legacy `update_status`
  and `transition_to_deleting` have no caller in the teardown path.
- Policy engine and simulator (pure, over data the model abstracts), the wording
  of previews, Discord request formats, HTTP and web code, compilers, the design
  harness, operator and certification tools. They are most of the repository's
  lines; they keep no state that several steps or actors could disagree on.

## Plan

1. Model more: panel installation; the controller's planner and session over
   `RuntimeConvergence`, with the liveness that its loop justifies; the serving
   registry and the drain of a replaced route; receipts before a plan is bound.
2. Relate: the activation service as an implementation of an atomic "approved,
   then active", the effect journal as one of "all of the plan or none of it".
3. Prove: the relations of item 2.
