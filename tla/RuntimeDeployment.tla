------------------------- MODULE RuntimeDeployment -------------------------
(***************************************************************************)
(* The convergence state machine of one runtime deployment: the domain     *)
(* type RuntimeDeployment of crates/automation-runtime-convergence         *)
(* (machine.rs, machine/validation.rs, machine/product_drain.rs).          *)
(*                                                                         *)
(* A deployment is a snapshot record d.  Every method of the Rust type is  *)
(* a pair of operators: CanX(d, ...) holds exactly when X returns          *)
(* Applied, and X(d, ...) is the resulting snapshot.  A call that returns  *)
(* an error or Replayed leaves the deployment alone.                       *)
(*                                                                         *)
(* Conventions.                                                            *)
(*  - An Option is a set with at most one element: `is_none_or` is \A and  *)
(*    `is_some_and` is \E.  A NonZero option (the fencing token) is a      *)
(*    natural number, 0 for None.                                          *)
(*  - All deployments of a model share one product scope and one slot      *)
(*    (guild, RuleSet key).  The attestations' target, activation request  *)
(*    and generation are compared together: `generation` stands for them.  *)
(*  - Reasons, failure codes and messages are dropped with the checks of   *)
(*    their format.                                                        *)
(***************************************************************************)
EXTENDS Naturals

CONSTANTS
    DeploymentIds,  \* DeploymentId
    Controllers,    \* ControllerId
    Processes,      \* ProcessInstanceId
    FailureIds,     \* RuntimeFailureId
    Reports         \* panel reports: [declared, installed, unchanged, pending]

Time == Nat

Option(S) == {o \in SUBSET S : \A x, y \in o : x = y}

-----------------------------------------------------------------------------
(* The snapshot.                                                           *)

RuntimeProcess == [generation: Nat, process: Processes]

PreflightAttestation == [generation: Nat, observed: Option(RuntimeProcess), at: Time]

DrainAttestation == [generation: Nat, observed: Option(RuntimeProcess), at: Time]

ActivationAttestation == [generation: Nat, at: Time]

PanelCertificate ==
    [generation: Nat, process: Processes, report: Reports, at: Time]

GatewayReady == [generation: Nat, process: Processes, at: Time]

LiveAttestation ==
    [generation: Nat, process: Processes, activation: ActivationAttestation,
     panel: PanelCertificate, gateway: GatewayReady, at: Time]

LiveRecovery ==
    [prior: LiveAttestation,
     kind: {"ServingLeaseExpired", "ServingDisconnected"},
     evidenceAt: Time, recoveredAt: Time]

\* Blocked has neither an attempt nor a retry time: 0 and `at` fill the fields.
Failure ==
    [disposition: {"Retryable", "Blocked"}, id: FailureIds, attempt: Nat,
     at: Time, retryAt: Time]

Lease ==
    [controller: Controllers, token: Nat, acquiredAt: Time, expiresAt: Time]

Successor == [id: DeploymentIds, generation: Nat]

\* Superseded { by, at } and Cancelled { at }.
Ending == [by: Option(Successor), at: Time]

Phases ==
    {"Requested", "PreflightReady", "DrainRequested", "Drained",
     "ActivationApplying", "RuntimePending", "ReconcilingPanels",
     "AwaitingGatewayReady", "Live", "Superseded", "Cancelled"}

\* `condition` is the payload of RuntimePending ({} is Ready) and `ending`
\* that of Superseded and Cancelled; both are {} in every other phase.
Snapshot ==
    [id: DeploymentIds, generation: Nat, previous: Option(RuntimeProcess),
     requestedAt: Time, revision: Nat, phase: Phases,
     condition: Option(Failure), ending: Option(Ending),
     lease: Option(Lease), lastToken: Nat,
     preflight: Option(PreflightAttestation), drain: Option(DrainAttestation),
     activation: Option(ActivationAttestation), panel: Option(PanelCertificate),
     gateway: Option(GatewayReady), live: Option(LiveAttestation),
     recovery: Option(LiveRecovery), failure: Option(Failure)]

\* Mutant: is_terminal forgets Superseded.
IsLiveOrCancelled(d) == d.phase \in {"Live", "Cancelled"}

IsTerminal(d) == d.phase \in {"Live", "Superseded", "Cancelled"}

IsReady(d) == d.phase = "RuntimePending" /\ d.condition = {}

IsBlocked(d) == \E f \in d.condition : f.disposition = "Blocked"

-----------------------------------------------------------------------------
(* RuntimeDeployment::request                                              *)

CanRequest(generation, previous) ==
    \A p \in previous : generation > p.generation

Request(id, generation, previous, now) ==
    [id |-> id, generation |-> generation, previous |-> previous,
     requestedAt |-> now, revision |-> 1, phase |-> "Requested",
     condition |-> {}, ending |-> {}, lease |-> {}, lastToken |-> 0,
     preflight |-> {}, drain |-> {}, activation |-> {}, panel |-> {},
     gateway |-> {}, live |-> {}, recovery |-> {}, failure |-> {}]

-----------------------------------------------------------------------------
(* The checks on evidence, machine/validation.rs                           *)

ValidatePreflight(d, a) ==
    /\ a.generation = d.generation
    /\ a.observed = d.previous
    /\ a.at >= d.requestedAt

ValidateDrain(d, a) ==
    /\ a.generation = d.generation
    /\ a.observed = d.previous
    /\ \E p \in d.preflight : a.at >= p.at

ValidateActivation(d, a) ==
    /\ a.generation = d.generation
    /\ \E r \in d.drain : a.at >= r.at

\* `pending` sums the seven counts that must be zero.  The counts are u32 and
\* so is `declared`: a sum that overflows differs from it.
PanelEligible(report) ==
    /\ report.pending = 0
    /\ report.installed + report.unchanged = report.declared

ValidatePanelCertificate(d, c) ==
    /\ c.generation = d.generation
    /\ \E a \in d.activation : c.at >= a.at
    /\ \A r \in d.recovery : c.at >= r.recoveredAt /\ c.process # r.prior.process
    /\ PanelEligible(c.report)

ValidateGatewayReady(d, a) ==
    /\ a.generation = d.generation
    /\ \E c \in d.panel : a.process = c.process

ValidateSupersession(d, by, at) ==
    /\ by.generation > d.generation
    /\ by.id # d.id
    /\ at >= d.requestedAt

\* runtime_evidence_floor: None without an activation, else the later of the
\* activation and the last recovery.
NotBeforeEvidenceFloor(d, at) ==
    /\ \E a \in d.activation : at >= a.at
    /\ \A r \in d.recovery : at >= r.recoveredAt

-----------------------------------------------------------------------------
(* validate_snapshot: what `restore` demands of a persisted snapshot.      *)

ValidPrevious(d) == \A p \in d.previous : d.generation > p.generation

ValidLease(d) ==
    /\ \A l \in d.lease : /\ l.token = d.lastToken
                          /\ d.lastToken # 0
                          /\ l.expiresAt > l.acquiredAt
                          /\ l.acquiredAt >= d.requestedAt
    /\ IsTerminal(d) => d.lease = {}

FailureIsCurrent(d) == d.phase = "RuntimePending" /\ d.condition = d.failure

ValidFailure(d) ==
    \A f \in d.failure :
        /\ f.at >= d.requestedAt
        /\ \E a \in d.activation : f.at >= a.at
        /\ FailureIsCurrent(d) => NotBeforeEvidenceFloor(d, f.at)
        /\ f.retryAt >= f.at

ValidLive(d) ==
    \A l \in d.live :
        /\ l.generation = d.generation
        /\ d.activation = {l.activation}
        /\ d.panel = {l.panel}
        /\ d.gateway = {l.gateway}
        /\ l.process = l.gateway.process
        /\ l.at >= l.gateway.at

ValidRecovery(d) ==
    \A r \in d.recovery :
        /\ d.phase \in {"RuntimePending", "ReconcilingPanels",
                        "AwaitingGatewayReady", "Live", "Superseded"}
        /\ r.prior.generation = d.generation
        /\ d.activation = {r.prior.activation}
        /\ r.prior.panel.generation = d.generation
        /\ r.prior.gateway.generation = d.generation
        /\ r.prior.process = r.prior.panel.process
        /\ r.prior.process = r.prior.gateway.process
        /\ r.prior.panel.at >= r.prior.activation.at
        /\ r.prior.gateway.at >= r.prior.panel.at
        /\ r.prior.at >= r.prior.gateway.at
        /\ PanelEligible(r.prior.panel.report)
        /\ r.evidenceAt >= r.prior.at
        /\ r.recoveredAt >= r.evidenceAt
        /\ \A l \in d.live : l.at >= r.recoveredAt

\* The first n of the six kinds of evidence are present and the others absent.
EvidenceUpTo(d, n) ==
    /\ (d.preflight # {}) <=> (n >= 1)
    /\ (d.drain # {}) <=> (n >= 2)
    /\ (d.activation # {}) <=> (n >= 3)
    /\ (d.panel # {}) <=> (n >= 4)
    /\ (d.gateway # {}) <=> (n >= 5)
    /\ (d.live # {}) <=> (n >= 6)

EvidenceIsPrefix(d) == \E n \in 0 .. 4 : EvidenceUpTo(d, n)

ValidPhaseEvidence(d) ==
    \/ d.phase = "Requested" /\ EvidenceUpTo(d, 0)
    \/ d.phase \in {"PreflightReady", "DrainRequested"} /\ EvidenceUpTo(d, 1)
    \/ d.phase \in {"Drained", "ActivationApplying"} /\ EvidenceUpTo(d, 2)
    \/ /\ d.phase = "RuntimePending"
       /\ EvidenceUpTo(d, 3)
       /\ d.condition \in {{}, d.failure}
    \/ d.phase = "ReconcilingPanels" /\ EvidenceUpTo(d, 3)
    \/ d.phase = "AwaitingGatewayReady" /\ EvidenceUpTo(d, 4)
    \/ d.phase = "Live" /\ EvidenceUpTo(d, 6)
    \/ /\ d.phase = "Superseded"
       /\ \E e \in d.ending : \E s \in e.by : ValidateSupersession(d, s, e.at)
       /\ EvidenceIsPrefix(d)
    \/ /\ d.phase = "Cancelled"
       /\ \E e \in d.ending : e.at >= d.requestedAt
       /\ EvidenceIsPrefix(d)

ValidSnapshot(d) ==
    /\ ValidPrevious(d)
    /\ ValidLease(d)
    /\ ValidFailure(d)
    /\ \A a \in d.preflight : ValidatePreflight(d, a)
    /\ \A a \in d.drain : ValidateDrain(d, a)
    /\ \A a \in d.activation : ValidateActivation(d, a)
    /\ \A c \in d.panel : ValidatePanelCertificate(d, c)
    /\ \A a \in d.gateway : ValidateGatewayReady(d, a)
    /\ ValidLive(d)
    /\ ValidRecovery(d)
    /\ ValidPhaseEvidence(d)

-----------------------------------------------------------------------------
(* The controller lease.  A LeaseRequestV1 q is                            *)
(* [revision, controller, token, now, expiresAt].                          *)

ValidateLeaseRequest(d, q) ==
    /\ q.revision = d.revision
    /\ ~IsTerminal(d)
    /\ q.expiresAt > q.now
    /\ q.now >= d.requestedAt
    /\ \A l \in d.lease :
           l.expiresAt > q.now => /\ l.controller = q.controller
                                  /\ q.now >= l.acquiredAt
                                  /\ q.expiresAt > l.expiresAt
    /\ q.token > d.lastToken

InstallLease(d, q) ==
    [d EXCEPT !.lease = {[controller |-> q.controller, token |-> q.token,
                          acquiredAt |-> q.now, expiresAt |-> q.expiresAt]},
              !.lastToken = q.token,
              !.revision = @ + 1]

CanAcquireLease(d, q) ==
    /\ ~IsBlocked(d)
    /\ \A f \in d.condition : f.retryAt <= q.now
    /\ ValidateLeaseRequest(d, q)

AcquireLease(d, q) == InstallLease(d, q)

CanRecoverBlocked(d, q, failureId) ==
    /\ IsBlocked(d)
    /\ \A f \in d.condition : f.id = failureId
    /\ d.lease = {}
    /\ d.failure = d.condition
    /\ ValidateLeaseRequest(d, q)

RecoverBlocked(d, q) == [InstallLease(d, q) EXCEPT !.condition = {}]

-----------------------------------------------------------------------------
(* The commands of the lease holder.  A CommandGuardV1 g is                *)
(* [revision, generation, controller, token, now].                         *)

RequireGuard(d, g) ==
    /\ g.revision = d.revision
    /\ g.generation = d.generation
    /\ \E l \in d.lease : /\ l.expiresAt > g.now
                          /\ l.controller = g.controller
                          /\ l.token = g.token

Advance(d, phase) == [d EXCEPT !.phase = phase, !.revision = @ + 1]

CanAcceptPreflight(d, g, a) ==
    RequireGuard(d, g) /\ d.phase = "Requested" /\ ValidatePreflight(d, a)

AcceptPreflight(d, a) == [Advance(d, "PreflightReady") EXCEPT !.preflight = {a}]

CanRequestDrain(d, g) == RequireGuard(d, g) /\ d.phase = "PreflightReady"

RequestDrain(d) == Advance(d, "DrainRequested")

CanAcceptDrain(d, g, a) ==
    RequireGuard(d, g) /\ d.phase = "DrainRequested" /\ ValidateDrain(d, a)

AcceptDrain(d, a) == [Advance(d, "Drained") EXCEPT !.drain = {a}]

CanBeginActivation(d, g) == RequireGuard(d, g) /\ d.phase = "Drained"

BeginActivation(d) == Advance(d, "ActivationApplying")

CanAcceptActivation(d, g, a) ==
    /\ RequireGuard(d, g)
    /\ d.phase = "ActivationApplying"
    /\ ValidateActivation(d, a)

AcceptActivation(d, a) ==
    [Advance(d, "RuntimePending") EXCEPT !.activation = {a}]

\* Mutant: the gateway's readiness survives.
ClearPanelAndLive(d) == [d EXCEPT !.panel = {}, !.live = {}]

\* clear_unaccepted_runtime_evidence
ClearRuntimeEvidence(d) ==
    [d EXCEPT !.panel = {}, !.gateway = {}, !.live = {}]

\* record_retryable_failure and record_blocked_failure
CanRecordFailure(d, g, f) ==
    /\ RequireGuard(d, g)
    /\ IsReady(d) \/ d.phase \in {"ReconcilingPanels", "AwaitingGatewayReady"}
    /\ f.retryAt >= f.at
    /\ NotBeforeEvidenceFloor(d, f.at)

\* Mutant: the controller keeps its lease.
RecordFailureHoldingLease(d, f) ==
    [Advance(ClearRuntimeEvidence(d), "RuntimePending") EXCEPT
        !.condition = {f}, !.failure = {f}]

RecordFailure(d, f) ==
    [Advance(ClearRuntimeEvidence(d), "RuntimePending") EXCEPT
        !.condition = {f}, !.failure = {f}, !.lease = {}]

CanResumeRuntimePending(d, g) ==
    RequireGuard(d, g) /\ d.phase = "RuntimePending" /\ d.condition # {}

ResumeRuntimePending(d) == [Advance(d, "RuntimePending") EXCEPT !.condition = {}]

CanBeginPanelReconciliation(d, g) == RequireGuard(d, g) /\ IsReady(d)

BeginPanelReconciliation(d) == Advance(d, "ReconcilingPanels")

CanAcceptPanelCertificate(d, g, c) ==
    /\ RequireGuard(d, g)
    /\ d.phase = "ReconcilingPanels"
    /\ ValidatePanelCertificate(d, c)

AcceptPanelCertificate(d, c) ==
    [Advance(d, "AwaitingGatewayReady") EXCEPT !.panel = {c}]

CanCertifyLive(d, g, a, at) ==
    /\ RequireGuard(d, g)
    /\ d.phase = "AwaitingGatewayReady"
    /\ ValidateGatewayReady(d, a)
    /\ \A c \in d.panel : a.at >= c.at
    /\ at >= a.at

CertifyLive(d, a, at) ==
    [Advance(d, "Live") EXCEPT
        !.gateway = {a},
        !.live = {[generation |-> d.generation, process |-> a.process,
                   activation |-> x, panel |-> c, gateway |-> a, at |-> at] :
                  x \in d.activation, c \in d.panel},
        !.lease = {}]

\* A RecoverLiveRequestV1 q is
\* [revision, generation, process, kind, evidenceAt, recoveredAt].
CanRecoverLive(d, q) ==
    /\ q.revision = d.revision
    /\ d.phase = "Live"
    /\ q.generation = d.generation
    /\ \A l \in d.live : l.process = q.process /\ q.evidenceAt >= l.at
    /\ q.recoveredAt >= q.evidenceAt

LoseLive(d, kind, evidenceAt, recoveredAt) ==
    [ClearRuntimeEvidence(d) EXCEPT
        !.recovery = {[prior |-> l, kind |-> kind, evidenceAt |-> evidenceAt,
                       recoveredAt |-> recoveredAt] : l \in d.live}]

RecoverLive(d, q) ==
    Advance(LoseLive(d, q.kind, q.evidenceAt, q.recoveredAt), "RuntimePending")

\* Both endings leave RuntimePending's condition behind with its phase.
End(d, phase, by, at) ==
    [Advance(d, phase) EXCEPT
        !.ending = {[by |-> by, at |-> at]}, !.condition = {}, !.lease = {}]

CanSupersede(d, g, by, at) ==
    RequireGuard(d, g) /\ ~IsTerminal(d) /\ ValidateSupersession(d, by, at)

Supersede(d, by, at) == End(d, "Superseded", {by}, at)

\* Mutant: any open phase can be cancelled.
CanCancelAnyPhase(d, g, at) ==
    RequireGuard(d, g) /\ ~IsTerminal(d) /\ at >= d.requestedAt

CanCancel(d, g, at) ==
    /\ RequireGuard(d, g)
    /\ d.phase \in {"Requested", "PreflightReady", "DrainRequested"}
    /\ at >= d.requestedAt

Cancel(d, at) == End(d, "Cancelled", {}, at)

-----------------------------------------------------------------------------
(* A product drain ends or releases a source deployment whose route is     *)
(* known to be absent, without its controller lease.                       *)

\* A permit is the source snapshot: it is spent only while that is current.  The
\* code passes source and result through `restore`, which never refuses them.
ProductDrainAcknowledged(d, revision, acknowledgedAt) ==
    /\ revision = d.revision
    /\ \/ /\ d.phase = "AwaitingGatewayReady"
          /\ \A c \in d.panel : acknowledgedAt >= c.at
       \/ /\ d.phase = "Live"
          /\ \A l \in d.live : acknowledgedAt >= l.at

CanSupersedeProductDrainSource(d, revision, acknowledgedAt, by, at) ==
    /\ ProductDrainAcknowledged(d, revision, acknowledgedAt)
    /\ ValidateSupersession(d, by, at)
    /\ at >= acknowledgedAt

SupersedeProductDrainSource(d, acknowledgedAt, by, at) ==
    LET source == IF d.phase = "Live"
                  THEN LoseLive(d, "ServingDisconnected", acknowledgedAt, at)
                  ELSE d
    IN  End(source, "Superseded", {by}, at)

CanCancelProductDrainSource(d, revision, acknowledgedAt, at) ==
    /\ ProductDrainAcknowledged(d, revision, acknowledgedAt)
    /\ at >= acknowledgedAt

CancelProductDrainSource(d) == [d EXCEPT !.revision = @ + 1]
=============================================================================
