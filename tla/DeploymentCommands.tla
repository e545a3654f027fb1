------------------------- MODULE DeploymentCommands -------------------------
(***************************************************************************)
(* One runtime deployment driven by every sequence of domain commands,     *)
(* whoever sends them and whatever times they carry: the callers of        *)
(* RuntimeDeployment choose revision, controller, token, clock readings    *)
(* and evidence freely, and the domain type alone must keep the snapshot   *)
(* restorable.  A refused command leaves the deployment alone, so only     *)
(* the accepted ones are steps.                                            *)
(***************************************************************************)
EXTENDS RuntimeDeployment

CONSTANTS
    Self,         \* the deployment's id
    Generation,   \* its runtime generation
    Previous,     \* the runtimes it may have been requested to replace
    LatestTime,   \* bound: largest time a command carries
    MaxRevision,  \* bound: no command is sent at this revision
    MaxToken      \* bound: largest fencing token a lease request carries

ASSUME SelfAssumption == Self \in DeploymentIds
ASSUME GenerationAssumption == Generation \in Nat
ASSUME PreviousAssumption == Previous \subseteq RuntimeProcess
ASSUME BoundAssumption ==
    LatestTime \in Nat /\ MaxRevision \in Nat /\ MaxToken \in Nat
ASSUME ReportAssumption ==
    \A r \in Reports : /\ r.pending \in Nat
                       /\ r.installed \in Nat
                       /\ r.unchanged \in Nat
                       /\ r.declared \in Nat

VARIABLE deployment

Times == 0 .. LatestTime

CommandsInit ==
    \E previous \in Option(Previous), at \in Times :
        /\ CanRequest(Generation, previous)
        /\ deployment = Request(Self, Generation, previous, at)

-----------------------------------------------------------------------------
(* What callers send.  A guard may be stale in any field.                  *)

LeaseRequests ==
    [revision: {deployment.revision}, controller: Controllers,
     token: 1 .. MaxToken, now: Times, expiresAt: 0 .. LatestTime + 1]

Guards ==
    [revision: {deployment.revision - 1, deployment.revision},
     generation: {Generation}, controller: Controllers,
     token: {deployment.lastToken}, now: Times]

Observed == {{}} \cup {{p} : p \in Previous}

Preflights == [generation: {Generation}, observed: Observed, at: Times]

Drains == [generation: {Generation}, observed: Observed, at: Times]

Activations == [generation: {Generation}, at: Times]

PanelCertificates ==
    [generation: {Generation}, process: Processes, report: Reports, at: Times]

GatewayReadies == [generation: {Generation}, process: Processes, at: Times]

Failures ==
    [disposition: {"Retryable", "Blocked"}, id: FailureIds, attempt: {1},
     at: Times, retryAt: Times]

RecoverLiveRequests ==
    [revision: {deployment.revision}, generation: {Generation},
     process: Processes, kind: {"ServingLeaseExpired", "ServingDisconnected"},
     evidenceAt: Times, recoveredAt: Times]

Successors == [id: DeploymentIds, generation: {Generation, Generation + 1}]

Becomes(d) == deployment.revision < MaxRevision /\ deployment' = d

-----------------------------------------------------------------------------
(* The commands.                                                           *)

AcquireLeaseCommand ==
    \E q \in LeaseRequests :
        CanAcquireLease(deployment, q) /\ Becomes(AcquireLease(deployment, q))

RecoverBlockedCommand ==
    \E q \in LeaseRequests, id \in FailureIds :
        /\ CanRecoverBlocked(deployment, q, id)
        /\ Becomes(RecoverBlocked(deployment, q))

AcceptPreflightCommand(g) ==
    \E a \in Preflights :
        /\ CanAcceptPreflight(deployment, g, a)
        /\ Becomes(AcceptPreflight(deployment, a))

RequestDrainCommand(g) ==
    CanRequestDrain(deployment, g) /\ Becomes(RequestDrain(deployment))

AcceptDrainCommand(g) ==
    \E a \in Drains :
        CanAcceptDrain(deployment, g, a) /\ Becomes(AcceptDrain(deployment, a))

BeginActivationCommand(g) ==
    CanBeginActivation(deployment, g) /\ Becomes(BeginActivation(deployment))

AcceptActivationCommand(g) ==
    \E a \in Activations :
        /\ CanAcceptActivation(deployment, g, a)
        /\ Becomes(AcceptActivation(deployment, a))

RecordFailureCommand(g) ==
    \E f \in Failures :
        CanRecordFailure(deployment, g, f) /\ Becomes(RecordFailure(deployment, f))

ResumeRuntimePendingCommand(g) ==
    /\ CanResumeRuntimePending(deployment, g)
    /\ Becomes(ResumeRuntimePending(deployment))

BeginPanelReconciliationCommand(g) ==
    /\ CanBeginPanelReconciliation(deployment, g)
    /\ Becomes(BeginPanelReconciliation(deployment))

AcceptPanelCertificateCommand(g) ==
    \E c \in PanelCertificates :
        /\ CanAcceptPanelCertificate(deployment, g, c)
        /\ Becomes(AcceptPanelCertificate(deployment, c))

CertifyLiveCommand(g) ==
    \E a \in GatewayReadies, at \in Times :
        /\ CanCertifyLive(deployment, g, a, at)
        /\ Becomes(CertifyLive(deployment, a, at))

RecoverLiveCommand ==
    \E q \in RecoverLiveRequests :
        CanRecoverLive(deployment, q) /\ Becomes(RecoverLive(deployment, q))

SupersedeCommand(g) ==
    \E by \in Successors, at \in Times :
        /\ CanSupersede(deployment, g, by, at)
        /\ Becomes(Supersede(deployment, by, at))

CancelCommand(g) ==
    \E at \in Times :
        CanCancel(deployment, g, at) /\ Becomes(Cancel(deployment, at))

SupersedeProductDrainSourceCommand ==
    \E by \in Successors, acknowledgedAt, at \in Times :
        /\ CanSupersedeProductDrainSource(deployment, deployment.revision,
                                          acknowledgedAt, by, at)
        /\ Becomes(SupersedeProductDrainSource(deployment, acknowledgedAt, by, at))

CancelProductDrainSourceCommand ==
    \E acknowledgedAt, at \in Times :
        /\ CanCancelProductDrainSource(deployment, deployment.revision,
                                       acknowledgedAt, at)
        /\ Becomes(CancelProductDrainSource(deployment))

HolderCommand(g) ==
    \/ AcceptPreflightCommand(g)
    \/ RequestDrainCommand(g)
    \/ AcceptDrainCommand(g)
    \/ BeginActivationCommand(g)
    \/ AcceptActivationCommand(g)
    \/ RecordFailureCommand(g)
    \/ ResumeRuntimePendingCommand(g)
    \/ BeginPanelReconciliationCommand(g)
    \/ AcceptPanelCertificateCommand(g)
    \/ CertifyLiveCommand(g)
    \/ SupersedeCommand(g)
    \/ CancelCommand(g)

CommandsNext ==
    \/ AcquireLeaseCommand
    \/ RecoverBlockedCommand
    \/ \E g \in Guards : HolderCommand(g)
    \/ RecoverLiveCommand
    \/ SupersedeProductDrainSourceCommand
    \/ CancelProductDrainSourceCommand

CommandsSpec == CommandsInit /\ [][CommandsNext]_deployment

-----------------------------------------------------------------------------
(* Properties.                                                             *)

\* The snapshot keeps its type: every Option holds at most one value.
CommandsTypeOK == deployment \in Snapshot

\* `restore` accepts every snapshot the commands can produce: no sequence of
\* accepted commands, with any times, writes a row that a later load of the
\* deployment refuses as InvalidSnapshot (which would wedge the deployment).
RestoreAccepts == ValidSnapshot(deployment)

\* A Blocked deployment holds no lease, so nothing but recover_blocked, naming
\* its failure, moves it on: the next snapshot is Ready under a new lease.
BlockedNeedsOperator ==
    [][IsBlocked(deployment) =>
           /\ IsReady(deployment')
           /\ deployment'.lease # {}
           /\ deployment'.lastToken > deployment.lastToken
           /\ deployment'.failure = deployment.condition]_deployment

\* A runtime failure, a lost Live and a retry never undo an accepted
\* activation: it stays as attested and the phase never returns to one that
\* precedes it.
ActivationIsDurable ==
    [][deployment.activation # {} =>
           /\ deployment'.activation = deployment.activation
           /\ deployment'.phase \notin
                  {"Requested", "PreflightReady", "DrainRequested", "Drained",
                   "ActivationApplying", "Cancelled"}]_deployment

\* A superseded or cancelled deployment never changes again, by a holder's
\* command, a lease request, a lost Live or a product drain.
EndingIsFinal ==
    [][deployment.phase \notin {"Superseded", "Cancelled"}]_deployment
=============================================================================
