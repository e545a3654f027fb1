------------------------- MODULE RuntimeConvergence -------------------------
(***************************************************************************)
(* The durable convergence store: PostgresRuntimeConvergence of            *)
(* crates/automation-runtime-convergence-postgres (store/*.rs, row.rs).    *)
(* Controllers compete for the deployments of one lane (one guild and      *)
(* RuleSet key, hence one serving row), processes heartbeat or lose their  *)
(* serving lease, and the active RuleSet version moves under all of them.  *)
(*                                                                         *)
(* Every store method is one transaction that locks the deployment's row   *)
(* and then, where it needs it, the lane's serving slot, so it is one      *)
(* step here, at the database clock `now`.  A call that fails, or that is  *)
(* answered as a replay, changes nothing.                                  *)
(***************************************************************************)
EXTENDS RuntimeDeployment

CONSTANTS
    GenerationOf,     \* the runtime generation of each deployment
    NoDeployment,     \* no deployment of the lane has current authority
    ControllerLease,  \* lease_for of the claims
    ServingLease,     \* lease_for of certifications and heartbeats
    RetryDelay,       \* retry_after of the retryable failures
    Skew,             \* maximum_future_clock_skew
    ReadyAge,         \* maximum_gateway_ready_age
    MaxTime,          \* bound: last reading of the database clock
    MaxAttempt,       \* bound: convergence attempts per deployment
    MaxServingRevision \* bound: no heartbeat is sent at this serving revision

ASSUME GenerationOfAssumption == GenerationOf \in [DeploymentIds -> Nat]
ASSUME NoDeploymentAssumption == NoDeployment \notin DeploymentIds
ASSUME DurationAssumption ==
    /\ ControllerLease \in Nat \ {0}
    /\ ServingLease \in Nat \ {0}
    /\ RetryDelay \in Nat \ {0}
    /\ Skew \in Nat
    /\ ReadyAge \in Nat
    /\ MaxTime \in Nat

VARIABLES
    now,           \* starring_runtime_mutation_clock()
    authority,     \* the deployment whose exact target is the active one
    deployments,   \* runtime_deployments: an Option per id
    serving,       \* the lane's row of runtime_serving_leases, an Option
    attestations   \* runtime_attestations

vars == <<now, authority, deployments, serving, attestations>>

\* An attestation id is a digest of a record that holds the revision the
\* certification produced, which no two certifications of a deployment share.
AttestationId == [deployment: DeploymentIds, revision: Nat]

\* attempt 0 is "not started", failureAttempt 0 is None.
Row ==
    [snapshot: Snapshot, attempt: Nat, failureAttempt: Nat,
     lastController: Option(Controllers), attestation: Option(AttestationId)]

\* `connected` and `serving` are written together: `connected` is both.
ServingLeaseRow ==
    [deployment: DeploymentIds, generation: Nat, process: Processes,
     attestation: AttestationId, epoch: Nat, revision: Nat, connected: BOOLEAN,
     acquiredAt: Time, heartbeatAt: Time, expiresAt: Time]

Init ==
    /\ now = 0
    /\ authority \in DeploymentIds
    /\ deployments = [d \in DeploymentIds |-> {}]
    /\ serving = {}
    /\ attestations = {}

-----------------------------------------------------------------------------
(* What the methods read.                                                  *)

IsUnresolved(d) == \E r \in deployments[d] : ~IsTerminal(r.snapshot)

IsServing(s) == s.connected /\ s.expiresAt > now

\* ensure_not_future bounds the times of all evidence from above, and
\* ensure_gateway_ready_fresh those of gateway readiness from below as well.
EvidenceTimes == {t \in 0 .. MaxTime + Skew : t <= now + Skew}

ReadyTimes == {t \in EvidenceTimes : t + ReadyAge >= now}

Expired(r) == \A l \in r.snapshot.lease : l.expiresAt <= now

\* What a request claims to hold: the current session or a stale one.
Sessions(r) ==
    [controller: Controllers,
     token: {r.snapshot.lastToken - 1, r.snapshot.lastToken},
     attempt: {r.attempt - 1, r.attempt},
     revision: {r.snapshot.revision - 1, r.snapshot.revision}]

Guard(r, s) ==
    [revision |-> s.revision, generation |-> r.snapshot.generation,
     controller |-> s.controller, token |-> s.token, now |-> now]

\* require_convergence_attempt and assert_current_deployment_authority
CanExecute(d, r, s) == r.attempt > 0 /\ s.attempt = r.attempt /\ authority = d

\* persist_deployment
Persist(d, r) == deployments' = [deployments EXCEPT ![d] = {r}]

Mutated(r, s, snapshot) ==
    [r EXCEPT !.snapshot = snapshot, !.lastController = {s.controller}]

-----------------------------------------------------------------------------
(* The environment: the clock, and the authority lock's outcome, which     *)
(* follows the active RuleSet version, the installation and the tenant.    *)

Tick == now < MaxTime /\ now' = now + 1 /\ UNCHANGED <<authority, deployments, serving, attestations>>

MoveAuthority ==
    /\ authority' \in (DeploymentIds \cup {NoDeployment}) \ {authority}
    /\ UNCHANGED <<now, deployments, serving, attestations>>

-----------------------------------------------------------------------------
(* store/deployment.rs and store/operator.rs                               *)

\* A unique index admits one unresolved deployment per lane.
Enqueue(d) ==
    LET previous == {[generation |-> s.generation, process |-> s.process] :
                     s \in {x \in serving : IsServing(x)}}
    IN  /\ deployments[d] = {}
        /\ authority = d
        /\ CanRequest(GenerationOf[d], previous)
        /\ \A e \in DeploymentIds : ~IsUnresolved(e)
        /\ Persist(d, [snapshot |-> Request(d, GenerationOf[d], previous, now),
                       attempt |-> 0, failureAttempt |-> 0,
                       lastController |-> {}, attestation |-> {}])
        /\ UNCHANGED <<now, authority, serving, attestations>>

LeaseRequest(r, controller) ==
    [revision |-> r.snapshot.revision, controller |-> controller,
     token |-> r.snapshot.lastToken + 1, now |-> now,
     expiresAt |-> now + ControllerLease]

\* Mutant: only an expired lease starts a new attempt, a released one does not.
NextClaimAttemptOnExpiry(r) ==
    IF r.attempt = 0 \/ (r.snapshot.lease # {} /\ Expired(r))
    THEN r.attempt + 1 ELSE r.attempt

\* attempt::next_claim_attempt
NextClaimAttempt(r) == IF Expired(r) THEN r.attempt + 1 ELSE r.attempt

CanClaimAttempt(r) ==
    \A f \in r.snapshot.condition : f.disposition = "Retryable" /\ f.retryAt <= now

\* claim_locked
ClaimLocked(d, r, controller) ==
    LET q == LeaseRequest(r, controller)
    IN  /\ CanClaimAttempt(r)
        /\ CanAcquireLease(r.snapshot, q)
        /\ Persist(d, [r EXCEPT !.snapshot = AcquireLease(r.snapshot, q),
                                !.attempt = NextClaimAttempt(r),
                                !.lastController = {controller}])
        /\ UNCHANGED <<now, authority, serving, attestations>>

\* claim_execution and claim_next_execution
Claim(d) ==
    \E r \in deployments[d], controller \in Controllers :
        /\ authority = d
        /\ Expired(r)
        /\ r.attempt < MaxAttempt
        /\ ClaimLocked(d, r, controller)

\* renew_execution
Renew(d) ==
    \E r \in deployments[d] : \E s \in Sessions(r) :
        /\ CanExecute(d, r, s)
        /\ RequireGuard(r.snapshot, Guard(r, s))
        /\ \A l \in r.snapshot.lease : now + ControllerLease > l.expiresAt
        /\ ClaimLocked(d, r, s.controller)

\* Mutant: the operator resumes the attempt that failed.
SameAttempt(r) == r.attempt

\* attempt::next_blocked_recovery_attempt
NextBlockedRecoveryAttempt(r) == r.attempt + 1

\* recover_blocked_for_operator
RecoverBlockedForOperator(d) ==
    \E r \in deployments[d], controller \in Controllers, id \in FailureIds,
       failureAttempt \in 1 .. MaxAttempt :
        LET q == LeaseRequest(r, controller)
        IN  /\ authority = d
            /\ r.failureAttempt = failureAttempt
            /\ r.attempt = failureAttempt
            /\ r.attempt < MaxAttempt
            /\ r.snapshot.lease = {}
            /\ CanRecoverBlocked(r.snapshot, q, id)
            /\ Persist(d, [r EXCEPT !.snapshot = RecoverBlocked(r.snapshot, q),
                                    !.attempt = NextBlockedRecoveryAttempt(r),
                                    !.lastController = {controller}])
            /\ UNCHANGED <<now, authority, serving, attestations>>

-----------------------------------------------------------------------------
(* The mutations of `mutate`.                                              *)

\* Mutant: the last heartbeat closes the lease, served or not.
ClosureBoundaryAtHeartbeat(s) == {s.heartbeatAt}

\* serving_closure_boundary: None while the lease is served.
ClosureBoundary(s) ==
    IF ~s.connected THEN {s.heartbeatAt}
    ELSE IF s.expiresAt <= now THEN {s.expiresAt} ELSE {}

\* validate_drain_serving_state
DrainServingStateIsValid(s) ==
    /\ s.acquiredAt <= s.heartbeatAt
    /\ s.acquiredAt <= now
    /\ IF s.connected
       THEN s.heartbeatAt < s.expiresAt /\ s.heartbeatAt <= now
       ELSE s.heartbeatAt = s.expiresAt /\ s.expiresAt <= now

\* assert_accept_drain_previous_serving
PreviousServingIsClosed(d, r, drainedAt) ==
    /\ r.snapshot.previous # {} => serving # {}
    /\ \A s \in serving :
           /\ DrainServingStateIsValid(s)
           /\ \E boundary \in ClosureBoundary(s) :
                  /\ drainedAt >= boundary
                  /\ \A p \in r.snapshot.previous :
                         /\ s.deployment # d
                         /\ s.generation = p.generation
                         /\ s.process = p.process
                         /\ s.acquiredAt <= r.snapshot.requestedAt
                         /\ boundary >= r.snapshot.requestedAt

Attest(r, at) == [generation |-> r.snapshot.generation, at |-> at]

Observe(r, at) ==
    [generation |-> r.snapshot.generation, observed |-> r.snapshot.previous,
     at |-> at]

\* validate_runtime_resume
CanResume(r) ==
    \A f \in r.snapshot.condition : /\ f.disposition = "Retryable"
                                    /\ r.failureAttempt = f.attempt
                                    /\ r.attempt > f.attempt
                                    /\ now >= f.retryAt

RetryableFailure(r, id) ==
    [disposition |-> "Retryable", id |-> id, attempt |-> r.attempt,
     at |-> now, retryAt |-> now + RetryDelay]

BlockedFailure(id) ==
    [disposition |-> "Blocked", id |-> id, attempt |-> 0, at |-> now,
     retryAt |-> now]

\* A mutation that brings the deployment to `snapshot`.
MutatesTo(d, r, s, snapshot) ==
    /\ Persist(d, Mutated(r, s, snapshot))
    /\ UNCHANGED <<now, authority, serving, attestations>>

MutateAcceptPreflight(d, r, s) ==
    \E at \in EvidenceTimes :
        /\ CanAcceptPreflight(r.snapshot, Guard(r, s), Observe(r, at))
        /\ MutatesTo(d, r, s, AcceptPreflight(r.snapshot, Observe(r, at)))

MutateRequestDrain(d, r, s) ==
    /\ CanRequestDrain(r.snapshot, Guard(r, s))
    /\ MutatesTo(d, r, s, RequestDrain(r.snapshot))

MutateAcceptDrain(d, r, s) ==
    \E at \in EvidenceTimes :
        /\ PreviousServingIsClosed(d, r, at)
        /\ CanAcceptDrain(r.snapshot, Guard(r, s), Observe(r, at))
        /\ MutatesTo(d, r, s, AcceptDrain(r.snapshot, Observe(r, at)))

MutateBeginActivation(d, r, s) ==
    /\ CanBeginActivation(r.snapshot, Guard(r, s))
    /\ MutatesTo(d, r, s, BeginActivation(r.snapshot))

MutateAcceptActivation(d, r, s) ==
    \E at \in EvidenceTimes :
        /\ CanAcceptActivation(r.snapshot, Guard(r, s), Attest(r, at))
        /\ MutatesTo(d, r, s, AcceptActivation(r.snapshot, Attest(r, at)))

\* Mutant: last_failure_attempt keeps the first failure's attempt.
FirstFailureAttempt(r) ==
    IF r.failureAttempt = 0 THEN r.attempt ELSE r.failureAttempt

\* last_failure_attempt, as a mutation that records a failure leaves it
FailureAttempt(r) == r.attempt

MutateRecordFailure(d, r, s) ==
    \E id \in FailureIds : \E f \in {RetryableFailure(r, id), BlockedFailure(id)} :
        /\ CanRecordFailure(r.snapshot, Guard(r, s), f)
        /\ Persist(d, [Mutated(r, s, RecordFailure(r.snapshot, f)) EXCEPT
                           !.failureAttempt = FailureAttempt(r)])
        /\ UNCHANGED <<now, authority, serving, attestations>>

MutateResumeRuntimePending(d, r, s) ==
    /\ CanResume(r)
    /\ CanResumeRuntimePending(r.snapshot, Guard(r, s))
    /\ MutatesTo(d, r, s, ResumeRuntimePending(r.snapshot))

MutateBeginPanelReconciliation(d, r, s) ==
    /\ CanBeginPanelReconciliation(r.snapshot, Guard(r, s))
    /\ MutatesTo(d, r, s, BeginPanelReconciliation(r.snapshot))

MutateAcceptPanelCertificate(d, r, s) ==
    \E at \in EvidenceTimes, process \in Processes, report \in Reports :
        LET c == [generation |-> r.snapshot.generation, process |-> process,
                  report |-> report, at |-> at]
        IN  /\ CanAcceptPanelCertificate(r.snapshot, Guard(r, s), c)
            /\ MutatesTo(d, r, s, AcceptPanelCertificate(r.snapshot, c))

MutateSupersede(d, r, s) ==
    \E e \in DeploymentIds :
        LET by == [id |-> e, generation |-> GenerationOf[e]]
        IN  /\ CanSupersede(r.snapshot, Guard(r, s), by, now)
            /\ MutatesTo(d, r, s, Supersede(r.snapshot, by, now))

MutateCancel(d, r, s) ==
    /\ CanCancel(r.snapshot, Guard(r, s), now)
    /\ MutatesTo(d, r, s, Cancel(r.snapshot, now))

Mutate(d) ==
    \E r \in deployments[d] : \E s \in Sessions(r) :
        /\ CanExecute(d, r, s)
        /\ \/ MutateAcceptPreflight(d, r, s)
           \/ MutateRequestDrain(d, r, s)
           \/ MutateAcceptDrain(d, r, s)
           \/ MutateBeginActivation(d, r, s)
           \/ MutateAcceptActivation(d, r, s)
           \/ MutateRecordFailure(d, r, s)
           \/ MutateResumeRuntimePending(d, r, s)
           \/ MutateBeginPanelReconciliation(d, r, s)
           \/ MutateAcceptPanelCertificate(d, r, s)
           \/ MutateSupersede(d, r, s)
           \/ MutateCancel(d, r, s)

-----------------------------------------------------------------------------
(* store/serving.rs                                                        *)

NextAttestation(d, r) == [deployment |-> d, revision |-> r.snapshot.revision + 1]

NextEpoch == IF serving = {} THEN 1 ELSE 1 + CHOOSE n \in {s.epoch : s \in serving} : TRUE

NextServingRevision ==
    IF serving = {} THEN 1 ELSE 1 + CHOOSE n \in {s.revision : s \in serving} : TRUE

\* Mutant: the record has the revision that the request expected.
AttestationRecordAsAsked(d, r) ==
    [deployment |-> d, revision |-> r.snapshot.revision, attempt |-> r.attempt]

\* A record of the lane's attestations: unique per revision and per attempt.
AttestationRecord(d, r) ==
    [deployment |-> d, revision |-> r.snapshot.revision + 1, attempt |-> r.attempt]

\* runtime_attestations_deployment_attempt_unique, a constraint of the table.
AttestationSlotIsFree(d, r) ==
    \A a \in attestations : ~(a.deployment = d /\ a.attempt = r.attempt)

CanCertify(d, r, s, ready) ==
    /\ CanExecute(d, r, s)
    /\ CanCertifyLive(r.snapshot, Guard(r, s), ready, now)
    /\ AttestationSlotIsFree(d, r)
    /\ \A x \in serving : ~IsServing(x)

CertifyServing(d) ==
    \E r \in deployments[d] :
    \E s \in Sessions(r), at \in ReadyTimes, process \in Processes :
        LET ready == [generation |-> r.snapshot.generation, process |-> process,
                      at |-> at]
        IN  /\ CanCertify(d, r, s, ready)
            /\ Persist(d, [Mutated(r, s, CertifyLive(r.snapshot, ready, now)) EXCEPT
                               !.attestation = {NextAttestation(d, r)}])
            /\ attestations' = attestations \cup {AttestationRecord(d, r)}
            /\ serving' = {[deployment |-> d, generation |-> r.snapshot.generation,
                            process |-> process,
                            attestation |-> NextAttestation(d, r),
                            epoch |-> NextEpoch, revision |-> NextServingRevision,
                            connected |-> TRUE, acquiredAt |-> now,
                            heartbeatAt |-> now, expiresAt |-> now + ServingLease]}
            /\ UNCHANGED <<now, authority>>

\* Identities a process or a controller may present: the one on record, or an
\* older one of the same slot.
ServingIdentities(x) ==
    [deployment: DeploymentIds, attestation: {x.attestation} \cup
         {[deployment |-> a.deployment, revision |-> a.revision] : a \in attestations},
     process: Processes, epoch: {x.epoch - 1, x.epoch},
     revision: {x.revision - 1, x.revision}]

\* validate_serving_identity_except_revision
MatchesExceptRevision(x, i) ==
    /\ x.deployment = i.deployment
    /\ x.attestation = i.attestation
    /\ x.process = i.process
    /\ x.epoch = i.epoch

\* validate_serving_identity
MatchesServing(x, i) == MatchesExceptRevision(x, i) /\ x.revision = i.revision

\* Mutant: a heartbeat is accepted after the lease expired.
HeartbeatRevives(x, i) ==
    \E r \in deployments[i.deployment] :
        /\ r.snapshot.phase = "Live"
        /\ r.attestation = {i.attestation}
        /\ authority = i.deployment
        /\ MatchesServing(x, i)
        /\ x.connected
        /\ x.revision < MaxServingRevision
        /\ serving' = {[x EXCEPT !.revision = @ + 1, !.heartbeatAt = now,
                                 !.expiresAt = now + ServingLease]}
        /\ UNCHANGED <<now, authority, deployments, attestations>>

HeartbeatServing(x, i) ==
    \E r \in deployments[i.deployment] :
        /\ r.snapshot.phase = "Live"
        /\ r.attestation = {i.attestation}
        /\ authority = i.deployment
        /\ MatchesServing(x, i)
        /\ IsServing(x)
        /\ x.revision < MaxServingRevision
        /\ serving' = {[x EXCEPT !.revision = @ + 1, !.heartbeatAt = now,
                                 !.expiresAt = now + ServingLease]}
        /\ UNCHANGED <<now, authority, deployments, attestations>>

Disconnected(x) ==
    [x EXCEPT !.revision = @ + 1, !.connected = FALSE, !.heartbeatAt = now,
              !.expiresAt = now]

\* Neither the phase nor the authority is asked for.
MarkServingDisconnected(x, i) ==
    /\ MatchesServing(x, i)
    /\ x.connected
    /\ serving' = {Disconnected(x)}
    /\ UNCHANGED <<now, authority, deployments, attestations>>

\* Mutant: a lease is lost as of its last heartbeat, expired or not.
LossAtHeartbeat(x) ==
    {[kind |-> IF x.connected THEN "ServingLeaseExpired" ELSE "ServingDisconnected",
      at |-> x.heartbeatAt]}

\* How and when the lease was lost; None while it is served.
Loss(x) ==
    IF ~x.connected
    THEN {[kind |-> "ServingDisconnected", at |-> x.heartbeatAt]}
    ELSE IF x.expiresAt <= now
    THEN {[kind |-> "ServingLeaseExpired", at |-> x.expiresAt]} ELSE {}

\* recover_locked, reached from recover_stale_live and recover_next_stale_live
RecoverStaleLive(x, i) ==
    \E r \in deployments[i.deployment], loss \in Loss(x) :
        LET q == [revision |-> r.snapshot.revision,
                  generation |-> r.snapshot.generation, process |-> i.process,
                  kind |-> loss.kind, evidenceAt |-> loss.at, recoveredAt |-> now]
        IN  /\ authority = i.deployment
            /\ r.attempt > 0
            /\ MatchesServing(x, i)
            /\ r.snapshot.phase = "Live"
            /\ r.attestation = {i.attestation}
            /\ \A e \in DeploymentIds \ {i.deployment} : ~IsUnresolved(e)
            /\ CanRecoverLive(r.snapshot, q)
            /\ Persist(i.deployment, [r EXCEPT !.snapshot = RecoverLive(r.snapshot, q),
                                               !.attestation = {}])
            /\ UNCHANGED <<now, authority, serving, attestations>>

-----------------------------------------------------------------------------
Next ==
    \/ Tick
    \/ MoveAuthority
    \/ \E d \in DeploymentIds : \/ Enqueue(d)
                                \/ Claim(d)
                                \/ Renew(d)
                                \/ RecoverBlockedForOperator(d)
                                \/ Mutate(d)
                                \/ CertifyServing(d)
    \/ \E x \in serving : \E i \in ServingIdentities(x) :
           \/ HeartbeatServing(x, i)
           \/ MarkServingDisconnected(x, i)
           \/ RecoverStaleLive(x, i)

Spec == Init /\ [][Next]_vars

-----------------------------------------------------------------------------
(* Decoding a row (row.rs), which every method does before anything else.  *)

\* validate_attempt_projection
ValidAttemptProjection(r) ==
    /\ r.failureAttempt <= r.attempt
    /\ r.failureAttempt = 0 <=> r.snapshot.failure = {}
    /\ \A f \in r.snapshot.failure :
           f.disposition = "Retryable" => f.attempt = r.failureAttempt
    /\ r.attempt = 0 =>
           /\ r.snapshot = Request(r.snapshot.id, r.snapshot.generation,
                                   r.snapshot.previous, r.snapshot.requestedAt)
           /\ r.lastController = {}
           /\ r.attestation = {}
    /\ r.attempt > 0 => r.snapshot.lastToken > 0

\* last_controller_projection_valid of decode_inner
ValidLastController(r) ==
    /\ (r.lastController = {}) <=> (r.snapshot.lastToken = 0)
    /\ \A l \in r.snapshot.lease : r.lastController = {l.controller}

\* The attestation that `status` loads for a Live row.
LiveAttestations(r) ==
    {a \in attestations : [deployment |-> a.deployment, revision |-> a.revision] \in r.attestation}

\* What project_status demands of a Live deployment on the current target.
ProjectsStatus(d, r) ==
    /\ LiveAttestations(r) # {}
    /\ \A a \in LiveAttestations(r) : /\ a.deployment = d
                                      /\ a.attempt = r.attempt
                                      /\ a.revision = r.snapshot.revision
    /\ \A live \in r.snapshot.live : live.at <= now
    /\ \A x \in serving : x.acquiredAt <= now /\ x.heartbeatAt <= now

-----------------------------------------------------------------------------
(* Properties.                                                             *)

\* Every table keeps its type: one row per deployment, one serving row for the
\* lane, and every attestation tied to a deployment, a revision and an attempt.
TypeOK ==
    /\ now \in Time
    /\ authority \in DeploymentIds \cup {NoDeployment}
    /\ deployments \in [DeploymentIds -> Option(Row)]
    /\ serving \in Option(ServingLeaseRow)
    /\ attestations \subseteq
           [deployment: DeploymentIds, revision: Nat, attempt: Nat]

\* Every row the methods write is one that decode_inner and
\* ServingLeaseRow::validate accept, whatever interleaving wrote it: no crash,
\* retry or takeover leaves a deployment that every later call refuses as
\* InvalidPersistedState.
RowDecodes ==
    /\ \A d \in DeploymentIds : \A r \in deployments[d] :
           /\ ValidSnapshot(r.snapshot)
           /\ ValidAttemptProjection(r)
           /\ ValidLastController(r)
    /\ \A x \in serving : DrainServingStateIsValid(x)

\* A served lane is served by exactly what was certified: while the lease is
\* connected and unexpired, its deployment is Live under that attestation, in
\* that process, and the attestation is on record.
ServingIsCertified ==
    \A x \in serving : IsServing(x) =>
        \E r \in deployments[x.deployment] :
            /\ r.snapshot.phase = "Live"
            /\ r.attestation = {x.attestation}
            /\ \A live \in r.snapshot.live : /\ live.gateway.process = x.process
                                            /\ live.gateway.generation = x.generation
            /\ \E a \in attestations : /\ a.deployment = x.deployment
                                       /\ a.revision = x.attestation.revision
                                       /\ a.attempt = r.attempt

\* The status of a Live deployment can always be told: however often it was lost,
\* recovered, taken over and certified again, the attestation it names is on
\* record and is that of its current attempt and revision, and no time on record
\* is ahead of the clock.  Otherwise `status` would answer with
\* InvalidPersistedState, or that the attestation is missing, and nobody could
\* see that the deployment is served.
StatusIsKnown ==
    \A d \in DeploymentIds : \A r \in deployments[d] :
        r.snapshot.phase = "Live" /\ authority = d => ProjectsStatus(d, r)

\* Once a drain is accepted the lane stays closed until the deployment is
\* certified or ends: no late heartbeat, recovery or certification of the
\* previous runtime makes it serve beside the one that is being activated.
DrainStaysClosed ==
    \A d \in DeploymentIds : \A r \in deployments[d] :
        r.snapshot.drain # {} /\ ~IsTerminal(r.snapshot) =>
            \A x \in serving : ~IsServing(x)

\* A failed runtime is worked on again only in a later attempt, and after a
\* retryable failure only once retry_not_before has passed; a late request of
\* the failed attempt's session never gets there.
RetryDiscipline ==
    \A d \in DeploymentIds : \A r \in deployments[d] : \A f \in r.snapshot.failure :
        r.snapshot.phase \in {"ReconcilingPanels", "AwaitingGatewayReady", "Live"} =>
            r.attempt > r.failureAttempt /\ f.retryAt <= now

\* The phases' own next step, as the holder of the lease would take it.
HolderStep(d, r) ==
    \E s \in Sessions(r) :
        /\ CanExecute(d, r, s)
        /\ \/ \E at \in EvidenceTimes :
                  \/ CanAcceptPreflight(r.snapshot, Guard(r, s), Observe(r, at))
                  \/ /\ PreviousServingIsClosed(d, r, at)
                     /\ CanAcceptDrain(r.snapshot, Guard(r, s), Observe(r, at))
                  \/ CanAcceptActivation(r.snapshot, Guard(r, s), Attest(r, at))
                  \/ \E process \in Processes, report \in Reports :
                        CanAcceptPanelCertificate(r.snapshot, Guard(r, s),
                            [generation |-> r.snapshot.generation,
                             process |-> process, report |-> report, at |-> at])
           \/ \E at \in ReadyTimes, process \in Processes :
                  CanCertify(d, r, s, [generation |-> r.snapshot.generation,
                                       process |-> process, at |-> at])
           \/ CanRequestDrain(r.snapshot, Guard(r, s))
           \/ CanBeginActivation(r.snapshot, Guard(r, s))
           \/ /\ CanResume(r)
              /\ CanResumeRuntimePending(r.snapshot, Guard(r, s))
           \/ CanBeginPanelReconciliation(r.snapshot, Guard(r, s))

\* The holder of an unexpired lease on the current target is never stuck: in
\* every phase the phase's next step is one the store accepts, a drain as soon
\* as the previous runtime has stopped serving, a certification as soon as the
\* clock has passed the panel evidence.  In particular no earlier attempt, lost
\* Live or takeover leaves a serving row, an attestation or a piece of evidence
\* that refuses this attempt for good.
HolderCanProgress ==
    \A d \in DeploymentIds : \A r \in deployments[d] :
        /\ authority = d
        /\ ~IsTerminal(r.snapshot)
        /\ \E l \in r.snapshot.lease : l.expiresAt > now
        /\ r.snapshot.phase = "DrainRequested" => \A x \in serving : ~IsServing(x)
        /\ \A c \in r.snapshot.panel : c.at <= now
        => HolderStep(d, r)

\* The refinement: what is served, the attestations on record, and the
\* deployment that is past its drain and not resolved.
Served ==
    {[deployment |-> x.deployment, process |-> x.process,
      attestation |-> x.attestation] : x \in {y \in serving : IsServing(y)}}

Issued == {[deployment |-> a.deployment, revision |-> a.revision] : a \in attestations}

PastDrain(r) == r.snapshot.drain # {} /\ ~IsTerminal(r.snapshot)

ClosedFor == {d \in DeploymentIds : \E r \in deployments[d] : PastDrain(r)}

Lane == INSTANCE ServingLane WITH
    Deployments <- DeploymentIds, served <- Served, issued <- Issued,
    closed <- ClosedFor

\* The store implements the lane that ServingLane describes: whatever claims,
\* takeovers, heartbeats and recoveries do, a certificate is used once, for one
\* interval, after the lane was closed for its deployment, and no heartbeat that
\* comes late revives a lease.
ImplementsServingLane == Lane!Spec
=============================================================================
