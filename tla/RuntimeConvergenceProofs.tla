---------------------- MODULE RuntimeConvergenceProofs ----------------------
(***************************************************************************)
(* The safety properties of RuntimeConvergence, and that it implements     *)
(* ServingLane, for every value of the constants: any number of            *)
(* deployments, controllers and processes, any durations, and any number   *)
(* of attempts.  The first part is about RuntimeDeployment: the invariant  *)
(* of a deployment, which its request establishes and every command        *)
(* preserves.  The last part is about DeploymentCommands, the deployment   *)
(* without its store, for any times the commands carry.                    *)
(***************************************************************************)
EXTENDS RuntimeConvergence, DeploymentCommands, TLAPS

-----------------------------------------------------------------------------
(* The invariant of a runtime deployment.                                  *)

\* What ValidSnapshot leaves out and its preservation needs: a payload belongs
\* to its phase, a Blocked deployment holds no lease, and gateway evidence is
\* not older than the panels' (`validate_gateway_ready` does not compare them,
\* the check of a later recovery does).
Coherent(d) ==
    /\ d.condition # {} => d.phase = "RuntimePending"
    /\ IsBlocked(d) => d.lease = {}
    /\ \A a \in d.gateway, c \in d.panel : a.at >= c.at

IndInv(d) == d \in Snapshot /\ ValidSnapshot(d) /\ Coherent(d)

-----------------------------------------------------------------------------
(* One lemma per command: an accepted command preserves IndInv.            *)

\* An Option is empty or holds one element of its set.
LEMMA OptionEmpty == \A S : {} \in Option(S)
  BY Zenon DEF Option

\* The singleton of an element of S is an Option of S.
LEMMA OptionOne == \A S : \A x \in S : {x} \in Option(S)
  BY Zenon DEF Option

\* Replacing one field by a value of its type gives a snapshot.
LEMMA FieldType ==
    ASSUME NEW d \in Snapshot
    PROVE  /\ \A x \in Nat : [d EXCEPT !.revision = x] \in Snapshot
           /\ \A x \in Phases : [d EXCEPT !.phase = x] \in Snapshot
           /\ \A x \in Option(Failure) : [d EXCEPT !.condition = x] \in Snapshot
           /\ \A x \in Option(Ending) : [d EXCEPT !.ending = x] \in Snapshot
           /\ \A x \in Option(Lease) : [d EXCEPT !.lease = x] \in Snapshot
           /\ \A x \in Nat : [d EXCEPT !.lastToken = x] \in Snapshot
           /\ \A x \in Option(PreflightAttestation) : [d EXCEPT !.preflight = x] \in Snapshot
           /\ \A x \in Option(DrainAttestation) : [d EXCEPT !.drain = x] \in Snapshot
           /\ \A x \in Option(ActivationAttestation) : [d EXCEPT !.activation = x] \in Snapshot
           /\ \A x \in Option(PanelCertificate) : [d EXCEPT !.panel = x] \in Snapshot
           /\ \A x \in Option(GatewayReady) : [d EXCEPT !.gateway = x] \in Snapshot
           /\ \A x \in Option(LiveAttestation) : [d EXCEPT !.live = x] \in Snapshot
           /\ \A x \in Option(LiveRecovery) : [d EXCEPT !.recovery = x] \in Snapshot
           /\ \A x \in Option(Failure) : [d EXCEPT !.failure = x] \in Snapshot
  <1>1. \A x \in Nat : [d EXCEPT !.revision = x] \in Snapshot
    BY Zenon DEF Snapshot
  <1>2. \A x \in Phases : [d EXCEPT !.phase = x] \in Snapshot
    BY Zenon DEF Snapshot
  <1>3. \A x \in Option(Failure) : [d EXCEPT !.condition = x] \in Snapshot
    BY Zenon DEF Snapshot
  <1>4. \A x \in Option(Ending) : [d EXCEPT !.ending = x] \in Snapshot
    BY Zenon DEF Snapshot
  <1>5. \A x \in Option(Lease) : [d EXCEPT !.lease = x] \in Snapshot
    BY Zenon DEF Snapshot
  <1>6. \A x \in Nat : [d EXCEPT !.lastToken = x] \in Snapshot
    BY Zenon DEF Snapshot
  <1>7. \A x \in Option(PreflightAttestation) : [d EXCEPT !.preflight = x] \in Snapshot
    BY Zenon DEF Snapshot
  <1>8. \A x \in Option(DrainAttestation) : [d EXCEPT !.drain = x] \in Snapshot
    BY Zenon DEF Snapshot
  <1>9. \A x \in Option(ActivationAttestation) : [d EXCEPT !.activation = x] \in Snapshot
    BY Zenon DEF Snapshot
  <1>10. \A x \in Option(PanelCertificate) : [d EXCEPT !.panel = x] \in Snapshot
    BY Zenon DEF Snapshot
  <1>11. \A x \in Option(GatewayReady) : [d EXCEPT !.gateway = x] \in Snapshot
    BY Zenon DEF Snapshot
  <1>12. \A x \in Option(LiveAttestation) : [d EXCEPT !.live = x] \in Snapshot
    BY Zenon DEF Snapshot
  <1>13. \A x \in Option(LiveRecovery) : [d EXCEPT !.recovery = x] \in Snapshot
    BY Zenon DEF Snapshot
  <1>14. \A x \in Option(Failure) : [d EXCEPT !.failure = x] \in Snapshot
    BY Zenon DEF Snapshot
  <1> QED
    BY <1>1, <1>2, <1>3, <1>4, <1>5, <1>6, <1>7,
       <1>8, <1>9, <1>10, <1>11, <1>12, <1>13, <1>14, Zenon

\* The parts of a snapshot that a command leaves alone.
SameRequest(d, e) ==
    /\ e.id = d.id
    /\ e.generation = d.generation
    /\ e.previous = d.previous
    /\ e.requestedAt = d.requestedAt

SameLease(d, e) == e.lease = d.lease /\ e.lastToken = d.lastToken

SameAcceptance(d, e) ==
    /\ e.preflight = d.preflight
    /\ e.drain = d.drain
    /\ e.activation = d.activation

SameRuntime(d, e) ==
    e.panel = d.panel /\ e.gateway = d.gateway /\ e.live = d.live

SameHistory(d, e) == e.recovery = d.recovery /\ e.failure = d.failure

SamePayload(d, e) == e.condition = d.condition /\ e.ending = d.ending

\* Advance keeps the type and changes the phase and the revision only.
LEMMA AdvanceType ==
    ASSUME NEW d \in Snapshot, NEW phase \in Phases
    PROVE  Advance(d, phase) \in Snapshot
  <1>1. d.revision + 1 \in Nat
    BY DEF Snapshot
  <1>2. [d EXCEPT !.phase = phase] \in Snapshot
    BY FieldType, Zenon
  <1>3. Advance(d, phase)
            = [[d EXCEPT !.phase = phase] EXCEPT !.revision = d.revision + 1]
    BY Zenon DEF Advance, Snapshot
  <1> QED
    BY <1>1, <1>2, <1>3, FieldType, Zenon

\* The checks on the evidence up to the activation survive a command that
\* leaves this evidence alone.
LEMMA AcceptanceKept ==
    ASSUME NEW d, NEW e, ValidSnapshot(d), SameRequest(d, e), SameAcceptance(d, e)
    PROVE  /\ ValidPrevious(e)
           /\ \A a \in e.preflight : ValidatePreflight(e, a)
           /\ \A a \in e.drain : ValidateDrain(e, a)
           /\ \A a \in e.activation : ValidateActivation(e, a)
  <1>1. ValidPrevious(e)
    BY Zenon DEF ValidSnapshot, ValidPrevious, SameRequest
  <1>2. \A a \in e.preflight : ValidatePreflight(e, a)
    BY Zenon DEF ValidSnapshot, ValidatePreflight, SameRequest, SameAcceptance
  <1>3. \A a \in e.drain : ValidateDrain(e, a)
    BY Zenon DEF ValidSnapshot, ValidateDrain, SameRequest, SameAcceptance
  <1>4. \A a \in e.activation : ValidateActivation(e, a)
    BY Zenon DEF ValidSnapshot, ValidateActivation, SameRequest, SameAcceptance
  <1> QED
    BY <1>1, <1>2, <1>3, <1>4, Zenon

\* The evidence that validate_snapshot finds in each phase.
LEMMA EvidenceOfPhase ==
    ASSUME NEW d, ValidSnapshot(d)
    PROVE  /\ d.phase = "Requested" => EvidenceUpTo(d, 0)
           /\ d.phase \in {"PreflightReady", "DrainRequested"} => EvidenceUpTo(d, 1)
           /\ d.phase \in {"Drained", "ActivationApplying"} => EvidenceUpTo(d, 2)
           /\ d.phase \in {"RuntimePending", "ReconcilingPanels"} => EvidenceUpTo(d, 3)
           /\ d.phase = "AwaitingGatewayReady" => EvidenceUpTo(d, 4)
           /\ d.phase = "Live" => EvidenceUpTo(d, 6)
           /\ d.phase \in {"Superseded", "Cancelled"} => EvidenceIsPrefix(d)
  <1>1. ValidPhaseEvidence(d)
    BY Zenon DEF ValidSnapshot
  <1>2. d.phase = "Requested" => EvidenceUpTo(d, 0)
    BY <1>1, Zenon DEF ValidPhaseEvidence
  <1>3. d.phase \in {"PreflightReady", "DrainRequested"} => EvidenceUpTo(d, 1)
    BY <1>1, Zenon DEF ValidPhaseEvidence
  <1>4. d.phase \in {"Drained", "ActivationApplying"} => EvidenceUpTo(d, 2)
    BY <1>1, Zenon DEF ValidPhaseEvidence
  <1>5. d.phase \in {"RuntimePending", "ReconcilingPanels"} => EvidenceUpTo(d, 3)
    BY <1>1, Zenon DEF ValidPhaseEvidence
  <1>6. d.phase = "AwaitingGatewayReady" => EvidenceUpTo(d, 4)
    BY <1>1, Zenon DEF ValidPhaseEvidence
  <1>7. d.phase = "Live" => EvidenceUpTo(d, 6)
    BY <1>1, Zenon DEF ValidPhaseEvidence
  <1>8. d.phase \in {"Superseded", "Cancelled"} => EvidenceIsPrefix(d)
    BY <1>1, Zenon DEF ValidPhaseEvidence
  <1> QED
    BY <1>2, <1>3, <1>4, <1>5, <1>6, <1>7, <1>8, Zenon

\* The kinds of evidence that the counts stand for.
LEMMA EvidenceCounts ==
    ASSUME NEW d
    PROVE  /\ EvidenceUpTo(d, 0) <=>
                  /\ d.preflight = {} /\ d.drain = {} /\ d.activation = {}
                  /\ d.panel = {} /\ d.gateway = {} /\ d.live = {}
           /\ EvidenceUpTo(d, 1) <=>
                  /\ d.preflight # {} /\ d.drain = {} /\ d.activation = {}
                  /\ d.panel = {} /\ d.gateway = {} /\ d.live = {}
           /\ EvidenceUpTo(d, 2) <=>
                  /\ d.preflight # {} /\ d.drain # {} /\ d.activation = {}
                  /\ d.panel = {} /\ d.gateway = {} /\ d.live = {}
           /\ EvidenceUpTo(d, 3) <=>
                  /\ d.preflight # {} /\ d.drain # {} /\ d.activation # {}
                  /\ d.panel = {} /\ d.gateway = {} /\ d.live = {}
           /\ EvidenceUpTo(d, 4) <=>
                  /\ d.preflight # {} /\ d.drain # {} /\ d.activation # {}
                  /\ d.panel # {} /\ d.gateway = {} /\ d.live = {}
           /\ EvidenceUpTo(d, 6) <=>
                  /\ d.preflight # {} /\ d.drain # {} /\ d.activation # {}
                  /\ d.panel # {} /\ d.gateway # {} /\ d.live # {}
  BY DEF EvidenceUpTo

\* Until the activation is accepted there is no failure, no recovery and no
\* runtime evidence, and a step that keeps the lease and leaves evidence that
\* fits its phase preserves the invariant.
LEMMA BeforeActivation ==
    ASSUME NEW d, IndInv(d), NEW e \in Snapshot,
           d.phase \in {"Requested", "PreflightReady", "DrainRequested",
                        "Drained", "ActivationApplying"},
           e.phase \in {"PreflightReady", "DrainRequested", "Drained",
                        "ActivationApplying", "RuntimePending"},
           SameRequest(d, e), SameLease(d, e), SameRuntime(d, e),
           SameHistory(d, e), SamePayload(d, e),
           \A a \in e.preflight : ValidatePreflight(e, a),
           \A a \in e.drain : ValidateDrain(e, a),
           \A a \in e.activation : ValidateActivation(e, a),
           e.phase \in {"PreflightReady", "DrainRequested"} => EvidenceUpTo(e, 1),
           e.phase \in {"Drained", "ActivationApplying"} => EvidenceUpTo(e, 2),
           e.phase = "RuntimePending" => EvidenceUpTo(e, 3)
    PROVE  IndInv(e)
  <1>1. ValidSnapshot(d) /\ Coherent(d)
    BY Zenon DEF IndInv
  <1>2. d.activation = {} /\ d.panel = {} /\ d.gateway = {} /\ d.live = {}
    BY <1>1, EvidenceOfPhase, EvidenceCounts, Zenon
  <1>3. e.failure = {} /\ e.recovery = {}
    BY <1>1, <1>2, Zenon DEF ValidSnapshot, ValidFailure, ValidRecovery, SameHistory
  <1>4. e.panel = {} /\ e.gateway = {} /\ e.live = {}
    BY <1>2, Zenon DEF SameRuntime
  <1>5. e.condition = {}
    BY <1>1, Zenon DEF Coherent, SamePayload
  <1>6. ValidPrevious(e)
    BY <1>1, Zenon DEF ValidSnapshot, ValidPrevious, SameRequest
  <1>7. ValidLease(e)
    BY <1>1, Zenon DEF ValidSnapshot, ValidLease, IsTerminal, SameRequest, SameLease
  <1>8. ValidFailure(e) /\ ValidRecovery(e) /\ ValidLive(e)
    BY <1>3, <1>4, Zenon DEF ValidFailure, ValidRecovery, ValidLive
  <1>9. ValidPhaseEvidence(e)
    BY <1>5, Zenon DEF ValidPhaseEvidence
  <1>10. ValidSnapshot(e)
    BY <1>4, <1>6, <1>7, <1>8, <1>9, Zenon DEF ValidSnapshot
  <1>11. Coherent(e)
    BY <1>4, <1>5, Zenon DEF Coherent, IsBlocked
  <1> QED
    BY <1>10, <1>11, Zenon DEF IndInv

\* accept_preflight preserves the invariant.
LEMMA AcceptPreflightInv ==
    ASSUME NEW d, IndInv(d), NEW g, NEW a \in PreflightAttestation,
           CanAcceptPreflight(d, g, a)
    PROVE  IndInv(AcceptPreflight(d, a))
  <1> DEFINE e == AcceptPreflight(d, a)
  <1>1. d \in Snapshot /\ ValidSnapshot(d) /\ d.phase = "Requested"
    BY Zenon DEF IndInv, CanAcceptPreflight
  <1>2. e \in Snapshot
    <2>1. Advance(d, "PreflightReady") \in Snapshot
      BY <1>1, AdvanceType, Zenon DEF Phases
    <2> QED
      BY <2>1, FieldType, OptionOne, Zenon DEF AcceptPreflight
  <1>3. /\ e.phase = "PreflightReady"
        /\ e.preflight = {a} /\ e.drain = d.drain /\ e.activation = d.activation
        /\ SameRequest(d, e) /\ SameLease(d, e) /\ SameRuntime(d, e)
        /\ SameHistory(d, e) /\ SamePayload(d, e)
    BY <1>1, Zenon DEF AcceptPreflight, Advance, Snapshot, SameRequest, SameLease,
                SameRuntime, SameHistory, SamePayload
  <1> HIDE DEF e
  <1>4. EvidenceUpTo(d, 0)
    BY <1>1, EvidenceOfPhase, Zenon
  <1>5. EvidenceUpTo(e, 1)
    BY <1>3, <1>4, EvidenceCounts, Zenon DEF SameRuntime
  <1>6. \A x \in e.preflight : ValidatePreflight(e, x)
    BY <1>3, Zenon DEF CanAcceptPreflight, ValidatePreflight, SameRequest
  <1>7. \A x \in e.drain : ValidateDrain(e, x)
    BY <1>3, <1>4, EvidenceCounts, Zenon
  <1>8. \A x \in e.activation : ValidateActivation(e, x)
    BY <1>3, <1>4, EvidenceCounts, Zenon
  <1>9. IndInv(e)
    BY <1>1, <1>2, <1>3, <1>5, <1>6, <1>7, <1>8, BeforeActivation, Zenon
  <1> QED
    BY <1>9, Zenon DEF e

\* request_drain preserves the invariant.
LEMMA RequestDrainInv ==
    ASSUME NEW d, IndInv(d), NEW g, CanRequestDrain(d, g)
    PROVE  IndInv(RequestDrain(d))
  <1> DEFINE e == RequestDrain(d)
  <1>1. d \in Snapshot /\ ValidSnapshot(d) /\ d.phase = "PreflightReady"
    BY Zenon DEF IndInv, CanRequestDrain
  <1>2. e \in Snapshot
    BY <1>1, AdvanceType, Zenon DEF RequestDrain, Phases
  <1>3. /\ e.phase = "DrainRequested"
        /\ e.preflight = d.preflight /\ e.drain = d.drain /\ e.activation = d.activation
        /\ SameRequest(d, e) /\ SameLease(d, e) /\ SameRuntime(d, e)
        /\ SameHistory(d, e) /\ SamePayload(d, e)
    BY <1>1, Zenon DEF RequestDrain, Advance, Snapshot, SameRequest, SameLease,
                SameRuntime, SameHistory, SamePayload
  <1> HIDE DEF e
  <1>4. EvidenceUpTo(d, 1)
    BY <1>1, EvidenceOfPhase, Zenon
  <1>5. EvidenceUpTo(e, 1)
    BY <1>3, <1>4, EvidenceCounts, Zenon DEF SameRuntime
  <1>6. SameAcceptance(d, e)
    BY <1>3, Zenon DEF SameAcceptance
  <1>7. /\ \A a \in e.preflight : ValidatePreflight(e, a)
        /\ \A a \in e.drain : ValidateDrain(e, a)
        /\ \A a \in e.activation : ValidateActivation(e, a)
    BY <1>1, <1>3, <1>6, AcceptanceKept, Zenon
  <1>8. IndInv(e)
    BY <1>1, <1>2, <1>3, <1>5, <1>7, BeforeActivation, Zenon
  <1> QED
    BY <1>8, Zenon DEF e

\* accept_drain preserves the invariant.
LEMMA AcceptDrainInv ==
    ASSUME NEW d, IndInv(d), NEW g, NEW a \in DrainAttestation,
           CanAcceptDrain(d, g, a)
    PROVE  IndInv(AcceptDrain(d, a))
  <1> DEFINE e == AcceptDrain(d, a)
  <1>1. d \in Snapshot /\ ValidSnapshot(d) /\ d.phase = "DrainRequested"
    BY Zenon DEF IndInv, CanAcceptDrain
  <1>2. e \in Snapshot
    <2>1. Advance(d, "Drained") \in Snapshot
      BY <1>1, AdvanceType, Zenon DEF Phases
    <2> QED
      BY <2>1, FieldType, OptionOne, Zenon DEF AcceptDrain
  <1>3. /\ e.phase = "Drained"
        /\ e.preflight = d.preflight /\ e.drain = {a} /\ e.activation = d.activation
        /\ SameRequest(d, e) /\ SameLease(d, e) /\ SameRuntime(d, e)
        /\ SameHistory(d, e) /\ SamePayload(d, e)
    BY <1>1, Zenon DEF AcceptDrain, Advance, Snapshot, SameRequest, SameLease,
                SameRuntime, SameHistory, SamePayload
  <1> HIDE DEF e
  <1>4. EvidenceUpTo(d, 1)
    BY <1>1, EvidenceOfPhase, Zenon
  <1>5. EvidenceUpTo(e, 2)
    BY <1>3, <1>4, EvidenceCounts, Zenon DEF SameRuntime
  <1>6. \A x \in e.preflight : ValidatePreflight(e, x)
    BY <1>1, <1>3, Zenon DEF ValidSnapshot, ValidatePreflight, SameRequest
  <1>7. \A x \in e.drain : ValidateDrain(e, x)
    BY <1>3, Zenon DEF CanAcceptDrain, ValidateDrain, SameRequest
  <1>8. \A x \in e.activation : ValidateActivation(e, x)
    BY <1>3, <1>4, EvidenceCounts, Zenon
  <1>9. IndInv(e)
    BY <1>1, <1>2, <1>3, <1>5, <1>6, <1>7, <1>8, BeforeActivation, Zenon
  <1> QED
    BY <1>9 DEF e

\* begin_activation preserves the invariant.
LEMMA BeginActivationInv ==
    ASSUME NEW d, IndInv(d), NEW g, CanBeginActivation(d, g)
    PROVE  IndInv(BeginActivation(d))
  <1> DEFINE e == BeginActivation(d)
  <1>1. d \in Snapshot /\ ValidSnapshot(d) /\ d.phase = "Drained"
    BY Zenon DEF IndInv, CanBeginActivation
  <1>2. e \in Snapshot
    BY <1>1, AdvanceType, Zenon DEF BeginActivation, Phases
  <1>3. /\ e.phase = "ActivationApplying"
        /\ e.preflight = d.preflight /\ e.drain = d.drain /\ e.activation = d.activation
        /\ SameRequest(d, e) /\ SameLease(d, e) /\ SameRuntime(d, e)
        /\ SameHistory(d, e) /\ SamePayload(d, e)
    BY <1>1, Zenon DEF BeginActivation, Advance, Snapshot, SameRequest, SameLease,
                SameRuntime, SameHistory, SamePayload
  <1> HIDE DEF e
  <1>4. EvidenceUpTo(d, 2)
    BY <1>1, EvidenceOfPhase, Zenon
  <1>5. EvidenceUpTo(e, 2)
    BY <1>3, <1>4, EvidenceCounts, Zenon DEF SameRuntime
  <1>6. SameAcceptance(d, e)
    BY <1>3, Zenon DEF SameAcceptance
  <1>7. /\ \A a \in e.preflight : ValidatePreflight(e, a)
        /\ \A a \in e.drain : ValidateDrain(e, a)
        /\ \A a \in e.activation : ValidateActivation(e, a)
    BY <1>1, <1>3, <1>6, AcceptanceKept, Zenon
  <1>8. IndInv(e)
    BY <1>1, <1>2, <1>3, <1>5, <1>7, BeforeActivation, Zenon
  <1> QED
    BY <1>8 DEF e

\* accept_activation preserves the invariant.
LEMMA AcceptActivationInv ==
    ASSUME NEW d, IndInv(d), NEW g, NEW a \in ActivationAttestation,
           CanAcceptActivation(d, g, a)
    PROVE  IndInv(AcceptActivation(d, a))
  <1> DEFINE e == AcceptActivation(d, a)
  <1>1. d \in Snapshot /\ ValidSnapshot(d) /\ d.phase = "ActivationApplying"
    BY Zenon DEF IndInv, CanAcceptActivation
  <1>2. e \in Snapshot
    <2>1. Advance(d, "RuntimePending") \in Snapshot
      BY <1>1, AdvanceType, Zenon DEF Phases
    <2> QED
      BY <2>1, FieldType, OptionOne, Zenon DEF AcceptActivation
  <1>3. /\ e.phase = "RuntimePending"
        /\ e.preflight = d.preflight /\ e.drain = d.drain /\ e.activation = {a}
        /\ SameRequest(d, e) /\ SameLease(d, e) /\ SameRuntime(d, e)
        /\ SameHistory(d, e) /\ SamePayload(d, e)
    BY <1>1, Zenon DEF AcceptActivation, Advance, Snapshot, SameRequest, SameLease,
                SameRuntime, SameHistory, SamePayload
  <1> HIDE DEF e
  <1>4. EvidenceUpTo(d, 2)
    BY <1>1, EvidenceOfPhase, Zenon
  <1>5. EvidenceUpTo(e, 3)
    BY <1>3, <1>4, EvidenceCounts, Zenon DEF SameRuntime
  <1>6. \A x \in e.preflight : ValidatePreflight(e, x)
    BY <1>1, <1>3, Zenon DEF ValidSnapshot, ValidatePreflight, SameRequest
  <1>7. \A x \in e.drain : ValidateDrain(e, x)
    BY <1>1, <1>3, Zenon DEF ValidSnapshot, ValidateDrain, SameRequest
  <1>8. \A x \in e.activation : ValidateActivation(e, x)
    BY <1>3, Zenon DEF CanAcceptActivation, ValidateActivation, SameRequest
  <1>9. IndInv(e)
    BY <1>1, <1>2, <1>3, <1>5, <1>6, <1>7, <1>8, BeforeActivation, Zenon
  <1> QED
    BY <1>9 DEF e

-----------------------------------------------------------------------------
(* The request.                                                            *)

\* request produces a restorable snapshot.
LEMMA RequestInv ==
    ASSUME NEW id \in DeploymentIds, NEW generation \in Nat,
           NEW previous \in Option(RuntimeProcess), NEW at \in Time,
           CanRequest(generation, previous)
    PROVE  IndInv(Request(id, generation, previous, at))
  <1> DEFINE d == Request(id, generation, previous, at)
  <1>1. d \in Snapshot
    BY OptionEmpty, Zenon DEF Request, Snapshot, Phases
  <1>2. ValidSnapshot(d)
    <2>1. ValidPrevious(d) BY DEF Request, CanRequest, ValidPrevious
    <2>2. ValidLease(d) BY DEF Request, ValidLease, IsTerminal
    <2>3. ValidFailure(d) BY DEF Request, ValidFailure
    <2>4. ValidLive(d) BY DEF Request, ValidLive
    <2>5. ValidRecovery(d) BY DEF Request, ValidRecovery
    <2>6. ValidPhaseEvidence(d)
       <3>1. d.phase = "Requested" BY DEF Request
       <3>2. EvidenceUpTo(d, 0) BY DEF Request, EvidenceUpTo
       <3> QED BY <3>1, <3>2 DEF ValidPhaseEvidence
    <2> QED
      BY <2>1, <2>2, <2>3, <2>4, <2>5, <2>6, Zenon DEF Request, ValidSnapshot
  <1>3. Coherent(d)
    BY Zenon DEF Request, Coherent, IsBlocked
  <1> QED BY <1>1, <1>2, <1>3 DEF IndInv

-----------------------------------------------------------------------------
(* The commands that gather and lose runtime evidence, from the accepted   *)
(* activation to Live and back.                                            *)

\* An accepted activation is not older than the request.
LEMMA ActivatedAfterRequest ==
    ASSUME NEW d \in Snapshot, ValidSnapshot(d), NEW a \in d.activation
    PROVE  a.at \in Nat /\ a.at >= d.requestedAt
  <1>1. a.at \in Nat /\ d.requestedAt \in Nat
    BY Zenon DEF Snapshot, Option, ActivationAttestation, Time
  <1>2. PICK r \in d.drain : a.at >= r.at
    BY Zenon DEF ValidSnapshot, ValidateActivation
  <1>3. PICK q \in d.preflight : r.at >= q.at
    BY Zenon DEF ValidSnapshot, ValidateDrain
  <1>4. q.at >= d.requestedAt
    BY Zenon DEF ValidSnapshot, ValidatePreflight
  <1>5. r.at \in Nat /\ q.at \in Nat
    BY Zenon DEF Snapshot, Option, DrainAttestation, PreflightAttestation, Time
  <1> QED
    BY <1>1, <1>2, <1>3, <1>4, <1>5

\* begin_panel_reconciliation preserves the invariant.
LEMMA BeginPanelReconciliationInv ==
    ASSUME NEW d, IndInv(d), NEW g, CanBeginPanelReconciliation(d, g)
    PROVE  IndInv(BeginPanelReconciliation(d))
  <1> DEFINE e == BeginPanelReconciliation(d)
  <1>1. d \in Snapshot /\ ValidSnapshot(d) /\ IsReady(d)
    BY Zenon DEF IndInv, CanBeginPanelReconciliation
  <1>2. e \in Snapshot
    BY <1>1, AdvanceType, Zenon DEF BeginPanelReconciliation, Phases
  <1>3. /\ e.phase = "ReconcilingPanels"
        /\ SameRequest(d, e) /\ SameLease(d, e) /\ SameAcceptance(d, e)
        /\ SameRuntime(d, e) /\ SameHistory(d, e) /\ SamePayload(d, e)
    BY <1>1, Zenon DEF BeginPanelReconciliation, Advance, Snapshot, SameRequest,
                SameLease, SameAcceptance, SameRuntime, SameHistory, SamePayload
  <1> HIDE DEF e
  <1>4. ValidSnapshot(e)
    <2>1. EvidenceUpTo(d, 3)
      BY <1>1, EvidenceOfPhase, Zenon DEF IsReady
    <2>2. ValidLease(e)
      BY <1>1, <1>3, Zenon DEF ValidSnapshot, ValidLease, IsTerminal, IsReady,
                        SameRequest, SameLease
    <2>3. ValidFailure(e)
      BY <1>1, <1>3, Zenon DEF ValidSnapshot, ValidFailure, FailureIsCurrent,
                        SameRequest, SameAcceptance, SameHistory
    <2>4. ValidLive(e) /\ ValidRecovery(e)
      <3>1. e.live = {}
        BY <1>3, <2>1, EvidenceCounts, Zenon DEF SameRuntime
      <3> QED
        BY <1>1, <1>3, <3>1, Zenon DEF ValidSnapshot, ValidLive, ValidRecovery,
                          SameRequest, SameAcceptance, SameHistory
    <2>5. ValidPhaseEvidence(e)
      <3>1. EvidenceUpTo(e, 3)
        BY <1>3, <2>1, EvidenceCounts, Zenon DEF SameAcceptance, SameRuntime
      <3> QED
        BY <1>3, <3>1, Zenon DEF ValidPhaseEvidence
    <2>6. e.panel = {} /\ e.gateway = {}
      BY <1>3, <2>1, EvidenceCounts, Zenon DEF SameRuntime
    <2> QED
      BY <1>1, <1>3, <2>2, <2>3, <2>4, <2>5, <2>6, AcceptanceKept, Zenon
      DEF ValidSnapshot
  <1>5. Coherent(e)
    BY <1>1, <1>3, Zenon DEF IndInv, Coherent, IsBlocked, IsReady, SameRuntime,
                      SamePayload
  <1> QED
    BY <1>2, <1>4, <1>5, Zenon DEF IndInv, e

\* resume_runtime_pending preserves the invariant.
LEMMA ResumeRuntimePendingInv ==
    ASSUME NEW d, IndInv(d), NEW g, CanResumeRuntimePending(d, g)
    PROVE  IndInv(ResumeRuntimePending(d))
  <1> DEFINE e == ResumeRuntimePending(d)
  <1>1. d \in Snapshot /\ ValidSnapshot(d) /\ d.phase = "RuntimePending"
    BY Zenon DEF IndInv, CanResumeRuntimePending
  <1>2. e \in Snapshot
    <2>1. Advance(d, "RuntimePending") \in Snapshot
      BY <1>1, AdvanceType, Zenon DEF Phases
    <2> QED
      BY <2>1, FieldType, OptionEmpty, Zenon DEF ResumeRuntimePending
  <1>3. /\ e.phase = "RuntimePending" /\ e.condition = {}
        /\ SameRequest(d, e) /\ SameLease(d, e) /\ SameAcceptance(d, e)
        /\ SameRuntime(d, e) /\ SameHistory(d, e)
    BY <1>1, Zenon DEF ResumeRuntimePending, Advance, Snapshot, SameRequest,
                SameLease, SameAcceptance, SameRuntime, SameHistory
  <1> HIDE DEF e
  <1>4. ValidSnapshot(e)
    <2>1. EvidenceUpTo(d, 3)
      BY <1>1, EvidenceOfPhase, Zenon
    <2>2. ValidLease(e)
      BY <1>1, <1>3, Zenon DEF ValidSnapshot, ValidLease, IsTerminal, SameRequest,
                        SameLease
    <2>3. ValidFailure(e)
      BY <1>1, <1>3, Zenon DEF ValidSnapshot, ValidFailure, FailureIsCurrent,
                        SameRequest, SameAcceptance, SameHistory
    <2>4. ValidLive(e) /\ ValidRecovery(e)
      <3>1. e.live = {}
        BY <1>3, <2>1, EvidenceCounts, Zenon DEF SameRuntime
      <3> QED
        BY <1>1, <1>3, <3>1, Zenon DEF ValidSnapshot, ValidLive, ValidRecovery,
                          SameRequest, SameAcceptance, SameHistory
    <2>5. ValidPhaseEvidence(e)
      <3>1. EvidenceUpTo(e, 3)
        BY <1>3, <2>1, EvidenceCounts, Zenon DEF SameAcceptance, SameRuntime
      <3> QED
        BY <1>3, <3>1, Zenon DEF ValidPhaseEvidence
    <2>6. e.panel = {} /\ e.gateway = {}
      BY <1>3, <2>1, EvidenceCounts, Zenon DEF SameRuntime
    <2> QED
      BY <1>1, <1>3, <2>2, <2>3, <2>4, <2>5, <2>6, AcceptanceKept, Zenon
      DEF ValidSnapshot
  <1>5. Coherent(e)
    BY <1>1, <1>3, Zenon DEF IndInv, Coherent, IsBlocked, SameRuntime
  <1> QED
    BY <1>2, <1>4, <1>5 DEF IndInv, e

\* record_retryable_failure and record_blocked_failure preserve the invariant.
LEMMA RecordFailureInv ==
    ASSUME NEW d, IndInv(d), NEW g, NEW f \in Failure, CanRecordFailure(d, g, f)
    PROVE  IndInv(RecordFailure(d, f))
  <1> DEFINE e == RecordFailure(d, f)
  <1>1. d \in Snapshot /\ ValidSnapshot(d)
    BY Zenon DEF IndInv
  <1>2. e \in Snapshot
    <2> DEFINE x == ClearRuntimeEvidence(d)
    <2>1. x \in Snapshot
      BY <1>1, FieldType, OptionEmpty, Zenon DEF ClearRuntimeEvidence
    <2>2. Advance(x, "RuntimePending") \in Snapshot
      BY <2>1, AdvanceType, Zenon DEF Phases
    <2>3. {f} \in Option(Failure) /\ {} \in Option(Lease)
      BY OptionOne, OptionEmpty, Zenon
    <2> HIDE DEF x
    <2> DEFINE y == Advance(x, "RuntimePending")
    <2>4. [y EXCEPT !.condition = {f}, !.failure = {f}, !.lease = {}] \in Snapshot
      <3> HIDE DEF y
      <3>1. y \in Snapshot
        BY <2>2, Zenon DEF y
      <3> QED
        BY <3>1, <2>3, FieldType, Zenon
    <2> QED
      BY <2>4, Zenon DEF RecordFailure, x
  <1>3. /\ e.phase = "RuntimePending" /\ e.condition = {f} /\ e.failure = {f}
        /\ e.lease = {} /\ e.panel = {} /\ e.gateway = {} /\ e.live = {}
        /\ SameRequest(d, e) /\ SameAcceptance(d, e) /\ e.recovery = d.recovery
    BY <1>1, Zenon DEF RecordFailure, ClearRuntimeEvidence, Advance, Snapshot,
                SameRequest, SameAcceptance
  <1> HIDE DEF e
  <1>4. ValidSnapshot(e)
    <2>1. d.preflight # {} /\ d.drain # {} /\ d.activation # {}
      BY <1>1, EvidenceOfPhase, EvidenceCounts, Zenon DEF CanRecordFailure, IsReady
    <2>2. ValidLease(e)
      BY <1>3, Zenon DEF ValidLease
    <2>3. ValidFailure(e)
      <3>1. NotBeforeEvidenceFloor(e, f.at)
        BY <1>3, Zenon DEF CanRecordFailure, NotBeforeEvidenceFloor, SameAcceptance
      <3>2. f.at >= e.requestedAt
        <4>1. PICK a \in d.activation : f.at >= a.at
          BY Zenon DEF CanRecordFailure, NotBeforeEvidenceFloor
        <4>2. a.at \in Nat /\ a.at >= d.requestedAt
          BY <1>1, ActivatedAfterRequest, Zenon
        <4>3. f.at \in Nat /\ d.requestedAt \in Nat
          BY <1>1, Zenon DEF Failure, Snapshot, Time
        <4> QED
          BY <1>3, <4>1, <4>2, <4>3 DEF SameRequest
      <3> QED
        BY <1>3, <3>1, <3>2, Zenon DEF ValidFailure, CanRecordFailure,
                                NotBeforeEvidenceFloor
    <2>4. ValidLive(e) /\ ValidRecovery(e)
      BY <1>1, <1>3, Zenon DEF ValidSnapshot, ValidLive, ValidRecovery, SameRequest,
                        SameAcceptance
    <2>5. ValidPhaseEvidence(e)
      <3>1. EvidenceUpTo(e, 3)
        BY <1>3, <2>1, EvidenceCounts, Zenon DEF SameAcceptance
      <3> QED
        BY <1>3, <3>1, Zenon DEF ValidPhaseEvidence
    <2> QED
      BY <1>1, <1>3, <2>2, <2>3, <2>4, <2>5, AcceptanceKept, Zenon DEF ValidSnapshot
  <1>5. Coherent(e)
    BY <1>3, Zenon DEF Coherent
  <1> QED
    BY <1>2, <1>4, <1>5, Zenon DEF IndInv, e

\* accept_panel_certificate preserves the invariant.
LEMMA AcceptPanelCertificateInv ==
    ASSUME NEW d, IndInv(d), NEW g, NEW c \in PanelCertificate,
           CanAcceptPanelCertificate(d, g, c)
    PROVE  IndInv(AcceptPanelCertificate(d, c))
  <1> DEFINE e == AcceptPanelCertificate(d, c)
  <1>1. d \in Snapshot /\ ValidSnapshot(d) /\ d.phase = "ReconcilingPanels"
    BY Zenon DEF IndInv, CanAcceptPanelCertificate
  <1>2. e \in Snapshot
    <2>1. Advance(d, "AwaitingGatewayReady") \in Snapshot
      BY <1>1, AdvanceType, Zenon DEF Phases
    <2> QED
      BY <2>1, FieldType, OptionOne, Zenon DEF AcceptPanelCertificate
  <1>3. /\ e.phase = "AwaitingGatewayReady" /\ e.panel = {c}
        /\ e.gateway = d.gateway /\ e.live = d.live
        /\ SameRequest(d, e) /\ SameLease(d, e) /\ SameAcceptance(d, e)
        /\ SameHistory(d, e) /\ SamePayload(d, e)
    BY <1>1, Zenon DEF AcceptPanelCertificate, Advance, Snapshot, SameRequest,
                SameLease, SameAcceptance, SameHistory, SamePayload
  <1> HIDE DEF e
  <1>4. EvidenceUpTo(d, 3)
    BY <1>1, EvidenceOfPhase, Zenon
  <1>5. ValidSnapshot(e)
    <2>1. ValidLease(e)
      BY <1>1, <1>3, Zenon DEF ValidSnapshot, ValidLease, IsTerminal, SameRequest,
                        SameLease
    <2>2. ValidFailure(e)
      BY <1>1, <1>3, Zenon DEF ValidSnapshot, ValidFailure, FailureIsCurrent,
                        SameRequest, SameAcceptance, SameHistory
    <2>3. ValidLive(e) /\ ValidRecovery(e)
      <3>1. e.live = {}
        BY <1>3, <1>4, EvidenceCounts, Zenon
      <3> QED
        BY <1>1, <1>3, <3>1, Zenon DEF ValidSnapshot, ValidLive, ValidRecovery,
                          SameRequest, SameAcceptance, SameHistory
    <2>4. \A x \in e.panel : ValidatePanelCertificate(e, x)
      BY <1>3, Zenon DEF CanAcceptPanelCertificate, ValidatePanelCertificate,
                  SameRequest, SameAcceptance, SameHistory
    <2>5. ValidPhaseEvidence(e)
      <3>1. EvidenceUpTo(e, 4)
        BY <1>3, <1>4, EvidenceCounts, Zenon DEF SameAcceptance
      <3> QED
        BY <1>3, <3>1, Zenon DEF ValidPhaseEvidence
    <2>6. e.gateway = {}
      BY <1>3, <1>4, EvidenceCounts, Zenon
    <2> QED
      BY <1>1, <1>3, <2>1, <2>2, <2>3, <2>4, <2>5, <2>6, AcceptanceKept, Zenon
      DEF ValidSnapshot
  <1>6. Coherent(e)
    <2>1. e.condition = {} /\ e.gateway = {}
      BY <1>1, <1>3, <1>4, EvidenceCounts, Zenon DEF IndInv, Coherent, SamePayload
    <2> QED
      BY <2>1, Zenon DEF Coherent, IsBlocked
  <1> QED
    BY <1>2, <1>5, <1>6 DEF IndInv, e

\* certify_live preserves the invariant.
LEMMA CertifyLiveInv ==
    ASSUME NEW d, IndInv(d), NEW g, NEW a \in GatewayReady, NEW at \in Time,
           CanCertifyLive(d, g, a, at)
    PROVE  IndInv(CertifyLive(d, a, at))
  <1> DEFINE e == CertifyLive(d, a, at)
  <1>1. d \in Snapshot /\ ValidSnapshot(d) /\ d.phase = "AwaitingGatewayReady"
    BY Zenon DEF IndInv, CanCertifyLive
  <1>2. EvidenceUpTo(d, 4)
    BY <1>1, EvidenceOfPhase, Zenon
  <1>3. PICK x \in ActivationAttestation : d.activation = {x}
    BY <1>1, <1>2, EvidenceCounts DEF Snapshot, Option
  <1>4. PICK c \in PanelCertificate : d.panel = {c}
    BY <1>1, <1>2, EvidenceCounts DEF Snapshot, Option
  <1> DEFINE l == [generation |-> d.generation, process |-> a.process,
                   activation |-> x, panel |-> c, gateway |-> a, at |-> at]
  <1>5. l \in LiveAttestation
    BY <1>1, <1>3, <1>4, Zenon DEF LiveAttestation, GatewayReady, Snapshot
  <1> DEFINE L == {[generation |-> d.generation, process |-> a.process,
                    activation |-> y, panel |-> z, gateway |-> a, at |-> at] :
                   y \in d.activation, z \in d.panel}
  <1>6. L = {l}
    BY <1>3, <1>4
  <1>7. e \in Snapshot
    <2> DEFINE y == Advance(d, "Live")
    <2>1. y \in Snapshot
      BY <1>1, AdvanceType, Zenon DEF Phases
    <2>2. /\ {a} \in Option(GatewayReady)
          /\ {l} \in Option(LiveAttestation)
          /\ {} \in Option(Lease)
      BY <1>5, OptionOne, OptionEmpty, Zenon
    <2>3. e = [y EXCEPT !.gateway = {a}, !.live = L, !.lease = {}]
      BY DEF CertifyLive
    <2> HIDE DEF y, l, e, L
    <2>4. e = [y EXCEPT !.gateway = {a}, !.live = {l}, !.lease = {}]
      BY <1>6, <2>3, Zenon
    <2>5. [y EXCEPT !.gateway = {a}, !.live = {l}, !.lease = {}] \in Snapshot
      BY <2>1, <2>2, FieldType, Zenon
    <2> QED
      BY <2>4, <2>5, Zenon
  <1>8. /\ e.phase = "Live" /\ e.gateway = {a} /\ e.live = {l} /\ e.lease = {}
        /\ e.panel = {c} /\ e.activation = {x}
        /\ SameRequest(d, e) /\ SameAcceptance(d, e) /\ SameHistory(d, e)
        /\ SamePayload(d, e)
    BY <1>1, <1>3, <1>4, <1>6 DEF CertifyLive, Advance, Snapshot, SameRequest,
                SameAcceptance, SameHistory, SamePayload
  <1>9. /\ l.generation = d.generation /\ l.process = a.process
        /\ l.activation = x /\ l.panel = c /\ l.gateway = a /\ l.at = at
    BY Zenon
  <1>10. /\ a.generation = d.generation /\ a.process = c.process
         /\ a.at >= c.at /\ at >= a.at
    BY <1>4, Zenon DEF CanCertifyLive, ValidateGatewayReady
  <1>11. ValidatePanelCertificate(d, c)
    BY <1>1, <1>4, Zenon DEF ValidSnapshot
  <1> HIDE DEF e, l
  <1>12. ValidSnapshot(e)
    <2>1. ValidLease(e)
      BY <1>8, Zenon DEF ValidLease
    <2>2. ValidFailure(e)
      BY <1>1, <1>8, Zenon DEF ValidSnapshot, ValidFailure, FailureIsCurrent,
                        SameRequest, SameAcceptance, SameHistory
    <2>3. ValidLive(e)
      BY <1>8, <1>9, <1>10, Zenon DEF ValidLive, SameRequest
    <2>4. ValidRecovery(e)
      <3> SUFFICES ASSUME NEW r \in e.recovery
                   PROVE  at >= r.recoveredAt
        BY <1>1, <1>8, <1>9, Zenon DEF ValidSnapshot, ValidRecovery, SameRequest,
                                SameAcceptance, SameHistory
      <3>1. c.at >= r.recoveredAt
        BY <1>8, <1>11, Zenon DEF ValidatePanelCertificate, SameHistory
      <3>2. r.recoveredAt \in Nat
        <4>1. e.recovery \in Option(LiveRecovery)
          BY <1>1, <1>8, Zenon DEF SameHistory, Snapshot
        <4>2. r \in LiveRecovery
          BY <4>1, Zenon DEF Option
        <4> QED
          BY <4>2, Zenon DEF LiveRecovery, Time
      <3>3. c.at \in Nat /\ a.at \in Nat /\ at \in Nat
        BY <1>4, Zenon DEF PanelCertificate, GatewayReady, Time
      <3> QED
        BY <1>10, <3>1, <3>2, <3>3
    <2>5. \A z \in e.panel : ValidatePanelCertificate(e, z)
      BY <1>8, <1>11, Zenon DEF ValidatePanelCertificate, SameRequest,
                         SameAcceptance, SameHistory
    <2>6. \A z \in e.gateway : ValidateGatewayReady(e, z)
      BY <1>8, <1>10, Zenon DEF ValidateGatewayReady, SameRequest
    <2>7. ValidPhaseEvidence(e)
      <3>1. EvidenceUpTo(e, 6)
        BY <1>2, <1>8, EvidenceCounts, Zenon DEF SameAcceptance
      <3> QED
        BY <1>8, <3>1, Zenon DEF ValidPhaseEvidence
    <2> QED
      BY <1>1, <1>8, <2>1, <2>2, <2>3, <2>4, <2>5, <2>6, <2>7, AcceptanceKept, Zenon
      DEF ValidSnapshot
  <1>13. Coherent(e)
    BY <1>1, <1>8, <1>10, Zenon DEF IndInv, Coherent, IsBlocked, SamePayload
  <1> QED
    BY <1>7, <1>12, <1>13, Zenon DEF IndInv, e

\* Losing Live turns the live attestation into a recovery that `restore`
\* accepts, in each of the phases it may leave the deployment in.
LEMMA LoseLiveRecovery ==
    ASSUME NEW d, IndInv(d), d.phase = "Live",
           NEW kind \in {"ServingLeaseExpired", "ServingDisconnected"},
           NEW evidenceAt \in Time, NEW recoveredAt \in Time,
           \A l \in d.live : evidenceAt >= l.at, recoveredAt >= evidenceAt
    PROVE  LET e == LoseLive(d, kind, evidenceAt, recoveredAt) IN
           /\ e \in Snapshot
           /\ e.panel = {} /\ e.gateway = {} /\ e.live = {}
           /\ e.phase = "Live" /\ e.revision = d.revision
           /\ e.condition = {} /\ d.lease = {} /\ e.failure = d.failure
           /\ SameRequest(d, e) /\ SameLease(d, e) /\ SameAcceptance(d, e)
           /\ \A z : (/\ z.phase \in {"RuntimePending", "Superseded"}
                      /\ z.live = {} /\ z.recovery = e.recovery
                      /\ SameRequest(d, z) /\ SameAcceptance(d, z))
                   => ValidRecovery(z)
  <1> DEFINE e == LoseLive(d, kind, evidenceAt, recoveredAt)
  <1>1. d \in Snapshot /\ ValidSnapshot(d)
    BY Zenon DEF IndInv
  <1>2. EvidenceUpTo(d, 6)
    BY <1>1, EvidenceOfPhase, Zenon
  <1>3. PICK l \in LiveAttestation : d.live = {l}
    BY <1>1, <1>2, EvidenceCounts DEF Snapshot, Option
  <1> DEFINE r == [prior |-> l, kind |-> kind, evidenceAt |-> evidenceAt,
                   recoveredAt |-> recoveredAt]
  <1>4. r \in LiveRecovery
    BY <1>3, Zenon DEF LiveRecovery
  <1>5. {[prior |-> y, kind |-> kind, evidenceAt |-> evidenceAt,
          recoveredAt |-> recoveredAt] : y \in d.live} = {r}
    BY <1>3, Zenon
  <1>6. e \in Snapshot
    <2> DEFINE y == ClearRuntimeEvidence(d)
    <2>1. y \in Snapshot
      BY <1>1, FieldType, OptionEmpty, Zenon DEF ClearRuntimeEvidence
    <2>2. {r} \in Option(LiveRecovery)
      BY <1>4, OptionOne, Zenon
    <2>3. e = [y EXCEPT !.recovery = {r}]
      BY <1>5, Zenon DEF LoseLive
    <2> HIDE DEF y, r
    <2>4. \A x \in Option(LiveRecovery) : [y EXCEPT !.recovery = x] \in Snapshot
      BY <2>1, FieldType, Zenon
    <2>5. [y EXCEPT !.recovery = {r}] \in Snapshot
      BY <2>2, <2>4, Zenon
    <2> HIDE DEF e
    <2> QED
      BY <2>3, <2>5, Zenon
  <1>7. /\ e.phase = "Live" /\ e.revision = d.revision /\ e.recovery = {r}
        /\ e.panel = {} /\ e.gateway = {} /\ e.live = {}
        /\ e.condition = d.condition /\ e.failure = d.failure
        /\ SameRequest(d, e) /\ SameLease(d, e) /\ SameAcceptance(d, e)
    BY <1>1, <1>5, Zenon DEF LoseLive, ClearRuntimeEvidence, Snapshot, SameRequest,
                      SameLease, SameAcceptance
  <1>8. d.condition = {} /\ d.lease = {}
    BY <1>1, Zenon DEF IndInv, Coherent, ValidSnapshot, ValidLease, IsTerminal
  <1>9. /\ r.prior = l /\ r.evidenceAt = evidenceAt /\ r.recoveredAt = recoveredAt
    BY Zenon
  <1> HIDE DEF e, r
  <1>10. ASSUME NEW z, z.phase \in {"RuntimePending", "Superseded"},
                z.live = {}, z.recovery = e.recovery,
                SameRequest(d, z), SameAcceptance(d, z)
         PROVE  ValidRecovery(z)
    <2>1. /\ l.generation = d.generation /\ d.activation = {l.activation}
          /\ d.panel = {l.panel} /\ d.gateway = {l.gateway}
          /\ l.process = l.gateway.process /\ l.at >= l.gateway.at
      BY <1>1, <1>3, Zenon DEF ValidSnapshot, ValidLive
    <2>2. /\ l.panel.generation = d.generation /\ l.panel.at >= l.activation.at
          /\ PanelEligible(l.panel.report)
      BY <1>1, <2>1, Zenon DEF ValidSnapshot, ValidatePanelCertificate
    <2>3. /\ l.gateway.generation = d.generation
          /\ l.gateway.process = l.panel.process
      BY <1>1, <2>1, Zenon DEF ValidSnapshot, ValidateGatewayReady
    <2>4. l.gateway.at >= l.panel.at
      BY <2>1, Zenon DEF IndInv, Coherent
    <2>5. evidenceAt >= l.at
      BY <1>3, Zenon
    <2> QED
      BY <1>7, <1>9, <1>10, <2>1, <2>2, <2>3, <2>4, <2>5
      DEF ValidRecovery, SameRequest, SameAcceptance
  <1> QED
    BY <1>6, <1>7, <1>8, <1>10 DEF e

\* recover_live preserves the invariant.
LEMMA RecoverLiveInv ==
    ASSUME NEW d, IndInv(d), NEW q, CanRecoverLive(d, q),
           q.kind \in {"ServingLeaseExpired", "ServingDisconnected"},
           q.evidenceAt \in Time, q.recoveredAt \in Time
    PROVE  IndInv(RecoverLive(d, q))
  <1> DEFINE y == LoseLive(d, q.kind, q.evidenceAt, q.recoveredAt)
             e == RecoverLive(d, q)
  <1>1. d \in Snapshot /\ ValidSnapshot(d) /\ d.phase = "Live"
    BY Zenon DEF IndInv, CanRecoverLive
  <1>2. /\ y \in Snapshot
        /\ y.panel = {} /\ y.gateway = {} /\ y.live = {}
        /\ y.condition = {} /\ d.lease = {} /\ y.failure = d.failure
        /\ SameRequest(d, y) /\ SameLease(d, y) /\ SameAcceptance(d, y)
        /\ \A z : (/\ z.phase \in {"RuntimePending", "Superseded"}
                   /\ z.live = {} /\ z.recovery = y.recovery
                   /\ SameRequest(d, z) /\ SameAcceptance(d, z))
                => ValidRecovery(z)
    BY <1>1, LoseLiveRecovery DEF CanRecoverLive
  <1> HIDE DEF y
  <1>3. e = Advance(y, "RuntimePending")
    BY Zenon DEF RecoverLive, y
  <1>4. e \in Snapshot
    BY <1>2, <1>3, AdvanceType, Zenon DEF Phases
  <1>5. /\ e.phase = "RuntimePending" /\ e.condition = {} /\ e.lease = {}
        /\ e.panel = {} /\ e.gateway = {} /\ e.live = {}
        /\ e.failure = d.failure /\ e.recovery = y.recovery
        /\ SameRequest(d, e) /\ SameAcceptance(d, e)
    BY <1>2, <1>3, Zenon DEF Advance, Snapshot, SameRequest, SameLease, SameAcceptance
  <1> HIDE DEF e
  <1>6. ValidSnapshot(e)
    <2>1. ValidLease(e) /\ ValidLive(e)
      BY <1>5, Zenon DEF ValidLease, ValidLive
    <2>2. ValidFailure(e)
      BY <1>1, <1>5, Zenon DEF ValidSnapshot, ValidFailure, FailureIsCurrent,
                        SameRequest, SameAcceptance
    <2>3. ValidRecovery(e)
      BY <1>2, <1>5, Zenon
    <2>4. ValidPhaseEvidence(e)
      <3>1. EvidenceUpTo(e, 3)
        BY <1>1, <1>5, EvidenceOfPhase, EvidenceCounts, Zenon DEF SameAcceptance
      <3> QED
        BY <1>5, <3>1, Zenon DEF ValidPhaseEvidence
    <2> QED
      BY <1>1, <1>5, <2>1, <2>2, <2>3, <2>4, AcceptanceKept, Zenon DEF ValidSnapshot
  <1>7. Coherent(e)
    BY <1>5, Zenon DEF Coherent
  <1> QED
    BY <1>4, <1>6, <1>7, Zenon DEF IndInv, e

-----------------------------------------------------------------------------
(* Endings and leases.                                                     *)

\* The result of End, field by field.
LEMMA EndFields ==
    ASSUME NEW d \in Snapshot, NEW phase \in {"Superseded", "Cancelled"},
           NEW by \in Option(Successor), NEW at \in Time
    PROVE  LET e == End(d, phase, by, at) IN
           /\ e \in Snapshot
           /\ e.phase = phase /\ e.ending = {[by |-> by, at |-> at]}
           /\ e.condition = {} /\ e.lease = {} /\ e.lastToken = d.lastToken
           /\ SameRequest(d, e) /\ SameAcceptance(d, e)
           /\ SameRuntime(d, e) /\ SameHistory(d, e)
  <1> DEFINE y == Advance(d, phase)
             n == [by |-> by, at |-> at]
             e == End(d, phase, by, at)
  <1>1. y \in Snapshot
    BY AdvanceType, Zenon DEF Phases
  <1>2. /\ {n} \in Option(Ending) /\ {} \in Option(Failure)
        /\ {} \in Option(Lease)
    <2>1. n \in Ending
      BY Zenon DEF Ending
    <2> QED
      BY <2>1, OptionOne, OptionEmpty, Zenon
  <1>3. e = [y EXCEPT !.ending = {n}, !.condition = {}, !.lease = {}]
    BY Zenon DEF End
  <1>4. e \in Snapshot
    <2> HIDE DEF y, n, e
    <2> QED
      BY <1>1, <1>2, <1>3, FieldType, Zenon
  <1>5. /\ e.phase = phase /\ e.ending = {n} /\ e.condition = {}
        /\ e.lease = {} /\ e.lastToken = d.lastToken
        /\ SameRequest(d, e) /\ SameAcceptance(d, e)
        /\ SameRuntime(d, e) /\ SameHistory(d, e)
    BY Zenon DEF End, Advance, Snapshot, SameRequest, SameAcceptance, SameRuntime,
           SameHistory
  <1> QED
    BY <1>4, <1>5, Zenon

\* Ending a deployment that is not terminal preserves the invariant.
LEMMA EndInv ==
    ASSUME NEW d, IndInv(d), ~IsTerminal(d),
           NEW phase \in {"Superseded", "Cancelled"},
           NEW by \in Option(Successor), NEW at \in Time,
           at >= d.requestedAt,
           phase = "Superseded" =>
               \E s \in by : s.generation > d.generation /\ s.id # d.id,
           phase = "Cancelled" => d.recovery = {}
    PROVE  IndInv(End(d, phase, by, at))
  <1> DEFINE e == End(d, phase, by, at)
  <1>1. d \in Snapshot /\ ValidSnapshot(d)
    BY Zenon DEF IndInv
  <1>2. /\ e \in Snapshot
        /\ e.phase = phase /\ e.ending = {[by |-> by, at |-> at]}
        /\ e.condition = {} /\ e.lease = {}
        /\ SameRequest(d, e) /\ SameAcceptance(d, e)
        /\ SameRuntime(d, e) /\ SameHistory(d, e)
    BY <1>1, EndFields
  <1> HIDE DEF e
  <1>3. EvidenceIsPrefix(d)
    <2>1. d.phase \in Phases /\ ~IsTerminal(d)
      BY <1>1, Zenon DEF Snapshot
    <2>2. \/ EvidenceUpTo(d, 0) \/ EvidenceUpTo(d, 1) \/ EvidenceUpTo(d, 2)
          \/ EvidenceUpTo(d, 3) \/ EvidenceUpTo(d, 4)
      BY <1>1, <2>1, EvidenceOfPhase, Zenon DEF Phases, IsTerminal
    <2> QED
      BY <2>2 DEF EvidenceIsPrefix
  <1>4. d.gateway = {} /\ d.live = {}
    <2>1. PICK n \in 0 .. 4 : EvidenceUpTo(d, n)
      BY <1>3, Zenon DEF EvidenceIsPrefix
    <2> QED
      BY <2>1 DEF EvidenceUpTo
  <1>5. ValidSnapshot(e)
    <2>1. ValidLease(e)
      BY <1>2, Zenon DEF ValidLease
    <2>2. ValidFailure(e)
      BY <1>1, <1>2, Zenon DEF ValidSnapshot, ValidFailure, FailureIsCurrent,
                        SameRequest, SameAcceptance, SameHistory
    <2>3. ValidLive(e)
      BY <1>2, <1>4, Zenon DEF ValidLive, SameRuntime
    <2>4. ValidRecovery(e)
      BY <1>1, <1>2, <1>4, Zenon DEF ValidSnapshot, ValidRecovery, SameRequest,
                        SameAcceptance, SameRuntime, SameHistory
    <2>5. \A c \in e.panel : ValidatePanelCertificate(e, c)
      <3>1. \A c \in d.panel : ValidatePanelCertificate(d, c)
        BY <1>1, Zenon DEF ValidSnapshot
      <3> QED
        BY <1>2, <3>1 DEF ValidatePanelCertificate, SameRequest,
                          SameAcceptance, SameRuntime, SameHistory
    <2>6. ValidPhaseEvidence(e)
      <3>1. EvidenceIsPrefix(e)
        BY <1>2, <1>3 DEF EvidenceIsPrefix, EvidenceUpTo, SameAcceptance,
                          SameRuntime
      <3>2. CASE phase = "Superseded"
        <4> DEFINE n == [by |-> by, at |-> at]
        <4>1. n \in e.ending /\ n.by = by /\ n.at = at
          BY <1>2, Zenon
        <4>2. \E s \in n.by : ValidateSupersession(e, s, n.at)
          BY <1>2, <3>2, <4>1, Zenon DEF ValidateSupersession, SameRequest
        <4> QED
          BY <1>2, <3>1, <3>2, <4>1, <4>2, Zenon DEF ValidPhaseEvidence
      <3>3. CASE phase = "Cancelled"
        BY <1>2, <3>1, <3>3 DEF ValidPhaseEvidence, SameRequest
      <3> QED
        BY <3>2, <3>3, Zenon
    <2> QED
      BY <1>1, <1>2, <1>4, <2>1, <2>2, <2>3, <2>4, <2>5, <2>6, AcceptanceKept, Zenon
      DEF ValidSnapshot, SameRuntime
  <1>6. Coherent(e)
    BY <1>2, <1>4, Zenon DEF Coherent, SameRuntime
  <1> QED
    BY <1>2, <1>5, <1>6, Zenon DEF IndInv, e

\* supersede preserves the invariant.
LEMMA SupersedeInv ==
    ASSUME NEW d, IndInv(d), NEW g, NEW by \in Successor, NEW at \in Time,
           CanSupersede(d, g, by, at)
    PROVE  IndInv(Supersede(d, by, at))
  BY EndInv, OptionOne, Zenon DEF CanSupersede, Supersede, ValidateSupersession

\* cancel preserves the invariant.
LEMMA CancelInv ==
    ASSUME NEW d, IndInv(d), NEW g, NEW at \in Time, CanCancel(d, g, at)
    PROVE  IndInv(Cancel(d, at))
  <1>1. ~IsTerminal(d) /\ d.recovery = {}
    BY Zenon DEF CanCancel, IsTerminal, IndInv, ValidSnapshot, ValidRecovery
  <1> QED
    BY <1>1, EndInv, OptionEmpty, Zenon DEF CanCancel, Cancel

\* Superseding the source of a product drain preserves the invariant.
LEMMA SupersedeProductDrainSourceInv ==
    ASSUME NEW d, IndInv(d), NEW by \in Successor, NEW at \in Time,
           NEW ack \in Time, NEW revision,
           CanSupersedeProductDrainSource(d, revision, ack, by, at)
    PROVE  IndInv(SupersedeProductDrainSource(d, ack, by, at))
  <1>1. d \in Snapshot /\ ValidSnapshot(d)
    BY Zenon DEF IndInv
  <1>2. {by} \in Option(Successor)
    BY OptionOne, Zenon
  <1>3. CASE d.phase = "AwaitingGatewayReady"
    BY <1>2, <1>3, EndInv, Zenon
    DEF CanSupersedeProductDrainSource, SupersedeProductDrainSource,
        ValidateSupersession, IsTerminal
  <1>4. CASE d.phase = "Live"
    <2> DEFINE y == LoseLive(d, "ServingDisconnected", ack, at)
               e == End(y, "Superseded", {by}, at)
    <2>1. SupersedeProductDrainSource(d, ack, by, at) = e
      BY <1>4, Zenon DEF SupersedeProductDrainSource
    <2>2. /\ y \in Snapshot
          /\ y.panel = {} /\ y.gateway = {} /\ y.live = {}
          /\ y.failure = d.failure
          /\ SameRequest(d, y) /\ SameAcceptance(d, y)
          /\ \A z : (/\ z.phase \in {"RuntimePending", "Superseded"}
                     /\ z.live = {} /\ z.recovery = y.recovery
                     /\ SameRequest(d, z) /\ SameAcceptance(d, z))
                  => ValidRecovery(z)
      <3>1. \A l \in d.live : ack >= l.at
        BY <1>4, Zenon DEF CanSupersedeProductDrainSource, ProductDrainAcknowledged
      <3>2. at >= ack
        BY Zenon DEF CanSupersedeProductDrainSource
      <3> QED
        BY <1>4, <3>1, <3>2, LoseLiveRecovery
    <2> HIDE DEF y
    <2>3. /\ e \in Snapshot
          /\ e.phase = "Superseded" /\ e.ending = {[by |-> {by}, at |-> at]}
          /\ e.condition = {} /\ e.lease = {}
          /\ e.panel = {} /\ e.gateway = {} /\ e.live = {}
          /\ e.failure = d.failure /\ e.recovery = y.recovery
          /\ SameRequest(d, e) /\ SameAcceptance(d, e)
      <3>1. /\ e \in Snapshot
            /\ e.phase = "Superseded" /\ e.ending = {[by |-> {by}, at |-> at]}
            /\ e.condition = {} /\ e.lease = {}
            /\ SameRequest(y, e) /\ SameAcceptance(y, e)
            /\ SameRuntime(y, e) /\ SameHistory(y, e)
        <4> DEFINE b == {by}
        <4>1. y \in Snapshot /\ at \in Time /\ b \in Option(Successor)
          BY <1>2, <2>2, Zenon
        <4>2. e = End(y, "Superseded", b, at)
          BY Zenon
        <4> HIDE DEF b, e
        <4>3. /\ e \in Snapshot
              /\ e.phase = "Superseded" /\ e.ending = {[by |-> b, at |-> at]}
              /\ e.condition = {} /\ e.lease = {}
              /\ SameRequest(y, e) /\ SameAcceptance(y, e)
              /\ SameRuntime(y, e) /\ SameHistory(y, e)
          BY <4>1, <4>2, EndFields
        <4> QED
          BY <4>3, Zenon DEF b
      <3> HIDE DEF e
      <3> QED
        BY <2>2, <3>1, Zenon DEF SameRequest, SameAcceptance, SameRuntime, SameHistory
    <2> HIDE DEF e
    <2>4. ValidSnapshot(e)
      <3>1. ValidLease(e) /\ ValidLive(e)
        BY <2>3, Zenon DEF ValidLease, ValidLive
      <3>2. ValidFailure(e)
        BY <1>1, <2>3, Zenon DEF ValidSnapshot, ValidFailure, FailureIsCurrent,
                          SameRequest, SameAcceptance
      <3>3. ValidRecovery(e)
        BY <2>2, <2>3, Zenon
      <3>4. ValidPhaseEvidence(e)
        <4> DEFINE n == [by |-> {by}, at |-> at]
        <4>1. n \in e.ending /\ n.by = {by} /\ n.at = at
          BY <2>3, Zenon
        <4>2. \E s \in n.by : ValidateSupersession(e, s, n.at)
          BY <2>3, <4>1, Zenon DEF CanSupersedeProductDrainSource,
                            ValidateSupersession, SameRequest
        <4>3. EvidenceUpTo(e, 3)
          BY <1>1, <1>4, <2>3, EvidenceOfPhase, EvidenceCounts, Zenon
          DEF SameAcceptance
        <4>4. EvidenceIsPrefix(e)
          BY <4>3 DEF EvidenceIsPrefix
        <4> QED
          BY <2>3, <4>1, <4>2, <4>4, Zenon DEF ValidPhaseEvidence
      <3> QED
        BY <1>1, <2>3, <3>1, <3>2, <3>3, <3>4, AcceptanceKept, Zenon DEF ValidSnapshot
    <2>5. Coherent(e)
      BY <2>3, Zenon DEF Coherent
    <2> QED
      BY <2>1, <2>3, <2>4, <2>5, Zenon DEF IndInv
  <1> QED
    BY <1>3, <1>4, Zenon DEF CanSupersedeProductDrainSource, ProductDrainAcknowledged

\* A change of the lease, the revision or a cleared condition alone preserves
\* the invariant when the lease itself is valid.
LEMMA LeaseChangeInv ==
    ASSUME NEW d, IndInv(d), NEW e \in Snapshot,
           e.phase = d.phase, e.ending = d.ending, e.condition \in {d.condition, {}},
           SameRequest(d, e), SameAcceptance(d, e), SameRuntime(d, e),
           SameHistory(d, e), ValidLease(e), IsBlocked(e) => e.lease = {}
    PROVE  IndInv(e)
  <1>1. d \in Snapshot /\ ValidSnapshot(d) /\ Coherent(d)
    BY Zenon DEF IndInv
  <1>2. ValidSnapshot(e)
    <2>1. ValidFailure(e)
      BY <1>1, Zenon DEF ValidSnapshot, ValidFailure, FailureIsCurrent,
                  NotBeforeEvidenceFloor, SameRequest, SameAcceptance,
                  SameHistory
    <2>2. ValidLive(e) /\ ValidRecovery(e)
      BY <1>1, Zenon DEF ValidSnapshot, ValidLive, ValidRecovery, SameRequest,
                  SameAcceptance, SameRuntime, SameHistory
    <2>3. \A c \in e.panel : ValidatePanelCertificate(e, c)
      <3>1. \A c \in d.panel : ValidatePanelCertificate(d, c)
        BY <1>1, Zenon DEF ValidSnapshot
      <3> QED
        BY <3>1 DEF ValidatePanelCertificate, SameRequest, SameAcceptance,
                    SameRuntime, SameHistory
    <2>4. \A a \in e.gateway : ValidateGatewayReady(e, a)
      BY <1>1, Zenon DEF ValidSnapshot, ValidateGatewayReady, SameRequest, SameRuntime
    <2>5. ValidPhaseEvidence(e)
      <3>1. \A n \in 0 .. 6 : EvidenceUpTo(d, n) => EvidenceUpTo(e, n)
        BY Zenon DEF EvidenceUpTo, SameAcceptance, SameRuntime
      <3>2. EvidenceIsPrefix(d) => EvidenceIsPrefix(e)
        BY <3>1 DEF EvidenceIsPrefix
      <3>3. \A s, at : ValidateSupersession(d, s, at)
                          => ValidateSupersession(e, s, at)
        BY Zenon DEF ValidateSupersession, SameRequest
      <3>4. ValidPhaseEvidence(d)
        BY <1>1, Zenon DEF ValidSnapshot
      <3>5. e.failure = d.failure /\ e.requestedAt = d.requestedAt
        BY Zenon DEF SameHistory, SameRequest
      <3> QED
        BY <3>1, <3>2, <3>3, <3>4, <3>5 DEF ValidPhaseEvidence
    <2> QED
      BY <1>1, <2>1, <2>2, <2>3, <2>4, <2>5, AcceptanceKept, Zenon DEF ValidSnapshot
  <1>3. Coherent(e)
    BY <1>1, Zenon DEF Coherent, SameRuntime
  <1> QED
    BY <1>2, <1>3, Zenon DEF IndInv

\* The lease that install_lease writes is valid, and nothing else changes.
LEMMA InstallLeaseFields ==
    ASSUME NEW d \in Snapshot, NEW q, ValidateLeaseRequest(d, q),
           q.controller \in Controllers, q.token \in Nat, q.now \in Time,
           q.expiresAt \in Time
    PROVE  LET e == InstallLease(d, q) IN
           /\ e \in Snapshot /\ ValidLease(e)
           /\ e.phase = d.phase /\ e.ending = d.ending
           /\ e.condition = d.condition
           /\ e.lease # {} /\ e.lastToken > d.lastToken
           /\ SameRequest(d, e) /\ SameAcceptance(d, e) /\ SameRuntime(d, e)
           /\ SameHistory(d, e)
  <1> DEFINE l == [controller |-> q.controller, token |-> q.token,
                   acquiredAt |-> q.now, expiresAt |-> q.expiresAt]
             e == InstallLease(d, q)
  <1>1. l \in Lease /\ {l} \in Option(Lease)
    <2>1. l \in Lease
      BY Zenon DEF Lease
    <2> QED
      BY <2>1, OptionOne, Zenon
  <1>2. /\ d.revision \in Nat /\ d.revision + 1 \in Nat
        /\ d.lastToken \in Nat /\ d.requestedAt \in Nat
    BY DEF Snapshot, Time
  <1>3. e = [d EXCEPT !.lease = {l}, !.lastToken = q.token,
                      !.revision = d.revision + 1]
    BY Zenon DEF InstallLease, Snapshot
  <1>4. l.token = q.token /\ l.acquiredAt = q.now /\ l.expiresAt = q.expiresAt
    BY Zenon
  <1> HIDE DEF l, e
  <1>5. e \in Snapshot
    BY <1>1, <1>2, <1>3, FieldType, Zenon
  <1>6. /\ e.phase = d.phase /\ e.ending = d.ending
        /\ e.condition = d.condition
        /\ e.lease = {l} /\ e.lastToken = q.token
        /\ SameRequest(d, e) /\ SameAcceptance(d, e) /\ SameRuntime(d, e)
        /\ SameHistory(d, e)
    BY <1>3, Zenon DEF Snapshot, SameRequest, SameAcceptance, SameRuntime, SameHistory
  <1>7. q.token > d.lastToken /\ ~IsTerminal(d)
    BY Zenon DEF ValidateLeaseRequest
  <1>8. ValidLease(e)
    <2>1. q.expiresAt > q.now /\ q.now >= d.requestedAt
      BY Zenon DEF ValidateLeaseRequest
    <2>2. q.token # 0
      BY <1>2, <1>7
    <2> QED
      BY <1>4, <1>6, <1>7, <2>1, <2>2, Zenon DEF ValidLease, IsTerminal, SameRequest
  <1> QED
    BY <1>5, <1>6, <1>7, <1>8, Zenon DEF e

\* acquire_lease preserves the invariant.
LEMMA AcquireLeaseInv ==
    ASSUME NEW d, IndInv(d), NEW q, CanAcquireLease(d, q),
           q.controller \in Controllers, q.token \in Nat, q.now \in Time,
           q.expiresAt \in Time
    PROVE  IndInv(AcquireLease(d, q))
  <1> DEFINE e == InstallLease(d, q)
  <1>1. d \in Snapshot /\ ValidateLeaseRequest(d, q) /\ ~IsBlocked(d)
    BY Zenon DEF IndInv, CanAcquireLease
  <1>2. /\ e \in Snapshot /\ ValidLease(e)
        /\ e.phase = d.phase /\ e.ending = d.ending
        /\ e.condition = d.condition
        /\ SameRequest(d, e) /\ SameAcceptance(d, e) /\ SameRuntime(d, e)
        /\ SameHistory(d, e)
    BY <1>1, InstallLeaseFields, Zenon
  <1> HIDE DEF e
  <1>3. ~IsBlocked(e)
    BY <1>1, <1>2, Zenon DEF IsBlocked
  <1>4. IndInv(e)
    BY <1>2, <1>3, LeaseChangeInv, Zenon
  <1> QED
    BY <1>4, Zenon DEF AcquireLease, e

\* recover_blocked preserves the invariant, and leaves the deployment Ready
\* under a new lease with its failure kept for the record.
LEMMA RecoverBlockedInv ==
    ASSUME NEW d, IndInv(d), NEW q, NEW id, CanRecoverBlocked(d, q, id),
           q.controller \in Controllers, q.token \in Nat, q.now \in Time,
           q.expiresAt \in Time
    PROVE  /\ IndInv(RecoverBlocked(d, q))
           /\ IsReady(RecoverBlocked(d, q))
           /\ RecoverBlocked(d, q).lease # {}
           /\ RecoverBlocked(d, q).lastToken > d.lastToken
           /\ RecoverBlocked(d, q).failure = d.condition
  <1> DEFINE x == InstallLease(d, q)
             e == RecoverBlocked(d, q)
  <1>1. /\ d \in Snapshot /\ ValidateLeaseRequest(d, q) /\ IsBlocked(d)
        /\ d.failure = d.condition
    BY Zenon DEF IndInv, CanRecoverBlocked
  <1>2. /\ x \in Snapshot /\ ValidLease(x)
        /\ x.phase = d.phase /\ x.ending = d.ending
        /\ x.condition = d.condition
        /\ x.lease # {} /\ x.lastToken > d.lastToken
        /\ SameRequest(d, x) /\ SameAcceptance(d, x) /\ SameRuntime(d, x)
        /\ SameHistory(d, x)
    BY <1>1, InstallLeaseFields, Zenon
  <1>3. e = [x EXCEPT !.condition = {}]
    BY Zenon DEF RecoverBlocked
  <1> HIDE DEF x, e
  <1>4. e \in Snapshot
    BY <1>2, <1>3, FieldType, OptionEmpty, Zenon
  <1>5. /\ e.phase = d.phase /\ e.ending = d.ending /\ e.condition = {}
        /\ e.lease = x.lease /\ e.lastToken = x.lastToken
        /\ e.requestedAt = x.requestedAt
        /\ SameRequest(d, e) /\ SameAcceptance(d, e) /\ SameRuntime(d, e)
        /\ SameHistory(d, e)
    BY <1>2, <1>3, Zenon
    DEF Snapshot, SameRequest, SameAcceptance, SameRuntime, SameHistory
  <1>6. ValidLease(e)
    BY <1>2, <1>5, Zenon DEF ValidLease, IsTerminal
  <1>7. ~IsBlocked(e) /\ IsReady(e)
    BY <1>1, <1>5, Zenon DEF IsBlocked, IsReady, IndInv, Coherent
  <1>8. IndInv(e)
    BY <1>4, <1>5, <1>6, <1>7, LeaseChangeInv, Zenon
  <1> QED
    BY <1>1, <1>2, <1>5, <1>7, <1>8, Zenon DEF e, SameHistory

\* Cancelling a product drain, which only bumps the revision, preserves the
\* invariant.
LEMMA CancelProductDrainSourceInv ==
    ASSUME NEW d, IndInv(d)
    PROVE  IndInv(CancelProductDrainSource(d))
  <1> DEFINE e == CancelProductDrainSource(d)
  <1>1. d \in Snapshot /\ ValidLease(d) /\ (IsBlocked(d) => d.lease = {})
    BY Zenon DEF IndInv, ValidSnapshot, Coherent
  <1>2. e = [d EXCEPT !.revision = d.revision + 1] /\ d.revision + 1 \in Nat
    BY <1>1 DEF CancelProductDrainSource, Snapshot
  <1>3. e \in Snapshot
    BY <1>1, <1>2, FieldType, Zenon
  <1>4. /\ e.phase = d.phase /\ e.ending = d.ending
        /\ e.condition = d.condition /\ SameLease(d, e)
        /\ SameRequest(d, e) /\ SameAcceptance(d, e) /\ SameRuntime(d, e)
        /\ SameHistory(d, e)
    BY <1>1, <1>2, Zenon DEF Snapshot, SameLease, SameRequest, SameAcceptance,
                      SameRuntime, SameHistory
  <1> HIDE DEF e
  <1>5. ValidLease(e) /\ (IsBlocked(e) => e.lease = {})
    BY <1>1, <1>4, Zenon DEF ValidLease, IsTerminal, IsBlocked, SameLease, SameRequest
  <1>6. IndInv(e)
    BY <1>3, <1>4, <1>5, LeaseChangeInv, Zenon
  <1> QED
    BY <1>6, Zenon DEF e

\* Nobody holds a lease on a Blocked, superseded, cancelled or Live deployment,
\* so no command that `require_guard` protects is accepted there.
LEMMA NoHolder ==
    ASSUME NEW d, IndInv(d), IsBlocked(d) \/ IsTerminal(d), NEW g
    PROVE  ~RequireGuard(d, g)
  BY Zenon DEF IndInv, Coherent, ValidSnapshot, ValidLease, RequireGuard

-----------------------------------------------------------------------------
(* The inductive invariant.                                                *)

\* The evidence a snapshot holds at time t is at most the allowed skew ahead of
\* the clock, and its request and its last recovery are not ahead at all.
Timely(d, t) ==
    /\ d.requestedAt <= t
    /\ \A a \in d.preflight : a.at <= t + Skew /\ a.at <= MaxTime + Skew
    /\ \A a \in d.drain : a.at <= t + Skew /\ a.at <= MaxTime + Skew
    /\ \A a \in d.activation : a.at <= t + Skew /\ a.at <= MaxTime + Skew
    /\ \A l \in d.recovery : l.recoveredAt <= t

\* RetryDiscipline, one step ahead: it holds as soon as the failure is no longer
\* the deployment's condition, or someone holds a lease in spite of it.
RetrySound(r, t) ==
    \A f \in r.snapshot.failure :
        /\ f.disposition = "Blocked" => f.retryAt <= t
        /\ /\ r.snapshot.phase # "Superseded"
           /\ r.snapshot.condition = {} \/ r.snapshot.lease # {}
           => r.attempt > r.failureAttempt /\ f.retryAt <= t

\* What holds of every row of runtime_deployments at time t.
RowSound(r, t) ==
    /\ r \in Row
    /\ IndInv(r.snapshot)
    /\ ValidAttemptProjection(r)
    /\ ValidLastController(r)
    /\ Timely(r.snapshot, t)
    /\ RetrySound(r, t)

\* The unique index of the lane, which a recovered Live deployment re-enters.
OneUnresolved ==
    \A d, e \in DeploymentIds : IsUnresolved(d) /\ IsUnresolved(e) => d = e

\* An attempt that was certified is over: whoever holds a lease on its
\* deployment holds it in a later attempt.
AttestedAttemptsAreOver ==
    \A a \in attestations : \E r \in deployments[a.deployment] :
        /\ a.attempt <= r.attempt
        /\ r.snapshot.lease # {} => a.attempt < r.attempt

\* The phases before the previous runtime is drained.
PreDrain == {"Requested", "PreflightReady", "DrainRequested"}

\* When the lease s ended, or will end at the earliest if nobody heartbeats.
LeaseEnd(s) == IF s.connected THEN s.expiresAt ELSE s.heartbeatAt

\* The runtime that r is to replace is the one in the serving row, and it was
\* served when r was requested.
PreviousOnRecord(d, r) ==
    /\ r.snapshot.previous # {} => serving # {}
    /\ \A s \in serving, p \in r.snapshot.previous :
           /\ s.deployment # d
           /\ s.generation = p.generation
           /\ s.process = p.process
           /\ s.acquiredAt <= r.snapshot.requestedAt
           /\ LeaseEnd(s) >= r.snapshot.requestedAt

\* That stays so until the drain is accepted.
PreviousIsOnRecord ==
    \A d \in DeploymentIds : \A r \in deployments[d] :
        r.snapshot.phase \in PreDrain => PreviousOnRecord(d, r)

\* The row r is the Live deployment that the lease s serves.
CertifiedBy(s, r) ==
    /\ r.snapshot.phase = "Live"
    /\ r.attestation = {s.attestation}
    /\ \A live \in r.snapshot.live : /\ live.gateway.process = s.process
                                    /\ live.gateway.generation = s.generation
    /\ \E a \in attestations : /\ a.deployment = s.deployment
                               /\ a.revision = s.attestation.revision
                               /\ a.attempt = r.attempt

\* The inductive invariant of the lane.
LaneInv ==
    /\ TypeOK
    /\ now <= MaxTime
    /\ \A d \in DeploymentIds : \A r \in deployments[d] : RowSound(r, now)
    /\ \A s \in serving : DrainServingStateIsValid(s)
    /\ \A s \in serving : deployments[s.deployment] # {}
    /\ OneUnresolved
    /\ AttestedAttemptsAreOver
    /\ PreviousIsOnRecord
    /\ ServingIsCertified
    /\ DrainStaysClosed

-----------------------------------------------------------------------------
(* The invariant, conjunct by conjunct.                                    *)

\* The clock and the durations are natural numbers.
LEMMA Durations ==
    ASSUME TypeOK
    PROVE  /\ now \in Nat /\ MaxTime \in Nat /\ Skew \in Nat /\ ReadyAge \in Nat
           /\ ControllerLease \in Nat /\ ControllerLease > 0
           /\ ServingLease \in Nat /\ ServingLease > 0
           /\ RetryDelay \in Nat
  BY DurationAssumption DEF TypeOK, Time

\* A row of a deployment is its only one.
LEMMA OneRow ==
    ASSUME TypeOK, NEW d \in DeploymentIds, NEW r \in deployments[d]
    PROVE  deployments[d] = {r} /\ r \in Row
  BY Zenon DEF TypeOK, Option

\* A row of the serving table is its only one.
LEMMA OneServing ==
    ASSUME TypeOK, NEW s \in serving
    PROVE  serving = {s} /\ s \in ServingLeaseRow
  BY Zenon DEF TypeOK, Option

\* The fields of a row.
LEMMA RowFields ==
    ASSUME NEW r \in Row
    PROVE  /\ r.snapshot \in Snapshot /\ r.attempt \in Nat
           /\ r.failureAttempt \in Nat
           /\ r.lastController \in Option(Controllers)
           /\ r.attestation \in Option(AttestationId)
  BY Zenon DEF Row

\* What a row records stays true as the clock goes on.
LEMMA RowSoundLater ==
    ASSUME NEW r, NEW t \in Nat, NEW u \in Nat, t <= u, RowSound(r, t)
    PROVE  RowSound(r, u)
  <1>1. r.snapshot \in Snapshot
    BY RowFields, Zenon DEF RowSound
  <1>2. Timely(r.snapshot, u)
    <2>1. /\ r.snapshot.requestedAt \in Nat
          /\ \A a \in r.snapshot.preflight : a.at \in Nat
          /\ \A a \in r.snapshot.drain : a.at \in Nat
          /\ \A a \in r.snapshot.activation : a.at \in Nat
          /\ \A l \in r.snapshot.recovery : l.recoveredAt \in Nat
      BY <1>1, Zenon DEF Snapshot, Option, PreflightAttestation, DrainAttestation,
                  ActivationAttestation, LiveRecovery, Time
    <2> QED
      BY <2>1, DurationAssumption DEF RowSound, Timely
  <1>3. RetrySound(r, u)
    <2>1. \A f \in r.snapshot.failure : f.retryAt \in Nat
      BY <1>1, Zenon DEF Snapshot, Option, Failure, Time
    <2> QED
      BY <2>1 DEF RowSound, RetrySound
  <1> QED
    BY <1>2, <1>3, Zenon DEF RowSound

-----------------------------------------------------------------------------
(* The rows.                                                               *)

\* Whoever passes require_guard holds the lease that is on record; the
\* deployment is not terminal, and its last failure has been retried in time.
LEMMA Holder ==
    ASSUME NEW r, NEW t, RowSound(r, t), NEW g, RequireGuard(r.snapshot, g)
    PROVE  /\ ~IsTerminal(r.snapshot)
           /\ r.snapshot.lease # {}
           /\ r.snapshot.lastToken # 0
           /\ r.lastController = {g.controller}
           /\ \A f \in r.snapshot.failure :
                  r.attempt > r.failureAttempt /\ f.retryAt <= t
  <1>1. PICK l \in r.snapshot.lease : l.controller = g.controller
    BY Zenon DEF RequireGuard
  <1>2. ValidLease(r.snapshot)
    BY Zenon DEF RowSound, IndInv, ValidSnapshot
  <1>3. ~IsTerminal(r.snapshot) /\ r.snapshot.lastToken # 0
    BY <1>1, <1>2, Zenon DEF ValidLease
  <1>4. r.lastController = {g.controller}
    BY <1>1, Zenon DEF RowSound, ValidLastController
  <1>5. r.snapshot.phase # "Superseded"
    BY <1>3, Zenon DEF IsTerminal
  <1> QED
    BY <1>1, <1>3, <1>4, <1>5, Zenon DEF RowSound, RetrySound

\* A holder's mutation that keeps the request, the token and the failure on
\* record leaves a sound row, whether it keeps the lease or gives it up.
LEMMA HolderRow ==
    ASSUME NEW r, NEW t, RowSound(r, t), NEW g, RequireGuard(r.snapshot, g),
           r.attempt > 0,
           NEW q \in Row, IndInv(q.snapshot), Timely(q.snapshot, t),
           q.attempt = r.attempt, q.failureAttempt = r.failureAttempt,
           q.lastController = {g.controller},
           q.snapshot.lastToken = r.snapshot.lastToken,
           q.snapshot.lease \in {r.snapshot.lease, {}},
           q.snapshot.failure = r.snapshot.failure
    PROVE  RowSound(q, t)
  <1>1. /\ r.snapshot.lastToken # 0 /\ r.lastController = {g.controller}
        /\ \A f \in r.snapshot.failure :
               r.attempt > r.failureAttempt /\ f.retryAt <= t
    BY Holder, Zenon
  <1>2. ValidAttemptProjection(q)
    <2>1. q.attempt \in Nat /\ q.attempt # 0
      BY RowFields
    <2> QED
      BY <2>1, Zenon DEF RowSound, ValidAttemptProjection
  <1>3. ValidLastController(q)
    BY <1>1, Zenon DEF RowSound, ValidLastController
  <1>4. RetrySound(q, t)
    BY <1>1, Zenon DEF RetrySound
  <1> QED
    BY <1>2, <1>3, <1>4, Zenon DEF RowSound

-----------------------------------------------------------------------------
(* The lane.                                                               *)

\* How a transaction may change a deployment's row: a lease that was not there
\* comes with a later attempt.
AttemptMoves(r, q) ==
    /\ q.attempt >= r.attempt
    /\ q.snapshot.lease # {} => r.snapshot.lease # {} \/ q.attempt > r.attempt

\* A transaction that writes one sound row, and nothing else, preserves the
\* invariant when it respects the lane: no other deployment is unresolved beside
\* the new row, the deployment does not serve, and nobody does once it drained.
LEMMA LaneStep ==
    ASSUME LaneInv, NEW d \in DeploymentIds, NEW q, RowSound(q, now),
           \A r \in deployments[d] : AttemptMoves(r, q),
           \A e \in DeploymentIds \ {d} : ~IsUnresolved(e) \/ IsTerminal(q.snapshot),
           \A s \in serving : s.deployment = d => ~IsServing(s),
           q.snapshot.drain # {} /\ ~IsTerminal(q.snapshot) =>
               \A s \in serving : ~IsServing(s),
           q.snapshot.phase \in PreDrain => PreviousOnRecord(d, q),
           Persist(d, q), UNCHANGED <<now, authority, serving, attestations>>
    PROVE  LaneInv'
  <1>1. TypeOK /\ q \in Row
    BY Zenon DEF LaneInv, RowSound
  <1>2. /\ deployments' = [deployments EXCEPT ![d] = {q}]
        /\ deployments'[d] = {q}
        /\ \A e \in DeploymentIds \ {d} : deployments'[e] = deployments[e]
    BY <1>1, Zenon DEF Persist, TypeOK
  <1>3. TypeOK'
    <2>1. {q} \in Option(Row)
      BY <1>1, OptionOne, Zenon
    <2> QED
      BY <1>1, <1>2, <2>1, Zenon DEF TypeOK
  <1>4. \A e \in DeploymentIds : \A x \in deployments'[e] : RowSound(x, now)'
    BY <1>2, Zenon DEF LaneInv
  <1>5. \A s \in serving' : DrainServingStateIsValid(s)'
    BY Zenon DEF LaneInv, DrainServingStateIsValid
  <1>6. \A s \in serving : s.deployment \in DeploymentIds
    BY <1>1, Zenon DEF TypeOK, Option, ServingLeaseRow
  <1>7. \A s \in serving' : deployments'[s.deployment] # {}
    BY <1>2, <1>6, Zenon DEF LaneInv
  <1>8. \A s : IsServing(s)' <=> IsServing(s)
    BY Zenon DEF IsServing
  <1>9. OneUnresolved'
    <2>1. \A e \in DeploymentIds \ {d} : IsUnresolved(e)' <=> IsUnresolved(e)
      BY <1>2, Zenon DEF IsUnresolved
    <2>2. IsTerminal(q.snapshot) => ~IsUnresolved(d)'
      BY <1>2, Zenon DEF IsUnresolved
    <2> QED
      BY <2>1, <2>2, Zenon DEF LaneInv, OneUnresolved
  <1>10. AttestedAttemptsAreOver'
    <2> SUFFICES ASSUME NEW a \in attestations
                 PROVE  \E x \in deployments'[a.deployment] :
                            /\ a.attempt <= x.attempt
                            /\ x.snapshot.lease # {} => a.attempt < x.attempt
      BY Zenon DEF AttestedAttemptsAreOver
    <2>1. a.deployment \in DeploymentIds /\ a.attempt \in Nat
      BY <1>1, Zenon DEF TypeOK
    <2>2. PICK x \in deployments[a.deployment] :
              /\ a.attempt <= x.attempt
              /\ x.snapshot.lease # {} => a.attempt < x.attempt
      BY Zenon DEF LaneInv, AttestedAttemptsAreOver
    <2>3. CASE a.deployment = d
      <3>1. x.attempt \in Nat /\ q.attempt \in Nat /\ AttemptMoves(x, q)
        BY <1>1, <2>2, <2>3, OneRow, RowFields, Zenon
      <3> QED
        BY <1>2, <2>1, <2>2, <2>3, <3>1 DEF AttemptMoves
    <2>4. CASE a.deployment # d
      BY <1>2, <2>1, <2>2, <2>4, Zenon
    <2> QED
      BY <2>3, <2>4, Zenon
  <1>11. PreviousIsOnRecord'
    <2>1. \A e, x : PreviousOnRecord(e, x)' <=> PreviousOnRecord(e, x)
      BY Zenon DEF PreviousOnRecord, LeaseEnd
    <2> QED
      BY <1>2, <2>1, Zenon DEF LaneInv, PreviousIsOnRecord
  <1>12. ServingIsCertified'
    <2>1. SUFFICES ASSUME NEW s \in serving, IsServing(s)
                   PROVE  \E x \in deployments[s.deployment] : CertifiedBy(s, x)'
      <3>1. \A s \in serving : IsServing(s) =>
                deployments'[s.deployment] = deployments[s.deployment]
        BY <1>2, <1>6, Zenon
      <3> QED
        BY <1>8, <2>1, <3>1, Zenon DEF ServingIsCertified, CertifiedBy
    <2>2. PICK x \in deployments[s.deployment] : CertifiedBy(s, x)
      BY <2>1, Zenon DEF LaneInv, ServingIsCertified, CertifiedBy
    <2>3. CertifiedBy(s, x)'
      BY <2>2, Zenon DEF CertifiedBy
    <2> QED
      BY <2>3, Zenon
  <1>13. DrainStaysClosed'
    <2> SUFFICES ASSUME NEW e \in DeploymentIds, NEW x \in deployments'[e],
                        x.snapshot.drain # {}, ~IsTerminal(x.snapshot)
                 PROVE  \A s \in serving : ~IsServing(s)
      BY <1>8, Zenon DEF DrainStaysClosed
    <2>1. CASE e = d
      BY <1>2, <2>1, Zenon
    <2>2. CASE e # d
      BY <1>2, <2>2, Zenon DEF LaneInv, DrainStaysClosed
    <2> QED
      BY <2>1, <2>2, Zenon
  <1> QED
    BY <1>3, <1>4, <1>5, <1>7, <1>9, <1>10, <1>11, <1>12, <1>13, Zenon DEF LaneInv

\* How a transaction may change the row of an unresolved deployment: moreover it
\* keeps what the deployment replaces, and undoes no phase.
RowMoves(r, q) ==
    /\ AttemptMoves(r, q)
    /\ q.snapshot.previous = r.snapshot.previous
    /\ q.snapshot.requestedAt = r.snapshot.requestedAt
    /\ q.snapshot.phase \in PreDrain => r.snapshot.phase \in PreDrain

\* A transaction that writes a sound row over an unresolved one, and nothing
\* else, preserves the invariant, provided nobody serves when it adds the drain.
LEMMA RowStep ==
    ASSUME LaneInv, NEW d \in DeploymentIds, NEW r \in deployments[d],
           ~IsTerminal(r.snapshot), NEW q, RowSound(q, now), RowMoves(r, q),
           q.snapshot.drain # {} =>
               r.snapshot.drain # {} \/ \A s \in serving : ~IsServing(s),
           Persist(d, q), UNCHANGED <<now, authority, serving, attestations>>
    PROVE  LaneInv'
  <1>1. TypeOK /\ deployments[d] = {r}
    BY OneRow, Zenon DEF LaneInv
  <1>2. \A e \in DeploymentIds \ {d} : ~IsUnresolved(e)
    BY <1>1, Zenon DEF LaneInv, OneUnresolved, IsUnresolved
  <1>3. \A s \in serving : s.deployment = d => ~IsServing(s)
    BY <1>1, Zenon DEF LaneInv, ServingIsCertified, IsTerminal
  <1>4. q.snapshot.drain # {} => \A s \in serving : ~IsServing(s)
    BY Zenon DEF LaneInv, DrainStaysClosed
  <1>5. q.snapshot.phase \in PreDrain => PreviousOnRecord(d, q)
    <2>1. r.snapshot.phase \in PreDrain => PreviousOnRecord(d, r)
      BY Zenon DEF LaneInv, PreviousIsOnRecord
    <2> QED
      BY <2>1, Zenon DEF PreviousOnRecord, RowMoves
  <1>6. \A x \in deployments[d] : AttemptMoves(x, q)
    BY <1>1, Zenon DEF RowMoves
  <1> QED
    BY <1>2, <1>3, <1>4, <1>5, <1>6, LaneStep, Zenon

-----------------------------------------------------------------------------
(* The mutations of a lease holder.                                        *)

\* What a session presents, against the row it is for.
LEMMA SessionFields ==
    ASSUME NEW r, NEW s \in Sessions(r)
    PROVE  /\ s.controller \in Controllers
           /\ Guard(r, s).controller = s.controller
           /\ Guard(r, s).now = now
  BY Zenon DEF Sessions, Guard

\* The times a holder may attach to its evidence.
LEMMA EvidenceTime ==
    ASSUME TypeOK, NEW at \in EvidenceTimes
    PROVE  at \in Time /\ at <= now + Skew /\ at <= MaxTime + Skew
  BY Durations DEF EvidenceTimes, Time

\* The times of gateway readiness are among them.
LEMMA ReadyTime == \A at \in ReadyTimes : at \in EvidenceTimes
  BY Zenon DEF ReadyTimes

\* A guarded mutation whose result keeps the request, the token and the failure
\* on record preserves the invariant.
LEMMA HolderMutation ==
    ASSUME LaneInv, NEW d \in DeploymentIds, NEW r \in deployments[d],
           NEW s \in Sessions(r), CanExecute(d, r, s),
           RequireGuard(r.snapshot, Guard(r, s)),
           NEW e, IndInv(e), Timely(e, now), SameRequest(r.snapshot, e),
           e.lastToken = r.snapshot.lastToken,
           e.lease \in {r.snapshot.lease, {}},
           e.failure = r.snapshot.failure,
           e.phase \in PreDrain => r.snapshot.phase \in PreDrain,
           e.drain # {} =>
               r.snapshot.drain # {} \/ \A x \in serving : ~IsServing(x),
           MutatesTo(d, r, s, e)
    PROVE  LaneInv'
  <1> DEFINE q == Mutated(r, s, e)
  <1>1. /\ TypeOK /\ RowSound(r, now) /\ r \in Row /\ r.attempt \in Nat
        /\ r.attempt > 0
    BY RowFields, Zenon DEF LaneInv, RowSound, CanExecute
  <1>2. e \in Snapshot /\ {s.controller} \in Option(Controllers)
    BY SessionFields, OptionOne, Zenon DEF IndInv
  <1>3. /\ q \in Row /\ q.snapshot = e /\ q.attempt = r.attempt
        /\ q.failureAttempt = r.failureAttempt
        /\ q.lastController = {s.controller}
    BY <1>1, <1>2, Zenon DEF Mutated, Row
  <1>4. Persist(d, q) /\ UNCHANGED <<now, authority, serving, attestations>>
    BY Zenon DEF MutatesTo
  <1> HIDE DEF q
  <1>5. RowSound(q, now)
    BY <1>1, <1>3, HolderRow, SessionFields
  <1>6. ~IsTerminal(r.snapshot) /\ r.snapshot.lease # {}
    BY <1>1, Holder, Zenon
  <1>7. RowMoves(r, q)
    BY <1>1, <1>3, <1>6 DEF RowMoves, AttemptMoves, SameRequest
  <1> QED
    BY <1>3, <1>4, <1>5, <1>6, <1>7, RowStep, Zenon

\* accept_preflight leaves a sound lane.
LEMMA AcceptPreflightStep ==
    ASSUME LaneInv, NEW d \in DeploymentIds, NEW r \in deployments[d],
           NEW s \in Sessions(r), CanExecute(d, r, s), MutateAcceptPreflight(d, r, s)
    PROVE  LaneInv'
  <1>1. TypeOK /\ RowSound(r, now) /\ IndInv(r.snapshot) /\ r.snapshot \in Snapshot
    BY Zenon DEF LaneInv, RowSound, IndInv
  <1>2. PICK at \in EvidenceTimes :
            /\ CanAcceptPreflight(r.snapshot, Guard(r, s), Observe(r, at))
            /\ MutatesTo(d, r, s, AcceptPreflight(r.snapshot, Observe(r, at)))
    BY Zenon DEF MutateAcceptPreflight
  <1> DEFINE a == Observe(r, at)
             e == AcceptPreflight(r.snapshot, a)
  <1>3. /\ a \in PreflightAttestation /\ a.at = at
        /\ at <= now + Skew /\ at <= MaxTime + Skew
    BY <1>1, EvidenceTime, Zenon DEF Observe, PreflightAttestation, Snapshot
  <1> HIDE DEF a
  <1>4. CanAcceptPreflight(r.snapshot, Guard(r, s), a) /\ MutatesTo(d, r, s, e)
    BY <1>2, Zenon DEF a
  <1>5. IndInv(e)
    BY <1>1, <1>3, <1>4, AcceptPreflightInv, Zenon
  <1>6. /\ e.phase = "PreflightReady" /\ e.preflight = {a}
        /\ e.drain = r.snapshot.drain /\ e.activation = r.snapshot.activation
        /\ SameRequest(r.snapshot, e) /\ SameLease(r.snapshot, e)
        /\ SameHistory(r.snapshot, e)
    BY <1>1, Zenon DEF AcceptPreflight, Advance, Snapshot, SameRequest, SameLease, SameHistory
  <1> HIDE DEF e
  <1>7. Timely(e, now)
    BY <1>1, <1>3, <1>6, Zenon DEF RowSound, Timely, SameRequest, SameHistory
  <1>8. /\ RequireGuard(r.snapshot, Guard(r, s))
        /\ r.snapshot.phase = "Requested"
    BY <1>4, Zenon DEF CanAcceptPreflight
  <1> QED
    BY <1>4, <1>5, <1>6, <1>7, <1>8, HolderMutation, Zenon
    DEF SameLease, SameHistory, PreDrain

\* request_drain leaves a sound lane.
LEMMA RequestDrainStep ==
    ASSUME LaneInv, NEW d \in DeploymentIds, NEW r \in deployments[d],
           NEW s \in Sessions(r), CanExecute(d, r, s), MutateRequestDrain(d, r, s)
    PROVE  LaneInv'
  <1>1. TypeOK /\ RowSound(r, now) /\ IndInv(r.snapshot) /\ r.snapshot \in Snapshot
    BY Zenon DEF LaneInv, RowSound, IndInv
  <1> DEFINE e == RequestDrain(r.snapshot)
  <1>2. CanRequestDrain(r.snapshot, Guard(r, s)) /\ MutatesTo(d, r, s, e)
    BY Zenon DEF MutateRequestDrain
  <1>3. IndInv(e)
    BY <1>1, <1>2, RequestDrainInv, Zenon
  <1>4. /\ e.phase = "DrainRequested"
        /\ SameRequest(r.snapshot, e) /\ SameLease(r.snapshot, e)
        /\ SameAcceptance(r.snapshot, e) /\ SameHistory(r.snapshot, e)
    BY <1>1, Zenon DEF RequestDrain, Advance, Snapshot, SameRequest, SameLease,
                SameAcceptance, SameHistory
  <1> HIDE DEF e
  <1>5. Timely(e, now)
    BY <1>1, <1>4, Zenon DEF RowSound, Timely, SameRequest, SameAcceptance, SameHistory
  <1>6. RequireGuard(r.snapshot, Guard(r, s)) /\ r.snapshot.phase = "PreflightReady"
    BY <1>2, Zenon DEF CanRequestDrain
  <1> QED
    BY <1>2, <1>3, <1>4, <1>5, <1>6, HolderMutation, Zenon
    DEF SameLease, SameAcceptance, SameHistory, PreDrain

\* accept_drain leaves a sound lane: assert_accept_drain_previous_serving found
\* the lease of the serving row closed.
LEMMA AcceptDrainStep ==
    ASSUME LaneInv, NEW d \in DeploymentIds, NEW r \in deployments[d],
           NEW s \in Sessions(r), CanExecute(d, r, s), MutateAcceptDrain(d, r, s)
    PROVE  LaneInv'
  <1>1. TypeOK /\ RowSound(r, now) /\ IndInv(r.snapshot) /\ r.snapshot \in Snapshot
    BY Zenon DEF LaneInv, RowSound, IndInv
  <1>2. PICK at \in EvidenceTimes :
            /\ PreviousServingIsClosed(d, r, at)
            /\ CanAcceptDrain(r.snapshot, Guard(r, s), Observe(r, at))
            /\ MutatesTo(d, r, s, AcceptDrain(r.snapshot, Observe(r, at)))
    BY Zenon DEF MutateAcceptDrain
  <1> DEFINE a == Observe(r, at)
             e == AcceptDrain(r.snapshot, a)
  <1>3. /\ a \in DrainAttestation /\ a.at = at
        /\ at <= now + Skew /\ at <= MaxTime + Skew
    BY <1>1, EvidenceTime, Zenon DEF Observe, DrainAttestation, Snapshot
  <1> HIDE DEF a
  <1>4. CanAcceptDrain(r.snapshot, Guard(r, s), a) /\ MutatesTo(d, r, s, e)
    BY <1>2, Zenon DEF a
  <1>5. IndInv(e)
    BY <1>1, <1>3, <1>4, AcceptDrainInv, Zenon
  <1>6. /\ e.phase = "Drained" /\ e.drain = {a}
        /\ e.preflight = r.snapshot.preflight
        /\ e.activation = r.snapshot.activation
        /\ SameRequest(r.snapshot, e) /\ SameLease(r.snapshot, e)
        /\ SameHistory(r.snapshot, e)
    BY <1>1, Zenon DEF AcceptDrain, Advance, Snapshot, SameRequest, SameLease, SameHistory
  <1> HIDE DEF e
  <1>7. Timely(e, now)
    BY <1>1, <1>3, <1>6, Zenon DEF RowSound, Timely, SameRequest, SameHistory
  <1>8. /\ RequireGuard(r.snapshot, Guard(r, s))
        /\ r.snapshot.phase = "DrainRequested"
    BY <1>4, Zenon DEF CanAcceptDrain
  <1>9. \A x \in serving : ~IsServing(x)
    <2> SUFFICES ASSUME NEW x \in serving PROVE ~IsServing(x)
      BY Zenon
    <2>1. x.expiresAt \in Nat /\ now \in Nat
      BY <1>1, OneServing, Zenon DEF TypeOK, ServingLeaseRow, Time
    <2>2. ClosureBoundary(x) # {}
      BY <1>2, Zenon DEF PreviousServingIsClosed
    <2> QED
      BY <2>1, <2>2 DEF ClosureBoundary, IsServing
  <1> QED
    BY <1>4, <1>5, <1>6, <1>7, <1>8, <1>9, HolderMutation, Zenon
    DEF SameLease, SameHistory, PreDrain

\* begin_activation leaves a sound lane.
LEMMA BeginActivationStep ==
    ASSUME LaneInv, NEW d \in DeploymentIds, NEW r \in deployments[d],
           NEW s \in Sessions(r), CanExecute(d, r, s), MutateBeginActivation(d, r, s)
    PROVE  LaneInv'
  <1>1. TypeOK /\ RowSound(r, now) /\ IndInv(r.snapshot) /\ r.snapshot \in Snapshot
    BY Zenon DEF LaneInv, RowSound, IndInv
  <1> DEFINE e == BeginActivation(r.snapshot)
  <1>2. CanBeginActivation(r.snapshot, Guard(r, s)) /\ MutatesTo(d, r, s, e)
    BY Zenon DEF MutateBeginActivation
  <1>3. IndInv(e)
    BY <1>1, <1>2, BeginActivationInv, Zenon
  <1>4. /\ e.phase = "ActivationApplying"
        /\ SameRequest(r.snapshot, e) /\ SameLease(r.snapshot, e)
        /\ SameAcceptance(r.snapshot, e) /\ SameHistory(r.snapshot, e)
    BY <1>1, Zenon DEF BeginActivation, Advance, Snapshot, SameRequest, SameLease,
                SameAcceptance, SameHistory
  <1> HIDE DEF e
  <1>5. Timely(e, now)
    BY <1>1, <1>4, Zenon DEF RowSound, Timely, SameRequest, SameAcceptance, SameHistory
  <1>6. RequireGuard(r.snapshot, Guard(r, s))
    BY <1>2, Zenon DEF CanBeginActivation
  <1> QED
    BY <1>2, <1>3, <1>4, <1>5, <1>6, HolderMutation, Zenon
    DEF SameLease, SameAcceptance, SameHistory, PreDrain

\* accept_activation leaves a sound lane.
LEMMA AcceptActivationStep ==
    ASSUME LaneInv, NEW d \in DeploymentIds, NEW r \in deployments[d],
           NEW s \in Sessions(r), CanExecute(d, r, s), MutateAcceptActivation(d, r, s)
    PROVE  LaneInv'
  <1>1. TypeOK /\ RowSound(r, now) /\ IndInv(r.snapshot) /\ r.snapshot \in Snapshot
    BY Zenon DEF LaneInv, RowSound, IndInv
  <1>2. PICK at \in EvidenceTimes :
            /\ CanAcceptActivation(r.snapshot, Guard(r, s), Attest(r, at))
            /\ MutatesTo(d, r, s, AcceptActivation(r.snapshot, Attest(r, at)))
    BY Zenon DEF MutateAcceptActivation
  <1> DEFINE a == Attest(r, at)
             e == AcceptActivation(r.snapshot, a)
  <1>3. /\ a \in ActivationAttestation /\ a.at = at
        /\ at <= now + Skew /\ at <= MaxTime + Skew
    BY <1>1, EvidenceTime, Zenon DEF Attest, ActivationAttestation, Snapshot
  <1> HIDE DEF a
  <1>4. CanAcceptActivation(r.snapshot, Guard(r, s), a) /\ MutatesTo(d, r, s, e)
    BY <1>2, Zenon DEF a
  <1>5. IndInv(e)
    BY <1>1, <1>3, <1>4, AcceptActivationInv, Zenon
  <1>6. /\ e.phase = "RuntimePending" /\ e.activation = {a}
        /\ e.preflight = r.snapshot.preflight /\ e.drain = r.snapshot.drain
        /\ SameRequest(r.snapshot, e) /\ SameLease(r.snapshot, e)
        /\ SameHistory(r.snapshot, e)
    BY <1>1, Zenon DEF AcceptActivation, Advance, Snapshot, SameRequest, SameLease, SameHistory
  <1> HIDE DEF e
  <1>7. Timely(e, now)
    BY <1>1, <1>3, <1>6, Zenon DEF RowSound, Timely, SameRequest, SameHistory
  <1>8. /\ RequireGuard(r.snapshot, Guard(r, s))
        /\ r.snapshot.phase = "ActivationApplying"
    BY <1>4, Zenon DEF CanAcceptActivation
  <1> QED
    BY <1>4, <1>5, <1>6, <1>7, <1>8, HolderMutation, Zenon
    DEF SameLease, SameHistory, PreDrain

\* resume_runtime_pending leaves a sound lane.
LEMMA ResumeRuntimePendingStep ==
    ASSUME LaneInv, NEW d \in DeploymentIds, NEW r \in deployments[d],
           NEW s \in Sessions(r), CanExecute(d, r, s), MutateResumeRuntimePending(d, r, s)
    PROVE  LaneInv'
  <1>1. TypeOK /\ RowSound(r, now) /\ IndInv(r.snapshot) /\ r.snapshot \in Snapshot
    BY Zenon DEF LaneInv, RowSound, IndInv
  <1> DEFINE e == ResumeRuntimePending(r.snapshot)
  <1>2. CanResumeRuntimePending(r.snapshot, Guard(r, s)) /\ MutatesTo(d, r, s, e)
    BY Zenon DEF MutateResumeRuntimePending
  <1>3. IndInv(e)
    BY <1>1, <1>2, ResumeRuntimePendingInv, Zenon
  <1>4. /\ e.phase = "RuntimePending"
        /\ SameRequest(r.snapshot, e) /\ SameLease(r.snapshot, e)
        /\ SameAcceptance(r.snapshot, e) /\ SameHistory(r.snapshot, e)
    BY <1>1, Zenon DEF ResumeRuntimePending, Advance, Snapshot, SameRequest, SameLease,
                SameAcceptance, SameHistory
  <1> HIDE DEF e
  <1>5. Timely(e, now)
    BY <1>1, <1>4, Zenon DEF RowSound, Timely, SameRequest, SameAcceptance, SameHistory
  <1>6. RequireGuard(r.snapshot, Guard(r, s))
    BY <1>2, Zenon DEF CanResumeRuntimePending
  <1> QED
    BY <1>2, <1>3, <1>4, <1>5, <1>6, HolderMutation, Zenon
    DEF SameLease, SameAcceptance, SameHistory, PreDrain

\* begin_panel_reconciliation leaves a sound lane.
LEMMA BeginPanelReconciliationStep ==
    ASSUME LaneInv, NEW d \in DeploymentIds, NEW r \in deployments[d],
           NEW s \in Sessions(r), CanExecute(d, r, s), MutateBeginPanelReconciliation(d, r, s)
    PROVE  LaneInv'
  <1>1. TypeOK /\ RowSound(r, now) /\ IndInv(r.snapshot) /\ r.snapshot \in Snapshot
    BY Zenon DEF LaneInv, RowSound, IndInv
  <1> DEFINE e == BeginPanelReconciliation(r.snapshot)
  <1>2. CanBeginPanelReconciliation(r.snapshot, Guard(r, s)) /\ MutatesTo(d, r, s, e)
    BY Zenon DEF MutateBeginPanelReconciliation
  <1>3. IndInv(e)
    BY <1>1, <1>2, BeginPanelReconciliationInv, Zenon
  <1>4. /\ e.phase = "ReconcilingPanels"
        /\ SameRequest(r.snapshot, e) /\ SameLease(r.snapshot, e)
        /\ SameAcceptance(r.snapshot, e) /\ SameHistory(r.snapshot, e)
    BY <1>1, Zenon DEF BeginPanelReconciliation, Advance, Snapshot, SameRequest, SameLease,
                SameAcceptance, SameHistory
  <1> HIDE DEF e
  <1>5. Timely(e, now)
    BY <1>1, <1>4, Zenon DEF RowSound, Timely, SameRequest, SameAcceptance, SameHistory
  <1>6. RequireGuard(r.snapshot, Guard(r, s))
    BY <1>2, Zenon DEF CanBeginPanelReconciliation
  <1> QED
    BY <1>2, <1>3, <1>4, <1>5, <1>6, HolderMutation, Zenon
    DEF SameLease, SameAcceptance, SameHistory, PreDrain

\* accept_panel_certificate leaves a sound lane.
LEMMA AcceptPanelCertificateStep ==
    ASSUME LaneInv, NEW d \in DeploymentIds, NEW r \in deployments[d],
           NEW s \in Sessions(r), CanExecute(d, r, s),
           MutateAcceptPanelCertificate(d, r, s)
    PROVE  LaneInv'
  <1>1. TypeOK /\ RowSound(r, now) /\ IndInv(r.snapshot) /\ r.snapshot \in Snapshot
    BY Zenon DEF LaneInv, RowSound, IndInv
  <1> DEFINE C(process, report, at) ==
                 [generation |-> r.snapshot.generation, process |-> process,
                  report |-> report, at |-> at]
  <1>2. PICK at \in EvidenceTimes, process \in Processes, report \in Reports :
            /\ CanAcceptPanelCertificate(r.snapshot, Guard(r, s),
                                         C(process, report, at))
            /\ MutatesTo(d, r, s, AcceptPanelCertificate(r.snapshot,
                                         C(process, report, at)))
    BY Zenon DEF MutateAcceptPanelCertificate
  <1> DEFINE c == C(process, report, at)
             e == AcceptPanelCertificate(r.snapshot, c)
  <1>3. c \in PanelCertificate
    BY <1>1, EvidenceTime, Zenon DEF PanelCertificate, Snapshot
  <1>4. /\ CanAcceptPanelCertificate(r.snapshot, Guard(r, s), c)
        /\ MutatesTo(d, r, s, e)
    BY <1>2, Zenon
  <1> HIDE DEF c
  <1>5. IndInv(e)
    BY <1>1, <1>3, <1>4, AcceptPanelCertificateInv, Zenon
  <1>6. /\ e.phase = "AwaitingGatewayReady"
        /\ SameRequest(r.snapshot, e) /\ SameLease(r.snapshot, e)
        /\ SameAcceptance(r.snapshot, e) /\ SameHistory(r.snapshot, e)
    BY <1>1, Zenon DEF AcceptPanelCertificate, Advance, Snapshot, SameRequest,
                SameLease, SameAcceptance, SameHistory
  <1> HIDE DEF e
  <1>7. Timely(e, now)
    BY <1>1, <1>6, Zenon DEF RowSound, Timely, SameRequest, SameAcceptance, SameHistory
  <1>8. RequireGuard(r.snapshot, Guard(r, s))
    BY <1>4, Zenon DEF CanAcceptPanelCertificate
  <1> QED
    BY <1>4, <1>5, <1>6, <1>7, <1>8, HolderMutation, Zenon
    DEF SameLease, SameAcceptance, SameHistory, PreDrain

\* Both endings leave a sound lane.
LEMMA EndStep ==
    ASSUME LaneInv, NEW d \in DeploymentIds, NEW r \in deployments[d],
           NEW s \in Sessions(r), CanExecute(d, r, s),
           RequireGuard(r.snapshot, Guard(r, s)),
           NEW phase \in {"Superseded", "Cancelled"},
           NEW by \in Option(Successor),
           IndInv(End(r.snapshot, phase, by, now)),
           MutatesTo(d, r, s, End(r.snapshot, phase, by, now))
    PROVE  LaneInv'
  <1> DEFINE e == End(r.snapshot, phase, by, now)
  <1>1. /\ TypeOK /\ RowSound(r, now) /\ r.snapshot \in Snapshot
        /\ now \in Time
    BY Zenon DEF LaneInv, RowSound, IndInv, TypeOK
  <1>2. /\ e.phase = phase /\ e.lease = {}
        /\ e.lastToken = r.snapshot.lastToken
        /\ SameRequest(r.snapshot, e) /\ SameAcceptance(r.snapshot, e)
        /\ SameHistory(r.snapshot, e)
    BY <1>1, EndFields
  <1>3. IndInv(e) /\ MutatesTo(d, r, s, e)
    BY Zenon
  <1> HIDE DEF e
  <1>4. Timely(e, now)
    BY <1>1, <1>2, Zenon DEF RowSound, Timely, SameRequest, SameAcceptance, SameHistory
  <1> QED
    BY <1>2, <1>3, <1>4, HolderMutation, Zenon
    DEF SameAcceptance, SameHistory, PreDrain

\* supersede leaves a sound lane.
LEMMA SupersedeStep ==
    ASSUME LaneInv, NEW d \in DeploymentIds, NEW r \in deployments[d],
           NEW s \in Sessions(r), CanExecute(d, r, s), MutateSupersede(d, r, s)
    PROVE  LaneInv'
  <1>1. IndInv(r.snapshot) /\ now \in Time
    BY Zenon DEF LaneInv, RowSound, TypeOK
  <1> DEFINE B(x) == [id |-> x, generation |-> GenerationOf[x]]
  <1>2. PICK x \in DeploymentIds :
            /\ CanSupersede(r.snapshot, Guard(r, s), B(x), now)
            /\ MutatesTo(d, r, s, Supersede(r.snapshot, B(x), now))
    BY Zenon DEF MutateSupersede
  <1> DEFINE by == B(x)
  <1>3. by \in Successor
    BY GenerationOfAssumption, Zenon DEF Successor
  <1>4. /\ CanSupersede(r.snapshot, Guard(r, s), by, now)
        /\ MutatesTo(d, r, s, Supersede(r.snapshot, by, now))
    BY <1>2, Zenon
  <1> HIDE DEF by
  <1>5. IndInv(Supersede(r.snapshot, by, now))
    BY <1>1, <1>3, <1>4, SupersedeInv, Zenon
  <1>6. RequireGuard(r.snapshot, Guard(r, s))
    BY <1>4, Zenon DEF CanSupersede
  <1> QED
    BY <1>3, <1>4, <1>5, <1>6, EndStep, OptionOne, Zenon DEF Supersede

\* cancel leaves a sound lane.
LEMMA CancelStep ==
    ASSUME LaneInv, NEW d \in DeploymentIds, NEW r \in deployments[d],
           NEW s \in Sessions(r), CanExecute(d, r, s), MutateCancel(d, r, s)
    PROVE  LaneInv'
  <1>1. IndInv(r.snapshot) /\ now \in Time
    BY Zenon DEF LaneInv, RowSound, TypeOK
  <1>2. /\ CanCancel(r.snapshot, Guard(r, s), now)
        /\ MutatesTo(d, r, s, Cancel(r.snapshot, now))
    BY Zenon DEF MutateCancel
  <1>3. IndInv(Cancel(r.snapshot, now))
    BY <1>1, <1>2, CancelInv, Zenon
  <1>4. RequireGuard(r.snapshot, Guard(r, s))
    BY <1>2, Zenon DEF CanCancel
  <1> QED
    BY <1>2, <1>3, <1>4, EndStep, OptionEmpty, Zenon DEF Cancel

\* The failures a holder records, field by field.
LEMMA FailureFields ==
    ASSUME TypeOK, NEW r \in Row, NEW id \in FailureIds,
           NEW f \in {RetryableFailure(r, id), BlockedFailure(id)}
    PROVE  /\ f \in Failure
           /\ f.disposition = "Retryable" => f.attempt = r.attempt
           /\ f.disposition = "Blocked" => f.retryAt = now
  <1>1. now \in Time /\ now + RetryDelay \in Time /\ r.attempt \in Nat
    BY Durations, RowFields DEF Time
  <1>2. CASE f = RetryableFailure(r, id)
    BY <1>1, <1>2, Zenon DEF RetryableFailure, Failure
  <1>3. CASE f = BlockedFailure(id)
    BY <1>1, <1>3, Zenon DEF BlockedFailure, Failure
  <1> QED
    BY <1>2, <1>3, Zenon

\* record_retryable_failure and record_blocked_failure leave a sound lane: the
\* lease is given up, and the failure is that of the current attempt.
LEMMA RecordFailureStep ==
    ASSUME LaneInv, NEW d \in DeploymentIds, NEW r \in deployments[d],
           NEW s \in Sessions(r), CanExecute(d, r, s),
           MutateRecordFailure(d, r, s)
    PROVE  LaneInv'
  <1>1. /\ TypeOK /\ RowSound(r, now) /\ IndInv(r.snapshot)
        /\ r \in Row /\ r.snapshot \in Snapshot /\ now \in Nat
        /\ r.attempt \in Nat /\ r.attempt > 0
    BY RowFields, Durations, Zenon DEF LaneInv, RowSound, IndInv, CanExecute
  <1> DEFINE Q(f) == [Mutated(r, s, RecordFailure(r.snapshot, f)) EXCEPT
                          !.failureAttempt = FailureAttempt(r)]
  <1>2. PICK id \in FailureIds :
            \E f \in {RetryableFailure(r, id), BlockedFailure(id)} :
                /\ CanRecordFailure(r.snapshot, Guard(r, s), f)
                /\ Persist(d, Q(f))
                /\ UNCHANGED <<now, authority, serving, attestations>>
    BY Zenon DEF MutateRecordFailure
  <1>3. PICK f \in {RetryableFailure(r, id), BlockedFailure(id)} :
            /\ CanRecordFailure(r.snapshot, Guard(r, s), f)
            /\ Persist(d, Q(f))
            /\ UNCHANGED <<now, authority, serving, attestations>>
    BY <1>2, Zenon
  <1>4. /\ f \in Failure
        /\ f.disposition = "Retryable" => f.attempt = r.attempt
        /\ f.disposition = "Blocked" => f.retryAt = now
    BY <1>1, FailureFields, Zenon
  <1> DEFINE e == RecordFailure(r.snapshot, f)
             q == Q(f)
  <1>5. IndInv(e)
    BY <1>1, <1>3, <1>4, RecordFailureInv, Zenon
  <1>6. /\ e.phase = "RuntimePending" /\ e.condition = {f} /\ e.failure = {f}
        /\ e.lease = {} /\ e.lastToken = r.snapshot.lastToken
        /\ e.recovery = r.snapshot.recovery
        /\ SameRequest(r.snapshot, e) /\ SameAcceptance(r.snapshot, e)
    BY <1>1, Zenon DEF RecordFailure, ClearRuntimeEvidence, Advance, Snapshot,
                SameRequest, SameAcceptance
  <1>7. q = [Mutated(r, s, e) EXCEPT !.failureAttempt = r.attempt]
    BY Zenon DEF FailureAttempt
  <1> HIDE DEF e
  <1>8. /\ q \in Row /\ q.snapshot = e /\ q.attempt = r.attempt
        /\ q.failureAttempt = r.attempt /\ q.lastController = {s.controller}
    <2>1. e \in Snapshot /\ {s.controller} \in Option(Controllers)
      BY <1>5, SessionFields, OptionOne, Zenon DEF IndInv
    <2> QED
      BY <1>1, <1>7, <2>1, Zenon DEF Mutated, Row
  <1>9. Persist(d, q) /\ RequireGuard(r.snapshot, Guard(r, s))
    BY <1>3, Zenon DEF CanRecordFailure
  <1> HIDE DEF q, Q
  <1>10. ~IsTerminal(r.snapshot) /\ r.snapshot.lastToken # 0
    BY <1>1, <1>9, Holder, Zenon
  <1>11. RowSound(q, now)
    <2>1. Timely(e, now)
      BY <1>1, <1>6, Zenon DEF RowSound, Timely, SameRequest, SameAcceptance
    <2>2. ValidAttemptProjection(q)
      <3>1. r.snapshot.lastToken \in Nat
        BY <1>1, Zenon DEF Snapshot
      <3> QED
        BY <1>1, <1>4, <1>6, <1>8, <1>10, <3>1 DEF ValidAttemptProjection
    <2>3. ValidLastController(q)
      BY <1>6, <1>8, <1>10, Zenon DEF ValidLastController
    <2>4. RetrySound(q, now)
      BY <1>1, <1>4, <1>6, <1>8 DEF RetrySound
    <2> QED
      BY <1>5, <1>8, <2>1, <2>2, <2>3, <2>4, Zenon DEF RowSound
  <1>12. RowMoves(r, q)
    BY <1>1, <1>6, <1>8 DEF RowMoves, AttemptMoves, SameRequest, PreDrain
  <1> QED
    BY <1>3, <1>6, <1>8, <1>9, <1>10, <1>11, <1>12, RowStep, Zenon DEF SameAcceptance

-----------------------------------------------------------------------------
(* Leases.                                                                 *)

\* What the store asks the deployment for when it claims a lease.
LEMMA LeaseRequestFields ==
    ASSUME TypeOK, NEW r \in Row, NEW c \in Controllers
    PROVE  LET q == LeaseRequest(r, c) IN
           /\ q.controller = c /\ q.token = r.snapshot.lastToken + 1
           /\ q.token \in Nat /\ q.now = now /\ q.now \in Time
           /\ q.expiresAt \in Time
  BY Durations, RowFields DEF LeaseRequest, Snapshot, Time

\* The row written with a new lease, in the same or the next attempt, is sound
\* when the next attempt is what a failure, if there is one, calls for.
LEMMA LeasedRow ==
    ASSUME TypeOK, NEW r, RowSound(r, now),
           NEW q \in Row, IndInv(q.snapshot),
           q.attempt >= r.attempt, q.attempt > 0,
           q.failureAttempt = r.failureAttempt,
           q.snapshot.lastToken = r.snapshot.lastToken + 1,
           q.lastController # {},
           \A l \in q.snapshot.lease : q.lastController = {l.controller},
           SameRequest(r.snapshot, q.snapshot),
           SameAcceptance(r.snapshot, q.snapshot),
           SameHistory(r.snapshot, q.snapshot),
           \A f \in r.snapshot.failure :
               q.attempt > r.failureAttempt /\ f.retryAt <= now
    PROVE  RowSound(q, now)
  <1>1. /\ r \in Row /\ r.attempt \in Nat /\ r.failureAttempt \in Nat
        /\ r.snapshot.lastToken \in Nat /\ q.attempt \in Nat
    BY RowFields, Zenon DEF RowSound, IndInv, Snapshot
  <1>2. Timely(q.snapshot, now)
    BY Zenon DEF RowSound, Timely, SameRequest, SameAcceptance, SameHistory
  <1>3. ValidAttemptProjection(q)
    BY <1>1 DEF RowSound, ValidAttemptProjection, SameHistory
  <1>4. ValidLastController(q)
    BY <1>1 DEF ValidLastController
  <1>5. RetrySound(q, now)
    BY Zenon DEF RetrySound, SameHistory
  <1> QED
    BY <1>2, <1>3, <1>4, <1>5, Zenon DEF RowSound

\* The result of installing the requested lease, field by field.
LEMMA LeaseInstalled ==
    ASSUME TypeOK, NEW r \in Row, NEW c \in Controllers
    PROVE  LET e == InstallLease(r.snapshot, LeaseRequest(r, c)) IN
           /\ e.phase = r.snapshot.phase /\ e.lastToken = r.snapshot.lastToken + 1
           /\ \A l \in e.lease : l.controller = c
           /\ SameRequest(r.snapshot, e) /\ SameAcceptance(r.snapshot, e)
           /\ SameHistory(r.snapshot, e)
  <1> DEFINE q == LeaseRequest(r, c)
             e == InstallLease(r.snapshot, q)
  <1>1. q.controller = c /\ q.token = r.snapshot.lastToken + 1
    BY LeaseRequestFields, Zenon
  <1>2. r.snapshot \in Snapshot
    BY RowFields, Zenon
  <1> HIDE DEF q
  <1>3. /\ e.phase = r.snapshot.phase /\ e.lastToken = q.token
        /\ e.lease = {[controller |-> q.controller, token |-> q.token,
                       acquiredAt |-> q.now, expiresAt |-> q.expiresAt]}
        /\ SameRequest(r.snapshot, e) /\ SameAcceptance(r.snapshot, e)
        /\ SameHistory(r.snapshot, e)
    BY <1>2, Zenon DEF InstallLease, Snapshot, SameRequest, SameAcceptance, SameHistory
  <1> HIDE DEF e
  <1>4. \A l \in e.lease : l.controller = c
    BY <1>1, <1>3
  <1> QED
    BY <1>1, <1>3, <1>4, Zenon DEF e, q

\* next_claim_attempt starts the next attempt or stays in this one.
LEMMA ClaimAttempt ==
    ASSUME NEW r \in Row
    PROVE  /\ NextClaimAttempt(r) \in Nat /\ NextClaimAttempt(r) >= r.attempt
           /\ Expired(r) => NextClaimAttempt(r) = r.attempt + 1
  BY RowFields DEF NextClaimAttempt

\* claim_locked leaves a sound lane, when it is the holder who renews or the
\* attempt that starts is a new one.
LEMMA ClaimLockedStep ==
    ASSUME LaneInv, NEW d \in DeploymentIds, NEW r \in deployments[d],
           NEW c \in Controllers, ClaimLocked(d, r, c),
           \/ Expired(r)
           \/ \E g : r.attempt > 0 /\ RequireGuard(r.snapshot, g)
    PROVE  LaneInv'
  <1>1. /\ TypeOK /\ RowSound(r, now) /\ IndInv(r.snapshot) /\ r \in Row
        /\ r.attempt \in Nat /\ r.failureAttempt \in Nat
        /\ r.failureAttempt <= r.attempt
    BY RowFields, Zenon DEF LaneInv, RowSound, ValidAttemptProjection
  <1> DEFINE p == LeaseRequest(r, c)
             e == AcquireLease(r.snapshot, p)
             n == NextClaimAttempt(r)
             q == [r EXCEPT !.snapshot = e, !.attempt = n, !.lastController = {c}]
  <1>2. /\ CanClaimAttempt(r) /\ CanAcquireLease(r.snapshot, p)
        /\ Persist(d, q)
        /\ UNCHANGED <<now, authority, serving, attestations>>
    BY Zenon DEF ClaimLocked
  <1>3. ~IsTerminal(r.snapshot) /\ r.snapshot.phase # "Superseded"
    BY <1>2, Zenon DEF CanAcquireLease, ValidateLeaseRequest, IsTerminal
  <1>4. IndInv(e)
    BY <1>1, <1>2, AcquireLeaseInv, LeaseRequestFields, Zenon
  <1>5. /\ e.phase = r.snapshot.phase /\ e.lastToken = r.snapshot.lastToken + 1
        /\ \A l \in e.lease : l.controller = c
        /\ SameRequest(r.snapshot, e) /\ SameAcceptance(r.snapshot, e)
        /\ SameHistory(r.snapshot, e)
    BY <1>1, LeaseInstalled, Zenon DEF AcquireLease
  <1>6. /\ n \in Nat /\ n >= r.attempt /\ n > 0
        /\ r.snapshot.lease # {} \/ n > r.attempt
        /\ \A f \in r.snapshot.failure :
               n > r.failureAttempt /\ f.retryAt <= now
    <2>1. n \in Nat /\ n >= r.attempt
      BY <1>1, ClaimAttempt, Zenon
    <2>2. CASE Expired(r)
      <3>1. n = r.attempt + 1
        BY <1>1, <2>2, ClaimAttempt, Zenon
      <3>2. ASSUME NEW f \in r.snapshot.failure
            PROVE  f.retryAt <= now
        <4>1. CASE r.snapshot.condition = {}
          BY <1>1, <1>3, <3>2, <4>1, Zenon DEF RowSound, RetrySound
        <4>2. CASE r.snapshot.condition # {}
          <5>1. r.snapshot.condition = r.snapshot.failure
            BY <1>1, <4>2, Zenon DEF IndInv, Coherent, ValidSnapshot, ValidPhaseEvidence
          <5> QED
            BY <1>2, <3>2, <5>1, Zenon DEF CanClaimAttempt
        <4> QED
          BY <4>1, <4>2, Zenon
      <3> HIDE DEF n
      <3> QED
        BY <1>1, <2>1, <3>1, <3>2
    <2>3. ASSUME NEW g, r.attempt > 0, RequireGuard(r.snapshot, g)
          PROVE  /\ n > 0
                 /\ r.snapshot.lease # {} \/ n > r.attempt
                 /\ \A f \in r.snapshot.failure :
                        n > r.failureAttempt /\ f.retryAt <= now
      <3>1. /\ r.snapshot.lease # {}
            /\ \A f \in r.snapshot.failure :
                   r.attempt > r.failureAttempt /\ f.retryAt <= now
        BY <1>1, <2>3, Holder, Zenon
      <3> HIDE DEF n
      <3> QED
        BY <1>1, <2>1, <2>3, <3>1
    <2> QED
      BY <2>1, <2>2, <2>3, Zenon
  <1>7. /\ Persist(d, q)
        /\ q = [r EXCEPT !.snapshot = e, !.attempt = n, !.lastController = {c}]
    BY <1>2, Zenon
  <1> HIDE DEF n, e, q
  <1>8. /\ q \in Row /\ q.snapshot = e /\ q.attempt = n
        /\ q.failureAttempt = r.failureAttempt /\ q.lastController = {c}
    <2>1. e \in Snapshot /\ {c} \in Option(Controllers)
      BY <1>4, OptionOne, Zenon DEF IndInv
    <2> QED
      BY <1>1, <1>6, <1>7, <2>1, Zenon DEF Row
  <1>9. RowSound(q, now)
    BY <1>1, <1>4, <1>5, <1>6, <1>8, LeasedRow, Zenon
  <1>10. RowMoves(r, q)
    BY <1>1, <1>5, <1>6, <1>8, Zenon DEF RowMoves, AttemptMoves, SameRequest
  <1>11. q.snapshot.drain = r.snapshot.drain
    BY <1>5, <1>8, Zenon DEF SameAcceptance
  <1> QED
    BY <1>2, <1>3, <1>7, <1>9, <1>10, <1>11, RowStep, Zenon

\* recover_blocked_for_operator leaves a sound lane.
LEMMA RecoverBlockedStep ==
    ASSUME LaneInv, NEW d \in DeploymentIds, RecoverBlockedForOperator(d)
    PROVE  LaneInv'
  <1>1. PICK r \in deployments[d], c \in Controllers, id \in FailureIds :
            /\ CanRecoverBlocked(r.snapshot, LeaseRequest(r, c), id)
            /\ Persist(d, [r EXCEPT
                   !.snapshot = RecoverBlocked(r.snapshot, LeaseRequest(r, c)),
                   !.attempt = NextBlockedRecoveryAttempt(r),
                   !.lastController = {c}])
            /\ UNCHANGED <<now, authority, serving, attestations>>
    BY Zenon DEF RecoverBlockedForOperator
  <1>2. /\ TypeOK /\ RowSound(r, now) /\ IndInv(r.snapshot) /\ r \in Row
        /\ r.attempt \in Nat /\ r.failureAttempt \in Nat
        /\ r.failureAttempt <= r.attempt
    BY RowFields, Zenon DEF LaneInv, RowSound, ValidAttemptProjection
  <1> DEFINE p == LeaseRequest(r, c)
             x == InstallLease(r.snapshot, p)
             e == RecoverBlocked(r.snapshot, p)
             n == r.attempt + 1
             q == [r EXCEPT !.snapshot = e, !.attempt = n, !.lastController = {c}]
  <1>3. ~IsTerminal(r.snapshot)
    BY <1>1, Zenon DEF CanRecoverBlocked, ValidateLeaseRequest
  <1>4. IndInv(e)
    BY <1>1, <1>2, RecoverBlockedInv, LeaseRequestFields, Zenon
  <1>5. /\ e.phase = r.snapshot.phase /\ e.lastToken = r.snapshot.lastToken + 1
        /\ \A l \in e.lease : l.controller = c
        /\ SameRequest(r.snapshot, e) /\ SameAcceptance(r.snapshot, e)
        /\ SameHistory(r.snapshot, e)
    <2>1. /\ x.phase = r.snapshot.phase /\ x.lastToken = r.snapshot.lastToken + 1
          /\ \A l \in x.lease : l.controller = c
          /\ SameRequest(r.snapshot, x) /\ SameAcceptance(r.snapshot, x)
          /\ SameHistory(r.snapshot, x)
      BY <1>2, LeaseInstalled, Zenon
    <2>2. x \in Snapshot
      BY <1>1, <1>2, InstallLeaseFields, LeaseRequestFields, RowFields, Zenon
      DEF CanRecoverBlocked
    <2>3. e = [x EXCEPT !.condition = {}]
      BY Zenon DEF RecoverBlocked
    <2> HIDE DEF x, e
    <2> QED
      BY <2>1, <2>2, <2>3, Zenon DEF Snapshot, SameRequest, SameAcceptance, SameHistory
  <1>6. \A f \in r.snapshot.failure :
            n > r.failureAttempt /\ f.retryAt <= now
    <2>1. r.snapshot.failure = r.snapshot.condition /\ IsBlocked(r.snapshot)
      BY <1>1, Zenon DEF CanRecoverBlocked
    <2>2. \A f \in r.snapshot.failure : f.disposition = "Blocked"
      BY <1>2, <2>1, Zenon DEF IsBlocked, IndInv, Snapshot, Option
    <2> QED
      BY <1>2, <2>2 DEF RowSound, RetrySound
  <1>7. /\ Persist(d, q)
        /\ q = [r EXCEPT !.snapshot = e, !.attempt = n, !.lastController = {c}]
    BY <1>1, Zenon DEF NextBlockedRecoveryAttempt
  <1>8. n \in Nat /\ n > r.attempt /\ n > 0
    BY <1>2
  <1> HIDE DEF n, e, q
  <1>9. /\ q \in Row /\ q.snapshot = e /\ q.attempt = n
        /\ q.failureAttempt = r.failureAttempt /\ q.lastController = {c}
    <2>1. e \in Snapshot /\ {c} \in Option(Controllers)
      BY <1>4, OptionOne, Zenon DEF IndInv
    <2> QED
      BY <1>2, <1>7, <1>8, <2>1, Zenon DEF Row
  <1>10. RowSound(q, now)
    BY <1>2, <1>4, <1>5, <1>6, <1>8, <1>9, LeasedRow
  <1>11. RowMoves(r, q)
    BY <1>2, <1>5, <1>8, <1>9 DEF RowMoves, AttemptMoves, SameRequest
  <1>12. q.snapshot.drain = r.snapshot.drain
    BY <1>5, <1>9, Zenon DEF SameAcceptance
  <1> QED
    BY <1>1, <1>3, <1>7, <1>10, <1>11, <1>12, RowStep, Zenon

-----------------------------------------------------------------------------
(* Enqueueing, claiming and mutating.                                      *)

\* The row that enqueue writes is sound.
LEMMA RequestedRow ==
    ASSUME TypeOK, NEW d \in DeploymentIds,
           NEW previous \in Option(RuntimeProcess),
           CanRequest(GenerationOf[d], previous), NEW q,
           q = [snapshot |-> Request(d, GenerationOf[d], previous, now),
                attempt |-> 0, failureAttempt |-> 0,
                lastController |-> {}, attestation |-> {}]
    PROVE  /\ RowSound(q, now) /\ q.attempt = 0
           /\ q.snapshot.phase = "Requested" /\ q.snapshot.lease = {}
           /\ q.snapshot.drain = {} /\ q.snapshot.previous = previous
           /\ q.snapshot.requestedAt = now
  <1> DEFINE e == Request(d, GenerationOf[d], previous, now)
  <1>1. GenerationOf[d] \in Nat /\ now \in Time /\ now \in Nat
    BY GenerationOfAssumption, Zenon DEF TypeOK, Time
  <1>2. IndInv(e)
    BY <1>1, RequestInv, Zenon
  <1>3. /\ e.id = d /\ e.generation = GenerationOf[d] /\ e.previous = previous
        /\ e.requestedAt = now /\ e.phase = "Requested" /\ e.lease = {}
        /\ e.lastToken = 0 /\ e.preflight = {} /\ e.drain = {}
        /\ e.activation = {} /\ e.recovery = {} /\ e.failure = {}
    BY Zenon DEF Request
  <1>4. e = Request(e.id, e.generation, e.previous, e.requestedAt)
    BY <1>3, Zenon
  <1>5. q = [snapshot |-> e, attempt |-> 0, failureAttempt |-> 0,
             lastController |-> {}, attestation |-> {}]
    BY Zenon
  <1> HIDE DEF e
  <1>6. q \in Row
    BY <1>2, <1>5, OptionEmpty DEF Row, IndInv
  <1>7. ValidAttemptProjection(q)
    BY <1>3, <1>4, <1>5 DEF ValidAttemptProjection
  <1>8. ValidLastController(q)
    BY <1>3, <1>5 DEF ValidLastController
  <1>9. Timely(e, now) /\ RetrySound(q, now)
    BY <1>1, <1>3, <1>5 DEF Timely, RetrySound
  <1> QED
    BY <1>2, <1>3, <1>5, <1>6, <1>7, <1>8, <1>9 DEF RowSound

\* enqueue leaves a sound lane: what is served is what the deployment replaces.
LEMMA EnqueueStep ==
    ASSUME LaneInv, NEW d \in DeploymentIds, Enqueue(d)
    PROVE  LaneInv'
  <1> DEFINE previous == {[generation |-> s.generation, process |-> s.process] :
                          s \in {x \in serving : IsServing(x)}}
             q == [snapshot |-> Request(d, GenerationOf[d], previous, now),
                   attempt |-> 0, failureAttempt |-> 0,
                   lastController |-> {}, attestation |-> {}]
  <1>1. /\ deployments[d] = {} /\ CanRequest(GenerationOf[d], previous)
        /\ \A e \in DeploymentIds : ~IsUnresolved(e)
        /\ Persist(d, q)
        /\ UNCHANGED <<now, authority, serving, attestations>>
    BY Zenon DEF Enqueue
  <1>2. TypeOK
    BY Zenon DEF LaneInv
  <1>3. ASSUME NEW s \in serving
        PROVE  /\ serving = {s} /\ s.deployment # d
               /\ [generation |-> s.generation, process |-> s.process]
                      \in RuntimeProcess
               /\ s.acquiredAt <= now
               /\ IsServing(s) => LeaseEnd(s) >= now
    <2>1. serving = {s} /\ s \in ServingLeaseRow /\ now \in Nat
      BY <1>2, OneServing, Durations, Zenon
    <2>2. s.deployment # d /\ DrainServingStateIsValid(s)
      BY <1>1, Zenon DEF LaneInv
    <2> QED
      BY <2>1, <2>2
      DEF ServingLeaseRow, RuntimeProcess, DrainServingStateIsValid, IsServing,
          LeaseEnd, Time
  <1>4. previous \in Option(RuntimeProcess)
    BY <1>3, Zenon DEF Option
  <1>5. \A p \in previous : \E s \in serving :
            IsServing(s) /\ p.generation = s.generation /\ p.process = s.process
    OBVIOUS
  <1>6. q = [snapshot |-> Request(d, GenerationOf[d], previous, now),
             attempt |-> 0, failureAttempt |-> 0,
             lastController |-> {}, attestation |-> {}]
    BY Zenon
  <1> HIDE DEF previous, q
  <1>7. /\ RowSound(q, now) /\ q.attempt = 0
        /\ q.snapshot.phase = "Requested" /\ q.snapshot.lease = {}
        /\ q.snapshot.drain = {} /\ q.snapshot.previous = previous
        /\ q.snapshot.requestedAt = now
    BY <1>1, <1>2, <1>4, <1>6, RequestedRow
  <1>8. PreviousOnRecord(d, q)
    BY <1>3, <1>5, <1>7, Zenon DEF PreviousOnRecord
  <1>9. \A s \in serving : s.deployment # d
    BY <1>3, Zenon
  <1> QED
    BY <1>1, <1>7, <1>8, <1>9, LaneStep, Zenon

\* claim_execution and claim_next_execution leave a sound lane.
LEMMA ClaimStep ==
    ASSUME LaneInv, NEW d \in DeploymentIds, Claim(d)
    PROVE  LaneInv'
  BY ClaimLockedStep, Zenon DEF Claim

\* renew_execution leaves a sound lane.
LEMMA RenewStep ==
    ASSUME LaneInv, NEW d \in DeploymentIds, Renew(d)
    PROVE  LaneInv'
  <1>1. PICK r \in deployments[d], c \in Controllers :
            /\ \E g : r.attempt > 0 /\ RequireGuard(r.snapshot, g)
            /\ ClaimLocked(d, r, c)
    BY SessionFields, Zenon DEF Renew, CanExecute
  <1> QED
    BY <1>1, ClaimLockedStep, Zenon

\* Every mutation leaves a sound lane.
LEMMA MutateStep ==
    ASSUME LaneInv, NEW d \in DeploymentIds, Mutate(d)
    PROVE  LaneInv'
  <1>1. PICK r \in deployments[d] : \E s \in Sessions(r) :
            /\ CanExecute(d, r, s)
            /\ \/ MutateAcceptPreflight(d, r, s)
               \/ MutateRequestDrain(d, r, s)
               \/ MutateAcceptDrain(d, r, s)
               \/ MutateBeginActivation(d, r, s)
               \/ MutateAcceptActivation(d, r, s)
               \/ MutateRecordFailure(d, r, s)
               \/ MutateResumeRuntimePending(d, r, s)
               \/ MutateBeginPanelReconciliation(d, r, s)
               \/ MutateAcceptPanelCertificate(d, r, s)
               \/ MutateSupersede(d, r, s)
               \/ MutateCancel(d, r, s)
    BY Zenon DEF Mutate
  <1> QED
    BY <1>1, AcceptPreflightStep, RequestDrainStep, AcceptDrainStep,
       BeginActivationStep, AcceptActivationStep, RecordFailureStep,
       ResumeRuntimePendingStep, BeginPanelReconciliationStep,
       AcceptPanelCertificateStep, SupersedeStep, CancelStep, Zenon

-----------------------------------------------------------------------------
(* The serving lease.                                                      *)

\* The serving row that certify_serving writes is of its type.
LEMMA NextCounters ==
    ASSUME TypeOK
    PROVE  NextEpoch \in Nat /\ NextServingRevision \in Nat
  <1>1. CASE serving = {}
    BY <1>1, Zenon DEF NextEpoch, NextServingRevision
  <1>2. CASE serving # {}
    <2>1. PICK x \in serving : serving = {x} /\ x \in ServingLeaseRow
      BY <1>2, OneServing, Zenon
    <2>2. {s.epoch : s \in serving} = {x.epoch} /\ x.epoch \in Nat
      BY <2>1, Zenon DEF ServingLeaseRow
    <2>3. {s.revision : s \in serving} = {x.revision} /\ x.revision \in Nat
      BY <2>1, Zenon DEF ServingLeaseRow
    <2>4. (CHOOSE n \in {s.epoch : s \in serving} : TRUE) \in Nat
      BY <2>2, Zenon
    <2>5. (CHOOSE n \in {s.revision : s \in serving} : TRUE) \in Nat
      BY <2>3, Zenon
    <2> QED
      BY <1>2, <2>4, <2>5 DEF NextEpoch, NextServingRevision
  <1> QED
    BY <1>1, <1>2, Zenon

\* The row that certify_serving writes.
Certified(d, r, s, ready) ==
    [Mutated(r, s, CertifyLive(r.snapshot, ready, now)) EXCEPT
        !.attestation = {NextAttestation(d, r)}]

\* The row that certify_serving writes is sound, and Live with the readiness it
\* was certified on.
LEMMA CertifiedRow ==
    ASSUME LaneInv, NEW d \in DeploymentIds, NEW r \in deployments[d],
           NEW s \in Sessions(r), NEW ready \in GatewayReady,
           CanCertify(d, r, s, ready), NEW q, q = Certified(d, r, s, ready)
    PROVE  /\ RowSound(q, now) /\ q.attempt = r.attempt
           /\ q.attestation = {NextAttestation(d, r)}
           /\ q.snapshot.phase = "Live" /\ q.snapshot.lease = {}
           /\ \A l \in q.snapshot.live : l.gateway = ready
  <1>1. /\ TypeOK /\ RowSound(r, now) /\ IndInv(r.snapshot) /\ r \in Row
        /\ r.snapshot \in Snapshot /\ now \in Time
        /\ r.attempt \in Nat /\ r.attempt > 0
    BY RowFields, Zenon DEF LaneInv, RowSound, TypeOK, CanCertify, CanExecute
  <1> DEFINE e == CertifyLive(r.snapshot, ready, now)
  <1>2. CanCertifyLive(r.snapshot, Guard(r, s), ready, now)
    BY Zenon DEF CanCertify
  <1>3. IndInv(e) /\ RequireGuard(r.snapshot, Guard(r, s))
    BY <1>1, <1>2, CertifyLiveInv, Zenon DEF CanCertifyLive
  <1>4. /\ e.phase = "Live" /\ e.lease = {} /\ e.gateway = {ready}
        /\ e.lastToken = r.snapshot.lastToken
        /\ SameRequest(r.snapshot, e) /\ SameAcceptance(r.snapshot, e)
        /\ SameHistory(r.snapshot, e)
    <2> DEFINE L == {[generation |-> r.snapshot.generation,
                      process |-> ready.process, activation |-> y,
                      panel |-> c, gateway |-> ready, at |-> now] :
                     y \in r.snapshot.activation, c \in r.snapshot.panel}
    <2>1. e = [Advance(r.snapshot, "Live") EXCEPT
                   !.gateway = {ready}, !.live = L, !.lease = {}]
      BY DEF CertifyLive
    <2> HIDE DEF L, e
    <2> QED
      BY <1>1, <2>1, Zenon DEF Advance, Snapshot, SameRequest, SameAcceptance,
                        SameHistory
  <1>5. q = [Mutated(r, s, e) EXCEPT !.attestation = {NextAttestation(d, r)}]
    BY Zenon DEF Certified
  <1> HIDE DEF e
  <1>6. \A l \in e.live : l.gateway = ready
    BY <1>3, <1>4, Zenon DEF IndInv, ValidSnapshot, ValidLive
  <1>7. /\ q \in Row /\ q.snapshot = e /\ q.attempt = r.attempt
        /\ q.failureAttempt = r.failureAttempt
        /\ q.lastController = {s.controller}
        /\ q.attestation = {NextAttestation(d, r)}
    <2>1. e \in Snapshot /\ {s.controller} \in Option(Controllers)
      BY <1>3, SessionFields, OptionOne, Zenon DEF IndInv
    <2>2. NextAttestation(d, r) \in AttestationId
      BY <1>1 DEF NextAttestation, AttestationId, Snapshot
    <2>3. {NextAttestation(d, r)} \in Option(AttestationId)
      BY <2>2, OptionOne, Zenon
    <2> QED
      BY <1>1, <1>5, <2>1, <2>3, Zenon DEF Mutated, Row
  <1>8. Timely(e, now) /\ e.failure = r.snapshot.failure
    BY <1>1, <1>4, Zenon DEF RowSound, Timely, SameRequest, SameAcceptance, SameHistory
  <1>9. RowSound(q, now)
    BY <1>1, <1>3, <1>4, <1>7, <1>8, HolderRow, SessionFields
  <1> QED
    BY <1>4, <1>6, <1>7, <1>9, Zenon

\* The serving row that certify_serving writes.
CertifiedLease(d, r, process) ==
    [deployment |-> d, generation |-> r.snapshot.generation, process |-> process,
     attestation |-> NextAttestation(d, r),
     epoch |-> NextEpoch, revision |-> NextServingRevision,
     connected |-> TRUE, acquiredAt |-> now,
     heartbeatAt |-> now, expiresAt |-> now + ServingLease]

\* certify_serving leaves a sound lane: the certified deployment was the lane's
\* unresolved one and nobody served.
LEMMA CertifyServingStep ==
    ASSUME LaneInv, NEW d \in DeploymentIds, CertifyServing(d)
    PROVE  LaneInv'
  <1> DEFINE Ready(r, process, at) == [generation |-> r.snapshot.generation,
                                       process |-> process, at |-> at]
  <1>1. PICK r \in deployments[d] :
            \E s \in Sessions(r), at \in ReadyTimes, process \in Processes :
                /\ CanCertify(d, r, s, Ready(r, process, at))
                /\ Persist(d, Certified(d, r, s, Ready(r, process, at)))
                /\ attestations' = attestations \cup {AttestationRecord(d, r)}
                /\ serving' = {CertifiedLease(d, r, process)}
                /\ UNCHANGED <<now, authority>>
    BY Zenon DEF CertifyServing, Certified, CertifiedLease
  <1>2. PICK s \in Sessions(r), at \in ReadyTimes, process \in Processes :
            /\ CanCertify(d, r, s, Ready(r, process, at))
            /\ Persist(d, Certified(d, r, s, Ready(r, process, at)))
            /\ attestations' = attestations \cup {AttestationRecord(d, r)}
            /\ serving' = {CertifiedLease(d, r, process)}
            /\ UNCHANGED <<now, authority>>
    BY <1>1, Zenon
  <1>3. /\ TypeOK /\ deployments[d] = {r} /\ r \in Row /\ r.snapshot \in Snapshot
        /\ r.attempt \in Nat /\ now \in Nat
    BY OneRow, RowFields, Durations, Zenon DEF LaneInv
  <1>4. PICK ready \in GatewayReady :
            /\ ready = Ready(r, process, at)
            /\ ready.process = process
            /\ ready.generation = r.snapshot.generation
    <2>1. /\ Ready(r, process, at) \in GatewayReady
          /\ Ready(r, process, at).process = process
          /\ Ready(r, process, at).generation = r.snapshot.generation
      BY <1>3, EvidenceTime, ReadyTime, Zenon DEF GatewayReady, Snapshot
    <2> HIDE DEF Ready
    <2> QED
      BY <2>1, Zenon
  <1> HIDE DEF Ready
  <1>5. PICK i : i = NextAttestation(d, r)
    BY Zenon
  <1>6. PICK x \in ServingLeaseRow :
            /\ x = CertifiedLease(d, r, process) /\ x.deployment = d
            /\ x.generation = r.snapshot.generation /\ x.process = process
            /\ x.attestation = i /\ x.connected = TRUE /\ x.acquiredAt = now
            /\ x.heartbeatAt = now /\ x.expiresAt = now + ServingLease
    <2> DEFINE y == CertifiedLease(d, r, process)
    <2>1. i \in AttestationId /\ r.snapshot.generation \in Nat
      BY <1>3, <1>5 DEF NextAttestation, AttestationId, Snapshot
    <2>2. /\ y \in ServingLeaseRow /\ y.deployment = d
          /\ y.generation = r.snapshot.generation /\ y.process = process
          /\ y.attestation = i /\ y.connected = TRUE /\ y.acquiredAt = now
          /\ y.heartbeatAt = now /\ y.expiresAt = now + ServingLease
      BY <1>3, <1>5, <2>1, NextCounters, Durations
      DEF CertifiedLease, ServingLeaseRow, Time
    <2> QED
      BY <2>2, Zenon
  <1>7. PICK a \in [deployment: DeploymentIds, revision: Nat, attempt: Nat] :
            /\ a = AttestationRecord(d, r) /\ a.deployment = d
            /\ a.revision = i.revision /\ a.attempt = r.attempt
    <2> DEFINE b == AttestationRecord(d, r)
    <2>1. /\ b \in [deployment: DeploymentIds, revision: Nat, attempt: Nat]
          /\ b.deployment = d /\ b.revision = i.revision
          /\ b.attempt = r.attempt
      BY <1>3, <1>5 DEF AttestationRecord, NextAttestation, Snapshot
    <2> QED
      BY <2>1, Zenon
  <1>8. PICK q :
            /\ q = Certified(d, r, s, ready)
            /\ RowSound(q, now) /\ q.attempt = r.attempt
            /\ q.attestation = {i}
            /\ q.snapshot.phase = "Live" /\ q.snapshot.lease = {}
            /\ \A l \in q.snapshot.live : l.gateway = ready
    BY <1>2, <1>4, <1>5, CertifiedRow
  <1>9. /\ CanCertify(d, r, s, ready) /\ Persist(d, q)
        /\ attestations' = attestations \cup {a} /\ serving' = {x}
        /\ now' = now /\ authority' = authority
    BY <1>2, <1>4, <1>6, <1>7, <1>8, Zenon
  <1>10. /\ q \in Row
        /\ deployments' = [deployments EXCEPT ![d] = {q}]
        /\ deployments'[d] = {q}
        /\ \A e \in DeploymentIds \ {d} : deployments'[e] = deployments[e]
    BY <1>3, <1>8, <1>9, Zenon DEF Persist, TypeOK, RowSound
  <1>11. TypeOK'
    <2>1. {q} \in Option(Row) /\ {x} \in Option(ServingLeaseRow)
      BY <1>6, <1>10, OptionOne, Zenon
    <2> QED
      BY <1>3, <1>7, <1>9, <1>10, <2>1, Zenon DEF TypeOK
  <1>12. \A e \in DeploymentIds : \A y \in deployments'[e] : RowSound(y, now)'
    BY <1>8, <1>9, <1>10, Zenon DEF LaneInv
  <1>13. ~IsTerminal(r.snapshot)
    BY <1>9, Zenon DEF CanCertify, CanCertifyLive, IsTerminal
  <1>14. \A e \in DeploymentIds : ~IsUnresolved(e)'
    <2>1. \A e \in DeploymentIds \ {d} : ~IsUnresolved(e)
      BY <1>13, Zenon DEF LaneInv, OneUnresolved, IsUnresolved
    <2> QED
      BY <1>8, <1>10, <2>1, Zenon DEF IsUnresolved, IsTerminal
  <1>15. OneUnresolved' /\ DrainStaysClosed' /\ PreviousIsOnRecord'
    <2>1. \A e \in DeploymentIds : \A y \in deployments'[e] : IsTerminal(y.snapshot)
      BY <1>14, Zenon DEF IsUnresolved
    <2> QED
      BY <1>14, <2>1, Zenon DEF OneUnresolved, DrainStaysClosed, PreviousIsOnRecord,
                         PreDrain, IsTerminal
  <1>16. DrainServingStateIsValid(x)'
    BY <1>3, <1>6, <1>9, Durations DEF DrainServingStateIsValid
  <1>17. AttestedAttemptsAreOver'
    <2>1. a.attempt <= q.attempt /\ q.snapshot.lease = {}
      BY <1>3, <1>7, <1>8
    <2>2. ASSUME NEW b \in attestations
          PROVE  \E y \in deployments'[b.deployment] :
                     /\ b.attempt <= y.attempt
                     /\ y.snapshot.lease # {} => b.attempt < y.attempt
      <3>1. PICK y \in deployments[b.deployment] :
                /\ b.attempt <= y.attempt
                /\ y.snapshot.lease # {} => b.attempt < y.attempt
        BY <2>2, Zenon DEF LaneInv, AttestedAttemptsAreOver
      <3>2. b.deployment \in DeploymentIds
        BY <1>3, <2>2, Zenon DEF TypeOK
      <3>3. CASE b.deployment = d
        BY <1>3, <1>8, <1>10, <3>1, <3>3, Zenon
      <3>4. CASE b.deployment # d
        BY <1>10, <3>1, <3>2, <3>4, Zenon
      <3> QED
        BY <3>3, <3>4, Zenon
    <2> QED
      BY <1>7, <1>9, <1>10, <2>1, <2>2, Zenon DEF AttestedAttemptsAreOver
  <1>18. ServingIsCertified'
    <2>1. CertifiedBy(x, q)'
      BY <1>4, <1>6, <1>7, <1>8, <1>9, Zenon DEF CertifiedBy
    <2> QED
      BY <1>6, <1>9, <1>10, <2>1 DEF ServingIsCertified, CertifiedBy
  <1> QED
    BY <1>6, <1>9, <1>10, <1>11, <1>12, <1>15, <1>16, <1>17, <1>18, Zenon DEF LaneInv

\* A write to the serving row that keeps whom it serves, never starts to serve
\* again and ends no earlier than now preserves the invariant.
LEMMA LeaseStep ==
    ASSUME LaneInv, NEW x \in serving, NEW y \in ServingLeaseRow,
           y.deployment = x.deployment, y.generation = x.generation,
           y.process = x.process, y.attestation = x.attestation,
           y.acquiredAt = x.acquiredAt,
           DrainServingStateIsValid(y), LeaseEnd(y) >= now,
           IsServing(y) => IsServing(x),
           serving' = {y}, UNCHANGED <<now, authority, deployments, attestations>>
    PROVE  LaneInv'
  <1>1. /\ TypeOK /\ serving = {x} /\ x \in ServingLeaseRow /\ now \in Nat
    BY OneServing, Durations, Zenon DEF LaneInv
  <1>2. TypeOK'
    BY <1>1, OptionOne, Zenon DEF TypeOK
  <1>3. \A s : IsServing(s)' <=> IsServing(s)
    BY Zenon DEF IsServing
  <1>4. DrainServingStateIsValid(y)'
    BY Zenon DEF DrainServingStateIsValid
  <1>5. \A d \in DeploymentIds : \A r \in deployments'[d] : RowSound(r, now)'
    BY Zenon DEF LaneInv
  <1>6. OneUnresolved' /\ AttestedAttemptsAreOver'
    BY Zenon DEF LaneInv, OneUnresolved, IsUnresolved, AttestedAttemptsAreOver
  <1>7. PreviousIsOnRecord'
    <2> SUFFICES ASSUME NEW d \in DeploymentIds, NEW r \in deployments[d],
                        r.snapshot.phase \in PreDrain
                 PROVE  PreviousOnRecord(d, r)'
      BY Zenon DEF PreviousIsOnRecord
    <2>1. PreviousOnRecord(d, r)
      BY Zenon DEF LaneInv, PreviousIsOnRecord
    <2>2. LeaseEnd(y) >= r.snapshot.requestedAt
      <3>1. LeaseEnd(y) \in Nat
        BY Zenon DEF LeaseEnd, ServingLeaseRow, Time
      <3>2. r.snapshot.requestedAt \in Nat /\ r.snapshot.requestedAt <= now
        BY RowFields, Zenon DEF LaneInv, RowSound, Timely, Snapshot, Time
      <3> QED
        BY <1>1, <3>1, <3>2
    <2> QED
      BY <1>1, <2>1, <2>2, Zenon DEF PreviousOnRecord
  <1>8. ServingIsCertified'
    <2>1. SUFFICES ASSUME IsServing(y)
                   PROVE  \E r \in deployments[y.deployment] : CertifiedBy(y, r)'
      BY <1>3, <2>1 DEF ServingIsCertified, CertifiedBy
    <2>2. PICK r \in deployments[x.deployment] : CertifiedBy(x, r)
      BY <2>1, Zenon DEF LaneInv, ServingIsCertified, CertifiedBy
    <2>3. CertifiedBy(y, r)'
      BY <2>2, Zenon DEF CertifiedBy
    <2> QED
      BY <2>2, <2>3, Zenon
  <1>9. DrainStaysClosed'
    BY <1>1, <1>3, Zenon DEF LaneInv, DrainStaysClosed
  <1> QED
    BY <1>1, <1>2, <1>4, <1>5, <1>6, <1>7, <1>8, <1>9, Zenon DEF LaneInv

\* heartbeat_serving leaves a sound lane: only a lease that is served goes on.
LEMMA HeartbeatStep ==
    ASSUME LaneInv, NEW x \in serving, NEW i, HeartbeatServing(x, i)
    PROVE  LaneInv'
  <1>1. /\ IsServing(x)
        /\ serving' = {[x EXCEPT !.revision = @ + 1, !.heartbeatAt = now,
                                 !.expiresAt = now + ServingLease]}
        /\ UNCHANGED <<now, authority, deployments, attestations>>
    BY Zenon DEF HeartbeatServing
  <1>2. /\ TypeOK /\ x \in ServingLeaseRow /\ now \in Nat
        /\ ServingLease \in Nat /\ ServingLease > 0
    BY OneServing, Durations, Zenon DEF LaneInv
  <1>3. PICK y \in ServingLeaseRow :
            /\ serving' = {y}
            /\ y.deployment = x.deployment /\ y.generation = x.generation
            /\ y.process = x.process /\ y.attestation = x.attestation
            /\ y.acquiredAt = x.acquiredAt /\ y.connected = x.connected
            /\ y.heartbeatAt = now /\ y.expiresAt = now + ServingLease
    <2> DEFINE z == [x EXCEPT !.revision = @ + 1, !.heartbeatAt = now,
                              !.expiresAt = now + ServingLease]
    <2>1. /\ z \in ServingLeaseRow
          /\ z.deployment = x.deployment /\ z.generation = x.generation
          /\ z.process = x.process /\ z.attestation = x.attestation
          /\ z.acquiredAt = x.acquiredAt /\ z.connected = x.connected
          /\ z.heartbeatAt = now /\ z.expiresAt = now + ServingLease
      <3>1. z = [x EXCEPT !.revision = x.revision + 1, !.heartbeatAt = now,
                          !.expiresAt = now + ServingLease]
        BY <1>2, Zenon DEF ServingLeaseRow
      <3>2. x.revision + 1 \in Nat /\ now + ServingLease \in Nat
        BY <1>2 DEF ServingLeaseRow
      <3> HIDE DEF z
      <3> QED
        BY <1>2, <3>1, <3>2, Zenon DEF ServingLeaseRow, Time
    <2>2. serving' = {z}
      BY <1>1, Zenon
    <2> HIDE DEF z
    <2> QED
      BY <2>1, <2>2, Zenon
  <1>4. DrainServingStateIsValid(x) /\ x.connected = TRUE /\ x.acquiredAt \in Nat
    BY <1>1, <1>2, Zenon DEF LaneInv, IsServing, ServingLeaseRow, Time
  <1>5. DrainServingStateIsValid(y) /\ LeaseEnd(y) >= now
    BY <1>2, <1>3, <1>4 DEF DrainServingStateIsValid, LeaseEnd
  <1> QED
    BY <1>1, <1>3, <1>5, LeaseStep, Zenon

\* mark_serving_disconnected leaves a sound lane, whoever calls it.
LEMMA DisconnectStep ==
    ASSUME LaneInv, NEW x \in serving, NEW i, MarkServingDisconnected(x, i)
    PROVE  LaneInv'
  <1>1. /\ serving' = {Disconnected(x)}
        /\ UNCHANGED <<now, authority, deployments, attestations>>
    BY Zenon DEF MarkServingDisconnected
  <1>2. TypeOK /\ x \in ServingLeaseRow /\ now \in Nat
    BY OneServing, Durations, Zenon DEF LaneInv
  <1>3. PICK y \in ServingLeaseRow :
            /\ serving' = {y}
            /\ y.deployment = x.deployment /\ y.generation = x.generation
            /\ y.process = x.process /\ y.attestation = x.attestation
            /\ y.acquiredAt = x.acquiredAt /\ y.connected = FALSE
            /\ y.heartbeatAt = now /\ y.expiresAt = now
    <2> DEFINE z == Disconnected(x)
    <2>1. /\ z \in ServingLeaseRow
          /\ z.deployment = x.deployment /\ z.generation = x.generation
          /\ z.process = x.process /\ z.attestation = x.attestation
          /\ z.acquiredAt = x.acquiredAt /\ z.connected = FALSE
          /\ z.heartbeatAt = now /\ z.expiresAt = now
      <3>1. z = [x EXCEPT !.revision = x.revision + 1, !.connected = FALSE,
                          !.heartbeatAt = now, !.expiresAt = now]
        BY <1>2, Zenon DEF Disconnected, ServingLeaseRow
      <3>2. x.revision + 1 \in Nat
        BY <1>2 DEF ServingLeaseRow
      <3> HIDE DEF z
      <3> QED
        BY <1>2, <3>1, <3>2, Zenon DEF ServingLeaseRow, Time
    <2> QED
      BY <1>1, <2>1, Zenon
  <1>4. x.acquiredAt <= now
    BY Zenon DEF LaneInv, DrainServingStateIsValid
  <1>5. /\ DrainServingStateIsValid(y) /\ LeaseEnd(y) >= now /\ ~IsServing(y)
    BY <1>2, <1>3, <1>4 DEF DrainServingStateIsValid, LeaseEnd, IsServing
  <1> QED
    BY <1>1, <1>3, <1>5, LeaseStep, Zenon

\* recover_locked leaves a sound lane: the lease that served the deployment is
\* lost, and no other deployment took the lane.
LEMMA RecoverStaleLiveStep ==
    ASSUME LaneInv, NEW x \in serving, NEW i, RecoverStaleLive(x, i)
    PROVE  LaneInv'
  <1> DEFINE d == i.deployment
             P(r, loss) ==
                 [revision |-> r.snapshot.revision,
                  generation |-> r.snapshot.generation, process |-> i.process,
                  kind |-> loss.kind, evidenceAt |-> loss.at, recoveredAt |-> now]
  <1>1. PICK r \in deployments[d], loss \in Loss(x) :
            /\ MatchesServing(x, i)
            /\ r.attempt > 0
            /\ r.snapshot.phase = "Live"
            /\ \A e \in DeploymentIds \ {d} : ~IsUnresolved(e)
            /\ CanRecoverLive(r.snapshot, P(r, loss))
            /\ Persist(d, [r EXCEPT !.snapshot = RecoverLive(r.snapshot, P(r, loss)),
                                    !.attestation = {}])
            /\ UNCHANGED <<now, authority, serving, attestations>>
    BY Zenon DEF RecoverStaleLive
  <1>2. /\ TypeOK /\ serving = {x} /\ x \in ServingLeaseRow
        /\ d \in DeploymentIds /\ now \in Nat
    BY <1>1, OneServing, Durations, Zenon
    DEF LaneInv, MatchesServing, MatchesExceptRevision, ServingLeaseRow
  <1>3. /\ deployments[d] = {r} /\ RowSound(r, now) /\ IndInv(r.snapshot)
        /\ r \in Row /\ r.snapshot \in Snapshot
        /\ r.attempt \in Nat
    BY <1>2, OneRow, RowFields, Zenon DEF LaneInv, RowSound
  <1>4. /\ ~IsServing(x)
        /\ loss.kind \in {"ServingLeaseExpired", "ServingDisconnected"}
        /\ loss.at \in Time
    <2>1. x.expiresAt \in Nat /\ x.heartbeatAt \in Nat
      BY <1>2, Zenon DEF ServingLeaseRow, Time
    <2> QED
      BY <1>1, <1>2, <2>1 DEF Loss, IsServing, Time
  <1> DEFINE p == P(r, loss)
             e == RecoverLive(r.snapshot, p)
             q == [r EXCEPT !.snapshot = e, !.attestation = {}]
  <1>5. /\ p.kind = loss.kind /\ p.evidenceAt = loss.at /\ p.recoveredAt = now
        /\ CanRecoverLive(r.snapshot, p) /\ Persist(d, q)
    BY <1>1, Zenon
  <1> HIDE DEF P, p
  <1>6. IndInv(e)
    BY <1>2, <1>3, <1>4, <1>5, RecoverLiveInv, Zenon DEF Time
  <1>7. /\ e.phase = "RuntimePending" /\ e.condition = r.snapshot.condition
        /\ e.lease = r.snapshot.lease /\ e.lastToken = r.snapshot.lastToken
        /\ e.failure = r.snapshot.failure
        /\ \A l \in e.recovery : l.recoveredAt = now
        /\ SameRequest(r.snapshot, e) /\ SameAcceptance(r.snapshot, e)
    <2> DEFINE L == {[prior |-> l, kind |-> p.kind, evidenceAt |-> p.evidenceAt,
                      recoveredAt |-> p.recoveredAt] : l \in r.snapshot.live}
    <2>1. e = Advance([ClearRuntimeEvidence(r.snapshot) EXCEPT !.recovery = L],
                      "RuntimePending")
      BY Zenon DEF RecoverLive, LoseLive
    <2>2. \A l \in L : l.recoveredAt = now
      BY <1>5
    <2> HIDE DEF L, e
    <2> QED
      BY <1>3, <2>1, <2>2, Zenon DEF Advance, ClearRuntimeEvidence, Snapshot,
                              SameRequest, SameAcceptance
  <1>8. r.snapshot.lease = {} /\ r.snapshot.condition = {}
    BY <1>1, <1>3, Zenon DEF IndInv, ValidSnapshot, ValidLease, Coherent, IsTerminal
  <1> HIDE DEF e
  <1>9. /\ q \in Row /\ q.snapshot = e /\ q.attempt = r.attempt
        /\ q.failureAttempt = r.failureAttempt
        /\ q.lastController = r.lastController
    <2>1. e \in Snapshot
      BY <1>6, Zenon DEF IndInv
    <2> QED
      BY <1>3, <2>1, OptionEmpty, Zenon DEF Row
  <1> HIDE DEF q
  <1>10. RowSound(q, now)
    <2>1. Timely(e, now)
      BY <1>2, <1>3, <1>7 DEF RowSound, Timely, SameRequest, SameAcceptance
    <2>2. ValidAttemptProjection(q)
      BY <1>1, <1>3, <1>7, <1>9 DEF RowSound, ValidAttemptProjection
    <2>3. ValidLastController(q)
      BY <1>3, <1>7, <1>9, Zenon DEF RowSound, ValidLastController
    <2>4. RetrySound(q, now)
      BY <1>1, <1>3, <1>7, <1>8, <1>9, Zenon DEF RowSound, RetrySound
    <2> QED
      BY <1>6, <1>9, <2>1, <2>2, <2>3, <2>4, Zenon DEF RowSound
  <1>11. \A y \in deployments[d] : AttemptMoves(y, q)
    BY <1>3, <1>7, <1>8, <1>9 DEF AttemptMoves
  <1>12. q.snapshot.phase \notin PreDrain
    BY <1>7, <1>9, Zenon DEF PreDrain
  <1> HIDE DEF d
  <1> QED
    BY <1>1, <1>2, <1>4, <1>5, <1>10, <1>11, <1>12, LaneStep, Zenon

-----------------------------------------------------------------------------
(* Every step preserves the invariant.                                     *)

\* The clock moves on: what is served may stop, and nothing starts to serve.
LEMMA TickStep ==
    ASSUME LaneInv, Tick
    PROVE  LaneInv'
  <1>1. /\ TypeOK /\ now \in Nat /\ MaxTime \in Nat /\ now' \in Nat
        /\ now' = now + 1 /\ now <= now' /\ now' <= MaxTime
        /\ UNCHANGED <<authority, deployments, serving, attestations>>
    BY Durations DEF LaneInv, Tick
  <1>2. TypeOK'
    BY <1>1, Zenon DEF TypeOK, Time
  <1>3. \A s \in serving : s \in ServingLeaseRow
    BY <1>1, OneServing, Zenon
  <1>4. \A s \in serving : IsServing(s)' => IsServing(s)
    BY <1>1, <1>3 DEF IsServing, ServingLeaseRow, Time
  <1>5. \A s \in serving : DrainServingStateIsValid(s)'
    BY <1>1, <1>3 DEF LaneInv, DrainServingStateIsValid, ServingLeaseRow, Time
  <1>6. \A d \in DeploymentIds : \A r \in deployments'[d] : RowSound(r, now')
    BY <1>1, RowSoundLater, Zenon DEF LaneInv
  <1>7. OneUnresolved' /\ AttestedAttemptsAreOver'
    BY <1>1, Zenon DEF LaneInv, OneUnresolved, IsUnresolved, AttestedAttemptsAreOver
  <1>8. PreviousIsOnRecord'
    <2>1. \A e, x : PreviousOnRecord(e, x)' <=> PreviousOnRecord(e, x)
      BY <1>1, Zenon DEF PreviousOnRecord, LeaseEnd
    <2> QED
      BY <1>1, <2>1, Zenon DEF LaneInv, PreviousIsOnRecord
  <1>9. ServingIsCertified'
    BY <1>1, <1>4, Zenon DEF LaneInv, ServingIsCertified
  <1>10. DrainStaysClosed'
    BY <1>1, <1>4, Zenon DEF LaneInv, DrainStaysClosed
  <1> QED
    BY <1>1, <1>2, <1>5, <1>6, <1>7, <1>8, <1>9, <1>10, Zenon DEF LaneInv

\* A step that changes the authority alone, or nothing, changes nothing that the
\* invariant speaks of.
LEMMA AuthorityStep ==
    ASSUME LaneInv, authority' \in DeploymentIds \cup {NoDeployment},
           UNCHANGED <<now, deployments, serving, attestations>>
    PROVE  LaneInv'
  <1>1. TypeOK'
    BY Zenon DEF LaneInv, TypeOK
  <1>2. \A s : IsServing(s)' <=> IsServing(s)
    BY Zenon DEF IsServing
  <1>3. \A s \in serving' : DrainServingStateIsValid(s)'
    BY Zenon DEF LaneInv, DrainServingStateIsValid
  <1>4. \A d \in DeploymentIds : \A r \in deployments'[d] : RowSound(r, now)'
    BY Zenon DEF LaneInv
  <1>5. OneUnresolved' /\ AttestedAttemptsAreOver'
    BY Zenon DEF LaneInv, OneUnresolved, IsUnresolved, AttestedAttemptsAreOver
  <1>6. PreviousIsOnRecord'
    <2>1. \A e, x : PreviousOnRecord(e, x)' <=> PreviousOnRecord(e, x)
      BY Zenon DEF PreviousOnRecord, LeaseEnd
    <2> QED
      BY <2>1, Zenon DEF LaneInv, PreviousIsOnRecord
  <1>7. ServingIsCertified'
    BY <1>2, Zenon DEF LaneInv, ServingIsCertified
  <1>8. DrainStaysClosed'
    BY <1>2, Zenon DEF LaneInv, DrainStaysClosed
  <1> QED
    BY <1>1, <1>3, <1>4, <1>5, <1>6, <1>7, <1>8, Zenon DEF LaneInv

\* Every step preserves the invariant, one case per store method.
LEMMA LaneNext ==
    ASSUME LaneInv, [Next]_vars
    PROVE  LaneInv'
  <1>1. CASE Tick
    BY <1>1, TickStep, Zenon
  <1>2. CASE MoveAuthority
    BY <1>2, AuthorityStep, Zenon DEF MoveAuthority
  <1>3. ASSUME NEW d \in DeploymentIds, Enqueue(d) PROVE LaneInv'
    BY <1>3, EnqueueStep, Zenon
  <1>4. ASSUME NEW d \in DeploymentIds, Claim(d) PROVE LaneInv'
    BY <1>4, ClaimStep, Zenon
  <1>5. ASSUME NEW d \in DeploymentIds, Renew(d) PROVE LaneInv'
    BY <1>5, RenewStep, Zenon
  <1>6. ASSUME NEW d \in DeploymentIds, RecoverBlockedForOperator(d) PROVE LaneInv'
    BY <1>6, RecoverBlockedStep, Zenon
  <1>7. ASSUME NEW d \in DeploymentIds, Mutate(d) PROVE LaneInv'
    BY <1>7, MutateStep, Zenon
  <1>8. ASSUME NEW d \in DeploymentIds, CertifyServing(d) PROVE LaneInv'
    BY <1>8, CertifyServingStep, Zenon
  <1>9. ASSUME NEW x \in serving, NEW i, HeartbeatServing(x, i) PROVE LaneInv'
    BY <1>9, HeartbeatStep, Zenon
  <1>10. ASSUME NEW x \in serving, NEW i, MarkServingDisconnected(x, i)
         PROVE  LaneInv'
    BY <1>10, DisconnectStep, Zenon
  <1>11. ASSUME NEW x \in serving, NEW i, RecoverStaleLive(x, i) PROVE LaneInv'
    BY <1>11, RecoverStaleLiveStep, Zenon
  <1>12. CASE UNCHANGED vars
    <2>1. authority \in DeploymentIds \cup {NoDeployment}
      BY Zenon DEF LaneInv, TypeOK
    <2> QED
      BY <1>12, <2>1, AuthorityStep, Zenon DEF vars
  <1> QED
    BY <1>1, <1>2, <1>3, <1>4, <1>5, <1>6, <1>7, <1>8, <1>9, <1>10, <1>11, <1>12, Zenon
    DEF Next

\* The invariant holds of the empty lane.
LEMMA LaneInit ==
    ASSUME Init
    PROVE  LaneInv
  <1>1. /\ now = 0 /\ serving = {} /\ attestations = {}
        /\ authority \in DeploymentIds
        /\ deployments = [d \in DeploymentIds |-> {}]
        /\ \A d \in DeploymentIds : deployments[d] = {}
    BY Zenon DEF Init
  <1>2. TypeOK
    <2>1. deployments \in [DeploymentIds -> Option(Row)]
      BY <1>1, OptionEmpty, Zenon
    <2>2. serving \in Option(ServingLeaseRow)
      BY <1>1, OptionEmpty, Zenon
    <2> QED
      BY <1>1, <2>1, <2>2, Zenon DEF TypeOK, Time
  <1>3. now <= MaxTime
    BY <1>1, DurationAssumption
  <1>4. OneUnresolved /\ AttestedAttemptsAreOver /\ PreviousIsOnRecord
    BY <1>1, Zenon DEF OneUnresolved, IsUnresolved, AttestedAttemptsAreOver,
                PreviousIsOnRecord
  <1>5. ServingIsCertified /\ DrainStaysClosed
    BY <1>1, Zenon DEF ServingIsCertified, DrainStaysClosed
  <1> QED
    BY <1>1, <1>2, <1>3, <1>4, <1>5, Zenon DEF LaneInv

\* The inductive invariant holds in every reachable state.
THEOREM LaneInvariance == Spec => []LaneInv
  <1>1. Init => LaneInv
    BY LaneInit, Zenon
  <1>2. LaneInv /\ [Next]_vars => LaneInv'
    BY LaneNext, Zenon
  <1> QED
    BY <1>1, <1>2, PTL DEF Spec

-----------------------------------------------------------------------------
(* The properties.                                                         *)

\* Every table keeps its type: one row per deployment, one serving row for the
\* lane, and every attestation tied to a deployment, a revision and an attempt.
THEOREM LaneTyped == Spec => []TypeOK
  <1>1. LaneInv => TypeOK
    BY Zenon DEF LaneInv
  <1> QED
    BY <1>1, LaneInvariance, PTL

\* Every row that any interleaving of the store's methods writes is one that
\* decode_inner and ServingLeaseRow::validate accept.
THEOREM RowDecodesAlways == Spec => []RowDecodes
  <1>1. LaneInv => RowDecodes
    BY Zenon DEF LaneInv, RowDecodes, RowSound, IndInv
  <1> QED
    BY <1>1, LaneInvariance, PTL

\* While the lane's lease is served, its deployment is Live under the lease's
\* attestation, in its process, and the attestation is on record.
THEOREM ServingIsCertifiedAlways == Spec => []ServingIsCertified
  <1>1. LaneInv => ServingIsCertified
    BY Zenon DEF LaneInv
  <1> QED
    BY <1>1, LaneInvariance, PTL

\* From an accepted drain until the deployment is certified or ends, nobody
\* serves the lane, whatever heartbeat, recovery or certification is late.
THEOREM DrainStaysClosedAlways == Spec => []DrainStaysClosed
  <1>1. LaneInv => DrainStaysClosed
    BY Zenon DEF LaneInv
  <1> QED
    BY <1>1, LaneInvariance, PTL

\* A failed runtime is worked on again only in a later attempt, and not before
\* the failure's retry time.
THEOREM RetryDisciplineAlways == Spec => []RetryDiscipline
  <1>1. LaneInv => RetryDiscipline
    <2> SUFFICES ASSUME LaneInv, NEW d \in DeploymentIds, NEW r \in deployments[d],
                        NEW f \in r.snapshot.failure,
                        r.snapshot.phase \in {"ReconcilingPanels",
                                              "AwaitingGatewayReady", "Live"}
                 PROVE  r.attempt > r.failureAttempt /\ f.retryAt <= now
      BY Zenon DEF RetryDiscipline
    <2>1. RowSound(r, now)
      BY Zenon DEF LaneInv
    <2>2. r.snapshot.condition = {}
      BY <2>1, Zenon DEF RowSound, IndInv, Coherent
    <2> QED
      BY <2>1, <2>2, Zenon DEF RowSound, RetrySound
  <1> QED
    BY <1>1, LaneInvariance, PTL

-----------------------------------------------------------------------------
(* The holder's progress.                                                  *)

\* A process can be replaced, and some panel report can be accepted.
ReplacementExists ==
    /\ \E p, q \in Processes : p # q
    /\ \E report \in Reports : PanelEligible(report)

\* Evidence can be dated as late as the clock and as any accepted evidence.
LEMMA LaterEvidence ==
    ASSUME TypeOK, now <= MaxTime, NEW floor \in Nat,
           floor <= now + Skew, floor <= MaxTime + Skew
    PROVE  \E at \in EvidenceTimes : at \in Nat /\ at >= now /\ at >= floor
  <1> DEFINE at == IF floor > now THEN floor ELSE now
  <1>1. /\ at \in 0 .. MaxTime + Skew
        /\ at <= now + Skew /\ at >= now /\ at >= floor /\ at \in Nat
    BY Durations
  <1> HIDE DEF at
  <1>2. at \in EvidenceTimes
    BY <1>1, Zenon DEF EvidenceTimes
  <1> QED
    BY <1>1, <1>2, Zenon

\* The clock's own time is a time of evidence, and of gateway readiness.
LEMMA EvidenceNow ==
    ASSUME TypeOK, now <= MaxTime
    PROVE  now \in EvidenceTimes /\ now \in ReadyTimes
  BY Durations DEF EvidenceTimes, ReadyTimes

\* Once nobody serves, assert_accept_drain_previous_serving accepts a drain that
\* is not older than the clock.
LEMMA PreviousCloses ==
    ASSUME LaneInv, NEW d \in DeploymentIds, NEW r \in deployments[d],
           r.snapshot.phase \in PreDrain, \A x \in serving : ~IsServing(x),
           NEW at \in Nat, at >= now
    PROVE  PreviousServingIsClosed(d, r, at)
  <1>1. TypeOK /\ now \in Nat /\ PreviousOnRecord(d, r)
    BY Durations, Zenon DEF LaneInv, PreviousIsOnRecord
  <1>2. ASSUME NEW s \in serving
        PROVE  /\ DrainServingStateIsValid(s)
               /\ ClosureBoundary(s) = {LeaseEnd(s)} /\ at >= LeaseEnd(s)
    <2>1. s \in ServingLeaseRow /\ DrainServingStateIsValid(s) /\ ~IsServing(s)
      BY <1>1, OneServing, Zenon DEF LaneInv
    <2>2. /\ s.expiresAt \in Nat /\ s.heartbeatAt \in Nat
          /\ s.connected \in BOOLEAN
      BY <2>1, Zenon DEF ServingLeaseRow, Time
    <2>3. CASE s.connected
      BY <1>1, <2>1, <2>2, <2>3 DEF ClosureBoundary, LeaseEnd, IsServing
    <2>4. CASE ~s.connected
      BY <1>1, <2>1, <2>2, <2>4
      DEF ClosureBoundary, LeaseEnd, DrainServingStateIsValid
    <2> QED
      BY <2>1, <2>2, <2>3, <2>4, Zenon
  <1> QED
    BY <1>1, <1>2, Zenon DEF PreviousServingIsClosed, PreviousOnRecord

\* What the holder of an unexpired lease presents is current.
LEMMA HolderSession ==
    ASSUME LaneInv, NEW d \in DeploymentIds, NEW r \in deployments[d],
           authority = d, NEW l \in r.snapshot.lease, l.expiresAt > now
    PROVE  \E s \in Sessions(r) : /\ CanExecute(d, r, s)
                                  /\ RequireGuard(r.snapshot, Guard(r, s))
  <1>1. /\ TypeOK /\ RowSound(r, now) /\ r \in Row /\ r.snapshot \in Snapshot
        /\ r.attempt \in Nat
    BY RowFields, Zenon DEF LaneInv, RowSound
  <1>2. l.controller \in Controllers /\ l.token = r.snapshot.lastToken
    BY <1>1, Zenon DEF Snapshot, Option, Lease, RowSound, IndInv, ValidSnapshot, ValidLease
  <1>3. r.attempt > 0
    <2>1. ASSUME r.attempt = 0 PROVE FALSE
      <3>1. r.snapshot = Request(r.snapshot.id, r.snapshot.generation,
                                 r.snapshot.previous, r.snapshot.requestedAt)
        BY <1>1, <2>1, Zenon DEF RowSound, ValidAttemptProjection
      <3>2. r.snapshot.lease = {}
        BY <3>1 DEF Request
      <3> QED
        BY <3>2, Zenon
    <2> QED
      BY <1>1, <2>1
  <1> DEFINE s == [controller |-> l.controller, token |-> r.snapshot.lastToken,
                   attempt |-> r.attempt, revision |-> r.snapshot.revision]
  <1>4. s \in Sessions(r)
    BY <1>2, Zenon DEF Sessions
  <1>5. CanExecute(d, r, s)
    BY <1>3, Zenon DEF CanExecute
  <1>6. RequireGuard(r.snapshot, Guard(r, s))
    BY <1>2, Zenon DEF RequireGuard, Guard
  <1> HIDE DEF s
  <1> QED
    BY <1>4, <1>5, <1>6, Zenon

\* Before the activation is accepted, the store accepts the holder's next step.
LEMMA ProgressToActivation ==
    ASSUME LaneInv, NEW d \in DeploymentIds, NEW r \in deployments[d],
           NEW s \in Sessions(r), CanExecute(d, r, s),
           RequireGuard(r.snapshot, Guard(r, s)),
           r.snapshot.phase \in {"Requested", "PreflightReady", "DrainRequested",
                                 "Drained", "ActivationApplying"},
           r.snapshot.phase = "DrainRequested" => \A x \in serving : ~IsServing(x)
    PROVE  HolderStep(d, r)
  <1>1. /\ TypeOK /\ now <= MaxTime /\ now \in Nat
        /\ RowSound(r, now) /\ r.snapshot \in Snapshot
        /\ ValidSnapshot(r.snapshot) /\ Timely(r.snapshot, now)
    BY RowFields, Durations, Zenon DEF LaneInv, RowSound, IndInv
  <1>2. CASE r.snapshot.phase = "Requested"
    <2>1. now \in EvidenceTimes
      BY <1>1, EvidenceNow, Zenon
    <2>2. ValidatePreflight(r.snapshot, Observe(r, now))
      BY <1>1, Zenon DEF ValidatePreflight, Observe, Timely, Snapshot, Time
    <2>3. CanAcceptPreflight(r.snapshot, Guard(r, s), Observe(r, now))
      BY <1>2, <2>2, Zenon DEF CanAcceptPreflight
    <2> QED
      BY <2>1, <2>3, Zenon DEF HolderStep
  <1>3. CASE r.snapshot.phase = "PreflightReady"
    BY <1>3, Zenon DEF HolderStep, CanRequestDrain
  <1>4. CASE r.snapshot.phase = "DrainRequested"
    <2>1. PICK p \in r.snapshot.preflight : p.at \in Nat
      <3>1. r.snapshot.preflight # {}
        BY <1>1, <1>4, EvidenceOfPhase, EvidenceCounts, Zenon
      <3>2. \A x \in r.snapshot.preflight : x.at \in Nat
        BY <1>1, Zenon DEF Snapshot, Option, PreflightAttestation, Time
      <3> QED
        BY <3>1, <3>2, Zenon
    <2>2. PICK at \in EvidenceTimes : at \in Nat /\ at >= now /\ at >= p.at
      BY <1>1, <2>1, LaterEvidence, Zenon DEF Timely
    <2>3. ValidateDrain(r.snapshot, Observe(r, at))
      BY <2>1, <2>2, Zenon DEF ValidateDrain, Observe
    <2>4. CanAcceptDrain(r.snapshot, Guard(r, s), Observe(r, at))
      BY <1>4, <2>3, Zenon DEF CanAcceptDrain
    <2>5. PreviousServingIsClosed(d, r, at)
      BY <1>4, <2>2, PreviousCloses, Zenon DEF PreDrain
    <2> QED
      BY <2>4, <2>5, Zenon DEF HolderStep
  <1>5. CASE r.snapshot.phase = "Drained"
    BY <1>5, Zenon DEF HolderStep, CanBeginActivation
  <1>6. CASE r.snapshot.phase = "ActivationApplying"
    <2>1. PICK p \in r.snapshot.drain : p.at \in Nat
      <3>1. r.snapshot.drain # {}
        BY <1>1, <1>6, EvidenceOfPhase, EvidenceCounts, Zenon
      <3>2. \A x \in r.snapshot.drain : x.at \in Nat
        BY <1>1, Zenon DEF Snapshot, Option, DrainAttestation, Time
      <3> QED
        BY <3>1, <3>2, Zenon
    <2>2. PICK at \in EvidenceTimes : at \in Nat /\ at >= now /\ at >= p.at
      BY <1>1, <2>1, LaterEvidence, Zenon DEF Timely
    <2>3. ValidateActivation(r.snapshot, Attest(r, at))
      BY <2>1, <2>2, Zenon DEF ValidateActivation, Attest
    <2>4. CanAcceptActivation(r.snapshot, Guard(r, s), Attest(r, at))
      BY <1>6, <2>3, Zenon DEF CanAcceptActivation
    <2> QED
      BY <2>4, Zenon DEF HolderStep
  <1> QED
    BY <1>2, <1>3, <1>4, <1>5, <1>6, Zenon

\* After the activation too: a failure that is due is resumed, panels are
\* certified in a process that is not the lost one, and the attempt's
\* attestation slot is free.
LEMMA ProgressToLive ==
    ASSUME LaneInv, ReplacementExists,
           NEW d \in DeploymentIds, NEW r \in deployments[d],
           NEW s \in Sessions(r), CanExecute(d, r, s),
           RequireGuard(r.snapshot, Guard(r, s)),
           r.snapshot.phase \in {"RuntimePending", "ReconcilingPanels",
                                 "AwaitingGatewayReady"},
           \A c \in r.snapshot.panel : c.at <= now
    PROVE  HolderStep(d, r)
  <1>1. /\ TypeOK /\ now <= MaxTime /\ now \in Nat /\ deployments[d] = {r}
        /\ RowSound(r, now) /\ r.snapshot \in Snapshot
        /\ ValidSnapshot(r.snapshot) /\ Coherent(r.snapshot)
        /\ Timely(r.snapshot, now)
    BY RowFields, OneRow, Durations, Zenon DEF LaneInv, RowSound, IndInv
  <1>2. /\ ~IsTerminal(r.snapshot) /\ r.snapshot.lease # {}
        /\ \A f \in r.snapshot.failure :
               r.attempt > r.failureAttempt /\ f.retryAt <= now
    BY <1>1, Holder, Zenon
  <1>3. CASE r.snapshot.phase = "RuntimePending" /\ r.snapshot.condition = {}
    BY <1>3, Zenon DEF HolderStep, CanBeginPanelReconciliation, IsReady
  <1>4. CASE r.snapshot.phase = "RuntimePending" /\ r.snapshot.condition # {}
    <2>1. r.snapshot.condition = r.snapshot.failure
      BY <1>1, <1>4, Zenon DEF ValidSnapshot, ValidPhaseEvidence
    <2>2. \A f \in r.snapshot.condition : f.disposition = "Retryable"
      <3>1. \A f \in r.snapshot.condition : f.disposition \in {"Retryable", "Blocked"}
        BY <1>1, Zenon DEF Snapshot, Option, Failure
      <3> QED
        BY <1>1, <1>2, <3>1, Zenon DEF Coherent, IsBlocked
    <2>3. \A f \in r.snapshot.condition : r.failureAttempt = f.attempt
      BY <1>1, <2>1, <2>2, Zenon DEF RowSound, ValidAttemptProjection
    <2>4. \A f \in r.snapshot.condition : now >= f.retryAt
      <3>1. \A f \in r.snapshot.condition : f.retryAt \in Nat
        BY <1>1, Zenon DEF Snapshot, Option, Failure, Time
      <3> QED
        BY <1>1, <1>2, <2>1, <3>1, Zenon
    <2>5. CanResume(r)
      BY <1>2, <2>1, <2>2, <2>3, <2>4, Zenon DEF CanResume
    <2> QED
      BY <1>4, <2>5, Zenon DEF HolderStep, CanResumeRuntimePending
  <1>5. CASE r.snapshot.phase = "ReconcilingPanels"
    <2>1. PICK a \in r.snapshot.activation : a.at \in Nat
      <3>1. r.snapshot.activation # {}
        BY <1>1, <1>5, EvidenceOfPhase, EvidenceCounts, Zenon
      <3>2. \A x \in r.snapshot.activation : x.at \in Nat
        BY <1>1, Zenon DEF Snapshot, Option, ActivationAttestation, Time
      <3> QED
        BY <3>1, <3>2, Zenon
    <2>2. PICK at \in EvidenceTimes : at \in Nat /\ at >= now /\ at >= a.at
      BY <1>1, <2>1, LaterEvidence, Zenon DEF Timely
    <2>3. PICK report \in Reports : PanelEligible(report)
      BY Zenon DEF ReplacementExists
    <2>4. PICK process \in Processes :
              \A l \in r.snapshot.recovery : process # l.prior.process
      <3>1. \A k, l \in r.snapshot.recovery : k = l
        BY <1>1, Zenon DEF Snapshot, Option
      <3> QED
        BY <3>1, Zenon DEF ReplacementExists
    <2>5. \A l \in r.snapshot.recovery : at >= l.recoveredAt
      <3>1. \A l \in r.snapshot.recovery : l.recoveredAt \in Nat
        BY <1>1, Zenon DEF Snapshot, Option, LiveRecovery, Time
      <3> QED
        BY <1>1, <2>2, <3>1 DEF Timely
    <2> DEFINE c == [generation |-> r.snapshot.generation, process |-> process,
                     report |-> report, at |-> at]
    <2>6. ValidatePanelCertificate(r.snapshot, c)
      BY <2>1, <2>2, <2>3, <2>4, <2>5, Zenon DEF ValidatePanelCertificate
    <2>7. CanAcceptPanelCertificate(r.snapshot, Guard(r, s), c)
      BY <1>5, <2>6, Zenon DEF CanAcceptPanelCertificate
    <2>8. \E x \in Processes, y \in Reports :
              CanAcceptPanelCertificate(r.snapshot, Guard(r, s),
                  [generation |-> r.snapshot.generation,
                   process |-> x, report |-> y, at |-> at])
      BY <2>3, <2>4, <2>7, Zenon
    <2> QED
      BY <2>2, <2>8, Zenon DEF HolderStep
  <1>6. CASE r.snapshot.phase = "AwaitingGatewayReady"
    <2>1. PICK p \in r.snapshot.panel : r.snapshot.panel = {p} /\ p \in PanelCertificate
      <3>1. r.snapshot.panel # {}
        BY <1>1, <1>6, EvidenceOfPhase, EvidenceCounts, Zenon
      <3>2. r.snapshot.panel \in SUBSET PanelCertificate
        BY <1>1, Zenon DEF Snapshot, Option
      <3>3. \A x, y \in r.snapshot.panel : x = y
        BY <1>1, Zenon DEF Snapshot, Option
      <3> QED
        BY <3>1, <3>2, <3>3, Zenon
    <2>2. p.process \in Processes /\ p.at \in Nat /\ p.at <= now
      BY <2>1, Zenon DEF PanelCertificate, Time
    <2>3. now \in ReadyTimes
      BY <1>1, EvidenceNow, Zenon
    <2> DEFINE ready == [generation |-> r.snapshot.generation,
                         process |-> p.process, at |-> now]
    <2>4. CanCertifyLive(r.snapshot, Guard(r, s), ready, now)
      <3>1. ready.generation = r.snapshot.generation /\ ready.process = p.process
            /\ ready.at = now
        BY Zenon
      <3>2. now >= now /\ now >= p.at
        BY <1>1, <2>2
      <3> HIDE DEF ready
      <3> QED
        BY <1>1, <1>6, <2>1, <3>1, <3>2, Zenon DEF CanCertifyLive, ValidateGatewayReady
    <2>5. AttestationSlotIsFree(d, r)
      <3> SUFFICES ASSUME NEW a \in attestations, a.deployment = d,
                          a.attempt = r.attempt
                   PROVE  FALSE
        BY Zenon DEF AttestationSlotIsFree
      <3>1. a.attempt < r.attempt
        BY <1>1, <1>2, Zenon DEF LaneInv, AttestedAttemptsAreOver
      <3>2. r.attempt \in Nat
        BY <1>1, RowFields, Zenon DEF RowSound
      <3> QED
        BY <3>1, <3>2
    <2>6. \A x \in serving : ~IsServing(x)
      <3>1. r.snapshot.drain # {}
        BY <1>1, <1>6, EvidenceOfPhase, EvidenceCounts, Zenon
      <3> QED
        BY <1>2, <3>1, Zenon DEF LaneInv, DrainStaysClosed
    <2>7. CanCertify(d, r, s, ready)
      BY <2>4, <2>5, <2>6, Zenon DEF CanCertify
    <2>8. \E x \in Processes :
              CanCertify(d, r, s, [generation |-> r.snapshot.generation,
                                   process |-> x, at |-> now])
      BY <2>2, <2>7, Zenon
    <2> QED
      BY <2>3, <2>8, Zenon DEF HolderStep
  <1> QED
    BY <1>3, <1>4, <1>5, <1>6, Zenon

\* The holder of an unexpired lease on the current target is never stuck: the
\* store accepts the next step of whatever phase the deployment is in, provided
\* that a lost process can be replaced and some panel report is acceptable.
THEOREM HolderCanProgressAlways ==
    ASSUME ReplacementExists
    PROVE  Spec => []HolderCanProgress
  <1>1. LaneInv => HolderCanProgress
    <2> SUFFICES ASSUME LaneInv,
                        NEW d \in DeploymentIds, NEW r \in deployments[d],
                        authority = d, ~IsTerminal(r.snapshot),
                        NEW l \in r.snapshot.lease, l.expiresAt > now,
                        r.snapshot.phase = "DrainRequested" =>
                            \A x \in serving : ~IsServing(x),
                        \A c \in r.snapshot.panel : c.at <= now
                 PROVE  HolderStep(d, r)
      BY Zenon DEF HolderCanProgress
    <2>1. PICK s \in Sessions(r) : /\ CanExecute(d, r, s)
                                   /\ RequireGuard(r.snapshot, Guard(r, s))
      BY HolderSession, Zenon
    <2>2. r.snapshot.phase \in Phases \ {"Live", "Superseded", "Cancelled"}
      BY RowFields, Zenon DEF LaneInv, RowSound, Snapshot, IsTerminal
    <2>3. \/ r.snapshot.phase \in {"Requested", "PreflightReady", "DrainRequested",
                                   "Drained", "ActivationApplying"}
          \/ r.snapshot.phase \in {"RuntimePending", "ReconcilingPanels",
                                   "AwaitingGatewayReady"}
      BY <2>2, Zenon DEF Phases
    <2> QED
      BY <2>1, <2>3, ProgressToActivation, ProgressToLive, Zenon
  <1> QED
    BY <1>1, LaneInvariance, PTL

-----------------------------------------------------------------------------
(* The refinement of ServingLane.                                          *)

\* No attestation is newer than the row of its deployment, so the revision of
\* the next write has never been attested.
AttestedRevisions ==
    \A a \in attestations : \A r \in deployments[a.deployment] :
        a.revision <= r.snapshot.revision

\* A step that writes one row, at its next revision and not Live, and nothing
\* else that the refinement reads.
WritesRow(d) ==
    \E q : /\ Persist(d, q) /\ q.snapshot.phase # "Live"
           /\ \A r \in deployments[d] :
                  q.snapshot.revision = r.snapshot.revision + 1
           /\ UNCHANGED <<now, serving, attestations>>

\* certify_live moves a deployment to its next revision, Live.
LEMMA CertifiedRevision ==
    ASSUME NEW d \in Snapshot, NEW a, NEW at
    PROVE  /\ CertifyLive(d, a, at).revision = d.revision + 1
           /\ CertifyLive(d, a, at).phase = "Live"
  <1> DEFINE L == {[generation |-> d.generation, process |-> a.process,
                    activation |-> x, panel |-> c, gateway |-> a, at |-> at] :
                   x \in d.activation, c \in d.panel}
  <1>1. CertifyLive(d, a, at) = [Advance(d, "Live") EXCEPT
                                     !.gateway = {a}, !.live = L, !.lease = {}]
    BY DEF CertifyLive
  <1> HIDE DEF L
  <1> QED
    BY <1>1, Zenon DEF Advance, Snapshot

\* recover_live moves a deployment to its next revision.
LEMMA RecoveredRevision ==
    ASSUME NEW d \in Snapshot, NEW q
    PROVE  /\ RecoverLive(d, q).revision = d.revision + 1
           /\ RecoverLive(d, q).phase # "Live"
  <1> DEFINE L == {[prior |-> l, kind |-> q.kind, evidenceAt |-> q.evidenceAt,
                    recoveredAt |-> q.recoveredAt] : l \in d.live}
  <1>1. RecoverLive(d, q)
            = Advance([ClearRuntimeEvidence(d) EXCEPT !.recovery = L], "RuntimePending")
    BY Zenon DEF RecoverLive, LoseLive
  <1> HIDE DEF L
  <1> QED
    BY <1>1, Zenon DEF ClearRuntimeEvidence, Advance, Snapshot

\* Both endings move a deployment to its next revision.
LEMMA EndedRevision ==
    ASSUME NEW d \in Snapshot, NEW x, NEW at
    PROVE  /\ Supersede(d, x, at).revision = d.revision + 1
           /\ Supersede(d, x, at).phase # "Live"
           /\ Cancel(d, at).revision = d.revision + 1
           /\ Cancel(d, at).phase # "Live"
  BY Zenon DEF Supersede, Cancel, End, Advance, Snapshot

\* Every other command moves a deployment to its next revision.  None of them
\* makes it Live.
LEMMA NextRevision ==
    ASSUME NEW d \in Snapshot
    PROVE  /\ \A p : /\ Advance(d, p).revision = d.revision + 1
                     /\ Advance(d, p).phase = p
           /\ \A a : /\ AcceptPreflight(d, a).revision = d.revision + 1
                     /\ AcceptPreflight(d, a).phase # "Live"
           /\ \A a : /\ AcceptDrain(d, a).revision = d.revision + 1
                     /\ AcceptDrain(d, a).phase # "Live"
           /\ \A a : /\ AcceptActivation(d, a).revision = d.revision + 1
                     /\ AcceptActivation(d, a).phase # "Live"
           /\ \A f : /\ RecordFailure(d, f).revision = d.revision + 1
                     /\ RecordFailure(d, f).phase # "Live"
           /\ ResumeRuntimePending(d).revision = d.revision + 1
           /\ ResumeRuntimePending(d).phase # "Live"
           /\ \A c : /\ AcceptPanelCertificate(d, c).revision = d.revision + 1
                     /\ AcceptPanelCertificate(d, c).phase # "Live"
           /\ \A q : /\ InstallLease(d, q).revision = d.revision + 1
                     /\ InstallLease(d, q).phase = d.phase
           /\ \A q : /\ RecoverBlocked(d, q).revision = d.revision + 1
                     /\ RecoverBlocked(d, q).phase = d.phase
  <1>1. \A p : /\ Advance(d, p).revision = d.revision + 1
               /\ Advance(d, p).phase = p
    BY Zenon DEF Advance, Snapshot
  <1>2. \A a : /\ AcceptPreflight(d, a).revision = d.revision + 1
               /\ AcceptPreflight(d, a).phase # "Live"
    BY Zenon DEF AcceptPreflight, Advance, Snapshot
  <1>3. \A a : /\ AcceptDrain(d, a).revision = d.revision + 1
               /\ AcceptDrain(d, a).phase # "Live"
    BY Zenon DEF AcceptDrain, Advance, Snapshot
  <1>4. \A a : /\ AcceptActivation(d, a).revision = d.revision + 1
               /\ AcceptActivation(d, a).phase # "Live"
    BY Zenon DEF AcceptActivation, Advance, Snapshot
  <1>5. \A f : /\ RecordFailure(d, f).revision = d.revision + 1
               /\ RecordFailure(d, f).phase # "Live"
    BY Zenon DEF RecordFailure, ClearRuntimeEvidence, Advance, Snapshot
  <1>6. /\ ResumeRuntimePending(d).revision = d.revision + 1
        /\ ResumeRuntimePending(d).phase # "Live"
    BY Zenon DEF ResumeRuntimePending, Advance, Snapshot
  <1>7. \A c : /\ AcceptPanelCertificate(d, c).revision = d.revision + 1
               /\ AcceptPanelCertificate(d, c).phase # "Live"
    BY Zenon DEF AcceptPanelCertificate, Advance, Snapshot
  <1>8. \A q : /\ InstallLease(d, q).revision = d.revision + 1
               /\ InstallLease(d, q).phase = d.phase
    BY Zenon DEF InstallLease, Snapshot
  <1>9. \A q : /\ RecoverBlocked(d, q).revision = d.revision + 1
               /\ RecoverBlocked(d, q).phase = d.phase
    BY Zenon DEF RecoverBlocked, InstallLease, Snapshot
  <1> QED
    BY <1>1, <1>2, <1>3, <1>4, <1>5, <1>6, <1>7, <1>8, <1>9, Zenon

\* A row that is written with its deployment at the next revision.
LEMMA RowWritten ==
    ASSUME TypeOK, NEW d \in DeploymentIds, NEW r \in deployments[d],
           NEW q, Persist(d, q), UNCHANGED <<now, authority, serving, attestations>>,
           q.snapshot.revision = r.snapshot.revision + 1, q.snapshot.phase # "Live"
    PROVE  WritesRow(d)
  <1>1. deployments[d] = {r}
    BY OneRow, Zenon
  <1> QED
    BY <1>1, Zenon DEF WritesRow

\* A mutation to a snapshot at the next revision writes its row.
LEMMA MutationWrites ==
    ASSUME TypeOK, NEW d \in DeploymentIds, NEW r \in deployments[d], NEW s,
           NEW e, e.revision = r.snapshot.revision + 1, e.phase # "Live",
           MutatesTo(d, r, s, e)
    PROVE  WritesRow(d)
  <1>1. r \in Row
    BY OneRow, Zenon
  <1>2. Mutated(r, s, e).snapshot = e
    BY <1>1, Zenon DEF Mutated, Row
  <1> QED
    BY <1>2, RowWritten, Zenon DEF MutatesTo

\* enqueue writes the row of a deployment that has none.
LEMMA EnqueueWrites ==
    ASSUME NEW d \in DeploymentIds, Enqueue(d)
    PROVE  WritesRow(d)
  BY Zenon DEF Enqueue, WritesRow, Request

\* claim_locked writes its row at the next revision.
LEMMA ClaimLockedWrites ==
    ASSUME TypeOK, NEW d \in DeploymentIds, NEW r \in deployments[d], NEW c,
           ClaimLocked(d, r, c)
    PROVE  WritesRow(d)
  <1>1. r \in Row /\ r.snapshot \in Snapshot
    BY OneRow, RowFields, Zenon
  <1> DEFINE e == AcquireLease(r.snapshot, LeaseRequest(r, c))
             q == [r EXCEPT !.snapshot = e, !.attempt = NextClaimAttempt(r),
                            !.lastController = {c}]
  <1>2. Persist(d, q) /\ UNCHANGED <<now, authority, serving, attestations>>
    BY Zenon DEF ClaimLocked
  <1>3. e.revision = r.snapshot.revision + 1 /\ e.phase # "Live"
    <2>1. r.snapshot.phase # "Live"
      BY Zenon DEF ClaimLocked, CanAcquireLease, ValidateLeaseRequest, IsTerminal
    <2> QED
      BY <1>1, <2>1, NextRevision, Zenon DEF AcquireLease
  <1> HIDE DEF e
  <1>4. q.snapshot = e
    BY <1>1, Zenon DEF Row
  <1> HIDE DEF q
  <1> QED
    BY <1>2, <1>3, <1>4, RowWritten, Zenon

\* recover_blocked_for_operator writes its row at the next revision.
LEMMA RecoverBlockedWrites ==
    ASSUME TypeOK, NEW d \in DeploymentIds, RecoverBlockedForOperator(d)
    PROVE  WritesRow(d)
  <1>1. PICK r \in deployments[d], c \in Controllers :
            /\ ~IsTerminal(r.snapshot)
            /\ Persist(d, [r EXCEPT
                   !.snapshot = RecoverBlocked(r.snapshot, LeaseRequest(r, c)),
                   !.attempt = NextBlockedRecoveryAttempt(r),
                   !.lastController = {c}])
            /\ UNCHANGED <<now, authority, serving, attestations>>
    BY Zenon DEF RecoverBlockedForOperator, CanRecoverBlocked, ValidateLeaseRequest
  <1>2. r \in Row /\ r.snapshot \in Snapshot
    BY OneRow, RowFields, Zenon
  <1> DEFINE e == RecoverBlocked(r.snapshot, LeaseRequest(r, c))
             q == [r EXCEPT !.snapshot = e,
                            !.attempt = NextBlockedRecoveryAttempt(r),
                            !.lastController = {c}]
  <1>3. Persist(d, q)
    BY <1>1, Zenon
  <1>4. e.revision = r.snapshot.revision + 1 /\ e.phase # "Live"
    BY <1>1, <1>2, NextRevision, Zenon DEF IsTerminal
  <1> HIDE DEF e
  <1>5. q.snapshot = e
    BY <1>2, Zenon DEF Row
  <1> HIDE DEF q
  <1> QED
    BY <1>1, <1>3, <1>4, <1>5, RowWritten, Zenon

\* Every mutation writes its row at the next revision.
LEMMA MutateWrites ==
    ASSUME TypeOK, NEW d \in DeploymentIds, Mutate(d)
    PROVE  WritesRow(d)
  <1>1. PICK r \in deployments[d] : \E s \in Sessions(r) :
            \/ MutateAcceptPreflight(d, r, s)
            \/ MutateRequestDrain(d, r, s)
            \/ MutateAcceptDrain(d, r, s)
            \/ MutateBeginActivation(d, r, s)
            \/ MutateAcceptActivation(d, r, s)
            \/ MutateRecordFailure(d, r, s)
            \/ MutateResumeRuntimePending(d, r, s)
            \/ MutateBeginPanelReconciliation(d, r, s)
            \/ MutateAcceptPanelCertificate(d, r, s)
            \/ MutateSupersede(d, r, s)
            \/ MutateCancel(d, r, s)
    BY Zenon DEF Mutate
  <1>2. r \in Row /\ r.snapshot \in Snapshot
    BY OneRow, RowFields, Zenon
  <1>3. ASSUME NEW s, MutateAcceptPreflight(d, r, s) PROVE WritesRow(d)
    BY <1>2, <1>3, NextRevision, MutationWrites, Zenon DEF MutateAcceptPreflight
  <1>4. ASSUME NEW s, MutateRequestDrain(d, r, s) PROVE WritesRow(d)
    <2>1. /\ RequestDrain(r.snapshot).revision = r.snapshot.revision + 1
          /\ RequestDrain(r.snapshot).phase = "DrainRequested"
      BY <1>2, NextRevision, Zenon DEF RequestDrain
    <2> QED
      BY <1>4, <2>1, MutationWrites, Zenon DEF MutateRequestDrain
  <1>5. ASSUME NEW s, MutateAcceptDrain(d, r, s) PROVE WritesRow(d)
    BY <1>2, <1>5, NextRevision, MutationWrites, Zenon DEF MutateAcceptDrain
  <1>6. ASSUME NEW s, MutateBeginActivation(d, r, s) PROVE WritesRow(d)
    <2>1. /\ BeginActivation(r.snapshot).revision = r.snapshot.revision + 1
          /\ BeginActivation(r.snapshot).phase = "ActivationApplying"
      BY <1>2, NextRevision, Zenon DEF BeginActivation
    <2> QED
      BY <1>6, <2>1, MutationWrites, Zenon DEF MutateBeginActivation
  <1>7. ASSUME NEW s, MutateAcceptActivation(d, r, s) PROVE WritesRow(d)
    BY <1>2, <1>7, NextRevision, MutationWrites, Zenon DEF MutateAcceptActivation
  <1>8. ASSUME NEW s, MutateRecordFailure(d, r, s) PROVE WritesRow(d)
    <2>1. PICK f :
              /\ Persist(d, [Mutated(r, s, RecordFailure(r.snapshot, f)) EXCEPT
                                 !.failureAttempt = FailureAttempt(r)])
              /\ UNCHANGED <<now, authority, serving, attestations>>
      BY <1>8, Zenon DEF MutateRecordFailure
    <2> DEFINE e == RecordFailure(r.snapshot, f)
               q == [Mutated(r, s, e) EXCEPT !.failureAttempt = FailureAttempt(r)]
    <2>2. Persist(d, q)
      BY <2>1, Zenon
    <2>3. e.revision = r.snapshot.revision + 1 /\ e.phase # "Live"
      BY <1>2, NextRevision, Zenon
    <2> HIDE DEF e
    <2>4. q.snapshot = e
      BY <1>2, Zenon DEF Mutated, Row
    <2> HIDE DEF q
    <2> QED
      BY <2>1, <2>2, <2>3, <2>4, RowWritten, Zenon
  <1>9. ASSUME NEW s, MutateResumeRuntimePending(d, r, s) PROVE WritesRow(d)
    BY <1>2, <1>9, NextRevision, MutationWrites, Zenon DEF MutateResumeRuntimePending
  <1>10. ASSUME NEW s, MutateBeginPanelReconciliation(d, r, s) PROVE WritesRow(d)
    <2>1. /\ BeginPanelReconciliation(r.snapshot).revision = r.snapshot.revision + 1
          /\ BeginPanelReconciliation(r.snapshot).phase = "ReconcilingPanels"
      BY <1>2, NextRevision, Zenon DEF BeginPanelReconciliation
    <2> QED
      BY <1>10, <2>1, MutationWrites, Zenon DEF MutateBeginPanelReconciliation
  <1>11. ASSUME NEW s, MutateAcceptPanelCertificate(d, r, s) PROVE WritesRow(d)
    BY <1>2, <1>11, NextRevision, MutationWrites, Zenon DEF MutateAcceptPanelCertificate
  <1>12. ASSUME NEW s, MutateSupersede(d, r, s) PROVE WritesRow(d)
    BY <1>2, <1>12, EndedRevision, MutationWrites, Zenon DEF MutateSupersede
  <1>13. ASSUME NEW s, MutateCancel(d, r, s) PROVE WritesRow(d)
    BY <1>2, <1>13, EndedRevision, MutationWrites, Zenon DEF MutateCancel
  <1> QED
    BY <1>1, <1>3, <1>4, <1>5, <1>6, <1>7, <1>8, <1>9, <1>10, <1>11, <1>12, <1>13,
       Zenon

\* recover_locked writes the row of the deployment it names, at the next revision.
LEMMA RecoverStaleLiveWrites ==
    ASSUME TypeOK, NEW x \in serving, NEW i, RecoverStaleLive(x, i)
    PROVE  i.deployment \in DeploymentIds /\ WritesRow(i.deployment)
  <1> DEFINE d == i.deployment
  <1>1. PICK r \in deployments[d] : \E p :
            /\ MatchesServing(x, i)
            /\ Persist(d, [r EXCEPT !.snapshot = RecoverLive(r.snapshot, p),
                                    !.attestation = {}])
            /\ UNCHANGED <<now, authority, serving, attestations>>
    BY Zenon DEF RecoverStaleLive
  <1>2. PICK p :
            /\ MatchesServing(x, i)
            /\ Persist(d, [r EXCEPT !.snapshot = RecoverLive(r.snapshot, p),
                                    !.attestation = {}])
            /\ UNCHANGED <<now, authority, serving, attestations>>
    BY <1>1, Zenon
  <1>3. d \in DeploymentIds
    BY <1>2, OneServing, Zenon
    DEF MatchesServing, MatchesExceptRevision, ServingLeaseRow
  <1>4. r \in Row /\ r.snapshot \in Snapshot
    BY <1>3, OneRow, RowFields, Zenon
  <1> DEFINE e == RecoverLive(r.snapshot, p)
             q == [r EXCEPT !.snapshot = e, !.attestation = {}]
  <1>5. Persist(d, q)
    BY <1>2, Zenon
  <1>6. e.revision = r.snapshot.revision + 1 /\ e.phase # "Live"
    BY <1>4, RecoveredRevision, Zenon
  <1> HIDE DEF e
  <1>7. q.snapshot = e
    BY <1>4, Zenon DEF Row
  <1> HIDE DEF q, d
  <1>8. WritesRow(d)
    BY <1>2, <1>3, <1>5, <1>6, <1>7, RowWritten, Zenon
  <1> QED
    BY <1>3, <1>8, Zenon DEF d

\* What is served, and the attestations, are read off the tables and the clock.
LEMMA SameServed ==
    ASSUME UNCHANGED <<now, serving, attestations>>
    PROVE  Served' = Served /\ Issued' = Issued
  <1>1. Served' = Served
    BY Zenon DEF Served, IsServing
  <1>2. Issued' = Issued
    BY Zenon DEF Issued
  <1> QED
    BY <1>1, <1>2, Zenon

\* When the lane is closed for a deployment, it is for this one only, and
\* nothing is served.
ClosedOnce == \A d \in ClosedFor : ClosedFor = {d} /\ Served = {}

\* A sound lane is closed for one deployment at most.
LEMMA ClosedForOne == LaneInv => ClosedOnce
  <1> SUFFICES ASSUME LaneInv, NEW d \in ClosedFor
               PROVE  ClosedFor = {d} /\ Served = {}
    BY Zenon DEF ClosedOnce
  <1>1. PICK r \in deployments[d] : PastDrain(r)
    BY Zenon DEF ClosedFor
  <1>2. d \in DeploymentIds /\ \A e \in ClosedFor : e = d
    BY Zenon DEF ClosedFor, PastDrain, LaneInv, OneUnresolved, IsUnresolved
  <1>3. \A x \in serving : ~IsServing(x)
    BY <1>1, <1>2, Zenon DEF LaneInv, DrainStaysClosed, PastDrain
  <1>4. Served = {}
    BY <1>3, Zenon DEF Served
  <1> QED
    BY <1>2, <1>4, Zenon

\* The same of the next state.
LEMMA ClosedForOneNext == LaneInv' => ClosedOnce'
  BY ClosedForOne, PTL

\* A row's write closes the lane for its deployment, abandons it, or changes
\* nothing that the lane shows.
LEMMA WriteRefines ==
    ASSUME LaneInv, LaneInv', NEW d \in DeploymentIds, WritesRow(d)
    PROVE  [Lane!Next]_<<Served, Issued, ClosedFor>>
  <1>1. PICK q : Persist(d, q)
    BY Zenon DEF WritesRow
  <1>2. Served' = Served /\ Issued' = Issued
    BY SameServed, Zenon DEF WritesRow
  <1>3. /\ deployments'[d] = {q}
        /\ \A e \in DeploymentIds \ {d} : deployments'[e] = deployments[e]
    BY <1>1, Zenon DEF Persist, LaneInv, TypeOK
  <1>4. \A e \in DeploymentIds \ {d} : e \in ClosedFor' <=> e \in ClosedFor
    BY <1>3, Zenon DEF ClosedFor
  <1>5. /\ \A e \in ClosedFor : e \in DeploymentIds
        /\ \A e \in ClosedFor' : e \in DeploymentIds
    BY Zenon DEF ClosedFor
  <1>6. \A e \in ClosedFor : ClosedFor = {e} /\ Served = {}
    BY ClosedForOne, Zenon DEF ClosedOnce
  <1>7. \A e \in ClosedFor' : ClosedFor' = {e} /\ Served' = {}
    BY ClosedForOneNext, Zenon DEF ClosedOnce
  <1>8. CASE d \in ClosedFor /\ d \in ClosedFor'
    BY <1>2, <1>6, <1>7, <1>8, Zenon
  <1>9. CASE d \notin ClosedFor /\ d \notin ClosedFor'
    <2>1. ClosedFor' = ClosedFor
      BY <1>4, <1>5, <1>9
    <2> QED
      BY <1>2, <2>1, Zenon
  <1>10. CASE d \notin ClosedFor /\ d \in ClosedFor'
    <2>1. ClosedFor = {} /\ ClosedFor' = {d} /\ Served = {}
      BY <1>2, <1>4, <1>5, <1>7, <1>10, Zenon
    <2> QED
      BY <1>2, <2>1, Zenon DEF Lane!Close, Lane!Next
  <1>11. CASE d \in ClosedFor /\ d \notin ClosedFor'
    <2>1. ClosedFor # {} /\ ClosedFor' = {}
      BY <1>4, <1>5, <1>6, <1>11, Zenon
    <2> QED
      BY <1>2, <2>1, Zenon DEF Lane!Abandon, Lane!Next
  <1> QED
    BY <1>8, <1>9, <1>10, <1>11, Zenon

\* A row's write keeps every attestation behind its row.
LEMMA WriteKeepsRevisions ==
    ASSUME LaneInv, AttestedRevisions, NEW d \in DeploymentIds, WritesRow(d)
    PROVE  AttestedRevisions'
  <1>1. PICK q : /\ Persist(d, q)
                 /\ \A r \in deployments[d] :
                        q.snapshot.revision = r.snapshot.revision + 1
                 /\ UNCHANGED <<now, serving, attestations>>
    BY Zenon DEF WritesRow
  <1>2. TypeOK
    BY Zenon DEF LaneInv
  <1>3. /\ deployments'[d] = {q}
        /\ \A e \in DeploymentIds \ {d} : deployments'[e] = deployments[e]
    BY <1>1, <1>2, Zenon DEF Persist, TypeOK
  <1> SUFFICES ASSUME NEW a \in attestations, NEW r \in deployments'[a.deployment]
               PROVE  a.revision <= r.snapshot.revision
    BY <1>1, Zenon DEF AttestedRevisions
  <1>4. a.deployment \in DeploymentIds /\ a.revision \in Nat
    BY <1>2, Zenon DEF TypeOK
  <1>5. PICK y \in deployments[a.deployment] : a.revision <= y.snapshot.revision
    BY Zenon DEF LaneInv, AttestedAttemptsAreOver, AttestedRevisions
  <1>6. y.snapshot.revision \in Nat
    BY <1>2, <1>4, OneRow, RowFields, Zenon DEF Snapshot
  <1>7. CASE a.deployment = d
    <2>1. r.snapshot.revision = y.snapshot.revision + 1
      BY <1>1, <1>3, <1>5, <1>7, Zenon
    <2> QED
      BY <1>4, <1>5, <1>6, <2>1
  <1>8. CASE a.deployment # d
    BY <1>3, <1>4, <1>8, Zenon DEF AttestedRevisions
  <1> QED
    BY <1>7, <1>8, Zenon

\* A write of the lane's only serving row, or the clock, that leaves no new row
\* served and serves the old one unchanged or not at all.
LEMMA ServingRefines ==
    ASSUME TypeOK, TypeOK',
           \A x \in serving, y \in serving' :
               /\ y.deployment = x.deployment /\ y.process = x.process
               /\ y.attestation = x.attestation
               /\ IsServing(y)' => IsServing(x),
           (serving = {}) <=> (serving' = {}),
           UNCHANGED <<deployments, attestations>>
    PROVE  [Lane!Next]_<<Served, Issued, ClosedFor>>
  <1>1. Issued' = Issued /\ ClosedFor' = ClosedFor
    BY Zenon DEF Issued, ClosedFor
  <1>2. CASE serving = {}
    <2>1. Served = {} /\ Served' = {}
      BY <1>2, Zenon DEF Served
    <2> QED
      BY <1>1, <2>1, Zenon
  <1>3. CASE serving # {}
    <2>1. PICK x \in serving, y \in serving' : serving = {x} /\ serving' = {y}
      <3>1. PICK x \in serving, y \in serving' : TRUE
        BY <1>3, Zenon
      <3>2. /\ \A u, v \in serving : u = v
            /\ \A u, v \in serving' : u = v
        BY Zenon DEF TypeOK, Option
      <3> QED
        BY <3>1, <3>2, Zenon
    <2> DEFINE S(z) == [deployment |-> z.deployment, process |-> z.process,
                        attestation |-> z.attestation]
    <2>2. /\ IsServing(x) => Served = {S(x)}
          /\ ~IsServing(x) => Served = {}
      BY <2>1, Zenon DEF Served
    <2>3. /\ IsServing(y)' => Served' = {S(y)}
          /\ ~IsServing(y)' => Served' = {}
      BY <2>1, Zenon DEF Served
    <2>4. S(x) = S(y) /\ (IsServing(y)' => IsServing(x))
      BY Zenon
    <2> HIDE DEF S
    <2>5. Served' = Served \/ (Served # {} /\ Served' = {})
      BY <2>2, <2>3, <2>4, Zenon
    <2> QED
      BY <1>1, <2>5, Zenon DEF Lane!Stop, Lane!Next
  <1> QED
    BY <1>2, <1>3, Zenon

\* A step that leaves the deployments and the attestations alone keeps every
\* attestation behind its row.
LEMMA SameRevisions ==
    ASSUME AttestedRevisions, UNCHANGED <<deployments, attestations>>
    PROVE  AttestedRevisions'
  BY Zenon DEF AttestedRevisions

\* The clock may end what is served, and starts nothing.
LEMMA TickRefines ==
    ASSUME LaneInv, LaneInv', Tick
    PROVE  [Lane!Next]_<<Served, Issued, ClosedFor>>
  <1>1. /\ TypeOK /\ TypeOK' /\ now \in Nat /\ now' = now + 1
        /\ UNCHANGED <<authority, deployments, serving, attestations>>
    BY Durations, Zenon DEF LaneInv, Tick
  <1>2. ASSUME NEW x \in serving, NEW y \in serving'
        PROVE  /\ y.deployment = x.deployment /\ y.process = x.process
               /\ y.attestation = x.attestation
               /\ IsServing(y)' => IsServing(x)
    <2>1. y = x /\ x.expiresAt \in Nat
      BY <1>1, <1>2, OneServing, Zenon DEF ServingLeaseRow, Time
    <2> QED
      BY <1>1, <2>1 DEF IsServing
  <1> QED
    BY <1>1, <1>2, ServingRefines, Zenon

\* A heartbeat goes on with what is served.
LEMMA HeartbeatRefines ==
    ASSUME LaneInv, LaneInv', NEW x \in serving, NEW i, HeartbeatServing(x, i)
    PROVE  [Lane!Next]_<<Served, Issued, ClosedFor>>
  <1> DEFINE z == [x EXCEPT !.revision = @ + 1, !.heartbeatAt = now,
                            !.expiresAt = now + ServingLease]
  <1>1. /\ TypeOK /\ TypeOK' /\ IsServing(x) /\ serving' = {z}
        /\ UNCHANGED <<now, authority, deployments, attestations>>
    BY Zenon DEF LaneInv, HeartbeatServing
  <1>2. serving = {x} /\ x \in ServingLeaseRow
    BY <1>1, OneServing, Zenon
  <1>3. /\ z.deployment = x.deployment /\ z.process = x.process
        /\ z.attestation = x.attestation
    BY <1>2, Zenon DEF ServingLeaseRow
  <1> HIDE DEF z
  <1> QED
    BY <1>1, <1>2, <1>3, ServingRefines, Zenon

\* A disconnect ends what is served.
LEMMA DisconnectRefines ==
    ASSUME LaneInv, LaneInv', NEW x \in serving, NEW i,
           MarkServingDisconnected(x, i)
    PROVE  [Lane!Next]_<<Served, Issued, ClosedFor>>
  <1>1. /\ TypeOK /\ TypeOK' /\ serving' = {Disconnected(x)}
        /\ UNCHANGED <<now, authority, deployments, attestations>>
    BY Zenon DEF LaneInv, MarkServingDisconnected
  <1>2. serving = {x} /\ x \in ServingLeaseRow
    BY <1>1, OneServing, Zenon
  <1>3. PICK z : /\ z = Disconnected(x)
                 /\ z.deployment = x.deployment /\ z.process = x.process
                 /\ z.attestation = x.attestation /\ z.connected = FALSE
    <2> DEFINE y == Disconnected(x)
    <2>1. /\ y.deployment = x.deployment /\ y.process = x.process
          /\ y.attestation = x.attestation /\ y.connected = FALSE
      BY <1>2, Zenon DEF Disconnected, ServingLeaseRow
    <2> QED
      BY <2>1, Zenon
  <1>4. ~IsServing(z)'
    BY <1>3, Zenon DEF IsServing
  <1> QED
    BY <1>1, <1>2, <1>3, <1>4, ServingRefines, Zenon

\* A certification serves its process under an attestation that was never
\* issued, in a lane that was closed for the deployment and is not any more.
LEMMA CertifyRefines ==
    ASSUME LaneInv, LaneInv', AttestedRevisions,
           NEW d \in DeploymentIds, CertifyServing(d)
    PROVE  [Lane!Next]_<<Served, Issued, ClosedFor>> /\ AttestedRevisions'
  <1> DEFINE Ready(r, process, at) == [generation |-> r.snapshot.generation,
                                       process |-> process, at |-> at]
  <1>1. PICK r \in deployments[d] :
            \E s \in Sessions(r), at \in ReadyTimes, process \in Processes :
                /\ CanCertify(d, r, s, Ready(r, process, at))
                /\ Persist(d, Certified(d, r, s, Ready(r, process, at)))
                /\ attestations' = attestations \cup {AttestationRecord(d, r)}
                /\ serving' = {CertifiedLease(d, r, process)}
                /\ UNCHANGED <<now, authority>>
    BY Zenon DEF CertifyServing, Certified, CertifiedLease
  <1> HIDE DEF Ready
  <1>2. PICK process \in Processes : \E s, ready :
            /\ CanCertify(d, r, s, ready)
            /\ Persist(d, Certified(d, r, s, ready))
            /\ attestations' = attestations \cup {AttestationRecord(d, r)}
            /\ serving' = {CertifiedLease(d, r, process)}
            /\ UNCHANGED <<now, authority>>
    BY <1>1, Zenon
  <1>3. PICK s, ready :
            /\ CanCertify(d, r, s, ready)
            /\ Persist(d, Certified(d, r, s, ready))
            /\ attestations' = attestations \cup {AttestationRecord(d, r)}
            /\ serving' = {CertifiedLease(d, r, process)}
            /\ UNCHANGED <<now, authority>>
    BY <1>2, Zenon
  <1>4. /\ TypeOK /\ deployments[d] = {r} /\ r \in Row /\ r.snapshot \in Snapshot
        /\ now \in Nat /\ ValidSnapshot(r.snapshot)
    BY OneRow, RowFields, Durations, Zenon DEF LaneInv, RowSound, IndInv
  <1>5. r.snapshot.revision \in Nat
    BY <1>4, Zenon DEF Snapshot
  <1>6. PICK i : /\ i = NextAttestation(d, r)
                 /\ i = [deployment |-> d, revision |-> r.snapshot.revision + 1]
    BY Zenon DEF NextAttestation
  <1>7. PICK a : /\ a = AttestationRecord(d, r) /\ a.deployment = d
                 /\ a.revision = r.snapshot.revision + 1
                 /\ attestations' = attestations \cup {a}
    BY <1>3, Zenon DEF AttestationRecord
  <1>8. PICK x : /\ serving' = {x} /\ x.deployment = d /\ x.process = process
                 /\ x.attestation = i /\ x.connected = TRUE
                 /\ x.expiresAt = now + ServingLease
    <2> DEFINE y == CertifiedLease(d, r, process)
    <2>1. /\ y.deployment = d /\ y.process = process /\ y.attestation = i
          /\ y.connected = TRUE /\ y.expiresAt = now + ServingLease
      BY <1>6, Zenon DEF CertifiedLease
    <2> QED
      BY <1>3, <2>1, Zenon
  <1>9. PICK q : /\ Persist(d, q) /\ q.snapshot = CertifyLive(r.snapshot, ready, now)
    <2> DEFINE y == Certified(d, r, s, ready)
               e == CertifyLive(r.snapshot, ready, now)
    <2> HIDE DEF e
    <2>1. y.snapshot = e
      BY <1>4, Zenon DEF Certified, Mutated, Row, e
    <2> QED
      BY <1>3, <2>1, Zenon DEF e
  <1>10. q.snapshot.phase = "Live" /\ q.snapshot.revision = r.snapshot.revision + 1
    <2>1. /\ CertifyLive(r.snapshot, ready, now).revision = r.snapshot.revision + 1
          /\ CertifyLive(r.snapshot, ready, now).phase = "Live"
      BY <1>4, CertifiedRevision, Zenon
    <2> QED
      BY <1>9, <2>1, Zenon
  <1>11. /\ deployments'[d] = {q}
         /\ \A e \in DeploymentIds \ {d} : deployments'[e] = deployments[e]
    BY <1>4, <1>9, Zenon DEF Persist, TypeOK
  <1>12. r.snapshot.phase = "AwaitingGatewayReady"
    BY <1>3, Zenon DEF CanCertify, CanCertifyLive
  <1>13. d \in ClosedFor
    <2>1. r.snapshot.drain # {}
      BY <1>4, <1>12, EvidenceOfPhase, EvidenceCounts, Zenon
    <2> QED
      BY <1>12, <2>1, Zenon DEF ClosedFor, PastDrain, IsTerminal
  <1>14. ClosedFor = {d} /\ Served = {}
    BY <1>13, ClosedForOne, Zenon DEF ClosedOnce
  <1>15. ClosedFor' = {}
    <2>1. ASSUME NEW e \in ClosedFor' PROVE FALSE
      <3>1. e \in DeploymentIds /\ \E y \in deployments'[e] : PastDrain(y)
        BY <2>1, Zenon DEF ClosedFor, PastDrain
      <3>2. CASE e = d
        BY <1>10, <1>11, <3>1, <3>2, Zenon DEF PastDrain, IsTerminal
      <3>3. CASE e # d
        BY <1>11, <1>14, <3>1, <3>3, Zenon DEF ClosedFor
      <3> QED
        BY <3>2, <3>3, Zenon
    <2> QED
      BY <2>1, Zenon
  <1>16. Served' = {[deployment |-> d, process |-> process, attestation |-> i]}
    <2>1. IsServing(x)'
      BY <1>3, <1>4, <1>8, Durations DEF IsServing
    <2>2. Served' = {[deployment |-> x.deployment, process |-> x.process,
                      attestation |-> x.attestation]}
      BY <1>8, <2>1, Zenon DEF Served
    <2> QED
      BY <1>8, <2>2, Zenon
  <1>17. Issued' = Issued \cup {i}
    BY <1>6, <1>7, Zenon DEF Issued
  <1>18. i \notin Issued
    <2> SUFFICES ASSUME NEW b \in attestations,
                        i = [deployment |-> b.deployment, revision |-> b.revision]
                 PROVE  FALSE
      BY Zenon DEF Issued
    <2>1. b.deployment = d /\ b.revision = r.snapshot.revision + 1
      BY <1>6
    <2>2. b.revision <= r.snapshot.revision
      BY <2>1, Zenon DEF AttestedRevisions
    <2> QED
      BY <1>5, <2>1, <2>2
  <1>19. Lane!Certify(d, process)
    BY <1>14, <1>15, <1>16, <1>17, <1>18, Zenon DEF Lane!Certify
  <1>20. AttestedRevisions'
    <2> SUFFICES ASSUME NEW b \in attestations', NEW y \in deployments'[b.deployment]
                 PROVE  b.revision <= y.snapshot.revision
      BY Zenon DEF AttestedRevisions
    <2>1. CASE b \in attestations /\ b.deployment = d
      <3>1. b.revision \in Nat /\ b.revision <= r.snapshot.revision
        BY <1>4, <2>1, Zenon DEF TypeOK, AttestedRevisions
      <3>2. y.snapshot.revision = r.snapshot.revision + 1
        BY <1>10, <1>11, <2>1, Zenon
      <3> QED
        BY <1>5, <3>1, <3>2
    <2>2. CASE b \in attestations /\ b.deployment # d
      BY <1>4, <1>11, <2>2, Zenon DEF TypeOK, AttestedRevisions
    <2>3. CASE b = a
      <3>1. b.revision = r.snapshot.revision + 1
        BY <1>7, <2>3, Zenon
      <3>2. y.snapshot.revision = r.snapshot.revision + 1
        BY <1>7, <1>10, <1>11, <2>3, Zenon
      <3> QED
        BY <1>5, <3>1, <3>2
    <2> QED
      BY <1>7, <2>1, <2>2, <2>3, Zenon
  <1> QED
    BY <1>19, <1>20, Zenon DEF Lane!Next

-----------------------------------------------------------------------------
\* Every step of the store is a step of the lane, or leaves the lane as it is.
LEMMA LaneNextRefines ==
    LaneInv /\ LaneInv' /\ AttestedRevisions /\ [Next]_vars
        => [Lane!Next]_<<Served, Issued, ClosedFor>> /\ AttestedRevisions'
  <1> SUFFICES ASSUME LaneInv, LaneInv', AttestedRevisions, [Next]_vars
               PROVE  /\ [Lane!Next]_<<Served, Issued, ClosedFor>>
                      /\ AttestedRevisions'
    BY Zenon
  <1> DEFINE Refines == /\ [Lane!Next]_<<Served, Issued, ClosedFor>>
                        /\ AttestedRevisions'
  <1>1. TypeOK
    BY Zenon DEF LaneInv
  <1>2. ASSUME NEW d \in DeploymentIds, WritesRow(d) PROVE Refines
    BY <1>2, WriteRefines, WriteKeepsRevisions, Zenon
  <1>3. ASSUME UNCHANGED <<now, deployments, serving, attestations>> PROVE Refines
    <2>1. ClosedFor' = ClosedFor
      BY <1>3, Zenon DEF ClosedFor
    <2> QED
      BY <1>3, <2>1, SameServed, SameRevisions, Zenon
  <1> HIDE DEF Refines
  <1>4. ASSUME Tick PROVE Refines
    BY <1>4, TickRefines, SameRevisions, Zenon DEF Tick, Refines
  <1>5. ASSUME MoveAuthority PROVE Refines
    BY <1>3, <1>5, Zenon DEF MoveAuthority
  <1>6. ASSUME NEW d \in DeploymentIds, Enqueue(d) PROVE Refines
    BY <1>2, <1>6, EnqueueWrites, Zenon
  <1>7. ASSUME NEW d \in DeploymentIds, Claim(d) PROVE Refines
    BY <1>1, <1>2, <1>7, ClaimLockedWrites, Zenon DEF Claim
  <1>8. ASSUME NEW d \in DeploymentIds, Renew(d) PROVE Refines
    BY <1>1, <1>2, <1>8, ClaimLockedWrites, Zenon DEF Renew
  <1>9. ASSUME NEW d \in DeploymentIds, RecoverBlockedForOperator(d) PROVE Refines
    BY <1>1, <1>2, <1>9, RecoverBlockedWrites, Zenon
  <1>10. ASSUME NEW d \in DeploymentIds, Mutate(d) PROVE Refines
    BY <1>1, <1>2, <1>10, MutateWrites, Zenon
  <1>11. ASSUME NEW d \in DeploymentIds, CertifyServing(d) PROVE Refines
    BY <1>11, CertifyRefines, Zenon DEF Refines
  <1>12. ASSUME NEW x \in serving, NEW i, HeartbeatServing(x, i) PROVE Refines
    BY <1>12, HeartbeatRefines, SameRevisions, Zenon DEF HeartbeatServing, Refines
  <1>13. ASSUME NEW x \in serving, NEW i, MarkServingDisconnected(x, i)
         PROVE  Refines
    BY <1>13, DisconnectRefines, SameRevisions, Zenon
    DEF MarkServingDisconnected, Refines
  <1>14. ASSUME NEW x \in serving, NEW i, RecoverStaleLive(x, i) PROVE Refines
    BY <1>1, <1>2, <1>14, RecoverStaleLiveWrites, Zenon
  <1>15. ASSUME UNCHANGED vars PROVE Refines
    BY <1>3, <1>15, Zenon DEF vars
  <1>16. Refines
    BY <1>4, <1>5, <1>6, <1>7, <1>8, <1>9, <1>10, <1>11, <1>12, <1>13, <1>14, <1>15,
       Zenon DEF Next
  <1> QED
    BY <1>16, Zenon DEF Refines

\* The store implements ServingLane: at most one runtime is served, for one
\* uninterrupted interval under a certificate of its own, and a replacement only
\* after the lane was closed for it.
THEOREM ServingLaneRefined == Spec => ImplementsServingLane
  <1>1. Init => Lane!Init /\ AttestedRevisions
    <2> SUFFICES ASSUME Init PROVE Lane!Init /\ AttestedRevisions
      BY Zenon
    <2>1. /\ serving = {} /\ attestations = {}
          /\ \A d \in DeploymentIds : deployments[d] = {}
      BY Zenon DEF Init
    <2>2. Served = {} /\ Issued = {} /\ ClosedFor = {}
      BY <2>1, Zenon DEF Served, Issued, ClosedFor
    <2> QED
      BY <2>1, <2>2, Zenon DEF Lane!Init, AttestedRevisions
  <1> QED
    BY <1>1, LaneInvariance, LaneNextRefines, PTL
    DEF Spec, ImplementsServingLane, Lane!Spec

-----------------------------------------------------------------------------
(* The status of a Live deployment.                                        *)

\* The row names the attestation of its own revision, which is among issued for
\* its own attempt and for no other, and it was certified by the instant.
OnRecord(d, r, issued, instant) ==
    /\ r.attestation = {[deployment |-> d, revision |-> r.snapshot.revision]}
    /\ \E a \in issued : a.deployment = d /\ a.revision = r.snapshot.revision
    /\ \A a \in issued :
           a.deployment = d /\ a.revision = r.snapshot.revision => a.attempt = r.attempt
    /\ \A live \in r.snapshot.live : live.at <= instant

\* Every Live row is on record.
LiveOnRecord ==
    \A d \in DeploymentIds : \A r \in deployments[d] :
        r.snapshot.phase = "Live" => OnRecord(d, r, attestations, now)

\* A step that makes no row Live and issues no attestation keeps LiveOnRecord.
LEMMA WriteKeepsRecord ==
    ASSUME TypeOK, LiveOnRecord, NEW d \in DeploymentIds, WritesRow(d)
    PROVE  LiveOnRecord'
  <1>1. PICK q : /\ Persist(d, q) /\ q.snapshot.phase # "Live"
                 /\ UNCHANGED <<now, serving, attestations>>
    BY Zenon DEF WritesRow
  <1>2. /\ deployments'[d] = {q}
        /\ \A e \in DeploymentIds \ {d} : deployments'[e] = deployments[e]
    BY <1>1, Zenon DEF Persist, TypeOK
  <1>3. ASSUME NEW e \in DeploymentIds, NEW y \in deployments'[e],
               y.snapshot.phase = "Live"
        PROVE  OnRecord(e, y, attestations, now)
    <2>1. y \in deployments[e]
      BY <1>1, <1>2, <1>3, Zenon
    <2> QED
      BY <1>3, <2>1, Zenon DEF LiveOnRecord
  <1> QED
    BY <1>1, <1>3, Zenon DEF LiveOnRecord

\* The clock only moves forward.
LEMMA LaterKeepsRecord ==
    ASSUME LaneInv, LiveOnRecord, now' \in Nat, now <= now',
           UNCHANGED <<deployments, attestations>>
    PROVE  LiveOnRecord'
  <1> SUFFICES ASSUME NEW d \in DeploymentIds, NEW r \in deployments[d],
                      NEW live \in r.snapshot.live, live.at <= now
               PROVE  live.at <= now'
    BY Zenon DEF LiveOnRecord, OnRecord
  <1>1. TypeOK /\ now \in Nat
    BY Durations, Zenon DEF LaneInv
  <1>2. r.snapshot \in Snapshot
    BY <1>1, OneRow, RowFields, Zenon
  <1>3. live.at \in Nat
    BY <1>2, Zenon DEF Snapshot, Option, LiveAttestation, Time
  <1> QED
    BY <1>1, <1>3

\* A certification records its attestation under the revision that it produces,
\* which no earlier attestation of the deployment has.
LEMMA CertifyKeepsRecord ==
    ASSUME LaneInv, AttestedRevisions, LiveOnRecord,
           NEW d \in DeploymentIds, CertifyServing(d)
    PROVE  LiveOnRecord'
  <1> DEFINE Ready(r, process, at) == [generation |-> r.snapshot.generation,
                                       process |-> process, at |-> at]
  <1>1. PICK r \in deployments[d] :
            \E s \in Sessions(r), at \in ReadyTimes, process \in Processes :
                /\ Persist(d, Certified(d, r, s, Ready(r, process, at)))
                /\ attestations' = attestations \cup {AttestationRecord(d, r)}
                /\ UNCHANGED <<now, authority>>
    BY Zenon DEF CertifyServing, Certified
  <1> HIDE DEF Ready
  <1>2. PICK s, ready :
            /\ Persist(d, Certified(d, r, s, ready))
            /\ attestations' = attestations \cup {AttestationRecord(d, r)}
            /\ UNCHANGED <<now, authority>>
    BY <1>1, Zenon
  <1>3. /\ TypeOK /\ r \in Row /\ r.snapshot \in Snapshot /\ now \in Nat
        /\ r.snapshot.revision \in Nat
    BY OneRow, RowFields, Durations, Zenon DEF LaneInv, Snapshot
  <1>4. PICK n \in Nat : n = r.snapshot.revision + 1
    BY <1>3
  <1>5. PICK a : /\ a.deployment = d /\ a.revision = n /\ a.attempt = r.attempt
                 /\ attestations' = attestations \cup {a}
    BY <1>2, <1>4, Zenon DEF AttestationRecord
  <1>6. PICK q : /\ Persist(d, q) /\ q.attempt = r.attempt
                 /\ q.attestation = {[deployment |-> d, revision |-> n]}
                 /\ q.snapshot.revision = n
                 /\ \A live \in q.snapshot.live : live.at = now
    <2> DEFINE y == Certified(d, r, s, ready)
               e == CertifyLive(r.snapshot, ready, now)
    <2>1. e.revision = n /\ \A live \in e.live : live.at = now
      <3> DEFINE L == {[generation |-> r.snapshot.generation, process |-> ready.process,
                        activation |-> x, panel |-> c, gateway |-> ready, at |-> now] :
                       x \in r.snapshot.activation, c \in r.snapshot.panel}
      <3>1. e = [Advance(r.snapshot, "Live") EXCEPT
                     !.gateway = {ready}, !.live = L, !.lease = {}]
        BY DEF CertifyLive
      <3>2. \A live \in L : live.at = now
        OBVIOUS
      <3> HIDE DEF L, e
      <3>3. e.live = L
        BY <1>3, <3>1, Zenon DEF Advance, Snapshot
      <3>4. e.revision = n
        BY <1>3, <1>4, CertifiedRevision, Zenon DEF e
      <3> QED
        BY <3>2, <3>3, <3>4, Zenon
    <2>2. Persist(d, y)
      BY <1>2, Zenon
    <2> HIDE DEF e
    <2>3. y.snapshot = e /\ y.attempt = r.attempt /\ y.attestation = {NextAttestation(d, r)}
      BY <1>3, Zenon DEF Certified, Mutated, Row, e
    <2> HIDE DEF y
    <2>4. NextAttestation(d, r) = [deployment |-> d, revision |-> n]
      BY <1>4, Zenon DEF NextAttestation
    <2> QED
      BY <2>1, <2>2, <2>3, <2>4, Zenon
  <1>7. /\ deployments'[d] = {q}
        /\ \A e \in DeploymentIds \ {d} : deployments'[e] = deployments[e]
    BY <1>3, <1>6, Zenon DEF Persist, TypeOK
  <1>8. \A b \in attestations : b.deployment = d => b.revision # n
    <2> SUFFICES ASSUME NEW b \in attestations, b.deployment = d, b.revision = n
                 PROVE  FALSE
      BY Zenon
    <2>1. n <= r.snapshot.revision
      BY Zenon DEF AttestedRevisions
    <2> QED
      BY <1>3, <1>4, <2>1
  <1>9. now <= now
    BY <1>3
  <1>10. OnRecord(d, q, attestations', now)
    BY <1>5, <1>6, <1>8, <1>9, Zenon DEF OnRecord
  <1>11. ASSUME NEW e \in DeploymentIds \ {d}, NEW y \in deployments[e],
                OnRecord(e, y, attestations, now)
         PROVE  OnRecord(e, y, attestations', now)
    BY <1>5, <1>11, Zenon DEF OnRecord
  <1>12. ASSUME NEW e \in DeploymentIds, NEW y \in deployments'[e],
                y.snapshot.phase = "Live"
         PROVE  OnRecord(e, y, attestations', now)
    <2>1. CASE e = d
      BY <1>7, <1>10, <2>1, Zenon
    <2>2. CASE e # d
      BY <1>7, <1>11, <1>12, <2>2, Zenon DEF LiveOnRecord
    <2> QED
      BY <2>1, <2>2, Zenon
  <1> QED
    BY <1>2, <1>12, Zenon DEF LiveOnRecord

\* Every step keeps LiveOnRecord.
LEMMA RecordNext ==
    LaneInv /\ LaneInv' /\ AttestedRevisions /\ LiveOnRecord /\ [Next]_vars
        => LiveOnRecord'
  <1> SUFFICES ASSUME LaneInv, LaneInv', AttestedRevisions, LiveOnRecord, [Next]_vars
               PROVE  LiveOnRecord'
    BY Zenon
  <1>1. TypeOK /\ now \in Nat /\ now <= now
    <2>1. TypeOK /\ now \in Nat
      BY Durations, Zenon DEF LaneInv
    <2> QED
      BY <2>1
  <1>2. ASSUME NEW d \in DeploymentIds, WritesRow(d) PROVE LiveOnRecord'
    BY <1>1, <1>2, WriteKeepsRecord, Zenon
  <1>3. ASSUME UNCHANGED <<now, deployments, attestations>> PROVE LiveOnRecord'
    BY <1>3, Zenon DEF LiveOnRecord
  <1>4. ASSUME Tick PROVE LiveOnRecord'
    <2>1. now' \in Nat /\ now <= now'
      BY <1>1, <1>4 DEF Tick
    <2> QED
      BY <1>4, <2>1, LaterKeepsRecord, Zenon DEF Tick
  <1>5. ASSUME MoveAuthority PROVE LiveOnRecord'
    BY <1>3, <1>5, Zenon DEF MoveAuthority
  <1>6. ASSUME NEW d \in DeploymentIds, Enqueue(d) PROVE LiveOnRecord'
    BY <1>2, <1>6, EnqueueWrites, Zenon
  <1>7. ASSUME NEW d \in DeploymentIds, Claim(d) PROVE LiveOnRecord'
    BY <1>1, <1>2, <1>7, ClaimLockedWrites, Zenon DEF Claim
  <1>8. ASSUME NEW d \in DeploymentIds, Renew(d) PROVE LiveOnRecord'
    BY <1>1, <1>2, <1>8, ClaimLockedWrites, Zenon DEF Renew
  <1>9. ASSUME NEW d \in DeploymentIds, RecoverBlockedForOperator(d) PROVE LiveOnRecord'
    BY <1>1, <1>2, <1>9, RecoverBlockedWrites, Zenon
  <1>10. ASSUME NEW d \in DeploymentIds, Mutate(d) PROVE LiveOnRecord'
    BY <1>1, <1>2, <1>10, MutateWrites, Zenon
  <1>11. ASSUME NEW d \in DeploymentIds, CertifyServing(d) PROVE LiveOnRecord'
    BY <1>11, CertifyKeepsRecord, Zenon
  <1>12. ASSUME NEW x \in serving, NEW i, HeartbeatServing(x, i) PROVE LiveOnRecord'
    BY <1>3, <1>12, Zenon DEF HeartbeatServing
  <1>13. ASSUME NEW x \in serving, NEW i, MarkServingDisconnected(x, i)
         PROVE  LiveOnRecord'
    BY <1>3, <1>13, Zenon DEF MarkServingDisconnected
  <1>14. ASSUME NEW x \in serving, NEW i, RecoverStaleLive(x, i) PROVE LiveOnRecord'
    BY <1>1, <1>2, <1>14, RecoverStaleLiveWrites, Zenon
  <1>15. ASSUME UNCHANGED vars PROVE LiveOnRecord'
    BY <1>3, <1>15, Zenon DEF vars
  <1> QED
    BY <1>4, <1>5, <1>6, <1>7, <1>8, <1>9, <1>10, <1>11, <1>12, <1>13, <1>14, <1>15,
       Zenon DEF Next

\* However often a deployment is lost, recovered, taken over and certified again,
\* `status` finds the attestation of a Live one on record, for its attempt and its
\* revision, and no time that is ahead of the clock: project_status never answers
\* with InvalidPersistedState.
THEOREM StatusIsKnownAlways == Spec => []StatusIsKnown
  <1>1. Init => AttestedRevisions /\ LiveOnRecord
    BY Zenon DEF Init, AttestedRevisions, LiveOnRecord
  <1>2. LaneInv /\ LiveOnRecord => StatusIsKnown
    <2> SUFFICES ASSUME LaneInv, LiveOnRecord, NEW d \in DeploymentIds,
                        NEW r \in deployments[d], r.snapshot.phase = "Live"
                 PROVE  ProjectsStatus(d, r)
      BY Zenon DEF StatusIsKnown
    <2>0. OnRecord(d, r, attestations, now)
      BY Zenon DEF LiveOnRecord
    <2>1. \A a : [deployment |-> a.deployment, revision |-> a.revision] \in r.attestation
                 <=> a.deployment = d /\ a.revision = r.snapshot.revision
      <3>1. r.attestation = {[deployment |-> d, revision |-> r.snapshot.revision]}
        BY <2>0, Zenon DEF OnRecord
      <3> QED
        BY <3>1
    <2>2. LiveAttestations(r) # {}
      BY <2>0, <2>1, Zenon DEF OnRecord, LiveAttestations
    <2>3. \A a \in LiveAttestations(r) : /\ a.deployment = d /\ a.attempt = r.attempt
                                         /\ a.revision = r.snapshot.revision
      BY <2>0, <2>1, Zenon DEF OnRecord, LiveAttestations
    <2>4. ASSUME NEW x \in serving PROVE x.acquiredAt <= now /\ x.heartbeatAt <= now
      BY <2>4, Zenon DEF LaneInv, DrainServingStateIsValid
    <2> QED
      BY <2>0, <2>2, <2>3, <2>4, Zenon DEF ProjectsStatus, OnRecord
  <1> QED
    BY <1>1, <1>2, LaneInvariance, LaneNextRefines, RecordNext, PTL DEF Spec

-----------------------------------------------------------------------------
(* One deployment under any sequence of commands.                          *)


\* What the callers send is of the types the commands take.
LEMMA InputTypes ==
    /\ Times \subseteq Time
    /\ \A q \in LeaseRequests :
           /\ q.controller \in Controllers /\ q.token \in Nat
           /\ q.now \in Time /\ q.expiresAt \in Time
    /\ Preflights \subseteq PreflightAttestation
    /\ Drains \subseteq DrainAttestation
    /\ Activations \subseteq ActivationAttestation
    /\ PanelCertificates \subseteq PanelCertificate
    /\ GatewayReadies \subseteq GatewayReady
    /\ Failures \subseteq Failure
    /\ \A q \in RecoverLiveRequests :
           /\ q.kind \in {"ServingLeaseExpired", "ServingDisconnected"}
           /\ q.evidenceAt \in Time /\ q.recoveredAt \in Time
    /\ Successors \subseteq Successor
  <1>1. Times \subseteq Time /\ Generation \in Nat /\ Generation + 1 \in Nat
    BY BoundAssumption, GenerationAssumption DEF Times, Time
  <1>2. \A q \in LeaseRequests :
            /\ q.controller \in Controllers /\ q.token \in Nat
            /\ q.now \in Time /\ q.expiresAt \in Time
    <2>1. 1 .. MaxToken \subseteq Nat /\ 0 .. LatestTime + 1 \subseteq Time
      BY BoundAssumption DEF Time
    <2> QED
      BY <1>1, <2>1, Zenon DEF LeaseRequests
  <1>3. Observed \subseteq Option(RuntimeProcess)
    <2>1. \A p \in Previous : {p} \in Option(RuntimeProcess)
      BY PreviousAssumption, OptionOne, Zenon
    <2> QED
      BY <2>1, OptionEmpty, Zenon DEF Observed
  <1>4. Preflights \subseteq PreflightAttestation
    BY <1>1, <1>3, Zenon DEF Preflights, PreflightAttestation
  <1>5. Drains \subseteq DrainAttestation
    BY <1>1, <1>3, Zenon DEF Drains, DrainAttestation
  <1>6. Activations \subseteq ActivationAttestation
    BY <1>1, Zenon DEF Activations, ActivationAttestation
  <1>7. PanelCertificates \subseteq PanelCertificate
    BY <1>1, Zenon DEF PanelCertificates, PanelCertificate
  <1>8. GatewayReadies \subseteq GatewayReady
    BY <1>1, Zenon DEF GatewayReadies, GatewayReady
  <1>9. Failures \subseteq Failure
    BY <1>1 DEF Failures, Failure
  <1>10. \A q \in RecoverLiveRequests :
            /\ q.kind \in {"ServingLeaseExpired", "ServingDisconnected"}
            /\ q.evidenceAt \in Time /\ q.recoveredAt \in Time
    BY <1>1, Zenon DEF RecoverLiveRequests
  <1>11. Successors \subseteq Successor
    BY <1>1, Zenon DEF Successors, Successor
  <1> QED
    BY <1>1, <1>2, <1>4, <1>5, <1>6, <1>7, <1>8, <1>9, <1>10, <1>11, Zenon

\* Every step preserves the invariant, one case per command.
LEMMA CommandsNextInv ==
    ASSUME IndInv(deployment), [CommandsNext]_deployment
    PROVE  IndInv(deployment')
  <1>1. CASE AcquireLeaseCommand
    BY <1>1, AcquireLeaseInv, InputTypes, Zenon DEF AcquireLeaseCommand, Becomes
  <1>2. CASE RecoverBlockedCommand
    BY <1>2, RecoverBlockedInv, InputTypes, Zenon DEF RecoverBlockedCommand, Becomes
  <1>3. ASSUME NEW g \in Guards, HolderCommand(g)
        PROVE  IndInv(deployment')
    <2>1. CASE AcceptPreflightCommand(g)
      BY <2>1, AcceptPreflightInv, InputTypes, Zenon DEF AcceptPreflightCommand, Becomes
    <2>2. CASE RequestDrainCommand(g)
      BY <2>2, RequestDrainInv, Zenon DEF RequestDrainCommand, Becomes
    <2>3. CASE AcceptDrainCommand(g)
      BY <2>3, AcceptDrainInv, InputTypes, Zenon DEF AcceptDrainCommand, Becomes
    <2>4. CASE BeginActivationCommand(g)
      BY <2>4, BeginActivationInv, Zenon DEF BeginActivationCommand, Becomes
    <2>5. CASE AcceptActivationCommand(g)
      BY <2>5, AcceptActivationInv, InputTypes, Zenon DEF AcceptActivationCommand, Becomes
    <2>6. CASE RecordFailureCommand(g)
      BY <2>6, RecordFailureInv, InputTypes, Zenon DEF RecordFailureCommand, Becomes
    <2>7. CASE ResumeRuntimePendingCommand(g)
      BY <2>7, ResumeRuntimePendingInv, Zenon DEF ResumeRuntimePendingCommand, Becomes
    <2>8. CASE BeginPanelReconciliationCommand(g)
      BY <2>8, BeginPanelReconciliationInv, Zenon
      DEF BeginPanelReconciliationCommand, Becomes
    <2>9. CASE AcceptPanelCertificateCommand(g)
      BY <2>9, AcceptPanelCertificateInv, InputTypes, Zenon
      DEF AcceptPanelCertificateCommand, Becomes
    <2>10. CASE CertifyLiveCommand(g)
      BY <2>10, CertifyLiveInv, InputTypes, Zenon DEF CertifyLiveCommand, Becomes
    <2>11. CASE SupersedeCommand(g)
      BY <2>11, SupersedeInv, InputTypes, Zenon DEF SupersedeCommand, Becomes
    <2>12. CASE CancelCommand(g)
      BY <2>12, CancelInv, InputTypes, Zenon DEF CancelCommand, Becomes
    <2> QED
      BY <1>3, <2>1, <2>2, <2>3, <2>4, <2>5, <2>6, <2>7, <2>8, <2>9, <2>10,
         <2>11, <2>12, Zenon DEF HolderCommand
  <1>4. CASE RecoverLiveCommand
    BY <1>4, RecoverLiveInv, InputTypes, Zenon DEF RecoverLiveCommand, Becomes
  <1>5. CASE SupersedeProductDrainSourceCommand
    BY <1>5, SupersedeProductDrainSourceInv, InputTypes, Zenon
    DEF SupersedeProductDrainSourceCommand, Becomes
  <1>6. CASE CancelProductDrainSourceCommand
    BY <1>6, CancelProductDrainSourceInv, Zenon
    DEF CancelProductDrainSourceCommand, Becomes
  <1>7. CASE UNCHANGED deployment
    BY <1>7, Zenon
  <1> QED
    BY <1>1, <1>2, <1>3, <1>4, <1>5, <1>6, <1>7, Zenon DEF CommandsNext

\* The inductive invariant holds in every reachable snapshot.
THEOREM CommandsInvariance == CommandsSpec => []IndInv(deployment)
  <1>1. CommandsInit => IndInv(deployment)
    <2>1. Option(Previous) \subseteq Option(RuntimeProcess)
      BY PreviousAssumption, Zenon DEF Option
    <2> QED
      BY <2>1, RequestInv, InputTypes, SelfAssumption, GenerationAssumption, Zenon
      DEF CommandsInit
  <1>2. IndInv(deployment) /\ [CommandsNext]_deployment => IndInv(deployment)'
    BY CommandsNextInv, Zenon
  <1> QED
    BY <1>1, <1>2, PTL DEF CommandsSpec

\* Whatever commands are sent, in any order and with any times, the snapshot
\* keeps its type and `restore` accepts it: validate_snapshot refuses nothing
\* the transitions of RuntimeDeployment can write.
THEOREM RestoreAcceptsAlways == CommandsSpec => [](CommandsTypeOK /\ RestoreAccepts)
  <1>1. IndInv(deployment) => CommandsTypeOK /\ RestoreAccepts
    BY Zenon DEF IndInv, CommandsTypeOK, RestoreAccepts
  <1> QED
    BY <1>1, CommandsInvariance, PTL

\* Whatever sequence of commands a deployment is given, accepted or refused, its
\* snapshot keeps its type.
THEOREM CommandsTyped == CommandsSpec => []CommandsTypeOK
  <1>1. IndInv(deployment) => CommandsTypeOK
    BY Zenon DEF IndInv, CommandsTypeOK
  <1> QED
    BY <1>1, CommandsInvariance, PTL

\* Every holder's command is guarded.
LEMMA HolderGuarded ==
    ASSUME NEW g, HolderCommand(g)
    PROVE  RequireGuard(deployment, g)
  BY Zenon DEF HolderCommand, AcceptPreflightCommand, RequestDrainCommand, AcceptDrainCommand,
         BeginActivationCommand, AcceptActivationCommand, RecordFailureCommand,
         ResumeRuntimePendingCommand, BeginPanelReconciliationCommand,
         AcceptPanelCertificateCommand, CertifyLiveCommand, SupersedeCommand, CancelCommand,
         CanAcceptPreflight, CanRequestDrain, CanAcceptDrain,
         CanBeginActivation, CanAcceptActivation, CanRecordFailure,
         CanResumeRuntimePending, CanBeginPanelReconciliation,
         CanAcceptPanelCertificate, CanCertifyLive, CanSupersede, CanCancel

\* Only recover_blocked moves a Blocked deployment on.
THEOREM BlockedNeedsOperatorAlways == CommandsSpec => BlockedNeedsOperator
  <1> DEFINE Freed == /\ IsReady(deployment')
                      /\ deployment'.lease # {}
                      /\ deployment'.lastToken > deployment.lastToken
                      /\ deployment'.failure = deployment.condition
  <1>1. ASSUME IndInv(deployment), CommandsNext, IsBlocked(deployment)
        PROVE  Freed
    <2>1. deployment.phase = "RuntimePending"
      BY <1>1, Zenon DEF IndInv, Coherent, IsBlocked
    <2>2. CASE RecoverBlockedCommand
      BY <1>1, <2>2, RecoverBlockedInv, InputTypes, Zenon
      DEF RecoverBlockedCommand, Becomes
    <2>3. ~AcquireLeaseCommand
      BY <1>1, Zenon DEF AcquireLeaseCommand, CanAcquireLease
    <2>4. \A g \in Guards : ~HolderCommand(g)
      BY <1>1, NoHolder, HolderGuarded, Zenon
    <2>5. ~RecoverLiveCommand
      BY <2>1, Zenon DEF RecoverLiveCommand, CanRecoverLive
    <2>6. ~SupersedeProductDrainSourceCommand /\ ~CancelProductDrainSourceCommand
      BY <2>1, Zenon DEF SupersedeProductDrainSourceCommand,
                  CancelProductDrainSourceCommand, CanSupersedeProductDrainSource,
                  CanCancelProductDrainSource, ProductDrainAcknowledged
    <2> QED
      BY <1>1, <2>2, <2>3, <2>4, <2>5, <2>6, Zenon DEF CommandsNext
  <1>2. IndInv(deployment) /\ [CommandsNext]_deployment
            => [IsBlocked(deployment) => Freed]_deployment
    BY <1>1, Zenon
  <1> QED
    BY <1>2, CommandsInvariance, PTL DEF CommandsSpec, BlockedNeedsOperator

\* No command is accepted once the deployment is superseded or cancelled.
LEMMA NoStepAfterEnding ==
    ASSUME IndInv(deployment), CommandsNext
    PROVE  deployment.phase \notin {"Superseded", "Cancelled"}
  <1> SUFFICES ASSUME deployment.phase \in {"Superseded", "Cancelled"}
               PROVE  FALSE
    BY Zenon
  <1>1. IsTerminal(deployment)
    BY Zenon DEF IsTerminal
  <1>2. ~AcquireLeaseCommand /\ ~RecoverBlockedCommand
    BY <1>1, Zenon DEF AcquireLeaseCommand, RecoverBlockedCommand, CanAcquireLease,
                CanRecoverBlocked, ValidateLeaseRequest
  <1>3. \A g \in Guards : ~HolderCommand(g)
    BY <1>1, NoHolder, HolderGuarded, Zenon
  <1>4. ~RecoverLiveCommand
    BY Zenon DEF RecoverLiveCommand, CanRecoverLive
  <1>5. ~SupersedeProductDrainSourceCommand /\ ~CancelProductDrainSourceCommand
    BY Zenon DEF SupersedeProductDrainSourceCommand,
           CancelProductDrainSourceCommand, CanSupersedeProductDrainSource,
           CanCancelProductDrainSource, ProductDrainAcknowledged
  <1> QED
    BY <1>2, <1>3, <1>4, <1>5, Zenon DEF CommandsNext

\* A superseded or cancelled deployment never changes again: no command of a
\* lease holder, no lease request, no live recovery and no product drain applies.
THEOREM EndingIsFinalAlways == CommandsSpec => EndingIsFinal
  <1>1. IndInv(deployment) /\ [CommandsNext]_deployment
            => [deployment.phase \notin {"Superseded", "Cancelled"}]_deployment
    BY NoStepAfterEnding, Zenon
  <1> QED
    BY <1>1, CommandsInvariance, PTL DEF CommandsSpec, EndingIsFinal

\* An accepted activation survives every failure, loss, retry and ending.
THEOREM ActivationIsDurableAlways == CommandsSpec => ActivationIsDurable
  <1> DEFINE Early == {"Requested", "PreflightReady", "DrainRequested",
                       "Drained", "ActivationApplying", "Cancelled"}
             Kept == /\ deployment'.activation = deployment.activation
                     /\ deployment'.phase \notin Early
  <1>1. ASSUME IndInv(deployment), CommandsNext, deployment.activation # {}
        PROVE  Kept
    <2>1. deployment \in Snapshot /\ deployment.phase \notin Early
      BY <1>1, NoStepAfterEnding, EvidenceOfPhase, EvidenceCounts, Zenon DEF IndInv
    <2>2. CASE AcquireLeaseCommand
      BY <2>1, <2>2, Zenon DEF AcquireLeaseCommand, Becomes, AcquireLease, InstallLease,
                        Snapshot
    <2>3. CASE RecoverBlockedCommand
      BY <2>1, <2>3, Zenon DEF RecoverBlockedCommand, Becomes, RecoverBlocked,
                        InstallLease, Snapshot
    <2>4. ASSUME NEW g \in Guards, HolderCommand(g)
          PROVE  Kept
      <3>1. ~AcceptPreflightCommand(g) /\ ~RequestDrainCommand(g)
            /\ ~AcceptDrainCommand(g) /\ ~BeginActivationCommand(g)
            /\ ~AcceptActivationCommand(g) /\ ~CancelCommand(g)
        BY <2>1, Zenon DEF AcceptPreflightCommand, RequestDrainCommand, AcceptDrainCommand,
                    BeginActivationCommand, AcceptActivationCommand, CancelCommand,
                    CanAcceptPreflight, CanRequestDrain, CanAcceptDrain,
                    CanBeginActivation, CanAcceptActivation, CanCancel
      <3>2. CASE RecordFailureCommand(g)
        BY <2>1, <3>2, Zenon DEF RecordFailureCommand, Becomes, RecordFailure, Advance,
                          ClearRuntimeEvidence, Snapshot
      <3>3. CASE ResumeRuntimePendingCommand(g)
        BY <2>1, <3>3, Zenon DEF ResumeRuntimePendingCommand, Becomes,
                          ResumeRuntimePending, Advance, Snapshot
      <3>4. CASE BeginPanelReconciliationCommand(g)
        BY <2>1, <3>4, Zenon DEF BeginPanelReconciliationCommand, Becomes,
                          BeginPanelReconciliation, Advance, Snapshot
      <3>5. CASE AcceptPanelCertificateCommand(g)
        BY <2>1, <3>5, Zenon DEF AcceptPanelCertificateCommand, Becomes,
                          AcceptPanelCertificate, Advance, Snapshot
      <3>6. CASE CertifyLiveCommand(g)
        BY <2>1, <3>6 DEF CertifyLiveCommand, Becomes, CertifyLive, Advance,
                          Snapshot
      <3>7. CASE SupersedeCommand(g)
        BY <2>1, <3>7, Zenon DEF SupersedeCommand, Becomes, Supersede, End, Advance,
                          Snapshot
      <3> QED
        BY <2>4, <3>1, <3>2, <3>3, <3>4, <3>5, <3>6, <3>7, Zenon DEF HolderCommand
    <2>5. CASE RecoverLiveCommand
      BY <2>1, <2>5, Zenon DEF RecoverLiveCommand, Becomes, RecoverLive, LoseLive,
                        ClearRuntimeEvidence, Advance, Snapshot
    <2>6. CASE SupersedeProductDrainSourceCommand
      BY <2>1, <2>6 DEF SupersedeProductDrainSourceCommand, Becomes,
                        SupersedeProductDrainSource, LoseLive,
                        ClearRuntimeEvidence, End, Advance, Snapshot
    <2>7. CASE CancelProductDrainSourceCommand
      BY <2>1, <2>7, Zenon DEF CancelProductDrainSourceCommand, Becomes,
                        CancelProductDrainSource, Snapshot
    <2> QED
      BY <1>1, <2>2, <2>3, <2>4, <2>5, <2>6, <2>7, Zenon DEF CommandsNext
  <1>2. IndInv(deployment) /\ [CommandsNext]_deployment
            => [deployment.activation # {} => Kept]_deployment
    BY <1>1, Zenon
  <1> QED
    BY <1>2, CommandsInvariance, PTL DEF CommandsSpec, ActivationIsDurable
=============================================================================
