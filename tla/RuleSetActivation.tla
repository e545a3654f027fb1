-------------------------- MODULE RuleSetActivation --------------------------
(***************************************************************************)
(* Approval-bound activation of one RuleSet: activation requests, the      *)
(* workers that apply or resume them (one per apply attempt, each await of *)
(* the service a step of its own), the active-version pointer they move,   *)
(* and the boot sweep that bookkeeps requests left Applying.               *)
(*                                                                         *)
(* A worker may be stopped at any point, by a crash or by its deadline,    *)
(* while an activation call it sent is still on its way to the database.   *)
(* Requests of both approval contexts are modelled, as the in-memory store *)
(* runs both; the PostgreSQL store runs the legacy ones.                   *)
(***************************************************************************)
EXTENDS Naturals, FiniteSets

CONSTANTS
    Requests,          \* activation request ids
    ProductRequests,   \* the ones whose context is ProductAuthoring
    Versions,          \* the published versions of the RuleSet
    TargetOf,          \* TargetOf[r]: the version request r is for
    Attempts,          \* apply attempt ids, one worker each
    Approvers,
    RequiredApprovals,
    NoRequest,         \* the request of a worker that has none
    Ttl,               \* life of a request that is not being applied
    Lease,             \* APPLY_LEASE_SECONDS
    Deadline,          \* APPLY_DEADLINE
    Flight,            \* longest an abandoned activation call takes to land
    SweepIsExclusive,  \* the boot sweep runs while no attempt does
    MaxTime            \* bound: the clock stops here

ASSUME RequestsAssumption ==
    /\ ProductRequests \subseteq Requests
    /\ TargetOf \in [Requests -> Versions]
    /\ NoRequest \notin Requests

ASSUME ApprovalsAssumption == RequiredApprovals \in Nat \ {0}

\* The deadline leaves an abandoned call the rest of the lease to land in.
ASSUME DurationAssumption ==
    /\ Ttl \in Nat \ {0} /\ Lease \in Nat /\ Deadline \in Nat /\ Flight \in Nat
    /\ Deadline + Flight < Lease
    /\ MaxTime \in Nat
    /\ SweepIsExclusive \in BOOLEAN

VARIABLES
    now,       \* the database clock
    active,    \* the active version, {} or a singleton
    requests,
    workers,
    sweep      \* the boot sweep: the request it is looking at and how far

vars == <<now, active, requests, workers, sweep>>

States ==
    {"Absent", "Pending", "Approved", "Applying", "Applied", "Rejected",
     "Expired", "Superseded", "Withdrawn"}

\* An Option is a set with at most one element.
Option(S) == {{}} \cup {{x} : x \in S}

\* The states that a decision ends a request in; the rejection, the completion
\* or the termination of the request records it.
Decided == {"Applied", "Rejected", "Superseded", "Withdrawn"}

\* The requests of time t: everything was written at some time up to t, and
\* leases and expiries are reckoned from it.  `lease` is 0 when there is none.
Request(t) ==
    [state: States, createdAt: 0 .. t, expiresAt: 0 .. t + Ttl, linkedAt: Option(0 .. t),
     approvals: SUBSET [by: Approvers, at: 0 .. t],
     decisions: SUBSET [state: Decided, at: 0 .. t],
     attempt: Option(Attempts), lease: 0 .. t + Lease, baseline: Option(Versions)]

Running ==
    {"claiming", "claimed", "ready", "renewed", "activating", "completing",
     "releasing", "superseding"}

\* `startedAt`: when the reply to its claim came, and its deadline began to run;
\* `sent`: an activation call of this worker has not reached the database.
Worker(t) ==
    [pc: Running \cup {"idle", "done"}, request: Requests \cup {NoRequest},
     startedAt: 0 .. t, sent: BOOLEAN]

Sweep == [pc: {"idle", "listed", "matched"}, request: Requests \cup {NoRequest}]

Absent ==
    [state |-> "Absent", createdAt |-> 0, expiresAt |-> 0, linkedAt |-> {},
     approvals |-> {}, decisions |-> {}, attempt |-> {}, lease |-> 0, baseline |-> {}]

SweepIdle == [pc |-> "idle", request |-> NoRequest]

Init ==
    /\ now = 0
    /\ active \in Option(Versions)
    /\ requests = [r \in Requests |-> Absent]
    /\ workers = [w \in Attempts |-> [pc |-> "idle", request |-> NoRequest,
                                      startedAt |-> 0, sent |-> FALSE]]
    /\ sweep = SweepIdle

IsRunning(w) == workers[w].pc \in Running

\* with_deadline runs from the reply to the claim on.
UnderDeadline(w) == IsRunning(w) /\ workers[w].pc # "claiming"

\* Time passes only while no worker outlives its deadline and no call outlives
\* its flight; the reply to a claim may take any time.
Tick ==
    /\ now < MaxTime
    /\ \A w \in Attempts :
           /\ UnderDeadline(w) => now < workers[w].startedAt + Deadline
           /\ workers[w].sent => now < workers[w].startedAt + Deadline + Flight
    /\ now' = now + 1
    /\ UNCHANGED <<active, requests, workers, sweep>>

-----------------------------------------------------------------------------
(* What people do with a request.  Every operation first expires it if due. *)

IsProduct(r) == r \in ProductRequests

Unlinked(r) == IsProduct(r) /\ requests[r].linkedAt = {}

Due(r) ==
    requests[r].state \in {"Pending", "Approved"} /\ requests[r].expiresAt <= now

Becomes(r, request) ==
    /\ requests' = [requests EXCEPT ![r] = request]
    /\ UNCHANGED <<now, active, sweep>>

MarkExpired(r) ==
    /\ Due(r)
    /\ Becomes(r, [requests[r] EXCEPT !.state = "Expired"])
    /\ UNCHANGED workers

\* A product request carries the active version that its promotion saw when it
\* resolved the approval context, which may have moved since.
Create(r) ==
    \E baseline \in IF IsProduct(r) THEN Option(Versions) ELSE {{}} :
        /\ requests[r].state = "Absent"
        /\ Becomes(r, [Absent EXCEPT !.state = "Pending", !.createdAt = now,
                                     !.expiresAt = now + Ttl, !.baseline = baseline])
        /\ UNCHANGED workers

LinkProduct(r) ==
    /\ ~Due(r) /\ Unlinked(r)
    /\ requests[r].state = "Pending" /\ requests[r].approvals = {}
    /\ Becomes(r, [requests[r] EXCEPT !.linkedAt = {now}])
    /\ UNCHANGED workers

\* Mutant: one approval too few is enough.
SufficesWithoutOne(approvals) == Cardinality(approvals) + 1 >= RequiredApprovals

Suffices(approvals) == Cardinality(approvals) >= RequiredApprovals

Approve(r, approver) ==
    LET approvals == requests[r].approvals \cup {[by |-> approver, at |-> now]}
    IN  /\ ~Due(r) /\ ~Unlinked(r)
        /\ requests[r].state = "Pending"
        /\ \A approval \in requests[r].approvals : approval.by # approver
        /\ Becomes(r, [requests[r] EXCEPT
                           !.approvals = approvals,
                           !.state = IF Suffices(approvals)
                                     THEN "Approved" ELSE "Pending"])
        /\ UNCHANGED workers

\* The decision that ends a request in `state`, taken now.
Decision(state) == [state |-> state, at |-> now]

Reject(r) ==
    /\ ~Due(r) /\ ~Unlinked(r)
    /\ requests[r].state = "Pending"
    /\ Becomes(r, [requests[r] EXCEPT !.state = "Rejected",
                                      !.decisions = @ \cup {Decision("Rejected")}])
    /\ UNCHANGED workers

Withdraw(r) ==
    /\ ~Due(r) /\ ~Unlinked(r)
    /\ requests[r].state \in {"Pending", "Approved"}
    /\ Becomes(r, [requests[r] EXCEPT !.state = "Withdrawn",
                                      !.decisions = @ \cup {Decision("Withdrawn")}])
    /\ UNCHANGED workers

-----------------------------------------------------------------------------
(* Claiming a request.                                                     *)

SweepAllowsAttempts == SweepIsExclusive => sweep.pc = "idle"

NoOtherApplying(r) == \A q \in Requests \ {r} : requests[q].state # "Applying"

BeginAttempt(r, w) ==
    /\ workers[w].pc = "idle"
    /\ SweepAllowsAttempts
    /\ Becomes(r, [requests[r] EXCEPT !.state = "Applying", !.attempt = {w},
                                      !.lease = now + Lease])
    /\ workers' = [workers EXCEPT ![w] = [@ EXCEPT !.pc = "claiming", !.request = r]]

\* Refused when another request of the RuleSet is Applying.
ClaimApply(r, w) ==
    /\ ~Due(r) /\ ~Unlinked(r)
    /\ requests[r].state = "Approved"
    /\ NoOtherApplying(r)
    /\ BeginAttempt(r, w)

\* Mutant: a dead worker's request is resumed at once.
LeaseOrAttemptIsOver(r) ==
    \A w \in requests[r].attempt : requests[r].lease <= now \/ ~IsRunning(w)

LeaseIsOver(r) == requests[r].lease <= now

ClaimResume(r, w) ==
    /\ ~Unlinked(r)
    /\ requests[r].state = "Applying"
    /\ LeaseIsOver(r)
    /\ BeginAttempt(r, w)

-----------------------------------------------------------------------------
(* A claimed worker.  It stops (a crash, the deadline, a store error it     *)
(* returns, a lost reply) in any state, writing nothing.                   *)

RequestOf(w) == requests[workers[w].request]

Target(w) == TargetOf[workers[w].request]

Owns(w) == RequestOf(w).state = "Applying" /\ RequestOf(w).attempt = {w}

GoesTo(w, pc) ==
    /\ workers' = [workers EXCEPT ![w].pc = pc]
    /\ UNCHANGED <<now, active, requests, sweep>>

\* The reply to the claim.
ClaimReplies(w) ==
    /\ workers[w].pc = "claiming"
    /\ workers' = [workers EXCEPT ![w] = [@ EXCEPT !.pc = "claimed", !.startedAt = now]]
    /\ UNCHANGED <<now, active, requests, sweep>>

\* The target or the active version cannot be read, the environment cannot be
\* loaded or, for a product request, is not ready.
PrepareFails(w) ==
    workers[w].pc = "claimed" /\ GoesTo(w, "releasing")

BaselineDrifted(w) ==
    active # {Target(w)} /\ active # RequestOf(w).baseline

PrepareLegacy(w) ==
    /\ workers[w].pc = "claimed"
    /\ ~IsProduct(workers[w].request)
    /\ GoesTo(w, IF active = {Target(w)} THEN "completing" ELSE "ready")

PrepareProduct(w) ==
    /\ workers[w].pc = "claimed"
    /\ IsProduct(workers[w].request)
    /\ \E bindingDrifted \in BOOLEAN :
           GoesTo(w, IF BaselineDrifted(w) \/ bindingDrifted THEN "superseding"
                     ELSE IF active = {Target(w)} THEN "completing" ELSE "ready")

\* Mutant: the lease is renewed from where it ends.
RenewLeaseFromItsEnd(w) ==
    /\ workers[w].pc = "ready"
    /\ IF Owns(w)
       THEN /\ Becomes(workers[w].request, [RequestOf(w) EXCEPT !.lease = @ + Lease])
            /\ workers' = [workers EXCEPT ![w].pc = "renewed"]
       ELSE GoesTo(w, "done")

RenewLease(w) ==
    /\ workers[w].pc = "ready"
    /\ IF Owns(w)
       THEN /\ Becomes(workers[w].request,
                       [RequestOf(w) EXCEPT !.lease = now + Lease])
            /\ workers' = [workers EXCEPT ![w].pc = "renewed"]
       ELSE GoesTo(w, "done")

\* The readiness gate of a legacy request, or a guarded activation that the
\* store refuses before it touches the pointer.
ActivationRefused(w) ==
    workers[w].pc = "renewed" /\ GoesTo(w, "releasing")

SendActivation(w) ==
    /\ workers[w].pc = "renewed"
    /\ workers' = [workers EXCEPT ![w] = [@ EXCEPT !.pc = "activating", !.sent = TRUE]]
    /\ UNCHANGED <<now, active, requests, sweep>>

\* activate sets the pointer; activate_guarded only from the baseline.
Activated(w) ==
    IF IsProduct(workers[w].request) /\ BaselineDrifted(w)
    THEN active
    ELSE {Target(w)}

\* The call is over, and the worker that waits for it goes on.
CallEnds(w, reply) ==
    workers' = [workers EXCEPT ![w] =
                    [@ EXCEPT !.sent = FALSE,
                              !.pc = IF workers[w].pc = "activating" THEN reply
                                     ELSE workers[w].pc]]

\* The call reaches the database; its worker learns the outcome, or nothing.
ActivationLands(w) ==
    /\ workers[w].sent
    /\ active' = Activated(w)
    /\ \E reply \in {IF active' = {Target(w)} THEN "completing" ELSE "superseding",
                     "done"} : CallEnds(w, reply)
    /\ UNCHANGED <<now, requests, sweep>>

\* Mutant: a call that fails is taken for one whose answer was lost.
ActivationIsLostDone(w) ==
    /\ workers[w].sent
    /\ CallEnds(w, "completing")
    /\ UNCHANGED <<now, active, requests, sweep>>

ActivationIsLost(w) ==
    /\ workers[w].sent
    /\ CallEnds(w, "done")
    /\ UNCHANGED <<now, active, requests, sweep>>

\* A released request is not decided.
DecisionOf(state) == {Decision(s) : s \in {state} \cap Decided}

\* Mutant: the closed request keeps its attempt.
ClosedKeepingAttempt(request, state) ==
    [request EXCEPT !.state = state, !.decisions = @ \cup DecisionOf(state)]

Closed(request, state) ==
    [request EXCEPT !.state = state, !.attempt = {}, !.lease = 0,
                    !.decisions = @ \cup DecisionOf(state)]

\* Completion, release and supersession are refused to an attempt that no
\* longer owns the request; the worker then returns LeaseLost.
Closes(w, state) ==
    /\ IF Owns(w)
       THEN Becomes(workers[w].request, Closed(RequestOf(w), state))
       ELSE UNCHANGED <<now, active, requests, sweep>>
    /\ workers' = [workers EXCEPT ![w].pc = "done"]

CompleteApplied(w) == workers[w].pc = "completing" /\ Closes(w, "Applied")

ReleaseToApproved(w) == workers[w].pc = "releasing" /\ Closes(w, "Approved")

SupersedeApplying(w) == workers[w].pc = "superseding" /\ Closes(w, "Superseded")

Stop(w) == IsRunning(w) /\ GoesTo(w, "done")

-----------------------------------------------------------------------------
(* The boot sweep, recover_applying: for a request it finds Applying it     *)
(* reads the active version, and later bookkeeps the request.              *)

Sweeps(pc, r) ==
    /\ sweep' = [pc |-> pc, request |-> r]
    /\ UNCHANGED <<now, active, workers>>

ListApplying(r) ==
    /\ sweep.pc = "idle"
    /\ SweepIsExclusive => \A w \in Attempts : ~IsRunning(w)
    /\ requests[r].state = "Applying"
    /\ Sweeps("listed", r) /\ UNCHANGED requests

SweepMatches ==
    /\ sweep.pc = "listed"
    /\ active = {TargetOf[sweep.request]}
    /\ Sweeps("matched", sweep.request) /\ UNCHANGED requests

\* Another version is active, a lookup fails, or the process dies.
SweepGivesUp ==
    /\ sweep.pc # "idle"
    /\ Sweeps("idle", NoRequest) /\ UNCHANGED requests

BookkeepApplied ==
    /\ sweep.pc = "matched"
    /\ requests' = IF requests[sweep.request].state = "Applying"
                   THEN [requests EXCEPT ![sweep.request] = Closed(@, "Applied")]
                   ELSE requests
    /\ Sweeps("idle", NoRequest)

-----------------------------------------------------------------------------
Operate(r) ==
    \/ Create(r)
    \/ MarkExpired(r)
    \/ LinkProduct(r)
    \/ \E approver \in Approvers : Approve(r, approver)
    \/ Reject(r)
    \/ Withdraw(r)
    \/ ListApplying(r)

Work(w) ==
    \/ \E r \in Requests : ClaimApply(r, w) \/ ClaimResume(r, w)
    \/ ClaimReplies(w)
    \/ PrepareFails(w)
    \/ PrepareLegacy(w)
    \/ PrepareProduct(w)
    \/ RenewLease(w)
    \/ ActivationRefused(w)
    \/ SendActivation(w)
    \/ ActivationLands(w)
    \/ ActivationIsLost(w)
    \/ CompleteApplied(w)
    \/ ReleaseToApproved(w)
    \/ SupersedeApplying(w)
    \/ Stop(w)

Next ==
    \/ Tick
    \/ \E r \in Requests : Operate(r)
    \/ \E w \in Attempts : Work(w)
    \/ SweepMatches
    \/ SweepGivesUp
    \/ BookkeepApplied

Spec == Init /\ [][Next]_vars

-----------------------------------------------------------------------------
(* ActivationRequest::validate, which every store runs on what it writes    *)
(* and on what it reads back.  The digests of the approval context, and the *)
(* count of the attempts, are left out.                                    *)

ValidTimes(r, request) ==
    LET Open == request.createdAt .. request.expiresAt - 1
    IN  /\ request.createdAt < request.expiresAt
        /\ IsProduct(r) => request.expiresAt = request.createdAt + Ttl
        /\ \A linked \in request.linkedAt :
               /\ linked \in Open
               /\ \A approval \in request.approvals : linked <= approval.at
        /\ \A approval \in request.approvals : approval.at \in Open
        /\ \A decision \in request.decisions :
               /\ request.createdAt <= decision.at
               /\ decision.state = "Rejected" => decision.at < request.expiresAt

ValidRequest(r, request) ==
    /\ ValidTimes(r, request)
    /\ \A a, b \in request.approvals : a.by = b.by => a = b
    /\ ~IsProduct(r) => request.linkedAt = {}
    /\ IsProduct(r) /\ request.linkedAt = {}
           => request.state \in {"Pending", "Expired"} /\ request.approvals = {}
    /\ IF request.state = "Applying"
       THEN request.attempt # {} /\ request.lease # 0
       ELSE request.attempt = {} /\ request.lease = 0
    /\ request.state = "Pending" => ~Suffices(request.approvals)
    /\ request.state \in {"Approved", "Applying", "Applied", "Superseded"}
           => Suffices(request.approvals)
    /\ {decision.state : decision \in request.decisions} = {request.state} \cap Decided
    /\ request.state = "Superseded" => IsProduct(r) /\ request.linkedAt # {}

-----------------------------------------------------------------------------
(* Properties.                                                             *)

\* Every variable keeps its type.  No request or worker carries a time that has
\* not come, and no lease, however often it is renewed, ends later than one term
\* from now: that is how long a dead worker's request waits to be resumed.
TypeOK ==
    /\ now \in 0 .. MaxTime
    /\ active \in Option(Versions)
    /\ requests \in [Requests -> Request(now)]
    /\ workers \in [Attempts -> Worker(now)]
    /\ sweep \in Sweep

\* No order of decisions, attempts, sweeps and expiry leaves a request that
\* validate refuses, and that no operation could read again.
RequestsValidate ==
    \A r \in Requests :
        requests[r].state # "Absent" => ValidRequest(r, requests[r])

\* A request becomes Applied, by its attempt or by the boot sweep, only when
\* its target is the active version: between the worker's last look at the
\* pointer (or the call that moved it) and the write of Applied, no other
\* attempt, and no abandoned call, has moved the pointer elsewhere.
AppliedWhenActive ==
    [][\A r \in Requests :
           (requests[r].state # "Applied" /\ requests'[r].state = "Applied")
               => active = {TargetOf[r]}]_vars

\* An activation call that can still reach the database belongs to the attempt
\* that owns the Applying request, even when its worker is gone: nobody has
\* resumed, released or completed the request behind it, so it never undoes a
\* later activation.
MoverOwnsRequest == \A w \in Attempts : workers[w].sent => Owns(w)

\* The pointer only ever moves to the target of a request that is being applied
\* with all its approvals and, for a product request, is linked and was approved
\* against the version it replaces: a rejected, withdrawn, expired or superseded
\* request never moves it, however late its call lands.
PointerMoveIsApproved ==
    [][active' # active =>
           \E r \in Requests :
               /\ active' = {TargetOf[r]}
               /\ requests[r].state = "Applying"
               /\ Cardinality(requests[r].approvals) >= RequiredApprovals
               /\ IsProduct(r) => ~Unlinked(r) /\ requests[r].baseline = active]_vars
=============================================================================
