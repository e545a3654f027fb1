----------------------------- MODULE Promotion -----------------------------
(***************************************************************************)
(* Promotion of an authored rule set: PromotionService drives one durable  *)
(* journal record from Prepared over Published to ActivationPending (or    *)
(* Expired), talking to three other stores on the way: the rule set        *)
(* registry, the activation requests and the authoring environment.        *)
(*                                                                         *)
(* No transaction spans the stores.  A task is a call of submit or resume; *)
(* each of its steps is one await, so tasks interleave at every await and  *)
(* Fault ends a task at any of them: a crash, a store error, or an answer  *)
(* lost after the call took effect (the fault after the step).             *)
(* Time is the database's clock, as the planner's parameters name it.      *)
(***************************************************************************)
EXTENDS Integers, FiniteSets

CONSTANTS
    Tasks,       \* concurrent callers of submit and resume
    Digests,     \* request digests submitted under the one promotion id
    Ttl,         \* seconds an activation request stays open
    MaxTime,     \* bound on the clock
    MaxFaults    \* bound on crashes, store errors and lost answers

ASSUME PromotionConstants ==
    /\ Ttl \in Nat \ {0}
    /\ MaxTime \in Nat
    /\ MaxFaults \in Nat

VARIABLES
    record,      \* the promotion journal's row
    published,   \* the registry holds the promoted artifact
    request,     \* the activation request of the promotion
    active,      \* the active version: "base", "own" or "other"
    bound,       \* the bindings are still at the authored revision
    task,        \* the state of every caller
    now, faults

store == <<record, published, request>>
world == <<active, bound, now>>
vars  == <<store, world, task, faults>>

Absent == [stage |-> "absent"]
Rounds == 8      \* the loop bound of resume_to_activation_pending

Outcomes == {"none", "pending", "expired", "conflict", "mismatch", "invalid",
             "limit", "idempotency", "fault"}

Later(a, b) == IF a < b THEN b ELSE a

----------------------------------------------------------------------------
(* The journal record. *)

\* Mutant: revisions counted from zero.
PreparedAtZero(d) ==
    [stage |-> "Prepared", revision |-> 0, digest |-> d, created |-> now,
     updated |-> now, activation |-> Absent]

\* PromotionRecordV1::prepared
Prepared(d) ==
    [stage |-> "Prepared", revision |-> 1, digest |-> d, created |-> now,
     updated |-> now, activation |-> Absent]

\* PromotionRecordV1::validate: the rules that relate fields to each other.
Validates(r) ==
    /\ r.revision \in CASE r.stage = "Prepared" -> {1}
                        [] r.stage = "Published" -> {2}
                        [] r.stage = "ActivationPending" -> {3}
                        [] r.stage = "Expired" -> {3, 4}
    /\ r.created <= r.updated
    /\ r.stage \in {"ActivationPending", "Expired"} =>
          /\ r.created <= r.activation.created
          /\ r.activation.created <= r.updated
          /\ r.activation.expires = r.activation.created + Ttl
    /\ r.stage = "Expired" => /\ r.activation.disposition = "Reused"
                              /\ r.activation.expires <= r.updated

SameActivation(a, b) == \A f \in {"created", "expires", "baseline"} : a[f] = b[f]

\* The stages a stage may be reached from; an activation that expires must be
\* the journaled one.
MayFollow(r, stage, activation) ==
    \/ stage = "Published" /\ r.stage = "Prepared"
    \/ stage = "ActivationPending" /\ r.stage = "Published"
    \/ stage = "Expired" /\ r.stage = "Published"
    \/ /\ stage = "Expired" /\ r.stage = "ActivationPending"
       /\ SameActivation(r.activation, activation)

NextStage(r, stage, activation, at) ==
    [r EXCEPT !.stage = stage, !.revision = @ + 1, !.updated = at,
              !.activation = activation]

\* Mutant: the expected revision is not compared.
VerdictOfStage(r, expected, stage, activation, at) ==
    IF \/ at < r.updated
       \/ ~MayFollow(r, stage, activation)
       \/ ~Validates(NextStage(r, stage, activation, at))
    THEN "invalid" ELSE "ok"

\* The transition functions' answer on row r, in the order they look.
Verdict(r, expected, stage, activation, at) ==
    IF r.revision # expected THEN "revision"
    ELSE IF \/ at < r.updated
            \/ ~MayFollow(r, stage, activation)
            \/ ~Validates(NextStage(r, stage, activation, at)) THEN "invalid"
    ELSE "ok"

----------------------------------------------------------------------------
(* A caller's call.  `read' is the row as read in this round, `plan' the    *)
(* activation about to be journaled, `baseline' the resolved context.       *)

Idle(outcome) ==
    [pc |-> "idle", outcome |-> outcome, round |-> 0, read |-> Absent,
     baseline |-> "none", plan |-> Absent, at |-> 0]

At(t, pc) == task[t].pc = pc

Return(t, outcome) == task' = [task EXCEPT ![t] = Idle(outcome)]

Round(n) == [Idle("none") EXCEPT !.pc = "read", !.round = n]

\* `continue': the next round reads the journal again.
Continue(t) == task' = [task EXCEPT ![t] = Round(@.round)]

\* Complete a proposal on the row as read and go on to journal it.
Propose(t, stage, pc, activation, at) ==
    IF Verdict(task[t].read, task[t].read.revision, stage, activation, at) = "ok"
    THEN task' = [task EXCEPT ![t] = [@ EXCEPT !.pc = pc, !.plan = activation, !.at = at]]
    ELSE Return(t, "invalid")

\* create_prepared, then the resume of submit_verified_promotion.
Start(t, d) ==
    /\ At(t, "idle")
    /\ IF record = Absent
       THEN record' = Prepared(d) /\ task' = [task EXCEPT ![t] = Round(0)]
       ELSE /\ UNCHANGED record
            /\ IF record.digest = d THEN task' = [task EXCEPT ![t] = Round(0)]
                                    ELSE Return(t, "idempotency")
    /\ UNCHANGED <<published, request, world, faults>>

\* A resume of the promotion by its id alone.
Resume(t) ==
    /\ At(t, "idle")
    /\ record # Absent
    /\ task' = [task EXCEPT ![t] = Round(0)]
    /\ UNCHANGED <<store, world, faults>>

\* Mutant: a promotion found ActivationPending is reported without linking it.
ReadWithoutLink(t) ==
    /\ At(t, "read")
    /\ LET pc == CASE record.stage = "Prepared" -> "publish"
                   [] record.stage = "Published" -> "resolve"
                   [] OTHER -> "done"
       IN  IF pc = "done"
           THEN Return(t, IF record.stage = "Expired" THEN "expired" ELSE "pending")
           ELSE task' = [task EXCEPT ![t] = [@ EXCEPT !.pc = pc, !.read = record,
                                                      !.round = task[t].round + 1]]
    /\ UNCHANGED <<store, world, faults>>

\* The dispatch on the stage a round finds.
Dispatch(stage) ==
    CASE stage = "Prepared" -> "publish"
      [] stage = "Published" -> "resolve"
      [] stage = "ActivationPending" -> "verify"
      [] OTHER -> "done"

\* get, and the dispatch.
Read(t) ==
    /\ At(t, "read")
    /\ LET pc == Dispatch(record.stage)
       IN  IF task[t].round = Rounds THEN Return(t, "limit")
           ELSE IF pc = "done" THEN Return(t, "expired")
           ELSE task' = [task EXCEPT ![t] = [@ EXCEPT !.pc = pc, !.read = record,
                                                      !.round = task[t].round + 1]]
    /\ UNCHANGED <<store, world, faults>>

\* publish_ruleset creates the artifact or finds the identical one.
Publish(t) ==
    /\ At(t, "publish")
    /\ published' = TRUE
    /\ Propose(t, "Published", "markPublished", Absent, now)
    /\ UNCHANGED <<record, request, world, faults>>

\* mark_published, mark_activation_pending and mark_expired: the row changes
\* only if it is still at the revision that was read.
Mark(t, pc, stage, Done) ==
    /\ At(t, pc)
    /\ LET verdict == Verdict(record, task[t].read.revision, stage,
                              task[t].plan, task[t].at)
       IN  CASE verdict = "ok" ->
                  /\ record' = NextStage(record, stage, task[t].plan, task[t].at)
                  /\ Done
             [] verdict = "revision" -> Continue(t) /\ UNCHANGED record
             [] OTHER -> Return(t, verdict) /\ UNCHANGED record
    /\ UNCHANGED <<published, request, world, faults>>

MarkPublished(t) == Mark(t, "markPublished", "Published", Continue(t))
MarkActivationPending(t) ==
    Mark(t, "markActivationPending", "ActivationPending", Continue(t))
MarkExpired(t) == Mark(t, "markExpired", "Expired", Return(t, "expired"))

\* resolve_product_approval_context
Resolve(t) ==
    /\ At(t, "resolve")
    /\ IF published /\ bound
       THEN task' = [task EXCEPT ![t] = [@ EXCEPT !.pc = "ensure", !.baseline = active]]
       ELSE Return(t, "conflict")
    /\ UNCHANGED <<store, world, faults>>

\* Mutant: the request is born linked, before it is journaled.
NewRequestLinked(t) ==
    [state |-> "pending", linked |-> TRUE, digest |-> task[t].read.digest,
     baseline |-> task[t].baseline, created |-> now, expires |-> now + Ttl]

\* ActivationRequest::create_product
NewRequest(t) ==
    [state |-> "pending", linked |-> FALSE, digest |-> task[t].read.digest,
     baseline |-> task[t].baseline, created |-> now, expires |-> now + Ttl]

\* The activation the journal is to hold for request q.
Link(q, disposition) ==
    [stage |-> "link", created |-> q.created, expires |-> q.expires,
     baseline |-> q.baseline, disposition |-> disposition]

\* validate_activation_receipt
Observed(t, q, disposition) ==
    CASE q.created < task[t].read.created -> "mismatch"
      [] q.created >= task[t].read.created /\ disposition = "Created" -> "pending"
      [] OTHER -> CASE q.state = "expired" -> "expired"
                    [] q.state # "expired" /\ q.linked -> "refresh"
                    [] q.state = "pending" /\ ~q.linked -> "pending"
                    [] OTHER -> "mismatch"

\* PendingActivationProposalV1::complete
CompletePending(t, q, disposition) ==
    LET seen == Observed(t, q, disposition)
    IN  CASE seen = "mismatch" -> Return(t, "mismatch")
          [] seen = "refresh" -> Continue(t)
          [] seen = "pending" ->
                Propose(t, "ActivationPending", "markActivationPending",
                        Link(q, disposition), Later(now, q.created))
          [] seen = "expired" ->
                Propose(t, "Expired", "markExpired", Link(q, disposition),
                        Later(now, q.expires))

\* matches_product_request
MatchesRequest(t) == /\ request.baseline = task[t].baseline
                     /\ request.digest = task[t].read.digest

\* ensure_pending_activation: the request's id does not depend on the resolved
\* context, so a request made for another context is a conflict.
Ensure(t) ==
    /\ At(t, "ensure")
    /\ IF request = Absent
       THEN /\ request' = NewRequest(t)
            /\ CompletePending(t, request', "Created")
       ELSE /\ UNCHANGED request
            /\ IF MatchesRequest(t)
               THEN CompletePending(t, request, "Reused")
               ELSE Return(t, "conflict")
    /\ UNCHANGED <<record, published, world, faults>>

\* verify_activation_pending_journal
Verify(t) ==
    /\ At(t, "verify")
    /\ IF /\ record.stage = "ActivationPending"
          /\ SameActivation(record.activation, task[t].read.activation)
       THEN task' = [task EXCEPT ![t].pc = "link"]
       ELSE Return(t, "conflict")
    /\ UNCHANGED <<store, world, faults>>

\* expire_if_due
Due(q) == q.state \in {"pending", "approved"} /\ q.expires <= now
Expired(q) == IF Due(q) THEN [q EXCEPT !.state = "expired"] ELSE q

\* link_product_at: an unlinked request that comes due is found expired once,
\* afterwards it is not pending.
Linked(q) ==
    CASE q.linked -> Expired(q)
      [] ~q.linked /\ Due(q) -> Expired(q)
      [] ~q.linked /\ q.state = "pending" /\ ~Due(q) -> [q EXCEPT !.linked = TRUE]
      [] OTHER -> Absent

\* validate_linked_activation
LinkedExactly(t, q) == /\ SameActivation(q, task[t].read.activation)
                       /\ q.linked \/ q.state = "expired"

\* Mutant: expiry is judged by the clock instead of the request's state.
CompleteLinkByClock(t, q) ==
    IF q.expires <= now
    THEN Propose(t, "Expired", "markExpired", Link(q, "Reused"),
                 Later(now, q.expires))
    ELSE Return(t, "pending")

\* ActivationLinkProposalV1::complete
CompleteLink(t, q) ==
    CASE ~LinkedExactly(t, q) -> Return(t, "mismatch")
      [] LinkedExactly(t, q) /\ q.state = "expired" ->
            Propose(t, "Expired", "markExpired", Link(q, "Reused"),
                    Later(now, q.expires))
      [] OTHER -> Return(t, "pending")

LinkPending(t) ==
    /\ At(t, "link")
    /\ IF \/ request.baseline # task[t].read.activation.baseline
          \/ Linked(request) = Absent
       THEN Return(t, "conflict") /\ UNCHANGED request
       ELSE request' = Linked(request) /\ CompleteLink(t, request')
    /\ UNCHANGED <<record, published, world, faults>>

Step(t) ==
    \/ Read(t) \/ Publish(t) \/ MarkPublished(t) \/ Resolve(t) \/ Ensure(t)
    \/ MarkActivationPending(t) \/ Verify(t) \/ LinkPending(t) \/ MarkExpired(t)

\* A crash, a store error or a lost answer ends the call where it stands.
Fault(t) ==
    /\ ~At(t, "idle")
    /\ faults < MaxFaults
    /\ faults' = faults + 1
    /\ Return(t, "fault")
    /\ UNCHANGED <<store, world>>

----------------------------------------------------------------------------
(* The request's reviewers and the rest of the system. *)

\* approve_bound_at, reject_at and withdraw_at on a product request.
Decide(state) ==
    /\ request # Absent
    /\ request.linked /\ ~Due(request)
    /\ request.state \in (IF state = "withdrawn" THEN {"pending", "approved"}
                                                 ELSE {"pending"})
    /\ request' = [request EXCEPT !.state = state]
    /\ UNCHANGED <<record, published, world, task, faults>>

\* An approved request is applied, or superseded once its context has drifted.
Apply ==
    /\ request # Absent
    /\ request.state = "approved" /\ ~Due(request)
    /\ IF bound /\ active = request.baseline
       THEN request' = [request EXCEPT !.state = "applied"] /\ active' = "own"
       ELSE request' = [request EXCEPT !.state = "superseded"] /\ UNCHANGED active
    /\ UNCHANGED <<record, published, bound, now, task, faults>>

\* Any reader or decision of the request store that finds the request due.
Expire ==
    /\ request # Absent
    /\ Due(request)
    /\ request' = Expired(request)
    /\ UNCHANGED <<record, published, world, task, faults>>

\* Another promotion of the same rule set is applied.
MoveActive ==
    /\ active # "other"
    /\ active' = "other"
    /\ UNCHANGED <<store, bound, now, task, faults>>

\* The guild's resource bindings move to another revision.
MoveBindings ==
    /\ bound
    /\ bound' = FALSE
    /\ UNCHANGED <<store, active, now, task, faults>>

Tick ==
    /\ now < MaxTime
    /\ now' = now + 1
    /\ UNCHANGED <<store, active, bound, task, faults>>

Init ==
    /\ record = Absent /\ request = Absent /\ published = FALSE
    /\ active = "base" /\ bound = TRUE
    /\ now = 0 /\ faults = 0
    /\ task = [t \in Tasks |-> Idle("none")]

Next ==
    \/ \E t \in Tasks : \/ \E d \in Digests : Start(t, d)
                        \/ Resume(t) \/ Step(t) \/ Fault(t)
    \/ \E s \in {"approved", "rejected", "withdrawn"} : Decide(s)
    \/ Apply \/ Expire \/ MoveActive \/ MoveBindings \/ Tick

Spec == Init /\ [][Next]_vars

\* Tasks are scheduled, and a caller whose call ended resumes the promotion
\* again (the design's retry for every failure short of expiry and drift).
FairSpec == Spec /\ \A t \in Tasks : WF_vars(Step(t)) /\ WF_vars(Resume(t))

----------------------------------------------------------------------------
(* Properties *)

Baselines == {"base", "own", "other"}

Activations ==
    [stage : {"link"}, created : 0..MaxTime, expires : Ttl..(MaxTime + Ttl),
     baseline : Baselines, disposition : {"Created", "Reused"}]
    \cup {Absent}

Records ==
    [stage : {"Prepared", "Published", "ActivationPending", "Expired"},
     revision : 1..4, digest : Digests, created : 0..MaxTime,
     updated : 0..MaxTime, activation : Activations]

Requests ==
    [state : {"pending", "approved", "applied", "rejected", "withdrawn",
              "superseded", "expired"},
     linked : BOOLEAN, digest : Digests, baseline : Baselines,
     created : 0..MaxTime, expires : Ttl..(MaxTime + Ttl)]

Calls ==
    [pc : {"idle", "read", "publish", "markPublished", "resolve", "ensure",
           "markActivationPending", "verify", "link", "markExpired"},
     outcome : Outcomes, round : 0..Rounds, read : Records \cup {Absent},
     baseline : Baselines \cup {"none"}, plan : Activations, at : 0..MaxTime]

\* The journal's row, the request and every call have the shape the stores
\* and the service give them, no row is dated ahead of the clock, and no call
\* runs more than eight rounds.
TypeOK ==
    /\ record \in Records \cup {Absent}
    /\ request \in Requests \cup {Absent}
    /\ published \in BOOLEAN /\ bound \in BOOLEAN
    /\ active \in Baselines
    /\ now \in 0..MaxTime /\ faults \in 0..MaxFaults
    /\ task \in [Tasks -> Calls]

\* Only a linked request can be approved, rejected or withdrawn.  Whatever the
\* interleaving of calls and faults, a linked request is journaled: the row is
\* past Published, was submitted under the request's digest, and holds exactly
\* the request's context, creation and expiry.
LinkedIsJournaled ==
    request # Absent /\ request.linked =>
        /\ record.stage \in {"ActivationPending", "Expired"}
        /\ record.digest = request.digest
        /\ SameActivation(record.activation, request)

\* The journal says Expired only of a request that did expire, never of one
\* that was decided or applied before a late resume looked at the clock.
ExpiredIsTrue == record.stage = "Expired" => request.state = "expired"

Drift == active # "base" \/ ~bound

\* A call returns a conflict only if the environment drifted or the request
\* expired.  No interleaving of concurrent calls makes one run out of rounds,
\* meet a request it does not recognise, or propose a row the store refuses.
FailureIsExplained ==
    \A t \in Tasks :
        /\ task[t].outcome \notin {"limit", "mismatch", "invalid"}
        /\ task[t].outcome = "conflict" =>
              Drift \/ (request # Absent /\ request.state = "expired")

\* Among callers that resume after every failed call, a prepared promotion
\* ends with an approvable request, an expired one, or a drifted environment:
\* concurrent resumes do not keep refreshing the journal for each other.
PromotionSettles ==
    record # Absent ~>
        Drift \/ (request # Absent /\ (request.linked \/ request.state = "expired"))

\* "Approval expired: activation terminal; promotion records expiry when
\* observed": a resume that meets an expired request in an environment that
\* has not drifted leaves the journal at Expired.
ExpiryIsRecorded ==
    (\E t \in Tasks : task[t].outcome = "conflict") /\ ~Drift
        => record.stage = "Expired"
=============================================================================
