----------------------- MODULE RuleSetActivationProofs -----------------------
(***************************************************************************)
(* Proofs about RuleSetActivation, for any requests, attempts, approvers,  *)
(* durations and length of time.                                           *)
(*                                                                         *)
(* Requests stay valid however the boot sweep runs (RowInv).  That the     *)
(* pointer and the requests agree needs the sweep to run alone, as the     *)
(* boot sequence has it (ExclusiveInv).  The reply to a claim may take any *)
(* time, so that an attempt can be at work on a request it has lost; but   *)
(* one that has renewed its lease, and may move the pointer, owns the one  *)
(* Applying request until its call has landed.                             *)
(***************************************************************************)
EXTENDS RuleSetActivation, FiniteSetTheorems, TLAPS

\* An attempt is at work, or a call of it can still reach the database.
Busy(w) == IsRunning(w) \/ workers[w].sent

\* Workers and the sweep have a request while they need one, and only a
\* product request is superseded.
WorkSound ==
    /\ \A w \in Attempts : /\ Busy(w) => workers[w].request \in Requests
                           /\ workers[w].pc = "superseding" => IsProduct(workers[w].request)
    /\ sweep.pc # "idle" => sweep.request \in Requests

RowInv == TypeOK /\ RequestsValidate /\ WorkSound

\* No attempt outlives its deadline, and no call its flight.
InTime(w) ==
    /\ UnderDeadline(w) => now <= workers[w].startedAt + Deadline
    /\ workers[w].sent => now <= workers[w].startedAt + Deadline + Flight

\* The attempt has renewed its lease to move the pointer, or its call is out.
Holding(w) == workers[w].sent \/ workers[w].pc \in {"renewed", "activating"}

\* It then owns its request, under a lease that outlasts its call.
HasClaim(w) ==
    Holding(w) => /\ Owns(w)
                  /\ workers[w].startedAt + Lease <= RequestOf(w).lease

\* What an attempt that owns its request knows of the pointer: it is where the
\* attempt wants it, or not yet.
KnowsPointer(w) ==
    /\ workers[w].sent => workers[w].pc \in {"activating", "done"}
    /\ Owns(w) /\ workers[w].pc = "completing" => active = {Target(w)}
    /\ Owns(w) /\ (workers[w].sent \/ workers[w].pc \in {"ready", "renewed", "activating"})
           => active # {Target(w)}

OneApplying ==
    \A q, r \in Requests :
        requests[q].state = "Applying" /\ requests[r].state = "Applying" => q = r

\* While the sweep is at work nothing else is, and its request stays Applying.
SweepAlone ==
    sweep.pc # "idle" =>
        /\ \A w \in Attempts : ~IsRunning(w)
        /\ requests[sweep.request].state = "Applying"
        /\ sweep.pc = "matched" => active = {TargetOf[sweep.request]}

ExclusiveInv ==
    /\ RowInv /\ OneApplying /\ SweepAlone
    /\ \A w \in Attempts : InTime(w) /\ HasClaim(w) /\ KnowsPointer(w)

----------------------------------------------------------------------------
(* Rows. *)

ValidRow(r, q) == q.state # "Absent" => ValidRequest(r, q)

\* Every stored request is a record that validates.
LEMMA RowReads ==
  ASSUME RowInv, NEW r \in Requests
  PROVE  requests[r] \in Request(now) /\ ValidRow(r, requests[r])
BY Zenon DEF RowInv, TypeOK, RequestsValidate, ValidRow

\* A valid record in the place of one request leaves every request valid.
LEMMA RowWritten ==
  ASSUME RowInv, NEW r \in Requests, NEW q \in Request(now), ValidRow(r, q),
         requests' = [requests EXCEPT ![r] = q]
  PROVE  requests' \in [Requests -> Request(now)] /\ RequestsValidate'
<1>1. requests \in [Requests -> Request(now)]
  BY Zenon DEF RowInv, TypeOK
<1>2. requests' \in [Requests -> Request(now)]
  BY <1>1, Zenon
<1>3. ASSUME NEW s \in Requests PROVE ValidRow(s, requests'[s])
  <2>1. CASE s = r
    BY <2>1, <1>1, Zenon
  <2>2. CASE s # r
    <3>1. requests'[s] = requests[s]
      BY <2>2, <1>1, Zenon
    <3> QED BY <3>1, RowReads, Zenon
  <2> QED BY <2>1, <2>2, Zenon
<1>4. RequestsValidate'
  BY <1>3, Zenon DEF RequestsValidate, ValidRow, ValidRequest, ValidTimes, IsProduct, Suffices
<1> QED BY <1>2, <1>4, Zenon

\* A request without approvals is not approved.
LEMMA NoneIsTooFew == ~Suffices({})
BY FS_EmptySet, ApprovalsAssumption DEF Suffices

\* A person writes a valid record; workers and sweep are left alone.
LEMMA PeopleKeepRows ==
  ASSUME RowInv, NEW r \in Requests, NEW q \in Request(now), ValidRow(r, q),
         Becomes(r, q), UNCHANGED workers
  PROVE  RowInv'
<1>0. now' = now /\ active' = active /\ sweep' = sweep /\ requests' = [requests EXCEPT ![r] = q]
  BY Zenon DEF Becomes
<1>1. requests' \in [Requests -> Request(now)] /\ RequestsValidate'
  BY <1>0, RowWritten, Zenon
<1>2. TypeOK'
  BY <1>0, <1>1, Zenon DEF RowInv, TypeOK
<1>3. WorkSound'
  BY <1>0, Zenon DEF RowInv, WorkSound, Busy, IsRunning
<1> QED BY <1>1, <1>2, <1>3, Zenon DEF RowInv

\* The worker's record is replaced by one that is as sound.
LEMMA WorkerWritten ==
  ASSUME RowInv, NEW w \in Attempts, NEW k \in Worker(now),
         k.pc \in Running \/ k.sent => k.request \in Requests,
         k.pc = "superseding" => IsProduct(k.request),
         workers' = [workers EXCEPT ![w] = k],
         sweep' = sweep, now' = now, active' \in Option(Versions),
         requests' \in [Requests -> Request(now)], RequestsValidate'
  PROVE  RowInv'
<1>1. workers \in [Attempts -> Worker(now)]
  BY Zenon DEF RowInv, TypeOK
<1>2. TypeOK'
  BY <1>1, Zenon DEF RowInv, TypeOK
<1>3. ASSUME NEW v \in Attempts
      PROVE  (/\ Busy(v) => workers[v].request \in Requests
              /\ workers[v].pc = "superseding" => IsProduct(workers[v].request))'
  <2>1. CASE v = w
    <3>1. workers'[v] = k
      BY <2>1, <1>1, Zenon
    <3> QED BY <3>1, Zenon DEF Busy, IsRunning
  <2>2. CASE v # w
    <3>1. workers'[v] = workers[v]
      BY <2>2, <1>1, Zenon
    <3> QED BY <3>1, Zenon DEF RowInv, WorkSound, Busy, IsRunning
  <2> QED BY <2>1, <2>2, Zenon
<1>4. WorkSound'
  BY <1>3, Zenon DEF RowInv, WorkSound
<1> QED BY <1>2, <1>4, Zenon DEF RowInv

----------------------------------------------------------------------------
(* Every step keeps the requests valid, whenever the sweep runs. *)

\* The present is a time that can be stored, and so are the ends of its terms.
LEMMA Times ==
  ASSUME RowInv
  PROVE  /\ now \in Nat /\ now \in 0 .. now /\ 0 \in 0 .. now
         /\ now + Lease \in 0 .. now + Lease /\ 0 \in 0 .. now + Lease /\ now + Lease # 0
         /\ now + Ttl \in 0 .. now + Ttl /\ now < now + Ttl
<1>1. now \in 0 .. MaxTime
  BY Zenon DEF RowInv, TypeOK
<1> QED BY <1>1, DurationAssumption

\* The times of a request.
LEMMA RequestTimes ==
  ASSUME RowInv, NEW q \in Request(now)
  PROVE  /\ q.createdAt \in Nat /\ q.createdAt <= now /\ q.expiresAt \in Nat /\ q.lease \in Nat
         /\ \A t \in q.linkedAt : t \in Nat /\ t <= now
<1>1. now \in Nat
  BY Times, Zenon
<1>2. q.createdAt \in 0 .. now /\ q.expiresAt \in 0 .. now + Ttl /\ q.lease \in 0 .. now + Lease
      /\ q.linkedAt \in Option(0 .. now)
  BY Zenon DEF Request
<1>3. \A t \in q.linkedAt : t \in 0 .. now
  BY <1>2, Zenon DEF Option
<1> QED BY <1>1, <1>2, <1>3, DurationAssumption

\* The times of a request stay in order when its state, attempt or lease change.
LEMMA SameTimes ==
  ASSUME NEW r, NEW p, NEW q, ValidTimes(r, p),
         q.createdAt = p.createdAt, q.expiresAt = p.expiresAt, q.linkedAt = p.linkedAt,
         q.approvals = p.approvals, q.decisions = p.decisions
  PROVE  ValidTimes(r, q)
BY Zenon DEF ValidTimes

\* They stay in order when a decision is recorded.
LEMMA DecisionInTime ==
  ASSUME NEW r, NEW p, NEW q, NEW d, ValidTimes(r, p),
         q.createdAt = p.createdAt, q.expiresAt = p.expiresAt, q.linkedAt = p.linkedAt,
         q.approvals = p.approvals, q.decisions = p.decisions \cup {d},
         p.createdAt <= d.at, d.state = "Rejected" => d.at < p.expiresAt
  PROVE  ValidTimes(r, q)
BY Zenon DEF ValidTimes

\* An undecided request has the one decision that is recorded.
LEMMA DecisionAlone ==
  ASSUME NEW p, NEW q, NEW state \in Decided,
         {d.state : d \in p.decisions} = {p.state} \cap Decided, p.state \notin Decided,
         q.decisions = p.decisions \cup {Decision(state)}, q.state = state
  PROVE  {d.state : d \in q.decisions} = {q.state} \cap Decided
<1>1. p.decisions = {}
  BY Zenon
<1>2. Decision(state).state = state
  BY Zenon DEF Decision
<1> QED BY <1>1, <1>2

\* A decision of now is a decision.
LEMMA DecisionTyped ==
  ASSUME RowInv, NEW state \in Decided
  PROVE  /\ Decision(state) \in [state: Decided, at: 0 .. now]
         /\ Decision(state).at = now /\ Decision(state).state = state
BY Times, Zenon DEF Decision

\* The record of a request that does not exist yet.
LEMMA AbsentTyped ==
  ASSUME NEW t \in Nat
  PROVE  Absent \in Request(t)
<1>1. 0 \in 0 .. t /\ 0 \in 0 .. t + Ttl /\ 0 \in 0 .. t + Lease
  BY DurationAssumption
<1> QED BY <1>1, Zenon DEF Absent, Request, States, Option

\* At the start nothing exists and nothing runs.
LEMMA RowsInit == Init => RowInv
<1> SUFFICES ASSUME Init PROVE RowInv
  BY Zenon
<1>0. now = 0 /\ now \in Nat /\ 0 \in 0 .. now
  BY DEF Init
<1>1. Absent \in Request(now)
  BY <1>0, AbsentTyped, Zenon
<1>2. [pc |-> "idle", request |-> NoRequest, startedAt |-> 0, sent |-> FALSE] \in Worker(now)
  BY <1>0, Zenon DEF Worker
<1>3. requests \in [Requests -> Request(now)] /\ workers \in [Attempts -> Worker(now)]
  BY <1>1, <1>2, Zenon DEF Init
<1>4. TypeOK
  <2>1. now \in 0 .. MaxTime
    BY DurationAssumption DEF Init
  <2>2. sweep \in Sweep
    BY Zenon DEF Init, Sweep, SweepIdle
  <2> QED BY <1>3, <2>1, <2>2, Zenon DEF Init, TypeOK
<1>5. RequestsValidate
  BY Zenon DEF Init, RequestsValidate, Absent
<1>6. WorkSound
  BY Zenon DEF Init, WorkSound, Busy, IsRunning, Running, SweepIdle
<1> QED BY <1>4, <1>5, <1>6, Zenon DEF RowInv

\* What people do: each operation writes a record that validates.
LEMMA PeopleRows ==
  ASSUME RowInv, NEW r \in Requests,
         \/ Create(r) \/ MarkExpired(r) \/ LinkProduct(r)
         \/ \E approver \in Approvers : Approve(r, approver)
         \/ Reject(r) \/ Withdraw(r)
  PROVE  RowInv' /\ UNCHANGED workers
         /\ \E q \in Request(now) :
               /\ Becomes(r, q)
               /\ requests[r].state # "Applying" /\ q.state # "Applying"
               /\ q.state # "Applied"
<1> DEFINE p == requests[r]
<1>0. p \in Request(now) /\ ValidRow(r, p)
  BY RowReads, Zenon
<1>t. now \in Nat /\ now \in 0 .. now /\ now + Ttl \in 0 .. now + Ttl /\ 0 \in 0 .. now
      /\ now < now + Ttl
  BY Times, Zenon
<1>u. UNCHANGED workers
  BY Zenon DEF Create, MarkExpired, LinkProduct, Approve, Reject, Withdraw
<1>v. /\ p.createdAt \in Nat /\ p.createdAt <= now /\ p.expiresAt \in Nat
      /\ \A t \in p.linkedAt : t \in Nat /\ t <= now
  BY <1>0, RequestTimes, Zenon
<1>w. p.state \in {"Pending", "Approved"} /\ ~Due(r)
        => now < p.expiresAt /\ now \in p.createdAt .. p.expiresAt - 1
  BY <1>t, <1>v DEF Due
<1> SUFFICES \E q \in Request(now) : /\ Becomes(r, q) /\ ValidRow(r, q)
                                     /\ p.state # "Applying"
                                     /\ q.state # "Applying" /\ q.state # "Applied"
  BY <1>u, PeopleKeepRows, Zenon
<1>1. CASE Create(r)
  <2>1. PICK b \in IF IsProduct(r) THEN Option(Versions) ELSE {{}} :
          /\ p.state = "Absent"
          /\ Becomes(r, [Absent EXCEPT !.state = "Pending", !.createdAt = now,
                                       !.expiresAt = now + Ttl, !.baseline = b])
    BY <1>1, Zenon DEF Create
  <2> DEFINE q == [Absent EXCEPT !.state = "Pending", !.createdAt = now,
                                 !.expiresAt = now + Ttl, !.baseline = b]
  <2>2. b \in Option(Versions)
    BY Zenon DEF Option
  <2>3. Absent \in Request(now) /\ Absent.approvals = {} /\ Absent.attempt = {}
        /\ Absent.decisions = {} /\ Absent.linkedAt = {} /\ Absent.lease = 0
    BY <1>t, AbsentTyped, Zenon DEF Absent
  <2>4. q \in Request(now) /\ q.state = "Pending" /\ q.approvals = {} /\ q.attempt = {}
        /\ q.decisions = {} /\ q.linkedAt = {} /\ q.lease = 0
        /\ q.createdAt = now /\ q.expiresAt = now + Ttl
    BY <2>2, <2>3, <1>t, Zenon DEF Request, States
  <2> HIDE DEF q
  <2>5. ValidTimes(r, q)
    BY <2>4, <1>t, Zenon DEF ValidTimes
  <2>6. {d.state : d \in q.decisions} = {q.state} \cap Decided
    BY <2>4, Zenon DEF Decided
  <2>7. ValidRow(r, q)
    BY <2>4, <2>5, <2>6, NoneIsTooFew, Zenon DEF ValidRow, ValidRequest
  <2> QED BY <2>1, <2>4, <2>7, Zenon DEF q
<1>2. CASE MarkExpired(r)
  <2> DEFINE q == [p EXCEPT !.state = "Expired"]
  <2>0. Becomes(r, q) /\ p.state \in {"Pending", "Approved"}
    BY <1>2, Zenon DEF MarkExpired, Due
  <2>1. q \in Request(now) /\ q.state = "Expired" /\ q.approvals = p.approvals
        /\ q.attempt = p.attempt /\ q.decisions = p.decisions /\ q.linkedAt = p.linkedAt
        /\ q.lease = p.lease /\ q.createdAt = p.createdAt /\ q.expiresAt = p.expiresAt
    BY <1>0, Zenon DEF Request, States
  <2> HIDE DEF q
  <2>2. ValidRequest(r, p)
    BY <1>0, <2>0, Zenon DEF ValidRow
  <2>3. ValidTimes(r, q)
    BY <2>1, <2>2, SameTimes, Zenon DEF ValidRequest
  <2>4. ValidRow(r, q)
    <3> HIDE DEF p
    <3> QED BY <2>0, <2>1, <2>2, <2>3, Zenon DEF ValidRow, ValidRequest, Decided
  <2> QED BY <2>0, <2>1, <2>4, Zenon
<1>3. CASE LinkProduct(r)
  <2> DEFINE q == [p EXCEPT !.linkedAt = {now}]
  <2>0. Becomes(r, q) /\ p.state = "Pending" /\ p.approvals = {} /\ ~Due(r) /\ IsProduct(r)
    BY <1>3, Zenon DEF LinkProduct, Unlinked
  <2>1. q \in Request(now) /\ q.state = p.state /\ q.approvals = p.approvals
        /\ q.attempt = p.attempt /\ q.decisions = p.decisions /\ q.linkedAt = {now}
        /\ q.lease = p.lease /\ q.createdAt = p.createdAt /\ q.expiresAt = p.expiresAt
    BY <1>0, <1>t, Zenon DEF Request, Option
  <2> HIDE DEF q
  <2>2. ValidRequest(r, p)
    BY <1>0, <2>0, Zenon DEF ValidRow
  <2>3. ValidTimes(r, q)
    <3>1. now \in p.createdAt .. p.expiresAt - 1
      BY <2>0, <1>w, Zenon
    <3> HIDE DEF p
    <3> QED BY <2>0, <2>1, <2>2, <3>1, Zenon DEF ValidTimes, ValidRequest
  <2>4. ValidRow(r, q)
    <3> HIDE DEF p
    <3> QED BY <2>0, <2>1, <2>2, <2>3, Zenon DEF ValidRow, ValidRequest
  <2> QED BY <2>0, <2>1, <2>4, Zenon
<1>4. CASE \E approver \in Approvers : Approve(r, approver)
  <2>1. PICK approver \in Approvers : Approve(r, approver)
    BY <1>4, Zenon
  <2> DEFINE e == [by |-> approver, at |-> now]
             a == p.approvals \cup {e}
             s == IF Suffices(a) THEN "Approved" ELSE "Pending"
             q == [p EXCEPT !.approvals = a, !.state = s]
  <2>0. Becomes(r, q) /\ p.state = "Pending" /\ ~Due(r) /\ ~Unlinked(r)
        /\ \A o \in p.approvals : o.by # approver
    BY <2>1, Zenon DEF Approve
  <2>2. e \in [by: Approvers, at: 0 .. now] /\ e.by = approver /\ e.at = now
    BY <1>t, Zenon
  <2>a. p.approvals \in SUBSET [by: Approvers, at: 0 .. now]
    BY <1>0, Zenon DEF Request
  <2>3. a \in SUBSET [by: Approvers, at: 0 .. now] /\ s \in States
    BY <2>a, <2>2, Zenon DEF States
  <2>4. q \in Request(now) /\ q.state = s /\ q.approvals = a
        /\ q.attempt = p.attempt /\ q.decisions = p.decisions /\ q.linkedAt = p.linkedAt
        /\ q.lease = p.lease /\ q.createdAt = p.createdAt /\ q.expiresAt = p.expiresAt
    <3> HIDE DEF a, s
    <3> QED BY <1>0, <2>3, Zenon DEF Request
  <2>5. ValidRequest(r, p)
    BY <1>0, <2>0, Zenon DEF ValidRow
  <2>6. q.state \in {"Approved", "Pending"} /\ (q.state = "Approved" <=> Suffices(q.approvals))
    <3>1. s \in {"Approved", "Pending"} /\ (s = "Approved" <=> Suffices(a))
      <4> HIDE DEF a
      <4> QED BY Zenon
    <3> HIDE DEF q, s, a
    <3> QED BY <2>4, <3>1, Zenon
  <2>7. q.approvals = p.approvals \cup {e}
    BY <2>4, Zenon
  <2>b. p.linkedAt = {} => ~IsProduct(r)
    BY <2>0, Zenon DEF Unlinked
  <2>8. ValidTimes(r, q)
    <3>1. now \in p.createdAt .. p.expiresAt - 1
      BY <2>0, <1>w, Zenon
    <3> HIDE DEF p, e, q
    <3> QED BY <2>2, <2>4, <2>5, <2>7, <3>1, <1>v, Zenon DEF ValidTimes, ValidRequest
  <2>9. \A x, y \in q.approvals : x.by = y.by => x = y
    <3>1. \A x, y \in p.approvals : x.by = y.by => x = y
      BY <2>5, Zenon DEF ValidRequest
    <3> HIDE DEF p, e, q
    <3> QED BY <3>1, <2>0, <2>2, <2>7, Zenon
  <2>10. ValidRow(r, q)
    <3> HIDE DEF p, q, s, a
    <3> QED BY <2>0, <2>b, <2>4, <2>5, <2>6, <2>8, <2>9, Zenon DEF ValidRow, ValidRequest, Decided
  <2> QED BY <2>0, <2>4, <2>6, <2>10, Zenon
<1>5. CASE Reject(r) \/ Withdraw(r)
  <2> DEFINE s == IF Reject(r) THEN "Rejected" ELSE "Withdrawn"
             q == [p EXCEPT !.state = s, !.decisions = @ \cup {Decision(s)}]
  <2>0. Becomes(r, q) /\ p.state \in {"Pending", "Approved"} /\ ~Due(r) /\ ~Unlinked(r)
        /\ s \in {"Rejected", "Withdrawn"}
    BY <1>5, Zenon DEF Reject, Withdraw
  <2> HIDE DEF s
  <2>1. s \in Decided /\ s \in States
    BY <2>0, Zenon DEF Decided, States
  <2>2. Decision(s) \in [state: Decided, at: 0 .. now] /\ Decision(s).at = now
    BY <2>1, DecisionTyped, Zenon
  <2>a. p.decisions \in SUBSET [state: Decided, at: 0 .. now]
    BY <1>0, Zenon DEF Request
  <2>3. p.decisions \cup {Decision(s)} \in SUBSET [state: Decided, at: 0 .. now]
    BY <2>a, <2>2, Zenon
  <2>4. q \in Request(now) /\ q.state = s /\ q.approvals = p.approvals
        /\ q.attempt = p.attempt /\ q.decisions = p.decisions \cup {Decision(s)}
        /\ q.linkedAt = p.linkedAt
        /\ q.lease = p.lease /\ q.createdAt = p.createdAt /\ q.expiresAt = p.expiresAt
    BY <1>0, <2>1, <2>3, Zenon DEF Request
  <2> HIDE DEF q
  <2>5. ValidRequest(r, p)
    BY <1>0, <2>0, Zenon DEF ValidRow
  <2>6. now < p.expiresAt /\ p.createdAt <= now
    BY <2>0, <1>v, <1>w, Zenon
  <2>b. p.linkedAt = {} => ~IsProduct(r)
    BY <2>0, Zenon DEF Unlinked
  <2>c. p.state \notin Decided /\ p.state # "Applying"
    BY <2>0, Zenon DEF Decided
  <2> HIDE DEF p
  <2>7. ValidTimes(r, q)
    <3>1. PICK d : d = Decision(s)
      BY Zenon
    <3> QED BY <3>1, <2>2, <2>4, <2>5, <2>6, DecisionInTime, Zenon DEF ValidRequest
  <2>8. {d.state : d \in q.decisions} = {q.state} \cap Decided
    BY <2>1, <2>4, <2>5, <2>c, DecisionAlone, Zenon DEF ValidRequest
  <2>9. ValidRow(r, q)
    BY <2>0, <2>b, <2>c, <2>4, <2>5, <2>7, <2>8, Zenon DEF ValidRow, ValidRequest
  <2> QED BY <2>0, <2>c, <2>4, <2>9, Zenon
<1> QED BY <1>1, <1>2, <1>3, <1>4, <1>5

\* A worker goes on: to supersede its request only when that is a product one.
LEMMA GoesToKeepsRows ==
  ASSUME RowInv, NEW w \in Attempts, IsRunning(w), NEW pc \in Running \cup {"done"},
         GoesTo(w, pc), pc = "superseding" => IsProduct(workers[w].request)
  PROVE  RowInv'
<1> DEFINE k == [workers[w] EXCEPT !.pc = pc]
<1>0. workers \in [Attempts -> Worker(now)] /\ workers[w] \in Worker(now)
  BY Zenon DEF RowInv, TypeOK
<1>1. k \in Worker(now) /\ k.request = workers[w].request /\ k.pc = pc /\ k.sent = workers[w].sent
  BY <1>0, Zenon DEF Worker
<1>2. workers' = [workers EXCEPT ![w] = k]
  BY <1>0, Zenon DEF GoesTo
<1>3. workers[w].request \in Requests
  BY Zenon DEF RowInv, WorkSound, Busy
<1>4. requests' \in [Requests -> Request(now)] /\ RequestsValidate' /\ active' \in Option(Versions)
      /\ sweep' = sweep /\ now' = now
  BY Zenon DEF GoesTo, RowInv, TypeOK, RequestsValidate
<1> HIDE DEF k
<1> QED BY <1>1, <1>2, <1>3, <1>4, WorkerWritten, Zenon

\* The claims write the same: the row is Applying by the new attempt.
LEMMA ClaimWrites ==
  ASSUME RowInv, NEW r \in Requests, NEW w \in Attempts,
         ClaimApply(r, w) \/ ClaimResume(r, w)
  PROVE  \E q \in Request(now), k \in Worker(now) :
           /\ ValidRow(r, q) /\ q.state = "Applying" /\ q.attempt = {w}
           /\ k.pc = "claiming" /\ k.request = r /\ k.sent = workers[w].sent
           /\ requests' = [requests EXCEPT ![r] = q] /\ workers' = [workers EXCEPT ![w] = k]
           /\ now' = now /\ active' = active /\ sweep' = sweep
           /\ workers[w].pc = "idle" /\ requests[r].state \in {"Approved", "Applying"}
<1> DEFINE p == requests[r]
           q == [p EXCEPT !.state = "Applying", !.attempt = {w}, !.lease = now + Lease]
           k == [workers[w] EXCEPT !.pc = "claiming", !.request = r]
<1>0. p \in Request(now) /\ ValidRow(r, p)
  BY RowReads, Zenon
<1>t. now + Lease \in 0 .. now + Lease /\ now + Lease # 0
  BY Times, Zenon
<1>w. workers \in [Attempts -> Worker(now)] /\ workers[w] \in Worker(now)
  BY Zenon DEF RowInv, TypeOK
<1>1. q \in Request(now) /\ q.state = "Applying" /\ q.approvals = p.approvals
      /\ q.attempt = {w} /\ q.decisions = p.decisions /\ q.linkedAt = p.linkedAt
      /\ q.lease = now + Lease /\ q.createdAt = p.createdAt /\ q.expiresAt = p.expiresAt
  BY <1>0, <1>t, Zenon DEF Request, States, Option
<1>2. p.state \in {"Approved", "Applying"} /\ ~Unlinked(r)
  BY Zenon DEF ClaimApply, ClaimResume
<1>3. requests' = [requests EXCEPT ![r] = q] /\ workers' = [workers EXCEPT ![w] = k]
      /\ now' = now /\ active' = active /\ sweep' = sweep /\ workers[w].pc = "idle"
  BY <1>w, Zenon DEF ClaimApply, ClaimResume, BeginAttempt, Becomes
<1>4. k \in Worker(now) /\ k.request = r /\ k.pc = "claiming" /\ k.sent = workers[w].sent
  BY <1>w, Zenon DEF Worker, Running
<1> HIDE DEF q, k
<1>5. ValidRow(r, q)
  <2>1. ValidRequest(r, p)
    BY <1>0, <1>2, Zenon DEF ValidRow
  <2>2. p.linkedAt = {} => ~IsProduct(r)
    BY <1>2, Zenon DEF Unlinked
  <2> HIDE DEF p
  <2>3. ValidTimes(r, q)
    BY <1>1, <2>1, SameTimes, Zenon DEF ValidRequest
  <2>4. q.attempt # {} /\ q.lease # 0
    BY <1>1, <1>t, Zenon
  <2> QED BY <1>1, <1>2, <2>1, <2>2, <2>3, <2>4, Zenon DEF ValidRow, ValidRequest, Decided
<1> QED BY <1>1, <1>2, <1>3, <1>4, <1>5, Zenon

\* A claim leaves valid rows.
LEMMA ClaimRows ==
  ASSUME RowInv, NEW r \in Requests, NEW w \in Attempts,
         ClaimApply(r, w) \/ ClaimResume(r, w)
  PROVE  RowInv'
<1>1. PICK q \in Request(now), k \in Worker(now) :
        /\ ValidRow(r, q) /\ k.pc = "claiming" /\ k.request = r
        /\ requests' = [requests EXCEPT ![r] = q] /\ workers' = [workers EXCEPT ![w] = k]
        /\ now' = now /\ active' = active /\ sweep' = sweep
  BY ClaimWrites, Zenon
<1>2. active' \in Option(Versions)
  BY <1>1, Zenon DEF RowInv, TypeOK
<1>3. requests' \in [Requests -> Request(now)] /\ RequestsValidate'
  BY <1>1, RowWritten, Zenon
<1> QED BY <1>1, <1>2, <1>3, WorkerWritten, Zenon

\* The reply to a claim and the sending of the call change only the worker.
LEMMA WorkerOnlyRows ==
  ASSUME RowInv, NEW w \in Attempts, ClaimReplies(w) \/ SendActivation(w)
  PROVE  RowInv'
<1> DEFINE k == IF ClaimReplies(w)
                THEN [workers[w] EXCEPT !.pc = "claimed", !.startedAt = now]
                ELSE [workers[w] EXCEPT !.pc = "activating", !.sent = TRUE]
<1>1. workers \in [Attempts -> Worker(now)] /\ workers[w] \in Worker(now)
  BY Zenon DEF RowInv, TypeOK
<1>2. workers[w].request \in Requests
  BY Zenon DEF RowInv, WorkSound, Busy, IsRunning, Running, SendActivation, ClaimReplies
<1>3. k \in Worker(now) /\ k.pc \in {"claimed", "activating"} /\ k.request = workers[w].request
  BY <1>1, Times, Zenon DEF Worker, Running
<1>4. workers' = [workers EXCEPT ![w] = k]
  BY Zenon DEF SendActivation, ClaimReplies
<1>5. requests' \in [Requests -> Request(now)] /\ RequestsValidate' /\ active' \in Option(Versions)
      /\ sweep' = sweep /\ now' = now
  BY Zenon DEF SendActivation, ClaimReplies, RowInv, TypeOK, RequestsValidate
<1> HIDE DEF k
<1> QED BY <1>2, <1>3, <1>4, <1>5, WorkerWritten, Zenon

\* A renewal changes the lease of an Applying row and nothing else of it.
LEMMA RenewWrites ==
  ASSUME RowInv, NEW w \in Attempts, RenewLease(w), Owns(w)
  PROVE  \E r \in Requests, q \in Request(now), k \in Worker(now) :
           /\ r = workers[w].request /\ ValidRow(r, q)
           /\ q.state = requests[r].state /\ q.attempt = requests[r].attempt
           /\ q.lease = now + Lease
           /\ k.pc = "renewed" /\ k.request = r /\ k.sent = workers[w].sent
           /\ k.startedAt = workers[w].startedAt
           /\ requests' = [requests EXCEPT ![r] = q] /\ workers' = [workers EXCEPT ![w] = k]
           /\ now' = now /\ active' = active /\ sweep' = sweep
<1>0. IsRunning(w) /\ workers[w].pc = "ready"
  BY Zenon DEF RenewLease, IsRunning, Running
<1>1. workers \in [Attempts -> Worker(now)] /\ workers[w] \in Worker(now)
  BY Zenon DEF RowInv, TypeOK
<1>2. PICK r \in Requests : r = workers[w].request
  BY <1>0, Zenon DEF RowInv, WorkSound, Busy
<1>t. now + Lease \in 0 .. now + Lease /\ now + Lease # 0
  BY Times, Zenon
<1> DEFINE p == requests[r]
           q == [p EXCEPT !.lease = now + Lease]
           k == [workers[w] EXCEPT !.pc = "renewed"]
<1>3. p \in Request(now) /\ ValidRow(r, p)
  BY RowReads, Zenon
<1>4. q \in Request(now) /\ q.state = p.state /\ q.approvals = p.approvals
      /\ q.attempt = p.attempt /\ q.decisions = p.decisions /\ q.linkedAt = p.linkedAt
      /\ q.lease = now + Lease /\ q.createdAt = p.createdAt /\ q.expiresAt = p.expiresAt
  BY <1>3, <1>t, Zenon DEF Request
<1>5. k \in Worker(now) /\ k.pc = "renewed" /\ k.request = r /\ k.sent = workers[w].sent
      /\ k.startedAt = workers[w].startedAt
  BY <1>1, <1>2, Zenon DEF Worker, Running
<1>6. requests' = [requests EXCEPT ![r] = q] /\ workers' = [workers EXCEPT ![w] = k]
      /\ now' = now /\ active' = active /\ sweep' = sweep
  BY <1>1, <1>2, Zenon DEF RenewLease, Becomes, RequestOf
<1>7. p.state = "Applying"
  BY <1>2, Zenon DEF Owns, RequestOf
<1> HIDE DEF q, k
<1>8. ValidRow(r, q)
  <2>1. ValidRequest(r, p)
    BY <1>3, <1>7, Zenon DEF ValidRow
  <2> HIDE DEF p
  <2>2. ValidTimes(r, q)
    BY <1>4, <2>1, SameTimes, Zenon DEF ValidRequest
  <2>3. q.attempt # {} /\ q.lease # 0
    BY <1>4, <1>7, <1>t, <2>1, Zenon DEF ValidRequest
  <2> QED BY <1>4, <1>7, <2>1, <2>2, <2>3, Zenon DEF ValidRow, ValidRequest
<1> QED BY <1>2, <1>4, <1>5, <1>6, <1>8, Zenon

\* A renewal leaves valid rows.
LEMMA RenewRows ==
  ASSUME RowInv, NEW w \in Attempts, RenewLease(w)
  PROVE  RowInv'
<1>0. IsRunning(w)
  BY Zenon DEF RenewLease, IsRunning, Running
<1>1. CASE ~Owns(w)
  BY <1>0, <1>1, GoesToKeepsRows, Zenon DEF RenewLease
<1>2. CASE Owns(w)
  <2>1. PICK r \in Requests, q \in Request(now), k \in Worker(now) :
          /\ ValidRow(r, q) /\ k.pc = "renewed" /\ k.request = r
          /\ requests' = [requests EXCEPT ![r] = q] /\ workers' = [workers EXCEPT ![w] = k]
          /\ now' = now /\ active' = active /\ sweep' = sweep
    BY <1>2, RenewWrites, Zenon
  <2>2. active' \in Option(Versions)
    BY <2>1, Zenon DEF RowInv, TypeOK
  <2>3. requests' \in [Requests -> Request(now)] /\ RequestsValidate'
    BY <2>1, RowWritten, Zenon
  <2> QED BY <2>1, <2>2, <2>3, WorkerWritten, Zenon
<1> QED BY <1>1, <1>2, Zenon

\* The worker after its call is over.
LEMMA CallEndsWorker ==
  ASSUME RowInv, NEW w \in Attempts, workers[w].sent,
         NEW reply \in {"completing", "superseding", "done"}, CallEnds(w, reply)
  PROVE  \E k \in Worker(now) :
           /\ workers' = [workers EXCEPT ![w] = k]
           /\ k.request = workers[w].request /\ k.startedAt = workers[w].startedAt
           /\ ~k.sent
           /\ k.pc = IF workers[w].pc = "activating" THEN reply ELSE workers[w].pc
           /\ workers[w].request \in Requests
<1> DEFINE p == IF workers[w].pc = "activating" THEN reply ELSE workers[w].pc
           k == [workers[w] EXCEPT !.sent = FALSE, !.pc = p]
<1>1. workers[w] \in Worker(now)
  BY Zenon DEF RowInv, TypeOK
<1>2. p \in Running \cup {"idle", "done"}
  BY <1>1, Zenon DEF Worker, Running
<1>3. k \in Worker(now) /\ k.pc = p /\ k.request = workers[w].request
      /\ k.startedAt = workers[w].startedAt /\ ~k.sent
  <2> HIDE DEF p
  <2> QED BY <1>1, <1>2, Zenon DEF Worker
<1>4. workers' = [workers EXCEPT ![w] = k]
  BY Zenon DEF CallEnds
<1>5. workers[w].request \in Requests
  BY Zenon DEF RowInv, WorkSound, Busy
<1> QED BY <1>3, <1>4, <1>5, Zenon

\* The call lands or is lost.  A superseded request is a product one: the
\* pointer moves to the target of any other.
LEMMA LandsRows ==
  ASSUME RowInv, NEW w \in Attempts, ActivationLands(w) \/ ActivationIsLost(w)
  PROVE  RowInv'
<1>1. PICK reply \in {"completing", "superseding", "done"} :
        /\ CallEnds(w, reply)
        /\ reply = "superseding" => active' # {Target(w)} /\ ActivationLands(w)
  BY Zenon DEF ActivationLands, ActivationIsLost
<1>2. workers[w].sent
  BY Zenon DEF ActivationLands, ActivationIsLost
<1>3. PICK k \in Worker(now) :
        /\ workers' = [workers EXCEPT ![w] = k]
        /\ k.request = workers[w].request
        /\ k.pc = IF workers[w].pc = "activating" THEN reply ELSE workers[w].pc
        /\ workers[w].request \in Requests
  BY <1>1, <1>2, CallEndsWorker
<1>4. reply = "superseding" => IsProduct(workers[w].request)
  BY <1>1, Zenon DEF ActivationLands, Activated
<1>5. k.pc = "superseding" => IsProduct(k.request)
  BY <1>3, <1>4, Zenon DEF RowInv, WorkSound
<1>6. requests' \in [Requests -> Request(now)] /\ RequestsValidate' /\ sweep' = sweep /\ now' = now
  BY Zenon DEF ActivationLands, ActivationIsLost, RowInv, TypeOK, RequestsValidate
<1>7. active' \in Option(Versions)
  <2>1. Target(w) \in Versions
    BY <1>3, RequestsAssumption, Zenon DEF Target
  <2>2. active \in Option(Versions)
    BY Zenon DEF RowInv, TypeOK
  <2> QED BY <2>1, <2>2 DEF ActivationLands, ActivationIsLost, Activated, Option
<1> QED BY <1>3, <1>5, <1>6, <1>7, WorkerWritten, Zenon

\* An Applying row that is completed, released or superseded still validates.
LEMMA ClosedRow ==
  ASSUME RowInv, NEW r \in Requests, requests[r].state = "Applying",
         NEW state \in {"Applied", "Approved", "Superseded"},
         state = "Superseded" => IsProduct(r),
         NEW q, q = Closed(requests[r], state)
  PROVE  q \in Request(now) /\ ValidRow(r, q) /\ q.state = state
<1> DEFINE p == requests[r]
<1>0. p \in Request(now) /\ ValidRow(r, p)
  BY RowReads, Zenon
<1>1. 0 \in 0 .. now + Lease /\ p.createdAt <= now
  BY <1>0, Times, RequestTimes, Zenon
<1>2. state \in States /\ state # "Absent" /\ state # "Rejected" /\ state # "Pending"
      /\ state # "Applying"
  BY Zenon DEF States
<1>3. CASE state = "Approved"
  <2>1. DecisionOf(state) = {}
    BY <1>3 DEF DecisionOf, Decided
  <2>2. q = [p EXCEPT !.state = state, !.attempt = {}, !.lease = 0]
    BY <1>0, <2>1 DEF Request, Closed
  <2>3. q \in Request(now) /\ q.state = state /\ q.approvals = p.approvals
        /\ q.attempt = {} /\ q.decisions = p.decisions /\ q.linkedAt = p.linkedAt
        /\ q.lease = 0 /\ q.createdAt = p.createdAt /\ q.expiresAt = p.expiresAt
    BY <1>0, <1>1, <1>2, <2>2, Zenon DEF Request, Option
  <2>4. ValidRequest(r, p) /\ p.state = "Applying"
    BY <1>0, Zenon DEF ValidRow
  <2> HIDE DEF p
  <2>5. ValidTimes(r, q)
    BY <2>3, <2>4, SameTimes, Zenon DEF ValidRequest
  <2>6. ValidRow(r, q)
    BY <1>3, <2>3, <2>4, <2>5, Zenon DEF ValidRow, ValidRequest, Decided
  <2> QED BY <2>3, <2>6, Zenon
<1>4. CASE state \in {"Applied", "Superseded"}
  <2>1. state \in Decided
    BY <1>4, Zenon DEF Decided
  <2>2. DecisionOf(state) = {Decision(state)}
    BY <2>1 DEF DecisionOf
  <2>3. Decision(state) \in [state: Decided, at: 0 .. now] /\ Decision(state).at = now
        /\ Decision(state).state = state
    BY <2>1, DecisionTyped, Zenon
  <2>4. p.decisions \in SUBSET [state: Decided, at: 0 .. now]
    BY <1>0, Zenon DEF Request
  <2>5. p.decisions \cup {Decision(state)} \in SUBSET [state: Decided, at: 0 .. now]
    BY <2>3, <2>4, Zenon
  <2>6. q = [p EXCEPT !.state = state, !.attempt = {}, !.lease = 0,
                      !.decisions = p.decisions \cup {Decision(state)}]
    BY <2>2, Zenon DEF Closed
  <2>7. q \in Request(now) /\ q.state = state /\ q.approvals = p.approvals
        /\ q.attempt = {} /\ q.decisions = p.decisions \cup {Decision(state)}
        /\ q.linkedAt = p.linkedAt
        /\ q.lease = 0 /\ q.createdAt = p.createdAt /\ q.expiresAt = p.expiresAt
    BY <1>0, <1>1, <1>2, <2>5, <2>6, Zenon DEF Request, Option
  <2>8. ValidRequest(r, p) /\ p.state = "Applying" /\ p.state \notin Decided
    BY <1>0, Zenon DEF ValidRow, Decided
  <2> HIDE DEF p
  <2>9. ValidTimes(r, q)
    <3>1. PICK d : d = Decision(state)
      BY Zenon
    <3> QED BY <1>1, <1>2, <3>1, <2>3, <2>7, <2>8, DecisionInTime, Zenon DEF ValidRequest
  <2>10. {d.state : d \in q.decisions} = {q.state} \cap Decided
    <3>1. {d.state : d \in p.decisions} = {p.state} \cap Decided
      BY <2>8, Zenon DEF ValidRequest
    <3> QED BY <2>1, <2>7, <2>8, <3>1, DecisionAlone, Zenon
  <2>11. ValidRow(r, q)
    BY <1>2, <2>7, <2>8, <2>9, <2>10, Zenon DEF ValidRow, ValidRequest
  <2> QED BY <2>7, <2>11, Zenon
<1> QED BY <1>3, <1>4, Zenon

\* What a closing attempt writes: a valid record, with no attempt.
LEMMA ClosesRows ==
  ASSUME RowInv, NEW w \in Attempts, IsRunning(w),
         NEW state \in {"Applied", "Approved", "Superseded"}, Closes(w, state),
         state = "Superseded" => IsProduct(workers[w].request)
  PROVE  RowInv'
<1>1. workers \in [Attempts -> Worker(now)] /\ workers[w] \in Worker(now)
  BY Zenon DEF RowInv, TypeOK
<1>2. PICK r \in Requests : r = workers[w].request
  BY Zenon DEF RowInv, WorkSound, Busy
<1>q. PICK q : q = Closed(requests[r], state)
  BY Zenon
<1> DEFINE k == [workers[w] EXCEPT !.pc = "done"]
<1>3. ASSUME Owns(w) PROVE q \in Request(now) /\ ValidRow(r, q)
  <2>1. requests[r].state = "Applying" /\ (state = "Superseded" => IsProduct(r))
    BY <1>2, <1>3, Zenon DEF Owns, RequestOf
  <2> QED BY <1>q, <2>1, ClosedRow
<1>4. k \in Worker(now) /\ k.pc = "done" /\ k.request = r
  BY <1>1, <1>2, Zenon DEF Worker, Running
<1>5. workers' = [workers EXCEPT ![w] = k] /\ now' = now /\ active' = active /\ sweep' = sweep
      /\ requests' = IF Owns(w) THEN [requests EXCEPT ![r] = q] ELSE requests
  BY <1>1, <1>2, <1>q, Zenon DEF Closes, Becomes, RequestOf
<1>6. active' \in Option(Versions)
  BY <1>5, Zenon DEF RowInv, TypeOK
<1> HIDE DEF k
<1>7. requests' \in [Requests -> Request(now)] /\ RequestsValidate'
  <2>1. CASE Owns(w)
    BY <1>3, <1>5, <2>1, RowWritten, Zenon
  <2>2. CASE ~Owns(w)
    BY <1>5, <2>2, Zenon DEF RowInv, TypeOK, RequestsValidate
  <2> QED BY <2>1, <2>2, Zenon
<1> QED BY <1>4, <1>5, <1>6, <1>7, WorkerWritten, Zenon

\* The sweep: it writes Applied over Applying.
LEMMA BookkeepWrites ==
  ASSUME RowInv, BookkeepApplied, requests[sweep.request].state = "Applying"
  PROVE  \E r \in Requests, q \in Request(now) :
           /\ r = sweep.request /\ ValidRow(r, q) /\ q.state = "Applied"
           /\ requests' = [requests EXCEPT ![r] = q]
<1>1. PICK r \in Requests : r = sweep.request
  BY Zenon DEF RowInv, WorkSound, BookkeepApplied
<1>2. PICK q : q = Closed(requests[r], "Applied")
  BY Zenon
<1>3. requests' = [requests EXCEPT ![r] = q] /\ requests[r].state = "Applying"
  BY <1>1, <1>2, Zenon DEF BookkeepApplied
<1>4. q \in Request(now) /\ ValidRow(r, q) /\ q.state = "Applied"
  <2>1. PICK state \in {"Applied", "Approved", "Superseded"} : state = "Applied"
    BY Zenon
  <2>2. state # "Superseded" /\ q = Closed(requests[r], state)
    BY <1>2, <2>1, Zenon
  <2> QED BY <1>3, <2>1, <2>2, ClosedRow, Zenon
<1> QED BY <1>1, <1>3, <1>4, Zenon

\* The sweep leaves valid rows.
LEMMA SweepRows ==
  ASSUME RowInv,
         \/ \E r \in Requests : ListApplying(r)
         \/ SweepMatches \/ SweepGivesUp \/ BookkeepApplied
  PROVE  RowInv'
<1>0. sweep \in Sweep
  BY Zenon DEF RowInv, TypeOK
<1>1. sweep' \in Sweep /\ (sweep'.pc # "idle" => sweep'.request \in Requests)
  BY <1>0 DEF ListApplying, SweepMatches, SweepGivesUp, BookkeepApplied, Sweeps, Sweep,
              RowInv, WorkSound
<1>2. requests' \in [Requests -> Request(now)] /\ RequestsValidate'
  <2>1. CASE requests' = requests
    BY <2>1, Zenon DEF RowInv, TypeOK, RequestsValidate
  <2>2. CASE BookkeepApplied /\ requests[sweep.request].state = "Applying"
    BY <2>2, BookkeepWrites, RowWritten, Zenon
  <2>3. CASE BookkeepApplied /\ requests[sweep.request].state # "Applying"
    <3>1. requests \in [Requests -> Request(now)]
      BY Zenon DEF RowInv, TypeOK
    <3>2. requests' = requests
      BY <2>3, <3>1, Zenon DEF BookkeepApplied
    <3> QED BY <3>2, <2>1, Zenon
  <2> QED BY <2>1, <2>2, <2>3, Zenon DEF ListApplying, SweepMatches, SweepGivesUp
<1>3. UNCHANGED <<now, active, workers>>
  BY Zenon DEF ListApplying, SweepMatches, SweepGivesUp, BookkeepApplied, Sweeps
<1>4. TypeOK'
  BY <1>1, <1>2, <1>3, Zenon DEF RowInv, TypeOK
<1>5. WorkSound'
  BY <1>1, <1>3, Zenon DEF RowInv, WorkSound, Busy, IsRunning
<1> QED BY <1>2, <1>4, <1>5, Zenon DEF RowInv

\* What could be stored then can be stored later.
LEMMA TypesGrow ==
  ASSUME NEW t \in Nat
  PROVE  Request(t) \subseteq Request(t + 1) /\ Worker(t) \subseteq Worker(t + 1)
<1>1. 0 .. t \subseteq 0 .. t + 1 /\ 0 .. t + Ttl \subseteq 0 .. t + 1 + Ttl
      /\ 0 .. t + Lease \subseteq 0 .. t + 1 + Lease
  BY DurationAssumption
<1>2. Option(0 .. t) \subseteq Option(0 .. t + 1)
  BY <1>1, Zenon DEF Option
<1>3. [by: Approvers, at: 0 .. t] \subseteq [by: Approvers, at: 0 .. t + 1]
      /\ [state: Decided, at: 0 .. t] \subseteq [state: Decided, at: 0 .. t + 1]
  BY <1>1, Zenon
<1>4. SUBSET [by: Approvers, at: 0 .. t] \subseteq SUBSET [by: Approvers, at: 0 .. t + 1]
      /\ SUBSET [state: Decided, at: 0 .. t] \subseteq SUBSET [state: Decided, at: 0 .. t + 1]
  BY <1>3, Zenon
<1>5. Request(t) \subseteq Request(t + 1)
  BY <1>1, <1>2, <1>4, Zenon DEF Request
<1>6. Worker(t) \subseteq Worker(t + 1)
  BY <1>1, Zenon DEF Worker
<1> QED BY <1>5, <1>6, Zenon

\* Every step of the RuleSet keeps RowInv.
LEMMA RowsStep == RowInv /\ [Next]_vars => RowInv'
<1> SUFFICES ASSUME RowInv, [Next]_vars PROVE RowInv'
  BY Zenon
<1>1. CASE UNCHANGED vars
  BY <1>1, Zenon DEF vars, RowInv, TypeOK, RequestsValidate, WorkSound, Busy, IsRunning
<1>2. CASE Tick
  <2>0. UNCHANGED <<active, requests, workers, sweep>> /\ now' = now + 1 /\ now \in Nat
    BY <1>2, Times, Zenon DEF Tick
  <2>1. now' \in 0 .. MaxTime
    BY <1>2, DurationAssumption DEF Tick, RowInv, TypeOK
  <2>2. requests' \in [Requests -> Request(now')] /\ workers' \in [Attempts -> Worker(now')]
    BY <2>0, TypesGrow, Zenon DEF RowInv, TypeOK
  <2>3. TypeOK'
    BY <2>0, <2>1, <2>2, Zenon DEF RowInv, TypeOK
  <2>4. RequestsValidate'
    BY <2>0, Zenon DEF RowInv, RequestsValidate
  <2>5. WorkSound'
    BY <2>0, Zenon DEF RowInv, WorkSound, Busy, IsRunning
  <2> QED BY <2>3, <2>4, <2>5, Zenon DEF RowInv
<1>3. ASSUME NEW r \in Requests, Operate(r) PROVE RowInv'
  BY <1>3, PeopleRows, SweepRows, Zenon DEF Operate
<1>4. ASSUME NEW w \in Attempts, Work(w) PROVE RowInv'
  <2>1. CASE \E r \in Requests : ClaimApply(r, w) \/ ClaimResume(r, w)
    BY <2>1, ClaimRows, Zenon
  <2>2. CASE PrepareFails(w)
    BY <2>2, GoesToKeepsRows, Zenon DEF PrepareFails, IsRunning, Running
  <2>3. CASE PrepareLegacy(w)
    BY <2>3, GoesToKeepsRows, Zenon DEF PrepareLegacy, IsRunning, Running
  <2>4. CASE PrepareProduct(w)
    BY <2>4, GoesToKeepsRows, Zenon DEF PrepareProduct, IsRunning, Running
  <2>5. CASE RenewLease(w)
    BY <2>5, RenewRows, Zenon
  <2>6. CASE ActivationRefused(w)
    BY <2>6, GoesToKeepsRows, Zenon DEF ActivationRefused, IsRunning, Running
  <2>7. CASE ClaimReplies(w) \/ SendActivation(w)
    BY <2>7, WorkerOnlyRows, Zenon
  <2>8. CASE ActivationLands(w) \/ ActivationIsLost(w)
    BY <2>8, LandsRows, Zenon
  <2>9. CASE CompleteApplied(w)
    BY <2>9, ClosesRows, Zenon DEF CompleteApplied, IsRunning, Running
  <2>10. CASE ReleaseToApproved(w)
    BY <2>10, ClosesRows, Zenon DEF ReleaseToApproved, IsRunning, Running
  <2>11. CASE SupersedeApplying(w)
    <3>1. IsRunning(w) /\ IsProduct(workers[w].request) /\ Closes(w, "Superseded")
      BY <2>11, Zenon DEF SupersedeApplying, IsRunning, Running, RowInv, WorkSound
    <3> QED BY <3>1, ClosesRows
  <2>12. CASE Stop(w)
    BY <2>12, GoesToKeepsRows, Zenon DEF Stop
  <2> QED BY <1>4, <2>1, <2>2, <2>3, <2>4, <2>5, <2>6, <2>7, <2>8, <2>9, <2>10, <2>11, <2>12
          DEF Work
<1>5. CASE SweepMatches \/ SweepGivesUp \/ BookkeepApplied
  BY <1>5, SweepRows, Zenon
<1> QED BY <1>1, <1>2, <1>3, <1>4, <1>5 DEF Next

\* RowInv holds throughout, with the sweep running alone or beside attempts.
LEMMA RowsAlways == Spec => []RowInv
BY RowsInit, RowsStep, PTL DEF Spec

\* Every variable keeps its type: in particular no lease, however often it is
\* renewed, ends later than one term from now.
THEOREM ActivationTyped == Spec => []TypeOK
<1>1. RowInv => TypeOK
  BY Zenon DEF RowInv
<1> QED BY <1>1, RowsAlways, PTL

\* Whatever people, attempts, abandoned calls and the boot sweep do, and in
\* whatever order, every stored request passes ActivationRequest::validate, its
\* times included; the sweep need not even run alone.
THEOREM RequestsValidateAlways == Spec => []RequestsValidate
<1>1. RowInv => RequestsValidate
  BY Zenon DEF RowInv
<1> QED BY <1>1, RowsAlways, PTL

----------------------------------------------------------------------------
(* With a sweep that runs alone, requests and pointer agree. *)

\* An attempt that may move the pointer is under its deadline, or its call is.
LEMMA HoldingIsBusy ==
  ASSUME NEW w \in Attempts, Holding(w)
  PROVE  Busy(w) /\ (UnderDeadline(w) \/ workers[w].sent)
BY Zenon DEF Holding, Busy, UnderDeadline, IsRunning, Running

\* Its lease is not over, even when its call is abandoned.
LEMMA HoldingHoldsLease ==
  ASSUME ExclusiveInv, NEW w \in Attempts, Holding(w)
  PROVE  /\ workers[w].request \in Requests /\ Owns(w)
         /\ requests[workers[w].request].lease > now
<1>1. workers[w].request \in Requests
  BY HoldingIsBusy, Zenon DEF ExclusiveInv, RowInv, WorkSound
<1>2. now \in Nat /\ workers[w].startedAt \in Nat /\ requests[workers[w].request].lease \in Nat
  <2>1. workers[w].startedAt \in 0 .. now
    BY Zenon DEF ExclusiveInv, RowInv, TypeOK, Worker
  <2>2. now \in Nat
    BY Times, Zenon DEF ExclusiveInv
  <2>3. requests[workers[w].request].lease \in Nat
    BY <1>1, RowReads, RequestTimes, Zenon DEF ExclusiveInv
  <2> QED BY <2>1, <2>2, <2>3
<1>3. now <= workers[w].startedAt + Deadline + Flight
  <2>1. InTime(w) /\ (UnderDeadline(w) \/ workers[w].sent)
    BY HoldingIsBusy, Zenon DEF ExclusiveInv
  <2> QED BY <1>2, <2>1, DurationAssumption DEF InTime
<1>4. Owns(w) /\ workers[w].startedAt + Lease <= requests[workers[w].request].lease
  BY Zenon DEF ExclusiveInv, HasClaim, RequestOf
<1>5. requests[workers[w].request].lease > now
  BY <1>2, <1>3, <1>4, DurationAssumption
<1> QED BY <1>1, <1>4, <1>5, Zenon

\* At most one busy attempt owns its request.
LEMMA OneOwner ==
  ASSUME ExclusiveInv, NEW v \in Attempts, NEW w \in Attempts,
         Busy(v), Busy(w), Owns(v), Owns(w)
  PROVE  v = w
<1>1. workers[v].request \in Requests /\ workers[w].request \in Requests
  BY Zenon DEF ExclusiveInv, RowInv, WorkSound
<1>2. workers[v].request = workers[w].request
  BY <1>1, Zenon DEF ExclusiveInv, OneApplying, Owns, RequestOf
<1>3. {v} = {w}
  BY <1>2, Zenon DEF Owns, RequestOf
<1> QED BY <1>3, Zenon

\* Nothing is asked of an attempt that is not busy.
LEMMA IdleIsSound ==
  ASSUME NEW v, ~Busy(v)'
  PROVE  (InTime(v) /\ HasClaim(v) /\ KnowsPointer(v))'
BY Zenon DEF Busy, InTime, HasClaim, Holding, KnowsPointer, UnderDeadline, IsRunning, Running

\* A step of the attempt w: the others are as sound as before when none of them
\* gains its request, one that may move the pointer keeps it, and the pointer
\* moves behind none that owns its request.
LEMMA OthersStaySound ==
  ASSUME ExclusiveInv, RowInv', NEW w \in Attempts, NEW k,
         workers' = [workers EXCEPT ![w] = k], now' = now,
         OneApplying', SweepAlone',
         InTime(w)', HasClaim(w)', KnowsPointer(w)',
         \A v \in Attempts : v # w /\ Busy(v) =>
             /\ Owns(v)' => Owns(v) /\ active' = active
             /\ Holding(v) => Owns(v)' /\ RequestOf(v)'.lease = RequestOf(v).lease
  PROVE  ExclusiveInv'
<1>1. ASSUME NEW v \in Attempts, v # w PROVE (InTime(v) /\ HasClaim(v) /\ KnowsPointer(v))'
  <2>1. workers \in [Attempts -> Worker(now)]
    BY Zenon DEF ExclusiveInv, RowInv, TypeOK
  <2>2. workers'[v] = workers[v]
    BY <1>1, <2>1, Zenon
  <2>3. CASE ~Busy(v)
    <3>1. ~Busy(v)'
      BY <2>2, <2>3, Zenon DEF Busy, IsRunning
    <3> QED BY <3>1, IdleIsSound, Zenon
  <2>4. CASE Busy(v)
    <3>1. InTime(v) /\ HasClaim(v) /\ KnowsPointer(v)
      BY Zenon DEF ExclusiveInv
    <3>2. InTime(v)'
      BY <2>2, <3>1, Zenon DEF InTime, UnderDeadline, IsRunning
    <3>3. Holding(v)' <=> Holding(v)
      BY <2>2, Zenon DEF Holding
    <3>4. HasClaim(v)'
      BY <1>1, <2>2, <2>4, <3>1, <3>3, Zenon DEF HasClaim
    <3>5. KnowsPointer(v)'
      <4>1. Target(v)' = Target(v)
        BY <2>2, Zenon DEF Target
      <4> QED BY <1>1, <2>2, <2>4, <3>1, <4>1, Zenon DEF KnowsPointer
    <3> QED BY <3>2, <3>4, <3>5, Zenon
  <2> QED BY <2>3, <2>4, Zenon
<1> QED BY <1>1, Zenon DEF ExclusiveInv

\* While an attempt runs, the sweep does not.
LEMMA RunningStopsSweep ==
  ASSUME ExclusiveInv, NEW w \in Attempts, IsRunning(w), sweep' = sweep
  PROVE  SweepAlone'
BY Zenon DEF ExclusiveInv, SweepAlone

\* At the start nothing is Applying, and nothing runs.
LEMMA ExclusiveInit == Init => ExclusiveInv
<1> SUFFICES ASSUME Init PROVE ExclusiveInv
  BY Zenon
<1>1. RowInv
  BY RowsInit, Zenon
<1>2. OneApplying /\ SweepAlone
  BY Zenon DEF Init, OneApplying, SweepAlone, Absent, SweepIdle
<1>3. \A w \in Attempts : workers[w].pc = "idle" /\ ~workers[w].sent
  BY Zenon DEF Init
<1>4. \A w \in Attempts : InTime(w) /\ HasClaim(w) /\ KnowsPointer(w)
  BY <1>3, Zenon DEF InTime, HasClaim, Holding, KnowsPointer, UnderDeadline, IsRunning, Running
<1> QED BY <1>1, <1>2, <1>4, Zenon DEF ExclusiveInv

\* A row that is not Applying is replaced by another: no attempt owns it.
LEMMA PeopleExclusive ==
  ASSUME ExclusiveInv, RowInv', NEW r \in Requests, NEW q \in Request(now), Becomes(r, q),
         UNCHANGED workers, requests[r].state # "Applying", q.state # "Applying"
  PROVE  ExclusiveInv'
<1>1. requests \in [Requests -> Request(now)]
  BY Zenon DEF ExclusiveInv, RowInv, TypeOK
<1>2. /\ requests'[r] = q
      /\ \A s \in Requests : s # r => requests'[s] = requests[s]
      /\ now' = now /\ active' = active /\ sweep' = sweep /\ workers' = workers
  BY <1>1, Zenon DEF Becomes
<1>3. OneApplying'
  BY <1>2, Zenon DEF ExclusiveInv, OneApplying
<1>4. SweepAlone'
  BY <1>2, Zenon DEF ExclusiveInv, SweepAlone, IsRunning, RowInv, WorkSound
<1>5. ASSUME NEW w \in Attempts PROVE (InTime(w) /\ HasClaim(w) /\ KnowsPointer(w))'
  <2>1. CASE ~Busy(w)
    <3>1. ~Busy(w)'
      BY <2>1, <1>2, Zenon DEF Busy, IsRunning
    <3> QED BY <3>1, IdleIsSound, Zenon
  <2>2. CASE Busy(w)
    <3>1. workers[w].request \in Requests
      BY <2>2, Zenon DEF ExclusiveInv, RowInv, WorkSound
    <3>2. Owns(w)' => Owns(w)
      BY <3>1, <1>2, Zenon DEF Owns, RequestOf
    <3>3. InTime(w) /\ HasClaim(w) /\ KnowsPointer(w)
      BY Zenon DEF ExclusiveInv
    <3>4. InTime(w)' /\ KnowsPointer(w)'
      BY <3>2, <3>3, <1>2, Zenon DEF InTime, KnowsPointer, Target, UnderDeadline, IsRunning
    <3>5. Owns(w) => requests'[workers[w].request] = requests[workers[w].request]
      BY <3>1, <1>2, Zenon DEF Owns, RequestOf
    <3>6. HasClaim(w)'
      BY <3>3, <3>5, <1>2, Zenon DEF HasClaim, Holding, Owns, RequestOf
    <3> QED BY <3>4, <3>6, Zenon
  <2> QED BY <2>1, <2>2, Zenon
<1> QED BY <1>3, <1>4, <1>5, Zenon DEF ExclusiveInv

\* A claim finds no attempt that may move the pointer, since that one owns the
\* Applying request under a lease that is not over; and it takes the request
\* from any other.
LEMMA ClaimExclusive ==
  ASSUME SweepIsExclusive, ExclusiveInv, RowInv', NEW r \in Requests, NEW w \in Attempts,
         ClaimApply(r, w) \/ ClaimResume(r, w)
  PROVE  ExclusiveInv'
<1>0. requests \in [Requests -> Request(now)] /\ workers \in [Attempts -> Worker(now)] /\ RowInv
  BY Zenon DEF ExclusiveInv, RowInv, TypeOK
<1>1. PICK q \in Request(now), k \in Worker(now) :
        /\ ValidRow(r, q) /\ q.state = "Applying" /\ q.attempt = {w}
        /\ k.pc = "claiming" /\ k.request = r /\ k.sent = workers[w].sent
        /\ requests' = [requests EXCEPT ![r] = q] /\ workers' = [workers EXCEPT ![w] = k]
        /\ now' = now /\ active' = active /\ sweep' = sweep
        /\ workers[w].pc = "idle" /\ requests[r].state \in {"Approved", "Applying"}
  BY <1>0, ClaimWrites, Zenon
<1>2. sweep.pc = "idle"
  BY Zenon DEF ClaimApply, ClaimResume, BeginAttempt, SweepAllowsAttempts
<1>3. \A s \in Requests : s # r => requests[s].state # "Applying"
  BY Zenon DEF ClaimApply, ClaimResume, NoOtherApplying, ExclusiveInv, OneApplying
<1>4. requests'[r] = q /\ workers'[w] = k
      /\ \A s \in Requests : s # r => requests'[s] = requests[s]
  BY <1>0, <1>1, Zenon
<1>5. ASSUME NEW v \in Attempts, Busy(v) PROVE ~Holding(v) /\ (v # w => ~Owns(v)')
  <2>0. workers[v].request \in Requests
    BY <1>5, Zenon DEF ExclusiveInv, RowInv, WorkSound
  <2>1. ~Holding(v)
    <3> SUFFICES ASSUME Holding(v) PROVE FALSE
      BY Zenon
    <3>1. Owns(v) /\ requests[workers[v].request].lease > now
      BY HoldingHoldsLease, Zenon
    <3>2. workers[v].request = r
      BY <2>0, <3>1, <1>3, Zenon DEF Owns, RequestOf
    <3>3. requests[r].state = "Applying" /\ requests[r].lease > now
      BY <3>1, <3>2, Zenon DEF Owns, RequestOf
    <3>4. requests[r].lease <= now
      BY <3>3, Zenon DEF ClaimApply, ClaimResume, LeaseIsOver
    <3>5. requests[r].lease \in Nat /\ now \in Nat
      BY <1>0, RowReads, RequestTimes, Times, Zenon
    <3> QED BY <3>3, <3>4, <3>5
  <2>2. ASSUME v # w PROVE ~Owns(v)'
    <3>1. workers'[v] = workers[v]
      BY <2>2, <1>0, <1>1, Zenon
    <3>2. CASE workers[v].request = r
      <4>1. {v} # {w}
        BY <2>2, Zenon
      <4> QED BY <3>1, <3>2, <4>1, <1>1, <1>4, Zenon DEF Owns, RequestOf
    <3>3. CASE workers[v].request # r
      BY <2>0, <3>1, <3>3, <1>3, <1>4, Zenon DEF Owns, RequestOf
    <3> QED BY <3>2, <3>3, Zenon
  <2> QED BY <2>1, <2>2, Zenon
<1>6. ~workers[w].sent
  BY <1>5, Zenon DEF Busy, Holding
<1>7. OneApplying'
  BY <1>3, <1>4, Zenon DEF OneApplying
<1>8. SweepAlone'
  BY <1>1, <1>2, Zenon DEF SweepAlone
<1>9. InTime(w)' /\ HasClaim(w)' /\ KnowsPointer(w)'
  BY <1>1, <1>4, <1>6, Zenon DEF InTime, HasClaim, Holding, KnowsPointer, UnderDeadline
<1> QED BY <1>1, <1>5, <1>7, <1>8, <1>9, OthersStaySound, Zenon

\* A running attempt goes on to a step that knows the same of the pointer.
LEMMA GoesToExclusive ==
  ASSUME ExclusiveInv, RowInv', NEW w \in Attempts, IsRunning(w),
         NEW pc \in (Running \ {"claiming", "renewed", "activating"}) \cup {"done"},
         GoesTo(w, pc),
         pc = "done" \/ (workers[w].pc # "claiming" /\ ~workers[w].sent),
         pc = "completing" => active = {Target(w)},
         pc = "ready" => active # {Target(w)}
  PROVE  ExclusiveInv'
<1> DEFINE k == [workers[w] EXCEPT !.pc = pc]
<1>0. workers \in [Attempts -> Worker(now)] /\ workers[w] \in Worker(now)
  BY Zenon DEF ExclusiveInv, RowInv, TypeOK
<1>1. k.request = workers[w].request /\ k.pc = pc /\ k.sent = workers[w].sent
      /\ k.startedAt = workers[w].startedAt
  BY <1>0, Zenon DEF Worker
<1>2. workers' = [workers EXCEPT ![w] = k] /\ workers'[w] = k
      /\ now' = now /\ active' = active /\ requests' = requests /\ sweep' = sweep
  BY <1>0, Zenon DEF GoesTo
<1> HIDE DEF k
<1>3. OneApplying'
  BY <1>2, Zenon DEF ExclusiveInv, OneApplying
<1>4. SweepAlone'
  BY <1>2, RunningStopsSweep, Zenon
<1>5. InTime(w) /\ HasClaim(w) /\ KnowsPointer(w)
  BY Zenon DEF ExclusiveInv
<1>6. InTime(w)'
  <2>1. UnderDeadline(w)' => UnderDeadline(w)
    BY <1>1, <1>2, Zenon DEF UnderDeadline, IsRunning, Running
  <2> QED BY <1>1, <1>2, <1>5, <2>1, Zenon DEF InTime
<1>7. HasClaim(w)'
  BY <1>1, <1>2, <1>5, Zenon DEF HasClaim, Holding, Owns, RequestOf
<1>8. KnowsPointer(w)'
  BY <1>1, <1>2, <1>5, Zenon DEF KnowsPointer, Target, Owns, RequestOf
<1>9. \A v \in Attempts : v # w /\ Busy(v) =>
         /\ Owns(v)' => Owns(v) /\ active' = active
         /\ Holding(v) => Owns(v)' /\ RequestOf(v)'.lease = RequestOf(v).lease
  <2> SUFFICES ASSUME NEW v \in Attempts, v # w
               PROVE  /\ Owns(v)' => Owns(v)
                      /\ Holding(v) => Owns(v)' /\ RequestOf(v)'.lease = RequestOf(v).lease
    BY <1>2, Zenon
  <2>1. workers'[v] = workers[v]
    BY <1>0, <1>2, Zenon
  <2> QED BY <1>2, <2>1, HoldingHoldsLease, Zenon DEF Owns, RequestOf
<1> QED BY <1>2, <1>3, <1>4, <1>6, <1>7, <1>8, <1>9, OthersStaySound, Zenon

\* When the deadline begins to run, or the call is sent, only the worker changes.
\* The call has its flight left.
LEMMA WorkerOnlyExclusive ==
  ASSUME ExclusiveInv, RowInv', NEW w \in Attempts, ClaimReplies(w) \/ SendActivation(w)
  PROVE  ExclusiveInv'
<1> DEFINE k == IF ClaimReplies(w)
                THEN [workers[w] EXCEPT !.pc = "claimed", !.startedAt = now]
                ELSE [workers[w] EXCEPT !.pc = "activating", !.sent = TRUE]
<1>0. workers \in [Attempts -> Worker(now)] /\ workers[w] \in Worker(now) /\ RowInv
  BY Zenon DEF ExclusiveInv, RowInv, TypeOK
<1>1. IsRunning(w) /\ workers[w].pc \in {"claiming", "renewed"}
  BY Zenon DEF SendActivation, ClaimReplies, IsRunning, Running
<1>2. workers' = [workers EXCEPT ![w] = k] /\ workers'[w] = k
      /\ now' = now /\ active' = active /\ requests' = requests /\ sweep' = sweep
  BY <1>0, Zenon DEF SendActivation, ClaimReplies
<1>3. k.request = workers[w].request
  BY <1>0, Zenon DEF Worker
<1>4. InTime(w) /\ HasClaim(w) /\ KnowsPointer(w)
  BY Zenon DEF ExclusiveInv
<1>5. ~workers[w].sent
  BY <1>1, <1>4, Zenon DEF KnowsPointer
<1>6. now \in Nat /\ workers[w].startedAt \in 0 .. now
  BY <1>0, Times, Zenon DEF Worker
<1>7. ASSUME ClaimReplies(w) PROVE InTime(w)' /\ HasClaim(w)' /\ KnowsPointer(w)'
  <2>1. k.pc = "claimed" /\ k.startedAt = now /\ ~k.sent
    BY <1>0, <1>5, <1>7, Zenon DEF Worker
  <2>2. now <= now + Deadline
    BY <1>6, DurationAssumption
  <2> HIDE DEF k
  <2> QED BY <1>2, <2>1, <2>2, Zenon DEF InTime, HasClaim, Holding, KnowsPointer, ExclusiveInv
<1>8. ASSUME SendActivation(w) PROVE InTime(w)' /\ HasClaim(w)' /\ KnowsPointer(w)'
  <2>1. workers[w].pc = "renewed"
    BY <1>8, Zenon DEF SendActivation
  <2>2. k.pc = "activating" /\ k.startedAt = workers[w].startedAt /\ k.sent
    BY <1>0, <2>1, Zenon DEF Worker, ClaimReplies
  <2>3. now <= workers[w].startedAt + Deadline
    BY <1>4, <2>1, Zenon DEF InTime, UnderDeadline, IsRunning, Running
  <2>4. now <= workers[w].startedAt + Deadline + Flight
    BY <1>6, <2>3, DurationAssumption
  <2> HIDE DEF k
  <2> QED BY <1>2, <1>3, <1>4, <2>1, <2>2, <2>3, <2>4, Zenon
          DEF InTime, HasClaim, Holding, KnowsPointer, Owns, RequestOf, Target
<1>9. InTime(w)' /\ HasClaim(w)' /\ KnowsPointer(w)'
  BY <1>7, <1>8, Zenon
<1> HIDE DEF k
<1>10. OneApplying' /\ SweepAlone'
  BY <1>1, <1>2, RunningStopsSweep, Zenon DEF ExclusiveInv, OneApplying
<1>11. \A v \in Attempts : v # w /\ Busy(v) =>
         /\ Owns(v)' => Owns(v) /\ active' = active
         /\ Holding(v) => Owns(v)' /\ RequestOf(v)'.lease = RequestOf(v).lease
  <2> SUFFICES ASSUME NEW v \in Attempts, v # w
               PROVE  /\ Owns(v)' => Owns(v)
                      /\ Holding(v) => Owns(v)' /\ RequestOf(v)'.lease = RequestOf(v).lease
    BY <1>2, Zenon
  <2>1. workers'[v] = workers[v]
    BY <1>0, <1>2, Zenon
  <2> QED BY <1>2, <2>1, HoldingHoldsLease, Zenon DEF Owns, RequestOf
<1> QED BY <1>2, <1>9, <1>10, <1>11, OthersStaySound, Zenon

\* The row of the request that w owns is replaced: it is no other attempt's.
LEMMA OwnRowWritten ==
  ASSUME ExclusiveInv, NEW w \in Attempts, Busy(w), Owns(w), NEW k, NEW q,
         workers' = [workers EXCEPT ![w] = k],
         requests' = [requests EXCEPT ![workers[w].request] = q],
         q.state = "Applying" => q.attempt = {w}
  PROVE  /\ workers[w].request \in Requests
         /\ workers'[w] = k /\ requests'[workers[w].request] = q
         /\ OneApplying'
         /\ \A v \in Attempts : v # w /\ Busy(v) => ~Owns(v)' /\ ~Holding(v)
<1>0. workers \in [Attempts -> Worker(now)] /\ requests \in [Requests -> Request(now)]
  BY Zenon DEF ExclusiveInv, RowInv, TypeOK
<1>1. PICK r \in Requests : r = workers[w].request
  BY Zenon DEF ExclusiveInv, RowInv, WorkSound
<1>2. /\ workers'[w] = k /\ requests'[r] = q
      /\ \A s \in Requests : s # r => requests'[s] = requests[s]
  BY <1>0, <1>1, Zenon
<1>3. \A s \in Requests : s # r => requests[s].state # "Applying"
  BY <1>1, Zenon DEF ExclusiveInv, OneApplying, Owns, RequestOf
<1>4. OneApplying'
  BY <1>2, <1>3, Zenon DEF OneApplying
<1>5. ASSUME NEW v \in Attempts, v # w, Busy(v) PROVE ~Owns(v)' /\ ~Holding(v)
  <2>1. workers'[v] = workers[v] /\ workers[v].request \in Requests
    BY <1>0, <1>5, Zenon DEF ExclusiveInv, RowInv, WorkSound
  <2>2. ~Holding(v)
    BY <1>5, OneOwner, HoldingHoldsLease, Zenon
  <2>3. CASE workers[v].request = r
    <3>1. {v} # {w}
      BY <1>5, Zenon
    <3> QED BY <2>1, <2>2, <2>3, <3>1, <1>2, Zenon DEF Owns, RequestOf
  <2>4. CASE workers[v].request # r
    BY <2>1, <2>2, <2>4, <1>2, <1>3, Zenon DEF Owns, RequestOf
  <2> QED BY <2>3, <2>4, Zenon
<1> QED BY <1>1, <1>2, <1>4, <1>5, Zenon

\* A renewal gives the attempt the lease that its call will need.
LEMMA RenewExclusive ==
  ASSUME ExclusiveInv, RowInv', NEW w \in Attempts, RenewLease(w)
  PROVE  ExclusiveInv'
<1>0. RowInv /\ IsRunning(w) /\ Busy(w) /\ workers[w].pc = "ready"
  BY Zenon DEF ExclusiveInv, RenewLease, IsRunning, Running, Busy
<1>1. CASE ~Owns(w)
  BY <1>0, <1>1, GoesToExclusive, Zenon DEF RenewLease
<1>2. CASE Owns(w)
  <2>1. PICK r \in Requests, q \in Request(now), k \in Worker(now) :
           /\ r = workers[w].request /\ ValidRow(r, q)
           /\ q.state = requests[r].state /\ q.attempt = requests[r].attempt
           /\ q.lease = now + Lease
           /\ k.pc = "renewed" /\ k.request = r /\ k.sent = workers[w].sent
           /\ k.startedAt = workers[w].startedAt
           /\ requests' = [requests EXCEPT ![r] = q] /\ workers' = [workers EXCEPT ![w] = k]
           /\ now' = now /\ active' = active /\ sweep' = sweep
    BY <1>0, <1>2, RenewWrites, Zenon
  <2>2. q.state = "Applying" /\ q.attempt = {w}
    BY <2>1, <1>2, Zenon DEF Owns, RequestOf
  <2>3. /\ workers'[w] = k /\ requests'[r] = q /\ OneApplying'
        /\ \A v \in Attempts : v # w /\ Busy(v) => ~Owns(v)' /\ ~Holding(v)
    <3>1. /\ requests' = [requests EXCEPT ![workers[w].request] = q]
          /\ workers' = [workers EXCEPT ![w] = k]
      BY <2>1, Zenon
    <3>2. /\ workers'[w] = k /\ requests'[workers[w].request] = q /\ OneApplying'
          /\ \A v \in Attempts : v # w /\ Busy(v) => ~Owns(v)' /\ ~Holding(v)
      BY <2>2, <3>1, <1>0, <1>2, OwnRowWritten, Zenon
    <3> QED BY <2>1, <3>2, Zenon
  <2>4. SweepAlone'
    BY <1>0, <2>1, RunningStopsSweep, Zenon
  <2>5. InTime(w) /\ KnowsPointer(w)
    BY Zenon DEF ExclusiveInv
  <2>6. ~workers[w].sent /\ active # {Target(w)}
    BY <1>0, <1>2, <2>5, Zenon DEF KnowsPointer
  <2>7. InTime(w)'
    BY <1>0, <2>1, <2>3, <2>5, <2>6, Zenon DEF InTime, UnderDeadline
  <2>8. HasClaim(w)'
    <3>1. now \in Nat /\ workers[w].startedAt \in 0 .. now
      BY <1>0, Times, Zenon DEF RowInv, TypeOK, Worker
    <3>2. workers[w].startedAt + Lease <= now + Lease
      BY <3>1, DurationAssumption
    <3> QED BY <2>1, <2>2, <2>3, <3>2, Zenon DEF HasClaim, Owns, RequestOf
  <2>9. KnowsPointer(w)'
    BY <2>1, <2>3, <2>6, Zenon DEF KnowsPointer, Target
  <2> QED BY <2>1, <2>3, <2>4, <2>7, <2>8, <2>9, OthersStaySound, Zenon
<1> QED BY <1>1, <1>2, Zenon

\* The call lands or is lost.  A sweep at work is on this call's request and has
\* not matched: the pointer is not where the call takes it.
LEMMA LandsExclusive ==
  ASSUME ExclusiveInv, RowInv', NEW w \in Attempts, ActivationLands(w) \/ ActivationIsLost(w)
  PROVE  ExclusiveInv'
<1>0. RowInv /\ workers \in [Attempts -> Worker(now)]
  BY Zenon DEF ExclusiveInv, RowInv, TypeOK
<1>1. PICK reply \in {"completing", "superseding", "done"} :
        /\ CallEnds(w, reply)
        /\ reply = "completing" => active' = {Target(w)}
  BY Zenon DEF ActivationLands, ActivationIsLost
<1>2. workers[w].sent /\ Busy(w) /\ Holding(w)
      /\ now' = now /\ requests' = requests /\ sweep' = sweep
  BY Zenon DEF ActivationLands, ActivationIsLost, Busy, Holding
<1>3. PICK k \in Worker(now) :
        /\ workers' = [workers EXCEPT ![w] = k]
        /\ k.request = workers[w].request /\ k.startedAt = workers[w].startedAt
        /\ ~k.sent
        /\ k.pc = IF workers[w].pc = "activating" THEN reply ELSE workers[w].pc
        /\ workers[w].request \in Requests
  BY <1>0, <1>1, <1>2, CallEndsWorker, Zenon
<1>4. workers'[w] = k
  BY <1>0, <1>3, Zenon
<1>5. InTime(w) /\ HasClaim(w) /\ KnowsPointer(w) /\ Owns(w)
  BY <1>2, HoldingHoldsLease, Zenon DEF ExclusiveInv
<1>6. active # {Target(w)} /\ workers[w].pc \in {"activating", "done"}
  BY <1>2, <1>5, Zenon DEF KnowsPointer
<1>7. k.pc \in {"completing", "superseding", "done"}
      /\ (k.pc = "completing" => active' = {Target(w)})
      /\ (k.pc # "done" => UnderDeadline(w))
  BY <1>1, <1>3, <1>6, Zenon DEF UnderDeadline, IsRunning, Running
<1>8. OneApplying'
  BY <1>2, Zenon DEF ExclusiveInv, OneApplying
<1>9. SweepAlone'
  <2>1. CASE sweep.pc = "idle"
    BY <2>1, <1>2, Zenon DEF SweepAlone
  <2>2. CASE sweep.pc # "idle"
    <3>1. requests[sweep.request].state = "Applying" /\ \A v \in Attempts : ~IsRunning(v)
      BY <2>2, Zenon DEF ExclusiveInv, SweepAlone
    <3>2. sweep.request = workers[w].request
      BY <3>1, <2>2, <1>0, <1>3, <1>5, Zenon
         DEF RowInv, WorkSound, ExclusiveInv, OneApplying, Owns, RequestOf
    <3>3. sweep.pc # "matched"
      BY <3>2, <1>6, Zenon DEF ExclusiveInv, SweepAlone, Target
    <3>4. k.pc \notin Running
      BY <3>1, <1>7, Zenon DEF UnderDeadline, IsRunning, Running
    <3>5. \A v \in Attempts : ~IsRunning(v)'
      BY <3>1, <3>4, <1>0, <1>3, <1>4, Zenon DEF IsRunning
    <3> QED BY <3>1, <3>3, <3>5, <1>2, Zenon DEF SweepAlone
  <2> QED BY <2>1, <2>2, Zenon
<1>10. InTime(w)'
  BY <1>2, <1>3, <1>4, <1>5, <1>7, Zenon DEF InTime, UnderDeadline, IsRunning, Running
<1>11. HasClaim(w)'
  BY <1>3, <1>4, <1>7, Zenon DEF HasClaim, Holding
<1>12. KnowsPointer(w)'
  <2>1. Target(w)' = Target(w)
    BY <1>3, <1>4, Zenon DEF Target
  <2> QED BY <1>3, <1>4, <1>7, <2>1, Zenon DEF KnowsPointer
<1>13. ASSUME NEW v \in Attempts, v # w, Busy(v) PROVE ~Owns(v)' /\ ~Holding(v)
  <2>1. ~Owns(v) /\ ~Holding(v)
    BY <1>2, <1>5, <1>13, OneOwner, HoldingHoldsLease, Zenon
  <2>2. workers'[v] = workers[v]
    BY <1>0, <1>3, <1>13, Zenon
  <2> QED BY <1>2, <2>1, <2>2, Zenon DEF Owns, RequestOf
<1> QED BY <1>2, <1>3, <1>8, <1>9, <1>10, <1>11, <1>12, <1>13, OthersStaySound, Zenon

\* An attempt that completes, releases or supersedes its request is over.
LEMMA ClosesExclusive ==
  ASSUME ExclusiveInv, RowInv', NEW w \in Attempts,
         workers[w].pc \in {"completing", "releasing", "superseding"},
         NEW state \in {"Applied", "Approved", "Superseded"}, Closes(w, state)
  PROVE  ExclusiveInv'
<1>0. workers \in [Attempts -> Worker(now)] /\ workers[w] \in Worker(now)
      /\ requests \in [Requests -> Request(now)]
  BY Zenon DEF ExclusiveInv, RowInv, TypeOK
<1>1. IsRunning(w) /\ Busy(w)
  BY Zenon DEF IsRunning, Running, Busy
<1>2. CASE ~Owns(w)
  <2>1. GoesTo(w, "done")
    BY <1>2, Zenon DEF Closes, GoesTo
  <2> QED BY <1>1, <2>1, GoesToExclusive
<1>3. CASE Owns(w)
  <2>1. PICK k : k = [workers[w] EXCEPT !.pc = "done"]
    BY Zenon
  <2>2. PICK q : q = Closed(requests[workers[w].request], state)
    BY Zenon
  <2>3. k.pc = "done" /\ k.sent = workers[w].sent
    BY <1>0, <2>1, Zenon DEF Worker
  <2>4. ~workers[w].sent
    BY Zenon DEF ExclusiveInv, KnowsPointer
  <2>5. workers[w].request \in Requests
    BY <1>1, Zenon DEF ExclusiveInv, RowInv, WorkSound
  <2>6. q.state # "Applying"
    <3>1. requests[workers[w].request] \in Request(now)
      BY <1>0, <2>5, Zenon
    <3> QED BY <2>2, <3>1, Zenon DEF Closed, Request
  <2>7. requests' = [requests EXCEPT ![workers[w].request] = q]
        /\ workers' = [workers EXCEPT ![w] = k]
        /\ now' = now /\ active' = active /\ sweep' = sweep
    BY <1>0, <1>3, <2>1, <2>2, Zenon DEF Closes, Becomes, RequestOf
  <2>8. /\ workers'[w] = k /\ OneApplying'
        /\ \A v \in Attempts : v # w /\ Busy(v) => ~Owns(v)' /\ ~Holding(v)
    BY <1>1, <1>3, <2>6, <2>7, OwnRowWritten, Zenon
  <2>9. SweepAlone'
    BY <1>1, <2>7, RunningStopsSweep, Zenon
  <2>10. ~Busy(w)'
    BY <2>3, <2>4, <2>8, Zenon DEF Busy, IsRunning, Running
  <2>11. (InTime(w) /\ HasClaim(w) /\ KnowsPointer(w))'
    BY <2>10, IdleIsSound, Zenon
  <2> QED BY <2>7, <2>8, <2>9, <2>11, OthersStaySound, Zenon
<1> QED BY <1>2, <1>3, Zenon

\* The sweep's own steps.  No attempt may move the pointer for the request that
\* it bookkeeps: it would have a call out, to a target that is not active yet.
LEMMA SweepExclusive ==
  ASSUME SweepIsExclusive, ExclusiveInv, RowInv',
         \/ \E r \in Requests : ListApplying(r)
         \/ SweepMatches \/ SweepGivesUp \/ BookkeepApplied
  PROVE  ExclusiveInv'
<1>0. RowInv /\ requests \in [Requests -> Request(now)] /\ sweep \in Sweep
  BY Zenon DEF ExclusiveInv, RowInv, TypeOK
<1>1. UNCHANGED <<now, active, workers>>
  BY Zenon DEF ListApplying, SweepMatches, SweepGivesUp, BookkeepApplied, Sweeps
<1>2. CASE requests' = requests /\ SweepAlone'
  <2>1. OneApplying'
    BY <1>2, Zenon DEF ExclusiveInv, OneApplying
  <2>2. \A w \in Attempts : (InTime(w) /\ HasClaim(w) /\ KnowsPointer(w))'
    BY <1>1, <1>2, Zenon DEF ExclusiveInv, InTime, HasClaim, KnowsPointer, Holding, UnderDeadline,
                      IsRunning, Owns, RequestOf, Target
  <2> QED BY <1>2, <2>1, <2>2, Zenon DEF ExclusiveInv
<1>3. ASSUME NEW r \in Requests, ListApplying(r) PROVE ExclusiveInv'
  <2>1. SweepAlone' /\ requests' = requests
    BY <1>3, <1>1, Zenon DEF ListApplying, Sweeps, SweepAlone, IsRunning
  <2> QED BY <2>1, <1>2, Zenon
<1>4. CASE SweepMatches
  <2>1. SweepAlone' /\ requests' = requests
    BY <1>4, <1>1, Zenon DEF SweepMatches, Sweeps, SweepAlone, IsRunning, ExclusiveInv
  <2> QED BY <2>1, <1>2, Zenon
<1>5. CASE SweepGivesUp
  <2>1. SweepAlone' /\ requests' = requests
    BY <1>5, Zenon DEF SweepGivesUp, Sweeps, SweepAlone
  <2> QED BY <2>1, <1>2, Zenon
<1>6. CASE BookkeepApplied
  <2>0. requests[sweep.request].state = "Applying"
    BY <1>6, Zenon DEF BookkeepApplied, ExclusiveInv, SweepAlone
  <2>1. PICK r \in Requests, q \in Request(now) :
          /\ r = sweep.request /\ ValidRow(r, q) /\ q.state = "Applied"
          /\ requests' = [requests EXCEPT ![r] = q]
    BY <1>0, <1>6, <2>0, BookkeepWrites, Zenon
  <2>2. requests[r].state = "Applying" /\ active = {TargetOf[r]}
        /\ \A w \in Attempts : ~IsRunning(w)
    BY <1>6, <2>1, Zenon DEF BookkeepApplied, ExclusiveInv, SweepAlone
  <2>3. requests'[r] = q /\ \A s \in Requests : s # r => requests'[s] = requests[s]
    BY <1>0, <2>1, Zenon
  <2>4. ASSUME NEW w \in Attempts PROVE ~Busy(w)
    <3> SUFFICES ASSUME Busy(w) PROVE FALSE
      BY Zenon
    <3>1. workers[w].sent /\ Holding(w)
      BY <2>2, Zenon DEF Busy, Holding
    <3>2. Owns(w) /\ workers[w].request \in Requests
      BY <3>1, HoldingHoldsLease, Zenon
    <3>3. workers[w].request = r
      BY <2>2, <3>2, Zenon DEF ExclusiveInv, OneApplying, Owns, RequestOf
    <3> QED BY <3>1, <3>2, <3>3, <2>2, Zenon DEF ExclusiveInv, KnowsPointer, Target
  <2>5. \A w \in Attempts : (InTime(w) /\ HasClaim(w) /\ KnowsPointer(w))'
    <3> SUFFICES ASSUME NEW w \in Attempts PROVE (InTime(w) /\ HasClaim(w) /\ KnowsPointer(w))'
      BY Zenon
    <3>1. ~Busy(w)'
      BY <2>4, <1>1, Zenon DEF Busy, IsRunning
    <3> QED BY <3>1, IdleIsSound, Zenon
  <2>6. OneApplying'
    BY <2>1, <2>3, Zenon DEF ExclusiveInv, OneApplying
  <2>7. SweepAlone'
    BY <1>6, Zenon DEF BookkeepApplied, Sweeps, SweepAlone
  <2> QED BY <2>5, <2>6, <2>7, Zenon DEF ExclusiveInv
<1> QED BY <1>3, <1>4, <1>5, <1>6, Zenon

\* Every step keeps ExclusiveInv, when the sweep runs alone.
LEMMA ExclusiveStep ==
  ASSUME SweepIsExclusive
  PROVE  ExclusiveInv /\ [Next]_vars => ExclusiveInv'
<1> SUFFICES ASSUME ExclusiveInv, [Next]_vars PROVE ExclusiveInv'
  BY Zenon
<1>0. RowInv /\ RowInv'
  BY RowsStep, Zenon DEF ExclusiveInv
<1>1. CASE UNCHANGED vars
  BY <1>0, <1>1, Zenon DEF vars, ExclusiveInv, OneApplying, SweepAlone, InTime, HasClaim,
                    KnowsPointer, Holding, UnderDeadline, IsRunning, Owns, RequestOf, Target
<1>2. CASE Tick
  <2>1. UNCHANGED <<active, requests, workers, sweep>> /\ now \in Nat /\ now' = now + 1
    BY <1>0, <1>2, Times, Zenon DEF Tick
  <2>2. OneApplying' /\ SweepAlone'
    BY <2>1, Zenon DEF ExclusiveInv, OneApplying, SweepAlone, IsRunning
  <2>3. ASSUME NEW w \in Attempts PROVE (InTime(w) /\ HasClaim(w) /\ KnowsPointer(w))'
    <3>1. InTime(w) /\ HasClaim(w) /\ KnowsPointer(w)
      BY Zenon DEF ExclusiveInv
    <3>2. workers[w].startedAt \in Nat
      <4>1. workers[w].startedAt \in 0 .. now
        BY <1>0, Zenon DEF RowInv, TypeOK, Worker
      <4> QED BY <2>1, <4>1
    <3>3. InTime(w)'
      <4>1. workers'[w] = workers[w]
        BY <2>1, Zenon
      <4>2. UnderDeadline(w) => now' <= workers[w].startedAt + Deadline
        BY <1>2, <2>1, <3>2, DurationAssumption DEF Tick
      <4>3. workers[w].sent => now' <= workers[w].startedAt + Deadline + Flight
        BY <1>2, <2>1, <3>2, DurationAssumption DEF Tick
      <4>4. UnderDeadline(w)' => UnderDeadline(w)
        BY <4>1, Zenon DEF UnderDeadline, IsRunning
      <4> QED BY <4>1, <4>2, <4>3, <4>4, Zenon DEF InTime
    <3>5. HasClaim(w)'
      BY <2>1, <3>1, Zenon DEF HasClaim, Holding, Owns, RequestOf
    <3>6. KnowsPointer(w)'
      BY <2>1, <3>1, Zenon DEF KnowsPointer, Target, Owns, RequestOf
    <3> QED BY <3>3, <3>5, <3>6
  <2> QED BY <1>0, <2>2, <2>3 DEF ExclusiveInv
<1>3. ASSUME NEW r \in Requests, Operate(r) PROVE ExclusiveInv'
  <2>1. CASE ListApplying(r)
    BY <1>0, <2>1, SweepExclusive, Zenon
  <2>2. CASE ~ListApplying(r)
    <3>1. UNCHANGED workers
          /\ \E q \in Request(now) :
                 /\ Becomes(r, q)
                 /\ requests[r].state # "Applying" /\ q.state # "Applying"
                 /\ q.state # "Applied"
      BY <1>0, <1>3, <2>2, PeopleRows, Zenon DEF Operate
    <3> QED BY <1>0, <3>1, PeopleExclusive
  <2> QED BY <2>1, <2>2
<1>4. ASSUME NEW w \in Attempts, Work(w) PROVE ExclusiveInv'
  <2>0. workers[w].pc \in Running /\ workers[w].pc # "activating" => ~workers[w].sent
    BY Zenon DEF ExclusiveInv, KnowsPointer, Running
  <2>1. CASE \E r \in Requests : ClaimApply(r, w) \/ ClaimResume(r, w)
    BY <1>0, <2>1, ClaimExclusive, Zenon
  <2>2. CASE PrepareFails(w)
    <3>1. IsRunning(w) /\ workers[w].pc # "claiming" /\ ~workers[w].sent
          /\ GoesTo(w, "releasing")
      BY <2>0, <2>2, Zenon DEF PrepareFails, IsRunning, Running
    <3>2. "releasing" \in (Running \ {"claiming", "renewed", "activating"}) \cup {"done"}
      BY Zenon DEF Running
    <3> QED BY <1>0, <3>1, <3>2, GoesToExclusive
  <2>3. CASE PrepareLegacy(w) \/ PrepareProduct(w)
    <3>1. IsRunning(w) /\ workers[w].pc # "claiming" /\ ~workers[w].sent
      BY <2>0, <2>3, Zenon DEF PrepareLegacy, PrepareProduct, IsRunning, Running
    <3>2. PICK pc \in {"completing", "ready", "superseding"} :
            /\ GoesTo(w, pc)
            /\ pc = "completing" => active = {Target(w)}
            /\ pc = "ready" => active # {Target(w)}
      BY <2>3, Zenon DEF PrepareLegacy, PrepareProduct
    <3>3. pc \in (Running \ {"claiming", "renewed", "activating"}) \cup {"done"}
      BY Zenon DEF Running
    <3> QED BY <1>0, <3>1, <3>2, <3>3, GoesToExclusive
  <2>5. CASE RenewLease(w)
    BY <1>0, <2>5, RenewExclusive, Zenon
  <2>6. CASE ActivationRefused(w)
    <3>1. IsRunning(w) /\ workers[w].pc # "claiming" /\ ~workers[w].sent
          /\ GoesTo(w, "releasing")
      BY <2>0, <2>6, Zenon DEF ActivationRefused, IsRunning, Running
    <3>2. "releasing" \in (Running \ {"claiming", "renewed", "activating"}) \cup {"done"}
      BY DEF Running
    <3> QED BY <1>0, <3>1, <3>2, GoesToExclusive
  <2>7. CASE ClaimReplies(w) \/ SendActivation(w)
    BY <1>0, <2>7, WorkerOnlyExclusive, Zenon
  <2>8. CASE ActivationLands(w) \/ ActivationIsLost(w)
    BY <1>0, <2>8, LandsExclusive, Zenon
  <2>9. CASE CompleteApplied(w) \/ ReleaseToApproved(w) \/ SupersedeApplying(w)
    BY <1>0, <2>9, ClosesExclusive, Zenon DEF CompleteApplied, ReleaseToApproved, SupersedeApplying
  <2>10. CASE Stop(w)
    BY <1>0, <2>10, GoesToExclusive, Zenon DEF Stop
  <2> QED BY <1>4, <2>1, <2>2, <2>3, <2>5, <2>6, <2>7, <2>8, <2>9, <2>10 DEF Work
<1>5. CASE SweepMatches \/ SweepGivesUp \/ BookkeepApplied
  BY <1>0, <1>5, SweepExclusive, Zenon
<1> QED BY <1>1, <1>2, <1>3, <1>4, <1>5 DEF Next

\* ExclusiveInv holds throughout.
LEMMA ExclusiveAlways ==
  ASSUME SweepIsExclusive
  PROVE  Spec => []ExclusiveInv
BY ExclusiveInit, ExclusiveStep, PTL DEF Spec

\* An activation call that can still reach the database belongs to the attempt
\* that owns its Applying request, for any deadline and flight that fit the
\* lease together.
THEOREM MoverOwnsRequestAlways ==
  ASSUME SweepIsExclusive
  PROVE  Spec => []MoverOwnsRequest
<1>1. ExclusiveInv => MoverOwnsRequest
  BY Zenon DEF ExclusiveInv, HasClaim, Holding, MoverOwnsRequest
<1> QED BY <1>1, ExclusiveAlways, PTL

\* Only a completing attempt and the boot sweep write Applied, and both know
\* that the target is active.
LEMMA AppliedStep ==
  ASSUME ExclusiveInv, [Next]_vars, NEW r \in Requests,
         requests[r].state # "Applied", requests'[r].state = "Applied"
  PROVE  active = {TargetOf[r]}
<1>0. RowInv /\ requests \in [Requests -> Request(now)]
  BY Zenon DEF ExclusiveInv, RowInv, TypeOK
<1>1. requests' # requests
  BY Zenon
<1>2. ASSUME NEW s \in Requests, NEW q, requests' = [requests EXCEPT ![s] = q]
      PROVE  s = r /\ q.state = "Applied"
  BY <1>0, <1>2, Zenon
<1>3. CASE \E s \in Requests : Operate(s)
  <2>1. PICK s \in Requests : Operate(s)
    BY <1>3, Zenon
  <2>2. ~ListApplying(s)
    BY <1>1, Zenon DEF ListApplying
  <2>3. \E q \in Request(now) : Becomes(s, q) /\ q.state # "Applied"
    BY <1>0, <2>1, <2>2, PeopleRows, Zenon DEF Operate
  <2> QED BY <1>2, <2>3 DEF Becomes
<1>4. ASSUME NEW w \in Attempts, Work(w) PROVE active = {TargetOf[r]}
  <2>1. CASE \E s \in Requests : ClaimApply(s, w) \/ ClaimResume(s, w)
    <3>1. \E s \in Requests : \E q : /\ requests' = [requests EXCEPT ![s] = q]
                                     /\ q.state = "Applying"
      BY <2>1, <1>0, ClaimWrites, Zenon
    <3> QED BY <3>1, <1>2, Zenon
  <2>2. CASE RenewLease(w)
    <3>1. Owns(w)
      BY <1>1, <2>2, Zenon DEF RenewLease, GoesTo
    <3>2. \E s \in Requests : \E q : /\ requests' = [requests EXCEPT ![s] = q]
                                     /\ q.state = requests[s].state
      BY <2>2, <3>1, <1>0, RenewWrites, Zenon
    <3> QED BY <3>2, <1>2, Zenon
  <2>3. CASE CompleteApplied(w) \/ ReleaseToApproved(w) \/ SupersedeApplying(w)
    <3>0. workers[w].pc \in {"completing", "releasing", "superseding"}
      BY <2>3, Zenon DEF CompleteApplied, ReleaseToApproved, SupersedeApplying
    <3>1. PICK state : /\ Closes(w, state)
                       /\ state = "Applied" => workers[w].pc = "completing"
      BY <2>3 DEF CompleteApplied, ReleaseToApproved, SupersedeApplying
    <3>2. PICK s \in Requests : s = workers[w].request
      BY <1>0, <3>0, Zenon DEF RowInv, WorkSound, Busy, IsRunning, Running
    <3>3. PICK q : q = Closed(requests[s], state)
      BY Zenon
    <3>4. requests' = [requests EXCEPT ![s] = q] /\ Owns(w)
      BY <3>1, <3>2, <3>3, <1>1, Zenon DEF Closes, Becomes, RequestOf
    <3>a. q.state = state
      <4>1. requests[s] \in Request(now)
        BY <1>0, Zenon
      <4> QED BY <3>3, <4>1, Zenon DEF Closed, Request
    <3>5. s = r /\ state = "Applied"
      BY <1>2, <3>4, <3>a, Zenon
    <3>6. workers[w].pc = "completing"
      BY <3>1, <3>5, Zenon
    <3> QED BY <3>2, <3>4, <3>5, <3>6, Zenon DEF ExclusiveInv, KnowsPointer, Target
  <2>4. CASE ~(\/ \E s \in Requests : ClaimApply(s, w) \/ ClaimResume(s, w)
               \/ RenewLease(w) \/ CompleteApplied(w) \/ ReleaseToApproved(w)
               \/ SupersedeApplying(w))
    <3>1. requests' = requests
      BY <1>4, <2>4, Zenon DEF Work, PrepareFails, PrepareLegacy, PrepareProduct, ActivationRefused,
                        ClaimReplies, SendActivation, ActivationLands, ActivationIsLost, Stop,
                        GoesTo
    <3> QED BY <1>1, <3>1
  <2> QED BY <2>1, <2>2, <2>3, <2>4
<1>5. CASE BookkeepApplied
  <2>1. sweep.request \in Requests /\ active = {TargetOf[sweep.request]}
    BY <1>0, <1>5, Zenon DEF BookkeepApplied, RowInv, WorkSound, ExclusiveInv, SweepAlone
  <2>2. sweep.request = r
    BY <1>0, <1>5, Zenon DEF BookkeepApplied
  <2> QED BY <2>1, <2>2
<1>6. ~(UNCHANGED vars \/ Tick \/ SweepMatches \/ SweepGivesUp)
  BY <1>1, Zenon DEF vars, Tick, SweepMatches, SweepGivesUp
<1> QED BY <1>3, <1>4, <1>5, <1>6 DEF Next

\* A request becomes Applied, by its attempt or by the boot sweep, only while its
\* target is the active version.
THEOREM AppliedWhenActiveAlways ==
  ASSUME SweepIsExclusive
  PROVE  Spec => AppliedWhenActive
<1> DEFINE Step == \A r \in Requests :
                     (requests[r].state # "Applied" /\ requests'[r].state = "Applied")
                         => active = {TargetOf[r]}
<1>1. ExclusiveInv /\ [Next]_vars => [Step]_vars
  BY AppliedStep, Zenon
<1> QED BY <1>1, ExclusiveAlways, PTL DEF Spec, AppliedWhenActive

\* The pointer is moved by a call that lands, and by nothing else: its attempt
\* owns the Applying request, which validates.
LEMMA MoveStep ==
  ASSUME ExclusiveInv, [Next]_vars, active' # active
  PROVE  \E r \in Requests :
           /\ active' = {TargetOf[r]}
           /\ requests[r].state = "Applying"
           /\ Cardinality(requests[r].approvals) >= RequiredApprovals
           /\ IsProduct(r) => ~Unlinked(r) /\ requests[r].baseline = active
<1>1. PICK w \in Attempts : ActivationLands(w)
  BY Zenon DEF Next, vars, Tick, Operate, Create, MarkExpired, LinkProduct, Approve, Reject,
         Withdraw, ListApplying, Becomes, Work, ClaimApply, ClaimResume, BeginAttempt,
         ClaimReplies, PrepareFails, PrepareLegacy, PrepareProduct, RenewLease, ActivationRefused,
         SendActivation, ActivationIsLost, CompleteApplied, ReleaseToApproved,
         SupersedeApplying, Stop, Closes, GoesTo, SweepMatches, SweepGivesUp,
         BookkeepApplied, Sweeps
<1>2. Holding(w) /\ workers[w].sent /\ active' = Activated(w)
  BY <1>1, Zenon DEF ActivationLands, Holding
<1>3. PICK r \in Requests : r = workers[w].request
  BY <1>2, HoldingHoldsLease, Zenon
<1>4. Owns(w) /\ requests[r].state = "Applying"
  BY <1>2, <1>3, HoldingHoldsLease, Zenon DEF Owns, RequestOf
<1>5. ValidRequest(r, requests[r])
  BY <1>4, RowReads, Zenon DEF ExclusiveInv, ValidRow
<1>6. active # {Target(w)}
  BY <1>2, <1>4, Zenon DEF ExclusiveInv, KnowsPointer
<1>7. active' = {TargetOf[r]} /\ (IsProduct(r) => requests[r].baseline = active)
  BY <1>2, <1>3, <1>6, Zenon DEF Activated, BaselineDrifted, Target, RequestOf
<1>8. Suffices(requests[r].approvals) /\ ~Unlinked(r)
  BY <1>4, <1>5, Zenon DEF ValidRequest, Unlinked
<1> QED BY <1>4, <1>7, <1>8, Zenon DEF Suffices

\* The pointer only moves to the target of an Applying request with all its
\* approvals; a product request is linked, and replaces the version it was
\* approved against.
THEOREM PointerMoveIsApprovedAlways ==
  ASSUME SweepIsExclusive
  PROVE  Spec => PointerMoveIsApproved
<1> DEFINE Step == active' # active =>
                     \E r \in Requests :
                       /\ active' = {TargetOf[r]}
                       /\ requests[r].state = "Applying"
                       /\ Cardinality(requests[r].approvals) >= RequiredApprovals
                       /\ IsProduct(r) => ~Unlinked(r) /\ requests[r].baseline = active
<1>1. ExclusiveInv /\ [Next]_vars => [Step]_vars
  BY MoveStep, Zenon
<1> QED BY <1>1, ExclusiveAlways, PTL DEF Spec, PointerMoveIsApproved

=============================================================================
