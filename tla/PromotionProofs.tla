-------------------------- MODULE PromotionProofs --------------------------
(***************************************************************************)
(* Proofs about Promotion, for any callers, digests, time to live, length  *)
(* of time and number of faults.                                           *)
(*                                                                         *)
(* The inductive invariant relates the three stores to each other and      *)
(* every caller's stale reading of them to what they hold by now.          *)
(***************************************************************************)
EXTENDS Promotion, TLAPS

\* The row is one PromotionRecordV1::validate accepts, and not from the future.
RecordSound == record # Absent => Validates(record) /\ record.updated <= now

\* The request belongs to the row that was published, and only a linked one
\* was ever decided.
RequestSound ==
    request # Absent =>
        /\ record.stage \in {"Published", "ActivationPending", "Expired"}
        /\ request.digest = record.digest
        /\ record.created <= request.created /\ request.created <= now
        /\ request.expires = request.created + Ttl
        /\ request.state = "expired" => request.expires <= now
        /\ ~request.linked => request.state \in {"pending", "expired"}
        /\ request.linked => record.stage \in {"ActivationPending", "Expired"}
        /\ request.baseline # "base" => active # "base"

\* What the journal says of the other stores is so.
JournalSound ==
    /\ record.stage \in {"ActivationPending", "Expired"} =>
          request # Absent /\ SameActivation(record.activation, request)
    /\ record.stage = "Expired" => request.state = "expired"
    /\ record.stage \in {"Published", "ActivationPending", "Expired"} => published

\* The stages a call at pc has read, and the one it is about to journal.
StagesRead(pc) ==
    CASE pc \in {"publish", "markPublished"} -> {"Prepared"}
      [] pc \in {"resolve", "ensure", "markActivationPending"} -> {"Published"}
      [] pc \in {"verify", "link"} -> {"ActivationPending"}
      [] pc = "markExpired" -> {"Published", "ActivationPending"}

StageMarked(pc) ==
    CASE pc = "markPublished" -> "Published"
      [] pc = "markActivationPending" -> "ActivationPending"
      [] pc = "markExpired" -> "Expired"

\* The proposal the transition functions accept on the row as read.
Acceptable(r, stage, activation, at) ==
    /\ r.updated <= at
    /\ MayFollow(r, stage, activation)
    /\ Validates(NextStage(r, stage, activation, at))

\* What a call has read is an earlier state of the row, or the row as it is.
ReadSound(t) ==
    LET c == task[t] IN
    /\ record # Absent /\ c.read # Absent
    /\ c.read.digest = record.digest /\ c.read.created = record.created
    /\ c.read.revision <= record.revision
    /\ c.read.revision = record.revision => c.read = record
    /\ c.read.updated <= now
    /\ Validates(c.read)
    /\ c.read.stage = "ActivationPending" =>
          SameActivation(record.activation, c.read.activation)
    /\ c.round <= c.read.revision

\* A call that failed for the environment can point at it.
Excused == Drift \/ (request # Absent /\ request.state = "expired")

CallSound(t) ==
    LET c == task[t] IN
    /\ c.pc = "read" => record # Absent /\ c.round < record.revision
    /\ c.pc \notin {"idle", "read"} => ReadSound(t) /\ c.read.stage \in StagesRead(c.pc)
    /\ c.pc = "ensure" => c.baseline \in Baselines /\ (c.baseline # "base" => active # "base")
    /\ c.pc \in {"markPublished", "markActivationPending", "markExpired"} =>
          Acceptable(c.read, StageMarked(c.pc), c.plan, c.at) /\ c.at <= now
    /\ c.pc = "markPublished" => published
    /\ c.pc \in {"markActivationPending", "markExpired"} =>
          request # Absent /\ SameActivation(c.plan, request)
    /\ c.pc = "markExpired" => request.state = "expired"
    /\ c.outcome \notin {"limit", "mismatch", "invalid"}
    /\ c.outcome = "conflict" => Excused

IInv ==
    /\ TypeOK /\ RecordSound /\ RequestSound /\ JournalSound
    /\ \A t \in Tasks : CallSound(t)

----------------------------------------------------------------------------
(* Facts about the definitions. *)

LEMMA SameFields ==
    ASSUME NEW a, NEW b
    PROVE  SameActivation(a, b) <=>
               a.created = b.created /\ a.expires = b.expires /\ a.baseline = b.baseline
BY DEF SameActivation

\* Nothing is not a row and not a request.
LEMMA AbsentFacts ==
    /\ Absent.stage = "absent" /\ Absent \notin Records /\ Absent \notin Requests
    /\ Absent \in Activations
<1>1. Absent.stage = "absent" /\ Absent \notin Records /\ Absent \in Activations
  BY Zenon DEF Absent, Records, Activations
<1>2. Absent \notin Requests
  <2>1. DOMAIN Absent = {"stage"}
    BY Zenon DEF Absent
  <2>2. \A q \in Requests : "state" \in DOMAIN q
    BY Zenon DEF Requests
  <2> QED BY <2>1, <2>2
<1> QED BY <1>1, <1>2

\* A row that validates has the revision of its stage.
LEMMA RevisionFacts ==
    ASSUME NEW r \in Records, Validates(r)
    PROVE  /\ r.revision = 1 <=> r.stage = "Prepared"
           /\ r.revision = 2 <=> r.stage = "Published"
           /\ r.revision \in {3, 4} <=> r.stage \in {"ActivationPending", "Expired"}
           /\ r.revision = 4 => r.stage = "Expired"
           /\ r.revision \in 1..4 /\ r.created <= r.updated
           /\ r.stage \in {"ActivationPending", "Expired"} =>
                 /\ r.created <= r.activation.created
                 /\ r.activation.created <= r.updated
                 /\ r.activation.expires = r.activation.created + Ttl
<1>1. /\ r.stage \in {"Prepared", "Published", "ActivationPending", "Expired"}
      /\ r.revision \in 1..4
  BY Zenon DEF Records
<1>2. /\ r.stage = "Prepared" => r.revision = 1
      /\ r.stage = "Published" => r.revision = 2
      /\ r.stage = "ActivationPending" => r.revision = 3
      /\ r.stage = "Expired" => r.revision \in {3, 4}
  BY <1>1, Zenon DEF Validates
<1>3. r.created <= r.updated
  BY Zenon DEF Validates
<1>4. r.stage \in {"ActivationPending", "Expired"} =>
          /\ r.created <= r.activation.created
          /\ r.activation.created <= r.updated
          /\ r.activation.expires = r.activation.created + Ttl
  BY Zenon DEF Validates
<1> QED BY <1>1, <1>2, <1>3, <1>4

\* The transition functions compare the revision, then judge the proposal.
LEMMA VerdictFacts ==
    ASSUME NEW r \in Records, NEW expected, NEW stage, NEW activation, NEW at \in Int
    PROVE  Verdict(r, expected, stage, activation, at) =
               IF r.revision # expected THEN "revision"
               ELSE IF Acceptable(r, stage, activation, at) THEN "ok" ELSE "invalid"
<1>1. (at < r.updated) <=> ~(r.updated <= at)
  BY DEF Records
<1> QED BY <1>1 DEF Verdict, Acceptable

\* The row after a transition.
LEMMA NextStageFacts ==
    ASSUME NEW r \in Records, Validates(r), r.stage # "Expired", NEW stage \in {"Published", "ActivationPending", "Expired"},
           NEW activation \in Activations, NEW at \in 0..MaxTime
    PROVE  LET n == NextStage(r, stage, activation, at) IN
           /\ n \in Records /\ n.stage = stage /\ n.revision = r.revision + 1
           /\ n.digest = r.digest /\ n.created = r.created /\ n.updated = at
           /\ n.activation = activation
<1>1. r.revision + 1 \in 1..4
  <2>1. r.revision \in 1..4 /\ r.revision # 4
    BY RevisionFacts, Zenon
  <2> QED BY <2>1
<1> QED BY <1>1, Zenon DEF NextStage, Records

----------------------------------------------------------------------------
(* What the steps have in common. *)

\* The stores and the environment only ever go one way.
Advance ==
    /\ record # Absent =>
          /\ record' # Absent
          /\ record'.digest = record.digest /\ record'.created = record.created
          /\ record.revision <= record'.revision
          /\ record'.revision = record.revision => record' = record
          /\ record.stage = "ActivationPending" =>
                SameActivation(record'.activation, record.activation)
          /\ record.stage = "Expired" => record' = record
    /\ request # Absent =>
          /\ request' # Absent /\ SameActivation(request', request)
          /\ request.state = "expired" => request'.state = "expired"
    /\ published => published'
    /\ now <= now'
    /\ active # "base" => active' # "base"
    /\ ~bound => ~bound'

StoresTyped ==
    /\ record \in Records \cup {Absent}
    /\ request \in Requests \cup {Absent}
    /\ published \in BOOLEAN /\ bound \in BOOLEAN
    /\ active \in Baselines
    /\ now \in 0..MaxTime /\ faults \in 0..MaxFaults

StoresSound == RecordSound /\ RequestSound /\ JournalSound

\* A call that does not move still knows what it knew: its reading is as
\* stale as before, or staler.
LEMMA CallStays ==
    ASSUME PromotionConstants, IInv, Advance, StoresTyped', RecordSound',
           NEW t \in Tasks, task'[t] = task[t]
    PROVE  CallSound(t)'
<1> DEFINE c == task[t]
<1>1. c \in Calls /\ CallSound(t) /\ TypeOK /\ RecordSound /\ c.round \in Nat
  BY DEF IInv, TypeOK, Calls, Rounds
<1>2. record # Absent => /\ record \in Records /\ record' \in Records /\ record' # Absent
                         /\ record.revision \in 1..4 /\ record'.revision \in 1..4
                         /\ record.revision <= record'.revision
  BY <1>1, Zenon DEF TypeOK, StoresTyped, Advance, Records
<1>3. now \in Nat /\ now' \in Nat /\ now <= now'
  BY <1>1 DEF TypeOK, StoresTyped, Advance
<1>4. c.pc = "read" => record' # Absent /\ c.round < record'.revision
  BY <1>1, <1>2 DEF CallSound
<1>5. c.pc \notin {"idle", "read"} => /\ ReadSound(t)' /\ c.read.stage \in StagesRead(c.pc)
  <2> SUFFICES ASSUME c.pc \notin {"idle", "read"}
               PROVE  ReadSound(t)' /\ c.read.stage \in StagesRead(c.pc)
    BY Zenon
  <2>1. ReadSound(t) /\ c.read.stage \in StagesRead(c.pc)
    BY <1>1, Zenon DEF CallSound
  <2>2. c.read \in Records /\ c.read.revision \in 1..4 /\ c.read.updated \in Nat
    BY <1>1, <2>1 DEF ReadSound, Calls, Records
  <2>3. /\ c.read.revision <= record'.revision
        /\ c.read.revision = record'.revision => c.read = record'
    BY <2>1, <2>2, <1>2 DEF ReadSound, Advance
  <2>4. c.read.updated <= now'
    BY <2>1, <2>2, <1>3 DEF ReadSound
  <2>5. c.read.stage = "ActivationPending" =>
            SameActivation(record'.activation, c.read.activation)
    <3> SUFFICES ASSUME c.read.stage = "ActivationPending"
                 PROVE  SameActivation(record'.activation, c.read.activation)
      BY Zenon
    <3>1. record # Absent /\ Validates(record) /\ record \in Records
      BY <2>1, <1>1, <1>2, Zenon DEF ReadSound, RecordSound
    <3>2. c.read.revision = 3
      BY <2>1, <2>2, RevisionFacts, Zenon DEF ReadSound, Validates
    <3>3. record.revision \in {3, 4}
      BY <3>2, <2>1, <1>2 DEF ReadSound
    <3>4. record.stage \in {"ActivationPending", "Expired"}
      BY <3>1, <3>3, RevisionFacts, Zenon
    <3>5. SameActivation(record'.activation, record.activation)
      BY <3>1, <3>4, SameFields, Zenon DEF Advance
    <3>6. SameActivation(record.activation, c.read.activation)
      BY <2>1, Zenon DEF ReadSound
    <3> QED BY <3>5, <3>6, SameFields
  <2>6. record' # Absent /\ c.read.digest = record'.digest /\ c.read.created = record'.created
    BY <2>1, Zenon DEF ReadSound, Advance
  <2>7. task'[t] = c
    BY Zenon
  <2> HIDE DEF c
  <2> QED BY <2>1, <2>3, <2>4, <2>5, <2>6, <2>7 DEF ReadSound
<1>6. Excused => Excused'
  BY Zenon DEF Excused, Drift, Advance
<1>7. c.pc \in {"markPublished", "markActivationPending", "markExpired"} => c.at <= now'
  <2>1. c.at \in Nat
    BY <1>1 DEF Calls
  <2> QED BY <2>1, <1>1, <1>3 DEF CallSound
<1>8. c.pc \in {"markActivationPending", "markExpired"} =>
          request' # Absent /\ SameActivation(c.plan, request')
  BY <1>1, SameFields, Zenon DEF CallSound, Advance
<1>9. c.pc = "markExpired" => request'.state = "expired"
  BY <1>1, Zenon DEF CallSound, Advance
<1>10. c.pc = "markPublished" => published'
  BY <1>1, Zenon DEF CallSound, Advance
<1>11. c.pc = "ensure" => c.baseline \in Baselines /\ (c.baseline # "base" => active' # "base")
  BY <1>1, Zenon DEF CallSound, Advance
<1>12. task'[t] = c
  BY Zenon
<1> HIDE DEF c
<1> QED BY <1>1, <1>4, <1>5, <1>6, <1>7, <1>8, <1>9, <1>10, <1>11, <1>12 DEF CallSound

\* One call moves, the stores advance and stay sound.
LEMMA CallMoves ==
    ASSUME PromotionConstants, IInv, NEW t \in Tasks, NEW new \in Calls,
           task' = [task EXCEPT ![t] = new],
           Advance, StoresTyped', StoresSound', CallSound(t)'
    PROVE  IInv'
<1>1. task \in [Tasks -> Calls]
  BY Zenon DEF IInv, TypeOK
<1>2. task' \in [Tasks -> Calls] /\ \A s \in Tasks : s # t => task'[s] = task[s]
  BY <1>1, Zenon
<1>3. \A s \in Tasks : CallSound(s)'
  BY <1>2, CallStays, Zenon DEF StoresSound
<1>4. TypeOK'
  BY <1>2, Zenon DEF TypeOK, StoresTyped
<1> QED BY <1>3, <1>4 DEF IInv, StoresSound

\* No call moves, the stores advance and stay sound.
LEMMA CallsStay ==
    ASSUME PromotionConstants, IInv, UNCHANGED task, Advance, StoresTyped', StoresSound'
    PROVE  IInv'
<1>1. \A s \in Tasks : CallSound(s)'
  BY CallStays, Zenon DEF StoresSound
<1>2. TypeOK'
  BY Zenon DEF IInv, TypeOK, StoresTyped
<1> QED BY <1>1, <1>2 DEF IInv, StoresSound

\* The stores and the environment as they are.
LEMMA StoresStay ==
    ASSUME IInv, UNCHANGED <<store, world>>, faults' \in 0..MaxFaults
    PROVE  Advance /\ StoresTyped' /\ StoresSound'
<1>1. /\ UNCHANGED <<record, published, request>> /\ UNCHANGED <<active, bound, now>>
  BY Zenon DEF store, world
<1>2. StoresTyped'
  BY <1>1, Zenon DEF IInv, TypeOK, StoresTyped
<1>3. StoresSound'
  BY <1>1, Zenon DEF IInv, StoresSound, RecordSound, RequestSound, JournalSound
<1>4. Advance
  <2>1. now \in Nat /\ (record # Absent => record.revision \in Nat)
    BY DEF IInv, TypeOK, Records
  <2> QED BY <1>1, <2>1, SameFields DEF Advance
<1> QED BY <1>2, <1>3, <1>4

\* A call that returns has nothing to know but why it failed.
LEMMA ReturnIInv ==
    ASSUME PromotionConstants, IInv, NEW t \in Tasks,
           NEW outcome \in Outcomes \ {"limit", "mismatch", "invalid"}, Return(t, outcome),
           outcome = "conflict" => Excused',
           Advance, StoresTyped', StoresSound'
    PROVE  IInv'
<1> DEFINE new == Idle(outcome)
<1>1. new \in Calls /\ new.pc = "idle" /\ new.outcome = outcome
  BY AbsentFacts DEF Idle, Calls, Rounds, PromotionConstants
<1>2. task' = [task EXCEPT ![t] = new] /\ task'[t] = new
  BY Zenon DEF Return, IInv, TypeOK
<1> HIDE DEF new
<1>3. CallSound(t)'
  BY <1>1, <1>2, Zenon DEF CallSound
<1> QED BY <1>1, <1>2, <1>3, CallMoves, Zenon

\* A call that reads again has made fewer rounds than the row has revisions.
LEMMA RoundIInv ==
    ASSUME PromotionConstants, IInv, NEW t \in Tasks, NEW n \in 0..Rounds,
           task' = [task EXCEPT ![t] = Round(n)], record' # Absent, n < record'.revision,
           Advance, StoresTyped', StoresSound'
    PROVE  IInv'
<1> DEFINE new == Round(n)
<1>1. new \in Calls /\ new.pc = "read" /\ new.outcome = "none" /\ new.round = n
  <2>1. Idle("none") \in Calls /\ Idle("none").outcome = "none"
    BY AbsentFacts DEF Idle, Calls, Rounds, PromotionConstants, Outcomes
  <2> QED BY <2>1, Zenon DEF Round, Calls
<1>2. task'[t] = new
  BY Zenon DEF IInv, TypeOK
<1> HIDE DEF new
<1>3. CallSound(t)'
  BY <1>1, <1>2, Zenon DEF CallSound
<1> QED BY <1>1, <1>3, CallMoves, Zenon DEF new

\* An acceptable proposal is taken to the journal.
LEMMA ProposeIInv ==
    ASSUME PromotionConstants, IInv, NEW t \in Tasks, task[t].pc \notin {"idle", "read"},
           NEW pc \in {"markPublished", "markActivationPending", "markExpired"},
           NEW activation \in Activations, NEW at \in 0..MaxTime,
           Propose(t, StageMarked(pc), pc, activation, at),
           task[t].read.stage \in StagesRead(pc),
           Acceptable(task[t].read, StageMarked(pc), activation, at),
           at <= now', UNCHANGED record,
           pc = "markPublished" => published',
           pc # "markPublished" => request' # Absent /\ SameActivation(activation, request'),
           pc = "markExpired" => request'.state = "expired",
           Advance, StoresTyped', StoresSound'
    PROVE  IInv'
<1> DEFINE c == task[t]
           new == [c EXCEPT !.pc = pc, !.plan = activation, !.at = at]
<1>1. c \in Calls /\ CallSound(t) /\ ReadSound(t) /\ c.read \in Records /\ task \in [Tasks -> Calls]
  <2>1. c \in Calls /\ CallSound(t) /\ ReadSound(t) /\ task \in [Tasks -> Calls]
    BY Zenon DEF IInv, TypeOK, CallSound
  <2> QED BY <2>1 DEF ReadSound, Calls
<1>2. task' = [task EXCEPT ![t] = new] /\ task'[t] = new
  <2>1. Verdict(c.read, c.read.revision, StageMarked(pc), activation, at) = "ok"
    BY <1>1, VerdictFacts
  <2> QED BY <2>1, <1>1 DEF Propose
<1>3. /\ new \in Calls /\ new.pc = pc /\ new.plan = activation /\ new.at = at
      /\ new.read = c.read /\ new.round = c.round /\ new.outcome = c.outcome
  BY <1>1, Zenon DEF Calls
<1> HIDE DEF new
<1>4. c.read.updated <= now'
  <2>1. c.read.updated \in Nat /\ now \in Nat /\ now' \in Nat
    BY <1>1 DEF Records, IInv, TypeOK, StoresTyped
  <2> QED BY <1>1, <2>1 DEF ReadSound, Advance
<1>5. ReadSound(t)'
  BY <1>1, <1>2, <1>3, <1>4, Zenon DEF ReadSound
<1>6. c.outcome \notin {"limit", "mismatch", "invalid"} /\ (c.outcome = "conflict" => Excused')
  BY <1>1, Zenon DEF CallSound, Excused, Drift, Advance
<1>7. CallSound(t)'
  BY <1>2, <1>3, <1>5, <1>6, Zenon DEF CallSound
<1> QED BY <1>2, <1>3, <1>7, CallMoves, Zenon

----------------------------------------------------------------------------
(* The invariant is inductive: one lemma per operation. *)

LEMMA InitIInv == ASSUME PromotionConstants, Init PROVE IInv
<1>1. Idle("none") \in Calls /\ Idle("none").pc = "idle" /\ Idle("none").outcome = "none"
  BY AbsentFacts DEF Idle, Calls, Rounds, PromotionConstants, Outcomes
<1>2. TypeOK
  <2>1. task \in [Tasks -> Calls] /\ active \in Baselines /\ now \in 0..MaxTime /\ faults \in 0..MaxFaults
    BY <1>1 DEF Init, Baselines, PromotionConstants
  <2>2. published \in BOOLEAN /\ bound \in BOOLEAN
    BY Zenon DEF Init
  <2> QED BY <2>1, <2>2 DEF Init, TypeOK
<1>3. RecordSound /\ RequestSound /\ JournalSound
  BY AbsentFacts, Zenon DEF Init, RecordSound, RequestSound, JournalSound
<1>4. \A t \in Tasks : CallSound(t)
  BY <1>1, Zenon DEF Init, CallSound
<1> QED BY <1>2, <1>3, <1>4 DEF IInv

\* create_prepared on an empty journal.
LEMMA PreparedFacts ==
    ASSUME PromotionConstants, IInv, record = Absent, NEW d \in Digests,
           record' = Prepared(d), UNCHANGED <<published, request, world, faults>>
    PROVE  /\ Advance /\ StoresTyped' /\ StoresSound'
           /\ record' # Absent /\ record'.revision = 1
<1>1. TypeOK /\ now \in 0..MaxTime /\ now \in Nat /\ UNCHANGED <<active, bound, now>>
  BY DEF IInv, TypeOK, world
<1>2. /\ record' \in Records /\ record'.revision = 1 /\ record'.stage = "Prepared"
      /\ record'.created = now /\ record'.updated = now
  BY <1>1, AbsentFacts DEF Prepared, Records
<1>3. request = Absent /\ request' = Absent
  BY AbsentFacts, Zenon DEF IInv, RequestSound
<1>4. record' # Absent
  BY <1>2, AbsentFacts, Zenon
<1>5. Validates(record')
  BY <1>1, <1>2 DEF Validates
<1>6. StoresTyped'
  BY <1>1, <1>2, Zenon DEF StoresTyped, TypeOK
<1>7. StoresSound'
  BY <1>1, <1>2, <1>3, <1>5 DEF StoresSound, RecordSound, RequestSound, JournalSound
<1>8. Advance
  BY <1>1, <1>3 DEF Advance
<1> QED BY <1>2, <1>4, <1>6, <1>7, <1>8

\* submit.
LEMMA StartIInv ==
    ASSUME PromotionConstants, IInv, NEW t \in Tasks, NEW d \in Digests, Start(t, d)
    PROVE  IInv'
<1>0. 0 \in 0..Rounds
  BY DEF Rounds
<1>1. CASE record = Absent
  <2>1. record' = Prepared(d) /\ task' = [task EXCEPT ![t] = Round(0)]
    BY <1>1, Zenon DEF Start
  <2>2. UNCHANGED <<published, request, world, faults>>
    BY Zenon DEF Start
  <2>3. /\ Advance /\ StoresTyped' /\ StoresSound' /\ record' # Absent /\ 0 < record'.revision
    BY <1>1, <2>1, <2>2, PreparedFacts
  <2> QED BY <1>0, <2>1, <2>3, RoundIInv, Zenon
<1>2. CASE record # Absent
  <2>1. UNCHANGED <<store, world>> /\ faults' \in 0..MaxFaults /\ record' = record
    BY <1>2, Zenon DEF Start, store, IInv, TypeOK
  <2>2. Advance /\ StoresTyped' /\ StoresSound'
    BY <2>1, StoresStay, Zenon
  <2>3. record.revision \in Nat /\ 0 < record.revision
    BY <1>2 DEF IInv, TypeOK, Records
  <2>4. CASE task' = [task EXCEPT ![t] = Round(0)]
    BY <1>0, <1>2, <2>1, <2>2, <2>3, <2>4, RoundIInv, Zenon
  <2>5. CASE Return(t, "idempotency")
    <3>1. "idempotency" \in Outcomes \ {"limit", "mismatch", "invalid"}
      BY Zenon DEF Outcomes
    <3> QED BY <2>2, <2>5, <3>1, ReturnIInv
  <2> QED BY <1>2, <2>4, <2>5 DEF Start
<1> QED BY <1>1, <1>2

\* resume, and a fault that ends a call.
LEMMA ResumeIInv ==
    ASSUME PromotionConstants, IInv, NEW t \in Tasks, Resume(t)
    PROVE  IInv'
<1>1. /\ UNCHANGED <<store, world>> /\ faults' \in 0..MaxFaults /\ record' = record
      /\ task' = [task EXCEPT ![t] = Round(0)] /\ record # Absent /\ 0 \in 0..Rounds
  BY DEF Resume, store, IInv, TypeOK, Rounds
<1>2. record.revision \in Nat /\ 0 < record.revision
  BY <1>1 DEF IInv, TypeOK, Records
<1> QED BY <1>1, <1>2, StoresStay, RoundIInv, Zenon

LEMMA FaultIInv ==
    ASSUME PromotionConstants, IInv, NEW t \in Tasks, Fault(t)
    PROVE  IInv'
<1>1. /\ UNCHANGED <<store, world>> /\ faults' \in 0..MaxFaults /\ Return(t, "fault")
  BY DEF Fault, IInv, TypeOK, PromotionConstants
<1>2. "fault" \in Outcomes \ {"limit", "mismatch", "invalid"}
  BY Zenon DEF Outcomes
<1> QED BY <1>1, <1>2, StoresStay, ReturnIInv

\* get and its dispatch: the loop bound is never met.
LEMMA ReadIInv ==
    ASSUME PromotionConstants, IInv, NEW t \in Tasks, Read(t)
    PROVE  IInv'
<1> DEFINE c == task[t]
           pc == Dispatch(record.stage)
           new == [c EXCEPT !.pc = pc, !.read = record, !.round = c.round + 1]
<1>1. /\ UNCHANGED <<store, world>> /\ faults' \in 0..MaxFaults /\ record' = record
      /\ now' = now /\ c.pc = "read" /\ c \in Calls /\ task \in [Tasks -> Calls]
  BY Zenon DEF Read, At, store, world, IInv, TypeOK
<1>2. Advance /\ StoresTyped' /\ StoresSound'
  BY <1>1, StoresStay, Zenon
<1>3. record # Absent /\ record \in Records /\ Validates(record) /\ c.round < record.revision /\ record.updated <= now
  BY <1>1, Zenon DEF IInv, TypeOK, CallSound, RecordSound
<1>4. record.revision \in 1..4 /\ c.round \in Nat /\ c.round + 1 \in 0..Rounds /\ c.round # Rounds
      /\ c.round + 1 <= record.revision
  <2>1. record.revision \in 1..4 /\ c.round \in 0..Rounds
    BY <1>1, <1>3, Zenon DEF Records, Calls
  <2> QED BY <2>1, <1>3 DEF Rounds
<1>5. CASE record.stage = "Expired"
  <2>1. Return(t, "expired")
    BY <1>4, <1>5, Zenon DEF Read, Dispatch
  <2>2. "expired" \in Outcomes \ {"limit", "mismatch", "invalid"}
    BY Zenon DEF Outcomes
  <2> QED BY <1>2, <2>1, <2>2, ReturnIInv
<1>6. CASE record.stage # "Expired"
  <2>1. /\ pc \in {"publish", "resolve", "verify"} /\ record.stage \in StagesRead(pc)
    BY <1>3, <1>6, Zenon DEF Records, StagesRead, Dispatch
  <2>2. task' = [task EXCEPT ![t] = new] /\ task'[t] = new
    <3>1. pc # "done" /\ c.round # Rounds
      BY <1>4, <2>1, Zenon
    <3>2. task' = [task EXCEPT ![t] = new]
      BY <3>1, Zenon DEF Read
    <3> HIDE DEF new
    <3> QED BY <3>2, <1>1
  <2> HIDE DEF pc
  <2>3. /\ new \in Calls /\ new.pc = pc /\ new.read = record /\ new.round = c.round + 1
        /\ new.outcome = c.outcome
    BY <1>1, <1>3, <1>4, <2>1, Zenon DEF Calls
  <2> HIDE DEF new
  <2>4. ReadSound(t)'
    <3>1. new.read.revision \in Nat
      BY <1>4, <2>3
    <3> QED BY <1>1, <1>3, <1>4, <2>2, <2>3, <3>1, SameFields DEF ReadSound
  <2>5. c.outcome \notin {"limit", "mismatch", "invalid"} /\ (c.outcome = "conflict" => Excused')
    BY <1>1, <1>2, Zenon DEF IInv, CallSound, Excused, Drift, Advance
  <2>6. CallSound(t)'
    BY <2>1, <2>2, <2>3, <2>4, <2>5, Zenon DEF CallSound
  <2> QED BY <1>2, <2>2, <2>3, <2>6, CallMoves, Zenon
<1> QED BY <1>5, <1>6

----------------------------------------------------------------------------
(* The proposals of the service are ones the store accepts. *)

LEMMA AcceptPublished ==
    ASSUME NEW r \in Records, Validates(r), r.stage = "Prepared",
           NEW at \in 0..MaxTime, r.updated <= at
    PROVE  Acceptable(r, "Published", Absent, at)
<1> DEFINE n == NextStage(r, "Published", Absent, at)
<1>1. /\ n.stage = "Published" /\ n.revision = 2 /\ n.created = r.created /\ n.updated = at
  BY AbsentFacts, NextStageFacts, RevisionFacts
<1>2. r.created \in Nat /\ r.updated \in Nat /\ r.created <= r.updated
  BY RevisionFacts DEF Records
<1> HIDE DEF n
<1>3. Validates(n)
  BY <1>1, <1>2 DEF Validates
<1> QED BY <1>3 DEF Acceptable, MayFollow, n

\* The activation of a request that is there.
LEMMA LinkFacts ==
    ASSUME NEW q \in Requests, NEW disposition \in {"Created", "Reused"}
    PROVE  LET a == Link(q, disposition) IN
           /\ a \in Activations /\ a.created = q.created /\ a.expires = q.expires
           /\ a.baseline = q.baseline /\ a.disposition = disposition
           /\ SameActivation(a, q)
<1> DEFINE a == Link(q, disposition)
<1>1. /\ a \in Activations /\ a.created = q.created /\ a.expires = q.expires
      /\ a.baseline = q.baseline /\ a.disposition = disposition
  BY Zenon DEF Link, Activations, Requests
<1> QED BY <1>1, SameFields

LEMMA AcceptPending ==
    ASSUME PromotionConstants, NEW r \in Records, Validates(r), r.stage = "Published",
           NEW q \in Requests, NEW disposition \in {"Created", "Reused"},
           NEW at \in 0..MaxTime, r.updated <= at,
           r.created <= q.created, q.created <= at, q.expires = q.created + Ttl
    PROVE  Acceptable(r, "ActivationPending", Link(q, disposition), at)
<1> DEFINE a == Link(q, disposition)
           n == NextStage(r, "ActivationPending", a, at)
<1>1. a \in Activations /\ a.created = q.created /\ a.expires = q.expires
  BY LinkFacts, Zenon
<1> HIDE DEF a
<1>2. /\ n.stage = "ActivationPending" /\ n.revision = 3 /\ n.created = r.created /\ n.updated = at
      /\ n.activation = a
  BY <1>1, NextStageFacts, RevisionFacts
<1>3. /\ r.created \in Nat /\ r.updated \in Nat /\ q.created \in Nat /\ r.created <= r.updated
  BY RevisionFacts DEF Records, Requests
<1> HIDE DEF n
<1>4. Validates(n)
  BY <1>1, <1>2, <1>3 DEF Validates
<1> QED BY <1>4 DEF Acceptable, MayFollow, n, a

LEMMA AcceptExpired ==
    ASSUME PromotionConstants, NEW r \in Records, Validates(r),
           NEW q \in Requests, NEW at \in 0..MaxTime, r.updated <= at,
           r.created <= q.created, q.expires <= at, q.expires = q.created + Ttl,
           \/ r.stage = "Published"
           \/ r.stage = "ActivationPending" /\ SameActivation(r.activation, q)
    PROVE  Acceptable(r, "Expired", Link(q, "Reused"), at)
<1> DEFINE a == Link(q, "Reused")
           n == NextStage(r, "Expired", a, at)
<1>1. /\ a \in Activations /\ a.created = q.created /\ a.expires = q.expires
      /\ a.disposition = "Reused" /\ a.baseline = q.baseline
  BY LinkFacts, Zenon
<1> HIDE DEF a
<1>2. /\ n.stage = "Expired" /\ n.revision \in {3, 4} /\ n.created = r.created /\ n.updated = at
      /\ n.activation = a
  BY <1>1, NextStageFacts, RevisionFacts DEF Validates
<1>3. /\ r.created \in Nat /\ r.updated \in Nat /\ q.created \in Nat /\ r.created <= r.updated
      /\ Ttl \in Nat
  BY RevisionFacts DEF Records, Requests, PromotionConstants
<1> HIDE DEF n
<1>4. Validates(n)
  BY <1>1, <1>2, <1>3 DEF Validates
<1>5. MayFollow(r, "Expired", a)
  BY <1>1, SameFields, Zenon DEF MayFollow
<1> QED BY <1>4, <1>5 DEF Acceptable, n, a

\* What a call that has read knows.
LEMMA ReaderFacts ==
    ASSUME IInv, NEW t \in Tasks, task[t].pc \notin {"idle", "read"}
    PROVE  /\ task[t] \in Calls /\ task \in [Tasks -> Calls] /\ CallSound(t) /\ ReadSound(t)
           /\ record \in Records /\ record # Absent /\ Validates(record) /\ record.updated <= now
           /\ task[t].read \in Records /\ Validates(task[t].read)
           /\ task[t].read.stage \in StagesRead(task[t].pc)
           /\ task[t].read.revision \in 1..4 /\ record.revision \in 1..4
           /\ task[t].read.revision <= record.revision
           /\ task[t].read.revision = record.revision => task[t].read = record
           /\ task[t].read.updated <= now
           /\ task[t].round \in 0..Rounds /\ task[t].round <= task[t].read.revision
<1>1. /\ task[t] \in Calls /\ task \in [Tasks -> Calls] /\ CallSound(t) /\ ReadSound(t)
      /\ task[t].read.stage \in StagesRead(task[t].pc)
  BY Zenon DEF IInv, TypeOK, CallSound
<1>2. /\ record \in Records /\ record # Absent /\ Validates(record) /\ record.updated <= now
      /\ task[t].read \in Records /\ task[t].round \in 0..Rounds
  BY <1>1, Zenon DEF IInv, TypeOK, ReadSound, RecordSound, Calls
<1>3. task[t].read.revision \in 1..4 /\ record.revision \in 1..4
  BY <1>2, Zenon DEF Records
<1> QED BY <1>1, <1>2, <1>3 DEF ReadSound

\* publish_ruleset.
LEMMA PublishIInv ==
    ASSUME PromotionConstants, IInv, NEW t \in Tasks, Publish(t)
    PROVE  IInv'
<1>1. /\ task[t].pc = "publish" /\ published' = TRUE
      /\ UNCHANGED <<record, request>> /\ UNCHANGED <<active, bound, now>> /\ UNCHANGED faults
      /\ Propose(t, "Published", "markPublished", Absent, now)
  BY Zenon DEF Publish, At, world
<1>2. now \in 0..MaxTime /\ now \in Nat
  BY DEF IInv, TypeOK
<1>3. /\ task[t].read \in Records /\ Validates(task[t].read) /\ task[t].read.stage = "Prepared"
      /\ task[t].read.updated <= now
  BY <1>1, ReaderFacts, Zenon DEF StagesRead
<1>4. StoresTyped'
  <2>1. published' \in BOOLEAN
    BY <1>1, Zenon
  <2> QED BY <1>1, <2>1 DEF IInv, TypeOK, StoresTyped
<1>5. StoresSound'
  BY <1>1, Zenon DEF IInv, StoresSound, RecordSound, RequestSound, JournalSound
<1>6. Advance
  <2>1. record # Absent => record.revision \in Nat
    BY DEF IInv, TypeOK, Records
  <2>2. published'
    BY <1>1, Zenon
  <2> QED BY <1>1, <1>2, <2>1, <2>2, SameFields DEF Advance
<1>7. Acceptable(task[t].read, "Published", Absent, now)
  BY <1>2, <1>3, AcceptPublished, Zenon
<1>8. StageMarked("markPublished") = "Published" /\ StagesRead("markPublished") = {"Prepared"}
  BY Zenon DEF StageMarked, StagesRead
<1>9. published'
  BY <1>1
<1>10. now <= now' /\ task[t].pc \notin {"idle", "read"}
  BY <1>1, <1>2
<1> QED BY <1>1, <1>2, <1>3, <1>4, <1>5, <1>6, <1>7, <1>8, <1>9, <1>10, AbsentFacts, ProposeIInv

\* The row is moved on by the call whose reading is still current.
LEMMA MarkFacts ==
    ASSUME PromotionConstants, IInv, NEW t \in Tasks,
           NEW pc \in {"markPublished", "markActivationPending", "markExpired"}, task[t].pc = pc,
           task[t].read.revision = record.revision,
           record' = NextStage(record, StageMarked(pc), task[t].plan, task[t].at),
           UNCHANGED <<published, request, world, faults>>
    PROVE  /\ Advance /\ StoresTyped' /\ StoresSound'
           /\ record' # Absent /\ record'.revision = record.revision + 1
<1> DEFINE c == task[t]
           stage == StageMarked(pc)
<1>1. /\ UNCHANGED <<published, request, faults>> /\ UNCHANGED <<active, bound, now>>
      /\ now \in 0..MaxTime /\ now \in Nat
  BY DEF world, IInv, TypeOK
<1>2. /\ c \in Calls /\ record \in Records /\ record # Absent /\ Validates(record)
      /\ c.read = record /\ record.stage \in StagesRead(pc) /\ CallSound(t) /\ ReadSound(t)
      /\ record.revision \in 1..4
  BY ReaderFacts, Zenon
<1>3. c.plan \in Activations /\ c.at \in 0..MaxTime
  BY <1>2, Zenon DEF Calls
<1>4. Acceptable(record, stage, c.plan, c.at) /\ c.at <= now
  BY <1>2, Zenon DEF CallSound
<1>5. stage \in {"Published", "ActivationPending", "Expired"} /\ record.stage # "Expired"
  BY <1>2, Zenon DEF StageMarked, StagesRead
<1>6. /\ record' \in Records /\ record'.stage = stage /\ record'.revision = record.revision + 1
      /\ record'.digest = record.digest /\ record'.created = record.created
      /\ record'.updated = c.at /\ record'.activation = c.plan
  <2> HIDE DEF c, stage
  <2> QED BY <1>2, <1>3, <1>5, NextStageFacts DEF c, stage
<1>7. record' # Absent
  BY <1>6, AbsentFacts, Zenon
<1>8. Validates(record') /\ MayFollow(record, stage, c.plan)
  BY <1>4, Zenon DEF Acceptable
<1>9. RecordSound'
  BY <1>1, <1>4, <1>6, <1>8, Zenon DEF RecordSound
<1>10. /\ pc = "markPublished" => published /\ stage = "Published" /\ record.stage = "Prepared"
       /\ pc = "markActivationPending" => stage = "ActivationPending" /\ record.stage = "Published"
       /\ pc = "markExpired" => /\ stage = "Expired" /\ request.state = "expired"
                                /\ record.stage \in {"Published", "ActivationPending"}
       /\ pc # "markPublished" => request # Absent /\ SameActivation(c.plan, request)
  BY <1>2, Zenon DEF CallSound, StageMarked, StagesRead
<1>11. RequestSound'
  <2>1. pc = "markPublished" => request = Absent
    BY <1>10, AbsentFacts, Zenon DEF IInv, RequestSound
  <2>2. CASE request = Absent
    BY <2>2, <1>1, Zenon DEF RequestSound
  <2>3. CASE request # Absent
    <3>1. stage \in {"ActivationPending", "Expired"}
      BY <2>1, <2>3, <1>10, Zenon
    <3>2. record'.stage \in {"ActivationPending", "Expired"}
      BY <3>1, <1>6, Zenon
    <3> QED BY <1>1, <1>6, <3>2 DEF IInv, RequestSound
  <2> QED BY <2>2, <2>3
<1>12. JournalSound'
  <2>1. published
    BY <1>10, Zenon DEF IInv, JournalSound
  <2> HIDE DEF c, stage
  <2> QED BY <2>1, <1>1, <1>6, <1>10 DEF JournalSound
<1>13. StoresTyped'
  BY <1>1, <1>6, Zenon DEF IInv, TypeOK, StoresTyped
<1>14. Advance
  <2>1. record.stage = "ActivationPending" => SameActivation(record'.activation, record.activation)
    BY <1>5, <1>6, <1>8, SameFields, Zenon DEF MayFollow
  <2>2. record.revision <= record'.revision /\ record'.revision # record.revision
    BY <1>2, <1>6
  <2> QED BY <1>1, <1>5, <1>6, <1>7, <2>1, <2>2, SameFields DEF Advance
<1> QED BY <1>6, <1>7, <1>9, <1>11, <1>12, <1>13, <1>14 DEF StoresSound

\* mark_published, mark_activation_pending and mark_expired: the store never
\* calls the proposal invalid, and a call that reads again reads a later row.
LEMMA MarkIInv ==
    ASSUME PromotionConstants, IInv, NEW t \in Tasks,
           MarkPublished(t) \/ MarkActivationPending(t) \/ MarkExpired(t)
    PROVE  IInv'
<1> DEFINE c == task[t]
           stage == StageMarked(c.pc)
<1>1. /\ c.pc \in {"markPublished", "markActivationPending", "markExpired"}
      /\ UNCHANGED <<published, request, world, faults>>
      /\ CASE Verdict(record, c.read.revision, stage, c.plan, c.at) = "ok" ->
                 /\ record' = NextStage(record, stage, c.plan, c.at)
                 /\ Continue(t) \/ Return(t, "expired")
           [] Verdict(record, c.read.revision, stage, c.plan, c.at) = "revision" ->
                 Continue(t) /\ UNCHANGED record
           [] OTHER -> Return(t, Verdict(record, c.read.revision, stage, c.plan, c.at)) /\ UNCHANGED record
  <2>1. CASE MarkPublished(t)
    <3>1. c.pc = "markPublished" /\ stage = "Published"
      BY <2>1, Zenon DEF MarkPublished, Mark, At, StageMarked
    <3> QED BY <2>1, <3>1 DEF MarkPublished, Mark
  <2>2. CASE MarkActivationPending(t)
    <3>1. c.pc = "markActivationPending" /\ stage = "ActivationPending"
      BY <2>2, Zenon DEF MarkActivationPending, Mark, At, StageMarked
    <3> QED BY <2>2, <3>1 DEF MarkActivationPending, Mark
  <2>3. CASE MarkExpired(t)
    <3>1. c.pc = "markExpired" /\ stage = "Expired"
      BY <2>3, Zenon DEF MarkExpired, Mark, At, StageMarked
    <3> QED BY <2>3, <3>1 DEF MarkExpired, Mark
  <2> QED BY <2>1, <2>2, <2>3
<1>2. /\ c \in Calls /\ record \in Records /\ record # Absent /\ CallSound(t)
      /\ c.read.revision \in 1..4 /\ record.revision \in 1..4
      /\ c.read.revision <= record.revision
      /\ c.read.revision = record.revision => c.read = record
      /\ c.round \in 0..Rounds /\ c.round <= c.read.revision
      /\ c.at \in Int
  <2>1. c.pc \notin {"idle", "read"}
    BY <1>1, Zenon
  <2> QED BY <2>1, ReaderFacts DEF Calls
<1>3. Verdict(record, c.read.revision, stage, c.plan, c.at) =
          IF record.revision # c.read.revision THEN "revision" ELSE "ok"
  <2>1. Acceptable(c.read, stage, c.plan, c.at)
    BY <1>1, <1>2, Zenon DEF CallSound
  <2> QED BY <1>2, <2>1, VerdictFacts
<1>4. CASE record.revision # c.read.revision
  <2>1. Continue(t) /\ UNCHANGED record
    BY <1>1, <1>3, <1>4, Zenon
  <2>2. Advance /\ StoresTyped' /\ StoresSound'
    <3>1. UNCHANGED <<store, world>> /\ faults' \in 0..MaxFaults
      BY <1>1, <2>1, Zenon DEF store, IInv, TypeOK
    <3> QED BY <3>1, StoresStay
  <2>3. c.round < record'.revision /\ record' # Absent
    <3>1. c.round \in Nat
      BY <1>2 DEF Rounds
    <3> QED BY <1>2, <1>4, <2>1, <3>1
  <2>4. task' = [task EXCEPT ![t] = Round(c.round)]
    BY <2>1, Zenon DEF Continue
  <2> QED BY <1>2, <2>2, <2>3, <2>4, RoundIInv, Zenon
<1>5. CASE record.revision = c.read.revision
  <2>1. /\ record' = NextStage(record, stage, c.plan, c.at)
        /\ Continue(t) \/ Return(t, "expired")
    BY <1>1, <1>3, <1>5, Zenon
  <2>2. /\ Advance /\ StoresTyped' /\ StoresSound'
        /\ record' # Absent /\ record'.revision = record.revision + 1
    BY <1>1, <1>5, <2>1, MarkFacts, Zenon
  <2>3. CASE Continue(t)
    <3>1. task' = [task EXCEPT ![t] = Round(c.round)]
      BY <2>3, Zenon DEF Continue
    <3>2. c.round < record'.revision
      <4>1. c.round \in Nat
        BY <1>2 DEF Rounds
      <4> QED BY <1>2, <2>2, <4>1
    <3> QED BY <1>2, <2>2, <3>1, <3>2, RoundIInv, Zenon
  <2>4. CASE Return(t, "expired")
    <3>1. "expired" \in Outcomes \ {"limit", "mismatch", "invalid"}
      BY Zenon DEF Outcomes
    <3> QED BY <2>2, <2>4, <3>1, ReturnIInv
  <2> QED BY <2>1, <2>3, <2>4
<1> QED BY <1>4, <1>5

\* resolve_product_approval_context: a published promotion fails here only
\* because the bindings moved.
LEMMA ResolveIInv ==
    ASSUME PromotionConstants, IInv, NEW t \in Tasks, Resolve(t)
    PROVE  IInv'
<1> DEFINE c == task[t]
           new == [c EXCEPT !.pc = "ensure", !.baseline = active]
<1>1. /\ c.pc = "resolve" /\ UNCHANGED <<store, world>> /\ faults' \in 0..MaxFaults
      /\ active \in Baselines /\ UNCHANGED <<active, bound, now>> /\ UNCHANGED record
  BY Zenon DEF Resolve, At, IInv, TypeOK, world, store
<1>2. Advance /\ StoresTyped' /\ StoresSound'
  BY <1>1, StoresStay, Zenon
<1>3. /\ c \in Calls /\ task \in [Tasks -> Calls] /\ CallSound(t) /\ ReadSound(t)
      /\ record \in Records /\ Validates(record) /\ c.read \in Records /\ Validates(c.read)
      /\ c.read.stage = "Published"
      /\ c.read.revision <= record.revision
  BY <1>1, ReaderFacts, Zenon DEF StagesRead
<1>4. published
  <2>1. record.revision \in 1..4 /\ record.revision # 1
    BY <1>3, RevisionFacts DEF Records
  <2>2. record.stage \in {"Published", "ActivationPending", "Expired"}
    BY <2>1, <1>3, RevisionFacts, Zenon DEF Records
  <2> QED BY <2>2 DEF IInv, JournalSound
<1>5. CASE bound
  <2>1. task' = [task EXCEPT ![t] = new] /\ task'[t] = new
    BY <1>3, <1>4, <1>5, Zenon DEF Resolve
  <2>2. /\ new \in Calls /\ new.pc = "ensure" /\ new.baseline = active
        /\ new.read = c.read /\ new.round = c.round /\ new.outcome = c.outcome
    BY <1>1, <1>3, Zenon DEF Calls
  <2> HIDE DEF new
  <2>3. ReadSound(t)'
    BY <1>1, <1>3, <2>1, <2>2, Zenon DEF ReadSound
  <2>4. c.outcome \notin {"limit", "mismatch", "invalid"} /\ (c.outcome = "conflict" => Excused')
    BY <1>2, <1>3, Zenon DEF CallSound, Excused, Drift, Advance
  <2>5. c.read.stage \in StagesRead("ensure")
    BY <1>3, Zenon DEF StagesRead
  <2>6. CallSound(t)'
    BY <1>1, <2>1, <2>2, <2>3, <2>4, <2>5, Zenon DEF CallSound
  <2> QED BY <1>2, <2>1, <2>2, <2>6, CallMoves, Zenon
<1>6. CASE ~bound
  <2>1. Return(t, "conflict") /\ Excused'
    BY <1>1, <1>6, Zenon DEF Resolve, Excused, Drift
  <2>2. "conflict" \in Outcomes \ {"limit", "mismatch", "invalid"}
    BY Zenon DEF Outcomes
  <2> QED BY <1>2, <2>1, <2>2, ReturnIInv
<1> QED BY <1>5, <1>6

\* What validate_activation_receipt makes of a request no older than the row.
LEMMA ObservedFacts ==
    ASSUME NEW t \in Tasks, NEW q \in Requests, task[t].read \in Records,
           task[t].read.created <= q.created,
           ~q.linked => q.state \in {"pending", "expired"}
    PROVE  /\ Observed(t, q, "Created") = "pending"
           /\ Observed(t, q, "Reused") = IF q.state = "expired" THEN "expired"
                                         ELSE IF q.linked THEN "refresh" ELSE "pending"
<1>1. ~(q.created < task[t].read.created) /\ q.created >= task[t].read.created
  BY DEF Requests, Records
<1>2. Observed(t, q, "Created") = "pending"
  BY <1>1, Zenon DEF Observed
<1>3. ASSUME q.state = "expired" PROVE Observed(t, q, "Reused") = "expired"
  BY <1>1, <1>3, Zenon DEF Observed
<1>4. ASSUME q.state # "expired", q.linked PROVE Observed(t, q, "Reused") = "refresh"
  BY <1>1, <1>4, Zenon DEF Observed
<1>5. ASSUME q.state # "expired", ~q.linked PROVE Observed(t, q, "Reused") = "pending"
  BY <1>1, <1>5, Zenon DEF Observed
<1> QED BY <1>2, <1>3, <1>4, <1>5

\* The request ensure_pending_activation creates.
LEMMA NewRequestFacts ==
    ASSUME PromotionConstants, IInv, NEW t \in Tasks, task[t].pc = "ensure", request = Absent,
           request' = NewRequest(t), UNCHANGED <<record, published, world, faults>>
    PROVE  /\ Advance /\ StoresTyped' /\ StoresSound' /\ request' # Absent
           /\ request' \in Requests /\ request'.created = now
           /\ request'.state = "pending" /\ request'.linked = FALSE
<1> DEFINE c == task[t]
<1>1. /\ UNCHANGED <<active, bound, now>> /\ UNCHANGED <<record, published, faults>>
      /\ now \in 0..MaxTime /\ now \in Nat /\ active \in Baselines /\ Ttl \in Nat \ {0}
  BY DEF world, IInv, TypeOK, PromotionConstants
<1>2. /\ c \in Calls /\ CallSound(t) /\ ReadSound(t) /\ record \in Records /\ record # Absent
      /\ Validates(record) /\ c.read \in Records /\ c.read.stage = "Published" /\ Validates(c.read)
      /\ c.read.revision <= record.revision /\ record.updated <= now
      /\ c.read.digest = record.digest
  BY ReaderFacts, Zenon DEF StagesRead, ReadSound
<1>3. c.baseline \in Baselines /\ (c.baseline # "base" => active # "base")
  BY <1>2, Zenon DEF CallSound
<1>4. record.digest \in Digests /\ record.created \in Nat /\ record.updated \in Nat /\ record.created <= record.updated
  BY <1>2, RevisionFacts DEF Records
<1>5. now + Ttl \in Ttl..(MaxTime + Ttl)
  BY <1>1, PromotionConstants
<1>6. /\ request'.created = now /\ request'.expires = now + Ttl /\ request'.baseline = c.baseline
      /\ request'.digest = record.digest /\ request'.state = "pending" /\ request'.linked = FALSE
  BY <1>2, Zenon DEF NewRequest
<1>7. request' \in Requests
  BY <1>1, <1>2, <1>3, <1>4, <1>5, Zenon DEF NewRequest, Requests
<1>8. request' # Absent
  BY <1>7, AbsentFacts, Zenon
<1>9. record.stage = "Published"
  <2>1. record.revision \in 1..4 /\ record.revision # 1
    BY <1>2, RevisionFacts DEF Records
  <2>2. record.stage \in {"Published", "ActivationPending", "Expired"}
    BY <2>1, <1>2, RevisionFacts, Zenon DEF Records
  <2> QED BY <2>2 DEF IInv, JournalSound
<1>10. RequestSound'
  <2>1. record.created <= now
    BY <1>1, <1>2, <1>4
  <2>2. ~request'.linked
    BY <1>6, Zenon
  <2> QED BY <1>1, <1>3, <1>6, <1>9, <2>1, <2>2 DEF RequestSound
<1>11. RecordSound' /\ JournalSound'
  BY <1>1, <1>9 DEF IInv, RecordSound, JournalSound
<1>12. StoresTyped'
  BY <1>1, <1>7, Zenon DEF IInv, TypeOK, StoresTyped
<1>13. Advance
  <2>1. record.revision \in Nat
    BY <1>2 DEF Records
  <2> QED BY <1>1, <2>1, SameFields DEF Advance
<1> QED BY <1>6, <1>7, <1>8, <1>10, <1>11, <1>12, <1>13 DEF StoresSound

\* ensure_pending_activation, and what complete makes of its receipt.
LEMMA EnsureIInv ==
    ASSUME PromotionConstants, IInv, NEW t \in Tasks, Ensure(t)
    PROVE  IInv'
<1> DEFINE c == task[t]
<1>1. /\ c.pc = "ensure" /\ UNCHANGED <<record, published, world, faults>>
      /\ UNCHANGED <<active, bound, now>> /\ now \in 0..MaxTime /\ now \in Nat /\ faults' \in 0..MaxFaults
  BY DEF Ensure, At, world, IInv, TypeOK
<1>2. /\ c \in Calls /\ CallSound(t) /\ ReadSound(t) /\ record \in Records /\ record # Absent
      /\ Validates(record) /\ c.read \in Records /\ c.read.stage = "Published" /\ Validates(c.read)
      /\ c.read.revision <= record.revision /\ c.read.updated <= now
      /\ c.read.digest = record.digest /\ c.read.created = record.created
      /\ c.round \in 0..Rounds /\ c.round <= c.read.revision
  BY <1>1, ReaderFacts, Zenon DEF StagesRead, ReadSound
<1>3. /\ StageMarked("markActivationPending") = "ActivationPending"
      /\ StageMarked("markExpired") = "Expired"
      /\ c.read.stage \in StagesRead("markActivationPending")
      /\ c.read.stage \in StagesRead("markExpired")
      /\ c.pc \notin {"idle", "read"} /\ now <= now' /\ UNCHANGED record
  BY <1>1, <1>2 DEF StageMarked, StagesRead
<1>4. ASSUME NEW q \in Requests, NEW d \in {"Created", "Reused"}, q = request',
             Advance, StoresTyped', StoresSound', request' # Absent,
             q.created <= now, q.state # "expired", Observed(t, q, d) = "pending",
             CompletePending(t, q, d)
      PROVE  IInv'
  <2>1. q.expires = q.created + Ttl /\ record.created <= q.created
    BY <1>1, <1>4, Zenon DEF StoresSound, RequestSound
  <2>2. Later(now, q.created) = now
    BY <1>1, <1>4 DEF Later, Requests
  <2>3. Propose(t, "ActivationPending", "markActivationPending", Link(q, d), now)
    BY <1>4, <2>2, Zenon DEF CompletePending
  <2>4. Acceptable(c.read, "ActivationPending", Link(q, d), now)
    BY <1>1, <1>2, <1>4, <2>1, AcceptPending, Zenon
  <2>5. Link(q, d) \in Activations /\ SameActivation(Link(q, d), request')
    BY <1>4, LinkFacts, Zenon
  <2> QED BY <1>1, <1>3, <1>4, <2>3, <2>4, <2>5, ProposeIInv
<1>5. CASE request = Absent
  <2>1. request' = NewRequest(t) /\ CompletePending(t, request', "Created")
    BY <1>5, Zenon DEF Ensure
  <2>2. /\ Advance /\ StoresTyped' /\ StoresSound' /\ request' # Absent
        /\ request' \in Requests /\ request'.created = now
        /\ request'.state = "pending" /\ request'.linked = FALSE
    BY <1>1, <1>5, <2>1, NewRequestFacts, Zenon
  <2>3. PICK q \in Requests : q = request'
    BY <2>2, Zenon
  <2>4. CompletePending(t, q, "Created")
    BY <2>1, <2>3, Zenon
  <2>5. /\ q.created = now /\ q.created <= now /\ q.state = "pending"
        /\ c.read.created <= q.created
    <3>1. record.created \in Nat /\ record.created <= record.updated /\ record.updated \in Nat /\ record.updated <= now
      BY <1>2, RevisionFacts DEF Records, IInv, RecordSound
    <3> QED BY <1>1, <1>2, <2>2, <2>3, <3>1
  <2>6. Observed(t, q, "Created") = "pending"
    BY <1>2, <2>5, ObservedFacts, Zenon
  <2> QED BY <1>4, <2>2, <2>3, <2>4, <2>5, <2>6
<1>6. CASE request # Absent
  <2>0. UNCHANGED request
    BY <1>6, Zenon DEF Ensure
  <2>1. Advance /\ StoresTyped' /\ StoresSound' /\ request \in Requests
    <3>1. UNCHANGED <<store, world>>
      BY <1>1, <2>0, Zenon DEF store
    <3> QED BY <1>1, <1>6, <3>1, StoresStay DEF IInv, TypeOK
  <2>2. /\ request.digest = record.digest /\ record.created <= request.created
        /\ request.created <= now /\ request.expires = request.created + Ttl
        /\ request.state = "expired" => request.expires <= now
        /\ ~request.linked => request.state \in {"pending", "expired"}
        /\ request.linked => record.stage \in {"ActivationPending", "Expired"}
        /\ request.baseline # "base" => active # "base"
    BY <1>6, Zenon DEF IInv, RequestSound
  <2>3. CASE ~MatchesRequest(t)
    <3>1. Return(t, "conflict")
      BY <1>6, <2>3, Zenon DEF Ensure
    <3>2. Excused'
      BY <1>1, <1>2, <2>2, <2>3, Zenon DEF MatchesRequest, Excused, Drift, CallSound
    <3>3. "conflict" \in Outcomes \ {"limit", "mismatch", "invalid"}
      BY DEF Outcomes
    <3> QED BY <2>1, <3>1, <3>2, <3>3, ReturnIInv
  <2>4. CASE MatchesRequest(t)
    <3>1. CompletePending(t, request, "Reused")
      BY <1>6, <2>4, Zenon DEF Ensure
    <3>2. Observed(t, request, "Reused") = IF request.state = "expired" THEN "expired"
                                           ELSE IF request.linked THEN "refresh" ELSE "pending"
      BY <1>2, <2>1, <2>2, ObservedFacts, Zenon
    <3>3. CASE request.state = "expired"
      <4>1. Later(now, request.expires) = now
        BY <1>1, <2>1, <2>2, <3>3, PromotionConstants DEF Later, Requests
      <4>2. Propose(t, "Expired", "markExpired", Link(request, "Reused"), now)
        BY <3>1, <3>2, <3>3, <4>1, Zenon DEF CompletePending
      <4>3. Acceptable(c.read, "Expired", Link(request, "Reused"), now)
        BY <1>1, <1>2, <2>1, <2>2, <3>3, AcceptExpired, Zenon
      <4>4. Link(request, "Reused") \in Activations /\ SameActivation(Link(request, "Reused"), request')
        BY <2>0, <2>1, LinkFacts, Zenon
      <4> QED BY <1>1, <1>3, <1>6, <2>0, <2>1, <3>3, <4>2, <4>3, <4>4, ProposeIInv
    <3>4. CASE request.state # "expired" /\ request.linked
      <4>1. Continue(t)
        BY <3>1, <3>2, <3>4, Zenon DEF CompletePending
      <4>2. task' = [task EXCEPT ![t] = Round(c.round)]
        BY <4>1, Zenon DEF Continue
      <4>3. c.round < record'.revision
        <5>1. record.revision \in {3, 4} /\ c.read.revision = 2 /\ c.round \in Nat
          BY <1>2, <2>2, <3>4, RevisionFacts DEF Rounds
        <5> QED BY <1>1, <1>2, <5>1
      <4> QED BY <1>1, <1>2, <2>1, <4>2, <4>3, RoundIInv, Zenon
    <3>5. CASE request.state # "expired" /\ ~request.linked
      <4>1. Observed(t, request, "Reused") = "pending"
        BY <3>2, <3>5, Zenon
      <4> QED BY <1>4, <1>6, <2>0, <2>1, <2>2, <3>1, <3>5, <4>1
    <3> QED BY <3>3, <3>4, <3>5
  <2> QED BY <2>3, <2>4
<1> QED BY <1>5, <1>6

\* verify_activation_pending_journal: the journal differs from what was read
\* only once it says Expired.
LEMMA VerifyIInv ==
    ASSUME PromotionConstants, IInv, NEW t \in Tasks, Verify(t)
    PROVE  IInv'
<1> DEFINE c == task[t]
           new == [c EXCEPT !.pc = "link"]
<1>1. /\ c.pc = "verify" /\ UNCHANGED <<store, world>> /\ faults' \in 0..MaxFaults
      /\ UNCHANGED <<active, bound, now>> /\ UNCHANGED record /\ UNCHANGED request
  BY Zenon DEF Verify, At, IInv, TypeOK, world, store
<1>2. Advance /\ StoresTyped' /\ StoresSound'
  BY <1>1, StoresStay, Zenon
<1>3. /\ c \in Calls /\ task \in [Tasks -> Calls] /\ CallSound(t) /\ ReadSound(t)
      /\ record \in Records /\ Validates(record) /\ c.read \in Records /\ Validates(c.read)
      /\ c.read.stage = "ActivationPending"
      /\ c.read.revision <= record.revision
  BY <1>1, ReaderFacts, Zenon DEF StagesRead
<1>4. record.stage \in {"ActivationPending", "Expired"}
  <2>1. c.read.revision = 3 /\ record.revision \in 1..4
    BY <1>3, RevisionFacts, Zenon DEF Records, Validates
  <2>2. record.revision \in {3, 4}
    BY <2>1, <1>3
  <2> QED BY <2>2, <1>3, RevisionFacts
<1>5. SameActivation(record.activation, c.read.activation)
  BY <1>3, Zenon DEF ReadSound
<1>6. CASE record.stage = "ActivationPending"
  <2>1. task' = [task EXCEPT ![t] = new] /\ task'[t] = new
    BY <1>3, <1>5, <1>6, Zenon DEF Verify
  <2>2. /\ new \in Calls /\ new.pc = "link"
        /\ new.read = c.read /\ new.round = c.round /\ new.outcome = c.outcome
    BY <1>3, Zenon DEF Calls
  <2> HIDE DEF new
  <2>3. ReadSound(t)'
    BY <1>1, <1>3, <2>1, <2>2, Zenon DEF ReadSound
  <2>4. c.outcome \notin {"limit", "mismatch", "invalid"} /\ (c.outcome = "conflict" => Excused')
    BY <1>2, <1>3, Zenon DEF CallSound, Excused, Drift, Advance
  <2>5. c.read.stage \in StagesRead("link")
    BY <1>3, Zenon DEF StagesRead
  <2>6. CallSound(t)'
    BY <1>1, <2>1, <2>2, <2>3, <2>4, <2>5, Zenon DEF CallSound
  <2> QED BY <1>2, <2>1, <2>2, <2>6, CallMoves, Zenon
<1>7. CASE record.stage = "Expired"
  <2>1. Return(t, "conflict")
    BY <1>7, Zenon DEF Verify
  <2>2. Excused'
    BY <1>1, <1>7, Zenon DEF IInv, JournalSound, Excused
  <2>3. "conflict" \in Outcomes \ {"limit", "mismatch", "invalid"}
    BY DEF Outcomes
  <2> QED BY <1>2, <2>1, <2>2, <2>3, ReturnIInv
<1> QED BY <1>4, <1>6, <1>7

\* What a step makes of request q: the same request in a state it may move to.
MovesTo(q, r) ==
    /\ r \in Requests /\ r.digest = q.digest /\ SameActivation(r, q)
    /\ q.state = "expired" => r.state = "expired"
    /\ r.state = "expired" => q.state = "expired" \/ q.expires <= now
    /\ ~r.linked => r.state \in {"pending", "expired"}
    /\ r.linked => q.linked \/ record.stage \in {"ActivationPending", "Expired"}

LEMMA RequestMoves ==
    ASSUME PromotionConstants, IInv, request # Absent, MovesTo(request, request'),
           UNCHANGED <<record, published, bound, now, faults>>,
           active' \in Baselines, active # "base" => active' # "base"
    PROVE  Advance /\ StoresTyped' /\ StoresSound' /\ request' # Absent
<1>1. request' # Absent /\ request' \in Requests /\ request \in Requests
  BY AbsentFacts, Zenon DEF MovesTo, IInv, TypeOK
<1>2. /\ request'.digest = request.digest /\ request'.created = request.created
      /\ request'.expires = request.expires /\ request'.baseline = request.baseline
  BY SameFields, Zenon DEF MovesTo
<1>3. RequestSound'
  BY <1>1, <1>2, Zenon DEF IInv, RequestSound, MovesTo
<1>4. RecordSound'
  BY Zenon DEF IInv, RecordSound
<1>5. JournalSound'
  <2>1. record.stage \in {"ActivationPending", "Expired"} => SameActivation(record.activation, request')
    BY <1>2, SameFields, Zenon DEF IInv, JournalSound
  <2> QED BY <1>1, <2>1 DEF IInv, JournalSound, MovesTo
<1>6. StoresTyped'
  BY <1>1, Zenon DEF IInv, TypeOK, StoresTyped
<1>7. Advance
  <2>1. now \in Nat /\ (record # Absent => record.revision \in Nat)
    BY DEF IInv, TypeOK, Records
  <2> QED BY <1>1, <2>1, SameFields DEF Advance, MovesTo
<1> QED BY <1>1, <1>3, <1>4, <1>5, <1>6, <1>7 DEF StoresSound

\* A request in another state is still the same request.
LEMMA StateFacts ==
    ASSUME NEW q \in Requests,
           NEW s \in {"pending", "approved", "applied", "rejected", "withdrawn", "superseded", "expired"},
           NEW r, r = [q EXCEPT !.state = s]
    PROVE  /\ r \in Requests /\ r.digest = q.digest /\ SameActivation(r, q)
           /\ r.state = s /\ r.linked = q.linked
<1>1. /\ r \in Requests /\ r.digest = q.digest /\ r.state = s /\ r.linked = q.linked
      /\ r.created = q.created /\ r.expires = q.expires /\ r.baseline = q.baseline
  BY Zenon DEF Requests
<1>2. SameActivation(r, q)
  BY <1>1, SameFields, Zenon
<1> QED BY <1>1, <1>2

\* approve_bound_at, reject_at and withdraw_at.
LEMMA DecideIInv ==
    ASSUME PromotionConstants, IInv, NEW s \in {"approved", "rejected", "withdrawn"}, Decide(s)
    PROVE  IInv'
<1>1. /\ request # Absent /\ request \in Requests /\ request.linked
      /\ request' = [request EXCEPT !.state = s]
      /\ request.state \in {"pending", "approved"}
      /\ UNCHANGED <<record, published, bound, now, faults>> /\ UNCHANGED active /\ UNCHANGED task
      /\ active \in Baselines
  BY Zenon DEF Decide, world, IInv, TypeOK
<1>2. /\ request' \in Requests /\ request'.digest = request.digest /\ SameActivation(request', request)
      /\ request'.state = s /\ request'.linked
  <2>1. /\ request' \in Requests /\ request'.digest = request.digest
        /\ SameActivation(request', request)
        /\ request'.state = s /\ request'.linked = request.linked
    <3>1. s \in {"pending", "approved", "applied", "rejected", "withdrawn", "superseded", "expired"}
      BY Zenon
    <3>2. request \in Requests /\ request' = [request EXCEPT !.state = s]
      BY <1>1, Zenon
    <3> QED BY <3>1, <3>2, StateFacts
  <2> QED BY <2>1, <1>1
<1>3. MovesTo(request, request')
  BY <1>1, <1>2, Zenon DEF MovesTo
<1> QED BY <1>1, <1>3, RequestMoves, CallsStay

\* An approved request is applied or superseded.
LEMMA ApplyIInv ==
    ASSUME PromotionConstants, IInv, Apply
    PROVE  IInv'
<1>1. /\ request # Absent /\ request \in Requests /\ request.state = "approved"
      /\ UNCHANGED <<record, published, bound, now, faults>> /\ UNCHANGED task
      /\ active' \in Baselines /\ (active # "base" => active' # "base")
  BY Zenon DEF Apply, IInv, TypeOK, Baselines
<1>2. request.linked
  BY <1>1, Zenon DEF IInv, RequestSound
<1>3. PICK s \in {"applied", "superseded"} : request' = [request EXCEPT !.state = s]
  BY Zenon DEF Apply
<1>4. /\ request' \in Requests /\ request'.digest = request.digest /\ SameActivation(request', request)
      /\ request'.state = s /\ request'.linked
  <2>1. /\ request' \in Requests /\ request'.digest = request.digest
        /\ SameActivation(request', request)
        /\ request'.state = s /\ request'.linked = request.linked
    BY <1>1, <1>3, StateFacts
  <2> QED BY <2>1, <1>2
<1>5. MovesTo(request, request')
  BY <1>1, <1>2, <1>4, Zenon DEF MovesTo
<1> QED BY <1>1, <1>5, RequestMoves, CallsStay

\* expire_if_due leaves the request, or expires one that is due.
LEMMA ExpiredFacts ==
    ASSUME NEW q \in Requests, ~q.linked => q.state \in {"pending", "expired"}
    PROVE  /\ MovesTo(q, Expired(q))
           /\ Due(q) => Expired(q).state = "expired" /\ q.state # "expired"
           /\ Expired(q).linked <=> q.linked
<1>1. CASE Due(q)
  <2>1. q.expires <= now /\ q.state # "expired" /\ Expired(q) = [q EXCEPT !.state = "expired"]
    BY <1>1, Zenon DEF Due, Expired
  <2>2. /\ Expired(q) \in Requests /\ Expired(q).digest = q.digest /\ SameActivation(Expired(q), q)
        /\ Expired(q).state = "expired" /\ Expired(q).linked = q.linked
    BY <2>1, StateFacts
  <2> QED BY <2>1, <2>2 DEF MovesTo
<1>2. CASE ~Due(q)
  <2>1. Expired(q) = q
    BY <1>2, Zenon DEF Expired
  <2>2. SameActivation(q, q)
    BY SameFields, Zenon
  <2> QED BY <1>2, <2>1, <2>2 DEF MovesTo
<1> QED BY <1>1, <1>2

LEMMA ExpireIInv ==
    ASSUME PromotionConstants, IInv, Expire
    PROVE  IInv'
<1>1. /\ request # Absent /\ request \in Requests /\ request' = Expired(request)
      /\ UNCHANGED <<record, published, bound, now, faults>> /\ UNCHANGED active /\ UNCHANGED task
      /\ active \in Baselines
  BY Zenon DEF Expire, world, IInv, TypeOK
<1>2. MovesTo(request, request')
  BY <1>1, ExpiredFacts, Zenon DEF IInv, RequestSound
<1> QED BY <1>1, <1>2, RequestMoves, CallsStay

\* link_product_at refuses only an unlinked request that expired before, and
\* leaves the request linked or expired.
LEMMA LinkedFacts ==
    ASSUME NEW q \in Requests, ~q.linked => q.state \in {"pending", "expired"},
           record.stage \in {"ActivationPending", "Expired"}
    PROVE  \/ Linked(q) = Absent /\ q.state = "expired"
           \/ /\ MovesTo(q, Linked(q)) /\ Linked(q) # Absent
              /\ Linked(q).linked \/ Linked(q).state = "expired"
<1>1. CASE q.linked
  <2>1. Linked(q) = Expired(q)
    BY <1>1, Zenon DEF Linked
  <2>2. MovesTo(q, Linked(q)) /\ Linked(q).linked
    BY <1>1, <2>1, ExpiredFacts
  <2> QED BY <2>2, AbsentFacts DEF MovesTo
<1>2. CASE ~q.linked /\ Due(q)
  <2>1. Linked(q) = Expired(q)
    BY <1>2, Zenon DEF Linked
  <2>2. MovesTo(q, Linked(q)) /\ Linked(q).state = "expired"
    BY <1>2, <2>1, ExpiredFacts, Zenon
  <2> QED BY <2>2, AbsentFacts DEF MovesTo
<1>3. CASE ~q.linked /\ ~Due(q) /\ q.state = "pending"
  <2> DEFINE r == [q EXCEPT !.linked = TRUE]
  <2>1. Linked(q) = r
    BY <1>3, Zenon DEF Linked
  <2>2. /\ r \in Requests /\ r.digest = q.digest /\ r.state = q.state /\ r.linked = TRUE
        /\ r.created = q.created /\ r.expires = q.expires /\ r.baseline = q.baseline
    BY Zenon DEF Requests
  <2> HIDE DEF r
  <2>3. SameActivation(r, q) /\ r.linked
    BY <2>2, SameFields, Zenon
  <2>4. MovesTo(q, r)
    BY <1>3, <2>2, <2>3, Zenon DEF MovesTo
  <2> QED BY <2>1, <2>2, <2>3, <2>4, AbsentFacts
<1>4. CASE ~q.linked /\ ~Due(q) /\ q.state # "pending"
  BY <1>4, Zenon DEF Linked
<1> QED BY <1>1, <1>2, <1>3, <1>4

\* link_product_at, and what complete makes of it.
LEMMA LinkIInv ==
    ASSUME PromotionConstants, IInv, NEW t \in Tasks, LinkPending(t)
    PROVE  IInv'
<1> DEFINE c == task[t]
<1>1. /\ c.pc = "link" /\ UNCHANGED <<record, published, world, faults>>
      /\ UNCHANGED <<record, published, bound, now, faults>> /\ UNCHANGED active
      /\ now \in 0..MaxTime /\ now \in Nat /\ faults' \in 0..MaxFaults /\ active \in Baselines
  BY DEF LinkPending, At, world, IInv, TypeOK
<1>2. /\ c \in Calls /\ CallSound(t) /\ ReadSound(t) /\ record \in Records /\ record # Absent
      /\ Validates(record) /\ c.read \in Records /\ c.read.stage = "ActivationPending" /\ Validates(c.read)
      /\ c.read.revision <= record.revision /\ c.read.updated <= now
      /\ c.read.created = record.created
      /\ SameActivation(record.activation, c.read.activation)
  BY <1>1, ReaderFacts, Zenon DEF StagesRead, ReadSound
<1>3. record.stage \in {"ActivationPending", "Expired"}
  <2>1. c.read.revision = 3 /\ record.revision \in 1..4
    BY <1>2, RevisionFacts, Zenon DEF Records, Validates
  <2>2. record.revision \in {3, 4}
    BY <2>1, <1>2
  <2> QED BY <2>2, <1>2, RevisionFacts
<1>4. request # Absent /\ request \in Requests /\ SameActivation(record.activation, request)
  BY <1>3, Zenon DEF IInv, JournalSound, TypeOK
<1>5. /\ request.created = c.read.activation.created /\ request.expires = c.read.activation.expires
      /\ request.baseline = c.read.activation.baseline
  BY <1>2, <1>4, SameFields, Zenon
<1>6. ~request.linked => request.state \in {"pending", "expired"}
  BY <1>4, Zenon DEF IInv, RequestSound
<1>7. CASE Linked(request) = Absent
  <2>1. Return(t, "conflict") /\ UNCHANGED request
    BY <1>7, Zenon DEF LinkPending
  <2>2. request.state = "expired"
    BY <1>3, <1>4, <1>6, <1>7, LinkedFacts, Zenon
  <2>3. Excused'
    BY <1>4, <2>1, <2>2, Zenon DEF Excused
  <2>4. Advance /\ StoresTyped' /\ StoresSound'
    <3>1. UNCHANGED <<store, world>>
      BY <1>1, <2>1, Zenon DEF store
    <3> QED BY <1>1, <3>1, StoresStay
  <2>5. "conflict" \in Outcomes \ {"limit", "mismatch", "invalid"}
    BY DEF Outcomes
  <2> QED BY <2>1, <2>3, <2>4, <2>5, ReturnIInv
<1>8. CASE Linked(request) # Absent
  <2>1. request' = Linked(request) /\ CompleteLink(t, request')
    BY <1>5, <1>8, Zenon DEF LinkPending
  <2>2. /\ MovesTo(request, request')
        /\ request'.linked \/ request'.state = "expired"
    BY <1>3, <1>4, <1>6, <1>8, <2>1, LinkedFacts, Zenon
  <2>3. Advance /\ StoresTyped' /\ StoresSound' /\ request' # Absent
    BY <1>1, <1>4, <2>2, RequestMoves, Zenon
  <2>4. PICK q \in Requests : q = request'
    BY <2>2, Zenon DEF MovesTo
  <2>5. q.created = request.created /\ q.expires = request.expires /\ q.baseline = request.baseline
    BY <2>2, <2>4, SameFields, Zenon DEF MovesTo
  <2>6. LinkedExactly(t, q)
    BY <1>5, <2>2, <2>4, <2>5, SameFields, Zenon DEF LinkedExactly
  <2>7. CompleteLink(t, q)
    BY <2>1, <2>4, Zenon
  <2>8. CASE q.state = "expired"
    <3>1. /\ record.created <= q.created /\ q.expires = q.created + Ttl /\ q.expires <= now
      BY <1>1, <2>3, <2>4, <2>8, Zenon DEF StoresSound, RequestSound
    <3>2. Later(now, q.expires) = now
      BY <1>1, <3>1, PromotionConstants DEF Later, Requests
    <3>3. Propose(t, "Expired", "markExpired", Link(q, "Reused"), now)
      BY <2>6, <2>7, <2>8, <3>2, Zenon DEF CompleteLink
    <3>4. SameActivation(c.read.activation, q)
      BY <1>5, <2>5, SameFields, Zenon
    <3>5. Acceptable(c.read, "Expired", Link(q, "Reused"), now)
      BY <1>1, <1>2, <3>1, <3>4, AcceptExpired, Zenon
    <3>6. Link(q, "Reused") \in Activations /\ SameActivation(Link(q, "Reused"), request')
      BY <2>4, LinkFacts, Zenon
    <3>7. /\ StageMarked("markExpired") = "Expired" /\ c.read.stage \in StagesRead("markExpired")
          /\ c.pc \notin {"idle", "read"} /\ now <= now' /\ UNCHANGED record
      BY <1>1, <1>2 DEF StageMarked, StagesRead
    <3> QED BY <1>1, <2>3, <2>4, <2>8, <3>3, <3>5, <3>6, <3>7, ProposeIInv
  <2>9. CASE q.state # "expired"
    <3>1. Return(t, "pending")
      BY <2>6, <2>7, <2>9, Zenon DEF CompleteLink
    <3>2. "pending" \in Outcomes \ {"limit", "mismatch", "invalid"}
      BY Zenon DEF Outcomes
    <3> QED BY <2>3, <3>1, <3>2, ReturnIInv
  <2> QED BY <2>8, <2>9
<1> QED BY <1>7, <1>8

\* The environment moves.
LEMMA EnvironmentIInv ==
    ASSUME PromotionConstants, IInv, MoveActive \/ MoveBindings \/ Tick
    PROVE  IInv'
<1>1. /\ UNCHANGED <<record, published, request>> /\ UNCHANGED task /\ UNCHANGED faults
      /\ active' \in Baselines /\ (active # "base" => active' # "base")
      /\ now \in Nat /\ now' \in 0..MaxTime /\ now <= now'
  BY DEF MoveActive, MoveBindings, Tick, store, IInv, TypeOK, Baselines, PromotionConstants
<1>2. bound' \in BOOLEAN /\ (~bound => ~bound')
  <2>1. bound \in BOOLEAN /\ (bound' = bound \/ bound' = FALSE)
    BY Zenon DEF MoveActive, MoveBindings, Tick, IInv, TypeOK
  <2>2. CASE bound' = bound
    BY <2>1, <2>2, Zenon
  <2>3. CASE bound' = FALSE
    BY <2>3, Zenon
  <2> QED BY <2>1, <2>2, <2>3, Zenon
<1>3. StoresTyped'
  BY <1>1, <1>2, Zenon DEF IInv, TypeOK, StoresTyped
<1>4. StoresSound'
  <2>1. record # Absent => record.updated \in Nat
    BY DEF IInv, TypeOK, Records
  <2>2. request # Absent => request.created \in Int /\ request.expires \in Int
    BY PromotionConstants DEF IInv, TypeOK, Requests
  <2>3. RecordSound'
    BY <1>1, <2>1 DEF IInv, RecordSound
  <2>4. RequestSound'
    BY <1>1, <2>2 DEF IInv, RequestSound
  <2>5. JournalSound'
    BY <1>1, Zenon DEF IInv, JournalSound
  <2> QED BY <2>3, <2>4, <2>5 DEF StoresSound
<1>5. Advance
  <2>1. record # Absent => record.revision \in Nat
    BY DEF IInv, TypeOK, Records
  <2> QED BY <1>1, <1>2, <2>1, SameFields DEF Advance
<1> QED BY <1>1, <1>3, <1>4, <1>5, CallsStay

LEMMA StutterIInv == ASSUME PromotionConstants, IInv, UNCHANGED vars PROVE IInv'
<1>1. UNCHANGED <<store, world>> /\ faults' \in 0..MaxFaults /\ UNCHANGED task
  BY Zenon DEF vars, IInv, TypeOK
<1> QED BY <1>1, StoresStay, CallsStay

LEMMA NextIInv == ASSUME PromotionConstants, IInv, [Next]_vars PROVE IInv'
BY StartIInv, ResumeIInv, FaultIInv, ReadIInv, PublishIInv, MarkIInv, ResolveIInv, EnsureIInv,
   VerifyIInv, LinkIInv, DecideIInv, ApplyIInv, ExpireIInv, EnvironmentIInv, StutterIInv
   DEF Next, Step

LEMMA IInvSuffices ==
    ASSUME IInv
    PROVE  TypeOK /\ LinkedIsJournaled /\ ExpiredIsTrue /\ FailureIsExplained
<1>1. LinkedIsJournaled
  BY Zenon DEF IInv, RequestSound, JournalSound, LinkedIsJournaled
<1>2. ExpiredIsTrue
  BY Zenon DEF IInv, JournalSound, ExpiredIsTrue
<1>3. FailureIsExplained
  BY Zenon DEF IInv, CallSound, Excused, FailureIsExplained
<1> QED BY <1>1, <1>2, <1>3 DEF IInv

LEMMA AlwaysIInv == Spec => []IInv
BY InitIInv, NextIInv, PromotionConstants, PTL DEF Spec

\* The stores and the calls keep their shape, no row is dated ahead of the
\* clock, and no call runs more than eight rounds.
THEOREM PromotionTyped == Spec => []TypeOK
BY AlwaysIInv, IInvSuffices, PTL

\* A linked request is journaled exactly, for any callers, digests, time to
\* live and number of crashes, store errors and lost answers.
THEOREM LinkedIsJournaledAlways == Spec => []LinkedIsJournaled
BY AlwaysIInv, IInvSuffices, PTL

\* The journal calls expired only a request that did expire.
THEOREM ExpiredIsTrueAlways == Spec => []ExpiredIsTrue
BY AlwaysIInv, IInvSuffices, PTL

\* A call fails with a conflict only when the environment drifted or the
\* request expired; it never runs out of rounds (a round that reads again
\* reads a later revision, and there are four), never meets a request it does
\* not recognise and never proposes a row the store refuses.
THEOREM FailureIsExplainedAlways == Spec => []FailureIsExplained
BY AlwaysIInv, IInvSuffices, PTL
=============================================================================
