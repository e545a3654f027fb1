----------------------- MODULE InstanceTeardownProofs -----------------------
(***************************************************************************)
(* Proofs about InstanceTeardown, for any finite set of instances and any  *)
(* numbers of callers, slots, requests and faults, and at the end about    *)
(* the lock that its tasks rely on, KeyLock, for any sets of callers, keys *)
(* and entries.                                                            *)
(*                                                                         *)
(* The inductive invariant says what a task knows at each step of          *)
(* teardown_locked (TaskSound) and where the keys are that the scan cycle  *)
(* has not tried yet (CycleSound).                                         *)
(***************************************************************************)
EXTENDS InstanceTeardown, KeyLock, FiniteSetTheorems, WellFoundedInduction, TLAPS

Claimed(k) == status[k] \in {"deleting", "deleted"}

\* What task t knows of its row and of Discord: it found the row, claimed it,
\* and everything before the resource it is at is gone.
TaskSound(t) ==
  LET k == task[t].key IN
  /\ task[t].pc # "idle" => k \in Keys
  /\ task[t].pc = "claim" => status[k] # "absent"
  /\ task[t].pc \in {"recheck", "delete", "mark"} => Claimed(k)
  /\ task[t].pc = "recheck" => task[t].at \in {0, 1}
  /\ task[t].pc = "recheck" /\ task[t].at = 0 => status[k] = "deleted"
  /\ task[t].pc = "delete" => task[t].at # 0
  /\ task[t].pc = "delete" => \A n \in 1..Len(Resources) : n < task[t].at => Resources[n] \notin live[k]
  /\ task[t].pc = "mark" => live[k] = {}

\* Key k lies in what cursor c leaves to be scanned.
Ahead(k, c) == c # NoCursor /\ k > c.after /\ k <= c.through

\* A key the cycle has not tried is in the page, or ahead of the cursor.
CycleSound ==
  /\ sup.cursor.through = 0 => sup.cursor = NoCursor
  /\ sup.next.through = 0 => sup.next = NoCursor
  /\ \A k \in pending : Claimed(k)
  /\ sup.pc # "run" => \A k \in pending \cap Deleting : Ahead(k, sup.cursor)
  /\ sup.pc = "run" => \A k \in pending \cap Deleting : k \in sup.page \/ Ahead(k, sup.next)

IInv ==
  /\ TypeOK /\ TombstoneIsHonest /\ SuccessIsDurable
  /\ \A t \in Tasks : TaskSound(t)
  /\ CycleSound

----------------------------------------------------------------------------
(* Facts about the constants and about pages. *)

\* What an instance owns, in the order of deletion.
LEMMA Owned ==
  /\ Len(Resources) = 3
  /\ Resources[1] = "message" /\ Resources[2] = "channel" /\ Resources[3] = "role"
  /\ Range(Resources) = {"message", "channel", "role"}
<1>1. Len(Resources) = 3 /\ DOMAIN Resources = 1..3
  BY DEF Resources
<1>2. Resources[1] = "message" /\ Resources[2] = "channel" /\ Resources[3] = "role"
  BY Zenon DEF Resources
<1>3. 1..3 = {1, 2, 3}
  OBVIOUS
<1> QED BY <1>1, <1>2, <1>3 DEF Range

\* A nonempty set of naturals has a least element.
LEMMA LeastKey ==
  ASSUME NEW S \in SUBSET Nat, S # {}
  PROVE  /\ Min(S) \in S
         /\ \A j \in S : Min(S) <= j
<1>1. PICK m \in S : \A j \in S : ~(<<j, m>> \in OpToRel(<, Nat))
  BY NatLessThanWellFounded, WFMin, Zenon
<1>2. \A j \in S : m <= j
  <2> SUFFICES ASSUME NEW j \in S, j < m PROVE FALSE
    OBVIOUS
  <2>1. j \in Nat /\ m \in Nat
    BY Zenon
  <2>2. <<j, m>> \in OpToRel(<, Nat)
    BY <2>1, Zenon DEF OpToRel
  <2> QED BY <1>1, <2>2, Zenon
<1> QED BY <1>2, Zenon DEF Min

\* A nonempty finite set of naturals has a largest element.
LEMMA LargestKey ==
  ASSUME NEW S \in SUBSET Nat, S # {}, IsFiniteSet(S)
  PROVE  /\ Max(S) \in S
         /\ \A j \in S : j <= Max(S)
<1> DEFINE Above(k) == {j \in S : j > k}
           Sizes == {Cardinality(Above(k)) : k \in S}
<1>1. \A k \in S : IsFiniteSet(Above(k)) /\ Cardinality(Above(k)) \in Nat
  <2>1. \A k \in S : Above(k) \in SUBSET S
    BY Zenon
  <2> QED BY <2>1, FS_Subset, FS_CardinalityType
<1>2. Sizes \in SUBSET Nat /\ Sizes # {}
  BY <1>1, Zenon
<1>3. PICK n \in Sizes : \A i \in Sizes : ~(<<i, n>> \in OpToRel(<, Nat))
  <2> HIDE DEF Sizes
  <2> QED BY <1>2, NatLessThanWellFounded, WFMin, Zenon
<1>4. PICK m \in S : n = Cardinality(Above(m))
  BY Zenon
<1>5. ASSUME NEW j \in S, j > m PROVE FALSE
  <2>0. \A i \in S : i \in Nat
    BY Zenon
  <2>a. j \in Above(m) /\ j \notin Above(j)
    BY <1>5, <2>0
  <2>b. ASSUME NEW i \in Above(j) PROVE i \in Above(m)
    BY <1>5, <2>0
  <2>1. Above(j) \in SUBSET Above(m) /\ Above(j) # Above(m)
    <3> HIDE DEF Above
    <3> QED BY <2>a, <2>b, Zenon
  <2>2. Cardinality(Above(j)) < n
    <3> HIDE DEF Above
    <3> QED BY <2>1, <1>1, <1>4, FS_Subset
  <2>3. Cardinality(Above(j)) \in Sizes
    BY Zenon
  <2> QED BY <1>2, <1>3, <2>2, <2>3, Zenon DEF OpToRel
<1>6. \A j \in S : j <= m
  BY <1>5
<1> QED BY <1>6, Zenon DEF Max

\* The page scan_retryable_v2 cuts off the rows it found, and the cursor that
\* follows it, leave no row behind: a row is in the page or ahead of the
\* cursor.
LEMMA PageLeavesNone ==
  ASSUME TeardownAssumption, NEW found \in SUBSET Keys, NEW through \in Nat,
         \A k \in found : k <= through,
         NEW page, page = {k \in found : Cardinality({j \in found : j < k}) < PageLimit},
         NEW k \in found
  PROVE  k \in page \/ Ahead(k, NextCursor(page, through))
<1> DEFINE Below(i) == {j \in found : j < i}
<1>0. found \in SUBSET Nat /\ IsFiniteSet(found)
  BY FS_Subset, Zenon DEF TeardownAssumption
<1>1. \A i : IsFiniteSet(Below(i)) /\ Cardinality(Below(i)) \in Nat
  <2>1. \A i : Below(i) \in SUBSET found
    BY Zenon
  <2> QED BY <2>1, <1>0, FS_Subset, FS_CardinalityType
<1>2. Min(found) \in page
  <2>1. Min(found) \in found /\ Below(Min(found)) = {}
    <3>1. Min(found) \in found /\ \A j \in found : Min(found) <= j
      BY <1>0, LeastKey, Zenon
    <3>2. \A j \in found : j \in Nat
      BY <1>0, Zenon
    <3>3. \A j \in found : ~(j < Min(found))
      <4> SUFFICES ASSUME NEW j \in found PROVE ~(j < Min(found))
        BY Zenon
      <4>1. j \in Nat /\ Min(found) \in Nat /\ Min(found) <= j
        BY <3>1, <3>2, Zenon
      <4> QED BY <4>1
    <3> QED BY <3>1, <3>3, Zenon
  <2>2. Cardinality(Below(Min(found))) = 0
    BY <2>1, FS_EmptySet, Zenon
  <2> QED BY <2>1, <2>2 DEF TeardownAssumption
<1>3. page \in SUBSET Nat /\ IsFiniteSet(page) /\ page # {} /\ page \in SUBSET found
  BY <1>0, <1>2, FS_Subset, Zenon
<1>4. Max(page) \in page /\ Max(page) \in Nat /\ Max(page) # 0
  <2>1. Max(page) \in page
    BY <1>3, LargestKey, Zenon
  <2> QED BY <2>1, <1>3, Zenon DEF TeardownAssumption
<1>5. SUFFICES ASSUME k \notin page PROVE Max(page) < k
  BY <1>0, <1>3, <1>4 DEF Ahead, NextCursor, NoCursor
<1>6. ASSUME k <= Max(page) PROVE FALSE
  <2>1. Below(k) \in SUBSET Below(Max(page))
    <3>1. \A j \in found : j \in Nat
      BY <1>0
    <3>2. \A j \in found : j < k => j < Max(page)
      BY <3>1, <1>4, <1>6
    <3> QED BY <3>2, Zenon
  <2>2. Cardinality(Below(k)) <= Cardinality(Below(Max(page)))
    <3> HIDE DEF Below
    <3> QED BY <2>1, <1>1, FS_Subset
  <2>3. Cardinality(Below(Max(page))) < PageLimit
    BY <1>4, Zenon
  <2>4. Cardinality(Below(k)) < PageLimit
    <3> HIDE DEF Below
    <3> QED BY <2>2, <2>3, <1>1 DEF TeardownAssumption
  <2> QED BY <2>4, <1>5
<1> QED BY <1>0, <1>4, <1>6

----------------------------------------------------------------------------
(* What the steps have in common. *)

Rows == [Keys -> {"absent", "active", "deleting", "deleted"}]
Worlds == [Keys -> SUBSET Range(Resources)]

\* A row and what it owns only ever go one way.
RowsAdvance ==
  \A k \in Keys :
    /\ status[k] # "absent" => status'[k] # "absent" /\ live'[k] \subseteq live[k]
    /\ Claimed(k) => Claimed(k)'
    /\ status[k] = "deleted" => status'[k] = "deleted"

\* Whatever the others do to the rows, a task that does not move still knows
\* what it knew.
LEMMA TaskStays ==
  ASSUME TypeOK, RowsAdvance, NEW t \in Tasks, TaskSound(t), task'[t] = task[t]
  PROVE  TaskSound(t)'
<1> DEFINE k == task[t].key
<1>1. CASE task[t].pc = "idle"
  BY <1>1, Zenon DEF TaskSound
<1>2. CASE task[t].pc # "idle"
  <2>1. k \in Keys
    BY <1>2, Zenon DEF TaskSound
  <2>2. /\ status[k] # "absent" => status'[k] # "absent" /\ live'[k] \subseteq live[k]
        /\ Claimed(k) => Claimed(k)' /\ status[k] # "absent"
        /\ status[k] = "deleted" => status'[k] = "deleted"
    BY <2>1, Zenon DEF RowsAdvance, Claimed
  <2> QED BY <2>1, <2>2 DEF TaskSound, Claimed
<1> QED BY <1>1, <1>2

\* The keys the cycle has not tried stay where they are while the rows advance.
LEMMA CycleStays ==
  ASSUME TypeOK, RowsAdvance, CycleSound, UNCHANGED <<sup, pending>>
  PROVE  CycleSound'
<1>1. \A k \in pending : Claimed(k)'
  BY Zenon DEF CycleSound, RowsAdvance, TypeOK
<1>2. \A k \in pending : k \in Deleting' => k \in Deleting
  BY Zenon DEF CycleSound, RowsAdvance, TypeOK, Claimed, Deleting
<1> QED BY <1>1, <1>2 DEF CycleSound, Ahead

\* One task moves: it keeps its key, gives it up, or takes one that is free.
LEMMA TaskMoves ==
  ASSUME IInv, NEW t \in Tasks, NEW new \in TaskRecords,
         task' = [task EXCEPT ![t] = new],
         new.key \in {0, task[t].key} \/ ~Locked(new.key),
         RowsAdvance, status' \in Rows, live' \in Worlds,
         requests' \in 0..MaxRequests, faults' \in 0..MaxFaults, succeeded' \subseteq Keys,
         TombstoneIsHonest', SuccessIsDurable', TaskSound(t)',
         \/ UNCHANGED <<sup, pending>>
         \/ sup' \in Supervisors /\ pending' \subseteq Keys /\ CycleSound'
  PROVE  IInv'
<1>1. task \in [Tasks -> TaskRecords] /\ task' \in [Tasks -> TaskRecords]
  BY Zenon DEF IInv, TypeOK
<1>2. \A s \in Tasks : s # t => task'[s] = task[s]
  BY <1>1, Zenon
<1>3. task'[t] = new
  BY <1>1, Zenon
<1>4. \A r, s \in Tasks : r # s /\ task[r].key # 0 => task[r].key # task[s].key
  BY Zenon DEF IInv, TypeOK
<1>5. \A r, s \in Tasks : r # s /\ task'[r].key # 0 => task'[r].key # task'[s].key
  <2> SUFFICES ASSUME NEW r \in Tasks, NEW s \in Tasks, r # s, task'[r].key # 0
               PROVE  task'[r].key # task'[s].key
    BY Zenon
  <2>1. CASE r # t /\ s # t
    BY <2>1, <1>2, <1>4, Zenon
  <2>2. CASE r = t
    BY <2>2, <1>2, <1>3, <1>4 DEF Locked
  <2>3. CASE s = t
    BY <2>3, <1>2, <1>3, <1>4 DEF Locked
  <2> QED BY <2>1, <2>2, <2>3
<1>6. \A s \in Tasks : TaskSound(s)'
  BY <1>2, TaskStays, Zenon DEF IInv
<1>7. CycleSound' /\ sup' \in Supervisors /\ pending' \subseteq Keys
  BY CycleStays, Zenon DEF IInv, TypeOK
<1>8. TypeOK'
  BY <1>1, <1>5, <1>7, Zenon DEF TypeOK, Rows, Worlds
<1> QED BY <1>6, <1>7, <1>8 DEF IInv

\* An idle task knows nothing.
LEMMA IdleFacts ==
  /\ Idle \in TaskRecords /\ Idle.key = 0 /\ Idle.pc = "idle"
  /\ \A t \in Tasks : task'[t] = Idle => TaskSound(t)'
<1>1. Idle \in TaskRecords /\ Idle.key = 0 /\ Idle.pc = "idle"
  BY Owned DEF Idle, TaskRecords
<1> QED BY <1>1 DEF TaskSound

\* Rows that stay as they are advance, and stay honest.
LEMMA RowsStay ==
  ASSUME IInv, UNCHANGED <<status, live>>
  PROVE  /\ RowsAdvance /\ status' \in Rows /\ live' \in Worlds /\ TombstoneIsHonest'
         /\ UNCHANGED succeeded => SuccessIsDurable'
BY DEF IInv, TypeOK, RowsAdvance, Claimed, Rows, Worlds, TombstoneIsHonest, SuccessIsDurable

----------------------------------------------------------------------------
(* The invariant is inductive: one lemma per kind of step. *)

LEMMA InitIInv == ASSUME TeardownAssumption, Init PROVE IInv
<1>1. TypeOK
  <2>1. \A t \in Tasks : task[t] = Idle
    BY Zenon DEF Init
  <2>2. task \in [Tasks -> TaskRecords]
    BY IdleFacts, Zenon DEF Init
  <2>3. sup \in Supervisors
    BY Zenon DEF Init, Supervising, Supervisors, Cursors, NoCursor
  <2> QED BY <2>1, <2>2, <2>3, IdleFacts DEF Init, TypeOK, TeardownAssumption
<1>2. TombstoneIsHonest /\ SuccessIsDurable
  BY Zenon DEF Init, TombstoneIsHonest, SuccessIsDurable
<1>3. \A t \in Tasks : TaskSound(t)
  BY IdleFacts, Zenon DEF Init, TaskSound
<1>4. CycleSound
  BY Zenon DEF Init, CycleSound, Supervising, NoCursor
<1> QED BY <1>1, <1>2, <1>3, <1>4 DEF IInv

\* An instance is registered.
LEMMA RegisterIInv == ASSUME IInv, NEW k \in Keys, Register(k) PROVE IInv'
<1>1. TypeOK /\ CycleSound
  BY Zenon DEF IInv
<1>2. status' \in Rows /\ live' \in Worlds /\ RowsAdvance
  BY <1>1, Zenon DEF TypeOK, Register, RowsAdvance, Claimed, Rows, Worlds
<1>3. TombstoneIsHonest' /\ SuccessIsDurable'
  BY <1>1, Zenon DEF IInv, Register, TombstoneIsHonest, SuccessIsDurable, TypeOK
<1>4. \A t \in Tasks : TaskSound(t)'
  BY <1>1, <1>2, TaskStays, Zenon DEF IInv, Register
<1>5. CycleSound'
  BY <1>1, <1>2, CycleStays, Zenon DEF Register
<1>6. TypeOK'
  BY <1>1, <1>2, Zenon DEF TypeOK, Register, Rows, Worlds
<1> QED BY <1>3, <1>4, <1>5, <1>6 DEF IInv

\* A task that is given a free key starts with the lookup.
LEMMA StartFacts ==
  ASSUME NEW k \in Keys, NEW exact \in {"none", "match", "drift"}, NEW t \in Tasks
  PROVE  LET new == [Idle EXCEPT !.pc = "lookup", !.key = k, !.exact = exact] IN
         /\ new \in TaskRecords /\ new.key = k
         /\ task'[t] = new => TaskSound(t)'
<1> DEFINE new == [Idle EXCEPT !.pc = "lookup", !.key = k, !.exact = exact]
<1>2. new \in TaskRecords /\ new.key = k /\ new.pc = "lookup"
  BY IdleFacts, Zenon DEF TaskRecords
<1> HIDE DEF new
<1>3. task'[t] = new => TaskSound(t)'
  BY <1>2, Zenon DEF TaskSound
<1> QED BY <1>2, <1>3 DEF new

\* A user's request.
LEMMA RequestIInv ==
  ASSUME TeardownAssumption, IInv, NEW t \in Users, NEW k \in Keys,
         NEW exact \in {"none", "match", "drift"}, Request(t, k, exact)
  PROVE  IInv'
<1> DEFINE new == [Idle EXCEPT !.pc = "lookup", !.key = k, !.exact = exact]
<1>1. TypeOK /\ t \in Tasks
  BY Zenon DEF IInv, Tasks
<1>2. /\ UNCHANGED <<status, live>> /\ UNCHANGED <<sup, pending>> /\ UNCHANGED succeeded
      /\ requests' \in 0..MaxRequests /\ faults' \in 0..MaxFaults /\ succeeded' \subseteq Keys
  BY <1>1 DEF Request, TypeOK, TeardownAssumption
<1>3. new \in TaskRecords /\ new.key = k /\ (task'[t] = new => TaskSound(t)')
  BY <1>1, StartFacts, Zenon
<1>4. CASE Locked(k)
  <2>1. task' = task
    BY <1>4, Zenon DEF Request
  <2>2. task \in [Tasks -> TaskRecords] /\ task[t] \in TaskRecords
    BY <1>1, Zenon DEF TypeOK
  <2>3. task' = [task EXCEPT ![t] = task[t]]
    BY <2>1, <2>2, Zenon
  <2>4. TaskSound(t)'
    BY <1>1, <1>2, <2>1, TaskStays, RowsStay, Zenon DEF IInv
  <2> HIDE DEF new
  <2> QED BY <1>1, <1>2, <2>2, <2>3, <2>4, TaskMoves, RowsStay, Zenon
<1>5. CASE ~Locked(k)
  <2>1. task' = [task EXCEPT ![t] = new]
    BY <1>5, Zenon DEF Request
  <2>2. task'[t] = new
    BY <1>1, <2>1, Zenon DEF TypeOK
  <2> HIDE DEF new
  <2> QED BY <1>1, <1>2, <1>3, <1>5, <2>1, <2>2, TaskMoves, RowsStay, Zenon
<1> QED BY <1>4, <1>5

\* get_for_teardown_v1: a caller is told AlreadyDeleted only of a deleted row.
LEMMA LookupIInv == ASSUME IInv, NEW t \in Tasks, Lookup(t) PROVE IInv'
<1> DEFINE k == task[t].key
<1>1. TypeOK /\ TaskSound(t) /\ k \in Keys /\ task[t] \in TaskRecords /\ task \in [Tasks -> TaskRecords]
  BY Zenon DEF IInv, TypeOK, Lookup, TaskSound
<1>2. /\ UNCHANGED <<status, live>> /\ UNCHANGED <<sup, pending>>
      /\ requests' \in 0..MaxRequests /\ faults' \in 0..MaxFaults
  BY <1>1, Zenon DEF Lookup, NoFault, TypeOK
<1>3. succeeded' \subseteq Keys /\ SuccessIsDurable'
  BY <1>1, <1>2, Zenon DEF Lookup, TaskSound, IInv, TypeOK, SuccessIsDurable
<1>4. CASE task' = [task EXCEPT ![t] = Idle]
  <2>1. TaskSound(t)'
    BY <1>1, <1>4, IdleFacts, Zenon
  <2> QED BY <1>1, <1>2, <1>3, <1>4, <2>1, IdleFacts, RowsStay, TaskMoves, Zenon
<1>5. CASE task' # [task EXCEPT ![t] = Idle]
  <2> DEFINE then == IF task[t].pc = "lookup" THEN "claim" ELSE "delete"
             new == [task[t] EXCEPT !.pc = then]
  <2>1. /\ status[k] # "absent" /\ ~(task[t].pc = "recheck" /\ task[t].at = 0)
        /\ task' = [task EXCEPT ![t].pc = then]
    BY <1>5, Zenon DEF Lookup, Return, Goto
  <2>2. task' = [task EXCEPT ![t] = new]
    BY <1>1, <2>1, Zenon
  <2>3. new \in TaskRecords /\ new.key = k /\ new.pc = then /\ new.at = task[t].at
    BY <1>1, Zenon DEF TaskRecords
  <2>4. TaskSound(t)'
    <3>1. task'[t] = new
      BY <1>1, <2>2, Zenon
    <3>2. CASE task[t].pc = "lookup"
      BY <1>1, <1>2, <2>1, <2>3, <3>1, <3>2 DEF TaskSound
    <3>3. CASE task[t].pc = "recheck"
      <4>1. new.pc = "delete" /\ new.at # 0 /\ Claimed(k)'
        BY <3>3, <2>1, <2>3, <1>1, <1>2, Zenon DEF TaskSound, Claimed
      <4>2. ASSUME NEW n \in 1..Len(Resources), n < new.at PROVE FALSE
        <5>1. task[t].at = 1
          BY <3>3, <2>1, <1>1, Zenon DEF TaskSound
        <5> QED BY <4>2, <5>1, <2>3, Owned
      <4> QED BY <4>1, <4>2, <3>1, <2>3, <1>1 DEF TaskSound
    <3> QED BY <3>2, <3>3 DEF Lookup
  <2> HIDE DEF new
  <2> QED BY <1>1, <1>2, <1>3, <2>2, <2>3, <2>4, RowsStay, TaskMoves, Zenon
<1> QED BY <1>4, <1>5

\* A task at another step, or at another resource, is still a task record.
LEMMA RecordMoves ==
  ASSUME NEW q \in TaskRecords, NEW at \in 0..Len(Resources)
  PROVE  LET new == [q EXCEPT !.pc = "recheck", !.at = at] IN
         new \in TaskRecords /\ new.key = q.key /\ new.pc = "recheck" /\ new.at = at
BY Zenon DEF TaskRecords

\* What claim_deleting_v1 does to a row that is there.
LEMMA ClaimFacts ==
  ASSUME IInv, NEW k \in Keys, status[k] # "absent",
         status' = [status EXCEPT ![k] = ClaimedStatus(k)], UNCHANGED <<live, succeeded>>
  PROVE  /\ RowsAdvance /\ status' \in Rows /\ live' \in Worlds
         /\ TombstoneIsHonest' /\ SuccessIsDurable'
         /\ Claimed(k)' /\ (status[k] = "deleted" => status'[k] = "deleted")
<1>1. TypeOK /\ TombstoneIsHonest /\ SuccessIsDurable
  BY Zenon DEF IInv
<1>2. /\ status \in Rows /\ status' \in Rows /\ live \in Worlds /\ live' = live
      /\ \A j \in Keys : status'[j] = IF j = k THEN ClaimedStatus(k) ELSE status[j]
      /\ ClaimedStatus(k) = IF status[k] = "deleted" THEN "deleted" ELSE "deleting"
  BY <1>1, Zenon DEF TypeOK, Rows, Worlds, ClaimedStatus
<1>3. RowsAdvance
  BY <1>2, Zenon DEF RowsAdvance, Claimed
<1>4. TombstoneIsHonest'
  BY <1>1, <1>2, Zenon DEF TombstoneIsHonest
<1>5. SuccessIsDurable'
  BY <1>1, <1>2, Zenon DEF SuccessIsDurable, TypeOK
<1> QED BY <1>2, <1>3, <1>4, <1>5 DEF Claimed

\* What a delete call that took effect does to a claimed instance.
LEMMA DeleteFacts ==
  ASSUME IInv, NEW k \in Keys, NEW r, Claimed(k),
         live' = [live EXCEPT ![k] = Without(k, r)], UNCHANGED <<status, succeeded>>
  PROVE  /\ RowsAdvance /\ status' \in Rows /\ live' \in Worlds
         /\ TombstoneIsHonest' /\ SuccessIsDurable'
         /\ live'[k] \subseteq live[k] /\ r \notin live'[k]
<1>1. TypeOK /\ TombstoneIsHonest /\ SuccessIsDurable
  BY Zenon DEF IInv
<1>2. Without(k, r) \subseteq live[k] /\ r \notin Without(k, r)
  BY Zenon DEF Without
<1>3. /\ status \in Rows /\ status' = status /\ live \in Worlds /\ live' \in Worlds
      /\ \A j \in Keys : live'[j] = IF j = k THEN Without(k, r) ELSE live[j]
  BY <1>1, <1>2, Zenon DEF TypeOK, Rows, Worlds
<1>4. RowsAdvance
  BY <1>2, <1>3, Zenon DEF RowsAdvance, Claimed
<1>5. TombstoneIsHonest'
  BY <1>1, <1>2, <1>3, Zenon DEF TombstoneIsHonest, Claimed
<1>6. SuccessIsDurable'
  BY <1>1, <1>3, Zenon DEF SuccessIsDurable
<1> QED BY <1>2, <1>3, <1>4, <1>5, <1>6

\* What mark_deleted_v1 does to a claimed row of which nothing is left.
LEMMA MarkFacts ==
  ASSUME IInv, NEW k \in Keys, Claimed(k), live[k] = {},
         status' = [status EXCEPT ![k] = "deleted"], UNCHANGED live,
         succeeded' \subseteq succeeded \cup {k}
  PROVE  /\ RowsAdvance /\ status' \in Rows /\ live' \in Worlds
         /\ TombstoneIsHonest' /\ SuccessIsDurable' /\ succeeded' \subseteq Keys
<1>1. TypeOK /\ TombstoneIsHonest /\ SuccessIsDurable
  BY Zenon DEF IInv
<1>2. /\ status \in Rows /\ status' \in Rows /\ live \in Worlds /\ live' = live
      /\ \A j \in Keys : status'[j] = IF j = k THEN "deleted" ELSE status[j]
  BY <1>1, Zenon DEF TypeOK, Rows, Worlds
<1>3. RowsAdvance
  BY <1>2 DEF RowsAdvance, Claimed
<1>4. TombstoneIsHonest'
  BY <1>1, <1>2 DEF TombstoneIsHonest
<1>5. SuccessIsDurable' /\ succeeded' \subseteq Keys
  BY <1>1, <1>2, Zenon DEF SuccessIsDurable, TypeOK
<1> QED BY <1>2, <1>3, <1>4, <1>5

\* claim_deleting_v1.
LEMMA ClaimIInv == ASSUME IInv, NEW t \in Tasks, Claim(t) PROVE IInv'
<1> DEFINE k == task[t].key
           at == IF status[k] = "deleted" THEN 0 ELSE 1
           new == [task[t] EXCEPT !.pc = "recheck", !.at = at]
<1>1. /\ TypeOK /\ k \in Keys /\ status[k] # "absent"
      /\ task[t] \in TaskRecords /\ task \in [Tasks -> TaskRecords]
  BY Zenon DEF IInv, TypeOK, Claim, TaskSound
<1>2. /\ status' = [status EXCEPT ![k] = ClaimedStatus(k)]
      /\ UNCHANGED <<live, succeeded>> /\ UNCHANGED <<sup, pending>>
      /\ requests' \in 0..MaxRequests /\ faults' \in 0..MaxFaults /\ succeeded' \subseteq Keys
  BY <1>1, Zenon DEF Claim, NoFault, TypeOK
<1>3. task' = [task EXCEPT ![t] = new] /\ task'[t] = new
  BY <1>1, Zenon DEF Claim
<1>4. /\ new \in TaskRecords /\ new.key = k /\ new.pc = "recheck" /\ new.at = at
  <2>1. at \in 0..Len(Resources)
    BY Owned
  <2> QED BY <1>1, <2>1, RecordMoves, Zenon
<1> HIDE DEF new
<1>5. TaskSound(t)'
  <2>1. status'[k] \in {"deleting", "deleted"} /\ (status[k] = "deleted" => status'[k] = "deleted")
    BY <1>1, <1>2, ClaimFacts, Zenon DEF Claimed
  <2> QED BY <2>1, <1>1, <1>3, <1>4 DEF TaskSound, Claimed
<1> QED BY <1>1, <1>2, <1>3, <1>4, <1>5, ClaimFacts, TaskMoves, Zenon

\* One delete call: the task goes on only when the resource is gone.
LEMMA DeleteIInv == ASSUME IInv, NEW t \in Tasks, Delete(t) PROVE IInv'
<1> DEFINE k == task[t].key
           r == Resources[task[t].at]
           answer == Answer(k, r)
<1>1. /\ TypeOK /\ k \in Keys /\ status[k] \in {"deleting", "deleted"} /\ Claimed(k)
      /\ task[t] \in TaskRecords /\ task \in [Tasks -> TaskRecords]
      /\ task[t].at \in 1..Len(Resources) /\ task[t].pc = "delete"
      /\ \A n \in 1..Len(Resources) : n < task[t].at => Resources[n] \notin live[k]
  <2>1. TypeOK /\ TaskSound(t) /\ task[t].pc = "delete"
    BY Zenon DEF IInv, Delete
  <2>2. task[t] \in TaskRecords /\ task \in [Tasks -> TaskRecords]
    BY <2>1, Zenon DEF TypeOK
  <2>3. task[t].at \in 1..Len(Resources)
    BY <2>1, <2>2, Owned DEF TaskSound, TaskRecords
  <2> QED BY <2>1, <2>2, <2>3 DEF TaskSound, Claimed
<1>2. /\ UNCHANGED <<status, succeeded>> /\ UNCHANGED <<sup, pending>>
      /\ requests' \in 0..MaxRequests /\ faults' \in 0..MaxFaults /\ succeeded' \subseteq Keys
  BY <1>1, Zenon DEF Delete, NoFault, TypeOK
<1>3. /\ RowsAdvance /\ status' \in Rows /\ live' \in Worlds /\ TombstoneIsHonest' /\ SuccessIsDurable'
      /\ live'[k] \subseteq live[k]
      /\ answer # <<"forbidden", r>> => r \notin live'[k]
  <2>1. CASE answer = <<"forbidden", r>>
    <3>1. UNCHANGED live
      BY <2>1, Zenon DEF Delete
    <3> QED BY <2>1, <3>1, <1>2, RowsStay
  <2>2. CASE answer # <<"forbidden", r>>
    <3>1. live' = [live EXCEPT ![k] = Without(k, r)]
      BY <2>2, Zenon DEF Delete
    <3> HIDE DEF r, k, answer
    <3> QED BY <2>2, <3>1, <1>1, <1>2, DeleteFacts, Zenon
  <2> QED BY <2>1, <2>2
<1>4. Deleted(r, answer) => answer # <<"forbidden", r>>
  <2>1. <<"forbidden", r>> # <<"ok", r>> /\ <<"forbidden", r>> # <<"unknown", r>>
    BY Zenon
  <2> QED BY <2>1 DEF Deleted
<1>5. CASE ~Deleted(r, answer)
  <2>1. task' = [task EXCEPT ![t] = Idle]
    BY <1>5, Zenon DEF Delete
  <2>2. TaskSound(t)'
    BY <1>1, <2>1, IdleFacts, Zenon
  <2> QED BY <1>1, <1>2, <1>3, <2>1, <2>2, IdleFacts, TaskMoves, Zenon
<1>6. CASE Deleted(r, answer) /\ task[t].at = Len(Resources)
  <2> DEFINE new == [task[t] EXCEPT !.pc = "mark"]
  <2>1. task' = [task EXCEPT ![t] = new] /\ task'[t] = new
    BY <1>1, <1>6, Zenon DEF Delete
  <2>2. new \in TaskRecords /\ new.key = k /\ new.pc = "mark"
    BY <1>1, Zenon DEF TaskRecords
  <2>3. \A n \in 1..3 : Resources[n] \notin live'[k]
    BY <1>1, <1>3, <1>4, <1>6, Owned
  <2>4. live'[k] = {}
    BY <2>3, <1>1, <1>3, Owned DEF Worlds
  <2>5. TaskSound(t)'
    BY <1>1, <1>2, <2>1, <2>2, <2>4, Zenon DEF TaskSound, Claimed
  <2> HIDE DEF new
  <2> QED BY <1>1, <1>2, <1>3, <2>1, <2>2, <2>5, TaskMoves, Zenon
<1>7. CASE Deleted(r, answer) /\ task[t].at # Len(Resources)
  <2> DEFINE new == [task[t] EXCEPT !.at = @ + 1]
  <2>1. task' = [task EXCEPT ![t] = new] /\ task'[t] = new
    BY <1>1, <1>7, Zenon DEF Delete
  <2>2. new \in TaskRecords /\ new.key = k /\ new.pc = "delete" /\ new.at = task[t].at + 1
    BY <1>1, <1>7, Owned DEF TaskRecords
  <2>3. \A n \in 1..Len(Resources) : n < new.at => Resources[n] \notin live'[k]
    <3> HIDE DEF new
    <3> SUFFICES ASSUME NEW n \in 1..Len(Resources), n < new.at PROVE Resources[n] \notin live'[k]
      BY Zenon
    <3>1. n < task[t].at \/ n = task[t].at
      BY <1>1, <2>2, Owned
    <3> QED BY <3>1, <1>1, <1>3, <1>4, <1>7
  <2> HIDE DEF new
  <2>4. TaskSound(t)'
    <3>1. new.at # 0
      BY <1>1, <2>2, Owned
    <3> QED BY <1>1, <1>2, <2>1, <2>2, <2>3, <3>1 DEF TaskSound, Claimed
  <2> QED BY <1>1, <1>2, <1>3, <2>1, <2>2, <2>4, TaskMoves, Zenon
<1> QED BY <1>5, <1>6, <1>7

\* mark_deleted_v1, and the caller is told.
LEMMA MarkIInv == ASSUME IInv, NEW t \in Tasks, Mark(t) PROVE IInv'
<1> DEFINE k == task[t].key
<1>1. /\ TypeOK /\ k \in Keys /\ Claimed(k) /\ live[k] = {}
      /\ task \in [Tasks -> TaskRecords]
  BY Zenon DEF IInv, TypeOK, Mark, TaskSound
<1>2. /\ status' = [status EXCEPT ![k] = "deleted"] /\ succeeded' = succeeded \cup {k}
      /\ UNCHANGED live /\ UNCHANGED <<sup, pending>>
      /\ requests' \in 0..MaxRequests /\ faults' \in 0..MaxFaults
  BY <1>1, Zenon DEF Mark, NoFault, TypeOK, Claimed
<1>3. task' = [task EXCEPT ![t] = Idle] /\ task'[t] = Idle
  BY <1>1, Zenon DEF Mark, Return
<1>4. TaskSound(t)'
  BY <1>3, IdleFacts, Zenon
<1> HIDE DEF k
<1> QED BY <1>1, <1>2, <1>3, <1>4, IdleFacts, MarkFacts, TaskMoves, Zenon

\* A call that fails or is cancelled, having taken effect or not.
LEMMA InterruptedIInv == ASSUME TeardownAssumption, IInv, NEW t \in Tasks, Interrupted(t) PROVE IInv'
<1> DEFINE k == task[t].key
<1>1. /\ TypeOK /\ TaskSound(t) /\ k \in Keys /\ task \in [Tasks -> TaskRecords]
  BY Zenon DEF IInv, TypeOK, Interrupted, TaskSound
<1>2. /\ UNCHANGED <<sup, pending>> /\ UNCHANGED succeeded /\ succeeded' \subseteq Keys
      /\ requests' \in 0..MaxRequests /\ faults' \in 0..MaxFaults
  BY <1>1 DEF Interrupted, Fault, TypeOK, TeardownAssumption
<1>3. task' = [task EXCEPT ![t] = Idle] /\ task'[t] = Idle
  BY <1>1, Zenon DEF Interrupted, Return
<1>4. TaskSound(t)'
  BY <1>3, IdleFacts, Zenon
<1>5. SUFFICES /\ RowsAdvance /\ status' \in Rows /\ live' \in Worlds
               /\ TombstoneIsHonest' /\ SuccessIsDurable'
  BY <1>1, <1>2, <1>3, <1>4, IdleFacts, TaskMoves, Zenon
<1>6. CASE UNCHANGED <<status, live>>
  BY <1>6, <1>2, RowsStay, Zenon
<1>7. CASE /\ task[t].pc = "claim" /\ status' = [status EXCEPT ![k] = ClaimedStatus(k)]
           /\ UNCHANGED live
  <2>1. status[k] # "absent"
    BY <1>1, <1>7, Zenon DEF TaskSound
  <2> HIDE DEF k
  <2> QED BY <1>1, <1>2, <1>7, <2>1, ClaimFacts, Zenon
<1>8. CASE /\ task[t].pc = "delete" /\ UNCHANGED status
           /\ live' = [live EXCEPT ![k] = Without(k, Resources[task[t].at])]
  <2>1. Claimed(k)
    BY <1>1, <1>8, Zenon DEF TaskSound
  <2> HIDE DEF k
  <2> QED BY <1>1, <1>2, <1>8, <2>1, DeleteFacts, Zenon
<1>9. CASE /\ task[t].pc = "mark" /\ status' = [status EXCEPT ![k] = "deleted"]
           /\ UNCHANGED live
  <2>1. Claimed(k) /\ live[k] = {}
    BY <1>1, <1>9, Zenon DEF TaskSound
  <2> HIDE DEF k
  <2> QED BY <1>1, <1>2, <1>9, <2>1, MarkFacts, Zenon
<1> QED BY <1>6, <1>7, <1>8, <1>9 DEF Interrupted

\* A step of the supervisor that leaves the tasks alone.
LEMMA SupervisorMoves ==
  ASSUME IInv, UNCHANGED <<status, live, task, requests, succeeded>>,
         faults' \in 0..MaxFaults, sup' \in Supervisors, pending' \subseteq Keys, CycleSound'
  PROVE  IInv'
<1>1. TypeOK'
  BY Zenon DEF IInv, TypeOK
<1>2. TombstoneIsHonest' /\ SuccessIsDurable'
  BY Zenon DEF IInv, TombstoneIsHonest, SuccessIsDurable
<1>3. \A t \in Tasks : TaskSound(t)'
  BY RowsStay, TaskStays, Zenon DEF IInv
<1> QED BY <1>1, <1>2, <1>3 DEF IInv

\* scan_retryable_v2: everything the cycle has not tried is in the page or
\* ahead of the new cursor.
LEMMA ScanIInv == ASSUME TeardownAssumption, IInv, Scan PROVE IInv'
<1> DEFINE through == IF sup.cursor.through # 0 THEN sup.cursor.through
                      ELSE IF Deleting = {} THEN 0 ELSE Max(Deleting)
           found == {k \in Deleting : k > sup.cursor.after /\ k <= through}
           page == {k \in found : Cardinality({j \in found : j < k}) < PageLimit}
<1>1. TypeOK /\ CycleSound
  BY Zenon DEF IInv
<1>2. Deleting \subseteq Keys /\ Keys \subseteq Nat \ {0} /\ sup.cursor \in Cursors /\ sup \in Supervisors
  BY <1>1, Zenon DEF Deleting, TeardownAssumption, TypeOK, Supervisors
<1>3. Deleting # {} => Max(Deleting) \in Deleting /\ \A k \in Deleting : k <= Max(Deleting)
  <2>1. Deleting \in SUBSET Nat /\ IsFiniteSet(Deleting)
    BY <1>2, FS_Subset, Zenon DEF TeardownAssumption
  <2> QED BY <2>1, LargestKey
<1>4. through \in Nat
  BY <1>2, <1>3, Zenon DEF Cursors
<1>5. found \in SUBSET Keys /\ \A k \in found : k <= through
  BY <1>2, Zenon
<1>6. sup' = Supervising("run", sup.cursor, page, NextCursor(page, through))
  BY Zenon DEF Scan
<1>7. page \subseteq Keys
  BY <1>5, Zenon
<1>8. NextCursor(page, through) \in Cursors /\ (NextCursor(page, through).through = 0 => NextCursor(page, through) = NoCursor)
  <2>1. page # {} => Max(page) \in Nat
    <3>1. page \in SUBSET Nat /\ IsFiniteSet(page)
      <4> HIDE DEF page
      <4> QED BY <1>2, <1>7, FS_Subset, Zenon DEF TeardownAssumption
    <3>2. ASSUME page # {} PROVE Max(page) \in page
      <4> HIDE DEF page
      <4> QED BY <3>1, <3>2, LargestKey
    <3> HIDE DEF page
    <3> QED BY <3>1, <3>2, Zenon
  <2> HIDE DEF page, through
  <2> QED BY <2>1, <1>4 DEF NextCursor, NoCursor, Cursors
<1>9. \A k \in found : k \in page \/ Ahead(k, NextCursor(page, through))
  <2> SUFFICES ASSUME NEW k \in found PROVE k \in page \/ Ahead(k, NextCursor(page, through))
    BY Zenon
  <2> HIDE DEF found, through
  <2>1. page = {i \in found : Cardinality({j \in found : j < i}) < PageLimit}
    BY Zenon
  <2> HIDE DEF page
  <2> QED BY <1>4, <1>5, <2>1, PageLeavesNone, Zenon
<1> HIDE DEF page
<1>10. /\ sup'.pc = "run" /\ sup'.cursor = sup.cursor /\ sup'.page = page
       /\ sup'.next = NextCursor(page, through) /\ sup' \in Supervisors
  BY <1>2, <1>6, <1>7, <1>8, Zenon DEF Supervising, Supervisors
<1>11. /\ pending' = IF sup.cursor = NoCursor THEN Deleting ELSE pending
       /\ UNCHANGED <<status, live, task, requests, faults, succeeded>> /\ sup.pc = "scan"
  BY Zenon DEF Scan
<1>12. \A k \in pending' \cap Deleting : k \in found
  <2>1. CASE sup.cursor = NoCursor
    <3>1. sup.cursor.after = 0 /\ sup.cursor.through = 0
      BY <2>1 DEF NoCursor
    <3> SUFFICES ASSUME NEW k \in Deleting PROVE k \in found
      BY Zenon
    <3>2. through = Max(Deleting) /\ k <= Max(Deleting) /\ k \in Nat \ {0}
      BY <3>1, <1>2, <1>3, Zenon
    <3> HIDE DEF through
    <3> QED BY <3>1, <3>2
  <2>2. CASE sup.cursor # NoCursor
    <3>1. pending' = pending /\ through = sup.cursor.through
      BY <2>2, <1>1, <1>11, Zenon DEF CycleSound
    <3>2. \A k \in pending \cap Deleting : Ahead(k, sup.cursor)
      BY <1>1, <1>11, Zenon DEF CycleSound
    <3> HIDE DEF through
    <3> QED BY <3>1, <3>2 DEF Ahead
  <2> QED BY <2>1, <2>2
<1> HIDE DEF through, found
<1>13. Deleting' = Deleting
  BY <1>11, Zenon DEF Deleting
<1>14. CycleSound'
  <2>1. \A k \in pending' : Claimed(k)'
    BY <1>1, <1>11, Zenon DEF CycleSound, Claimed, Deleting
  <2>2. \A k \in pending' \cap Deleting' : k \in sup'.page \/ Ahead(k, sup'.next)
    BY <1>9, <1>10, <1>12, <1>13, Zenon
  <2>3. \A k : Ahead(k, sup.next)' <=> Ahead(k, sup'.next)
    BY Zenon DEF Ahead
  <2> QED BY <2>1, <2>2, <2>3, <1>1, <1>8, <1>10, <1>13 DEF CycleSound
<1>15. pending' \subseteq Keys /\ faults' \in 0..MaxFaults
  BY <1>1, <1>2, <1>11, Zenon DEF TypeOK
<1> QED BY <1>10, <1>11, <1>14, <1>15, SupervisorMoves

\* The scan fails, the page is done, or the sleep ends.
LEMMA CycleStepIInv ==
  ASSUME TeardownAssumption, IInv, ScanFails \/ PageDone \/ Wake
  PROVE  IInv'
<1>1. TypeOK /\ CycleSound /\ sup \in Supervisors /\ pending \subseteq Keys
  BY Zenon DEF IInv, TypeOK
<1>2. /\ UNCHANGED <<status, live, task, requests, succeeded>> /\ UNCHANGED pending
      /\ faults' \in 0..MaxFaults
  BY <1>1 DEF ScanFails, PageDone, Wake, Fault, TypeOK, TeardownAssumption
<1>3. Deleting' = Deleting /\ \A k \in pending : Claimed(k) /\ Claimed(k)'
  BY <1>1, <1>2, Zenon DEF Deleting, Claimed, CycleSound
<1>4. CASE ScanFails \/ Wake
  <2>1. /\ sup.pc # "run" /\ sup'.pc # "run" /\ sup' \in Supervisors
        /\ sup'.cursor = sup.cursor /\ sup'.next = sup.next
    BY <1>1, <1>4, Zenon DEF ScanFails, Wake, Supervisors
  <2>2. CycleSound'
    BY <2>1, <1>1, <1>2, <1>3, Zenon DEF CycleSound, Ahead
  <2> QED BY <1>1, <1>2, <2>1, <2>2, SupervisorMoves
<1>5. CASE PageDone
  <2>1. /\ sup.pc = "run" /\ sup.page = {} /\ sup'.pc = "sleep" /\ sup' \in Supervisors
        /\ sup'.cursor = sup.next /\ sup'.next = sup.next
    BY <1>1, <1>5, Zenon DEF PageDone, Supervising, Supervisors
  <2>2. CycleSound'
    BY <2>1, <1>1, <1>2, <1>3, Zenon DEF CycleSound, Ahead
  <2> QED BY <1>1, <1>2, <2>1, <2>2, SupervisorMoves
<1> QED BY <1>4, <1>5

\* A slot takes the next key of the page.
LEMMA RetryIInv == ASSUME TeardownAssumption, IInv, NEW t \in Retriers, Retry(t) PROVE IInv'
<1> DEFINE k == Min(sup.page)
           new == [Idle EXCEPT !.pc = "lookup", !.key = k]
<1>1. TypeOK /\ CycleSound /\ sup \in Supervisors /\ t \in Tasks /\ task \in [Tasks -> TaskRecords]
  BY Zenon DEF IInv, TypeOK, Tasks
<1>2. k \in sup.page /\ k \in Keys
  <2>1. sup.page \in SUBSET Nat /\ sup.page \subseteq Keys /\ sup.page # {}
    BY <1>1, Zenon DEF Supervisors, TeardownAssumption, Retry
  <2> QED BY <2>1, LeastKey
<1>3. /\ UNCHANGED <<status, live>> /\ UNCHANGED succeeded /\ succeeded' \subseteq Keys
      /\ requests' \in 0..MaxRequests /\ faults' \in 0..MaxFaults
      /\ pending' = pending \ {k} /\ pending' \subseteq Keys
  BY <1>1, Zenon DEF Retry, TypeOK
<1>4. /\ sup.pc = "run" /\ sup'.pc = "run" /\ sup'.page = sup.page \ {k}
      /\ sup'.cursor = sup.cursor /\ sup'.next = sup.next /\ sup' \in Supervisors
  BY <1>1, Zenon DEF Retry, Supervisors
<1>5. CycleSound'
  <2>1. Deleting' = Deleting /\ \A j \in pending' : Claimed(j)'
    BY <1>1, <1>3, Zenon DEF Deleting, Claimed, CycleSound
  <2> HIDE DEF k
  <2> QED BY <2>1, <1>1, <1>3, <1>4 DEF CycleSound, Ahead
<1>6. CASE Locked(k)
  <2>1. task' = task
    BY <1>6, Zenon DEF Retry
  <2>2. task[t] \in TaskRecords /\ task' = [task EXCEPT ![t] = task[t]]
    BY <1>1, <2>1, Zenon
  <2>3. TaskSound(t)'
    BY <1>1, <1>3, <2>1, TaskStays, RowsStay, Zenon DEF IInv
  <2> QED BY <1>1, <1>3, <1>4, <1>5, <2>2, <2>3, TaskMoves, RowsStay, Zenon
<1>7. CASE ~Locked(k)
  <2>1. task' = [task EXCEPT ![t] = new] /\ task'[t] = new
    BY <1>1, <1>7, Zenon DEF Retry
  <2>2. new \in TaskRecords /\ new.key = k /\ new.pc = "lookup"
    BY <1>2, IdleFacts, Zenon DEF TaskRecords
  <2> HIDE DEF new
  <2>3. TaskSound(t)'
    BY <1>2, <2>1, <2>2, Zenon DEF TaskSound
  <2> QED BY <1>1, <1>3, <1>4, <1>5, <1>7, <2>1, <2>2, <2>3, TaskMoves, RowsStay, Zenon
<1> QED BY <1>6, <1>7

\* A restart forgets the tasks, the locks and the cycle.
LEMMA CrashIInv == ASSUME TeardownAssumption, IInv, Crash PROVE IInv'
<1>1. \A t \in Tasks : task'[t] = Idle
  BY Zenon DEF Crash
<1>2. task' \in [Tasks -> TaskRecords]
  BY IdleFacts, Zenon DEF Crash
<1>3. /\ sup' \in Supervisors /\ sup'.pc = "scan" /\ sup'.cursor = NoCursor /\ sup'.next = NoCursor
  BY Zenon DEF Crash, Supervising, Supervisors, Cursors, NoCursor
<1>4. TypeOK'
  BY <1>1, <1>2, <1>3, IdleFacts DEF IInv, Crash, Fault, TypeOK, TeardownAssumption
<1>5. TombstoneIsHonest' /\ SuccessIsDurable'
  BY Zenon DEF IInv, Crash, TombstoneIsHonest, SuccessIsDurable
<1>6. CycleSound'
  BY <1>3, Zenon DEF Crash, CycleSound, NoCursor
<1> QED BY <1>1, <1>4, <1>5, <1>6, IdleFacts DEF IInv

\* Nothing happens.
LEMMA StutterIInv == ASSUME IInv, UNCHANGED vars PROVE IInv'
<1>1. /\ UNCHANGED <<status, live, task, requests, succeeded>> /\ UNCHANGED <<sup, pending>>
      /\ UNCHANGED faults
  BY Zenon DEF vars
<1>2. faults' \in 0..MaxFaults /\ sup' \in Supervisors /\ pending' \subseteq Keys
  BY <1>1, Zenon DEF IInv, TypeOK
<1>3. CycleSound'
  BY <1>1, RowsStay, CycleStays, Zenon DEF IInv
<1> QED BY <1>1, <1>2, <1>3, SupervisorMoves

LEMMA NextIInv == ASSUME TeardownAssumption, IInv, [Next]_vars PROVE IInv'
BY RegisterIInv, RequestIInv, LookupIInv, ClaimIInv, DeleteIInv, MarkIInv, InterruptedIInv,
   RetryIInv, ScanIInv, CycleStepIInv, CrashIInv, StutterIInv DEF Next, Step

\* The cycle has tried everything when it is back at the initial cursor.
LEMMA IInvSuffices == ASSUME IInv PROVE TypeOK /\ TombstoneIsHonest /\ SuccessIsDurable /\ CycleTriesAll
<1>1. CycleTriesAll
  BY Zenon DEF IInv, CycleSound, CycleTriesAll, Ahead
<1> QED BY <1>1 DEF IInv

LEMMA AlwaysIInv == Spec => []IInv
BY InitIInv, NextIInv, TeardownAssumption, PTL DEF Spec

\* The variables keep their values, and a key is worked on by one task at a
\* time, for any number of callers and slots.
THEOREM TeardownTyped == Spec => []TypeOK
BY AlwaysIInv, IInvSuffices, PTL

\* A tombstone means that nothing is left in Discord, and an unclaimed row
\* that nothing is missing, for any instances, callers, slots, page limit and
\* numbers of faults and crashes.
THEOREM TombstoneIsHonestAlways == Spec => []TombstoneIsHonest
BY AlwaysIInv, IInvSuffices, PTL

\* Whoever was told that an instance is torn down was told the truth for good.
THEOREM SuccessIsDurableAlways == Spec => []SuccessIsDurable
BY AlwaysIInv, IInvSuffices, PTL

\* A cycle of the supervisor passes over no instance, for any page limit and
\* however the set of deleting rows changes while it pages.
THEOREM CycleTriesAllAlways == Spec => []CycleTriesAll
BY AlwaysIInv, IInvSuffices, PTL

----------------------------------------------------------------------------
(* The key lock.  It excludes two holders of one key, and implements       *)
(* KeyLockSpec.                                                            *)

\* Two keys never share an entry.
RegistryInjective ==
  \A j, k \in LockKeys : registry[j] = registry[k] /\ registry[j] # NoEntry => j = k

\* A guard's entry has its flag set, and no two guards share an entry.
GuardsHold ==
  /\ \A c \in Callers : pc[c] = "holding" => held[entry[c]]
  /\ \A c, d \in Callers :
       pc[c] = "holding" /\ pc[d] = "holding" /\ entry[c] = entry[d] => c = d

\* The inductive invariant of the lock.
LockInv == LockTypeOK /\ EntryIsRegistered /\ HeldHasHolder /\ RegistryInjective /\ GuardsHold

\* What a reference count of zero says: neither the registry nor a caller
\* refers to the entry.
LEMMA FreshIsUnused ==
  ASSUME LockTypeOK, NEW e \in Entries, StrongCount(e) = 0
  PROVE  /\ \A k \in LockKeys : registry[k] # e
         /\ \A c \in Callers : entry[c] # e
<1> DEFINE R == {k \in LockKeys : registry[k] = e}
           C == {c \in Callers : entry[c] = e}
<1>1. IsFiniteSet(R) /\ IsFiniteSet(C)
  BY KeyLockAssumption, FS_Subset
<1>2. Cardinality(R) \in Nat /\ Cardinality(C) \in Nat
  BY <1>1, FS_CardinalityType
<1>3. Cardinality(R) + Cardinality(C) = 0
  BY DEF StrongCount
<1>4. R = {} /\ C = {}
  <2> HIDE DEF R, C
  <2>1. Cardinality(R) = 0 /\ Cardinality(C) = 0
    BY <1>2, <1>3
  <2> QED
    BY <2>1, <1>1, FS_EmptySet
<1> QED
  BY <1>4

\* What a reference count of two says to the guard that reads it in its drop:
\* it is the only caller that refers to the entry.
LEMMA CountTwoIsAlone ==
  ASSUME LockTypeOK, NEW c \in Callers, NEW k \in LockKeys, entry[c] # NoEntry,
         registry[k] = entry[c], StrongCount(entry[c]) = 2
  PROVE  \A d \in Callers : entry[d] = entry[c] => d = c
<1> DEFINE e == entry[c]
           R == {j \in LockKeys : registry[j] = e}
           C == {d \in Callers : entry[d] = e}
<1>1. IsFiniteSet(R) /\ IsFiniteSet(C)
  BY KeyLockAssumption, FS_Subset
<1>2. Cardinality(R) \in Nat /\ Cardinality(C) \in Nat
  BY <1>1, FS_CardinalityType
<1>3. Cardinality(R) + Cardinality(C) = 2
  BY DEF StrongCount
<1>4. k \in R /\ c \in C
  OBVIOUS
<1>5. Cardinality(C) = 1
  <2> HIDE DEF R, C
  <2>1. Cardinality(R) # 0 /\ Cardinality(C) # 0
    BY <1>1, <1>4, FS_EmptySet
  <2> QED
    BY <1>2, <1>3, <2>1
<1>6. \E x : C = {x}
  <2> HIDE DEF C
  <2> QED
    BY <1>1, <1>5, FS_Singleton, Zenon
<1> QED
  BY <1>4, <1>6

\* The inductive invariant holds of an empty registry.
LEMMA LockInvInit == LockInit => LockInv
BY KeyLockAssumption DEF LockInit, LockInv, LockTypeOK, EntryIsRegistered, HeldHasHolder,
  RegistryInjective, GuardsHold

\* Every step of try_lock and of the guard's drop keeps the inductive
\* invariant; the reference count is used in RemoveEntry alone.
LEMMA LockInvNext == LockInv /\ [LockNext]_lockVars => LockInv'
<1> SUFFICES ASSUME LockInv, [LockNext]_lockVars PROVE LockInv'
  OBVIOUS
<1> USE KeyLockAssumption DEF LockInv, LockTypeOK
<1>1. ASSUME NEW c \in Callers, NEW k \in LockKeys, Clone(c, k) PROVE LockInv'
  <2>1. PICK e \in IF registry[k] = NoEntry THEN Fresh ELSE {registry[k]} :
          /\ registry' = [registry EXCEPT ![k] = e]
          /\ held' = IF registry[k] = NoEntry THEN [held EXCEPT ![e] = FALSE] ELSE held
          /\ entry' = [entry EXCEPT ![c] = e]
    BY <1>1, Zenon DEF Clone
  <2>2. /\ e \in Entries
        /\ pc[c] = "idle" /\ mutex = Nobody /\ mutex' = mutex
        /\ key' = [key EXCEPT ![c] = k]
        /\ pc' = [pc EXCEPT ![c] = "cloned"]
    BY <1>1, <2>1 DEF Clone, Fresh
  <2>3. ASSUME registry[k] = NoEntry
        PROVE  (\A j \in LockKeys : registry[j] # e) /\ (\A d \in Callers : entry[d] # e)
    BY <2>1, <2>2, <2>3, FreshIsUnused DEF Fresh
  <2>4. LockTypeOK'
    BY <2>1, <2>2
  <2>5. EntryIsRegistered'
    BY <2>1, <2>2, <2>3 DEF EntryIsRegistered
  <2>6. HeldHasHolder'
    BY <2>1, <2>2, <2>3 DEF HeldHasHolder
  <2>7. RegistryInjective'
    BY <2>1, <2>2, <2>3 DEF RegistryInjective
  <2>8. GuardsHold'
    BY <2>1, <2>2, <2>3 DEF GuardsHold
  <2> QED
    BY <2>4, <2>5, <2>6, <2>7, <2>8
<1>2. ASSUME NEW c \in Callers, CompareExchange(c) PROVE LockInv'
  <2>1. LockTypeOK'
    BY <1>2 DEF CompareExchange
  <2>2. EntryIsRegistered'
    BY <1>2 DEF CompareExchange, EntryIsRegistered
  <2>3. HeldHasHolder'
    BY <1>2 DEF CompareExchange, HeldHasHolder, EntryIsRegistered, RegistryInjective
  <2>4. RegistryInjective'
    BY <1>2 DEF CompareExchange, RegistryInjective
  <2>5. GuardsHold'
    BY <1>2 DEF CompareExchange, GuardsHold
  <2> QED
    BY <2>1, <2>2, <2>3, <2>4, <2>5
<1>3. ASSUME NEW c \in Callers, ReleaseFlag(c) PROVE LockInv'
  <2>1. LockTypeOK'
    BY <1>3 DEF ReleaseFlag
  <2>2. EntryIsRegistered'
    BY <1>3 DEF ReleaseFlag, EntryIsRegistered
  <2>3. HeldHasHolder'
    BY <1>3 DEF ReleaseFlag, HeldHasHolder, EntryIsRegistered, RegistryInjective
  <2>4. RegistryInjective'
    BY <1>3 DEF ReleaseFlag, RegistryInjective
  <2>5. GuardsHold'
    BY <1>3 DEF ReleaseFlag, GuardsHold
  <2> QED
    BY <2>1, <2>2, <2>3, <2>4, <2>5
<1>4. ASSUME NEW c \in Callers, RemoveEntry(c) PROVE LockInv'
  <2>1. LockTypeOK'
    BY <1>4 DEF RemoveEntry
  <2>2. EntryIsRegistered'
    <3>1. CASE StrongCount(entry[c]) = 2 /\ registry[key[c]] = entry[c]
      <4>1. \A d \in Callers : entry[d] = entry[c] => d = c
        BY <1>4, <3>1, CountTwoIsAlone DEF RemoveEntry
      <4> QED
        BY <1>4, <3>1, <4>1 DEF RemoveEntry, EntryIsRegistered
    <3>2. CASE ~(StrongCount(entry[c]) = 2 /\ registry[key[c]] = entry[c])
      BY <1>4, <3>2 DEF RemoveEntry, EntryIsRegistered
    <3> QED
      BY <3>1, <3>2
  <2>3. HeldHasHolder'
    BY <1>4 DEF RemoveEntry, HeldHasHolder
  <2>4. RegistryInjective'
    BY <1>4 DEF RemoveEntry, RegistryInjective
  <2>5. GuardsHold'
    BY <1>4 DEF RemoveEntry, GuardsHold
  <2> QED
    BY <2>1, <2>2, <2>3, <2>4, <2>5
<1>5. ASSUME NEW c \in Callers, DropEntry(c) PROVE LockInv'
  BY <1>5 DEF DropEntry, EntryIsRegistered, HeldHasHolder, RegistryInjective, GuardsHold
<1>6. CASE UNCHANGED lockVars
  BY <1>6 DEF lockVars, EntryIsRegistered, HeldHasHolder, RegistryInjective, GuardsHold
<1> QED
  BY <1>1, <1>2, <1>3, <1>4, <1>5, <1>6 DEF LockNext

\* The inductive invariant gives mutual exclusion.
LEMMA LockInvExcludes == LockInv => MutualExclusion
BY DEF LockInv, MutualExclusion, EntryIsRegistered, GuardsHold

\* The inductive invariant holds in every reachable state.
THEOREM LockInvariance == LockSpec => []LockInv
BY LockInvInit, LockInvNext, PTL DEF LockSpec

\* No two callers of try_lock ever hold the guard of one key, whatever the
\* number of callers and however their steps interleave with a guard's drop.
THEOREM KeyLockExcludes == LockSpec => []MutualExclusion
BY LockInvariance, LockInvExcludes, PTL

\* A caller that decides, holds or removes works on the registered entry.
THEOREM KeyLockRegistered == LockSpec => []EntryIsRegistered
<1>1. LockInv => EntryIsRegistered
  BY DEF LockInv
<1> QED
  BY LockInvariance, <1>1, PTL

\* A set flag always has a holder, so no key is locked out for ever.
THEOREM KeyLockNotStuck == LockSpec => []HeldHasHolder
<1>1. LockInv => HeldHasHolder
  BY DEF LockInv
<1> QED
  BY LockInvariance, <1>1, PTL

\* What the refinement mapping says: the owner of a key is its one holder, and
\* Nobody when there is none.
OwnerIsHolder ==
  \A k \in LockKeys :
    /\ \A c \in Callers : Owner[k] = c <=> Holds(c, k)
    /\ Owner[k] = Nobody <=> \A c \in Callers : ~Holds(c, k)

\* Mutual exclusion makes the mapping mean that.
LEMMA LockInvOwner == LockInv => OwnerIsHolder
<1> SUFFICES ASSUME LockInv, NEW k \in LockKeys
             PROVE  /\ \A c \in Callers : Owner[k] = c <=> Holds(c, k)
                    /\ Owner[k] = Nobody <=> \A c \in Callers : ~Holds(c, k)
  BY DEF OwnerIsHolder
<1>1. \A c, d \in Callers : Holds(c, k) /\ Holds(d, k) => c = d
  BY LockInvExcludes DEF MutualExclusion, Holds
<1>2. CASE \E c \in Callers : Holds(c, k)
  <2>1. Owner[k] \in Callers /\ Holds(Owner[k], k)
    BY <1>2 DEF Owner
  <2> QED
    BY <1>1, <1>2, <2>1, KeyLockAssumption
<1>3. CASE ~ \E c \in Callers : Holds(c, k)
  <2>1. Owner[k] = Nobody
    BY <1>3 DEF Owner
  <2> QED
    BY <1>3, <2>1, KeyLockAssumption
<1> QED
  BY <1>2, <1>3

\* A step that leaves the holders of a key alone leaves its owner alone.
LEMMA OwnerUnchanged ==
  ASSUME OwnerIsHolder, OwnerIsHolder', NEW k \in LockKeys,
         \A c \in Callers : Holds(c, k)' <=> Holds(c, k)
  PROVE  Owner'[k] = Owner[k]
<1>1. CASE \E c \in Callers : Holds(c, k)
  BY <1>1 DEF OwnerIsHolder
<1>2. CASE \A c \in Callers : ~Holds(c, k)
  BY <1>2 DEF OwnerIsHolder
<1> QED
  BY <1>1, <1>2

\* Every step of the lock is a step of KeyLockSpec or leaves it alone: a won
\* compare-exchange is a grant, a lost one a refusal, clearing the flag and
\* dropping a refused clone are leaving.
LEMMA LockNextRefines ==
  LockInv /\ OwnerIsHolder /\ OwnerIsHolder' /\ [LockNext]_lockVars
    => [Abstract!Next]_<<Owner, Refused>>
<1> SUFFICES ASSUME LockInv, OwnerIsHolder, OwnerIsHolder', [LockNext]_lockVars
             PROVE  Abstract!Next \/ (Owner' = Owner /\ Refused' = Refused)
  OBVIOUS
<1> USE KeyLockAssumption DEF LockInv, LockTypeOK
<1>0. ASSUME \A k \in LockKeys : \A c \in Callers : Holds(c, k)' <=> Holds(c, k)
      PROVE  Owner' = Owner
  <2>1. \A k \in LockKeys : Owner'[k] = Owner[k]
    BY <1>0, OwnerUnchanged
  <2> QED
    BY <2>1 DEF Owner
<1>1. ASSUME NEW c \in Callers, NEW k \in LockKeys, Clone(c, k)
      PROVE  Owner' = Owner /\ Refused' = Refused
  <2>1. \A j \in LockKeys : \A d \in Callers : Holds(d, j)' <=> Holds(d, j)
    BY <1>1 DEF Clone, Holds
  <2> QED
    BY <1>0, <1>1, <2>1 DEF Clone, Refused
<1>2. ASSUME NEW c \in Callers, CompareExchange(c) PROVE Abstract!Next
  <2>1. CASE held[entry[c]]
    <3>1. \A j \in LockKeys : \A d \in Callers : Holds(d, j)' <=> Holds(d, j)
      BY <1>2, <2>1 DEF CompareExchange, Holds
    <3>2. Owner[key[c]] \notin {Nobody, c}
      BY <1>2, <2>1 DEF CompareExchange, HeldHasHolder, EntryIsRegistered, OwnerIsHolder, Holds
    <3>3. c \notin Refused /\ Refused' = Refused \cup {c}
      BY <1>2, <2>1 DEF CompareExchange, Refused
    <3>4. Abstract!Refuse(c, key[c])
      BY <1>0, <3>1, <3>2, <3>3 DEF Abstract!Refuse
    <3> QED
      BY <3>4 DEF Abstract!Next
  <2>2. CASE ~held[entry[c]]
    <3>1. Owner[key[c]] = Nobody
      BY <1>2, <2>2 DEF CompareExchange, GuardsHold, EntryIsRegistered, OwnerIsHolder, Holds
    <3>2. \A j \in LockKeys : Owner[j] # c
      BY <1>2 DEF CompareExchange, OwnerIsHolder, Holds
    <3>3. Owner'[key[c]] = c
      BY <1>2, <2>2 DEF CompareExchange, OwnerIsHolder, Holds
    <3>4. ASSUME NEW j \in LockKeys, j # key[c] PROVE Owner'[j] = Owner[j]
      <4>1. \A d \in Callers : Holds(d, j)' <=> Holds(d, j)
        BY <1>2, <2>2, <3>4 DEF CompareExchange, Holds
      <4> QED
        BY <4>1, OwnerUnchanged
    <3>5. Owner' = [Owner EXCEPT ![key[c]] = c]
      BY <3>3, <3>4, Zenon DEF Owner
    <3>6. c \notin Refused /\ Refused' = Refused
      BY <1>2, <2>2 DEF CompareExchange, Refused
    <3>7. Abstract!Grant(c, key[c])
      BY <3>1, <3>2, <3>5, <3>6 DEF Abstract!Grant
    <3> QED
      BY <3>7 DEF Abstract!Next
  <2> QED
    BY <2>1, <2>2
<1>3. ASSUME NEW c \in Callers, ReleaseFlag(c) PROVE Abstract!Next
  <2>1. Owner[key[c]] = c
    BY <1>3 DEF ReleaseFlag, OwnerIsHolder, Holds
  <2>2. Owner'[key[c]] = Nobody
    BY <1>3, LockInvExcludes DEF ReleaseFlag, OwnerIsHolder, Holds, MutualExclusion
  <2>3. ASSUME NEW j \in LockKeys, j # key[c] PROVE Owner'[j] = Owner[j]
    <3>1. \A d \in Callers : Holds(d, j)' <=> Holds(d, j)
      BY <1>3, <2>3 DEF ReleaseFlag, Holds
    <3> QED
      BY <3>1, OwnerUnchanged
  <2>4. Owner' = [Owner EXCEPT ![key[c]] = Nobody]
    BY <2>2, <2>3, Zenon DEF Owner
  <2>5. Refused' = Refused
    BY <1>3 DEF ReleaseFlag, Refused
  <2>6. Abstract!Leave(c)
    BY <2>1, <2>4, <2>5, Zenon DEF Abstract!Leave
  <2> QED
    BY <2>6 DEF Abstract!Next
<1>4. ASSUME NEW c \in Callers, RemoveEntry(c)
      PROVE  Owner' = Owner /\ Refused' = Refused
  <2>1. \A j \in LockKeys : \A d \in Callers : Holds(d, j)' <=> Holds(d, j)
    BY <1>4 DEF RemoveEntry, Holds
  <2> QED
    BY <1>0, <1>4, <2>1 DEF RemoveEntry, Refused
<1>5. ASSUME NEW c \in Callers, DropEntry(c)
      PROVE  Abstract!Next \/ (Owner' = Owner /\ Refused' = Refused)
  <2>1. \A j \in LockKeys : \A d \in Callers : Holds(d, j)' <=> Holds(d, j)
    BY <1>5 DEF DropEntry, Holds
  <2>2. Owner' = Owner
    BY <1>0, <2>1
  <2>3. CASE pc[c] = "refused"
    <3>1. c \in Refused /\ Refused' = Refused \ {c}
      BY <1>5, <2>3 DEF DropEntry, Refused
    <3>2. Abstract!Leave(c)
      BY <2>2, <3>1 DEF Abstract!Leave
    <3> QED
      BY <3>2 DEF Abstract!Next
  <2>4. CASE pc[c] = "dropping"
    BY <1>5, <2>2, <2>4 DEF DropEntry, Refused
  <2> QED
    BY <1>5, <2>3, <2>4 DEF DropEntry
<1>6. CASE UNCHANGED lockVars
  <2>1. \A j \in LockKeys : \A d \in Callers : Holds(d, j)' <=> Holds(d, j)
    BY <1>6 DEF lockVars, Holds
  <2> QED
    BY <1>0, <1>6, <2>1 DEF lockVars, Refused
<1> QED
  BY <1>1, <1>2, <1>3, <1>4, <1>5, <1>6 DEF LockNext

\* try_lock and KeyLockGuard::drop implement KeyLockSpec: one owner per key,
\* and InProgress only while another caller owns the key.
THEOREM KeyLockRefines == LockSpec => ImplementsKeyLock
<1>1. LockInit => Abstract!Init
  BY KeyLockAssumption DEF LockInit, Abstract!Init, Owner, Refused, Holds
<1> QED
  BY <1>1, LockInvariance, LockInvOwner, LockNextRefines, PTL DEF LockSpec, ImplementsKeyLock,
     Abstract!Spec
=============================================================================
