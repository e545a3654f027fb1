---------------------- MODULE ResourceExecutionProofs ----------------------
(***************************************************************************)
(* Proofs about the plan, its execution and its rollback, for all desired  *)
(* states, snapshots, users and bounds: the order of the operations is     *)
(* enough for every key, what is not managed stays untouched, and a        *)
(* rollback that reports success leaves the snapshot.                      *)
(***************************************************************************)
EXTENDS ResourceExecution, WellFoundedInduction, FiniteSetTheorems, TLAPS

----------------------------------------------------------------------------
(* Induction over the natural numbers, for sets of them.                   *)

\* A set of natural numbers that has a member has a least one.
LEMMA LeastNat ==
  ASSUME NEW T \in SUBSET Nat, T # {}
  PROVE  \E x \in T : \A y \in T : x <= y
<1>1. PICK x \in T : \A y \in T : <<y, x>> \notin OpToRel(<, Nat)
  BY NatLessThanWellFounded, WFMin, Zenon
<1>2. \A y \in T : ~(y < x)
  BY <1>1, Zenon DEF OpToRel
<1> QED BY <1>2

\* A set with 0 and with the successor of each of its members is Nat.
LEMMA SetInduction ==
  ASSUME NEW T \in SUBSET Nat, 0 \in T, \A k \in T : k + 1 \in T
  PROVE  \A k \in Nat : k \in T
<1> SUFFICES ASSUME NEW k \in Nat, k \notin T PROVE FALSE
  BY Zenon
<1>1. PICK m \in Nat \ T : \A y \in Nat \ T : m <= y
  <2> DEFINE U == Nat \ T
  <2>1. U \in SUBSET Nat /\ U # {} BY Zenon
  <2> HIDE DEF U
  <2>2. \E x \in U : \A y \in U : x <= y BY <2>1, LeastNat, Zenon
  <2> QED BY <2>2, Zenon DEF U
<1>2. m # 0 /\ m - 1 \in Nat OBVIOUS
<1>3. m - 1 \in T BY <1>1, <1>2
<1> QED BY <1>2, <1>3

----------------------------------------------------------------------------
(* The recursive functions are what their defining equations say.          *)

\* Emitted(deps)[k] is k steps of topological_order's loop.
LEMMA EmittedStep ==
  ASSUME NEW deps
  PROVE  /\ Emitted(deps)[0] = << >>
         /\ \A k \in Nat : Emitted(deps)[k + 1] = Emit(deps, Emitted(deps)[k])
<1> DEFINE Good(g, m) == /\ g[0] = << >>
                         /\ \A k \in Nat : k < m => g[k + 1] = Emit(deps, g[k])
<1>1. \A m \in Nat : \E g : Good(g, m)
  <2> DEFINE T == {m \in Nat : \E g : Good(g, m)}
  <2>1. 0 \in T
    <3>1. Good([k \in Nat |-> << >>], 0) OBVIOUS
    <3> QED BY <3>1, Zenon
  <2>2. ASSUME NEW m \in T PROVE m + 1 \in T
    <3>1. PICK g : Good(g, m) BY Zenon
    <3> DEFINE h == [k \in Nat |-> IF k = m + 1 THEN Emit(deps, g[m]) ELSE g[k]]
    <3>2. Good(h, m + 1)
      <4>1. h[0] = << >> BY <3>1
      <4>2. ASSUME NEW k \in Nat, k < m + 1 PROVE h[k + 1] = Emit(deps, h[k])
        <5>1. CASE k = m BY <5>1
        <5>2. CASE k < m BY <5>2, <3>1
        <5> QED BY <4>2, <5>1, <5>2
      <4> QED BY <4>1, <4>2, Zenon
    <3> HIDE DEF h, Good
    <3> QED BY <3>2
  <2> HIDE DEF T
  <2>3. T \in SUBSET Nat BY Zenon DEF T
  <2>4. \A m \in Nat : m \in T BY <2>1, <2>2, <2>3, SetInduction, Zenon
  <2> QED BY <2>4, Zenon DEF T
<1>2. ASSUME NEW m \in Nat, NEW g, NEW h, Good(g, m), Good(h, m), NEW j \in Nat, j <= m
      PROVE  g[j] = h[j]
  <2> DEFINE T == {k \in Nat : k <= m => g[k] = h[k]}
  <2>1. 0 \in T BY <1>2, Zenon
  <2>2. ASSUME NEW k \in T PROVE k + 1 \in T BY <1>2, <2>2
  <2> HIDE DEF T
  <2>3. T \in SUBSET Nat BY Zenon DEF T
  <2>4. \A k \in Nat : k \in T BY <2>1, <2>2, <2>3, SetInduction, Zenon
  <2> QED BY <2>4, <1>2, Zenon DEF T
<1> DEFINE w(m) == CHOOSE g : Good(g, m)
<1> DEFINE f == [k \in Nat |-> w(k)[k]]
<1>3. \A m \in Nat : Good(w(m), m) BY <1>1, Zenon
<1> HIDE DEF w
<1>4. f[0] = << >> BY <1>3, Zenon
<1>5. ASSUME NEW k \in Nat PROVE f[k + 1] = Emit(deps, f[k])
  <2>1. Good(w(k), k) /\ Good(w(k + 1), k + 1) BY <1>3
  <2>2. Good(w(k + 1), k) BY <2>1
  <2>3. w(k + 1)[k] = w(k)[k]
    <3> HIDE DEF Good, f
    <3> QED BY <2>1, <2>2, <1>2
  <2>4. w(k + 1)[k + 1] = Emit(deps, w(k + 1)[k]) BY <2>1
  <2> QED BY <2>3, <2>4
<1> DEFINE R(e) == e = [k \in Nat |-> IF k = 0 THEN << >> ELSE Emit(deps, e[k - 1])]
<1>6. R(f)
  <2> SUFFICES ASSUME NEW k \in Nat
               PROVE f[k] = IF k = 0 THEN << >> ELSE Emit(deps, f[k - 1])
    BY Zenon
  <2>1. CASE k = 0 BY <2>1, <1>4, Zenon
  <2>2. CASE k # 0
    <3>1. k - 1 \in Nat /\ (k - 1) + 1 = k BY <2>2
    <3> HIDE DEF f
    <3>2. f[(k - 1) + 1] = Emit(deps, f[k - 1]) BY <3>1, <1>5, Zenon
    <3> QED BY <3>1, <3>2, <2>2, Zenon
  <2> QED BY <2>1, <2>2, Zenon
<1>7. Emitted(deps) = CHOOSE e : R(e) BY Zenon DEF Emitted
<1> HIDE DEF f
<1>8. R(Emitted(deps)) BY <1>6, <1>7, Zenon
<1> QED BY <1>8

\* Applied(d, current, nodes)[k] is k steps of virtual-apply's loop.
LEMMA AppliedStep ==
  ASSUME NEW d, NEW current, NEW nodes
  PROVE  /\ Applied(d, current, nodes)[0] = Unapplied(current)
         /\ \A k \in Nat : Applied(d, current, nodes)[k + 1] =
               ApplyOperation(d, current, Applied(d, current, nodes)[k], nodes[k + 1])
<1> DEFINE Good(g, m) == /\ g[0] = Unapplied(current)
                         /\ \A k \in Nat : k < m => g[k + 1] = ApplyOperation(d, current, g[k], nodes[k + 1])
<1>1. \A m \in Nat : \E g : Good(g, m)
  <2> DEFINE T == {m \in Nat : \E g : Good(g, m)}
  <2>1. 0 \in T
    <3>1. Good([k \in Nat |-> Unapplied(current)], 0) OBVIOUS
    <3> QED BY <3>1, Zenon
  <2>2. ASSUME NEW m \in T PROVE m + 1 \in T
    <3>1. PICK g : Good(g, m) BY Zenon
    <3> DEFINE h == [k \in Nat |-> IF k = m + 1 THEN ApplyOperation(d, current, g[m], nodes[m + 1]) ELSE g[k]]
    <3>2. Good(h, m + 1)
      <4>1. h[0] = Unapplied(current) BY <3>1
      <4>2. ASSUME NEW k \in Nat, k < m + 1 PROVE h[k + 1] = ApplyOperation(d, current, h[k], nodes[k + 1])
        <5>1. CASE k = m BY <5>1
        <5>2. CASE k < m BY <5>2, <3>1
        <5> QED BY <4>2, <5>1, <5>2
      <4> QED BY <4>1, <4>2, Zenon
    <3> HIDE DEF h, Good
    <3> QED BY <3>2
  <2> HIDE DEF T
  <2>3. T \in SUBSET Nat BY Zenon DEF T
  <2>4. \A m \in Nat : m \in T BY <2>1, <2>2, <2>3, SetInduction, Zenon
  <2> QED BY <2>4, Zenon DEF T
<1>2. ASSUME NEW m \in Nat, NEW g, NEW h, Good(g, m), Good(h, m), NEW j \in Nat, j <= m
      PROVE  g[j] = h[j]
  <2> DEFINE T == {k \in Nat : k <= m => g[k] = h[k]}
  <2>1. 0 \in T BY <1>2, Zenon
  <2>2. ASSUME NEW k \in T PROVE k + 1 \in T BY <1>2, <2>2
  <2> HIDE DEF T
  <2>3. T \in SUBSET Nat BY Zenon DEF T
  <2>4. \A k \in Nat : k \in T BY <2>1, <2>2, <2>3, SetInduction, Zenon
  <2> QED BY <2>4, <1>2, Zenon DEF T
<1> DEFINE w(m) == CHOOSE g : Good(g, m)
<1> DEFINE f == [k \in Nat |-> w(k)[k]]
<1>3. \A m \in Nat : Good(w(m), m) BY <1>1, Zenon
<1> HIDE DEF w
<1>4. f[0] = Unapplied(current) BY <1>3, Zenon
<1>5. ASSUME NEW k \in Nat PROVE f[k + 1] = ApplyOperation(d, current, f[k], nodes[k + 1])
  <2>1. Good(w(k), k) /\ Good(w(k + 1), k + 1) BY <1>3
  <2>2. Good(w(k + 1), k) BY <2>1
  <2>3. w(k + 1)[k] = w(k)[k]
    <3> HIDE DEF Good, f
    <3> QED BY <2>1, <2>2, <1>2
  <2>4. w(k + 1)[k + 1] = ApplyOperation(d, current, w(k + 1)[k], nodes[k + 1]) BY <2>1
  <2> QED BY <2>3, <2>4
<1> DEFINE R(e) == e = [k \in Nat |-> IF k = 0 THEN Unapplied(current) ELSE ApplyOperation(d, current, e[k - 1], nodes[k])]
<1>6. R(f)
  <2> SUFFICES ASSUME NEW k \in Nat
               PROVE f[k] = IF k = 0 THEN Unapplied(current) ELSE ApplyOperation(d, current, f[k - 1], nodes[k])
    BY Zenon
  <2>1. CASE k = 0 BY <2>1, <1>4, Zenon
  <2>2. CASE k # 0
    <3>1. k - 1 \in Nat /\ (k - 1) + 1 = k BY <2>2
    <3> HIDE DEF f
    <3>2. f[(k - 1) + 1] = ApplyOperation(d, current, f[k - 1], nodes[k]) BY <3>1, <1>5, Zenon
    <3> QED BY <3>1, <3>2, <2>2, Zenon
  <2> QED BY <2>1, <2>2, Zenon
<1>7. Applied(d, current, nodes) = CHOOSE e : R(e) BY Zenon DEF Applied
<1> HIDE DEF f
<1>8. R(Applied(d, current, nodes)) BY <1>6, <1>7, Zenon
<1> QED BY <1>8

----------------------------------------------------------------------------
(* OperationGraph::topological_order.                                      *)

\* Two places are the same or one is before the other, and the first of a
\* set of places is one of them.
LEMMA FirstIsFirst ==
  ASSUME NEW S \in SUBSET (Nat \X Nat), S # {}
  PROVE  /\ First(S) \in S
         /\ \A q \in S \ {First(S)} : Before(First(S), q)
<1> DEFINE T == {p[1] : p \in S}
<1>1. T \in SUBSET Nat /\ T # {} BY Zenon
<1>2. PICK a \in T : \A y \in T : a <= y
  <2> HIDE DEF T
  <2> QED BY <1>1, LeastNat, Zenon
<1> DEFINE U == {p[2] : p \in {q \in S : q[1] = a}}
<1>3. U \in SUBSET Nat /\ U # {} BY Zenon
<1>4. PICK b \in U : \A y \in U : b <= y
  <2> HIDE DEF U, T
  <2> QED BY <1>3, LeastNat, Zenon
<1>5. <<a, b>> \in S OBVIOUS
<1>6. \A q \in S \ {<<a, b>>} : Before(<<a, b>>, q)
  <2> SUFFICES ASSUME NEW q \in S, q # <<a, b>> PROVE Before(<<a, b>>, q)
    BY Zenon
  <2>1. q[1] \in T /\ q \in Nat \X Nat BY Zenon
  <2>2. a <= q[1] BY <2>1, <1>2, Zenon
  <2>3. CASE q[1] = a
    <3>1. q[2] \in U BY <2>3, Zenon
    <3>2. b <= q[2] BY <3>1, <1>4, Zenon
    <3>3. b # q[2] BY <2>3, <2>1
    <3>4. b \in Nat /\ q[2] \in Nat BY <1>3, <2>1, Zenon
    <3> QED BY <2>3, <3>2, <3>3, <3>4 DEF Before
  <2>4. CASE q[1] # a
    BY <2>2, <2>4, <2>1, <1>1 DEF Before
  <2> QED BY <2>3, <2>4, Zenon
<1> HIDE DEF T, U
<1>7. \E p \in S : \A q \in S \ {p} : Before(p, q) BY <1>5, <1>6, Zenon
<1> QED BY <1>7, Zenon DEF First

\* A sequence of different nodes in which each one comes after the nodes it
\* depends on.
Ordered(deps, s) ==
  /\ s \in Seq(DOMAIN deps)
  /\ \A m, n \in DOMAIN s : s[m] = s[n] => m = n
  /\ \A n \in DOMAIN s : \A q \in deps[s[n]] : \E m \in DOMAIN s : m < n /\ s[m] = q

\* One step of the loop keeps a sequence ordered.
LEMMA EmitOrdered ==
  ASSUME NEW deps, DOMAIN deps \in SUBSET (Nat \X Nat), NEW s, Ordered(deps, s)
  PROVE  Ordered(deps, Emit(deps, s))
<1>1. CASE Ready(deps, s) = {} BY <1>1, Zenon DEF Emit
<1>2. CASE Ready(deps, s) # {}
  <2> DEFINE p == First(Ready(deps, s))
  <2>1. Ready(deps, s) \in SUBSET (Nat \X Nat) BY Zenon DEF Ready
  <2>2. p \in Ready(deps, s) BY <1>2, <2>1, FirstIsFirst, Zenon
  <2>3. Emit(deps, s) = Append(s, p) BY <1>2, Zenon DEF Emit
  <2> HIDE DEF p
  <2>4. p \in DOMAIN deps /\ p \notin Range(s) /\ deps[p] \subseteq Range(s)
    BY <2>2, Zenon DEF Ready
  <2>5. s \in Seq(DOMAIN deps) BY Zenon DEF Ordered
  <2> DEFINE t == Append(s, p)
  <2>6. /\ t \in Seq(DOMAIN deps)
        /\ Len(t) = Len(s) + 1
        /\ DOMAIN t = 1 .. Len(s) + 1
        /\ DOMAIN s = 1 .. Len(s)
        /\ t[Len(s) + 1] = p
        /\ \A n \in DOMAIN s : t[n] = s[n]
        /\ Len(s) \in Nat
    BY <2>4, <2>5
  <2> HIDE DEF t
  <2>7. \A n \in DOMAIN s : s[n] # p BY <2>4, Zenon DEF Range
  <2>8. \A q \in deps[p] : \E m \in DOMAIN s : s[m] = q BY <2>4, Zenon DEF Range
  <2>9. ASSUME NEW m \in DOMAIN t, NEW n \in DOMAIN t, t[m] = t[n] PROVE m = n
    <3>1. CASE m \in DOMAIN s /\ n \in DOMAIN s BY <3>1, <2>6, <2>9, Zenon DEF Ordered
    <3>2. CASE m \notin DOMAIN s /\ n \notin DOMAIN s BY <3>2, <2>6
    <3>3. CASE m \in DOMAIN s /\ n \notin DOMAIN s BY <3>3, <2>6, <2>7, <2>9
    <3>4. CASE m \notin DOMAIN s /\ n \in DOMAIN s BY <3>4, <2>6, <2>7, <2>9
    <3> QED BY <3>1, <3>2, <3>3, <3>4, Zenon
  <2>10. ASSUME NEW n \in DOMAIN t, NEW q \in deps[t[n]]
         PROVE  \E m \in DOMAIN t : m < n /\ t[m] = q
    <3>1. CASE n \in DOMAIN s
      <4>1. PICK m \in DOMAIN s : m < n /\ s[m] = q BY <3>1, <2>6, Zenon DEF Ordered
      <4> QED BY <4>1, <2>6
    <3>2. CASE n \notin DOMAIN s
      <4>1. n = Len(s) + 1 /\ t[n] = p BY <3>2, <2>6
      <4>2. PICK m \in DOMAIN s : s[m] = q BY <4>1, <2>8, Zenon
      <4> QED BY <4>1, <4>2, <2>6
    <3> QED BY <3>1, <3>2, Zenon
  <2>11. Ordered(deps, t) BY <2>6, <2>9, <2>10, Zenon DEF Ordered
  <2> QED BY <2>11, <2>3, Zenon DEF t
<1> QED BY <1>1, <1>2, Zenon

\* The order is a sequence of different nodes, each after the nodes it
\* depends on; it has every node when it is as long as there are nodes.
LEMMA TopologicalOrderOrdered ==
  ASSUME NEW deps, DOMAIN deps \in SUBSET (Nat \X Nat), IsFiniteSet(DOMAIN deps)
  PROVE  /\ Ordered(deps, TopologicalOrder(deps))
         /\ Len(TopologicalOrder(deps)) = Cardinality(DOMAIN deps)
              => Range(TopologicalOrder(deps)) = DOMAIN deps
<1> DEFINE T == {k \in Nat : Ordered(deps, Emitted(deps)[k])}
<1>1. 0 \in T
  <2>1. Ordered(deps, << >>) BY DEF Ordered
  <2> QED BY <2>1, EmittedStep, Zenon
<1>2. ASSUME NEW k \in T PROVE k + 1 \in T
  <2>1. k \in Nat /\ Ordered(deps, Emitted(deps)[k]) BY Zenon
  <2>2. Ordered(deps, Emit(deps, Emitted(deps)[k])) BY <2>1, EmitOrdered, Zenon
  <2>3. Ordered(deps, Emitted(deps)[k + 1]) BY <2>1, <2>2, EmittedStep, Zenon
  <2> QED BY <2>1, <2>3
<1> HIDE DEF T
<1>3. T \in SUBSET Nat BY Zenon DEF T
<1>4. \A k \in Nat : k \in T BY <1>1, <1>2, <1>3, SetInduction, Zenon
<1>5. Cardinality(DOMAIN deps) \in Nat BY FS_CardinalityType, Zenon
<1>6. Ordered(deps, TopologicalOrder(deps)) BY <1>4, <1>5, Zenon DEF T, TopologicalOrder
<1> DEFINE s == TopologicalOrder(deps)
<1>7. ASSUME Len(s) = Cardinality(DOMAIN deps) PROVE Range(s) = DOMAIN deps
  <2>1. Ordered(deps, s) BY <1>6, Zenon
  <2> HIDE DEF s
  <2>2. s \in Seq(DOMAIN deps) BY <2>1, Zenon DEF Ordered
  <2>3. Len(s) \in Nat /\ DOMAIN s = 1 .. Len(s) /\ s \in [1 .. Len(s) -> DOMAIN deps] BY <2>2
  <2>4. s \in Injection(1 .. Len(s), DOMAIN deps)
    BY <2>1, <2>3, Zenon DEF Ordered, Injection, IsInjective
  <2>5. Cardinality(1 .. Len(s)) = Len(s)
    <3>1. 1 \in Int /\ Len(s) \in Int BY <2>3
    <3>2. Cardinality(1 .. Len(s)) = IF 1 > Len(s) THEN 0 ELSE Len(s) - 1 + 1
      BY <3>1, FS_Interval, Zenon
    <3> QED BY <3>2, <2>3
  <2>6. s \in Surjection(1 .. Len(s), DOMAIN deps)
    <3> DEFINE I == 1 .. Len(s)
    <3>1. Cardinality(I) = Cardinality(DOMAIN deps) BY <2>5, <1>7, Zenon
    <3>2. s \in Injection(I, DOMAIN deps) BY <2>4, Zenon
    <3> HIDE DEF I
    <3>3. s \in Surjection(I, DOMAIN deps) BY <3>1, <3>2, FS_Injection, Zenon
    <3> QED BY <3>3, Zenon DEF I
  <2> QED BY <2>6, <2>3, Zenon DEF Surjection, Range
<1> QED BY <1>6, <1>7, Zenon

----------------------------------------------------------------------------
(* compile_operations: the nodes of the plan are the changes of the diff.  *)

\* The intents of a normalized desired state.
LEMMA IntentType ==
  ASSUME NEW d, Normalized(d)
  PROVE  /\ Len(d) \in Nat /\ DOMAIN d = 1 .. Len(d)
         /\ \A n \in DOMAIN d :
              /\ d[n] \in Intents
              /\ DOMAIN d[n].overwrites = 1 .. Len(d[n].overwrites)
              /\ Len(d[n].overwrites) \in Nat
<1>1. d \in Seq(Intents) BY Zenon DEF Normalized
<1>2. \A n \in DOMAIN d : d[n] \in Intents BY <1>1
<1>3. \A i \in Intents : i.overwrites \in Seq([target : STRING \ {NoKey}, value : Nat])
  BY Zenon DEF Intents
<1> QED BY <1>1, <1>2, <1>3

\* What a place of the diff is.
LEMMA PlaceFacts ==
  ASSUME NEW world, NEW d, Normalized(d)
  PROVE  /\ Places(world, d) \in SUBSET (Nat \X Nat)
         /\ \A n, m : <<n, m>> \in Places(world, d) <=>
              /\ n \in DOMAIN d
              /\ m = 0 \/ (WithOverwrites(world, d[n]) /\ m \in DOMAIN d[n].overwrites)
<1>1. \A p : p \in Places(world, d) <=>
        \E n \in DOMAIN d :
          p \in {n} \X (0 .. IF WithOverwrites(world, d[n]) THEN Len(d[n].overwrites) ELSE 0)
  BY Zenon DEF Places
<1>2. ASSUME NEW n \in DOMAIN d, NEW m
      PROVE  m \in 0 .. (IF WithOverwrites(world, d[n]) THEN Len(d[n].overwrites) ELSE 0)
               <=> m = 0 \/ (WithOverwrites(world, d[n]) /\ m \in DOMAIN d[n].overwrites)
  BY IntentType
<1>3. ASSUME NEW p \in Places(world, d) PROVE p \in Nat \X Nat
  <2>1. PICK n \in DOMAIN d :
          p \in {n} \X (0 .. IF WithOverwrites(world, d[n]) THEN Len(d[n].overwrites) ELSE 0)
    BY <1>1, Zenon
  <2> QED BY <2>1, IntentType
<1>4. ASSUME NEW n, NEW m
      PROVE  <<n, m>> \in Places(world, d) <=>
              /\ n \in DOMAIN d
              /\ m = 0 \/ (WithOverwrites(world, d[n]) /\ m \in DOMAIN d[n].overwrites)
  <2>1. ASSUME NEW k
        PROVE  <<n, m>> \in {k} \X (0 .. IF WithOverwrites(world, d[k])
                                         THEN Len(d[k].overwrites) ELSE 0)
                <=> n = k /\ m \in 0 .. (IF WithOverwrites(world, d[n])
                                         THEN Len(d[n].overwrites) ELSE 0)
    BY Zenon
  <2>2. CASE n \notin DOMAIN d BY <2>1, <2>2, <1>1, Zenon
  <2>3. CASE n \in DOMAIN d
    <3>1. <<n, m>> \in Places(world, d) <=>
            m \in 0 .. (IF WithOverwrites(world, d[n]) THEN Len(d[n].overwrites) ELSE 0)
      BY <2>1, <2>3, <1>1, Zenon
    <3> QED BY <3>1, <2>3, <1>2, Zenon
  <2> QED BY <2>2, <2>3, Zenon
<1> QED BY <1>3, <1>4, Zenon

LEMMA PlacesFinite ==
  ASSUME NEW world, NEW d, Normalized(d)
  PROVE  IsFiniteSet(Places(world, d))
<1> DEFINE f == [n \in DOMAIN d |->
                   {n} \X (0 .. IF WithOverwrites(world, d[n]) THEN Len(d[n].overwrites) ELSE 0)]
           I == DOMAIN d
           F == {f[n] : n \in I}
<1>1. Places(world, d) = UNION F BY Zenon DEF Places
<1>2. IsFiniteSet(I)
  <2>1. I = 1 .. Len(d) /\ 1 \in Int /\ Len(d) \in Int BY IntentType
  <2> QED BY <2>1, FS_Interval, Zenon
<1>3. \A T \in F : IsFiniteSet(T)
  <2> SUFFICES ASSUME NEW n \in I PROVE IsFiniteSet(f[n])
    BY Zenon
  <2> DEFINE J == 0 .. (IF WithOverwrites(world, d[n]) THEN Len(d[n].overwrites) ELSE 0)
  <2>1. 0 \in Int /\ (IF WithOverwrites(world, d[n]) THEN Len(d[n].overwrites) ELSE 0) \in Int
    BY IntentType
  <2>2. IsFiniteSet(J) BY <2>1, FS_Interval, Zenon
  <2>3. IsFiniteSet({n}) BY FS_Singleton, Zenon
  <2>4. f[n] = {n} \X J BY Zenon
  <2> HIDE DEF J, f
  <2>5. \A A, B : IsFiniteSet(A) /\ IsFiniteSet(B) => IsFiniteSet(A \X B)
    BY FS_Product, Zenon
  <2> QED BY <2>2, <2>3, <2>4, <2>5
<1>4. f \in Surjection(I, F) BY Zenon DEF Surjection
<1> HIDE DEF f, F, I
<1>5. IsFiniteSet(F) BY <1>2, <1>4, FS_Surjection, Zenon
<1>6. IsFiniteSet(UNION F) BY <1>3, <1>5, FS_UNION, Zenon
<1> QED BY <1>1, <1>6, Zenon

\* The places of the plan's nodes, in execution order.
Order(world, d) == TopologicalOrder(Dependencies(Operations(Diff(world, d)), d))

NodeAt(world, d, p) == ChangeAt(world, d, p[1], p[2])

LEMMA OperationsFacts ==
  ASSUME NEW world, NEW d, Normalized(d)
  PROVE  /\ DOMAIN Operations(Diff(world, d)) =
              {p \in Places(world, d) : NodeAt(world, d, p).op # "NoOp"}
         /\ \A p \in DOMAIN Operations(Diff(world, d)) :
              Operations(Diff(world, d))[p] = NodeAt(world, d, p)
<1>1. /\ DOMAIN Diff(world, d) = Places(world, d)
      /\ \A p \in Places(world, d) : Diff(world, d)[p] = NodeAt(world, d, p)
  BY Zenon DEF Diff, NodeAt
<1> DEFINE f == Diff(world, d)
<1> HIDE DEF f
<1>2. /\ DOMAIN f = Places(world, d)
      /\ \A p \in Places(world, d) : f[p] = NodeAt(world, d, p)
  BY <1>1, Zenon DEF f
<1>3. Operations(f) = [p \in {q \in DOMAIN f : f[q].op # "NoOp"} |-> f[p]]
  BY Zenon DEF Operations, Restrict
<1>4. /\ DOMAIN Operations(f) = {p \in Places(world, d) : NodeAt(world, d, p).op # "NoOp"}
      /\ \A p \in DOMAIN Operations(f) : Operations(f)[p] = NodeAt(world, d, p)
  BY <1>2, <1>3, Zenon
<1> QED BY <1>4, Zenon DEF f

\* The plan lists nodes of the diff, each after the nodes that produce what it
\* consumes; a plan that is ok lists them all, and the diff has no conflict.
LEMMA PlanFacts ==
  ASSUME NEW world, NEW d, Normalized(d)
  PROVE  LET compiled == CompileOperations(world, d)
             s == Order(world, d)
         IN /\ Len(compiled.nodes) \in Nat /\ DOMAIN compiled.nodes = 1 .. Len(compiled.nodes)
            /\ DOMAIN s = 1 .. Len(compiled.nodes)
            /\ compiled.ok \in BOOLEAN
            /\ \A n \in DOMAIN s :
                 /\ s[n] \in Places(world, d)
                 /\ compiled.nodes[n] = NodeAt(world, d, s[n])
                 /\ compiled.nodes[n].op # "NoOp"
            /\ \A m, n \in DOMAIN s : s[m] = s[n] => m = n
            /\ \A n \in DOMAIN s : \A q \in Places(world, d) :
                 /\ NodeAt(world, d, q).op # "NoOp"
                 /\ q # s[n]
                 /\ Produces(NodeAt(world, d, q)) \cap Consumes(compiled.nodes[n], d) # {}
                 => \E m \in DOMAIN s : m < n /\ s[m] = q
            /\ compiled.ok => \A q \in Places(world, d) :
                 /\ NodeAt(world, d, q).op # "Conflict"
                 /\ NodeAt(world, d, q).op # "NoOp" => \E n \in DOMAIN s : s[n] = q
<1> DEFINE nodes == Operations(Diff(world, d))
           deps == Dependencies(nodes, d)
           s == Order(world, d)
           compiled == CompileOperations(world, d)
<1>1. /\ DOMAIN nodes = {p \in Places(world, d) : NodeAt(world, d, p).op # "NoOp"}
      /\ \A p \in DOMAIN nodes : nodes[p] = NodeAt(world, d, p)
  BY OperationsFacts, Zenon
<1>2. s = TopologicalOrder(deps) BY Zenon DEF Order
<1>3. compiled = [ok |-> ~HasConflict(Diff(world, d)) /\ Len(s) = Cardinality(DOMAIN nodes),
              nodes |-> [n \in DOMAIN s |-> nodes[s[n]]]]
  BY Zenon DEF CompileOperations, Order
<1>4. HasConflict(Diff(world, d)) <=> \E p \in Places(world, d) : NodeAt(world, d, p).op = "Conflict"
  BY Zenon DEF HasConflict, Diff, NodeAt
<1> HIDE DEF nodes
<1>5. /\ DOMAIN deps = DOMAIN nodes
      /\ \A p \in DOMAIN nodes : deps[p] =
           {q \in DOMAIN nodes \ {p} : Produces(nodes[q]) \cap Consumes(nodes[p], d) # {}}
  BY Zenon DEF Dependencies
<1> HIDE DEF s, compiled, deps
<1>6. DOMAIN nodes \in SUBSET (Nat \X Nat) /\ IsFiniteSet(DOMAIN nodes)
  <2>1. DOMAIN nodes \in SUBSET Places(world, d) BY <1>1, Zenon
  <2>2. IsFiniteSet(DOMAIN nodes) BY <2>1, PlacesFinite, FS_Subset, Zenon
  <2> QED BY <2>1, <2>2, PlaceFacts, Zenon
<1>7. /\ Ordered(deps, s)
      /\ Len(s) = Cardinality(DOMAIN nodes) => Range(s) = DOMAIN nodes
  BY <1>2, <1>5, <1>6, TopologicalOrderOrdered, Zenon
<1>8. s \in Seq(DOMAIN nodes) BY <1>7, <1>5, Zenon DEF Ordered
<1>9. Len(s) \in Nat /\ DOMAIN s = 1 .. Len(s) /\ \A n \in DOMAIN s : s[n] \in DOMAIN nodes
  BY <1>8
<1>10. /\ compiled.ok = (~HasConflict(Diff(world, d)) /\ Len(s) = Cardinality(DOMAIN nodes))
       /\ compiled.nodes = [n \in DOMAIN s |-> nodes[s[n]]]
  BY <1>3, Zenon
<1>11. /\ Len(compiled.nodes) = Len(s)
       /\ DOMAIN compiled.nodes = DOMAIN s
       /\ \A n \in DOMAIN s : compiled.nodes[n] = nodes[s[n]]
  BY <1>9, <1>10
<1>12. ASSUME NEW n \in DOMAIN s
       PROVE  /\ s[n] \in Places(world, d)
              /\ compiled.nodes[n] = NodeAt(world, d, s[n])
              /\ compiled.nodes[n].op # "NoOp"
  BY <1>1, <1>9, <1>11
<1>13. ASSUME NEW n \in DOMAIN s, NEW q \in Places(world, d),
              NodeAt(world, d, q).op # "NoOp", q # s[n],
              Produces(NodeAt(world, d, q)) \cap Consumes(compiled.nodes[n], d) # {}
       PROVE  \E m \in DOMAIN s : m < n /\ s[m] = q
  <2>1. q \in DOMAIN nodes /\ nodes[q] = NodeAt(world, d, q) BY <1>1, <1>13, Zenon
  <2>2. s[n] \in DOMAIN nodes /\ compiled.nodes[n] = nodes[s[n]] BY <1>9, <1>11, Zenon
  <2>3. q \in deps[s[n]] BY <2>1, <2>2, <1>5, <1>13, Zenon
  <2> QED BY <2>3, <1>7, Zenon DEF Ordered
<1>14. ASSUME compiled.ok, NEW q \in Places(world, d)
       PROVE  /\ NodeAt(world, d, q).op # "Conflict"
              /\ NodeAt(world, d, q).op # "NoOp" => \E n \in DOMAIN s : s[n] = q
  <2>1. ~HasConflict(Diff(world, d)) /\ Range(s) = DOMAIN nodes BY <1>14, <1>10, <1>7, Zenon
  <2> QED BY <2>1, <1>4, <1>1, Zenon DEF Range
<1>15. \A m, n \in DOMAIN s : s[m] = s[n] => m = n BY <1>7, Zenon DEF Ordered
<1>16. compiled.ok \in BOOLEAN BY <1>10, Zenon
<1> QED BY <1>9, <1>11, <1>12, <1>13, <1>14, <1>15, <1>16 DEF s, compiled

----------------------------------------------------------------------------
(* diff-engine: what a lookup and a change say.                            *)

LEMMA ResolveByName ==
  ASSUME NEW world, NEW i, DOMAIN world \subseteq Refs, i.match = ByName, i.name # NoKey
  PROVE  /\ Resolve(world, i) \in DOMAIN world \cup {Missing, Conflict}
         /\ Resolve(world, i) = Missing <=> Named(world, i) = {}
         /\ \A r : Resolve(world, i) = r /\ r \in DOMAIN world <=>
              r \in Named(world, i) /\ \A s \in Named(world, i) : s = r
<1> DEFINE named == Named(world, i)
<1>0. ByName # BadId BY Zenon DEF ByName, BadId
<1>1. Resolve(world, i) = IF \E r, s \in named : r # s THEN Conflict
                          ELSE IF named = {} THEN Missing
                          ELSE CHOOSE r \in named : TRUE
  BY <1>0, Zenon DEF Resolve
<1>3. Missing \notin DOMAIN world /\ Conflict \notin DOMAIN world /\ Missing # Conflict
  BY Zenon DEF Refs, Kinds, Missing, Conflict
<1>4. \A r \in named : r \in DOMAIN world BY Zenon DEF Named
<1> HIDE DEF named
<1>5. CASE named = {}
  <2>1. Resolve(world, i) = Missing BY <1>1, <1>5, Zenon
  <2> QED BY <2>1, <1>3, <1>5, Zenon DEF named
<1>6. CASE \E r, s \in named : r # s
  <2>1. Resolve(world, i) = Conflict BY <1>1, <1>6, Zenon
  <2>2. PICK r \in named : \E s \in named : r # s BY <1>6, Zenon
  <2> QED BY <2>1, <2>2, <1>3, Zenon DEF named
<1>7. CASE named # {} /\ \A r, s \in named : r = s
  <2>1. Resolve(world, i) = CHOOSE r \in named : TRUE BY <1>1, <1>7, Zenon
  <2>2. (CHOOSE r \in named : TRUE) \in named BY <1>7, Zenon
  <2>3. Resolve(world, i) \in named BY <2>1, <2>2, Zenon
  <2>4. Resolve(world, i) \in DOMAIN world BY <2>3, <1>4, Zenon
  <2> QED BY <2>3, <2>4, <1>7, <1>3, Zenon DEF named
<1> QED BY <1>5, <1>6, <1>7, Zenon

LEMMA ResolveById ==
  ASSUME NEW world, NEW i, i.match \in Refs
  PROVE  Resolve(world, i) = IF i.match \in DOMAIN world THEN i.match ELSE Missing
<1>1. i.match # ByName /\ i.match # BadId BY DEF Refs, Kinds, ByName, BadId
<1> QED BY <1>1, Zenon DEF Resolve

\* A lookup yields a resource of the intent's kind, or Missing, or Conflict.
LEMMA ResolveType ==
  ASSUME NEW world, DOMAIN world \subseteq Refs, NEW d, Normalized(d), NEW n \in DOMAIN d
  PROVE  /\ Resolve(world, d[n]) \in DOMAIN world \cup {Missing, Conflict}
         /\ Resolve(world, d[n]) \in DOMAIN world => Resolve(world, d[n])[1] = d[n].kind
<1>1. d[n].match \in Refs \cup {ByName, BadId} BY IntentType, Zenon DEF Intents
<1>2. CASE d[n].match = ByName /\ d[n].name = NoKey
  BY <1>2, Zenon DEF Resolve, Refs, Kinds, Conflict
<1>3. CASE d[n].match = ByName /\ d[n].name # NoKey
  BY <1>3, ResolveByName, Zenon DEF Named
<1>4. CASE d[n].match = BadId
  BY <1>4 DEF Resolve, Refs, Kinds, Conflict, BadId, ByName
<1>5. CASE d[n].match \in Refs
  <2>1. d[n].match[1] = d[n].kind
    BY <1>5 DEF Normalized, Refs, Kinds, ByName, BadId
  <2>2. Missing \notin DOMAIN world BY Zenon DEF Refs, Kinds, Missing
  <2> QED BY <1>5, <2>1, <2>2, ResolveById, Zenon
<1> QED BY <1>1, <1>2, <1>3, <1>4, <1>5, Zenon

\* The references that are none.
LEMMA NotRefs ==
  /\ Missing \notin Refs /\ Conflict \notin Refs /\ None \notin Refs /\ Missing # Conflict
  /\ None \notin {Missing, Conflict}
BY Zenon DEF Refs, Kinds, Missing, Conflict, None

\* Keys are unique, so the intent of a key is the one declared with it.
LEMMA IntentOfKey ==
  ASSUME NEW d, Validate(d), NEW n \in DOMAIN d
  PROVE  /\ Declared(d, d[n].kind, d[n].key) = {n}
         /\ IntentOf(d, d[n].kind, d[n].key) = d[n]
<1>1. Declared(d, d[n].kind, d[n].key) = {n} BY Zenon DEF Declared, Validate
<1>2. (CHOOSE m \in {n} : TRUE) = n BY Zenon
<1> QED BY <1>1, <1>2, Zenon DEF IntentOf

\* What the decision about an intent says of the intent and the guild.
LEMMA ResourceChangeFacts ==
  ASSUME NEW world, DOMAIN world \subseteq Refs, NEW d, Normalized(d), Validate(d), NEW n \in DOMAIN d
  PROVE  LET i == d[n]
             r == Resolve(world, i)
             op == ResourceChange(world, i)
         IN /\ op \in {"Conflict", "Create", "Update", "Delete", "NoOp"}
            /\ op = "Create" <=> /\ i.state = "Present" /\ r = Missing
                                 /\ i.owner # "Referenced" /\ i.match = ByName
            /\ op = "Update" <=> /\ i.state = "Present" /\ r \in DOMAIN world
                                 /\ i.owner # "Referenced" /\ Changed(i, world[r])
            /\ op = "Delete" <=> /\ i.state = "Absent" /\ r \in DOMAIN world
                                 /\ i.owner # "Referenced"
            /\ op = "NoOp" <=> \/ /\ i.state = "Present" /\ r \in DOMAIN world
                                  /\ i.owner = "Referenced" \/ ~Changed(i, world[r])
                               \/ i.state = "Absent" /\ r = Missing
            /\ r = Conflict => op = "Conflict"
<1>1. d[n].state \in {"Present", "Absent"} BY IntentType, Zenon DEF Intents
<1>2. Resolve(world, d[n]) \in DOMAIN world \cup {Missing, Conflict} BY ResolveType, Zenon
<1>3. Missing \notin DOMAIN world /\ Conflict \notin DOMAIN world /\ Missing # Conflict
  BY NotRefs, Zenon
<1>4. d[n].state = "Absent" => d[n].owner # "Referenced" BY Zenon DEF Validate
<1> QED BY <1>1, <1>2, <1>3, <1>4, Zenon DEF ResourceChange

\* A change about an overwrite is about a channel the request may change.
LEMMA OverwriteChangeFacts ==
  ASSUME NEW world, DOMAIN world \subseteq Refs, NEW d, Normalized(d), Validate(d),
         NEW n, NEW m, m # 0, <<n, m>> \in Places(world, d)
  PROVE  LET i == d[n]
             o == i.overwrites[m]
             r == Resolve(world, i)
             t == OverwriteTarget(world, d, o.target)
             op == OverwriteChange(world, d, i, o)
         IN /\ n \in DOMAIN d /\ m \in DOMAIN i.overwrites
            /\ i.kind = "Channel" /\ i.state = "Present" /\ i.owner # "Referenced"
            /\ o.target \in STRING \ {NoKey} /\ o.value \in Nat
            /\ (r = Missing /\ ResourceChange(world, i) = "Create") \/ r \in DOMAIN world
            /\ op \in {"Conflict", "Create", "Update", "NoOp"}
            /\ op = "NoOp" <=> /\ ResourceChange(world, i) # "Create"
                               /\ t # Conflict
                               /\ t \in DOMAIN world[r].overwrites
                               /\ world[r].overwrites[t] = o.value
            /\ r \in DOMAIN world /\ t = Conflict => op = "Conflict"
<1>1. n \in DOMAIN d /\ WithOverwrites(world, d[n]) /\ m \in DOMAIN d[n].overwrites
  BY PlaceFacts, Zenon
<1>2. d[n].overwrites \in Seq([target : STRING \ {NoKey}, value : Nat]) /\ d[n].kind \in Kinds
  BY <1>1, IntentType, Zenon DEF Intents
<1>3. d[n].overwrites[m] \in [target : STRING \ {NoKey}, value : Nat]
  <2>1. \A S : \A q \in Seq(S) : \A k \in DOMAIN q : q[k] \in S OBVIOUS
  <2> QED BY <2>1, <1>1, <1>2, Zenon
<1>4. d[n].kind = "Channel" BY <1>1, <1>2 DEF Normalized, Kinds
<1>5. /\ d[n].state = "Present" /\ d[n].owner # "Referenced"
      /\ ResourceChange(world, d[n]) # "Conflict"
  BY <1>1, Zenon DEF WithOverwrites
<1>6. \/ Resolve(world, d[n]) = Missing /\ ResourceChange(world, d[n]) = "Create"
      \/ Resolve(world, d[n]) \in DOMAIN world
  BY <1>1, <1>5, ResourceChangeFacts, ResolveType, Zenon
<1>7. Resolve(world, d[n]) \in DOMAIN world => ResourceChange(world, d[n]) # "Create"
  BY <1>1, ResourceChangeFacts, NotRefs, Zenon
<1> QED BY <1>1, <1>3, <1>4, <1>5, <1>6, <1>7, Zenon DEF OverwriteChange

----------------------------------------------------------------------------
(* Calls: resource-resolution and what run_op makes of a node.             *)

\* What the key of an intent stands for.
IntentRef(before, binding, i) ==
  IF <<i.kind, i.key>> \in DOMAIN binding THEN binding[<<i.kind, i.key>>]
  ELSE Resolve(before, i)

LEMMA KeyRefOfIntent ==
  ASSUME NEW d, Validate(d), NEW n \in DOMAIN d, NEW before, NEW binding
  PROVE  KeyRef(d, before, binding, d[n].kind, d[n].key) = IntentRef(before, binding, d[n])
<1>1. /\ Declared(d, d[n].kind, d[n].key) # {}
      /\ IntentOf(d, d[n].kind, d[n].key) = d[n]
  BY IntentOfKey, Zenon
<1> QED BY <1>1, Zenon DEF KeyRef, IntentRef

\* One overwrite per target, so a target finds the overwrite it was taken from.
LEMMA OverwriteValueOfTarget ==
  ASSUME NEW d, Normalized(d), NEW n \in DOMAIN d, NEW m \in DOMAIN d[n].overwrites
  PROVE  OverwriteValue(d[n], d[n].overwrites[m].target) = d[n].overwrites[m].value
<1> DEFINE ov == d[n].overwrites
<1>1. \A k, l \in DOMAIN ov : ov[k].target = ov[l].target => k = l BY Zenon DEF Normalized
<1>2. (CHOOSE k \in DOMAIN ov : ov[k].target = ov[m].target) = m BY <1>1, Zenon
<1> QED BY <1>2, Zenon DEF OverwriteValue

\* The call of the node at place p, read off the intent there.
CallAt(d, before, binding, p, node, call) ==
  LET i == d[p[1]]
      o == i.overwrites[p[2]]
  IN /\ p[1] \in DOMAIN d
     /\ call.kind = i.kind /\ call.name = i.name
     /\ node.key = i.key /\ i.owner # "Referenced"
     /\ call.op \in {"Create", "Update", "Delete", "Upsert"}
     /\ p[2] = 0 =>
          /\ call.op = ResourceChange(before, i) /\ call.op # "Upsert"
          /\ node.op = call.op /\ node.kind = i.kind
          /\ call.value = i.value /\ call.target = None
     /\ p[2] # 0 =>
          /\ p[2] \in DOMAIN i.overwrites
          /\ node.kind = "Overwrite" /\ node.target = o.target
          /\ call.op = "Upsert" /\ call.value = o.value
          /\ call.target = TargetRef(d, before, binding, o.target)
     /\ call.op = "Create" =>
          /\ call.ref = None
          /\ call.parent = IF i.parent = NoKey THEN None
                           ELSE KeyRef(d, before, binding, "Channel", i.parent)
     /\ call.op # "Create" =>
          /\ call.ref = KeyRef(d, before, binding, i.kind, i.key)
          /\ call.parent = None
     /\ Produces(node) = IF call.op = "Create" THEN {<<i.kind, i.key>>} ELSE {}

LEMMA CallFacts ==
  ASSUME NEW d, Normalized(d), Validate(d), NEW before, DOMAIN before \subseteq Refs,
         NEW p \in Places(before, d), NEW binding,
         NodeAt(before, d, p).op \notin {"NoOp", "Conflict"}
  PROVE  CallAt(d, before, binding, p, NodeAt(before, d, p),
                Call(d, before, binding, NodeAt(before, d, p)))
<1>1. PICK n \in Nat, m \in Nat : p = <<n, m>> BY PlaceFacts
<1>2. n \in DOMAIN d BY <1>1, PlaceFacts, Zenon
<1>3. d[n].kind \in Kinds BY <1>2, IntentType, Zenon DEF Intents
<1>4. IntentOf(d, d[n].kind, d[n].key) = d[n] BY <1>2, IntentOfKey, Zenon
<1> DEFINE node == NodeAt(before, d, p)
           call == Call(d, before, binding, node)
<1>5. node = ChangeAt(before, d, n, m) BY <1>1, Zenon DEF NodeAt
<1>6. CASE m = 0
  <2>1. /\ node.op = ResourceChange(before, d[n]) /\ node.kind = d[n].kind
        /\ node.key = d[n].key
    BY <1>5, <1>6 DEF ChangeAt
  <2>2. node.op \in {"Create", "Update", "Delete"} BY <2>1, <1>2, ResourceChangeFacts, Zenon
  <2>3. d[n].owner # "Referenced" BY <2>1, <2>2, <1>2, ResourceChangeFacts, Zenon
  <2> HIDE DEF node
  <2>4. /\ call.op = node.op /\ call.kind = d[n].kind /\ call.name = d[n].name
        /\ call.value = d[n].value /\ call.target = None
        /\ node.op = "Create" =>
             /\ call.ref = None
             /\ call.parent = IF d[n].parent = NoKey THEN None
                              ELSE KeyRef(d, before, binding, "Channel", d[n].parent)
        /\ node.op # "Create" =>
             /\ call.ref = KeyRef(d, before, binding, d[n].kind, d[n].key)
             /\ call.parent = None
    BY <2>1, <1>3, <1>4, Zenon DEF Call, Kinds
  <2>5. Produces(node) = IF node.op = "Create" THEN {<<d[n].kind, d[n].key>>} ELSE {}
    BY <2>1, <1>3, Zenon DEF Produces, Kinds
  <2> HIDE DEF call
  <2> QED BY <2>1, <2>2, <2>3, <2>4, <2>5, <1>1, <1>2, <1>6, Zenon DEF node, call, CallAt
<1>7. CASE m # 0
  <2>1. /\ m \in DOMAIN d[n].overwrites /\ d[n].kind = "Channel" /\ d[n].owner # "Referenced"
    BY <1>1, <1>7, OverwriteChangeFacts
  <2>2. /\ node.kind = "Overwrite" /\ node.key = d[n].key
        /\ node.target = d[n].overwrites[m].target
    BY <1>5, <1>7 DEF ChangeAt
  <2>3. OverwriteValue(d[n], d[n].overwrites[m].target) = d[n].overwrites[m].value
    BY <1>2, <2>1, OverwriteValueOfTarget, Zenon
  <2> HIDE DEF node
  <2>4. /\ call.op = "Upsert" /\ call.kind = "Channel" /\ call.name = d[n].name
        /\ call.value = d[n].overwrites[m].value
        /\ call.target = TargetRef(d, before, binding, d[n].overwrites[m].target)
        /\ call.ref = KeyRef(d, before, binding, "Channel", d[n].key)
        /\ call.parent = None
    BY <2>1, <2>2, <2>3, <1>4, Zenon DEF Call
  <2>5. Produces(node) = {} BY <2>2, Zenon DEF Produces
  <2> HIDE DEF call
  <2> QED BY <2>1, <2>2, <2>4, <2>5, <1>1, <1>2, <1>7, Zenon DEF node, call, CallAt
<1> QED BY <1>6, <1>7, Zenon

----------------------------------------------------------------------------
(* What a call leaves of the guild, one lemma for each operation.          *)

LEMMA WithFacts ==
  ASSUME NEW f, NEW x, NEW v
  PROVE  /\ \A y : y \in DOMAIN With(f, x, v) <=> y \in DOMAIN f \/ y = x
         /\ With(f, x, v)[x] = v
         /\ \A y \in DOMAIN f : y # x => With(f, x, v)[y] = f[y]
         /\ IsMap(With(f, x, v))
BY Zenon DEF With, IsMap

\* f without x.
Without(f, x) == Restrict(f, DOMAIN f \ {x})

LEMMA WithoutFacts ==
  ASSUME NEW f, NEW x
  PROVE  /\ \A y : y \in DOMAIN Without(f, x) <=> y \in DOMAIN f /\ y # x
         /\ \A y \in DOMAIN f : y # x => Without(f, x)[y] = f[y]
         /\ IsMap(Without(f, x))
BY Zenon DEF Without, Restrict, IsMap

\* A guild after the deletion of q.
Gone(g, q) == [r \in DOMAIN g \ {q} |-> Detached(g[r], {q})]

LEMMA GoneFacts ==
  ASSUME NEW g, NEW q
  PROVE  /\ \A y : y \in DOMAIN Gone(g, q) <=> y \in DOMAIN g /\ y # q
         /\ \A y \in DOMAIN g : y # q => Gone(g, q)[y] = Detached(g[y], {q})
         /\ IsMap(Gone(g, q))
<1> HIDE DEF Detached
<1> QED BY Zenon DEF Gone, IsMap

LEMMA EffectCases ==
  ASSUME NEW g, NEW call, NEW newId
  PROVE  /\ call.op = "Create" =>
              Effect(g, call, newId) = With(g, <<call.kind, newId>>, NewResource(g, call))
         /\ call.op = "Update" /\ call.ref \in DOMAIN g =>
              Effect(g, call, newId) = With(g, call.ref, Updated(g[call.ref], call))
         /\ call.op = "Upsert" /\ call.ref \in DOMAIN g =>
              Effect(g, call, newId) = With(g, call.ref, Overwritten(g[call.ref], call))
         /\ call.op = "Delete" /\ call.ref \in DOMAIN g =>
              Effect(g, call, newId) = Gone(g, call.ref)
         /\ call.op # "Create" /\ call.ref \notin DOMAIN g => Effect(g, call, newId) = g
<1> HIDE DEF With, Restrict
<1> QED BY Zenon DEF Effect, Gone

\* A resource is the record of its four fields.
LEMMA ResourceFields ==
  ASSUME NEW c, IsResource(c)
  PROVE  /\ c = [name |-> c.name, value |-> c.value, parent |-> c.parent,
                 overwrites |-> c.overwrites]
         /\ c.name \in STRING \ {NoKey} /\ c.value \in Nat /\ c.parent \in Refs \cup {None}
         /\ DOMAIN c.overwrites \subseteq Refs
         /\ c.overwrites \in [DOMAIN c.overwrites -> Nat]
         /\ IsMap(c.overwrites)
<1>1. /\ c.name \in STRING \ {NoKey} /\ c.value \in Nat /\ c.parent \in Refs \cup {None}
      /\ c = [name |-> c.name, value |-> c.value, parent |-> c.parent,
              overwrites |-> c.overwrites]
  BY Zenon DEF IsResource
<1>2. /\ DOMAIN c.overwrites \subseteq Refs
      /\ c.overwrites \in [DOMAIN c.overwrites -> Nat]
  BY Zenon DEF IsResource
<1>3. IsMap(c.overwrites) BY <1>2, Zenon DEF IsMap
<1> QED BY <1>1, <1>2, <1>3, Zenon

\* The fields of what a call makes of a resource.
LEMMA NewFields ==
  ASSUME NEW g, NEW call
  PROVE  /\ NewResource(g, call).name = call.name
         /\ NewResource(g, call).value =
              Given(call.value, IF call.kind = "Role" THEN g[EveryoneRole].value ELSE 0, Unset)
         /\ NewResource(g, call).parent = call.parent
         /\ NewResource(g, call).overwrites =
              IF call.parent \in DOMAIN g THEN g[call.parent].overwrites ELSE << >>
BY Zenon DEF NewResource

LEMMA UpdatedFields ==
  ASSUME NEW c, IsResource(c), NEW call
  PROVE  /\ Updated(c, call).name = Given(call.name, c.name, NoKey)
         /\ Updated(c, call).value = Given(call.value, c.value, Unset)
         /\ Updated(c, call).parent = c.parent
         /\ Updated(c, call).overwrites = c.overwrites
<1>1. c = [name |-> c.name, value |-> c.value, parent |-> c.parent,
           overwrites |-> c.overwrites]
  BY ResourceFields, Zenon
<1> QED BY <1>1, Zenon DEF Updated

LEMMA OverwrittenFields ==
  ASSUME NEW c, IsResource(c), NEW call
  PROVE  /\ Overwritten(c, call).name = c.name
         /\ Overwritten(c, call).value = c.value
         /\ Overwritten(c, call).parent = c.parent
         /\ Overwritten(c, call).overwrites = With(c.overwrites, call.target, call.value)
<1>1. c = [name |-> c.name, value |-> c.value, parent |-> c.parent,
           overwrites |-> c.overwrites]
  BY ResourceFields, Zenon
<1> HIDE DEF With
<1> QED BY <1>1, Zenon DEF Overwritten

\* What is left of a resource when q is gone.
LEMMA DetachedFields ==
  ASSUME NEW c, IsResource(c), NEW q
  PROVE  /\ Detached(c, {q}).name = c.name
         /\ Detached(c, {q}).value = c.value
         /\ Detached(c, {q}).parent = IF c.parent = q THEN None ELSE c.parent
         /\ Detached(c, {q}).overwrites = Without(c.overwrites, q)
         /\ IsResource(Detached(c, {q}))
<1>1. /\ c.name \in STRING \ {NoKey} /\ c.value \in Nat /\ c.parent \in Refs \cup {None}
      /\ DOMAIN c.overwrites \subseteq Refs
      /\ c.overwrites \in [DOMAIN c.overwrites -> Nat]
  BY ResourceFields, Zenon
<1>2. c = [name |-> c.name, value |-> c.value, parent |-> c.parent,
           overwrites |-> c.overwrites]
  BY ResourceFields, Zenon
<1> DEFINE p == IF c.parent = q THEN None ELSE c.parent
           w == Without(c.overwrites, q)
<1>3. p \in Refs \cup {None} BY <1>1, Zenon
<1>4. DOMAIN w \subseteq Refs /\ w \in [DOMAIN w -> Nat]
  BY <1>1, Zenon DEF Without, Restrict
<1>5. Detached(c, {q}) = [c EXCEPT !.parent = p, !.overwrites = w]
  BY Zenon DEF Detached, Without
<1> HIDE DEF p, w
<1>6. Detached(c, {q}) = [name |-> c.name, value |-> c.value, parent |-> p, overwrites |-> w]
  BY <1>2, <1>5, Zenon
<1>7. IsResource(Detached(c, {q})) BY <1>1, <1>3, <1>4, <1>6 DEF IsResource
<1>8. /\ Detached(c, {q}).name = c.name /\ Detached(c, {q}).value = c.value
      /\ Detached(c, {q}).parent = p /\ Detached(c, {q}).overwrites = w
  BY <1>6
<1>9. p = (IF c.parent = q THEN None ELSE c.parent) /\ w = Without(c.overwrites, q)
  BY Zenon DEF p, w
<1> QED BY <1>7, <1>8, <1>9, Zenon

\* Nothing gone, nothing lost.
LEMMA DetachedFromNone ==
  ASSUME NEW c, IsResource(c)
  PROVE  Detached(c, {}) = c
<1>1. c = [name |-> c.name, value |-> c.value, parent |-> c.parent,
           overwrites |-> c.overwrites]
  BY ResourceFields, Zenon
<1>2. Restrict(c.overwrites, DOMAIN c.overwrites \ {}) = c.overwrites
  <2>1. IsMap(c.overwrites) BY ResourceFields, Zenon
  <2>2. DOMAIN c.overwrites \ {} = DOMAIN c.overwrites BY Zenon
  <2> QED BY <2>1, <2>2, Zenon DEF Restrict, IsMap
<1>3. Detached(c, {}) = [c EXCEPT !.parent = c.parent, !.overwrites = c.overwrites]
  BY <1>2, Zenon DEF Detached
<1> QED BY <1>1, <1>3, Zenon

\* What a call may carry.
IsCall(call) ==
  /\ call.op \in {"Create", "Update", "Delete", "Upsert"}
  /\ call.kind \in Kinds
  /\ call.op \in {"Create", "Update"} => call.name \in STRING
  /\ call.value \in Nat \cup {Unset} /\ call.parent \in Refs \cup {None}
  /\ call.op = "Create" => call.name # NoKey
  /\ call.op = "Upsert" => call.target \in Refs /\ call.value \in Nat

LEMMA GivenType ==
  /\ \A v \in Nat \cup {Unset} : \A w \in Nat : Given(v, w, Unset) \in Nat
  /\ \A v \in STRING : \A w \in STRING \ {NoKey} : Given(v, w, NoKey) \in STRING \ {NoKey}
<1>1. \A v \in Nat \cup {Unset} : \A w \in Nat : Given(v, w, Unset) \in Nat
  BY Zenon DEF Given, Unset
<1>2. \A v \in STRING : \A w \in STRING \ {NoKey} : Given(v, w, NoKey) \in STRING \ {NoKey}
  BY Zenon DEF Given
<1> QED BY <1>1, <1>2, Zenon

LEMMA NewIsResource ==
  ASSUME NEW g, IsGuild(g), EveryoneRole \in DOMAIN g, NEW call, IsCall(call), call.op = "Create"
  PROVE  IsResource(NewResource(g, call))
<1> DEFINE v == IF call.kind = "Role" THEN g[EveryoneRole].value ELSE 0
           w == IF call.parent \in DOMAIN g THEN g[call.parent].overwrites ELSE << >>
           n == Given(call.value, v, Unset)
<1>1. v \in Nat
  <2>1. g[EveryoneRole].value \in Nat BY ResourceFields, Zenon DEF IsGuild
  <2> QED BY <2>1
<1> HIDE DEF v
<1>2. n \in Nat BY <1>1, GivenType, Zenon DEF IsCall
<1>3. DOMAIN w \subseteq Refs /\ w \in [DOMAIN w -> Nat]
  <2>1. CASE call.parent \in DOMAIN g
    <3>1. w = g[call.parent].overwrites BY <2>1, Zenon
    <3> HIDE DEF w
    <3> QED BY <2>1, <3>1, ResourceFields, Zenon DEF IsGuild
  <2>2. CASE call.parent \notin DOMAIN g
    <3>1. DOMAIN << >> = {} /\ << >> \in [{} -> Nat] OBVIOUS
    <3> QED BY <2>2, <3>1, Zenon
  <2> QED BY <2>1, <2>2, Zenon
<1>4. NewResource(g, call) = [name |-> call.name, value |-> n, parent |-> call.parent,
                              overwrites |-> w]
  BY Zenon DEF NewResource, v
<1>5. /\ call.name \in STRING \ {NoKey} /\ call.parent \in Refs \cup {None} BY Zenon DEF IsCall
<1> HIDE DEF n, w
<1> QED BY <1>2, <1>3, <1>4, <1>5 DEF IsResource

LEMMA UpdatedIsResource ==
  ASSUME NEW c, IsResource(c), NEW call, IsCall(call), call.op = "Update"
  PROVE  IsResource(Updated(c, call))
<1>1. /\ c.name \in STRING \ {NoKey} /\ c.value \in Nat /\ c.parent \in Refs \cup {None}
      /\ DOMAIN c.overwrites \subseteq Refs
      /\ c.overwrites \in [DOMAIN c.overwrites -> Nat]
  BY ResourceFields, Zenon
<1>2. c = [name |-> c.name, value |-> c.value, parent |-> c.parent,
           overwrites |-> c.overwrites]
  BY ResourceFields, Zenon
<1> DEFINE n == Given(call.name, c.name, NoKey)
           v == Given(call.value, c.value, Unset)
<1>3. n \in STRING \ {NoKey} /\ v \in Nat BY <1>1, GivenType, Zenon DEF IsCall
<1>4. Updated(c, call) = [c EXCEPT !.name = n, !.value = v] BY Zenon DEF Updated
<1> HIDE DEF n, v
<1>5. Updated(c, call) = [name |-> n, value |-> v, parent |-> c.parent,
                          overwrites |-> c.overwrites]
  BY <1>2, <1>4, Zenon
<1> QED BY <1>1, <1>3, <1>5 DEF IsResource

LEMMA OverwrittenIsResource ==
  ASSUME NEW c, IsResource(c), NEW call, IsCall(call), call.op = "Upsert"
  PROVE  IsResource(Overwritten(c, call))
<1>1. /\ c.name \in STRING \ {NoKey} /\ c.value \in Nat /\ c.parent \in Refs \cup {None}
      /\ DOMAIN c.overwrites \subseteq Refs
      /\ c.overwrites \in [DOMAIN c.overwrites -> Nat]
  BY ResourceFields, Zenon
<1>2. c = [name |-> c.name, value |-> c.value, parent |-> c.parent,
           overwrites |-> c.overwrites]
  BY ResourceFields, Zenon
<1> DEFINE w == With(c.overwrites, call.target, call.value)
<1>3. DOMAIN w \subseteq Refs /\ w \in [DOMAIN w -> Nat]
  BY <1>1, Zenon DEF With, IsCall
<1>4. Overwritten(c, call) = [c EXCEPT !.overwrites = w] BY Zenon DEF Overwritten
<1> HIDE DEF w
<1>5. Overwritten(c, call) = [name |-> c.name, value |-> c.value, parent |-> c.parent,
                              overwrites |-> w]
  BY <1>2, <1>4, Zenon
<1> QED BY <1>1, <1>3, <1>5 DEF IsResource

\* A call touches one resource, the one it names or the one it creates; what
\* is deleted is also gone from the others.
LEMMA EffectFrame ==
  ASSUME NEW g, NEW call, NEW newId, NEW r \in DOMAIN g,
         call.op \in {"Create", "Update", "Delete", "Upsert"},
         call.op = "Create" => r # <<call.kind, newId>>,
         call.op # "Create" => r # call.ref
  PROVE  /\ r \in DOMAIN Effect(g, call, newId)
         /\ IF call.op = "Delete" /\ call.ref \in DOMAIN g
            THEN Effect(g, call, newId)[r] = Detached(g[r], {call.ref})
            ELSE Effect(g, call, newId)[r] = g[r]
<1>0. \A x, v : r # x => r \in DOMAIN With(g, x, v) /\ With(g, x, v)[r] = g[r]
  BY WithFacts
<1>1. CASE call.op = "Create"
  <2>1. Effect(g, call, newId) = With(g, <<call.kind, newId>>, NewResource(g, call))
    BY <1>1, EffectCases, Zenon
  <2>2. call.op # "Delete" BY <1>1
  <2>3. r # <<call.kind, newId>> BY <1>1, Zenon
  <2> DEFINE x == <<call.kind, newId>>
             v == NewResource(g, call)
  <2> HIDE DEF v, x
  <2>4. r \in DOMAIN With(g, x, v) /\ With(g, x, v)[r] = g[r] BY <2>3, <1>0, Zenon DEF x
  <2> QED BY <2>1, <2>2, <2>4, Zenon DEF v, x
<1>2. CASE call.op # "Create" /\ call.ref \notin DOMAIN g
  <2>1. Effect(g, call, newId) = g BY <1>2, EffectCases, Zenon
  <2> QED BY <1>2, <2>1, Zenon
<1>3. CASE call.op = "Update" /\ call.ref \in DOMAIN g
  <2>1. Effect(g, call, newId) = With(g, call.ref, Updated(g[call.ref], call))
    BY <1>3, EffectCases, Zenon
  <2>2. r # call.ref /\ call.op # "Delete" BY <1>3, Zenon
  <2> DEFINE v == Updated(g[call.ref], call)
  <2> HIDE DEF v
  <2>3. r \in DOMAIN With(g, call.ref, v) /\ With(g, call.ref, v)[r] = g[r] BY <2>2, <1>0, Zenon
  <2> QED BY <2>1, <2>2, <2>3, Zenon DEF v
<1>4. CASE call.op = "Upsert" /\ call.ref \in DOMAIN g
  <2>1. Effect(g, call, newId) = With(g, call.ref, Overwritten(g[call.ref], call))
    BY <1>4, EffectCases, Zenon
  <2>2. r # call.ref /\ call.op # "Delete" BY <1>4, Zenon
  <2> DEFINE v == Overwritten(g[call.ref], call)
  <2> HIDE DEF v
  <2>3. r \in DOMAIN With(g, call.ref, v) /\ With(g, call.ref, v)[r] = g[r] BY <2>2, <1>0, Zenon
  <2> QED BY <2>1, <2>2, <2>3, Zenon DEF v
<1>5. CASE call.op = "Delete" /\ call.ref \in DOMAIN g
  <2>1. Effect(g, call, newId) = Gone(g, call.ref) BY <1>5, EffectCases, Zenon
  <2>2. r # call.ref BY <1>5, Zenon
  <2>3. r \in DOMAIN Gone(g, call.ref) /\ Gone(g, call.ref)[r] = Detached(g[r], {call.ref})
    BY <2>2, GoneFacts, Zenon
  <2> QED BY <1>5, <2>1, <2>3, Zenon
<1> QED BY <1>1, <1>2, <1>3, <1>4, <1>5, Zenon

\* A call makes a guild of a guild.
LEMMA EffectIsGuild ==
  ASSUME NEW g, IsGuild(g), NEW call, IsCall(call), NEW newId \in Nat,
         call.op = "Create" => EveryoneRole \in DOMAIN g
  PROVE  IsGuild(Effect(g, call, newId))
<1>0. call.op \in {"Create", "Update", "Delete", "Upsert"} BY Zenon DEF IsCall
<1>1. \A s \in DOMAIN g : IsResource(g[s]) /\ s \in Refs BY Zenon DEF IsGuild
<1>2. \A r \in Refs : \A c : IsResource(c) => IsGuild(With(g, r, c))
  <2> SUFFICES ASSUME NEW r \in Refs, NEW c, IsResource(c) PROVE IsGuild(With(g, r, c))
    BY Zenon
  <2> QED BY <1>1, WithFacts DEF IsGuild
<1>3. CASE call.op = "Create"
  <2>1. <<call.kind, newId>> \in Refs BY Zenon DEF Refs, IsCall
  <2>2. IsResource(NewResource(g, call)) BY <1>3, NewIsResource, Zenon
  <2>3. Effect(g, call, newId) = With(g, <<call.kind, newId>>, NewResource(g, call))
    BY <1>3, EffectCases, Zenon
  <2> QED BY <2>1, <2>2, <2>3, <1>2, Zenon
<1>4. CASE call.op # "Create" /\ call.ref \notin DOMAIN g
  <2>1. Effect(g, call, newId) = g BY <1>4, EffectCases, Zenon
  <2> QED BY <2>1, Zenon
<1>5. CASE call.op = "Update" /\ call.ref \in DOMAIN g
  <2>1. IsResource(Updated(g[call.ref], call)) BY <1>1, <1>5, UpdatedIsResource, Zenon
  <2>2. Effect(g, call, newId) = With(g, call.ref, Updated(g[call.ref], call))
    BY <1>5, EffectCases, Zenon
  <2> QED BY <2>1, <2>2, <1>1, <1>2, <1>5, Zenon
<1>6. CASE call.op = "Upsert" /\ call.ref \in DOMAIN g
  <2>1. IsResource(Overwritten(g[call.ref], call)) BY <1>1, <1>6, OverwrittenIsResource, Zenon
  <2>2. Effect(g, call, newId) = With(g, call.ref, Overwritten(g[call.ref], call))
    BY <1>6, EffectCases, Zenon
  <2> QED BY <2>1, <2>2, <1>1, <1>2, <1>6, Zenon
<1>7. CASE call.op = "Delete" /\ call.ref \in DOMAIN g
  <2>1. \A s \in DOMAIN g : IsResource(Detached(g[s], {call.ref})) BY <1>1, DetachedFields, Zenon
  <2>2. IsGuild(Gone(g, call.ref))
    <3>1. /\ \A y : y \in DOMAIN Gone(g, call.ref) <=> y \in DOMAIN g /\ y # call.ref
          /\ \A y \in DOMAIN g : y # call.ref =>
               Gone(g, call.ref)[y] = Detached(g[y], {call.ref})
          /\ IsMap(Gone(g, call.ref))
      BY GoneFacts, Zenon
    <3>2. \A y \in DOMAIN Gone(g, call.ref) : IsResource(Gone(g, call.ref)[y]) /\ y \in Refs
      BY <1>1, <2>1, <3>1
    <3> QED BY <3>1, <3>2, Zenon DEF IsGuild
  <2>3. Effect(g, call, newId) = Gone(g, call.ref) BY <1>7, EffectCases, Zenon
  <2> QED BY <2>2, <2>3, Zenon
<1> QED BY <1>0, <1>3, <1>4, <1>5, <1>6, <1>7, Zenon

\* Only a deletion takes something away, and @everyone is not deleted.
LEMMA EffectKeeps ==
  ASSUME NEW g, NEW call, NEW newId, NEW r \in DOMAIN g,
         call.op \in {"Create", "Update", "Delete", "Upsert"},
         ~(call.op = "Delete" /\ call.ref = r)
  PROVE  r \in DOMAIN Effect(g, call, newId)
<1>1. CASE call.op = "Create"
  <2>1. Effect(g, call, newId) = With(g, <<call.kind, newId>>, NewResource(g, call))
    BY <1>1, EffectCases, Zenon
  <2> QED BY <2>1, WithFacts
<1>2. CASE call.op # "Create" /\ call.ref \notin DOMAIN g
  BY <1>2, EffectCases, Zenon
<1>3. CASE call.op \in {"Update", "Upsert"} /\ call.ref \in DOMAIN g
  <2>1. \E v : Effect(g, call, newId) = With(g, call.ref, v) BY <1>3, EffectCases, Zenon
  <2> QED BY <2>1, WithFacts
<1>4. CASE call.op = "Delete" /\ call.ref \in DOMAIN g
  <2>1. Effect(g, call, newId) = Gone(g, call.ref) BY <1>4, EffectCases, Zenon
  <2>2. r # call.ref BY <1>4, Zenon
  <2> QED BY <2>1, <2>2, GoneFacts, Zenon
<1> QED BY <1>1, <1>2, <1>3, <1>4, Zenon

----------------------------------------------------------------------------
(* The shape of the state.                                                 *)

Actions ==
  {NoAction}
    \cup [do : {"Delete", "Restore", "Recreate"}, ref : Refs]
    \cup [do : {"RestoreOverwrite"}, ref : Refs, target : Refs, value : Nat \cup {Unset}]

StepResults ==
  [outcome : {"Success", "Failed", "Unresolved", "Skipped"}, rollback : Actions]

RequestInv ==
  /\ desired \in DesiredStates /\ Validate(desired)
  /\ snapshot \in Snapshots
  /\ plan = CompileOperations(snapshot, desired)

\* What is bound was created by the job.
BoundInv ==
  \A x \in DOMAIN bound :
    bound[x] \in Refs /\ FirstNewId <= bound[x][2] /\ bound[x][2] < nextId

\* What an action restores is in the snapshot; it touches what the request may
\* change, or what the job created with an id below next.
Allowed(action, next) ==
  /\ action.do \in {"Restore", "Recreate"} => action.ref \in DOMAIN snapshot
  /\ action.do # "None" =>
       action.ref \in Managed \/ (FirstNewId <= action.ref[2] /\ action.ref[2] < next)

ActionsInv == \A n \in DOMAIN steps : Allowed(steps[n].rollback, nextId)

TypeInv ==
  /\ IsGuild(guild)
  /\ EveryoneRole \in DOMAIN guild
  /\ \A r \in DOMAIN guild : r[2] < nextId
  /\ phase \in {"Review", "Forward", "Succeeded", "Rollback", "RolledBack"}
  /\ nextId \in Nat /\ FirstNewId <= nextId
  /\ steps \in Seq(StepResults)
  /\ Len(steps) <= Len(plan.nodes)
  /\ DOMAIN undone \subseteq DOMAIN steps
  /\ drift \in Nat
  /\ phase # "Review" => plan.ok
  /\ phase = "Review" => steps = << >>
  /\ phase \notin {"Rollback", "RolledBack"} => DOMAIN undone = {}

Inv == RequestInv /\ TypeInv /\ BoundInv /\ ActionsInv

----------------------------------------------------------------------------
(* The calls the job makes.                                                *)

LEMMA RequestFacts ==
  ASSUME RequestInv
  PROVE  /\ Normalized(desired) /\ Validate(desired)
         /\ IsGuild(snapshot) /\ DOMAIN snapshot \subseteq Refs
         /\ \A r \in DOMAIN snapshot : r[2] < FirstNewId
         /\ FirstNewId \in Nat /\ GuildId \in Nat /\ GuildId < FirstNewId
         /\ EveryoneRole \in Refs /\ EveryoneRole \in DOMAIN snapshot
         /\ \A r \in DOMAIN snapshot :
              /\ snapshot[r].parent \in DOMAIN snapshot \cup {None}
              /\ DOMAIN snapshot[r].overwrites \subseteq DOMAIN snapshot
<1>1. /\ Normalized(desired) /\ Validate(desired) /\ IsGuild(snapshot)
      /\ \A r \in DOMAIN snapshot :
           /\ r[2] < FirstNewId
           /\ snapshot[r].parent \in DOMAIN snapshot \cup {None}
           /\ DOMAIN snapshot[r].overwrites \subseteq DOMAIN snapshot
      /\ EveryoneRole \in DOMAIN snapshot
      /\ FirstNewId \in Nat /\ GuildId \in Nat /\ GuildId < FirstNewId
  BY ResourceAssumption, Zenon DEF RequestInv
<1>2. DOMAIN snapshot \subseteq Refs BY <1>1, Zenon DEF IsGuild
<1>3. EveryoneRole \in Refs BY <1>1, Zenon DEF EveryoneRole, Refs, Kinds
<1> QED BY <1>1, <1>2, <1>3, Zenon

\* A key resolves to a reference or not at all.
LEMMA KeyRefType ==
  ASSUME RequestInv, BoundInv, NEW kind, NEW key
  PROVE  KeyRef(desired, snapshot, bound, kind, key) \in Refs \cup {Missing, Conflict}
<1>1. CASE <<kind, key>> \in DOMAIN bound BY <1>1, Zenon DEF KeyRef, BoundInv
<1>2. CASE <<kind, key>> \notin DOMAIN bound /\ Declared(desired, kind, key) = {}
  BY <1>2, Zenon DEF KeyRef
<1>3. CASE <<kind, key>> \notin DOMAIN bound /\ Declared(desired, kind, key) # {}
  <2> DEFINE n == CHOOSE m \in Declared(desired, kind, key) : TRUE
  <2>1. n \in Declared(desired, kind, key) BY <1>3, Zenon
  <2>2. KeyRef(desired, snapshot, bound, kind, key) = Resolve(snapshot, desired[n])
    BY <1>3, Zenon DEF KeyRef, IntentOf
  <2> HIDE DEF n
  <2>3. n \in DOMAIN desired BY <2>1, Zenon DEF Declared
  <2>4. Resolve(snapshot, desired[n]) \in DOMAIN snapshot \cup {Missing, Conflict}
    BY <2>3, RequestFacts, ResolveType, Zenon
  <2> QED BY <2>2, <2>4, RequestFacts, Zenon
<1> QED BY <1>1, <1>2, <1>3, Zenon

\* The place of the next operation.
NextPlace == Order(snapshot, desired)[Len(steps) + 1]

LEMMA NextPlaceFacts ==
  ASSUME RequestInv, TypeInv, Running
  PROVE  /\ NextPlace \in Places(snapshot, desired)
         /\ NextNode = NodeAt(snapshot, desired, NextPlace)
         /\ NodeAt(snapshot, desired, NextPlace).op \notin {"NoOp", "Conflict"}
         /\ Len(steps) \in Nat
         /\ Len(steps) + 1 \in DOMAIN Order(snapshot, desired)
<1>1. Len(steps) \in Nat BY DEF TypeInv
<1>2. plan.ok BY Zenon DEF TypeInv, Running
<1>3. Normalized(desired) BY RequestFacts, Zenon
<1> DEFINE g == snapshot
           d == desired
           s == Order(g, d)
           c == CompileOperations(g, d)
<1>4. /\ Len(c.nodes) \in Nat
      /\ DOMAIN s = 1 .. Len(c.nodes)
      /\ \A n \in DOMAIN s :
           /\ s[n] \in Places(g, d)
           /\ c.nodes[n] = NodeAt(g, d, s[n])
           /\ c.nodes[n].op # "NoOp"
      /\ c.ok => \A q \in Places(g, d) : NodeAt(g, d, q).op # "Conflict"
  BY <1>3, PlanFacts, Zenon
<1>5. c = plan BY Zenon DEF RequestInv
<1> HIDE DEF c, s, g, d
<1>6. Len(steps) + 1 \in DOMAIN s BY <1>1, <1>4, <1>5 DEF Running
<1> DEFINE n == Len(steps) + 1
<1> HIDE DEF n
<1>7. /\ s[n] \in Places(g, d)
      /\ plan.nodes[n] = NodeAt(g, d, s[n])
      /\ NodeAt(g, d, s[n]).op \notin {"NoOp", "Conflict"}
  BY <1>2, <1>4, <1>5, <1>6, Zenon DEF n
<1> QED BY <1>1, <1>6, <1>7, Zenon DEF n, s, g, d, NextPlace, NextNode

\* The call of the next operation is about an intent the request may change.
LEMMA NextCallFacts ==
  ASSUME RequestInv, TypeInv, BoundInv, Running, Resolved(NextCall)
  PROVE  /\ IsCall(NextCall)
         /\ NextCall.op # "Create" =>
              /\ NextCall.ref \in Refs
              /\ NextCall.ref \in Managed
                 \/ (FirstNewId <= NextCall.ref[2] /\ NextCall.ref[2] < nextId)
<1> DEFINE p == NextPlace
           call == NextCall
           i == desired[p[1]]
           o == i.overwrites[p[2]]
<1>1. /\ p \in Places(snapshot, desired)
      /\ NextNode = NodeAt(snapshot, desired, p)
      /\ NodeAt(snapshot, desired, p).op \notin {"NoOp", "Conflict"}
  BY NextPlaceFacts, Zenon
<1>2. call = Call(desired, snapshot, bound, NodeAt(snapshot, desired, p))
  BY <1>1, Zenon DEF NextCall
<1> HIDE DEF p, call
<1>0. CallAt(desired, snapshot, bound, p, NextNode, call)
  BY <1>1, <1>2, RequestFacts, CallFacts, Zenon
<1>3. /\ p[1] \in DOMAIN desired
      /\ call.kind = i.kind /\ call.name = i.name /\ i.owner # "Referenced"
      /\ call.op \in {"Create", "Update", "Delete", "Upsert"}
      /\ p[2] = 0 => call.op = ResourceChange(snapshot, i) /\ call.op # "Upsert" /\ call.value = i.value
      /\ p[2] # 0 =>
           /\ p[2] \in DOMAIN i.overwrites
           /\ call.op = "Upsert" /\ call.value = o.value
           /\ call.target = TargetRef(desired, snapshot, bound, o.target)
      /\ call.op = "Create" =>
           call.parent = IF i.parent = NoKey THEN None
                         ELSE KeyRef(desired, snapshot, bound, "Channel", i.parent)
      /\ call.op # "Create" =>
           /\ call.ref = KeyRef(desired, snapshot, bound, i.kind, i.key)
           /\ call.parent = None
  BY <1>0, Zenon DEF CallAt
<1>4. i \in Intents BY <1>3, RequestFacts, IntentType, Zenon
<1>5. i.kind \in Kinds /\ i.name \in STRING /\ i.value \in Nat \cup {Unset}
  BY <1>4, Zenon DEF Intents
<1>6. {call.ref, call.target, call.parent} \cap {Missing, Conflict} = {}
  BY Zenon DEF Resolved, call
<1>7. call.op = "Create" => call.name # NoKey
  BY <1>3, RequestFacts, ResourceChangeFacts DEF Validate
<1>8. call.parent \in Refs \cup {None}
  BY <1>3, <1>6, KeyRefType, Zenon
<1>9. call.op = "Upsert" => call.target \in Refs /\ call.value \in Nat
  <2> SUFFICES ASSUME call.op = "Upsert" PROVE call.target \in Refs /\ call.value \in Nat
    BY Zenon
  <2>1. p[2] # 0 BY <1>3, Zenon
  <2>2. TargetRef(desired, snapshot, bound, o.target) \in Refs \cup {Missing, Conflict}
    BY KeyRefType, RequestFacts, Zenon DEF TargetRef
  <2>3. call.target \in Refs BY <2>1, <2>2, <1>3, <1>6, Zenon
  <2>4. o \in [target : STRING \ {NoKey}, value : Nat]
    <3>1. i.overwrites \in Seq([target : STRING \ {NoKey}, value : Nat]) BY <1>4, Zenon DEF Intents
    <3>2. \A S : \A q \in Seq(S) : \A k \in DOMAIN q : q[k] \in S OBVIOUS
    <3> QED BY <3>1, <3>2, <2>1, <1>3, Zenon
  <2>5. call.value \in Nat BY <2>1, <2>4, <1>3, Zenon
  <2> QED BY <2>3, <2>5, Zenon
<1>10. call.value \in Nat \cup {Unset} BY <1>3, <1>5, <1>9, Zenon
<1>11. IsCall(call)
  <2> HIDE DEF i, o
  <2> QED BY <1>3, <1>5, <1>7, <1>8, <1>9, <1>10, Zenon DEF IsCall
<1>12. ASSUME call.op # "Create"
       PROVE  /\ call.ref \in Refs
              /\ call.ref \in Managed \/ (FirstNewId <= call.ref[2] /\ call.ref[2] < nextId)
  <2>1. call.ref \in Refs BY <1>12, <1>3, <1>6, KeyRefType, Zenon
  <2>2. KeyRef(desired, snapshot, bound, i.kind, i.key) =
          IntentRef(snapshot, bound, i)
    BY <1>3, RequestFacts, KeyRefOfIntent, Zenon
  <2>3. Resolve(snapshot, i) \in Managed BY <1>3, Zenon DEF Managed
  <2>4. call.ref = KeyRef(desired, snapshot, bound, i.kind, i.key) BY <1>12, <1>3, Zenon
  <2> HIDE DEF i
  <2>5. CASE <<i.kind, i.key>> \in DOMAIN bound
    BY <2>1, <2>2, <2>4, <2>5, Zenon DEF BoundInv, IntentRef
  <2>6. CASE <<i.kind, i.key>> \notin DOMAIN bound
    BY <2>1, <2>2, <2>3, <2>4, <2>6, Zenon DEF IntentRef
  <2> QED BY <2>5, <2>6, Zenon
<1> QED BY <1>11, <1>12, Zenon DEF call

\* What an action is, and what it is allowed to touch when its step succeeds.
LEMMA ActionFields ==
  ASSUME NEW action \in Actions, action # NoAction
  PROVE  /\ action.do \in {"Delete", "Restore", "Recreate", "RestoreOverwrite"}
         /\ action.ref \in Refs
         /\ action.do = "RestoreOverwrite" => action.target \in Refs /\ action.value \in Nat \cup {Unset}
<1>1. CASE action \in [do : {"Delete", "Restore", "Recreate"}, ref : Refs] BY <1>1, Zenon
<1>2. CASE action \in [do : {"RestoreOverwrite"}, ref : Refs, target : Refs, value : Nat \cup {Unset}]
  BY <1>2, Zenon
<1> QED BY <1>1, <1>2, Zenon DEF Actions

LEMMA RollbackActionFacts ==
  ASSUME RequestInv, nextId \in Nat, FirstNewId <= nextId,
         NEW call, IsCall(call),
         call.op # "Create" =>
           /\ call.ref \in Refs
           /\ call.ref \in Managed \/ (FirstNewId <= call.ref[2] /\ call.ref[2] < nextId)
  PROVE  /\ RollbackAction(call, nextId) \in Actions
         /\ Allowed(RollbackAction(call, nextId), IF call.op = "Create" THEN nextId + 1 ELSE nextId)
<1> DEFINE a == RollbackAction(call, nextId)
<1>0. FirstNewId \in Nat BY RequestFacts, Zenon
<1>1. CASE call.op = "Create"
  <2>1. a = [do |-> "Delete", ref |-> <<call.kind, nextId>>] BY <1>1, Zenon DEF RollbackAction
  <2>2. <<call.kind, nextId>> \in Refs BY Zenon DEF IsCall, Refs
  <2> HIDE DEF a
  <2>3. a \in Actions BY <2>1, <2>2, Zenon DEF Actions
  <2>4. Allowed(a, nextId + 1) BY <2>1, <1>0 DEF Allowed
  <2> QED BY <2>3, <2>4, <1>1, Zenon DEF a
<1>2. CASE call.op = "Upsert"
  <2> DEFINE v == IF /\ call.ref \in DOMAIN snapshot
                     /\ call.target \in DOMAIN snapshot[call.ref].overwrites
                  THEN snapshot[call.ref].overwrites[call.target] ELSE Unset
  <2>1. a = [do |-> "RestoreOverwrite", ref |-> call.ref, target |-> call.target, value |-> v]
    BY <1>2, Zenon DEF RollbackAction
  <2>2. v \in Nat \cup {Unset}
    BY RequestFacts, ResourceFields, Zenon DEF IsGuild
  <2> HIDE DEF a, v
  <2>3. a \in Actions BY <2>1, <2>2, <1>2, Zenon DEF Actions, IsCall
  <2>4. Allowed(a, nextId) BY <2>1, <1>2, Zenon DEF Allowed
  <2> QED BY <2>3, <2>4, <1>2, Zenon DEF a
<1>3. CASE call.op \in {"Update", "Delete"} /\ call.ref \in DOMAIN snapshot
  <2> DEFINE do == IF call.op = "Update" THEN "Restore" ELSE "Recreate"
  <2>1. a = [do |-> do, ref |-> call.ref] BY <1>3, Zenon DEF RollbackAction
  <2>2. do \in {"Restore", "Recreate"} BY Zenon
  <2> HIDE DEF a, do
  <2>3. a \in Actions BY <2>1, <2>2, <1>3, Zenon DEF Actions
  <2>4. Allowed(a, nextId) BY <2>1, <2>2, <1>3, Zenon DEF Allowed
  <2> QED BY <2>3, <2>4, <1>3, Zenon DEF a
<1>4. CASE call.op \in {"Update", "Delete"} /\ call.ref \notin DOMAIN snapshot
  <2>1. a = NoAction BY <1>4, Zenon DEF RollbackAction
  <2> HIDE DEF a
  <2>3. a \in Actions BY <2>1, Zenon DEF Actions
  <2>4. Allowed(a, nextId) BY <2>1, Zenon DEF Allowed, NoAction
  <2> QED BY <2>3, <2>4, <1>4, Zenon DEF a
<1> QED BY <1>1, <1>2, <1>3, <1>4, Zenon DEF IsCall

\* The call of a rollback action is about what the action names.
LEMMA UndoCallFacts ==
  ASSUME RequestInv, TypeInv, ActionsInv, NEW n \in ToUndo, ~Removes(steps[n].rollback)
  PROVE  /\ IsCall(UndoCall(steps[n].rollback))
         /\ UndoCall(steps[n].rollback).op # "Create" =>
              UndoCall(steps[n].rollback).ref = steps[n].rollback.ref
         /\ Allowed(steps[n].rollback, nextId) /\ steps[n].rollback.do # "None"
<1> DEFINE a == steps[n].rollback
           u == UndoCall(a)
<1>1. n \in DOMAIN steps /\ a # NoAction BY Zenon DEF ToUndo
<1>2. a \in Actions
  <2>1. steps \in Seq(StepResults) BY Zenon DEF TypeInv
  <2>2. \A S : \A q \in Seq(S) : \A k \in DOMAIN q : q[k] \in S OBVIOUS
  <2>3. steps[n] \in StepResults BY <2>1, <2>2, <1>1, Zenon
  <2> QED BY <2>3, Zenon DEF StepResults
<1>3. Allowed(a, nextId) BY <1>1, Zenon DEF ActionsInv
<1>4. ~Removes(a) BY Zenon
<1> HIDE DEF a, u
<1>5. /\ a.do \in {"Delete", "Restore", "Recreate", "RestoreOverwrite"}
      /\ a.ref \in Refs
      /\ a.do = "RestoreOverwrite" => a.target \in Refs /\ a.value \in Nat \cup {Unset}
  BY <1>1, <1>2, ActionFields, Zenon DEF a
<1>6. a.ref[1] \in Kinds BY <1>5, Zenon DEF Refs
<1>7. a.do \in {"Restore", "Recreate"} => IsResource(snapshot[a.ref])
  BY <1>3, RequestFacts, Zenon DEF Allowed, IsGuild
<1>8. CASE a.do = "Delete"
  <2>1. u = [op |-> "Delete", kind |-> a.ref[1], ref |-> a.ref, target |-> None,
             name |-> NoKey, value |-> Unset, parent |-> None]
    BY <1>8, Zenon DEF u, UndoCall
  <2>3. IsCall(u) BY <2>1, <1>6, Zenon DEF IsCall
  <2> QED BY <2>1, <2>3, <1>3, <1>8 DEF a, u
<1>9. CASE a.do = "Restore"
  <2>0. snapshot[a.ref].name \in STRING \ {NoKey} /\ snapshot[a.ref].value \in Nat
    BY <1>7, <1>9, ResourceFields, Zenon
  <2>1. u = [op |-> "Update", kind |-> a.ref[1], ref |-> a.ref, target |-> None,
             name |-> snapshot[a.ref].name, value |-> snapshot[a.ref].value, parent |-> None]
    BY <1>9, Zenon DEF u, UndoCall
  <2>3. IsCall(u) BY <2>0, <2>1, <1>6, Zenon DEF IsCall
  <2> QED BY <2>1, <2>3, <1>3, <1>9 DEF a, u
<1>10. CASE a.do = "Recreate"
  <2>0. /\ snapshot[a.ref].name \in STRING \ {NoKey} /\ snapshot[a.ref].value \in Nat
        /\ snapshot[a.ref].parent \in Refs \cup {None}
    BY <1>7, <1>10, ResourceFields, Zenon
  <2>1. u = [op |-> "Create", kind |-> a.ref[1], ref |-> None, target |-> None,
             name |-> snapshot[a.ref].name, value |-> snapshot[a.ref].value,
             parent |-> snapshot[a.ref].parent]
    BY <1>10, Zenon DEF u, UndoCall
  <2>3. IsCall(u) BY <2>0, <2>1, <1>6, Zenon DEF IsCall
  <2> QED BY <2>1, <2>3, <1>3, <1>10 DEF a, u
<1>11. CASE a.do = "RestoreOverwrite"
  <2>0. a.value \in Nat BY <1>4, <1>5, <1>11, Zenon DEF Removes
  <2>1. u = [op |-> "Upsert", kind |-> a.ref[1], ref |-> a.ref, target |-> a.target,
             name |-> NoKey, value |-> a.value, parent |-> None]
    BY <1>11, Zenon DEF u, UndoCall
  <2>3. IsCall(u) BY <2>0, <2>1, <1>5, <1>6, <1>11, Zenon DEF IsCall
  <2> QED BY <2>1, <2>3, <1>3, <1>11 DEF a, u
<1> QED BY <1>5, <1>8, <1>9, <1>10, <1>11, Zenon

\* A call leaves no resource but those there were and the one it creates.
LEMMA EffectDomain ==
  ASSUME NEW g, NEW call, NEW newId, IsCall(call)
  PROVE  \A r \in DOMAIN Effect(g, call, newId) :
           r \in DOMAIN g \/ (call.op = "Create" /\ r = <<call.kind, newId>>)
<1>1. CASE call.op = "Create"
  <2>1. Effect(g, call, newId) = With(g, <<call.kind, newId>>, NewResource(g, call))
    BY <1>1, EffectCases, Zenon
  <2> QED BY <1>1, <2>1, WithFacts, Zenon
<1>2. CASE call.op # "Create" /\ call.ref \notin DOMAIN g
  <2>1. Effect(g, call, newId) = g BY <1>2, EffectCases, Zenon
  <2> QED BY <2>1, Zenon
<1>3. CASE call.op = "Update" /\ call.ref \in DOMAIN g
  <2>1. Effect(g, call, newId) = With(g, call.ref, Updated(g[call.ref], call))
    BY <1>3, EffectCases, Zenon
  <2> QED BY <1>3, <2>1, WithFacts
<1>4. CASE call.op = "Upsert" /\ call.ref \in DOMAIN g
  <2>1. Effect(g, call, newId) = With(g, call.ref, Overwritten(g[call.ref], call))
    BY <1>4, EffectCases, Zenon
  <2> QED BY <1>4, <2>1, WithFacts
<1>5. CASE call.op = "Delete" /\ call.ref \in DOMAIN g
  <2>1. Effect(g, call, newId) = Gone(g, call.ref) BY <1>5, EffectCases, Zenon
  <2> QED BY <2>1, GoneFacts, Zenon
<1> QED BY <1>1, <1>2, <1>3, <1>4, <1>5, Zenon DEF IsCall

----------------------------------------------------------------------------
(* The invariant.                                                          *)

LEMMA InvInit == Init => Inv
<1> SUFFICES ASSUME Init PROVE Inv
  BY Zenon
<1>1. RequestInv BY Zenon DEF Init, RequestInv
<1>2. /\ IsGuild(snapshot) /\ \A r \in DOMAIN snapshot : r[2] < FirstNewId
      /\ FirstNewId \in Nat /\ Normalized(desired) /\ EveryoneRole \in DOMAIN snapshot
  BY <1>1, RequestFacts, Zenon
<1>3. Len(plan.nodes) \in Nat BY <1>1, <1>2, PlanFacts, Zenon DEF RequestInv
<1>4. TypeInv BY <1>2, <1>3 DEF Init, TypeInv
<1>5. BoundInv /\ ActionsInv BY DEF Init, BoundInv, ActionsInv
<1> QED BY <1>1, <1>4, <1>5, Zenon DEF Inv

\* The service keeps the guild a guild, and its ids below the next one.
LEMMA ServeFacts ==
  ASSUME IsGuild(guild), EveryoneRole \in DOMAIN guild, \A r \in DOMAIN guild : r[2] < nextId, nextId \in Nat,
         NEW call, IsCall(call), NEW answer, Serve(call, answer)
  PROVE  /\ IsGuild(guild') /\ EveryoneRole \in DOMAIN guild'
         /\ \A r \in DOMAIN guild' : r[2] < nextId'
         /\ nextId' \in Nat /\ nextId <= nextId'
         /\ answer # "Failed" /\ call.op = "Create" => nextId' = nextId + 1
<1>1. nextId' \in Nat /\ nextId <= nextId' BY DEF Serve
<1>2. CASE answer = "Failed"
  <2>1. guild' = guild /\ nextId' = nextId BY <1>2, Zenon DEF Serve
  <2> QED BY <2>1, <1>1, <1>2, Zenon
<1>3. CASE answer # "Failed"
  <2>1. /\ guild' = Effect(guild, call, nextId)
        /\ nextId' = IF call.op = "Create" THEN nextId + 1 ELSE nextId
    BY <1>3, Zenon DEF Serve
  <2>2. IsGuild(guild') BY <2>1, EffectIsGuild, Zenon
  <2>4. EveryoneRole \in DOMAIN guild'
    <3>1. Known(call) BY <1>3, Zenon DEF Serve, Answers
    <3> QED BY <2>1, <3>1, EffectKeeps, Zenon DEF Known, IsCall
  <2>3. ASSUME NEW r \in DOMAIN guild' PROVE r[2] < nextId'
    <3>1. r \in DOMAIN guild \/ (call.op = "Create" /\ r = <<call.kind, nextId>>)
      BY <2>1, EffectDomain, Zenon
    <3>2. CASE r \in DOMAIN guild
      <4>1. r[2] < nextId /\ r[2] \in Nat BY <3>2, Zenon DEF IsGuild, Refs
      <4> QED BY <4>1, <1>1
    <3>3. CASE call.op = "Create" /\ r = <<call.kind, nextId>> BY <3>3, <2>1
    <3> QED BY <3>1, <3>2, <3>3, Zenon
  <2> QED BY <1>1, <2>1, <2>2, <2>3, <2>4, Zenon
<1> QED BY <1>2, <1>3, Zenon

\* More ids allow more.
LEMMA AllowedMore ==
  ASSUME NEW action \in Actions, NEW a \in Nat, NEW b \in Nat, a <= b, Allowed(action, a)
  PROVE  Allowed(action, b)
<1>1. CASE action = NoAction BY <1>1, Zenon DEF Allowed, NoAction
<1>2. CASE action # NoAction
  <2>1. action.ref[2] \in Nat BY <1>2, ActionFields, Zenon DEF Refs
  <2> QED BY <2>1 DEF Allowed
<1> QED BY <1>1, <1>2, Zenon

LEMMA StepType ==
  ASSUME TypeInv
  PROVE  /\ Len(steps) \in Nat /\ DOMAIN steps = 1 .. Len(steps)
         /\ \A n \in DOMAIN steps :
              /\ steps[n] \in StepResults
              /\ steps[n].outcome \in {"Success", "Failed", "Unresolved", "Skipped"}
              /\ steps[n].rollback \in Actions
<1>1. steps \in Seq(StepResults) BY Zenon DEF TypeInv
<1>2. \A S : \A q \in Seq(S) : /\ Len(q) \in Nat /\ DOMAIN q = 1 .. Len(q)
                               /\ \A k \in DOMAIN q : q[k] \in S
  OBVIOUS
<1>3. /\ Len(steps) \in Nat /\ DOMAIN steps = 1 .. Len(steps)
      /\ \A n \in DOMAIN steps : steps[n] \in StepResults
  BY <1>1, <1>2, Zenon
<1>4. \A s \in StepResults : /\ s.outcome \in {"Success", "Failed", "Unresolved", "Skipped"}
                             /\ s.rollback \in Actions
  BY Zenon DEF StepResults
<1> QED BY <1>3, <1>4, Zenon

\* A further step keeps what is known of the steps.
LEMMA StepsAppend ==
  ASSUME RequestInv, TypeInv, ActionsInv, Running, NEW result \in StepResults,
         steps' = Append(steps, result), nextId' \in Nat, nextId <= nextId',
         UNCHANGED request, Allowed(result.rollback, nextId')
  PROVE  /\ steps' \in Seq(StepResults) /\ Len(steps') = Len(steps) + 1
         /\ Len(steps') <= Len(plan'.nodes)
         /\ DOMAIN steps' = DOMAIN steps \cup {Len(steps) + 1}
         /\ \A n \in DOMAIN steps : steps'[n] = steps[n]
         /\ steps'[Len(steps) + 1] = result
         /\ ActionsInv'
<1>1. steps \in Seq(StepResults) /\ Len(steps) \in Nat BY DEF TypeInv
<1>2. /\ steps' \in Seq(StepResults) /\ Len(steps') = Len(steps) + 1
      /\ DOMAIN steps' = 1 .. Len(steps) + 1 /\ DOMAIN steps = 1 .. Len(steps)
      /\ \A n \in DOMAIN steps : steps'[n] = steps[n]
      /\ steps'[Len(steps) + 1] = result
  BY <1>1
<1>3. Len(plan.nodes) \in Nat BY RequestFacts, PlanFacts, Zenon DEF RequestInv
<1>4. Len(steps') <= Len(plan'.nodes)
  BY <1>1, <1>2, <1>3 DEF Running, request
<1>5. DOMAIN steps' = DOMAIN steps \cup {Len(steps) + 1} BY <1>1, <1>2
<1>6. ASSUME NEW n \in DOMAIN steps' PROVE Allowed(steps'[n].rollback, nextId')
  <2>1. CASE n \in DOMAIN steps
    <3>1. Allowed(steps[n].rollback, nextId) /\ steps[n].rollback \in Actions
      BY <2>1, StepType, Zenon DEF ActionsInv
    <3>2. nextId \in Nat BY Zenon DEF TypeInv
    <3>3. Allowed(steps[n].rollback, nextId') BY <3>1, <3>2, AllowedMore, Zenon
    <3> QED BY <2>1, <3>3, <1>2, Zenon
  <2>2. CASE n = Len(steps) + 1 BY <2>2, <1>2, Zenon
  <2> QED BY <2>1, <2>2, <1>5, Zenon
<1>7. Managed' = Managed /\ snapshot' = snapshot BY Zenon DEF Managed, request
<1>8. ActionsInv' BY <1>6, <1>7, Zenon DEF ActionsInv, Allowed
<1> QED BY <1>2, <1>4, <1>5, <1>8, Zenon

LEMMA RunOpInv ==
  ASSUME Inv, NEW answer \in {"Ok", "Failed", "Lost"}, RunOp(answer)
  PROVE  Inv'
<1>0. RequestInv /\ TypeInv /\ BoundInv /\ ActionsInv BY Zenon DEF Inv
<1>1. Running /\ Resolved(NextCall) /\ Serve(NextCall, answer) BY Zenon DEF RunOp
<1>2. PICK call : call = NextCall BY Zenon
<1>3. /\ IsCall(call)
      /\ call.op # "Create" =>
           /\ call.ref \in Refs
           /\ call.ref \in Managed \/ (FirstNewId <= call.ref[2] /\ call.ref[2] < nextId)
  BY <1>0, <1>1, <1>2, NextCallFacts, Zenon
<1>4. /\ IsGuild(guild) /\ EveryoneRole \in DOMAIN guild /\ (\A r \in DOMAIN guild : r[2] < nextId)
      /\ nextId \in Nat /\ FirstNewId <= nextId
  BY <1>0, Zenon DEF TypeInv
<1>5. /\ IsGuild(guild') /\ EveryoneRole \in DOMAIN guild'
      /\ \A r \in DOMAIN guild' : r[2] < nextId'
      /\ nextId' \in Nat /\ nextId <= nextId'
      /\ answer # "Failed" /\ call.op = "Create" => nextId' = nextId + 1
  BY <1>1, <1>2, <1>3, <1>4, ServeFacts, Zenon
<1>6. UNCHANGED <<request, approval, phase, undone, drift>> BY Zenon DEF RunOp
<1>7. RequestInv' BY <1>0, <1>6, Zenon DEF RequestInv, request
<1> DEFINE result == IF answer = "Ok" THEN StepResult("Success", RollbackAction(call, nextId))
                     ELSE StepResult("Failed", NoAction)
<1>8. steps' = Append(steps, result) BY <1>2, Zenon DEF RunOp
<1>9. result \in StepResults /\ Allowed(result.rollback, nextId')
  <2>1. CASE answer = "Ok"
    <3>1. /\ RollbackAction(call, nextId) \in Actions
          /\ Allowed(RollbackAction(call, nextId),
                     IF call.op = "Create" THEN nextId + 1 ELSE nextId)
      BY <1>0, <1>3, <1>4, RollbackActionFacts, Zenon
    <3>2. result = [outcome |-> "Success", rollback |-> RollbackAction(call, nextId)]
      BY <2>1, Zenon DEF StepResult
    <3> HIDE DEF result
    <3>3. Allowed(RollbackAction(call, nextId), nextId')
      <4>1. CASE call.op = "Create" BY <2>1, <3>1, <4>1, <1>5, Zenon
      <4>2. CASE call.op # "Create" BY <3>1, <4>2, <1>4, <1>5, AllowedMore, Zenon
      <4> QED BY <4>1, <4>2, Zenon
    <3> QED BY <3>1, <3>2, <3>3, Zenon DEF StepResults
  <2>2. CASE answer # "Ok"
    <3>1. result = [outcome |-> "Failed", rollback |-> NoAction] BY <2>2, Zenon DEF StepResult
    <3> HIDE DEF result
    <3> QED BY <3>1, Zenon DEF StepResults, Actions, Allowed, NoAction
  <2> QED BY <2>1, <2>2, Zenon
<1> HIDE DEF result
<1>10. /\ steps' \in Seq(StepResults) /\ Len(steps') <= Len(plan'.nodes)
       /\ DOMAIN steps' = DOMAIN steps \cup {Len(steps) + 1}
       /\ ActionsInv'
  BY <1>0, <1>1, <1>5, <1>6, <1>8, <1>9, StepsAppend, Zenon
<1>11. TypeInv'
  <2>1. phase = "Forward" BY <1>1, Zenon DEF Running
  <2>2. DOMAIN undone' \subseteq DOMAIN steps' BY <1>0, <1>6, <1>10, Zenon DEF TypeInv
  <2>3. FirstNewId <= nextId' BY <1>4, <1>5, <1>0, RequestFacts
  <2>4. plan' = plan /\ phase' = phase /\ undone' = undone /\ drift' = drift
    BY <1>6, Zenon DEF request
  <2> QED BY <2>1, <2>2, <2>3, <2>4, <1>0, <1>5, <1>10, Zenon DEF TypeInv
<1>12. BoundInv'
  <2>1. \A x \in DOMAIN bound : /\ bound[x] \in Refs /\ FirstNewId <= bound[x][2]
                                /\ bound[x][2] < nextId'
    <3> SUFFICES ASSUME NEW x \in DOMAIN bound
                 PROVE  /\ bound[x] \in Refs /\ FirstNewId <= bound[x][2] /\ bound[x][2] < nextId'
      BY Zenon
    <3>1. bound[x] \in Refs /\ FirstNewId <= bound[x][2] /\ bound[x][2] < nextId
      BY <1>0, Zenon DEF BoundInv
    <3>2. bound[x][2] \in Nat BY <3>1, Zenon DEF Refs
    <3> QED BY <3>1, <3>2, <1>4, <1>5
  <2>2. CASE answer = "Ok" /\ call.op = "Create"
    <3> DEFINE y == <<NextNode.kind, NextNode.key>>
               r == <<call.kind, nextId>>
    <3>1. bound' = With(bound, y, r) BY <2>2, <1>2, Zenon DEF RunOp, Bind
    <3>2. r \in Refs /\ FirstNewId <= r[2] /\ r[2] < nextId'
      BY <2>2, <1>3, <1>4, <1>5 DEF Refs, IsCall
    <3> HIDE DEF y, r
    <3>3. ASSUME NEW x \in DOMAIN bound'
          PROVE  bound'[x] \in Refs /\ FirstNewId <= bound'[x][2] /\ bound'[x][2] < nextId'
      <4>1. CASE x = y BY <4>1, <3>1, <3>2, WithFacts
      <4>2. CASE x # y
        <5>1. x \in DOMAIN bound /\ bound'[x] = bound[x] BY <4>2, <3>1, <3>3, WithFacts
        <5> QED BY <5>1, <2>1, Zenon
      <4> QED BY <4>1, <4>2, Zenon
    <3> QED BY <3>3, Zenon DEF BoundInv
  <2>3. CASE ~(answer = "Ok" /\ call.op = "Create")
    <3>1. bound' = bound BY <2>3, <1>2, Zenon DEF RunOp
    <3> QED BY <3>1, <2>1, Zenon DEF BoundInv
  <2> QED BY <2>2, <2>3, Zenon
<1> QED BY <1>7, <1>10, <1>11, <1>12, Zenon DEF Inv

LEMMA RunUnresolvedInv ==
  ASSUME Inv, RunUnresolved
  PROVE  Inv'
<1>0. RequestInv /\ TypeInv /\ BoundInv /\ ActionsInv BY Zenon DEF Inv
<1>1. /\ Running
      /\ UNCHANGED <<request, guild, approval, phase, bound, undone, nextId, lost, drift>>
      /\ steps' = Append(steps, StepResult("Unresolved", NoAction))
  BY Zenon DEF RunUnresolved
<1>2. nextId \in Nat BY <1>0, Zenon DEF TypeInv
<1> DEFINE result == StepResult("Unresolved", NoAction)
<1>3. result \in StepResults /\ Allowed(result.rollback, nextId')
  BY Zenon DEF StepResult, StepResults, Actions, Allowed, NoAction
<1> HIDE DEF result
<1>4. /\ steps' \in Seq(StepResults) /\ Len(steps') <= Len(plan'.nodes)
      /\ DOMAIN steps' = DOMAIN steps \cup {Len(steps) + 1}
      /\ ActionsInv'
  BY <1>0, <1>1, <1>2, <1>3, StepsAppend DEF result
<1>5. RequestInv' /\ BoundInv' BY <1>0, <1>1, Zenon DEF RequestInv, request, BoundInv
<1>6. phase = "Forward" BY <1>1, Zenon DEF Running
<1>7. TypeInv' BY <1>0, <1>1, <1>4, <1>6, Zenon DEF TypeInv, request
<1> QED BY <1>4, <1>5, <1>7, Zenon DEF Inv

LEMMA FinishForwardInv ==
  ASSUME Inv, FinishForward
  PROVE  Inv'
<1>0. RequestInv /\ TypeInv /\ BoundInv /\ ActionsInv BY Zenon DEF Inv
<1>1. /\ phase = "Forward"
      /\ UNCHANGED <<request, guild, approval, bound, undone, nextId, lost, drift>>
      /\ phase' \in {"Rollback", "Succeeded"}
  BY Zenon DEF FinishForward
<1> DEFINE skipped == StepResult("Skipped", NoAction)
<1>2. steps' = [n \in 1 .. Len(plan.nodes) |-> IF n \in DOMAIN steps THEN steps[n] ELSE skipped]
  BY Zenon DEF FinishForward
<1>3. skipped \in StepResults /\ skipped.rollback = NoAction
  BY Zenon DEF StepResult, StepResults, Actions
<1> HIDE DEF skipped
<1>4. Len(plan.nodes) \in Nat BY <1>0, RequestFacts, PlanFacts, Zenon DEF RequestInv
<1>5. DOMAIN steps \subseteq 1 .. Len(plan.nodes) BY <1>0, <1>4, StepType DEF TypeInv
<1>6. /\ steps' \in Seq(StepResults) /\ Len(steps') = Len(plan.nodes)
      /\ DOMAIN steps' = 1 .. Len(plan.nodes)
      /\ \A n \in DOMAIN steps' : steps'[n] = IF n \in DOMAIN steps THEN steps[n] ELSE skipped
  BY <1>0, <1>2, <1>3, <1>4, StepType
<1>7. RequestInv' /\ BoundInv' BY <1>0, <1>1, Zenon DEF RequestInv, request, BoundInv
<1>8. TypeInv'
  <2>1. DOMAIN undone' \subseteq DOMAIN steps' BY <1>0, <1>1, <1>5, <1>6, Zenon DEF TypeInv
  <2> QED BY <1>0, <1>1, <1>4, <1>6, <2>1 DEF TypeInv, request
<1>9. ActionsInv'
  <2>1. Managed' = Managed /\ snapshot' = snapshot /\ nextId' = nextId
    BY <1>1, Zenon DEF Managed, request
  <2>2. Allowed(NoAction, nextId) BY Zenon DEF Allowed, NoAction
  <2>3. \A n \in DOMAIN steps' : Allowed(steps'[n].rollback, nextId)
    BY <1>0, <1>3, <1>6, <2>2, Zenon DEF ActionsInv
  <2> QED BY <2>1, <2>3, Zenon DEF ActionsInv, Allowed
<1> QED BY <1>7, <1>8, <1>9, Zenon DEF Inv

LEMMA UndoInv ==
  ASSUME Inv, NEW n \in DOMAIN steps, NEW answer \in {"Ok", "Failed", "Lost"}, Undo(n, answer)
  PROVE  Inv'
<1>0. RequestInv /\ TypeInv /\ BoundInv /\ ActionsInv BY Zenon DEF Inv
<1>1. /\ Undoing(n) /\ ~Removes(steps[n].rollback)
      /\ UNCHANGED <<request, approval, phase, bound, steps, drift>>
      /\ Serve(UndoCall(steps[n].rollback), answer)
  BY Zenon DEF Undo
<1>2. n \in ToUndo /\ phase = "Rollback" BY <1>1, Zenon DEF Undoing
<1>3. PICK call : call = UndoCall(steps[n].rollback) BY Zenon
<1>4. IsCall(call) BY <1>0, <1>1, <1>2, <1>3, UndoCallFacts, Zenon
<1>5. /\ IsGuild(guild) /\ EveryoneRole \in DOMAIN guild /\ (\A r \in DOMAIN guild : r[2] < nextId)
      /\ nextId \in Nat /\ FirstNewId <= nextId
  BY <1>0, Zenon DEF TypeInv
<1>6. /\ IsGuild(guild') /\ EveryoneRole \in DOMAIN guild'
      /\ \A r \in DOMAIN guild' : r[2] < nextId'
      /\ nextId' \in Nat /\ nextId <= nextId'
  BY <1>1, <1>3, <1>4, <1>5, ServeFacts, Zenon
<1>7. \A m \in DOMAIN undone' : m \in DOMAIN undone \/ m = n
  BY WithFacts, Zenon DEF Undo
<1>8. RequestInv' BY <1>0, <1>1, Zenon DEF RequestInv, request
<1>9. TypeInv'
  <2>1. FirstNewId <= nextId' BY <1>5, <1>6, <1>0, RequestFacts
  <2>2. DOMAIN undone' \subseteq DOMAIN steps' BY <1>0, <1>1, <1>7, Zenon DEF TypeInv
  <2> QED BY <1>0, <1>1, <1>2, <1>6, <2>1, <2>2, Zenon DEF TypeInv, request
<1>10. BoundInv'
  <2> SUFFICES ASSUME NEW x \in DOMAIN bound
               PROVE  bound[x] \in Refs /\ FirstNewId <= bound[x][2] /\ bound[x][2] < nextId'
    BY <1>1, Zenon DEF BoundInv
  <2>1. bound[x] \in Refs /\ FirstNewId <= bound[x][2] /\ bound[x][2] < nextId
    BY <1>0, Zenon DEF BoundInv
  <2>2. bound[x][2] \in Nat BY <2>1, Zenon DEF Refs
  <2> QED BY <2>1, <2>2, <1>5, <1>6
<1>11. ActionsInv'
  <2>1. Managed' = Managed /\ snapshot' = snapshot BY <1>1, Zenon DEF Managed, request
  <2>2. \A m \in DOMAIN steps : Allowed(steps[m].rollback, nextId')
    <3> SUFFICES ASSUME NEW m \in DOMAIN steps PROVE Allowed(steps[m].rollback, nextId')
      BY Zenon
    <3>1. Allowed(steps[m].rollback, nextId) /\ steps[m].rollback \in Actions
      BY <1>0, StepType, Zenon DEF ActionsInv
    <3> QED BY <3>1, <1>5, <1>6, AllowedMore, Zenon
  <2> QED BY <2>1, <2>2, <1>1, Zenon DEF ActionsInv, Allowed
<1> QED BY <1>8, <1>9, <1>10, <1>11, Zenon DEF Inv

LEMMA InvNext == Inv /\ [Next]_vars => Inv'
<1> SUFFICES ASSUME Inv, [Next]_vars PROVE Inv'
  BY Zenon
<1>0. RequestInv /\ TypeInv /\ BoundInv /\ ActionsInv BY Zenon DEF Inv
<1>1. ASSUME UNCHANGED <<request, guild, bound, steps, undone, nextId, drift>>,
             phase' = phase \/ (phase = "Review" /\ plan.ok /\ phase' = "Forward")
                            \/ (phase = "Rollback" /\ phase' = "RolledBack")
      PROVE  Inv'
  <2>1. RequestInv' /\ BoundInv' /\ ActionsInv'
    BY <1>0, <1>1, Zenon DEF RequestInv, request, BoundInv, ActionsInv, Allowed, Managed
  <2>2. TypeInv' BY <1>0, <1>1, Zenon DEF TypeInv, request
  <2> QED BY <2>1, <2>2, Zenon DEF Inv
<1>2. ASSUME NEW user \in Users, Approve(user) \/ Reject(user) PROVE Inv'
  BY <1>1, <1>2, Zenon DEF Approve, Reject
<1>3. CASE Start BY <1>1, <1>3, Zenon DEF Start
<1>4. CASE FinishRollback BY <1>1, <1>4, Zenon DEF FinishRollback
<1>5. CASE UNCHANGED vars BY <1>1, <1>5, Zenon DEF vars, request
<1>6. ASSUME NEW n \in DOMAIN steps, SkipUndo(n) PROVE Inv'
  <2>1. /\ UNCHANGED <<request, guild, approval, phase, bound, steps, nextId, lost, drift>>
        /\ undone' = With(undone, n, "Skipped") /\ phase = "Rollback"
    BY <1>6, Zenon DEF SkipUndo, Undoing
  <2>2. \A m \in DOMAIN undone' : m \in DOMAIN undone \/ m = n BY <2>1, WithFacts, Zenon
  <2>3. DOMAIN undone' \subseteq DOMAIN steps' BY <1>0, <2>1, <2>2, Zenon DEF TypeInv
  <2>4. RequestInv' /\ BoundInv' /\ ActionsInv'
    BY <1>0, <2>1, Zenon DEF RequestInv, request, BoundInv, ActionsInv, Allowed, Managed
  <2>5. TypeInv' BY <1>0, <2>1, <2>3, Zenon DEF TypeInv, request
  <2> QED BY <2>4, <2>5, Zenon DEF Inv
<1>7. ASSUME NEW ref \in DOMAIN guild, Drift(ref) PROVE Inv'
  <2>1. /\ UNCHANGED <<request, approval, phase, bound, steps, undone, nextId, lost>>
        /\ drift' = drift + 1
    BY <1>7, Zenon DEF Drift
  <2>2. PICK op \in {"Delete", "Update"}, name \in OtherNames :
          guild' = Effect(guild, [op |-> op, kind |-> ref[1], ref |-> ref, target |-> None,
                                  name |-> name, value |-> Unset, parent |-> None], nextId)
    BY <1>7, Zenon DEF Drift
  <2> DEFINE call == [op |-> op, kind |-> ref[1], ref |-> ref, target |-> None,
                      name |-> name, value |-> Unset, parent |-> None]
  <2>3. IsCall(call) /\ call.op # "Create"
    <3>1. ref[1] \in Kinds BY <1>0, Zenon DEF TypeInv, IsGuild, Refs
    <3>2. name \in STRING BY ResourceAssumption, Zenon
    <3>3. /\ call.op = op /\ call.kind = ref[1] /\ call.name = name
          /\ call.value = Unset /\ call.parent = None
      BY Zenon
    <3> HIDE DEF call
    <3>4. op # "Create" /\ op # "Upsert" BY Zenon
    <3> QED BY <3>1, <3>2, <3>3, <3>4, Zenon DEF IsCall
  <2>4. guild' = Effect(guild, call, nextId) BY <2>2, Zenon
  <2> HIDE DEF call
  <2>5. IsGuild(guild) /\ nextId \in Nat BY <1>0, Zenon DEF TypeInv
  <2>6. IsGuild(guild') BY <2>3, <2>4, <2>5, EffectIsGuild, Zenon
  <2>10. EveryoneRole \in DOMAIN guild'
    <3>1. EveryoneRole \in DOMAIN guild /\ ref # EveryoneRole /\ call.ref = ref
      BY <1>0, <1>7, Zenon DEF TypeInv, Drift, call
    <3> QED BY <2>3, <2>4, <3>1, EffectKeeps, Zenon DEF IsCall
  <2>7. \A r \in DOMAIN guild' : r \in DOMAIN guild BY <2>3, <2>4, EffectDomain, Zenon
  <2>8. RequestInv' /\ BoundInv' /\ ActionsInv'
    BY <1>0, <2>1, Zenon DEF RequestInv, request, BoundInv, ActionsInv, Allowed, Managed
  <2>9. TypeInv' BY <1>0, <2>1, <2>6, <2>7, <2>10 DEF TypeInv, request
  <2> QED BY <2>8, <2>9, Zenon DEF Inv
<1> QED
  BY <1>2, <1>3, <1>4, <1>5, <1>6, <1>7, RunOpInv, RunUnresolvedInv, FinishForwardInv, UndoInv,
     Zenon DEF Next, Job

LEMMA Invariance == Spec => []Inv
BY InvInit, InvNext, PTL DEF Spec

----------------------------------------------------------------------------
(* What the job leaves alone.                                              *)

\* A call about something the job may touch leaves the rest as it was, but
\* for what it deletes.
LEMMA ServeFrame ==
  ASSUME RequestInv, TypeInv, NEW call, IsCall(call), NEW answer, Serve(call, answer),
         call.op # "Create" =>
           call.ref \in Managed \/ (FirstNewId <= call.ref[2] /\ call.ref[2] < nextId),
         NEW r \in DOMAIN guild \ Managed, r[2] < FirstNewId
  PROVE  r \in DOMAIN guild' /\ guild'[r] = Detached(guild[r], DOMAIN guild \ DOMAIN guild')
<1> DEFINE gone == DOMAIN guild \ DOMAIN guild'
<1>0. Detached(guild[r], {}) = guild[r]
  <2>1. IsResource(guild[r]) BY Zenon DEF TypeInv, IsGuild
  <2> QED BY <2>1, DetachedFromNone, Zenon
<1>1. CASE answer = "Failed"
  <2>1. guild' = guild BY <1>1, Zenon DEF Serve
  <2>2. gone = {} BY <2>1, Zenon
  <2> QED BY <1>0, <2>1, <2>2, Zenon
<1>2. CASE answer # "Failed"
  <2>1. guild' = Effect(guild, call, nextId) BY <1>2, Zenon DEF Serve
  <2>2. r[2] \in Nat /\ FirstNewId \in Nat /\ nextId \in Nat /\ FirstNewId <= nextId
    BY RequestFacts, Zenon DEF TypeInv, IsGuild, Refs
  <2>3. call.op = "Create" => r # <<call.kind, nextId>> BY <2>2
  <2>4. call.op # "Create" => r # call.ref BY <2>2
  <2>5. call.op \in {"Create", "Update", "Delete", "Upsert"} BY Zenon DEF IsCall
  <2>6. /\ r \in DOMAIN guild'
        /\ IF call.op = "Delete" /\ call.ref \in DOMAIN guild
           THEN guild'[r] = Detached(guild[r], {call.ref}) ELSE guild'[r] = guild[r]
    BY <2>1, <2>3, <2>4, <2>5, EffectFrame
  <2>7. CASE call.op = "Delete" /\ call.ref \in DOMAIN guild
    <3>1. guild' = Gone(guild, call.ref) BY <2>1, <2>7, EffectCases, Zenon
    <3>2. \A y : y \in DOMAIN guild' <=> y \in DOMAIN guild /\ y # call.ref
      BY <3>1, GoneFacts, Zenon
    <3>3. gone = {call.ref} BY <2>7, <3>2, Zenon
    <3> QED BY <2>6, <2>7, <3>3, Zenon
  <2>8. CASE ~(call.op = "Delete" /\ call.ref \in DOMAIN guild)
    <3>1. gone = {} BY <2>1, <2>5, <2>8, EffectKeeps, Zenon
    <3> QED BY <1>0, <2>6, <2>8, <3>1, Zenon
  <2> QED BY <2>7, <2>8, Zenon
<1> QED BY <1>1, <1>2, Zenon

\* Whatever the desired state, the snapshot, the faults and the changes made
\* by somebody else: neither the job nor its rollback changes a resource that
\* existed before and that no Managed or Adopted intent matches, but for what
\* the service takes from it when the job deletes its parent or a role of its
\* overwrites.
THEOREM UnmanagedStaysUntouched == Spec => UnmanagedIsUntouched
<1> DEFINE Kept(r) == /\ r \in DOMAIN guild'
                      /\ guild'[r] = Detached(guild[r], DOMAIN guild \ DOMAIN guild')
           Untouched == \A r \in DOMAIN guild \ Managed : r[2] < FirstNewId => Kept(r)
<1>1. ASSUME Inv, Job PROVE Untouched
  <2>0. RequestInv /\ TypeInv /\ BoundInv /\ ActionsInv BY <1>1, Zenon DEF Inv
  <2> SUFFICES ASSUME NEW r \in DOMAIN guild \ Managed, r[2] < FirstNewId PROVE Kept(r)
    BY Zenon
  <2>1. CASE UNCHANGED guild
    <3>1. IsResource(guild[r]) BY <2>0, Zenon DEF TypeInv, IsGuild
    <3>2. DOMAIN guild \ DOMAIN guild' = {} BY <2>1, Zenon
    <3>3. Detached(guild[r], {}) = guild[r] BY <3>1, DetachedFromNone, Zenon
    <3> QED BY <2>1, <3>2, <3>3, Zenon
  <2>2. ASSUME NEW answer \in {"Ok", "Failed", "Lost"}, RunOp(answer) PROVE Kept(r)
    <3>1. Running /\ Resolved(NextCall) /\ Serve(NextCall, answer) BY <2>2, Zenon DEF RunOp
    <3>2. PICK call : call = NextCall BY Zenon
    <3>3. /\ IsCall(call)
          /\ call.op # "Create" =>
               call.ref \in Managed \/ (FirstNewId <= call.ref[2] /\ call.ref[2] < nextId)
      BY <2>0, <3>1, <3>2, NextCallFacts, Zenon
    <3>4. Serve(call, answer) BY <3>1, <3>2, Zenon
    <3> QED BY <2>0, <3>3, <3>4, ServeFrame, Zenon
  <2>3. ASSUME NEW n \in DOMAIN steps, NEW answer \in {"Ok", "Failed", "Lost"}, Undo(n, answer)
        PROVE  Kept(r)
    <3>1. /\ n \in ToUndo /\ ~Removes(steps[n].rollback)
          /\ Serve(UndoCall(steps[n].rollback), answer)
      BY <2>3, Zenon DEF Undo, Undoing
    <3>2. PICK call : call = UndoCall(steps[n].rollback) BY Zenon
    <3>3. /\ IsCall(call) /\ (call.op # "Create" => call.ref = steps[n].rollback.ref)
          /\ Allowed(steps[n].rollback, nextId) /\ steps[n].rollback.do # "None"
      BY <2>0, <3>1, <3>2, UndoCallFacts, Zenon
    <3>4. call.op # "Create" =>
            call.ref \in Managed \/ (FirstNewId <= call.ref[2] /\ call.ref[2] < nextId)
      BY <3>3, Zenon DEF Allowed
    <3>5. Serve(call, answer) BY <3>1, <3>2, Zenon
    <3> QED BY <2>0, <3>3, <3>4, <3>5, ServeFrame, Zenon
  <2>4. Start \/ RunUnresolved \/ FinishForward \/ FinishRollback
          \/ (\E n \in DOMAIN steps : SkipUndo(n)) => UNCHANGED guild
    BY Zenon DEF Start, RunUnresolved, FinishForward, FinishRollback, SkipUndo
  <2> HIDE DEF Kept
  <2> QED BY <1>1, <2>1, <2>2, <2>3, <2>4, Zenon DEF Job
<1>2. Inv /\ [Next]_vars => [Job => Untouched]_vars BY <1>1, Zenon
<1> QED BY <1>2, Invariance, PTL DEF Spec, UnmanagedIsUntouched

----------------------------------------------------------------------------
(* The keys the job binds, and that the order of the plan is enough.       *)

\* A key is bound exactly when the step that creates its resource succeeded.
BindingsInv ==
  \A x : x \in DOMAIN bound <=>
    \E n \in DOMAIN steps : steps[n].outcome = "Success" /\ x \in Produces(plan.nodes[n])

LEMMA NextCallAt ==
  ASSUME RequestInv, TypeInv, Running
  PROVE  CallAt(desired, snapshot, bound, NextPlace, NextNode, NextCall)
<1>1. /\ NextPlace \in Places(snapshot, desired)
      /\ NextNode = NodeAt(snapshot, desired, NextPlace)
      /\ NodeAt(snapshot, desired, NextPlace).op \notin {"NoOp", "Conflict"}
  BY NextPlaceFacts, Zenon
<1> QED BY <1>1, RequestFacts, CallFacts, Zenon DEF NextCall

LEMMA BindingsInit == Init => BindingsInv
BY DEF Init, BindingsInv

LEMMA BindingsNext == Inv /\ BindingsInv /\ [Next]_vars => BindingsInv'
<1> SUFFICES ASSUME Inv, BindingsInv, [Next]_vars PROVE BindingsInv'
  BY Zenon
<1>0. RequestInv /\ TypeInv /\ BoundInv /\ ActionsInv BY Zenon DEF Inv
<1>1. CASE UNCHANGED <<plan, bound, steps>> BY <1>1, Zenon DEF BindingsInv
<1>2. ASSUME Running, NEW result, steps' = Append(steps, result), plan' = plan,
             result.outcome # "Success" \/ Produces(NextNode) = {}, bound' = bound
      PROVE  BindingsInv'
  <2>1. Len(steps) \in Nat /\ DOMAIN steps = 1 .. Len(steps) BY <1>0, StepType, Zenon
  <2>2. /\ DOMAIN steps' = DOMAIN steps \cup {Len(steps) + 1}
        /\ \A n \in DOMAIN steps : steps'[n] = steps[n] /\ n # Len(steps) + 1
        /\ steps'[Len(steps) + 1] = result
    BY <1>2, <1>0, <2>1 DEF TypeInv
  <2> QED BY <1>2, <2>2, Zenon DEF BindingsInv, NextNode
<1>3. CASE RunUnresolved
  <2>1. StepResult("Unresolved", NoAction).outcome # "Success" BY Zenon DEF StepResult
  <2> QED BY <1>2, <1>3, <2>1, Zenon DEF RunUnresolved, request
<1>4. CASE FinishForward
  <2>1. bound' = bound /\ plan' = plan BY <1>4, Zenon DEF FinishForward, request
  <2>2. DOMAIN steps' = 1 .. Len(plan.nodes) BY <1>4, Zenon DEF FinishForward
  <2>3. DOMAIN steps \subseteq DOMAIN steps'
    <3>1. Len(plan.nodes) \in Nat BY <1>0, RequestFacts, PlanFacts, Zenon DEF RequestInv
    <3> QED BY <1>0, <2>2, <3>1, StepType DEF TypeInv
  <2>4. \A n \in DOMAIN steps' : IF n \in DOMAIN steps THEN steps'[n] = steps[n]
                                 ELSE steps'[n].outcome # "Success"
    BY <1>4, <2>2, Zenon DEF FinishForward, StepResult
  <2> QED BY <2>1, <2>3, <2>4, Zenon DEF BindingsInv
<1>5. ASSUME NEW answer \in {"Ok", "Failed", "Lost"}, RunOp(answer) PROVE BindingsInv'
  <2> DEFINE i == desired[NextPlace[1]]
             x == <<i.kind, i.key>>
             result == IF answer = "Ok" THEN StepResult("Success", RollbackAction(NextCall, nextId))
                       ELSE StepResult("Failed", NoAction)
  <2>1. Running /\ plan' = plan /\ steps' = Append(steps, result)
    BY <1>5, Zenon DEF RunOp, request
  <2>2. CallAt(desired, snapshot, bound, NextPlace, NextNode, NextCall)
    BY <1>0, <2>1, NextCallAt, Zenon
  <2>3. /\ Produces(NextNode) = IF NextCall.op = "Create" THEN {x} ELSE {}
        /\ NextCall.op = "Create" => x = <<NextNode.kind, NextNode.key>>
    BY <2>2, Zenon DEF CallAt
  <2>4. result.outcome = IF answer = "Ok" THEN "Success" ELSE "Failed" BY Zenon DEF StepResult
  <2> HIDE DEF x, result, i
  <2>5. CASE answer = "Ok" /\ NextCall.op = "Create"
    <3>1. bound' = With(bound, x, <<NextCall.kind, nextId>>)
      BY <1>5, <2>3, <2>5, Zenon DEF RunOp, Bind
    <3>2. \A y : y \in DOMAIN bound' <=> y \in DOMAIN bound \/ y = x BY <3>1, WithFacts, Zenon
    <3>3. Len(steps) \in Nat /\ DOMAIN steps = 1 .. Len(steps) BY <1>0, StepType, Zenon
    <3>4. /\ DOMAIN steps' = DOMAIN steps \cup {Len(steps) + 1}
          /\ \A n \in DOMAIN steps : steps'[n] = steps[n] /\ n # Len(steps) + 1
          /\ steps'[Len(steps) + 1] = result
      BY <2>1, <1>0, <3>3 DEF TypeInv
    <3>5. \A y : y \in Produces(plan.nodes[Len(steps) + 1]) <=> y = x
      BY <2>3, <2>5, Zenon DEF NextNode
    <3>6. result.outcome = "Success" BY <2>4, <2>5, Zenon
    <3> QED BY <2>1, <3>2, <3>4, <3>5, <3>6, Zenon DEF BindingsInv
  <2>6. CASE ~(answer = "Ok" /\ NextCall.op = "Create")
    <3>1. bound' = bound BY <1>5, <2>6, Zenon DEF RunOp
    <3>2. result.outcome # "Success" \/ Produces(NextNode) = {} BY <2>3, <2>4, <2>6, Zenon
    <3> QED BY <1>2, <2>1, <3>1, <3>2, Zenon
  <2> QED BY <2>5, <2>6, Zenon
<1>6. \/ \E user \in Users : Approve(user) \/ Reject(user)
      \/ Start \/ FinishRollback
      \/ \E n \in DOMAIN steps : SkipUndo(n)
      \/ \E n \in DOMAIN steps, answer \in {"Ok", "Failed", "Lost"} : Undo(n, answer)
      \/ \E ref \in DOMAIN guild : Drift(ref)
      \/ UNCHANGED vars
      => UNCHANGED <<plan, bound, steps>>
  BY Zenon DEF Approve, Reject, Start, FinishRollback, SkipUndo, Undo, Drift, vars, request
<1> QED BY <1>1, <1>3, <1>4, <1>5, <1>6, Zenon DEF Next, Job

LEMMA BindingsInvariance == Spec => []BindingsInv
BY BindingsInit, BindingsNext, Invariance, PTL DEF Spec

\* What the job still waits for: the intent at place <<m, 0>> resolves by the
\* time a node that consumes its key runs.
LEMMA ConsumedIsResolved ==
  ASSUME RequestInv, TypeInv, BoundInv, BindingsInv, Running,
         NEW m \in DOMAIN desired, desired[m].state = "Present", <<m, 0>> # NextPlace,
         <<desired[m].kind, desired[m].key>> \in Consumes(NextNode, desired)
  PROVE  KeyRef(desired, snapshot, bound, desired[m].kind, desired[m].key) \in Refs
<1> DEFINE i == desired[m]
           x == <<i.kind, i.key>>
           r == Resolve(snapshot, i)
           q == <<m, 0>>
           s == Order(snapshot, desired)
<1>1. KeyRef(desired, snapshot, bound, i.kind, i.key) = IntentRef(snapshot, bound, i)
  BY RequestFacts, KeyRefOfIntent, Zenon
<1>2. x \in DOMAIN bound => IntentRef(snapshot, bound, i) \in Refs BY Zenon DEF IntentRef, BoundInv
<1> SUFFICES ASSUME x \notin DOMAIN bound PROVE r \in Refs
  BY <1>1, <1>2, Zenon DEF IntentRef
<1>3. q \in Places(snapshot, desired) BY RequestFacts, PlaceFacts, Zenon
<1>4. NodeAt(snapshot, desired, q).op = ResourceChange(snapshot, i) BY Zenon DEF NodeAt, ChangeAt
<1>5. plan.ok /\ plan = CompileOperations(snapshot, desired)
  BY Zenon DEF TypeInv, Running, RequestInv
<1>6. ResourceChange(snapshot, i) # "Conflict"
  <2>1. plan.ok => NodeAt(snapshot, desired, q).op # "Conflict"
    BY <1>3, <1>5, RequestFacts, PlanFacts, Zenon
  <2> QED BY <2>1, <1>4, <1>5, Zenon
<1>7. r \in DOMAIN snapshot \cup {Missing, Conflict} BY RequestFacts, ResolveType, Zenon
<1>8. CASE r \in DOMAIN snapshot BY <1>8, RequestFacts, Zenon
<1>9. CASE r = Conflict BY <1>6, <1>9, RequestFacts, ResourceChangeFacts, Zenon
<1>10. CASE r = Missing
  <2>1. ResourceChange(snapshot, i) = "Create"
    BY <1>6, <1>10, RequestFacts, ResourceChangeFacts, NotRefs, Zenon
  <2>2. NodeAt(snapshot, desired, q).op # "NoOp" BY <2>1, <1>4, Zenon
  <2>3. CallAt(desired, snapshot, bound, q, NodeAt(snapshot, desired, q),
               Call(desired, snapshot, bound, NodeAt(snapshot, desired, q)))
    BY <1>3, <1>4, <2>1, RequestFacts, CallFacts, Zenon
  <2>4. Produces(NodeAt(snapshot, desired, q)) = {x}
    BY <2>1, <2>3, Zenon DEF CallAt
  <2>5. Produces(NodeAt(snapshot, desired, q)) \cap Consumes(NextNode, desired) # {}
    BY <2>4, Zenon
  <2> DEFINE n == Len(steps) + 1
             c == CompileOperations(snapshot, desired)
  <2>6. n \in DOMAIN s /\ s[n] = NextPlace BY NextPlaceFacts, Zenon DEF NextPlace
  <2>7. c.nodes[n] = NextNode BY <1>5, Zenon DEF NextNode
  <2>8. /\ \A k \in DOMAIN s : \A p \in Places(snapshot, desired) :
             /\ NodeAt(snapshot, desired, p).op # "NoOp"
             /\ p # s[k]
             /\ Produces(NodeAt(snapshot, desired, p)) \cap Consumes(c.nodes[k], desired) # {}
             => \E l \in DOMAIN s : l < k /\ s[l] = p
        /\ \A k \in DOMAIN s : c.nodes[k] = NodeAt(snapshot, desired, s[k])
        /\ DOMAIN s = 1 .. Len(c.nodes) /\ Len(c.nodes) \in Nat
    BY RequestFacts, PlanFacts, Zenon
  <2> HIDE DEF c, n, s, q, x
  <2>9. PICK l \in DOMAIN s : l < n /\ s[l] = q
    BY <1>3, <2>2, <2>5, <2>6, <2>7, <2>8, Zenon DEF q
  <2>10. l \in DOMAIN steps
    BY <2>8, <2>9, StepType DEF n
  <2>11. steps[l].outcome = "Success" BY <2>10, Zenon DEF Running, Stopped
  <2>12. plan.nodes[l] = NodeAt(snapshot, desired, q)
    BY <2>8, <2>9, <1>5, Zenon DEF c
  <2>13. x \in Produces(plan.nodes[l]) BY <2>4, <2>12, Zenon
  <2>14. x \in DOMAIN bound BY <2>10, <2>11, <2>13, Zenon DEF BindingsInv
  <2> QED BY <2>14, Zenon DEF x
<1> QED BY <1>7, <1>8, <1>9, <1>10, Zenon

\* The references of the next call, each resolved or not given.
LEMMA NextCallResolved ==
  ASSUME RequestInv, TypeInv, BoundInv, BindingsInv, WellReferenced, Running
  PROVE  Resolved(NextCall)
<1> DEFINE p == NextPlace
           i == desired[p[1]]
           o == i.overwrites[p[2]]
           call == NextCall
<1>1. CallAt(desired, snapshot, bound, p, NextNode, call) BY NextCallAt, Zenon
<1> HIDE DEF call, p
<1>2. /\ p[1] \in DOMAIN desired
      /\ call.op \in {"Create", "Update", "Delete", "Upsert"}
      /\ NextNode.key = i.key
      /\ p[2] = 0 => /\ call.op = ResourceChange(snapshot, i) /\ call.op # "Upsert"
                     /\ NextNode.op = call.op /\ NextNode.kind = i.kind /\ call.target = None
      /\ p[2] # 0 => /\ p[2] \in DOMAIN i.overwrites /\ call.op = "Upsert"
                     /\ NextNode.kind = "Overwrite" /\ NextNode.target = o.target
                     /\ call.target = TargetRef(desired, snapshot, bound, o.target)
      /\ call.op = "Create" =>
           /\ call.ref = None
           /\ call.parent = IF i.parent = NoKey THEN None
                            ELSE KeyRef(desired, snapshot, bound, "Channel", i.parent)
      /\ call.op # "Create" =>
           /\ call.ref = KeyRef(desired, snapshot, bound, i.kind, i.key)
           /\ call.parent = None
  BY <1>1, Zenon DEF CallAt
<1>3. \A r \in Refs \cup {None} : r # Missing /\ r # Conflict BY NotRefs, Zenon
<1>4. p \in Places(snapshot, desired) /\ p = <<p[1], p[2]>>
  BY NextPlaceFacts, RequestFacts, PlaceFacts DEF p
<1>5. CASE p[2] = 0 /\ call.op = "Create"
  <2>1. CASE i.parent = NoKey BY <1>2, <1>3, <1>5, <2>1, Zenon DEF Resolved, call
  <2>2. CASE i.parent # NoKey
    <3>0. i \in Intents BY <1>2, RequestFacts, IntentType, Zenon
    <3>1. i.kind = "Channel"
      <4>1. i.kind \in {"Role", "Channel"} BY <3>0, Zenon DEF Intents, Kinds
      <4>2. i.kind = "Role" => i.parent = NoKey BY <1>2, RequestFacts, Zenon DEF Normalized
      <4> QED BY <2>2, <4>1, <4>2, Zenon
    <3>2. i.parent # i.key /\ \E m \in Declared(desired, "Channel", i.parent) :
                                desired[m].state = "Present"
      BY <1>2, <2>2, Zenon DEF WellReferenced
    <3>3. PICK m \in Declared(desired, "Channel", i.parent) : desired[m].state = "Present"
      BY <3>2, Zenon
    <3>4. /\ m \in DOMAIN desired /\ desired[m].kind = "Channel" /\ desired[m].key = i.parent
      BY Zenon DEF Declared
    <3>5. <<m, 0>> # p BY <3>2, <3>4
    <3>6. IntentOf(desired, "Channel", i.key) = i
      BY <1>2, <3>1, RequestFacts, IntentOfKey
    <3>7. NextNode.kind = "Channel" /\ NextNode.op = "Create" /\ NextNode.key = i.key
      BY <1>2, <1>5, <3>1, Zenon
    <3>8. Consumes(NextNode, desired) = {<<"Channel", i.parent>>}
      BY <3>6, <3>7, Zenon DEF Consumes
    <3>9. KeyRef(desired, snapshot, bound, "Channel", i.parent) \in Refs
      BY <3>3, <3>4, <3>5, <3>8, ConsumedIsResolved, Zenon DEF p
    <3> QED BY <1>2, <1>3, <1>5, <2>2, <3>9, Zenon DEF Resolved, call
  <2> QED BY <2>1, <2>2, Zenon
<1>6. CASE p[2] = 0 /\ call.op # "Create"
  <2>1. call.op \in {"Update", "Delete"} BY <1>2, <1>6, Zenon
  <2>2. Resolve(snapshot, i) \in DOMAIN snapshot
    BY <1>2, <1>6, <2>1, RequestFacts, ResourceChangeFacts
  <2>3. Resolve(snapshot, i) \in Refs BY <2>2, RequestFacts, Zenon
  <2>4. call.ref = IntentRef(snapshot, bound, i)
    <3>1. KeyRef(desired, snapshot, bound, i.kind, i.key) = IntentRef(snapshot, bound, i)
      BY <1>2, RequestFacts, KeyRefOfIntent, Zenon
    <3> QED BY <1>2, <1>6, <3>1, Zenon
  <2>5. call.ref \in Refs BY <2>3, <2>4, Zenon DEF IntentRef, BoundInv
  <2> QED BY <1>2, <1>3, <1>6, <2>5, Zenon DEF Resolved, call
<1>7. CASE p[2] # 0
  <2>1. /\ i.kind = "Channel" /\ i.state = "Present"
        /\ o.target \in STRING \ {NoKey}
    BY <1>4, <1>7, RequestFacts, OverwriteChangeFacts
  <2>2. NextNode.kind = "Overwrite" /\ NextNode.key = i.key /\ NextNode.target = o.target
    BY <1>2, <1>7, Zenon
  <2>3. Consumes(NextNode, desired) = {<<"Channel", i.key>>, <<"Role", o.target>>}
    BY <2>2, Zenon DEF Consumes
  <2>4. call.ref \in Refs
    <3>1. <<p[1], 0>> # p BY <1>4, <1>7
    <3>2. KeyRef(desired, snapshot, bound, i.kind, i.key) \in Refs
      BY <1>2, <2>1, <2>3, <3>1, ConsumedIsResolved, Zenon DEF p
    <3> QED BY <1>2, <1>7, <3>2, Zenon
  <2>5. call.target \in Refs
    <3>1. CASE o.target = Everyone
      BY <1>2, <1>7, <3>1, RequestFacts, Zenon DEF TargetRef
    <3>2. CASE o.target # Everyone
      <4>1. o \in Range(i.overwrites) BY <1>2, <1>7, Zenon DEF Range
      <4>2. PICK m \in Declared(desired, "Role", o.target) : desired[m].state = "Present"
        BY <1>2, <3>2, <4>1, Zenon DEF WellReferenced
      <4>3. m \in DOMAIN desired /\ desired[m].kind = "Role" /\ desired[m].key = o.target
        BY Zenon DEF Declared
      <4>4. <<m, 0>> # p BY <1>7
      <4>5. KeyRef(desired, snapshot, bound, "Role", o.target) \in Refs
        BY <4>2, <4>3, <4>4, <2>3, ConsumedIsResolved, Zenon DEF p
      <4> QED BY <1>2, <1>7, <3>2, <4>5, Zenon DEF TargetRef
    <3> QED BY <3>1, <3>2, Zenon
  <2>6. call.parent = None BY <1>2, <1>7, Zenon
  <2> QED BY <1>3, <2>4, <2>5, <2>6, Zenon DEF Resolved, call
<1> QED BY <1>5, <1>6, <1>7, Zenon

\* For a desired state whose keys stand for something that is to be there, the
\* order of the graph is enough: no step of the job finds a key unresolved.
THEOREM OrderIsEnough == Spec => []OrderResolvesKeys
<1>1. Init => OrderResolvesKeys BY DEF Init, OrderResolvesKeys
<1>2. Inv /\ BindingsInv /\ OrderResolvesKeys /\ [Next]_vars => OrderResolvesKeys'
  <2> SUFFICES ASSUME Inv, BindingsInv, OrderResolvesKeys, [Next]_vars, WellReferenced',
                      NEW n \in DOMAIN steps', steps'[n].outcome = "Unresolved"
               PROVE  FALSE
    BY Zenon DEF OrderResolvesKeys
  <2>0. RequestInv /\ TypeInv /\ BoundInv BY Zenon DEF Inv
  <2>1. desired' = desired
    BY Zenon DEF Next, Job, Approve, Reject, Start, RunOp, Undo, RunUnresolved, FinishForward,
        FinishRollback, SkipUndo, Drift, vars, request
  <2>2. WellReferenced BY <2>1, Zenon DEF WellReferenced
  <2>3. \A m \in DOMAIN steps : steps[m].outcome # "Unresolved"
    BY <2>2, Zenon DEF OrderResolvesKeys
  <2>4. CASE UNCHANGED steps BY <2>3, <2>4, Zenon
  <2>5. ASSUME Running, NEW result, steps' = Append(steps, result),
               result.outcome # "Unresolved"
        PROVE  FALSE
    <3>1. \A m \in DOMAIN steps' : (m \in DOMAIN steps /\ steps'[m] = steps[m])
                                   \/ steps'[m] = result
      BY <2>0, <2>5, StepType DEF TypeInv
    <3> QED BY <2>3, <2>5, <3>1, Zenon
  <2>6. CASE RunUnresolved BY <2>0, <2>2, <2>6, NextCallResolved, Zenon DEF RunUnresolved
  <2>7. ASSUME NEW answer \in {"Ok", "Failed", "Lost"}, RunOp(answer) PROVE FALSE
    <3> DEFINE result == IF answer = "Ok" THEN StepResult("Success", RollbackAction(NextCall, nextId))
                         ELSE StepResult("Failed", NoAction)
    <3>1. Running /\ steps' = Append(steps, result) BY <2>7, Zenon DEF RunOp
    <3>2. result.outcome # "Unresolved" BY Zenon DEF StepResult
    <3> HIDE DEF result
    <3> QED BY <2>5, <3>1, <3>2, Zenon
  <2>8. CASE FinishForward
    <3>1. \A m \in DOMAIN steps' : (m \in DOMAIN steps /\ steps'[m] = steps[m])
                                   \/ steps'[m].outcome = "Skipped"
      BY <2>8, Zenon DEF FinishForward, StepResult
    <3> QED BY <2>3, <3>1, Zenon
  <2>9. \/ \E user \in Users : Approve(user) \/ Reject(user)
        \/ Start \/ FinishRollback
        \/ \E m \in DOMAIN steps : SkipUndo(m)
        \/ \E m \in DOMAIN steps, answer \in {"Ok", "Failed", "Lost"} : Undo(m, answer)
        \/ \E ref \in DOMAIN guild : Drift(ref)
        \/ UNCHANGED vars
        => UNCHANGED steps
    BY Zenon DEF Approve, Reject, Start, FinishRollback, SkipUndo, Undo, Drift, vars
  <2> QED BY <2>4, <2>6, <2>7, <2>8, <2>9, Zenon DEF Next, Job
<1> QED BY <1>1, <1>2, Invariance, BindingsInvariance, PTL DEF Spec

----------------------------------------------------------------------------
(* Runs in which nothing went wrong so far.                                *)

CleanRun == drift = 0 /\ ~Stopped /\ phase \notin {"Rollback", "RolledBack"}

\* The places of the steps made so far.
Done == {Order(snapshot, desired)[n] : n \in DOMAIN steps}

EndInv == phase = "Succeeded" => ~Stopped /\ Len(steps) = Len(plan.nodes)

\* No two keys are bound to the same resource, and each to one of its kind.
InjectiveInv ==
  /\ \A x, y \in DOMAIN bound : bound[x] = bound[y] => x = y
  /\ \A x \in DOMAIN bound : bound[x][1] = x[1]

\* The loop that ends without a failed step has made them all.
LEMMA FinishClean ==
  ASSUME Inv, FinishForward, ~Stopped
  PROVE  steps' = steps /\ Len(steps) = Len(plan.nodes) /\ phase' = "Succeeded"
<1>0. RequestInv /\ TypeInv BY Zenon DEF Inv
<1>1. Len(plan.nodes) \in Nat BY <1>0, RequestFacts, PlanFacts, Zenon DEF RequestInv
<1>2. Len(steps) \in Nat /\ DOMAIN steps = 1 .. Len(steps) BY <1>0, StepType, Zenon
<1>3. Len(steps) = Len(plan.nodes)
  BY <1>0, <1>1, <1>2 DEF FinishForward, Running, TypeInv
<1>4. steps' = [n \in 1 .. Len(steps) |-> steps[n]]
  BY <1>2, <1>3, Zenon DEF FinishForward
<1>5. steps \in Seq(StepResults) BY <1>0, Zenon DEF TypeInv
<1>6. steps' = steps BY <1>2, <1>4, <1>5
<1> QED BY <1>3, <1>6, Zenon DEF FinishForward

\* As long as nothing goes wrong, a step is an operation that succeeds, or
\* leaves the guild and the job's record alone.
LEMMA CleanStep ==
  ASSUME Inv, [Next]_vars, CleanRun'
  PROVE  /\ CleanRun /\ UNCHANGED request
         /\ RunOp("Ok") \/ UNCHANGED <<guild, bound, steps, nextId>>
<1>0. RequestInv /\ TypeInv BY Zenon DEF Inv
<1>1. drift' = 0 /\ ~Stopped' /\ phase' \notin {"Rollback", "RolledBack"} BY Zenon DEF CleanRun
<1>2. Stopped' <=> \E n \in DOMAIN steps' : steps'[n].outcome # "Success" BY Zenon DEF Stopped
<1>3. ASSUME UNCHANGED <<request, guild, bound, steps, nextId, drift>>,
             phase \notin {"Rollback", "RolledBack"}
      PROVE  CleanRun /\ UNCHANGED request /\ UNCHANGED <<guild, bound, steps, nextId>>
  <2>1. Stopped' <=> Stopped BY <1>3, Zenon DEF Stopped
  <2> QED BY <1>1, <1>3, <2>1, Zenon DEF CleanRun
<1>4. ASSUME NEW result, Running, steps' = Append(steps, result)
      PROVE  result.outcome = "Success"
  <2>1. Len(steps) + 1 \in DOMAIN steps' /\ steps'[Len(steps) + 1] = result
    BY <1>0, <1>4, StepType DEF TypeInv
  <2> QED BY <1>1, <1>2, <2>1, Zenon
<1>5. ~RunUnresolved
  <2>1. StepResult("Unresolved", NoAction).outcome # "Success" BY Zenon DEF StepResult
  <2> QED BY <1>4, <2>1, Zenon DEF RunUnresolved
<1>6. ASSUME NEW answer \in {"Ok", "Failed", "Lost"}, RunOp(answer)
      PROVE  CleanRun /\ UNCHANGED request /\ RunOp("Ok")
  <2> DEFINE result == IF answer = "Ok" THEN StepResult("Success", RollbackAction(NextCall, nextId))
                       ELSE StepResult("Failed", NoAction)
  <2>1. Running /\ steps' = Append(steps, result) /\ UNCHANGED <<request, phase, drift>>
    BY <1>6, Zenon DEF RunOp
  <2>2. answer # "Ok" => result.outcome # "Success" BY Zenon DEF StepResult
  <2> HIDE DEF result
  <2>3. answer = "Ok" BY <1>4, <2>1, <2>2, Zenon
  <2>4. CleanRun BY <1>1, <2>1, Zenon DEF CleanRun, Running
  <2> QED BY <1>6, <2>1, <2>3, <2>4, Zenon
<1>7. CASE FinishForward
  <2>1. phase' # "Rollback" => ~Stopped BY <1>7, Zenon DEF FinishForward
  <2>2. steps' = steps BY <1>1, <1>7, <2>1, FinishClean, Zenon
  <2> QED BY <1>3, <1>7, <2>2, Zenon DEF FinishForward
<1>8. ASSUME NEW user \in Users, Approve(user) \/ Reject(user)
      PROVE  CleanRun /\ UNCHANGED request /\ UNCHANGED <<guild, bound, steps, nextId>>
  BY <1>3, <1>8, Zenon DEF Approve, Reject
<1>9. CASE Start BY <1>3, <1>9, Zenon DEF Start
<1>10. ~FinishRollback BY <1>1, Zenon DEF FinishRollback
<1>11. ASSUME NEW n \in DOMAIN steps PROVE ~SkipUndo(n) BY <1>1, Zenon DEF SkipUndo, Undoing
<1>12. ASSUME NEW n \in DOMAIN steps, NEW answer PROVE ~Undo(n, answer)
  BY <1>1, Zenon DEF Undo, Undoing
<1>13. ASSUME NEW ref PROVE ~Drift(ref)
  BY <1>0, <1>1 DEF Drift, TypeInv
<1>14. CASE UNCHANGED vars
  <2>1. UNCHANGED <<request, guild, bound, steps, nextId, drift, phase>>
    BY <1>14, Zenon DEF vars, request
  <2> QED BY <1>1, <1>3, <2>1, Zenon
<1> QED
  BY <1>5, <1>6, <1>7, <1>8, <1>9, <1>10, <1>11, <1>12, <1>13, <1>14, Zenon DEF Next, Job

LEMMA EndInit == Init => EndInv /\ InjectiveInv
BY DEF Init, EndInv, InjectiveInv

LEMMA EndNext == Inv /\ EndInv /\ [Next]_vars => EndInv'
<1> SUFFICES ASSUME Inv, EndInv, [Next]_vars, phase' = "Succeeded"
             PROVE  ~Stopped' /\ Len(steps') = Len(plan'.nodes)
  BY Zenon DEF EndInv
<1>1. CASE UNCHANGED <<plan, steps, phase>> BY <1>1, Zenon DEF EndInv, Stopped
<1>2. CASE FinishForward
  <2>1. ~Stopped BY <1>2, Zenon DEF FinishForward
  <2>2. steps' = steps /\ Len(steps) = Len(plan.nodes) BY <1>2, <2>1, FinishClean, Zenon
  <2>3. plan' = plan BY <1>2, Zenon DEF FinishForward, request
  <2> QED BY <2>1, <2>2, <2>3, Zenon DEF Stopped
<1>3. \/ \E user \in Users : Approve(user) \/ Reject(user)
      \/ \E n \in DOMAIN steps : SkipUndo(n)
      \/ \E n \in DOMAIN steps, answer \in {"Ok", "Failed", "Lost"} : Undo(n, answer)
      \/ \E ref \in DOMAIN guild : Drift(ref)
      \/ UNCHANGED vars
      => UNCHANGED <<plan, steps, phase>>
  BY Zenon DEF Approve, Reject, SkipUndo, Undo, Drift, vars, request
<1>4. ~Start /\ ~FinishRollback BY Zenon DEF Start, FinishRollback
<1>5. ~RunUnresolved /\ \A answer : ~RunOp(answer) BY Zenon DEF RunUnresolved, RunOp, Running
<1> QED BY <1>1, <1>2, <1>3, <1>4, <1>5, Zenon DEF Next, Job

LEMMA InjectiveNext == Inv /\ InjectiveInv /\ [Next]_vars => InjectiveInv'
<1> SUFFICES ASSUME Inv, InjectiveInv, [Next]_vars PROVE InjectiveInv'
  BY Zenon
<1>1. CASE bound' = bound BY <1>1, Zenon DEF InjectiveInv
<1>2. ASSUME NEW answer, RunOp(answer) PROVE InjectiveInv'
  <2>1. CASE answer = "Ok" /\ NextCall.op = "Create"
    <3> DEFINE x == <<NextNode.kind, NextNode.key>>
               r == <<NextCall.kind, nextId>>
    <3>0. x[1] = r[1]
      <4>1. CallAt(desired, snapshot, bound, NextPlace, NextNode, NextCall)
        BY <1>2, NextCallAt, Zenon DEF RunOp, Inv
      <4>2. NextNode.kind = NextCall.kind BY <2>1, <4>1, Zenon DEF CallAt
      <4> QED BY <4>2, Zenon
    <3>1. bound' = With(bound, x, r) BY <1>2, <2>1, Zenon DEF RunOp, Bind
    <3>2. \A y \in DOMAIN bound : bound[y] # r
      <4> SUFFICES ASSUME NEW y \in DOMAIN bound PROVE bound[y] # r
        BY Zenon
      <4>1. bound[y] \in Refs /\ bound[y][2] < nextId BY Zenon DEF Inv, BoundInv
      <4>2. bound[y][2] \in Nat BY <4>1, Zenon DEF Refs
      <4> QED BY <4>1, <4>2
    <3> HIDE DEF x, r
    <3>3. /\ \A y : y \in DOMAIN bound' <=> y \in DOMAIN bound \/ y = x
          /\ bound'[x] = r /\ \A y \in DOMAIN bound : y # x => bound'[y] = bound[y]
      BY <3>1, WithFacts
    <3> QED BY <3>0, <3>2, <3>3 DEF InjectiveInv
  <2>2. CASE ~(answer = "Ok" /\ NextCall.op = "Create")
    <3>1. bound' = bound BY <1>2, <2>2, Zenon DEF RunOp
    <3> QED BY <1>1, <3>1, Zenon
  <2> QED BY <2>1, <2>2, Zenon
<1>3. \/ \E user \in Users : Approve(user) \/ Reject(user)
      \/ Start \/ FinishRollback \/ RunUnresolved \/ FinishForward
      \/ \E n \in DOMAIN steps : SkipUndo(n)
      \/ \E n \in DOMAIN steps, answer \in {"Ok", "Failed", "Lost"} : Undo(n, answer)
      \/ \E ref \in DOMAIN guild : Drift(ref)
      \/ UNCHANGED vars
      => UNCHANGED bound
  BY Zenon DEF Approve, Reject, Start, FinishRollback, RunUnresolved, FinishForward, SkipUndo, Undo,
         Drift, vars
<1> QED BY <1>1, <1>2, <1>3, Zenon DEF Next, Job

\* Everything known of every state.
JobInv == Inv /\ BindingsInv /\ EndInv /\ InjectiveInv

LEMMA JobInvariance == Spec => []JobInv
<1>1. Init => JobInv BY InvInit, BindingsInit, EndInit, Zenon DEF JobInv
<1>2. JobInv /\ [Next]_vars => JobInv'
  BY InvNext, BindingsNext, EndNext, InjectiveNext, Zenon DEF JobInv
<1> QED BY <1>1, <1>2, PTL DEF Spec

\* One operation that succeeds.
LEMMA OkStep ==
  ASSUME JobInv, RunOp("Ok")
  PROVE  /\ CallAt(desired, snapshot, bound, NextPlace, NextNode, NextCall)
         /\ IsCall(NextCall) /\ Resolved(NextCall) /\ Known(NextCall)
         /\ guild' = Effect(guild, NextCall, nextId)
         /\ nextId' = IF NextCall.op = "Create" THEN nextId + 1 ELSE nextId
         /\ NextPlace \in Places(snapshot, desired) /\ NextPlace \notin Done
         /\ NextNode = NodeAt(snapshot, desired, NextPlace)
         /\ NextPlace = <<NextPlace[1], NextPlace[2]>>
         /\ \A p : p \in Done' <=> p \in Done \/ p = NextPlace
         /\ Len(steps') = Len(steps) + 1 /\ Len(steps) \in Nat
<1>0. RequestInv /\ TypeInv /\ BoundInv BY Zenon DEF JobInv, Inv
<1>1. /\ Running /\ Resolved(NextCall) /\ Serve(NextCall, "Ok")
      /\ steps' = Append(steps, StepResult("Success", RollbackAction(NextCall, nextId)))
      /\ UNCHANGED request
  BY Zenon DEF RunOp
<1>2. CallAt(desired, snapshot, bound, NextPlace, NextNode, NextCall)
  BY <1>0, <1>1, NextCallAt, Zenon
<1>3. IsCall(NextCall) BY <1>0, <1>1, NextCallFacts, Zenon
<1>4. /\ Known(NextCall) /\ guild' = Effect(guild, NextCall, nextId)
      /\ nextId' = IF NextCall.op = "Create" THEN nextId + 1 ELSE nextId
  BY <1>1, Zenon DEF Serve, Answers
<1>5. /\ NextPlace \in Places(snapshot, desired) /\ Len(steps) \in Nat
      /\ NextNode = NodeAt(snapshot, desired, NextPlace)
      /\ Len(steps) + 1 \in DOMAIN Order(snapshot, desired)
  BY <1>0, <1>1, NextPlaceFacts, Zenon
<1>6. NextPlace = <<NextPlace[1], NextPlace[2]>> BY <1>0, <1>5, RequestFacts, PlaceFacts
<1> DEFINE s == Order(snapshot, desired)
           l == Len(steps) + 1
<1>7. /\ \A m, n \in DOMAIN s : s[m] = s[n] => m = n
      /\ DOMAIN s = 1 .. Len(CompileOperations(snapshot, desired).nodes)
  BY <1>0, RequestFacts, PlanFacts, Zenon
<1>8. /\ DOMAIN steps = 1 .. Len(steps) /\ DOMAIN steps' = 1 .. l /\ Len(steps') = l
  BY <1>0, <1>1, StepType DEF TypeInv
<1>9. s' = s BY <1>1, Zenon DEF request
<1>10. NextPlace = s[l] BY Zenon DEF NextPlace
<1> HIDE DEF s
<1>11. DOMAIN steps \subseteq DOMAIN s /\ l \in DOMAIN s /\ l \notin DOMAIN steps
       /\ DOMAIN steps' = DOMAIN steps \cup {l}
  <2>1. plan = CompileOperations(snapshot, desired) BY <1>0, Zenon DEF RequestInv
  <2>2. Len(plan.nodes) \in Nat BY <1>0, RequestFacts, PlanFacts, Zenon DEF RequestInv
  <2> QED BY <1>0, <1>5, <1>7, <1>8, <2>1, <2>2 DEF s, TypeInv
<1>12. Done = {s[n] : n \in DOMAIN steps} /\ Done' = {s[n] : n \in DOMAIN steps'}
  BY <1>9, Zenon DEF Done, s
<1>13. NextPlace \notin Done BY <1>7, <1>10, <1>11, <1>12, Zenon
<1>14. \A p : p \in Done' <=> p \in Done \/ p = NextPlace BY <1>10, <1>11, <1>12, Zenon
<1> QED BY <1>1, <1>2, <1>3, <1>4, <1>5, <1>6, <1>8, <1>13, <1>14, Zenon

\* The key of an intent is bound only when the intent is one to create.
LEMMA BoundIsCreated ==
  ASSUME JobInv, NEW n \in DOMAIN desired, <<desired[n].kind, desired[n].key>> \in DOMAIN bound
  PROVE  ResourceChange(snapshot, desired[n]) = "Create" /\ <<n, 0>> \in Done
<1> DEFINE x == <<desired[n].kind, desired[n].key>>
           s == Order(snapshot, desired)
<1>0. RequestInv /\ TypeInv /\ BindingsInv BY Zenon DEF JobInv, Inv
<1>1. PICK l \in DOMAIN steps : steps[l].outcome = "Success" /\ x \in Produces(plan.nodes[l])
  BY <1>0, Zenon DEF BindingsInv
<1>2. plan.ok
  <2>1. steps # << >> BY <1>1
  <2> QED BY <1>0, <2>1, Zenon DEF TypeInv
<1>3. plan = CompileOperations(snapshot, desired) BY <1>0, Zenon DEF RequestInv
<1>4. /\ Len(plan.nodes) \in Nat
      /\ DOMAIN s = 1 .. Len(plan.nodes)
      /\ \A k \in DOMAIN s :
           /\ s[k] \in Places(snapshot, desired)
           /\ plan.nodes[k] = NodeAt(snapshot, desired, s[k])
           /\ plan.nodes[k].op # "NoOp"
      /\ plan.ok => \A q \in Places(snapshot, desired) :
           NodeAt(snapshot, desired, q).op # "Conflict"
  BY <1>0, <1>3, RequestFacts, PlanFacts, Zenon
<1>5. l \in DOMAIN s
  BY <1>0, <1>4, StepType DEF TypeInv
<1> DEFINE p == s[l]
           node == NodeAt(snapshot, desired, p)
           call == Call(desired, snapshot, bound, node)
<1>6. p \in Places(snapshot, desired) /\ node.op \notin {"NoOp", "Conflict"} /\ plan.nodes[l] = node
  BY <1>2, <1>4, <1>5, Zenon
<1>7. CallAt(desired, snapshot, bound, p, node, call)
  BY <1>0, <1>6, RequestFacts, CallFacts, Zenon
<1>8. p \in Done BY <1>1, Zenon DEF Done
<1>9. p = <<p[1], p[2]>> BY <1>0, <1>6, RequestFacts, PlaceFacts
<1> HIDE DEF p, node, call
<1>10. /\ p[1] \in DOMAIN desired
       /\ call.op = "Create" /\ x = <<desired[p[1]].kind, desired[p[1]].key>>
       /\ p[2] = 0 => ResourceChange(snapshot, desired[p[1]]) = "Create"
       /\ p[2] # 0 => call.op = "Upsert"
  BY <1>1, <1>6, <1>7, Zenon DEF CallAt
<1>11. p[1] = n BY <1>0, <1>10, RequestFacts, Zenon DEF Validate
<1> QED BY <1>8, <1>9, <1>10, <1>11, Zenon

\* What the key of intent n stands for now.
Ref(n) == IntentRef(snapshot, bound, desired[n])

\* A successful creation binds a key that was not bound before, and no other
\* operation changes what the keys stand for.
LEMMA KeyRefStep ==
  ASSUME JobInv, RunOp("Ok"), NEW CONSTANT k, k = NextPlace[1]
  PROVE  /\ NextCall.op = "Create" => Ref(k) = Missing /\ Ref(k)' = <<NextCall.kind, nextId>>
         /\ NextCall.op # "Create" => bound' = bound
         /\ \A kind, key : KeyRef(desired, snapshot, bound, kind, key) # Missing =>
              KeyRef(desired, snapshot, bound, kind, key)' = KeyRef(desired, snapshot, bound, kind, key)
         /\ \A n \in DOMAIN desired : Ref(n) # Missing => Ref(n)' = Ref(n)
<1> DEFINE i == desired[k]
           x == <<i.kind, i.key>>
<1>0. RequestInv /\ TypeInv /\ BoundInv BY Zenon DEF JobInv, Inv
<1>1. /\ CallAt(desired, snapshot, bound, NextPlace, NextNode, NextCall)
      /\ NextPlace \notin Done
      /\ NextPlace = <<NextPlace[1], NextPlace[2]>>
  BY OkStep, Zenon
<1>2. desired' = desired /\ snapshot' = snapshot BY Zenon DEF RunOp, request
<1>3. CASE NextCall.op # "Create"
  <2>1. bound' = bound BY <1>3, Zenon DEF RunOp
  <2> QED BY <1>2, <1>3, <2>1, Zenon DEF Ref
<1>4. CASE NextCall.op = "Create"
  <2>1. /\ k \in DOMAIN desired /\ NextPlace[2] = 0
        /\ ResourceChange(snapshot, i) = "Create"
        /\ NextNode.kind = i.kind /\ NextNode.key = i.key
    BY <1>1, <1>4, Zenon DEF CallAt
  <2>2. x \notin DOMAIN bound BY <1>1, <2>1, BoundIsCreated, Zenon
  <2>3. Resolve(snapshot, i) = Missing BY <1>0, <2>1, RequestFacts, ResourceChangeFacts, Zenon
  <2>4. bound' = With(bound, x, <<NextCall.kind, nextId>>) BY <1>4, <2>1, Zenon DEF RunOp, Bind
  <2> DEFINE r == <<NextCall.kind, nextId>>
  <2> HIDE DEF x, r
  <2>5. /\ \A y : y \in DOMAIN bound' <=> y \in DOMAIN bound \/ y = x
        /\ bound'[x] = r
        /\ \A y \in DOMAIN bound : y # x => bound'[y] = bound[y]
    BY <2>4, WithFacts DEF r
  <2>6. Ref(k) = Missing BY <2>2, <2>3, Zenon DEF Ref, IntentRef, x
  <2>7. Ref(k)' = r BY <1>2, <2>5, Zenon DEF Ref, IntentRef, x
  <2>8. ASSUME NEW kind, NEW key, KeyRef(desired, snapshot, bound, kind, key) # Missing
        PROVE  KeyRef(desired, snapshot, bound', kind, key) = KeyRef(desired, snapshot, bound, kind, key)
    <3>1. CASE <<kind, key>> = x
      <4>1. kind = i.kind /\ key = i.key BY <3>1, Zenon DEF x
      <4>2. KeyRef(desired, snapshot, bound, i.kind, i.key) = IntentRef(snapshot, bound, i)
        BY <1>0, <2>1, RequestFacts, KeyRefOfIntent, Zenon
      <4> QED BY <2>6, <2>8, <4>1, <4>2, Zenon DEF Ref
    <3>2. CASE <<kind, key>> # x
      BY <2>5, <3>2, Zenon DEF KeyRef
    <3> QED BY <3>1, <3>2, Zenon
  <2>9. ASSUME NEW n \in DOMAIN desired, Ref(n) # Missing PROVE Ref(n)' = Ref(n)
    <3> DEFINE y == <<desired[n].kind, desired[n].key>>
    <3>1. y # x BY <2>1, <2>6, <2>9, <1>0, RequestFacts, Zenon DEF Validate, x
    <3>2. y \in DOMAIN bound' <=> y \in DOMAIN bound BY <2>5, <3>1, Zenon
    <3>3. y \in DOMAIN bound => bound'[y] = bound[y] BY <2>5, <3>1, Zenon
    <3> QED BY <1>2, <3>2, <3>3, Zenon DEF Ref, IntentRef
  <2> QED BY <1>2, <1>4, <2>6, <2>7, <2>8, <2>9, Zenon DEF r
<1> QED BY <1>3, <1>4, Zenon

----------------------------------------------------------------------------
(* Changes at two places of a map commute.                                 *)

LEMMA MapsEqual ==
  ASSUME NEW f, NEW e, IsMap(f), IsMap(e),
         \A y : y \in DOMAIN f <=> y \in DOMAIN e,
         \A y \in DOMAIN f : f[y] = e[y]
  PROVE  f = e
<1>1. DOMAIN f = DOMAIN e BY Zenon
<1>2. [y \in DOMAIN f |-> f[y]] = [y \in DOMAIN e |-> e[y]] BY <1>1, Zenon
<1> QED BY <1>2, Zenon DEF IsMap

LEMMA WithTwice ==
  ASSUME NEW f, NEW x, NEW v, NEW w
  PROVE  /\ With(With(f, x, v), x, w) = With(f, x, w)
         /\ Without(With(f, x, v), x) = Without(f, x)
<1>1. With(With(f, x, v), x, w) = With(f, x, w)
  <2> DEFINE a == With(f, x, v)
             b == With(a, x, w)
             c == With(f, x, w)
  <2>1. /\ \A y : y \in DOMAIN a <=> y \in DOMAIN f \/ y = x
        /\ \A y \in DOMAIN f : y # x => a[y] = f[y]
    BY WithFacts
  <2> HIDE DEF a
  <2>2. /\ \A y : y \in DOMAIN b <=> y \in DOMAIN a \/ y = x
        /\ b[x] = w /\ (\A y \in DOMAIN a : y # x => b[y] = a[y]) /\ IsMap(b)
    BY WithFacts
  <2>3. /\ \A y : y \in DOMAIN c <=> y \in DOMAIN f \/ y = x
        /\ c[x] = w /\ (\A y \in DOMAIN f : y # x => c[y] = f[y]) /\ IsMap(c)
    BY WithFacts
  <2> HIDE DEF b, c
  <2>4. \A y : y \in DOMAIN b <=> y \in DOMAIN c BY <2>1, <2>2, <2>3, Zenon
  <2>5. \A y \in DOMAIN b : b[y] = c[y] BY <2>1, <2>2, <2>3, Zenon
  <2>6. b = c BY <2>2, <2>3, <2>4, <2>5, MapsEqual, Zenon
  <2> QED BY <2>6, Zenon DEF a, b, c
<1>2. Without(With(f, x, v), x) = Without(f, x)
  <2> DEFINE a == With(f, x, v)
             b == Without(a, x)
             c == Without(f, x)
  <2>1. /\ \A y : y \in DOMAIN a <=> y \in DOMAIN f \/ y = x
        /\ \A y \in DOMAIN f : y # x => a[y] = f[y]
    BY WithFacts
  <2> HIDE DEF a
  <2>2. /\ \A y : y \in DOMAIN b <=> y \in DOMAIN a /\ y # x
        /\ (\A y \in DOMAIN a : y # x => b[y] = a[y]) /\ IsMap(b)
    BY WithoutFacts, Zenon
  <2>3. /\ \A y : y \in DOMAIN c <=> y \in DOMAIN f /\ y # x
        /\ (\A y \in DOMAIN f : y # x => c[y] = f[y]) /\ IsMap(c)
    BY WithoutFacts, Zenon
  <2> HIDE DEF b, c
  <2>4. \A y : y \in DOMAIN b <=> y \in DOMAIN c BY <2>1, <2>2, <2>3, Zenon
  <2>5. \A y \in DOMAIN b : b[y] = c[y] BY <2>1, <2>2, <2>3, Zenon
  <2>6. b = c BY <2>2, <2>3, <2>4, <2>5, MapsEqual, Zenon
  <2> QED BY <2>6, Zenon DEF a, b, c
<1> QED BY <1>1, <1>2, Zenon

LEMMA WithWith ==
  ASSUME NEW f, NEW x, NEW y, x # y, NEW v, NEW w
  PROVE  With(With(f, x, v), y, w) = With(With(f, y, w), x, v)
<1> DEFINE a == With(f, x, v)
           b == With(f, y, w)
           c == With(a, y, w)
           d == With(b, x, v)
<1>1. /\ \A z : z \in DOMAIN a <=> z \in DOMAIN f \/ z = x
      /\ a[x] = v /\ (\A z \in DOMAIN f : z # x => a[z] = f[z])
  BY WithFacts
<1>2. /\ \A z : z \in DOMAIN b <=> z \in DOMAIN f \/ z = y
      /\ b[y] = w /\ (\A z \in DOMAIN f : z # y => b[z] = f[z])
  BY WithFacts
<1> HIDE DEF a, b
<1>3. /\ \A z : z \in DOMAIN c <=> z \in DOMAIN a \/ z = y
      /\ c[y] = w /\ (\A z \in DOMAIN a : z # y => c[z] = a[z]) /\ IsMap(c)
  BY WithFacts
<1>4. /\ \A z : z \in DOMAIN d <=> z \in DOMAIN b \/ z = x
      /\ d[x] = v /\ (\A z \in DOMAIN b : z # x => d[z] = b[z]) /\ IsMap(d)
  BY WithFacts
<1> HIDE DEF c, d
<1>5. \A z : z \in DOMAIN c <=> z \in DOMAIN d BY <1>1, <1>2, <1>3, <1>4, Zenon
<1>6. \A z \in DOMAIN c : c[z] = d[z] BY <1>1, <1>2, <1>3, <1>4, Zenon
<1>7. c = d BY <1>3, <1>4, <1>5, <1>6, MapsEqual, Zenon
<1> QED BY <1>7, Zenon DEF a, b, c, d

LEMMA WithoutWith ==
  ASSUME NEW f, NEW x, NEW y, x # y, NEW v
  PROVE  Without(With(f, x, v), y) = With(Without(f, y), x, v)
<1> DEFINE a == With(f, x, v)
           b == Without(f, y)
           c == Without(a, y)
           d == With(b, x, v)
<1>1. /\ \A z : z \in DOMAIN a <=> z \in DOMAIN f \/ z = x
      /\ a[x] = v /\ (\A z \in DOMAIN f : z # x => a[z] = f[z])
  BY WithFacts
<1>2. /\ \A z : z \in DOMAIN b <=> z \in DOMAIN f /\ z # y
      /\ (\A z \in DOMAIN f : z # y => b[z] = f[z])
  BY WithoutFacts, Zenon
<1> HIDE DEF a, b
<1>3. /\ \A z : z \in DOMAIN c <=> z \in DOMAIN a /\ z # y
      /\ (\A z \in DOMAIN a : z # y => c[z] = a[z]) /\ IsMap(c)
  BY WithoutFacts, Zenon
<1>4. /\ \A z : z \in DOMAIN d <=> z \in DOMAIN b \/ z = x
      /\ d[x] = v /\ (\A z \in DOMAIN b : z # x => d[z] = b[z]) /\ IsMap(d)
  BY WithFacts
<1> HIDE DEF c, d
<1>5. \A z : z \in DOMAIN c <=> z \in DOMAIN d BY <1>1, <1>2, <1>3, <1>4, Zenon
<1>6. \A z \in DOMAIN c : c[z] = d[z] BY <1>1, <1>2, <1>3, <1>4, Zenon
<1>7. c = d BY <1>3, <1>4, <1>5, <1>6, MapsEqual, Zenon
<1> QED BY <1>7, Zenon DEF a, b, c, d

LEMMA WithoutWithout ==
  ASSUME NEW f, NEW x, NEW y, x # y
  PROVE  Without(Without(f, x), y) = Without(Without(f, y), x)
<1> DEFINE a == Without(f, x)
           b == Without(f, y)
           c == Without(a, y)
           d == Without(b, x)
<1>1. /\ \A z : z \in DOMAIN a <=> z \in DOMAIN f /\ z # x
      /\ (\A z \in DOMAIN f : z # x => a[z] = f[z])
  BY WithoutFacts, Zenon
<1>2. /\ \A z : z \in DOMAIN b <=> z \in DOMAIN f /\ z # y
      /\ (\A z \in DOMAIN f : z # y => b[z] = f[z])
  BY WithoutFacts, Zenon
<1> HIDE DEF a, b
<1>3. /\ \A z : z \in DOMAIN c <=> z \in DOMAIN a /\ z # y
      /\ (\A z \in DOMAIN a : z # y => c[z] = a[z]) /\ IsMap(c)
  BY WithoutFacts, Zenon
<1>4. /\ \A z : z \in DOMAIN d <=> z \in DOMAIN b /\ z # x
      /\ (\A z \in DOMAIN b : z # x => d[z] = b[z]) /\ IsMap(d)
  BY WithoutFacts, Zenon
<1> HIDE DEF c, d
<1>5. \A z : z \in DOMAIN c <=> z \in DOMAIN d BY <1>1, <1>2, <1>3, <1>4, Zenon
<1>6. \A z \in DOMAIN c : c[z] = d[z] BY <1>1, <1>2, <1>3, <1>4, Zenon
<1>7. c = d BY <1>3, <1>4, <1>5, <1>6, MapsEqual, Zenon
<1> QED BY <1>7, Zenon DEF a, b, c, d

----------------------------------------------------------------------------
(* Two calls, one after the other.                                         *)

\* Two updates or overwrites of one resource: the second hides the first, or
\* they commute.
Edited(c, call) == IF call.op = "Update" THEN Updated(c, call) ELSE Overwritten(c, call)

LEMMA ResourcesEqual ==
  ASSUME NEW c, NEW d, IsResource(c), IsResource(d),
         c.name = d.name, c.value = d.value, c.parent = d.parent, c.overwrites = d.overwrites
  PROVE  c = d
<1>1. c = [name |-> c.name, value |-> c.value, parent |-> c.parent, overwrites |-> c.overwrites]
  BY ResourceFields, Zenon
<1>2. d = [name |-> d.name, value |-> d.value, parent |-> d.parent, overwrites |-> d.overwrites]
  BY ResourceFields, Zenon
<1> QED BY <1>1, <1>2, Zenon

LEMMA EditedFields ==
  ASSUME NEW c, IsResource(c), NEW call, IsCall(call), call.op \in {"Update", "Upsert"}
  PROVE  /\ IsResource(Edited(c, call))
         /\ Edited(c, call).parent = c.parent
         /\ call.op = "Update" =>
              /\ Edited(c, call).name = Given(call.name, c.name, NoKey)
              /\ Edited(c, call).value = Given(call.value, c.value, Unset)
              /\ Edited(c, call).overwrites = c.overwrites
         /\ call.op = "Upsert" =>
              /\ Edited(c, call).name = c.name
              /\ Edited(c, call).value = c.value
              /\ Edited(c, call).overwrites = With(c.overwrites, call.target, call.value)
<1>1. CASE call.op = "Update"
  <2>1. Edited(c, call) = Updated(c, call) BY <1>1, Zenon DEF Edited
  <2>2. IsResource(Updated(c, call)) BY <1>1, UpdatedIsResource, Zenon
  <2> QED BY <1>1, <2>1, <2>2, UpdatedFields, Zenon
<1>2. CASE call.op = "Upsert"
  <2>1. Edited(c, call) = Overwritten(c, call) BY <1>2, Zenon DEF Edited
  <2>2. IsResource(Overwritten(c, call)) BY <1>2, OverwrittenIsResource, Zenon
  <2>3. /\ Overwritten(c, call).name = c.name
        /\ Overwritten(c, call).value = c.value
        /\ Overwritten(c, call).parent = c.parent
        /\ Overwritten(c, call).overwrites = With(c.overwrites, call.target, call.value)
    BY OverwrittenFields, Zenon
  <2> QED BY <1>2, <2>1, <2>2, <2>3, Zenon
<1> QED BY <1>1, <1>2, Zenon

\* The update of a rollback gives both fields.
Full(call) == call.op = "Update" => call.name # NoKey /\ call.value # Unset

LEMMA EditsCommute ==
  ASSUME NEW c, IsResource(c), NEW a, IsCall(a), a.op \in {"Update", "Upsert"},
         NEW u, IsCall(u), u.op \in {"Update", "Upsert"}, Full(u)
  PROVE  \/ Edited(Edited(c, a), u) = Edited(c, u)
         \/ Edited(Edited(c, a), u) = Edited(Edited(c, u), a)
<1> DEFINE ca == Edited(c, a)
           cu == Edited(c, u)
           cau == Edited(ca, u)
           cua == Edited(cu, a)
<1>1. /\ IsResource(ca) /\ ca.parent = c.parent
      /\ a.op = "Update" => /\ ca.name = Given(a.name, c.name, NoKey)
                            /\ ca.value = Given(a.value, c.value, Unset)
                            /\ ca.overwrites = c.overwrites
      /\ a.op = "Upsert" => /\ ca.name = c.name /\ ca.value = c.value
                            /\ ca.overwrites = With(c.overwrites, a.target, a.value)
  BY EditedFields, Zenon
<1>2. /\ IsResource(cu) /\ cu.parent = c.parent
      /\ u.op = "Update" => /\ cu.name = Given(u.name, c.name, NoKey)
                            /\ cu.value = Given(u.value, c.value, Unset)
                            /\ cu.overwrites = c.overwrites
      /\ u.op = "Upsert" => /\ cu.name = c.name /\ cu.value = c.value
                            /\ cu.overwrites = With(c.overwrites, u.target, u.value)
  BY EditedFields, Zenon
<1> HIDE DEF ca, cu
<1>3. /\ IsResource(cau) /\ cau.parent = ca.parent
      /\ u.op = "Update" => /\ cau.name = Given(u.name, ca.name, NoKey)
                            /\ cau.value = Given(u.value, ca.value, Unset)
                            /\ cau.overwrites = ca.overwrites
      /\ u.op = "Upsert" => /\ cau.name = ca.name /\ cau.value = ca.value
                            /\ cau.overwrites = With(ca.overwrites, u.target, u.value)
  BY <1>1, EditedFields
<1>4. /\ IsResource(cua) /\ cua.parent = cu.parent
      /\ a.op = "Update" => /\ cua.name = Given(a.name, cu.name, NoKey)
                            /\ cua.value = Given(a.value, cu.value, Unset)
                            /\ cua.overwrites = cu.overwrites
      /\ a.op = "Upsert" => /\ cua.name = cu.name /\ cua.value = cu.value
                            /\ cua.overwrites = With(cu.overwrites, a.target, a.value)
  BY <1>2, EditedFields
<1> HIDE DEF cau, cua
<1>5. CASE u.op = "Update" /\ a.op = "Update"
  <2>1. /\ \A x : Given(u.name, x, NoKey) = u.name
        /\ \A x : Given(u.value, x, Unset) = u.value
    BY <1>5, Zenon DEF Full, Given
  <2>2. cau = cu BY <1>1, <1>2, <1>3, <1>5, <2>1, ResourcesEqual, Zenon
  <2> QED BY <2>2, Zenon DEF ca, cu, cau
<1>6. CASE u.op = "Update" /\ a.op = "Upsert"
  <2>1. cau = cua BY <1>1, <1>2, <1>3, <1>4, <1>6, ResourcesEqual
  <2> QED BY <2>1, Zenon DEF ca, cu, cau, cua
<1>7. CASE u.op = "Upsert" /\ a.op = "Update"
  <2>1. cau = cua BY <1>1, <1>2, <1>3, <1>4, <1>7, ResourcesEqual
  <2> QED BY <2>1, Zenon DEF ca, cu, cau, cua
<1>8. CASE u.op = "Upsert" /\ a.op = "Upsert" /\ u.target = a.target
  <2>1. cau.overwrites = cu.overwrites BY <1>1, <1>2, <1>3, <1>8, WithTwice
  <2>2. cau = cu BY <1>1, <1>2, <1>3, <1>8, <2>1, ResourcesEqual, Zenon
  <2> QED BY <2>2, Zenon DEF ca, cu, cau
<1>9. CASE u.op = "Upsert" /\ a.op = "Upsert" /\ u.target # a.target
  <2>0. With(With(c.overwrites, a.target, a.value), u.target, u.value)
          = With(With(c.overwrites, u.target, u.value), a.target, a.value)
    <3>1. a.target # u.target BY <1>9, Zenon
    <3> QED BY <3>1, WithWith
  <2>1. cau.overwrites = cua.overwrites BY <1>1, <1>2, <1>3, <1>4, <1>9, <2>0, Zenon
  <2>2. cau = cua BY <1>1, <1>2, <1>3, <1>4, <1>9, <2>1, ResourcesEqual, Zenon
  <2> QED BY <2>2, Zenon DEF ca, cu, cau, cua
<1> QED BY <1>5, <1>6, <1>7, <1>8, <1>9, Zenon

\* An edit of a resource that loses q: the overwrite for q is lost with it, and
\* any other edit is kept.
LEMMA DetachedEdited ==
  ASSUME NEW c, IsResource(c), NEW a, IsCall(a), a.op \in {"Update", "Upsert"}, NEW q
  PROVE  IF a.op = "Upsert" /\ a.target = q
         THEN Detached(Edited(c, a), {q}) = Detached(c, {q})
         ELSE Detached(Edited(c, a), {q}) = Edited(Detached(c, {q}), a)
<1> DEFINE ca == Edited(c, a)
           cq == Detached(c, {q})
           caq == Detached(ca, {q})
           cqa == Edited(cq, a)
<1>1. /\ IsResource(ca) /\ ca.parent = c.parent
      /\ a.op = "Update" => /\ ca.name = Given(a.name, c.name, NoKey)
                            /\ ca.value = Given(a.value, c.value, Unset)
                            /\ ca.overwrites = c.overwrites
      /\ a.op = "Upsert" => /\ ca.name = c.name /\ ca.value = c.value
                            /\ ca.overwrites = With(c.overwrites, a.target, a.value)
  BY EditedFields, Zenon
<1>2. /\ IsResource(cq) /\ cq.name = c.name /\ cq.value = c.value
      /\ cq.parent = IF c.parent = q THEN None ELSE c.parent
      /\ cq.overwrites = Without(c.overwrites, q)
  BY DetachedFields, Zenon
<1> HIDE DEF ca, cq
<1>3. /\ IsResource(caq) /\ caq.name = ca.name /\ caq.value = ca.value
      /\ caq.parent = IF ca.parent = q THEN None ELSE ca.parent
      /\ caq.overwrites = Without(ca.overwrites, q)
  BY <1>1, DetachedFields, Zenon
<1>4. /\ IsResource(cqa) /\ cqa.parent = cq.parent
      /\ a.op = "Update" => /\ cqa.name = Given(a.name, cq.name, NoKey)
                            /\ cqa.value = Given(a.value, cq.value, Unset)
                            /\ cqa.overwrites = cq.overwrites
      /\ a.op = "Upsert" => /\ cqa.name = cq.name /\ cqa.value = cq.value
                            /\ cqa.overwrites = With(cq.overwrites, a.target, a.value)
  BY <1>2, EditedFields
<1> HIDE DEF caq, cqa
<1>5. caq.parent = cq.parent /\ caq.parent = cqa.parent BY <1>1, <1>2, <1>3, <1>4, Zenon
<1>6. CASE a.op = "Update"
  <2>1. caq = cqa BY <1>1, <1>2, <1>3, <1>4, <1>5, <1>6, ResourcesEqual
  <2> QED BY <1>6, <2>1 DEF ca, cq, caq, cqa
<1>7. CASE a.op = "Upsert" /\ a.target = q
  <2>1. caq.overwrites = cq.overwrites BY <1>1, <1>2, <1>3, <1>7, WithTwice
  <2>2. caq = cq BY <1>1, <1>2, <1>3, <1>5, <1>7, <2>1, ResourcesEqual, Zenon
  <2> QED BY <1>7, <2>2, Zenon DEF ca, cq, caq
<1>8. CASE a.op = "Upsert" /\ a.target # q
  <2>1. Without(With(c.overwrites, a.target, a.value), q)
          = With(Without(c.overwrites, q), a.target, a.value)
    BY <1>8, WithoutWith
  <2>2. caq.overwrites = cqa.overwrites BY <1>1, <1>2, <1>3, <1>4, <1>8, <2>1, Zenon
  <2>3. caq = cqa BY <1>1, <1>2, <1>3, <1>4, <1>5, <1>8, <2>2, ResourcesEqual, Zenon
  <2> QED BY <1>8, <2>3, Zenon DEF ca, cq, caq, cqa
<1> QED BY <1>6, <1>7, <1>8, Zenon

LEMMA DetachedTwice ==
  ASSUME NEW c, IsResource(c), NEW q, NEW r, q # r
  PROVE  Detached(Detached(c, {q}), {r}) = Detached(Detached(c, {r}), {q})
<1> DEFINE cq == Detached(c, {q})
           cr == Detached(c, {r})
           cqr == Detached(cq, {r})
           crq == Detached(cr, {q})
<1>1. /\ IsResource(cq) /\ cq.name = c.name /\ cq.value = c.value
      /\ cq.parent = IF c.parent = q THEN None ELSE c.parent
      /\ cq.overwrites = Without(c.overwrites, q)
  BY DetachedFields, Zenon
<1>2. /\ IsResource(cr) /\ cr.name = c.name /\ cr.value = c.value
      /\ cr.parent = IF c.parent = r THEN None ELSE c.parent
      /\ cr.overwrites = Without(c.overwrites, r)
  BY DetachedFields, Zenon
<1> HIDE DEF cq, cr
<1>3. /\ IsResource(cqr) /\ cqr.name = cq.name /\ cqr.value = cq.value
      /\ cqr.parent = IF cq.parent = r THEN None ELSE cq.parent
      /\ cqr.overwrites = Without(cq.overwrites, r)
  BY <1>1, DetachedFields, Zenon
<1>4. /\ IsResource(crq) /\ crq.name = cr.name /\ crq.value = cr.value
      /\ crq.parent = IF cr.parent = q THEN None ELSE cr.parent
      /\ crq.overwrites = Without(cr.overwrites, q)
  BY <1>2, DetachedFields, Zenon
<1> HIDE DEF cqr, crq
<1>5. cqr.parent = crq.parent BY <1>1, <1>2, <1>3, <1>4
<1>6. cqr.overwrites = crq.overwrites
  <2>1. Without(Without(c.overwrites, q), r) = Without(Without(c.overwrites, r), q)
    BY WithoutWithout
  <2> QED BY <1>1, <1>2, <1>3, <1>4, <2>1, Zenon
<1>7. cqr = crq BY <1>1, <1>2, <1>3, <1>4, <1>5, <1>6, ResourcesEqual, Zenon
<1> QED BY <1>7, Zenon DEF cq, cr, cqr, crq

\* What a call other than a creation makes of the resource c in the place r.
Touched(call, r, c) ==
  IF call.op = "Delete" THEN Detached(c, {call.ref})
  ELSE IF r = call.ref THEN Edited(c, call) ELSE c

Takes(call, r) == call.op = "Delete" /\ r = call.ref

LEMMA EffectTouches ==
  ASSUME NEW g, NEW call, IsCall(call), call.op # "Create", call.ref \in DOMAIN g, NEW id
  PROVE  /\ \A r : r \in DOMAIN Effect(g, call, id) <=> r \in DOMAIN g /\ ~Takes(call, r)
         /\ \A r \in DOMAIN Effect(g, call, id) :
              Effect(g, call, id)[r] = Touched(call, r, g[r])
         /\ IsMap(Effect(g, call, id))
<1> DEFINE h == Effect(g, call, id)
           q == call.ref
<1>1. CASE call.op = "Delete"
  <2>1. h = Gone(g, q) BY <1>1, EffectCases, Zenon
  <2> HIDE DEF h
  <2>2. /\ \A y : y \in DOMAIN h <=> y \in DOMAIN g /\ y # q
        /\ \A y \in DOMAIN g : y # q => h[y] = Detached(g[y], {q})
        /\ IsMap(h)
    BY <2>1, GoneFacts, Zenon
  <2>3. \A r : Takes(call, r) <=> r = q BY <1>1, Zenon DEF Takes
  <2>4. \A r : Touched(call, r, g[r]) = Detached(g[r], {q}) BY <1>1, Zenon DEF Touched
  <2> QED BY <2>2, <2>3, <2>4, Zenon DEF h
<1>2. CASE call.op # "Delete"
  <2>1. h = With(g, q, Edited(g[q], call)) BY <1>2, EffectCases, Zenon DEF Edited, IsCall
  <2> DEFINE c == Edited(g[q], call)
  <2> HIDE DEF h, c
  <2>2. /\ \A y : y \in DOMAIN h <=> y \in DOMAIN g \/ y = q
        /\ h[q] = c /\ (\A y \in DOMAIN g : y # q => h[y] = g[y]) /\ IsMap(h)
    BY <2>1, WithFacts DEF c
  <2>3. \A r : ~Takes(call, r) BY <1>2, Zenon DEF Takes
  <2>4. Touched(call, q, g[q]) = c /\ \A r : r # q => Touched(call, r, g[r]) = g[r]
    BY <1>2, Zenon DEF Touched, c
  <2>5. \A y : y \in DOMAIN h <=> y \in DOMAIN g BY <2>2, Zenon
  <2>6. \A y \in DOMAIN h : h[y] = Touched(call, y, g[y]) BY <2>2, <2>4, <2>5
  <2> QED BY <2>2, <2>3, <2>5, <2>6, Zenon DEF h
<1> QED BY <1>1, <1>2, Zenon

\* The call u of a rollback after another call a: it hides what a did, or a
\* might as well have come after it.
LEMMA EffectsCommute ==
  ASSUME NEW g, IsGuild(g), NEW a, IsCall(a), a.op # "Create", NEW id \in Nat,
         NEW u, IsCall(u), NEW next \in Nat,
         u.op \in {"Update", "Upsert", "Delete"}, Full(u), u.ref \in DOMAIN g,
         u.ref \in DOMAIN Effect(g, a, id),
         u.op = "Upsert" => u.target \in DOMAIN Effect(g, a, id)
  PROVE  \/ Effect(Effect(g, a, id), u, next) = Effect(g, u, next)
         \/ Effect(Effect(g, a, id), u, next) = Effect(Effect(g, u, next), a, id)
<1> DEFINE r == u.ref
           q == a.ref
           ga == Effect(g, a, id)
           gu == Effect(g, u, next)
           gau == Effect(ga, u, next)
           gua == Effect(gu, a, id)
<1>0. a.op \in {"Update", "Delete", "Upsert"} BY Zenon DEF IsCall
<1>1. CASE q \notin DOMAIN g
  <2>1. ga = g BY <1>1, EffectCases, Zenon
  <2> QED BY <2>1, Zenon
<1>2. CASE q \in DOMAIN g
  <2>1. /\ \A y : y \in DOMAIN ga <=> y \in DOMAIN g /\ ~Takes(a, y)
        /\ \A y \in DOMAIN ga : ga[y] = Touched(a, y, g[y])
    BY <1>2, EffectTouches, Zenon
  <2>2. /\ \A y : y \in DOMAIN gu <=> y \in DOMAIN g /\ ~Takes(u, y)
        /\ \A y \in DOMAIN gu : gu[y] = Touched(u, y, g[y])
        /\ IsMap(gu)
    <3>1. u.op # "Create" BY Zenon
    <3> QED BY <3>1, EffectTouches, Zenon
  <2>3. r \in DOMAIN ga /\ (u.op = "Upsert" => u.target \in DOMAIN ga) BY Zenon
  <2> HIDE DEF ga, gu
  <2>4. /\ \A y : y \in DOMAIN gau <=> y \in DOMAIN ga /\ ~Takes(u, y)
        /\ \A y \in DOMAIN gau : gau[y] = Touched(u, y, ga[y])
        /\ IsMap(gau)
    <3>1. u.op # "Create" BY Zenon
    <3> QED BY <2>3, <3>1, EffectTouches, Zenon
  <2>5. q \in DOMAIN gu =>
          /\ \A y : y \in DOMAIN gua <=> y \in DOMAIN gu /\ ~Takes(a, y)
          /\ \A y \in DOMAIN gua : gua[y] = Touched(a, y, gu[y])
          /\ IsMap(gua)
    BY EffectTouches, Zenon
  <2> HIDE DEF gau, gua
  <2>6. \A y \in DOMAIN g : IsResource(g[y]) BY Zenon DEF IsGuild
  <2>hide. ASSUME a.op # "Delete",
                  \A y \in DOMAIN g : ~Takes(u, y) =>
                    Touched(u, y, Touched(a, y, g[y])) = Touched(u, y, g[y])
           PROVE  gau = gu
    <3>1. \A y : ~Takes(a, y) BY <2>hide, Zenon DEF Takes
    <3>2. \A y : y \in DOMAIN gau <=> y \in DOMAIN gu BY <2>1, <2>2, <2>4, <3>1, Zenon
    <3>3. \A y \in DOMAIN gau : gau[y] = gu[y]
      <4> SUFFICES ASSUME NEW y \in DOMAIN gau PROVE gau[y] = gu[y] BY Zenon
      <4>1. y \in DOMAIN ga /\ y \in DOMAIN g /\ ~Takes(u, y) /\ y \in DOMAIN gu
        BY <2>1, <2>4, <3>2, Zenon
      <4>2. gau[y] = Touched(u, y, Touched(a, y, g[y])) BY <2>1, <2>4, <4>1, Zenon
      <4> QED BY <2>hide, <2>2, <4>1, <4>2, Zenon
    <3> QED BY <2>2, <2>4, <3>2, <3>3, MapsEqual, Zenon
  <2>swap. ASSUME ~Takes(u, q),
                  \A y \in DOMAIN g : ~Takes(u, y) /\ ~Takes(a, y) =>
                    Touched(u, y, Touched(a, y, g[y])) = Touched(a, y, Touched(u, y, g[y]))
           PROVE  gau = gua
    <3>1. q \in DOMAIN gu BY <1>2, <2>2, <2>swap, Zenon
    <3>2. \A y : y \in DOMAIN gau <=> y \in DOMAIN gua BY <2>1, <2>2, <2>4, <2>5, <3>1, Zenon
    <3>3. \A y \in DOMAIN gau : gau[y] = gua[y]
      <4> SUFFICES ASSUME NEW y \in DOMAIN gau PROVE gau[y] = gua[y] BY Zenon
      <4>1. /\ y \in DOMAIN ga /\ y \in DOMAIN g /\ ~Takes(u, y) /\ ~Takes(a, y)
            /\ y \in DOMAIN gu /\ y \in DOMAIN gua
        BY <2>1, <2>2, <2>4, <3>2, Zenon
      <4>2. gau[y] = Touched(u, y, Touched(a, y, g[y])) BY <2>1, <2>4, <4>1, Zenon
      <4>3. gua[y] = Touched(a, y, Touched(u, y, g[y])) BY <2>2, <2>5, <3>1, <4>1, Zenon
      <4> QED BY <2>swap, <4>1, <4>2, <4>3, Zenon
    <3> QED BY <2>4, <2>5, <3>1, <3>2, <3>3, MapsEqual, Zenon
  <2>7. CASE a.op = "Delete"
    <3>1. q # r /\ (u.op = "Upsert" => u.target # q) BY <2>1, <2>3, <2>7, Zenon DEF Takes
    <3>2. ~Takes(u, q) BY <3>1, Zenon DEF Takes
    <3>3. ASSUME NEW y \in DOMAIN g
          PROVE  Touched(u, y, Touched(a, y, g[y])) = Touched(a, y, Touched(u, y, g[y]))
      <4>1. \A c : Touched(a, y, c) = Detached(c, {q}) BY <2>7, Zenon DEF Touched
      <4>2. CASE u.op = "Delete"
        <5>1. \A c : Touched(u, y, c) = Detached(c, {r}) BY <4>2, Zenon DEF Touched
        <5>2. Detached(Detached(g[y], {q}), {r}) = Detached(Detached(g[y], {r}), {q})
          BY <2>6, <3>1, <3>3, DetachedTwice
        <5> QED BY <4>1, <5>1, <5>2, Zenon
      <4>3. CASE u.op # "Delete" /\ y # r
        <5>1. \A c : Touched(u, y, c) = c BY <4>3, Zenon DEF Touched
        <5> QED BY <5>1, Zenon
      <4>4. CASE u.op # "Delete" /\ y = r
        <5>1. \A c : Touched(u, y, c) = Edited(c, u) BY <4>4, Zenon DEF Touched
        <5>2. u.op \in {"Update", "Upsert"} /\ ~(u.op = "Upsert" /\ u.target = q)
          BY <3>1, <4>4, Zenon
        <5>3. Detached(Edited(g[y], u), {q}) = Edited(Detached(g[y], {q}), u)
          BY <2>6, <3>3, <5>2, DetachedEdited
        <5> QED BY <4>1, <5>1, <5>3, Zenon
      <4> QED BY <4>2, <4>3, <4>4, Zenon
    <3> QED BY <2>swap, <3>2, <3>3, Zenon DEF ga, gu, gau, gua
  <2>8. CASE a.op # "Delete" /\ u.op = "Delete"
    <3>0. a.op \in {"Update", "Upsert"} BY <1>0, <2>8, Zenon
    <3>1. \A y, c : Touched(u, y, c) = Detached(c, {r}) BY <2>8, Zenon DEF Touched
    <3>2. /\ \A y, c : y # q => Touched(a, y, c) = c
          /\ \A c : Touched(a, q, c) = Edited(c, a)
      BY <2>8, Zenon DEF Touched
    <3>3. CASE q = r
      <4>1. \A y : ~Takes(u, y) => y # q BY <2>8, <3>3, Zenon DEF Takes
      <4>2. \A y \in DOMAIN g : ~Takes(u, y) =>
              Touched(u, y, Touched(a, y, g[y])) = Touched(u, y, g[y])
        BY <3>2, <4>1, Zenon
      <4> QED BY <2>hide, <2>8, <4>2, Zenon DEF ga, gu, gau
    <3>4. CASE q # r /\ a.op = "Upsert" /\ a.target = r
      <4>1. Detached(Edited(g[q], a), {r}) = Detached(g[q], {r})
        BY <1>2, <2>6, <3>0, <3>4, DetachedEdited
      <4>2. ASSUME NEW y \in DOMAIN g
            PROVE  Touched(u, y, Touched(a, y, g[y])) = Touched(u, y, g[y])
        <5>1. CASE y = q BY <3>1, <3>2, <4>1, <5>1, Zenon
        <5>2. CASE y # q BY <3>2, <5>2, Zenon
        <5> QED BY <5>1, <5>2, Zenon
      <4> QED BY <2>hide, <2>8, <4>2, Zenon DEF ga, gu, gau
    <3>5. CASE q # r /\ ~(a.op = "Upsert" /\ a.target = r)
      <4>1. Detached(Edited(g[q], a), {r}) = Edited(Detached(g[q], {r}), a)
        BY <1>2, <2>6, <3>0, <3>5, DetachedEdited
      <4>2. ASSUME NEW y \in DOMAIN g
            PROVE  Touched(u, y, Touched(a, y, g[y])) = Touched(a, y, Touched(u, y, g[y]))
        <5>1. CASE y = q
          <6>1. Touched(u, q, Touched(a, q, g[q])) = Touched(a, q, Touched(u, q, g[q]))
            BY <3>1, <3>2, <4>1, Zenon
          <6> QED BY <5>1, <6>1, Zenon
        <5>2. CASE y # q BY <3>2, <5>2, Zenon
        <5> QED BY <5>1, <5>2, Zenon
      <4>3. ~Takes(u, q) BY <3>5, Zenon DEF Takes
      <4> QED BY <2>swap, <4>2, <4>3, Zenon DEF ga, gu, gau, gua
    <3> QED BY <3>3, <3>4, <3>5, Zenon
  <2>9. CASE a.op # "Delete" /\ u.op # "Delete"
    <3>0. a.op \in {"Update", "Upsert"} /\ u.op \in {"Update", "Upsert"} BY <1>0, <2>9, Zenon
    <3>1. /\ \A y, c : y # r => Touched(u, y, c) = c
          /\ \A c : Touched(u, r, c) = Edited(c, u)
      BY <2>9, Zenon DEF Touched
    <3>2. /\ \A y, c : y # q => Touched(a, y, c) = c
          /\ \A c : Touched(a, q, c) = Edited(c, a)
      BY <2>9, Zenon DEF Touched
    <3>3. ~Takes(u, q) BY <2>9, Zenon DEF Takes
    <3>4. CASE q # r
      <4>1. ASSUME NEW y \in DOMAIN g
            PROVE  Touched(u, y, Touched(a, y, g[y])) = Touched(a, y, Touched(u, y, g[y]))
        <5>1. CASE y # q BY <3>2, <5>1, Zenon
        <5>2. CASE y # r BY <3>1, <5>2, Zenon
        <5> QED BY <3>4, <5>1, <5>2, Zenon
      <4> QED BY <2>swap, <3>3, <4>1, Zenon DEF ga, gu, gau, gua
    <3>5. CASE q = r /\ Edited(Edited(g[r], a), u) = Edited(g[r], u)
      <4>1. ASSUME NEW y \in DOMAIN g
            PROVE  Touched(u, y, Touched(a, y, g[y])) = Touched(u, y, g[y])
        <5>1. CASE y = q
          <6>1. Touched(u, q, Touched(a, q, g[q])) = Touched(u, q, g[q])
            BY <3>1, <3>2, <3>5, Zenon
          <6> QED BY <5>1, <6>1, Zenon
        <5>2. CASE y # q BY <3>2, <5>2, Zenon
        <5> QED BY <5>1, <5>2, Zenon
      <4> QED BY <2>hide, <2>9, <4>1, Zenon DEF ga, gu, gau
    <3>6. CASE q = r /\ Edited(Edited(g[r], a), u) = Edited(Edited(g[r], u), a)
      <4>1. ASSUME NEW y \in DOMAIN g
            PROVE  Touched(u, y, Touched(a, y, g[y])) = Touched(a, y, Touched(u, y, g[y]))
        <5>1. CASE y = q
          <6>1. Touched(u, q, Touched(a, q, g[q])) = Touched(a, q, Touched(u, q, g[q]))
            BY <3>1, <3>2, <3>6, Zenon
          <6> QED BY <5>1, <6>1, Zenon
        <5>2. CASE y # q BY <3>1, <3>2, <3>6, <5>2, Zenon
        <5> QED BY <5>1, <5>2, Zenon
      <4> QED BY <2>swap, <3>3, <4>1, Zenon DEF ga, gu, gau, gua
    <3>7. \/ Edited(Edited(g[r], a), u) = Edited(g[r], u)
          \/ Edited(Edited(g[r], a), u) = Edited(Edited(g[r], u), a)
      <4>1. IsResource(g[r]) BY <2>6, Zenon
      <4> QED BY <3>0, <4>1, EditsCommute, Zenon
    <3> QED BY <3>4, <3>5, <3>6, <3>7, Zenon
  <2> QED BY <2>7, <2>8, <2>9, Zenon
<1> QED BY <1>1, <1>2, Zenon

\* A resource that a lost creation left behind stays under its name.
LEMMA EffectBeside ==
  ASSUME NEW g, IsGuild(g), NEW new, new \notin DOMAIN g, NEW c, IsResource(c),
         NEW u, IsCall(u), u.op # "Create", u.ref \in DOMAIN g, NEW next
  PROVE  \E d : /\ IsResource(d) /\ d.name = c.name
                /\ Effect(With(g, new, c), u, next) = With(Effect(g, u, next), new, d)
<1> DEFINE r == u.ref
           h == With(g, new, c)
           hu == Effect(h, u, next)
           gu == Effect(g, u, next)
           d == Touched(u, new, c)
           k == With(gu, new, d)
<1>1. /\ \A y : y \in DOMAIN h <=> y \in DOMAIN g \/ y = new
      /\ h[new] = c /\ \A y \in DOMAIN g : y # new => h[y] = g[y]
  BY WithFacts
<1>2. r # new BY Zenon
<1>3. /\ \A y : y \in DOMAIN gu <=> y \in DOMAIN g /\ ~Takes(u, y)
      /\ \A y \in DOMAIN gu : gu[y] = Touched(u, y, g[y])
  BY EffectTouches, Zenon
<1> HIDE DEF h, gu
<1>4. /\ \A y : y \in DOMAIN hu <=> y \in DOMAIN h /\ ~Takes(u, y)
      /\ \A y \in DOMAIN hu : hu[y] = Touched(u, y, h[y])
      /\ IsMap(hu)
  <2>1. u.ref \in DOMAIN h BY <1>1, Zenon
  <2> QED BY <2>1, EffectTouches, Zenon
<1>5. IsResource(d) /\ d.name = c.name
  <2>1. CASE u.op = "Delete"
    <3>1. d = Detached(c, {r}) BY <2>1, Zenon DEF Touched
    <3> HIDE DEF d
    <3> QED BY <3>1, DetachedFields, Zenon
  <2>2. CASE u.op # "Delete"
    <3>1. d = c BY <1>2, <2>2, Zenon DEF Touched
    <3> QED BY <3>1, Zenon
  <2> QED BY <2>1, <2>2, Zenon
<1> HIDE DEF d, hu
<1>6. /\ \A y : y \in DOMAIN k <=> y \in DOMAIN gu \/ y = new
      /\ k[new] = d /\ (\A y \in DOMAIN gu : y # new => k[y] = gu[y]) /\ IsMap(k)
  BY WithFacts
<1> HIDE DEF k
<1>7. ~Takes(u, new) BY <1>2, Zenon DEF Takes
<1>8. \A y : y \in DOMAIN hu <=> y \in DOMAIN k BY <1>1, <1>3, <1>4, <1>6, <1>7, Zenon
<1>9. ASSUME NEW y \in DOMAIN hu PROVE hu[y] = k[y]
  <2>1. CASE y = new BY <1>1, <1>4, <1>6, <1>9, <2>1, Zenon DEF d
  <2>2. CASE y # new
    <3>1. y \in DOMAIN g /\ y \in DOMAIN gu BY <1>1, <1>3, <1>4, <1>9, <2>2, Zenon
    <3>2. hu[y] = Touched(u, y, g[y]) BY <1>1, <1>4, <1>9, <2>2, <3>1, Zenon
    <3>3. k[y] = Touched(u, y, g[y]) BY <1>3, <1>6, <2>2, <3>1, Zenon
    <3> QED BY <3>2, <3>3, Zenon
  <2> QED BY <2>1, <2>2, Zenon
<1>10. hu = k BY <1>4, <1>6, <1>8, <1>9, MapsEqual, Zenon
<1> QED BY <1>5, <1>10, Zenon DEF h, hu, gu, k

----------------------------------------------------------------------------
(* A guild that differs from the snapshot by what a set A of rollback      *)
(* actions will undo, and by nothing else.                                 *)

Deleting(A, r) == \E a \in A : a.do = "Delete" /\ a.ref = r

Restoring(A, r) == \E a \in A : a.do = "Restore" /\ a.ref = r

RestoringAt(A, r, t) == \E a \in A : a.do = "RestoreOverwrite" /\ a.ref = r /\ a.target = t

\* The resource c in the place r of the snapshot's b.
CleanAt(A, r, b, c) ==
  /\ c.parent = b.parent
  /\ ~Restoring(A, r) => c.name = b.name /\ c.value = b.value
  /\ \A t : ~RestoringAt(A, r, t) =>
       /\ t \in DOMAIN c.overwrites <=> t \in DOMAIN b.overwrites
       /\ t \in DOMAIN b.overwrites => c.overwrites[t] = b.overwrites[t]

\* Nothing in the guild refers to what is not there.
Closed(g) ==
  \A r \in DOMAIN g : /\ g[r].parent \in DOMAIN g \cup {None}
                      /\ DOMAIN g[r].overwrites \subseteq DOMAIN g

Clean(before, A, g) ==
  /\ \A r : r \in DOMAIN g <=> r \in DOMAIN before \/ Deleting(A, r)
  /\ \A r \in DOMAIN before : CleanAt(A, r, before[r], g[r])

LEMMA CleanAtFirst == \A before : Clean(before, {}, before)
BY Zenon DEF Clean, CleanAt, Deleting

\* With nothing left to undo it is the snapshot.
LEMMA CleanIsSnapshot ==
  ASSUME NEW before, NEW g, IsGuild(before), IsGuild(g), Clean(before, {}, g)
  PROVE  g = before
<1>1. \A r : r \in DOMAIN g <=> r \in DOMAIN before BY Zenon DEF Clean, Deleting
<1>2. ASSUME NEW r \in DOMAIN g PROVE g[r] = before[r]
  <2> DEFINE c == g[r]
             b == before[r]
  <2>0. r \in DOMAIN before BY <1>1, <1>2, Zenon
  <2>1. IsResource(c) /\ IsResource(b) BY <1>2, <2>0, Zenon DEF IsGuild
  <2>2. CleanAt({}, r, b, c) BY <2>0, Zenon DEF Clean
  <2> HIDE DEF c, b
  <2>3. /\ c.parent = b.parent /\ c.name = b.name /\ c.value = b.value
        /\ \A t : t \in DOMAIN c.overwrites <=> t \in DOMAIN b.overwrites
        /\ \A t \in DOMAIN b.overwrites : c.overwrites[t] = b.overwrites[t]
    BY <2>2, Zenon DEF CleanAt, Restoring, RestoringAt
  <2>4. IsMap(c.overwrites) /\ IsMap(b.overwrites) BY <2>1, ResourceFields, Zenon
  <2>5. c.overwrites = b.overwrites BY <2>3, <2>4, MapsEqual, Zenon
  <2>6. c = b BY <2>1, <2>3, <2>5, ResourcesEqual, Zenon
  <2> QED BY <2>6, Zenon DEF c, b
<1>3. IsMap(g) /\ IsMap(before) BY Zenon DEF IsGuild
<1> QED BY <1>1, <1>2, <1>3, MapsEqual, Zenon

\* The action a undoes the call.
Reverts(before, a, call, id) ==
  /\ call.op = "Create" => a.do = "Delete" /\ a.ref = <<call.kind, id>> /\ a.ref \notin DOMAIN before
  /\ call.op = "Update" => a.do = "Restore" /\ a.ref = call.ref
  /\ call.op = "Upsert" =>
       a.do = "RestoreOverwrite" /\ a.ref = call.ref /\ a.target = call.target

LEMMA ForwardClean ==
  ASSUME NEW before, NEW A, NEW g, IsGuild(g), Clean(before, A, g),
         NEW call, IsCall(call), call.op # "Delete", NEW id,
         call.op # "Create" => call.ref \in DOMAIN g,
         NEW a, Reverts(before, a, call, id),
         NEW B, \A b : b \in B <=> b \in A \/ b = a
  PROVE  Clean(before, B, Effect(g, call, id))
<1>0. call.op \in {"Create", "Update", "Upsert"} BY Zenon DEF IsCall
<1>1. /\ \A r : Deleting(B, r) <=> Deleting(A, r) \/ (a.do = "Delete" /\ a.ref = r)
      /\ \A r : Restoring(A, r) => Restoring(B, r)
      /\ \A r, t : RestoringAt(A, r, t) => RestoringAt(B, r, t)
  BY Zenon DEF Deleting, Restoring, RestoringAt
<1>2. a \in B BY Zenon
<1>3. \A r, b, c : CleanAt(A, r, b, c) => CleanAt(B, r, b, c)
  BY <1>1, Zenon DEF CleanAt
<1> DEFINE h == Effect(g, call, id)
<1>4. CASE call.op = "Create"
  <2> DEFINE q == <<call.kind, id>>
  <2>1. h = With(g, q, NewResource(g, call)) BY <1>4, EffectCases, Zenon
  <2>2. /\ \A y : y \in DOMAIN h <=> y \in DOMAIN g \/ y = q
        /\ \A y \in DOMAIN g : y # q => h[y] = g[y]
    <3> HIDE DEF h, q
    <3> QED BY <2>1, WithFacts
  <2>3. a.do = "Delete" /\ a.ref = q /\ q \notin DOMAIN before BY <1>4, Zenon DEF Reverts
  <2> HIDE DEF h, q
  <2>4. \A r : r \in DOMAIN h <=> r \in DOMAIN before \/ Deleting(B, r)
    BY <1>1, <2>2, <2>3, Zenon DEF Clean
  <2>5. \A r \in DOMAIN before : CleanAt(B, r, before[r], h[r])
    <3> SUFFICES ASSUME NEW r \in DOMAIN before PROVE CleanAt(B, r, before[r], h[r])
      BY Zenon
    <3>1. r \in DOMAIN g /\ CleanAt(A, r, before[r], g[r]) BY Zenon DEF Clean
    <3>2. h[r] = g[r] BY <2>2, <2>3, <3>1, Zenon
    <3> QED BY <1>3, <3>1, <3>2, Zenon
  <2> QED BY <2>4, <2>5, Zenon DEF Clean, h
<1>5. CASE call.op \in {"Update", "Upsert"}
  <2> DEFINE q == call.ref
             c == Edited(g[q], call)
  <2>1. q \in DOMAIN g BY <1>5, Zenon
  <2>2. h = With(g, q, c) BY <1>5, <2>1, EffectCases, Zenon DEF Edited
  <2>3. IsResource(g[q]) BY <2>1, Zenon DEF IsGuild
  <2>4. /\ c.parent = g[q].parent
        /\ call.op = "Update" => c.overwrites = g[q].overwrites
        /\ call.op = "Upsert" =>
             /\ c.name = g[q].name /\ c.value = g[q].value
             /\ c.overwrites = With(g[q].overwrites, call.target, call.value)
    BY <1>5, <2>3, EditedFields
  <2>5. /\ \A y : y \in DOMAIN h <=> y \in DOMAIN g
        /\ h[q] = c /\ \A y \in DOMAIN g : y # q => h[y] = g[y]
    <3> HIDE DEF h, q, c
    <3> QED BY <2>1, <2>2, WithFacts
  <2>6. a.do # "Delete" /\ a.ref = q BY <1>5, Zenon DEF Reverts
  <2>7. \A r : r \in DOMAIN h <=> r \in DOMAIN before \/ Deleting(B, r)
    BY <1>1, <2>5, <2>6, Zenon DEF Clean
  <2>8. ASSUME NEW r \in DOMAIN before PROVE CleanAt(B, r, before[r], h[r])
    <3>1. r \in DOMAIN g /\ CleanAt(A, r, before[r], g[r]) BY <2>8, Zenon DEF Clean
    <3>2. CASE r # q
      <4>1. h[r] = g[r] BY <2>5, <3>1, <3>2, Zenon
      <4> QED BY <1>3, <3>1, <4>1, Zenon
    <3>3. CASE r = q /\ call.op = "Update"
      <4>1. Restoring(B, r) BY <1>2, <2>6, <3>3, Zenon DEF Restoring, Reverts
      <4>2. CleanAt(B, r, before[r], g[r]) BY <1>3, <3>1, Zenon
      <4>3. h[r].parent = g[r].parent /\ h[r].overwrites = g[r].overwrites
        BY <2>4, <2>5, <3>3, Zenon
      <4> HIDE DEF h, q, c
      <4> QED BY <4>1, <4>2, <4>3, Zenon DEF CleanAt
    <3>4. CASE r = q /\ call.op = "Upsert"
      <4>1. RestoringAt(B, r, call.target) BY <1>2, <2>6, <3>4, Zenon DEF RestoringAt, Reverts
      <4>2. CleanAt(B, r, before[r], g[r]) BY <1>3, <3>1, Zenon
      <4>3. /\ h[r].parent = g[r].parent /\ h[r].name = g[r].name /\ h[r].value = g[r].value
            /\ h[r].overwrites = With(g[r].overwrites, call.target, call.value)
        BY <2>4, <2>5, <3>4, Zenon
      <4> HIDE DEF h, q, c
      <4>4. \A t : t # call.target =>
              /\ t \in DOMAIN h[r].overwrites <=> t \in DOMAIN g[r].overwrites
              /\ t \in DOMAIN g[r].overwrites => h[r].overwrites[t] = g[r].overwrites[t]
        BY <4>3, WithFacts
      <4>5. ASSUME NEW t, ~RestoringAt(B, r, t)
            PROVE  /\ t \in DOMAIN h[r].overwrites <=> t \in DOMAIN before[r].overwrites
                   /\ t \in DOMAIN before[r].overwrites =>
                        h[r].overwrites[t] = before[r].overwrites[t]
        <5>1. t # call.target BY <4>1, <4>5, Zenon
        <5>2. /\ t \in DOMAIN g[r].overwrites <=> t \in DOMAIN before[r].overwrites
              /\ t \in DOMAIN before[r].overwrites => g[r].overwrites[t] = before[r].overwrites[t]
          BY <4>2, <4>5, Zenon DEF CleanAt
        <5> QED BY <4>4, <5>1, <5>2, Zenon
      <4> QED BY <4>2, <4>3, <4>5, Zenon DEF CleanAt
    <3> QED BY <1>5, <3>2, <3>3, <3>4, Zenon
  <2> HIDE DEF h
  <2> QED BY <2>7, <2>8, Zenon DEF Clean, h
<1> QED BY <1>0, <1>4, <1>5, Zenon

\* The call u carries the action a out.
CarriesOut(before, u, a) ==
  /\ u.ref = a.ref
  /\ a.do \in {"Delete", "Restore", "RestoreOverwrite"}
  /\ a.do = "Delete" => u.op = "Delete" /\ a.ref \notin DOMAIN before
  /\ a.do = "Restore" =>
       /\ u.op = "Update" /\ a.ref \in DOMAIN before
       /\ u.name = before[a.ref].name /\ u.value = before[a.ref].value
  /\ a.do = "RestoreOverwrite" =>
       /\ u.op = "Upsert" /\ u.target = a.target /\ a.ref \in DOMAIN before
       /\ a.target \in DOMAIN before[a.ref].overwrites
       /\ u.value = before[a.ref].overwrites[a.target]

LEMMA UndoClean ==
  ASSUME NEW before, IsGuild(before), Closed(before), NEW A, NEW g, IsGuild(g), Clean(before, A, g),
         NEW a \in A, NEW u, IsCall(u), CarriesOut(before, u, a), NEW next,
         NEW B, \A b \in B : b \in A, \A b \in A : b # a => b \in B,
         a.do = "Delete" => ~Deleting(B, a.ref)
  PROVE  u.ref \in DOMAIN g /\ Clean(before, B, Effect(g, u, next))
<1> DEFINE q == u.ref
           h == Effect(g, u, next)
<1>0. a.do \in {"Delete", "Restore", "RestoreOverwrite"} /\ q = a.ref BY Zenon DEF CarriesOut
<1>1. /\ \A r : Deleting(B, r) => Deleting(A, r)
      /\ \A r : Deleting(A, r) => Deleting(B, r) \/ (a.do = "Delete" /\ r = q)
      /\ \A r : Restoring(A, r) => Restoring(B, r) \/ (a.do = "Restore" /\ r = q)
      /\ \A r, t : RestoringAt(A, r, t) =>
           RestoringAt(B, r, t) \/ (a.do = "RestoreOverwrite" /\ r = q /\ t = a.target)
  BY <1>0, Zenon DEF Deleting, Restoring, RestoringAt
<1>2. \A r \in DOMAIN before : r \in DOMAIN g /\ CleanAt(A, r, before[r], g[r])
  BY Zenon DEF Clean
<1>3. CASE a.do = "Delete"
  <2>1. u.op = "Delete" /\ q \notin DOMAIN before /\ ~Deleting(B, q)
    BY <1>0, <1>3, Zenon DEF CarriesOut
  <2>2. Deleting(A, q) BY <1>0, <1>3, Zenon DEF Deleting
  <2>3. q \in DOMAIN g BY <2>2, Zenon DEF Clean
  <2>4. h = Gone(g, q) BY <2>1, <2>3, EffectCases, Zenon
  <2> HIDE DEF q, h
  <2>5. /\ \A y : y \in DOMAIN h <=> y \in DOMAIN g /\ y # q
        /\ \A y \in DOMAIN g : y # q => h[y] = Detached(g[y], {q})
    BY <2>4, GoneFacts, Zenon
  <2>6. \A r : r \in DOMAIN h <=> r \in DOMAIN before \/ Deleting(B, r)
    BY <1>1, <2>1, <2>5, Zenon DEF Clean
  <2>7. ASSUME NEW r \in DOMAIN before PROVE CleanAt(B, r, before[r], h[r])
    <3> DEFINE b == before[r]
               c == g[r]
               d == h[r]
    <3>1. d = Detached(c, {q}) /\ IsResource(c)
      BY <1>2, <2>1, <2>5, <2>7, Zenon DEF IsGuild
    <3>2. Restoring(A, r) => Restoring(B, r) BY <1>1, <1>3, Zenon
    <3>3. \A t : RestoringAt(A, r, t) => RestoringAt(B, r, t) BY <1>1, <1>3, Zenon
    <3>4. CleanAt(A, r, b, c) BY <1>2, <2>7, Zenon
    <3>5. b.parent \in DOMAIN before \cup {None} /\ q \notin DOMAIN b.overwrites
      BY <2>1, <2>7, Zenon DEF Closed
    <3> HIDE DEF b, c, d
    <3>6. /\ d.name = c.name /\ d.value = c.value
          /\ d.parent = IF c.parent = q THEN None ELSE c.parent
          /\ d.overwrites = Without(c.overwrites, q)
      BY <3>1, DetachedFields, Zenon
    <3>7. c.parent = b.parent BY <3>4, Zenon DEF CleanAt
    <3>8. d.parent = b.parent
      <4>1. CASE b.parent = None BY <3>6, <3>7, <4>1, Zenon
      <4>2. CASE b.parent # None
        <5>1. b.parent \in DOMAIN before BY <3>5, <4>2, Zenon
        <5>2. b.parent # q BY <2>1, <5>1, Zenon
        <5> QED BY <3>6, <3>7, <5>2, Zenon
      <4> QED BY <4>1, <4>2, Zenon
    <3>9. /\ \A t : t \in DOMAIN d.overwrites <=> t \in DOMAIN c.overwrites /\ t # q
          /\ \A t \in DOMAIN c.overwrites : t # q => d.overwrites[t] = c.overwrites[t]
      <4>1. PICK e, f : e = d.overwrites /\ f = c.overwrites BY Zenon
      <4>2. e = Without(f, q) BY <3>6, <4>1, Zenon
      <4>3. /\ \A t : t \in DOMAIN e <=> t \in DOMAIN f /\ t # q
            /\ \A t \in DOMAIN f : t # q => e[t] = f[t]
        BY <4>2, WithoutFacts, Zenon
      <4> QED BY <4>1, <4>3, Zenon
    <3>10. ASSUME NEW t, ~RestoringAt(B, r, t)
           PROVE  /\ t \in DOMAIN d.overwrites <=> t \in DOMAIN b.overwrites
                  /\ t \in DOMAIN b.overwrites => d.overwrites[t] = b.overwrites[t]
      <4>1. /\ t \in DOMAIN c.overwrites <=> t \in DOMAIN b.overwrites
            /\ t \in DOMAIN b.overwrites => c.overwrites[t] = b.overwrites[t]
        BY <3>3, <3>4, <3>10, Zenon DEF CleanAt
      <4> QED BY <3>5, <3>9, <4>1, Zenon
    <3>11. ~Restoring(B, r) => d.name = b.name /\ d.value = b.value
      BY <3>2, <3>4, <3>6, Zenon DEF CleanAt
    <3>12. CleanAt(B, r, b, d) BY <3>8, <3>10, <3>11, Zenon DEF CleanAt
    <3> QED BY <3>12, Zenon DEF b, d
  <2> QED BY <2>3, <2>6, <2>7, Zenon DEF Clean, q, h
<1>4. CASE a.do # "Delete"
  <2> DEFINE c == Edited(g[q], u)
  <2>1. q \in DOMAIN before /\ u.op \in {"Update", "Upsert"} BY <1>0, <1>4, Zenon DEF CarriesOut
  <2>2. q \in DOMAIN g BY <1>2, <2>1, Zenon
  <2>3. h = With(g, q, c) BY <2>1, <2>2, EffectCases, Zenon DEF Edited
  <2>4. IsResource(g[q]) /\ IsResource(before[q]) BY <2>1, <2>2, Zenon DEF IsGuild
  <2>5. /\ c.parent = g[q].parent
        /\ u.op = "Update" =>
             /\ c.name = Given(u.name, g[q].name, NoKey)
             /\ c.value = Given(u.value, g[q].value, Unset)
             /\ c.overwrites = g[q].overwrites
        /\ u.op = "Upsert" =>
             /\ c.name = g[q].name /\ c.value = g[q].value
             /\ c.overwrites = With(g[q].overwrites, u.target, u.value)
    BY <2>1, <2>4, EditedFields
  <2> HIDE DEF q, h, c
  <2>6. /\ \A y : y \in DOMAIN h <=> y \in DOMAIN g
        /\ h[q] = c /\ \A y \in DOMAIN g : y # q => h[y] = g[y]
    BY <2>2, <2>3, WithFacts
  <2>7. \A r : r \in DOMAIN h <=> r \in DOMAIN before \/ Deleting(B, r)
    BY <1>1, <1>4, <2>6, Zenon DEF Clean
  <2>8. ASSUME NEW r \in DOMAIN before, r # q PROVE CleanAt(B, r, before[r], h[r])
    <3>1. h[r] = g[r] BY <1>2, <2>6, <2>8, Zenon
    <3>2. Restoring(A, r) => Restoring(B, r) BY <1>1, <2>8
    <3>3. \A t : RestoringAt(A, r, t) => RestoringAt(B, r, t) BY <1>1, <2>8
    <3>4. CleanAt(A, r, before[r], g[r]) BY <1>2, <2>8, Zenon
    <3> QED BY <3>1, <3>2, <3>3, <3>4, Zenon DEF CleanAt
  <2>9. CleanAt(A, q, before[q], g[q]) BY <1>2, <2>1, Zenon
  <2>10. CASE a.do = "Restore"
    <3>1. u.op = "Update" /\ u.name = before[q].name /\ u.value = before[q].value
      BY <1>0, <2>10, Zenon DEF CarriesOut
    <3>2. before[q].name # NoKey /\ before[q].value # Unset
      <4>1. before[q].name \in STRING \ {NoKey} /\ before[q].value \in Nat
        BY <2>4, ResourceFields, Zenon
      <4> QED BY <4>1 DEF Unset
    <3>3. c.name = before[q].name /\ c.value = before[q].value /\ c.overwrites = g[q].overwrites
      BY <2>5, <3>1, <3>2, Zenon DEF Given
    <3>4. \A t : RestoringAt(A, q, t) => RestoringAt(B, q, t) BY <1>1, <2>10, Zenon
    <3>5. CleanAt(B, q, before[q], c) BY <2>5, <2>9, <3>3, <3>4, Zenon DEF CleanAt
    <3>6. \A r \in DOMAIN before : CleanAt(B, r, before[r], h[r]) BY <2>6, <2>8, <3>5, Zenon
    <3> QED BY <2>2, <2>7, <3>6, Zenon DEF Clean, q, h
  <2>11. CASE a.do = "RestoreOverwrite"
    <3>1. /\ u.op = "Upsert" /\ u.target = a.target
          /\ a.target \in DOMAIN before[q].overwrites
          /\ u.value = before[q].overwrites[a.target]
      BY <1>0, <2>11, Zenon DEF CarriesOut
    <3>2. /\ c.name = g[q].name /\ c.value = g[q].value
          /\ c.overwrites = With(g[q].overwrites, a.target, u.value)
      BY <2>5, <3>1, Zenon
    <3>3. Restoring(A, q) => Restoring(B, q) BY <1>1, <2>11, Zenon
    <3>4. /\ \A t : t \in DOMAIN c.overwrites <=> t \in DOMAIN g[q].overwrites \/ t = a.target
          /\ c.overwrites[a.target] = u.value
          /\ \A t \in DOMAIN g[q].overwrites : t # a.target => c.overwrites[t] = g[q].overwrites[t]
      BY <3>2, WithFacts
    <3>5. ASSUME NEW t, ~RestoringAt(B, q, t)
          PROVE  /\ t \in DOMAIN c.overwrites <=> t \in DOMAIN before[q].overwrites
                 /\ t \in DOMAIN before[q].overwrites => c.overwrites[t] = before[q].overwrites[t]
      <4>1. CASE t = a.target BY <3>1, <3>4, <4>1, Zenon
      <4>2. CASE t # a.target
        <5>1. ~RestoringAt(A, q, t) BY <1>1, <3>5, <4>2
        <5>2. /\ t \in DOMAIN g[q].overwrites <=> t \in DOMAIN before[q].overwrites
              /\ t \in DOMAIN before[q].overwrites => g[q].overwrites[t] = before[q].overwrites[t]
          BY <2>9, <5>1, Zenon DEF CleanAt
        <5> QED BY <3>4, <4>2, <5>2, Zenon
      <4> QED BY <4>1, <4>2, Zenon
    <3>6. CleanAt(B, q, before[q], c) BY <2>5, <2>9, <3>2, <3>3, <3>5, Zenon DEF CleanAt
    <3>7. \A r \in DOMAIN before : CleanAt(B, r, before[r], h[r]) BY <2>6, <2>8, <3>6, Zenon
    <3> QED BY <2>2, <2>7, <3>7, Zenon DEF Clean, q, h
  <2> QED BY <1>0, <1>4, <2>10, <2>11, Zenon
<1> QED BY <1>3, <1>4, Zenon

\* Such a guild, perhaps with the effect of a call that answered with an
\* error after it took effect; such a call is in L with the id of its time.  A
\* lost creation leaves a resource with its name, which may have lost a parent
\* or overwrites since.
LeftBy(g, call, id, h) ==
  IF call.op = "Create"
  THEN \E c : IsResource(c) /\ c.name = call.name /\ h = With(g, <<call.kind, id>>, c)
  ELSE h = Effect(g, call, id)

LostOn(before, A, call, id, h) ==
  \E g : /\ IsGuild(g) /\ Clean(before, A, g)
         /\ LeftBy(g, call, id, h)
         /\ id \in Nat /\ \A r \in DOMAIN g : r[2] < id

CleanOrLost(before, A, L, h) ==
  \/ Clean(before, A, h)
  \/ \E k \in DOMAIN L : IsCall(L[k][1]) /\ LostOn(before, A, L[k][1], L[k][2], h)

LEMMA UndoCleanOrLost ==
  ASSUME NEW before, IsGuild(before), Closed(before), NEW A, NEW L, NEW h, IsGuild(h),
         CleanOrLost(before, A, L, h),
         NEW a \in A, NEW u, IsCall(u), CarriesOut(before, u, a), NEW next \in Nat,
         u.ref \in DOMAIN h, u.op = "Upsert" => u.target \in DOMAIN h,
         NEW B, \A b \in B : b \in A, \A b \in A : b # a => b \in B,
         a.do = "Delete" => ~Deleting(B, a.ref)
  PROVE  CleanOrLost(before, B, L, Effect(h, u, next))
<1>1. CASE Clean(before, A, h)
  <2>1. Clean(before, B, Effect(h, u, next)) BY <1>1, UndoClean, Zenon
  <2> QED BY <2>1, Zenon DEF CleanOrLost
<1>2. ASSUME NEW k \in DOMAIN L, IsCall(L[k][1]), LostOn(before, A, L[k][1], L[k][2], h)
      PROVE  CleanOrLost(before, B, L, Effect(h, u, next))
  <2> DEFINE call == L[k][1]
             id == L[k][2]
  <2>1. PICK g : /\ IsGuild(g) /\ Clean(before, A, g)
                 /\ LeftBy(g, call, id, h)
                 /\ id \in Nat /\ \A r \in DOMAIN g : r[2] < id
    BY <1>2, Zenon DEF LostOn
  <2>2. IsCall(call) BY <1>2, Zenon
  <2> HIDE DEF call, id
  <2> DEFINE w == Effect(g, u, next)
  <2>3. u.ref \in DOMAIN g /\ Clean(before, B, w) BY <2>1, UndoClean, Zenon
  <2>4. u.op \in {"Update", "Upsert", "Delete"} /\ u.op # "Create" BY Zenon DEF CarriesOut
  <2>5. IsGuild(w) BY <2>1, <2>4, EffectIsGuild, Zenon
  <2>6. \A r \in DOMAIN w : r \in DOMAIN g BY <2>4, EffectDomain, Zenon
  <2>7. \A r \in DOMAIN w : r[2] < id BY <2>1, <2>6, Zenon
  <2>8. ASSUME LeftBy(w, call, id, Effect(h, u, next))
        PROVE  CleanOrLost(before, B, L, Effect(h, u, next))
    <3> HIDE DEF w
    <3>1. LostOn(before, B, call, id, Effect(h, u, next))
      BY <2>1, <2>3, <2>5, <2>7, <2>8, Zenon DEF LostOn
    <3> QED BY <2>2, <3>1, Zenon DEF CleanOrLost, call, id
  <2>9. CASE call.op = "Create"
    <3> DEFINE new == <<call.kind, id>>
    <3>1. PICK c : IsResource(c) /\ c.name = call.name /\ h = With(g, new, c)
      BY <2>1, <2>9, Zenon DEF LeftBy
    <3>2. new \notin DOMAIN g BY <2>1
    <3> HIDE DEF new
    <3>a. IsGuild(g) /\ IsResource(c) /\ u.op # "Create" /\ u.ref \in DOMAIN g
      BY <2>1, <2>3, <2>4, <3>1, Zenon
    <3>b. \E d : /\ IsResource(d) /\ d.name = c.name
                 /\ Effect(With(g, new, c), u, next) = With(Effect(g, u, next), new, d)
      BY <3>2, <3>a, EffectBeside
    <3>3. PICK d : /\ IsResource(d) /\ d.name = c.name
                   /\ Effect(With(g, new, c), u, next) = With(w, new, d)
      BY <3>b, Zenon
    <3>4. LeftBy(w, call, id, Effect(h, u, next))
      <4>1. Effect(h, u, next) = With(w, new, d) BY <3>1, <3>3, Zenon
      <4>2. d.name = call.name BY <3>1, <3>3, Zenon
      <4> HIDE DEF w
      <4> QED BY <2>9, <3>3, <4>1, <4>2, Zenon DEF LeftBy, new
    <3> QED BY <2>8, <3>4, Zenon
  <2>10. CASE call.op # "Create"
    <3>1. h = Effect(g, call, id) BY <2>1, <2>10, Zenon DEF LeftBy
    <3>2. Full(u)
      <4> SUFFICES ASSUME u.op = "Update" PROVE u.name # NoKey /\ u.value # Unset
        BY Zenon DEF Full
      <4>1. a.ref \in DOMAIN before /\ u.name = before[a.ref].name /\ u.value = before[a.ref].value
        BY Zenon DEF CarriesOut
      <4>2. IsResource(before[a.ref]) BY <4>1, Zenon DEF IsGuild
      <4>3. u.name \in STRING \ {NoKey} /\ u.value \in Nat BY <4>1, <4>2, ResourceFields, Zenon
      <4> QED BY <4>3 DEF Unset
    <3>3. \/ Effect(h, u, next) = w
          \/ Effect(h, u, next) = Effect(w, call, id)
      BY <2>1, <2>2, <2>3, <2>4, <2>10, <3>1, <3>2, EffectsCommute
    <3>4. CASE Effect(h, u, next) = w BY <2>3, <3>4, Zenon DEF CleanOrLost
    <3>5. CASE Effect(h, u, next) = Effect(w, call, id)
      <4>1. LeftBy(w, call, id, Effect(h, u, next)) BY <2>10, <3>5, Zenon DEF LeftBy
      <4> QED BY <2>8, <4>1, Zenon
    <3> QED BY <3>3, <3>4, <3>5, Zenon
  <2> QED BY <2>9, <2>10, Zenon
<1> QED BY <1>1, <1>2, Zenon DEF CleanOrLost

----------------------------------------------------------------------------
(* The actions the job records.                                            *)

ActionOk(before, next, a) ==
  /\ a.do = "Delete" => FirstNewId <= a.ref[2] /\ a.ref[2] < next
  /\ a.do = "RestoreOverwrite" /\ a.value # Unset =>
       /\ a.ref \in DOMAIN before /\ a.target \in DOMAIN before[a.ref].overwrites
       /\ a.value = before[a.ref].overwrites[a.target]

\* No two steps delete the same resource, and only after a deletion is
\* something to be created again.
ActionInv ==
  /\ \A n \in DOMAIN steps :
       /\ ActionOk(snapshot, nextId, steps[n].rollback)
       /\ steps[n].rollback.do = "Recreate" =>
            steps[n].outcome = "Success" /\ plan.nodes[n].op = "Delete"
  /\ \A m, n \in DOMAIN steps :
       /\ steps[m].rollback.do = "Delete" /\ steps[n].rollback.do = "Delete"
       /\ steps[m].rollback.ref = steps[n].rollback.ref
       => m = n

LEMMA NextAction ==
  ASSUME JobInv, RunOp("Ok"), NEW a, a = RollbackAction(NextCall, nextId)
  PROVE  /\ ActionOk(snapshot, nextId', a)
         /\ a.do = "Delete" => a.ref = <<NextCall.kind, nextId>>
         /\ a.do = "Recreate" => NextNode.op = "Delete"
         /\ NextCall.op = "Delete" => NextNode.op = "Delete"
         /\ NextCall.op # "Delete" => a # NoAction /\ Reverts(snapshot, a, NextCall, nextId)
<1> DEFINE c == NextCall
           i == desired[NextPlace[1]]
<1>0. RequestInv /\ TypeInv /\ BoundInv BY Zenon DEF JobInv, Inv
<1>1. /\ CallAt(desired, snapshot, bound, NextPlace, NextNode, c)
      /\ IsCall(c) /\ Resolved(c) /\ Known(c)
      /\ nextId' = IF c.op = "Create" THEN nextId + 1 ELSE nextId
  BY OkStep, Zenon
<1>2. nextId \in Nat /\ FirstNewId <= nextId /\ FirstNewId \in Nat
  BY <1>0, RequestFacts, Zenon DEF TypeInv
<1>3. c.op \in {"Create", "Update", "Delete", "Upsert"} BY <1>1, Zenon DEF IsCall
<1>4. CASE c.op = "Create"
  <2>1. a = [do |-> "Delete", ref |-> <<c.kind, nextId>>] BY <1>4, Zenon DEF RollbackAction
  <2>2. <<c.kind, nextId>> \notin DOMAIN snapshot
    <3>1. \A r \in DOMAIN snapshot : r[2] < FirstNewId /\ r[2] \in Nat
      BY <1>0, RequestFacts, Zenon DEF Refs
    <3> QED BY <1>2, <3>1
  <2> HIDE DEF c
  <2>3. a.do = "Delete" /\ a.ref = <<c.kind, nextId>> BY <2>1
  <2>4. ActionOk(snapshot, nextId', a) BY <1>1, <1>2, <1>4, <2>3 DEF ActionOk
  <2>5. Reverts(snapshot, a, c, nextId) BY <1>4, <2>2, <2>3, Zenon DEF Reverts
  <2>6. a # NoAction BY <2>3 DEF NoAction
  <2> QED BY <1>4, <2>3, <2>4, <2>5, <2>6, Zenon DEF c
<1>5. CASE c.op = "Upsert"
  <2> DEFINE v == IF /\ c.ref \in DOMAIN snapshot
                     /\ c.target \in DOMAIN snapshot[c.ref].overwrites
                  THEN snapshot[c.ref].overwrites[c.target] ELSE Unset
  <2>1. a = [do |-> "RestoreOverwrite", ref |-> c.ref, target |-> c.target, value |-> v]
    BY <1>5, Zenon DEF RollbackAction
  <2> HIDE DEF c
  <2>2. a.do = "RestoreOverwrite" /\ a.ref = c.ref /\ a.target = c.target /\ a.value = v BY <2>1
  <2>3. ActionOk(snapshot, nextId', a) BY <2>2, Zenon DEF ActionOk
  <2>4. Reverts(snapshot, a, c, nextId) BY <1>5, <2>2, Zenon DEF Reverts
  <2>5. a # NoAction BY <2>2 DEF NoAction
  <2> QED BY <1>5, <2>2, <2>3, <2>4, <2>5, Zenon DEF c
<1>6. CASE c.op \in {"Update", "Delete"}
  <2>1. /\ NextPlace[1] \in DOMAIN desired /\ NextPlace[2] = 0
        /\ c.op = ResourceChange(snapshot, i) /\ NextNode.op = c.op
        /\ c.ref = KeyRef(desired, snapshot, bound, i.kind, i.key)
    BY <1>1, <1>6, Zenon DEF CallAt
  <2>2. PICK k : k = NextPlace[1] BY Zenon
  <2>3. <<i.kind, i.key>> \notin DOMAIN bound
    <3>1. ResourceChange(snapshot, desired[k]) # "Create" BY <1>6, <2>1, <2>2, Zenon
    <3>2. k \in DOMAIN desired BY <2>1, <2>2, Zenon
    <3>3. <<desired[k].kind, desired[k].key>> \notin DOMAIN bound
      BY <3>1, <3>2, BoundIsCreated, Zenon
    <3> QED BY <2>2, <3>3, Zenon
  <2>4. KeyRef(desired, snapshot, bound, i.kind, i.key) = IntentRef(snapshot, bound, i)
    BY <1>0, <2>1, RequestFacts, KeyRefOfIntent, Zenon
  <2>5. c.ref = Resolve(snapshot, i) BY <2>1, <2>3, <2>4, Zenon DEF IntentRef
  <2>6. Resolve(snapshot, i) \in DOMAIN snapshot \cup {Missing, Conflict}
    BY <1>0, <2>1, RequestFacts, ResolveType, Zenon
  <2>7. c.ref \notin {Missing, Conflict} BY <1>1, Zenon DEF Resolved
  <2>8. c.ref \in DOMAIN snapshot BY <2>5, <2>6, <2>7, Zenon
  <2>9. a = [do |-> IF c.op = "Update" THEN "Restore" ELSE "Recreate", ref |-> c.ref]
    BY <1>6, <2>8, Zenon DEF RollbackAction
  <2> HIDE DEF c
  <2>10. a.do = (IF c.op = "Update" THEN "Restore" ELSE "Recreate") /\ a.ref = c.ref BY <2>9
  <2>11. ActionOk(snapshot, nextId', a) BY <2>10, Zenon DEF ActionOk
  <2>12. c.op # "Delete" => Reverts(snapshot, a, c, nextId) BY <1>6, <2>10, Zenon DEF Reverts
  <2>13. a # NoAction BY <2>10 DEF NoAction
  <2> QED BY <1>6, <2>1, <2>10, <2>11, <2>12, <2>13, Zenon DEF c
<1> QED BY <1>3, <1>4, <1>5, <1>6, Zenon

\* The steps that are there stay; of the new ones at most one has an action.
Growing(k, a) ==
  /\ \A n \in DOMAIN steps : n \in DOMAIN steps' /\ steps'[n] = steps[n]
  /\ \A n \in DOMAIN steps' :
       \/ n \in DOMAIN steps
       \/ steps'[n].rollback = NoAction /\ steps'[n].outcome # "Success"
       \/ n = k /\ steps'[n] = StepResult("Success", a)

LEMMA Appended ==
  ASSUME TypeInv, NEW result, steps' = Append(steps, result)
  PROVE  /\ \A n : n \in DOMAIN steps' <=> n \in DOMAIN steps \/ n = Len(steps) + 1
         /\ Len(steps) + 1 \notin DOMAIN steps
         /\ \A n \in DOMAIN steps : steps'[n] = steps[n]
         /\ steps'[Len(steps) + 1] = result
<1>1. Len(steps) \in Nat /\ DOMAIN steps = 1 .. Len(steps) BY StepType, Zenon
<1>2. /\ DOMAIN steps' = 1 .. Len(steps) + 1
      /\ \A n \in DOMAIN steps : steps'[n] = steps[n]
      /\ steps'[Len(steps) + 1] = result
  BY StepType DEF TypeInv
<1> QED BY <1>1, <1>2

LEMMA RunGrows ==
  ASSUME TypeInv, NEW answer \in {"Ok", "Failed", "Lost"}, RunOp(answer)
  PROVE  /\ Growing(Len(steps) + 1, RollbackAction(NextCall, nextId))
         /\ Len(steps) + 1 \in DOMAIN steps' /\ Len(steps) + 1 \notin DOMAIN steps
         /\ answer = "Ok" =>
              steps'[Len(steps) + 1] = StepResult("Success", RollbackAction(NextCall, nextId))
         /\ answer # "Ok" => steps'[Len(steps) + 1] = StepResult("Failed", NoAction)
<1> DEFINE a == RollbackAction(NextCall, nextId)
           result == IF answer = "Ok" THEN StepResult("Success", a)
                     ELSE StepResult("Failed", NoAction)
<1>1. steps' = Append(steps, result) BY Zenon DEF RunOp
<1>2. StepResult("Failed", NoAction).rollback = NoAction
      /\ StepResult("Failed", NoAction).outcome # "Success"
  BY Zenon DEF StepResult
<1>3. \/ answer = "Ok" /\ result = StepResult("Success", a)
      \/ answer # "Ok" /\ result = StepResult("Failed", NoAction)
  BY Zenon
<1> HIDE DEF a, result
<1>4. /\ \A n : n \in DOMAIN steps' <=> n \in DOMAIN steps \/ n = Len(steps) + 1
      /\ Len(steps) + 1 \notin DOMAIN steps
      /\ \A n \in DOMAIN steps : steps'[n] = steps[n]
      /\ steps'[Len(steps) + 1] = result
  BY <1>1, Appended, Zenon
<1>5. Growing(Len(steps) + 1, a) BY <1>2, <1>3, <1>4, Zenon DEF Growing
<1> QED BY <1>3, <1>4, <1>5, Zenon DEF a

LEMMA UnresolvedGrows ==
  ASSUME TypeInv, RunUnresolved
  PROVE  Growing(0, NoAction) /\ Stopped'
<1>1. steps' = Append(steps, StepResult("Unresolved", NoAction)) BY Zenon DEF RunUnresolved
<1>2. StepResult("Unresolved", NoAction).rollback = NoAction
      /\ StepResult("Unresolved", NoAction).outcome # "Success"
  BY Zenon DEF StepResult
<1>3. /\ \A n : n \in DOMAIN steps' <=> n \in DOMAIN steps \/ n = Len(steps) + 1
      /\ \A n \in DOMAIN steps : steps'[n] = steps[n]
      /\ steps'[Len(steps) + 1] = StepResult("Unresolved", NoAction)
  BY <1>1, Appended, Zenon
<1>4. Growing(0, NoAction) BY <1>2, <1>3, Zenon DEF Growing
<1>5. \E n \in DOMAIN steps' : steps'[n].outcome # "Success" BY <1>2, <1>3, Zenon
<1> QED BY <1>4, <1>5, Zenon DEF Stopped

LEMMA FinishGrows ==
  ASSUME Inv, FinishForward
  PROVE  Growing(0, NoAction) /\ (Stopped => Stopped')
<1>0. RequestInv /\ TypeInv BY Zenon DEF Inv
<1>1. steps' = [n \in 1 .. Len(plan.nodes) |->
                  IF n \in DOMAIN steps THEN steps[n] ELSE StepResult("Skipped", NoAction)]
  BY Zenon DEF FinishForward
<1>2. Len(plan.nodes) \in Nat BY <1>0, RequestFacts, PlanFacts, Zenon DEF RequestInv
<1>3. \A n \in DOMAIN steps : n \in 1 .. Len(plan.nodes)
  BY <1>0, <1>2, StepType DEF TypeInv
<1>4. StepResult("Skipped", NoAction).rollback = NoAction
      /\ StepResult("Skipped", NoAction).outcome # "Success"
  BY Zenon DEF StepResult
<1>5. /\ \A n \in DOMAIN steps : n \in DOMAIN steps' /\ steps'[n] = steps[n]
      /\ \A n \in DOMAIN steps' : n \in DOMAIN steps \/ steps'[n] = StepResult("Skipped", NoAction)
  BY <1>1, <1>3, Zenon
<1>6. Growing(0, NoAction) BY <1>4, <1>5, Zenon DEF Growing
<1>7. Stopped => \E n \in DOMAIN steps' : steps'[n].outcome # "Success"
  BY <1>5, Zenon DEF Stopped
<1> QED BY <1>6, <1>7, Zenon DEF Stopped

\* The other steps of the system.
LEMMA OtherSteps ==
  ASSUME [Next]_vars
  PROVE  \/ \E answer \in {"Ok", "Failed", "Lost"} : RunOp(answer)
         \/ RunUnresolved \/ FinishForward
         \/ \E n \in DOMAIN steps, answer \in {"Ok", "Failed", "Lost"} : Undo(n, answer)
         \/ \E n \in DOMAIN steps : SkipUndo(n)
         \/ \E ref \in DOMAIN guild : Drift(ref)
         \/ /\ UNCHANGED <<request, guild, steps, undone, nextId, lost, drift>>
            /\ phase' = "RolledBack" => phase = "RolledBack" \/ ToUndo = {}
<1> DEFINE Quiet == /\ UNCHANGED <<request, guild, steps, undone, nextId, lost, drift>>
                    /\ phase' = "RolledBack" => phase = "RolledBack" \/ ToUndo = {}
<1>1. ASSUME NEW user \in Users, Approve(user) \/ Reject(user) PROVE Quiet
  BY <1>1, Zenon DEF Approve, Reject
<1>2. CASE Start BY <1>2, Zenon DEF Start
<1>3. CASE FinishRollback BY <1>3, Zenon DEF FinishRollback
<1>4. CASE UNCHANGED vars BY <1>4, Zenon DEF vars, request
<1> HIDE DEF Quiet
<1> QED BY <1>1, <1>2, <1>3, <1>4, Zenon DEF Next, Job, Quiet

LEMMA ActionsGrow ==
  ASSUME ActionInv, TypeInv, UNCHANGED request, nextId' \in Nat, nextId <= nextId',
         NEW k, NEW a, Growing(k, a),
         ActionOk(snapshot, nextId', a), a.do = "Delete" => a.ref[2] = nextId,
         a.do = "Recreate" => plan.nodes[k].op = "Delete"
  PROVE  ActionInv'
<1>0. snapshot' = snapshot /\ plan' = plan BY Zenon DEF request
<1>1. nextId \in Nat BY Zenon DEF TypeInv
<1>2. NoAction.do = "None" BY Zenon DEF NoAction
<1>3. \A n \in DOMAIN steps : steps[n].rollback \in Actions BY StepType, Zenon
<1>4. \A b \in Actions : b.do = "Delete" => b.ref[2] \in Nat
  <2>1. \A b \in Actions : b # NoAction => b.ref \in Refs BY ActionFields, Zenon
  <2> QED BY <1>2, <2>1, Zenon DEF Refs
<1>5. \A n \in DOMAIN steps :
        ActionOk(snapshot, nextId, steps[n].rollback) => ActionOk(snapshot, nextId', steps[n].rollback)
  BY <1>1, <1>3, <1>4 DEF ActionOk
<1>6. StepResult("Success", a).rollback = a /\ StepResult("Success", a).outcome = "Success"
  BY Zenon DEF StepResult
<1>7. ActionOk(snapshot, nextId', NoAction) BY <1>2, Zenon DEF ActionOk
<1>8. ASSUME NEW n \in DOMAIN steps'
      PROVE  /\ ActionOk(snapshot, nextId', steps'[n].rollback)
             /\ steps'[n].rollback.do = "Recreate" =>
                  steps'[n].outcome = "Success" /\ plan.nodes[n].op = "Delete"
  <2>1. CASE n \in DOMAIN steps
    <3>1. steps'[n] = steps[n] BY <2>1, Zenon DEF Growing
    <3>2. /\ ActionOk(snapshot, nextId, steps[n].rollback)
          /\ steps[n].rollback.do = "Recreate" =>
               steps[n].outcome = "Success" /\ plan.nodes[n].op = "Delete"
      BY <2>1, Zenon DEF ActionInv
    <3> QED BY <1>5, <2>1, <3>1, <3>2, Zenon
  <2>2. CASE steps'[n].rollback = NoAction BY <1>2, <1>7, <2>2, Zenon
  <2>3. CASE n = k /\ steps'[n] = StepResult("Success", a) BY <1>6, <2>3, Zenon
  <2> QED BY <1>8, <2>1, <2>2, <2>3, Zenon DEF Growing
<1>9. ASSUME NEW m \in DOMAIN steps', NEW n \in DOMAIN steps',
             steps'[m].rollback.do = "Delete", steps'[n].rollback.do = "Delete",
             steps'[m].rollback.ref = steps'[n].rollback.ref
      PROVE  m = n
  <2>1. \A x \in DOMAIN steps' : steps'[x].rollback.do = "Delete" =>
          \/ x \in DOMAIN steps /\ steps'[x] = steps[x]
          \/ x = k /\ steps'[x].rollback = a
    BY <1>2, <1>6, Zenon DEF Growing
  <2>2. \A x \in DOMAIN steps : steps[x].rollback.do = "Delete" =>
          steps[x].rollback.ref[2] < nextId /\ steps[x].rollback.ref[2] \in Nat
    BY <1>3, <1>4, Zenon DEF ActionInv, ActionOk
  <2>3. CASE m \in DOMAIN steps /\ n \in DOMAIN steps
    BY <1>9, <2>3, Zenon DEF ActionInv, Growing
  <2>4. CASE m \in DOMAIN steps /\ steps'[m] = steps[m] /\ n = k /\ steps'[n].rollback = a
    <3>1. a.ref[2] = nextId /\ steps[m].rollback.ref = a.ref BY <1>9, <2>4, Zenon
    <3> QED BY <1>1, <1>9, <2>2, <2>4, <3>1
  <2>5. CASE n \in DOMAIN steps /\ steps'[n] = steps[n] /\ m = k /\ steps'[m].rollback = a
    <3>1. a.ref[2] = nextId /\ steps[n].rollback.ref = a.ref BY <1>9, <2>5, Zenon
    <3> QED BY <1>1, <1>9, <2>2, <2>5, <3>1
  <2>6. (m \in DOMAIN steps /\ steps'[m] = steps[m]) \/ (m = k /\ steps'[m].rollback = a)
    BY <1>9, <2>1, Zenon
  <2>7. (n \in DOMAIN steps /\ steps'[n] = steps[n]) \/ (n = k /\ steps'[n].rollback = a)
    BY <1>9, <2>1, Zenon
  <2> QED BY <2>3, <2>4, <2>5, <2>6, <2>7, Zenon
<1> QED BY <1>0, <1>8, <1>9, Zenon DEF ActionInv

LEMMA ActionNext == JobInv /\ ActionInv /\ [Next]_vars => ActionInv'
<1> SUFFICES ASSUME JobInv, ActionInv, [Next]_vars PROVE ActionInv'
  BY Zenon
<1>0. Inv /\ TypeInv /\ RequestInv /\ BoundInv BY Zenon DEF JobInv, Inv
<1>1. TypeInv' BY <1>0, InvNext, Zenon DEF Inv
<1>2. nextId' \in Nat /\ nextId \in Nat BY <1>0, <1>1, Zenon DEF TypeInv
<1>3. NoAction.do = "None" BY Zenon DEF NoAction
<1>4. ASSUME NEW next PROVE ActionOk(snapshot, next, NoAction) BY <1>3, Zenon DEF ActionOk
<1>5. ASSUME UNCHANGED request, nextId <= nextId', Growing(0, NoAction) PROVE ActionInv'
  BY <1>0, <1>2, <1>3, <1>4, <1>5, ActionsGrow, Zenon
<1>6. ASSUME UNCHANGED steps PROVE Growing(0, NoAction) BY <1>6, Zenon DEF Growing
<1>7. ASSUME RunOp("Ok") PROVE ActionInv'
  <2> DEFINE a == RollbackAction(NextCall, nextId)
  <2>1. /\ ActionOk(snapshot, nextId', a)
        /\ a.do = "Delete" => a.ref = <<NextCall.kind, nextId>>
        /\ a.do = "Recreate" => NextNode.op = "Delete"
    BY <1>7, NextAction, Zenon
  <2>2. Growing(Len(steps) + 1, a) BY <1>0, <1>7, RunGrows, Zenon
  <2>3. nextId <= nextId' BY <1>2, <1>7, OkStep
  <2>4. UNCHANGED request BY <1>7, Zenon DEF RunOp
  <2> HIDE DEF a
  <2>5. a.do = "Delete" => a.ref[2] = nextId BY <2>1
  <2>6. a.do = "Recreate" => plan.nodes[Len(steps) + 1].op = "Delete" BY <2>1, Zenon DEF NextNode
  <2> QED BY <1>0, <1>2, <2>1, <2>2, <2>3, <2>4, <2>5, <2>6, ActionsGrow, Zenon
<1>8. ASSUME NEW answer \in {"Failed", "Lost"}, RunOp(answer) PROVE ActionInv'
  <2>1. UNCHANGED request /\ Serve(NextCall, answer) BY <1>8, Zenon DEF RunOp
  <2>2. nextId <= nextId' BY <1>2, <2>1 DEF Serve
  <2>3. Growing(0, NoAction)
    <3>1. StepResult("Failed", NoAction).rollback = NoAction
          /\ StepResult("Failed", NoAction).outcome # "Success"
      BY Zenon DEF StepResult
    <3>2. /\ Growing(Len(steps) + 1, RollbackAction(NextCall, nextId))
          /\ steps'[Len(steps) + 1] = StepResult("Failed", NoAction)
      BY <1>0, <1>8, RunGrows, Zenon
    <3> QED BY <3>1, <3>2, Zenon DEF Growing
  <2> QED BY <1>5, <2>1, <2>2, <2>3, Zenon
<1>9. CASE RunUnresolved
  <2>1. Growing(0, NoAction) BY <1>0, <1>9, UnresolvedGrows, Zenon
  <2>2. UNCHANGED request /\ nextId <= nextId' BY <1>2, <1>9 DEF RunUnresolved
  <2> QED BY <1>5, <2>1, <2>2, Zenon
<1>10. CASE FinishForward
  <2>1. Growing(0, NoAction) BY <1>0, <1>10, FinishGrows, Zenon
  <2>2. UNCHANGED request /\ nextId <= nextId' BY <1>2, <1>10 DEF FinishForward
  <2> QED BY <1>5, <2>1, <2>2, Zenon
<1>11. ASSUME NEW n \in DOMAIN steps, NEW answer, Undo(n, answer) PROVE ActionInv'
  <2>1. UNCHANGED request /\ UNCHANGED steps /\ nextId <= nextId'
    BY <1>2, <1>11 DEF Undo, Serve
  <2> QED BY <1>5, <1>6, <2>1, Zenon
<1>12. ASSUME UNCHANGED <<request, steps, nextId>> PROVE ActionInv'
  <2>1. UNCHANGED request /\ UNCHANGED steps /\ nextId <= nextId' BY <1>2, <1>12
  <2> QED BY <1>5, <1>6, <2>1, Zenon
<1>13. \A n : SkipUndo(n) => UNCHANGED <<request, steps, nextId>> BY Zenon DEF SkipUndo
<1>14. \A ref : Drift(ref) => UNCHANGED <<request, steps, nextId>> BY Zenon DEF Drift
<1> QED BY <1>7, <1>8, <1>9, <1>10, <1>11, <1>12, <1>13, <1>14, OtherSteps, Zenon

----------------------------------------------------------------------------
(* A rollback whose every action succeeded.                                *)

Remaining == {steps[n].rollback : n \in ToUndo}

\* Nobody else changed the guild, nothing was deleted and nothing that was to
\* be undone stays.
Covered ==
  drift = 0 /\ ~DeletedSomething /\ \A n \in DOMAIN undone : undone[n] = "Undone"

RollbackInv ==
  /\ phase = "RolledBack" => ToUndo = {}
  /\ Covered => /\ CleanOrLost(snapshot, Remaining, lost, guild)
                /\ ~Stopped => lost = << >>

\* Steps that are added without success leave nothing more to undo.
LEMMA SameRemaining ==
  ASSUME UNCHANGED undone, UNCHANGED request, Growing(0, NoAction), 0 \notin DOMAIN steps'
  PROVE  ToUndo' = ToUndo /\ Remaining' = Remaining /\ (DeletedSomething => DeletedSomething')
<1>1. plan' = plan BY Zenon DEF request
<1>2. /\ \A n \in DOMAIN steps : n \in DOMAIN steps' /\ steps'[n] = steps[n]
      /\ \A n \in DOMAIN steps' : n \in DOMAIN steps \/ steps'[n].outcome # "Success"
  BY Zenon DEF Growing
<1>3. \A n : n \in ToUndo' <=> n \in ToUndo BY <1>2, Zenon DEF ToUndo
<1>4. \A n \in ToUndo : steps'[n] = steps[n] BY <1>2, Zenon DEF ToUndo
<1>5. ToUndo' = ToUndo BY <1>3, Zenon
<1>6. Remaining' = Remaining BY <1>4, <1>5, Zenon DEF Remaining
<1>7. DeletedSomething => DeletedSomething' BY <1>1, <1>2, Zenon DEF DeletedSomething
<1> QED BY <1>5, <1>6, <1>7, Zenon

LEMMA CleanOfEmpty ==
  ASSUME NEW before, NEW A, NEW h, CleanOrLost(before, A, << >>, h)
  PROVE  Clean(before, A, h)
<1>1. DOMAIN << >> = {} OBVIOUS
<1> QED BY <1>1, Zenon DEF CleanOrLost

LEMMA RollbackOfRun ==
  ASSUME JobInv, RollbackInv, NEW answer \in {"Ok", "Failed", "Lost"}, RunOp(answer), Covered'
  PROVE  /\ CleanOrLost(snapshot, Remaining', lost', guild')
         /\ ~Stopped' => lost' = << >>
<1> DEFINE l == Len(steps) + 1
<1>0. Inv /\ TypeInv /\ RequestInv /\ BoundInv BY Zenon DEF JobInv, Inv
<1>1. /\ Running /\ Resolved(NextCall) /\ Serve(NextCall, answer)
      /\ UNCHANGED request /\ UNCHANGED undone /\ UNCHANGED drift
  BY Zenon DEF RunOp
<1>2. plan' = plan /\ snapshot' = snapshot BY <1>1, Zenon DEF request
<1>3. ~Stopped BY <1>1, Zenon DEF Running
<1>4. PICK a : a = RollbackAction(NextCall, nextId) BY Zenon
<1>5. /\ Growing(l, a) /\ l \in DOMAIN steps' /\ l \notin DOMAIN steps
      /\ answer = "Ok" => steps'[l] = StepResult("Success", a)
      /\ answer # "Ok" => steps'[l] = StepResult("Failed", NoAction)
  BY <1>0, <1>4, RunGrows, Zenon
<1>6. \A n \in DOMAIN steps : n \in DOMAIN steps' /\ steps'[n] = steps[n]
  BY <1>5, Zenon DEF Growing
<1> HIDE DEF l
<1>7. Covered
  <2>1. DeletedSomething => DeletedSomething' BY <1>2, <1>6, Zenon DEF DeletedSomething
  <2> QED BY <1>1, <2>1, Zenon DEF Covered
<1>8. lost = << >> /\ Clean(snapshot, Remaining, guild)
  BY <1>3, <1>7, CleanOfEmpty, Zenon DEF RollbackInv
<1>9. IsGuild(guild) /\ nextId \in Nat /\ \A r \in DOMAIN guild : r[2] < nextId
  BY <1>0, Zenon DEF TypeInv
<1>10. IsCall(NextCall) BY <1>0, <1>1, NextCallFacts, Zenon
<1>11. CASE answer = "Ok"
  <2>1. StepResult("Success", a).outcome = "Success" /\ StepResult("Success", a).rollback = a
    BY Zenon DEF StepResult
  <2>2. /\ Known(NextCall) /\ guild' = Effect(guild, NextCall, nextId) /\ lost' = lost
    BY <1>1, <1>11, Zenon DEF Serve, Answers
  <2>3. /\ NextCall.op = "Delete" => NextNode.op = "Delete"
        /\ NextCall.op # "Delete" => a # NoAction /\ Reverts(snapshot, a, NextCall, nextId)
    BY <1>4, <1>11, NextAction, Zenon
  <2>4. NextCall.op # "Delete"
    <3>1. ~DeletedSomething' BY Zenon DEF Covered
    <3>2. ~(steps'[l].outcome = "Success" /\ plan'.nodes[l].op = "Delete")
      BY <1>5, <3>1, Zenon DEF DeletedSomething
    <3>3. plan.nodes[l] = NextNode BY Zenon DEF NextNode, l
    <3> QED BY <1>2, <1>5, <1>11, <2>1, <2>3, <3>2, <3>3, Zenon
  <2>5. \A n : n \in ToUndo' <=> n \in ToUndo \/ n = l
    <3>1. l \notin DOMAIN undone' BY <1>0, <1>1, <1>5, Zenon DEF TypeInv
    <3>2. \A n \in DOMAIN steps' : n \in DOMAIN steps \/ n = l \/ steps'[n].outcome # "Success"
      BY <1>5, Zenon DEF Growing
    <3>3. steps'[l].outcome = "Success" /\ steps'[l].rollback # NoAction
      BY <1>5, <1>11, <2>1, <2>3, <2>4, Zenon
    <3> QED BY <1>1, <1>5, <1>6, <3>1, <3>2, <3>3, Zenon DEF ToUndo
  <2>6. \A n \in ToUndo : steps'[n].rollback = steps[n].rollback
    BY <1>6, Zenon DEF ToUndo
  <2>7. steps'[l].rollback = a BY <1>5, <1>11, <2>1, Zenon
  <2>8. \A b : b \in Remaining' <=> b \in Remaining \/ b = a
    BY <2>5, <2>6, <2>7, Zenon DEF Remaining
  <2>9. NextCall.op # "Create" => NextCall.ref \in DOMAIN guild BY <2>2, Zenon DEF Known
  <2>10. Clean(snapshot, Remaining', Effect(guild, NextCall, nextId))
    BY <1>8, <1>9, <1>10, <2>3, <2>4, <2>8, <2>9, ForwardClean, Zenon
  <2> QED BY <1>8, <2>2, <2>10, Zenon DEF CleanOrLost
<1>12. CASE answer # "Ok"
  <2>1. StepResult("Failed", NoAction).outcome # "Success"
        /\ StepResult("Failed", NoAction).rollback = NoAction
    BY Zenon DEF StepResult
  <2>2. Stopped'
    <3>1. \E n \in DOMAIN steps' : steps'[n].outcome # "Success" BY <1>5, <1>12, <2>1, Zenon
    <3> QED BY <3>1, Zenon DEF Stopped
  <2>3. Remaining' = Remaining
    <3>1. Growing(0, NoAction) BY <1>5, <1>12, <2>1, Zenon DEF Growing
    <3>2. TypeInv' BY <1>0, RunOpInv, Zenon DEF Inv
    <3>3. 0 \notin DOMAIN steps'
      <4>1. steps' \in Seq(StepResults) BY <3>2, Zenon DEF TypeInv
      <4> QED BY <4>1
    <3> QED BY <1>1, <3>1, <3>3, SameRemaining, Zenon
  <2>4. CASE answer = "Failed"
    <3>1. guild' = guild /\ lost' = lost BY <1>1, <2>4, Zenon DEF Serve
    <3> QED BY <1>8, <2>2, <2>3, <3>1, Zenon DEF CleanOrLost
  <2>5. CASE answer = "Lost"
    <3>1. guild' = Effect(guild, NextCall, nextId) /\ lost' = Append(lost, <<NextCall, nextId>>)
      BY <1>1, <2>5, Zenon DEF Serve
    <3>2. 1 \in DOMAIN lost' /\ lost'[1] = <<NextCall, nextId>> BY <1>8, <3>1
    <3>3. lost'[1][1] = NextCall /\ lost'[1][2] = nextId BY <3>2
    <3>a. LeftBy(guild, NextCall, nextId, guild')
      <4>1. CASE NextCall.op = "Create"
        <5>1. EveryoneRole \in DOMAIN guild BY <1>0, Zenon DEF TypeInv
        <5>2. IsResource(NewResource(guild, NextCall))
          BY <1>9, <1>10, <4>1, <5>1, NewIsResource, Zenon
        <5>3. NewResource(guild, NextCall).name = NextCall.name BY NewFields, Zenon
        <5>4. guild' = With(guild, <<NextCall.kind, nextId>>, NewResource(guild, NextCall))
          BY <3>1, <4>1, EffectCases, Zenon
        <5> QED BY <4>1, <5>2, <5>3, <5>4, Zenon DEF LeftBy
      <4>2. CASE NextCall.op # "Create" BY <3>1, <4>2, Zenon DEF LeftBy
      <4> QED BY <4>1, <4>2, Zenon
    <3>4. LostOn(snapshot, Remaining, NextCall, nextId, guild')
      BY <1>8, <1>9, <3>a, Zenon DEF LostOn
    <3>5. LostOn(snapshot, Remaining', lost'[1][1], lost'[1][2], guild') /\ IsCall(lost'[1][1])
      BY <1>10, <2>3, <3>3, <3>4, Zenon
    <3>6. CleanOrLost(snapshot, Remaining', lost', guild')
      BY <3>2, <3>5, Zenon DEF CleanOrLost
    <3> QED BY <2>2, <3>6, Zenon
  <2> QED BY <1>12, <2>4, <2>5, Zenon
<1> QED BY <1>11, <1>12, Zenon

LEMMA UndoCarriesOut ==
  ASSUME JobInv, ActionInv, NEW n \in ToUndo, ~DeletedSomething, ~Removes(steps[n].rollback)
  PROVE  CarriesOut(snapshot, UndoCall(steps[n].rollback), steps[n].rollback)
<1> DEFINE a == steps[n].rollback
           u == UndoCall(a)
<1>0. Inv /\ TypeInv /\ RequestInv /\ ActionsInv BY Zenon DEF JobInv, Inv
<1>1. n \in DOMAIN steps /\ a # NoAction /\ steps[n].outcome = "Success" BY Zenon DEF ToUndo
<1>2. a \in Actions BY <1>0, <1>1, StepType, Zenon
<1>3. ActionOk(snapshot, nextId, a) /\ Allowed(a, nextId)
  BY <1>0, <1>1, Zenon DEF ActionInv, ActionsInv
<1>4. a.do # "Recreate" BY <1>1, Zenon DEF ActionInv, DeletedSomething
<1>5. ~Removes(a) BY Zenon
<1> HIDE DEF a
<1>6. /\ a.do \in {"Delete", "Restore", "Recreate", "RestoreOverwrite"}
      /\ a.ref \in Refs
  BY <1>1, <1>2, ActionFields, Zenon
<1>7. CASE a.do = "Delete"
  <2>1. u.op = "Delete" /\ u.ref = a.ref BY <1>7, Zenon DEF UndoCall
  <2>2. a.ref \notin DOMAIN snapshot
    <3>1. FirstNewId <= a.ref[2] /\ a.ref[2] \in Nat BY <1>3, <1>6, <1>7, Zenon DEF ActionOk, Refs
    <3>2. FirstNewId \in Nat /\ \A r \in DOMAIN snapshot : r[2] < FirstNewId
      BY <1>0, RequestFacts, Zenon
    <3> QED BY <3>1, <3>2
  <2> HIDE DEF u
  <2>3. CarriesOut(snapshot, u, a) BY <1>7, <2>1, <2>2, Zenon DEF CarriesOut
  <2> QED BY <2>3, Zenon DEF a, u
<1>8. CASE a.do = "Restore"
  <2>1. /\ u.op = "Update" /\ u.ref = a.ref
        /\ u.name = snapshot[a.ref].name /\ u.value = snapshot[a.ref].value
    BY <1>8, Zenon DEF UndoCall
  <2>2. a.ref \in DOMAIN snapshot BY <1>3, <1>8, Zenon DEF Allowed
  <2> HIDE DEF u
  <2>3. CarriesOut(snapshot, u, a) BY <1>8, <2>1, <2>2, Zenon DEF CarriesOut
  <2> QED BY <2>3, Zenon DEF a, u
<1>9. CASE a.do = "RestoreOverwrite"
  <2>1. u.op = "Upsert" /\ u.ref = a.ref /\ u.target = a.target /\ u.value = a.value
    BY <1>9, Zenon DEF UndoCall
  <2>2. /\ a.ref \in DOMAIN snapshot /\ a.target \in DOMAIN snapshot[a.ref].overwrites
        /\ a.value = snapshot[a.ref].overwrites[a.target]
    BY <1>3, <1>5, <1>9, Zenon DEF ActionOk, Removes
  <2> HIDE DEF u
  <2>3. CarriesOut(snapshot, u, a) BY <1>9, <2>1, <2>2, Zenon DEF CarriesOut
  <2> QED BY <2>3, Zenon DEF a, u
<1> QED BY <1>4, <1>6, <1>7, <1>8, <1>9, Zenon

LEMMA RollbackOfUndo ==
  ASSUME JobInv, ActionInv, RollbackInv, NEW n \in DOMAIN steps,
         NEW answer \in {"Ok", "Failed", "Lost"}, Undo(n, answer), Covered'
  PROVE  /\ CleanOrLost(snapshot, Remaining', lost', guild')
         /\ ~Stopped' => lost' = << >>
<1> DEFINE a == steps[n].rollback
           u == UndoCall(a)
<1>0. Inv /\ TypeInv /\ RequestInv /\ ActionsInv BY Zenon DEF JobInv, Inv
<1>1. /\ n \in ToUndo /\ ~Removes(a) /\ Serve(u, answer)
      /\ undone' = With(undone, n, IF answer = "Ok" THEN "Undone" ELSE "Failed")
      /\ UNCHANGED request /\ UNCHANGED steps /\ UNCHANGED drift
  BY Zenon DEF Undo, Undoing
<1>2. plan' = plan /\ snapshot' = snapshot BY <1>1, Zenon DEF request
<1>3. /\ \A m : m \in DOMAIN undone' <=> m \in DOMAIN undone \/ m = n
      /\ \A m \in DOMAIN undone : m # n => undone'[m] = undone[m]
      /\ undone'[n] = IF answer = "Ok" THEN "Undone" ELSE "Failed"
  BY <1>1, WithFacts
<1>4. n \notin DOMAIN undone BY <1>1, Zenon DEF ToUndo
<1>5. answer = "Ok" BY <1>3, Zenon DEF Covered
<1>6. DeletedSomething' <=> DeletedSomething BY <1>1, <1>2, Zenon DEF DeletedSomething
<1>7. Covered BY <1>1, <1>3, <1>4, <1>6, Zenon DEF Covered
<1>8. /\ CleanOrLost(snapshot, Remaining, lost, guild)
      /\ ~Stopped => lost = << >>
  BY <1>7, Zenon DEF RollbackInv
<1>9. Known(u) /\ guild' = Effect(guild, u, nextId) /\ lost' = lost
  BY <1>1, <1>5, Zenon DEF Serve, Answers
<1>10. IsCall(u) BY <1>0, <1>1, UndoCallFacts, Zenon
<1>11. CarriesOut(snapshot, u, a) BY <1>1, <1>7, UndoCarriesOut, Zenon DEF Covered
<1>12. \A m : m \in ToUndo' <=> m \in ToUndo /\ m # n BY <1>1, <1>3, Zenon DEF ToUndo
<1>13. a \in Remaining BY <1>1, Zenon DEF Remaining
<1>14. \A b : b \in Remaining' <=> \E m \in ToUndo : m # n /\ b = steps[m].rollback
  BY <1>1, <1>12, Zenon DEF Remaining
<1>15. \A b : b \in Remaining <=> \E m \in ToUndo : b = steps[m].rollback
  BY Zenon DEF Remaining
<1>16. a.do = "Delete" => ~Deleting(Remaining', a.ref)
  <2> SUFFICES ASSUME a.do = "Delete", NEW b \in Remaining', b.do = "Delete", b.ref = a.ref
               PROVE  FALSE
    BY Zenon DEF Deleting
  <2>1. PICK m \in ToUndo : m # n /\ b = steps[m].rollback BY <1>14, Zenon
  <2>2. m \in DOMAIN steps BY <2>1, Zenon DEF ToUndo
  <2> QED BY <2>1, <2>2, Zenon DEF ActionInv
<1>17. /\ IsGuild(guild) /\ IsGuild(snapshot) /\ Closed(snapshot) /\ nextId \in Nat
  BY <1>0, RequestFacts, Zenon DEF TypeInv, Closed
<1>18. \A b \in Remaining' : b \in Remaining BY <1>14, <1>15, Zenon
<1>19. \A b \in Remaining : b # a => b \in Remaining' BY <1>14, <1>15, Zenon
<1> HIDE DEF a, u
<1>20. u.ref \in DOMAIN guild
  <2>1. u.op # "Create" BY <1>11, Zenon DEF CarriesOut
  <2> QED BY <1>9, <2>1, Zenon DEF Known
<1>a. u.op = "Upsert" => u.target \in DOMAIN guild
  <2> SUFFICES ASSUME u.op = "Upsert" PROVE u.target \in DOMAIN guild
    BY Zenon
  <2>1. /\ u.target = a.target /\ a.ref \in DOMAIN snapshot
        /\ a.target \in DOMAIN snapshot[a.ref].overwrites
    BY <1>11, Zenon DEF CarriesOut
  <2>2. u.target \in DOMAIN snapshot BY <1>17, <2>1, Zenon DEF Closed
  <2>3. u.target \in DOMAIN guild \cup {None} BY <1>9, Zenon DEF Known
  <2>4. None \notin DOMAIN snapshot BY <1>17, NotRefs, Zenon DEF IsGuild
  <2> QED BY <2>2, <2>3, <2>4, Zenon
<1>21. CleanOrLost(snapshot, Remaining', lost, Effect(guild, u, nextId))
  BY <1>8, <1>10, <1>11, <1>13, <1>16, <1>17, <1>18, <1>19, <1>20, <1>a, UndoCleanOrLost, Zenon
<1>22. Stopped' <=> Stopped BY <1>1, Zenon DEF Stopped
<1> QED BY <1>8, <1>9, <1>21, <1>22, Zenon

LEMMA RollbackInit == Init => ActionInv /\ RollbackInv
<1> SUFFICES ASSUME Init PROVE ActionInv /\ RollbackInv
  BY Zenon
<1>1. steps = << >> /\ phase = "Review" /\ guild = snapshot /\ lost = << >> BY Zenon DEF Init
<1>2. DOMAIN steps = {} BY <1>1
<1>3. ActionInv BY <1>2, Zenon DEF ActionInv
<1>4. Remaining = {} BY <1>2, Zenon DEF Remaining, ToUndo
<1>5. CleanOrLost(snapshot, Remaining, lost, guild)
  BY <1>1, <1>4, CleanAtFirst, Zenon DEF CleanOrLost
<1> QED BY <1>1, <1>3, <1>5, Zenon DEF RollbackInv

LEMMA RollbackNext == JobInv /\ ActionInv /\ RollbackInv /\ [Next]_vars => RollbackInv'
<1> SUFFICES ASSUME JobInv, ActionInv, RollbackInv, [Next]_vars PROVE RollbackInv'
  BY Zenon
<1>0. Inv /\ TypeInv /\ Inv' /\ TypeInv' BY InvNext, Zenon DEF JobInv, Inv
<1>1. 0 \notin DOMAIN steps' /\ 0 \notin DOMAIN steps
  <2>1. steps \in Seq(StepResults) /\ steps' \in Seq(StepResults) BY <1>0, Zenon DEF TypeInv
  <2> QED BY <2>1
<1>2. ASSUME UNCHANGED request, phase' # "RolledBack",
             Covered' => /\ CleanOrLost(snapshot, Remaining', lost', guild')
                         /\ ~Stopped' => lost' = << >>
      PROVE  RollbackInv'
  BY <1>2, Zenon DEF RollbackInv, request
<1>3. ASSUME UNCHANGED request, UNCHANGED <<undone, guild, lost, drift>>, Growing(0, NoAction),
             Stopped => Stopped',
             phase' = "RolledBack" => phase = "RolledBack" \/ ToUndo = {}
      PROVE  RollbackInv'
  <2>1. ToUndo' = ToUndo /\ Remaining' = Remaining /\ (DeletedSomething => DeletedSomething')
    BY <1>1, <1>3, SameRemaining, Zenon
  <2>2. Covered' => Covered BY <1>3, <2>1, Zenon DEF Covered
  <2>3. snapshot' = snapshot BY <1>3, Zenon DEF request
  <2> QED BY <1>3, <2>1, <2>2, <2>3, Zenon DEF RollbackInv
<1>4. ASSUME NEW answer \in {"Ok", "Failed", "Lost"}, RunOp(answer) PROVE RollbackInv'
  <2>1. UNCHANGED request /\ phase' # "RolledBack" BY <1>4, Zenon DEF RunOp, Running
  <2> QED BY <1>2, <1>4, <2>1, RollbackOfRun, Zenon
<1>5. CASE RunUnresolved
  <2>1. Growing(0, NoAction) /\ Stopped' BY <1>0, <1>5, UnresolvedGrows, Zenon
  <2>2. /\ UNCHANGED request /\ UNCHANGED <<undone, guild, lost, drift>>
        /\ phase' = "RolledBack" => phase = "RolledBack"
    BY <1>5, Zenon DEF RunUnresolved
  <2> QED BY <1>3, <2>1, <2>2, Zenon
<1>6. CASE FinishForward
  <2>1. Growing(0, NoAction) /\ (Stopped => Stopped') BY <1>0, <1>6, FinishGrows, Zenon
  <2>2. /\ UNCHANGED request /\ UNCHANGED <<undone, guild, lost, drift>>
        /\ phase' # "RolledBack"
    BY <1>6, Zenon DEF FinishForward
  <2> QED BY <1>3, <2>1, <2>2, Zenon
<1>7. ASSUME NEW n \in DOMAIN steps, NEW answer \in {"Ok", "Failed", "Lost"}, Undo(n, answer)
      PROVE  RollbackInv'
  <2>1. UNCHANGED request /\ phase' # "RolledBack" BY <1>7, Zenon DEF Undo, Undoing
  <2> QED BY <1>2, <1>7, <2>1, RollbackOfUndo, Zenon
<1>8. ASSUME NEW n \in DOMAIN steps, SkipUndo(n) PROVE RollbackInv'
  <2>1. UNCHANGED request /\ phase' # "RolledBack" /\ undone' = With(undone, n, "Skipped")
    BY <1>8, Zenon DEF SkipUndo, Undoing
  <2>2. n \in DOMAIN undone' /\ undone'[n] = "Skipped" BY <2>1, WithFacts
  <2>3. ~Covered' BY <2>2, Zenon DEF Covered
  <2> QED BY <1>2, <2>1, <2>3, Zenon
<1>9. ASSUME NEW ref \in DOMAIN guild, Drift(ref) PROVE RollbackInv'
  <2>1. UNCHANGED request /\ phase' # "RolledBack" /\ drift' = drift + 1 BY <1>9, Zenon DEF Drift
  <2>2. drift' # 0 BY <1>0, <2>1 DEF TypeInv
  <2>3. ~Covered' BY <2>2, Zenon DEF Covered
  <2> QED BY <1>2, <2>1, <2>3, Zenon
<1>10. ASSUME UNCHANGED <<request, guild, steps, undone, nextId, lost, drift>>,
              phase' = "RolledBack" => phase = "RolledBack" \/ ToUndo = {}
       PROVE  RollbackInv'
  <2>1. Growing(0, NoAction) /\ (Stopped => Stopped') BY <1>10, Zenon DEF Growing, Stopped
  <2> QED BY <1>3, <1>10, <2>1, Zenon
<1> QED BY <1>4, <1>5, <1>6, <1>7, <1>8, <1>9, <1>10, OtherSteps, Zenon

\* For every plan, snapshot and placing of failures: a rollback that reports
\* NotRequired or Succeeded, on a guild that nobody else changed and in which
\* nothing was deleted, leaves the snapshot, or the snapshot with the effect of
\* a call that answered with an error after it took effect: the resource it
\* created, or what it changed (execute's rollback actions, undone last first,
\* and rollback_status).
THEOREM ReportedRollbackHolds == Spec => []RollbackLeavesAtMostTheLostCall
<1>1. JobInv /\ RollbackInv => RollbackLeavesAtMostTheLostCall
  <2> DEFINE Left(call, id) ==
        IF call.op = "Create"
        THEN /\ DOMAIN guild = DOMAIN snapshot \cup {<<call.kind, id>>}
             /\ \A r \in DOMAIN snapshot : guild[r] = snapshot[r]
             /\ guild[<<call.kind, id>>].name = call.name
        ELSE guild = Effect(snapshot, call, id)
  <2> SUFFICES ASSUME JobInv, RollbackInv, phase = "RolledBack",
                      RollbackStatus \in {"NotRequired", "Succeeded"},
                      drift = 0, ~DeletedSomething
               PROVE  \/ guild = snapshot
                      \/ \E n \in DOMAIN lost : Left(lost[n][1], lost[n][2])
    BY Zenon DEF RollbackLeavesAtMostTheLostCall
  <2>1. \A n \in DOMAIN undone : undone[n] = "Undone" BY Zenon DEF RollbackStatus
  <2>2. Covered BY <2>1, Zenon DEF Covered
  <2>3. ToUndo = {} BY Zenon DEF RollbackInv
  <2>4. Remaining = {} BY <2>3, Zenon DEF Remaining
  <2>5. CleanOrLost(snapshot, {}, lost, guild) BY <2>2, <2>4, Zenon DEF RollbackInv
  <2>6. IsGuild(snapshot) /\ IsGuild(guild) BY RequestFacts, Zenon DEF JobInv, Inv, TypeInv
  <2>7. CASE Clean(snapshot, {}, guild) BY <2>6, <2>7, CleanIsSnapshot, Zenon
  <2>8. ASSUME NEW n \in DOMAIN lost, LostOn(snapshot, {}, lost[n][1], lost[n][2], guild)
        PROVE  Left(lost[n][1], lost[n][2])
    <3> DEFINE call == lost[n][1]
               id == lost[n][2]
               new == <<call.kind, id>>
    <3>1. PICK g : /\ IsGuild(g) /\ Clean(snapshot, {}, g) /\ LeftBy(g, call, id, guild)
                   /\ id \in Nat /\ \A r \in DOMAIN g : r[2] < id
      BY <2>8, Zenon DEF LostOn
    <3>2. g = snapshot BY <2>6, <3>1, CleanIsSnapshot, Zenon
    <3> HIDE DEF call, id
    <3>3. CASE call.op = "Create"
      <4>1. PICK c : c.name = call.name /\ guild = With(snapshot, new, c)
        BY <3>1, <3>2, <3>3, Zenon DEF LeftBy
      <4>2. new \notin DOMAIN snapshot BY <3>1, <3>2
      <4> HIDE DEF new
      <4>3. /\ \A y : y \in DOMAIN guild <=> y \in DOMAIN snapshot \/ y = new
            /\ guild[new] = c /\ \A y \in DOMAIN snapshot : y # new => guild[y] = snapshot[y]
        BY <4>1, WithFacts
      <4>4. DOMAIN guild = DOMAIN snapshot \cup {new} BY <4>3, Zenon
      <4>5. \A r \in DOMAIN snapshot : guild[r] = snapshot[r] BY <4>2, <4>3, Zenon
      <4>6. Left(call, id) BY <3>3, <4>1, <4>3, <4>4, <4>5, Zenon DEF new
      <4> QED BY <4>6, Zenon DEF call, id
    <3>4. CASE call.op # "Create"
      <4>1. Left(call, id) BY <3>1, <3>2, <3>4, Zenon DEF LeftBy
      <4> QED BY <4>1, Zenon DEF call, id
    <3> QED BY <3>3, <3>4, Zenon
  <2> QED BY <2>5, <2>7, <2>8, Zenon DEF CleanOrLost
<1> QED BY <1>1, RollbackInit, RollbackNext, ActionNext, JobInvariance, PTL DEF Spec
=============================================================================
