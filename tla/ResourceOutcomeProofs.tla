----------------------- MODULE ResourceOutcomeProofs -----------------------
(***************************************************************************)
(* Proof that a successful execution leaves nothing further to do, for all *)
(* desired states, snapshots, users and bounds.                            *)
(***************************************************************************)
EXTENDS ResourceExecutionProofs

----------------------------------------------------------------------------
(* What a clean run has settled.                                           *)

\* What the target of overwrite o stands for now.
Target(o) == TargetRef(desired, snapshot, bound, o.target)

\* Nothing more to do for intent n itself, or for one of its overwrites.
SettledIntent(n) ==
  IF desired[n].state = "Absent" THEN Resolve(snapshot, desired[n]) \notin DOMAIN guild
  ELSE /\ Ref(n) \in DOMAIN guild
       /\ desired[n].owner = "Referenced" \/ ~Changed(desired[n], guild[Ref(n)])

SettledOverwrite(n, o) ==
  /\ Ref(n) \in DOMAIN guild
  /\ Target(o) \in DOMAIN guild[Ref(n)].overwrites
  /\ guild[Ref(n)].overwrites[Target(o)] = o.value

\* A name is the snapshot's or given by the intent for the resource.
NameKnown(r) ==
  \/ r \in DOMAIN snapshot /\ guild[r].name = snapshot[r].name
  \/ \E n \in DOMAIN desired :
       /\ r = Ref(n) /\ desired[n].state = "Present"
       /\ desired[n].name # NoKey /\ guild[r].name = desired[n].name

Settled ==
  /\ \A n \in DOMAIN desired :
       <<n, 0>> \in Done \/ ResourceChange(snapshot, desired[n]) = "NoOp" => SettledIntent(n)
  /\ \A n, m : /\ <<n, m>> \in Places(snapshot, desired) /\ m # 0
               /\ <<n, m>> \in Done \/ NodeAt(snapshot, desired, <<n, m>>).op = "NoOp"
               => SettledOverwrite(n, desired[n].overwrites[m])
  /\ \A r \in DOMAIN guild : NameKnown(r)

SettledInv == CleanRun /\ WellPosed => Settled

\* The resources of two intents of a well-posed desired state are not the
\* same, and neither are those of two targets of an intent's overwrites.
LEMMA RefType ==
  ASSUME JobInv, NEW n \in DOMAIN desired
  PROVE  LET x == <<desired[n].kind, desired[n].key>>
         IN \/ /\ x \in DOMAIN bound /\ Ref(n) = bound[x]
               /\ Ref(n) \in Refs /\ Ref(n)[1] = desired[n].kind
               /\ Ref(n)[2] \in Nat /\ FirstNewId <= Ref(n)[2]
            \/ /\ x \notin DOMAIN bound /\ Ref(n) = Resolve(snapshot, desired[n])
               /\ Ref(n) \in DOMAIN snapshot
               /\ Ref(n) \in Refs /\ Ref(n)[1] = desired[n].kind
               /\ Ref(n)[2] \in Nat /\ Ref(n)[2] < FirstNewId
            \/ /\ x \notin DOMAIN bound /\ Ref(n) = Resolve(snapshot, desired[n])
               /\ Ref(n) \in {Missing, Conflict}
<1> DEFINE x == <<desired[n].kind, desired[n].key>>
<1>0. RequestInv /\ BoundInv /\ InjectiveInv BY Zenon DEF JobInv, Inv
<1>1. CASE x \in DOMAIN bound
  <2>1. Ref(n) = bound[x] BY <1>1, Zenon DEF Ref, IntentRef
  <2>2. Ref(n) \in Refs /\ FirstNewId <= Ref(n)[2] BY <1>0, <1>1, <2>1, Zenon DEF BoundInv
  <2>3. Ref(n)[1] = desired[n].kind BY <1>0, <1>1, <2>1, Zenon DEF InjectiveInv
  <2>4. Ref(n)[2] \in Nat BY <2>2, Zenon DEF Refs
  <2> QED BY <1>1, <2>1, <2>2, <2>3, <2>4, Zenon
<1>2. CASE x \notin DOMAIN bound
  <2>1. Ref(n) = Resolve(snapshot, desired[n]) BY <1>2, Zenon DEF Ref, IntentRef
  <2>2. /\ Ref(n) \in DOMAIN snapshot \cup {Missing, Conflict}
        /\ Ref(n) \in DOMAIN snapshot => Ref(n)[1] = desired[n].kind
    <3> DEFINE r == Resolve(snapshot, desired[n])
    <3>1. /\ r \in DOMAIN snapshot \cup {Missing, Conflict}
          /\ r \in DOMAIN snapshot => r[1] = desired[n].kind
      BY <1>0, RequestFacts, ResolveType, Zenon
    <3> HIDE DEF r
    <3> QED BY <2>1, <3>1, Zenon DEF r
  <2>3. Ref(n) \in DOMAIN snapshot => Ref(n) \in Refs /\ Ref(n)[2] < FirstNewId
    BY <1>0, RequestFacts, Zenon
  <2>4. Ref(n) \in Refs => Ref(n)[2] \in Nat BY Zenon DEF Refs
  <2> QED BY <1>2, <2>1, <2>2, <2>3, <2>4, Zenon
<1> QED BY <1>1, <1>2, Zenon

LEMMA RefsDiffer ==
  ASSUME JobInv, WellPosed, NEW m \in DOMAIN desired, NEW n \in DOMAIN desired, m # n,
         Ref(m) \in Refs
  PROVE  Ref(m) # Ref(n)
<1> SUFFICES ASSUME Ref(m) = Ref(n) PROVE FALSE
  BY Zenon
<1>0. RequestInv /\ InjectiveInv BY Zenon DEF JobInv, Inv
<1>1. FirstNewId \in Nat /\ Missing \notin Refs /\ Conflict \notin Refs
  BY <1>0, RequestFacts, NotRefs, Zenon
<1> DEFINE x(k) == <<desired[k].kind, desired[k].key>>
<1>2. \A k \in {m, n} :
        \/ /\ x(k) \in DOMAIN bound /\ Ref(k) = bound[x(k)]
           /\ Ref(k)[2] \in Nat /\ FirstNewId <= Ref(k)[2]
        \/ /\ Ref(k) = Resolve(snapshot, desired[k]) /\ Ref(k)[1] = desired[k].kind
           /\ Ref(k)[2] \in Nat /\ Ref(k)[2] < FirstNewId
  BY <1>1, RefType, Zenon
<1>3. CASE FirstNewId <= Ref(m)[2]
  <2>1. x(m) \in DOMAIN bound /\ x(n) \in DOMAIN bound /\ bound[x(m)] = bound[x(n)]
    BY <1>1, <1>2, <1>3
  <2>2. x(m) = x(n) BY <1>0, <2>1, Zenon DEF InjectiveInv
  <2> QED BY <2>2, <1>0, RequestFacts, Zenon DEF Validate
<1>4. CASE ~(FirstNewId <= Ref(m)[2])
  <2>1. /\ Resolve(snapshot, desired[m]) = Resolve(snapshot, desired[n])
        /\ desired[m].kind = desired[n].kind /\ Resolve(snapshot, desired[m]) # Missing
    BY <1>1, <1>2, <1>4, Zenon
  <2> QED BY <2>1, Zenon DEF WellPosed
<1> QED BY <1>3, <1>4, Zenon

\* What a target stands for: @everyone, or a declared role.
LEMMA TargetOfRole ==
  ASSUME JobInv, NEW n \in DOMAIN desired, NEW m \in DOMAIN desired[n].overwrites
  PROVE  LET o == desired[n].overwrites[m]
         IN \/ /\ o.target = Everyone /\ Target(o) = EveryoneRole
               /\ OverwriteTarget(snapshot, desired, o.target) = EveryoneRole
            \/ \E k \in DOMAIN desired :
                 /\ o.target # Everyone
                 /\ desired[k].kind = "Role" /\ desired[k].key = o.target
                 /\ Target(o) = Ref(k)
                 /\ OverwriteTarget(snapshot, desired, o.target) = Resolve(snapshot, desired[k])
            \/ o.target # Everyone /\ Declared(desired, "Role", o.target) = {}
<1> DEFINE o == desired[n].overwrites[m]
<1>0. RequestInv BY Zenon DEF JobInv, Inv
<1>1. CASE o.target = Everyone BY <1>1, Zenon DEF Target, TargetRef, OverwriteTarget
<1>2. CASE o.target # Everyone /\ Declared(desired, "Role", o.target) # {}
  <2>1. PICK k \in Declared(desired, "Role", o.target) : TRUE BY <1>2, Zenon
  <2>2. k \in DOMAIN desired /\ desired[k].kind = "Role" /\ desired[k].key = o.target
    BY Zenon DEF Declared
  <2>3. Target(o) = KeyRef(desired, snapshot, bound, desired[k].kind, desired[k].key)
    BY <1>2, <2>2, Zenon DEF Target, TargetRef
  <2>4. KeyRef(desired, snapshot, bound, desired[k].kind, desired[k].key) = Ref(k)
    BY <1>0, <2>2, RequestFacts, KeyRefOfIntent, Zenon DEF Ref
  <2>5. IntentOf(desired, desired[k].kind, desired[k].key) = desired[k]
    BY <1>0, <2>2, RequestFacts, IntentOfKey, Zenon
  <2>6. OverwriteTarget(snapshot, desired, o.target) = Resolve(snapshot, desired[k])
    BY <1>2, <2>2, <2>5, Zenon DEF OverwriteTarget
  <2> QED BY <1>2, <2>2, <2>3, <2>4, <2>6, Zenon
<1>3. CASE o.target # Everyone /\ Declared(desired, "Role", o.target) = {} BY <1>3, Zenon
<1> QED BY <1>1, <1>2, <1>3, Zenon

LEMMA TargetsDiffer ==
  ASSUME JobInv, WellPosed, NEW n \in DOMAIN desired,
         NEW l \in DOMAIN desired[n].overwrites, NEW m \in DOMAIN desired[n].overwrites, l # m,
         Target(desired[n].overwrites[l]) \in Refs
  PROVE  Target(desired[n].overwrites[l]) # Target(desired[n].overwrites[m])
<1> DEFINE ov == desired[n].overwrites
           T(o) == OverwriteTarget(snapshot, desired, o.target)
<1> SUFFICES ASSUME Target(ov[l]) = Target(ov[m]) PROVE FALSE
  BY Zenon
<1>0. RequestInv /\ InjectiveInv BY Zenon DEF JobInv, Inv
<1>1. ov[l].target # ov[m].target BY <1>0, RequestFacts, Zenon DEF Normalized
<1>2. ov[l] \in Range(ov) /\ ov[m] \in Range(ov) BY Zenon DEF Range
<1>3. \A o \in Range(ov) : o.target # Everyone => Declared(desired, "Role", o.target) # {}
  <2> SUFFICES ASSUME NEW o \in Range(ov), o.target # Everyone
               PROVE  Declared(desired, "Role", o.target) # {}
    BY Zenon
  <2>1. \E k \in Declared(desired, "Role", o.target) : desired[k].state = "Present"
    BY Zenon DEF WellPosed, WellReferenced
  <2> QED BY <2>1, Zenon
<1>4. ov[l] # ov[m] BY <1>1, Zenon
<1>5. T(ov[l]) # T(ov[m]) \/ T(ov[l]) = Missing
  BY <1>2, <1>4, Zenon DEF WellPosed
<1>6. T(ov[m]) # T(ov[l]) \/ T(ov[m]) = Missing
  BY <1>2, <1>4, Zenon DEF WellPosed
<1>7. FirstNewId \in Nat /\ GuildId \in Nat /\ GuildId < FirstNewId /\ EveryoneRole[2] = GuildId
      /\ EveryoneRole \in Refs
  BY <1>0, RequestFacts, Zenon DEF EveryoneRole
<1>8. Missing \notin Refs /\ Conflict \notin Refs BY NotRefs, Zenon
<1>9. ASSUME NEW j \in {l, m}, ov[j].target # Everyone
      PROVE  \E k \in DOMAIN desired : /\ desired[k].key = ov[j].target
                                       /\ Target(ov[j]) = Ref(k)
                                       /\ T(ov[j]) = Resolve(snapshot, desired[k])
  <2>1. Declared(desired, "Role", ov[j].target) # {} BY <1>2, <1>3, <1>9, Zenon
  <2> QED BY <2>1, <1>9, TargetOfRole, Zenon
<1>10. ASSUME NEW j \in {l, m}, ov[j].target = Everyone
       PROVE  Target(ov[j]) = EveryoneRole /\ T(ov[j]) = EveryoneRole
  BY <1>10, Zenon DEF Target, TargetRef, OverwriteTarget
<1>11. CASE FirstNewId <= Target(ov[l])[2]
  <2>1. ov[l].target # Everyone /\ ov[m].target # Everyone BY <1>7, <1>10, <1>11
  <2>2. PICK k \in DOMAIN desired : desired[k].key = ov[l].target /\ Target(ov[l]) = Ref(k)
    BY <1>9, <2>1, Zenon
  <2>3. PICK j \in DOMAIN desired : desired[j].key = ov[m].target /\ Target(ov[m]) = Ref(j)
    BY <1>9, <2>1, Zenon
  <2>4. k # j BY <1>1, <2>2, <2>3, Zenon
  <2> QED BY <2>2, <2>3, <2>4, RefsDiffer, Zenon
<1>12. CASE ~(FirstNewId <= Target(ov[l])[2])
  <2>1. ASSUME NEW j \in {l, m} PROVE T(ov[j]) = Target(ov[j])
    <3>1. CASE ov[j].target = Everyone BY <1>10, <3>1, Zenon
    <3>2. CASE ov[j].target # Everyone
      <4>1. PICK k \in DOMAIN desired : /\ Target(ov[j]) = Ref(k)
                                        /\ T(ov[j]) = Resolve(snapshot, desired[k])
        BY <1>9, <3>2, Zenon
      <4>2. Ref(k) \in Refs /\ ~(FirstNewId <= Ref(k)[2]) BY <4>1, <1>12, Zenon
      <4>3. Ref(k) = Resolve(snapshot, desired[k]) BY <4>2, <1>8, RefType, Zenon
      <4> QED BY <4>1, <4>3, Zenon
    <3> QED BY <3>1, <3>2, Zenon
  <2> QED BY <2>1, <1>5, <1>8, Zenon
<1> QED BY <1>11, <1>12, Zenon

\* What a successful operation makes of the guild, op by op.
LEMMA OkEffect ==
  ASSUME JobInv, RunOp("Ok"), NEW k, k = NextPlace[1]
  PROVE  /\ k \in DOMAIN desired
         /\ NextCall.op \in {"Create", "Update", "Delete", "Upsert"}
         /\ NextCall.op # "Create" => NextCall.ref = Ref(k) /\ Ref(k) \in DOMAIN guild
         /\ NextCall.op # "Upsert" => NextPlace[2] = 0
         /\ NextCall.op # "Delete" => desired[k].state = "Present"
         /\ NextCall.op = "Delete" =>
              /\ desired[k].state = "Absent" /\ Ref(k) = Resolve(snapshot, desired[k])
              /\ Ref(k) \notin DOMAIN guild' /\ Ref(k) # EveryoneRole
         /\ NextCall.op = "Create" =>
              LET r == <<NextCall.kind, nextId>>
              IN /\ r \in DOMAIN guild' /\ r \notin DOMAIN guild /\ desired[k].name # NoKey
                 /\ guild'[r].name = desired[k].name
                 /\ desired[k].value # Unset => guild'[r].value = desired[k].value
         /\ NextCall.op = "Update" =>
              /\ Ref(k) \in DOMAIN guild'
              /\ guild'[Ref(k)].name = Given(desired[k].name, guild[Ref(k)].name, NoKey)
              /\ guild'[Ref(k)].value = Given(desired[k].value, guild[Ref(k)].value, Unset)
              /\ guild'[Ref(k)].overwrites = guild[Ref(k)].overwrites
         /\ NextCall.op = "Upsert" =>
              /\ NextPlace[2] # 0 /\ NextPlace[2] \in DOMAIN desired[k].overwrites
              /\ Ref(k) \in DOMAIN guild'
              /\ guild'[Ref(k)].name = guild[Ref(k)].name
              /\ guild'[Ref(k)].value = guild[Ref(k)].value
              /\ guild'[Ref(k)].overwrites =
                   With(guild[Ref(k)].overwrites, Target(desired[k].overwrites[NextPlace[2]]),
                        desired[k].overwrites[NextPlace[2]].value)
<1> DEFINE call == NextCall
           i == desired[k]
           o == i.overwrites[NextPlace[2]]
           p == NextPlace
<1>0. RequestInv /\ TypeInv /\ BoundInv BY Zenon DEF JobInv, Inv
<1>1. /\ CallAt(desired, snapshot, bound, p, NextNode, call)
      /\ IsCall(call) /\ Known(call)
      /\ guild' = Effect(guild, call, nextId)
      /\ p = <<p[1], p[2]>> /\ p \in Places(snapshot, desired)
  BY OkStep, Zenon
<1> HIDE DEF call, p
<1>2. k = p[1] BY Zenon DEF p
<1>3. /\ k \in DOMAIN desired
      /\ call.kind = i.kind /\ call.name = i.name
      /\ call.op \in {"Create", "Update", "Delete", "Upsert"}
      /\ p[2] = 0 => call.op = ResourceChange(snapshot, i) /\ call.op # "Upsert" /\ call.value = i.value
      /\ p[2] # 0 =>
           /\ p[2] \in DOMAIN i.overwrites
           /\ call.op = "Upsert" /\ call.value = i.overwrites[p[2]].value
           /\ call.target = TargetRef(desired, snapshot, bound, i.overwrites[p[2]].target)
      /\ call.op # "Create" => call.ref = KeyRef(desired, snapshot, bound, i.kind, i.key)
  <2> DEFINE j == desired[p[1]]
  <2>1. i = j BY <1>2, Zenon
  <2> HIDE DEF i
  <2> QED BY <1>1, <1>2, <2>1, Zenon DEF CallAt
<1>4. KeyRef(desired, snapshot, bound, i.kind, i.key) = Ref(k)
  <2>1. k \in DOMAIN desired BY <1>3, Zenon
  <2> QED BY <1>0, <2>1, RequestFacts, KeyRefOfIntent, Zenon DEF Ref
<1>5. call.op # "Create" => call.ref = Ref(k) /\ Ref(k) \in DOMAIN guild
  BY <1>1, <1>3, <1>4, Zenon DEF Known
<1>6. \A r \in DOMAIN guild : IsResource(guild[r]) /\ r[2] < nextId
  BY <1>0, Zenon DEF TypeInv, IsGuild
<1>7. nextId \in Nat BY <1>0, Zenon DEF TypeInv
<1>8. p[2] = 0 => /\ call.op = "Create" => i.state = "Present" /\ i.match = ByName
                  /\ call.op = "Update" => i.state = "Present"
                  /\ call.op = "Delete" => i.state = "Absent" /\ Resolve(snapshot, i) \in DOMAIN snapshot
  BY <1>0, <1>3, RequestFacts, ResourceChangeFacts
<1>9. p[2] # 0 => i.state = "Present"
  BY <1>0, <1>1, <1>2, RequestFacts, OverwriteChangeFacts
<1>10. CASE call.op = "Create"
  <2>1. guild' = With(guild, <<call.kind, nextId>>, NewResource(guild, call))
    BY <1>1, <1>10, EffectCases, Zenon
  <2> DEFINE r == <<call.kind, nextId>>
  <2>2. r \in DOMAIN guild' /\ guild'[r] = NewResource(guild, call) BY <2>1, WithFacts
  <2>3. r \notin DOMAIN guild BY <1>6, <1>7
  <2>4. p[2] = 0 BY <1>3, <1>10, Zenon
  <2>5. i.name # NoKey BY <1>0, <1>3, <1>8, <1>10, <2>4, RequestFacts, Zenon DEF Validate
  <2>6. /\ NewResource(guild, call).name = i.name
        /\ i.value # Unset => NewResource(guild, call).value = i.value
    <3>1. PICK v : NewResource(guild, call).value = Given(call.value, v, Unset)
      BY NewFields, Zenon
    <3>2. NewResource(guild, call).name = call.name BY NewFields, Zenon
    <3>3. call.name = i.name /\ call.value = i.value BY <1>3, <2>4, Zenon
    <3> QED BY <3>1, <3>2, <3>3, Zenon DEF Given
  <2> QED BY <1>3, <1>8, <1>10, <2>2, <2>3, <2>4, <2>5, <2>6, Zenon DEF call, p
<1>11. CASE call.op = "Update"
  <2>0. p[2] = 0 BY <1>3, <1>11, Zenon
  <2>1. guild' = With(guild, call.ref, Updated(guild[call.ref], call))
    BY <1>1, <1>5, <1>11, EffectCases, Zenon
  <2>2. call.ref \in DOMAIN guild' /\ guild'[call.ref] = Updated(guild[call.ref], call)
    BY <2>1, WithFacts
  <2>3. IsResource(guild[call.ref]) BY <1>5, <1>6, <1>11, Zenon
  <2>4. /\ Updated(guild[call.ref], call).name = Given(call.name, guild[call.ref].name, NoKey)
        /\ Updated(guild[call.ref], call).value = Given(call.value, guild[call.ref].value, Unset)
        /\ Updated(guild[call.ref], call).overwrites = guild[call.ref].overwrites
    BY <2>3, UpdatedFields, Zenon
  <2> QED BY <1>3, <1>5, <1>8, <1>11, <2>0, <2>2, <2>4, Zenon DEF call, p
<1>12. CASE call.op = "Upsert"
  <2>0. p[2] # 0 BY <1>3, <1>12, Zenon
  <2>1. guild' = With(guild, call.ref, Overwritten(guild[call.ref], call))
    BY <1>1, <1>5, <1>12, EffectCases, Zenon
  <2>2. call.ref \in DOMAIN guild' /\ guild'[call.ref] = Overwritten(guild[call.ref], call)
    BY <2>1, WithFacts
  <2>3. IsResource(guild[call.ref]) BY <1>5, <1>6, <1>12, Zenon
  <2>4. /\ Overwritten(guild[call.ref], call).name = guild[call.ref].name
        /\ Overwritten(guild[call.ref], call).value = guild[call.ref].value
        /\ Overwritten(guild[call.ref], call).overwrites =
             With(guild[call.ref].overwrites, call.target, call.value)
    BY <2>3, OverwrittenFields, Zenon
  <2>5. call.target = Target(o) /\ call.value = o.value BY <1>3, <2>0, Zenon DEF Target, p
  <2> QED BY <1>3, <1>5, <1>9, <1>12, <2>0, <2>2, <2>4, <2>5, Zenon DEF call, p
<1>13. CASE call.op = "Delete"
  <2>0. p[2] = 0 BY <1>3, <1>13, Zenon
  <2>1. guild' = Gone(guild, call.ref) BY <1>1, <1>5, <1>13, EffectCases, Zenon
  <2>2. call.ref \notin DOMAIN guild' /\ call.ref # EveryoneRole
    BY <1>1, <1>13, <2>1, GoneFacts, Zenon DEF Known
  <2>3. <<i.kind, i.key>> \notin DOMAIN bound BY <1>3, <1>13, <2>0, BoundIsCreated, Zenon
  <2>4. Ref(k) = Resolve(snapshot, i) BY <2>3, Zenon DEF Ref, IntentRef
  <2> QED BY <1>3, <1>5, <1>8, <1>13, <2>0, <2>2, <2>4, Zenon DEF call, p
<1> QED BY <1>3, <1>10, <1>11, <1>12, <1>13, Zenon

\* What it leaves alone.
LEMMA OkFrame ==
  ASSUME JobInv, RunOp("Ok"), NEW k, k = NextPlace[1]
  PROVE  /\ \A r \in DOMAIN guild : NextCall.op = "Create" \/ r # Ref(k) =>
              /\ r \in DOMAIN guild'
              /\ guild'[r].name = guild[r].name /\ guild'[r].value = guild[r].value
              /\ NextCall.op # "Delete" => guild'[r].overwrites = guild[r].overwrites
              /\ NextCall.op = "Delete" =>
                   guild'[r].overwrites = Without(guild[r].overwrites, Ref(k))
         /\ \A r \in DOMAIN guild' :
              r \in DOMAIN guild \/ (NextCall.op = "Create" /\ r = <<NextCall.kind, nextId>>)
<1>0. TypeInv BY Zenon DEF JobInv, Inv
<1>1. IsCall(NextCall) /\ guild' = Effect(guild, NextCall, nextId) BY OkStep, Zenon
<1>2. NextCall.op # "Create" => NextCall.ref = Ref(k) /\ Ref(k) \in DOMAIN guild
  BY OkEffect, Zenon
<1>3. ASSUME NEW r \in DOMAIN guild, NextCall.op = "Create" \/ r # Ref(k)
      PROVE  /\ r \in DOMAIN guild'
             /\ guild'[r].name = guild[r].name /\ guild'[r].value = guild[r].value
             /\ NextCall.op # "Delete" => guild'[r].overwrites = guild[r].overwrites
             /\ NextCall.op = "Delete" =>
                  guild'[r].overwrites = Without(guild[r].overwrites, Ref(k))
  <2>1. NextCall.op = "Create" => r # <<NextCall.kind, nextId>>
    BY <1>0 DEF TypeInv
  <2>2. NextCall.op \in {"Create", "Update", "Delete", "Upsert"} BY <1>1, Zenon DEF IsCall
  <2>3. /\ r \in DOMAIN guild'
        /\ IF NextCall.op = "Delete" /\ NextCall.ref \in DOMAIN guild
           THEN guild'[r] = Detached(guild[r], {NextCall.ref})
           ELSE guild'[r] = guild[r]
    BY <1>1, <1>2, <1>3, <2>1, <2>2, EffectFrame
  <2>4. CASE NextCall.op # "Delete" BY <2>3, <2>4, Zenon
  <2>5. CASE NextCall.op = "Delete"
    <3>1. NextCall.op # "Create" BY <2>5
    <3>2. guild'[r] = Detached(guild[r], {Ref(k)}) BY <1>2, <2>3, <2>5, <3>1, Zenon
    <3>3. IsResource(guild[r]) BY <1>0, <1>3, Zenon DEF TypeInv, IsGuild
    <3>4. PICK c, q : c = guild[r] /\ q = Ref(k) BY Zenon
    <3>5. /\ Detached(c, {q}).name = c.name /\ Detached(c, {q}).value = c.value
          /\ Detached(c, {q}).overwrites = Without(c.overwrites, q)
      BY <3>3, <3>4, DetachedFields, Zenon
    <3> QED BY <2>3, <2>5, <3>2, <3>4, <3>5, Zenon
  <2> QED BY <2>4, <2>5, Zenon
<1>4. \A r \in DOMAIN guild' :
        r \in DOMAIN guild \/ (NextCall.op = "Create" /\ r = <<NextCall.kind, nextId>>)
  BY <1>1, EffectDomain, Zenon
<1> QED BY <1>3, <1>4, Zenon

LEMMA GuildFacts ==
  ASSUME JobInv
  PROVE  /\ \A r \in DOMAIN guild : r \in Refs /\ r # Missing /\ r # Conflict
         /\ \A r \in DOMAIN guild : \A t \in DOMAIN guild[r].overwrites :
              t \in Refs /\ t # Missing /\ t # Conflict
<1>1. IsGuild(guild) BY Zenon DEF JobInv, Inv, TypeInv
<1>2. Missing \notin Refs /\ Conflict \notin Refs BY NotRefs, Zenon
<1>3. \A r \in DOMAIN guild : DOMAIN guild[r].overwrites \subseteq Refs
  BY <1>1, ResourceFields, Zenon DEF IsGuild
<1> QED BY <1>1, <1>2, <1>3, Zenon DEF IsGuild

\* What is settled of an intent stays settled.
LEMMA SettledIntentStep ==
  ASSUME JobInv, RunOp("Ok"), WellPosed, Settled, NEW CONSTANT n, n \in DOMAIN desired,
         <<n, 0>> \in Done' \/ ResourceChange(snapshot, desired[n]) = "NoOp"
  PROVE  SettledIntent(n)'
<1>1. PICK k : k = NextPlace[1] BY Zenon
<1>2. desired' = desired /\ snapshot' = snapshot BY Zenon DEF RunOp, request
<1>3. /\ NextPlace = <<NextPlace[1], NextPlace[2]>>
      /\ \A p : p \in Done' <=> p \in Done \/ p = NextPlace
      /\ NextPlace \notin Done
  BY OkStep, Zenon
<1>4. /\ \A r \in DOMAIN guild : NextCall.op = "Create" \/ r # Ref(k) =>
           /\ r \in DOMAIN guild'
           /\ guild'[r].name = guild[r].name /\ guild'[r].value = guild[r].value
      /\ \A r \in DOMAIN guild' :
           r \in DOMAIN guild \/ (NextCall.op = "Create" /\ r = <<NextCall.kind, nextId>>)
  BY <1>1, OkFrame, Zenon
<1>5. /\ NextCall.op = "Create" => Ref(k) = Missing /\ Ref(k)' = <<NextCall.kind, nextId>>
      /\ \A m \in DOMAIN desired : Ref(m) # Missing => Ref(m)' = Ref(m)
  BY <1>1, KeyRefStep, Zenon
<1>6. \A r \in DOMAIN guild : r \in Refs /\ r # Missing BY GuildFacts, Zenon
<1>7. k \in DOMAIN desired /\ NextCall.op \in {"Create", "Update", "Delete", "Upsert"}
  BY <1>1, OkEffect, Zenon
<1>8. NextCall.op # "Create" => Ref(k) \in DOMAIN guild /\ Ref(k)' = Ref(k)
  BY <1>1, <1>5, <1>6, <1>7, OkEffect, Zenon
<1> DEFINE i == desired[n]
           good(c) == i.owner = "Referenced" \/ ~Changed(i, c)
<1>9. SettledIntent(n)' <=> IF i.state = "Absent" THEN Resolve(snapshot, i) \notin DOMAIN guild'
                            ELSE Ref(n)' \in DOMAIN guild' /\ good(guild'[Ref(n)'])
  BY <1>2, Zenon DEF SettledIntent
<1>10. CASE <<n, 0>> \in Done \/ ResourceChange(snapshot, i) = "NoOp"
  <2>1. SettledIntent(n) BY <1>10, Zenon DEF Settled
  <2>2. CASE i.state = "Absent"
    <3>1. Resolve(snapshot, i) \notin DOMAIN guild BY <2>1, <2>2, Zenon DEF SettledIntent
    <3>2. Resolve(snapshot, i) # <<NextCall.kind, nextId>>
      <4>0. RequestInv /\ TypeInv BY Zenon DEF JobInv, Inv
      <4>1. Resolve(snapshot, i) \in DOMAIN snapshot \cup {Missing, Conflict}
        BY <4>0, RequestFacts, ResolveType, Zenon
      <4>2. \A r \in DOMAIN snapshot : r[2] < FirstNewId /\ r[2] \in Nat
        BY <4>0, RequestFacts, Zenon DEF Refs
      <4>3. <<NextCall.kind, nextId>> \in Refs
        BY <4>0, OkStep, Zenon DEF IsCall, TypeInv, Refs
      <4>4. FirstNewId <= nextId /\ FirstNewId \in Nat /\ nextId \in Nat
        BY <4>0, RequestFacts, Zenon DEF TypeInv
      <4> QED BY <4>1, <4>2, <4>3, <4>4, NotRefs
    <3>3. Resolve(snapshot, i) \notin DOMAIN guild' BY <3>1, <3>2, <1>4, Zenon
    <3> QED BY <1>9, <2>2, <3>3, Zenon
  <2>3. CASE i.state # "Absent"
    <3>1. Ref(n) \in DOMAIN guild /\ good(guild[Ref(n)]) BY <2>1, <2>3, Zenon DEF SettledIntent
    <3>2. Ref(n)' = Ref(n) BY <1>5, <1>6, <3>1, Zenon
    <3>3. CASE NextCall.op = "Create" \/ Ref(n) # Ref(k)
      <4>1. /\ Ref(n) \in DOMAIN guild' /\ guild'[Ref(n)].name = guild[Ref(n)].name
            /\ guild'[Ref(n)].value = guild[Ref(n)].value
        BY <1>4, <3>1, <3>3, Zenon
      <4>2. good(guild'[Ref(n)]) BY <3>1, <4>1, Zenon DEF Changed
      <4> QED BY <1>9, <2>3, <3>2, <4>1, <4>2, Zenon
    <3>4. CASE NextCall.op # "Create" /\ Ref(n) = Ref(k)
      <4>1. n = k BY <3>1, <3>4, <1>6, <1>7, RefsDiffer, Zenon
      <4>2. CASE NextCall.op = "Upsert"
        <5>1. /\ Ref(n) \in DOMAIN guild' /\ guild'[Ref(n)].name = guild[Ref(n)].name
              /\ guild'[Ref(n)].value = guild[Ref(n)].value
          BY <1>1, <4>1, <4>2, OkEffect, Zenon
        <5>2. good(guild'[Ref(n)]) BY <3>1, <5>1, Zenon DEF Changed
        <5> QED BY <1>9, <2>3, <3>2, <5>1, <5>2, Zenon
      <4>3. CASE NextCall.op = "Update"
        <5>1. /\ Ref(n) \in DOMAIN guild'
              /\ guild'[Ref(n)].name = Given(i.name, guild[Ref(n)].name, NoKey)
              /\ guild'[Ref(n)].value = Given(i.value, guild[Ref(n)].value, Unset)
          BY <1>1, <4>1, <4>3, OkEffect, Zenon
        <5>2. good(guild'[Ref(n)]) BY <5>1, Zenon DEF Changed, Given
        <5> QED BY <1>9, <2>3, <3>2, <5>1, <5>2, Zenon
      <4>4. CASE NextCall.op = "Delete" BY <1>1, <2>3, <4>1, <4>4, OkEffect, Zenon
      <4> QED BY <1>7, <3>4, <4>2, <4>3, <4>4, Zenon
    <3> QED BY <3>3, <3>4, Zenon
  <2> QED BY <2>2, <2>3, Zenon
<1>11. CASE ~(<<n, 0>> \in Done \/ ResourceChange(snapshot, i) = "NoOp")
  <2>1. <<n, 0>> = NextPlace BY <1>3, <1>11, Zenon
  <2>2. n = k /\ NextPlace[2] = 0 BY <1>1, <2>1, Zenon
  <2>3. NextCall.op # "Upsert" BY <1>1, <2>2, OkEffect, Zenon
  <2>4. CASE NextCall.op = "Create"
    <3> DEFINE r == <<NextCall.kind, nextId>>
    <3>1. /\ i.state = "Present" /\ r \in DOMAIN guild' /\ guild'[r].name = i.name
          /\ i.value # Unset => guild'[r].value = i.value
      BY <1>1, <2>2, <2>4, OkEffect, Zenon
    <3>2. Ref(n)' = r BY <1>5, <2>2, <2>4, Zenon
    <3> HIDE DEF r
    <3>3. good(guild'[r]) BY <3>1, Zenon DEF Changed
    <3>4. i.state # "Absent" BY <3>1, Zenon
    <3> QED BY <1>9, <3>1, <3>2, <3>3, <3>4, Zenon
  <2>5. CASE NextCall.op = "Update"
    <3>1. /\ i.state = "Present" /\ Ref(n) \in DOMAIN guild'
          /\ guild'[Ref(n)].name = Given(i.name, guild[Ref(n)].name, NoKey)
          /\ guild'[Ref(n)].value = Given(i.value, guild[Ref(n)].value, Unset)
      BY <1>1, <2>2, <2>5, OkEffect, Zenon
    <3>2. Ref(n)' = Ref(n) BY <1>8, <2>2, <2>5, Zenon
    <3>3. good(guild'[Ref(n)]) BY <3>1, Zenon DEF Changed, Given
    <3>4. i.state # "Absent" BY <3>1, Zenon
    <3> QED BY <1>9, <3>1, <3>2, <3>3, <3>4, Zenon
  <2>6. CASE NextCall.op = "Delete"
    <3>1. i.state = "Absent" /\ Resolve(snapshot, i) \notin DOMAIN guild'
      BY <1>1, <2>2, <2>6, OkEffect, Zenon
    <3> QED BY <1>9, <3>1, Zenon
  <2> QED BY <1>7, <2>3, <2>4, <2>5, <2>6, Zenon
<1> QED BY <1>10, <1>11, Zenon

\* And so does what is settled of an overwrite.
LEMMA SettledOverwriteStep ==
  ASSUME JobInv, RunOp("Ok"), WellPosed, Settled, NEW CONSTANT n, NEW CONSTANT m,
         <<n, m>> \in Places(snapshot, desired), m # 0,
         <<n, m>> \in Done' \/ NodeAt(snapshot, desired, <<n, m>>).op = "NoOp"
  PROVE  SettledOverwrite(n, desired[n].overwrites[m])'
<1>0. RequestInv BY Zenon DEF JobInv, Inv
<1>1. PICK k : k = NextPlace[1] BY Zenon
<1>2. desired' = desired /\ snapshot' = snapshot BY Zenon DEF RunOp, request
<1>3. /\ NextPlace = <<NextPlace[1], NextPlace[2]>>
      /\ \A p : p \in Done' <=> p \in Done \/ p = NextPlace
      /\ NextPlace \notin Done
  BY OkStep, Zenon
<1>4. \A r \in DOMAIN guild : NextCall.op = "Create" \/ r # Ref(k) =>
        /\ r \in DOMAIN guild'
        /\ NextCall.op # "Delete" => guild'[r].overwrites = guild[r].overwrites
        /\ NextCall.op = "Delete" => guild'[r].overwrites = Without(guild[r].overwrites, Ref(k))
  BY <1>1, OkFrame, Zenon
<1>5. /\ NextCall.op # "Create" => bound' = bound
      /\ \A kind, key : KeyRef(desired, snapshot, bound, kind, key) # Missing =>
           KeyRef(desired, snapshot, bound, kind, key)' = KeyRef(desired, snapshot, bound, kind, key)
      /\ \A j \in DOMAIN desired : Ref(j) # Missing => Ref(j)' = Ref(j)
  BY <1>1, KeyRefStep, Zenon
<1>6. k \in DOMAIN desired /\ NextCall.op \in {"Create", "Update", "Delete", "Upsert"}
      /\ (NextCall.op # "Create" => Ref(k) \in DOMAIN guild)
  BY <1>1, OkEffect, Zenon
<1>7. /\ n \in DOMAIN desired /\ m \in DOMAIN desired[n].overwrites
      /\ desired[n].state = "Present"
  BY <1>0, RequestFacts, OverwriteChangeFacts
<1>ov. PICK o : o = desired[n].overwrites[m] BY Zenon
<1> SUFFICES SettledOverwrite(n, o)' BY <1>2, <1>ov, Zenon
<1>8. /\ \A r \in DOMAIN guild : r \in Refs /\ r # Missing
      /\ \A r \in DOMAIN guild : \A t \in DOMAIN guild[r].overwrites : t \in Refs /\ t # Missing
  BY GuildFacts, Zenon
<1>9. Target(o) # Missing => Target(o)' = Target(o)
  <2>1. CASE o.target = Everyone BY <1>2, <2>1, Zenon DEF Target, TargetRef, EveryoneRole
  <2>2. CASE o.target # Everyone
    <3>1. PICK key : key = o.target BY Zenon
    <3>2. /\ Target(o) = KeyRef(desired, snapshot, bound, "Role", key)
          /\ Target(o)' = KeyRef(desired, snapshot, bound, "Role", key)'
      BY <1>2, <2>2, <3>1, Zenon DEF Target, TargetRef
    <3> QED BY <1>5, <3>2, Zenon
  <2> QED BY <2>1, <2>2, Zenon
<1>10. SettledOverwrite(n, o)' <=> /\ Ref(n)' \in DOMAIN guild'
                                   /\ Target(o)' \in DOMAIN guild'[Ref(n)'].overwrites
                                   /\ guild'[Ref(n)'].overwrites[Target(o)'] = o.value
  BY <1>2, Zenon DEF SettledOverwrite
<1>11. CASE <<n, m>> \in Done \/ NodeAt(snapshot, desired, <<n, m>>).op = "NoOp"
  <2>1. SettledOverwrite(n, o) BY <1>11, <1>ov, Zenon DEF Settled
  <2>2. /\ Ref(n) \in DOMAIN guild /\ Target(o) \in DOMAIN guild[Ref(n)].overwrites
        /\ guild[Ref(n)].overwrites[Target(o)] = o.value
    BY <2>1, Zenon DEF SettledOverwrite
  <2>3. Ref(n)' = Ref(n) BY <1>5, <1>7, <1>8, <2>2, Zenon
  <2>4. Target(o)' = Target(o) BY <1>8, <1>9, <2>2, Zenon
  <2>5. CASE NextCall.op = "Create" \/ Ref(n) # Ref(k)
    <3>1. CASE NextCall.op # "Delete"
      <4>1. Ref(n) \in DOMAIN guild' /\ guild'[Ref(n)].overwrites = guild[Ref(n)].overwrites
        BY <1>4, <2>2, <2>5, <3>1, Zenon
      <4> QED BY <1>10, <2>2, <2>3, <2>4, <4>1, Zenon
    <3>2. CASE NextCall.op = "Delete"
      <4>1. /\ Ref(n) \in DOMAIN guild'
            /\ guild'[Ref(n)].overwrites = Without(guild[Ref(n)].overwrites, Ref(k))
        BY <1>4, <2>2, <2>5, <3>2, Zenon
      <4>2. desired[k].state = "Absent" /\ Ref(k) # EveryoneRole BY <1>1, <3>2, OkEffect, Zenon
      <4>3. Target(o) # Ref(k)
        <5>1. CASE o.target = Everyone BY <4>2, <5>1, Zenon DEF Target, TargetRef
        <5>2. CASE o.target # Everyone
          <6>1. o \in Range(desired[n].overwrites) BY <1>7, <1>ov, Zenon DEF Range
          <6>2. PICK j \in Declared(desired, "Role", o.target) : desired[j].state = "Present"
            BY <1>7, <5>2, <6>1, Zenon DEF WellPosed, WellReferenced
          <6>3. j \in DOMAIN desired /\ desired[j].kind = "Role" /\ desired[j].key = o.target
            BY Zenon DEF Declared
          <6>4. Target(o) = KeyRef(desired, snapshot, bound, desired[j].kind, desired[j].key)
            BY <5>2, <6>3, Zenon DEF Target, TargetRef
          <6>5. KeyRef(desired, snapshot, bound, desired[j].kind, desired[j].key) = Ref(j)
            BY <1>0, <6>3, RequestFacts, KeyRefOfIntent, Zenon DEF Ref
          <6>6. j # k BY <4>2, <6>2
          <6>7. Ref(j) \in Refs BY <1>8, <2>2, <6>4, <6>5, Zenon
          <6> QED BY <1>6, <6>3, <6>4, <6>5, <6>6, <6>7, RefsDiffer, Zenon
        <5> QED BY <5>1, <5>2, Zenon
      <4>4. PICK e, f, q : e = guild'[Ref(n)].overwrites /\ f = guild[Ref(n)].overwrites /\ q = Ref(k)
        BY Zenon
      <4>5. e = Without(f, q) BY <4>1, <4>4, Zenon
      <4>6. \A y \in DOMAIN f : y # q => y \in DOMAIN e /\ e[y] = f[y]
        BY <4>5, WithoutFacts, Zenon
      <4>7. /\ Target(o) \in DOMAIN guild'[Ref(n)].overwrites
            /\ guild'[Ref(n)].overwrites[Target(o)] = o.value
        BY <2>2, <4>3, <4>4, <4>6, Zenon
      <4> QED BY <1>10, <2>3, <2>4, <4>1, <4>7, Zenon
    <3> QED BY <3>1, <3>2, Zenon
  <2>6. CASE NextCall.op # "Create" /\ Ref(n) = Ref(k)
    <3>1. n = k BY <2>2, <2>6, <1>6, <1>7, <1>8, RefsDiffer, Zenon
    <3>2. CASE NextCall.op = "Update"
      <4>1. Ref(n) \in DOMAIN guild' /\ guild'[Ref(n)].overwrites = guild[Ref(n)].overwrites
        BY <1>1, <3>1, <3>2, OkEffect, Zenon
      <4> QED BY <1>10, <2>2, <2>3, <2>4, <4>1, Zenon
    <3>3. CASE NextCall.op = "Delete" BY <1>1, <1>7, <3>1, <3>3, OkEffect, Zenon
    <3>4. CASE NextCall.op = "Upsert"
      <4> DEFINE l == NextPlace[2]
                 q == desired[n].overwrites[l]
      <4>1. /\ l \in DOMAIN desired[n].overwrites /\ Ref(n) \in DOMAIN guild'
            /\ guild'[Ref(n)].overwrites = With(guild[Ref(n)].overwrites, Target(q), q.value)
        BY <1>1, <3>1, <3>4, OkEffect, Zenon
      <4>2. l # m
        <5>1. CASE <<n, m>> \in Done BY <1>1, <1>3, <3>1, <5>1, Zenon
        <5>2. CASE NodeAt(snapshot, desired, <<n, m>>).op = "NoOp"
          <6>1. NodeAt(snapshot, desired, NextPlace).op # "NoOp"
            BY NextPlaceFacts, Zenon DEF JobInv, Inv, RunOp
          <6> QED BY <1>1, <1>3, <3>1, <5>2, <6>1, Zenon
        <5> QED BY <1>11, <5>1, <5>2, Zenon
      <4> HIDE DEF l
      <4>3. Target(o) # Target(q)
        <5>1. Target(o) \in Refs BY <1>8, <2>2, Zenon
        <5> QED BY <5>1, <4>1, <4>2, <1>7, <1>ov, TargetsDiffer, Zenon
      <4> HIDE DEF q
      <4>4. /\ Target(o) \in DOMAIN guild'[Ref(n)].overwrites
            /\ guild'[Ref(n)].overwrites[Target(o)] = guild[Ref(n)].overwrites[Target(o)]
        BY <2>2, <4>1, <4>3, WithFacts
      <4> QED BY <1>10, <2>2, <2>3, <2>4, <4>1, <4>4, Zenon
    <3> QED BY <1>6, <2>6, <3>2, <3>3, <3>4, Zenon
  <2> QED BY <2>5, <2>6, Zenon
<1>12. CASE ~(<<n, m>> \in Done \/ NodeAt(snapshot, desired, <<n, m>>).op = "NoOp")
  <2>1. <<n, m>> = NextPlace BY <1>3, <1>12, Zenon
  <2>2. n = k /\ NextPlace[2] = m BY <1>1, <2>1, Zenon
  <2>3. NextCall.op = "Upsert" BY <1>1, <2>2, OkEffect, Zenon
  <2>4. /\ Ref(n) \in DOMAIN guild'
        /\ guild'[Ref(n)].overwrites = With(guild[Ref(n)].overwrites, Target(o), o.value)
    BY <1>1, <1>ov, <2>2, <2>3, OkEffect, Zenon
  <2>5. Ref(n)' = Ref(n) BY <1>5, <1>6, <1>8, <2>2, <2>3, Zenon
  <2>6. Target(o)' = Target(o)
    <3>1. bound' = bound BY <1>5, <2>3, Zenon
    <3> QED BY <1>2, <3>1, Zenon DEF Target
  <2>7. /\ Target(o) \in DOMAIN guild'[Ref(n)].overwrites
        /\ guild'[Ref(n)].overwrites[Target(o)] = o.value
    BY <2>4, WithFacts
  <2> QED BY <1>10, <2>4, <2>5, <2>6, <2>7, Zenon
<1> QED BY <1>11, <1>12, Zenon

LEMMA NameKnownStep ==
  ASSUME JobInv, RunOp("Ok"), Settled, NEW CONSTANT r, r \in DOMAIN guild'
  PROVE  NameKnown(r)'
<1>1. PICK k : k = NextPlace[1] BY Zenon
<1>2. desired' = desired /\ snapshot' = snapshot BY Zenon DEF RunOp, request
<1>3. /\ \A q \in DOMAIN guild : NextCall.op = "Create" \/ q # Ref(k) =>
           q \in DOMAIN guild' /\ guild'[q].name = guild[q].name
      /\ \A q \in DOMAIN guild' :
           q \in DOMAIN guild \/ (NextCall.op = "Create" /\ q = <<NextCall.kind, nextId>>)
  BY <1>1, OkFrame, Zenon
<1>4. /\ NextCall.op = "Create" => Ref(k) = Missing /\ Ref(k)' = <<NextCall.kind, nextId>>
      /\ \A j \in DOMAIN desired : Ref(j) # Missing => Ref(j)' = Ref(j)
  BY <1>1, KeyRefStep, Zenon
<1>5. \A q \in DOMAIN guild : q # Missing BY GuildFacts, Zenon
<1>6. k \in DOMAIN desired /\ NextCall.op \in {"Create", "Update", "Delete", "Upsert"}
  BY <1>1, OkEffect, Zenon
<1>7. NameKnown(r)' <=>
        \/ r \in DOMAIN snapshot /\ guild'[r].name = snapshot[r].name
        \/ \E n \in DOMAIN desired :
             /\ r = Ref(n)' /\ desired[n].state = "Present"
             /\ desired[n].name # NoKey /\ guild'[r].name = desired[n].name
  BY <1>2, Zenon DEF NameKnown
<1>8. CASE r \notin DOMAIN guild
  <2>1. NextCall.op = "Create" /\ r = <<NextCall.kind, nextId>> BY <1>3, <1>8, Zenon
  <2>2. /\ desired[k].state = "Present" /\ desired[k].name # NoKey
        /\ guild'[r].name = desired[k].name
    BY <1>1, <2>1, OkEffect, Zenon
  <2>3. r = Ref(k)' BY <1>4, <2>1, Zenon
  <2> QED BY <1>6, <1>7, <2>2, <2>3, Zenon
<1>9. CASE r \in DOMAIN guild /\ guild'[r].name = guild[r].name
  <2>1. NameKnown(r) BY <1>9, Zenon DEF Settled
  <2>2. CASE r \in DOMAIN snapshot /\ guild[r].name = snapshot[r].name
    BY <1>7, <1>9, <2>2, Zenon
  <2>3. ASSUME NEW n \in DOMAIN desired, r = Ref(n), desired[n].state = "Present",
               desired[n].name # NoKey, guild[r].name = desired[n].name
        PROVE  NameKnown(r)'
    <3>1. Ref(n)' = r BY <1>4, <1>5, <1>9, <2>3, Zenon
    <3> QED BY <1>7, <1>9, <2>3, <3>1, Zenon
  <2> QED BY <2>1, <2>2, <2>3, Zenon DEF NameKnown
<1>10. CASE r \in DOMAIN guild /\ guild'[r].name # guild[r].name
  <2>1. NextCall.op # "Create" /\ r = Ref(k) BY <1>3, <1>10, Zenon
  <2>2. NextCall.op = "Update"
    BY <1>1, <1>6, <1>10, <2>1, OkEffect, Zenon
  <2>3. /\ desired[k].state = "Present"
        /\ guild'[r].name = Given(desired[k].name, guild[r].name, NoKey)
    BY <1>1, <2>1, <2>2, OkEffect, Zenon
  <2>4. desired[k].name # NoKey /\ guild'[r].name = desired[k].name
    BY <1>10, <2>3, Zenon DEF Given
  <2>5. Ref(k)' = r BY <1>4, <1>5, <1>6, <1>10, <2>1, Zenon
  <2> QED BY <1>6, <1>7, <2>3, <2>4, <2>5, Zenon
<1> QED BY <1>8, <1>9, <1>10, Zenon

\* Before the first operation, what needs no change is settled.
LEMMA SettledAtFirst ==
  ASSUME RequestInv, guild = snapshot, bound = << >>, steps = << >>
  PROVE  Settled
<1>1. Done = {} BY DEF Done
<1>2. \A n : Ref(n) = Resolve(snapshot, desired[n]) BY DEF Ref, IntentRef
<1>3. ASSUME NEW n \in DOMAIN desired, ResourceChange(snapshot, desired[n]) = "NoOp"
      PROVE  SettledIntent(n)
  <2> DEFINE i == desired[n]
             r == Resolve(snapshot, i)
  <2>1. \/ /\ i.state = "Present" /\ r \in DOMAIN snapshot
           /\ i.owner = "Referenced" \/ ~Changed(i, snapshot[r])
        \/ i.state = "Absent" /\ r = Missing
    BY <1>3, RequestFacts, ResourceChangeFacts, Zenon
  <2>2. Missing \notin DOMAIN snapshot BY RequestFacts, NotRefs, Zenon
  <2>3. Ref(n) = r BY <1>2, Zenon
  <2> HIDE DEF r
  <2> QED BY <2>1, <2>2, <2>3, Zenon DEF SettledIntent, r
<1>4. ASSUME NEW n, NEW m, <<n, m>> \in Places(snapshot, desired), m # 0,
             NodeAt(snapshot, desired, <<n, m>>).op = "NoOp"
      PROVE  SettledOverwrite(n, desired[n].overwrites[m])
  <2> DEFINE i == desired[n]
             o == i.overwrites[m]
             r == Resolve(snapshot, i)
             t == OverwriteTarget(snapshot, desired, o.target)
  <2>0. OverwriteChange(snapshot, desired, i, o) = "NoOp" BY <1>4, Zenon DEF NodeAt, ChangeAt
  <2>1. /\ n \in DOMAIN desired /\ m \in DOMAIN i.overwrites
        /\ (r = Missing /\ ResourceChange(snapshot, i) = "Create") \/ r \in DOMAIN snapshot
        /\ ResourceChange(snapshot, i) # "Create" /\ t # Conflict
        /\ t \in DOMAIN snapshot[r].overwrites
        /\ snapshot[r].overwrites[t] = o.value
    BY <1>4, <2>0, RequestFacts, OverwriteChangeFacts
  <2>2. Ref(n) = r BY <1>2, Zenon
  <2>3. Target(o) = t
    <3>1. CASE o.target = Everyone BY <3>1, Zenon DEF Target, TargetRef, OverwriteTarget
    <3>2. CASE o.target # Everyone
      <4>1. Declared(desired, "Role", o.target) # {} BY <2>1, <3>2, Zenon DEF OverwriteTarget
      <4>2. t = Resolve(snapshot, IntentOf(desired, "Role", o.target))
        BY <3>2, <4>1, Zenon DEF OverwriteTarget
      <4>3. Target(o) = KeyRef(desired, snapshot, bound, "Role", o.target)
        BY <3>2, Zenon DEF Target, TargetRef
      <4>4. <<"Role", o.target>> \notin DOMAIN bound OBVIOUS
      <4> QED BY <4>1, <4>2, <4>3, <4>4, Zenon DEF KeyRef
    <3> QED BY <3>1, <3>2, Zenon
  <2> HIDE DEF r, t, o, i
  <2>4. r \in DOMAIN snapshot BY <2>1, Zenon
  <2>5. SettledOverwrite(n, o) BY <2>1, <2>2, <2>3, <2>4, Zenon DEF SettledOverwrite
  <2> QED BY <2>5, Zenon DEF o, i
<1>5. \A r \in DOMAIN guild : NameKnown(r) BY Zenon DEF NameKnown
<1> QED BY <1>1, <1>3, <1>4, <1>5, Zenon DEF Settled

LEMMA SettledInvariance == Spec => [](JobInv /\ SettledInv)
<1>1. Init => SettledInv
  BY InvInit, SettledAtFirst, Zenon DEF Init, Inv, SettledInv
<1>2. JobInv /\ SettledInv /\ [Next]_vars => SettledInv'
  <2> SUFFICES ASSUME JobInv, SettledInv, [Next]_vars, CleanRun', WellPosed'
               PROVE  Settled'
    BY Zenon DEF SettledInv
  <2>1. /\ CleanRun /\ UNCHANGED request
        /\ RunOp("Ok") \/ UNCHANGED <<guild, bound, steps, nextId>>
    BY CleanStep, Zenon DEF JobInv
  <2>2. desired' = desired /\ snapshot' = snapshot BY <2>1, Zenon DEF request
  <2>3. WellPosed BY <2>2, Zenon DEF WellPosed, WellReferenced
  <2>4. Settled BY <2>1, <2>3, Zenon DEF SettledInv
  <2>5. CASE UNCHANGED <<guild, bound, steps, nextId>>
    <3>1. Done' = Done BY <2>2, <2>5, Zenon DEF Done
    <3>2. ASSUME NEW CONSTANT n PROVE Ref(n)' = Ref(n) BY <2>2, <2>5, Zenon DEF Ref
    <3>3. ASSUME NEW CONSTANT n PROVE SettledIntent(n)' <=> SettledIntent(n)
      BY <2>2, <2>5, <3>2, Zenon DEF SettledIntent
    <3>4. ASSUME NEW CONSTANT o PROVE Target(o)' = Target(o) BY <2>2, <2>5, Zenon DEF Target
    <3>5. ASSUME NEW CONSTANT n, NEW CONSTANT o
          PROVE  SettledOverwrite(n, o)' <=> SettledOverwrite(n, o)
      BY <2>5, <3>2, <3>4, Zenon DEF SettledOverwrite
    <3>6. ASSUME NEW CONSTANT r PROVE NameKnown(r)' <=> NameKnown(r)
      BY <2>2, <2>5, <3>2, Zenon DEF NameKnown
    <3>7. ASSUME NEW CONSTANT n, NEW CONSTANT m,
                 SettledOverwrite(n, desired[n].overwrites[m])
          PROVE  SettledOverwrite(n, desired[n].overwrites[m])'
      <4>1. PICK o : o = desired[n].overwrites[m] BY Zenon
      <4> QED BY <2>2, <3>5, <3>7, <4>1, Zenon
    <3> QED BY <2>2, <2>4, <2>5, <3>1, <3>3, <3>6, <3>7, Zenon DEF Settled
  <2>6. CASE RunOp("Ok")
    <3>1. ASSUME NEW CONSTANT n, n \in DOMAIN desired,
                 <<n, 0>> \in Done' \/ ResourceChange(snapshot, desired[n]) = "NoOp"
          PROVE  SettledIntent(n)'
      BY <2>3, <2>4, <2>6, <3>1, SettledIntentStep, Zenon
    <3>2. ASSUME NEW CONSTANT n, NEW CONSTANT m,
                 <<n, m>> \in Places(snapshot, desired), m # 0,
                 <<n, m>> \in Done' \/ NodeAt(snapshot, desired, <<n, m>>).op = "NoOp"
          PROVE  SettledOverwrite(n, desired[n].overwrites[m])'
      BY <2>3, <2>4, <2>6, <3>2, SettledOverwriteStep, Zenon
    <3>3. ASSUME NEW CONSTANT r, r \in DOMAIN guild' PROVE NameKnown(r)'
      BY <2>4, <2>6, <3>3, NameKnownStep, Zenon
    <3> QED BY <2>2, <3>1, <3>2, <3>3, Zenon DEF Settled
  <2> QED BY <2>1, <2>5, <2>6, Zenon
<1> QED BY <1>1, <1>2, JobInvariance, PTL DEF Spec

----------------------------------------------------------------------------
(* A job that succeeded leaves nothing to do.                              *)

LEMMA AllDone ==
  ASSUME JobInv, phase = "Succeeded", NEW p \in Places(snapshot, desired)
  PROVE  /\ NodeAt(snapshot, desired, p).op # "Conflict"
         /\ NodeAt(snapshot, desired, p).op # "NoOp" => p \in Done
<1>0. RequestInv /\ TypeInv /\ EndInv BY Zenon DEF JobInv, Inv
<1>1. plan.ok /\ Len(steps) = Len(plan.nodes) /\ plan = CompileOperations(snapshot, desired)
  BY <1>0, Zenon DEF TypeInv, EndInv, RequestInv
<1> DEFINE s == Order(snapshot, desired)
<1>2. /\ DOMAIN s = 1 .. Len(plan.nodes)
      /\ plan.ok => \A q \in Places(snapshot, desired) :
           /\ NodeAt(snapshot, desired, q).op # "Conflict"
           /\ NodeAt(snapshot, desired, q).op # "NoOp" => \E n \in DOMAIN s : s[n] = q
  BY <1>0, <1>1, RequestFacts, PlanFacts, Zenon
<1>3. DOMAIN s = DOMAIN steps BY <1>0, <1>1, <1>2, StepType, Zenon
<1> QED BY <1>1, <1>2, <1>3, Zenon DEF Done

LEMMA AllSettled ==
  ASSUME JobInv, Settled, phase = "Succeeded", NEW n \in DOMAIN desired
  PROVE  SettledIntent(n) /\ ResourceChange(snapshot, desired[n]) # "Conflict"
<1>0. RequestInv BY Zenon DEF JobInv, Inv
<1>1. <<n, 0>> \in Places(snapshot, desired) BY <1>0, RequestFacts, PlaceFacts, Zenon
<1>2. NodeAt(snapshot, desired, <<n, 0>>).op = ResourceChange(snapshot, desired[n])
  BY Zenon DEF NodeAt, ChangeAt
<1> QED BY <1>1, <1>2, AllDone, Zenon DEF Settled

\* Every intent finds the resource its key stood for, and one to be absent
\* finds none.
LEMMA SettledResolves ==
  ASSUME JobInv, Settled, WellPosed, phase = "Succeeded", NEW n \in DOMAIN desired
  PROVE  IF desired[n].state = "Absent" THEN Resolve(guild, desired[n]) = Missing
         ELSE Resolve(guild, desired[n]) = Ref(n) /\ Ref(n) \in DOMAIN guild
<1> DEFINE i == desired[n]
           x == <<i.kind, i.key>>
<1>0. RequestInv /\ TypeInv BY Zenon DEF JobInv, Inv
<1>1. SettledIntent(n) /\ ResourceChange(snapshot, i) # "Conflict" BY AllSettled, Zenon
<1>2. DOMAIN guild \subseteq Refs BY <1>0, Zenon DEF TypeInv, IsGuild
<1>3. i.match \in Refs \cup {ByName, BadId} BY <1>0, RequestFacts, IntentType, Zenon DEF Intents
<1>4. Missing \notin Refs /\ Conflict \notin Refs BY NotRefs, Zenon
<1>5. i.state = "Absent" => Resolve(snapshot, i) \notin DOMAIN guild
  BY <1>1, Zenon DEF SettledIntent
<1>6. i.state # "Absent" => Ref(n) \in DOMAIN guild
  BY <1>1, Zenon DEF SettledIntent
<1>7. Resolve(snapshot, i) # Missing => Ref(n) = Resolve(snapshot, i)
  <2>1. x \in DOMAIN bound => Resolve(snapshot, i) = Missing
    BY <1>0, BoundIsCreated, RequestFacts, ResourceChangeFacts, Zenon
  <2> QED BY <2>1, Zenon DEF Ref, IntentRef
<1>8. Resolve(snapshot, i) # Conflict BY <1>0, <1>1, RequestFacts, ResourceChangeFacts, Zenon
<1>9. CASE i.match = BadId
  <2>1. Resolve(snapshot, i) = Conflict BY <1>9 DEF Resolve, BadId, ByName
  <2> QED BY <1>8, <2>1, Zenon
<1>10. CASE i.match \in Refs
  <2>1. /\ Resolve(snapshot, i) = IF i.match \in DOMAIN snapshot THEN i.match ELSE Missing
        /\ Resolve(guild, i) = IF i.match \in DOMAIN guild THEN i.match ELSE Missing
    BY <1>10, ResolveById, Zenon
  <2>2. x \notin DOMAIN bound
    <3>1. i.match # ByName BY <1>10 DEF Refs, Kinds, ByName
    <3>2. ResourceChange(snapshot, i) # "Create"
      BY <1>0, <3>1, RequestFacts, ResourceChangeFacts, Zenon
    <3> QED BY <3>2, BoundIsCreated, Zenon
  <2>3. Ref(n) = Resolve(snapshot, i) BY <2>2, Zenon DEF Ref, IntentRef
  <2>4. CASE i.state # "Absent"
    <3>1. Ref(n) = i.match BY <1>2, <1>4, <1>6, <2>1, <2>3, <2>4, Zenon
    <3> QED BY <1>6, <2>1, <2>4, <3>1, Zenon
  <2>5. CASE i.state = "Absent"
    <3>1. CASE i.match \in DOMAIN snapshot BY <1>5, <2>1, <2>5, <3>1, Zenon
    <3>2. CASE i.match \notin DOMAIN snapshot
      <4>1. i.match[2] < FirstNewId /\ i.match[2] \in Nat /\ FirstNewId \in Nat
        BY <1>0, <1>10, ResourceAssumption, Zenon DEF RequestInv, Refs
      <4>2. i.match \notin DOMAIN guild
        <5> SUFFICES ASSUME i.match \in DOMAIN guild PROVE FALSE
          BY Zenon
        <5>1. NameKnown(i.match) BY Zenon DEF Settled
        <5>2. PICK m \in DOMAIN desired : i.match = Ref(m) BY <3>2, <5>1, Zenon DEF NameKnown
        <5>3. \/ Ref(m) \in DOMAIN snapshot \/ Ref(m) \in {Missing, Conflict}
              \/ FirstNewId <= Ref(m)[2]
          BY RefType, Zenon
        <5> QED BY <1>4, <1>10, <3>2, <4>1, <5>2, <5>3
      <4> QED BY <2>1, <2>5, <4>2, Zenon
    <3> QED BY <3>1, <3>2, Zenon
  <2> QED BY <2>4, <2>5, Zenon
<1>11. CASE i.match = ByName
  <2>1. i.name # NoKey BY <1>0, <1>11, RequestFacts, Zenon DEF Validate
  <2>2. \A g : DOMAIN g \subseteq Refs =>
          /\ Resolve(g, i) \in DOMAIN g \cup {Missing, Conflict}
          /\ Resolve(g, i) = Missing <=> Named(g, i) = {}
          /\ \A r : Resolve(g, i) = r /\ r \in DOMAIN g <=>
               r \in Named(g, i) /\ \A s \in Named(g, i) : s = r
    BY <1>11, <2>1, ResolveByName, Zenon
  <2>3. ASSUME NEW r \in Named(guild, i) PROVE i.state # "Absent" /\ r = Ref(n)
    <3>1. r \in DOMAIN guild /\ r[1] = i.kind /\ guild[r].name = i.name BY <2>3, Zenon DEF Named
    <3>2. NameKnown(r) BY <3>1, Zenon DEF Settled
    <3>3. CASE r \in DOMAIN snapshot /\ guild[r].name = snapshot[r].name
      <4>1. r \in Named(snapshot, i) BY <3>1, <3>3, Zenon DEF Named
      <4>2. DOMAIN snapshot \subseteq Refs BY <1>0, RequestFacts, Zenon
      <4>3. Resolve(snapshot, i) \in DOMAIN snapshot BY <1>8, <2>2, <4>1, <4>2, Zenon
      <4>4. Resolve(snapshot, i) = r BY <2>2, <4>1, <4>2, <4>3, Zenon
      <4>5. r # Missing BY <1>2, <1>4, <3>1, Zenon
      <4> QED BY <1>5, <1>7, <3>1, <4>4, <4>5, Zenon
    <3>4. ASSUME NEW m \in DOMAIN desired, r = Ref(m), desired[m].state = "Present",
                 desired[m].name # NoKey, guild[r].name = desired[m].name
          PROVE  i.state # "Absent" /\ r = Ref(n)
      <4>1. r \in Refs BY <1>2, <3>1, Zenon
      <4>2. r[1] = desired[m].kind BY <1>4, <3>4, <4>1, RefType, Zenon
      <4>3. desired[m].kind = i.kind /\ desired[m].name = i.name BY <3>1, <3>4, <4>2, Zenon
      <4>4. m = n BY <2>1, <4>3, Zenon DEF WellPosed
      <4> QED BY <3>4, <4>4, Zenon
    <3> QED BY <3>2, <3>3, <3>4, Zenon DEF NameKnown
  <2>4. CASE i.state = "Absent"
    <3>1. Named(guild, i) = {} BY <2>3, <2>4, Zenon
    <3>2. Resolve(guild, i) = Missing BY <1>2, <2>2, <3>1, Zenon
    <3> QED BY <2>4, <3>2, Zenon
  <2>5. CASE i.state # "Absent"
    <3>1. Ref(n) \in DOMAIN guild /\ (i.owner = "Referenced" \/ ~Changed(i, guild[Ref(n)]))
      BY <1>1, <2>5, Zenon DEF SettledIntent
    <3>2. i.owner # "Referenced" BY <1>0, <2>1, RequestFacts, Zenon DEF Validate, Mutated
    <3>3. guild[Ref(n)].name = i.name BY <2>1, <3>1, <3>2, Zenon DEF Changed
    <3>4. Ref(n)[1] = i.kind BY <1>2, <1>4, <3>1, RefType, Zenon
    <3>5. Ref(n) \in Named(guild, i) BY <3>1, <3>3, <3>4, Zenon DEF Named
    <3>6. Resolve(guild, i) = Ref(n) BY <1>2, <2>2, <2>3, <3>5
    <3> QED BY <2>5, <3>1, <3>6, Zenon
  <2> QED BY <2>4, <2>5, Zenon
<1> QED BY <1>3, <1>9, <1>10, <1>11, Zenon

LEMMA SettledIsNoOp ==
  ASSUME JobInv, Settled, WellPosed, phase = "Succeeded"
  PROVE  IsNoOp(Diff(guild, desired))
<1>0. RequestInv /\ TypeInv BY Zenon DEF JobInv, Inv
<1>1. DOMAIN guild \subseteq Refs BY <1>0, Zenon DEF TypeInv, IsGuild
<1>2. Normalized(desired) /\ Validate(desired) BY <1>0, RequestFacts, Zenon
<1>3. ASSUME NEW n \in DOMAIN desired PROVE ResourceChange(guild, desired[n]) = "NoOp"
  <2>1. desired[n].state \in {"Present", "Absent"} BY <1>2, IntentType, Zenon DEF Intents
  <2>2. CASE desired[n].state = "Absent"
    BY <1>1, <1>2, <2>2, SettledResolves, ResourceChangeFacts, Zenon
  <2>3. CASE desired[n].state = "Present"
    <3>0. desired[n].state # "Absent" BY <2>3, Zenon
    <3>1. Resolve(guild, desired[n]) = Ref(n) /\ Ref(n) \in DOMAIN guild
      BY <3>0, SettledResolves, Zenon
    <3>2. desired[n].owner = "Referenced" \/ ~Changed(desired[n], guild[Ref(n)])
      BY <3>0, AllSettled, Zenon DEF SettledIntent
    <3> QED BY <1>1, <1>2, <2>3, <3>1, <3>2, ResourceChangeFacts, Zenon
  <2> QED BY <2>1, <2>2, <2>3, Zenon
<1>4. ASSUME NEW n, NEW m, <<n, m>> \in Places(guild, desired), m # 0
      PROVE  OverwriteChange(guild, desired, desired[n], desired[n].overwrites[m]) = "NoOp"
  <2> DEFINE i == desired[n]
             o == i.overwrites[m]
             t == OverwriteTarget(guild, desired, o.target)
  <2>1. /\ n \in DOMAIN desired /\ m \in DOMAIN i.overwrites
        /\ i.state = "Present" /\ i.owner # "Referenced"
    BY <1>1, <1>2, <1>4, OverwriteChangeFacts
  <2>2. <<n, m>> \in Places(snapshot, desired)
    <3>1. WithOverwrites(snapshot, i) BY <2>1, AllSettled, Zenon DEF WithOverwrites
    <3> QED BY <1>2, <2>1, <3>1, PlaceFacts, Zenon
  <2>3. SettledOverwrite(n, o) BY <1>4, <2>2, AllDone, Zenon DEF Settled
  <2>4. Resolve(guild, i) = Ref(n) BY <2>1, SettledResolves, Zenon
  <2>5. t = Target(o)
    <3>1. CASE o.target = Everyone BY <3>1, Zenon DEF Target, TargetRef, OverwriteTarget
    <3>2. CASE o.target # Everyone
      <4>1. o \in Range(i.overwrites) BY <2>1, Zenon DEF Range
      <4>2. PICK k \in Declared(desired, "Role", o.target) : desired[k].state = "Present"
        BY <2>1, <3>2, <4>1, Zenon DEF WellPosed, WellReferenced
      <4>3. k \in DOMAIN desired /\ desired[k].kind = "Role" /\ desired[k].key = o.target
        BY Zenon DEF Declared
      <4>4. IntentOf(desired, desired[k].kind, desired[k].key) = desired[k]
        BY <1>2, <4>3, IntentOfKey, Zenon
      <4>5. t = Resolve(guild, desired[k])
        <5>1. Declared(desired, "Role", o.target) # {} BY <4>2, Zenon
        <5> QED BY <3>2, <4>3, <4>4, <5>1, Zenon DEF OverwriteTarget
      <4>6. Resolve(guild, desired[k]) = Ref(k)
        <5>1. desired[k].state # "Absent" BY <4>2, Zenon
        <5> QED BY <4>3, <5>1, SettledResolves, Zenon
      <4>7. Target(o) = KeyRef(desired, snapshot, bound, desired[k].kind, desired[k].key)
        BY <3>2, <4>3, Zenon DEF Target, TargetRef
      <4>8. KeyRef(desired, snapshot, bound, desired[k].kind, desired[k].key) = Ref(k)
        BY <1>2, <4>3, KeyRefOfIntent, Zenon DEF Ref
      <4> QED BY <4>5, <4>6, <4>7, <4>8, Zenon
    <3> QED BY <3>1, <3>2, Zenon
  <2>6. /\ t # Conflict /\ t \in DOMAIN guild[Resolve(guild, i)].overwrites
        /\ guild[Resolve(guild, i)].overwrites[t] = o.value
    <3>1. /\ Ref(n) \in DOMAIN guild /\ Target(o) \in DOMAIN guild[Ref(n)].overwrites
          /\ guild[Ref(n)].overwrites[Target(o)] = o.value
      BY <2>3, Zenon DEF SettledOverwrite
    <3>2. Target(o) # Conflict BY <3>1, GuildFacts, Zenon
    <3> QED BY <2>4, <2>5, <3>1, <3>2, Zenon
  <2>7. ResourceChange(guild, i) # "Create" BY <1>3, <2>1, Zenon
  <2>8. OverwriteChange(guild, desired, i, o) = "NoOp" <=>
          /\ ResourceChange(guild, i) # "Create"
          /\ t # Conflict
          /\ t \in DOMAIN guild[Resolve(guild, i)].overwrites
          /\ guild[Resolve(guild, i)].overwrites[t] = o.value
    BY <1>1, <1>2, <1>4, OverwriteChangeFacts
  <2> QED BY <2>6, <2>7, <2>8, Zenon
<1>5. ASSUME NEW p \in Places(guild, desired) PROVE ChangeAt(guild, desired, p[1], p[2]).op = "NoOp"
  <2>1. PICK n \in Nat, m \in Nat : p = <<n, m>> BY <1>2, PlaceFacts
  <2>2. n \in DOMAIN desired BY <1>2, <2>1, PlaceFacts, Zenon
  <2>3. CASE m = 0
    <3>1. ChangeAt(guild, desired, n, m).op = ResourceChange(guild, desired[n])
      BY <2>3, Zenon DEF ChangeAt
    <3> QED BY <1>3, <2>1, <2>2, <3>1, Zenon
  <2>4. CASE m # 0
    <3>1. ChangeAt(guild, desired, n, m).op =
            OverwriteChange(guild, desired, desired[n], desired[n].overwrites[m])
      BY <2>4, Zenon DEF ChangeAt
    <3> QED BY <1>4, <1>5, <2>1, <2>4, <3>1, Zenon
  <2> QED BY <2>3, <2>4, Zenon
<1> QED BY <1>5, Zenon DEF IsNoOp, Diff

\* A job that succeeds leaves nothing to do: a second diff of the same desired
\* state, for a well-posed one and a guild nobody else touched, is a no-op.
THEOREM SuccessConverges == Spec => []SucceededIsConverged
<1>1. JobInv /\ SettledInv => SucceededIsConverged
  <2> SUFFICES ASSUME JobInv, SettledInv, phase = "Succeeded", drift = 0, WellPosed
               PROVE  IsNoOp(Diff(guild, desired))
    BY Zenon DEF SucceededIsConverged
  <2>1. CleanRun BY Zenon DEF CleanRun, JobInv, EndInv
  <2>2. Settled BY <2>1, Zenon DEF SettledInv
  <2> QED BY <2>2, SettledIsNoOp, Zenon
<1> QED BY <1>1, SettledInvariance, PTL

============================================================================
