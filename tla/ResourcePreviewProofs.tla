----------------------- MODULE ResourcePreviewProofs -----------------------
(***************************************************************************)
(* Proof that a clean, undisturbed execution leaves the guild that         *)
(* virtual-apply showed, but for what the service decides by itself, for   *)
(* all desired states, snapshots, users and bounds.                        *)
(***************************************************************************)
EXTENDS ResourceExecutionProofs

----------------------------------------------------------------------------
(* The preview: what the executor creates is what virtual-apply creates,   *)
(* under the service's ids instead of the synthetic ones.                  *)

FirstId == FirstSynthetic(snapshot)

Real(first, r) == IF r[2] < first THEN r ELSE <<r[1], r[2] - first + FirstNewId>>

\* The synthetic ids start above every id of the snapshot, and not above the
\* ids the service hands out.
LEMMA FirstIdFacts ==
  ASSUME RequestInv
  PROVE  /\ FirstId \in Nat /\ 0 < FirstId /\ FirstId <= FirstNewId
         /\ GuildId < FirstId
         /\ \A r \in DOMAIN snapshot : r[2] < FirstId
<1> DEFINE ids == {GuildId} \cup {r[2] : r \in DOMAIN snapshot}
           T == {FirstNewId - n : n \in ids}
<1>1. FirstNewId \in Nat /\ \A n \in ids : n \in Nat /\ n < FirstNewId
  BY RequestFacts, Zenon DEF Refs
<1>2. T \in SUBSET Nat /\ T # {} BY <1>1
<1>3. PICK t \in T : \A y \in T : t <= y
  <2> HIDE DEF T
  <2> QED BY <1>2, LeastNat, Zenon
<1>4. PICK m \in ids : t = FirstNewId - m BY Zenon
<1>5. \A n \in ids : FirstNewId - n \in T BY Zenon
<1> HIDE DEF T
<1>6. ASSUME NEW n \in ids PROVE n <= m
  <2>1. t <= FirstNewId - n BY <1>3, <1>5, Zenon
  <2>2. n \in Nat /\ m \in Nat BY <1>1, Zenon
  <2> QED BY <1>1, <1>4, <2>1, <2>2
<1> DEFINE c == CHOOSE n \in ids : \A id \in ids : id <= n
<1> HIDE DEF ids
<1>7. c \in ids /\ \A id \in ids : id <= c BY <1>4, <1>6, Zenon
<1>8. FirstId = 1 + c BY Zenon DEF FirstId, FirstSynthetic, ids
<1> HIDE DEF c
<1>9. GuildId \in ids /\ \A r \in DOMAIN snapshot : r[2] \in ids BY Zenon DEF ids
<1> QED BY <1>1, <1>7, <1>8, <1>9

\* The renaming of the ids: what the snapshot knows keeps its own.
LEMMA RealFacts ==
  ASSUME RequestInv
  PROVE  /\ \A r \in Refs : Real(FirstId, r) \in Refs /\ Real(FirstId, r)[1] = r[1]
         /\ \A r, q \in Refs : Real(FirstId, r) = Real(FirstId, q) => r = q
         /\ \A r \in DOMAIN snapshot : Real(FirstId, r) = r
         /\ Real(FirstId, EveryoneRole) = EveryoneRole
         /\ Real(FirstId, None) = None /\ Real(FirstId, Missing) = Missing /\ Real(FirstId, Conflict) = Conflict
<1>1. /\ FirstId \in Nat /\ 0 < FirstId /\ FirstId <= FirstNewId /\ GuildId < FirstId
      /\ \A r \in DOMAIN snapshot : r[2] < FirstId
  BY FirstIdFacts, Zenon
<1>2. FirstNewId \in Nat BY RequestFacts, Zenon
<1>3. \A r \in Refs : Real(FirstId, r) \in Refs /\ Real(FirstId, r)[1] = r[1]
  BY <1>1, <1>2 DEF Real, Refs
<1>4. ASSUME NEW r \in Refs, NEW q \in Refs, Real(FirstId, r) = Real(FirstId, q) PROVE r = q
  <2>1. r = <<r[1], r[2]>> /\ q = <<q[1], q[2]>> /\ r[2] \in Nat /\ q[2] \in Nat BY DEF Refs
  <2>2. r[1] = q[1] BY <1>3, <1>4
  <2>3. r[2] = q[2]
    <3>1. Real(FirstId, r)[2] = IF r[2] < FirstId THEN r[2] ELSE r[2] - FirstId + FirstNewId
      BY Zenon DEF Real
    <3>2. Real(FirstId, q)[2] = IF q[2] < FirstId THEN q[2] ELSE q[2] - FirstId + FirstNewId
      BY Zenon DEF Real
    <3> QED BY <1>1, <1>2, <1>4, <2>1, <3>1, <3>2
  <2> QED BY <2>1, <2>2, <2>3, Zenon
<1>5. \A r \in DOMAIN snapshot : Real(FirstId, r) = r BY <1>1, Zenon DEF Real
<1>6. Real(FirstId, EveryoneRole) = EveryoneRole BY <1>1, Zenon DEF Real, EveryoneRole
<1>7. Real(FirstId, None) = None /\ Real(FirstId, Missing) = Missing /\ Real(FirstId, Conflict) = Conflict
  BY <1>1, Zenon DEF Real, None, Missing, Conflict
<1> QED BY <1>3, <1>4, <1>5, <1>6, <1>7, Zenon

\* The roles the job creates without permissions, under the bindings b.
Defaulted(b) ==
  {r \in Refs : /\ r[1] = "Role" /\ r \notin DOMAIN snapshot
                /\ \E n \in DOMAIN desired :
                     /\ KeyRef(desired, snapshot, b, "Role", desired[n].key) = r
                     /\ desired[n].value = Unset}

\* The resource c of the guild is the shown one, s at r, but for the ids, the
\* permissions of the roles in blank, what is no longer in the shown guild D,
\* and the overwrites a channel that is not in old took from its category.
Same(first, old, blank, D, r, c, s) ==
  /\ c.name = s.name
  /\ c.value = s.value \/ r \in blank
  /\ c.parent = IF s.parent \in D THEN Real(first, s.parent) ELSE None
  /\ \A t \in DOMAIN s.overwrites : t \in D =>
       /\ Real(first, t) \in DOMAIN c.overwrites
       /\ c.overwrites[Real(first, t)] = s.overwrites[t]
  /\ \A t \in DOMAIN c.overwrites :
       \/ \E u \in DOMAIN s.overwrites : u \in D /\ t = Real(first, u)
       \/ r \notin old /\ s.parent # None

SimGuild(first, old, blank, g, h) ==
  /\ \A q : q \in DOMAIN g <=> \E r \in DOMAIN h : q = Real(first, r)
  /\ \A r \in DOMAIN h : Same(first, old, blank, DOMAIN h, r, g[Real(first, r)], h[r])

\* Nothing in the shown guild h, and nothing it names, has the id next yet.
Below(h, next) ==
  \A r \in DOMAIN h : /\ r[2] < next /\ h[r].parent[2] < next
                      /\ \A t \in DOMAIN h[r].overwrites : t[2] < next

\* Whether something is in the shown guild can be read off the guild.
LEMMA InShown ==
  ASSUME RequestInv, NEW old, NEW blank, NEW g, NEW h, IsGuild(g), IsGuild(h),
         SimGuild(FirstId, old, blank, g, h),
         NEW y \in Refs \cup {None, Missing, Conflict}
  PROVE  /\ Real(FirstId, y) \in DOMAIN g => y \in DOMAIN h
         /\ Real(FirstId, y) = None => y = None
<1>1. /\ \A r, q \in Refs : Real(FirstId, r) = Real(FirstId, q) => r = q
      /\ \A r \in Refs : Real(FirstId, r) \in Refs
      /\ Real(FirstId, None) = None /\ Real(FirstId, Missing) = Missing
      /\ Real(FirstId, Conflict) = Conflict
  BY RealFacts, Zenon
<1>2. DOMAIN g \subseteq Refs /\ DOMAIN h \subseteq Refs BY Zenon DEF IsGuild
<1>3. ASSUME Real(FirstId, y) \in DOMAIN g PROVE y \in DOMAIN h
  <2>1. PICK r \in DOMAIN h : Real(FirstId, y) = Real(FirstId, r) BY <1>3, Zenon DEF SimGuild
  <2>2. Real(FirstId, y) \in Refs BY <1>2, <1>3, Zenon
  <2>3. y \in Refs BY <1>1, <2>2, NotRefs, Zenon
  <2>4. r \in Refs BY <1>2, Zenon
  <2>5. y = r BY <1>1, <2>1, <2>3, <2>4, Zenon
  <2> QED BY <2>5, Zenon
<1>4. ASSUME Real(FirstId, y) = None PROVE y = None BY <1>1, <1>4, NotRefs, Zenon
<1> QED BY <1>3, <1>4, Zenon

LEMMA WithIsGuild ==
  ASSUME NEW h, IsGuild(h), NEW q \in Refs, NEW s, IsResource(s)
  PROVE  IsGuild(With(h, q, s))
BY WithFacts DEF IsGuild

\* One resource put in both guilds.
LEMMA WithSim ==
  ASSUME RequestInv, NEW old, NEW blank, NEW more, NEW g, NEW h, IsGuild(g), IsGuild(h),
         SimGuild(FirstId, old, blank, g, h), NEW q \in Refs, NEW c, NEW s, NEW D,
         \A y : y \in D <=> y \in DOMAIN h \/ y = q,
         Same(FirstId, old, more, D, q, c, s),
         \A r \in DOMAIN h : r # q =>
           Same(FirstId, old, more, D, r, g[Real(FirstId, r)], h[r])
  PROVE  SimGuild(FirstId, old, more, With(g, Real(FirstId, q), c), With(h, q, s))
<1>1. \A r, t \in Refs : Real(FirstId, r) = Real(FirstId, t) => r = t BY RealFacts, Zenon
<1> DEFINE G == With(g, Real(FirstId, q), c)
           H == With(h, q, s)
<1>2. /\ \A y : y \in DOMAIN G <=> y \in DOMAIN g \/ y = Real(FirstId, q)
      /\ G[Real(FirstId, q)] = c
      /\ \A y \in DOMAIN g : y # Real(FirstId, q) => G[y] = g[y]
  BY WithFacts
<1>3. /\ \A y : y \in DOMAIN H <=> y \in DOMAIN h \/ y = q
      /\ H[q] = s
      /\ \A y \in DOMAIN h : y # q => H[y] = h[y]
  BY WithFacts
<1> HIDE DEF G, H
<1>4. ASSUME NEW y PROVE y \in DOMAIN G <=> \E r \in DOMAIN H : y = Real(FirstId, r)
  BY <1>2, <1>3, Zenon DEF SimGuild
<1>5. DOMAIN H = D BY <1>3, Zenon
<1>6. ASSUME NEW r \in DOMAIN H PROVE Same(FirstId, old, more, D, r, G[Real(FirstId, r)], H[r])
  <2>1. CASE r = q
    <3>1. G[Real(FirstId, r)] = c /\ H[r] = s BY <1>2, <1>3, <2>1, Zenon
    <3> QED BY <2>1, <3>1, Zenon
  <2>2. CASE r # q
    <3>1. r \in DOMAIN h /\ H[r] = h[r] BY <1>3, <1>6, <2>2, Zenon
    <3>2. r \in Refs BY <3>1, Zenon DEF IsGuild
    <3>3. Real(FirstId, r) # Real(FirstId, q) BY <1>1, <2>2, <3>2, Zenon
    <3>4. Real(FirstId, r) \in DOMAIN g BY <3>1, Zenon DEF SimGuild
    <3>5. G[Real(FirstId, r)] = g[Real(FirstId, r)] BY <1>2, <3>3, <3>4, Zenon
    <3>6. Same(FirstId, old, more, D, r, g[Real(FirstId, r)], h[r]) BY <2>2, <3>1, Zenon
    <3> QED BY <3>1, <3>5, <3>6, Zenon
  <2> QED BY <2>1, <2>2, Zenon
<1> QED BY <1>4, <1>5, <1>6, Zenon DEF SimGuild, G, H

\* A creation: the shown guild does not know the new id, so nothing else in it
\* is disturbed.
LEMMA CreateSim ==
  ASSUME RequestInv, NEW old, NEW blank, NEW more, blank \subseteq more,
         NEW g, NEW h, IsGuild(g), IsGuild(h), SimGuild(FirstId, old, blank, g, h),
         NEW next \in Nat, 0 < next, Below(h, next),
         NEW q \in Refs, q[2] = next, q \notin old, NEW c, NEW s,
         s.parent \in DOMAIN h \cup {None}, s.overwrites = << >>,
         c.name = s.name, c.value = s.value \/ q \in more,
         c.parent = Real(FirstId, s.parent),
         s.parent = None => DOMAIN c.overwrites = {}
  PROVE  /\ SimGuild(FirstId, old, more, With(g, Real(FirstId, q), c), With(h, q, s))
         /\ Below(With(h, q, s), next + 1)
<1> DEFINE D == DOMAIN h \cup {q}
<1>1. \A y : y \in D <=> y \in DOMAIN h \/ y = q BY Zenon
<1> HIDE DEF D
<1>2. None \notin Refs /\ Real(FirstId, None) = None BY NotRefs, RealFacts, Zenon
<1>3. DOMAIN h \subseteq Refs BY Zenon DEF IsGuild
<1>4. DOMAIN s.overwrites = {} OBVIOUS
<1>5. next \in Nat /\ ~(next < next) OBVIOUS
<1>6. Same(FirstId, old, more, D, q, c, s)
  <2>1. c.parent = IF s.parent \in D THEN Real(FirstId, s.parent) ELSE None
    <3>1. CASE s.parent \in DOMAIN h BY <1>1, <3>1, Zenon
    <3>2. CASE s.parent = None
      <4>1. None \notin D BY <1>1, <1>2, <1>3, Zenon
      <4> QED BY <1>2, <3>2, <4>1, Zenon
    <3> QED BY <3>1, <3>2, Zenon
  <2>2. \A t \in DOMAIN c.overwrites : q \notin old /\ s.parent # None BY Zenon
  <2> QED BY <1>4, <2>1, <2>2, Zenon DEF Same
<1>7. ASSUME NEW r \in DOMAIN h, r # q
      PROVE  Same(FirstId, old, more, D, r, g[Real(FirstId, r)], h[r])
  <2>1. Same(FirstId, old, blank, DOMAIN h, r, g[Real(FirstId, r)], h[r])
    BY <1>7, Zenon DEF SimGuild
  <2>2. h[r].parent[2] < next /\ \A t \in DOMAIN h[r].overwrites : t[2] < next
    BY <1>7, Zenon DEF Below
  <2>3. h[r].parent # q /\ \A t \in DOMAIN h[r].overwrites : t # q BY <1>5, <2>2, Zenon
  <2>4. /\ h[r].parent \in D <=> h[r].parent \in DOMAIN h
        /\ \A t \in DOMAIN h[r].overwrites : t \in D <=> t \in DOMAIN h
    BY <1>1, <2>3, Zenon
  <2> QED BY <2>1, <2>4, Zenon DEF Same
<1>8. SimGuild(FirstId, old, more, With(g, Real(FirstId, q), c), With(h, q, s))
  BY <1>1, <1>6, <1>7, WithSim, Zenon
<1>9. Below(With(h, q, s), next + 1)
  <2> DEFINE H == With(h, q, s)
  <2>1. /\ \A y : y \in DOMAIN H <=> y \in DOMAIN h \/ y = q
        /\ H[q] = s
        /\ \A y \in DOMAIN h : y # q => H[y] = h[y]
    BY WithFacts
  <2>2. s.parent \in Refs \cup {None} /\ s.parent[2] < next
    <3>1. CASE s.parent = None BY <3>1 DEF None
    <3>2. CASE s.parent \in DOMAIN h BY <1>3, <3>2, Zenon DEF Below
    <3> QED BY <3>1, <3>2, Zenon
  <2> HIDE DEF H
  <2>3. \A y \in Refs \cup {None} : y[2] < next => y[2] < next + 1 BY DEF Refs, None
  <2>4. next < next + 1 OBVIOUS
  <2>5. ASSUME NEW r \in DOMAIN H
        PROVE  /\ r[2] < next + 1 /\ H[r].parent[2] < next + 1
               /\ \A t \in DOMAIN H[r].overwrites : t[2] < next + 1
    <3>1. CASE r = q
      <4>1. H[r] = s BY <2>1, <3>1, Zenon
      <4> QED BY <1>4, <2>2, <2>3, <2>4, <3>1, <4>1, Zenon
    <3>2. CASE r # q
      <4>1. r \in DOMAIN h /\ H[r] = h[r] /\ r \in Refs BY <1>3, <2>1, <2>5, <3>2, Zenon
      <4>2. /\ r[2] < next /\ h[r].parent[2] < next
            /\ \A t \in DOMAIN h[r].overwrites : t[2] < next
        BY <4>1, Zenon DEF Below
      <4>3. IsResource(h[r]) BY <4>1, Zenon DEF IsGuild
      <4>4. h[r].parent \in Refs \cup {None} /\ DOMAIN h[r].overwrites \subseteq Refs
        BY <4>3, ResourceFields, Zenon
      <4> QED BY <2>3, <4>1, <4>2, <4>4, Zenon
    <3> QED BY <3>1, <3>2, Zenon
  <2> QED BY <2>5, Zenon DEF Below, H
<1> QED BY <1>8, <1>9, Zenon

\* A deletion: the service detaches from the resource what the preview only
\* finds no longer there.
LEMMA DeleteSim ==
  ASSUME RequestInv, NEW old, NEW blank, NEW g, NEW h, IsGuild(g), IsGuild(h),
         SimGuild(FirstId, old, blank, g, h), NEW next, Below(h, next), NEW q \in DOMAIN h
  PROVE  /\ SimGuild(FirstId, old, blank, Gone(g, Real(FirstId, q)), Without(h, q))
         /\ Below(Without(h, q), next) /\ IsGuild(Without(h, q))
<1> DEFINE Q == Real(FirstId, q)
           G == Gone(g, Q)
           H == Without(h, q)
<1>1. /\ \A r, t \in Refs : Real(FirstId, r) = Real(FirstId, t) => r = t
      /\ \A r \in Refs : Real(FirstId, r) \in Refs
  BY RealFacts, Zenon
<1>2. DOMAIN g \subseteq Refs /\ DOMAIN h \subseteq Refs BY Zenon DEF IsGuild
<1>3. q \in Refs /\ Q \in Refs /\ None # Q BY <1>1, <1>2, NotRefs, Zenon
<1> HIDE DEF Q
<1>4. \A r \in DOMAIN h : r # q <=> Real(FirstId, r) # Q BY <1>1, <1>2, <1>3, Zenon DEF Q
<1>5. /\ \A y : y \in DOMAIN G <=> y \in DOMAIN g /\ y # Q
      /\ \A y \in DOMAIN g : y # Q => G[y] = Detached(g[y], {Q})
  BY GoneFacts, Zenon
<1>6. /\ \A y : y \in DOMAIN H <=> y \in DOMAIN h /\ y # q
      /\ \A y \in DOMAIN h : y # q => H[y] = h[y]
      /\ IsMap(H)
  BY WithoutFacts, Zenon
<1> HIDE DEF G, H
<1>7. ASSUME NEW y PROVE y \in DOMAIN G <=> \E r \in DOMAIN H : y = Real(FirstId, r)
  BY <1>4, <1>5, <1>6, Zenon DEF SimGuild
<1>8. ASSUME NEW r \in DOMAIN H
      PROVE  Same(FirstId, old, blank, DOMAIN H, r, G[Real(FirstId, r)], H[r])
  <2>1. r \in DOMAIN h /\ r # q /\ H[r] = h[r] BY <1>6, <1>8, Zenon
  <2>2. Real(FirstId, r) \in DOMAIN g /\ Real(FirstId, r) # Q
    BY <1>4, <2>1, Zenon DEF SimGuild
  <2>3. PICK c, s, d : c = g[Real(FirstId, r)] /\ s = h[r] /\ d = G[Real(FirstId, r)] BY Zenon
  <2>4. d = Detached(c, {Q}) BY <1>5, <2>2, <2>3, Zenon
  <2>5. Same(FirstId, old, blank, DOMAIN h, r, c, s) BY <2>1, <2>3, Zenon DEF SimGuild
  <2>6. IsResource(c) BY <2>2, <2>3, Zenon DEF IsGuild
  <2>7. /\ d.name = c.name /\ d.value = c.value
        /\ d.parent = IF c.parent = Q THEN None ELSE c.parent
        /\ d.overwrites = Without(c.overwrites, Q)
    BY <2>4, <2>6, DetachedFields, Zenon
  <2>8. PICK e, f : e = d.overwrites /\ f = c.overwrites BY Zenon
  <2>9. /\ \A y : y \in DOMAIN e <=> y \in DOMAIN f /\ y # Q
        /\ \A y \in DOMAIN f : y # Q => e[y] = f[y]
    <3>1. e = Without(f, Q) BY <2>7, <2>8, Zenon
    <3> QED BY <3>1, WithoutFacts, Zenon
  <2>10. /\ c.name = s.name /\ (c.value = s.value \/ r \in blank)
         /\ c.parent = IF s.parent \in DOMAIN h THEN Real(FirstId, s.parent) ELSE None
         /\ \A t \in DOMAIN s.overwrites : t \in DOMAIN h =>
              Real(FirstId, t) \in DOMAIN f /\ f[Real(FirstId, t)] = s.overwrites[t]
         /\ \A t \in DOMAIN f :
              \/ \E u \in DOMAIN s.overwrites : u \in DOMAIN h /\ t = Real(FirstId, u)
              \/ r \notin old /\ s.parent # None
    BY <2>5, <2>8, Zenon DEF Same
  <2>11. d.parent = IF s.parent \in DOMAIN H THEN Real(FirstId, s.parent) ELSE None
    <3>1. CASE s.parent \in DOMAIN h /\ s.parent # q
      <4>1. c.parent = Real(FirstId, s.parent) /\ c.parent # Q BY <1>4, <2>10, <3>1, Zenon
      <4> QED BY <1>6, <2>7, <3>1, <4>1, Zenon
    <3>2. CASE s.parent = q
      <4>1. c.parent = Q BY <2>10, <3>2, Zenon DEF Q
      <4> QED BY <1>6, <2>7, <3>2, <4>1, Zenon
    <3>3. CASE s.parent \notin DOMAIN h
      <4>1. c.parent = None BY <2>10, <3>3, Zenon
      <4> QED BY <1>6, <2>7, <3>3, <4>1, Zenon
    <3> QED BY <3>1, <3>2, <3>3, Zenon
  <2>12. ASSUME NEW t \in DOMAIN s.overwrites, t \in DOMAIN H
         PROVE  Real(FirstId, t) \in DOMAIN e /\ e[Real(FirstId, t)] = s.overwrites[t]
    <3>1. t \in DOMAIN h /\ Real(FirstId, t) # Q BY <1>4, <1>6, <2>12, Zenon
    <3> QED BY <2>9, <2>10, <2>12, <3>1, Zenon
  <2>13. ASSUME NEW t \in DOMAIN e
         PROVE  \/ \E u \in DOMAIN s.overwrites : u \in DOMAIN H /\ t = Real(FirstId, u)
                \/ r \notin old /\ s.parent # None
    <3>1. t \in DOMAIN f /\ t # Q BY <2>9, <2>13, Zenon
    <3>2. CASE r \notin old /\ s.parent # None BY <3>2, Zenon
    <3>3. CASE ~(r \notin old /\ s.parent # None)
      <4>1. PICK u \in DOMAIN s.overwrites : u \in DOMAIN h /\ t = Real(FirstId, u)
        BY <2>10, <3>1, <3>3, Zenon
      <4>2. u # q BY <1>4, <3>1, <4>1, Zenon DEF Q
      <4>3. u \in DOMAIN H BY <1>6, <4>1, <4>2, Zenon
      <4> QED BY <4>1, <4>3, Zenon
    <3> QED BY <3>2, <3>3, Zenon
  <2>14. d.name = s.name /\ (d.value = s.value \/ r \in blank) BY <2>7, <2>10, Zenon
  <2>15. Same(FirstId, old, blank, DOMAIN H, r, d, s)
    BY <2>8, <2>11, <2>12, <2>13, <2>14, Zenon DEF Same
  <2> QED BY <2>1, <2>3, <2>15, Zenon
<1>9. SimGuild(FirstId, old, blank, G, H) BY <1>7, <1>8, Zenon DEF SimGuild
<1>10. Below(H, next) BY <1>6, Zenon DEF Below
<1>11. IsGuild(H) BY <1>6, Zenon DEF IsGuild
<1> QED BY <1>9, <1>10, <1>11, Zenon DEF G, H, Q

\* An update, or an overwrite for a role that is there.
LEMMA EditSim ==
  ASSUME RequestInv, NEW old, NEW blank, NEW g, NEW h, IsGuild(g), IsGuild(h),
         SimGuild(FirstId, old, blank, g, h), NEW next, Below(h, next),
         NEW q \in DOMAIN h, NEW call, NEW shown, IsCall(call), IsCall(shown),
         call.op = shown.op, call.name = shown.name, call.value = shown.value,
         call.op = "Upsert" =>
           shown.target \in DOMAIN h /\ call.target = Real(FirstId, shown.target)
  PROVE  /\ call.op = "Update" =>
              LET s == Updated(h[q], shown)
                  c == Updated(g[Real(FirstId, q)], call)
              IN /\ SimGuild(FirstId, old, blank, With(g, Real(FirstId, q), c), With(h, q, s))
                 /\ Below(With(h, q, s), next) /\ IsGuild(With(h, q, s))
         /\ call.op = "Upsert" =>
              LET s == Overwritten(h[q], shown)
                  c == Overwritten(g[Real(FirstId, q)], call)
              IN /\ SimGuild(FirstId, old, blank, With(g, Real(FirstId, q), c), With(h, q, s))
                 /\ Below(With(h, q, s), next) /\ IsGuild(With(h, q, s))
<1>1. \A r, t \in Refs : Real(FirstId, r) = Real(FirstId, t) => r = t BY RealFacts, Zenon
<1>2. DOMAIN h \subseteq Refs /\ q \in Refs BY Zenon DEF IsGuild
<1>3. PICK c, s : c = g[Real(FirstId, q)] /\ s = h[q] BY Zenon
<1>4. IsResource(c) /\ IsResource(s) BY <1>3, Zenon DEF IsGuild, SimGuild
<1>5. Same(FirstId, old, blank, DOMAIN h, q, c, s) BY <1>3, Zenon DEF SimGuild
<1>6. ASSUME NEW d, NEW e, Same(FirstId, old, blank, DOMAIN h, q, d, e), IsResource(e),
             e.parent = s.parent,
             \A t \in DOMAIN e.overwrites : t \in DOMAIN s.overwrites \cup DOMAIN h
      PROVE  /\ SimGuild(FirstId, old, blank, With(g, Real(FirstId, q), d), With(h, q, e))
             /\ Below(With(h, q, e), next) /\ IsGuild(With(h, q, e))
  <2>1. SimGuild(FirstId, old, blank, With(g, Real(FirstId, q), d), With(h, q, e))
    <3>1. PICK D : D = DOMAIN h BY Zenon
    <3>2. \A y : y \in D <=> y \in DOMAIN h \/ y = q BY <3>1, Zenon
    <3>3. Same(FirstId, old, blank, D, q, d, e) BY <1>6, <3>1, Zenon
    <3>4. \A r \in DOMAIN h : r # q => Same(FirstId, old, blank, D, r, g[Real(FirstId, r)], h[r])
      BY <3>1, Zenon DEF SimGuild
    <3> QED BY <1>2, <3>2, <3>3, <3>4, WithSim, Zenon
  <2>2. IsGuild(With(h, q, e)) BY <1>2, <1>6, WithIsGuild, Zenon
  <2>3. Below(With(h, q, e), next)
    <3> DEFINE H == With(h, q, e)
    <3>1. /\ \A y : y \in DOMAIN H <=> y \in DOMAIN h \/ y = q
          /\ H[q] = e
          /\ \A y \in DOMAIN h : y # q => H[y] = h[y]
      BY WithFacts
    <3> HIDE DEF H
    <3>2. /\ \A t \in DOMAIN h : t[2] < next
          /\ e.parent[2] < next /\ \A t \in DOMAIN s.overwrites : t[2] < next
      BY <1>3, <1>6, Zenon DEF Below
    <3>3. \A t \in DOMAIN e.overwrites : t[2] < next BY <1>6, <3>2, Zenon
    <3>4. ASSUME NEW r \in DOMAIN H
          PROVE  /\ r[2] < next /\ H[r].parent[2] < next
                 /\ \A t \in DOMAIN H[r].overwrites : t[2] < next
      <4>1. CASE r = q
        <5>1. H[r] = e BY <3>1, <4>1, Zenon
        <5> QED BY <3>2, <3>3, <4>1, <5>1, Zenon
      <4>2. CASE r # q
        <5>1. r \in DOMAIN h /\ H[r] = h[r] BY <3>1, <3>4, <4>2, Zenon
        <5> QED BY <5>1, Zenon DEF Below
      <4> QED BY <4>1, <4>2, Zenon
    <3> QED BY <3>4, Zenon DEF Below, H
  <2> QED BY <2>1, <2>2, <2>3, Zenon
<1>7. ASSUME call.op = "Update"
      PROVE  /\ Same(FirstId, old, blank, DOMAIN h, q, Updated(c, call), Updated(s, shown))
             /\ IsResource(Updated(s, shown)) /\ Updated(s, shown).parent = s.parent
             /\ Updated(s, shown).overwrites = s.overwrites
  <2>1. PICK d, e : d = Updated(c, call) /\ e = Updated(s, shown) BY Zenon
  <2>2. /\ d.name = Given(call.name, c.name, NoKey) /\ d.value = Given(call.value, c.value, Unset)
        /\ d.parent = c.parent /\ d.overwrites = c.overwrites
    BY <1>4, <2>1, UpdatedFields, Zenon
  <2>3. /\ e.name = Given(shown.name, s.name, NoKey) /\ e.value = Given(shown.value, s.value, Unset)
        /\ e.parent = s.parent /\ e.overwrites = s.overwrites
    BY <1>4, <2>1, UpdatedFields, Zenon
  <2>4. IsResource(e) BY <1>4, <1>7, <2>1, UpdatedIsResource, Zenon
  <2>5. c.name = s.name /\ (c.value = s.value \/ q \in blank) BY <1>5, Zenon DEF Same
  <2>6. d.name = e.name /\ (d.value = e.value \/ q \in blank) BY <2>2, <2>3, <2>5, Zenon
  <2>7. Same(FirstId, old, blank, DOMAIN h, q, d, e)
    BY <1>5, <2>2, <2>3, <2>6, Zenon DEF Same
  <2> QED BY <2>1, <2>3, <2>4, <2>7, Zenon
<1>8. ASSUME call.op = "Upsert"
      PROVE  /\ Same(FirstId, old, blank, DOMAIN h, q, Overwritten(c, call), Overwritten(s, shown))
             /\ IsResource(Overwritten(s, shown)) /\ Overwritten(s, shown).parent = s.parent
             /\ \A t \in DOMAIN Overwritten(s, shown).overwrites :
                  t \in DOMAIN s.overwrites \cup DOMAIN h
  <2>1. PICK d, e : d = Overwritten(c, call) /\ e = Overwritten(s, shown) BY Zenon
  <2>2. PICK u, v : u = shown.target /\ v = shown.value BY Zenon
  <2>3. /\ d.name = c.name /\ d.value = c.value /\ d.parent = c.parent
        /\ d.overwrites = With(c.overwrites, Real(FirstId, u), v)
    <3>1. /\ d.name = c.name /\ d.value = c.value /\ d.parent = c.parent
          /\ d.overwrites = With(c.overwrites, call.target, call.value)
      BY <1>4, <2>1, OverwrittenFields, Zenon
    <3>2. call.target = Real(FirstId, u) /\ call.value = v BY <1>8, <2>2, Zenon
    <3> QED BY <3>1, <3>2, Zenon
  <2>4. /\ e.name = s.name /\ e.value = s.value /\ e.parent = s.parent
        /\ e.overwrites = With(s.overwrites, u, v)
    BY <1>4, <2>1, <2>2, OverwrittenFields, Zenon
  <2>5. IsResource(e) BY <1>4, <1>8, <2>1, OverwrittenIsResource, Zenon
  <2>6. PICK F, f, E, o : /\ F = d.overwrites /\ f = c.overwrites
                          /\ E = e.overwrites /\ o = s.overwrites
    BY Zenon
  <2>7. /\ \A y : y \in DOMAIN F <=> y \in DOMAIN f \/ y = Real(FirstId, u)
        /\ F[Real(FirstId, u)] = v
        /\ \A y \in DOMAIN f : y # Real(FirstId, u) => F[y] = f[y]
    BY <2>3, <2>6, WithFacts
  <2>8. /\ \A y : y \in DOMAIN E <=> y \in DOMAIN o \/ y = u
        /\ E[u] = v
        /\ \A y \in DOMAIN o : y # u => E[y] = o[y]
    BY <2>4, <2>6, WithFacts
  <2>9. u \in DOMAIN h /\ u \in Refs BY <1>2, <1>8, <2>2, Zenon
  <2>10. /\ c.name = s.name /\ (c.value = s.value \/ q \in blank)
         /\ c.parent = IF s.parent \in DOMAIN h THEN Real(FirstId, s.parent) ELSE None
         /\ \A t \in DOMAIN o : t \in DOMAIN h =>
              Real(FirstId, t) \in DOMAIN f /\ f[Real(FirstId, t)] = o[t]
         /\ \A t \in DOMAIN f :
              \/ \E y \in DOMAIN o : y \in DOMAIN h /\ t = Real(FirstId, y)
              \/ q \notin old /\ s.parent # None
    BY <1>5, <2>6, Zenon DEF Same
  <2>11. ASSUME NEW t \in DOMAIN E, t \in DOMAIN h
         PROVE  Real(FirstId, t) \in DOMAIN F /\ F[Real(FirstId, t)] = E[t]
    <3>1. CASE t = u BY <2>7, <2>8, <3>1, Zenon
    <3>2. CASE t # u
      <4>1. t \in DOMAIN o /\ E[t] = o[t] BY <2>8, <2>11, <3>2, Zenon
      <4>2. t \in Refs BY <1>2, <2>11, Zenon
      <4>3. Real(FirstId, t) # Real(FirstId, u) BY <1>1, <2>9, <3>2, <4>2, Zenon
      <4>4. Real(FirstId, t) \in DOMAIN f /\ f[Real(FirstId, t)] = o[t] BY <2>10, <2>11, <4>1, Zenon
      <4> QED BY <2>7, <4>1, <4>3, <4>4, Zenon
    <3> QED BY <3>1, <3>2, Zenon
  <2>12. ASSUME NEW t \in DOMAIN F
         PROVE  \/ \E y \in DOMAIN E : y \in DOMAIN h /\ t = Real(FirstId, y)
                \/ q \notin old /\ s.parent # None
    <3>1. CASE t = Real(FirstId, u) BY <2>8, <2>9, <3>1, Zenon
    <3>2. CASE t # Real(FirstId, u)
      <4>1. t \in DOMAIN f BY <2>7, <2>12, <3>2, Zenon
      <4> QED BY <2>8, <2>10, <4>1, Zenon
    <3> QED BY <3>1, <3>2, Zenon
  <2>13. Same(FirstId, old, blank, DOMAIN h, q, d, e)
    BY <2>3, <2>4, <2>6, <2>10, <2>11, <2>12, Zenon DEF Same
  <2>14. \A t \in DOMAIN e.overwrites : t \in DOMAIN s.overwrites \cup DOMAIN h
    BY <2>6, <2>8, <2>9, Zenon
  <2> QED BY <2>1, <2>4, <2>5, <2>13, <2>14, Zenon
<1>9. ASSUME call.op = "Update"
      PROVE  LET e == Updated(h[q], shown)
                 d == Updated(g[Real(FirstId, q)], call)
             IN /\ SimGuild(FirstId, old, blank, With(g, Real(FirstId, q), d), With(h, q, e))
                /\ Below(With(h, q, e), next) /\ IsGuild(With(h, q, e))
  <2>1. PICK d, e : d = Updated(c, call) /\ e = Updated(s, shown) BY Zenon
  <2>2. /\ Same(FirstId, old, blank, DOMAIN h, q, d, e) /\ IsResource(e) /\ e.parent = s.parent
        /\ \A t \in DOMAIN e.overwrites : t \in DOMAIN s.overwrites \cup DOMAIN h
    BY <1>7, <1>9, <2>1, Zenon
  <2> QED BY <1>3, <1>6, <2>1, <2>2, Zenon
<1>10. ASSUME call.op = "Upsert"
       PROVE  LET e == Overwritten(h[q], shown)
                  d == Overwritten(g[Real(FirstId, q)], call)
              IN /\ SimGuild(FirstId, old, blank, With(g, Real(FirstId, q), d), With(h, q, e))
                 /\ Below(With(h, q, e), next) /\ IsGuild(With(h, q, e))
  <2>1. PICK d, e : d = Overwritten(c, call) /\ e = Overwritten(s, shown) BY Zenon
  <2>2. /\ Same(FirstId, old, blank, DOMAIN h, q, d, e) /\ IsResource(e) /\ e.parent = s.parent
        /\ \A t \in DOMAIN e.overwrites : t \in DOMAIN s.overwrites \cup DOMAIN h
    BY <1>8, <1>10, <2>1, Zenon
  <2> QED BY <1>3, <1>6, <2>1, <2>2, Zenon
<1> QED BY <1>9, <1>10, Zenon

\* What the service makes of a call it knows the resources of names nothing
\* that is not there.
LEMMA ClosedWith ==
  ASSUME NEW g, Closed(g), NEW q, NEW c, c.parent \in DOMAIN g \cup {None},
         DOMAIN c.overwrites \subseteq DOMAIN g
  PROVE  Closed(With(g, q, c))
<1> DEFINE G == With(g, q, c)
<1>1. /\ \A y : y \in DOMAIN G <=> y \in DOMAIN g \/ y = q
      /\ G[q] = c
      /\ \A y \in DOMAIN g : y # q => G[y] = g[y]
  BY WithFacts
<1> HIDE DEF G
<1>2. ASSUME NEW r \in DOMAIN G
      PROVE  G[r].parent \in DOMAIN G \cup {None} /\ DOMAIN G[r].overwrites \subseteq DOMAIN G
  <2>1. CASE r = q
    <3>1. G[r] = c BY <1>1, <2>1, Zenon
    <3> QED BY <1>1, <3>1, Zenon
  <2>2. CASE r # q
    <3>1. r \in DOMAIN g /\ G[r] = g[r] BY <1>1, <1>2, <2>2, Zenon
    <3>2. g[r].parent \in DOMAIN g \cup {None} /\ DOMAIN g[r].overwrites \subseteq DOMAIN g
      BY <3>1, Zenon DEF Closed
    <3> QED BY <1>1, <3>1, <3>2, Zenon
  <2> QED BY <2>1, <2>2, Zenon
<1> QED BY <1>2, Zenon DEF Closed, G

LEMMA ClosedEffect ==
  ASSUME NEW g, IsGuild(g), Closed(g), NEW call, IsCall(call), NEW id,
         {call.target, call.parent} \subseteq DOMAIN g \cup {None},
         call.op # "Create" => call.ref \in DOMAIN g
  PROVE  Closed(Effect(g, call, id))
<1>0. call.op \in {"Create", "Update", "Delete", "Upsert"} BY Zenon DEF IsCall
<1>1. CASE call.op = "Create"
  <2>1. PICK c, q : c = NewResource(g, call) /\ q = <<call.kind, id>> BY Zenon
  <2>2. /\ c.parent = call.parent
        /\ c.overwrites = IF call.parent \in DOMAIN g THEN g[call.parent].overwrites ELSE << >>
    BY <2>1, NewFields, Zenon
  <2>3. DOMAIN c.overwrites \subseteq DOMAIN g
    <3>1. CASE call.parent \in DOMAIN g BY <2>2, <3>1, Zenon DEF Closed
    <3>2. CASE call.parent \notin DOMAIN g
      <4>1. DOMAIN << >> = {} OBVIOUS
      <4> QED BY <2>2, <3>2, <4>1, Zenon
    <3> QED BY <3>1, <3>2, Zenon
  <2>4. Closed(With(g, q, c)) BY <2>2, <2>3, ClosedWith, Zenon
  <2>5. Effect(g, call, id) = With(g, q, c) BY <1>1, <2>1, EffectCases, Zenon
  <2> QED BY <2>4, <2>5, Zenon
<1>2. CASE call.op = "Update"
  <2>1. PICK c, q, d : q = call.ref /\ d = g[q] /\ c = Updated(d, call) BY Zenon
  <2>2. q \in DOMAIN g BY <1>2, <2>1, Zenon
  <2>3. IsResource(d) BY <2>1, <2>2, Zenon DEF IsGuild
  <2>4. c.parent = d.parent /\ c.overwrites = d.overwrites BY <2>1, <2>3, UpdatedFields, Zenon
  <2>5. c.parent \in DOMAIN g \cup {None} /\ DOMAIN c.overwrites \subseteq DOMAIN g
    BY <2>1, <2>2, <2>4, Zenon DEF Closed
  <2>6. Closed(With(g, q, c)) BY <2>5, ClosedWith, Zenon
  <2>7. Effect(g, call, id) = With(g, q, c) BY <1>2, <2>1, <2>2, EffectCases, Zenon
  <2> QED BY <2>6, <2>7, Zenon
<1>3. CASE call.op = "Upsert"
  <2>1. PICK c, q, d : q = call.ref /\ d = g[q] /\ c = Overwritten(d, call) BY Zenon
  <2>2. q \in DOMAIN g BY <1>3, <2>1, Zenon
  <2>3. IsResource(d) BY <2>1, <2>2, Zenon DEF IsGuild
  <2>4. c.parent = d.parent /\ c.overwrites = With(d.overwrites, call.target, call.value)
    BY <2>1, <2>3, OverwrittenFields, Zenon
  <2>5. call.target \in DOMAIN g BY <1>3, NotRefs, Zenon DEF IsCall
  <2>6. \A y : y \in DOMAIN c.overwrites <=> y \in DOMAIN d.overwrites \/ y = call.target
    <3>1. PICK f, t, v : f = d.overwrites /\ t = call.target /\ v = call.value BY Zenon
    <3>2. \A y : y \in DOMAIN With(f, t, v) <=> y \in DOMAIN f \/ y = t BY WithFacts, Zenon
    <3> QED BY <2>4, <3>1, <3>2, Zenon
  <2>7. c.parent \in DOMAIN g \cup {None} /\ DOMAIN c.overwrites \subseteq DOMAIN g
    BY <2>1, <2>2, <2>4, <2>5, <2>6, Zenon DEF Closed
  <2>8. Closed(With(g, q, c)) BY <2>7, ClosedWith, Zenon
  <2>9. Effect(g, call, id) = With(g, q, c) BY <1>3, <2>1, <2>2, EffectCases, Zenon
  <2> QED BY <2>8, <2>9, Zenon
<1>4. CASE call.op = "Delete"
  <2>1. PICK q : q = call.ref BY Zenon
  <2>2. q \in DOMAIN g BY <1>4, <2>1, Zenon
  <2>3. PICK G : G = Gone(g, q) BY Zenon
  <2>4. /\ \A y : y \in DOMAIN G <=> y \in DOMAIN g /\ y # q
        /\ \A y \in DOMAIN g : y # q => G[y] = Detached(g[y], {q})
    BY <2>3, GoneFacts, Zenon
  <2>5. ASSUME NEW r \in DOMAIN G
        PROVE  G[r].parent \in DOMAIN G \cup {None} /\ DOMAIN G[r].overwrites \subseteq DOMAIN G
    <3>1. PICK c, d : c = g[r] /\ d = G[r] BY Zenon
    <3>2. r \in DOMAIN g /\ d = Detached(c, {q}) BY <2>4, <2>5, <3>1, Zenon
    <3>3. IsResource(c) BY <3>1, <3>2, Zenon DEF IsGuild
    <3>4. /\ d.parent = IF c.parent = q THEN None ELSE c.parent
          /\ d.overwrites = Without(c.overwrites, q)
      BY <3>2, <3>3, DetachedFields, Zenon
    <3>5. \A y : y \in DOMAIN d.overwrites <=> y \in DOMAIN c.overwrites /\ y # q
      <4>1. PICK f : f = c.overwrites BY Zenon
      <4>2. \A y : y \in DOMAIN Without(f, q) <=> y \in DOMAIN f /\ y # q BY WithoutFacts, Zenon
      <4> QED BY <3>4, <4>1, <4>2, Zenon
    <3>6. c.parent \in DOMAIN g \cup {None} /\ DOMAIN c.overwrites \subseteq DOMAIN g
      BY <3>1, <3>2, Zenon DEF Closed
    <3>7. d.parent \in DOMAIN G \cup {None} BY <2>4, <3>4, <3>6, Zenon
    <3>8. DOMAIN d.overwrites \subseteq DOMAIN G BY <2>4, <3>5, <3>6, Zenon
    <3> QED BY <3>1, <3>7, <3>8, Zenon
  <2>6. Effect(g, call, id) = G BY <1>4, <2>1, <2>2, <2>3, EffectCases, Zenon
  <2> QED BY <2>5, <2>6, Zenon DEF Closed
<1> QED BY <1>0, <1>1, <1>2, <1>3, <1>4, Zenon

\* The state s of virtual-apply shows what the executor reached.
Simulated(s) ==
  /\ s.ok
  /\ s.next \in Nat /\ FirstId <= s.next /\ nextId = s.next - FirstId + FirstNewId
  /\ \A x : x \in DOMAIN s.bound <=> x \in DOMAIN bound
  /\ \A x \in DOMAIN bound : s.bound[x] \in Refs /\ bound[x] = Real(FirstId, s.bound[x])
  /\ IsGuild(s.guild) /\ Below(s.guild, s.next)
  /\ Closed(guild)
  /\ SimGuild(FirstId, DOMAIN snapshot, Defaulted(s.bound), guild, s.guild)

Shown == Applied(desired, snapshot, plan.nodes)[Len(steps)]

PreviewInv == CleanRun => Simulated(Shown)

LEMMA SimulatedAtFirst == Init => PreviewInv
<1> SUFFICES ASSUME Init PROVE Simulated(Shown) BY Zenon DEF PreviewInv
<1>0. RequestInv BY InvInit, Zenon DEF Inv
<1>1. guild = snapshot /\ bound = << >> /\ nextId = FirstNewId /\ steps = << >>
  BY Zenon DEF Init
<1>2. Shown = Unapplied(snapshot)
  <2>1. Len(steps) = 0 BY <1>1, Zenon
  <2> QED BY <2>1, AppliedStep DEF Shown
<1>3. /\ Shown.ok /\ Shown.guild = snapshot /\ Shown.bound = << >> /\ Shown.next = FirstId
  BY <1>2, Zenon DEF Unapplied, FirstId
<1>4. /\ FirstId \in Nat /\ FirstNewId \in Nat /\ 0 < FirstId
      /\ \A r \in DOMAIN snapshot : r[2] < FirstId
  BY <1>0, FirstIdFacts, RequestFacts, Zenon
<1>5. IsGuild(snapshot) BY <1>0, RequestFacts, Zenon
<1>6. /\ \A r \in DOMAIN snapshot : Real(FirstId, r) = r
      /\ Real(FirstId, None) = None
  BY <1>0, RealFacts, Zenon
<1>7. \A r \in DOMAIN snapshot : /\ snapshot[r].parent \in DOMAIN snapshot \cup {None}
                                 /\ DOMAIN snapshot[r].overwrites \subseteq DOMAIN snapshot
  BY <1>0, RequestFacts, Zenon
<1> DEFINE old == DOMAIN snapshot
           blank == Defaulted(Shown.bound)
<1> HIDE DEF blank
<1>8. ASSUME NEW r \in DOMAIN snapshot
      PROVE  Same(FirstId, old, blank, DOMAIN snapshot, r, snapshot[Real(FirstId, r)], snapshot[r])
  <2>1. PICK c : c = snapshot[r] BY Zenon
  <2>2. c.parent \in DOMAIN snapshot \cup {None} /\ DOMAIN c.overwrites \subseteq DOMAIN snapshot
    BY <1>7, <1>8, <2>1, Zenon
  <2>3. c.parent = IF c.parent \in DOMAIN snapshot THEN Real(FirstId, c.parent) ELSE None
    BY <1>6, <2>2, Zenon
  <2>4. \A t \in DOMAIN c.overwrites : Real(FirstId, t) = t /\ t \in DOMAIN snapshot
    BY <1>6, <2>2, Zenon
  <2>5. Same(FirstId, old, blank, DOMAIN snapshot, r, c, c) BY <2>3, <2>4, Zenon DEF Same
  <2>6. snapshot[Real(FirstId, r)] = c BY <1>6, <1>8, <2>1, Zenon
  <2> QED BY <2>1, <2>5, <2>6, Zenon
<1>9. SimGuild(FirstId, old, blank, snapshot, snapshot) BY <1>6, <1>8, Zenon DEF SimGuild
<1>10. Below(snapshot, FirstId)
  <2>1. None[2] = 0 BY Zenon DEF None
  <2>2. ASSUME NEW r \in DOMAIN snapshot
        PROVE  /\ r[2] < FirstId /\ snapshot[r].parent[2] < FirstId
               /\ \A t \in DOMAIN snapshot[r].overwrites : t[2] < FirstId
    <3>1. snapshot[r].parent[2] < FirstId BY <1>4, <1>7, <2>1, Zenon
    <3> QED BY <1>4, <1>7, <3>1, Zenon
  <2> QED BY <2>2, Zenon DEF Below
<1>11. Closed(snapshot) BY <1>7, Zenon DEF Closed
<1>12. nextId = Shown.next - FirstId + FirstNewId /\ FirstId <= Shown.next BY <1>1, <1>3, <1>4
<1>13. (\A x : x \in DOMAIN Shown.bound <=> x \in DOMAIN bound) /\ DOMAIN bound = {}
  BY <1>1, <1>3
<1> QED BY <1>1, <1>3, <1>4, <1>5, <1>9, <1>10, <1>11, <1>12, <1>13, Zenon DEF Simulated, blank

LEMMA KeyRefSim ==
  ASSUME RequestInv, NEW b, \A x : x \in DOMAIN b <=> x \in DOMAIN bound,
         \A x \in DOMAIN bound : b[x] \in Refs /\ bound[x] = Real(FirstId, b[x]),
         NEW kind, NEW key
  PROVE  /\ KeyRef(desired, snapshot, b, kind, key) \in Refs \cup {Missing, Conflict}
         /\ KeyRef(desired, snapshot, bound, kind, key)
              = Real(FirstId, KeyRef(desired, snapshot, b, kind, key))
<1>0. /\ \A r \in DOMAIN snapshot : Real(FirstId, r) = r
      /\ Real(FirstId, Missing) = Missing /\ Real(FirstId, Conflict) = Conflict
  BY RealFacts, Zenon
<1>1. CASE <<kind, key>> \in DOMAIN bound BY <1>1, Zenon DEF KeyRef
<1>2. CASE <<kind, key>> \notin DOMAIN bound /\ Declared(desired, kind, key) = {}
  BY <1>0, <1>2, Zenon DEF KeyRef
<1>3. CASE <<kind, key>> \notin DOMAIN bound /\ Declared(desired, kind, key) # {}
  <2> DEFINE n == CHOOSE m \in Declared(desired, kind, key) : TRUE
  <2>1. n \in Declared(desired, kind, key) BY <1>3, Zenon
  <2>2. /\ KeyRef(desired, snapshot, bound, kind, key) = Resolve(snapshot, desired[n])
        /\ KeyRef(desired, snapshot, b, kind, key) = Resolve(snapshot, desired[n])
    BY <1>3, Zenon DEF KeyRef, IntentOf
  <2> HIDE DEF n
  <2>3. n \in DOMAIN desired BY <2>1, Zenon DEF Declared
  <2>4. Resolve(snapshot, desired[n]) \in DOMAIN snapshot \cup {Missing, Conflict}
    BY <2>3, RequestFacts, ResolveType, Zenon
  <2> QED BY <1>0, <2>2, <2>4, RequestFacts, Zenon
<1> QED BY <1>1, <1>2, <1>3, Zenon

\* Two calls that are the same but for the ids.
SimCall(call, shown) ==
  /\ call.op = shown.op /\ call.kind = shown.kind
  /\ call.name = shown.name /\ call.value = shown.value
  /\ call.op # "Create" => shown.ref \in Refs /\ call.ref = Real(FirstId, shown.ref)
  /\ call.op = "Upsert" => shown.target \in Refs /\ call.target = Real(FirstId, shown.target)
  /\ call.op = "Create" => call.parent = Real(FirstId, shown.parent)

\* The call virtual-apply makes for the next operation.  The key it binds
\* first is none the call looks up: the executor found it unbound and did not
\* fail to resolve anything.
LEMMA ShownCall ==
  ASSUME JobInv, RunOp("Ok"), NEW s, Simulated(s), NEW b,
         NextCall.op # "Create" => b = s.bound,
         NextCall.op = "Create" =>
           b = With(s.bound, <<NextCall.kind, NextNode.key>>, <<NextCall.kind, s.next>>),
         NEW e, e = Call(desired, snapshot, b, NextNode)
  PROVE  SimCall(NextCall, e) /\ Resolved(e) /\ IsCall(e)
<1> DEFINE p == NextPlace
           c == NextCall
           i == desired[p[1]]
           o == i.overwrites[p[2]]
<1>0. RequestInv /\ TypeInv /\ BoundInv BY Zenon DEF JobInv, Inv
<1>1. /\ CallAt(desired, snapshot, bound, p, NextNode, c)
      /\ IsCall(c) /\ Resolved(c)
  BY OkStep, Zenon
<1>2. CallAt(desired, snapshot, b, p, NextNode, e)
  <2>1. Running BY Zenon DEF RunOp
  <2>2. /\ p \in Places(snapshot, desired)
        /\ NextNode = NodeAt(snapshot, desired, p)
        /\ NodeAt(snapshot, desired, p).op \notin {"NoOp", "Conflict"}
    BY <1>0, <2>1, NextPlaceFacts, Zenon
  <2> HIDE DEF p
  <2> QED BY <1>0, <2>2, RequestFacts, CallFacts, Zenon
<1>3. \A kind, key :
        /\ KeyRef(desired, snapshot, s.bound, kind, key) \in Refs \cup {Missing, Conflict}
        /\ KeyRef(desired, snapshot, bound, kind, key)
             = Real(FirstId, KeyRef(desired, snapshot, s.bound, kind, key))
  BY <1>0, KeyRefSim, Zenon DEF Simulated
<1>4. Real(FirstId, EveryoneRole) = EveryoneRole /\ EveryoneRole \in Refs
  BY <1>0, RealFacts, RequestFacts, Zenon
<1>5. Real(FirstId, None) = None /\ Real(FirstId, Missing) = Missing /\ Real(FirstId, Conflict) = Conflict
  BY <1>0, RealFacts, Zenon
<1>6. PICK k : k = p[1] BY Zenon
<1> HIDE DEF p, c
<1>7. /\ e.op = c.op /\ e.kind = c.kind /\ e.name = c.name /\ e.value = c.value
      /\ c.op \in {"Create", "Update", "Delete", "Upsert"}
  BY <1>1, <1>2, Zenon DEF CallAt
<1>8. c.op # "Create" => /\ e.ref \in Refs \cup {Missing, Conflict} /\ c.ref = Real(FirstId, e.ref)
                         /\ e.parent = None /\ c.parent = None
  <2> SUFFICES ASSUME c.op # "Create"
               PROVE  /\ e.ref \in Refs \cup {Missing, Conflict} /\ c.ref = Real(FirstId, e.ref)
                      /\ e.parent = None /\ c.parent = None
    BY Zenon
  <2>1. b = s.bound BY Zenon DEF c
  <2>2. e.ref = KeyRef(desired, snapshot, b, i.kind, i.key) /\ e.parent = None
    BY <1>2, <1>7, Zenon DEF CallAt
  <2>3. c.ref = KeyRef(desired, snapshot, bound, i.kind, i.key) /\ c.parent = None
    BY <1>1, <1>7, Zenon DEF CallAt
  <2>4. /\ KeyRef(desired, snapshot, s.bound, i.kind, i.key) \in Refs \cup {Missing, Conflict}
        /\ KeyRef(desired, snapshot, bound, i.kind, i.key)
             = Real(FirstId, KeyRef(desired, snapshot, s.bound, i.kind, i.key))
    BY <1>3, Zenon
  <2> QED BY <2>1, <2>2, <2>3, <2>4, Zenon
<1>9. c.op = "Create" => /\ e.ref = None /\ c.ref = None
                         /\ e.parent \in Refs \cup {None, Missing, Conflict}
                         /\ c.parent = Real(FirstId, e.parent)
  <2> SUFFICES ASSUME c.op = "Create"
               PROVE  /\ e.ref = None /\ c.ref = None
                      /\ e.parent \in Refs \cup {None, Missing, Conflict}
                      /\ c.parent = Real(FirstId, e.parent)
    BY Zenon
  <2>1. /\ e.ref = None
        /\ e.parent = IF i.parent = NoKey THEN None
                      ELSE KeyRef(desired, snapshot, b, "Channel", i.parent)
    BY <1>2, <1>7, Zenon DEF CallAt
  <2>2. /\ c.ref = None /\ c.kind = i.kind /\ NextNode.key = i.key /\ p[1] \in DOMAIN desired
        /\ c.parent = IF i.parent = NoKey THEN None
                      ELSE KeyRef(desired, snapshot, bound, "Channel", i.parent)
    BY <1>1, Zenon DEF CallAt
  <2>3. CASE i.parent = NoKey BY <1>5, <2>1, <2>2, <2>3, Zenon
  <2>4. CASE i.parent # NoKey
    <3> DEFINE x == <<i.kind, i.key>>
               y == <<"Channel", i.parent>>
    <3>1. c.parent # Missing BY <1>1, Zenon DEF Resolved
    <3>2. x # y
      <4>1. k = NextPlace[1] BY <1>6, Zenon DEF p
      <4>2. Ref(k) = Missing BY <4>1, KeyRefStep, Zenon DEF c
      <4>3. KeyRef(desired, snapshot, bound, i.kind, i.key) = IntentRef(snapshot, bound, i)
        BY <1>0, <2>2, RequestFacts, KeyRefOfIntent, Zenon
      <4>4. KeyRef(desired, snapshot, bound, i.kind, i.key) = Missing
        BY <1>6, <4>2, <4>3, Zenon DEF Ref
      <4> SUFFICES ASSUME x = y PROVE FALSE BY Zenon
      <4>5. i.kind = "Channel" /\ i.key = i.parent BY Zenon
      <4> QED BY <2>2, <2>4, <3>1, <4>4, <4>5, Zenon
    <3>3. b = With(s.bound, x, <<c.kind, s.next>>) BY <2>2, Zenon DEF c
    <3>4. (y \in DOMAIN b <=> y \in DOMAIN s.bound) /\ (y \in DOMAIN s.bound => b[y] = s.bound[y])
      BY <3>2, <3>3, WithFacts
    <3>5. KeyRef(desired, snapshot, b, "Channel", i.parent)
            = KeyRef(desired, snapshot, s.bound, "Channel", i.parent)
      BY <3>4, Zenon DEF KeyRef
    <3> QED BY <1>3, <2>1, <2>2, <2>4, <3>5
  <2> QED BY <2>3, <2>4, Zenon
<1>10. c.op # "Upsert" => e.target = None /\ c.target = None
  BY <1>1, <1>2, <1>7, Zenon DEF CallAt
<1>11. c.op = "Upsert" => e.target \in Refs \cup {Missing, Conflict} /\ c.target = Real(FirstId, e.target)
  <2> SUFFICES ASSUME c.op = "Upsert"
               PROVE  e.target \in Refs \cup {Missing, Conflict} /\ c.target = Real(FirstId, e.target)
    BY Zenon
  <2>1. b = s.bound BY Zenon DEF c
  <2>2. e.target = TargetRef(desired, snapshot, b, o.target)
    BY <1>2, <1>7, Zenon DEF CallAt
  <2>3. c.target = TargetRef(desired, snapshot, bound, o.target)
    BY <1>1, Zenon DEF CallAt
  <2> QED BY <1>3, <1>4, <2>1, <2>2, <2>3 DEF TargetRef
<1>12. /\ c.ref \notin {Missing, Conflict} /\ c.target \notin {Missing, Conflict}
       /\ c.parent \notin {Missing, Conflict}
  BY <1>1, Zenon DEF Resolved
<1>13. /\ e.ref \notin {Missing, Conflict} /\ e.target \notin {Missing, Conflict}
       /\ e.parent \notin {Missing, Conflict}
  <2>1. e.ref \notin {Missing, Conflict} BY <1>5, <1>8, <1>9, <1>12, NotRefs, Zenon
  <2>2. e.target \notin {Missing, Conflict} BY <1>5, <1>10, <1>11, <1>12, NotRefs, Zenon
  <2>3. e.parent \notin {Missing, Conflict} BY <1>5, <1>8, <1>9, <1>12, NotRefs, Zenon
  <2> QED BY <2>1, <2>2, <2>3, Zenon
<1>14. Resolved(e) BY <1>13, Zenon DEF Resolved
<1>15. SimCall(c, e) BY <1>7, <1>8, <1>9, <1>11, <1>13, Zenon DEF SimCall
<1>16. e.parent \in Refs \cup {None} BY <1>8, <1>9, <1>13, Zenon
<1>17. IsCall(e)
  <2>1. /\ c.kind \in Kinds
        /\ c.op \in {"Create", "Update"} => c.name \in STRING
        /\ c.value \in Nat \cup {Unset}
        /\ c.op = "Create" => c.name # NoKey
        /\ c.op = "Upsert" => c.value \in Nat
    BY <1>1, Zenon DEF IsCall
  <2> QED BY <1>7, <1>11, <1>13, <1>16, <2>1, Zenon DEF IsCall
<1> QED BY <1>14, <1>15, <1>17, Zenon DEF c

\* What virtual-apply makes of the next operation, by its call.
LEMMA ShownGuild ==
  ASSUME JobInv, RunOp("Ok"), NEW s, Simulated(s), NEW b,
         NextCall.op # "Create" => b = s.bound,
         NextCall.op = "Create" =>
           b = With(s.bound, <<NextCall.kind, NextNode.key>>, <<NextCall.kind, s.next>>),
         NEW e, e = Call(desired, snapshot, b, NextNode), Resolved(e),
         NEW w, w = ApplyOperation(desired, snapshot, s, NextNode)
  PROVE  /\ w.ok /\ w.bound = b
         /\ w.next = IF NextCall.op = "Create" THEN s.next + 1 ELSE s.next
         /\ NextCall.op = "Create" =>
              w.guild = With(s.guild, <<NextCall.kind, s.next>>, ShownNew(e, e.parent))
         /\ NextCall.op = "Delete" => w.guild = Without(s.guild, e.ref)
         /\ NextCall.op = "Update" /\ e.ref \in DOMAIN s.guild =>
              w.guild = With(s.guild, e.ref, Updated(s.guild[e.ref], e))
         /\ NextCall.op = "Upsert" /\ e.ref \in DOMAIN s.guild =>
              w.guild = With(s.guild, e.ref, Overwritten(s.guild[e.ref], e))
<1> DEFINE c == NextCall
           node == NextNode
           kind == IF node.kind = "Role" THEN "Role" ELSE "Channel"
           intent == IntentOf(desired, kind, node.key)
           creates == Produces(node) # {}
           first == IF creates THEN Bind(s.bound, node, <<kind, s.next>>) ELSE s.bound
           ref == KeyRef(desired, snapshot, b, kind, node.key)
           parent == IF creates /\ intent.parent # NoKey
                     THEN KeyRef(desired, snapshot, b, "Channel", intent.parent) ELSE None
           target == IF node.kind = "Overwrite"
                     THEN TargetRef(desired, snapshot, b, node.target) ELSE None
           edited == IF node.kind = "Overwrite"
                     THEN ShownOverwrite(s.guild[ref], target, OverwriteValue(intent, node.target))
                     ELSE ShownUpdate(s.guild[ref], intent)
           after == CASE creates -> With(s.guild, ref, ShownNew(intent, parent))
                      [] node.op = "Delete" -> Restrict(s.guild, DOMAIN s.guild \ {ref})
                      [] ~creates /\ node.op # "Delete" /\ ref \in DOMAIN s.guild ->
                           With(s.guild, ref, edited)
                      [] OTHER -> s.guild
<1>0. RequestInv /\ TypeInv /\ BoundInv BY Zenon DEF JobInv, Inv
<1>1. /\ CallAt(desired, snapshot, bound, NextPlace, node, c)
      /\ IsCall(c) /\ c.kind = kind
      /\ NextNode = NodeAt(snapshot, desired, NextPlace)
      /\ NextPlace = <<NextPlace[1], NextPlace[2]>>
  BY OkStep, Zenon DEF NextCall, Call
<1>2. creates <=> c.op = "Create" BY <1>1, Zenon DEF CallAt
<1>3. c.op = "Create" => c.kind = node.kind BY <1>1, Zenon DEF CallAt
<1>4. first = b BY <1>1, <1>2, <1>3, Zenon DEF Bind
<1>5. /\ c.op = "Upsert" <=> node.kind = "Overwrite"
      /\ c.op # "Upsert" => node.op = c.op
  <2>1. c.op = IF node.kind = "Overwrite" THEN "Upsert" ELSE node.op BY Zenon DEF NextCall, Call
  <2>2. c.op = "Upsert" => node.kind = "Overwrite" BY <1>1, Zenon DEF CallAt
  <2> QED BY <2>1, <2>2, Zenon
<1>6. c.op = "Upsert" => node.op # "Delete"
  <2>1. PICK n, m : NextPlace = <<n, m>> BY <1>1, Zenon
  <2>2. node = NodeAt(snapshot, desired, <<n, m>>) BY <1>1, <2>1, Zenon
  <2> HIDE DEF node, c
  <2> SUFFICES ASSUME c.op = "Upsert" PROVE node.op # "Delete" BY Zenon
  <2>3. m # 0
    <3>1. NextPlace[2] = m BY <2>1
    <3> QED BY <1>1, <3>1, Zenon DEF CallAt
  <2>4. node.op = OverwriteChange(snapshot, desired, desired[n], desired[n].overwrites[m])
    BY <2>2, <2>3, Zenon DEF NodeAt, ChangeAt
  <2> QED BY <2>4 DEF OverwriteChange
<1>7. creates <=> node.op = "Create" /\ node.kind # "Overwrite" BY Zenon DEF Produces
<1>8. /\ e.name = intent.name /\ e.kind = kind
      /\ e.value = IF node.kind = "Overwrite" THEN OverwriteValue(intent, node.target)
                   ELSE intent.value
      /\ e.parent = parent /\ e.target = target
      /\ ~creates => e.ref = ref
  <2> DEFINE create == node.op = "Create" /\ ~(node.kind = "Overwrite")
             own == IF create THEN None ELSE ref
             above == IF create /\ intent.parent # NoKey
                      THEN KeyRef(desired, snapshot, b, "Channel", intent.parent) ELSE None
             op == IF node.kind = "Overwrite" THEN "Upsert" ELSE node.op
             value == IF node.kind = "Overwrite" THEN OverwriteValue(intent, node.target)
                      ELSE intent.value
  <2>1. e = [op |-> op, kind |-> kind, ref |-> own, target |-> target, name |-> intent.name,
             value |-> value, parent |-> above]
    BY Zenon DEF Call
  <2>2. above = parent /\ (~creates => own = ref) BY <1>7, Zenon
  <2> HIDE DEF op, kind, own, target, value, above, intent, ref, parent, creates
  <2>3. /\ e.name = intent.name /\ e.kind = kind /\ e.value = value
        /\ e.parent = above /\ e.target = target /\ e.ref = own
    BY <2>1
  <2> QED BY <2>2, <2>3, Zenon DEF value
<1>9. creates => ref = <<kind, s.next>>
  <2> SUFFICES ASSUME creates PROVE ref = <<kind, s.next>> BY Zenon
  <2>1. PICK x, r : x = <<kind, node.key>> /\ r = <<kind, s.next>> BY Zenon
  <2>2. b = With(s.bound, x, r) BY <1>1, <1>2, <2>1, Zenon
  <2>3. x \in DOMAIN b /\ b[x] = r BY <2>2, WithFacts, Zenon
  <2> QED BY <2>1, <2>3, Zenon DEF KeyRef
<1>10. ref \notin {Missing, Conflict}
  <2>1. CASE creates
    <3>1. <<kind, s.next>> \in Refs BY <1>1, Zenon DEF Simulated, Refs, IsCall
    <3> QED BY <1>9, <2>1, <3>1, NotRefs, Zenon
  <2>2. CASE ~creates BY <1>8, <2>2, Zenon DEF Resolved
  <2> QED BY <2>1, <2>2, Zenon
<1>11. w = IF ~s.ok \/ {ref, target, parent} \cap {Missing, Conflict} # {}
           THEN [s EXCEPT !.ok = FALSE]
           ELSE [ok |-> TRUE, guild |-> after, bound |-> b,
                 next |-> IF creates THEN s.next + 1 ELSE s.next]
  <2> DEFINE refOf(t) == KeyRef(desired, snapshot, t, kind, node.key)
             parentOf(t) == IF creates /\ intent.parent # NoKey
                            THEN KeyRef(desired, snapshot, t, "Channel", intent.parent) ELSE None
             targetOf(t) == IF node.kind = "Overwrite"
                            THEN TargetRef(desired, snapshot, t, node.target) ELSE None
             applied(t) ==
               IF ~s.ok \/ {refOf(t), targetOf(t), parentOf(t)} \cap {Missing, Conflict} # {}
               THEN [s EXCEPT !.ok = FALSE]
               ELSE [ok |-> TRUE,
                     guild |->
                       CASE creates -> With(s.guild, refOf(t), ShownNew(intent, parentOf(t)))
                         [] node.op = "Delete" -> Restrict(s.guild, DOMAIN s.guild \ {refOf(t)})
                         [] ~creates /\ node.op # "Delete" /\ refOf(t) \in DOMAIN s.guild ->
                              With(s.guild, refOf(t),
                                   IF node.kind = "Overwrite"
                                   THEN ShownOverwrite(s.guild[refOf(t)], targetOf(t),
                                                       OverwriteValue(intent, node.target))
                                   ELSE ShownUpdate(s.guild[refOf(t)], intent))
                         [] OTHER -> s.guild,
                     bound |-> t,
                     next |-> IF creates THEN s.next + 1 ELSE s.next]
  <2>1. ApplyOperation(desired, snapshot, s, node) = applied(first)
    <3> HIDE DEF node
    <3> QED BY Zenon DEF ApplyOperation
  <2>2. applied(first) = applied(b)
    <3> HIDE DEF applied, first
    <3> QED BY <1>4, Zenon
  <2>3. w = applied(b)
    <3> HIDE DEF applied, first
    <3> QED BY <2>1, <2>2, Zenon
  <2> QED BY <2>3, Zenon
<1> HIDE DEF c, node, kind, intent, creates, first, ref, parent, target, after
<1>12. s.ok /\ {ref, target, parent} \cap {Missing, Conflict} = {}
  <2>1. s.ok BY Zenon DEF Simulated
  <2>2. target \notin {Missing, Conflict} /\ parent \notin {Missing, Conflict}
    BY <1>8, Zenon DEF Resolved
  <2> QED BY <1>10, <2>1, <2>2, Zenon
<1>13. /\ w.ok /\ w.bound = b /\ w.guild = after
       /\ w.next = IF creates THEN s.next + 1 ELSE s.next
  <2>1. w = [ok |-> TRUE, guild |-> after, bound |-> b,
             next |-> IF creates THEN s.next + 1 ELSE s.next]
    BY <1>11, <1>12, Zenon
  <2> QED BY <2>1
<1>14. c.op \in {"Create", "Update", "Delete", "Upsert"} BY <1>1, Zenon DEF IsCall
<1>15. CASE c.op = "Create"
  <2>1. after = With(s.guild, ref, ShownNew(intent, parent))
    <3>1. creates /\ node.op # "Delete" BY <1>2, <1>7, <1>15, Zenon
    <3> QED BY <3>1, Zenon DEF after
  <2>2. ShownNew(intent, parent) = ShownNew(e, e.parent)
    BY <1>2, <1>7, <1>8, <1>15, Zenon DEF ShownNew
  <2> QED BY <1>1, <1>2, <1>9, <1>13, <1>15, <2>1, <2>2, Zenon DEF c
<1>16. CASE c.op = "Delete"
  <2>1. ~creates /\ node.op = "Delete" BY <1>2, <1>5, <1>16, Zenon
  <2>2. after = Without(s.guild, ref) BY <2>1, Zenon DEF after, Without
  <2> QED BY <1>2, <1>8, <1>13, <1>16, <2>1, <2>2, Zenon DEF c
<1>17. CASE c.op \in {"Update", "Upsert"}
  <2>1. ~creates /\ node.op # "Delete" BY <1>2, <1>5, <1>6, <1>17, Zenon
  <2>2. ref \in DOMAIN s.guild => after = With(s.guild, ref, edited) BY <2>1, Zenon DEF after
  <2>3. c.op = "Update" => edited = Updated(s.guild[ref], e)
    BY <1>5, <1>8, Zenon DEF ShownUpdate, Updated
  <2>4. c.op = "Upsert" => edited = Overwritten(s.guild[ref], e)
    BY <1>5, <1>8, Zenon DEF ShownOverwrite, Overwritten
  <2> HIDE DEF edited
  <2> QED BY <1>2, <1>8, <1>13, <1>17, <2>1, <2>2, <2>3, <2>4, Zenon DEF c
<1> QED BY <1>14, <1>15, <1>16, <1>17, Zenon DEF c

\* A role created without permissions stays one.
LEMMA DefaultedStays ==
  ASSUME NEW b, NEW d,
         \A key : KeyRef(desired, snapshot, b, "Role", key) \in Refs =>
           KeyRef(desired, snapshot, d, "Role", key) = KeyRef(desired, snapshot, b, "Role", key)
  PROVE  Defaulted(b) \subseteq Defaulted(d)
BY Zenon DEF Defaulted

LEMMA ShownIsResource ==
  ASSUME NEW e, IsCall(e), e.op = "Create", NEW s, s = ShownNew(e, e.parent)
  PROVE  /\ IsResource(s) /\ s.name = e.name /\ s.value = Given(e.value, 0, Unset)
         /\ s.parent = e.parent /\ s.overwrites = << >>
<1>1. PICK v : v = Given(e.value, 0, Unset) BY Zenon
<1>2. v \in Nat
  <2>1. 0 \in Nat OBVIOUS
  <2> QED BY <1>1, <2>1, GivenType, Zenon DEF IsCall
<1>3. e.name \in STRING \ {NoKey} /\ e.parent \in Refs \cup {None} BY Zenon DEF IsCall
<1>4. s = [name |-> e.name, value |-> v, parent |-> e.parent, overwrites |-> << >>]
  BY <1>1, Zenon DEF ShownNew
<1>5. DOMAIN << >> \subseteq Refs /\ << >> \in [DOMAIN << >> -> Nat] OBVIOUS
<1>6. /\ s.name = e.name /\ s.value = v /\ s.parent = e.parent /\ s.overwrites = << >>
  BY <1>4
<1>7. IsResource(s) BY <1>2, <1>3, <1>4, <1>5, <1>6 DEF IsResource
<1> QED BY <1>1, <1>6, <1>7, Zenon

\* The bindings of the next operation, and what they make of the guilds when
\* it is a creation.
LEMMA ShownCreate ==
  ASSUME JobInv, RunOp("Ok"), NEW s, Simulated(s), NextCall.op = "Create", NEW b,
         b = With(s.bound, <<NextCall.kind, NextNode.key>>, <<NextCall.kind, s.next>>),
         NEW e, SimCall(NextCall, e), IsCall(e), NEW h,
         h = With(s.guild, <<NextCall.kind, s.next>>, ShownNew(e, e.parent))
  PROVE  /\ IsGuild(h) /\ Below(h, s.next + 1)
         /\ SimGuild(FirstId, DOMAIN snapshot, Defaulted(b), guild', h)
<1>0. RequestInv /\ TypeInv /\ BoundInv BY Zenon DEF JobInv, Inv
<1>1. /\ CallAt(desired, snapshot, bound, NextPlace, NextNode, NextCall)
      /\ IsCall(NextCall) /\ Known(NextCall)
      /\ guild' = Effect(guild, NextCall, nextId)
  BY OkStep, Zenon
<1>2. /\ s.next \in Nat /\ FirstId <= s.next /\ nextId = s.next - FirstId + FirstNewId
      /\ \A y : y \in DOMAIN s.bound <=> y \in DOMAIN bound
      /\ \A y \in DOMAIN bound : s.bound[y] \in Refs /\ bound[y] = Real(FirstId, s.bound[y])
      /\ IsGuild(s.guild) /\ Below(s.guild, s.next)
      /\ SimGuild(FirstId, DOMAIN snapshot, Defaulted(s.bound), guild, s.guild)
  BY Zenon DEF Simulated
<1>3. /\ FirstId \in Nat /\ FirstNewId \in Nat /\ 0 < FirstId
      /\ \A r \in DOMAIN snapshot : r[2] < FirstId
  BY <1>0, FirstIdFacts, RequestFacts, Zenon
<1>4. IsGuild(guild) BY <1>0, Zenon DEF TypeInv
<1>5. PICK c, k, q, x : /\ c = NextCall /\ k = NextPlace[1]
                        /\ q = <<c.kind, s.next>> /\ x = <<c.kind, NextNode.key>>
  BY Zenon
<1>6. /\ c.kind \in Kinds /\ c.op = "Create" /\ IsCall(c) BY <1>1, <1>5, Zenon DEF IsCall
<1>7. q \in Refs /\ <<c.kind, nextId>> = Real(FirstId, q) /\ q[2] = s.next /\ q[1] = c.kind
  BY <1>2, <1>3, <1>5, <1>6 DEF Real, Refs
<1>8. q \notin DOMAIN snapshot
  <2>1. ~(s.next < FirstId) BY <1>2, <1>3
  <2> QED BY <1>3, <1>7, <2>1, Zenon
<1>9. /\ k \in DOMAIN desired /\ c.kind = desired[k].kind /\ NextNode.key = desired[k].key
      /\ c.value = desired[k].value
  <2>1. /\ CallAt(desired, snapshot, bound, NextPlace, NextNode, c) BY <1>1, <1>5, Zenon
  <2>2. NextPlace[2] = 0 BY <1>6, <2>1, Zenon DEF CallAt
  <2> QED BY <1>5, <2>1, <2>2, Zenon DEF CallAt
<1>10. b = With(s.bound, x, q) BY <1>5, Zenon
<1>11. /\ \A y : y \in DOMAIN b <=> y \in DOMAIN s.bound \/ y = x
       /\ b[x] = q
       /\ \A y \in DOMAIN s.bound : y # x => b[y] = s.bound[y]
  BY <1>10, WithFacts
<1>12. KeyRef(desired, snapshot, s.bound, c.kind, NextNode.key) \notin Refs
  <2>1. PICK t : t = KeyRef(desired, snapshot, s.bound, c.kind, NextNode.key) BY Zenon
  <2>2. KeyRef(desired, snapshot, bound, c.kind, NextNode.key) = Real(FirstId, t)
    BY <1>0, <1>2, <2>1, KeyRefSim, Zenon
  <2>3. KeyRef(desired, snapshot, bound, c.kind, NextNode.key) = IntentRef(snapshot, bound, desired[k])
    BY <1>0, <1>9, RequestFacts, KeyRefOfIntent, Zenon
  <2>4. Ref(k) = Missing BY <1>5, KeyRefStep, Zenon
  <2>5. Real(FirstId, t) = Missing BY <2>2, <2>3, <2>4, Zenon DEF Ref
  <2>6. Real(FirstId, t) \notin Refs BY <2>5, NotRefs, Zenon
  <2> QED BY <1>0, <2>1, <2>6, RealFacts, Zenon
<1>13. Defaulted(s.bound) \subseteq Defaulted(b)
  <2>1. ASSUME NEW key, KeyRef(desired, snapshot, s.bound, "Role", key) \in Refs
        PROVE  KeyRef(desired, snapshot, b, "Role", key) = KeyRef(desired, snapshot, s.bound, "Role", key)
    <3>1. PICK y : y = <<"Role", key>> BY Zenon
    <3>2. y # x
      <4> SUFFICES ASSUME y = x PROVE FALSE BY Zenon
      <4>1. c.kind = "Role" /\ NextNode.key = key BY <1>5, <3>1
      <4> QED BY <1>12, <2>1, <4>1, Zenon
    <3>3. (y \in DOMAIN b <=> y \in DOMAIN s.bound) /\ (y \in DOMAIN s.bound => b[y] = s.bound[y])
      BY <1>11, <3>2, Zenon
    <3> QED BY <3>1, <3>3, Zenon DEF KeyRef
  <2>2. PICK a : a = s.bound BY Zenon
  <2>3. \A key : KeyRef(desired, snapshot, a, "Role", key) \in Refs =>
          KeyRef(desired, snapshot, b, "Role", key) = KeyRef(desired, snapshot, a, "Role", key)
    BY <2>1, <2>2, Zenon
  <2>4. Defaulted(a) \subseteq Defaulted(b) BY <2>3, DefaultedStays, Zenon
  <2> QED BY <2>2, <2>4, Zenon
<1>14. c.kind = "Role" /\ c.value = Unset => q \in Defaulted(b)
  <2> SUFFICES ASSUME c.kind = "Role", c.value = Unset PROVE q \in Defaulted(b) BY Zenon
  <2>1. KeyRef(desired, snapshot, b, "Role", desired[k].key) = q
    <3>1. x = <<"Role", desired[k].key>> BY <1>5, <1>9, Zenon
    <3> QED BY <1>11, <3>1, Zenon DEF KeyRef
  <2> QED BY <1>7, <1>8, <1>9, <2>1, Zenon DEF Defaulted
<1>15. PICK n, d : n = ShownNew(e, e.parent) /\ d = NewResource(guild, c) BY Zenon
<1>16. /\ c.op = e.op /\ c.name = e.name /\ c.value = e.value
       /\ c.parent = Real(FirstId, e.parent)
  BY <1>5, <1>6, Zenon DEF SimCall
<1>17. /\ IsResource(n) /\ n.name = e.name /\ n.value = Given(e.value, 0, Unset)
       /\ n.parent = e.parent /\ n.overwrites = << >>
  BY <1>6, <1>15, <1>16, ShownIsResource, Zenon
<1>18. /\ d.name = c.name
       /\ d.value = Given(c.value, IF c.kind = "Role" THEN guild[EveryoneRole].value ELSE 0, Unset)
       /\ d.parent = c.parent
       /\ d.overwrites = IF c.parent \in DOMAIN guild THEN guild[c.parent].overwrites ELSE << >>
  BY <1>15, NewFields, Zenon
<1>19. d.value = n.value \/ q \in Defaulted(b) BY <1>14, <1>16, <1>17, <1>18, Zenon DEF Given
<1>20. e.parent \in DOMAIN s.guild \cup {None}
  <2>1. e.parent \in Refs \cup {None} BY Zenon DEF IsCall
  <2>2. c.parent \in DOMAIN guild \cup {None} BY <1>1, <1>5, Zenon DEF Known
  <2>3. PICK y : y = e.parent BY Zenon
  <2>4. (Real(FirstId, y) \in DOMAIN guild => y \in DOMAIN s.guild) /\ (Real(FirstId, y) = None => y = None)
    <3>1. y \in Refs \cup {None, Missing, Conflict} BY <2>1, <2>3, Zenon
    <3> QED BY <1>0, <1>2, <1>4, <3>1, InShown, Zenon
  <2> QED BY <1>16, <2>2, <2>3, <2>4, Zenon
<1>21. n.parent = None => DOMAIN d.overwrites = {}
  <2> SUFFICES ASSUME n.parent = None PROVE DOMAIN d.overwrites = {} BY Zenon
  <2>1. c.parent = None BY <1>0, <1>16, <1>17, RealFacts, Zenon
  <2>2. None \notin DOMAIN guild BY <1>4, NotRefs, Zenon DEF IsGuild
  <2>3. d.overwrites = << >> BY <1>18, <2>1, <2>2, Zenon
  <2> QED BY <2>3
<1>22. PICK next, g, f, old, blank, more :
          /\ next = s.next /\ g = guild /\ f = s.guild /\ old = DOMAIN snapshot
          /\ blank = Defaulted(s.bound) /\ more = Defaulted(b)
  BY Zenon
<1>23. /\ SimGuild(FirstId, old, more, With(g, Real(FirstId, q), d), With(f, q, n))
       /\ Below(With(f, q, n), next + 1)
  <2>1. next \in Nat /\ 0 < next BY <1>2, <1>3, <1>22
  <2>2. blank \subseteq more /\ IsGuild(g) /\ IsGuild(f) /\ SimGuild(FirstId, old, blank, g, f)
    BY <1>2, <1>4, <1>13, <1>22, Zenon
  <2>3. Below(f, next) /\ q \in Refs /\ q[2] = next /\ q \notin old BY <1>2, <1>7, <1>8, <1>22, Zenon
  <2>4. /\ n.parent \in DOMAIN f \cup {None} /\ n.overwrites = << >>
        /\ d.name = n.name /\ (d.value = n.value \/ q \in more)
        /\ d.parent = Real(FirstId, n.parent)
        /\ n.parent = None => DOMAIN d.overwrites = {}
    BY <1>16, <1>17, <1>18, <1>19, <1>20, <1>21, <1>22, Zenon
  <2> QED BY <1>0, <2>1, <2>2, <2>3, <2>4, CreateSim, Zenon
<1>24. h = With(f, q, n) BY <1>5, <1>15, <1>22, Zenon
<1>25. IsGuild(h) BY <1>2, <1>7, <1>17, <1>22, <1>24, WithIsGuild, Zenon
<1>26. guild' = With(g, Real(FirstId, q), d)
  <2>1. PICK id : id = nextId BY Zenon
  <2>2. guild' = Effect(g, c, id) BY <1>1, <1>5, <1>22, <2>1, Zenon
  <2>3. Effect(g, c, id) = With(g, <<c.kind, id>>, NewResource(g, c)) BY <1>6, EffectCases, Zenon
  <2> QED BY <1>7, <1>15, <1>22, <2>1, <2>2, <2>3, Zenon
<1> QED BY <1>22, <1>23, <1>24, <1>25, <1>26, Zenon

\* The same for an operation on what is there.
LEMMA ShownChange ==
  ASSUME JobInv, RunOp("Ok"), NEW s, Simulated(s), NextCall.op # "Create",
         NEW e, SimCall(NextCall, e), IsCall(e), NEW h,
         NextCall.op = "Delete" => h = Without(s.guild, e.ref),
         NextCall.op = "Update" /\ e.ref \in DOMAIN s.guild =>
           h = With(s.guild, e.ref, Updated(s.guild[e.ref], e)),
         NextCall.op = "Upsert" /\ e.ref \in DOMAIN s.guild =>
           h = With(s.guild, e.ref, Overwritten(s.guild[e.ref], e))
  PROVE  /\ IsGuild(h) /\ Below(h, s.next)
         /\ SimGuild(FirstId, DOMAIN snapshot, Defaulted(s.bound), guild', h)
<1>0. RequestInv /\ TypeInv /\ BoundInv BY Zenon DEF JobInv, Inv
<1>1. IsCall(NextCall) /\ Known(NextCall) /\ guild' = Effect(guild, NextCall, nextId)
  BY OkStep, Zenon
<1>2. PICK c, q, t, next, g, f, old, blank :
          /\ c = NextCall /\ q = e.ref /\ t = e.target
          /\ next = s.next /\ g = guild /\ f = s.guild /\ old = DOMAIN snapshot
          /\ blank = Defaulted(s.bound)
  BY Zenon
<1>3. /\ IsGuild(f) /\ Below(f, next) /\ SimGuild(FirstId, old, blank, g, f)
  BY <1>2, Zenon DEF Simulated
<1>4. IsGuild(g) BY <1>0, <1>2, Zenon DEF TypeInv
<1>5. /\ IsCall(c) /\ c.op \in {"Update", "Delete", "Upsert"} BY <1>1, <1>2, Zenon DEF IsCall
<1>6. /\ c.op = e.op /\ c.name = e.name /\ c.value = e.value
      /\ q \in Refs /\ c.ref = Real(FirstId, q)
      /\ c.op = "Upsert" => t \in Refs /\ c.target = Real(FirstId, t)
  BY <1>2, <1>5, Zenon DEF SimCall
<1>7. /\ c.ref \in DOMAIN g /\ c.target \in DOMAIN g \cup {None}
  BY <1>1, <1>2, <1>5, Zenon DEF Known
<1>8. q \in DOMAIN f BY <1>0, <1>3, <1>4, <1>6, <1>7, InShown, Zenon
<1>9. c.op = "Upsert" => t \in DOMAIN f
  <2> SUFFICES ASSUME c.op = "Upsert" PROVE t \in DOMAIN f BY Zenon
  <2>1. c.target \in DOMAIN g BY <1>5, <1>7, NotRefs, Zenon DEF IsCall
  <2> QED BY <1>0, <1>3, <1>4, <1>6, <2>1, InShown, Zenon
<1>e. PICK id : id = nextId BY Zenon
<1>s. guild' = Effect(g, c, id) BY <1>1, <1>2, <1>e, Zenon
<1>10. CASE c.op = "Delete"
  <2>1. h = Without(f, q) BY <1>2, <1>10, Zenon
  <2>2. guild' = Gone(g, Real(FirstId, q)) 
    <3>1. Effect(g, c, id) = Gone(g, c.ref) BY <1>7, <1>10, EffectCases, Zenon
    <3> QED BY <1>6, <1>s, <3>1, Zenon
  <2>3. /\ SimGuild(FirstId, old, blank, Gone(g, Real(FirstId, q)), Without(f, q))
        /\ Below(Without(f, q), next) /\ IsGuild(Without(f, q))
    BY <1>0, <1>3, <1>4, <1>8, DeleteSim, Zenon
  <2> QED BY <1>2, <2>1, <2>2, <2>3, Zenon
<1>11. PICK u, v, y, z :
          /\ u = Updated(g[Real(FirstId, q)], c) /\ v = Updated(f[q], e)
          /\ y = Overwritten(g[Real(FirstId, q)], c) /\ z = Overwritten(f[q], e)
  BY Zenon
<1>12. /\ c.op = "Update" =>
            /\ SimGuild(FirstId, old, blank, With(g, Real(FirstId, q), u), With(f, q, v))
            /\ Below(With(f, q, v), next) /\ IsGuild(With(f, q, v))
       /\ c.op = "Upsert" =>
            /\ SimGuild(FirstId, old, blank, With(g, Real(FirstId, q), y), With(f, q, z))
            /\ Below(With(f, q, z), next) /\ IsGuild(With(f, q, z))
  <2>1. c.op = "Upsert" => e.target \in DOMAIN f /\ c.target = Real(FirstId, e.target)
    BY <1>2, <1>6, <1>9, Zenon
  <2> QED BY <1>0, <1>3, <1>4, <1>5, <1>6, <1>8, <1>11, <2>1, EditSim, Zenon
<1>13. CASE c.op = "Update"
  <2>1. h = With(f, q, v) BY <1>2, <1>8, <1>11, <1>13, Zenon
  <2>2. guild' = With(g, Real(FirstId, q), u)
    <3>1. Effect(g, c, id) = With(g, c.ref, Updated(g[c.ref], c)) BY <1>7, <1>13, EffectCases, Zenon
    <3> QED BY <1>6, <1>11, <1>s, <3>1, Zenon
  <2> QED BY <1>2, <1>12, <1>13, <2>1, <2>2, Zenon
<1>14. CASE c.op = "Upsert"
  <2>1. h = With(f, q, z) BY <1>2, <1>8, <1>11, <1>14, Zenon
  <2>2. guild' = With(g, Real(FirstId, q), y)
    <3>1. Effect(g, c, id) = With(g, c.ref, Overwritten(g[c.ref], c))
      BY <1>7, <1>14, EffectCases, Zenon
    <3> QED BY <1>6, <1>11, <1>s, <3>1, Zenon
  <2> QED BY <1>2, <1>12, <1>14, <2>1, <2>2, Zenon
<1> QED BY <1>5, <1>10, <1>13, <1>14, Zenon

LEMMA ShownStep ==
  ASSUME JobInv, RunOp("Ok"), NEW s, Simulated(s),
         NEW w, w = ApplyOperation(desired, snapshot, s, NextNode)
  PROVE  /\ w.ok
         /\ w.next \in Nat /\ FirstId <= w.next /\ nextId' = w.next - FirstId + FirstNewId
         /\ \A x : x \in DOMAIN w.bound <=> x \in DOMAIN bound'
         /\ \A x \in DOMAIN bound' : w.bound[x] \in Refs /\ bound'[x] = Real(FirstId, w.bound[x])
         /\ IsGuild(w.guild) /\ Below(w.guild, w.next)
         /\ Closed(guild')
         /\ SimGuild(FirstId, DOMAIN snapshot, Defaulted(w.bound), guild', w.guild)
<1> DEFINE c == NextCall
           x == <<c.kind, NextNode.key>>
           b == IF c.op = "Create" THEN With(s.bound, x, <<c.kind, s.next>>) ELSE s.bound
           e == Call(desired, snapshot, b, NextNode)
<1>0. RequestInv /\ TypeInv /\ BoundInv BY Zenon DEF JobInv, Inv
<1>1. /\ CallAt(desired, snapshot, bound, NextPlace, NextNode, c)
      /\ IsCall(c) /\ Known(c)
      /\ guild' = Effect(guild, c, nextId)
      /\ nextId' = IF c.op = "Create" THEN nextId + 1 ELSE nextId
  BY OkStep, Zenon
<1>2. /\ s.ok /\ s.next \in Nat /\ FirstId <= s.next /\ nextId = s.next - FirstId + FirstNewId
      /\ \A y : y \in DOMAIN s.bound <=> y \in DOMAIN bound
      /\ \A y \in DOMAIN bound : s.bound[y] \in Refs /\ bound[y] = Real(FirstId, s.bound[y])
      /\ Closed(guild)
  BY Zenon DEF Simulated
<1>3. FirstId \in Nat /\ FirstNewId \in Nat BY <1>0, FirstIdFacts, RequestFacts, Zenon
<1>5. c.op = "Create" => c.kind = NextNode.kind BY <1>1, Zenon DEF CallAt
<1>6. /\ c.op # "Create" => b = s.bound
      /\ c.op = "Create" => b = With(s.bound, x, <<c.kind, s.next>>)
  BY Zenon
<1> HIDE DEF b
<1>7. SimCall(c, e) /\ Resolved(e) /\ IsCall(e)
  <2>1. e = Call(desired, snapshot, b, NextNode) BY Zenon
  <2> HIDE DEF e
  <2> QED BY <1>6, <2>1, ShownCall, Zenon
<1>8. e = Call(desired, snapshot, b, NextNode) BY Zenon
<1> HIDE DEF e
<1>9. /\ w.ok /\ w.bound = b
      /\ w.next = IF c.op = "Create" THEN s.next + 1 ELSE s.next
      /\ c.op = "Create" => w.guild = With(s.guild, <<c.kind, s.next>>, ShownNew(e, e.parent))
      /\ c.op = "Delete" => w.guild = Without(s.guild, e.ref)
      /\ c.op = "Update" /\ e.ref \in DOMAIN s.guild =>
           w.guild = With(s.guild, e.ref, Updated(s.guild[e.ref], e))
      /\ c.op = "Upsert" /\ e.ref \in DOMAIN s.guild =>
           w.guild = With(s.guild, e.ref, Overwritten(s.guild[e.ref], e))
  BY <1>6, <1>7, <1>8, ShownGuild
<1>10. /\ w.next \in Nat /\ FirstId <= w.next /\ nextId' = w.next - FirstId + FirstNewId
  BY <1>1, <1>2, <1>3, <1>9
<1>11. c.kind \in Kinds BY <1>1, Zenon DEF IsCall
<1>12. <<c.kind, s.next>> \in Refs /\ <<c.kind, nextId>> = Real(FirstId, <<c.kind, s.next>>)
  BY <1>2, <1>3, <1>11 DEF Real, Refs
<1>13. Closed(guild')
  <2>1. IsGuild(guild) BY <1>0, Zenon DEF TypeInv
  <2>2. /\ {c.target, c.parent} \subseteq DOMAIN guild \cup {None}
        /\ c.op # "Create" => c.ref \in DOMAIN guild
    BY <1>1, Zenon DEF Known
  <2> HIDE DEF c
  <2>3. Closed(Effect(guild, c, nextId)) BY <1>1, <1>2, <2>1, <2>2, ClosedEffect, Zenon
  <2> QED BY <1>1, <2>3, Zenon
<1>14. PICK h : h = w.guild BY Zenon
<1>15. CASE c.op # "Create"
  <2>1. bound' = bound BY <1>15, Zenon DEF RunOp
  <2>2. /\ IsGuild(h) /\ Below(h, s.next)
        /\ SimGuild(FirstId, DOMAIN snapshot, Defaulted(s.bound), guild', h)
    BY <1>7, <1>9, <1>14, <1>15, ShownChange, Zenon
  <2>3. w.bound = s.bound /\ w.next = s.next BY <1>6, <1>9, <1>15, Zenon
  <2> QED BY <1>2, <1>9, <1>10, <1>13, <1>14, <2>1, <2>2, <2>3, Zenon
<1>16. CASE c.op = "Create"
  <2>1. bound' = With(bound, x, <<c.kind, nextId>>) BY <1>5, <1>16, Zenon DEF RunOp, Bind
  <2>2. /\ \A y : y \in DOMAIN bound' <=> y \in DOMAIN bound \/ y = x
        /\ bound'[x] = <<c.kind, nextId>>
        /\ \A y \in DOMAIN bound : y # x => bound'[y] = bound[y]
    <3> HIDE DEF x, c
    <3> QED BY <2>1, WithFacts
  <2>3. /\ \A y : y \in DOMAIN w.bound <=> y \in DOMAIN s.bound \/ y = x
        /\ w.bound[x] = <<c.kind, s.next>>
        /\ \A y \in DOMAIN s.bound : y # x => w.bound[y] = s.bound[y]
    <3> HIDE DEF x, c
    <3> QED BY <1>6, <1>9, <1>16, WithFacts
  <2>4. ASSUME NEW y \in DOMAIN bound'
        PROVE  w.bound[y] \in Refs /\ bound'[y] = Real(FirstId, w.bound[y])
    <3> HIDE DEF x
    <3>1. CASE y = x BY <1>12, <2>2, <2>3, <3>1, Zenon
    <3>2. CASE y # x
      <4>1. y \in DOMAIN bound /\ bound'[y] = bound[y] BY <2>2, <2>4, <3>2, Zenon
      <4>2. w.bound[y] = s.bound[y] BY <1>2, <2>3, <3>2, <4>1, Zenon
      <4> QED BY <1>2, <4>1, <4>2, Zenon
    <3> QED BY <3>1, <3>2, Zenon
  <2>5. ASSUME NEW y PROVE y \in DOMAIN w.bound <=> y \in DOMAIN bound'
    <3> HIDE DEF x
    <3> QED BY <1>2, <2>2, <2>3, Zenon
  <2>6. /\ IsGuild(h) /\ Below(h, s.next + 1)
        /\ SimGuild(FirstId, DOMAIN snapshot, Defaulted(b), guild', h)
    <3>1. b = With(s.bound, <<c.kind, NextNode.key>>, <<c.kind, s.next>>) BY <1>6, <1>16, Zenon
    <3>2. h = With(s.guild, <<c.kind, s.next>>, ShownNew(e, e.parent)) BY <1>9, <1>14, <1>16, Zenon
    <3> QED BY <1>7, <1>16, <3>1, <3>2, ShownCreate, Zenon
  <2>7. w.bound = b /\ w.next = s.next + 1 BY <1>9, <1>16, Zenon
  <2> QED BY <1>9, <1>10, <1>13, <1>14, <2>4, <2>5, <2>6, <2>7, Zenon
<1> QED BY <1>15, <1>16, Zenon

LEMMA PreviewInvariance == Spec => [](JobInv /\ PreviewInv)
<1>1. JobInv /\ PreviewInv /\ [Next]_vars => PreviewInv'
  <2> SUFFICES ASSUME JobInv, PreviewInv, [Next]_vars, CleanRun'
               PROVE  Simulated(Shown)'
    BY Zenon DEF PreviewInv
  <2>1. /\ CleanRun /\ UNCHANGED request
        /\ RunOp("Ok") \/ UNCHANGED <<guild, bound, steps, nextId>>
    BY CleanStep, Zenon DEF JobInv
  <2>2. desired' = desired /\ snapshot' = snapshot /\ plan' = plan BY <2>1, Zenon DEF request
  <2>3. Simulated(Shown) BY <2>1, Zenon DEF PreviewInv
  <2>4. FirstId' = FirstId BY <2>2, Zenon DEF FirstId
  <2>5. ASSUME NEW w, Shown' = w, w.ok,
               w.next \in Nat, FirstId <= w.next, nextId' = w.next - FirstId + FirstNewId,
               \A x : x \in DOMAIN w.bound <=> x \in DOMAIN bound',
               \A x \in DOMAIN bound' : w.bound[x] \in Refs /\ bound'[x] = Real(FirstId, w.bound[x]),
               IsGuild(w.guild), Below(w.guild, w.next), Closed(guild'),
               SimGuild(FirstId, DOMAIN snapshot, Defaulted(w.bound), guild', w.guild)
        PROVE  Simulated(Shown)'
    <3>1. Defaulted(Shown.bound)' = Defaulted(w.bound) BY <2>2, <2>5, Zenon DEF Defaulted
    <3>2. SimGuild(FirstId, DOMAIN snapshot, Defaulted(Shown.bound), guild, Shown.guild)'
      <4>1. SimGuild(FirstId', DOMAIN snapshot', Defaulted(Shown.bound)', guild', Shown.guild')
        BY <2>2, <2>4, <2>5, <3>1, Zenon
      <4> QED BY <4>1, Zenon
    <3>3. Below(Shown.guild, Shown.next)' /\ IsGuild(Shown.guild)' /\ Closed(guild)'
      BY <2>5, Zenon
    <3> QED BY <2>4, <2>5, <3>2, <3>3, Zenon DEF Simulated
  <2>6. CASE UNCHANGED <<guild, bound, steps, nextId>>
    <3>1. Shown' = Shown BY <2>2, <2>6, Zenon DEF Shown
    <3> QED BY <2>3, <2>5, <2>6, <3>1, Zenon DEF Simulated
  <2>7. CASE RunOp("Ok")
    <3>1. Len(steps') = Len(steps) + 1 /\ Len(steps) \in Nat BY <2>7, OkStep, Zenon
    <3>2. Shown' = ApplyOperation(desired, snapshot, Shown, NextNode)
      BY <2>2, <3>1, AppliedStep DEF Shown, NextNode
    <3>3. PICK w : w = ApplyOperation(desired, snapshot, Shown, NextNode) BY Zenon
    <3>4. /\ w.ok
          /\ w.next \in Nat /\ FirstId <= w.next /\ nextId' = w.next - FirstId + FirstNewId
          /\ \A x : x \in DOMAIN w.bound <=> x \in DOMAIN bound'
          /\ \A x \in DOMAIN bound' : w.bound[x] \in Refs /\ bound'[x] = Real(FirstId, w.bound[x])
          /\ IsGuild(w.guild) /\ Below(w.guild, w.next) /\ Closed(guild')
          /\ SimGuild(FirstId, DOMAIN snapshot, Defaulted(w.bound), guild', w.guild)
      BY <2>3, <2>7, <3>3, ShownStep, Zenon
    <3> QED BY <2>5, <3>2, <3>3, <3>4, Zenon
  <2> QED BY <2>1, <2>6, <2>7, Zenon
<1> QED BY <1>1, SimulatedAtFirst, JobInvariance, PTL DEF Spec

\* A job that succeeds on a guild nobody else touched leaves the guild
\* virtual-apply showed, up to the ids the service gave to what was created
\* and up to what the service does of its own: the permissions of a role
\* created without any, the overwrites a channel takes from its category, and
\* the detachment from what was deleted (apply_operation against run_op and
\* the service), for all desired states and snapshots.
THEOREM PreviewIsKept == Spec => []PreviewHolds
<1>1. JobInv /\ PreviewInv => PreviewHolds
  <2> DEFINE real(r) == Real(FirstId, r)
             shown == VirtualApply(desired, snapshot, plan.nodes)
             defaulted(r) ==
               /\ r[1] = "Role" /\ r \notin DOMAIN snapshot
               /\ \E n \in DOMAIN desired :
                    /\ KeyRef(desired, snapshot, shown.bound, "Role", desired[n].key) = r
                    /\ desired[n].value = Unset
             same(r, c, s) ==
               /\ c.name = s.name
               /\ c.value = s.value \/ defaulted(r)
               /\ c.parent = IF s.parent \in DOMAIN shown.guild THEN real(s.parent) ELSE None
               /\ \A t \in DOMAIN s.overwrites \cap DOMAIN shown.guild :
                    real(t) \in DOMAIN c.overwrites /\ c.overwrites[real(t)] = s.overwrites[t]
               /\ \A t \in DOMAIN c.overwrites :
                    \/ t \in {real(u) : u \in DOMAIN s.overwrites \cap DOMAIN shown.guild}
                    \/ r \notin DOMAIN snapshot /\ s.parent # None /\ t \in DOMAIN guild
  <2> SUFFICES ASSUME JobInv, PreviewInv, phase = "Succeeded" /\ drift = 0
               PROVE  /\ shown.ok
                      /\ DOMAIN guild = {real(r) : r \in DOMAIN shown.guild}
                      /\ \A r \in DOMAIN shown.guild : same(r, guild[real(r)], shown.guild[r])
    BY Zenon DEF PreviewHolds, Real, FirstId
  <2>1. ~Stopped /\ Len(steps) = Len(plan.nodes) BY Zenon DEF JobInv, EndInv
  <2>2. CleanRun BY <2>1, Zenon DEF CleanRun
  <2>3. Simulated(Shown) BY <2>2, Zenon DEF PreviewInv
  <2>4. Shown = shown BY <2>1, Zenon DEF Shown, VirtualApply
  <2> HIDE DEF shown
  <2>5. /\ shown.ok /\ Closed(guild)
        /\ SimGuild(FirstId, DOMAIN snapshot, Defaulted(shown.bound), guild, shown.guild)
    BY <2>3, <2>4, Zenon DEF Simulated
  <2>6. DOMAIN guild = {real(r) : r \in DOMAIN shown.guild} BY <2>5, Zenon DEF SimGuild
  <2>7. ASSUME NEW r \in DOMAIN shown.guild PROVE same(r, guild[real(r)], shown.guild[r])
    <3>1. PICK c, s, D : c = guild[real(r)] /\ s = shown.guild[r] /\ D = DOMAIN shown.guild BY Zenon
    <3>2. Same(FirstId, DOMAIN snapshot, Defaulted(shown.bound), D, r, c, s)
      BY <2>5, <2>7, <3>1, Zenon DEF SimGuild
    <3>3. real(r) \in DOMAIN guild BY <2>6, <2>7, Zenon
    <3>4. DOMAIN c.overwrites \subseteq DOMAIN guild BY <2>5, <3>1, <3>3, Zenon DEF Closed
    <3>5. r \in Defaulted(shown.bound) => defaulted(r) BY Zenon DEF Defaulted
    <3>6. c.value = s.value \/ defaulted(r) BY <3>2, <3>5, Zenon DEF Same
    <3> HIDE DEF defaulted
    <3>7. same(r, c, s) BY <3>1, <3>2, <3>4, <3>6, Zenon DEF Same
    <3> HIDE DEF same
    <3> QED BY <3>1, <3>7, Zenon
  <2> HIDE DEF real, same
  <2> QED BY <2>5, <2>6, <2>7, Zenon
<1> QED BY <1>1, PreviewInvariance, PTL
=============================================================================
