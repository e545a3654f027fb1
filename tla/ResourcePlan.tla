---------------------------- MODULE ResourcePlan ----------------------------
(***************************************************************************)
(* From a desired state to an ordered plan of guild changes: the pure part *)
(* of the resource pipeline.                                               *)
(*                                                                         *)
(*   desired-state      Validate: which desired states are accepted        *)
(*   desired-compiler   Normalized: what its result looks like             *)
(*   diff-engine        Resolve, ResourceChange, OverwriteChange, Diff     *)
(*   operation-graph    Operations, Dependencies, TopologicalOrder         *)
(*   virtual-apply      VirtualApply: the guild the preview shows          *)
(*                                                                         *)
(* A reference is <<kind, id>>, kind "Role" or "Channel".  A guild maps    *)
(* the references it has to [name, value, parent, overwrites]: value is a  *)
(* role's permissions or a channel's type, and overwrites maps the         *)
(* references of roles to one value (the allow and deny bits, only ever    *)
(* compared or replaced together).  A desired state is the sequence of its *)
(* role intents followed by its channel intents.  Positions, member        *)
(* targets and the verification panels (which the diff defers) are left    *)
(* out.                                                                    *)
(***************************************************************************)
EXTENDS Integers, Sequences, FiniteSets, Functions

CONSTANTS
  GuildId       \* the guild's id, which is also the id of its @everyone role

Kinds == {"Role", "Channel"}

\* A reference, a value and a key that are not given.
None == <<"None", 0>>
Unset == -1
NoKey == "-"

\* Results of a lookup that yields no reference.
Missing == <<"Missing", 0>>
Conflict == <<"Conflict", 0>>

\* identity.match_by: by name, by an id that does not parse, or by an id.
ByName == <<"ByName", 0>>
BadId == <<"BadId", 0>>

\* NormalizedTarget::Everyone, any other target being a role key; and the
\* role it stands for.
Everyone == "@everyone"
EveryoneRole == <<"Role", GuildId>>

----------------------------------------------------------------------------
(* The data.                                                               *)

Refs == Kinds \X Nat

\* A map with the value at one place added or replaced.
With(f, x, v) == [y \in DOMAIN f \cup {x} |-> IF y = x THEN v ELSE f[y]]

IsResource(c) ==
  /\ c \in [name : STRING \ {NoKey}, value : Nat, parent : Refs \cup {None},
            overwrites : {c.overwrites}]
  /\ DOMAIN c.overwrites \subseteq Refs
  /\ c.overwrites \in [DOMAIN c.overwrites -> Nat]

IsMap(f) == f = [x \in DOMAIN f |-> f[x]]

IsGuild(g) ==
  /\ IsMap(g)
  /\ DOMAIN g \subseteq Refs
  /\ \A r \in DOMAIN g : IsResource(g[r])

Intents ==
  [kind : Kinds, key : STRING \ {NoKey, Everyone}, state : {"Present", "Absent"},
   owner : {"Managed", "Adopted", "Referenced"}, match : Refs \cup {ByName, BadId},
   name : STRING, value : Nat \cup {Unset}, parent : STRING,
   overwrites : Seq([target : STRING \ {NoKey}, value : Nat])]

\* What desired_compiler::compile makes: roles before channels, overwrites on
\* channels only and one of them per target (a map, in the code), and an id
\* to match of the intent's own kind.
Normalized(d) ==
  /\ d \in Seq(Intents)
  /\ \A m, n \in DOMAIN d : m < n /\ d[m].kind = "Channel" => d[n].kind = "Channel"
  /\ \A n \in DOMAIN d :
       /\ d[n].kind = "Role" => d[n].overwrites = << >> /\ d[n].parent = NoKey
       /\ d[n].match \in {ByName, BadId} \/ d[n].match[1] = d[n].kind
       /\ \A m, k \in DOMAIN d[n].overwrites :
            d[n].overwrites[m].target = d[n].overwrites[k].target => m = k

----------------------------------------------------------------------------
(* desired-state: what DesiredState::validate accepts.                     *)

References(d) ==
  UNION {{d[n].parent} \cup {o.target : o \in Range(d[n].overwrites)} : n \in DOMAIN d}
    \ {NoKey, Everyone}

Mutated(i) ==
  i.name # NoKey \/ i.value # Unset \/ i.parent # NoKey \/ i.overwrites # << >>

Validate(d) ==
  /\ \A m, n \in DOMAIN d : d[m].key = d[n].key => m = n
  /\ References(d) \subseteq {d[n].key : n \in DOMAIN d}
  /\ \A n \in DOMAIN d :
       /\ d[n].owner = "Referenced" => ~Mutated(d[n]) /\ d[n].state = "Present"
       /\ d[n].match = ByName => d[n].name # NoKey

----------------------------------------------------------------------------
(* diff-engine: resolver and diff.                                         *)

\* The resources of the intent's kind that bear its name.
Named(guild, i) == {r \in DOMAIN guild : r[1] = i.kind /\ guild[r].name = i.name}

\* InMemoryMatchResolver::resolve_role and resolve_channel.
Resolve(guild, i) ==
  LET named == Named(guild, i)
  IN CASE i.match = ByName ->
            IF i.name = NoKey \/ (\E r, s \in named : r # s) THEN Conflict
            ELSE IF named = {} THEN Missing ELSE CHOOSE r \in named : TRUE
       [] i.match = BadId -> Conflict
       [] OTHER -> IF i.match \in DOMAIN guild THEN i.match ELSE Missing

\* role_changed and channel_meta_changed: only the fields the intent gives.
Changed(i, current) ==
  \/ i.name # NoKey /\ i.name # current.name
  \/ i.value # Unset /\ i.value # current.value

\* The decision diff_role and diff_channel make.
ResourceChange(guild, i) ==
  LET r == Resolve(guild, i)
  IN CASE r = Conflict -> "Conflict"
       [] r = Missing /\ i.state = "Present" ->
            IF i.owner = "Referenced" \/ i.match # ByName THEN "Conflict" ELSE "Create"
       [] r = Missing /\ i.state = "Absent" -> "NoOp"
       [] r \notin {Missing, Conflict} /\ i.state = "Present" ->
            IF i.owner # "Referenced" /\ Changed(i, guild[r]) THEN "Update" ELSE "NoOp"
       [] OTHER -> IF i.owner = "Referenced" THEN "Conflict" ELSE "Delete"

\* The intents with a given key.
Declared(d, kind, key) == {n \in DOMAIN d : d[n].kind = kind /\ d[n].key = key}

IntentOf(d, kind, key) == d[CHOOSE n \in Declared(d, kind, key) : TRUE]

\* resolve_overwrite_target: a reference, Missing when the role is not there
\* yet, Conflict when the role key is not declared or is ambiguous.
OverwriteTarget(guild, d, target) ==
  IF target = Everyone THEN EveryoneRole
  ELSE IF Declared(d, "Role", target) = {} THEN Conflict
  ELSE Resolve(guild, IntentOf(d, "Role", target))

\* One change of diff_overwrites, or of the creation of a channel.  An
\* overwrite the guild has and the intent does not name is never touched.
OverwriteChange(guild, d, i, o) ==
  LET t == OverwriteTarget(guild, d, o.target)
      current == guild[Resolve(guild, i)].overwrites
  IN IF ResourceChange(guild, i) = "Create" THEN "Create"
     ELSE IF t = Conflict THEN "Conflict"
     ELSE IF t \notin DOMAIN current THEN "Create"
     ELSE IF current[t] # o.value THEN "Update"
     ELSE "NoOp"

\* Mutant: the overwrites of a channel that is to be created are forgotten.
WithOverwritesUnlessNew(guild, i) ==
  i.state = "Present" /\ i.owner # "Referenced"
    /\ ResourceChange(guild, i) \notin {"Conflict", "Create"}

\* Whether diff_channel looks at the overwrites.
WithOverwrites(guild, i) ==
  i.state = "Present" /\ i.owner # "Referenced" /\ ResourceChange(guild, i) # "Conflict"

\* A change is known by its place <<n, m>> in the diff: it is about intent n
\* itself when m = 0, else about its m-th overwrite.
Places(guild, d) ==
  UNION {{n} \X (0 .. IF WithOverwrites(guild, d[n]) THEN Len(d[n].overwrites) ELSE 0) :
           n \in DOMAIN d}

ChangeAt(guild, d, n, m) ==
  [op |-> IF m = 0 THEN ResourceChange(guild, d[n])
          ELSE OverwriteChange(guild, d, d[n], d[n].overwrites[m]),
   kind |-> IF m = 0 THEN d[n].kind ELSE "Overwrite",
   key |-> d[n].key,
   target |-> IF m = 0 THEN NoKey ELSE d[n].overwrites[m].target]

Diff(guild, d) == [p \in Places(guild, d) |-> ChangeAt(guild, d, p[1], p[2])]

HasConflict(diff) == \E p \in DOMAIN diff : diff[p].op = "Conflict"

IsNoOp(diff) == \A p \in DOMAIN diff : diff[p].op = "NoOp"

----------------------------------------------------------------------------
(* operation-graph: one node per change that does something.               *)

\* The nodes of compile_operations.  Their OpIds number them in the order of
\* the changes, which is the order of the places.
Operations(diff) == Restrict(diff, {p \in DOMAIN diff : diff[p].op # "NoOp"})

Before(p, q) == p[1] < q[1] \/ (p[1] = q[1] /\ p[2] < q[2])

Produces(node) ==
  IF node.op = "Create" /\ node.kind # "Overwrite" THEN {<<node.kind, node.key>>} ELSE {}

\* Mutant: a created channel does not wait for its parent.
ConsumesWithoutParent(node, d) ==
  IF node.kind = "Overwrite" THEN {<<"Channel", node.key>>, <<"Role", node.target>>} ELSE {}

Consumes(node, d) ==
  CASE node.kind = "Overwrite" -> {<<"Channel", node.key>>, <<"Role", node.target>>}
    [] node.kind = "Channel" /\ node.op = "Create" ->
         {<<"Channel", IntentOf(d, "Channel", node.key).parent>>}
    [] OTHER -> {}

\* derive_dependencies: the producers of what a node consumes (one of each
\* symbol, as keys are unique), never the node itself.
Dependencies(nodes, d) ==
  [p \in DOMAIN nodes |->
     {q \in DOMAIN nodes \ {p} : Produces(nodes[q]) \cap Consumes(nodes[p], d) # {}}]

\* OperationGraph::topological_order: of the nodes whose dependencies are all
\* emitted, the first is emitted next; the result is shorter than the graph
\* exactly when the code reports DependencyCycle.
Ready(deps, done) == {p \in DOMAIN deps \ Range(done) : deps[p] \subseteq Range(done)}

First(S) == CHOOSE p \in S : \A q \in S \ {p} : Before(p, q)

Emit(deps, done) ==
  IF Ready(deps, done) = {} THEN done ELSE Append(done, First(Ready(deps, done)))

Emitted(deps) ==
  LET emitted[k \in Nat] == IF k = 0 THEN << >> ELSE Emit(deps, emitted[k - 1])
  IN emitted

TopologicalOrder(deps) == Emitted(deps)[Cardinality(DOMAIN deps)]

\* compile_operations: the nodes in execution order; not ok when the diff has
\* a conflict or the graph a cycle.
CompileOperations(guild, d) ==
  LET nodes == Operations(Diff(guild, d))
      order == TopologicalOrder(Dependencies(nodes, d))
  IN [ok |-> ~HasConflict(Diff(guild, d)) /\ Len(order) = Cardinality(DOMAIN nodes),
      nodes |-> [n \in DOMAIN order |-> nodes[order[n]]]]

----------------------------------------------------------------------------
(* resource-resolution, shared by the preview and the executor.            *)

\* resolve_role_key and resolve_channel_key: a key bound by a creation, else
\* the declared intent looked up in the snapshot.
KeyRef(d, snapshot, bound, kind, key) ==
  IF <<kind, key>> \in DOMAIN bound THEN bound[<<kind, key>>]
  ELSE IF Declared(d, kind, key) = {} THEN Missing
  ELSE Resolve(snapshot, IntentOf(d, kind, key))

\* resolve_target.
TargetRef(d, snapshot, bound, target) ==
  IF target = Everyone THEN EveryoneRole ELSE KeyRef(d, snapshot, bound, "Role", target)

\* bind_role and bind_channel.
Bind(bound, node, ref) == With(bound, <<node.kind, node.key>>, ref)

\* find_overwrite.
OverwriteValue(i, target) ==
  i.overwrites[CHOOSE m \in DOMAIN i.overwrites : i.overwrites[m].target = target].value

\* A field that is given, else what stands in for it.
Given(new, old, absent) == IF new = absent THEN old ELSE new

----------------------------------------------------------------------------
(* virtual-apply: the operations applied to a copy of the guild, with      *)
(* synthetic ids from the largest id on.                                   *)

FirstSynthetic(guild) ==
  LET ids == {GuildId} \cup {r[2] : r \in DOMAIN guild}
  IN 1 + CHOOSE m \in ids : \A id \in ids : id <= m

\* A created resource: what is not given defaults to nothing.
ShownNew(i, parent) ==
  [name |-> i.name, value |-> Given(i.value, 0, Unset), parent |-> parent,
   overwrites |-> << >>]

\* Mutant: a value that is not given is reset instead of kept.
ShownUpdateOfAll(c, i) ==
  [c EXCEPT !.name = Given(i.name, @, NoKey), !.value = Given(i.value, 0, Unset)]

ShownUpdate(c, i) ==
  [c EXCEPT !.name = Given(i.name, @, NoKey), !.value = Given(i.value, @, Unset)]

ShownOverwrite(c, target, value) == [c EXCEPT !.overwrites = With(@, target, value)]

\* apply_operation.  A created key is bound before the parent is resolved; a
\* deletion takes away the resource and nothing else; an update or an
\* overwrite of a resource that is not there is ignored.
ApplyOperation(d, current, s, node) ==
  LET kind == IF node.kind = "Role" THEN "Role" ELSE "Channel"
      intent == IntentOf(d, kind, node.key)
      creates == Produces(node) # {}
      bound == IF creates THEN Bind(s.bound, node, <<kind, s.next>>) ELSE s.bound
      ref == KeyRef(d, current, bound, kind, node.key)
      parent == IF creates /\ intent.parent # NoKey
                THEN KeyRef(d, current, bound, "Channel", intent.parent) ELSE None
      target == IF node.kind = "Overwrite"
                THEN TargetRef(d, current, bound, node.target) ELSE None
      after == CASE creates -> With(s.guild, ref, ShownNew(intent, parent))
                 [] node.op = "Delete" -> Restrict(s.guild, DOMAIN s.guild \ {ref})
                 [] ~creates /\ node.op # "Delete" /\ ref \in DOMAIN s.guild ->
                      With(s.guild, ref,
                           IF node.kind = "Overwrite"
                           THEN ShownOverwrite(s.guild[ref], target,
                                               OverwriteValue(intent, node.target))
                           ELSE ShownUpdate(s.guild[ref], intent))
                 [] OTHER -> s.guild
  IN IF ~s.ok \/ {ref, target, parent} \cap {Missing, Conflict} # {}
     THEN [s EXCEPT !.ok = FALSE]
     ELSE [ok |-> TRUE, guild |-> after, bound |-> bound,
           next |-> IF creates THEN s.next + 1 ELSE s.next]

Unapplied(current) ==
  [ok |-> TRUE, guild |-> current, bound |-> << >>, next |-> FirstSynthetic(current)]

\* The state after the first k operations.
Applied(d, current, nodes) ==
  LET after[k \in Nat] == IF k = 0 THEN Unapplied(current)
                          ELSE ApplyOperation(d, current, after[k - 1], nodes[k])
  IN after

VirtualApply(d, current, nodes) == Applied(d, current, nodes)[Len(nodes)]
=============================================================================
