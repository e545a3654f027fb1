------------------------ MODULE MCResourceExecution ------------------------
(* ResourceExecution for TLC: desired states of up to two roles and two    *)
(* channels, every ownership, match and state, over four guilds.           *)
EXTENDS ResourceExecution, TLC

Intent(kind, key, state, owner, match, name, value, parent, overwrites) ==
  [kind |-> kind, key |-> key, state |-> state, owner |-> owner, match |-> match,
   name |-> name, value |-> value, parent |-> parent, overwrites |-> overwrites]

RoleChoice(key, state, owner, match, name, value) ==
  Intent("Role", key, state, owner, match, name, value, NoKey, << >>)

ChannelChoice(key, state, owner, match, name, value, parent, overwrites) ==
  Intent("Channel", key, state, owner, match, name, value, parent, overwrites)

RoleRef(id) == <<"Role", id>>
ChannelRef(id) == <<"Channel", id>>

Roles1 == {RoleChoice("r1", "Present", "Managed", ByName, "A", 1),
           RoleChoice("r1", "Absent", "Managed", ByName, "A", Unset),
           RoleChoice("r1", "Present", "Managed", RoleRef(2), "B", Unset),
           RoleChoice("r1", "Present", "Referenced", RoleRef(2), NoKey, Unset),
           RoleChoice("r1", "Present", "Adopted", BadId, "A", 0)}

Roles2 == {RoleChoice("r2", "Present", "Managed", ByName, "B", Unset),
           RoleChoice("r2", "Present", "Managed", ByName, "A", 0),
           RoleChoice("r2", "Absent", "Managed", ByName, "B", Unset)}

On(target) == [target |-> target, value |-> 1]

Channels1 ==
  {ChannelChoice("c1", "Present", "Managed", ByName, "X", 1, parent, overwrites) :
     parent \in {NoKey, "c1", "c2"},
     overwrites \in {<< >>, <<On(Everyone), On("r1")>>}}
    \cup {ChannelChoice("c1", "Absent", "Managed", ByName, "X", Unset, NoKey, << >>),
          ChannelChoice("c1", "Present", "Adopted", ChannelRef(11), "W", Unset, NoKey, <<On("r1")>>)}

Channels2 ==
  {ChannelChoice("c2", "Present", "Managed", ByName, "Y", 2, parent, << >>) :
     parent \in {NoKey, "c1"}}
    \cup {ChannelChoice("c2", "Absent", "Managed", ByName, "Y", Unset, NoKey, << >>),
          ChannelChoice("c2", "Present", "Referenced", ChannelRef(12), NoKey, Unset, NoKey, << >>)}

MCDesiredStates ==
  {roles \o channels :
     roles \in {<<r>> : r \in Roles1} \cup {<<r, q>> : r \in Roles1, q \in Roles2},
     channels \in {<<c, b>> : c \in Channels1, b \in Channels2}}

Text(name, parent, overwrites) ==
  [name |-> name, value |-> 0, parent |-> parent, overwrites |-> overwrites]

Role(name) == [Text(name, None, << >>) EXCEPT !.value = 2]

Guild(others) == (EveryoneRole :> Role("everyone")) @@ others

MCSnapshots ==
  {Guild(<< >>),
   Guild(RoleRef(2) :> Role("A")
           @@ ChannelRef(11) :> Text("X", None, EveryoneRole :> 0 @@ RoleRef(2) :> 1)),
   Guild(RoleRef(2) :> Role("A") @@ RoleRef(3) :> Role("B")
           @@ ChannelRef(11) :> Text("X", ChannelRef(12), EveryoneRole :> 0)
           @@ ChannelRef(12) :> Text("Y", None, << >>)),
   Guild(RoleRef(2) :> Role("A") @@ RoleRef(3) :> Role("A")
           @@ ChannelRef(12) :> Text("Y", None, RoleRef(3) :> 1))}
=============================================================================
