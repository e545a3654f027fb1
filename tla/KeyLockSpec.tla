----------------------------- MODULE KeyLockSpec -----------------------------
(***************************************************************************)
(* What a caller of Teardown::try_lock may rely on: a key has at most one  *)
(* owner, a free key may be granted, and a caller is refused only at a     *)
(* moment at which somebody owns the key.                                  *)
(***************************************************************************)
CONSTANTS Callers, Keys, Nobody

VARIABLES
  owner,    \* key -> the caller that owns it, or Nobody
  refused   \* the callers that have been told InProgress and did not leave yet

Init ==
  /\ owner = [k \in Keys |-> Nobody]
  /\ refused = {}

Grant(c, k) ==
  /\ owner[k] = Nobody
  /\ c \notin refused
  /\ \A j \in Keys : owner[j] # c
  /\ owner' = [owner EXCEPT ![k] = c]
  /\ UNCHANGED refused

Refuse(c, k) ==
  /\ owner[k] \notin {Nobody, c}
  /\ c \notin refused
  /\ refused' = refused \cup {c}
  /\ UNCHANGED owner

Leave(c) ==
  \/ c \in refused /\ refused' = refused \ {c} /\ UNCHANGED owner
  \/ \E k \in Keys :
       /\ owner[k] = c
       /\ owner' = [owner EXCEPT ![k] = Nobody]
       /\ UNCHANGED refused

Next == \E c \in Callers : Leave(c) \/ \E k \in Keys : Grant(c, k) \/ Refuse(c, k)

Spec == Init /\ [][Next]_<<owner, refused>>
=============================================================================
