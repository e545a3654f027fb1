----------------------------- MODULE ServingLane -----------------------------
(***************************************************************************)
(* What the convergence store promises about the serving of a lane (one    *)
(* guild and RuleSet key).  At most one runtime is served.  It is served   *)
(* under a certificate of its own, for one uninterrupted interval: once it *)
(* stopped it is never revived.  A replacement is certified only after the *)
(* lane was closed for it, and while the lane is closed nothing is served. *)
(***************************************************************************)
CONSTANTS Deployments, Processes

VARIABLES
  served,   \* the runtime that is served, an option
  issued,   \* the certificates issued so far
  closed    \* the deployment the lane is closed for, an option

Init ==
  /\ served = {}
  /\ issued = {}
  /\ closed = {}

\* The drain of what was there before has been accepted for d, or d itself has
\* been lost and is to be served again.
Close(d) ==
  /\ served = {}
  /\ closed = {}
  /\ closed' = {d}
  /\ UNCHANGED <<served, issued>>

Abandon ==
  /\ closed # {}
  /\ closed' = {}
  /\ UNCHANGED <<served, issued>>

Certify(d, p) ==
  /\ closed = {d}
  /\ served = {}
  /\ \E a \in issued' \ issued :
       /\ issued' = issued \cup {a}
       /\ served' = {[deployment |-> d, process |-> p, attestation |-> a]}
  /\ closed' = {}

\* A disconnect, or the clock passing the end of the lease.
Stop ==
  /\ served # {}
  /\ served' = {}
  /\ UNCHANGED <<issued, closed>>

Next ==
  \/ Abandon
  \/ Stop
  \/ \E d \in Deployments : Close(d) \/ \E p \in Processes : Certify(d, p)

Spec == Init /\ [][Next]_<<served, issued, closed>>
=============================================================================
