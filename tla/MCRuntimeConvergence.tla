------------------------ MODULE MCRuntimeConvergence ------------------------
(* RuntimeConvergence for TLC.                                             *)
EXTENDS RuntimeConvergence, TLC

CONSTANTS d1, d2, c1, c2, p1, p2, f1

MCReports == {[declared |-> 1, installed |-> 1, unchanged |-> 0, pending |-> 0]}

MCGenerationOf == [d \in DeploymentIds |-> IF d = d1 THEN 1 ELSE 2]

Symmetry == Permutations(Controllers) \cup Permutations(Processes)
=============================================================================
