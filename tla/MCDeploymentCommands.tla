------------------------ MODULE MCDeploymentCommands ------------------------
(* DeploymentCommands for TLC.                                             *)
EXTENDS DeploymentCommands, TLC

CONSTANTS d1, d2, c1, c2, p0, p1, p2, f1

MCReports ==
    {[declared |-> 1, installed |-> 1, unchanged |-> 0, pending |-> 0],
     [declared |-> 1, installed |-> 0, unchanged |-> 0, pending |-> 1]}

MCPrevious == {[generation |-> 1, process |-> p0]}

Symmetry == Permutations(Controllers) \cup Permutations({p1, p2})
=============================================================================
