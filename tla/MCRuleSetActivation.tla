------------------------ MODULE MCRuleSetActivation ------------------------
(* RuleSetActivation for TLC.                                              *)
EXTENDS RuleSetActivation, TLC

CONSTANTS r1, r2, v1, v2, a1, a2, a3, u1, u2

MCTargetOf == [r \in Requests |-> IF r = r1 THEN v1 ELSE v2]

Symmetry == Permutations(Attempts) \cup Permutations(Approvers)
=============================================================================
