-------------------------- MODULE MCEffectJournal --------------------------
(***************************************************************************)
(* Plans for model checking the effect journal: the chain that provisions  *)
(* an instance, and the plan that ends with a teardown.                    *)
(***************************************************************************)
EXTENDS EffectJournal

Effect(kind, needs) == [kind |-> kind, needs |-> needs]

MCPlans == {
  <<Effect("create", {}), Effect("create", {1}), Effect("register", {1, 2}), Effect("response", {})>>,
  <<Effect("create", {}), Effect("panel", {1}), Effect("response", {})>>,
  <<Effect("create", {}), Effect("teardown", {}), Effect("response", {})>> }
=============================================================================
