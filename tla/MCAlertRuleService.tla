-------------------------- MODULE MCAlertRuleService --------------------------
(***************************************************************************)
(* Finite instances of AlertRuleService for TLC.                            *)
(***************************************************************************)
EXTENDS AlertRuleService, TLC

CONSTANTS r1, r2

Two == {r1, r2}

(* Requests run the same code on the same service.                          *)
RequestSymmetry == Permutations(Requests)
=============================================================================
