---------------------------- MODULE MCStaleVitals ----------------------------
(* ContextAssembly where getters read vitals and other things by turns.      *)
EXTENDS ContextAssembly

MCFacts == {[sticky |-> TRUE, words |-> {}]}
=============================================================================
