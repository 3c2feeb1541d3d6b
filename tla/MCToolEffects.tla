---------------------------- MODULE MCToolEffects ----------------------------
(* Small instances of ToolEffects for TLC. *)
EXTENDS ToolEffects

\* Two fresh calls, which execute side by side under one lease, or a second call after a finished
\* first one, whose Turn is handed over and recovered.
AllFresh == rows[1].outcome = "none"
MCInit == EffectInit /\ lease.generation = (IF AllFresh THEN MaxGeneration ELSE 1)

MCSpec == MCInit /\ [][EffectNext]_effectVars /\ EffectFairness
=============================================================================
