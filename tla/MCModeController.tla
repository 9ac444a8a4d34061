-------------------------- MODULE MCModeController --------------------------
(***************************************************************************)
(* An instance of ModeController for TLC: two jobs, two models, a queue and *)
(* a retention that two jobs fill. The run checks liveness, so no symmetry  *)
(* is declared.                                                             *)
(***************************************************************************)
EXTENDS ModeController
=============================================================================
