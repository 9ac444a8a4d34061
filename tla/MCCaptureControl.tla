--------------------------- MODULE MCCaptureControl ---------------------------
(***************************************************************************)
(* An instance of CaptureControl for TLC.                                  *)
(***************************************************************************)
EXTENDS CaptureControl, TLC

Alike == Permutations(Calls)
=============================================================================
