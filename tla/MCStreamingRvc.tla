--------------------------- MODULE MCStreamingRvc ---------------------------
(***************************************************************************)
(* Instances of StreamingRvc for TLC.                                      *)
(***************************************************************************)
EXTENDS StreamingRvc
=============================================================================
