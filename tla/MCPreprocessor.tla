---------------------------- MODULE MCPreprocessor ----------------------------
(***************************************************************************)
(* Instances of Preprocessor for TLC: a finite replay that is played, the  *)
(* microphone played with and without a status file and only sent, and the *)
(* USB endpoint.                                                           *)
(***************************************************************************)
EXTENDS Preprocessor

Line(input, limit, playing, reported) ==
  [input |-> input, limit |-> limit, playing |-> playing, reported |-> reported]

CommandLines ==
  {Line("wav", 2, TRUE, FALSE), Line("mic", 0, TRUE, FALSE),
   Line("wav", 1, FALSE, TRUE), Line("usb", 0, FALSE, FALSE)}
=============================================================================
