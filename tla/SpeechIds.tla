------------------------------ MODULE SpeechIds ------------------------------
(***************************************************************************)
(* What the subtitle bridge and the speech service share: the utterances,  *)
(* named by session and sequence number, and the kinds of answer a         *)
(* POST /api/speech/events can have.                                       *)
(***************************************************************************)
EXTENDS Naturals, FiniteSets

CONSTANT Utterances     \* the final captions of the run, numbered as spoken

ASSUME UtteranceAssumption ==
  Utterances \subseteq Nat \ {0} /\ IsFiniteSet(Utterances)

\* A job, an explicit skip, an error worth a retry (408, 429, 5xx, transport),
\* any other error.
Replies == {"job", "skipped", "busy", "refused"}
=============================================================================
