--------------------------- MODULE MCSpeechOutbox ---------------------------
EXTENDS SpeechOutbox

\* Two captions: one blocked, retried or repeated, and one behind it.
MCUtterances == 1..2
=============================================================================
