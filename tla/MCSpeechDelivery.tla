-------------------------- MODULE MCSpeechDelivery --------------------------
EXTENDS SpeechDelivery

\* One caption: admission is decided per utterance.
MCUtterances == {1}
=============================================================================
