----------------------------- MODULE MCCaptions -----------------------------
EXTENDS Captions
=============================================================================
