--------------------------- MODULE MCSpeechWorkers ---------------------------
EXTENDS SpeechWorkers

\* A long task and a short one behind it.
MCPieces == <<2, 1>>

\* Played through one player or for download only, in front of one that is played
\* piece by piece or through the same player.
MCKinds == {<<"stream", "pieces">>, <<"silent", "stream">>}

\* One task of one piece.
OnePiece == <<1>>
OneStream == {<<"stream">>}
=============================================================================
