----------------------------- MODULE MCMessagePath -----------------------------
(* Messages for TLC: a field, a continued line, and single characters. *)
EXTENDS MessagePath

MCPieces == {<<"x", ":", "x">>, <<" ", "x">>, <<"CR">>, <<"LF">>, <<".">>}
=============================================================================
