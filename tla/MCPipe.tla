------------------------------- MODULE MCPipe -------------------------------
(* Small instances of Pipe for TLC. *)
EXTENDS Pipe

CONSTANTS p1, p2

\* Writes that fit into the pipe and writes that do not.
LongTexts == {<<0>>, <<1, 0, 1>>}
=============================================================================
