----------------------------- MODULE MCToolCall -----------------------------
(***************************************************************************)
(* The instance of ToolCall for TLC: two pieces of output.                 *)
(***************************************************************************)
EXTENDS ToolCall

Chunks == 2
=============================================================================
