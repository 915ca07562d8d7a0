--------------------------- MODULE MCPromptStore ---------------------------
(***************************************************************************)
(* Instances of PromptStore for TLC.                                       *)
(***************************************************************************)
EXTENDS PromptStore, TLC

CONSTANTS h1, h2, f1, f2, k1, k2, tone, style, short, long

Call(kind, name, content, enabled) ==
    [kind |-> kind, name |-> name, content |-> content, enabled |-> enabled]

\* One create, the three kinds of update, a delete, a compilation and
\* a preview.
MCCalls ==
    { Call("create", tone, short, "none"),
      Call("update", "none", long, "none"),
      Call("update", style, "none", "none"),
      Call("update", "none", "none", "off"),
      Call("delete", "none", "none", "none"),
      Call("compile", "none", "none", "none"),
      Call("preview", "none", "none", "none") }

Symmetry == Permutations(Handlers) \cup Permutations(Keys)
=============================================================================
