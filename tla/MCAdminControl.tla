--------------------------- MODULE MCAdminControl ---------------------------
(***************************************************************************)
(* Instances of AdminControl for TLC.                                      *)
(***************************************************************************)
EXTENDS AdminControl

CONSTANTS h1, h2

Call(kind, mode, enabled) == [kind |-> kind, mode |-> mode, enabled |-> enabled]

\* Every kind of call, with both ways of a toggle.
ControlCalls ==
    { Call("retention", "ephemeral", TRUE), Call("install", "limited", TRUE),
      Call("toggle", "none", FALSE), Call("toggle", "none", TRUE),
      Call("approve", "none", TRUE), Call("other", "none", TRUE) }

\* Retention changes against any other change that only refreshes.
RetentionCalls ==
    { Call("retention", "ephemeral", TRUE), Call("retention", "none", TRUE),
      Call("other", "none", TRUE) }

\* A retention change and a bundle.
BundleCalls ==
    { Call("retention", "ephemeral", TRUE), Call("install", "retained", TRUE) }
=============================================================================
