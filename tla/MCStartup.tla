----------------------------- MODULE MCStartup -----------------------------
(***************************************************************************)
(* Two processes on one database.                                          *)
(***************************************************************************)
EXTENDS Startup

CONSTANTS p1, p2

\* Something that was seeded, or what keeps a start from succeeding: neither
\* touches the other.
SeparateChanges ==
    {{"mockProvider"}, {"tenantPrompt"}, {"httpServer", "malformedProvider"}}
=============================================================================
