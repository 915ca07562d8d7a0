-------------------------- MODULE MCProviderAdmin --------------------------
(***************************************************************************)
(* Instances of ProviderAdmin for TLC.                                     *)
(***************************************************************************)
EXTENDS ProviderAdmin, TLC

CONSTANTS h1, h2, router, local, small

Ask(kind, enabled, key) == [kind |-> kind, enabled |-> enabled, key |-> key]

\* Every route; edits with and without a flag and a key.
MCCalls ==
    { Ask("create", "keep", TRUE), Ask("create", "keep", FALSE),
      Ask("edit", "off", FALSE), Ask("edit", "keep", TRUE),
      Ask("delete", "keep", FALSE), Ask("sync", "keep", FALSE),
      Ask("add", "keep", FALSE), Ask("model", "off", FALSE) }

Symmetry == Permutations(Handlers) \cup Permutations(Providers)
=============================================================================
