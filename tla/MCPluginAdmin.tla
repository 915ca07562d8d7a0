--------------------------- MODULE MCPluginAdmin ---------------------------
(***************************************************************************)
(* Instances of PluginAdmin for TLC.                                       *)
(***************************************************************************)
EXTENDS PluginAdmin, TLC

CONSTANTS h1, h2, alpha, beta, read, search

\* Two plugins offer the same tool, and one replaces a mock tool.
MCOffers == alpha :> {read} @@ beta :> {read, search}

MCScopes == alpha :> {"tenant"} @@ beta :> {"tenant", "user"}

MCAsked == alpha :> <<>> @@ beta :> <<search>>
=============================================================================
