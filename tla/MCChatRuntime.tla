--------------------------- MODULE MCChatRuntime ---------------------------
(***************************************************************************)
(* Instances of ChatRuntime for TLC.                                       *)
(***************************************************************************)
EXTENDS ChatRuntime, TLC

CONSTANTS r1, read, danger

\* The tools of createMockTools: one plain, one that wants a confirmation.
MCTools == {read, danger}

Gateway == (read :> "plain") @@ (danger :> "guarded")

\* The initial state of a single-company install, and what administrators
\* turn it into: a stricter tenant, and one whose gateway lost a tool.
Open == [ tools |-> Gateway, allowed |-> MCTools, enabled |-> {read},
          default |-> "retained", mandatory |-> "none" ]

Strict == [Open EXCEPT !.mandatory = "ephemeral"]

Lenient == [Open EXCEPT !.tools = [t \in MCTools |-> "plain"],
                        !.mandatory = "limited"]

Shrunk == [Open EXCEPT !.tools[read] = "absent", !.allowed = {danger},
                       !.default = "limited"]

MCAdminStates == {Open, Strict, Lenient, Shrunk}

Ask(mode, tools, confirmed, resumes) ==
    [ mode |-> mode, tools |-> tools, confirmed |-> confirmed,
      resumes |-> resumes, admitted |-> TRUE ]

\* One request of each kind that takes its own path through runChat.
MCRequests ==
    { Ask("none", {}, {}, FALSE),
      Ask("none", {read, danger}, {danger}, FALSE),
      Ask("ephemeral", {read, danger}, {}, TRUE),
      Ask("unrecognized", {danger}, {danger}, TRUE),
      Ask("limited", {read}, {read}, FALSE),
      [Ask("retained", {}, {}, FALSE) EXCEPT !.admitted = FALSE] }
=============================================================================
