-------------------------- MODULE MCPolicyCompiler --------------------------
(***************************************************************************)
(* An instance of PolicyCompiler and AdminState for TLC, after the         *)
(* inventory of the unit tests: one provider with two models, and one a    *)
(* user brought.                                                           *)
(***************************************************************************)
EXTENDS AdminState, TLC

CONSTANTS mock, mine, chat, fast, gpt, read, danger

MCModelsOf == (mock :> {chat, fast}) @@ (mine :> {gpt})

\* What the unit tests and buildAdminState put into a document, one at a time.
MCDocuments ==
    { [Silent EXCEPT !.allowedProviders = {{mock, mine}}, !.byo = "yes",
                     !.defaultProvider = mock, !.enabledTools = {read}],
      [Silent EXCEPT !.allowedProviders = {{mine}}, !.defaultProvider = mine,
                     !.defaultModel = gpt, !.enabledTools = {danger}],
      [Silent EXCEPT !.byo = "no", !.mandatoryMode = "limited"],
      [Silent EXCEPT !.deniedProviders = {mine}, !.deniedTools = {danger},
                     !.allowedModels = {{chat, fast}},
                     !.mandatoryMode = "ephemeral"],
      [Silent EXCEPT !.deniedModels = {chat}, !.allowedModels = {{chat, gpt}},
                     !.allowedTools = {{danger}}, !.defaultMode = "limited",
                     !.mandatoryMode = "retained"] }

MCRequests ==
    { [provider |-> "none", model |-> "none", tools |-> {}, mode |-> "none"],
      [provider |-> mine, model |-> chat, tools |-> {read, danger},
       mode |-> "limited"],
      [provider |-> mock, model |-> "unknown", tools |-> {danger},
       mode |-> "unrecognized"] }

NoBundle ==
    [ allowedProviders |-> {}, deniedProviders |-> {}, allowedModels |-> {},
      deniedModels |-> {}, allowedTools |-> {}, deniedTools |-> {},
      enabledTools |-> {}, defaultProvider |-> "none", defaultModel |-> "none",
      defaultMode |-> "none", mandatoryMode |-> "none" ]

\* A strict bundle, a wide one, one of lists, and one whose ids are gone.
MCBundles ==
    { [NoBundle EXCEPT !.deniedProviders = {mine}, !.deniedModels = {chat},
                       !.deniedTools = {danger}, !.mandatoryMode = "ephemeral"],
      [NoBundle EXCEPT !.defaultProvider = mine, !.defaultModel = chat,
                       !.enabledTools = {danger, "gone"}, !.mandatoryMode = "retained"],
      [NoBundle EXCEPT !.allowedProviders = {mock}, !.allowedModels = {chat, gpt},
                       !.allowedTools = {read}, !.deniedModels = {fast},
                       !.defaultMode = "limited"],
      [NoBundle EXCEPT !.allowedProviders = {"gone"}, !.allowedTools = {"gone", danger},
                       !.allowedModels = {fast, "gone"}, !.defaultProvider = "gone"] }

MCInstallations ==
    LET installation == [bundle : MCBundles, enabled : BOOLEAN]
    IN  {<<>>} \cup {<<a>> : a \in installation}
          \cup {<<a, b>> : a \in installation, b \in installation}

MCTables ==
    [ installations : MCInstallations,
      retention     : {{}, {[default |-> "limited", mandatory |-> "limited"]}},
      provider      : {mock, "gone"},
      model         : {gpt},
      mode          : {"retained"},
      byo           : {"yes", "no"},
      first         : {<<mock, chat>>, <<mine, gpt>>} ]
=============================================================================
