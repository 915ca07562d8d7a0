--------------------------- MODULE PolicyCompiler ---------------------------
(***************************************************************************)
(* compileEffectivePolicy (packages/policy): the documents of the scopes   *)
(* are merged one by one, from the platform down to the conversation, and  *)
(* the request then selects a provider, a model, tools and a retention     *)
(* mode from what is left.  A behaviour of this module is one compilation; *)
(* the documents are chosen as they are reached.  The inventory is the one *)
(* buildAdminState makes: it lists enabled providers only.                 *)
(***************************************************************************)
EXTENDS Naturals

CONSTANTS
    Providers,      \* provider ids of the inventory
    Byo,            \* those a user brought
    Models,         \* model ids
    ModelsOf,       \* the models of each provider
    Tools,          \* tool ids of the inventory
    Documents,      \* what a scope may say
    Requests,       \* what a caller may ask for
    MultiTenant     \* deploymentMode = "multi_tenant"

Modes == {"retained", "limited", "ephemeral"}

\* An optional list is a set of at most one list, an optional value may be "none".
Optional(S) == {{}} \cup {{list} : list \in SUBSET S}

DocumentType ==
    [ deniedProviders  : SUBSET Providers,
      allowedProviders : Optional(Providers),
      defaultProvider  : Providers \cup {"none"},
      byo              : {"yes", "no", "silent"},   \* userByoProviderAllowed
      deniedModels     : SUBSET Models,
      allowedModels    : Optional(Models),
      defaultModel     : Models \cup {"none"},
      deniedTools      : SUBSET Tools,
      allowedTools     : Optional(Tools),
      enabledTools     : SUBSET Tools,
      defaultMode      : Modes \cup {"none"},
      mandatoryMode    : Modes \cup {"none"} ]

RequestType ==
    [ provider : Providers \cup {"none", "unknown"},
      model    : Models \cup {"none", "unknown"},
      tools    : SUBSET Tools,
      mode     : Modes \cup {"none", "unrecognized"} ]

ASSUME PolicyAssumption ==
    /\ Byo \subseteq Providers
    /\ {"none", "unknown", "unavailable"} \cap (Providers \cup Models) = {}
    /\ ModelsOf \in [Providers -> SUBSET Models]
    /\ Documents \subseteq DocumentType
    /\ Requests \subseteq RequestType
    /\ MultiTenant \in BOOLEAN

AllModels == UNION {ModelsOf[p] : p \in Providers}

\* The order of scopesFor.
Sources == {"platform", "service", "tenant", "group", "user", "conversation"}

scopeOrder ==
    [ platform |-> 0, service |-> 1, tenant |-> 2, group |-> 3, user |-> 4,
      conversation |-> 5 ]

----------------------------------------------------------------------------
VARIABLES
    reached,        \* place in scopeOrder of the last scope merged
    state,          \* MutablePolicyState
    merged,         \* history: the documents merged, with their scopes
    policy          \* the EffectivePolicy, once made, and the request it is for

vars == <<reached, state, merged, policy>>

StateType ==
    [ allowedProviders : SUBSET Providers,
      deniedProviders  : SUBSET Providers,
      defaultProvider  : Providers \cup {"none"},
      byoAllowed       : BOOLEAN,
      byoForbidden     : BOOLEAN,
      allowedModels    : SUBSET Models,
      deniedModels     : SUBSET Models,
      defaultModel     : Models \cup {"none"},
      allowedTools     : SUBSET Tools,
      deniedTools      : SUBSET Tools,
      enabledTools     : SUBSET Tools,
      defaultMode      : Modes,
      mandatoryMode    : Modes \cup {"none"} ]

PolicyType ==
    [ request          : Requests,
      provider         : Providers \cup {"unavailable"},
      allowedProviders : SUBSET Providers,
      model            : Models \cup {"unavailable"},
      allowedModels    : SUBSET Models,
      allowedTools     : SUBSET Tools,
      enabledTools     : SUBSET Tools,
      mode             : Modes \cup {"unrecognized"},
      byoAllowed       : BOOLEAN ]

Merged == [source : Sources, document : DocumentType]

TypeOK ==
    /\ reached \in 0..5
    /\ state \in StateType
    /\ merged \subseteq Merged
    /\ policy \subseteq PolicyType
    /\ \A p, q \in policy : p = q

----------------------------------------------------------------------------
(* Retention modes.                                                        *)

retentionRank == [ephemeral |-> 0, limited |-> 1, retained |-> 2]

IsStricterOrEqual(candidate, ceiling) ==
    candidate \in Modes /\ retentionRank[candidate] <= retentionRank[ceiling]

Stricter(a, b) == IF retentionRank[a] <= retentionRank[b] THEN a ELSE b

----------------------------------------------------------------------------
(* mergeScope.                                                             *)

\* A list restricts what is allowed; no list restricts nothing.
Within(allowed, list, denied) ==
    {x \in allowed : \A l \in list : x \in l /\ x \notin denied}

Default(wanted, allowed, current) == IF wanted \in allowed THEN wanted ELSE current

\* Mutated form: a user's own list may bring back a denied provider.
MergeProvidersBug(s, source, d) ==
    LET denied    == s.deniedProviders \cup d.deniedProviders
        kept      == s.allowedProviders \ d.deniedProviders
        listed    == IF source = "user" THEN kept
                     ELSE Within(kept, d.allowedProviders, denied)
        forbids   == d.byo = "no" /\ source # "user"
        forbidden == s.byoForbidden \/ forbids
        permits   == ~forbids /\ (s.byoAllowed \/ (d.byo = "yes" /\ ~forbidden))
        own       == IF source = "user" /\ permits
                     THEN (UNION d.allowedProviders) \cap Byo
                     ELSE {}
        allowed   == (IF forbids THEN listed \ Byo ELSE listed) \cup own
    IN  [s EXCEPT !.deniedProviders = denied, !.allowedProviders = allowed,
                  !.byoAllowed = permits, !.byoForbidden = forbidden,
                  !.defaultProvider = Default(d.defaultProvider, allowed, @)]

\* Mutated form: a scope's refusal lasts only until the next scope speaks.
MergeProvidersForgets(s, source, d) ==
    LET denied    == s.deniedProviders \cup d.deniedProviders
        kept      == s.allowedProviders \ d.deniedProviders
        listed    == IF source = "user" THEN kept
                     ELSE Within(kept, d.allowedProviders, denied)
        forbids   == d.byo = "no" /\ source # "user"
        permits   == ~forbids /\ (s.byoAllowed \/ d.byo = "yes")
        own       == IF source = "user" /\ permits
                     THEN ((UNION d.allowedProviders) \cap Byo) \ denied
                     ELSE {}
        allowed   == (IF forbids THEN listed \ Byo ELSE listed) \cup own
    IN  [s EXCEPT !.deniedProviders = denied, !.allowedProviders = allowed,
                  !.byoAllowed = permits,
                  !.defaultProvider = Default(d.defaultProvider, allowed, @)]

MergeProviders(s, source, d) ==
    LET denied    == s.deniedProviders \cup d.deniedProviders
        kept      == s.allowedProviders \ d.deniedProviders
        listed    == IF source = "user" THEN kept
                     ELSE Within(kept, d.allowedProviders, denied)
        forbids   == d.byo = "no" /\ source # "user"
        forbidden == s.byoForbidden \/ forbids
        permits   == ~forbids /\ (s.byoAllowed \/ (d.byo = "yes" /\ ~forbidden))
        own       == IF source = "user" /\ permits
                     THEN ((UNION d.allowedProviders) \cap Byo) \ denied
                     ELSE {}
        allowed   == (IF forbids THEN listed \ Byo ELSE listed) \cup own
    IN  [s EXCEPT !.deniedProviders = denied, !.allowedProviders = allowed,
                  !.byoAllowed = permits, !.byoForbidden = forbidden,
                  !.defaultProvider = Default(d.defaultProvider, allowed, @)]

\* Mutated form: a list replaces what is allowed.
MergeModelsBug(s, d) ==
    LET denied  == s.deniedModels \cup d.deniedModels
        allowed == Within(IF d.allowedModels = {} THEN s.allowedModels ELSE AllModels,
                          d.allowedModels, denied)
    IN  [s EXCEPT !.deniedModels = denied, !.allowedModels = allowed,
                  !.defaultModel = Default(d.defaultModel, allowed, @)]

MergeModels(s, d) ==
    LET denied  == s.deniedModels \cup d.deniedModels
        allowed == Within(s.allowedModels \ d.deniedModels, d.allowedModels, denied)
    IN  [s EXCEPT !.deniedModels = denied, !.allowedModels = allowed,
                  !.defaultModel = Default(d.defaultModel, allowed, @)]

\* A list that leaves a tool out does not disable it; a denial does.
MergeTools(s, d) ==
    LET denied  == s.deniedTools \cup d.deniedTools
        allowed == Within(s.allowedTools \ d.deniedTools, d.allowedTools, denied)
    IN  [s EXCEPT !.deniedTools = denied, !.allowedTools = allowed,
                  !.enabledTools = (@ \ d.deniedTools)
                                     \cup (d.enabledTools \cap allowed)]

\* Mutated form: the last scope to name a mandatory mode wins.
MergeRetentionBug(s, d) ==
    [s EXCEPT !.defaultMode = IF d.defaultMode = "none" THEN @ ELSE d.defaultMode,
              !.mandatoryMode = IF d.mandatoryMode = "none" THEN @
                                ELSE d.mandatoryMode]

MergeRetention(s, d) ==
    [s EXCEPT !.defaultMode = IF d.defaultMode = "none" THEN @ ELSE d.defaultMode,
              !.mandatoryMode = IF d.mandatoryMode = "none" THEN @
                                ELSE IF @ = "none" THEN d.mandatoryMode
                                ELSE Stricter(@, d.mandatoryMode)]

MergeScope(s, source, d) ==
    MergeRetention(MergeTools(MergeModels(MergeProviders(s, source, d), d), d), d)

----------------------------------------------------------------------------
(* The compilation.                                                        *)

\* Before the first scope; "none" stands for the first of the inventory.
InitialState ==
    [ allowedProviders |-> Providers, deniedProviders |-> {},
      defaultProvider |-> "none", byoAllowed |-> FALSE, byoForbidden |-> FALSE,
      allowedModels |-> AllModels, deniedModels |-> {}, defaultModel |-> "none",
      allowedTools |-> Tools, deniedTools |-> {}, enabledTools |-> {},
      defaultMode |-> "retained", mandatoryMode |-> "none" ]

Init ==
    /\ reached = 0
    /\ state = InitialState
    /\ merged = {}
    /\ policy = {}

\* Groups may be many; every other scope has at most one document.
Follows(source) ==
    \/ scopeOrder[source] > reached
    \/ source = "group" /\ reached = scopeOrder["group"]
    \/ source = "platform" /\ merged = {}

\* The state starts with the platform's defaults, allowed or not.
Begin(s, source, d) ==
    IF source = "platform"
    THEN [s EXCEPT !.defaultProvider = d.defaultProvider,
                   !.defaultModel = d.defaultModel]
    ELSE s

Merge(source, document) ==
    /\ policy = {}
    /\ Follows(source)
    /\ source = "service" => MultiTenant
    /\ reached' = scopeOrder[source]
    /\ state' = MergeScope(Begin(state, source, document), source, document)
    /\ merged' = merged \cup {[source |-> source, document |-> document]}
    /\ UNCHANGED policy

\* firstAllowed, for a set whose order is left open.
FirstAllowed(wanted, preferred, allowed) ==
    IF wanted \in allowed THEN {wanted}
    ELSE IF preferred \in allowed THEN {preferred}
    ELSE IF allowed # {} THEN allowed
    ELSE {"unavailable"}

\* Mutated form: the model is chosen before the provider is known.
ServedBug(provider) == state.allowedModels \ state.deniedModels

\* The models still allowed that the selected provider serves.
Served(provider) ==
    (state.allowedModels \cap
        IF provider \in Providers THEN ModelsOf[provider] ELSE AllModels)
    \ state.deniedModels

RetentionMode(request) ==
    LET wanted == IF request.mode = "none" THEN state.defaultMode ELSE request.mode
        bound  == IF state.mandatoryMode # "none"
                     /\ ~IsStricterOrEqual(wanted, state.mandatoryMode)
                  THEN state.mandatoryMode ELSE wanted
    IN  IF /\ request.mode \in Modes
           /\ retentionRank[request.mode] < retentionRank[state.defaultMode]
        THEN Stricter(bound, request.mode)
        ELSE bound

EnabledTools(request) ==
    (IF request.tools # {} THEN request.tools ELSE state.enabledTools)
        \cap state.allowedTools

Finish(request) ==
    /\ policy = {}
    /\ \E provider \in FirstAllowed(request.provider, state.defaultProvider,
                                    state.allowedProviders) :
       \E model \in FirstAllowed(request.model, state.defaultModel, Served(provider)) :
         policy' = {[ request          |-> request,
                      provider         |-> provider,
                      allowedProviders |-> state.allowedProviders,
                      model            |-> model,
                      allowedModels    |-> Served(provider),
                      allowedTools     |-> state.allowedTools,
                      enabledTools     |-> EnabledTools(request),
                      mode             |-> RetentionMode(request),
                      byoAllowed       |-> state.byoAllowed ]}
    /\ UNCHANGED <<reached, state, merged>>

Next ==
    \/ \E source \in Sources, document \in Documents : Merge(source, document)
    \/ \E request \in Requests : Finish(request)

Spec == Init /\ [][Next]_vars

----------------------------------------------------------------------------
(* Properties.                                                             *)

\* Deny overrides: what any scope denies is neither allowed nor selected,
\* whatever lower scopes, the user's own list and the request say.
DenyOverrides ==
    \A p \in policy, m \in merged :
        /\ m.document.deniedProviders
             \cap (p.allowedProviders \cup {p.provider}) = {}
        /\ m.document.deniedModels \cap (p.allowedModels \cup {p.model}) = {}
        /\ m.document.deniedTools \cap (p.allowedTools \cup p.enabledTools) = {}

\* Once a scope other than the user's forbids it, no provider a user brought
\* can be used, wherever in the order that scope stands.
ByoForbidden ==
    \A p \in policy, m \in merged :
        m.source # "user" /\ m.document.byo = "no"
          => /\ (p.allowedProviders \cup {p.provider}) \cap Byo = {}
             /\ ~p.byoAllowed

\* Strictest retention wins: the mode is no looser than any mandatory mode
\* on the way, nor than a mode that was asked for.
StrictestWins ==
    \A p \in policy :
        /\ \A m \in merged :
              m.document.mandatoryMode # "none"
                => IsStricterOrEqual(p.mode, m.document.mandatoryMode)
        /\ p.request.mode \in Modes => IsStricterOrEqual(p.mode, p.request.mode)

\* What is selected is allowed, and the provider serves the model.
SelectionServed ==
    \A p \in policy :
        /\ p.provider \in p.allowedProviders \cup {"unavailable"}
        /\ p.model \in p.allowedModels \cup {"unavailable"}
        /\ p.provider \in Providers => p.allowedModels \subseteq ModelsOf[p.provider]
        /\ p.enabledTools \subseteq p.allowedTools

\* From scope to scope the choice only narrows, but for the providers a user
\* brought, which the user scope adds where no scope objects.
OnlyNarrows ==
    [][ /\ state'.allowedModels \subseteq state.allowedModels
        /\ state'.allowedTools \subseteq state.allowedTools
        /\ state'.allowedProviders \subseteq state.allowedProviders \cup
             IF reached' = scopeOrder["user"] /\ state'.byoAllowed
             THEN Byo \ state'.deniedProviders ELSE {} ]_vars
=============================================================================
