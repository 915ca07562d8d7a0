----------------------------- MODULE AdminState -----------------------------
(***************************************************************************)
(* buildAdminState (packages/runtime): the policy documents that are made  *)
(* of the rows an administrator has written, and the compilation of them.  *)
(* Policy bundles are platform plugins; platformPluginPolicyBundle makes   *)
(* one of all that are installed and enabled, and it goes into the         *)
(* tenant's document.  A behaviour compiles either the documents of some   *)
(* rows, in the order of scopesFor, or any documents at all, as the unit   *)
(* tests of packages/policy do.  Which rows make the inventory is the      *)
(* subject of ProviderAdmin and PluginAdmin.                               *)
(***************************************************************************)
EXTENDS PolicyCompiler, Sequences, FiniteSetsExt

CONSTANTS
    Bundles,        \* manifests of policy bundles
    Dangerous,      \* the tool mock.dangerous_action
    Tables          \* what the tables and the settings may say

\* A list a bundle does not have is empty; ids may be of what is no longer there.
BundleType ==
    [ allowedProviders : SUBSET (Providers \cup {"gone"}),
      deniedProviders  : SUBSET Providers,
      allowedModels    : SUBSET (Models \cup {"gone"}),
      deniedModels     : SUBSET Models,
      allowedTools     : SUBSET (Tools \cup {"gone"}),
      deniedTools      : SUBSET Tools,
      enabledTools     : SUBSET (Tools \cup {"gone"}),
      defaultProvider  : Providers \cup {"none", "gone"},
      defaultModel     : Models \cup {"none", "gone"},
      defaultMode      : Modes \cup {"none"},
      mandatoryMode    : Modes \cup {"none"} ]

\* The platform plugins in the order of their rows, the tenant's retention
\* policy, if there is one, and the settings; first is the first provider of the
\* inventory, with its first model.
TablesType ==
    [ installations : Seq([bundle : Bundles, enabled : BOOLEAN]),
      retention     : SUBSET [default : Modes, mandatory : Modes \cup {"none"}],
      provider      : Providers \cup {"gone"},
      model         : Models \cup {"gone"},
      mode          : Modes,
      byo           : {"yes", "no"},
      first         : Providers \X Models ]

ASSUME AdminAssumption ==
    /\ Bundles \subseteq BundleType
    /\ Tables \subseteq TablesType
    /\ Dangerous \in Tools

VARIABLES
    built,          \* whether the documents are made of rows
    tables          \* those rows

buildVars == <<vars, built, tables>>

----------------------------------------------------------------------------
(* platformPluginPolicyBundle.                                             *)

\* The places of the bundles that are installed and enabled.
Installed ==
    {i \in 1..Len(tables.installations) : tables.installations[i].enabled}

Bundle(i) == tables.installations[i].bundle

\* Mutated form: the list of a bundle replaces that of the bundles before it.
MergePolicyListBug(list) ==
    LET speaking == {i \in Installed : Bundle(i)[list] # {}}
    IN  IF speaking = {} THEN {} ELSE Bundle(Max(speaking))[list]

\* mergePolicyList: what some bundle lists is listed.
MergePolicyList(list) == UNION {Bundle(i)[list] : i \in Installed}

\* The last bundle to name a value decides.
LastNamed(field) ==
    LET naming == {i \in Installed : Bundle(i)[field] # "none"}
    IN  IF naming = {} THEN "none" ELSE Bundle(Max(naming))[field]

----------------------------------------------------------------------------
(* The documents of buildAdminState.                                       *)

Silent ==
    [ deniedProviders |-> {}, allowedProviders |-> {}, defaultProvider |-> "none",
      byo |-> "silent", deniedModels |-> {}, allowedModels |-> {},
      defaultModel |-> "none", deniedTools |-> {}, allowedTools |-> {},
      enabledTools |-> {}, defaultMode |-> "none", mandatoryMode |-> "none" ]

\* The wanted id if it is one of values, or else the first of them, which is
\* first if that is one; the order of the others is left open.
ChooseDefault(wanted, values, first) ==
    IF wanted \in values THEN wanted
    ELSE IF first \in values \/ values = {} THEN first
    ELSE CHOOSE value \in values : TRUE

DefaultProvider == ChooseDefault(tables.provider, Providers, tables.first[1])

DefaultModel == ChooseDefault(tables.model, AllModels, tables.first[2])

\* All tools but the dangerous one, which a bundle may add.
EnabledToolIds ==
    (MergePolicyList("enabledTools") \cup (Tools \ {Dangerous})) \cap Tools

\* What the tenant allows: all there is, or what the bundles list of it.
TenantAllowed(list, there) ==
    IF MergePolicyList(list) = {} THEN {there} ELSE {MergePolicyList(list) \cap there}

TenantDefault(field, default, allowed) ==
    LET wanted == IF LastNamed(field) = "none" THEN default ELSE LastNamed(field)
    IN  IF allowed = {} THEN default ELSE ChooseDefault(wanted, allowed, default)

RetentionOr(field, column, otherwise) ==
    IF LastNamed(field) # "none" THEN LastNamed(field)
    ELSE IF tables.retention = {} THEN otherwise
    ELSE (CHOOSE row \in tables.retention : TRUE)[column]

ServiceDocument ==
    [Silent EXCEPT !.allowedProviders = {Providers}, !.defaultProvider = DefaultProvider,
                   !.allowedModels = {AllModels}, !.defaultModel = DefaultModel,
                   !.allowedTools = {Tools}, !.enabledTools = EnabledToolIds]

PlatformDocument == [ServiceDocument EXCEPT !.defaultMode = "retained", !.byo = "yes"]

TenantDocument ==
    LET providers == TenantAllowed("allowedProviders", Providers)
        models    == TenantAllowed("allowedModels", AllModels)
    IN  [ allowedProviders |-> providers,
          deniedProviders  |-> MergePolicyList("deniedProviders"),
          defaultProvider  |-> TenantDefault("defaultProvider", DefaultProvider, UNION providers),
          byo              |-> tables.byo,
          allowedModels    |-> models,
          deniedModels     |-> MergePolicyList("deniedModels"),
          defaultModel     |-> TenantDefault("defaultModel", DefaultModel, UNION models),
          allowedTools     |-> TenantAllowed("allowedTools", Tools),
          deniedTools      |-> MergePolicyList("deniedTools"),
          enabledTools     |-> EnabledToolIds,
          defaultMode      |-> RetentionOr("defaultMode", "default", tables.mode),
          mandatoryMode    |-> RetentionOr("mandatoryMode", "mandatory", "none") ]

Document(source) ==
    CASE source = "platform" -> PlatformDocument
      [] source = "service"  -> ServiceDocument
      [] source = "tenant"   -> TenantDocument
      [] source = "user"     -> Silent      \* prompt fragments only

\* scopesFor, of the documents there are.
Stages ==
    IF MultiTenant THEN <<"platform", "service", "tenant", "user">>
    ELSE <<"platform", "tenant", "user">>

----------------------------------------------------------------------------
BuildInit ==
    /\ Init
    /\ built \in BOOLEAN
    /\ tables \in Tables
    /\ ~built => tables = CHOOSE t \in Tables : TRUE

MergeBuilt ==
    LET place == Cardinality(merged) + 1
    IN  /\ built /\ place <= Len(Stages)
        /\ Merge(Stages[place], Document(Stages[place]))
        /\ UNCHANGED <<built, tables>>

FinishBuilt ==
    /\ built /\ Cardinality(merged) = Len(Stages)
    /\ \E request \in Requests : Finish(request)
    /\ UNCHANGED <<built, tables>>

CompileAny == ~built /\ Next /\ UNCHANGED <<built, tables>>

BuildNext == MergeBuilt \/ FinishBuilt \/ CompileAny

BuildSpec == BuildInit /\ [][BuildNext]_buildVars

----------------------------------------------------------------------------
(* Properties.                                                             *)

\* What the enabled bundles and the settings leave of there, and no more.
Left(allowed, denied, there) ==
    LET said(i, list) == IF tables.installations[i].enabled
                         THEN tables.installations[i].bundle[list] ELSE {}
        places        == 1..Len(tables.installations)
    IN  {x \in there :
           /\ \A i \in places : x \notin said(i, denied)
           /\ \/ \E i \in places : x \in said(i, allowed)
              \/ \A i \in places : said(i, allowed) = {}}

\* The enabled bundles decide, and nothing else does: a chat may use exactly the
\* providers, models of its provider, and tools that no bundle denies and that
\* some bundle lists if any does, whatever the defaults name, whatever is no
\* longer there, and whatever the other bundles and the request say; providers a
\* user brought only if the settings let them.  The dangerous tool is enabled
\* only by a bundle or by the request itself (buildAdminState, runChat).
BundlesDecide ==
    \A p \in policy : built =>
        LET brought == IF tables.byo = "yes" THEN {} ELSE Byo
        IN  /\ p.allowedProviders
                 = Left("allowedProviders", "deniedProviders", Providers) \ brought
            /\ p.provider = "unavailable" <=> p.allowedProviders = {}
            /\ p.provider \in Providers =>
                 p.allowedModels
                   = Left("allowedModels", "deniedModels", ModelsOf[p.provider])
            /\ p.allowedTools = Left("allowedTools", "deniedTools", Tools)
            /\ Dangerous \in p.enabledTools =>
                 \/ Dangerous \in p.request.tools
                 \/ \E i \in 1..Len(tables.installations) :
                      /\ tables.installations[i].enabled
                      /\ Dangerous \in tables.installations[i].bundle.enabledTools
=============================================================================
