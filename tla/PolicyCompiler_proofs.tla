----------------------- MODULE PolicyCompiler_proofs -----------------------
(***************************************************************************)
(* What compileEffectivePolicy guarantees for any inventory, any documents *)
(* and any request: TLC checks the same properties on one small inventory. *)
(*                                                                         *)
(* The invariants of the finished policy do not speak of the state that    *)
(* the scopes leave behind, so each is strengthened by what that state     *)
(* remembers of the documents merged so far: the denied sets collect every *)
(* denial and stay apart from the allowed ones, the ceiling lies under     *)
(* every mandatory mode, and a refusal of BYO providers is not forgotten.  *)
(*                                                                         *)
(* The second half is about AdminState, which gives the compiler the       *)
(* documents that buildAdminState makes of rows.  That the bundles decide  *)
(* is not inductive either: it needs what each stage leaves exactly, where *)
(* the stages above the tenant's leave everything, and that the stages are *)
(* merged in their order, each once, before a policy is made.              *)
(***************************************************************************)
EXTENDS AdminState, FiniteSetTheorems, WellFoundedInduction, TLAPS

----------------------------------------------------------------------------
(* Retention modes.                                                        *)

\* The stricter of two modes is no looser than either.
LEMMA StricterIsStricter ==
    ASSUME NEW a \in Modes, NEW b \in Modes
    PROVE  /\ Stricter(a, b) \in Modes
           /\ IsStricterOrEqual(Stricter(a, b), a)
           /\ IsStricterOrEqual(Stricter(a, b), b)
BY DEF Modes, Stricter, IsStricterOrEqual, retentionRank

\* The order of the modes is transitive and reflexive.
LEMMA StricterOrder ==
    ASSUME NEW a, NEW b \in Modes, NEW c \in Modes,
           IsStricterOrEqual(a, b), IsStricterOrEqual(b, c)
    PROVE  IsStricterOrEqual(a, c)
BY DEF Modes, IsStricterOrEqual, retentionRank

----------------------------------------------------------------------------
(* What each part of mergeScope does to the state.                         *)

\* A list restricts what is already allowed.
LEMMA WithinNarrows ==
    ASSUME NEW allowed, NEW list, NEW denied
    PROVE  Within(allowed, list, denied) \subseteq allowed
BY DEF Within

\* Providers: denials are collected and kept apart from what is allowed, a
\* refusal of BYO providers lasts, and only the user scope adds a provider.
LEMMA ProvidersMerged ==
    ASSUME NEW s \in StateType, NEW source \in Sources, NEW d \in DocumentType,
           Byo \subseteq Providers,
           NEW t, t = MergeProviders(s, source, d)
    PROVE  /\ t \in StateType
           /\ t = [s EXCEPT !.deniedProviders = t.deniedProviders,
                            !.allowedProviders = t.allowedProviders,
                            !.byoAllowed = t.byoAllowed,
                            !.byoForbidden = t.byoForbidden,
                            !.defaultProvider = t.defaultProvider]
           /\ t.deniedProviders = s.deniedProviders \cup d.deniedProviders
           /\ s.deniedProviders \cap s.allowedProviders = {}
                => t.deniedProviders \cap t.allowedProviders = {}
           /\ t.byoForbidden = (s.byoForbidden \/ (d.byo = "no" /\ source # "user"))
           /\ (s.byoForbidden => ~s.byoAllowed /\ s.allowedProviders \cap Byo = {})
                => (t.byoForbidden => ~t.byoAllowed /\ t.allowedProviders \cap Byo = {})
           /\ t.allowedProviders \subseteq s.allowedProviders \cup
                IF source = "user" /\ t.byoAllowed THEN Byo \ t.deniedProviders ELSE {}
<1> DEFINE denied    == s.deniedProviders \cup d.deniedProviders
           kept      == s.allowedProviders \ d.deniedProviders
           listed    == IF source = "user" THEN kept
                        ELSE Within(kept, d.allowedProviders, denied)
           forbids   == d.byo = "no" /\ source # "user"
           forbidden == s.byoForbidden \/ forbids
           permits   == ~forbids /\ (s.byoAllowed \/ (d.byo = "yes" /\ ~forbidden))
           own       == IF source = "user" /\ permits
                        THEN ((UNION d.allowedProviders) \cap Byo) \ denied
                        ELSE {}
           allowed   == (IF forbids THEN listed \ Byo ELSE listed) \cup own
           chosen    == Default(d.defaultProvider, allowed, s.defaultProvider)
<1>1. t = [s EXCEPT !.deniedProviders = denied, !.allowedProviders = allowed,
                    !.byoAllowed = permits, !.byoForbidden = forbidden,
                    !.defaultProvider = chosen]
  BY DEF MergeProviders
<1>2. denied \in SUBSET Providers
  BY DEF StateType, DocumentType
<1>3. /\ listed \subseteq kept
      /\ kept \subseteq s.allowedProviders
      /\ own \subseteq Byo \ denied
      /\ own # {} => source = "user" /\ permits
  BY WithinNarrows
<1>4. allowed \in SUBSET Providers
  BY <1>3 DEF StateType
<1>5. forbidden \in BOOLEAN /\ permits \in BOOLEAN
  BY DEF StateType
<1>6. chosen \in Providers \cup {"none"}
  BY <1>4 DEF Default, StateType
<1>7. /\ t.deniedProviders = denied
      /\ t.allowedProviders = allowed
      /\ t.byoAllowed = permits
      /\ t.byoForbidden = forbidden
      /\ t.defaultProvider = chosen
  <2> HIDE DEF denied, allowed, permits, forbidden, chosen
  <2> QED BY <1>1 DEF StateType
<1>8. s.deniedProviders \cap s.allowedProviders = {} => denied \cap allowed = {}
  BY <1>3
<1>9. forbidden /\ (s.byoForbidden => ~s.byoAllowed /\ s.allowedProviders \cap Byo = {})
        => ~permits /\ allowed \cap Byo = {}
  <2> SUFFICES ASSUME forbidden,
                      s.byoForbidden => ~s.byoAllowed /\ s.allowedProviders \cap Byo = {}
               PROVE  ~permits /\ allowed \cap Byo = {}
    OBVIOUS
  <2>1. ~permits
    OBVIOUS
  <2>2. own = {}
    BY <2>1
  <2>3. CASE forbids
    BY <2>2, <2>3
  <2>4. CASE ~forbids
    <3>1. s.allowedProviders \cap Byo = {}
      BY <2>4
    <3> QED BY <1>3, <2>2, <2>4, <3>1
  <2> QED BY <2>1, <2>3, <2>4
<1>10. allowed \subseteq s.allowedProviders \cup
          IF source = "user" /\ permits THEN Byo \ denied ELSE {}
  BY <1>3
<1>11. t \in StateType
  <2> HIDE DEF denied, allowed, permits, forbidden, chosen
  <2> QED BY <1>1, <1>2, <1>4, <1>5, <1>6, ZenonT(30) DEF StateType
<1>12. t = [s EXCEPT !.deniedProviders = t.deniedProviders,
                     !.allowedProviders = t.allowedProviders,
                     !.byoAllowed = t.byoAllowed,
                     !.byoForbidden = t.byoForbidden,
                     !.defaultProvider = t.defaultProvider]
  <2> HIDE DEF denied, allowed, permits, forbidden, chosen
  <2> QED BY <1>1, <1>7
<1>13. forbidden = (s.byoForbidden \/ (d.byo = "no" /\ source # "user"))
  OBVIOUS
<1>14. denied = s.deniedProviders \cup d.deniedProviders
  OBVIOUS
<1> HIDE DEF denied, allowed, permits, forbidden, chosen
<1> QED
  BY <1>7, <1>8, <1>9, <1>10, <1>11, <1>12, <1>13, <1>14

\* Models: denials are collected and kept apart from what only narrows.
LEMMA ModelsMerged ==
    ASSUME NEW s \in StateType, NEW d \in DocumentType,
           NEW t, t = MergeModels(s, d)
    PROVE  /\ t \in StateType
           /\ t = [s EXCEPT !.deniedModels = t.deniedModels,
                            !.allowedModels = t.allowedModels,
                            !.defaultModel = t.defaultModel]
           /\ t.deniedModels = s.deniedModels \cup d.deniedModels
           /\ s.deniedModels \cap s.allowedModels = {}
                => t.deniedModels \cap t.allowedModels = {}
           /\ t.allowedModels \subseteq s.allowedModels
<1> DEFINE denied  == s.deniedModels \cup d.deniedModels
           allowed == Within(s.allowedModels \ d.deniedModels, d.allowedModels, denied)
           chosen  == Default(d.defaultModel, allowed, s.defaultModel)
<1>1. t = [s EXCEPT !.deniedModels = denied, !.allowedModels = allowed,
                    !.defaultModel = chosen]
  BY DEF MergeModels
<1>2. denied \in SUBSET Models
  BY DEF StateType, DocumentType
<1>3. allowed \subseteq s.allowedModels \ d.deniedModels
  BY WithinNarrows
<1>4. allowed \in SUBSET Models
  BY <1>3 DEF StateType
<1>5. chosen \in Models \cup {"none"}
  BY <1>4 DEF Default, StateType
<1>6. s.deniedModels \cap s.allowedModels = {} => denied \cap allowed = {}
  BY <1>3
<1>7. denied = s.deniedModels \cup d.deniedModels
  OBVIOUS
<1> HIDE DEF denied, allowed, chosen
<1>8. t.deniedModels = denied /\ t.allowedModels = allowed /\ t.defaultModel = chosen
  BY <1>1 DEF StateType
<1>9. t \in StateType
  BY <1>1, <1>2, <1>4, <1>5 DEF StateType
<1>10. t = [s EXCEPT !.deniedModels = t.deniedModels,
                     !.allowedModels = t.allowedModels,
                     !.defaultModel = t.defaultModel]
  BY <1>1, <1>8
<1> QED
  BY <1>3, <1>6, <1>7, <1>8, <1>9, <1>10

\* Tools: denials are collected and kept apart from what only narrows.
LEMMA ToolsMerged ==
    ASSUME NEW s \in StateType, NEW d \in DocumentType,
           NEW t, t = MergeTools(s, d)
    PROVE  /\ t \in StateType
           /\ t = [s EXCEPT !.deniedTools = t.deniedTools,
                            !.allowedTools = t.allowedTools,
                            !.enabledTools = t.enabledTools]
           /\ t.deniedTools = s.deniedTools \cup d.deniedTools
           /\ s.deniedTools \cap s.allowedTools = {}
                => t.deniedTools \cap t.allowedTools = {}
           /\ t.allowedTools \subseteq s.allowedTools
<1> DEFINE denied  == s.deniedTools \cup d.deniedTools
           allowed == Within(s.allowedTools \ d.deniedTools, d.allowedTools, denied)
           enabled == (s.enabledTools \ d.deniedTools) \cup (d.enabledTools \cap allowed)
<1>1. t = [s EXCEPT !.deniedTools = denied, !.allowedTools = allowed,
                    !.enabledTools = enabled]
  BY DEF MergeTools
<1>2. denied \in SUBSET Tools
  BY DEF StateType, DocumentType
<1>3. allowed \subseteq s.allowedTools \ d.deniedTools
  BY WithinNarrows
<1>4. allowed \in SUBSET Tools
  BY <1>3 DEF StateType
<1>5. enabled \in SUBSET Tools
  BY <1>4 DEF StateType
<1>6. s.deniedTools \cap s.allowedTools = {} => denied \cap allowed = {}
  BY <1>3
<1>7. denied = s.deniedTools \cup d.deniedTools
  OBVIOUS
<1> HIDE DEF denied, allowed, enabled
<1>8. t.deniedTools = denied /\ t.allowedTools = allowed /\ t.enabledTools = enabled
  BY <1>1 DEF StateType
<1>9. t \in StateType
  BY <1>1, <1>2, <1>4, <1>5 DEF StateType
<1>10. t = [s EXCEPT !.deniedTools = t.deniedTools,
                     !.allowedTools = t.allowedTools,
                     !.enabledTools = t.enabledTools]
  BY <1>1, <1>8
<1> QED
  BY <1>3, <1>6, <1>7, <1>8, <1>9, <1>10

\* Retention: the ceiling comes down to every mandatory mode and never rises.
LEMMA RetentionMerged ==
    ASSUME NEW s \in StateType, NEW d \in DocumentType,
           NEW t, t = MergeRetention(s, d)
    PROVE  /\ t \in StateType
           /\ t = [s EXCEPT !.defaultMode = t.defaultMode,
                            !.mandatoryMode = t.mandatoryMode]
           /\ d.mandatoryMode # "none"
                => IsStricterOrEqual(t.mandatoryMode, d.mandatoryMode)
           /\ s.mandatoryMode # "none"
                => IsStricterOrEqual(t.mandatoryMode, s.mandatoryMode)
<1> DEFINE wanted  == IF d.defaultMode = "none" THEN s.defaultMode ELSE d.defaultMode
           ceiling == IF d.mandatoryMode = "none" THEN s.mandatoryMode
                      ELSE IF s.mandatoryMode = "none" THEN d.mandatoryMode
                      ELSE Stricter(s.mandatoryMode, d.mandatoryMode)
<1>1. t = [s EXCEPT !.defaultMode = wanted, !.mandatoryMode = ceiling]
  BY DEF MergeRetention
<1>2. /\ s.mandatoryMode \in Modes \cup {"none"}
      /\ d.mandatoryMode \in Modes \cup {"none"}
      /\ s.defaultMode \in Modes
      /\ d.defaultMode \in Modes \cup {"none"}
  BY DEF StateType, DocumentType
<1>3. wanted \in Modes
  BY <1>2
<1>4. ceiling \in Modes \cup {"none"}
  BY <1>2, StricterIsStricter
<1>5. \A m \in Modes : IsStricterOrEqual(m, m)
  BY DEF IsStricterOrEqual, Modes, retentionRank
<1>6. d.mandatoryMode # "none" => IsStricterOrEqual(ceiling, d.mandatoryMode)
  BY <1>2, <1>5, StricterIsStricter
<1>7. s.mandatoryMode # "none" => IsStricterOrEqual(ceiling, s.mandatoryMode)
  BY <1>2, <1>5, StricterIsStricter
<1> HIDE DEF wanted, ceiling
<1>8. t.defaultMode = wanted /\ t.mandatoryMode = ceiling
  BY <1>1 DEF StateType
<1>9. t \in StateType
  BY <1>1, <1>3, <1>4 DEF StateType
<1>10. t = [s EXCEPT !.defaultMode = t.defaultMode,
                     !.mandatoryMode = t.mandatoryMode]
  BY <1>1, <1>8
<1> QED
  BY <1>6, <1>7, <1>8, <1>9, <1>10

----------------------------------------------------------------------------
(* A whole scope.                                                          *)

\* What holds of the state between two scopes.
Apart(s) ==
    /\ s.deniedProviders \cap s.allowedProviders = {}
    /\ s.deniedModels \cap s.allowedModels = {}
    /\ s.deniedTools \cap s.allowedTools = {}
    /\ s.byoForbidden => ~s.byoAllowed /\ s.allowedProviders \cap Byo = {}

\* The state still knows what a scope said.
Knows(s, source, d) ==
    /\ d.deniedProviders \subseteq s.deniedProviders
    /\ d.deniedModels \subseteq s.deniedModels
    /\ d.deniedTools \subseteq s.deniedTools
    /\ d.mandatoryMode # "none" => IsStricterOrEqual(s.mandatoryMode, d.mandatoryMode)
    /\ source # "user" /\ d.byo = "no" => s.byoForbidden

\* Nothing that s knows is lost in t.
Retains(s, t) ==
    /\ s.deniedProviders \subseteq t.deniedProviders
    /\ s.deniedModels \subseteq t.deniedModels
    /\ s.deniedTools \subseteq t.deniedTools
    /\ s.mandatoryMode # "none" => IsStricterOrEqual(t.mandatoryMode, s.mandatoryMode)
    /\ s.byoForbidden => t.byoForbidden

Narrows(s, source, t) ==
    /\ t.allowedModels \subseteq s.allowedModels
    /\ t.allowedTools \subseteq s.allowedTools
    /\ t.allowedProviders \subseteq s.allowedProviders \cup
         IF source = "user" /\ t.byoAllowed THEN Byo \ t.deniedProviders ELSE {}

\* One scope: its document is remembered and nothing said before is lost.
LEMMA ScopeMerged ==
    ASSUME NEW s \in StateType, NEW source \in Sources, NEW d \in DocumentType,
           Byo \subseteq Providers,
           NEW t, t = MergeScope(s, source, d)
    PROVE  /\ t \in StateType
           /\ Knows(t, source, d)
           /\ Retains(s, t)
           /\ Narrows(s, source, t)
           /\ Apart(s) => Apart(t)
<1> DEFINE p == MergeProviders(s, source, d)
           m == MergeModels(p, d)
           k == MergeTools(m, d)
<1>1. t = MergeRetention(k, d)
  BY DEF MergeScope
<1>2. /\ p \in StateType
      /\ p.deniedProviders = s.deniedProviders \cup d.deniedProviders
      /\ s.deniedProviders \cap s.allowedProviders = {}
           => p.deniedProviders \cap p.allowedProviders = {}
      /\ p.byoForbidden = (s.byoForbidden \/ (d.byo = "no" /\ source # "user"))
      /\ (s.byoForbidden => ~s.byoAllowed /\ s.allowedProviders \cap Byo = {})
           => (p.byoForbidden => ~p.byoAllowed /\ p.allowedProviders \cap Byo = {})
      /\ p.allowedProviders \subseteq s.allowedProviders \cup
           IF source = "user" /\ p.byoAllowed THEN Byo \ p.deniedProviders ELSE {}
  BY ZenonT(30), ProvidersMerged
<1>3. /\ p.deniedModels = s.deniedModels /\ p.allowedModels = s.allowedModels
      /\ p.deniedTools = s.deniedTools /\ p.allowedTools = s.allowedTools
      /\ p.mandatoryMode = s.mandatoryMode
  <2>1. p = [s EXCEPT !.deniedProviders = p.deniedProviders,
                      !.allowedProviders = p.allowedProviders,
                      !.byoAllowed = p.byoAllowed,
                      !.byoForbidden = p.byoForbidden,
                      !.defaultProvider = p.defaultProvider]
    BY ProvidersMerged
  <2> HIDE DEF p
  <2> QED BY <2>1 DEF StateType
<1> HIDE DEF p
<1>4. /\ m \in StateType
      /\ m.deniedModels = p.deniedModels \cup d.deniedModels
      /\ p.deniedModels \cap p.allowedModels = {}
           => m.deniedModels \cap m.allowedModels = {}
      /\ m.allowedModels \subseteq p.allowedModels
  BY <1>2, ModelsMerged
<1>5. /\ m.deniedProviders = p.deniedProviders
      /\ m.allowedProviders = p.allowedProviders
      /\ m.byoAllowed = p.byoAllowed /\ m.byoForbidden = p.byoForbidden
      /\ m.deniedTools = p.deniedTools /\ m.allowedTools = p.allowedTools
      /\ m.mandatoryMode = p.mandatoryMode
  <2>1. m = [p EXCEPT !.deniedModels = m.deniedModels,
                      !.allowedModels = m.allowedModels,
                      !.defaultModel = m.defaultModel]
    BY <1>2, ModelsMerged
  <2> HIDE DEF m
  <2> QED BY <1>2, <2>1 DEF StateType
<1> HIDE DEF m
<1>6. /\ k \in StateType
      /\ k.deniedTools = m.deniedTools \cup d.deniedTools
      /\ m.deniedTools \cap m.allowedTools = {}
           => k.deniedTools \cap k.allowedTools = {}
      /\ k.allowedTools \subseteq m.allowedTools
  BY <1>4, ToolsMerged
<1>7. /\ k.deniedProviders = m.deniedProviders
      /\ k.allowedProviders = m.allowedProviders
      /\ k.byoAllowed = m.byoAllowed /\ k.byoForbidden = m.byoForbidden
      /\ k.deniedModels = m.deniedModels /\ k.allowedModels = m.allowedModels
      /\ k.mandatoryMode = m.mandatoryMode
  <2>1. k = [m EXCEPT !.deniedTools = k.deniedTools,
                      !.allowedTools = k.allowedTools,
                      !.enabledTools = k.enabledTools]
    BY <1>4, ToolsMerged
  <2> HIDE DEF k
  <2> QED BY <1>4, <2>1 DEF StateType
<1> HIDE DEF k
<1>8. /\ t \in StateType
      /\ d.mandatoryMode # "none"
           => IsStricterOrEqual(t.mandatoryMode, d.mandatoryMode)
      /\ k.mandatoryMode # "none"
           => IsStricterOrEqual(t.mandatoryMode, k.mandatoryMode)
  BY <1>1, <1>6, RetentionMerged
<1>9. /\ t.deniedProviders = k.deniedProviders
      /\ t.allowedProviders = k.allowedProviders
      /\ t.byoAllowed = k.byoAllowed /\ t.byoForbidden = k.byoForbidden
      /\ t.deniedModels = k.deniedModels /\ t.allowedModels = k.allowedModels
      /\ t.deniedTools = k.deniedTools /\ t.allowedTools = k.allowedTools
  <2>1. t = [k EXCEPT !.defaultMode = t.defaultMode,
                      !.mandatoryMode = t.mandatoryMode]
    BY <1>1, <1>6, RetentionMerged
  <2> QED BY <1>6, <2>1 DEF StateType
<1>10. Knows(t, source, d)
  BY <1>2, <1>3, <1>4, <1>5, <1>6, <1>7, <1>8, <1>9 DEF Knows
<1>11. Retains(s, t)
  BY <1>2, <1>3, <1>4, <1>5, <1>6, <1>7, <1>8, <1>9 DEF Retains
<1>12. Narrows(s, source, t)
  BY <1>2, <1>3, <1>4, <1>5, <1>6, <1>7, <1>9 DEF Narrows
<1>13. Apart(s) => Apart(t)
  <2>1. s.deniedProviders \cap s.allowedProviders = {}
          => t.deniedProviders \cap t.allowedProviders = {}
    BY <1>2, <1>5, <1>7, <1>9
  <2>2. s.deniedModels \cap s.allowedModels = {}
          => t.deniedModels \cap t.allowedModels = {}
    BY <1>3, <1>4, <1>7, <1>9
  <2>3. s.deniedTools \cap s.allowedTools = {}
          => t.deniedTools \cap t.allowedTools = {}
    BY <1>3, <1>5, <1>6, <1>9
  <2>4. (s.byoForbidden => ~s.byoAllowed /\ s.allowedProviders \cap Byo = {})
          => (t.byoForbidden => ~t.byoAllowed /\ t.allowedProviders \cap Byo = {})
    BY <1>2, <1>5, <1>7, <1>9
  <2> QED BY <2>1, <2>2, <2>3, <2>4 DEF Apart
<1> QED BY <1>8, <1>10, <1>11, <1>12, <1>13

\* The platform's defaults change nothing else.
LEMMA BeginKeeps ==
    ASSUME NEW s \in StateType, NEW source \in Sources, NEW d \in DocumentType,
           NEW b, b = Begin(s, source, d)
    PROVE  /\ b \in StateType
           /\ Retains(s, b)
           /\ Narrows(s, source, b)
           /\ Apart(s) => Apart(b)
           /\ b.allowedModels = s.allowedModels
           /\ b.allowedTools = s.allowedTools
           /\ b.allowedProviders = s.allowedProviders
<1>1. d.defaultProvider \in Providers \cup {"none"}
      /\ d.defaultModel \in Models \cup {"none"}
  BY DEF DocumentType
<1>2. \/ b = s
      \/ b = [s EXCEPT !.defaultProvider = d.defaultProvider,
                       !.defaultModel = d.defaultModel]
  BY DEF Begin
<1>3. b \in StateType
  <2>1. CASE b = s
    BY <2>1
  <2>2. CASE b = [s EXCEPT !.defaultProvider = d.defaultProvider,
                           !.defaultModel = d.defaultModel]
    BY <1>1, <2>2, ZenonT(30) DEF StateType
  <2> QED BY <1>2, <2>1, <2>2
<1>4. /\ b.deniedProviders = s.deniedProviders
      /\ b.allowedProviders = s.allowedProviders
      /\ b.byoAllowed = s.byoAllowed /\ b.byoForbidden = s.byoForbidden
      /\ b.deniedModels = s.deniedModels /\ b.allowedModels = s.allowedModels
      /\ b.deniedTools = s.deniedTools /\ b.allowedTools = s.allowedTools
      /\ b.mandatoryMode = s.mandatoryMode
  BY <1>2 DEF StateType
<1>5. s.mandatoryMode # "none" => IsStricterOrEqual(s.mandatoryMode, s.mandatoryMode)
  BY DEF StateType, IsStricterOrEqual, Modes, retentionRank
<1> QED BY <1>3, <1>4, <1>5 DEF Retains, Narrows, Apart

----------------------------------------------------------------------------
(* What the request makes of it.                                           *)

\* What is chosen is allowed, if anything is.
LEMMA ChoiceAllowed ==
    ASSUME NEW wanted, NEW preferred, NEW allowed,
           NEW chosen \in FirstAllowed(wanted, preferred, allowed)
    PROVE  chosen \in allowed \cup {"unavailable"}
BY DEF FirstAllowed

\* The mode is under the ceiling and under what was asked for.
LEMMA ModeBounded ==
    ASSUME state \in StateType, NEW request \in RequestType,
           NEW mode, mode = RetentionMode(request)
    PROVE  /\ mode \in Modes \cup {"unrecognized"}
           /\ state.mandatoryMode # "none"
                => IsStricterOrEqual(mode, state.mandatoryMode)
           /\ request.mode \in Modes => IsStricterOrEqual(mode, request.mode)
<1> DEFINE wanted == IF request.mode = "none" THEN state.defaultMode ELSE request.mode
           bound  == IF state.mandatoryMode # "none"
                        /\ ~IsStricterOrEqual(wanted, state.mandatoryMode)
                     THEN state.mandatoryMode ELSE wanted
<1>1. /\ state.mandatoryMode \in Modes \cup {"none"}
      /\ state.defaultMode \in Modes
      /\ request.mode \in Modes \cup {"none", "unrecognized"}
  BY DEF StateType, RequestType
<1>2. \/ mode = bound
      \/ request.mode \in Modes /\ mode = Stricter(bound, request.mode)
  BY DEF RetentionMode
<1>3. wanted \in Modes \cup {"unrecognized"}
  BY <1>1 DEF Modes
<1>4. /\ bound \in Modes \cup {"unrecognized"}
      /\ state.mandatoryMode # "none"
           => IsStricterOrEqual(bound, state.mandatoryMode)
  BY <1>1, <1>3 DEF Modes, IsStricterOrEqual, retentionRank
<1>5. ASSUME request.mode \in Modes
      PROVE  bound \in Modes /\ IsStricterOrEqual(bound, request.mode)
  BY <1>1, <1>5 DEF Modes, IsStricterOrEqual, retentionRank
<1> HIDE DEF bound
<1>6. CASE mode = bound
  BY <1>4, <1>5, <1>6
<1>7. CASE request.mode \in Modes /\ mode = Stricter(bound, request.mode)
  <2>1. /\ mode \in Modes
        /\ IsStricterOrEqual(mode, bound)
        /\ IsStricterOrEqual(mode, request.mode)
    BY <1>5, <1>7, StricterIsStricter
  <2>2. state.mandatoryMode # "none" => IsStricterOrEqual(mode, state.mandatoryMode)
    BY <1>1, <1>4, <1>5, <1>7, <2>1, StricterOrder
  <2> QED BY <2>1, <2>2
<1> QED BY <1>2, <1>6, <1>7

----------------------------------------------------------------------------
(* The inductive invariant.                                                *)

Decided == DenyOverrides /\ ByoForbidden /\ StrictestWins /\ SelectionServed

IInv ==
    /\ TypeOK
    /\ Apart(state)
    /\ \A m \in merged : Knows(state, m.source, m.document)
    /\ Decided

\* The compilation starts with nothing merged and nothing decided.
LEMMA InitIInv == Init => IInv
<1> SUFFICES ASSUME Init PROVE IInv
  OBVIOUS
<1>1. AllModels \in SUBSET Models
  BY PolicyAssumption DEF AllModels
<1>2. state \in StateType
  BY <1>1 DEF Init, InitialState, StateType, Modes
<1>3. TypeOK
  BY <1>2 DEF Init, TypeOK
<1>4. Apart(state)
  BY DEF Init, InitialState, Apart
<1>5. (\A m \in merged : Knows(state, m.source, m.document)) /\ Decided
  BY DEF Init, Decided, DenyOverrides, ByoForbidden, StrictestWins, SelectionServed
<1> QED BY <1>3, <1>4, <1>5 DEF IInv

\* What was known before a step that loses nothing is known after it.
LEMMA KnowledgeLasts ==
    ASSUME NEW s \in StateType, NEW t \in StateType, Retains(s, t),
           NEW source, NEW d \in DocumentType, Knows(s, source, d)
    PROVE  Knows(t, source, d)
<1>1. ASSUME d.mandatoryMode # "none"
      PROVE  IsStricterOrEqual(t.mandatoryMode, d.mandatoryMode)
  <2>1. IsStricterOrEqual(s.mandatoryMode, d.mandatoryMode)
    BY <1>1 DEF Knows
  <2>2. s.mandatoryMode \in Modes /\ d.mandatoryMode \in Modes
    BY <1>1, <2>1 DEF IsStricterOrEqual, DocumentType
  <2>3. IsStricterOrEqual(t.mandatoryMode, s.mandatoryMode)
    BY <2>2 DEF Retains, Modes
  <2> QED BY <2>1, <2>2, <2>3, StricterOrder
<1> QED BY <1>1 DEF Knows, Retains

\* A scope is merged before anything is decided.
LEMMA MergeIInv ==
    ASSUME IInv, NEW source \in Sources, NEW document \in DocumentType,
           Merge(source, document)
    PROVE  IInv' /\ Narrows(state, source, state')
<1> DEFINE b == Begin(state, source, document)
<1>1. state \in StateType /\ Byo \subseteq Providers
  BY PolicyAssumption DEF IInv, TypeOK
<1>2. /\ b \in StateType
      /\ Retains(state, b)
      /\ Apart(state) => Apart(b)
      /\ b.allowedModels = state.allowedModels
      /\ b.allowedTools = state.allowedTools
      /\ b.allowedProviders = state.allowedProviders
  BY <1>1, BeginKeeps
<1>3. state' = MergeScope(b, source, document)
  BY DEF Merge
<1> HIDE DEF b
<1>4. /\ state' \in StateType
      /\ Knows(state', source, document)
      /\ Retains(b, state')
      /\ Narrows(b, source, state')
      /\ Apart(b) => Apart(state')
  BY <1>1, <1>2, <1>3, ScopeMerged
<1>5. reached' \in 0..5
  BY DEF Merge, Sources, scopeOrder
<1>6. merged' = merged \cup {[source |-> source, document |-> document]}
  BY DEF Merge
<1>7. policy' = {}
  BY DEF Merge
<1>8. TypeOK'
  <2>1. merged' \subseteq Merged
    BY <1>6 DEF IInv, TypeOK, Merged
  <2> QED BY <1>4, <1>5, <1>7, <2>1 DEF TypeOK
<1>9. Apart(state)'
  <2>1. Apart(state')
    BY <1>2, <1>4 DEF IInv
  <2> QED BY <2>1 DEF Apart
<1>10. \A m \in merged' : Knows(state', m.source, m.document)
  <2>1. ASSUME NEW m \in merged
        PROVE  Knows(state', m.source, m.document)
    <3>1. m.document \in DocumentType
      BY PolicyAssumption DEF IInv, TypeOK, Merged
    <3>2. Knows(state, m.source, m.document)
      BY DEF IInv
    <3>3. Knows(b, m.source, m.document)
      BY <1>1, <1>2, <3>1, <3>2, KnowledgeLasts
    <3> QED BY <1>2, <1>4, <3>1, <3>3, KnowledgeLasts
  <2> QED BY <1>4, <1>6, <2>1
<1>11. Decided'
  BY <1>7 DEF Decided, DenyOverrides, ByoForbidden, StrictestWins, SelectionServed
<1>12. Narrows(state, source, state')
  BY <1>2, <1>4 DEF Narrows
<1>13. IInv'
  BY <1>8, <1>9, <1>10, <1>11 DEF IInv, Knows
<1> QED BY <1>12, <1>13

\* The decision is taken from what the scopes left.
LEMMA FinishIInv ==
    ASSUME IInv, NEW request \in Requests, Finish(request)
    PROVE  IInv'
<1>1. PICK provider, model :
        /\ provider \in FirstAllowed(request.provider, state.defaultProvider,
                                     state.allowedProviders)
        /\ model \in FirstAllowed(request.model, state.defaultModel, Served(provider))
        /\ policy' = {[ request          |-> request,
                        provider         |-> provider,
                        allowedProviders |-> state.allowedProviders,
                        model            |-> model,
                        allowedModels    |-> Served(provider),
                        allowedTools     |-> state.allowedTools,
                        enabledTools     |-> EnabledTools(request),
                        mode             |-> RetentionMode(request),
                        byoAllowed       |-> state.byoAllowed ]}
  BY DEF Finish
<1>2. PICK p : p = [ request          |-> request,
                     provider         |-> provider,
                     allowedProviders |-> state.allowedProviders,
                     model            |-> model,
                     allowedModels    |-> Served(provider),
                     allowedTools     |-> state.allowedTools,
                     enabledTools     |-> EnabledTools(request),
                     mode             |-> RetentionMode(request),
                     byoAllowed       |-> state.byoAllowed ]
  OBVIOUS
<1>3. policy' = {p}
  BY <1>1, <1>2
<1>4. /\ p.request = request
      /\ p.provider = provider /\ p.allowedProviders = state.allowedProviders
      /\ p.model = model /\ p.allowedModels = Served(provider)
      /\ p.allowedTools = state.allowedTools
      /\ p.enabledTools = EnabledTools(request)
      /\ p.mode = RetentionMode(request) /\ p.byoAllowed = state.byoAllowed
  BY <1>2
<1>5. state' = state /\ merged' = merged /\ reached' = reached
  BY DEF Finish
<1>6. state \in StateType /\ merged \subseteq Merged /\ reached \in 0..5
  BY DEF IInv, TypeOK
<1>7. request \in RequestType
  BY PolicyAssumption
<1>8. /\ provider \in state.allowedProviders \cup {"unavailable"}
      /\ model \in Served(provider) \cup {"unavailable"}
  BY <1>1, ChoiceAllowed
<1>9. /\ Served(provider) \subseteq state.allowedModels
      /\ provider \in Providers => Served(provider) \subseteq ModelsOf[provider]
  BY DEF Served
<1>10. EnabledTools(request) \subseteq state.allowedTools
  BY DEF EnabledTools
<1>11. /\ p.mode \in Modes \cup {"unrecognized"}
       /\ state.mandatoryMode # "none" => IsStricterOrEqual(p.mode, state.mandatoryMode)
       /\ request.mode \in Modes => IsStricterOrEqual(p.mode, request.mode)
  BY <1>4, <1>6, <1>7, ModeBounded
<1>12. "unavailable" \notin Providers \cup Models
  BY PolicyAssumption
<1>13. /\ state.allowedProviders \subseteq Providers
       /\ state.allowedModels \subseteq Models
       /\ state.allowedTools \subseteq Tools
       /\ state.byoAllowed \in BOOLEAN
  BY <1>6 DEF StateType
<1>14. p \in PolicyType
  <2>1. /\ provider \in Providers \cup {"unavailable"}
        /\ model \in Models \cup {"unavailable"}
        /\ Served(provider) \in SUBSET Models
        /\ EnabledTools(request) \in SUBSET Tools
        /\ RetentionMode(request) \in Modes \cup {"unrecognized"}
    BY <1>4, <1>8, <1>9, <1>10, <1>11, <1>13
  <2> QED BY <1>2, <1>13, <2>1 DEF PolicyType
<1>15. TypeOK'
  BY <1>3, <1>5, <1>6, <1>14 DEF TypeOK
<1>16. Apart(state)
  BY DEF IInv
<1>17. ASSUME NEW m \in merged
       PROVE  /\ Knows(state, m.source, m.document)
              /\ m.document \in DocumentType
  BY <1>6, PolicyAssumption DEF IInv, Merged
<1>18. DenyOverrides'
  <2>1. ASSUME NEW m \in merged
        PROVE  /\ m.document.deniedProviders
                    \cap (p.allowedProviders \cup {p.provider}) = {}
               /\ m.document.deniedModels \cap (p.allowedModels \cup {p.model}) = {}
               /\ m.document.deniedTools \cap (p.allowedTools \cup p.enabledTools) = {}
    <3>1. /\ m.document.deniedProviders \subseteq state.deniedProviders
          /\ m.document.deniedModels \subseteq state.deniedModels
          /\ m.document.deniedTools \subseteq state.deniedTools
      BY <1>17 DEF Knows
    <3>2. /\ m.document.deniedProviders \subseteq Providers
          /\ m.document.deniedModels \subseteq Models
      BY <1>17 DEF DocumentType
    <3>3. m.document.deniedProviders
            \cap (p.allowedProviders \cup {p.provider}) = {}
      BY <1>4, <1>8, <1>12, <1>16, <3>1, <3>2 DEF Apart
    <3>4. m.document.deniedModels \cap (p.allowedModels \cup {p.model}) = {}
      BY <1>4, <1>8, <1>9, <1>12, <1>16, <3>1, <3>2 DEF Apart
    <3>5. m.document.deniedTools \cap (p.allowedTools \cup p.enabledTools) = {}
      BY <1>4, <1>10, <1>16, <3>1 DEF Apart
    <3> QED BY <3>3, <3>4, <3>5
  <2> QED BY <1>3, <1>5, <2>1 DEF DenyOverrides
<1>19. ByoForbidden'
  <2>1. ASSUME NEW m \in merged, m.source # "user", m.document.byo = "no"
        PROVE  /\ (p.allowedProviders \cup {p.provider}) \cap Byo = {}
               /\ ~p.byoAllowed
    <3>1. state.byoForbidden
      BY <1>17, <2>1 DEF Knows
    <3>2. ~state.byoAllowed /\ state.allowedProviders \cap Byo = {}
      BY <1>16, <3>1 DEF Apart
    <3> QED BY <1>4, <1>8, <1>12, <3>2, PolicyAssumption
  <2> QED BY <1>3, <1>5, <2>1 DEF ByoForbidden
<1>20. StrictestWins'
  <2>1. ASSUME NEW m \in merged, m.document.mandatoryMode # "none"
        PROVE  IsStricterOrEqual(p.mode, m.document.mandatoryMode)
    <3>1. IsStricterOrEqual(state.mandatoryMode, m.document.mandatoryMode)
      BY <1>17, <2>1 DEF Knows
    <3>2. state.mandatoryMode \in Modes /\ m.document.mandatoryMode \in Modes
      BY <1>17, <2>1, <3>1 DEF IsStricterOrEqual, DocumentType
    <3>3. IsStricterOrEqual(p.mode, state.mandatoryMode)
      BY <1>11, <3>2 DEF Modes
    <3> QED BY <3>1, <3>2, <3>3, StricterOrder
  <2> QED BY <1>3, <1>4, <1>5, <1>11, <2>1 DEF StrictestWins, IsStricterOrEqual
<1>21. SelectionServed'
  BY <1>3, <1>4, <1>8, <1>9, <1>10 DEF SelectionServed
<1>22. \A m \in merged' : Knows(state', m.source, m.document)
  BY <1>5, <1>17
<1>23. Apart(state)'
  BY <1>5, <1>16 DEF Apart
<1> QED
  BY <1>15, <1>18, <1>19, <1>20, <1>21, <1>22, <1>23 DEF IInv, Decided, Knows

\* Every step keeps the invariant.
LEMMA NextIInv == IInv /\ [Next]_vars => IInv'
<1> SUFFICES ASSUME IInv, [Next]_vars PROVE IInv'
  OBVIOUS
<1>1. ASSUME NEW source \in Sources, NEW document \in Documents,
             Merge(source, document)
      PROVE  IInv'
  <2>1. document \in DocumentType
    BY PolicyAssumption
  <2> QED BY <1>1, <2>1, MergeIInv
<1>2. ASSUME NEW request \in Requests, Finish(request)
      PROVE  IInv'
  BY <1>2, FinishIInv
<1>3. CASE UNCHANGED vars
  BY <1>3 DEF vars, IInv, TypeOK, Apart, Knows, Decided, DenyOverrides, ByoForbidden,
              StrictestWins, SelectionServed
<1> QED BY <1>1, <1>2, <1>3 DEF Next

LEMMA AlwaysIInv == Spec => []IInv
BY InitIInv, NextIInv, PTL DEF Spec

----------------------------------------------------------------------------
(* What the compiler promises, for every inventory, document and request.  *)

\* A denial at any scope holds against every lower scope and every request.
THEOREM DenyAlwaysOverrides == Spec => []DenyOverrides
<1>1. IInv => DenyOverrides
  BY DEF IInv, Decided
<1> QED BY <1>1, AlwaysIInv, PTL

\* A refusal of BYO providers by any scope but the user's is final.
THEOREM ByoStaysForbidden == Spec => []ByoForbidden
<1>1. IInv => ByoForbidden
  BY DEF IInv, Decided
<1> QED BY <1>1, AlwaysIInv, PTL

\* The retention mode is under every mandatory mode and under the request's.
THEOREM StrictestAlwaysWins == Spec => []StrictestWins
<1>1. IInv => StrictestWins
  BY DEF IInv, Decided
<1> QED BY <1>1, AlwaysIInv, PTL

\* The selected provider is allowed and serves the selected model.
THEOREM SelectionAlwaysServed == Spec => []SelectionServed
<1>1. IInv => SelectionServed
  BY DEF IInv, Decided
<1> QED BY <1>1, AlwaysIInv, PTL

\* What OnlyNarrows says of a step.
Narrowing ==
    /\ state'.allowedModels \subseteq state.allowedModels
    /\ state'.allowedTools \subseteq state.allowedTools
    /\ state'.allowedProviders \subseteq state.allowedProviders \cup
         IF reached' = scopeOrder["user"] /\ state'.byoAllowed
         THEN Byo \ state'.deniedProviders ELSE {}

\* Whatever document is merged.
LEMMA MergeNarrows ==
    ASSUME IInv, NEW source \in Sources, NEW document \in DocumentType,
           Merge(source, document)
    PROVE  Narrowing
<1>1. Narrows(state, source, state')
  BY MergeIInv
<1>2. source = "user" => reached' = scopeOrder["user"]
  BY DEF Merge
<1> QED BY <1>1, <1>2 DEF Narrows, Narrowing

LEMMA NextNarrows == IInv /\ Next => Narrowing
<1>1. ASSUME IInv, NEW source \in Sources, NEW document \in Documents,
             Merge(source, document)
      PROVE  Narrowing
  <2>1. document \in DocumentType
    BY PolicyAssumption
  <2> QED BY <1>1, <2>1, MergeNarrows
<1>2. ASSUME NEW request \in Requests, Finish(request)
      PROVE  Narrowing
  BY <1>2 DEF Finish, Narrowing
<1> QED BY <1>1, <1>2 DEF Next

\* No scope widens what the scopes before it left, but for BYO providers.
THEOREM AlwaysNarrows == Spec => OnlyNarrows
<1>1. IInv /\ [Next]_vars => [Narrowing]_vars
  BY NextNarrows
<1>2. OnlyNarrows <=> [][Narrowing]_vars
  BY DEF OnlyNarrows, Narrowing
<1> QED BY <1>1, <1>2, AlwaysIInv, PTL DEF Spec

----------------------------------------------------------------------------
(* What the installed bundles say.                                         *)

\* A set of naturals that is not empty has a least element.
LEMMA LeastNatural ==
    ASSUME NEW T \in SUBSET Nat, T # {}
    PROVE  \E x \in T : \A y \in T : x <= y
<1>1. PICK x \in T : \A y \in T : ~(<<y, x>> \in OpToRel(<, Nat))
  BY WFMin, NatLessThanWellFounded
<1>2. ASSUME NEW y \in T PROVE x <= y
  <2>1. y < x => <<y, x>> \in OpToRel(<, Nat)
    BY DEF OpToRel
  <2>2. ~(y < x)
    BY <1>1, <2>1
  <2>3. x \in Nat /\ y \in Nat
    OBVIOUS
  <2> QED BY <2>2, <2>3
<1> QED BY <1>2

\* Max finds a place of a list, if there is one to be found.
LEMMA MaxOfPlaces ==
    ASSUME NEW n \in Nat, NEW T \in SUBSET (1..n), T # {}
    PROVE  Max(T) \in T
<1> DEFINE fromEnd == {k \in 0..n : n - k \in T}
<1>1. fromEnd # {} /\ fromEnd \in SUBSET Nat
  <2>1. PICK i \in T : TRUE
    OBVIOUS
  <2>2. n - i \in fromEnd
    OBVIOUS
  <2>3. fromEnd \in SUBSET Nat
    OBVIOUS
  <2> HIDE DEF fromEnd
  <2> QED BY <2>2, <2>3
<1>2. /\ \A k \in fromEnd : n - k \in T
      /\ \A j \in T : n - j \in fromEnd
  OBVIOUS
<1> HIDE DEF fromEnd
<1>3. PICK x \in fromEnd : \A y \in fromEnd : x <= y
  BY <1>1, LeastNatural
<1>4. \A j \in T : n - x >= j
  BY <1>1, <1>2, <1>3
<1> QED BY <1>2, <1>3, <1>4 DEF Max

\* What a bundle of the tables says has its type.
LEMMA BundleTyped ==
    ASSUME tables \in TablesType, NEW i \in Installed
    PROVE  /\ i \in 1..Len(tables.installations)
           /\ tables.installations[i].enabled
           /\ Bundle(i) \in BundleType
<1>1. tables.installations \in Seq([bundle : Bundles, enabled : BOOLEAN])
  BY DEF TablesType
<1>2. i \in 1..Len(tables.installations) /\ tables.installations[i].enabled
  BY DEF Installed
<1>3. tables.installations[i] \in [bundle : Bundles, enabled : BOOLEAN]
  <2>1. ASSUME NEW S, NEW rows \in Seq(S), NEW j \in 1..Len(rows)
        PROVE  rows[j] \in S
    OBVIOUS
  <2> QED BY <1>1, <1>2, <2>1
<1>4. Bundles \subseteq BundleType
  BY AdminAssumption
<1>5. Bundle(i) \in Bundles
  BY <1>3 DEF Bundle
<1> QED BY <1>2, <1>4, <1>5

\* A mode that some bundle names is a mode.
LEMMA LastNamedTyped ==
    ASSUME tables \in TablesType
    PROVE  /\ LastNamed("defaultMode") \in Modes \cup {"none"}
           /\ LastNamed("mandatoryMode") \in Modes \cup {"none"}
<1>1. Len(tables.installations) \in Nat
  BY DEF TablesType
<1>2. LastNamed("defaultMode") \in Modes \cup {"none"}
  <2> DEFINE naming == {i \in Installed : Bundle(i)["defaultMode"] # "none"}
  <2>1. naming \in SUBSET (1..Len(tables.installations))
    BY DEF Installed
  <2>2. naming \in SUBSET Installed
    OBVIOUS
  <2>3. LastNamed("defaultMode")
          = IF naming = {} THEN "none" ELSE Bundle(Max(naming))["defaultMode"]
    BY DEF LastNamed
  <2> HIDE DEF naming
  <2>4. ASSUME naming # {}
        PROVE  Bundle(Max(naming)) \in BundleType
    BY <1>1, <2>1, <2>2, <2>4, MaxOfPlaces, BundleTyped
  <2> QED BY <2>3, <2>4 DEF BundleType
<1>3. LastNamed("mandatoryMode") \in Modes \cup {"none"}
  <2> DEFINE naming == {i \in Installed : Bundle(i)["mandatoryMode"] # "none"}
  <2>1. naming \in SUBSET (1..Len(tables.installations))
    BY DEF Installed
  <2>2. naming \in SUBSET Installed
    OBVIOUS
  <2>3. LastNamed("mandatoryMode")
          = IF naming = {} THEN "none" ELSE Bundle(Max(naming))["mandatoryMode"]
    BY DEF LastNamed
  <2> HIDE DEF naming
  <2>4. ASSUME naming # {}
        PROVE  Bundle(Max(naming)) \in BundleType
    BY <1>1, <2>1, <2>2, <2>4, MaxOfPlaces, BundleTyped
  <2> QED BY <2>3, <2>4 DEF BundleType
<1> QED BY <1>2, <1>3

\* What the bundles deny is of the inventory.
LEMMA DenialsTyped ==
    ASSUME tables \in TablesType
    PROVE  /\ MergePolicyList("deniedProviders") \subseteq Providers
           /\ MergePolicyList("deniedModels") \subseteq Models
           /\ MergePolicyList("deniedTools") \subseteq Tools
<1>1. \A i \in Installed : /\ Bundle(i)["deniedProviders"] \subseteq Providers
                           /\ Bundle(i)["deniedModels"] \subseteq Models
                           /\ Bundle(i)["deniedTools"] \subseteq Tools
  BY BundleTyped DEF BundleType
<1> QED BY <1>1 DEF MergePolicyList

\* Left is what the merged lists leave.
LEMMA LeftOfLists ==
    ASSUME NEW allowed, NEW denied, NEW there
    PROVE  Left(allowed, denied, there)
             = {x \in there :
                  /\ x \notin MergePolicyList(denied)
                  /\ MergePolicyList(allowed) = {} \/ x \in MergePolicyList(allowed)}
<1> DEFINE said(i, list) == IF tables.installations[i].enabled
                            THEN tables.installations[i].bundle[list] ELSE {}
           places        == 1..Len(tables.installations)
<1>1. ASSUME NEW list
      PROVE  MergePolicyList(list) = UNION {said(i, list) : i \in places}
  BY DEF MergePolicyList, Installed, Bundle
<1>2. ASSUME NEW list, NEW x
      PROVE  x \in MergePolicyList(list) <=> \E i \in places : x \in said(i, list)
  BY <1>1
<1>3. MergePolicyList(allowed) = {} <=> \A i \in places : said(i, allowed) = {}
  BY <1>2
<1> HIDE DEF said, places
<1>4. Left(allowed, denied, there)
        = {x \in there :
             /\ \A i \in places : x \notin said(i, denied)
             /\ \/ \E i \in places : x \in said(i, allowed)
                \/ \A i \in places : said(i, allowed) = {}}
  BY DEF Left, said, places
<1> QED BY <1>2, <1>3, <1>4
----------------------------------------------------------------------------
(* The documents.                                                          *)

\* What is chosen for a default is one of the values, or the first.
LEMMA DefaultChosen ==
    ASSUME NEW wanted, NEW values, NEW first
    PROVE  ChooseDefault(wanted, values, first) \in values \cup {first}
<1>1. values # {} => (CHOOSE value \in values : TRUE) \in values
  OBVIOUS
<1> QED BY <1>1 DEF ChooseDefault

LEMMA TenantDefaultChosen ==
    ASSUME NEW field, NEW default, NEW allowed
    PROVE  TenantDefault(field, default, allowed) \in allowed \cup {default}
BY DefaultChosen DEF TenantDefault

\* The documents that are made of rows are documents.
LEMMA DocumentTyped ==
    ASSUME tables \in TablesType, NEW source \in {"platform", "service", "tenant", "user"}
    PROVE  Document(source) \in DocumentType
<1>1. AllModels \subseteq Models
  BY PolicyAssumption DEF AllModels
<1>2. /\ tables.first[1] \in Providers /\ tables.first[2] \in Models
      /\ tables.byo \in {"yes", "no"}
      /\ tables.mode \in Modes
      /\ tables.retention \subseteq [default : Modes, mandatory : Modes \cup {"none"}]
  <2>1. tables.first \in Providers \X Models
    BY DEF TablesType
  <2>2. tables.first[1] \in Providers /\ tables.first[2] \in Models
    BY <2>1
  <2> QED BY <2>2 DEF TablesType
<1>3. DefaultProvider \in Providers /\ DefaultModel \in Models
  BY <1>1, <1>2, DefaultChosen DEF DefaultProvider, DefaultModel
<1>4. EnabledToolIds \subseteq Tools
  BY DEF EnabledToolIds
<1>5. Silent \in DocumentType
  BY DEF Silent, DocumentType, Optional
<1>6. ServiceDocument \in DocumentType
  <2>1. {Providers} \in Optional(Providers) /\ {AllModels} \in Optional(Models)
        /\ {Tools} \in Optional(Tools)
    BY <1>1 DEF Optional
  <2> QED BY <1>3, <1>4, <1>5, <2>1 DEF ServiceDocument, DocumentType
<1>7. PlatformDocument \in DocumentType
  BY <1>6 DEF PlatformDocument, DocumentType, Modes
<1>8. TenantDocument \in DocumentType
  <2> DEFINE providers == TenantAllowed("allowedProviders", Providers)
             models    == TenantAllowed("allowedModels", AllModels)
             tools     == TenantAllowed("allowedTools", Tools)
             provider  == TenantDefault("defaultProvider", DefaultProvider, UNION providers)
             model     == TenantDefault("defaultModel", DefaultModel, UNION models)
             mode      == RetentionOr("defaultMode", "default", tables.mode)
             ceiling   == RetentionOr("mandatoryMode", "mandatory", "none")
  <2>1. /\ providers \in Optional(Providers) /\ UNION providers \subseteq Providers
        /\ models \in Optional(Models) /\ UNION models \subseteq Models
        /\ tools \in Optional(Tools)
    BY <1>1 DEF TenantAllowed, Optional
  <2>2. provider \in Providers /\ model \in Models
    <3> HIDE DEF providers, models
    <3> QED BY <1>3, <2>1, TenantDefaultChosen
  <2>3. mode \in Modes /\ ceiling \in Modes \cup {"none"}
    <3>1. ASSUME tables.retention # {}
          PROVE  (CHOOSE row \in tables.retention : TRUE)
                   \in [default : Modes, mandatory : Modes \cup {"none"}]
      BY <1>2, <3>1
    <3> QED BY <1>2, <3>1, LastNamedTyped DEF RetentionOr
  <2>4. TenantDocument = [ allowedProviders |-> providers,
                           deniedProviders  |-> MergePolicyList("deniedProviders"),
                           defaultProvider  |-> provider,
                           byo              |-> tables.byo,
                           allowedModels    |-> models,
                           deniedModels     |-> MergePolicyList("deniedModels"),
                           defaultModel     |-> model,
                           allowedTools     |-> tools,
                           deniedTools      |-> MergePolicyList("deniedTools"),
                           enabledTools     |-> EnabledToolIds,
                           defaultMode      |-> mode,
                           mandatoryMode    |-> ceiling ]
    BY DEF TenantDocument
  <2> HIDE DEF providers, models, tools, provider, model, mode, ceiling
  <2> QED BY <1>2, <1>4, <2>1, <2>2, <2>3, <2>4, DenialsTyped DEF DocumentType
<1> QED BY <1>5, <1>6, <1>7, <1>8 DEF Document

----------------------------------------------------------------------------
(* What a merge leaves, exactly.                                           *)

\* What a scope with document d leaves of s.
Leaves(s, source, d, t) ==
    /\ source # "user" =>
         t.allowedProviders
           = Within(s.allowedProviders \ d.deniedProviders, d.allowedProviders,
                    s.deniedProviders \cup d.deniedProviders)
             \ (IF d.byo = "no" THEN Byo ELSE {})
    /\ source = "user" /\ d.allowedProviders = {} =>
         t.allowedProviders = s.allowedProviders \ d.deniedProviders
    /\ t.deniedProviders = s.deniedProviders \cup d.deniedProviders
    /\ t.allowedModels
         = Within(s.allowedModels \ d.deniedModels, d.allowedModels,
                  s.deniedModels \cup d.deniedModels)
    /\ t.deniedModels = s.deniedModels \cup d.deniedModels
    /\ t.allowedTools
         = Within(s.allowedTools \ d.deniedTools, d.allowedTools,
                  s.deniedTools \cup d.deniedTools)
    /\ t.deniedTools = s.deniedTools \cup d.deniedTools
    /\ t.enabledTools
         = (s.enabledTools \ d.deniedTools) \cup (d.enabledTools \cap t.allowedTools)

\* Where ScopeMerged bounds what a document leaves, this is what it leaves.
LEMMA ScopeLeaves ==
    ASSUME NEW s \in StateType, NEW source \in Sources, NEW d \in DocumentType,
           Byo \subseteq Providers,
           NEW t, t = MergeScope(s, source, d)
    PROVE  Leaves(s, source, d, t)
<1> DEFINE p == MergeProviders(s, source, d)
           m == MergeModels(p, d)
           k == MergeTools(m, d)
<1>1. t = MergeRetention(k, d)
  BY DEF MergeScope
<1>2. /\ p \in StateType
      /\ p.deniedProviders = s.deniedProviders \cup d.deniedProviders
  BY ProvidersMerged
<1>3. /\ source # "user" =>
           p.allowedProviders
             = Within(s.allowedProviders \ d.deniedProviders, d.allowedProviders,
                      s.deniedProviders \cup d.deniedProviders)
               \ (IF d.byo = "no" THEN Byo ELSE {})
      /\ source = "user" /\ d.allowedProviders = {} =>
           p.allowedProviders = s.allowedProviders \ d.deniedProviders
  BY DEF MergeProviders, StateType
<1>4. /\ p.deniedModels = s.deniedModels /\ p.allowedModels = s.allowedModels
      /\ p.deniedTools = s.deniedTools /\ p.allowedTools = s.allowedTools
      /\ p.enabledTools = s.enabledTools
  <2>1. p = [s EXCEPT !.deniedProviders = p.deniedProviders,
                      !.allowedProviders = p.allowedProviders,
                      !.byoAllowed = p.byoAllowed,
                      !.byoForbidden = p.byoForbidden,
                      !.defaultProvider = p.defaultProvider]
    BY ProvidersMerged
  <2> HIDE DEF p
  <2> QED BY <2>1 DEF StateType
<1> HIDE DEF p
<1>5. /\ m \in StateType
      /\ m.deniedModels = p.deniedModels \cup d.deniedModels
  BY <1>2, ModelsMerged
<1>6. m.allowedModels
        = Within(p.allowedModels \ d.deniedModels, d.allowedModels,
                 p.deniedModels \cup d.deniedModels)
  BY <1>2 DEF MergeModels, StateType
<1>7. /\ m.deniedProviders = p.deniedProviders
      /\ m.allowedProviders = p.allowedProviders
      /\ m.deniedTools = p.deniedTools /\ m.allowedTools = p.allowedTools
      /\ m.enabledTools = p.enabledTools
  <2>1. m = [p EXCEPT !.deniedModels = m.deniedModels,
                      !.allowedModels = m.allowedModels,
                      !.defaultModel = m.defaultModel]
    BY <1>2, ModelsMerged
  <2> HIDE DEF m
  <2> QED BY <1>2, <2>1 DEF StateType
<1> HIDE DEF m
<1>8. /\ k \in StateType
      /\ k.deniedTools = m.deniedTools \cup d.deniedTools
  BY <1>5, ToolsMerged
<1>9. /\ k.allowedTools
           = Within(m.allowedTools \ d.deniedTools, d.allowedTools,
                    m.deniedTools \cup d.deniedTools)
      /\ k.enabledTools = (m.enabledTools \ d.deniedTools)
                             \cup (d.enabledTools \cap k.allowedTools)
  BY <1>5 DEF MergeTools, StateType
<1>10. /\ k.deniedProviders = m.deniedProviders
       /\ k.allowedProviders = m.allowedProviders
       /\ k.deniedModels = m.deniedModels /\ k.allowedModels = m.allowedModels
  <2>1. k = [m EXCEPT !.deniedTools = k.deniedTools,
                      !.allowedTools = k.allowedTools,
                      !.enabledTools = k.enabledTools]
    BY <1>5, ToolsMerged
  <2> HIDE DEF k
  <2> QED BY <1>5, <2>1 DEF StateType
<1> HIDE DEF k
<1>11. /\ t.deniedProviders = k.deniedProviders
       /\ t.allowedProviders = k.allowedProviders
       /\ t.deniedModels = k.deniedModels /\ t.allowedModels = k.allowedModels
       /\ t.deniedTools = k.deniedTools /\ t.allowedTools = k.allowedTools
       /\ t.enabledTools = k.enabledTools
  <2>1. t = [k EXCEPT !.defaultMode = t.defaultMode,
                      !.mandatoryMode = t.mandatoryMode]
    BY <1>1, <1>8, RetentionMerged
  <2> QED BY <1>8, <2>1 DEF StateType
<1>12. /\ t.allowedProviders = p.allowedProviders
       /\ t.deniedProviders = p.deniedProviders
  BY <1>7, <1>10, <1>11
<1>13. /\ t.allowedModels = m.allowedModels /\ t.deniedModels = m.deniedModels
       /\ t.allowedTools = k.allowedTools /\ t.deniedTools = k.deniedTools
       /\ t.enabledTools = k.enabledTools
  BY <1>10, <1>11
<1>14. /\ t.allowedModels
            = Within(s.allowedModels \ d.deniedModels, d.allowedModels,
                     s.deniedModels \cup d.deniedModels)
       /\ t.deniedModels = s.deniedModels \cup d.deniedModels
  BY <1>4, <1>5, <1>6, <1>13
<1>15. /\ t.allowedTools
            = Within(s.allowedTools \ d.deniedTools, d.allowedTools,
                     s.deniedTools \cup d.deniedTools)
       /\ t.deniedTools = s.deniedTools \cup d.deniedTools
       /\ t.enabledTools = (s.enabledTools \ d.deniedTools)
                              \cup (d.enabledTools \cap t.allowedTools)
  BY <1>4, <1>7, <1>8, <1>9, <1>13
<1> QED BY <1>2, <1>3, <1>12, <1>14, <1>15 DEF Leaves

----------------------------------------------------------------------------
(* The inductive invariant.                                                *)

\* The tenant's place among the stages.
TenantPlace == IF MultiTenant THEN 3 ELSE 2

Brought == IF tables.byo = "yes" THEN {} ELSE Byo

\* The documents above the tenant's restrict nothing.
Unrestricted(s) ==
    /\ s.allowedProviders = Providers /\ s.deniedProviders = {}
    /\ s.allowedModels = AllModels /\ s.deniedModels = {}
    /\ s.allowedTools = Tools /\ s.deniedTools = {}

\* The tenant's document leaves what the bundles leave, and the user's no less.
Confined(s) ==
    /\ s.allowedProviders
         = Left("allowedProviders", "deniedProviders", Providers) \ Brought
    /\ s.allowedModels = Left("allowedModels", "deniedModels", AllModels)
    /\ s.allowedTools = Left("allowedTools", "deniedTools", Tools)

\* The stages are merged in their order, and before a policy is made.
InOrder ==
    /\ IsFiniteSet(merged)
    /\ Cardinality(merged) <= Len(Stages)
    /\ policy # {} => Cardinality(merged) = Len(Stages)
    /\ \A m \in merged : \E i \in 1..Cardinality(merged) : m.source = Stages[i]

BuiltOK ==
    built =>
      /\ InOrder
      /\ IF Cardinality(merged) < TenantPlace THEN Unrestricted(state) ELSE Confined(state)
      /\ state.enabledTools \subseteq EnabledToolIds

BuildInv ==
    /\ tables \in TablesType
    /\ IInv
    /\ BuiltOK
    /\ BundlesDecide

\* Where each scope stands among the stages.
LEMMA StagesInOrder ==
    ASSUME NEW k \in Nat, k < Len(Stages)
    PROVE  /\ k + 1 < TenantPlace => Stages[k + 1] \in {"platform", "service"}
           /\ k + 1 = TenantPlace => Stages[k + 1] = "tenant"
           /\ k + 1 > TenantPlace => Stages[k + 1] = "user"
           /\ \A i \in 1..k : Stages[i] # Stages[k + 1]
<1>1. CASE MultiTenant
  <2>1. Stages = <<"platform", "service", "tenant", "user">> /\ TenantPlace = 3
    BY <1>1 DEF Stages, TenantPlace
  <2>2. k = 0 \/ k = 1 \/ k = 2 \/ k = 3
    BY <2>1
  <2> QED BY <2>1, <2>2
<1>2. CASE ~MultiTenant
  <2>1. Stages = <<"platform", "tenant", "user">> /\ TenantPlace = 2
    BY <1>2 DEF Stages, TenantPlace
  <2>2. k = 0 \/ k = 1 \/ k = 2
    BY <2>1
  <2> QED BY <2>1, <2>2
<1> QED BY <1>1, <1>2

\* The documents of the platform and of the service allow all there is.
LEMMA UpperLeavesAll ==
    ASSUME NEW s, NEW source \in {"platform", "service"}, NEW t,
           Leaves(s, source, Document(source), t),
           Unrestricted(s), s.enabledTools \subseteq EnabledToolIds
    PROVE  Unrestricted(t) /\ t.enabledTools \subseteq EnabledToolIds
<1> DEFINE d == Document(source)
<1>1. /\ d.deniedProviders = {} /\ d.allowedProviders = {Providers} /\ d.byo # "no"
      /\ d.deniedModels = {} /\ d.allowedModels = {AllModels}
      /\ d.deniedTools = {} /\ d.allowedTools = {Tools}
      /\ d.enabledTools = EnabledToolIds
  BY DEF Document, PlatformDocument, ServiceDocument, Silent
<1>2. Leaves(s, source, d, t)
  OBVIOUS
<1> HIDE DEF d
<1>3. t.allowedProviders = Providers /\ t.deniedProviders = {}
  <2>1. t.allowedProviders = Within(Providers \ {}, {Providers}, {} \cup {}) \ {}
    BY <1>1, <1>2 DEF Leaves, Unrestricted
  <2>2. t.deniedProviders = {}
    BY <1>1, <1>2 DEF Leaves, Unrestricted
  <2> QED BY <2>1, <2>2 DEF Within
<1>4. t.allowedModels = AllModels /\ t.deniedModels = {}
  BY <1>1, <1>2 DEF Leaves, Unrestricted, Within
<1>5. t.allowedTools = Tools /\ t.deniedTools = {}
  BY <1>1, <1>2 DEF Leaves, Unrestricted, Within
<1>6. t.enabledTools \subseteq EnabledToolIds
  BY <1>1, <1>2 DEF Leaves, Unrestricted
<1> QED BY <1>3, <1>4, <1>5, <1>6 DEF Unrestricted

\* The tenant's list, if the bundles have one, and their denials.
LEMMA WithinTenant ==
    ASSUME NEW allowed, NEW denied, NEW there
    PROVE  Within(there \ MergePolicyList(denied), TenantAllowed(allowed, there),
                  MergePolicyList(denied))
             = Left(allowed, denied, there)
<1> DEFINE listed == MergePolicyList(allowed)
           out    == MergePolicyList(denied)
<1>1. Left(allowed, denied, there)
        = {x \in there : x \notin out /\ (listed = {} \/ x \in listed)}
  BY LeftOfLists
<1>2. TenantAllowed(allowed, there)
        = IF listed = {} THEN {there} ELSE {listed \cap there}
  BY DEF TenantAllowed
<1> HIDE DEF listed, out
<1>3. CASE listed = {}
  BY <1>1, <1>2, <1>3 DEF Within, out
<1>4. CASE listed # {}
  BY <1>1, <1>2, <1>4 DEF Within, out
<1> QED BY <1>3, <1>4

\* The tenant's document leaves what the enabled bundles leave.
LEMMA TenantLeaves ==
    ASSUME tables \in TablesType, NEW s, NEW t,
           Leaves(s, "tenant", Document("tenant"), t),
           Unrestricted(s), s.enabledTools \subseteq EnabledToolIds
    PROVE  Confined(t) /\ t.enabledTools \subseteq EnabledToolIds
<1> DEFINE d == Document("tenant")
<1>1. /\ d.deniedProviders = MergePolicyList("deniedProviders")
      /\ d.allowedProviders = TenantAllowed("allowedProviders", Providers)
      /\ d.byo = tables.byo
      /\ d.deniedModels = MergePolicyList("deniedModels")
      /\ d.allowedModels = TenantAllowed("allowedModels", AllModels)
      /\ d.deniedTools = MergePolicyList("deniedTools")
      /\ d.allowedTools = TenantAllowed("allowedTools", Tools)
      /\ d.enabledTools = EnabledToolIds
  BY DEF Document, TenantDocument
<1>2. Leaves(s, "tenant", d, t)
  OBVIOUS
<1> HIDE DEF d
<1>3. (IF d.byo = "no" THEN Byo ELSE {}) = Brought
  <2>1. tables.byo \in {"yes", "no"}
    BY DEF TablesType
  <2> QED BY <1>1, <2>1 DEF Brought
<1>4. t.allowedProviders
        = Left("allowedProviders", "deniedProviders", Providers) \ Brought
  <2>1. t.allowedProviders
          = Within(Providers \ d.deniedProviders, d.allowedProviders, d.deniedProviders)
              \ Brought
    BY ZenonT(30), <1>2, <1>3 DEF Leaves, Unrestricted
  <2> QED BY <1>1, <2>1, WithinTenant
<1>5. t.allowedModels = Left("allowedModels", "deniedModels", AllModels)
  <2>1. t.allowedModels
          = Within(AllModels \ d.deniedModels, d.allowedModels, d.deniedModels)
    BY <1>2 DEF Leaves, Unrestricted
  <2> QED BY <1>1, <2>1, WithinTenant
<1>6. t.allowedTools = Left("allowedTools", "deniedTools", Tools)
  <2>1. t.allowedTools = Within(Tools \ d.deniedTools, d.allowedTools, d.deniedTools)
    BY <1>2 DEF Leaves, Unrestricted
  <2> QED BY <1>1, <2>1, WithinTenant
<1>7. t.enabledTools \subseteq EnabledToolIds
  BY <1>1, <1>2 DEF Leaves
<1> QED BY <1>4, <1>5, <1>6, <1>7 DEF Confined

\* The user's document has prompt fragments only.
LEMMA UserLeavesAll ==
    ASSUME NEW s, NEW t,
           Leaves(s, "user", Document("user"), t),
           Confined(s), s.enabledTools \subseteq EnabledToolIds
    PROVE  Confined(t) /\ t.enabledTools \subseteq EnabledToolIds
<1> DEFINE d == Document("user")
<1>1. /\ d.deniedProviders = {} /\ d.allowedProviders = {}
      /\ d.deniedModels = {} /\ d.allowedModels = {}
      /\ d.deniedTools = {} /\ d.allowedTools = {} /\ d.enabledTools = {}
  BY DEF Document, Silent
<1>2. Leaves(s, "user", d, t)
  OBVIOUS
<1> HIDE DEF d
<1>3. t.allowedProviders = s.allowedProviders
  BY <1>1, <1>2 DEF Leaves
<1>4. t.allowedModels = s.allowedModels /\ t.allowedTools = s.allowedTools
  BY <1>1, <1>2 DEF Leaves, Within
<1>5. t.enabledTools = s.enabledTools
  BY <1>1, <1>2 DEF Leaves
<1> QED BY <1>3, <1>4, <1>5 DEF Confined

\* Before the first stage nothing is restricted.
LEMMA InitBuildInv == BuildInit => BuildInv
<1> SUFFICES ASSUME BuildInit PROVE BuildInv
  OBVIOUS
<1>1. tables \in TablesType
  <2>1. tables \in Tables
    BY DEF BuildInit
  <2>2. Tables \subseteq TablesType
    BY AdminAssumption
  <2> QED BY <2>1, <2>2
<1>2. IInv
  BY InitIInv DEF BuildInit
<1>3. merged = {} /\ policy = {} /\ state = InitialState
  BY DEF BuildInit, Init
<1>4. IsFiniteSet(merged) /\ Cardinality(merged) = 0
  BY <1>3, FS_EmptySet
<1>5. InOrder
  <2>1. Len(Stages) >= 0
    BY DEF Stages
  <2> QED BY <1>3, <1>4, <2>1 DEF InOrder
<1>6. Unrestricted(state) /\ state.enabledTools \subseteq EnabledToolIds
  BY <1>3 DEF Unrestricted, InitialState
<1>7. BuiltOK
  BY <1>4, <1>5, <1>6 DEF BuiltOK, TenantPlace
<1> QED BY <1>1, <1>2, <1>3, <1>7 DEF BuildInv, BundlesDecide

\* One more stage: what the upper documents leave open, the tenant's closes.
LEMMA MergeBuildInv ==
    ASSUME BuildInv, MergeBuilt
    PROVE  /\ BuildInv'
           /\ \E source \in Sources, document \in DocumentType : Merge(source, document)
<1> DEFINE k      == Cardinality(merged)
           source == Stages[k + 1]
           d      == Document(source)
           b      == Begin(state, source, d)
<1>1. /\ built /\ k + 1 <= Len(Stages)
      /\ Merge(source, d)
      /\ built' = built /\ tables' = tables
  BY DEF MergeBuilt
<1>2. /\ tables \in TablesType /\ IInv /\ InOrder
      /\ IF k < TenantPlace THEN Unrestricted(state) ELSE Confined(state)
      /\ state.enabledTools \subseteq EnabledToolIds
  BY <1>1 DEF BuildInv, BuiltOK
<1>3. IsFiniteSet(merged) /\ k \in Nat
  BY <1>2, FS_CardinalityType DEF InOrder
<1>4. /\ TenantPlace \in Nat /\ Len(Stages) \in Nat
  BY DEF TenantPlace, Stages
<1>5. /\ k + 1 < TenantPlace => source \in {"platform", "service"}
      /\ k + 1 = TenantPlace => source = "tenant"
      /\ k + 1 > TenantPlace => source = "user"
      /\ \A i \in 1..k : Stages[i] # source
  <2>1. k < Len(Stages)
    BY <1>1, <1>3, <1>4
  <2> HIDE DEF k
  <2> QED BY <1>3, <2>1, StagesInOrder
<1>6. source \in {"platform", "service", "tenant", "user"}
  <2> HIDE DEF source, k
  <2> QED BY <1>3, <1>4, <1>5
<1>7. d \in DocumentType /\ source \in Sources
  <2> HIDE DEF source
  <2> QED BY <1>2, <1>6, DocumentTyped DEF Sources
<1>8. IInv'
  <2> HIDE DEF source, d
  <2> QED BY <1>1, <1>2, <1>7, MergeIInv
<1>9. /\ merged' = merged \cup {[source |-> source, document |-> d]}
      /\ state' = MergeScope(b, source, d)
      /\ policy' = {}
  BY <1>1 DEF Merge
<1> HIDE DEF d
<1>10. /\ IsFiniteSet(merged') /\ Cardinality(merged') = k + 1
       /\ \A m \in merged' : \E i \in 1..(k + 1) : m.source = Stages[i]
  <2> DEFINE new == [source |-> source, document |-> d]
  <2>1. new.source = source
    OBVIOUS
  <2>2. \A m \in merged : \E i \in 1..k : m.source = Stages[i]
    BY <1>2 DEF InOrder
  <2>3. new \notin merged
    BY <1>5, <2>1, <2>2
  <2>4. source = Stages[k + 1]
    OBVIOUS
  <2> HIDE DEF new, source
  <2>5. Cardinality(merged \cup {new}) = k + 1 /\ IsFiniteSet(merged \cup {new})
    BY <1>3, <2>3, FS_AddElement
  <2>6. merged' = merged \cup {new}
    BY <1>9 DEF new
  <2> HIDE DEF k
  <2>7. k + 1 \in 1..(k + 1) /\ \A i \in 1..k : i \in 1..(k + 1)
    BY <1>3
  <2> QED BY <2>1, <2>2, <2>4, <2>5, <2>6, <2>7
<1> HIDE DEF source
<1>11. /\ b \in StateType
       /\ b.allowedProviders = state.allowedProviders
       /\ b.deniedProviders = state.deniedProviders
       /\ b.allowedModels = state.allowedModels /\ b.deniedModels = state.deniedModels
       /\ b.allowedTools = state.allowedTools /\ b.deniedTools = state.deniedTools
       /\ b.enabledTools = state.enabledTools
  <2>1. state \in StateType
    BY <1>2 DEF IInv, TypeOK
  <2>2. b \in StateType
    BY <1>7, <2>1, BeginKeeps
  <2> QED BY <2>1, <2>2 DEF Begin, StateType
<1> HIDE DEF b
<1>12. Leaves(b, source, d, state')
  <2>1. Byo \subseteq Providers
    BY PolicyAssumption
  <2>2. PICK t : t = state'
    OBVIOUS
  <2>3. t = MergeScope(b, source, d)
    BY <1>9, <2>2
  <2>4. Leaves(b, source, d, t)
    BY <1>7, <1>11, <2>1, <2>3, ScopeLeaves
  <2> QED BY <2>2, <2>4
<1>13. Leaves(state, source, d, state')
  BY <1>11, <1>12 DEF Leaves
<1>14. /\ IF k + 1 < TenantPlace THEN Unrestricted(state') ELSE Confined(state')
       /\ state'.enabledTools \subseteq EnabledToolIds
  <2>1. CASE k + 1 < TenantPlace
    <3>1. source \in {"platform", "service"} /\ Unrestricted(state)
      BY <1>2, <1>3, <1>4, <1>5, <2>1
    <3> QED BY <1>2, <1>13, <2>1, <3>1, UpperLeavesAll DEF d
  <2>2. CASE k + 1 = TenantPlace
    <3>1. source = "tenant" /\ Unrestricted(state)
      BY <1>2, <1>3, <1>4, <1>5, <2>2
    <3> QED BY <1>2, <1>4, <1>13, <2>2, <3>1, TenantLeaves DEF d
  <2>3. CASE k + 1 > TenantPlace
    <3>1. source = "user" /\ Confined(state)
      BY <1>2, <1>3, <1>4, <1>5, <2>3
    <3>2. Leaves(state, "user", Document("user"), state')
      BY <1>13, <3>1 DEF d
    <3>3. Confined(state') /\ state'.enabledTools \subseteq EnabledToolIds
      BY <1>2, <3>1, <3>2, UserLeavesAll
    <3> QED BY <1>3, <1>4, <2>3, <3>3
  <2> QED BY <1>3, <1>4, <2>1, <2>2, <2>3
<1>15. BuiltOK'
  <2>1. InOrder'
    BY <1>1, <1>4, <1>9, <1>10 DEF InOrder, Stages
  <2>2. (IF Cardinality(merged) < TenantPlace THEN Unrestricted(state) ELSE Confined(state))'
    <3>1. Confined(state') => Confined(state)'
      BY <1>1 DEF Confined, Left, Brought
    <3>2. Unrestricted(state') => Unrestricted(state)'
      BY DEF Unrestricted
    <3>3. TenantPlace' = TenantPlace
      BY DEF TenantPlace
    <3> QED BY <1>10, <1>14, <3>1, <3>2, <3>3
  <2>3. (state.enabledTools \subseteq EnabledToolIds)'
    BY <1>1, <1>14 DEF EnabledToolIds, MergePolicyList, Installed, Bundle
  <2> QED BY <2>1, <2>2, <2>3 DEF BuiltOK
<1>16. BundlesDecide'
  BY <1>9 DEF BundlesDecide
<1>17. (tables \in TablesType)'
  BY <1>1, <1>2 DEF TablesType
<1> QED BY <1>1, <1>7, <1>8, <1>15, <1>16, <1>17 DEF BuildInv

\* The policy is made of what the last stage left.
LEMMA FinishBuildInv ==
    ASSUME BuildInv, FinishBuilt
    PROVE  BuildInv'
<1>1. /\ built /\ Cardinality(merged) = Len(Stages)
      /\ built' = built /\ tables' = tables
  BY DEF FinishBuilt
<1>2. PICK request \in Requests : Finish(request)
  BY DEF FinishBuilt
<1>3. IInv /\ IInv' /\ tables \in TablesType
  BY <1>2, FinishIInv DEF BuildInv
<1>4. /\ InOrder /\ state.enabledTools \subseteq EnabledToolIds
      /\ Confined(state)
  <2>1. ~(Len(Stages) < TenantPlace)
    BY DEF Stages, TenantPlace
  <2> QED BY <1>1, <2>1 DEF BuildInv, BuiltOK
<1>5. /\ state' = state /\ merged' = merged
  BY <1>2 DEF Finish
<1>6. BuiltOK'
  <2>1. InOrder'
    BY <1>1, <1>4, <1>5 DEF InOrder, Stages
  <2>2. (IF Cardinality(merged) < TenantPlace
         THEN Unrestricted(state) ELSE Confined(state))'
    <3>1. ~(Cardinality(merged') < TenantPlace)
      BY <1>1, <1>5 DEF Stages, TenantPlace
    <3>2. Confined(state)'
      BY <1>1, <1>4, <1>5 DEF Confined, Left, Brought
    <3> QED BY <3>1, <3>2 DEF TenantPlace
  <2>3. (state.enabledTools \subseteq EnabledToolIds)'
    BY <1>1, <1>4, <1>5 DEF EnabledToolIds, MergePolicyList, Installed, Bundle
  <2> QED BY <2>1, <2>2, <2>3 DEF BuiltOK
<1>7. PICK provider, model :
        /\ provider \in FirstAllowed(request.provider, state.defaultProvider,
                                     state.allowedProviders)
        /\ policy' = {[ request          |-> request,
                        provider         |-> provider,
                        allowedProviders |-> state.allowedProviders,
                        model            |-> model,
                        allowedModels    |-> Served(provider),
                        allowedTools     |-> state.allowedTools,
                        enabledTools     |-> EnabledTools(request),
                        mode             |-> RetentionMode(request),
                        byoAllowed       |-> state.byoAllowed ]}
  BY <1>2 DEF Finish
<1>8. ASSUME NEW p \in policy'
      PROVE  /\ p.request = request /\ p.provider = provider
             /\ p.allowedProviders = state.allowedProviders
             /\ p.allowedModels = Served(provider)
             /\ p.allowedTools = state.allowedTools
             /\ p.enabledTools = EnabledTools(request)
  BY <1>7
<1>9. /\ state.allowedProviders \subseteq Providers
      /\ state.deniedModels \cap state.allowedModels = {}
      /\ "unavailable" \notin Providers
  BY <1>3, PolicyAssumption DEF IInv, TypeOK, StateType, Apart
<1>10. provider = "unavailable" <=> state.allowedProviders = {}
  BY <1>7, <1>9 DEF FirstAllowed
<1>11. ASSUME provider \in Providers
       PROVE  Served(provider)
                = Left("allowedModels", "deniedModels", ModelsOf[provider])
  <2>1. ModelsOf[provider] \subseteq AllModels
    BY <1>11 DEF AllModels
  <2>2. Served(provider) = state.allowedModels \cap ModelsOf[provider]
    BY <1>9, <1>11 DEF Served
  <2>3. Left("allowedModels", "deniedModels", ModelsOf[provider])
          = Left("allowedModels", "deniedModels", AllModels) \cap ModelsOf[provider]
    BY <2>1, LeftOfLists
  <2> QED BY <1>4, <2>2, <2>3 DEF Confined
<1>12. ASSUME Dangerous \in EnabledTools(request)
       PROVE  \/ Dangerous \in request.tools
              \/ \E i \in 1..Len(tables.installations) :
                   /\ tables.installations[i].enabled
                   /\ Dangerous \in tables.installations[i].bundle.enabledTools
  <2>1. Dangerous \in request.tools \/ Dangerous \in EnabledToolIds
    BY <1>4, <1>12 DEF EnabledTools
  <2>2. ASSUME Dangerous \in EnabledToolIds
        PROVE  \E i \in Installed : Dangerous \in Bundle(i)["enabledTools"]
    BY <2>2 DEF EnabledToolIds, MergePolicyList
  <2> QED BY <2>1, <2>2 DEF Installed, Bundle
<1>13. BundlesDecide'
  <2> SUFFICES ASSUME NEW p \in policy'
               PROVE  /\ p.allowedProviders
                           = (Left("allowedProviders", "deniedProviders", Providers)
                                \ Brought)'
                      /\ p.provider = "unavailable" <=> p.allowedProviders = {}
                      /\ p.provider \in Providers =>
                           p.allowedModels
                             = Left("allowedModels", "deniedModels",
                                    ModelsOf[p.provider])'
                      /\ p.allowedTools = Left("allowedTools", "deniedTools", Tools)'
                      /\ Dangerous \in p.enabledTools =>
                           \/ Dangerous \in p.request.tools
                           \/ \E i \in 1..Len(tables'.installations) :
                                /\ tables'.installations[i].enabled
                                /\ Dangerous \in tables'.installations[i].bundle.enabledTools
    BY DEF BundlesDecide, Brought
  <2>1. p.allowedProviders
          = (Left("allowedProviders", "deniedProviders", Providers) \ Brought)'
    BY <1>1, <1>4, <1>8 DEF Confined, Left, Brought
  <2>2. p.allowedTools = Left("allowedTools", "deniedTools", Tools)'
    BY <1>1, <1>4, <1>8 DEF Confined, Left
  <2>3. ASSUME p.provider \in Providers
        PROVE  p.allowedModels
                 = Left("allowedModels", "deniedModels", ModelsOf[p.provider])'
    BY <1>1, <1>8, <1>11, <2>3 DEF Left
  <2>4. p.provider = "unavailable" <=> p.allowedProviders = {}
    BY <1>8, <1>10
  <2>5. ASSUME Dangerous \in p.enabledTools
        PROVE  \/ Dangerous \in p.request.tools
               \/ \E i \in 1..Len(tables'.installations) :
                    /\ tables'.installations[i].enabled
                    /\ Dangerous \in tables'.installations[i].bundle.enabledTools
    BY <1>1, <1>8, <1>12, <2>5
  <2> QED BY <2>1, <2>2, <2>3, <2>4, <2>5
<1>14. (tables \in TablesType)'
  BY <1>1, <1>3 DEF TablesType
<1> QED BY <1>3, <1>6, <1>13, <1>14 DEF BuildInv

\* Every step keeps the invariant.
LEMMA NextBuildInv == BuildInv /\ [BuildNext]_buildVars => BuildInv'
<1> SUFFICES ASSUME BuildInv, [BuildNext]_buildVars PROVE BuildInv'
  OBVIOUS
<1>1. CASE MergeBuilt
  BY <1>1, MergeBuildInv
<1>2. CASE FinishBuilt
  BY <1>2, FinishBuildInv
<1>3. CASE CompileAny
  <2>1. ~built' /\ tables' = tables /\ Next
    BY <1>3 DEF CompileAny
  <2>2. IInv'
    BY <2>1, NextIInv DEF BuildInv
  <2>3. tables \in TablesType
    BY DEF BuildInv
  <2> QED BY <2>1, <2>2, <2>3 DEF BuildInv, BuiltOK, BundlesDecide, TablesType
<1>4. CASE UNCHANGED buildVars
  <2>1. UNCHANGED vars /\ built' = built /\ tables' = tables
    BY <1>4 DEF buildVars
  <2>2. IInv'
    BY <2>1, NextIInv DEF BuildInv
  <2>3. state' = state /\ merged' = merged /\ policy' = policy
    BY <2>1 DEF vars
  <2>4. (tables \in TablesType)'
    BY <2>1 DEF BuildInv, TablesType
  <2>5. BuiltOK'
    <3>1. InOrder' = InOrder /\ TenantPlace' = TenantPlace
      BY <2>1, <2>3 DEF InOrder, Stages, TenantPlace
    <3>2. Unrestricted(state)' = Unrestricted(state)
      BY <2>1, <2>3 DEF Unrestricted
    <3>3. Confined(state)' = Confined(state)
      BY <2>1, <2>3 DEF Confined, Left, Brought
    <3>4. EnabledToolIds' = EnabledToolIds
      BY <2>1 DEF EnabledToolIds, MergePolicyList, Installed, Bundle
    <3> QED
      BY <2>1, <2>3, <3>1, <3>2, <3>3, <3>4 DEF BuildInv, BuiltOK
  <2>6. BundlesDecide'
    BY <2>1, <2>3 DEF BuildInv, BundlesDecide, Left
  <2> QED BY <2>2, <2>4, <2>5, <2>6 DEF BuildInv
<1> QED BY <1>1, <1>2, <1>3, <1>4 DEF BuildNext

LEMMA AlwaysBuildInv == BuildSpec => []BuildInv
BY InitBuildInv, NextBuildInv, PTL DEF BuildSpec

----------------------------------------------------------------------------
(* What the enabled bundles decide, for every table and every inventory.   *)

\* Whatever rows the tables have, the enabled bundles and the settings decide
\* what a chat may use, and nothing else does (platformPluginPolicyBundle,
\* buildAdminState, compileEffectivePolicy).
THEOREM BundlesAlwaysDecide == BuildSpec => []BundlesDecide
<1>1. BuildInv => BundlesDecide
  BY DEF BuildInv
<1> QED BY <1>1, AlwaysBuildInv, PTL

\* What the compiler promises of any documents it promises of those that
\* buildAdminState makes of rows, one stage after the other.
THEOREM BuiltPoliciesObey ==
    BuildSpec => [](DenyOverrides /\ ByoForbidden /\ StrictestWins /\ SelectionServed)
<1>1. BuildInv => DenyOverrides /\ ByoForbidden /\ StrictestWins /\ SelectionServed
  BY DEF BuildInv, IInv, Decided
<1> QED BY <1>1, AlwaysBuildInv, PTL

\* Nor does a document made of rows widen what those above it left.
THEOREM BuiltScopesNarrow == BuildSpec => OnlyNarrows
<1>1. BuildInv /\ [BuildNext]_buildVars => [Narrowing]_vars
  <2> SUFFICES ASSUME BuildInv, [BuildNext]_buildVars PROVE [Narrowing]_vars
    OBVIOUS
  <2>1. CASE MergeBuilt
    <3>1. PICK source \in Sources, document \in DocumentType : Merge(source, document)
      BY <2>1, MergeBuildInv
    <3> QED BY <3>1, MergeNarrows DEF BuildInv
  <2>2. CASE FinishBuilt
    BY <2>2 DEF FinishBuilt, Finish, Narrowing
  <2>3. CASE CompileAny
    BY <2>3, NextNarrows DEF CompileAny, BuildInv
  <2>4. CASE UNCHANGED buildVars
    BY <2>4 DEF buildVars
  <2> QED BY <2>1, <2>2, <2>3, <2>4 DEF BuildNext
<1>2. OnlyNarrows <=> [][Narrowing]_vars
  BY DEF OnlyNarrows, Narrowing
<1> QED BY <1>1, <1>2, AlwaysBuildInv, PTL DEF BuildSpec
=============================================================================
