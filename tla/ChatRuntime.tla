---------------------------- MODULE ChatRuntime ----------------------------
(***************************************************************************)
(* ChatRuntime.runChat (packages/runtime) together with McpGateway         *)
(* (packages/mcp-gateway) and the repository writes they make.  Several    *)
(* runs are served by one process.  A run is a sequence of awaited calls,  *)
(* and everything another request does may happen between two of them: an  *)
(* administrator's refresh replaces the runtime services, a plugin install *)
(* adds tool permissions.  Any repository call may throw, which rejects    *)
(* the run and leaves behind what it had written.                          *)
(***************************************************************************)
EXTENDS Naturals, Sequences

CONSTANTS
    Runs,               \* calls of runChat
    Tools,              \* tool ids: of the gateway, the policies, the answers
    Requests,           \* the chat requests a caller may send
    AdminStates,        \* what refreshAdminState may publish
    MaxToolIterations,  \* AppConfig.maxToolIterations
    MaxCalls            \* bound: tool calls in one provider answer

----------------------------------------------------------------------------
(* Retention modes.                                                        *)

Modes == {"retained", "limited", "ephemeral"}

\* The chat route passes any string on as a RetentionMode.
RequestedModes == Modes \cup {"none", "unrecognized"}

PolicyModes == Modes \cup {"unrecognized"}

rank == [retained |-> 2, limited |-> 1, ephemeral |-> 0]

\* False when the candidate is no mode: a comparison with undefined.
IsStricterOrEqual(candidate, ceiling) ==
    candidate \in Modes /\ rank[candidate] <= rank[ceiling]

CanStoreContent(mode) == mode # "ephemeral"

\* Mutated form: tool payloads follow the rule for messages.
CanStoreToolPayloadsBug(mode) == mode # "ephemeral"

CanStoreToolPayloads(mode) == mode \notin {"ephemeral", "limited"}

----------------------------------------------------------------------------
(* Requests, the published services and the policy compiled from both.     *)

RequestType ==
    [ mode      : RequestedModes,
      tools     : SUBSET Tools,     \* enabledToolIds
      confirmed : SUBSET Tools,     \* confirmedToolIds
      resumes   : BOOLEAN,          \* conversationId is given
      admitted  : BOOLEAN ]         \* tenant resolves, user is a member

\* A tool of the gateway is registered, and if so it may want a confirmation.
Registrations == {"absent", "plain", "guarded"}

AdminStateType ==
    [ tools     : [Tools -> Registrations],
      allowed   : SUBSET Tools,
      enabled   : SUBSET Tools,
      default   : Modes,
      mandatory : Modes \cup {"none"} ]

ASSUME ChatAssumption ==
    /\ Requests \subseteq RequestType
    /\ AdminStates \subseteq AdminStateType
    /\ MaxToolIterations \in Nat
    /\ MaxCalls \in Nat \ {0}

PolicyType == [mode : PolicyModes, allowed : SUBSET Tools, enabled : SUBSET Tools]

\* The part of compileEffectivePolicy the run depends on.
RetentionChoice(s, q) ==
    LET wanted == IF q.mode = "none" THEN s.default ELSE q.mode
    IN  IF s.mandatory # "none" /\ ~IsStricterOrEqual(wanted, s.mandatory)
        THEN s.mandatory
        ELSE wanted

CompilePolicy(s, q) ==
    [ mode    |-> RetentionChoice(s, q),
      allowed |-> s.allowed,
      enabled |-> s.allowed \cap (IF q.tools = {} THEN s.enabled ELSE q.tools) ]

NoPolicy == [mode |-> "ephemeral", allowed |-> {}, enabled |-> {}]

----------------------------------------------------------------------------
VARIABLES
    request,        \* the request of each run; never changes
    services,       \* the services object of the bundle, shared by all runs
    grants,         \* rows of tool_permissions that findPermission can return
    run,            \* the local variables of each call of runChat
    rows,           \* what each run left in the content tables
    invocations,    \* rows of tool_invocations, in order, by run
    milestones,     \* lifecycle audit events, by run
    toolAudits,     \* tool.* audit events, in order, by run
    executed        \* tool executions that took effect, and for which row

vars == <<request, services, grants, run, rows, invocations, milestones,
          toolAudits, executed>>

Places ==
    {"arrived", "compilePolicy", "createConversation", "auditRetention",
     "snapshotPolicy", "auditPolicy", "saveUserMessage", "readFragments",
     "saveCompilation", "auditPrompt", "provider", "callTool",
     "findPermission", "execute", "record", "auditTool", "auditLimit",
     "saveAnswer", "auditChat", "done", "rejected"}

Statuses == {"denied", "requires_confirmation", "completed", "failed"}

RunType ==
    [ pc        : Places,
      policy    : PolicyType,
      thread    : {"none", "given", "own"},     \* conversationId
      iteration : 0..MaxToolIterations,
      answers   : Nat,          \* provider answers so far; 0: no finalResult
      calls     : Seq(Tools),   \* tool calls of the round still to be made
      guarded   : BOOLEAN,      \* requiresConfirmation of the tool looked up
      outcome   : Statuses,     \* what the current call is recorded as
      stop      : BOOLEAN ]     \* stopAfterTools

\* payload: the columns of arguments and result may be filled.
InvocationType == [tool : Tools, status : Statuses, payload : BOOLEAN]

\* Which rows a run left; each is written or not as the retention mode says.
RowsType ==
    [ conversation : BOOLEAN,
      snapshot     : BOOLEAN,
      userMessage  : BOOLEAN,
      compilation  : {"none", "hash", "content"},
      answer       : Nat ]      \* provider answer saved as message; 0: none

MilestoneTypes ==
    {"retention.selected", "policy.evaluated", "prompt.compiled",
     "agent.limit_reached", "chat.completed"}

ToolAuditTypes == {"tool.invoked", "tool.denied", "tool.confirmation_required"}

ExecutionType == [at : Nat \ {0}, tool : Tools, guarded : BOOLEAN]

TypeOK ==
    /\ request \in [Runs -> Requests]
    /\ services \in AdminStates
    /\ grants \in [Tools -> SUBSET {"use", "confirm"}]
    /\ run \in [Runs -> RunType]
    /\ rows \in [Runs -> RowsType]
    /\ invocations \in [Runs -> Seq(InvocationType)]
    /\ milestones \in [Runs -> SUBSET MilestoneTypes]
    /\ toolAudits \in [Runs -> Seq(ToolAuditTypes)]
    /\ executed \in [Runs -> SUBSET ExecutionType]

Init ==
    /\ request \in [Runs -> Requests]
    /\ services \in AdminStates
    /\ grants \in [Tools -> SUBSET {"use", "confirm"}]
    /\ run = [r \in Runs |->
                [ pc |-> "arrived", policy |-> NoPolicy, thread |-> "none",
                  iteration |-> 0, answers |-> 0, calls |-> <<>>,
                  guarded |-> FALSE, outcome |-> "denied", stop |-> FALSE ]]
    /\ rows = [r \in Runs |->
                [ conversation |-> FALSE, snapshot |-> FALSE,
                  userMessage |-> FALSE, compilation |-> "none",
                  answer |-> 0 ]]
    /\ invocations = [r \in Runs |-> <<>>]
    /\ milestones = [r \in Runs |-> {}]
    /\ toolAudits = [r \in Runs |-> <<>>]
    /\ executed = [r \in Runs |-> {}]

----------------------------------------------------------------------------
(* One action per awaited call of runChat.                                 *)

At(r, place) == run[r].pc = place

Goto(r, place) == run' = [run EXCEPT ![r].pc = place]

Mode(r) == run[r].policy.mode

\* Who else writes: nothing of it is touched by the steps of a run.
admin == <<request, services, grants>>

tables == <<rows, invocations, milestones, toolAudits, executed>>

\* resolveTenant and getMembership: a failing lookup throws.
Admit(r) ==
    /\ At(r, "arrived")
    /\ Goto(r, IF request[r].admitted THEN "compilePolicy" ELSE "rejected")
    /\ UNCHANGED <<admin, tables>>

\* The policy is compiled once, from the services of this very moment.
Compile(r) ==
    /\ At(r, "compilePolicy")
    /\ run' = [run EXCEPT ![r].policy = CompilePolicy(services, request[r]),
                          ![r].pc = "createConversation"]
    /\ UNCHANGED <<admin, tables>>

\* A conversation row is made even for a request that names its own.
CreateConversation(r) ==
    /\ At(r, "createConversation")
    /\ rows' = [rows EXCEPT ![r].conversation = CanStoreContent(Mode(r))]
    /\ run' = [run EXCEPT
                 ![r].thread = IF request[r].resumes THEN "given"
                               ELSE IF CanStoreContent(Mode(r)) THEN "own"
                               ELSE "none",
                 ![r].pc = "auditRetention"]
    /\ UNCHANGED <<admin, invocations, milestones, toolAudits, executed>>

\* createAudit of a lifecycle event, then on to the next place.
AuditMilestone(r, from, type, to) ==
    /\ At(r, from)
    /\ milestones' = [milestones EXCEPT ![r] = @ \cup {type}]
    /\ Goto(r, to)
    /\ UNCHANGED <<admin, rows, invocations, toolAudits, executed>>

AuditRetention(r) ==
    AuditMilestone(r, "auditRetention", "retention.selected", "snapshotPolicy")

SnapshotPolicy(r) ==
    /\ At(r, "snapshotPolicy")
    /\ rows' = [rows EXCEPT ![r].snapshot = TRUE]
    /\ Goto(r, "auditPolicy")
    /\ UNCHANGED <<admin, invocations, milestones, toolAudits, executed>>

AuditPolicy(r) ==
    AuditMilestone(r, "auditPolicy", "policy.evaluated",
        IF run[r].thread = "none" THEN "readFragments" ELSE "saveUserMessage")

\* createMessageFromRequest returns null when content may not be stored.
SaveUserMessage(r) ==
    /\ At(r, "saveUserMessage")
    /\ rows' = [rows EXCEPT ![r].userMessage = CanStoreContent(Mode(r))]
    /\ Goto(r, "readFragments")
    /\ UNCHANGED <<admin, invocations, milestones, toolAudits, executed>>

ReadFragments(r) ==
    /\ At(r, "readFragments")
    /\ Goto(r, "saveCompilation")
    /\ UNCHANGED <<admin, tables>>

SaveCompilation(r) ==
    /\ At(r, "saveCompilation")
    /\ rows' = [rows EXCEPT ![r].compilation =
                   IF CanStoreContent(Mode(r)) THEN "content" ELSE "hash"]
    /\ Goto(r, "auditPrompt")
    /\ UNCHANGED <<admin, invocations, milestones, toolAudits, executed>>

AuditPrompt(r) ==
    AuditMilestone(r, "auditPrompt", "prompt.compiled", "provider")

\* Mutated form: a run whose last provider call failed saves no answer.
AfterLoopBug(r, answers) ==
    IF run[r].thread # "none" /\ answers > run[r].answers
    THEN "saveAnswer" ELSE "auditChat"

\* Where the code after the loop takes up.
AfterLoop(r, answers) ==
    IF run[r].thread # "none" /\ answers > 0 THEN "saveAnswer" ELSE "auditChat"

\* The stream fails, or ends without a result.
ProviderFails(r) ==
    /\ At(r, "provider")
    /\ Goto(r, AfterLoop(r, run[r].answers))
    /\ UNCHANGED <<admin, tables>>

\* Mutated form: the limit is tested one round too late.
PlaceAfterAnswerBug(r, calls, answers) ==
    IF calls = <<>> THEN AfterLoop(r, answers)
    ELSE IF run[r].iteration > MaxToolIterations THEN "auditLimit"
    ELSE "callTool"

PlaceAfterAnswer(r, calls, answers) ==
    IF calls = <<>> THEN AfterLoop(r, answers)
    ELSE IF run[r].iteration >= MaxToolIterations THEN "auditLimit"
    ELSE "callTool"

\* A finished stream; a model may name any tool, offered to it or not.
ProviderAnswers(r, calls) ==
    /\ At(r, "provider")
    /\ LET answers == run[r].answers + 1
           place   == PlaceAfterAnswer(r, calls, answers)
       IN  run' = [run EXCEPT ![r].answers = answers, ![r].pc = place,
                              ![r].calls = IF place = "callTool" THEN calls
                                           ELSE <<>>,
                              ![r].stop = FALSE]
    /\ UNCHANGED <<admin, tables>>

AuditLimit(r) ==
    AuditMilestone(r, "auditLimit", "agent.limit_reached",
                   AfterLoop(r, run[r].answers))

----------------------------------------------------------------------------
(* McpGateway.executeTool, for the first of the pending calls.             *)

CurrentTool(r) == Head(run[r].calls)

\* Mutated form: a tool the gateway does not know is waited for.
CallToolBug(r) ==
    /\ At(r, "callTool")
    /\ LET registered == services.tools[CurrentTool(r)]
           usable == CurrentTool(r) \in run[r].policy.enabled \cap run[r].policy.allowed
       IN  /\ registered # "absent"
           /\ run' = [run EXCEPT
                    ![r].guarded = (registered = "guarded"),
                    ![r].outcome = "denied",
                    ![r].pc = IF usable THEN "findPermission" ELSE "record"]
    /\ UNCHANGED <<admin, tables>>

\* The gateway published now looks the tool up; what it finds is kept.
CallTool(r) ==
    /\ At(r, "callTool")
    /\ LET registered == services.tools[CurrentTool(r)]
           usable == /\ registered # "absent"
                     /\ CurrentTool(r) \in run[r].policy.enabled
                     /\ CurrentTool(r) \in run[r].policy.allowed
       IN  run' = [run EXCEPT
                    ![r].guarded = (registered = "guarded"),
                    ![r].outcome = "denied",
                    ![r].pc = IF usable THEN "findPermission" ELSE "record"]
    /\ UNCHANGED <<admin, tables>>

\* Mutated form: the permission row alone decides about the confirmation.
FindPermissionBug(r) ==
    /\ At(r, "findPermission")
    /\ \E permission \in grants[CurrentTool(r)] :
         run' = [run EXCEPT
                  ![r].outcome = "requires_confirmation",
                  ![r].pc = IF permission = "confirm" THEN "record"
                            ELSE "execute"]
    /\ UNCHANGED <<admin, tables>>

\* Without an order by, any of several matching rows may come first.
FindPermission(r) ==
    /\ At(r, "findPermission")
    /\ \/ /\ grants[CurrentTool(r)] = {}
          /\ run' = [run EXCEPT ![r].outcome = "denied", ![r].pc = "record"]
       \/ \E permission \in grants[CurrentTool(r)] :
            LET needsConfirmation == run[r].guarded \/ permission = "confirm"
                asks == /\ needsConfirmation
                        /\ CurrentTool(r) \notin request[r].confirmed
            IN  run' = [run EXCEPT
                         ![r].outcome = "requires_confirmation",
                         ![r].pc = IF asks THEN "record" ELSE "execute"]
    /\ UNCHANGED <<admin, tables>>

\* The invocation row that will account for the current call.
Position(r) == Len(invocations[r]) + 1

TakeEffect(r) ==
    executed' = [executed EXCEPT ![r] = @ \cup
                   {[at |-> Position(r), tool |-> CurrentTool(r),
                     guarded |-> run[r].guarded]}]

\* tool.execute returns, or throws with or without having taken effect.
Execute(r) ==
    /\ At(r, "execute")
    /\ \/ /\ TakeEffect(r)
          /\ run' = [run EXCEPT ![r].outcome = "completed", ![r].pc = "record"]
       \/ /\ TakeEffect(r) \/ UNCHANGED executed
          /\ run' = [run EXCEPT ![r].outcome = "failed", ![r].pc = "record"]
    /\ UNCHANGED <<admin, rows, invocations, milestones, toolAudits>>

\* createToolInvocation.
Record(r) ==
    /\ At(r, "record")
    /\ invocations' = [invocations EXCEPT ![r] = Append(@,
          [ tool    |-> CurrentTool(r),
            status  |-> run[r].outcome,
            payload |-> CanStoreToolPayloads(Mode(r)) ])]
    /\ Goto(r, "auditTool")
    /\ UNCHANGED <<admin, rows, milestones, toolAudits, executed>>

\* Mutated form: a completed execution whose row fails counts as denied.
RecordFailsBug(r) ==
    /\ At(r, "record")
    /\ run[r].outcome = "completed"
    /\ run' = [run EXCEPT ![r].outcome = "denied"]
    /\ UNCHANGED <<admin, tables>>

\* The same write failing after a completed execution: the surrounding
\* handler takes it for a failure of the tool.
RecordFails(r) ==
    /\ At(r, "record")
    /\ run[r].outcome = "completed"
    /\ run' = [run EXCEPT ![r].outcome = "failed"]
    /\ UNCHANGED <<admin, tables>>

\* Mutated form: a tool that threw is audited as invoked.
AuditTypeOfBug(status) ==
    IF status = "requires_confirmation" THEN "tool.confirmation_required"
    ELSE IF status = "denied" THEN "tool.denied" ELSE "tool.invoked"

AuditTypeOf(status) ==
    CASE status = "completed"             -> "tool.invoked"
      [] status = "requires_confirmation" -> "tool.confirmation_required"
      [] OTHER                            -> "tool.denied"

\* Mutated form: only the last call of a round decides whether to stop.
AuditToolBug(r) ==
    /\ At(r, "auditTool")
    /\ toolAudits' = [toolAudits EXCEPT ![r] =
                        Append(@, AuditTypeOf(run[r].outcome))]
    /\ LET rest == Tail(run[r].calls)
           more == rest = <<>> /\ run[r].outcome = "completed"
       IN  run' = [run EXCEPT
                    ![r].calls = rest,
                    ![r].iteration = IF more THEN @ + 1 ELSE @,
                    ![r].pc = IF rest # <<>> THEN "callTool"
                              ELSE IF more THEN "provider"
                              ELSE AfterLoop(r, run[r].answers)]
    /\ UNCHANGED <<admin, rows, invocations, milestones, executed>>

\* The audit of the call, and the end of one turn of the for loop.
AuditTool(r) ==
    /\ At(r, "auditTool")
    /\ toolAudits' = [toolAudits EXCEPT ![r] =
                        Append(@, AuditTypeOf(run[r].outcome))]
    /\ LET rest == Tail(run[r].calls)
           stop == run[r].stop \/ run[r].outcome # "completed"
           more == rest = <<>> /\ ~stop
       IN  run' = [run EXCEPT
                    ![r].calls = rest,
                    ![r].stop = stop,
                    ![r].iteration = IF more THEN @ + 1 ELSE @,
                    ![r].pc = IF rest # <<>> THEN "callTool"
                              ELSE IF more THEN "provider"
                              ELSE AfterLoop(r, run[r].answers)]
    /\ UNCHANGED <<admin, rows, invocations, milestones, executed>>

----------------------------------------------------------------------------
(* After the loop.                                                         *)

SaveAnswer(r) ==
    /\ At(r, "saveAnswer")
    /\ rows' = [rows EXCEPT ![r].answer =
                   IF CanStoreContent(Mode(r)) THEN run[r].answers ELSE 0]
    /\ Goto(r, "auditChat")
    /\ UNCHANGED <<admin, invocations, milestones, toolAudits, executed>>

AuditChat(r) == AuditMilestone(r, "auditChat", "chat.completed", "done")

\* A repository call throws out of runChat.
Repository ==
    {"createConversation", "auditRetention", "snapshotPolicy", "auditPolicy",
     "saveUserMessage", "readFragments", "saveCompilation", "auditPrompt",
     "findPermission", "record", "auditTool", "auditLimit", "saveAnswer",
     "auditChat"}

Reject(r) ==
    /\ run[r].pc \in Repository
    /\ ~(At(r, "record") /\ run[r].outcome = "completed")
    /\ Goto(r, "rejected")
    /\ UNCHANGED <<admin, tables>>

Prelude(r) ==
    \/ Admit(r) \/ Compile(r) \/ CreateConversation(r) \/ AuditRetention(r)
    \/ SnapshotPolicy(r) \/ AuditPolicy(r) \/ SaveUserMessage(r)
    \/ ReadFragments(r) \/ SaveCompilation(r) \/ AuditPrompt(r)

Answers == UNION {[1..n -> Tools] : n \in 0..MaxCalls}

Loop(r) ==
    \/ ProviderFails(r) \/ (\E calls \in Answers : ProviderAnswers(r, calls))
    \/ AuditLimit(r) \/ CallTool(r) \/ FindPermission(r) \/ Execute(r)
    \/ Record(r) \/ RecordFails(r) \/ AuditTool(r)

Step(r) ==
    Prelude(r) \/ Loop(r) \/ SaveAnswer(r) \/ AuditChat(r) \/ Reject(r)

----------------------------------------------------------------------------
(* What other requests do meanwhile.                                       *)

\* The synchronous end of refreshAdminState replaces all four services.
Refresh ==
    /\ services' \in AdminStates \ {services}
    /\ UNCHANGED <<request, grants, run, tables>>

\* POST /api/plugins adds permission rows; nothing removes one.
Grant(tool, permission) ==
    /\ permission \notin grants[tool]
    /\ grants' = [grants EXCEPT ![tool] = @ \cup {permission}]
    /\ UNCHANGED <<request, services, run, tables>>

Administer ==
    Refresh \/ \E tool \in Tools, permission \in {"use", "confirm"} :
                 Grant(tool, permission)

Next == (\E r \in Runs : Step(r)) \/ Administer

Spec == Init /\ [][Next]_vars

\* A pending call of a run is eventually answered; administrators owe nothing.
FairSpec == Spec /\ \A r \in Runs : WF_vars(Step(r))

----------------------------------------------------------------------------
(* Properties.                                                             *)

StoresContent(r) ==
    \/ rows[r].conversation
    \/ rows[r].userMessage
    \/ rows[r].compilation = "content"
    \/ rows[r].answer # 0

StoresPayload(r) ==
    \E i \in 1..Len(invocations[r]) : invocations[r][i].payload

\* Strictest retention wins for everything a run leaves behind: an ephemeral
\* choice, of the caller or of the policy, keeps every message, prompt and
\* tool payload out of the database, and limited keeps tool payloads out,
\* however administrators change the policy while the run is on its way.
RetentionHonoured ==
    \A r \in Runs :
        /\ request[r].mode = "ephemeral" \/ Mode(r) = "ephemeral"
              => ~StoresContent(r) /\ ~StoresPayload(r)
        /\ request[r].mode = "limited" \/ Mode(r) = "limited"
              => ~StoresPayload(r)

\* Every execution was allowed: by the policy of the run, by a permission row
\* that exists, and by the caller's confirmation when the tool, or every
\* permission row there is, asks for one.  The evidence of the decisions that
\* allowed it, both audit events and the policy snapshot, is durable before.
ExecutionsAuthorised ==
    \A r \in Runs : \A e \in executed[r] :
        /\ e.tool \in run[r].policy.enabled \cap run[r].policy.allowed
        /\ grants[e.tool] # {}
        /\ e.guarded \/ "use" \notin grants[e.tool]
              => e.tool \in request[r].confirmed
        /\ {"retention.selected", "policy.evaluated"} \subseteq milestones[r]
        /\ rows[r].snapshot

\* tool_invocations and the tool.* audit events tell the same story in the
\* same order; the audit trails by the one call that is being audited.
ToolAuditTrail ==
    \A r \in Runs :
        /\ \/ /\ ~At(r, "auditTool")
              /\ Len(invocations[r]) = Len(toolAudits[r])
           \/ /\ run[r].pc \in {"auditTool", "rejected"}
              /\ Len(invocations[r]) = Len(toolAudits[r]) + 1
        /\ \A i \in 1..Len(toolAudits[r]) :
              /\ toolAudits[r][i] = "tool.invoked"
                    <=> invocations[r][i].status = "completed"
              /\ toolAudits[r][i] = "tool.confirmation_required"
                    <=> invocations[r][i].status = "requires_confirmation"

\* Rows and effects agree: a completed row stands for one execution that took
\* effect, an effect is never filed under a denied call, and at most the very
\* last effect has no row, while it is being recorded or because the database
\* refused to.
EffectsAccounted ==
    \A r \in Runs :
        /\ \A i \in 1..Len(invocations[r]) :
              invocations[r][i].status = "completed"
                => \E e \in executed[r] : e.at = i
        /\ \A e \in executed[r] :
              \/ /\ e.at \in 1..Len(invocations[r])
                 /\ invocations[r][e.at].tool = e.tool
                 /\ invocations[r][e.at].status \in {"completed", "failed"}
              \/ /\ e.at = Position(r)
                 /\ run[r].pc \in {"record", "rejected"}
        /\ \A e, f \in executed[r] : e.at = f.at => e = f

\* A run that returns has kept its conversation: the user's message and the
\* last answer the provider gave, even when a later round failed.
AnswerKept ==
    \A r \in Runs :
        At(r, "done") /\ run[r].thread # "none" /\ CanStoreContent(Mode(r))
          => /\ rows[r].userMessage
             /\ rows[r].answer = run[r].answers

\* The tool loop of every run behaves as AgentLoop promises.
Phase(place) ==
    CASE place = "provider" -> "thinking"
      [] place \in {"callTool", "findPermission", "execute", "record",
                    "auditTool"} -> "acting"
      [] place \in {"auditLimit", "saveAnswer", "auditChat"} -> "closing"
      [] place \in {"done", "rejected"} -> "closed"
      [] OTHER -> "open"

Refused(audit) == audit # "tool.invoked"

Promise == INSTANCE AgentLoop WITH
    phase  <- [r \in Runs |-> Phase(run[r].pc)],
    rounds <- [r \in Runs |-> run[r].iteration],
    clean  <- [r \in Runs |-> \A i \in 1..Len(toolAudits[r]) :
                                ~Refused(toolAudits[r][i])]

\* ChatRuntime implements AgentLoop: bounded rounds, no further provider call
\* after a refusal, one way only from opening to closing.
KeepsPromise == Promise!Spec

\* Every call of runChat settles: it returns or rejects.
RunsSettle == \A r \in Runs : <>(run[r].pc \in {"done", "rejected"})
=============================================================================
