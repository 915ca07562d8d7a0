------------------------ MODULE ChatRuntime_proofs ------------------------
(***************************************************************************)
(* Proofs about ChatRuntime for any number of runs and tools, any set of   *)
(* requests and of administrator states, and any iteration limit.          *)
(***************************************************************************)
EXTENDS ChatRuntime, TLAPS

Acting == {"callTool", "findPermission", "execute", "record", "auditTool"}

\* While a round is being executed there is a call to execute, and the round
\* is one the limit still allows.
Pending ==
    \A r \in Runs : run[r].pc \in Acting =>
        /\ run[r].calls # <<>>
        /\ run[r].iteration < MaxToolIterations

RunsOK == run \in [Runs -> RunType] /\ Pending

TablesOK ==
    /\ request \in [Runs -> Requests]
    /\ services \in AdminStates
    /\ grants \in [Tools -> SUBSET {"use", "confirm"}]
    /\ rows \in [Runs -> RowsType]
    /\ invocations \in [Runs -> Seq(InvocationType)]
    /\ milestones \in [Runs -> SUBSET MilestoneTypes]
    /\ toolAudits \in [Runs -> Seq(ToolAuditTypes)]
    /\ executed \in [Runs -> SUBSET ExecutionType]

TypeInv == RunsOK /\ TablesOK

\* Every answer of a provider is a sequence of tools.
LEMMA AnswersAreSequences ==
    ASSUME NEW calls \in Answers
    PROVE  calls \in Seq(Tools)
<1>1. PICK n \in 0..MaxCalls : calls \in [1..n -> Tools]
    BY DEF Answers
<1>2. n \in Nat
    BY ChatAssumption
<1> QED
    BY <1>1, <1>2

\* Dropping the head of a non-empty sequence of tools leaves tools.
LEMMA HeadAndTail ==
    ASSUME NEW s \in Seq(Tools), s # <<>>
    PROVE  Head(s) \in Tools /\ Tail(s) \in Seq(Tools)
OBVIOUS

\* What the policy compiler returns is a policy.
LEMMA PolicyTyped ==
    ASSUME NEW s \in AdminStates, NEW q \in Requests
    PROVE  CompilePolicy(s, q) \in PolicyType
<1>1. s \in AdminStateType /\ q \in RequestType
    BY ChatAssumption
<1>2. RetentionChoice(s, q) \in PolicyModes
    BY <1>1 DEF RetentionChoice, AdminStateType, RequestType, RequestedModes,
               PolicyModes, Modes
<1> QED
    BY <1>1, <1>2 DEF CompilePolicy, PolicyType, AdminStateType, RequestType

LEMMA TypeInit == Init => TypeInv
<1> SUFFICES ASSUME Init PROVE TypeInv
    OBVIOUS
<1>1. run \in [Runs -> RunType]
    BY ChatAssumption DEF Init, RunType, Places, PolicyType, NoPolicy,
        PolicyModes, Modes, Statuses
<1>2. Pending
    BY DEF Init, Pending, Acting
<1>3. TablesOK
    BY DEF Init, TablesOK, RowsType
<1> QED
    BY <1>1, <1>2, <1>3 DEF TypeInv, RunsOK

\* Moving one run to a typed state keeps all runs in order.
LEMMA RunUpdate ==
    ASSUME RunsOK, NEW r \in Runs, NEW state \in RunType,
           run' = [run EXCEPT ![r] = state],
           state.pc \in Acting => /\ state.calls # <<>>
                                  /\ state.iteration < MaxToolIterations
    PROVE  RunsOK'
BY DEF RunsOK, Pending

\* The special case of a step that only leaves or enters a quiet place.
LEMMA QuietGoto ==
    ASSUME RunsOK, NEW r \in Runs, NEW place \in Places \ Acting,
           Goto(r, place)
    PROVE  RunsOK'
<1>1. run[r] \in RunType
    BY DEF RunsOK
<1>2. [run[r] EXCEPT !.pc = place] \in RunType
    BY <1>1 DEF RunType
<1>3. run' = [run EXCEPT ![r] = [run[r] EXCEPT !.pc = place]]
    BY DEF Goto
<1>4. [run[r] EXCEPT !.pc = place].pc \notin Acting
    BY <1>1 DEF RunType
<1> QED
    BY <1>2, <1>3, <1>4, RunUpdate

\* A step inside a round keeps the calls and the count it found.
LEMMA ActingGoto ==
    ASSUME RunsOK, NEW r \in Runs, run[r].pc \in Acting,
           NEW place \in Places, NEW outcome \in Statuses,
           NEW guarded \in BOOLEAN,
           run' = [run EXCEPT ![r].guarded = guarded, ![r].outcome = outcome,
                              ![r].pc = place]
    PROVE  RunsOK'
<1> DEFINE state == [run[r] EXCEPT !.guarded = guarded, !.outcome = outcome,
                                   !.pc = place]
<1>1. run[r] \in RunType
    BY DEF RunsOK
<1>2. state \in RunType
    BY <1>1 DEF RunType
<1>3. run' = [run EXCEPT ![r] = state]
    BY DEF RunsOK
<1>4. state.calls # <<>> /\ state.iteration < MaxToolIterations
    BY <1>1 DEF RunsOK, Pending, RunType
<1> QED
    BY <1>2, <1>3, <1>4, RunUpdate

LEMMA RunsStep ==
    ASSUME TypeInv, NEW r \in Runs, Step(r)
    PROVE  RunsOK'
<1>1. RunsOK /\ run \in [Runs -> RunType] /\ run[r] \in RunType
    BY DEF TypeInv, RunsOK
<1>2. AfterLoop(r, run[r].answers) \in {"saveAnswer", "auditChat"}
    BY DEF AfterLoop
<1>3. CASE Admit(r)
    <2>1. (IF request[r].admitted THEN "compilePolicy" ELSE "rejected")
            \in Places \ Acting
        BY DEF Places, Acting
    <2> QED
        BY <1>1, <1>3, <2>1, QuietGoto DEF Admit
<1>4. CASE Compile(r)
    <2> DEFINE policy == CompilePolicy(services, request[r])
               state == [run[r] EXCEPT !.policy = policy,
                                       !.pc = "createConversation"]
    <2>1. policy \in PolicyType
        BY PolicyTyped DEF TypeInv, TablesOK
    <2> HIDE DEF policy
    <2>2. state \in RunType /\ state.pc \notin Acting
        BY <1>1, <2>1 DEF RunType, Places, Acting
    <2>3. run' = [run EXCEPT ![r] = state]
        BY <1>1, <1>4 DEF Compile, policy
    <2> QED
        BY <1>1, <2>2, <2>3, RunUpdate
<1>5. CASE CreateConversation(r)
    <2> DEFINE thread == IF request[r].resumes THEN "given"
                         ELSE IF CanStoreContent(Mode(r)) THEN "own"
                         ELSE "none"
               state == [run[r] EXCEPT !.thread = thread,
                                       !.pc = "auditRetention"]
    <2>1. state \in RunType /\ state.pc \notin Acting
        BY <1>1 DEF RunType, Places, Acting
    <2>2. run' = [run EXCEPT ![r] = state]
        BY <1>1, <1>5 DEF CreateConversation
    <2> QED
        BY <1>1, <2>1, <2>2, RunUpdate
<1>6. CASE \E place \in Places \ Acting : Goto(r, place)
    BY <1>1, <1>6, QuietGoto
<1>7. CASE \E calls \in Answers : ProviderAnswers(r, calls)
    <2>1. PICK calls \in Answers : ProviderAnswers(r, calls)
        BY <1>7
    <2> DEFINE answers == run[r].answers + 1
               place == PlaceAfterAnswer(r, calls, answers)
               kept == IF place = "callTool" THEN calls ELSE <<>>
               state == [run[r] EXCEPT !.answers = answers, !.pc = place,
                                       !.calls = kept, !.stop = FALSE]
    <2>2. answers \in Nat
        BY <1>1 DEF RunType
    <2>3. kept \in Seq(Tools)
        BY AnswersAreSequences
    <2>4. /\ place \in Places
          /\ place \in Acting => /\ kept # <<>>
                                 /\ run[r].iteration < MaxToolIterations
        BY <1>1, ChatAssumption
        DEF PlaceAfterAnswer, AfterLoop, Places, Acting, RunType
    <2>5. run' = [run EXCEPT ![r] = state]
        BY <1>1, <2>1 DEF ProviderAnswers
    <2> HIDE DEF answers, place, kept
    <2>6. state \in RunType
        BY <1>1, <2>2, <2>3, <2>4 DEF RunType
    <2>7. state.pc \in Acting => /\ state.calls # <<>>
                                 /\ state.iteration < MaxToolIterations
        BY <1>1, <2>4 DEF RunType
    <2> QED
        BY <1>1, <2>5, <2>6, <2>7, RunUpdate
<1>8. CASE CallTool(r)
    <2>1. run[r].pc \in Acting
        BY <1>8 DEF CallTool, At, Acting
    <2>2. PICK guarded \in BOOLEAN, place \in {"findPermission", "record"} :
            run' = [run EXCEPT ![r].guarded = guarded, ![r].outcome = "denied",
                               ![r].pc = place]
        BY <1>8 DEF CallTool
    <2>3. place \in Places /\ "denied" \in Statuses
        BY DEF Places, Statuses
    <2> QED
        BY <1>1, <2>1, <2>2, <2>3, ActingGoto
<1>9. CASE /\ run[r].pc \in Acting
           /\ \E outcome \in Statuses, place \in Places :
                run' = [run EXCEPT ![r].outcome = outcome, ![r].pc = place]
    <2>1. PICK outcome \in Statuses, place \in Places :
            run' = [run EXCEPT ![r].outcome = outcome, ![r].pc = place]
        BY <1>9
    <2> DEFINE state == [run[r] EXCEPT !.outcome = outcome, !.pc = place]
    <2>2. state \in RunType
        BY <1>1 DEF RunType
    <2>3. run' = [run EXCEPT ![r] = state]
        BY <1>1, <2>1
    <2>4. state.calls # <<>> /\ state.iteration < MaxToolIterations
        BY <1>1, <1>9 DEF RunsOK, Pending, RunType
    <2> QED
        BY <1>1, <2>2, <2>3, <2>4, RunUpdate
<1>10. CASE AuditTool(r)
    <2> DEFINE rest == Tail(run[r].calls)
               stop == run[r].stop \/ run[r].outcome # "completed"
               more == rest = <<>> /\ ~stop
               count == IF more THEN run[r].iteration + 1 ELSE run[r].iteration
               place == IF rest # <<>> THEN "callTool"
                        ELSE IF more THEN "provider"
                        ELSE AfterLoop(r, run[r].answers)
               state == [run[r] EXCEPT !.calls = rest, !.stop = stop,
                                       !.iteration = count, !.pc = place]
    <2>1. run[r].calls # <<>> /\ run[r].iteration < MaxToolIterations
        BY <1>1, <1>10 DEF AuditTool, At, RunsOK, Pending, Acting
    <2>2. /\ run[r].calls \in Seq(Tools)
          /\ run[r].iteration \in 0..MaxToolIterations
          /\ run[r].stop \in BOOLEAN
        BY <1>1 DEF RunType
    <2>3. rest \in Seq(Tools)
        BY <2>1, <2>2
    <2>4. count \in 0..MaxToolIterations
        BY <2>1, <2>2, ChatAssumption
    <2>5. place \in Places /\ stop \in BOOLEAN
        BY <1>2, <2>2 DEF Places
    <2>6. place \in Acting => rest # <<>> /\ count < MaxToolIterations
        BY <1>2, <2>1 DEF Acting
    <2>7. run' = [run EXCEPT ![r] = state]
        BY <1>1, <1>10 DEF AuditTool
    <2> HIDE DEF rest, stop, more, count, place
    <2>8. state \in RunType
        BY <1>1, <2>3, <2>4, <2>5 DEF RunType
    <2>9. state.pc \in Acting => /\ state.calls # <<>>
                                 /\ state.iteration < MaxToolIterations
        BY <1>1, <2>6 DEF RunType
    <2> QED
        BY <1>1, <2>7, <2>8, <2>9, RunUpdate
<1>11. CASE \/ AuditRetention(r) \/ SnapshotPolicy(r) \/ AuditPolicy(r)
            \/ SaveUserMessage(r) \/ ReadFragments(r) \/ SaveCompilation(r)
            \/ AuditPrompt(r) \/ AuditLimit(r) \/ SaveAnswer(r)
            \/ AuditChat(r) \/ ProviderFails(r) \/ Reject(r)
    BY <1>2, <1>6, <1>11
    DEF AuditRetention, AuditMilestone, SnapshotPolicy, AuditPolicy,
        SaveUserMessage, ReadFragments, SaveCompilation, AuditPrompt,
        AuditLimit, SaveAnswer, AuditChat, ProviderFails, Reject, Places, Acting
<1>12. CASE FindPermission(r) \/ Execute(r) \/ RecordFails(r)
    <2>1. run[r].pc \in Acting
        BY <1>12 DEF FindPermission, Execute, RecordFails, At, Acting
    <2>2. CASE FindPermission(r)
        BY <1>9, <2>1, <2>2 DEF FindPermission, Places, Statuses
    <2>3. CASE Execute(r)
        BY <1>9, <2>1, <2>3 DEF Execute, Places, Statuses
    <2>4. CASE RecordFails(r)
        <3> DEFINE state == [run[r] EXCEPT !.outcome = "failed"]
        <3>1. state \in RunType
            BY <1>1 DEF RunType, Statuses
        <3>2. run' = [run EXCEPT ![r] = state]
            BY <1>1, <2>4 DEF RecordFails
        <3>3. state.calls # <<>> /\ state.iteration < MaxToolIterations
            BY <1>1, <2>1 DEF RunsOK, Pending, RunType
        <3> QED
            BY <1>1, <3>1, <3>2, <3>3, RunUpdate
    <2> QED
        BY <1>12, <2>2, <2>3, <2>4
<1>13. CASE Record(r)
    <2> DEFINE state == [run[r] EXCEPT !.pc = "auditTool"]
    <2>1. state \in RunType
        BY <1>1 DEF RunType, Places
    <2>2. run' = [run EXCEPT ![r] = state]
        BY <1>1, <1>13 DEF Record, Goto
    <2>3. state.calls # <<>> /\ state.iteration < MaxToolIterations
        BY <1>1, <1>13 DEF Record, At, RunsOK, Pending, RunType, Acting
    <2> QED
        BY <1>1, <2>1, <2>2, <2>3, RunUpdate
<1> QED
    BY <1>3, <1>4, <1>5, <1>7, <1>8, <1>10, <1>11, <1>12, <1>13
    DEF Step, Prelude, Loop

\* The tables keep their types: an appended row is built from a pending call.
LEMMA TablesStep ==
    ASSUME TypeInv, NEW r \in Runs, Step(r)
    PROVE  TablesOK'
<1>1. TablesOK /\ run[r] \in RunType
    BY DEF TypeInv, RunsOK
<1>2. run[r].pc \in Acting => CurrentTool(r) \in Tools
    BY <1>1, HeadAndTail DEF TypeInv, RunsOK, Pending, CurrentTool, RunType
<1>3. CASE UNCHANGED admin /\ UNCHANGED tables
    BY <1>1, <1>3 DEF TablesOK, admin, tables
<1>4. CASE \E from, to \in Places, type \in MilestoneTypes :
              AuditMilestone(r, from, type, to)
    BY <1>1, <1>4 DEF AuditMilestone, TablesOK, admin
<1>5. CASE /\ UNCHANGED admin
           /\ UNCHANGED <<invocations, milestones, toolAudits, executed>>
           /\ rows' \in [Runs -> RowsType]
    BY <1>1, <1>5 DEF TablesOK, admin
<1>6. CASE \/ CreateConversation(r) \/ SnapshotPolicy(r) \/ SaveUserMessage(r)
           \/ SaveCompilation(r) \/ SaveAnswer(r)
    <2>1. rows \in [Runs -> RowsType] /\ run[r].answers \in Nat
        BY <1>1 DEF TablesOK, RunType
    <2>2. rows' \in [Runs -> RowsType]
        <3>1. CASE CreateConversation(r)
            BY <2>1, <3>1 DEF CreateConversation, RowsType, CanStoreContent
        <3>2. CASE SnapshotPolicy(r)
            BY <2>1, <3>2 DEF SnapshotPolicy, RowsType
        <3>3. CASE SaveUserMessage(r)
            BY <2>1, <3>3 DEF SaveUserMessage, RowsType, CanStoreContent
        <3>4. CASE SaveCompilation(r)
            BY <2>1, <3>4 DEF SaveCompilation, RowsType, CanStoreContent
        <3>5. CASE SaveAnswer(r)
            BY <2>1, <3>5 DEF SaveAnswer, RowsType, CanStoreContent
        <3> QED
            BY <1>6, <3>1, <3>2, <3>3, <3>4, <3>5
    <2>3. /\ UNCHANGED admin
          /\ UNCHANGED <<invocations, milestones, toolAudits, executed>>
        BY <1>6 DEF CreateConversation, SnapshotPolicy, SaveUserMessage,
            SaveCompilation, SaveAnswer
    <2> QED
        BY <1>5, <2>2, <2>3
<1>7. CASE \/ AuditRetention(r) \/ AuditPolicy(r) \/ AuditPrompt(r)
           \/ AuditLimit(r) \/ AuditChat(r)
    <2>1. AfterLoop(r, run[r].answers) \in Places
        BY DEF AfterLoop, Places
    <2> QED
        BY <1>4, <1>7, <2>1 DEF AuditRetention, AuditPolicy, AuditPrompt,
            AuditLimit, AuditChat, Places, MilestoneTypes
<1>8. CASE Execute(r)
    <2>1. CurrentTool(r) \in Tools
        BY <1>2, <1>8 DEF Execute, At, Acting
    <2>2. Position(r) \in Nat \ {0} /\ run[r].guarded \in BOOLEAN
        BY <1>1 DEF Position, TablesOK, RunType
    <2> DEFINE e == [at |-> Position(r), tool |-> CurrentTool(r),
                     guarded |-> run[r].guarded]
               more == [executed EXCEPT ![r] = executed[r] \cup {e}]
    <2>3. e \in ExecutionType
        BY <2>1, <2>2 DEF ExecutionType
    <2>4. executed \in [Runs -> SUBSET ExecutionType]
        BY <1>1 DEF TablesOK
    <2>5. executed' \in {executed, more}
        BY <1>8, <2>4 DEF Execute, TakeEffect
    <2> HIDE DEF e
    <2>6. more \in [Runs -> SUBSET ExecutionType]
        BY <2>3, <2>4
    <2> HIDE DEF more
    <2>7. executed' \in [Runs -> SUBSET ExecutionType]
        BY <2>4, <2>5, <2>6
    <2> QED
        BY <1>1, <1>8, <2>7 DEF Execute, TablesOK, admin
<1>9. CASE Record(r)
    <2>1. CurrentTool(r) \in Tools
        BY <1>2, <1>9 DEF Record, At, Acting
    <2> DEFINE row == [ tool    |-> CurrentTool(r),
                        status  |-> run[r].outcome,
                        payload |-> CanStoreToolPayloads(Mode(r)) ]
    <2>2. row \in InvocationType
        BY <1>1, <2>1 DEF InvocationType, RunType, CanStoreToolPayloads
    <2>3. invocations' = [invocations EXCEPT ![r] = Append(invocations[r], row)]
        BY <1>1, <1>9 DEF Record, TablesOK
    <2> HIDE DEF row
    <2>4. invocations' \in [Runs -> Seq(InvocationType)]
        BY <1>1, <2>2, <2>3 DEF TablesOK
    <2> QED
        BY <1>1, <1>9, <2>4 DEF Record, TablesOK, admin
<1>10. CASE AuditTool(r)
    <2> DEFINE audit == AuditTypeOf(run[r].outcome)
    <2>1. audit \in ToolAuditTypes
        BY DEF AuditTypeOf, ToolAuditTypes
    <2>2. toolAudits \in [Runs -> Seq(ToolAuditTypes)]
        BY <1>1 DEF TablesOK
    <2>3. toolAudits' = [toolAudits EXCEPT ![r] = Append(toolAudits[r], audit)]
        BY <1>10, <2>2 DEF AuditTool
    <2> HIDE DEF audit
    <2>4. toolAudits' \in [Runs -> Seq(ToolAuditTypes)]
        BY <2>1, <2>2, <2>3
    <2> QED
        BY <1>1, <1>10, <2>4 DEF AuditTool, TablesOK, admin
<1>11. CASE \/ Admit(r) \/ Compile(r) \/ ReadFragments(r) \/ ProviderFails(r)
            \/ (\E calls \in Answers : ProviderAnswers(r, calls))
            \/ CallTool(r) \/ FindPermission(r) \/ RecordFails(r) \/ Reject(r)
    BY <1>3, <1>11 DEF Admit, Compile, ReadFragments, ProviderFails,
        ProviderAnswers, CallTool, FindPermission, RecordFails, Reject
<1> QED
    BY <1>6, <1>7, <1>8, <1>9, <1>10, <1>11 DEF Step, Prelude, Loop

LEMMA TypeStep == TypeInv /\ [Next]_vars => TypeInv'
<1> SUFFICES ASSUME TypeInv, [Next]_vars PROVE TypeInv'
    OBVIOUS
<1>1. CASE \E r \in Runs : Step(r)
    BY <1>1, RunsStep, TablesStep DEF TypeInv
<1>2. CASE Administer
    BY <1>2 DEF Administer, Refresh, Grant, TypeInv, RunsOK, Pending, TablesOK,
        tables
<1>3. CASE UNCHANGED vars
    BY <1>3 DEF vars, TypeInv, RunsOK, Pending, TablesOK
<1> QED
    BY <1>1, <1>2, <1>3 DEF Next

\* Type correctness: every table and every run keeps its shape, and no run
\* counts more rounds than AppConfig.maxToolIterations.
THEOREM TypeCorrect == Spec => []TypeOK
<1>1. Spec => []TypeInv
    BY TypeInit, TypeStep, PTL DEF Spec
<1>2. TypeInv => TypeOK
    BY DEF TypeInv, RunsOK, TablesOK, TypeOK
<1> QED
    BY <1>1, <1>2, PTL

----------------------------------------------------------------------------
(* Retention.                                                              *)

\* The policy of a run decides what it may leave behind, and it is at least
\* as strict as the request.  Before the policy is compiled the mode is the
\* strictest one, so nothing can be there when it is chosen.
RetentionOK(r) ==
    /\ run[r].pc \in {"arrived", "compilePolicy"} => Mode(r) = "ephemeral"
    /\ request[r].mode = "ephemeral" => Mode(r) = "ephemeral"
    /\ request[r].mode = "limited" => Mode(r) \in {"limited", "ephemeral"}
    /\ Mode(r) = "ephemeral" => ~StoresContent(r)
    /\ Mode(r) \in {"limited", "ephemeral"} => ~StoresPayload(r)

RetentionInv == \A r \in Runs : RetentionOK(r)

\* A step of one run leaves everything of the others, and what administrators
\* write, as it was.
LEMMA OthersUntouched ==
    ASSUME TypeInv, NEW r \in Runs, Step(r)
    PROVE  /\ UNCHANGED admin
           /\ \A q \in Runs \ {r} :
                /\ run'[q] = run[q]
                /\ rows'[q] = rows[q]
                /\ invocations'[q] = invocations[q]
                /\ milestones'[q] = milestones[q]
                /\ toolAudits'[q] = toolAudits[q]
                /\ executed'[q] = executed[q]
<1>1. /\ run \in [Runs -> RunType]
      /\ rows \in [Runs -> RowsType]
      /\ invocations \in [Runs -> Seq(InvocationType)]
      /\ milestones \in [Runs -> SUBSET MilestoneTypes]
      /\ toolAudits \in [Runs -> Seq(ToolAuditTypes)]
      /\ executed \in [Runs -> SUBSET ExecutionType]
    BY DEF TypeInv, RunsOK, TablesOK
<1>2. CASE Prelude(r)
    BY <1>1, <1>2 DEF Prelude, Admit, Compile, CreateConversation,
        AuditRetention, SnapshotPolicy, AuditPolicy, SaveUserMessage,
        ReadFragments, SaveCompilation, AuditPrompt, AuditMilestone, Goto,
        admin, tables
<1>3. CASE ProviderFails(r) \/ \E calls \in Answers : ProviderAnswers(r, calls)
    BY <1>1, <1>3 DEF ProviderFails, ProviderAnswers, Goto, admin, tables
<1>4. CASE CallTool(r) \/ FindPermission(r)
    BY <1>1, <1>4 DEF CallTool, FindPermission, admin, tables
<1>5. CASE Execute(r)
    BY <1>1, <1>5 DEF Execute, TakeEffect, admin
<1>6. CASE Record(r) \/ RecordFails(r)
    BY <1>1, <1>6 DEF Record, RecordFails, Goto, admin, tables
<1>7. CASE AuditTool(r)
    BY <1>1, <1>7 DEF AuditTool, admin
<1>8. CASE AuditLimit(r) \/ SaveAnswer(r) \/ AuditChat(r) \/ Reject(r)
    BY <1>1, <1>8 DEF AuditLimit, SaveAnswer, AuditChat, Reject,
        AuditMilestone, Goto, admin, tables
<1> QED
    BY <1>2, <1>3, <1>4, <1>5, <1>6, <1>7, <1>8 DEF Step, Loop

\* The policy of a run is chosen by Compile and by nothing else.
LEMMA PolicyFixed ==
    ASSUME TypeInv, NEW r \in Runs, Step(r), ~Compile(r)
    PROVE  /\ run'[r].policy = run[r].policy
           /\ run'[r].pc \in {"arrived", "compilePolicy"}
                => run[r].pc = "arrived"
<1>1. run \in [Runs -> RunType] /\ run[r] \in RunType
    BY DEF TypeInv, RunsOK
<1>2. AfterLoop(r, run[r].answers) \in {"saveAnswer", "auditChat"}
    BY DEF AfterLoop
<1>3. CASE Prelude(r)
    BY <1>1, <1>3 DEF Prelude, Admit, CreateConversation, AuditRetention,
        SnapshotPolicy, AuditPolicy, SaveUserMessage, ReadFragments,
        SaveCompilation, AuditPrompt, AuditMilestone, Goto, At, RunType
<1>4. CASE ProviderFails(r)
    BY <1>1, <1>2, <1>4 DEF ProviderFails, Goto, RunType
<1>5. CASE \E calls \in Answers : ProviderAnswers(r, calls)
    BY <1>1, <1>5 DEF ProviderAnswers, PlaceAfterAnswer, AfterLoop, RunType
<1>6. CASE CallTool(r) \/ FindPermission(r)
    BY <1>1, <1>6 DEF CallTool, FindPermission, RunType
<1>7. CASE Execute(r) \/ Record(r) \/ RecordFails(r)
    BY <1>1, <1>7 DEF Execute, Record, RecordFails, Goto, At, RunType
<1>8. CASE AuditTool(r)
    BY <1>1, <1>2, <1>8 DEF AuditTool, RunType
<1>9. CASE AuditLimit(r) \/ SaveAnswer(r) \/ AuditChat(r) \/ Reject(r)
    BY <1>1, <1>2, <1>9 DEF AuditLimit, SaveAnswer, AuditChat, Reject,
        AuditMilestone, Goto, RunType
<1> QED
    BY <1>3, <1>4, <1>5, <1>6, <1>7, <1>8, <1>9 DEF Step, Loop

\* The compiled mode is never looser than the requested one.
LEMMA ChoiceFollowsRequest ==
    ASSUME NEW s \in AdminStates, NEW q \in Requests
    PROVE  LET mode == CompilePolicy(s, q).mode
           IN  /\ q.mode = "ephemeral" => mode = "ephemeral"
               /\ q.mode = "limited" => mode \in {"limited", "ephemeral"}
<1>1. s \in AdminStateType
    BY ChatAssumption
<1>2. rank["retained"] = 2 /\ rank["limited"] = 1 /\ rank["ephemeral"] = 0
    BY DEF rank
<1>3. s.mandatory \in {"none", "retained", "limited", "ephemeral"}
    BY <1>1 DEF AdminStateType, Modes
<1>4. q.mode = "ephemeral" => RetentionChoice(s, q) = "ephemeral"
    BY <1>2, <1>3 DEF RetentionChoice, IsStricterOrEqual, Modes
<1>5. q.mode = "limited" => RetentionChoice(s, q) \in {"limited", "ephemeral"}
    BY <1>2, <1>3 DEF RetentionChoice, IsStricterOrEqual, Modes
<1> QED
    BY <1>4, <1>5 DEF CompilePolicy

\* What a step of a run adds to its rows is what its mode lets it add.
LEMMA ContentStep ==
    ASSUME TypeInv, NEW r \in Runs, Step(r), RetentionOK(r),
           Mode(r) = "ephemeral"
    PROVE  StoresContent(r)' => StoresContent(r)
<1>1. rows \in [Runs -> RowsType]
    BY DEF TypeInv, TablesOK
<1>2. CASE CreateConversation(r)
    BY <1>1, <1>2 DEF CreateConversation, StoresContent, CanStoreContent, RowsType
<1>3. CASE SnapshotPolicy(r)
    BY <1>1, <1>3 DEF SnapshotPolicy, StoresContent, RowsType
<1>4. CASE SaveUserMessage(r)
    BY <1>1, <1>4 DEF SaveUserMessage, StoresContent, CanStoreContent, RowsType
<1>5. CASE SaveCompilation(r)
    BY <1>1, <1>5 DEF SaveCompilation, StoresContent, CanStoreContent, RowsType
<1>6. CASE SaveAnswer(r)
    BY <1>1, <1>6 DEF SaveAnswer, StoresContent, CanStoreContent, RowsType
<1>7. CASE UNCHANGED rows
    BY <1>7 DEF StoresContent
<1> QED
    BY <1>2, <1>3, <1>4, <1>5, <1>6, <1>7 DEF Step, Prelude, Loop, Admit,
        Compile, AuditRetention, AuditPolicy, ReadFragments, AuditPrompt,
        AuditMilestone, ProviderFails, ProviderAnswers, AuditLimit, CallTool,
        FindPermission, Execute, Record, RecordFails, AuditTool, AuditChat,
        Reject, tables

LEMMA PayloadStep ==
    ASSUME TypeInv, NEW r \in Runs, Step(r),
           Mode(r) \in {"limited", "ephemeral"}, ~StoresPayload(r)
    PROVE  ~StoresPayload(r)'
<1>1. invocations \in [Runs -> Seq(InvocationType)]
    BY DEF TypeInv, TablesOK
<1>2. CASE Record(r)
    <2> DEFINE row == [ tool    |-> CurrentTool(r),
                        status  |-> run[r].outcome,
                        payload |-> CanStoreToolPayloads(Mode(r)) ]
               before == invocations[r]
    <2>1. row.payload = FALSE
        BY DEF CanStoreToolPayloads
    <2>2. invocations'[r] = Append(before, row)
        BY <1>1, <1>2 DEF Record
    <2>3. before \in Seq(InvocationType)
        BY <1>1
    <2>4. \A i \in 1..Len(before) : ~before[i].payload
        BY DEF StoresPayload
    <2> HIDE DEF row, before
    <2>5. \A i \in 1..Len(Append(before, row)) : ~Append(before, row)[i].payload
        BY <2>1, <2>3, <2>4
    <2> QED
        BY <2>2, <2>5 DEF StoresPayload
<1>3. CASE UNCHANGED invocations
    BY <1>3 DEF StoresPayload
<1> QED
    BY <1>2, <1>3 DEF Step, Prelude, Loop, Admit, Compile, CreateConversation,
        AuditRetention, SnapshotPolicy, AuditPolicy, SaveUserMessage,
        ReadFragments, SaveCompilation, AuditPrompt, AuditMilestone,
        ProviderFails, ProviderAnswers, AuditLimit, CallTool, FindPermission,
        Execute, RecordFails, AuditTool, SaveAnswer, AuditChat, Reject, tables

LEMMA RetentionStep == TypeInv /\ RetentionInv /\ [Next]_vars => RetentionInv'
<1> SUFFICES ASSUME TypeInv, RetentionInv, [Next]_vars PROVE RetentionInv'
    OBVIOUS
<1>1. ASSUME NEW r \in Runs, Step(r) PROVE RetentionInv'
    <2>1. RetentionOK(r) /\ UNCHANGED request
        BY <1>1, OthersUntouched DEF RetentionInv, admin
    <2>2. ASSUME Compile(r) PROVE RetentionOK(r)'
        <3>1. Mode(r)' = CompilePolicy(services, request[r]).mode
            BY <2>2 DEF Compile, Mode, TypeInv, RunsOK
        <3>2. /\ request[r].mode = "ephemeral" => Mode(r)' = "ephemeral"
              /\ request[r].mode = "limited"
                    => Mode(r)' \in {"limited", "ephemeral"}
            BY <3>1, ChoiceFollowsRequest DEF TypeInv, TablesOK
        <3>3. run'[r].pc = "createConversation"
            BY <2>2 DEF Compile, TypeInv, RunsOK, RunType
        <3>4. ~StoresContent(r) /\ ~StoresPayload(r)
            BY <2>1, <2>2 DEF Compile, At, RetentionOK
        <3>5. ~StoresContent(r)' /\ ~StoresPayload(r)'
            BY <2>2, <3>4 DEF Compile, tables, StoresContent, StoresPayload
        <3> QED
            BY <2>1, <3>2, <3>3, <3>5 DEF RetentionOK
    <2>3. ASSUME ~Compile(r) PROVE RetentionOK(r)'
        <3>1. Mode(r)' = Mode(r)
            BY <1>1, <2>3, PolicyFixed DEF Mode
        <3>2. run'[r].pc \in {"arrived", "compilePolicy"}
                => Mode(r) = "ephemeral"
            BY <1>1, <2>1, <2>3, PolicyFixed DEF RetentionOK
        <3>3. Mode(r) = "ephemeral" => ~StoresContent(r)'
            BY <1>1, <2>1, ContentStep DEF RetentionOK
        <3>4. Mode(r) \in {"limited", "ephemeral"} => ~StoresPayload(r)'
            BY <1>1, <2>1, PayloadStep DEF RetentionOK
        <3> QED
            BY <2>1, <3>1, <3>2, <3>3, <3>4 DEF RetentionOK
    <2>4. ASSUME NEW q \in Runs \ {r} PROVE RetentionOK(q)'
        BY <1>1, <2>1, <2>4, OthersUntouched
        DEF RetentionInv, RetentionOK, Mode, StoresContent, StoresPayload
    <2> QED
        BY <2>2, <2>3, <2>4 DEF RetentionInv
<1>2. CASE Administer \/ UNCHANGED vars
    BY <1>2 DEF Administer, Refresh, Grant, vars, tables, RetentionInv,
        RetentionOK, Mode, StoresContent, StoresPayload
<1> QED
    BY <1>1, <1>2 DEF Next

LEMMA RetentionInit == Init => RetentionInv
<1> SUFFICES ASSUME Init, NEW r \in Runs PROVE RetentionOK(r)
    BY DEF RetentionInv
<1>1. Mode(r) = "ephemeral"
    BY DEF Init, NoPolicy, Mode
<1>2. ~StoresContent(r)
    BY DEF Init, StoresContent
<1>3. invocations[r] = <<>>
    BY DEF Init
<1>4. ~StoresPayload(r)
    BY <1>3 DEF StoresPayload
<1> QED
    BY <1>1, <1>2, <1>4 DEF RetentionOK

\* Strictest retention wins for everything a run leaves behind, whatever
\* administrators publish and whichever call of the run fails.
THEOREM RetentionAlwaysHonoured == Spec => []RetentionHonoured
<1>1. Spec => []TypeInv
    BY TypeInit, TypeStep, PTL DEF Spec
<1>2. Spec => []RetentionInv
    BY <1>1, RetentionInit, RetentionStep, PTL DEF Spec
<1>3. RetentionInv => RetentionHonoured
    BY DEF RetentionInv, RetentionOK, RetentionHonoured
<1> QED
    BY <1>2, <1>3, PTL

----------------------------------------------------------------------------
(* Authorisation.                                                          *)

\* Places before the decisions about a run are durable.
BeforeSelection == {"arrived", "compilePolicy", "createConversation", "auditRetention"}

BeforeSnapshot == BeforeSelection \cup {"snapshotPolicy"}

BeforeEvaluation == BeforeSnapshot \cup {"auditPolicy"}

\* What a run has passed, it has written.
Evidence(r) ==
    /\ run[r].pc \notin BeforeSelection \cup {"rejected"}
          => "retention.selected" \in milestones[r]
    /\ run[r].pc \notin BeforeSnapshot \cup {"rejected"} => rows[r].snapshot
    /\ run[r].pc \notin BeforeEvaluation \cup {"rejected"}
          => "policy.evaluated" \in milestones[r]

\* A tool may be executed for a run by what its policy says, and by what the
\* permission rows and the caller say.
PolicyLets(r, tool) == tool \in run[r].policy.enabled \cap run[r].policy.allowed

RowsLet(r, tool, guarded) ==
    /\ grants[tool] # {}
    /\ guarded \/ "use" \notin grants[tool] => tool \in request[r].confirmed

\* Between the look at the permissions and the execution the answer keeps,
\* as permissions are only added; and so it does after it.
Authorised(r) ==
    /\ Evidence(r)
    /\ run[r].pc \in {"arrived", "compilePolicy"} => executed[r] = {}
    /\ run[r].pc \in {"findPermission", "execute"} => PolicyLets(r, CurrentTool(r))
    /\ run[r].pc = "execute" => RowsLet(r, CurrentTool(r), run[r].guarded)
    /\ \A e \in executed[r] :
          /\ PolicyLets(r, e.tool)
          /\ RowsLet(r, e.tool, e.guarded)
          /\ {"retention.selected", "policy.evaluated"} \subseteq milestones[r]
          /\ rows[r].snapshot

AuthorisedInv == \A r \in Runs : Authorised(r)

\* Every step of a run other than the two kinds that write evidence leaves it,
\* and every step goes forward by one place of the prelude or stays behind it.
LEMMA EvidenceStep ==
    ASSUME TypeInv, NEW r \in Runs, Step(r), Evidence(r)
    PROVE  /\ Evidence(r)'
           /\ milestones[r] \subseteq milestones'[r]
           /\ rows[r].snapshot => rows'[r].snapshot
<1>1. /\ run \in [Runs -> RunType] /\ run[r] \in RunType
      /\ rows \in [Runs -> RowsType]
      /\ milestones \in [Runs -> SUBSET MilestoneTypes]
    BY DEF TypeInv, RunsOK, TablesOK
<1>2. AfterLoop(r, run[r].answers) \in {"saveAnswer", "auditChat"}
    BY DEF AfterLoop
<1> USE DEF Evidence, BeforeSelection, BeforeSnapshot, BeforeEvaluation, At, Goto
<1>3. CASE Admit(r) \/ Compile(r) \/ ReadFragments(r)
    BY <1>1, <1>3 DEF Admit, Compile, ReadFragments, tables, RunType
<1>4. CASE \/ CreateConversation(r) \/ SnapshotPolicy(r) \/ SaveUserMessage(r)
           \/ SaveCompilation(r) \/ SaveAnswer(r)
    <2>1. CASE CreateConversation(r) \/ SnapshotPolicy(r)
        BY <1>1, <2>1 DEF CreateConversation, SnapshotPolicy, RunType, RowsType
    <2>2. CASE SaveUserMessage(r)
        BY <1>1, <2>2 DEF SaveUserMessage, RunType, RowsType
    <2>3. CASE SaveCompilation(r)
        BY <1>1, <2>3 DEF SaveCompilation, RunType, RowsType
    <2>4. CASE SaveAnswer(r)
        BY <1>1, <2>4 DEF SaveAnswer, RunType, RowsType
    <2> QED
        BY <1>4, <2>1, <2>2, <2>3, <2>4
<1>5. CASE AuditRetention(r) \/ AuditPolicy(r) \/ AuditPrompt(r)
           \/ AuditLimit(r) \/ AuditChat(r)
    BY <1>1, <1>2, <1>5 DEF AuditRetention, AuditPolicy, AuditPrompt, AuditLimit,
        AuditChat, AuditMilestone, RunType
<1>6. CASE ProviderFails(r) \/ \E calls \in Answers : ProviderAnswers(r, calls)
    BY <1>1, <1>2, <1>6 DEF ProviderFails, ProviderAnswers, PlaceAfterAnswer,
        AfterLoop, tables, RunType
<1>7. CASE CallTool(r) \/ FindPermission(r) \/ RecordFails(r) \/ Reject(r)
    BY <1>1, <1>7 DEF CallTool, FindPermission, RecordFails, Reject, tables, RunType
<1>8. CASE Execute(r) \/ Record(r)
    BY <1>1, <1>8 DEF Execute, Record, RunType
<1>9. CASE AuditTool(r)
    BY <1>1, <1>2, <1>9 DEF AuditTool, RunType
<1> QED
    BY <1>3, <1>4, <1>5, <1>6, <1>7, <1>8, <1>9 DEF Step, Prelude, Loop

\* A tool is executed only after both looks, and each look leaves the call and
\* the policy as they are.
LEMMA LooksKept ==
    ASSUME TypeInv, NEW r \in Runs, Step(r), Authorised(r)
    PROVE  /\ run'[r].pc \in {"arrived", "compilePolicy"} => executed'[r] = {}
           /\ run'[r].pc \in {"findPermission", "execute"}
                => PolicyLets(r, CurrentTool(r))'
           /\ run'[r].pc = "execute" => RowsLet(r, CurrentTool(r), run[r].guarded)'
<1>1. /\ run \in [Runs -> RunType] /\ run[r] \in RunType
      /\ executed \in [Runs -> SUBSET ExecutionType]
    BY DEF TypeInv, RunsOK, TablesOK
<1>2. AfterLoop(r, run[r].answers) \in {"saveAnswer", "auditChat"}
    BY DEF AfterLoop
<1>3. CASE Prelude(r)
    BY <1>1, <1>3 DEF Prelude, Admit, Compile, CreateConversation,
        AuditRetention, SnapshotPolicy, AuditPolicy, SaveUserMessage,
        ReadFragments, SaveCompilation, AuditPrompt, AuditMilestone, At, Goto,
        tables, RunType, Authorised
<1>4. CASE run'[r].pc \notin {"arrived", "compilePolicy", "findPermission", "execute"}
    BY <1>4
<1>5. CASE CallTool(r)
    <2>1. run'[r].pc \in {"findPermission", "record"} /\ run'[r].calls = run[r].calls
          /\ run'[r].policy = run[r].policy
        BY <1>1, <1>5 DEF CallTool, RunType
    <2>2. run'[r].pc = "findPermission" => PolicyLets(r, CurrentTool(r))
        BY <1>1, <1>5 DEF CallTool, RunType, PolicyLets
    <2> QED
        BY <2>1, <2>2 DEF PolicyLets, CurrentTool
<1>6. CASE FindPermission(r)
    <2>1. /\ run[r].pc = "findPermission" /\ UNCHANGED admin
          /\ run'[r].pc \in {"record", "execute"} /\ run'[r].calls = run[r].calls
          /\ run'[r].policy = run[r].policy /\ run'[r].guarded = run[r].guarded
        BY <1>1, <1>6 DEF FindPermission, At, RunType
    <2>2. PolicyLets(r, CurrentTool(r))
        BY <2>1 DEF Authorised
    <2>3. run'[r].pc = "execute" => RowsLet(r, CurrentTool(r), run[r].guarded)
        <3> SUFFICES ASSUME run'[r].pc = "execute"
                     PROVE  RowsLet(r, CurrentTool(r), run[r].guarded)
            OBVIOUS
        <3>1. PICK permission \in grants[CurrentTool(r)] :
                run[r].guarded \/ permission = "confirm"
                  => CurrentTool(r) \in request[r].confirmed
            BY <1>1, <1>6 DEF FindPermission, RunType
        <3>2. CurrentTool(r) \in Tools
            BY <2>1, HeadAndTail, <1>1 DEF TypeInv, RunsOK, Pending, Acting,
                CurrentTool, RunType
        <3>3. permission \in {"use", "confirm"}
            BY <3>1, <3>2 DEF TypeInv, TablesOK
        <3> QED
            BY <3>1, <3>3 DEF RowsLet
    <2> QED
        BY <2>1, <2>2, <2>3 DEF PolicyLets, RowsLet, CurrentTool, admin
<1>7. CASE ProviderFails(r) \/ \E calls \in Answers : ProviderAnswers(r, calls)
    <2>1. CASE ProviderFails(r)
        BY <1>1, <1>2, <1>4, <2>1 DEF ProviderFails, Goto, RunType
    <2>2. CASE \E calls \in Answers : ProviderAnswers(r, calls)
        <3>1. PICK calls \in Answers : ProviderAnswers(r, calls)
            BY <2>2
        <3>2. run'[r].pc = PlaceAfterAnswer(r, calls, run[r].answers + 1)
            BY <1>1, <3>1 DEF ProviderAnswers, RunType
        <3> QED
            BY <1>4, <3>2 DEF PlaceAfterAnswer, AfterLoop
    <2> QED
        BY <1>7, <2>1, <2>2
<1>8. CASE Execute(r) \/ Record(r) \/ RecordFails(r)
    BY <1>1, <1>4, <1>8 DEF Execute, Record, RecordFails, Goto, At, RunType
<1>9. CASE AuditTool(r)
    BY <1>1, <1>2, <1>4, <1>9 DEF AuditTool, RunType
<1>10. CASE AuditLimit(r) \/ SaveAnswer(r) \/ AuditChat(r) \/ Reject(r)
    BY <1>1, <1>2, <1>4, <1>10 DEF AuditLimit, SaveAnswer, AuditChat, Reject,
        AuditMilestone, Goto, RunType
<1> QED
    BY <1>3, <1>5, <1>6, <1>7, <1>8, <1>9, <1>10 DEF Step, Loop

\* What is executed is what the two looks allowed.
LEMMA ExecutedStep ==
    ASSUME TypeInv, NEW r \in Runs, Step(r), Authorised(r), NEW e \in executed'[r],
           e \notin executed[r]
    PROVE  /\ run[r].pc = "execute" /\ run'[r].policy = run[r].policy
           /\ PolicyLets(r, e.tool) /\ RowsLet(r, e.tool, e.guarded)
           /\ e.at = Position(r) /\ e.tool = CurrentTool(r)
           /\ run'[r].pc = "record"
<1>1. /\ run \in [Runs -> RunType] /\ run[r] \in RunType
      /\ executed \in [Runs -> SUBSET ExecutionType]
    BY DEF TypeInv, RunsOK, TablesOK
<1>2. Execute(r)
    BY DEF Step, Prelude, Loop, Admit, Compile, CreateConversation,
        AuditRetention, SnapshotPolicy, AuditPolicy, SaveUserMessage,
        ReadFragments, SaveCompilation, AuditPrompt, AuditMilestone,
        ProviderFails, ProviderAnswers, AuditLimit, CallTool, FindPermission,
        Record, RecordFails, AuditTool, SaveAnswer, AuditChat, Reject, tables
<1>3. e = [at |-> Position(r), tool |-> CurrentTool(r), guarded |-> run[r].guarded]
    BY <1>1, <1>2 DEF Execute, TakeEffect
<1>4. run[r].pc = "execute" /\ run'[r].policy = run[r].policy /\ run'[r].pc = "record"
    BY <1>1, <1>2 DEF Execute, At, RunType
<1> QED
    BY <1>3, <1>4 DEF Authorised

LEMMA AuthorisedStep ==
    ASSUME TypeInv, NEW r \in Runs, Step(r), Authorised(r)
    PROVE  Authorised(r)'
<1>1. Evidence(r)' /\ milestones[r] \subseteq milestones'[r]
      /\ (rows[r].snapshot => rows'[r].snapshot)
    BY EvidenceStep DEF Authorised
<1>2. UNCHANGED admin
    BY OthersUntouched
<1>3. ASSUME NEW e \in executed'[r]
      PROVE  /\ PolicyLets(r, e.tool)'
             /\ RowsLet(r, e.tool, e.guarded)'
             /\ {"retention.selected", "policy.evaluated"} \subseteq milestones'[r]
             /\ rows'[r].snapshot
    <2>1. CASE e \in executed[r]
        <3>1. run'[r].policy = run[r].policy
            <4>1. CASE Compile(r)
                BY <2>1, <4>1 DEF Compile, At, Authorised
            <4> QED
                BY <4>1, PolicyFixed
        <3> QED
            BY <1>1, <1>2, <2>1, <3>1 DEF Authorised, PolicyLets, RowsLet, admin
    <2>2. CASE e \notin executed[r]
        <3>1. /\ run[r].pc = "execute" /\ run'[r].policy = run[r].policy
              /\ PolicyLets(r, e.tool) /\ RowsLet(r, e.tool, e.guarded)
            BY <2>2, ExecutedStep
        <3>2. {"retention.selected", "policy.evaluated"} \subseteq milestones[r]
              /\ rows[r].snapshot
            BY <3>1 DEF Authorised, Evidence, BeforeSelection, BeforeSnapshot,
                BeforeEvaluation
        <3> QED
            BY <1>1, <1>2, <3>1, <3>2 DEF PolicyLets, RowsLet, admin
    <2> QED
        BY <2>1, <2>2
<1> QED
    BY <1>1, <1>3, LooksKept DEF Authorised

\* Permissions are only added, so that what a run was allowed stays allowed.
LEMMA AuthorisedAdmin ==
    ASSUME TypeInv, NEW r \in Runs, Administer, Authorised(r)
    PROVE  Authorised(r)'
<1>1. UNCHANGED <<request, run, tables>>
    BY DEF Administer, Refresh, Grant
<1>2. \A tool \in Tools : grants[tool] \subseteq grants'[tool]
    BY DEF Administer, Refresh, Grant, TypeInv, TablesOK
<1>3. Evidence(r)'
    BY <1>1 DEF Authorised, Evidence, tables
<1>4. \A tool \in Tools, guarded \in BOOLEAN :
        RowsLet(r, tool, guarded) => RowsLet(r, tool, guarded)'
    BY <1>1, <1>2 DEF RowsLet
<1>5. /\ run[r].pc = "execute" => CurrentTool(r) \in Tools
      /\ run[r].guarded \in BOOLEAN
    BY HeadAndTail DEF TypeInv, RunsOK, Pending, Acting, CurrentTool, RunType
<1>6. \A e \in executed[r] : e.tool \in Tools /\ e.guarded \in BOOLEAN
    BY DEF TypeInv, TablesOK, ExecutionType
<1>7. run'[r].pc = "execute" => RowsLet(r, CurrentTool(r), run[r].guarded)'
    BY <1>1, <1>4, <1>5 DEF Authorised, CurrentTool, RowsLet
<1>8. \A e \in executed'[r] : RowsLet(r, e.tool, e.guarded)'
    BY <1>1, <1>4, <1>6 DEF Authorised, tables
<1> QED
    BY <1>1, <1>3, <1>7, <1>8 DEF Authorised, PolicyLets, CurrentTool, tables

LEMMA AuthorisedNext == TypeInv /\ AuthorisedInv /\ [Next]_vars => AuthorisedInv'
<1> SUFFICES ASSUME TypeInv, AuthorisedInv, [Next]_vars, NEW q \in Runs
             PROVE  Authorised(q)'
    BY DEF AuthorisedInv
<1>1. Authorised(q)
    BY DEF AuthorisedInv
<1>2. ASSUME NEW r \in Runs, Step(r) PROVE Authorised(q)'
    <2>1. CASE r = q
        BY <1>1, <1>2, <2>1, AuthorisedStep
    <2>2. CASE r # q
        BY <1>1, <1>2, <2>2, OthersUntouched DEF Authorised, Evidence, PolicyLets,
            RowsLet, CurrentTool, admin
    <2> QED
        BY <2>1, <2>2
<1>3. CASE Administer
    BY <1>1, <1>3, AuthorisedAdmin
<1>4. CASE UNCHANGED vars
    BY <1>1, <1>4 DEF vars, Authorised, Evidence, PolicyLets, RowsLet, CurrentTool
<1> QED
    BY <1>2, <1>3, <1>4 DEF Next

\* No tool takes effect for a run unless policy, permission and, where it is
\* wanted, the caller's confirmation let it, with the evidence written before.
THEOREM AlwaysAuthorised == Spec => []ExecutionsAuthorised
<1>1. Spec => []TypeInv
    BY TypeInit, TypeStep, PTL DEF Spec
<1>2. Init => AuthorisedInv
    <2> SUFFICES ASSUME Init, NEW r \in Runs PROVE Authorised(r)
        BY DEF AuthorisedInv
    <2>1. run[r].pc = "arrived" /\ executed[r] = {}
        BY DEF Init
    <2> QED
        BY <2>1 DEF Authorised, Evidence, BeforeSelection, BeforeSnapshot,
            BeforeEvaluation
<1>3. AuthorisedInv => ExecutionsAuthorised
    BY DEF AuthorisedInv, Authorised, PolicyLets, RowsLet, ExecutionsAuthorised
<1> QED
    BY <1>1, <1>2, <1>3, AuthorisedNext, PTL DEF Spec

----------------------------------------------------------------------------
(* Effects and their rows.                                                 *)

\* Where an effect has no row yet, the call it belongs to is being recorded.
Filed(r) ==
    /\ \A i \in 1..Len(invocations[r]) :
          invocations[r][i].status = "completed" => \E e \in executed[r] : e.at = i
    /\ \A e \in executed[r] :
          \/ /\ e.at \in 1..Len(invocations[r])
             /\ invocations[r][e.at].tool = e.tool
             /\ invocations[r][e.at].status \in {"completed", "failed"}
          \/ /\ e.at = Position(r)
             /\ run[r].pc \in {"record", "rejected"}
             /\ run[r].pc = "record" =>
                  /\ e.tool = CurrentTool(r)
                  /\ run[r].outcome \in {"completed", "failed"}
    /\ \A e, f \in executed[r] : e.at = f.at => e = f
    /\ run[r].pc = "record" /\ run[r].outcome = "completed"
          => \E e \in executed[r] : e.at = Position(r)

FiledInv == \A r \in Runs : Filed(r)

\* Outside the recording of a call a step neither executes a tool nor appends
\* a row, and it does not come to the recording with a completed outcome.
LEMMA NothingRecorded ==
    ASSUME TypeInv, NEW r \in Runs, Step(r), ~Execute(r), ~Record(r)
    PROVE  /\ executed'[r] = executed[r]
           /\ invocations'[r] = invocations[r]
           /\ ~(run'[r].pc = "record" /\ run'[r].outcome = "completed")
           /\ run[r].pc = "record" =>
                \/ run'[r].pc = "rejected"
                \/ run'[r] = [run[r] EXCEPT !.outcome = "failed"]
<1>1. run \in [Runs -> RunType] /\ run[r] \in RunType
    BY DEF TypeInv, RunsOK
<1>2. AfterLoop(r, run[r].answers) \in {"saveAnswer", "auditChat"}
    BY DEF AfterLoop
<1>3. UNCHANGED <<invocations, executed>>
    BY DEF Step, Prelude, Loop, Admit, Compile, CreateConversation,
        AuditRetention, SnapshotPolicy, AuditPolicy, SaveUserMessage,
        ReadFragments, SaveCompilation, AuditPrompt, AuditMilestone,
        ProviderFails, ProviderAnswers, AuditLimit, CallTool, FindPermission,
        RecordFails, AuditTool, SaveAnswer, AuditChat, Reject, tables
<1>4. CASE Prelude(r)
    BY <1>1, <1>3, <1>4 DEF Prelude, Admit, Compile, CreateConversation,
        AuditRetention, SnapshotPolicy, AuditPolicy, SaveUserMessage,
        ReadFragments, SaveCompilation, AuditPrompt, AuditMilestone, Goto, At,
        RunType
<1>5. CASE ProviderFails(r) \/ AuditLimit(r) \/ SaveAnswer(r) \/ AuditChat(r)
    BY <1>1, <1>2, <1>3, <1>5 DEF ProviderFails, AuditLimit, SaveAnswer,
        AuditChat, AuditMilestone, Goto, At, RunType
<1>6. CASE \E calls \in Answers : ProviderAnswers(r, calls)
    <2>1. PICK calls \in Answers : ProviderAnswers(r, calls)
        BY <1>6
    <2>2. /\ run[r].pc = "provider"
          /\ run'[r].pc = PlaceAfterAnswer(r, calls, run[r].answers + 1)
        BY <1>1, <2>1 DEF ProviderAnswers, At, RunType
    <2> QED
        BY <1>3, <2>2 DEF PlaceAfterAnswer, AfterLoop
<1>7. CASE CallTool(r) \/ FindPermission(r)
    BY <1>1, <1>3, <1>7 DEF CallTool, FindPermission, At, RunType
<1>8. CASE RecordFails(r)
    BY <1>1, <1>3, <1>8 DEF RecordFails, At, RunType
<1>9. CASE AuditTool(r)
    BY <1>1, <1>2, <1>3, <1>9 DEF AuditTool, At, RunType
<1>10. CASE Reject(r)
    BY <1>1, <1>3, <1>10 DEF Reject, Goto, At, RunType
<1> QED
    BY <1>4, <1>5, <1>6, <1>7, <1>8, <1>9, <1>10 DEF Step, Loop

LEMMA FiledStep ==
    ASSUME TypeInv, NEW r \in Runs, Step(r), Filed(r)
    PROVE  Filed(r)'
<1>1. /\ run \in [Runs -> RunType] /\ run[r] \in RunType
      /\ executed \in [Runs -> SUBSET ExecutionType]
      /\ invocations \in [Runs -> Seq(InvocationType)]
      /\ invocations[r] \in Seq(InvocationType)
    BY DEF TypeInv, RunsOK, TablesOK
<1>2. Position(r) \in Nat /\ Position(r) \notin 1..Len(invocations[r])
    BY <1>1 DEF Position
<1>3. CASE Execute(r)
    <2> DEFINE effect == [at |-> Position(r), tool |-> CurrentTool(r),
                          guarded |-> run[r].guarded]
    <2>1. /\ run[r].pc = "execute" /\ run'[r].pc = "record"
          /\ run'[r].calls = run[r].calls
          /\ invocations'[r] = invocations[r]
          /\ \/ /\ executed'[r] = executed[r] \cup {effect}
                /\ run'[r].outcome \in {"completed", "failed"}
             \/ executed'[r] = executed[r] /\ run'[r].outcome = "failed"
        BY <1>1, <1>3 DEF Execute, TakeEffect, At, RunType
    <2>2. /\ effect.at = Position(r) /\ effect.tool = CurrentTool(r)
          /\ Position(r)' = Position(r) /\ CurrentTool(r)' = CurrentTool(r)
        BY <2>1 DEF Position, CurrentTool
    <2>3. \A e \in executed[r] :
            /\ e.at \in 1..Len(invocations[r])
            /\ invocations[r][e.at].tool = e.tool
            /\ invocations[r][e.at].status \in {"completed", "failed"}
        BY <2>1 DEF Filed
    <2> HIDE DEF effect
    <2> QED
        BY <1>2, <2>1, <2>2, <2>3 DEF Filed
<1>4. CASE Record(r)
    <2> DEFINE row == [ tool    |-> CurrentTool(r),
                        status  |-> run[r].outcome,
                        payload |-> CanStoreToolPayloads(Mode(r)) ]
               before == invocations[r]
               after == invocations'[r]
    <2>1. /\ run[r].pc = "record" /\ run'[r].pc = "auditTool"
          /\ executed'[r] = executed[r]
        BY <1>1, <1>4 DEF Record, Goto, At, RunType
    <2>2. row.tool = CurrentTool(r) /\ row.status = run[r].outcome
        OBVIOUS
    <2>3. after = Append(before, row)
        BY <1>1, <1>4 DEF Record
    <2>4. before \in Seq(InvocationType) /\ Position(r) = Len(before) + 1
        BY <1>1 DEF Position
    <2> HIDE DEF row, before
    <2>5. /\ Len(after) = Len(before) + 1
          /\ after[Position(r)] = row
          /\ \A i \in 1..Len(before) : after[i] = before[i]
        BY <2>3, <2>4
    <2> HIDE DEF after
    <2>6. \A e \in executed[r] :
            /\ e.at \in 1..Len(after)
            /\ after[e.at].tool = e.tool
            /\ after[e.at].status \in {"completed", "failed"}
        <3> SUFFICES ASSUME NEW e \in executed[r]
                     PROVE  /\ e.at \in 1..Len(after)
                            /\ after[e.at].tool = e.tool
                            /\ after[e.at].status \in {"completed", "failed"}
            OBVIOUS
        <3>1. CASE e.at = Position(r) /\ e.at \notin 1..Len(before)
            <4>1. /\ e.tool = CurrentTool(r)
                  /\ run[r].outcome \in {"completed", "failed"}
                BY <2>1, <3>1 DEF Filed, before
            <4> QED
                BY <2>2, <2>4, <2>5, <3>1, <4>1
        <3>2. CASE e.at \in 1..Len(before)
            <4>1. /\ before[e.at].tool = e.tool
                  /\ before[e.at].status \in {"completed", "failed"}
                BY <1>2, <3>2 DEF Filed, before
            <4> QED
                BY <2>4, <2>5, <3>2, <4>1
        <3> QED
            BY <3>1, <3>2 DEF Filed, before
    <2>7. \A i \in 1..Len(after) :
            after[i].status = "completed" => \E e \in executed[r] : e.at = i
        <3> SUFFICES ASSUME NEW i \in 1..Len(after), after[i].status = "completed"
                     PROVE  \E e \in executed[r] : e.at = i
            OBVIOUS
        <3>1. CASE i \in 1..Len(before)
            BY <2>5, <3>1 DEF Filed, before
        <3>2. CASE i = Position(r)
            BY <2>1, <2>2, <2>5, <3>2 DEF Filed
        <3> QED
            BY <2>4, <2>5, <3>1, <3>2
    <2> QED
        BY <2>1, <2>6, <2>7 DEF Filed, after
<1>5. CASE ~Execute(r) /\ ~Record(r)
    <2>1. /\ executed'[r] = executed[r] /\ invocations'[r] = invocations[r]
          /\ ~(run'[r].pc = "record" /\ run'[r].outcome = "completed")
          /\ Position(r)' = Position(r)
        BY <1>5, NothingRecorded DEF Position
    <2>2. CASE run[r].pc = "record"
        <3>1. \/ run'[r].pc = "rejected"
              \/ /\ run'[r].pc = "record" /\ run'[r].outcome = "failed"
                 /\ run'[r].calls = run[r].calls
            <4>1. \/ run'[r].pc = "rejected"
                  \/ run'[r] = [run[r] EXCEPT !.outcome = "failed"]
                BY <1>5, <2>2, NothingRecorded
            <4> QED
                BY <1>1, <2>2, <4>1 DEF RunType
        <3> QED
            BY <2>1, <2>2, <3>1 DEF Filed, CurrentTool
    <2>3. CASE run[r].pc = "rejected"
        <3>1. FALSE
            BY <2>3 DEF Step, Prelude, Loop, Admit, Compile, CreateConversation,
                AuditRetention, SnapshotPolicy, AuditPolicy, SaveUserMessage,
                ReadFragments, SaveCompilation, AuditPrompt, AuditMilestone,
                ProviderFails, ProviderAnswers, AuditLimit, CallTool,
                FindPermission, Execute, Record, RecordFails, AuditTool,
                SaveAnswer, AuditChat, Reject, Repository, At
        <3> QED
            BY <3>1
    <2>4. CASE run[r].pc \notin {"record", "rejected"}
        <3>1. \A e \in executed[r] :
                /\ e.at \in 1..Len(invocations[r])
                /\ invocations[r][e.at].tool = e.tool
                /\ invocations[r][e.at].status \in {"completed", "failed"}
            BY <2>4 DEF Filed
        <3> QED
            BY <2>1, <3>1 DEF Filed
    <2> QED
        BY <2>2, <2>3, <2>4
<1> QED
    BY <1>3, <1>4, <1>5

LEMMA FiledNext == TypeInv /\ FiledInv /\ [Next]_vars => FiledInv'
<1> SUFFICES ASSUME TypeInv, FiledInv, [Next]_vars, NEW q \in Runs
             PROVE  Filed(q)'
    BY DEF FiledInv
<1>1. Filed(q)
    BY DEF FiledInv
<1>2. ASSUME NEW r \in Runs, Step(r) PROVE Filed(q)'
    <2>1. CASE r = q
        BY <1>1, <1>2, <2>1, FiledStep
    <2>2. CASE r # q
        <3>1. /\ run'[q] = run[q] /\ invocations'[q] = invocations[q]
              /\ executed'[q] = executed[q]
            BY <1>2, <2>2, OthersUntouched
        <3> QED
            BY <1>1, <3>1 DEF Filed, Position, CurrentTool
    <2> QED
        BY <2>1, <2>2
<1>3. CASE Administer \/ UNCHANGED vars
    <2>1. UNCHANGED <<run, invocations, executed>>
        BY <1>3 DEF Administer, Refresh, Grant, vars, tables
    <2> QED
        BY <1>1, <2>1 DEF Filed, Position, CurrentTool
<1> QED
    BY <1>2, <1>3 DEF Next

\* Rows of tool_invocations and effects of tools agree, call by call, also
\* when the write of a row fails after the tool took effect.
THEOREM EffectsAreAccounted == Spec => []EffectsAccounted
<1>1. Spec => []TypeInv
    BY TypeInit, TypeStep, PTL DEF Spec
<1>2. Init => FiledInv
    <2> SUFFICES ASSUME Init, NEW r \in Runs PROVE Filed(r)
        BY DEF FiledInv
    <2>1. run[r].pc = "arrived" /\ executed[r] = {} /\ invocations[r] = <<>>
        BY DEF Init
    <2> QED
        BY <2>1 DEF Filed
<1>3. FiledInv => EffectsAccounted
    BY DEF FiledInv, Filed, EffectsAccounted
<1> QED
    BY <1>1, <1>2, <1>3, FiledNext, PTL DEF Spec

\* The audit event of a call says what its row says, and comes after it.
Trail(r) ==
    /\ run[r].pc \notin {"auditTool", "rejected"}
          => Len(invocations[r]) = Len(toolAudits[r])
    /\ run[r].pc = "rejected"
          => Len(invocations[r]) \in {Len(toolAudits[r]), Len(toolAudits[r]) + 1}
    /\ run[r].pc = "auditTool" =>
          /\ Len(invocations[r]) = Len(toolAudits[r]) + 1
          /\ invocations[r][Len(invocations[r])].status = run[r].outcome
    /\ \A i \in 1..Len(toolAudits[r]) :
          toolAudits[r][i] = AuditTypeOf(invocations[r][i].status)

TrailInv == \A r \in Runs : Trail(r)

\* The type of an audit event tells whether the call completed, and whether it
\* waits for a confirmation.
LEMMA AuditTellsStatus ==
    ASSUME NEW status \in Statuses
    PROVE  /\ AuditTypeOf(status) = "tool.invoked" <=> status = "completed"
           /\ AuditTypeOf(status) = "tool.confirmation_required"
                 <=> status = "requires_confirmation"
BY DEF AuditTypeOf, Statuses

LEMMA TrailStep ==
    ASSUME TypeInv, NEW r \in Runs, Step(r), Trail(r)
    PROVE  Trail(r)'
<1>1. /\ run \in [Runs -> RunType] /\ run[r] \in RunType
      /\ invocations \in [Runs -> Seq(InvocationType)]
      /\ invocations[r] \in Seq(InvocationType)
      /\ toolAudits \in [Runs -> Seq(ToolAuditTypes)]
      /\ toolAudits[r] \in Seq(ToolAuditTypes)
    BY DEF TypeInv, RunsOK, TablesOK
<1>2. AfterLoop(r, run[r].answers) \in {"saveAnswer", "auditChat"}
    BY DEF AfterLoop
<1>3. CASE Record(r)
    <2> DEFINE row == [ tool    |-> CurrentTool(r),
                        status  |-> run[r].outcome,
                        payload |-> CanStoreToolPayloads(Mode(r)) ]
               before == invocations[r]
               after == invocations'[r]
    <2>1. /\ run[r].pc = "record" /\ run'[r].pc = "auditTool"
          /\ run'[r].outcome = run[r].outcome
          /\ toolAudits'[r] = toolAudits[r]
        BY <1>1, <1>3 DEF Record, Goto, At, RunType
    <2>2. row.status = run[r].outcome /\ before \in Seq(InvocationType)
        BY <1>1
    <2>3. after = Append(before, row)
        BY <1>1, <1>3 DEF Record
    <2> HIDE DEF row, before
    <2>4. /\ Len(after) = Len(before) + 1
          /\ after[Len(after)] = row
          /\ \A i \in 1..Len(before) : after[i] = before[i]
        BY <2>2, <2>3
    <2>5. Len(before) = Len(toolAudits[r])
        BY <2>1 DEF Trail, before
    <2>6. \A i \in 1..Len(before) :
            toolAudits[r][i] = AuditTypeOf(before[i].status)
        BY <2>5 DEF Trail, before
    <2> HIDE DEF after
    <2>7. \A i \in 1..Len(before) :
            toolAudits[r][i] = AuditTypeOf(after[i].status)
        BY <2>4, <2>6
    <2> QED
        BY <2>1, <2>2, <2>4, <2>5, <2>7 DEF Trail, after
<1>4. CASE AuditTool(r)
    <2> DEFINE event == AuditTypeOf(run[r].outcome)
               before == toolAudits[r]
               after == toolAudits'[r]
               table == invocations[r]
    <2>1. /\ run[r].pc = "auditTool"
          /\ run'[r].pc \in {"callTool", "provider", "saveAnswer", "auditChat"}
          /\ invocations'[r] = table
        BY <1>1, <1>2, <1>4 DEF AuditTool, At, RunType
    <2>2. /\ Len(table) = Len(before) + 1
          /\ event = AuditTypeOf(table[Len(table)].status)
          /\ \A i \in 1..Len(before) : before[i] = AuditTypeOf(table[i].status)
        BY <2>1 DEF Trail
    <2>3. after = Append(before, event)
        BY <1>1, <1>4 DEF AuditTool
    <2>4. before \in Seq(ToolAuditTypes) /\ Len(before) \in Nat
        BY <1>1
    <2> HIDE DEF event, before, table
    <2>5. /\ Len(after) = Len(before) + 1
          /\ after[Len(after)] = event
          /\ \A i \in 1..Len(before) : after[i] = before[i]
        BY <2>3, <2>4
    <2> HIDE DEF after
    <2>6. \A i \in 1..Len(after) : after[i] = AuditTypeOf(table[i].status)
        BY <2>2, <2>4, <2>5
    <2> QED
        BY <2>1, <2>2, <2>5, <2>6 DEF Trail, after
<1>5. CASE ~Record(r) /\ ~AuditTool(r)
    <2>1. UNCHANGED <<invocations, toolAudits>>
        BY <1>5 DEF Step, Prelude, Loop, Admit, Compile, CreateConversation,
            AuditRetention, SnapshotPolicy, AuditPolicy, SaveUserMessage,
            ReadFragments, SaveCompilation, AuditPrompt, AuditMilestone,
            ProviderFails, ProviderAnswers, AuditLimit, CallTool,
            FindPermission, Execute, RecordFails, SaveAnswer, AuditChat,
            Reject, tables
    <2>2. run'[r].pc # "auditTool" /\ run[r].pc # "rejected"
          /\ (run[r].pc = "auditTool" => run'[r].pc = "rejected")
        <3>1. CASE Prelude(r)
            BY <1>1, <3>1 DEF Prelude, Admit, Compile, CreateConversation,
                AuditRetention, SnapshotPolicy, AuditPolicy, SaveUserMessage,
                ReadFragments, SaveCompilation, AuditPrompt, AuditMilestone,
                Goto, At, RunType
        <3>2. CASE ProviderFails(r) \/ AuditLimit(r) \/ SaveAnswer(r) \/ AuditChat(r)
            BY <1>1, <1>2, <3>2 DEF ProviderFails, AuditLimit, SaveAnswer,
                AuditChat, AuditMilestone, Goto, At, RunType
        <3>3. CASE \E calls \in Answers : ProviderAnswers(r, calls)
            <4>1. PICK calls \in Answers : ProviderAnswers(r, calls)
                BY <3>3
            <4>2. /\ run[r].pc = "provider"
                  /\ run'[r].pc = PlaceAfterAnswer(r, calls, run[r].answers + 1)
                BY <1>1, <4>1 DEF ProviderAnswers, At, RunType
            <4> QED
                BY <4>2 DEF PlaceAfterAnswer, AfterLoop
        <3>4. CASE CallTool(r) \/ FindPermission(r) \/ RecordFails(r)
            BY <1>1, <3>4 DEF CallTool, FindPermission, RecordFails, At, RunType
        <3>5. CASE Execute(r)
            BY <1>1, <3>5 DEF Execute, At, RunType
        <3>6. CASE Reject(r)
            BY <1>1, <3>6 DEF Reject, Repository, Goto, At, RunType
        <3> QED
            BY <1>5, <3>1, <3>2, <3>3, <3>4, <3>5, <3>6 DEF Step, Loop
    <2>3. Len(toolAudits[r]) \in Nat
        BY <1>1
    <2> QED
        BY <2>1, <2>2, <2>3 DEF Trail
<1> QED
    BY <1>3, <1>4, <1>5

LEMMA TrailNext == TypeInv /\ TrailInv /\ [Next]_vars => TrailInv'
<1> SUFFICES ASSUME TypeInv, TrailInv, [Next]_vars, NEW q \in Runs
             PROVE  Trail(q)'
    BY DEF TrailInv
<1>1. Trail(q)
    BY DEF TrailInv
<1>2. ASSUME NEW r \in Runs, Step(r) PROVE Trail(q)'
    <2>1. CASE r = q
        BY <1>1, <1>2, <2>1, TrailStep
    <2>2. CASE r # q
        <3>1. /\ run'[q] = run[q] /\ invocations'[q] = invocations[q]
              /\ toolAudits'[q] = toolAudits[q]
            BY <1>2, <2>2, OthersUntouched
        <3> QED
            BY <1>1, <3>1 DEF Trail
    <2> QED
        BY <2>1, <2>2
<1>3. CASE Administer \/ UNCHANGED vars
    <2>1. UNCHANGED <<run, invocations, toolAudits>>
        BY <1>3 DEF Administer, Refresh, Grant, vars, tables
    <2> QED
        BY <1>1, <2>1 DEF Trail
<1> QED
    BY <1>2, <1>3 DEF Next

\* The tool.* audit events of a run follow its rows of tool_invocations one by
\* one and say the same of each call, at most one call behind.
THEOREM TrailTellsTheStory == Spec => []ToolAuditTrail
<1>1. Spec => []TypeInv
    BY TypeInit, TypeStep, PTL DEF Spec
<1>2. Init => TrailInv
    <2> SUFFICES ASSUME Init, NEW r \in Runs PROVE Trail(r)
        BY DEF TrailInv
    <2>1. run[r].pc = "arrived" /\ toolAudits[r] = <<>> /\ invocations[r] = <<>>
        BY DEF Init
    <2> QED
        BY <2>1 DEF Trail
<1>3. TypeInv /\ TrailInv => ToolAuditTrail
    <2> SUFFICES ASSUME TypeInv, TrailInv, NEW r \in Runs
                 PROVE  /\ \/ /\ ~At(r, "auditTool")
                              /\ Len(invocations[r]) = Len(toolAudits[r])
                           \/ /\ run[r].pc \in {"auditTool", "rejected"}
                              /\ Len(invocations[r]) = Len(toolAudits[r]) + 1
                        /\ \A i \in 1..Len(toolAudits[r]) :
                              /\ toolAudits[r][i] = "tool.invoked"
                                    <=> invocations[r][i].status = "completed"
                              /\ toolAudits[r][i] = "tool.confirmation_required"
                                    <=> invocations[r][i].status
                                          = "requires_confirmation"
        BY DEF ToolAuditTrail
    <2>1. /\ invocations[r] \in Seq(InvocationType)
          /\ toolAudits[r] \in Seq(ToolAuditTypes)
        BY DEF TypeInv, TablesOK
    <2>2. Trail(r)
        BY DEF TrailInv
    <2>3. Len(toolAudits[r]) \in Nat /\ Len(invocations[r]) \in Nat
        BY <2>1
    <2>4. \/ /\ ~At(r, "auditTool")
             /\ Len(invocations[r]) = Len(toolAudits[r])
          \/ /\ run[r].pc \in {"auditTool", "rejected"}
             /\ Len(invocations[r]) = Len(toolAudits[r]) + 1
        BY <2>2 DEF Trail, At
    <2>5. ASSUME NEW i \in 1..Len(toolAudits[r])
          PROVE  /\ invocations[r][i].status \in Statuses
                 /\ toolAudits[r][i] = AuditTypeOf(invocations[r][i].status)
        <3>1. i \in 1..Len(invocations[r])
            BY <2>3, <2>4
        <3>2. invocations[r][i] \in InvocationType
            BY <2>1, <3>1
        <3> QED
            BY <2>2, <3>2 DEF Trail, InvocationType
    <2> QED
        BY <2>4, <2>5, AuditTellsStatus
<1> QED
    BY <1>1, <1>2, <1>3, TrailNext, PTL DEF Spec

----------------------------------------------------------------------------
(* Answers.                                                                *)

BeforeMessage == BeforeEvaluation \cup {"saveUserMessage"}

Keeps(r) == run[r].thread # "none" /\ CanStoreContent(Mode(r))

\* The user's message is written before the provider is asked, and the answer
\* column stays empty until the loop is over.
Answered(r) ==
    /\ run[r].pc \in {"arrived", "compilePolicy", "createConversation"}
          => run[r].thread = "none"
    /\ Keeps(r) /\ run[r].pc \notin BeforeMessage \cup {"rejected"}
          => rows[r].userMessage
    /\ run[r].pc \notin {"auditChat", "done", "rejected"} => rows[r].answer = 0
    /\ Keeps(r) /\ run[r].pc \in {"auditChat", "done"}
          => rows[r].answer = run[r].answers

AnsweredInv == \A r \in Runs : Answered(r)

\* The policy and the thread of a run are settled before the prompt is built,
\* so what is to be kept is the same for all the writes.
LEMMA AnsweredStep ==
    ASSUME TypeInv, NEW r \in Runs, Step(r), Answered(r)
    PROVE  Answered(r)'
<1>1. /\ run \in [Runs -> RunType] /\ run[r] \in RunType
      /\ rows \in [Runs -> RowsType] /\ rows[r] \in RowsType
    BY DEF TypeInv, RunsOK, TablesOK
<1>2. run[r].answers \in Nat
    BY <1>1 DEF RunType
<1> USE DEF Answered, Keeps, Mode, BeforeMessage, BeforeEvaluation,
        BeforeSnapshot, BeforeSelection, At, Goto
<1>3. CASE Admit(r) \/ Compile(r) \/ ReadFragments(r)
    <2>1. CASE Admit(r)
        BY <1>1, <2>1 DEF Admit, tables, RunType
    <2>2. CASE Compile(r)
        BY <1>1, <2>2 DEF Compile, tables, RunType
    <2>3. CASE ReadFragments(r)
        BY <1>1, <2>3 DEF ReadFragments, tables, RunType
    <2> QED
        BY <1>3, <2>1, <2>2, <2>3
<1>4. CASE CreateConversation(r)
    BY <1>1, <1>4 DEF CreateConversation, RunType, RowsType
<1>5. CASE SnapshotPolicy(r)
    BY <1>1, <1>5 DEF SnapshotPolicy, RunType, RowsType
<1>6. CASE SaveUserMessage(r)
    BY <1>1, <1>6 DEF SaveUserMessage, RunType, RowsType
<1>7. CASE SaveCompilation(r)
    BY <1>1, <1>7 DEF SaveCompilation, RunType, RowsType
<1>8. CASE AuditRetention(r) \/ AuditPrompt(r) \/ AuditChat(r)
    <2>1. CASE AuditRetention(r)
        BY <1>1, <2>1 DEF AuditRetention, AuditMilestone, RunType
    <2>2. CASE AuditPrompt(r)
        BY <1>1, <2>2 DEF AuditPrompt, AuditMilestone, RunType
    <2>3. CASE AuditChat(r)
        BY <1>1, <2>3 DEF AuditChat, AuditMilestone, RunType
    <2> QED
        BY <1>8, <2>1, <2>2, <2>3
<1>9. CASE AuditPolicy(r)
    BY <1>1, <1>9 DEF AuditPolicy, AuditMilestone, RunType
<1>10. CASE ProviderFails(r) \/ AuditLimit(r)
    BY <1>1, <1>2, <1>10 DEF ProviderFails, AuditLimit, AuditMilestone,
        AfterLoop, tables, RunType
<1>11. CASE \E calls \in Answers : ProviderAnswers(r, calls)
    <2>1. PICK calls \in Answers : ProviderAnswers(r, calls)
        BY <1>11
    <2>2. /\ run[r].pc = "provider" /\ rows' = rows
          /\ run'[r].pc = PlaceAfterAnswer(r, calls, run[r].answers + 1)
          /\ run'[r].answers = run[r].answers + 1
          /\ run'[r].policy = run[r].policy /\ run'[r].thread = run[r].thread
        BY <1>1, <2>1 DEF ProviderAnswers, RunType, tables
    <2>3. /\ run'[r].pc \in {"saveAnswer", "auditChat", "auditLimit", "callTool"}
          /\ run'[r].pc = "auditChat" => run[r].thread = "none"
        BY <1>2, <2>2 DEF PlaceAfterAnswer, AfterLoop
    <2> QED
        BY <2>2, <2>3
<1>12. CASE CallTool(r) \/ FindPermission(r) \/ RecordFails(r) \/ Reject(r)
    BY <1>1, <1>12 DEF CallTool, FindPermission, RecordFails, Reject, tables,
        Repository, RunType
<1>13. CASE Execute(r) \/ Record(r)
    <2>1. CASE Execute(r)
        <3>1. /\ run[r].pc = "execute" /\ run'[r].pc = "record" /\ rows' = rows
              /\ run'[r].answers = run[r].answers
              /\ run'[r].policy = run[r].policy /\ run'[r].thread = run[r].thread
            BY <1>1, <2>1 DEF Execute, RunType
        <3> QED
            BY <3>1
    <2>2. CASE Record(r)
        BY <1>1, <2>2 DEF Record, RunType
    <2> QED
        BY <1>13, <2>1, <2>2
<1>14. CASE AuditTool(r)
    <2>1. /\ run[r].pc = "auditTool" /\ rows' = rows
          /\ run'[r].pc \in {"callTool", "provider", AfterLoop(r, run[r].answers)}
          /\ run'[r].answers = run[r].answers
          /\ run'[r].policy = run[r].policy /\ run'[r].thread = run[r].thread
        BY <1>1, <1>14 DEF AuditTool, RunType
    <2> QED
        BY <1>2, <2>1 DEF AfterLoop
<1>15. CASE SaveAnswer(r)
    BY <1>1, <1>15 DEF SaveAnswer, RunType, RowsType
<1> QED
    BY <1>3, <1>4, <1>5, <1>6, <1>7, <1>8, <1>9, <1>10, <1>11, <1>12, <1>13,
       <1>14, <1>15 DEF Step, Prelude, Loop

LEMMA AnsweredNext == TypeInv /\ AnsweredInv /\ [Next]_vars => AnsweredInv'
<1> SUFFICES ASSUME TypeInv, AnsweredInv, [Next]_vars, NEW q \in Runs
             PROVE  Answered(q)'
    BY DEF AnsweredInv
<1>1. Answered(q)
    BY DEF AnsweredInv
<1>2. ASSUME NEW r \in Runs, Step(r) PROVE Answered(q)'
    <2>1. CASE r = q
        BY <1>1, <1>2, <2>1, AnsweredStep
    <2>2. CASE r # q
        <3>1. run'[q] = run[q] /\ rows'[q] = rows[q]
            BY <1>2, <2>2, OthersUntouched
        <3> QED
            BY <1>1, <3>1 DEF Answered, Keeps, Mode
    <2> QED
        BY <2>1, <2>2
<1>3. CASE Administer \/ UNCHANGED vars
    <2>1. UNCHANGED <<run, rows>>
        BY <1>3 DEF Administer, Refresh, Grant, vars, tables
    <2> QED
        BY <1>1, <2>1 DEF Answered, Keeps, Mode
<1> QED
    BY <1>2, <1>3 DEF Next

\* A run that returned has kept the user's message and the last answer of the
\* provider, where its retention mode lets it keep any.
THEOREM AnswersAreKept == Spec => []AnswerKept
<1>1. Spec => []TypeInv
    BY TypeInit, TypeStep, PTL DEF Spec
<1>2. Init => AnsweredInv
    <2> SUFFICES ASSUME Init, NEW r \in Runs PROVE Answered(r)
        BY DEF AnsweredInv
    <2>1. run[r].pc = "arrived" /\ run[r].thread = "none" /\ rows[r].answer = 0
        BY DEF Init
    <2> QED
        BY <2>1 DEF Answered, Keeps, BeforeMessage, BeforeEvaluation,
            BeforeSnapshot, BeforeSelection
<1>3. AnsweredInv => AnswerKept
    BY DEF AnsweredInv, Answered, Keeps, BeforeMessage, BeforeEvaluation,
        BeforeSnapshot, BeforeSelection, AnswerKept, At
<1> QED
    BY <1>1, <1>2, <1>3, AnsweredNext, PTL DEF Spec

----------------------------------------------------------------------------
(* The loop.                                                               *)

Unrefused(r) == \A i \in 1..Len(toolAudits[r]) : ~Refused(toolAudits[r][i])

\* A round remembers in stop whether one of its calls was refused, and only a
\* run without a refusal asks the provider again.
LoopOK(r) ==
    /\ Phase(run[r].pc) \in {"open", "thinking"} => Unrefused(r)
    /\ Phase(run[r].pc) = "acting" => (run[r].stop <=> ~Unrefused(r))

LoopInv == \A r \in Runs : LoopOK(r)

\* The steps of AgentLoop, seen at one run; the first is a stutter.
Promised(r) ==
    LET from  == Phase(run[r].pc)
        to    == Phase(run'[r].pc)
        round == run[r].iteration
    IN  \/ to = from /\ run'[r].iteration = round /\ (Unrefused(r)' <=> Unrefused(r))
        \/ /\ from = "open" /\ to = "thinking"
           /\ run'[r].iteration = round /\ (Unrefused(r)' <=> Unrefused(r))
        \/ /\ from = "thinking" /\ to = "acting" /\ round < MaxToolIterations
           /\ run'[r].iteration = round /\ (Unrefused(r)' <=> Unrefused(r))
        \/ /\ from = "acting" /\ to = "acting" /\ Unrefused(r) /\ ~Unrefused(r)'
           /\ run'[r].iteration = round
        \/ /\ from = "acting" /\ to = "thinking" /\ Unrefused(r)
           /\ Unrefused(r)' /\ run'[r].iteration = round + 1
        \/ /\ from = "thinking" /\ to = "closing"
           /\ run'[r].iteration = round /\ (Unrefused(r)' <=> Unrefused(r))
        \/ /\ from = "acting" /\ to = "closing" /\ ~Unrefused(r)'
           /\ run'[r].iteration = round
        \/ /\ from # "closed" /\ to = "closed"
           /\ run'[r].iteration = round /\ (Unrefused(r)' <=> Unrefused(r))

\* The audit of a call appends one event, and it is a refusal unless the call
\* completed.
LEMMA AuditToolRefuses ==
    ASSUME TypeInv, NEW r \in Runs, AuditTool(r)
    PROVE  Unrefused(r)' <=> Unrefused(r) /\ run[r].outcome = "completed"
<1> DEFINE event == AuditTypeOf(run[r].outcome)
           before == toolAudits[r]
           after == toolAudits'[r]
<1>1. Refused(event) <=> run[r].outcome # "completed"
    BY DEF Refused, AuditTypeOf, TypeInv, RunsOK, RunType, Statuses
<1>2. toolAudits \in [Runs -> Seq(ToolAuditTypes)] /\ before \in Seq(ToolAuditTypes)
    BY DEF TypeInv, TablesOK
<1>3. after = Append(before, event)
    BY <1>2 DEF AuditTool
<1> HIDE DEF event, before
<1>4. /\ Len(after) = Len(before) + 1 /\ Len(before) \in Nat
      /\ after[Len(after)] = event
      /\ \A i \in 1..Len(before) : after[i] = before[i]
    BY <1>2, <1>3
<1> HIDE DEF after
<1>5. (\A i \in 1..Len(after) : ~Refused(after[i]))
        <=> (\A i \in 1..Len(before) : ~Refused(before[i])) /\ ~Refused(event)
    BY <1>4 DEF Refused
<1> QED
    BY <1>1, <1>5 DEF Unrefused, before, after

\* Every step of a run is a step of AgentLoop, and keeps its memory of refusals.
LEMMA LoopStep ==
    ASSUME TypeInv, NEW r \in Runs, Step(r), LoopOK(r)
    PROVE  Promised(r) /\ LoopOK(r)'
<1>1. /\ run \in [Runs -> RunType] /\ run[r] \in RunType
      /\ run[r].iteration \in Nat /\ run[r].stop \in BOOLEAN
    BY ChatAssumption DEF TypeInv, RunsOK, RunType
<1>2. AfterLoop(r, run[r].answers) \in {"saveAnswer", "auditChat"}
    BY DEF AfterLoop
<1>3. ASSUME toolAudits' = toolAudits, run'[r].iteration = run[r].iteration,
             run'[r].stop = run[r].stop,
             \/ Phase(run'[r].pc) = Phase(run[r].pc)
             \/ Phase(run[r].pc) = "open" /\ Phase(run'[r].pc) = "thinking"
             \/ Phase(run[r].pc) = "thinking" /\ Phase(run'[r].pc) = "closing"
             \/ Phase(run[r].pc) # "closed" /\ Phase(run'[r].pc) = "closed"
      PROVE  Promised(r) /\ LoopOK(r)'
    <2>1. (Unrefused(r)' <=> Unrefused(r))
        BY <1>3 DEF Unrefused
    <2> QED
        BY <1>3, <2>1 DEF Promised, LoopOK
<1>4. CASE Prelude(r)
    BY <1>1, <1>3, <1>4 DEF Prelude, Admit, Compile, CreateConversation,
        AuditRetention, SnapshotPolicy, AuditPolicy, SaveUserMessage,
        ReadFragments, SaveCompilation, AuditPrompt, AuditMilestone, Goto, At,
        tables, RunType, Phase
<1>5. CASE ProviderFails(r) \/ AuditLimit(r) \/ SaveAnswer(r) \/ AuditChat(r)
    BY <1>1, <1>2, <1>3, <1>5 DEF ProviderFails, AuditLimit, SaveAnswer,
        AuditChat, AuditMilestone, Goto, At, tables, RunType, Phase
<1>6. CASE \E calls \in Answers : ProviderAnswers(r, calls)
    <2>1. PICK calls \in Answers : ProviderAnswers(r, calls)
        BY <1>6
    <2>2. /\ run[r].pc = "provider" /\ toolAudits' = toolAudits
          /\ run'[r].pc = PlaceAfterAnswer(r, calls, run[r].answers + 1)
          /\ run'[r].iteration = run[r].iteration /\ ~run'[r].stop
        BY <1>1, <2>1 DEF ProviderAnswers, At, RunType, tables
    <2>3. Phase(run[r].pc) = "thinking" /\ Unrefused(r)
        BY <2>2 DEF Phase, LoopOK
    <2>4. Unrefused(r)'
        BY <2>2, <2>3 DEF Unrefused
    <2>5. \/ Phase(run'[r].pc) = "closing"
          \/ Phase(run'[r].pc) = "acting" /\ run[r].iteration < MaxToolIterations
        BY <1>1, <2>2, ChatAssumption DEF PlaceAfterAnswer, AfterLoop, Phase
    <2> QED
        BY <2>2, <2>3, <2>4, <2>5 DEF Promised, LoopOK
<1>7. CASE CallTool(r) \/ FindPermission(r) \/ RecordFails(r)
    BY <1>1, <1>3, <1>7 DEF CallTool, FindPermission, RecordFails, At, tables,
        RunType, Phase
<1>8. CASE Execute(r) \/ Record(r)
    BY <1>1, <1>3, <1>8 DEF Execute, Record, Goto, At, RunType, Phase
<1>9. CASE AuditTool(r)
    <2> DEFINE rest == Tail(run[r].calls)
               stop == run[r].stop \/ run[r].outcome # "completed"
               more == rest = <<>> /\ ~stop
    <2>1. /\ run[r].pc = "auditTool" /\ run'[r].stop = stop
          /\ run'[r].iteration = IF more THEN run[r].iteration + 1
                                 ELSE run[r].iteration
          /\ run'[r].pc = IF rest # <<>> THEN "callTool"
                          ELSE IF more THEN "provider"
                          ELSE AfterLoop(r, run[r].answers)
        BY <1>1, <1>9 DEF AuditTool, At, RunType
    <2>2. Phase(run[r].pc) = "acting" /\ (run[r].stop <=> ~Unrefused(r))
        BY <2>1 DEF Phase, LoopOK
    <2>3. /\ stop \in BOOLEAN /\ Unrefused(r) \in BOOLEAN
          /\ stop <=> ~Unrefused(r)'
          /\ Unrefused(r)' => Unrefused(r)
        BY <1>9, <2>2, AuditToolRefuses DEF Unrefused
    <2> HIDE DEF rest, stop
    <2>4. CASE rest # <<>>
        <3>1. /\ Phase(run'[r].pc) = "acting"
              /\ run'[r].iteration = run[r].iteration
            BY <2>1, <2>4 DEF Phase
        <3> QED
            BY <2>1, <2>2, <2>3, <3>1 DEF Promised, LoopOK
    <2>5. CASE rest = <<>> /\ ~stop
        <3>1. /\ Phase(run'[r].pc) = "thinking"
              /\ run'[r].iteration = run[r].iteration + 1
            BY <2>1, <2>5 DEF Phase
        <3> QED
            BY <2>2, <2>3, <2>5, <3>1 DEF Promised, LoopOK
    <2>6. CASE rest = <<>> /\ stop
        <3>1. /\ Phase(run'[r].pc) = "closing"
              /\ run'[r].iteration = run[r].iteration
            BY <1>2, <2>1, <2>6 DEF Phase
        <3> QED
            BY <2>2, <2>3, <2>6, <3>1 DEF Promised, LoopOK
    <2> QED
        BY <2>4, <2>5, <2>6
<1>10. CASE Reject(r)
    BY <1>1, <1>3, <1>10 DEF Reject, Repository, Goto, At, tables, RunType, Phase
<1> QED
    BY <1>4, <1>5, <1>6, <1>7, <1>8, <1>9, <1>10 DEF Step, Loop

LEMMA LoopNext == TypeInv /\ LoopInv /\ [Next]_vars => LoopInv'
<1> SUFFICES ASSUME TypeInv, LoopInv, [Next]_vars, NEW q \in Runs
             PROVE  LoopOK(q)'
    BY DEF LoopInv
<1>1. LoopOK(q)
    BY DEF LoopInv
<1>2. ASSUME NEW r \in Runs, Step(r) PROVE LoopOK(q)'
    <2>1. CASE r = q
        BY <1>1, <1>2, <2>1, LoopStep
    <2>2. CASE r # q
        <3>1. run'[q] = run[q] /\ toolAudits'[q] = toolAudits[q]
            BY <1>2, <2>2, OthersUntouched
        <3> QED
            BY <1>1, <3>1 DEF LoopOK, Unrefused
    <2> QED
        BY <2>1, <2>2
<1>3. CASE Administer \/ UNCHANGED vars
    <2>1. UNCHANGED <<run, toolAudits>>
        BY <1>3 DEF Administer, Refresh, Grant, vars, tables
    <2> QED
        BY <1>1, <2>1 DEF LoopOK, Unrefused
<1> QED
    BY <1>2, <1>3 DEF Next

----------------------------------------------------------------------------
(* The refinement of AgentLoop.                                            *)

phaseBar == [r \in Runs |-> Phase(run[r].pc)]

roundsBar == [r \in Runs |-> run[r].iteration]

cleanBar == [r \in Runs |-> Unrefused(r)]

\* The step of AgentLoop a run may take, in terms of the abstract state.
AbstractStep(r) ==
    \/ /\ phaseBar[r] = "open" /\ phaseBar' = [phaseBar EXCEPT ![r] = "thinking"]
       /\ UNCHANGED <<roundsBar, cleanBar>>
    \/ /\ phaseBar[r] = "thinking" /\ roundsBar[r] < MaxToolIterations
       /\ phaseBar' = [phaseBar EXCEPT ![r] = "acting"]
       /\ UNCHANGED <<roundsBar, cleanBar>>
    \/ /\ phaseBar[r] = "acting" /\ cleanBar[r]
       /\ cleanBar' = [cleanBar EXCEPT ![r] = FALSE]
       /\ UNCHANGED <<phaseBar, roundsBar>>
    \/ /\ phaseBar[r] = "acting" /\ cleanBar[r]
       /\ phaseBar' = [phaseBar EXCEPT ![r] = "thinking"]
       /\ roundsBar' = [roundsBar EXCEPT ![r] = roundsBar[r] + 1]
       /\ UNCHANGED cleanBar
    \/ /\ phaseBar[r] = "thinking" /\ phaseBar' = [phaseBar EXCEPT ![r] = "closing"]
       /\ UNCHANGED <<roundsBar, cleanBar>>
    \/ /\ phaseBar[r] = "acting" /\ phaseBar' = [phaseBar EXCEPT ![r] = "closing"]
       /\ cleanBar' = [cleanBar EXCEPT ![r] = FALSE]
       /\ UNCHANGED roundsBar
    \/ /\ phaseBar[r] # "closed" /\ phaseBar' = [phaseBar EXCEPT ![r] = "closed"]
       /\ UNCHANGED <<roundsBar, cleanBar>>

\* A step of one run moves the abstract state of that run only.
LEMMA BarStep ==
    ASSUME TypeInv, NEW r \in Runs, Step(r)
    PROVE  /\ phaseBar' = [phaseBar EXCEPT ![r] = Phase(run'[r].pc)]
           /\ roundsBar' = [roundsBar EXCEPT ![r] = run'[r].iteration]
           /\ cleanBar' = [cleanBar EXCEPT ![r] = Unrefused(r)']
<1>1. \A q \in Runs \ {r} : run'[q] = run[q] /\ toolAudits'[q] = toolAudits[q]
    BY OthersUntouched
<1>2. \A q \in Runs \ {r} : Unrefused(q)' = Unrefused(q)
    BY <1>1 DEF Unrefused
<1>3. phaseBar' = [phaseBar EXCEPT ![r] = Phase(run'[r].pc)]
    BY <1>1 DEF phaseBar
<1>4. roundsBar' = [roundsBar EXCEPT ![r] = run'[r].iteration]
    BY <1>1 DEF roundsBar
<1>5. cleanBar' = [cleanBar EXCEPT ![r] = Unrefused(r)']
    BY <1>2 DEF cleanBar
<1> QED
    BY <1>3, <1>4, <1>5

LEMMA PromiseInit == Init => Promise!Init
<1> SUFFICES ASSUME Init PROVE Promise!Init
    OBVIOUS
<1>1. \A r \in Runs : /\ run[r].pc = "arrived" /\ run[r].iteration = 0
                      /\ toolAudits[r] = <<>>
    BY DEF Init
<1>2. Phase("arrived") = "open"
    BY DEF Phase
<1>3. \A r \in Runs : \A i \in 1..Len(toolAudits[r]) : ~Refused(toolAudits[r][i])
    BY <1>1
<1> QED
    BY <1>1, <1>2, <1>3 DEF Promise!Init

LEMMA PromiseStep ==
    TypeInv /\ LoopInv /\ [Next]_vars => [Promise!Next]_(Promise!vars)
<1> SUFFICES ASSUME TypeInv, LoopInv, [Next]_vars
             PROVE  [Promise!Next]_(Promise!vars)
    OBVIOUS
<1>1. ASSUME UNCHANGED <<phaseBar, roundsBar, cleanBar>>
      PROVE  UNCHANGED Promise!vars
    BY <1>1 DEF phaseBar, roundsBar, cleanBar, Unrefused, Promise!vars
<1>2. ASSUME NEW r \in Runs, Step(r)
      PROVE  [Promise!Next]_(Promise!vars)
    <2>1. Promised(r)
        BY <1>2, LoopStep DEF LoopInv
    <2>2. /\ phaseBar' = [phaseBar EXCEPT ![r] = Phase(run'[r].pc)]
          /\ roundsBar' = [roundsBar EXCEPT ![r] = run'[r].iteration]
          /\ cleanBar' = [cleanBar EXCEPT ![r] = Unrefused(r)']
        BY <1>2, BarStep
    <2>3. /\ phaseBar[r] = Phase(run[r].pc)
          /\ roundsBar[r] = run[r].iteration
          /\ cleanBar[r] = Unrefused(r)
        BY DEF phaseBar, roundsBar, cleanBar
    <2>4. /\ phaseBar = [phaseBar EXCEPT ![r] = phaseBar[r]]
          /\ roundsBar = [roundsBar EXCEPT ![r] = roundsBar[r]]
          /\ cleanBar = [cleanBar EXCEPT ![r] = cleanBar[r]]
        BY DEF phaseBar, roundsBar, cleanBar
    <2>5. /\ Unrefused(r) \in BOOLEAN /\ Unrefused(r)' \in BOOLEAN
          /\ (Unrefused(r)' <=> Unrefused(r)) => Unrefused(r)' = Unrefused(r)
        BY DEF Unrefused
    <2>6. \/ UNCHANGED <<phaseBar, roundsBar, cleanBar>>
          \/ AbstractStep(r)
        BY <2>1, <2>2, <2>3, <2>4, <2>5 DEF Promised, AbstractStep
    <2>7. AbstractStep(r) => Promise!Step(r)
        BY DEF AbstractStep, Promise!Step, Promise!Begin, Promise!Act,
            Promise!Refuse, Promise!Resume, Promise!WindDown, Promise!Close,
            Promise!Goto, phaseBar, roundsBar, cleanBar, Unrefused
    <2> QED
        BY <1>1, <2>6, <2>7 DEF Promise!Next
<1>3. CASE Administer \/ UNCHANGED vars
    <2>1. UNCHANGED <<run, toolAudits>>
        BY <1>3 DEF Administer, Refresh, Grant, vars, tables
    <2>2. UNCHANGED <<phaseBar, roundsBar, cleanBar>>
        BY <2>1 DEF phaseBar, roundsBar, cleanBar, Unrefused
    <2> QED
        BY <1>1, <2>2
<1> QED
    BY <1>2, <1>3 DEF Next

\* runChat implements AgentLoop: at most MaxToolIterations rounds, no provider
\* call after a refused tool call, one way from opening to closing.
THEOREM ImplementsAgentLoop == Spec => KeepsPromise
<1>1. Spec => []TypeInv
    BY TypeInit, TypeStep, PTL DEF Spec
<1>2. Init => LoopInv
    <2> SUFFICES ASSUME Init, NEW r \in Runs PROVE LoopOK(r)
        BY DEF LoopInv
    <2>1. run[r].pc = "arrived" /\ toolAudits[r] = <<>>
        BY DEF Init
    <2> QED
        BY <2>1 DEF LoopOK, Unrefused, Phase
<1>3. Spec => []LoopInv
    BY <1>1, <1>2, LoopNext, PTL DEF Spec
<1> QED
    BY <1>1, <1>3, PromiseInit, PromiseStep, PTL DEF Spec, KeepsPromise, Promise!Spec
=============================================================================
