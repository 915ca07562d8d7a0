---------------------------- MODULE AdminControl ----------------------------
(***************************************************************************)
(* How a change of the tenant's mandatory retention mode reaches the chat  *)
(* runtime.  Admin routes and forms write rows of retention_policies and   *)
(* platform_plugin_installations and then call refreshAdminState, which    *)
(* reads a snapshot of the database, builds an admin state from it and     *)
(* publishes that state to the services all chat requests use.  Every      *)
(* await of a handler lets the steps of other handlers in between, and     *)
(* every awaited call may throw.  The database is a server, which runs     *)
(* statement after statement, or the memory of the process, where a call   *)
(* reads and writes in one step.                                           *)
(***************************************************************************)
EXTENDS Naturals, Sequences, FiniteSetsExt

CONSTANTS
    Handlers,       \* admin requests that can be on their way at once
    Calls,          \* what an administrator may ask for
    MaxBundles      \* bound: policy bundles ever installed

Modes == {"retained", "limited", "ephemeral"}

Stored == Modes \cup {"none"}

CallType ==
    [kind : {"retention", "install", "toggle", "approve", "other"},
     mode : Stored, enabled : BOOLEAN]

ASSUME AdminAssumption ==
    /\ Calls \subseteq CallType /\ Calls # {}
    /\ MaxBundles \in Nat

\* What policyBundle leaves of a manifest: a mode, or none for what is no mode.
Bundle == [mode : Stored, enabled : BOOLEAN]

Places == {"idle", "select", "write", "audit", "snapshot", "build"}

VARIABLES
    policies,       \* mandatory modes of the tenant's retention_policies rows
    bundles,        \* policy bundles of the tenant, oldest first
    published,      \* mandatoryRetentionMode of the tenant policy document
    handler,        \* the local state of each request
    memory,         \* whether the database is in memory
    serial,         \* whether clients make one request at a time
    moved,          \* history: handlers whose snapshot a write has overtaken
    settled,        \* history: last publication undisturbed, no write since
    failed          \* history: a request failed and no such refresh followed

vars == <<policies, bundles, published, handler, memory, serial, moved, settled, failed>>

fixed == <<memory, serial>>

history == <<fixed, moved, settled, failed>>

HandlerType ==
    [ pc       : Places,
      call     : Calls,
      row      : Nat,                   \* row found by the select; 0: none
      kept     : BOOLEAN,               \* its enabled flag
      waiting  : SUBSET {"policies", "bundles"},    \* queries still running
      policies : Seq(Stored),           \* what the snapshot has read
      bundles  : Seq(Bundle) ]

TypeOK ==
    /\ policies \in Seq(Stored)
    /\ bundles \in Seq(Bundle)
    /\ published \in Stored
    /\ handler \in [Handlers -> HandlerType]
    /\ memory \in BOOLEAN
    /\ serial \in BOOLEAN
    /\ moved \subseteq Handlers
    /\ settled \in BOOLEAN
    /\ failed \in BOOLEAN

----------------------------------------------------------------------------
(* buildAdminState, as far as the mandatory mode goes.                     *)

\* The last enabled bundle that names a mode.
BundleMode(bs) ==
    LET naming == {i \in 1..Len(bs) : bs[i].enabled /\ bs[i].mode # "none"}
    IN  IF naming = {} THEN "none" ELSE bs[Max(naming)].mode

\* A bundle takes the place of the retention policy, it does not add to it.
Build(ps, bs) ==
    IF BundleMode(bs) # "none" THEN BundleMode(bs)
    ELSE IF ps = <<>> THEN "none"
    ELSE ps[1]

----------------------------------------------------------------------------
At(h, place) == handler[h].pc = place

InFlight == {h \in Handlers : ~At(h, "idle")}

Goto(h, place) == handler' = [handler EXCEPT ![h].pc = place]

\* Every write overtakes the snapshots being taken or built from.
Overtake ==
    /\ moved' = moved \cup {h \in Handlers : handler[h].pc \in {"snapshot", "build"}}
    /\ settled' = FALSE
    /\ UNCHANGED <<fixed, failed>>

\* A handler between two requests; its old local state is gone.
Idle ==
    [ pc |-> "idle", call |-> CHOOSE call \in Calls : TRUE, row |-> 0,
      kept |-> FALSE, waiting |-> {}, policies |-> <<>>,
      bundles |-> <<>> ]

Init ==
    /\ policies \in {<<>>} \cup {<<m>> : m \in Stored}
    /\ bundles = <<>>
    /\ published = Build(policies, bundles)
    /\ handler = [h \in Handlers |-> Idle]
    /\ memory \in BOOLEAN
    /\ serial \in BOOLEAN
    /\ moved = {}
    /\ settled = TRUE
    /\ failed = FALSE

\* Nothing in the code keeps requests apart; a single patient client does.
Begin(h, call) ==
    /\ At(h, "idle")
    /\ serial => InFlight = {}
    /\ call.kind = "install" => Len(bundles) + Cardinality(InFlight) < MaxBundles
    /\ handler' = [handler EXCEPT ![h].call = call, ![h].pc =
                     CASE call.kind = "install" -> "write"
                       [] call.kind = "other"   -> "snapshot"
                       [] OTHER                 -> "select"]
    /\ UNCHANGED <<policies, bundles, published, history>>

\* The route has authorised the user and validated the body.
Arrive(h, call) == Begin(h, call)

\* A form of the page installs what is enabled and switches; it approves nothing.
ArriveForm(h, call) ==
    /\ call.kind \in {"install", "toggle"}
    /\ call.kind = "install" => call.enabled
    /\ Begin(h, call)

\* select ... limit 1: whichever live row of the tenant comes first.
SelectPolicy(h) ==
    /\ At(h, "select")
    /\ ~memory
    /\ handler[h].call.kind = "retention"
    /\ \E row \in IF policies = <<>> THEN {0} ELSE 1..Len(policies) :
         handler' = [handler EXCEPT ![h].row = row, ![h].pc = "write"]
    /\ UNCHANGED <<policies, bundles, published, history>>

\* The bundle named by the request, if it exists, with its enabled flag.
SelectBundle(h) ==
    /\ At(h, "select")
    /\ handler[h].call.kind \in {"toggle", "approve"}
    /\ \/ handler' = [handler EXCEPT ![h].row = 0, ![h].pc = "audit"]
       \/ \E row \in 1..Len(bundles) :
            /\ ~memory
            /\ handler' = [handler EXCEPT ![h].row = row, ![h].pc = "write",
                                          ![h].kept = bundles[row].enabled]
    /\ UNCHANGED <<policies, bundles, published, history>>

Upserted(row, mode) ==
    IF row = 0 THEN Append(policies, mode) ELSE [policies EXCEPT ![row] = mode]

\* An approval puts back the flag that was read.
Switched(row, call, kept) ==
    [bundles EXCEPT ![row].enabled = IF call.kind = "toggle" THEN call.enabled ELSE kept]

\* update ... where id, or insert when the select found nothing.
WritePolicy(h) ==
    /\ At(h, "write")
    /\ handler[h].call.kind = "retention"
    /\ policies' = Upserted(handler[h].row, handler[h].call.mode)
    /\ Goto(h, "snapshot")
    /\ Overtake
    /\ UNCHANGED <<bundles, published>>

InsertBundle(h) ==
    /\ At(h, "write")
    /\ handler[h].call.kind = "install"
    /\ bundles' = Append(bundles, [mode    |-> handler[h].call.mode,
                                   enabled |-> handler[h].call.enabled])
    /\ Goto(h, "audit")
    /\ Overtake
    /\ UNCHANGED <<policies, published>>

\* The update writes every column.
UpdateBundle(h) ==
    /\ At(h, "write")
    /\ handler[h].call.kind \in {"toggle", "approve"}
    /\ bundles' = Switched(handler[h].row, handler[h].call, handler[h].kept)
    /\ Goto(h, "audit")
    /\ Overtake
    /\ UNCHANGED <<policies, published>>

\* In memory the row is found, the first there is, and written in one step.
UpsertInMemory(h) ==
    /\ At(h, "select")
    /\ memory
    /\ handler[h].call.kind = "retention"
    /\ policies' = Upserted(IF policies = <<>> THEN 0 ELSE 1, handler[h].call.mode)
    /\ Goto(h, "snapshot")
    /\ Overtake
    /\ UNCHANGED <<bundles, published>>

UpdateInMemory(h) ==
    /\ At(h, "select")
    /\ memory
    /\ handler[h].call.kind \in {"toggle", "approve"}
    /\ \E row \in 1..Len(bundles) :
         bundles' = Switched(row, handler[h].call, bundles[row].enabled)
    /\ Goto(h, "audit")
    /\ Overtake
    /\ UNCHANGED <<policies, published>>

\* Mutated form: the bundle routes return without a refresh.
AuditChangeBug(h) ==
    /\ At(h, "audit")
    /\ Goto(h, "idle")
    /\ UNCHANGED <<policies, bundles, published, history>>

\* createAudit of the bundle routes.
AuditChange(h) ==
    /\ At(h, "audit")
    /\ Goto(h, "snapshot")
    /\ UNCHANGED <<policies, bundles, published, history>>

----------------------------------------------------------------------------
(* refreshAdminState.                                                      *)

\* Promise.all sends all queries of the snapshot; each reads when it is run.
\* What the request asked for matters no more.
SendQueries(h) ==
    /\ At(h, "snapshot")
    /\ ~memory
    /\ handler' = [handler EXCEPT ![h] =
         [Idle EXCEPT !.pc = "build", !.waiting = {"policies", "bundles"}]]
    /\ moved' = moved \ {h}
    /\ UNCHANGED <<policies, bundles, published, fixed, settled, failed>>

\* In memory the snapshot is a copy of everything, made at once.
CopyTables(h) ==
    /\ At(h, "snapshot")
    /\ memory
    /\ handler' = [handler EXCEPT ![h] =
         [Idle EXCEPT !.pc = "build", !.policies = policies, !.bundles = bundles]]
    /\ moved' = moved \ {h}
    /\ UNCHANGED <<policies, bundles, published, fixed, settled, failed>>

ReadPolicies(h) ==
    /\ At(h, "build")
    /\ "policies" \in handler[h].waiting
    /\ handler' = [handler EXCEPT ![h].policies = policies,
                                  ![h].waiting = @ \ {"policies"}]
    /\ UNCHANGED <<policies, bundles, published, history>>

ReadBundles(h) ==
    /\ At(h, "build")
    /\ "bundles" \in handler[h].waiting
    /\ handler' = [handler EXCEPT ![h].bundles = bundles,
                                  ![h].waiting = @ \ {"bundles"}]
    /\ UNCHANGED <<policies, bundles, published, history>>

\* Mutated form: the new services are published before all rows are there.
PublishBug(h) ==
    /\ At(h, "build")
    /\ "policies" \notin handler[h].waiting
    /\ published' = Build(handler[h].policies, handler[h].bundles)
    /\ handler' = [handler EXCEPT ![h] = Idle]
    /\ settled' = (h \notin moved)
    /\ failed' = (failed /\ h \in moved)
    /\ UNCHANGED <<policies, bundles, fixed, moved>>

\* Tool lists and credentials have been awaited; one block replaces it all.
Publish(h) ==
    /\ At(h, "build")
    /\ handler[h].waiting = {}
    /\ published' = Build(handler[h].policies, handler[h].bundles)
    /\ handler' = [handler EXCEPT ![h] = Idle]
    /\ settled' = (h \notin moved)
    /\ failed' = (failed /\ h \in moved)
    /\ UNCHANGED <<policies, bundles, fixed, moved>>

\* An awaited call throws; what was written stays.
Fail(h) ==
    /\ h \in InFlight
    /\ handler' = [handler EXCEPT ![h] = Idle]
    /\ failed' = TRUE
    /\ UNCHANGED <<policies, bundles, published, fixed, moved, settled>>

Advance(h) ==
    \/ SelectPolicy(h) \/ SelectBundle(h) \/ WritePolicy(h) \/ InsertBundle(h)
    \/ UpdateBundle(h) \/ UpsertInMemory(h) \/ UpdateInMemory(h) \/ AuditChange(h)
    \/ SendQueries(h) \/ CopyTables(h) \/ ReadPolicies(h) \/ ReadBundles(h)
    \/ Publish(h) \/ Fail(h)

Next ==
    \E h \in Handlers :
        \/ \E call \in Calls : Arrive(h, call) \/ ArriveForm(h, call)
        \/ Advance(h)

Spec == Init /\ [][Next]_vars

\* An awaited call of a handler settles, one way or the other.
FairSpec == Spec /\ \A h \in Handlers : WF_vars(Advance(h))

----------------------------------------------------------------------------
(* Properties.                                                             *)

InForce == Build(policies, bundles)

Quiet == InFlight = {} /\ ~failed

\* However handlers overlap: once a refresh has run from its queries to its
\* publication without a write in between, what it published is what the
\* database says, and it stays so until the next write or publication.
\* Requests one at a time leave a tenant one retention policy row, and in
\* memory any requests do, so the row an update reaches is the one
\* buildAdminState finds.
UndisturbedIsCurrent ==
    /\ TypeOK
    /\ settled => published = InForce
    /\ serial \/ memory => Len(policies) <= 1

\* Requests one at a time implement Settings: only current, whole copies are
\* published.  Of overlapping requests the mapping shows nothing.
Register == INSTANCE Settings WITH
    Values <- Stored,
    stored <- IF serial THEN InForce ELSE "none",
    effective <- IF serial THEN published ELSE "none"

ImplementsSettings == Register!Spec

\* Requests one at a time: one that has written takes effect, or its caller
\* sees an error.
WriteTakesEffect ==
    \A h \in Handlers :
        serial /\ handler[h].pc \in {"audit", "snapshot"}
            ~> published = InForce \/ failed

AllowsRetained == published \in {"none", "retained"}

\* A tenant policy that mandates ephemeral prevents retained conversations:
\* every request that was made has returned, no bundle is installed, and the
\* only policy row there is says ephemeral.
MandatoryPreventsRetained ==
    Quiet /\ bundles = <<>> /\ policies = <<"ephemeral">> => ~AllowsRetained

\* The same when bundles are installed: of two mandatory modes the stricter
\* one wins.  What is published is current.
BundleKeepsMandatory ==
    settled /\ policies = <<"ephemeral">> => ~AllowsRetained
=============================================================================
