------------------------------ MODULE Startup ------------------------------
(***************************************************************************)
(* The start of a process on a database that outlives it: getRuntime       *)
(* (apps/web/src/lib/runtime.ts) keeps the promise of the first            *)
(* createPostgresRuntime (packages/runtime), which seeds what the platform *)
(* needs, one record after the other, each time by looking for it and then *)
(* writing it, and then builds the administrative state, for which it asks *)
(* servers and constructs providers that administrators have stored.       *)
(* Processes are restarted, fail and start side by side; administrators    *)
(* change what was seeded.  The second statement with which a prompt       *)
(* fragment is created is in PromptStore, what a later refresh does in     *)
(* PluginAdmin and ProviderAdmin.                                          *)
(***************************************************************************)
EXTENDS Naturals, Sequences

CONSTANTS
    Procs,          \* processes on one database
    Changes,        \* bound: sets of what administrators may change, one in each behaviour
    MaxFaults       \* bound: failing calls and stops of processes

\* What is seeded, in the order of the calls.
Seeds ==
    << "tenant", "devUser", "membership", "identityProvider",
       "mockProvider", "mockChat", "mockChatFast",
       "tenantPrompt", "userPrompt", "readContext", "dangerousAction" >>

Things == {Seeds[i] : i \in 1..Len(Seeds)}

\* slug and email are UNIQUE: a second row is an error.
Unique == {"tenant", "devUser"}

\* The primary key is fixed: on conflict the row stays as it is.
Keyed == {"mockProvider", "mockChat", "mockChatFast"}

Prompts == {"tenantPrompt", "userPrompt"}

\* What administrators can disable, and what they can delete.
Switchable == Keyed \cup Prompts

Deletable == {"mockProvider"} \cup Prompts

\* Enabled rows on which a start can founder: a server that is asked for its
\* tools over HTTP, which has no timeout, and a provider with a key and a model
\* whose base URL the constructor does not accept; the routes store either.
ExternalRows == {"httpServer", "malformedProvider"}

ASSUME StartupAssumption ==
    /\ Changes \subseteq SUBSET (Switchable \cup ExternalRows)
    /\ MaxFaults \in Nat

VARIABLES
    rows,           \* the rows of each seeded thing, oldest first
    stored,         \* which of ExternalRows there are, enabled
    promise,        \* runtimePromise of each process
    next,           \* the seed each starting process is at
    found,          \* what its last look returned; "unread" before it
    ahead,          \* which of ExternalRows its snapshot has and it has not passed
    faults,
    touched,        \* which of Changes administrators make
    serial,         \* whether an operator starts one process at a time
    wish            \* history: what an administrator last made of a thing between
                    \* starts that come one at a time

vars == <<rows, stored, promise, next, found, ahead, faults, touched, serial, wish>>

RowState == {"on", "off", "deleted"}

TypeOK ==
    /\ rows \in [Things -> Seq(RowState)]
    /\ promise \in [Procs -> {"none", "pending", "ready", "rejected"}]
    /\ stored \subseteq ExternalRows
    /\ next \in [Procs -> 1..(Len(Seeds) + 2)]
    /\ found \in [Procs -> {"unread", "yes", "no"}]
    /\ ahead \in [Procs -> SUBSET ExternalRows]
    /\ faults \in 0..MaxFaults
    /\ touched \in Changes /\ serial \in BOOLEAN
    /\ wish \in [Things -> RowState]

Init ==
    /\ rows = [t \in Things |-> <<>>]
    /\ promise = [p \in Procs |-> "none"]
    /\ next = [p \in Procs |-> 1]
    /\ found = [p \in Procs |-> "unread"]
    /\ stored = {}
    /\ ahead = [p \in Procs |-> {}]
    /\ faults = 0
    /\ touched \in Changes /\ serial \in BOOLEAN
    /\ wish = [t \in Things |-> "on"]

----------------------------------------------------------------------------
(* Starting.                                                               *)

Starting(p) == promise[p] = "pending" /\ next[p] <= Len(Seeds)

Seed(p) == Seeds[next[p]]

\* The first request of a process; later ones get the same promise.  Nothing
\* in the code keeps the starts of two processes apart.
GetRuntime(p) ==
    /\ promise[p] = "none"
    /\ serial => \A q \in Procs : promise[q] # "pending"
    /\ promise' = [promise EXCEPT ![p] = "pending"]
    /\ next' = [next EXCEPT ![p] = 1]
    /\ found' = [found EXCEPT ![p] = "unread"]
    /\ UNCHANGED <<rows, stored, ahead, faults, touched, serial, wish>>

\* Mutated form: a row that is disabled does not count.
PresentBug(thing) == \E i \in 1..Len(rows[thing]) : rows[thing][i] = "on"

\* Every look leaves out what was deleted.
Present(thing) == \E i \in 1..Len(rows[thing]) : rows[thing][i] # "deleted"

\* Mutated form: the tenant is inserted without a look.
LookBug(p) ==
    /\ Starting(p)
    /\ Seed(p) \notin Keyed
    /\ found[p] = "unread"
    /\ found' = [found EXCEPT ![p] =
                   IF Present(Seed(p)) /\ Seed(p) # "tenant" THEN "yes" ELSE "no"]
    /\ UNCHANGED <<rows, stored, promise, next, ahead, faults, touched, serial, wish>>

\* The select of an upsert, or the snapshot an ensure function searches.
Look(p) ==
    /\ Starting(p)
    /\ Seed(p) \notin Keyed
    /\ found[p] = "unread"
    /\ found' = [found EXCEPT ![p] = IF Present(Seed(p)) THEN "yes" ELSE "no"]
    /\ UNCHANGED <<rows, stored, promise, next, ahead, faults, touched, serial, wish>>

GoOn(p) ==
    /\ next' = [next EXCEPT ![p] = @ + 1]
    /\ found' = [found EXCEPT ![p] = "unread"]
    /\ UNCHANGED <<stored, promise, ahead, faults, touched, serial, wish>>

Add(thing) == rows' = [rows EXCEPT ![thing] = Append(@, "on")]

\* Nothing to insert: the row found is kept, or updated from the
\* configuration, which changes nothing that is modelled here.
Keep(p) ==
    /\ Starting(p)
    /\ found[p] = "yes"
    /\ GoOn(p)
    /\ UNCHANGED rows

Insert(p) ==
    /\ Starting(p)
    /\ found[p] = "no"
    /\ Seed(p) \in Unique => rows[Seed(p)] = <<>>
    /\ Add(Seed(p))
    /\ GoOn(p)

\* The start ends, with its promise in the given state.
End(p, state) ==
    /\ promise' = [promise EXCEPT ![p] = state]
    /\ next' = [next EXCEPT ![p] = 1]
    /\ found' = [found EXCEPT ![p] = "unread"]
    /\ ahead' = [ahead EXCEPT ![p] = {}]
    /\ UNCHANGED <<rows, stored, touched, serial, wish>>

\* Another process has inserted the row since the look.
Collide(p) ==
    /\ Starting(p)
    /\ found[p] = "no"
    /\ Seed(p) \in Unique
    /\ rows[Seed(p)] # <<>>
    /\ End(p, "rejected")
    /\ UNCHANGED faults

\* Mutated form: on conflict the row is set to what the seed says.
InsertKeyedBug(p) ==
    /\ Starting(p)
    /\ Seed(p) \in Keyed
    /\ rows' = [rows EXCEPT ![Seed(p)] = <<"on">>]
    /\ GoOn(p)

\* insert ... on conflict (id) do update set updated_at = updated_at.
InsertKeyed(p) ==
    /\ Starting(p)
    /\ Seed(p) \in Keyed
    /\ IF rows[Seed(p)] = <<>> THEN Add(Seed(p)) ELSE UNCHANGED rows
    /\ GoOn(p)

\* createRuntimeBundle refreshes the administrative state: the snapshot ...
ReadState(p) ==
    /\ promise[p] = "pending"
    /\ next[p] = Len(Seeds) + 1
    /\ next' = [next EXCEPT ![p] = Len(Seeds) + 2]
    /\ ahead' = [ahead EXCEPT ![p] = stored]
    /\ UNCHANGED <<rows, stored, promise, found, faults, touched, serial, wish>>

\* ... the tools of every server, which may never come ...
Waiting(p) == "httpServer" \in ahead[p]

Answer(p) ==
    /\ Waiting(p)
    /\ ahead' = [ahead EXCEPT ![p] = @ \ {"httpServer"}]
    /\ UNCHANGED <<rows, stored, promise, next, found, faults, touched, serial, wish>>

\* ... and every provider, of which one throws.
Reject(p) ==
    /\ ahead[p] = {"malformedProvider"}
    /\ End(p, "rejected")
    /\ UNCHANGED faults

Ready(p) ==
    /\ promise[p] = "pending"
    /\ next[p] = Len(Seeds) + 2
    /\ ahead[p] = {}
    /\ End(p, "ready")
    /\ UNCHANGED faults

\* A call to the database throws: the promise is rejected, and stays it.
Fail(p) ==
    /\ promise[p] = "pending"
    /\ faults < MaxFaults
    /\ faults' = faults + 1
    /\ End(p, "rejected")

\* The process stops, wherever it is, and is started again.
Crash(p) ==
    /\ promise[p] # "none"
    /\ faults < MaxFaults
    /\ faults' = faults + 1
    /\ End(p, "none")

\* An operator restarts a process that only answers with errors.
Restart(p) ==
    /\ promise[p] = "rejected"
    /\ End(p, "none")
    /\ UNCHANGED faults

Boot(p) ==
    \/ GetRuntime(p) \/ Look(p) \/ Keep(p) \/ Insert(p) \/ Collide(p)
    \/ InsertKeyed(p) \/ ReadState(p) \/ Reject(p) \/ Ready(p)

----------------------------------------------------------------------------
(* Administrators, through any process that is up.                         *)

Up == \E p \in Procs : promise[p] = "ready"

\* The update names one row that is not deleted.
Switch(thing, i, to) ==
    /\ Up
    /\ i \in 1..Len(rows[thing])
    /\ rows[thing][i] \notin {"deleted", to}
    /\ to = "deleted" => thing \in Deletable
    /\ rows' = [rows EXCEPT ![thing][i] = to]
    /\ wish' = IF serial THEN [wish EXCEPT ![thing] = to] ELSE wish
    /\ UNCHANGED <<stored, promise, next, found, ahead, faults, touched, serial>>

\* The plugin and provider routes write the rows before the refresh that
\* meets them; those that disable or delete need a process that is up, too.
StoreExternal(e) ==
    /\ Up
    /\ e \notin stored
    /\ stored' = stored \cup {e}
    /\ UNCHANGED <<rows, promise, next, found, ahead, faults, touched, serial, wish>>

RemoveExternal(e) ==
    /\ Up
    /\ e \in stored
    /\ stored' = stored \ {e}
    /\ UNCHANGED <<rows, promise, next, found, ahead, faults, touched, serial, wish>>

Administer ==
    \/ \E e \in touched \cap ExternalRows : StoreExternal(e) \/ RemoveExternal(e)
    \/ \E thing \in touched \cap Switchable, to \in RowState :
          \E i \in 1..Len(rows[thing]) : Switch(thing, i, to)

Next ==
    \/ \E p \in Procs : Boot(p) \/ Answer(p) \/ Fail(p) \/ Crash(p) \/ Restart(p)
    \/ Administer

Spec == Init /\ [][Next]_vars

\* Calls to the database settle, requests keep coming, and somebody restarts a
\* process that only answers with errors.  A server need not answer.
FairSpec == Spec /\ \A p \in Procs : WF_vars(Boot(p)) /\ WF_vars(Restart(p))

----------------------------------------------------------------------------
(* Properties.                                                             *)

\* Of tenant, user, provider and models there is one row, however many
\* processes start at once.  Starts one at a time: whoever starts next, after
\* others have stopped or failed at any step, finds what they had seeded, and
\* nothing at all is there twice.  Requests are served only when everything is
\* there.
SeededOnce ==
    /\ TypeOK
    /\ Up => \A t \in Things : rows[t] # <<>>
    /\ \A t \in Unique \cup Keyed : Len(rows[t]) <= 1
    /\ serial => \A t \in Things : \A i, j \in 1..Len(rows[t]) :
          rows[t][i] # "deleted" /\ rows[t][j] # "deleted" => i = j

\* Starts one at a time: what an administrator has disabled, none brings back.
AdministratorDecides ==
    serial => \A t \in Things :
        wish[t] = "off" => \A i \in 1..Len(rows[t]) : rows[t][i] # "on"

\* However the starts of processes fail, stop and collide, what they leave
\* behind does not keep a later start from succeeding.  What administrators
\* leave behind does: the claim is for servers that answer whoever waits for
\* them, and for a database without a malformed provider from some time on,
\* for while there is one no start succeeds, and only a process that is up can
\* remove it.
AllServe ==
    /\ \A p \in Procs : []<>~Waiting(p)
    /\ <>[]("malformedProvider" \notin stored)
    => \A p \in Procs : <>[](promise[p] = "ready")
=============================================================================
