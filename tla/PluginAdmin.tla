---------------------------- MODULE PluginAdmin ----------------------------
(***************************************************************************)
(* How tool plugins come into and out of service.  POST /api/plugins and   *)
(* a form of the page write a server, an installation and one permission   *)
(* per tool; PATCH /api/plugins/:id and another form switch an             *)
(* installation, the form with an audit event.  Each ends with a refresh   *)
(* that reads servers and installations, asks every enabled plugin in turn *)
(* for its tools, and publishes the gateway that results.  A plugin may    *)
(* fail to answer, and one behind HTTP may never answer.  The database is  *)
(* a server or the memory of the process.                                  *)
(***************************************************************************)
EXTENDS Naturals, SequencesExt

CONSTANTS
    Handlers,       \* admin requests that can be on their way at once
    Plugins,        \* what is installed, each by one request
    Scopes,         \* scopes a request may name for each plugin
    Tools,
    MockTools,      \* tools every gateway has
    Offers,         \* the tools each plugin lists
    Asked,          \* toolIds of the request that installs it
    Flaky,          \* plugins whose listing may fail
    Hanging,        \* plugins that may never answer
    Switches        \* what PATCH may ask for

None == "none"

Mock == "mock"

ASSUME PluginAssumption ==
    /\ Scopes \in [Plugins -> SUBSET {"tenant", "user"}]
    /\ MockTools \subseteq Tools
    /\ Offers \in [Plugins -> SUBSET Tools]
    /\ \A p \in Plugins : Asked[p] \in Seq(Tools)
    /\ Flaky \subseteq Plugins
    /\ Hanging \subseteq Plugins
    /\ Switches \subseteq {"on", "off", "keep"}
    /\ {None, Mock} \cap Plugins = {}

VARIABLES
    servers,        \* mcp_servers
    rows,           \* plugin_installations, oldest first
    permissions,    \* tool_permissions, by tool
    audits,         \* plugins whose installation has an admin.changed event
    gateway,        \* who executes each tool in the published gateway
    handler,        \* the local state of each request
    memory,         \* whether the database is in memory
    serial,         \* whether clients make one request at a time
    failed          \* history: one of serial requests failed, no refresh followed

vars == <<servers, rows, permissions, audits, gateway, handler, memory, serial, failed>>

fixed == <<memory, serial>>

history == <<fixed, failed>>

Row == [plugin : Plugins, scope : {"tenant", "user"}, enabled : BOOLEAN]

Gateway == [Tools -> Plugins \cup {Mock, None}]

Places == {"idle", "server", "installation", "permissions", "audit",
           "select", "update", "query", "list"}

HandlerType ==
    [ pc      : Places,
      plugin  : Plugins \cup {None},
      change  : {"install", "on", "off", "keep", "none"},
      scope   : {"tenant", "user"},
      form    : BOOLEAN,                \* a switch from the page
      asked   : Seq(Tools),             \* permissions still to be written
      enabled : BOOLEAN,                \* what the update writes
      waiting : SUBSET {"servers", "rows"},     \* queries still running
      servers : SUBSET Plugins,
      rows    : SUBSET Nat,             \* installations in service, by position
      listing : SUBSET Nat,             \* those whose plugin is still to be asked
      built   : Gateway ]

TypeOK ==
    /\ servers \subseteq Plugins
    /\ rows \in Seq(Row)
    /\ permissions \subseteq Tools
    /\ audits \subseteq Plugins
    /\ gateway \in Gateway
    /\ handler \in [Handlers -> HandlerType]
    /\ memory \in BOOLEAN
    /\ serial \in BOOLEAN
    /\ failed \in BOOLEAN

----------------------------------------------------------------------------
(* The gateway buildAdminState makes.                                      *)

OnlyMocks == [t \in Tools |-> IF t \in MockTools THEN Mock ELSE None]

\* A tool takes the place of a tool with the same id.
Register(built, p) == [t \in Tools |-> IF t \in Offers[p] THEN p ELSE built[t]]

\* Mutated form: the enabled flag is not looked at.
InServiceBug(row) == row.scope = "tenant"

\* Installations of users are never registered.
InService(row) == row.enabled /\ row.scope = "tenant"

\* An installation keeps its position and its plugin, so positions tell what a
\* query returned; whether it is in service is as of the query.
ActiveInstallations == {i \in 1..Len(rows) : InService(rows[i])}

----------------------------------------------------------------------------
At(h, place) == handler[h].pc = place

IsIdle(h) == At(h, "idle")

Idle ==
    [ pc |-> "idle", plugin |-> None, change |-> "none", scope |-> "tenant",
      form |-> FALSE, asked |-> <<>>, enabled |-> FALSE, waiting |-> {}, servers |-> {},
      rows |-> {}, listing |-> {}, built |-> OnlyMocks ]

Init ==
    /\ servers = {}
    /\ rows = <<>>
    /\ permissions = {}
    /\ audits = {}
    /\ gateway = OnlyMocks
    /\ handler = [h \in Handlers |-> Idle]
    /\ memory \in BOOLEAN
    /\ serial \in BOOLEAN
    /\ failed = FALSE

Goto(h, place) == handler' = [handler EXCEPT ![h].pc = place]

\* The snapshot's queries are sent all at once; of the request only what it has
\* installed matters from here on.
SendQueries(local) ==
    [Idle EXCEPT !.pc = "query", !.waiting = {"servers", "rows"},
                 !.plugin = IF local.change = "install" THEN local.plugin ELSE None]

----------------------------------------------------------------------------
(* POST /api/plugins, createMcpInstallationAction.                         *)

\* Bound: each plugin gets one server, whose installation is not asked for again.
Install(h, p, scope) ==
    /\ IsIdle(h)
    /\ p \notin servers
    /\ \A g \in Handlers : ~(At(g, "server") /\ handler[g].plugin = p)
    /\ handler' = [handler EXCEPT ![h] =
                     [Idle EXCEPT !.pc = "server", !.plugin = p, !.change = "install",
                                  !.scope = scope, !.asked = Asked[p]]]
    /\ UNCHANGED <<servers, rows, permissions, audits, gateway, history>>

ArriveInstall(h, p) == \E scope \in Scopes[p] : Install(h, p, scope)

\* The form knows no scope but the tenant's.
ArriveInstallForm(h, p) == Install(h, p, "tenant")

CreateMcpServer(h) ==
    /\ At(h, "server")
    /\ servers' = servers \cup {handler[h].plugin}
    /\ Goto(h, "installation")
    /\ UNCHANGED <<rows, permissions, audits, gateway, history>>

\* The loop over toolIds ends when none is left.
Granting(local) ==
    [local EXCEPT !.pc = IF local.asked = <<>> THEN "audit" ELSE "permissions"]

CreateInstallation(h) ==
    /\ At(h, "installation")
    /\ rows' = Append(rows, [plugin |-> handler[h].plugin, scope |-> handler[h].scope,
                             enabled |-> TRUE])
    /\ handler' = [handler EXCEPT ![h] = Granting([@ EXCEPT !.scope = "tenant"])]
    /\ UNCHANGED <<servers, permissions, audits, gateway, history>>

\* The first tool that was left has its permission.
Granted(local) == Granting([local EXCEPT !.asked = Tail(@)])

\* Mutated form: the last tool of the request is left out.
CreatePermissionBug(h) ==
    /\ At(h, "permissions")
    /\ permissions' = IF Len(handler[h].asked) = 1 THEN permissions
                      ELSE permissions \cup {Head(handler[h].asked)}
    /\ handler' = [handler EXCEPT ![h] = Granted(@)]
    /\ UNCHANGED <<servers, rows, audits, gateway, history>>

\* One iteration of the loop over toolIds.
CreatePermission(h) ==
    /\ At(h, "permissions")
    /\ permissions' = permissions \cup {Head(handler[h].asked)}
    /\ handler' = [handler EXCEPT ![h] = Granted(@)]
    /\ UNCHANGED <<servers, rows, audits, gateway, history>>

AuditInstall(h) ==
    /\ At(h, "audit")
    /\ handler[h].change = "install"
    /\ audits' = audits \cup {handler[h].plugin}
    /\ handler' = [handler EXCEPT ![h] = SendQueries(@)]
    /\ UNCHANGED <<servers, rows, permissions, gateway, history>>

----------------------------------------------------------------------------
(* PATCH /api/plugins/:id, toggleMcpInstallationAction.                    *)

Switch(h, p, to, form) ==
    /\ IsIdle(h)
    /\ handler' = [handler EXCEPT ![h] =
                     [Idle EXCEPT !.pc = "select", !.plugin = p, !.change = to, !.form = form]]
    /\ UNCHANGED <<servers, rows, permissions, audits, gateway, history>>

ArriveSwitch(h, p, to) == Switch(h, p, to, FALSE)

\* A form without the flag switches off.
ArriveSwitchForm(h, p, to) == Switch(h, p, IF to = "keep" THEN "off" ELSE to, TRUE)

AfterSwitch(local) ==
    IF local.form THEN [Idle EXCEPT !.pc = "audit", !.form = TRUE] ELSE SendQueries(local)

RowOf(p) == {i \in 1..Len(rows) : rows[i].plugin = p}

IsEnabled(p) == \E i \in RowOf(p) : rows[i].enabled

\* input.enabled ?? current.enabled
Enabled(local) ==
    IF local.change = "keep" THEN IsEnabled(local.plugin) ELSE local.change = "on"

\* Without a row nothing is written, and the refresh follows nevertheless.
SelectInstallation(h) ==
    /\ At(h, "select")
    /\ ~memory
    /\ handler' = [handler EXCEPT ![h] =
                     IF RowOf(@.plugin) = {} THEN AfterSwitch(@)
                     ELSE [@ EXCEPT !.pc = "update", !.change = "none",
                                    !.enabled = Enabled(handler[h])]]
    /\ UNCHANGED <<servers, rows, permissions, audits, gateway, history>>

Update(h, enabled) ==
    /\ rows' = [i \in 1..Len(rows) |->
                  IF i \in RowOf(handler[h].plugin)
                  THEN [rows[i] EXCEPT !.enabled = enabled]
                  ELSE rows[i]]
    /\ handler' = [handler EXCEPT ![h] = AfterSwitch(@)]
    /\ UNCHANGED <<servers, permissions, audits, gateway, history>>

UpdateInstallation(h) == At(h, "update") /\ Update(h, handler[h].enabled)

UpdateInMemory(h) ==
    At(h, "select") /\ memory /\ Update(h, Enabled(handler[h]))

\* Of these events none is told apart.
AuditSwitch(h) ==
    /\ At(h, "audit")
    /\ handler[h].form
    /\ handler' = [handler EXCEPT ![h] = SendQueries(@)]
    /\ UNCHANGED <<servers, rows, permissions, audits, gateway, history>>

----------------------------------------------------------------------------
(* refreshAdminState, registerExternalMcpTools.                            *)

\* When its last query has returned, the handler goes on to the listings.
Received(local) ==
    IF local.waiting # {} THEN local
    ELSE [local EXCEPT !.pc = "list",
                       !.listing = {i \in local.rows : rows[i].plugin \in local.servers},
                       !.servers = {}, !.rows = {}, !.plugin = None]

\* What the database answers at once to some of the queries.
Answered(local, tables) ==
    [local EXCEPT !.waiting = @ \ tables,
                  !.servers = IF "servers" \in tables THEN servers ELSE @,
                  !.rows    = IF "rows" \in tables THEN ActiveInstallations ELSE @]

\* The query for servers and the one for installations, or in memory both at once.
ReadTables(h, tables) ==
    /\ tables \subseteq handler[h].waiting
    /\ handler' = [handler EXCEPT ![h] = Received(Answered(@, tables))]
    /\ UNCHANGED <<servers, rows, permissions, audits, gateway, history>>

ReadServers(h) == ~memory /\ ReadTables(h, {"servers"})

ReadInstallations(h) == ~memory /\ ReadTables(h, {"rows"})

CopyTables(h) == memory /\ ReadTables(h, {"servers", "rows"})

\* Plugins are asked in the order of their installations.
NextPlugin(h) == rows[Min(handler[h].listing)].plugin

Listing(h) == At(h, "list") /\ handler[h].listing # {}

ListTools(h) ==
    /\ Listing(h)
    /\ handler' = [handler EXCEPT ![h].built = Register(@, NextPlugin(h)),
                                  ![h].listing = @ \ {Min(@)}]
    /\ UNCHANGED <<servers, rows, permissions, audits, gateway, history>>

\* Mutated form: an error ends the loop.
ListFailsBug(h) ==
    /\ Listing(h)
    /\ NextPlugin(h) \in Flaky
    /\ handler' = [handler EXCEPT ![h].listing = {}]
    /\ UNCHANGED <<servers, rows, permissions, audits, gateway, history>>

\* catch { continue; }
ListFails(h) ==
    /\ Listing(h)
    /\ NextPlugin(h) \in Flaky
    /\ handler' = [handler EXCEPT ![h].listing = @ \ {Min(@)}]
    /\ UNCHANGED <<servers, rows, permissions, audits, gateway, history>>

\* The gateway replaces the one in service, and the request is answered.
Publish(h) ==
    /\ At(h, "list")
    /\ handler[h].listing = {}
    /\ gateway' = handler[h].built
    /\ failed' = FALSE
    /\ handler' = [handler EXCEPT ![h] = Idle]
    /\ UNCHANGED <<servers, rows, permissions, audits, fixed>>

\* A call to the database throws: the request is answered with the error.
Fail(h) ==
    /\ ~IsIdle(h)
    /\ ~Listing(h)
    /\ handler' = [handler EXCEPT ![h] = Idle]
    /\ failed' = serial
    /\ UNCHANGED <<servers, rows, permissions, audits, gateway, fixed>>

----------------------------------------------------------------------------
\* Nothing in the code keeps requests apart; a single patient client does.
Arrive(h) ==
    /\ serial => \A g \in Handlers : IsIdle(g)
    /\ \E p \in Plugins :
         \/ ArriveInstall(h, p)
         \/ ArriveInstallForm(h, p)
         \/ \E to \in Switches : ArriveSwitch(h, p, to) \/ ArriveSwitchForm(h, p, to)

Continue(h) ==
    \/ CreateMcpServer(h) \/ CreateInstallation(h) \/ CreatePermission(h)
    \/ AuditInstall(h)
    \/ SelectInstallation(h) \/ UpdateInstallation(h) \/ UpdateInMemory(h) \/ AuditSwitch(h)
    \/ ReadServers(h) \/ ReadInstallations(h) \/ CopyTables(h)
    \/ ListTools(h) \/ ListFails(h) \/ Publish(h)

Next == \E h \in Handlers : Arrive(h) \/ Continue(h) \/ Fail(h)

Spec == Init /\ [][Next]_vars

\* Calls settle, except those to a plugin that hangs.
Hangs(h) == Listing(h) /\ NextPlugin(h) \in Hanging

FairSpec == Spec /\ \A h \in Handlers : WF_vars(~Hangs(h) /\ Continue(h))

----------------------------------------------------------------------------
(* Properties.                                                             *)

\* Who has to execute a tool when the plugins in silent do not answer.
Executor(t, silent) ==
    LET able == {i \in 1..Len(rows) : /\ rows[i].enabled
                                      /\ rows[i].scope = "tenant"
                                      /\ rows[i].plugin \notin silent
                                      /\ t \in Offers[rows[i].plugin]}
    IN  IF able # {} THEN rows[Max(able)].plugin
        ELSE IF t \in MockTools THEN Mock
        ELSE None

\* One request at a time, and none failed since the last refresh: a tool is
\* executed by the newest enabled plugin that offers it, a plugin that did
\* not answer costs only its own tools, and a mock tool that a plugin had
\* replaced comes back with the end of that plugin.
QuietIsServed ==
    serial /\ (\A h \in Handlers : IsIdle(h)) /\ ~failed =>
        \E silent \in SUBSET Flaky : \A t \in Tools : gateway[t] = Executor(t, silent)

\* Wherever an installation fails, no tool was permitted for a plugin that is
\* not installed; and a request to install that comes to its refresh has
\* installed all of it: the permissions of all its tools and the evidence.
InstalledWhole ==
    /\ TypeOK
    /\ \A t \in permissions : \E i \in 1..Len(rows) :
          t \in Range(Asked[rows[i].plugin])
    /\ \A h \in Handlers : At(h, "query") /\ handler[h].plugin # None =>
          LET p == handler[h].plugin
          IN  /\ p \in servers \cap audits
              /\ RowOf(p) # {}
              /\ Range(Asked[p]) \subseteq permissions

\* A plugin that never answers can be switched off: from when it is, and as
\* long as no such plugin is enabled again, every request that has yet to read
\* the installations, the one that switched it off among them, comes to an
\* end, although the refreshes of others may wait for the plugin for ever.
HangingCanBeStopped ==
    \A h \in Handlers :
        "rows" \in handler[h].waiting /\ (\A p \in Hanging : ~IsEnabled(p))
            ~> IsIdle(h) \/ \E p \in Hanging : IsEnabled(p)
=============================================================================
