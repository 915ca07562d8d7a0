# A TLA+ development of the AI agent chat platform

TLA+ modules, TLC configurations and TLAPS proofs for the control plane of the
chat platform in `src/`: what one chat request does, which policy it is served
under, how administrative changes reach it, and what is stored. All paths below
are relative to the repository.

## 1. Inventory

The program is one Node process (`apps/web`, Next.js) over a database; several
processes may share the database. Without a database address the repository is
`InMemoryDatabase`, objects of the process itself: its methods are `async` too, but
do in one step what a method of `SqlRuntimeDatabase` does in several statements, and
hand out the objects they keep or copies of them. Handlers are `async` functions: each runs
alone between two `await`s, and anything other handlers do may happen at an
`await`. There are no transactions (`packages/db/src/postgres.ts` takes a
connection of a pool for every statement), no locks and no retries; unique
constraints keep a few columns apart (the slug of a tenant, the address of a user),
and nothing keeps the other rows from being written twice.

| Component | Source | State it keeps | Operations | Hard part | Correct when | Modelled |
|---|---|---|---|---|---|---|
| Chat runtime | `packages/runtime/src/index.ts` (`ChatRuntime`) | local variables of a run; rows and audit events it writes | `runChat`: resolve, compile policy and prompt, provider/tool loop, save | dozens of awaits, each may throw; services replaced meanwhile | retention, authorisation and evidence hold for every interleaving | `ChatRuntime` |
| MCP gateway | `packages/mcp-gateway` (`McpGateway`) | registered tools | `executeTool`, `findPermission`, `listTools` | tool looked up before an await and executed after it; a failed write taken for a failed tool | no execution without policy, permission, confirmation | `ChatRuntime` |
| Tool adapters | `packages/mcp-gateway` | a child process or an HTTP call | `listTools`, `invokeTool` | timer, close and error events race | one result, all of it, no child left running | `ToolCall` |
| Policy compiler | `packages/policy` | none (pure) | `compileEffectivePolicy` | six scopes, lists that are absent or empty, denials that must survive | deny overrides, strictest retention wins, narrowing | `PolicyCompiler` |
| Retention | `packages/retention` | none (pure) | rank, stricter, storage permissions | modes that are no mode | see above | both |
| Admin state | `packages/runtime` (`createRuntimeBundle`, `buildAdminState`) | the published services | `refreshAdminState` | many awaits between reading and publishing | services follow the database | `AdminControl`; providers in `ProviderAdmin`, tools in `PluginAdmin` |
| Policy documents | `packages/runtime` (`platformPluginPolicyBundle`, `buildAdminState`) | none (pure) | merge bundles, make the documents | lists that are absent, empty or name what is gone; several bundles | what a bundle denies or lists is so for the tenant | `AdminState` |
| Retention and platform plugin routes | `apps/web/src/app/api/retention`, `platform-plugins` | rows | upsert, install, toggle, approve | write, audit and refresh are separate | a change takes effect or is reported | `AdminControl` |
| Prompt fragments | `packages/db/src/sql.ts`, `packages/prompts`, `api/prompts` | `prompt_fragments`, `prompt_fragment_versions` | create, update, delete, load, compile | read-modify-write over awaits, re-encryption on rename | readable, complete history, no revival | `PromptStore` |
| Keys and encryption | `packages/crypto` | `encryption_keys` | `encryptForTenant`, `decryptForTenant`, `getOrCreateKey` | first-use race | whatever was stored can be read | `PromptStore` |
| Plugin administration | `api/plugins` | servers, installations, permissions | install, toggle | several writes | tools offered are the enabled ones | `PluginAdmin` |
| Provider administration | `api/providers`, `api/models` | provider, model and credential rows | create, edit, delete, sync | read-modify-write | a disabled provider is not used | `ProviderAdmin` |
| Provider gateway and adapters | `packages/providers` | a response being read | `resolve`, `streamChat`, `completeChat`, `listModels` | a stream cut anywhere, calls in fragments, broken streams | what was sent, once, or nothing | `ProviderStream` (environment of `ChatRuntime`) |
| Login | `packages/auth`, `api/auth` | users, memberships, cookies | start, callback, provision | two requests, one state; a code that is not tied to it | only members, by a login begun in the browser | `Login` |
| Role authorization | `packages/auth` (`authorizeRole`), `lib/auth.ts` | none (pure), the role of a membership | `authorizedJson`, `requirePagePermission` | the role is found by whatever membership row comes first | a session is served by the role its user came by | `Login` |
| Process start and seeding | `apps/web/src/lib/runtime.ts`, `createPostgresRuntime` | the cached promise; the seeded rows | `getRuntime`, the upserts and ensure functions | no transaction, processes side by side, a rejection is cached, the first refresh asks servers and constructs providers | restartable, nothing twice, administrators' changes kept | `Startup` |
| Pages with forms | `apps/web/src/app/admin` | none | server actions for plugins, platform plugins, providers, models | the same writes as the routes in other orders and with other events | as for the routes | `AdminControl`, `PluginAdmin`, `ProviderAdmin` |
| Configuration | `packages/config` | none | read once at the start | | | its values are constants; several deployments in `Login` |
| Audit scrubbing, what pages show, migrations | | | | | | no (see section 9) |

How they interact: a route authorises the caller (`authorizedJson`) and calls
repository methods; admin routes end with `refreshAdminState`, which reads a
snapshot of all tables, asks external tool servers for their tools, loads
credentials, and replaces the `services` object that `ChatRuntime` reads at
every turn. `runChat` compiles the policy once from `services` and then calls
the repository, the provider gateway and the MCP gateway, each time through
`services`. `PROJECT.json` lists, under `hazards`, what can go wrong and the
properties that would show it.

## 2. Plan

1. *Core* (done): `ChatRuntime` with its abstract specification `AgentLoop`;
   type correctness and `RetentionHonoured` proved.
2. *Policy* (done): `PolicyCompiler`, every property proved.
3. *Control* (done): `AdminControl`, implementing `Settings`.
4. *Prompt store* (done): `PromptStore`. *Process start* (done): `Startup`.
5. *Administration* (done): `PluginAdmin`, `ProviderAdmin`. *Edges* (done):
   `ToolCall`, with proofs; `ProviderStream`; `Login`.
6. *Both repositories* (done): `memory` in `PromptStore`, `Login`, `AdminControl`,
   `PluginAdmin` and `ProviderAdmin`. *From rows to policy* (done): `AdminState`.
   *Who may* (done): roles, permissions and deployments in `Login`. *Forms* (done):
   the server actions of the administration pages.
7. *Next*: an abstract specification "tools in service" that `PluginAdmin`
   implements; a composition of `AdminControl` with the part of `ChatRuntime`
   that reads the services; preferences of groups and users in `AdminState`;
   how a manifest is cleaned.
8. *Proofs* (done): every invariant that a passing run checks, the action
   properties, and both refinements. What remains model-checked is liveness.

## 3. Modules

| Module | Models | State | Actions |
|---|---|---|---|
| `AgentLoop` | what a run promises about its tool loop | phase, rounds and cleanness of each run | begin, act, refuse, resume, wind down, close |
| `ChatRuntime` | `ChatRuntime.runChat` and `McpGateway.executeTool` | one record per run (its local variables, `pc` the awaited call), the published `services`, permission rows, and what each run wrote | one action per awaited call, `Reject` for a call that throws, `Refresh` and `Grant` for administrators |
| `PolicyCompiler` | `compileEffectivePolicy` | scopes reached, `MutablePolicyState`, the documents merged, the policy | `Merge` one scope's document, `Finish` with a request |
| `AdminState` | `platformPluginPolicyBundle`, the documents of `buildAdminState`, `scopesFor`; extends `PolicyCompiler` | the rows and settings | merge the documents of the rows in order, finish; or any documents at all |
| `Settings` | what administration promises | a stored setting and its effective copy | store, apply |
| `AdminControl` | retention and policy bundle routes and the forms of the platform plugin page, `snapshot`, `refreshAdminState` | rows, the published mode, one record per request | one per awaited call, `Fail` |
| `PromptStore` | prompt fragments, their history and keys, compilation and preview | rows, versions, keys, one record per request | one per awaited call, `Fail` |
| `Startup` | `getRuntime`, `createPostgresRuntime`, the repository methods that seed, and what the first refresh waits for | rows of each seeded record, stored servers and providers on which a start can founder, promise and progress of each process | look, keep, insert, collide, read state, reject, ready, fail, crash, restart; an answering server; an administrator's switch, store and remove |
| `ToolCall` | one call of `HttpMcpTransportAdapter` or `StdioMcpTransportAdapter` | the child process, its streams, the timer, the response, the promise of the call | spawn, output heard, exit, close, error, timeout; send, respond, fetch failure |
| `PluginAdmin` | plugin routes and forms, `registerExternalMcpTools` | servers, installations, permissions, audit, the published gateway, one record per request | one per awaited call, `Fail` |
| `ProviderAdmin` | provider and model routes and forms, synchronisation, the provider part of `buildAdminState` | providers, models, keys, what is published, one record per request | one per awaited call, `Fail` |
| `ProviderStream` | `OpenRouterProvider.streamChat`, `OpenAICompatibleProvider`, the receiving loop of `runChat` | the text on the wire, the decoder's buffer, deltas and map, pending events, the round | send, end, break (provider); resolve, fetch, read, yield and receive |
| `Login` | OIDC start and callback, development login, `upsertUser`, `upsertMembership`, `authorizeRole` and what a session is served | the deployment, cookies, flows, codes spent, rows, one record per request | one per awaited call, `Fail`; the person at the browser and the identity provider |

`MC...` modules give the constants for TLC; `..._proofs` hold the proofs, of the
module of that name or, in two cases, of two: `Tools_proofs` is about `PluginAdmin` and
`ToolCall`, `Providers_proofs` about `ProviderAdmin` and `ProviderStream`. That is why
`ToolCall` and `ProviderStream` have names of their own for the usual definitions
(`CallSpec`, `StreamSpec`, `StreamNext`, ...).
History variables (`executed`, `merged`, `moved`, `settled`, `past`, `failed`,
`compiled`, `wish`, `since`, `granted`, `elevated`, `disturbed`) are never read by guards.

`serial`, in the modules of concurrent requests and in `Startup`, is chosen once
at the start and never changes. It says whether clients send one request at a
time, each after the answer to the one before (processes start one after the
other). The code does nothing to keep requests apart, so both values are
possible and every run has both; a property that begins with `serial =>` is one
that the code keeps for patient clients only, and section 6 says what becomes of
it otherwise.

`memory`, likewise constant, says which of the two repositories serves
(`deployment.memory` in `Login`). An action whose name ends in `InMemory` is a
method of `InMemoryDatabase` that differs from its statements over SQL; the others
are the same for both, or say where they differ by `memory`. In memory the
handlers still interleave, at the awaits between the calls of methods.

Definitions ending in
`Bug` (and a few others that precede the definition they mutate, such as
`MergeProvidersForgets` or `TimeoutSilent`) are mutated forms of
the definition after them; they are not part of the model and serve to confirm
that the property would notice.

Notes on faithfulness:

- *ChatRuntime.* The provider is the environment: it answers with up to
  `MaxCalls` calls of any tools, offered or not, or fails. The chat route passes
  any string as retention mode, so `"unrecognized"` is a mode a request may have
  (`buildRetentionContext` then permits everything). `Execute` may take effect and
  still throw. A database error on recording a completed execution falls into
  the same `catch` as the tool's own and is recorded as `failed`: `RecordFails`.
  `services` is the shared object `Refresh` replaces between any two awaits.
- *PolicyCompiler.* Lists are sets; where the code takes the first allowed item,
  the order of the inventory is left open (`FirstAllowed`). A document may be absent
  for every scope but is at most one, except for groups.
- *AdminState.* The loop of `platformPluginPolicyBundle` is over the positions of the enabled
  installations (`Installed`), later ones last. A bundle's list is empty when it has none, and ids may be of what
  is no longer there. A default that is to be the first of a list is the first
  item of the inventory when the list has it and otherwise some item of the list; no
  property depends on which. The documents of rows are merged in the order of `scopesFor`,
  and in the same run any documents in any order, as the unit tests do. Preferences of
  groups and users, and prompt fragments, are left out.
- *AdminControl.* Only what determines the mandatory retention mode is kept of
  the snapshot: `Promise.all` starts all queries, and each table is read when its
  query runs. A write that lands while a snapshot is on its way is recorded in
  `moved`. In memory the queries answer at once, and an update edits the stored row.
  A form does what the route does; the form that installs always enables.
- *PromptStore.* A ciphertext is a record of content, key and bound name; it
  opens under that name when its key is stored. Scope, tenant and priority are
  constant or irrelevant here. `UPDATE ... WHERE deleted_at IS NULL` is one step. In
  memory a request keeps the object it found: an update writes to it, and a
  compilation that is decrypting it reads what has been written meanwhile.
- *Startup.* Each record to be seeded is one look and one write; its contents do not
  matter. A look leaves out deleted rows. `update`s of a record that is found
  write the configuration again and are not distinguished. `identityProvider`
  stands for a configured one; renaming a seeded prompt is not modelled (the
  look would miss it, as it misses a deleted one). A start ends with the first
  `refreshAdminState` (`ReadState` to `Ready`): of the tables it reads only two kinds of
  rows can keep it from succeeding, an enabled HTTP server, whose listing has no
  timeout (`Answer` may never come), and an enabled provider that cannot be constructed
  (`Reject`). `malformedProvider` stands for a base URL that `validateProviderBaseUrl`
  does not accept and just as well for a key that does not decrypt; every other
  listing that fails is caught per server. Both rows are stored and removed by routes
  that await `getRuntime`, hence `Up`. Every later start also writes the developer's
  role again (`runtime/src/index.ts:640-644`): an `update` of a record that is found.
- *ToolCall.* One call is enough, as calls share nothing. The runtime creates both
  adapters with external execution allowed, so the refusal at their entry is left
  out. A child may exit while a process it started keeps its output open: `close`
  then waits. The error event of `child.stdin` (the write at `mcp-gateway/src/index.ts:135`
  may fail when the child has gone) has no listener in the code and no step here: Node
  then raises it as an uncaught exception, which is the end of the process, not of the call. What is said twice, an event after the call has settled, changes nothing.
- *PluginAdmin.* Each plugin gets one server (a second install is a bound of the model).
  The form that switches a plugin writes an audit event, the `PATCH` route does
  not; events of switches are not told apart, so `audits` holds installs only.
  The form that only adds a permission is left out here, as `ChatRuntime` lets permissions appear
  at any time. The encryption of an
  installation's configuration is part of its insert. A `PATCH` that does not
  name the flag is `"keep"`. Installations of scope `user` are stored and never
  registered, as in the code. A hanging plugin is an HTTP one that may
  never answer: nothing says that its listing returns.
- *ProviderAdmin.* The rows of one model are a sequence: over SQL its unique
  key admits one, in memory there can be copies, up to `MaxCopies` when
  requests come in turn and one when they overlap, of which an edit finds the first. The key
  and the catalogue of a synchronisation are read in one step, as nothing depends on that key;
  the select and the update of one model in a synchronisation are one
  step; base addresses and capabilities are left out. The order in which a refresh asks for
  keys is left open. A key is a number, larger when it was stored later.
- *ProviderStream.* A line is three pieces, its two halves and its end, so that the
  network can cut it inside or before its end; a fragment of arguments is a
  token, and `Objects` says which sequences of tokens are a JSON object. `Chosen(s, T)`, what
  stands at the places `T` of `s` in its order, is how the `flatMap`s and loops
  that leave something out are written. A content, an id or a name may be absent or the
  empty string (`Blank`): `??` passes the empty one on and the conditions take it for none
  (`Or`, `Truthy`, `Kept`). Empty parts of an argument text are left out, as they add nothing. Usage, model and finish reason are left out. A last line without an end is dropped, as in
  the code.
- *Login.* `FindUser` to `Respond` are shared by the two routes, whose code is the
  same but for the role. A callback may be opened again and in another browser, and takes
  any code beside any state (`Callback(r, c, f, b)`), as the route reads two parameters
  (`callback/route.ts:24-25`); the nonce of a start is neither stored nor compared, so the model
  has none. The exchange and the check of the token are one step, as only the request
  sees what is between; an update of a user that is found writes nothing modelled and is
  part of finding it. A session is a user's id and nothing more, as the cookie is (`callback/route.ts:80`,
  `lib/runtime.ts:22-26`, unsigned): it is an assumption of the model that browsers hold
  only cookies which those routes have set. Email
  addresses that differ in case are one person to the select and two to the
  unique constraint; the model has one address per person. The seeded role of the developer is
  written in `Init` only; a later start writes it again (see `Startup`), which is not modelled here. `Deployments` are looked at
  side by side. One permission stands for those the table grants to the same
  roles; over SQL the membership a request finds is any of the user's rows, as its query has no order.

## 4. Runs

| Run | Instance | Question | Result |
|---|---|---|---|
| `one` | one run, 2 tools, 6 requests, 4 admin states, 1 tool iteration, up to 2 calls | Does a run keep its promises on every path through `runChat` and `executeTool`, with refreshes and grants at every await, and does it settle? | holds, `RunsSettle` under fairness; implements `AgentLoop` |
| `compiler` | 2 providers, 3 models, 2 tools, 5 documents, 3 requests, all scopes; or the documents of up to 2 of 4 bundles, enabled or not | Do denials, refusals, ceilings and narrowing survive? Do the bundles decide what the tenant may use? | holds |
| `control` | two admin requests by route or form, over SQL or in memory, one bundle | Is chat served from what the database says, or is the administrator told of an error? Does an undisturbed refresh publish what the database says? | holds in turn, the second always; in turn implements `Settings` |
| `stale` | two admin requests | Does a stored ephemeral mandate hold once all requests returned? | violated (finding) |
| `bundle` | one admin request at a time | Can a bundle replace an ephemeral mandate by a looser one? | violated (finding) |
| `prompts` | two prompt requests on one fragment, previews included, over SQL or in memory, 2 keys, 3 versions | Is everything readable, is the history complete, does deletion last, does a compilation record what it used, does a version stand for one content? | holds; the fourth over SQL or in turn, the last in memory or in turn |
| `startup` | two processes, an administered record at a time or a server that may not answer and a malformed provider, up to 2 faults | Can a process be started again after stopping anywhere, without repeating or undoing anything? Do colliding starts leave one row of each keyed record? Does everybody serve in the end, when awaited listings are answered and no malformed provider stays? | holds, the first in turn, the last under fairness |
| `toolcall` | one call, up to 2 pieces of output | Does every order of timer, process and stream events give one whole answer or an error, and leave nothing behind? | holds |
| `plugins` | two requests by route or form, over SQL or in memory, 2 plugins that share a tool, one flaky, one that may never answer | Does the gateway serve what is installed and enabled, is a success complete, can a plugin that hangs be switched off? | holds, the first in turn, the last under fairness |
| `providers` | two requests of 8 kinds by route or form, over SQL or in memory, 2 providers, 1 model, 2 keys | Is what is published what is stored and what the administrator wished? Is a deletion final, and is no key published that was outdated when the refresh began? | holds, the first in turn |
| `stream` | up to 3 lines, 2 tool calls, contents, ids and names absent or empty in first and later fragments | Does the round get what was sent, or nothing? | holds |
| `login` | 2 flows, 3 requests, 2 browsers, 2 people, 3 deployments over SQL or in memory, any code with any state | Is who is logged in a member, by a login begun there and a code used once, is a refusal for a reason, is there one membership, and is a session served only what its user's role allows? | holds; one membership, and the role last given, in turn or in memory |

Runs that do not check for deadlock stop where the program does: `compiler` with
the compiled policy; `toolcall` when the call is over, or when an HTTP server does not
answer; `stream` when the round is over; `login` when nobody is left who wants to
log in; `startup` when both processes serve, the faults are spent and the
administered record is deleted.

Why the bounds are enough. A run never reads another run's variables, and reaches
other runs only through what administrators change, which the environment of one run
does at every await; so `one` needs one run. One iteration with two calls per
answer reaches every place of the loop, the limit included, and a refused call
followed by a further call in the same round. The five documents carry every kind
of entry; each may stand at any scope and repeat as a group. Two requests suffice
for every overlap of a read and a write that the admin and prompt handlers have,
as no step of theirs depends on a third. `MaxVersion` = 3 admits a create and
two overlapping edits. Two faults let a restart fail again. `Changes` says
what the administrators of one behaviour touch, a seeded provider, a seeded prompt or the rows a start
can founder on: a start treats them independently, and the proofs of `Startup` are for any `Changes`. Each call names one of the
values that matter: a strict mandate over whatever the tenant had at the start, a
bundle, both ways of a switch. Two flows let a code come with another flow's state. A plugin that offers what another offers
too shows replacement and return; `Scopes` lets one of them be installed for users.

Bounds: `MaxToolIterations` is a parameter of the program; `MaxCalls`,
`MaxBundles`, `MaxVersion`, `MaxFaults`, `Changes`, `MaxDevLogins`, `MaxChunks`, `MaxKeys`,
`MaxLines`, `MaxCopies` are bounds of the models, as are `Calls`, `Scopes`, `Switches`,
`Bundles`, `Tables`, `Deployments` and the numbers of requests and flows. The four
bundles are a strict one, a wide one, one of lists and one whose ids are gone; two of them,
in either order and enabled or not, show every way in which a merge can forget one.
The deployments are the one of the unit tests, one with several tenants and one without development
login, which is where the development logins are bounded (`MaxDevLogins`, two over SQL so that
they overlap, one in memory); two copies of a model tell the first from the rest. A run takes one to three minutes.
Two pieces of output tell a part from the whole; two keys admit one overwritten and one
new; three lines admit two fragments of one call around another call;
three logins let one fail half way, one complete it and one come back.
Symmetry of requests, keys, providers, people, browsers and flows is used in `prompts`, `providers` and
`login`, which check no liveness.

## 5. Properties

*ChatRuntime:* `TypeOK`; `RetentionHonoured` (an ephemeral or limited mode keeps
content or payloads out of the database, whatever is published meanwhile);
`ExecutionsAuthorised` (policy, permission, confirmation, and the evidence of the
policy before any effect); `ToolAuditTrail` (rows and audit events tell the same
story); `EffectsAccounted` (at most the last effect of a run lacks a row);
`AnswerKept`; `KeepsPromise` (implements `AgentLoop`); `RunsSettle`.

*PolicyCompiler:* `DenyOverrides`, `ByoForbidden`, `StrictestWins`,
`SelectionServed`, `OnlyNarrows`.

*AdminState:* `BundlesDecide` (a chat may use exactly what no enabled bundle denies
and some lists, if any does).

*AdminControl:* `UndisturbedIsCurrent` (with one policy row, in turn or in memory), `ImplementsSettings`,
`WriteTakesEffect`; the findings' `MandatoryPreventsRetained` and
`BundleKeepsMandatory`.

*PromptStore:* `AlwaysReadable`, `HistoryComplete`, `VersionsIdentify` (what a
compilation records is the version it used, over SQL or in turn, and a version
stands for one content, in memory or in turn), `DeletedStaysDeleted`.

*Startup:* `SeededOnce` (and nothing is served before all is seeded),
`AdministratorDecides`, `AllServe` (for listings that are answered, and while no
malformed provider is stored for good).

*ToolCall:* `NothingLeft` (no running child, no armed timer after a call),
`WholeAnswer`, `StdioSettles`.

*PluginAdmin:* `QuietIsServed`, `InstalledWhole` (permissions belong to an
installed plugin, and an installation that reaches its refresh is all written),
`HangingCanBeStopped`.

*ProviderAdmin:* `QuietIsServed` (stored is what was wished, published is what is
stored), `DeletedStaysDeleted`, `KeysAreFresh`.

*ProviderStream:* `FramingIsIrrelevant` (what is decoded is what the lines mean, the cuts
aside; of ids and names the last that was given counts, an empty one as none), `AllOrNothing` (of a broken stream
nothing, and each call once), `StreamSettles`.

*Login:* `SessionsAreMembers` (with one membership per person), `OwnLogin` (a session rests on
a completed request of its browser, with the state of a flow begun there and a code for which
that admitted person signed in, each code in one login at most; or on the development login),
`RefusedForAReason`, `ServedByRole` (beyond what every user may do, a session is served
by a role that the development login or the settings gave its user, and in order by the
last one given).

Every module has one `TypeOK`. Where it is not listed, it is a conjunct of one of the
invariants named, or, in `PolicyCompiler` and `ToolCall`, part of the inductive invariant
that is proved.

## 6. Findings

- `stale`: two overlapping refreshes may publish in the opposite order of their
  snapshots. The mandatory ephemeral mode an administrator stored, with every
  request answered without an error, is then not in force until some later
  request refreshes. `codex_goal_ai_agent_chat_platform.md:446` says "Tenant/company
  mandatory ephemeral prevents retained conversations."
- `bundle`: a policy bundle's mandatory mode takes the place of the tenant's
  instead of being combined by strictness (`packages/runtime/src/index.ts:900`);
  `codex_goal_ai_agent_chat_platform.md:426` says the user cannot select retained if tenant policy
  requires ephemeral.

Observed, contradicting no document: two overlapping first upserts of the
retention policy insert two rows; overlapping edits of a prompt fragment lose
one of them and give two contents the same version number, and a change of
priority or of the enabled flag writes back the content it had read; a failure
between the update of a fragment and the insert of its version leaves a gap in
the history. A failed first start is cached by `getRuntime` and answers every
request with its error until the process is restarted; a seeded prompt that an
administrator deleted is created again by the next start; two processes that
start at once can seed a prompt, a membership or a permission twice.
The first refresh of a start waits for every enabled HTTP server
(`runtime/src/index.ts:795`, `1033`) and constructs every enabled provider (`849`): while one server
never answers, or one provider has a malformed base URL or a key that does not decrypt, no
start succeeds, and since every route awaits the start only a process that was up before
can remove the row. `AllServe` is stated for the rest, and `HangingCanBeStopped` of
`PluginAdmin`, like everything there, within one life of the process.
An empty id or name in a later fragment of a streamed tool call takes away the one that came before
(`providers/src/index.ts:512-513`), and a call without a name is dropped (`529`); `FramingIsIrrelevant` says exactly this
meaning, not that such a call survives.
A callback that brings the code of another flow with its browser's own state logs in the person of
that code: the state is tied to the browser, the code to neither, since the nonce of the
start (`start/route.ts:24`) is neither stored nor compared. `OwnLogin` claims no more than this.
Two overlapping first logins of one person may give two memberships.
`PATCH /api/plugins/:id` switches a plugin without an audit event, where installing one
writes it; `codex_goal_ai_agent_chat_platform.md:68` asks for audit metadata of admin changes
"where policy permits", which leaves open whether this one is missing.
A `PATCH` of a plugin that does not name the flag writes back the one it read, and may undo
an overlapping one; overlapping edits of a provider may undo a disable; the
synchronisation of models enables those it finds, disabled ones included. An
installation of scope `user` is never served. An installation that failed half
way takes effect with the next refresh. A stream whose last tool call was cut
short, but which ended in order, gives that call empty arguments.

In memory: a compilation that overlaps an edit can record a newer version than
that of the content it read; an update of a fragment that was deleted meanwhile still edits
it; a model added twice, or by overlapping synchronisations, has two rows, and
switching it off reaches only the first, so that it stays in service.

Roles: every login by OpenID Connect sets the member's role to `user`, as no mapping
of roles is passed, so without development login only the seeded developer is
ever an administrator: until they log in that way, and again from the next start of a
process on, which writes the developer's role anew. Overlapping first logins over SQL
can leave two membership rows with different roles, of which a request finds either.

Policy: the last bundle that names a mandatory mode decides, even if an earlier
one is stricter. A provider is selected whether or not a model of it is
allowed, so the model may be `"unavailable"` although another provider's is allowed.
The providers that any user brought are in everybody's inventory. The effective
preview compiles without groups. Switching a prompt pack off leaves its fragments.
`DELETE /api/conversations/[id]` answers `deleted: true` and deletes nothing.

## 7. Fairness

`ChatRuntime!FairSpec`: weak fairness of the steps of each run. It says that an
awaited call of a run settles, by an answer or an error, and that the event loop
gets to every run. Database calls and stdio tools do (the latter by a 5 s
timer); a provider stream or an HTTP tool server that never answers is excluded
by assumption, since the code puts no timeout on them. Administrators are under no
fairness. `AdminControl!FairSpec`: the same for admin requests. Requests arrive
without fairness. `Startup!FairSpec`: database calls of a start settle and what it
computes goes on (`Boot`, which has the rejection too), requests
keep coming (the first of them starts the process), and a process that only
answers with errors is restarted, by an operator or a supervisor; faults are
finitely many. That a server answers a listing (`Answer`) is under no fairness: it is a
premise of `AllServe` (`[]<>~Waiting(p)`), as is that malformed providers are removed for good.
`ToolCall!FairCallSpec`: the steps of a stdio call are taken and its timer comes due; nothing is
assumed of the child or of an HTTP server. `PluginAdmin!FairSpec`: the steps of requests,
except the listing of a hanging plugin. `ProviderStream!FairStreamSpec`: what has arrived is read;
that the provider ends its response is not assumed.

## 8. Proofs

Every theorem is about `Spec` (`CallSpec`, `StreamSpec`, or `BuildSpec` where said) for all values of the
constants that satisfy the assumption of its module, which TLC evaluates in the
module's run. The assumptions only say what kind of things the constants are,
and that there is a request to make (`Calls # {}`), a fragment, and that the
mark for "no provider" is none. For each component one inductive invariant is proved
to hold initially and to be kept by every action, one lemma for each; the
properties follow from it. Those of `ProviderAdmin`, `PluginAdmin`, `ProviderStream` and
`AdminState`, the most intricate, were first checked by TLC on the instances of their runs.

`ChatRuntime_proofs` (`ChatAssumption`; any runs, tools, requests, admin states).
`TypeCorrect` is inductive. Each other theorem takes the types and one invariant
about each run:
- `RetentionAlwaysHonoured`: once the policy is there, its mode permits nothing that
  the request's mode forbids, and every row written is one that the mode permits; before that,
  nothing has been written. The property speaks of the request as well as of the
  policy, and the policy in a run's record changes once.
- `AlwaysAuthorised`: at each place of a tool call what has been looked up so far lets it go on,
  with the evidence of it, since permissions and services may change meanwhile.
- `EffectsAreAccounted` and `TrailTellsTheStory`: rows, effects and events agree up to the call
  in progress, and the place of the run says by how much that call is ahead.
- `AnswersAreKept`: what the run has answered and whether it has been written, by place.
- `ImplementsAgentLoop` (`Spec => KeepsPromise`): each action is an action of `AgentLoop` for its run or
  a stutter, given that rounds and refusals in a run's record are those of its phase.

`PolicyCompiler_proofs` (`PolicyAssumption`; any inventory, any documents).
`DenyAlwaysOverrides`, `ByoStaysForbidden`, `StrictestAlwaysWins`, `SelectionAlwaysServed`,
`AlwaysNarrows`. The invariant has four parts: the types; `Apart` (what is
allowed is not denied); for every merged document, that the state *knows* it
(its denials, its refusal and its ceiling are in the state); and `Decided`, that
a finished policy satisfies the four properties. A merge preserves what the
state knows because denials only grow, a refusal is never taken back and
`Stricter` is no looser than either argument.
The second half is about `AdminState`, under `BuildSpec`: `BuiltPoliciesObey` and
`BuiltScopesNarrow` carry those five over to documents made of rows, because such documents are
documents; `BundlesAlwaysDecide` adds to the invariant that documents come in the order of
`scopesFor`, that the state is unrestricted before the tenant's document and
confined to what settings and bundles leave after it, and that no tool is enabled but those of the
rows. `BundlesDecide` compares first and last only, so it is not inductive.

`AdminControl_proofs` (`AdminAssumption`). `UndisturbedStaysCurrent`: what a snapshot has read and
no write has overtaken is what is there; with requests one at a time nothing is
overtaken and a policy is inserted only where there is none.
`ImplementsTheRegister` (`Spec => ImplementsSettings`): the refinement of `Settings`; writes
store, the end of an undisturbed refresh applies, all else stutters.

`PromptStore_proofs` (`PromptAssumption`). `FragmentsAreReadable`, `HistoryIsComplete`, `VersionsTell`,
`DeletedFragmentsStay`. The invariant `StoreInv` says of each fragment that its row opens, has a content from its past
and, where versions are to tell contents apart, the newest version; of each request, that what it holds in its local
state was so once (and still is, of requests one at a time), that its key is saved before it
encrypts, and that a fresh id is nobody else's; and that what is not in the
history yet is about to be put there.

`Startup_proofs`. `StartsSeedOnce`, `StartsObeyAdministrators`: a start has seeded everything before its place in
the list, what it found is still there, and, of starts one at a time, what it missed is still missing and
what an administrator disabled is still a row.

`Providers_proofs`, first half (`ProviderAssumption`). `ServiceFollowsTheTables`, `DeletedProvidersStay`,
`PublishedKeysAreFresh`. The invariant `ProviderInv` says what a request knows at each place; that
no offer of a refresh has a key older than the newest one at its start; that a provider being
created is unknown to other requests; and, of requests one at a time, that what was read is what the tables say, so
that an offer complete so far is what is to be published, and what is published is current
whenever no request has written yet and none has failed. The last part is what makes it
inductive: `QuietIsServed` speaks of quiet states only.

`Providers_proofs`, second half (`LineAssumption`; any lines, any number of them, cut
anywhere). `TextIsRead` and `RoundIsWhole`. The invariant `StreamInv` says what the text on
the wire can be (whole lines, then at most a part of one), that whatever the decoder has kept is what
the pieces read so far say *when read at once* (`DecoderOK`), that nothing is passed on before
the answer is whole, and that what `runChat` has received and the events still to come are
together what was found, once (`Pending`). Four laws of the code's operators carry it:
- *splitting resumes* (`SplitEnded`, `RestResumes`): the lines and the remainder of `buf \o t` are
  those of `buf` and then those of `Rest(buf) \o t`, so that only the remainder need be kept;
- *contents and fragments join* (`ContentsJoin`, `FragmentsJoin`): what several lines contain is what the
  first contain, then the others;
- *merging goes on* (`MergeJoin`): the fold over the fragments may be interrupted;
- *merging describes* (`MergeAllDescribes`, `MeaningIsMerged`): the entries of the map are, in the order
  in which their indexes first appear, what the fragments of each index say together, where keeping
  what was kept and keeping the last that was given come to the same (`KeptAgain`); so
  `ToolCalls` of the merged entries is `Meaning`, which is defined without merging.
`FramingIsIrrelevant` is not inductive, as it speaks of responses read to their end only.

`Login_proofs`. `SessionsHaveMembers`, `LoginsAreOwn`, `RefusalsHaveReasons`, `RolesAreServed`: what a request has established
at each place (user, then membership, then audit event), where its person comes from, that its
membership is a new row, that a browser's cookie names the newest of its flows, that a code
brings one request past the exchange and is spent from then on (`CodesOnce`), and that a
session rests on a request that is over and in.

`Tools_proofs`, first half (`PluginAssumption`). `InstallationsAreWhole` and `ToolsFollowTheTables`.
The invariant `PluginInv` says that no plugin is installed twice and each
installation has a server (`RowsOK`); that a permission belongs to an installed plugin (`Permitted`);
what a request holds at each place (`PlaceOK`: a half-written installation has yet to permit exactly what
it asked for and is not permitted); that two requests never create one server (`Apart`); and,
of requests one at a time, that what was read is what the tables say, that the gateway being
built serves the installations asked so far, which are the oldest, and that what is published serves
all active ones unless a request is under way or failed (`SerialOK`).

`Tools_proofs`, second half: `NothingIsLeft` and `AnswersAreWhole` of `ToolCall`, for any length of output. The
invariant adds to the types that a child that runs is watched by an armed timer until
the call settles, that a call uses one transport only, and that an exit code of zero
is that of a child that ended by itself.

Three ways round limits of the prover. That a set of numbers has a least or a largest one is proved from
`WFMin` and `NatLessThanWellFounded` (`LeastNatural`, `MaxOfPlaces`), without induction over an operator; what
a fold or a flattened sequence is, by a least place where it would differ (`FlattensAgree`,
`MergesAgree`). And the model uses no `SelectSeq` where something is proved of the
result, as the prover knows nothing of it: what is selected is described by its places
(`Chosen`, `Nth`), whose laws (`NthIs`, `NthOnly`, `ChosenJoin`) are proved from cardinalities.

Only model-checked:
- liveness (`RunsSettle`, `WriteTakesEffect`, `AllServe`, `StdioSettles`, `HangingCanBeStopped`,
  `StreamSettles`), and `ENABLED` on which fairness rests: out of the prover's reach;
- the runs that expect a violation.

No module declares a `RECURSIVE` operator.

## 9. Not modelled

- *Login:* discovery documents, signatures and key sets: a token is valid or not.
- *Providers:* the catalogue of models of a provider, the connection test, the fields of a
  request, the mock provider.
- *Policy:* preferences of groups and users; how a manifest is cleaned and what
  prompt packs, provider presets and workflow actions do when installed; the trace policy and hashes.
- *Prompts:* priorities and the order of the stack, pure sorting of what was read.
- *Plugins:* the form that only adds a permission.
- *Tool adapters:* a failing write to the standard input of a child (section 3).
- *Encryption:* the cipher and the KMS, external to the code.
- *Audit:* scrubbing of metadata. No caller passes the `content` that retention would
  strip, so nothing of it depends on the mode; the rest is removal of keys by name.
- *Conversations, tenants, exports:* reading rows and single inserts; no two of their
  steps depend on each other.
- *Configuration:* the parsing of environment variables; its results are constants.
- *In-memory seeding*, which writes constants into an empty repository, and *migrations*,
  which run before the system starts.
- *The user interface:* what pages show.

`PROJECT.json` gives the status of every component.

## 10. Running

    tlc -workers 2 -config MCChatRuntime_one.cfg MCChatRuntime
    tlapm ChatRuntime_proofs.tla
