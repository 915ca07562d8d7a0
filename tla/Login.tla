-------------------------------- MODULE Login -------------------------------
(***************************************************************************)
(* Logging in, by OpenID Connect or by the development login, and what the *)
(* role that a login leaves behind allows.                                 *)
(*   apps/web/src/app/api/auth/oidc/start, oidc/callback, dev: the routes  *)
(*   packages/auth/src/index.ts: callback state, token exchange, claims,   *)
(*     and which role may do what (authorizeRole)                          *)
(*   packages/db: upsertUser, upsertMembership of SqlRuntimeDatabase and   *)
(*     InMemoryDatabase                                                    *)
(*   apps/web/src/lib: authorizedJson, requirePagePermission               *)
(* A flow is one visit to the start route. It leaves the flow's session    *)
(* in a cookie of the browser and in the state; when somebody has signed   *)
(* in, the identity provider adds a code for that person. A request is one *)
(* run of the callback route or of the dev route. A callback brings a code *)
(* and a state, which the route reads one by one: they need not be of one  *)
(* flow, nor come once, nor in the browser of either. The nonce that the   *)
(* start route puts into its redirect is kept nowhere. The cookies of a    *)
(* browser are those that the routes have set: the session is a plain      *)
(* user id. The identity provider is the environment.                      *)
(***************************************************************************)
EXTENDS Naturals, FiniteSets

CONSTANTS
  Flows, Requests, Browsers, People,
  Developer,    \* the person of the DEV_AUTH settings
  Deployments,  \* the configurations to be looked at
  None          \* no flow, no person, no row; and the id of the seeded row

Roles == {"user", "auditor", "company_admin", "tenant_admin", "workspace_admin", "service_admin"}

Modes == {"single_company", "multi_tenant"}

\* memory: the repository is InMemoryDatabase. admitted: whose id tokens pass
\* validateIdTokenClaims, that is, whose email domain is allowed.
\* MaxDevLogins: bound of the development logins under way or done.
DeploymentType ==
  [mode : Modes, memory : BOOLEAN, devAuth : BOOLEAN, devRole : Roles, admitted : SUBSET People,
   MaxDevLogins : Nat]

LoginAssumption ==
  /\ None \notin Flows \cup People \cup Requests
  /\ Developer \in People
  /\ Deployments \subseteq DeploymentType

ASSUME LoginAssumption

VARIABLES
  flows,      \* where each flow is, in which browser, and who came back
  requests,   \* the local variables of each request
  browsers,   \* the two cookies of each browser
  spent,      \* the flows whose codes the identity provider has exchanged
  users,      \* who has a row in users, by email
  members,    \* rows of tenant_memberships
  audited,    \* who has an auth.login event, in which browser
  deployment, \* the configuration
  serial,     \* whether people log in one after the other
  granted,    \* history: the role each person was last given, where it is certain
  elevated,   \* history: to whom the development login has given its role
  disturbed   \* history: flows whose browser another login has used since

vars == <<flows, requests, browsers, spent, users, members, audited,
          deployment, serial, granted, elevated, disturbed>>

grants == <<granted, elevated>>

store == <<users, members, audited, grants>>

fixed == <<deployment, serial>>

history == <<fixed, disturbed>>

----------------------------------------------------------------------------
(* authorizeRole: one permission stands for those granted alike.           *)
userPermissions == {"mcp:use", "settings:read"}

auditorPermissions == {"audit:read", "settings:read"}

tenantAdminPermissions == {"mcp:use", "settings:read", "audit:read", "provider:configure_tenant"}

serviceAdminPermissions == tenantAdminPermissions \cup {"tenant:create", "provider:configure_service"}

Permissions == serviceAdminPermissions

serviceOnlyPermission(permission) == permission = "provider:configure_service"

PermissionsOf(role) ==
  CASE role = "service_admin" -> serviceAdminPermissions
    [] role \in {"company_admin", "tenant_admin", "workspace_admin"} -> tenantAdminPermissions
    [] role = "auditor" -> auditorPermissions
    [] role = "user" -> userPermissions

authorizeRole(role, permission) ==
  /\ role = "service_admin" => deployment.mode = "multi_tenant"
  /\ role \in {"company_admin", "tenant_admin", "workspace_admin"} => ~serviceOnlyPermission(permission)
  /\ permission \in PermissionsOf(role)

----------------------------------------------------------------------------
\* createRuntime gives the developer a user and a membership before it serves.
SeededRole(d) ==
  IF d.mode = "single_company" /\ d.devRole = "service_admin" THEN "company_admin" ELSE d.devRole

Fresh(pc) ==
  [pc |-> pc, flow |-> None, code |-> None, browser |-> None, user |-> None, role |-> "user", row |-> None]

Init ==
  /\ flows = [f \in Flows |-> [phase |-> "new", browser |-> None, user |-> None, fresh |-> TRUE]]
  /\ requests = [r \in Requests |-> Fresh("idle")]
  /\ browsers = [b \in Browsers |-> [login |-> None, session |-> None]]
  /\ deployment \in Deployments /\ serial \in BOOLEAN
  /\ users = {Developer}
  /\ members = {[id |-> None, user |-> Developer, role |-> SeededRole(deployment)]}
  /\ granted = [u \in People |-> IF u = Developer THEN SeededRole(deployment) ELSE "none"]
  /\ spent = {} /\ audited = {} /\ elevated = {} /\ disturbed = {}

(***************************************************************************)
(* The browser and the identity provider.                                  *)
(***************************************************************************)
Others(b, f) == {g \in Flows \ {f} : flows[g].phase # "new" /\ flows[g].browser = b}

\* Mutated form: a start leaves the cookie of an earlier one.
LoginCookieKeeps(old, f) == IF old = None THEN f ELSE old

\* The start route answers with a redirect and the cookie of the new flow.
LoginCookie(old, f) == f

Start(f) ==
  /\ flows[f].phase = "new"
  /\ \E b \in Browsers :
       /\ flows' = [flows EXCEPT ![f].phase = "started", ![f].browser = b]
       /\ browsers' = [browsers EXCEPT ![b].login = LoginCookie(@, f)]
       /\ disturbed' = disturbed \cup Others(b, f)
  /\ UNCHANGED <<requests, spent, store, fixed>>

\* Somebody signs in at the identity provider, which sends the browser back.
Authenticate(f) ==
  /\ flows[f].phase = "started"
  /\ \E u \in People : flows' = [flows EXCEPT ![f].phase = "returned", ![f].user = u]
  /\ UNCHANGED <<requests, browsers, spent, store, history>>

\* The state is older than ten minutes; only a callback looks at its age.
Expire(f) ==
  /\ flows[f].phase # "new" /\ flows[f].fresh
  /\ flows' = [flows EXCEPT ![f].fresh = FALSE]
  /\ UNCHANGED <<requests, browsers, spent, store, history>>

(***************************************************************************)
(* The callback route.                                                     *)
(***************************************************************************)
Ended == {"idle", "in", "refused", "failed"}

MayArrive(r) ==
  /\ requests[r].pc = "idle"
  /\ serial => \A q \in Requests : requests[q].pc \in Ended

\* Mutated form: the browser is not looked at.
ValidateCallbackStateBug(f, session) == flows[f].fresh

\* The state is the one of the session that the browser's cookie names.
ValidateCallbackState(f, session) == session = f /\ flows[f].fresh

\* No group is mapped to a role, so that everybody becomes a user.
OidcRole == "user"

\* Code c, state f: whichever they are, only the state is compared with the browser.
Callback(r, c, f, b) ==
  /\ MayArrive(r)
  /\ flows[c].phase = "returned" /\ flows[f].phase # "new"
  /\ requests' = [requests EXCEPT ![r] =
       IF ValidateCallbackState(f, browsers[b].login)
       THEN [@ EXCEPT !.pc = "exchange", !.flow = f, !.code = c, !.browser = b,
                      !.user = flows[c].user, !.role = OidcRole]
       ELSE [@ EXCEPT !.pc = "refused", !.flow = f, !.browser = b]]
  /\ UNCHANGED <<flows, browsers, spent, store, history>>

\* The token is the provider's for this client, is not over, and names an email
\* of an allowed domain.
validateIdTokenClaims(u) == u \in deployment.admitted

\* A code is good for one exchange, for a token that names who signed in for it.
\* The keys to verify the token with are waited for in between, which nobody sees.
ExchangeOidcCode(r) ==
  /\ requests[r].pc = "exchange"
  /\ requests' = [requests EXCEPT ![r] =
       IF @.code \notin spent /\ validateIdTokenClaims(@.user)
       THEN [@ EXCEPT !.pc = "findUser"] ELSE Fresh("failed")]
  /\ spent' = spent \cup {requests[r].code}
  /\ UNCHANGED <<flows, browsers, store, history>>

(***************************************************************************)
(* The development login.                                                  *)
(***************************************************************************)
developmentAuthAllowed == deployment.devAuth

DevRole == IF deployment.mode = "single_company" THEN "company_admin" ELSE "service_admin"

DevLogins == {q \in Requests : requests[q].browser # None /\ requests[q].flow = None}

DevLogin(r, b, u) ==
  /\ MayArrive(r)
  /\ developmentAuthAllowed
  /\ Cardinality(DevLogins) < deployment.MaxDevLogins
  /\ requests' = [requests EXCEPT ![r] =
       [@ EXCEPT !.pc = "findUser", !.browser = b, !.user = u, !.role = DevRole]]
  /\ UNCHANGED <<flows, browsers, spent, store, history>>

(***************************************************************************)
(* upsertUser and upsertMembership: a select, then an update or an insert; *)
(* one step in memory.                                                     *)
(***************************************************************************)
\* Mutated form: a known user is taken for a member.
AfterUserBug(found) == IF found THEN "audit" ELSE "findMember"

AfterUser(found) == "findMember"

\* The update of a row that is there writes nothing that is modelled.
FindUser(r) ==
  /\ ~deployment.memory /\ requests[r].pc = "findUser"
  /\ requests' = [requests EXCEPT ![r].pc =
       IF requests[r].user \in users THEN AfterUser(TRUE) ELSE "insertUser"]
  /\ UNCHANGED <<flows, browsers, spent, store, history>>

InsertedUser(u) == users \cup {u}

\* users.email is unique: the second of two inserts throws.
InsertUser(r) ==
  LET u == requests[r].user IN
  /\ requests[r].pc = "insertUser"
  /\ requests' = [requests EXCEPT ![r] =
       IF u \in users THEN Fresh("failed") ELSE [@ EXCEPT !.pc = AfterUser(FALSE)]]
  /\ users' = InsertedUser(u)
  /\ UNCHANGED <<flows, browsers, spent, members, audited, grants, history>>

Rows(u) == {m \in members : m.user = u}

\* Of several rows the select returns any.
FindMember(r) ==
  LET rows == Rows(requests[r].user) IN
  /\ ~deployment.memory /\ requests[r].pc = "findMember"
  /\ IF rows = {}
     THEN requests' = [requests EXCEPT ![r].pc = "insertMember"]
     ELSE \E m \in rows :
            requests' = [requests EXCEPT ![r].pc = "updateMember", ![r].row = m.id]
  /\ UNCHANGED <<flows, browsers, spent, store, history>>

\* Requests one at a time, and those that write in one step, have an order.
Ordered == serial \/ deployment.memory

Granted(r) ==
  LET u == requests[r].user IN
  /\ granted' = IF Ordered THEN [granted EXCEPT ![u] = requests[r].role] ELSE granted
  /\ elevated' = IF requests[r].flow = None THEN elevated \cup {u} ELSE elevated

\* Mutated form: a role that was given once is kept.
NewRoleBug(m, role) == IF m.role = "user" THEN role ELSE m.role

NewRole(m, role) == role

UpdateMember(r) ==
  /\ requests[r].pc = "updateMember"
  /\ members' = {IF m.id = requests[r].row THEN [m EXCEPT !.role = NewRole(m, requests[r].role)] ELSE m : m \in members}
  /\ Granted(r)
  /\ requests' = [requests EXCEPT ![r].pc = "audit", ![r].row = None]
  /\ UNCHANGED <<flows, browsers, spent, users, audited, history>>

InsertMember(r) ==
  /\ requests[r].pc = "insertMember"
  /\ members' = members \cup {[id |-> r, user |-> requests[r].user, role |-> requests[r].role]}
  /\ requests' = [requests EXCEPT ![r].pc = "audit"]
  /\ Granted(r)
  /\ UNCHANGED <<flows, browsers, spent, users, audited, history>>

UpsertUser(r) ==
  /\ deployment.memory /\ requests[r].pc = "findUser"
  /\ users' = InsertedUser(requests[r].user)
  /\ requests' = [requests EXCEPT ![r].pc = AfterUser(requests[r].user \in users)]
  /\ UNCHANGED <<flows, browsers, spent, members, audited, grants, history>>

UpsertMembership(r) ==
  LET u == requests[r].user IN
  /\ deployment.memory /\ requests[r].pc = "findMember"
  /\ members' = IF Rows(u) = {}
                THEN members \cup {[id |-> r, user |-> u, role |-> requests[r].role]}
                ELSE {IF m.user = u THEN [m EXCEPT !.role = NewRole(m, requests[r].role)] ELSE m : m \in members}
  /\ requests' = [requests EXCEPT ![r].pc = "audit"]
  /\ Granted(r)
  /\ UNCHANGED <<flows, browsers, spent, users, audited, history>>

Audit(r) ==
  /\ requests[r].pc = "audit"
  /\ audited' = audited \cup {<<requests[r].user, requests[r].browser>>}
  /\ requests' = [requests EXCEPT ![r].pc = "respond"]
  /\ UNCHANGED <<flows, browsers, spent, users, members, grants, history>>

\* The response sets the session; the callback's also deletes the login cookie.
Respond(r) ==
  LET req == requests[r] IN
  /\ req.pc = "respond"
  /\ requests' = [requests EXCEPT ![r] = [@ EXCEPT !.pc = "in", !.role = "user"]]
  /\ browsers' = [browsers EXCEPT ![req.browser] =
       [login |-> IF req.flow = None THEN @.login ELSE None, session |-> req.user]]
  /\ disturbed' = disturbed \cup (IF req.flow = None THEN {} ELSE Others(req.browser, None))
  /\ UNCHANGED <<flows, spent, store, fixed>>

\* Any await of a request may throw.
Fail(r) ==
  /\ requests[r].pc \notin Ended \cup {"respond"}
  /\ requests' = [requests EXCEPT ![r] = Fresh("failed")]
  /\ UNCHANGED <<flows, browsers, spent, store, history>>

Continue(r) ==
  \/ ExchangeOidcCode(r) \/ FindUser(r) \/ InsertUser(r)
  \/ FindMember(r) \/ UpdateMember(r) \/ InsertMember(r)
  \/ UpsertUser(r) \/ UpsertMembership(r)
  \/ Audit(r) \/ Respond(r) \/ Fail(r)

Next ==
  \/ \E f \in Flows : Start(f) \/ Authenticate(f) \/ Expire(f)
  \/ \E r \in Requests, c, f \in Flows, b \in Browsers : Callback(r, c, f, b)
  \/ \E r \in Requests, b \in Browsers, u \in People : DevLogin(r, b, u)
  \/ \E r \in Requests : Continue(r)

Spec == Init /\ [][Next]_vars

(***************************************************************************)
(* Properties.                                                             *)
(***************************************************************************)
Pcs == Ended \cup {"exchange", "findUser", "insertUser",
                   "findMember", "updateMember", "insertMember", "audit", "respond"}

\* The session is a user's id; of the user's memberships getMembership returns any.
CurrentMemberships(b) == Rows(browsers[b].session)

\* authorizedJson, and requirePagePermission likewise, change nothing.
MayBeServed(b, permission) ==
  \E m \in CurrentMemberships(b) : authorizeRole(m.role, permission)

TypeOK ==
  /\ flows \in [Flows -> [phase : {"new", "started", "returned"}, browser : Browsers \cup {None},
                          user : People \cup {None}, fresh : BOOLEAN]]
  /\ requests \in [Requests -> [pc : Pcs, flow : Flows \cup {None}, code : Flows \cup {None},
                                browser : Browsers \cup {None}, user : People \cup {None}, role : Roles, row : Requests \cup {None}]]
  /\ browsers \in [Browsers -> [login : Flows \cup {None}, session : People \cup {None}]]
  /\ spent \subseteq Flows /\ users \subseteq People
  /\ members \subseteq [id : Requests \cup {None}, user : users, role : Roles]
  /\ audited \subseteq People \X Browsers
  /\ serial \in BOOLEAN /\ deployment \in Deployments
  /\ granted \in [People -> Roles \cup {"none"}]
  /\ elevated \subseteq People /\ disturbed \subseteq Flows

(***************************************************************************)
(* Whoever a browser is logged in as is a user and a member of the tenant, *)
(* and the login is in the audit log, although the three are written one   *)
(* after the other and any write may fail (callback and dev routes). Of    *)
(* logins one after the other, and in memory always, however often one     *)
(* person logs in, there is one membership, and so one role to be found    *)
(* (upsertMembership; the table has no unique constraint).                 *)
(***************************************************************************)
SessionsAreMembers ==
  /\ TypeOK
  /\ \A b \in Browsers :
       LET u == browsers[b].session IN
       u # None => u \in users /\ Rows(u) # {} /\ <<u, b>> \in audited
  /\ Ordered => \A m, n \in members : m.user = n.user => m = n

(***************************************************************************)
(* A browser is logged in through a login of its own: one that was begun   *)
(* in it, so that a callback opened elsewhere is not taken for a login     *)
(* there (validateCallbackState), and for somebody who signed in at the    *)
(* provider and whose email its settings allow (validateIdTokenClaims); or *)
(* through the development login, where it is allowed. A sign-in is good   *)
(* for one login, however often its callback is opened. That it was made   *)
(* for the flow whose state it comes with is not said, and not so.         *)
(***************************************************************************)
BegunHere(r, b) ==
  LET req == requests[r] IN
  /\ req.flow \in Flows /\ flows[req.flow].browser = b
  /\ req.code \in Flows /\ flows[req.code].user = req.user
  /\ req.user \in deployment.admitted

ByDevelopment(r) == requests[r].flow = None /\ deployment.devAuth

OwnLogin ==
  /\ \A b \in Browsers : browsers[b].session # None =>
       \E r \in Requests :
         /\ requests[r].pc = "in"
         /\ requests[r].browser = b /\ requests[r].user = browsers[b].session
         /\ BegunHere(r, b) \/ ByDevelopment(r)
  /\ \A q, r \in Requests :
       requests[q].pc = "in" /\ requests[r].pc = "in" /\ requests[q].code = requests[r].code =>
         q = r \/ requests[q].code = None

(***************************************************************************)
(* A callback is turned away, in the browser where the flow of its state   *)
(* began, only when it is late or another login used the cookie in the     *)
(* meantime.                                                               *)
(***************************************************************************)
RefusedForAReason ==
  \A r \in Requests :
    LET f == requests[r].flow IN
    requests[r].pc = "refused" /\ requests[r].browser = flows[f].browser =>
      ~flows[f].fresh \/ f \in disturbed

(***************************************************************************)
(* What a role keeps from ordinary users is served to a session only if    *)
(* its user came by the role through the development login, where it is    *)
(* allowed, or as the developer of the settings; and where requests have   *)
(* an order, only if the role last given to that user has it. A login at   *)
(* the identity provider ends whatever the user was before, and what       *)
(* belongs to the service is for nobody in a single company.               *)
(***************************************************************************)
ServedByRole ==
  \A b \in Browsers, p \in Permissions :
    LET u == browsers[b].session IN
    MayBeServed(b, p) =>
      /\ p \notin userPermissions =>
           \/ u = Developer
           \/ deployment.devAuth /\ u \in elevated
      /\ Ordered => authorizeRole(granted[u], p)
      /\ p = "provider:configure_service" => deployment.mode = "multi_tenant"
=============================================================================
