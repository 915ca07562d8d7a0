---------------------------- MODULE Login_proofs ----------------------------
(***************************************************************************)
(* Proofs about Login for any number of people, browsers, flows and        *)
(* requests, and for any set of deployments.                               *)
(***************************************************************************)
EXTENDS Login, TLAPS

----------------------------------------------------------------------------
(* The inductive invariant, in the parts the properties need.              *)

\* A request that knows whom it logs in, and where.
Working == Pcs \ {"idle", "failed", "refused"}

\* A request that has spent its code, if it came with one.
Past == Working \ {"exchange"}

\* Places after the row of users is there, and after the membership is.
Registered == {"findMember", "updateMember", "insertMember", "audit", "respond"}

Joined == {"audit", "respond"}

\* Places from which a request may still insert a membership.
Unborn == Pcs \ ({"refused", "failed", "in"} \cup Joined)

\* What a request has established when it comes to a place stays so.
Established(r) ==
  LET req == requests[r] IN
  /\ req.pc = "idle" => req.flow = None /\ req.code = None
  /\ req.pc \in Working => req.user \in People /\ req.browser \in Browsers
  /\ req.pc \in Registered => req.user \in users
  /\ req.pc = "updateMember" => \E m \in members : m.id = req.row /\ m.user = req.user
  /\ req.pc \in Joined => \E m \in members : m.user = req.user
  /\ req.pc = "respond" => <<req.user, req.browser>> \in audited

\* Where a request comes from: its browser began the flow of its state, and its
\* person signed in for the flow of its code.
Origin(r) ==
  LET req == requests[r] IN
  /\ req.pc \in {"exchange", "refused"} => req.flow # None
  /\ req.pc = "refused" => flows[req.flow].phase # "new"
  /\ req.pc \in Working /\ req.flow # None =>
       /\ flows[req.flow].phase # "new"
       /\ flows[req.flow].browser = req.browser
       /\ req.code # None
       /\ flows[req.code].phase = "returned"
       /\ flows[req.code].user = req.user
       /\ req.role = "user"
       /\ req.pc # "exchange" => req.user \in deployment.admitted
  /\ req.pc \in Working /\ req.flow = None => req.code = None /\ deployment.devAuth

\* The row a request may insert is not there before it does.
FreshRow(r) == requests[r].pc \in Unborn => \A m \in members : m.id # r

\* Of requests one after the other only one is under way, and in memory none
\* is between a select and its write.
Alone ==
  /\ serial => \A q, r \in Requests :
       q # r => requests[q].pc \in Ended \/ requests[r].pc \in Ended
  /\ serial => \A r \in Requests : requests[r].pc = "insertMember"
       => \A m \in members : m.user # requests[r].user
  /\ deployment.memory => \A r \in Requests :
       requests[r].pc \notin {"insertUser", "updateMember", "insertMember"}

MembersOK ==
  /\ \A m, n \in members : m.id = n.id => m = n
  /\ Ordered => \A m, n \in members : m.user = n.user => m = n
  /\ Ordered => \A m \in members : m.role = granted[m.user]
  /\ \A m \in members :
       \/ m.role = "user"
       \/ m.user = Developer
       \/ deployment.devAuth /\ m.user \in elevated

\* The cookie of a browser names the flow that was started there last, and
\* every other flow of that browser is one that another login disturbed.
FlowsOK ==
  /\ \A f \in Flows :
       /\ flows[f].phase = "returned" => flows[f].user \in People
       /\ flows[f].phase # "new" =>
            /\ flows[f].browser \in Browsers
            /\ f \in disturbed \/ browsers[flows[f].browser].login = f
  /\ \A b \in Browsers, f \in Flows :
       browsers[b].login = f => flows[f].phase # "new" /\ flows[f].browser = b

\* Where the person of a session comes from, and what is on record.
SessionOK(b) ==
  LET u == browsers[b].session IN
  u # None =>
    /\ \E m \in members : m.user = u
    /\ <<u, b>> \in audited
    /\ \E r \in Requests :
         /\ requests[r].pc = "in" /\ requests[r].browser = b /\ requests[r].user = u
         /\ BegunHere(r, b) \/ ByDevelopment(r)

RequestsOK == \A r \in Requests : Established(r) /\ Origin(r) /\ FreshRow(r)

SessionsOK == \A b \in Browsers : SessionOK(b)

\* A code is spent by the request that comes past the exchange with it, and by
\* no other.
CodesOnce ==
  /\ \A r \in Requests :
       requests[r].pc \in Past /\ requests[r].code # None => requests[r].code \in spent
  /\ \A q, r \in Requests :
       /\ requests[q].pc \in Past /\ requests[r].pc \in Past
       /\ requests[q].code = requests[r].code /\ requests[q].code # None
       => q = r

LoginInv ==
  /\ TypeOK /\ RequestsOK /\ Alone /\ MembersOK /\ FlowsOK
  /\ SessionsOK /\ CodesOnce /\ RefusedForAReason
----------------------------------------------------------------------------
(* What every step keeps.                                                  *)

RequestRecord ==
  [pc : Pcs, flow : Flows \cup {None}, code : Flows \cup {None}, browser : Browsers \cup {None},
   user : People \cup {None}, role : Roles, row : Requests \cup {None}]

MemberRecord == [id : Requests \cup {None}, user : People, role : Roles]

\* The steps that are taken for a request.
Serve(r) ==
  \/ Continue(r)
  \/ \E c, f \in Flows, b \in Browsers : Callback(r, c, f, b)
  \/ \E b \in Browsers, u \in People : DevLogin(r, b, u)

Visit(f) == Start(f) \/ Authenticate(f) \/ Expire(f)

LEMMA NextCases ==
  ASSUME Next
  PROVE  (\E r \in Requests : Serve(r)) \/ (\E f \in Flows : Visit(f))
BY DEF Next, Serve, Visit

\* The parts of the type invariant that the other proofs use.
LEMMA Types ==
  ASSUME TypeOK
  PROVE  /\ requests \in [Requests -> RequestRecord]
         /\ members \subseteq MemberRecord
         /\ \A m \in members : m.user \in users /\ m.user \in People
         /\ flows \in [Flows -> [phase : {"new", "started", "returned"},
                                  browser : Browsers \cup {None},
                                  user : People \cup {None}, fresh : BOOLEAN]]
         /\ browsers \in [Browsers -> [login : Flows \cup {None},
                                        session : People \cup {None}]]
         /\ granted \in [People -> Roles \cup {"none"}]
         /\ deployment \in DeploymentType
BY LoginAssumption DEF TypeOK, RequestRecord, MemberRecord, LoginAssumption

LEMMA RolesTyped ==
  ASSUME deployment \in DeploymentType
  PROVE  DevRole \in Roles /\ OidcRole \in Roles /\ SeededRole(deployment) \in Roles
BY DEF DevRole, OidcRole, SeededRole, DeploymentType, Roles

\* A request that failed has forgotten everything.
LEMMA FreshTyped ==
  ASSUME NEW pc \in Pcs
  PROVE  Fresh(pc) \in RequestRecord /\ Fresh(pc).pc = pc /\ Fresh(pc).flow = None
         /\ Fresh(pc).code = None
BY DEF Fresh, RequestRecord, Roles

LEMMA LoginInit == Init => LoginInv
<1> SUFFICES ASSUME Init PROVE LoginInv
  OBVIOUS
<1>1. deployment \in DeploymentType /\ Developer \in People /\ None \notin Flows
  BY LoginAssumption DEF Init, LoginAssumption
<1>2. \A r \in Requests : requests[r] = Fresh("idle") /\ requests[r].pc = "idle"
                          /\ requests[r].flow = None /\ requests[r].code = None
  BY DEF Init, Fresh
<1>3. \A b \in Browsers : browsers[b].login = None /\ browsers[b].session = None
  BY DEF Init
<1>4. \A f \in Flows : flows[f].phase = "new"
  BY DEF Init
<1>5. TypeOK
  <2>1. requests \in [Requests -> RequestRecord]
    BY FreshTyped DEF Init, Pcs, Ended
  <2>2. members \subseteq [id : Requests \cup {None}, user : users, role : Roles]
    BY <1>1, RolesTyped DEF Init
  <2>3. granted \in [People -> Roles \cup {"none"}]
    BY <1>1, RolesTyped DEF Init
  <2> QED
    BY <1>1, <2>1, <2>2, <2>3 DEF Init, TypeOK, RequestRecord
<1>6. RequestsOK
  BY <1>2, LoginAssumption
  DEF RequestsOK, Established, Origin, FreshRow, Working, Registered, Joined, Init,
    LoginAssumption
<1>7. Alone
  BY <1>2 DEF Alone, Ended
<1>8. MembersOK
  BY <1>1 DEF MembersOK, Init
<1>9. FlowsOK /\ SessionsOK
  BY <1>1, <1>3, <1>4 DEF FlowsOK, SessionsOK, SessionOK
<1>10. RefusedForAReason /\ CodesOnce
  BY <1>2 DEF RefusedForAReason, CodesOnce, Past, Working
<1> QED
  BY <1>5, <1>6, <1>7, <1>8, <1>9, <1>10 DEF LoginInv

\* Where a request is moved by a step of its own, the others are not.
LEMMA OthersWait ==
  ASSUME TypeOK, NEW r \in Requests, Serve(r)
  PROVE  /\ \A q \in Requests \ {r} : requests'[q] = requests[q]
         /\ UNCHANGED <<flows, fixed>>
         /\ requests[r].pc \notin {"in", "refused", "failed"}
<1>1. requests \in [Requests -> RequestRecord]
  BY Types
<1>2. CASE \/ \E c, f \in Flows, b \in Browsers : Callback(r, c, f, b)
           \/ \E b \in Browsers, u \in People : DevLogin(r, b, u)
  BY <1>1, <1>2 DEF Callback, DevLogin, MayArrive, store, history, fixed
<1>3. CASE ExchangeOidcCode(r) \/ Fail(r)
  BY <1>1, <1>3 DEF ExchangeOidcCode, Fail, Ended, store, history, fixed
<1>4. CASE FindUser(r) \/ InsertUser(r) \/ UpsertUser(r)
  BY <1>1, <1>4 DEF FindUser, InsertUser, UpsertUser, store, history, fixed
<1>5. CASE FindMember(r) \/ UpdateMember(r) \/ InsertMember(r) \/ UpsertMembership(r)
  BY <1>1, <1>5 DEF FindMember, UpdateMember, InsertMember, UpsertMembership, store,
    history, fixed
<1>6. CASE Audit(r) \/ Respond(r)
  BY <1>1, <1>6 DEF Audit, Respond, store, history, fixed
<1> QED
  BY <1>2, <1>3, <1>4, <1>5, <1>6 DEF Serve, Continue

\* The steps that write memberships.
Enrol(r) == UpdateMember(r) \/ InsertMember(r) \/ UpsertMembership(r)

\* A membership is written for the user of the request: an existing row of the
\* user's gets the request's role, or a row of the request's own is added.
Rewritten(r, n, m) ==
  /\ n.id = m.id /\ n.user = m.user
  /\ \/ m.user # requests[r].user /\ n.role = m.role
     \/ m.user = requests[r].user /\ n.role \in {m.role, requests[r].role}

Added(r, n) ==
  /\ n = [id |-> r, user |-> requests[r].user, role |-> requests[r].role]
  /\ requests[r].pc \in Unborn

LEMMA EnrolWrites ==
  ASSUME LoginInv, NEW r \in Requests, Enrol(r)
  PROVE  /\ requests[r] \in RequestRecord /\ requests[r].user \in users
         /\ requests[r].user \in People /\ requests[r].role \in Roles
         /\ requests' = [requests EXCEPT ![r] = requests'[r]]
         /\ requests'[r] \in RequestRecord /\ requests'[r].pc = "audit"
         /\ requests'[r].user = requests[r].user /\ requests'[r].flow = requests[r].flow
         /\ requests'[r].browser = requests[r].browser
         /\ requests'[r].role = requests[r].role /\ requests'[r].code = requests[r].code
         /\ Granted(r)
         /\ UNCHANGED <<flows, browsers, spent, users, audited, history>>
         /\ members' \subseteq MemberRecord
         /\ \A m \in members : \E n \in members' : Rewritten(r, n, m)
         /\ \A n \in members' : Added(r, n) \/ \E m \in members : Rewritten(r, n, m)
         /\ \A n, k \in members' : n.id = k.id => n = k
         /\ \E n \in members' : n.user = requests[r].user
<1>1. /\ requests \in [Requests -> RequestRecord] /\ requests[r] \in RequestRecord
      /\ members \subseteq MemberRecord
      /\ \A m, n \in members : m.id = n.id => m = n
      /\ None \notin Requests
  BY Types, LoginAssumption DEF LoginInv, MembersOK, LoginAssumption
<1>2. requests[r].pc \in {"findMember", "updateMember", "insertMember"}
  BY DEF Enrol, UpdateMember, InsertMember, UpsertMembership
<1>3. /\ requests[r].user \in users /\ requests[r].user \in People
      /\ requests[r].role \in Roles
      /\ requests[r].pc \in Unborn
      /\ requests[r].pc = "updateMember"
           => \E m \in members : m.id = requests[r].row /\ m.user = requests[r].user
      /\ \A m \in members : m.id # r
  BY <1>1, <1>2 DEF LoginInv, RequestsOK, Established, FreshRow, Registered, Working,
    Joined, Pcs, Ended, Unborn, RequestRecord
<1>4. /\ requests' = [requests EXCEPT ![r] = requests'[r]]
      /\ requests'[r] \in RequestRecord /\ requests'[r].pc = "audit"
      /\ requests'[r].user = requests[r].user /\ requests'[r].flow = requests[r].flow
      /\ requests'[r].browser = requests[r].browser
      /\ requests'[r].role = requests[r].role /\ requests'[r].code = requests[r].code
  BY <1>1 DEF Enrol, UpdateMember, InsertMember, UpsertMembership, RequestRecord, Pcs
<1>5. /\ Granted(r)
      /\ UNCHANGED <<flows, browsers, spent, users, audited, history>>
  BY DEF Enrol, UpdateMember, InsertMember, UpsertMembership
<1> DEFINE row == [id |-> r, user |-> requests[r].user, role |-> requests[r].role]
<1>6. row \in MemberRecord /\ Added(r, row) /\ row.id = r /\ row.user = requests[r].user
  BY <1>3 DEF MemberRecord, Added
<1>7. ASSUME members' = members \cup {row}
      PROVE  /\ members' \subseteq MemberRecord
             /\ \A m \in members : \E n \in members' : Rewritten(r, n, m)
             /\ \A n \in members' : Added(r, n) \/ \E m \in members : Rewritten(r, n, m)
             /\ \A n, k \in members' : n.id = k.id => n = k
             /\ \E n \in members' : n.user = requests[r].user
  <2>1. \A m \in members : Rewritten(r, m, m)
    BY DEF Rewritten
  <2> HIDE DEF row
  <2> QED
    BY <1>1, <1>3, <1>6, <1>7, <2>1
<1>8. ASSUME \E m \in members : m.user = requests[r].user,
             \E hit \in SUBSET members :
               /\ \A m \in hit : m.user = requests[r].user
               /\ members' = {IF m \in hit THEN [m EXCEPT !.role = requests[r].role] ELSE m
                                : m \in members}
      PROVE  /\ members' \subseteq MemberRecord
             /\ \A m \in members : \E n \in members' : Rewritten(r, n, m)
             /\ \A n \in members' : Added(r, n) \/ \E m \in members : Rewritten(r, n, m)
             /\ \A n, k \in members' : n.id = k.id => n = k
             /\ \E n \in members' : n.user = requests[r].user
  <2>0. PICK hit \in SUBSET members :
          /\ \A m \in hit : m.user = requests[r].user
          /\ members' = {IF m \in hit THEN [m EXCEPT !.role = requests[r].role] ELSE m
                           : m \in members}
    BY <1>8
  <2> DEFINE new(m) == IF m \in hit THEN [m EXCEPT !.role = requests[r].role] ELSE m
  <2>1. \A m \in members : new(m) \in MemberRecord /\ Rewritten(r, new(m), m)
    BY <1>1, <1>3, <2>0 DEF MemberRecord, Rewritten
  <2>2. members' = {new(m) : m \in members}
    BY <2>0
  <2> HIDE DEF new
  <2>3. \A m \in members : new(m).id = m.id /\ new(m).user = m.user
    BY <2>1 DEF Rewritten
  <2> QED
    BY <1>1, <1>8, <2>1, <2>2, <2>3
<1>9. CASE UpdateMember(r)
  <2> DEFINE hit == {m \in members : m.id = requests[r].row}
  <2>1. PICK mine \in members : mine.id = requests[r].row /\ mine.user = requests[r].user
    BY <1>3, <1>9 DEF UpdateMember
  <2>2. hit \in SUBSET members /\ \A m \in hit : m.user = requests[r].user
    BY <1>1, <2>1
  <2>3. members' = {IF m \in hit THEN [m EXCEPT !.role = requests[r].role] ELSE m
                      : m \in members}
    BY <1>9 DEF UpdateMember, NewRole
  <2> HIDE DEF hit
  <2> QED
    BY <1>3, <1>4, <1>5, <1>8, <1>1, <2>1, <2>2, <2>3
<1>10. CASE InsertMember(r)
  BY <1>1, <1>3, <1>4, <1>5, <1>7, <1>10 DEF InsertMember
<1>11. CASE UpsertMembership(r)
  <2>1. CASE Rows(requests[r].user) = {}
    BY <1>1, <1>3, <1>4, <1>5, <1>7, <1>11, <2>1 DEF UpsertMembership
  <2>2. CASE Rows(requests[r].user) # {}
    <3> DEFINE hit == Rows(requests[r].user)
    <3>1. \E m \in members : m.user = requests[r].user
      BY <2>2 DEF Rows
    <3>2. members' = {IF m \in hit THEN [m EXCEPT !.role = requests[r].role] ELSE m
                        : m \in members}
      BY <1>11, <2>2 DEF UpsertMembership, NewRole, Rows
    <3>3. hit \in SUBSET members /\ \A m \in hit : m.user = requests[r].user
      BY DEF Rows
    <3> HIDE DEF hit
    <3> QED
      BY <1>1, <1>3, <1>4, <1>5, <1>8, <3>1, <3>2, <3>3
  <2> QED
    BY <2>1, <2>2
<1> QED
  BY <1>9, <1>10, <1>11 DEF Enrol

\* Where requests have an order, the user of the request has one row afterwards,
\* with the role of the request.
LEMMA EnrolOrdered ==
  ASSUME LoginInv, NEW r \in Requests, Enrol(r), Ordered
  PROVE  /\ \A n \in members' : n.user = requests[r].user => n.role = requests[r].role
         /\ \A n, k \in members' : n.user = k.user => n = k
<1>1. /\ requests \in [Requests -> RequestRecord] /\ requests[r] \in RequestRecord
      /\ members \subseteq MemberRecord
      /\ \A m, n \in members : m.user = n.user => m = n
  BY Types DEF LoginInv, MembersOK
<1> DEFINE u == requests[r].user
           row == [id |-> r, user |-> u, role |-> requests[r].role]
<1>2. ASSUME members' = members \cup {row}, \A m \in members : m.user # u
      PROVE  /\ \A n \in members' : n.user = u => n.role = requests[r].role
             /\ \A n, k \in members' : n.user = k.user => n = k
  <2>1. row.user = u /\ row.role = requests[r].role
    OBVIOUS
  <2> HIDE DEF row, u
  <2> QED
    BY <1>1, <1>2, <2>1
<1>3. ASSUME \E hit \in SUBSET members :
               /\ \A m \in members : m.user = u => m \in hit
               /\ \A m \in hit : m.user = u
               /\ members' = {IF m \in hit THEN [m EXCEPT !.role = requests[r].role] ELSE m
                                : m \in members}
      PROVE  /\ \A n \in members' : n.user = u => n.role = requests[r].role
             /\ \A n, k \in members' : n.user = k.user => n = k
  <2>1. PICK hit \in SUBSET members :
          /\ \A m \in members : m.user = u => m \in hit
          /\ \A m \in hit : m.user = u
          /\ members' = {IF m \in hit THEN [m EXCEPT !.role = requests[r].role] ELSE m
                           : m \in members}
    BY <1>3
  <2> DEFINE new(m) == IF m \in hit THEN [m EXCEPT !.role = requests[r].role] ELSE m
  <2>2. \A m \in members : /\ new(m).user = m.user
                           /\ m.user = u => new(m).role = requests[r].role
    BY <1>1, <2>1 DEF MemberRecord
  <2>3. members' = {new(m) : m \in members}
    BY <2>1
  <2> HIDE DEF new, u
  <2> QED
    BY <1>1, <2>2, <2>3
<1>4. CASE UpdateMember(r)
  <2> DEFINE hit == {m \in members : m.id = requests[r].row}
  <2>1. PICK mine \in members : mine.id = requests[r].row /\ mine.user = u
    BY <1>4 DEF UpdateMember, LoginInv, RequestsOK, Established
  <2>2. \A m, n \in members : m.id = n.id => m = n
    BY DEF LoginInv, MembersOK
  <2>3. /\ hit \in SUBSET members /\ \A m \in hit : m.user = u
        /\ \A m \in members : m.user = u => m \in hit
    BY <1>1, <2>1, <2>2
  <2>4. members' = {IF m \in hit THEN [m EXCEPT !.role = requests[r].role] ELSE m
                      : m \in members}
    BY <1>4 DEF UpdateMember, NewRole
  <2> HIDE DEF hit
  <2> QED
    BY <1>3, <2>3, <2>4
<1>5. CASE InsertMember(r)
  <2>1. requests[r].pc = "insertMember" /\ serial
    BY <1>5 DEF InsertMember, Ordered, LoginInv, Alone
  <2>2. \A m \in members : m.user # u
    BY <2>1 DEF LoginInv, Alone
  <2>3. members' = members \cup {row}
    BY <1>5 DEF InsertMember
  <2> QED
    BY <1>2, <2>2, <2>3
<1>6. CASE UpsertMembership(r)
  <2>1. CASE Rows(u) = {}
    <3>1. members' = members \cup {row} /\ \A m \in members : m.user # u
      BY <1>6, <2>1 DEF UpsertMembership, Rows
    <3> QED
      BY <1>2, <3>1
  <2>2. CASE Rows(u) # {}
    <3> DEFINE hit == Rows(u)
    <3>1. members' = {IF m \in hit THEN [m EXCEPT !.role = requests[r].role] ELSE m
                        : m \in members}
      BY <1>6, <2>2 DEF UpsertMembership, NewRole, Rows
    <3>2. /\ hit \in SUBSET members /\ \A m \in hit : m.user = u
          /\ \A m \in members : m.user = u => m \in hit
      BY DEF Rows
    <3> HIDE DEF hit
    <3> QED
      BY <1>3, <3>1, <3>2
  <2> QED
    BY <2>1, <2>2
<1> QED
  BY <1>4, <1>5, <1>6 DEF Enrol

\* The other steps of a request leave the memberships and their history alone.
LEMMA OthersEnrolNobody ==
  ASSUME LoginInv, NEW r \in Requests, Serve(r), ~Enrol(r)
  PROVE  /\ UNCHANGED <<members, grants>>
         /\ users \subseteq users' /\ users' \subseteq People
         /\ audited \subseteq audited' /\ audited' \subseteq People \X Browsers
         /\ spent' \subseteq Flows
         /\ requests'[r] \in RequestRecord
         /\ requests' = [requests EXCEPT ![r] = requests'[r]]
         /\ Established(r)' /\ Origin(r)'
         /\ requests'[r].pc \in Unborn => requests[r].pc \in Unborn
<1>1. /\ TypeOK /\ requests \in [Requests -> RequestRecord] /\ requests[r] \in RequestRecord
      /\ members \subseteq MemberRecord
      /\ deployment \in DeploymentType /\ None \notin Flows
  BY Types, LoginAssumption DEF LoginInv, LoginAssumption
<1>2. Established(r) /\ Origin(r)
  BY DEF LoginInv, RequestsOK
<1>3. Fresh("failed") \in RequestRecord /\ Fresh("failed").pc = "failed"
  BY FreshTyped DEF Pcs, Ended
<1>4. /\ users \subseteq People /\ audited \subseteq People \X Browsers /\ spent \subseteq Flows
  BY <1>1 DEF TypeOK
<1>5. OidcRole \in Roles /\ DevRole \in Roles
  BY <1>1, RolesTyped
<1> USE DEF Established, Origin, Working, Registered, Joined, Unborn, Pcs, Ended, store,
      grants, history, fixed
<1>6. CASE \E c, f \in Flows, b \in Browsers : Callback(r, c, f, b)
  <2>1. PICK c, f \in Flows, b \in Browsers : Callback(r, c, f, b)
    BY <1>6
  <2>2. /\ requests[r].pc = "idle" /\ flows[c].phase = "returned" /\ flows[f].phase # "new"
        /\ UNCHANGED <<flows, spent, users, members, audited, granted, elevated, deployment>>
        /\ flows[c].user \in People
    BY <2>1 DEF Callback, MayArrive, LoginInv, FlowsOK
  <2>3. CASE ValidateCallbackState(f, browsers[b].login)
    <3> DEFINE new == [requests[r] EXCEPT !.pc = "exchange", !.flow = f, !.code = c,
                         !.browser = b, !.user = flows[c].user, !.role = OidcRole]
    <3>1. requests' = [requests EXCEPT ![r] = new]
      BY <2>1, <2>3 DEF Callback
    <3>2. flows[f].browser = b
      BY <2>3 DEF ValidateCallbackState, LoginInv, FlowsOK
    <3> QED
      BY <1>1, <1>4, <1>5, <2>2, <3>1, <3>2 DEF RequestRecord, OidcRole
  <2>4. CASE ~ValidateCallbackState(f, browsers[b].login)
    <3> DEFINE new == [requests[r] EXCEPT !.pc = "refused", !.flow = f, !.browser = b]
    <3>1. requests' = [requests EXCEPT ![r] = new]
      BY <2>1, <2>4 DEF Callback
    <3> QED
      BY <1>1, <1>4, <2>2, <3>1 DEF RequestRecord
  <2> QED
    BY <2>3, <2>4
<1>7. CASE \E b \in Browsers, u \in People : DevLogin(r, b, u)
  <2>1. PICK b \in Browsers, u \in People : DevLogin(r, b, u)
    BY <1>7
  <2>2. /\ requests[r].pc = "idle" /\ requests[r].flow = None /\ requests[r].code = None
        /\ deployment.devAuth
        /\ UNCHANGED <<flows, spent, users, members, audited, granted, elevated, deployment>>
    BY <1>2, <2>1 DEF DevLogin, MayArrive, developmentAuthAllowed
  <2> DEFINE new == [requests[r] EXCEPT !.pc = "findUser", !.browser = b, !.user = u,
                                        !.role = DevRole]
  <2>3. requests' = [requests EXCEPT ![r] = new]
    BY <2>1 DEF DevLogin
  <2>4. /\ new \in RequestRecord /\ new.pc = "findUser" /\ new.flow = None
        /\ new.code = None /\ new.browser = b /\ new.user = u
    BY <1>1, <1>5, <2>2 DEF RequestRecord
  <2> HIDE DEF new
  <2>5. requests'[r] = new
    BY <1>1, <2>3
  <2>6. Established(r)' /\ Origin(r)'
    BY <2>2, <2>4, <2>5
  <2> QED
    BY <1>4, <2>2, <2>3, <2>4, <2>5, <2>6
<1>8. CASE ExchangeOidcCode(r)
  BY <1>1, <1>2, <1>3, <1>4, <1>8 DEF ExchangeOidcCode, validateIdTokenClaims, RequestRecord
<1>10. CASE Fail(r)
  BY <1>1, <1>2, <1>3, <1>4, <1>10 DEF Fail
<1>11. CASE FindUser(r)
  BY <1>1, <1>2, <1>4, <1>11 DEF FindUser, AfterUser, RequestRecord
<1>13. CASE InsertUser(r)
  BY <1>1, <1>2, <1>3, <1>4, <1>13 DEF InsertUser, InsertedUser, AfterUser, RequestRecord
<1>14. CASE UpsertUser(r)
  BY <1>1, <1>2, <1>4, <1>14 DEF UpsertUser, InsertedUser, AfterUser, RequestRecord
<1>15. CASE FindMember(r)
  BY <1>1, <1>2, <1>4, <1>15 DEF FindMember, Rows, RequestRecord, MemberRecord
<1>16. CASE Audit(r)
  BY <1>1, <1>2, <1>4, <1>16 DEF Audit, RequestRecord
<1>17. CASE Respond(r)
  <2>1. /\ requests[r].pc = "respond"
        /\ requests' = [requests EXCEPT ![r] = requests'[r]]
        /\ requests'[r] = [requests[r] EXCEPT !.pc = "in", !.role = "user"]
        /\ UNCHANGED <<flows, spent, users, members, audited, granted, elevated, deployment>>
    BY <1>1, <1>17 DEF Respond
  <2>2. /\ requests'[r] \in RequestRecord
        /\ requests'[r].pc = "in"
    BY <1>1, <2>1 DEF RequestRecord, Roles
  <2>3. /\ requests'[r].flow = requests[r].flow /\ requests'[r].user = requests[r].user
        /\ requests'[r].browser = requests[r].browser /\ requests'[r].role = "user"
    BY <1>1, <2>1 DEF RequestRecord
  <2>4. Established(r)' /\ Origin(r)'
    BY <1>2, <2>1, <2>2, <2>3
  <2> QED
    BY <1>4, <2>1, <2>2, <2>4
<1> QED
  BY <1>6, <1>7, <1>8, <1>10, <1>11, <1>13, <1>14, <1>15, <1>16, <1>17
  DEF Serve, Continue, Enrol

\* What all steps of a request have in common: rows and events are only added,
\* a row stays its user's, and a new one is the request's own.
LEMMA ServeKeeps ==
  ASSUME LoginInv, NEW r \in Requests, Serve(r)
  PROVE  /\ requests' = [requests EXCEPT ![r] = requests'[r]]
         /\ requests'[r] \in RequestRecord
         /\ Established(r)' /\ Origin(r)' /\ FreshRow(r)'
         /\ users \subseteq users' /\ users' \subseteq People
         /\ audited \subseteq audited' /\ audited' \subseteq People \X Browsers
         /\ spent' \subseteq Flows
         /\ members' \subseteq [id : Requests \cup {None}, user : users', role : Roles]
         /\ \A m \in members : \E n \in members' : n.id = m.id /\ n.user = m.user
         /\ \A n \in members' :
              n.id = r \/ \E m \in members : n.id = m.id /\ n.user = m.user
<1>1. CASE ~Enrol(r)
  <2>1. UNCHANGED members /\ FreshRow(r)'
    BY <1>1, OthersEnrolNobody DEF LoginInv, RequestsOK, FreshRow, grants
  <2>2. members \subseteq [id : Requests \cup {None}, user : users, role : Roles]
    BY DEF LoginInv, TypeOK
  <2>3. members' \subseteq [id : Requests \cup {None}, user : users', role : Roles]
    BY <1>1, <2>1, <2>2, OthersEnrolNobody
  <2> QED
    BY <1>1, <2>1, <2>3, OthersEnrolNobody
<1>2. CASE Enrol(r)
  <2>1. /\ users \subseteq People /\ audited \subseteq People \X Browsers /\ spent \subseteq Flows
        /\ members \subseteq [id : Requests \cup {None}, user : users, role : Roles]
        /\ UNCHANGED <<users, audited, spent, flows, deployment>>
    BY <1>2, EnrolWrites DEF LoginInv, TypeOK, history, fixed
  <2>2. /\ requests[r] \in RequestRecord
        /\ requests[r].pc \in {"findMember", "updateMember", "insertMember"}
    BY <1>2, EnrolWrites DEF Enrol, UpdateMember, InsertMember, UpsertMembership
  <2>3. Established(r)'
    BY <1>2, <2>1, <2>2, EnrolWrites
    DEF LoginInv, RequestsOK, Established, Working, Registered, Joined, Pcs, Ended
  <2>4. Origin(r)'
    BY <1>2, <2>1, <2>2, EnrolWrites
    DEF LoginInv, RequestsOK, Origin, Working, Pcs, Ended
  <2>5. FreshRow(r)'
    BY <1>2, EnrolWrites DEF FreshRow, Unborn, Joined
  <2>6. members' \subseteq [id : Requests \cup {None}, user : users', role : Roles]
    <3> SUFFICES ASSUME NEW n \in members'
                 PROVE  n \in [id : Requests \cup {None}, user : users, role : Roles]
      BY <2>1
    <3>1. n \in MemberRecord /\ n.user \in users
      <4>1. CASE Added(r, n)
        BY <1>2, <4>1, EnrolWrites DEF Added
      <4>2. CASE \E m \in members : Rewritten(r, n, m)
        BY <1>2, <2>1, <4>2, EnrolWrites DEF Rewritten
      <4> QED
        BY <1>2, <4>1, <4>2, EnrolWrites
    <3> QED
      BY <3>1 DEF MemberRecord
  <2>7. \A m \in members : \E n \in members' : n.id = m.id /\ n.user = m.user
    BY <1>2, EnrolWrites DEF Rewritten
  <2>8. \A n \in members' :
          n.id = r \/ \E m \in members : n.id = m.id /\ n.user = m.user
    BY <1>2, EnrolWrites DEF Rewritten, Added
  <2> QED
    BY <1>2, <2>1, <2>3, <2>4, <2>5, <2>6, <2>7, <2>8, EnrolWrites
<1> QED
  BY <1>1, <1>2

\* Nobody else's request is disturbed by what one request writes.
LEMMA RequestsServe ==
  ASSUME LoginInv, NEW r \in Requests, Serve(r)
  PROVE  RequestsOK'
<1> SUFFICES ASSUME NEW q \in Requests
             PROVE  Established(q)' /\ Origin(q)' /\ FreshRow(q)'
  BY DEF RequestsOK
<1>1. CASE q = r
  BY <1>1, ServeKeeps
<1>2. CASE q # r
  <2>1. requests'[q] = requests[q] /\ UNCHANGED <<flows, fixed>>
    BY <1>2, OthersWait DEF LoginInv
  <2>2. Established(q) /\ Origin(q) /\ FreshRow(q)
    BY DEF LoginInv, RequestsOK
  <2>3. Established(q)'
    <3>1. /\ users \subseteq users' /\ audited \subseteq audited'
          /\ \A m \in members : \E n \in members' : n.id = m.id /\ n.user = m.user
      BY ServeKeeps
    <3> QED
      BY <2>1, <2>2, <3>1 DEF Established
  <2>4. Origin(q)'
    BY <2>1, <2>2 DEF Origin, fixed
  <2>5. FreshRow(q)'
    <3>1. \A n \in members' :
            n.id = r \/ \E m \in members : n.id = m.id /\ n.user = m.user
      BY ServeKeeps
    <3> QED
      BY <1>2, <2>1, <2>2, <3>1 DEF FreshRow
  <2> QED
    BY <2>3, <2>4, <2>5
<1> QED
  BY <1>1, <1>2

LEMMA TypeServe ==
  ASSUME LoginInv, NEW r \in Requests, Serve(r)
  PROVE  TypeOK'
<1>1. /\ TypeOK /\ requests \in [Requests -> RequestRecord]
      /\ UNCHANGED <<flows, fixed>>
  BY Types, OthersWait DEF LoginInv
<1>2. requests' \in [Requests -> RequestRecord]
  BY <1>1, ServeKeeps
<1>3. granted' \in [People -> Roles \cup {"none"}] /\ elevated' \subseteq People
  <2>1. CASE Enrol(r)
    <3>1. /\ requests[r].user \in People /\ requests[r].role \in Roles /\ Granted(r)
      BY <2>1, EnrolWrites
    <3>2. granted \in [People -> Roles \cup {"none"}] /\ elevated \subseteq People
      BY <1>1 DEF TypeOK
    <3> QED
      BY <3>1, <3>2 DEF Granted
  <2>2. CASE ~Enrol(r)
    BY <1>1, <2>2, OthersEnrolNobody DEF TypeOK, grants
  <2> QED
    BY <2>1, <2>2
<1>4. /\ browsers' \in [Browsers -> [login : Flows \cup {None}, session : People \cup {None}]]
      /\ disturbed' \subseteq Flows
  <2>1. CASE Respond(r)
    <3>1. requests[r].user \in People /\ requests[r].browser \in Browsers
      BY <2>1 DEF Respond, LoginInv, RequestsOK, Established, Working, Pcs, Ended
    <3> QED
      BY <1>1, <2>1, <3>1 DEF Respond, Others, TypeOK
  <2>2. CASE ~Respond(r)
    <3>1. UNCHANGED <<browsers, disturbed>>
      BY <2>2 DEF Serve, Continue, Callback, DevLogin, ExchangeOidcCode,
        FindUser, InsertUser, FindMember, UpdateMember,
        InsertMember, UpsertUser, UpsertMembership, Audit, Fail, history
    <3> QED
      BY <1>1, <3>1 DEF TypeOK
  <2> QED
    BY <2>1, <2>2
<1> QED
  BY <1>1, <1>2, <1>3, <1>4, ServeKeeps DEF TypeOK, RequestRecord, fixed

LEMMA MembersServe ==
  ASSUME LoginInv, NEW r \in Requests, Serve(r)
  PROVE  MembersOK'
<1>1. MembersOK /\ (Ordered' <=> Ordered) /\ UNCHANGED deployment
  BY OthersWait DEF LoginInv, Ordered, fixed
<1>2. CASE ~Enrol(r)
  <2>1. UNCHANGED <<members, granted, elevated>>
    BY <1>2, OthersEnrolNobody DEF grants
  <2> QED
    BY <1>1, <2>1 DEF MembersOK
<1>3. CASE Enrol(r)
  <2> DEFINE u == requests[r].user
  <2>1. /\ u \in People /\ Granted(r)
        /\ granted \in [People -> Roles \cup {"none"}]
    BY <1>3, EnrolWrites DEF LoginInv, TypeOK
  <2>2. /\ Ordered => granted'[u] = requests[r].role
        /\ \A v \in People : v # u => granted'[v] = granted[v]
        /\ elevated \subseteq elevated'
        /\ requests[r].flow = None => u \in elevated'
    BY <2>1 DEF Granted
  <2>3. requests[r].role = "user" \/ (deployment.devAuth /\ u \in elevated')
    BY <1>3, <2>2 DEF Enrol, UpdateMember, InsertMember, UpsertMembership, LoginInv,
      RequestsOK, Origin, Working, Pcs, Ended
  <2>4. members \subseteq MemberRecord
    BY Types DEF LoginInv
  <2>5. ASSUME NEW n \in members'
        PROVE  /\ Ordered => n.role = granted'[n.user]
               /\ \/ n.role = "user" \/ n.user = Developer
                  \/ deployment.devAuth /\ n.user \in elevated'
    <3>1. CASE n.user = u
      <4>1. Ordered => n.role = granted'[n.user]
        BY <1>3, <2>2, <3>1, EnrolOrdered
      <4>2. \/ n.role = requests[r].role
            \/ \E m \in members : m.user = u /\ n.role = m.role
        BY <1>3, <3>1, EnrolWrites DEF Rewritten, Added
      <4>3. \/ n.role = "user" \/ n.user = Developer
            \/ deployment.devAuth /\ n.user \in elevated'
        BY <1>1, <2>2, <2>3, <3>1, <4>2 DEF MembersOK
      <4> QED
        BY <4>1, <4>3
    <3>2. CASE n.user # u
      <4>1. PICK m \in members : n.user = m.user /\ n.role = m.role
        BY <1>3, <3>2, EnrolWrites DEF Rewritten, Added
      <4>2. m.user \in People
        BY <2>4 DEF MemberRecord
      <4> QED
        BY <1>1, <2>2, <3>2, <4>1, <4>2 DEF MembersOK
    <3> QED
      BY <3>1, <3>2
  <2>6. /\ \A m, n \in members' : m.id = n.id => m = n
        /\ Ordered => \A m, n \in members' : m.user = n.user => m = n
    BY <1>3, EnrolWrites, EnrolOrdered
  <2> HIDE DEF u
  <2> QED
    BY <1>1, <2>5, <2>6 DEF MembersOK
<1> QED
  BY <1>2, <1>3

\* A request comes to an insert of a membership only by not finding one, and in
\* memory it never does.
LEMMA PlacesServe ==
  ASSUME LoginInv, NEW r \in Requests, Serve(r)
  PROVE  /\ requests'[r].pc = "insertMember" => FindMember(r)
         /\ deployment.memory => requests'[r].pc \notin
              {"insertUser", "updateMember", "insertMember"}
<1>1. /\ requests \in [Requests -> RequestRecord] /\ requests[r] \in RequestRecord
      /\ Fresh("failed").pc = "failed"
      /\ deployment.memory => requests[r].pc \notin
           {"insertUser", "updateMember", "insertMember"}
  BY Types DEF LoginInv, Alone, Fresh
<1>2. CASE \/ \E c, f \in Flows, b \in Browsers : Callback(r, c, f, b)
           \/ \E b \in Browsers, u \in People : DevLogin(r, b, u)
  <2>1. requests'[r].pc \in {"exchange", "refused", "findUser"}
    <3>1. CASE \E c, f \in Flows, b \in Browsers : Callback(r, c, f, b)
      BY <1>1, <3>1 DEF Callback, RequestRecord
    <3>2. CASE \E b \in Browsers, u \in People : DevLogin(r, b, u)
      BY <1>1, <3>2 DEF DevLogin, RequestRecord
    <3> QED
      BY <1>2, <3>1, <3>2
  <2> QED
    BY <2>1
<1>3. CASE ExchangeOidcCode(r) \/ Fail(r)
  BY <1>1, <1>3 DEF ExchangeOidcCode, Fail, RequestRecord
<1>4. CASE FindUser(r) \/ UpsertUser(r)
  BY <1>1, <1>4 DEF FindUser, UpsertUser, AfterUser, RequestRecord
<1>5. CASE InsertUser(r)
  BY <1>1, <1>5 DEF InsertUser, AfterUser, RequestRecord
<1>6. CASE FindMember(r)
  BY <1>1, <1>6 DEF FindMember, RequestRecord
<1>7. CASE Enrol(r)
  BY <1>7, EnrolWrites
<1>8. CASE Audit(r) \/ Respond(r)
  <2>1. CASE Audit(r)
    BY <1>1, <2>1 DEF Audit, RequestRecord
  <2>2. CASE Respond(r)
    BY <1>1, <2>2 DEF Respond, RequestRecord
  <2> QED
    BY <1>8, <2>1, <2>2
<1> QED
  BY <1>2, <1>3, <1>4, <1>5, <1>6, <1>7, <1>8 DEF Serve, Continue, Enrol

\* The only step that begins a login begins it when no other is under way.
LEMMA AloneServe ==
  ASSUME LoginInv, NEW r \in Requests, Serve(r)
  PROVE  Alone'
<1>1. /\ Alone /\ UNCHANGED <<serial, deployment>>
      /\ \A q \in Requests \ {r} : requests'[q] = requests[q]
      /\ requests \in [Requests -> RequestRecord] /\ requests[r] \in RequestRecord
  BY OthersWait, Types DEF LoginInv, fixed
<1>2. serial => \A q \in Requests \ {r} : requests[q].pc \in Ended
  <2>1. CASE requests[r].pc \notin Ended
    BY <1>1, <2>1 DEF Alone
  <2>2. CASE requests[r].pc \in Ended
    BY <2>2 DEF Serve, Continue, Callback, DevLogin, MayArrive, ExchangeOidcCode,
      FindUser, InsertUser, FindMember, UpdateMember,
      InsertMember, UpsertUser, UpsertMembership, Audit, Respond, Fail, Ended
  <2> QED
    BY <2>1, <2>2
<1>3. serial' => \A p, q \in Requests :
        p # q => requests'[p].pc \in Ended \/ requests'[q].pc \in Ended
  BY <1>1, <1>2
<1>4. \A q \in Requests : q # r /\ serial => requests'[q].pc # "insertMember"
  BY <1>1, <1>2 DEF Ended
<1>5. requests'[r].pc = "insertMember" =>
        \A m \in members' : m.user # requests'[r].user
  <2> SUFFICES ASSUME requests'[r].pc = "insertMember"
               PROVE  \A m \in members' : m.user # requests'[r].user
    OBVIOUS
  <2>1. FindMember(r)
    BY PlacesServe
  <2> QED
    BY <1>1, <2>1 DEF FindMember, Rows, store, RequestRecord
<1>6. deployment.memory =>
        requests'[r].pc \notin {"insertUser", "updateMember", "insertMember"}
  BY PlacesServe
<1> QED
  BY <1>1, <1>3, <1>4, <1>5, <1>6 DEF Alone

\* Only a response writes cookies, those of the browser it goes to.
LEMMA CookiesServe ==
  ASSUME LoginInv, NEW r \in Requests, Serve(r)
  PROVE  \/ ~Respond(r) /\ UNCHANGED <<browsers, disturbed>>
         \/ /\ Respond(r) /\ UNCHANGED store
            /\ requests[r].user \in People /\ requests[r].browser \in Browsers
            /\ requests'[r] = [requests[r] EXCEPT !.pc = "in", !.role = "user"]
<1>1. CASE Respond(r)
  <2>1. requests[r].user \in People /\ requests[r].browser \in Browsers
    BY <1>1 DEF Respond, LoginInv, RequestsOK, Established, Working, Pcs, Ended
  <2>2. requests \in [Requests -> RequestRecord]
    BY Types DEF LoginInv
  <2> QED
    BY <1>1, <2>1, <2>2 DEF Respond
<1>2. CASE ~Respond(r)
  BY <1>2 DEF Serve, Continue, Callback, DevLogin, ExchangeOidcCode, FindUser, InsertUser, FindMember, UpdateMember, InsertMember, UpsertUser,
    UpsertMembership, Audit, Fail, history
<1> QED
  BY <1>1, <1>2

LEMMA FlowsServe ==
  ASSUME LoginInv, NEW r \in Requests, Serve(r)
  PROVE  FlowsOK'
<1>1. FlowsOK /\ flows' = flows /\ None \notin Flows
  BY OthersWait, LoginAssumption DEF LoginInv, LoginAssumption
<1>2. CASE UNCHANGED <<browsers, disturbed>>
  BY <1>1, <1>2 DEF FlowsOK
<1>3. CASE Respond(r) /\ requests[r].browser \in Browsers
  <2> DEFINE b == requests[r].browser
  <2>1. browsers \in [Browsers -> [login : Flows \cup {None}, session : People \cup {None}]]
    BY Types DEF LoginInv
  <2>2. /\ \A c \in Browsers : c # b => browsers'[c] = browsers[c]
        /\ browsers'[b].login \in {browsers[b].login, None}
        /\ browsers'[b].login = None =>
             \/ browsers[b].login = None
             \/ \A f \in Flows : flows[f].phase # "new" /\ flows[f].browser = b
                  => f \in disturbed'
        /\ disturbed \subseteq disturbed'
    BY <1>1, <1>3, <2>1 DEF Respond, Others
  <2> QED
    BY <1>1, <2>2 DEF FlowsOK
<1> QED
  BY <1>2, <1>3, CookiesServe

LEMMA SessionsServe ==
  ASSUME LoginInv, NEW r \in Requests, Serve(r)
  PROVE  SessionsOK'
<1> SUFFICES ASSUME NEW b \in Browsers, browsers'[b].session # None
             PROVE  SessionOK(b)'
  BY DEF SessionsOK, SessionOK
<1>1. /\ UNCHANGED <<flows, fixed>>
      /\ \A q \in Requests \ {r} : requests'[q] = requests[q]
      /\ requests[r].pc \notin {"in", "refused", "failed"}
      /\ browsers \in [Browsers -> [login : Flows \cup {None}, session : People \cup {None}]]
      /\ requests \in [Requests -> RequestRecord] /\ requests[r] \in RequestRecord
  BY OthersWait, Types DEF LoginInv
<1>2. /\ audited \subseteq audited'
      /\ \A m \in members : \E n \in members' : n.user = m.user
  BY ServeKeeps
<1>3. CASE browsers'[b] = browsers[b]
  <2>1. SessionOK(b)
    BY DEF LoginInv, SessionsOK
  <2>2. \A q \in Requests : requests[q].pc = "in" => requests'[q] = requests[q]
    BY <1>1
  <2> QED
    BY <1>1, <1>2, <1>3, <2>1, <2>2 DEF SessionOK, BegunHere, ByDevelopment, fixed
<1>4. CASE Respond(r) /\ b = requests[r].browser
  <2> DEFINE u == requests[r].user
  <2>1. /\ browsers'[b].session = u /\ requests[r].pc = "respond"
        /\ requests'[r].pc = "in" /\ requests'[r].flow = requests[r].flow
        /\ requests'[r].code = requests[r].code /\ requests'[r].browser = b /\ requests'[r].user = u
    BY <1>1, <1>4 DEF Respond, RequestRecord
  <2>2. /\ \E m \in members : m.user = u
        /\ <<u, b>> \in audited
    BY <1>4, <2>1 DEF LoginInv, RequestsOK, Established, Joined
  <2>3. Origin(r) /\ requests[r].pc \in Working
    BY <2>1 DEF LoginInv, RequestsOK, Working, Pcs, Ended
  <2>4. \/ requests[r].flow = None /\ deployment.devAuth
        \/ /\ requests[r].flow \in Flows /\ flows[requests[r].flow].browser = b
           /\ requests[r].code \in Flows /\ flows[requests[r].code].user = u
           /\ u \in deployment.admitted
    <3>1. CASE requests[r].flow = None
      BY <2>3, <3>1 DEF Origin
    <3>2. CASE requests[r].flow # None
      <4>1. requests[r].flow \in Flows /\ requests[r].code \in Flows \cup {None}
        BY <1>1, <3>2 DEF RequestRecord
      <4>2. /\ flows[requests[r].flow].browser = requests[r].browser
            /\ requests[r].code # None /\ flows[requests[r].code].user = u
            /\ u \in deployment.admitted
        BY <2>1, <2>3, <3>2 DEF Origin
      <4>3. requests[r].browser = b
        BY <1>4
      <4> QED
        BY <4>1, <4>2, <4>3
    <3> QED
      BY <3>1, <3>2
  <2>5. (BegunHere(r, b) \/ ByDevelopment(r))'
    BY <1>1, <2>1, <2>4 DEF BegunHere, ByDevelopment, fixed
  <2> QED
    BY <1>2, <2>1, <2>2, <2>5 DEF SessionOK
<1> QED
  <2>1. Respond(r) /\ b # requests[r].browser => browsers'[b] = browsers[b]
    BY <1>1 DEF Respond
  <2> QED
    BY <1>3, <1>4, <2>1, CookiesServe

\* Only the exchange brings a request past it, and only with a code not spent.
LEMMA CodesServe ==
  ASSUME LoginInv, NEW r \in Requests, Serve(r)
  PROVE  CodesOnce'
<1>1. /\ \A q \in Requests \ {r} : requests'[q] = requests[q]
      /\ requests \in [Requests -> RequestRecord] /\ requests[r] \in RequestRecord
      /\ Fresh("failed").pc = "failed"
      /\ CodesOnce /\ Established(r)
  BY OthersWait, Types DEF LoginInv, RequestsOK, Fresh
<1> DEFINE code == requests[r].code
           code1 == requests'[r].code
           pc1 == requests'[r].pc
<1>2. /\ spent \subseteq spent'
      /\ pc1 \in Past /\ code1 # None =>
           /\ code1 \in spent'
           /\ code1 \notin spent \/ (requests[r].pc \in Past /\ code1 = code)
  <2>1. CASE \E c, f \in Flows, b \in Browsers : Callback(r, c, f, b)
    <3>1. UNCHANGED spent /\ pc1 \in {"exchange", "refused"}
      BY <1>1, <2>1 DEF Callback, RequestRecord
    <3> QED
      BY <3>1 DEF Past, Working
  <2>2. CASE \E b \in Browsers, u \in People : DevLogin(r, b, u)
    BY <1>1, <2>2 DEF DevLogin, MayArrive, Established, RequestRecord
  <2>3. CASE ExchangeOidcCode(r)
    BY <1>1, <2>3 DEF ExchangeOidcCode, RequestRecord, Past, Working
  <2>4. CASE Fail(r)
    BY <1>1, <2>4 DEF Fail, RequestRecord, Past, Working, store, history
  <2>5. ASSUME UNCHANGED spent, pc1 # "failed" => code1 = code,
               requests[r].pc \in Past
        PROVE  /\ spent \subseteq spent'
               /\ pc1 \in Past /\ code1 # None =>
                    /\ code1 \in spent'
                    /\ code1 \notin spent \/ (requests[r].pc \in Past /\ code1 = code)
    BY <1>1, <2>5 DEF CodesOnce, Past, Working
  <2>6. CASE FindUser(r) \/ InsertUser(r) \/ UpsertUser(r)
    <3>1. UNCHANGED spent /\ requests[r].pc \in Past
      BY <2>6 DEF FindUser, InsertUser, UpsertUser, Past, Working, Pcs, Ended
    <3>2. pc1 # "failed" => code1 = code
      BY <1>1, <2>6 DEF FindUser, InsertUser, UpsertUser, AfterUser, RequestRecord
    <3> QED
      BY <2>5, <3>1, <3>2
  <2>7. CASE FindMember(r) \/ Audit(r) \/ Respond(r)
    <3>1. UNCHANGED spent /\ requests[r].pc \in Past
      BY <2>7 DEF FindMember, Audit, Respond, Past, Working, Pcs, Ended
    <3>2. code1 = code
      <4>1. CASE FindMember(r)
        BY <1>1, <4>1 DEF FindMember, RequestRecord
      <4>2. CASE Audit(r)
        BY <1>1, <4>2 DEF Audit, RequestRecord
      <4>3. CASE Respond(r)
        BY <1>1, <4>3 DEF Respond, RequestRecord
      <4> QED
        BY <2>7, <4>1, <4>2, <4>3
    <3> QED
      BY <2>5, <3>1, <3>2
  <2>8. CASE Enrol(r)
    <3>1. UNCHANGED spent /\ requests[r].pc \in Past
      BY <2>8 DEF Enrol, UpdateMember, InsertMember, UpsertMembership, Past, Working, Pcs,
        Ended
    <3>2. code1 = code
      BY <2>8, EnrolWrites
    <3> QED
      BY <2>5, <3>1, <3>2
  <2> QED
    BY <2>1, <2>2, <2>3, <2>4, <2>6, <2>7, <2>8 DEF Serve, Continue, Enrol
<1>3. \A q \in Requests \ {r} : requests'[q].code # None /\ requests'[q].pc \in Past
                                => requests'[q].code \in spent
  BY <1>1 DEF CodesOnce
<1>4. \A q \in Requests \ {r} :
        ~(requests'[q].pc \in Past /\ pc1 \in Past /\ requests'[q].code = code1 /\ code1 # None)
  BY <1>1, <1>2, <1>3 DEF CodesOnce
<1> QED
  BY <1>1, <1>2, <1>3, <1>4 DEF CodesOnce

LEMMA RefusedServe ==
  ASSUME LoginInv, NEW r \in Requests, Serve(r)
  PROVE  RefusedForAReason'
<1> SUFFICES ASSUME NEW q \in Requests, requests'[q].pc = "refused",
                    requests'[q].browser = flows'[requests'[q].flow].browser
             PROVE  \/ ~flows'[requests'[q].flow].fresh
                    \/ requests'[q].flow \in disturbed'
  BY DEF RefusedForAReason
<1>1. /\ UNCHANGED <<flows, fixed>>
      /\ \A p \in Requests \ {r} : requests'[p] = requests[p]
      /\ requests \in [Requests -> RequestRecord] /\ requests[r] \in RequestRecord
  BY OthersWait, Types DEF LoginInv
<1>2. disturbed \subseteq disturbed'
  BY CookiesServe DEF Respond
<1>3. CASE q # r
  BY <1>1, <1>2, <1>3 DEF LoginInv, RefusedForAReason
<1>4. CASE q = r
  <2>1. PICK c, f \in Flows, b \in Browsers : Callback(r, c, f, b)
    <3>1. Fresh("failed").pc = "failed"
      BY DEF Fresh
    <3>2. ~Enrol(r)
      BY <1>4, EnrolWrites
    <3>3. ~(ExchangeOidcCode(r) \/ Fail(r))
      BY <1>1, <1>4, <3>1 DEF ExchangeOidcCode, Fail, RequestRecord
    <3>4. ~(FindUser(r) \/ InsertUser(r) \/ UpsertUser(r))
      BY <1>1, <1>4, <3>1 DEF FindUser, InsertUser, UpsertUser, AfterUser,
        RequestRecord
    <3>5. ~FindMember(r)
      BY <1>1, <1>4 DEF FindMember, RequestRecord
    <3>6. ~(Audit(r) \/ Respond(r))
      BY <1>1, <1>4 DEF Audit, Respond, RequestRecord
    <3>7. \A b \in Browsers, u \in People : ~DevLogin(r, b, u)
      <4>1. ASSUME NEW b \in Browsers, NEW u \in People, DevLogin(r, b, u)
            PROVE  requests'[r].pc = "findUser"
        BY <1>1, <4>1 DEF DevLogin, RequestRecord
      <4> QED
        BY <1>4, <4>1
    <3> QED
      BY <3>2, <3>3, <3>4, <3>5, <3>6, <3>7 DEF Serve, Continue, Enrol
  <2>2. /\ requests'[r].flow = f /\ requests'[r].browser = b
        /\ ~ValidateCallbackState(f, browsers[b].login)
        /\ flows[f].phase # "new"
    BY <1>1, <1>4, <2>1 DEF Callback, RequestRecord
  <2>3. f \in disturbed \/ browsers[flows[f].browser].login = f
    BY <2>2 DEF LoginInv, FlowsOK
  <2> QED
    BY <1>1, <1>2, <1>4, <2>2, <2>3 DEF ValidateCallbackState
<1> QED
  BY <1>3, <1>4

\* What happens in the browser and at the identity provider before a callback.
LEMMA VisitStep ==
  ASSUME LoginInv, NEW f \in Flows, Visit(f)
  PROVE  LoginInv'
<1>1. /\ TypeOK /\ None \notin Flows
      /\ flows \in [Flows -> [phase : {"new", "started", "returned"},
                              browser : Browsers \cup {None},
                              user : People \cup {None}, fresh : BOOLEAN]]
      /\ browsers \in [Browsers -> [login : Flows \cup {None},
                                    session : People \cup {None}]]
      /\ requests \in [Requests -> RequestRecord]
  BY Types, LoginAssumption DEF LoginInv, LoginAssumption
<1>2. UNCHANGED <<requests, spent, users, members, audited, granted, elevated, fixed>>
  BY DEF Visit, Start, Authenticate, Expire, store, grants, history
<1>3. /\ \A g \in Flows : flows[g].phase = "returned" =>
           flows'[g].phase = "returned" /\ flows'[g].user = flows[g].user
      /\ \A g \in Flows : flows[g].phase # "new" =>
           /\ flows'[g].phase # "new" /\ flows'[g].browser = flows[g].browser
           /\ ~flows[g].fresh => ~flows'[g].fresh
      /\ \A b \in Browsers : browsers'[b].session = browsers[b].session
      /\ disturbed \subseteq disturbed'
  BY <1>1 DEF Visit, Start, Authenticate, Expire, history
<1>4. TypeOK'
  <2>1. /\ flows' \in [Flows -> [phase : {"new", "started", "returned"},
                                browser : Browsers \cup {None},
                                user : People \cup {None}, fresh : BOOLEAN]]
        /\ browsers' \in [Browsers -> [login : Flows \cup {None},
                                      session : People \cup {None}]]
        /\ disturbed' \subseteq Flows
    <3>1. CASE Start(f)
      <4>1. PICK b \in Browsers :
              /\ flows' = [flows EXCEPT ![f].phase = "started", ![f].browser = b]
              /\ browsers' = [browsers EXCEPT ![b].login = f]
              /\ disturbed' = disturbed \cup Others(b, f)
        BY <1>1, <3>1 DEF Start, LoginCookie
      <4>2. disturbed' \subseteq Flows
        BY <1>1, <4>1 DEF Others, TypeOK
      <4>3. flows' \in [Flows -> [phase : {"new", "started", "returned"},
                                  browser : Browsers \cup {None},
                                  user : People \cup {None}, fresh : BOOLEAN]]
        BY ZenonT(30), <1>1, <4>1
      <4>4. browsers' \in [Browsers -> [login : Flows \cup {None},
                                        session : People \cup {None}]]
        BY <1>1, <4>1
      <4> QED
        BY <4>2, <4>3, <4>4
    <3>2. CASE Authenticate(f)
      <4>1. PICK u \in People :
              /\ flows' = [flows EXCEPT ![f].phase = "returned", ![f].user = u]
              /\ UNCHANGED <<browsers, disturbed>>
        BY <3>2 DEF Authenticate, history
      <4>2. disturbed' \subseteq Flows
        BY <1>1, <4>1 DEF TypeOK
      <4>3. flows' \in [Flows -> [phase : {"new", "started", "returned"},
                                  browser : Browsers \cup {None},
                                  user : People \cup {None}, fresh : BOOLEAN]]
        BY ZenonT(30), <1>1, <4>1
      <4>4. browsers' \in [Browsers -> [login : Flows \cup {None},
                                        session : People \cup {None}]]
        BY <1>1, <4>1
      <4> QED
        BY <4>2, <4>3, <4>4
    <3>3. CASE Expire(f)
      <4>1. /\ flows' = [flows EXCEPT ![f].fresh = FALSE]
            /\ UNCHANGED <<browsers, disturbed>>
        BY <3>3 DEF Expire, history
      <4>2. disturbed \subseteq Flows
        BY <1>1 DEF TypeOK
      <4> QED
        BY <1>1, <4>1, <4>2
    <3> QED
      BY <3>1, <3>2, <3>3 DEF Visit
  <2> QED
    BY <1>1, <1>2, <2>1 DEF TypeOK, fixed
<1>5. RequestsOK'
  <2> SUFFICES ASSUME NEW r \in Requests
               PROVE  Established(r)' /\ Origin(r)' /\ FreshRow(r)'
    BY DEF RequestsOK
  <2>1. Established(r) /\ Origin(r) /\ FreshRow(r) /\ requests[r] \in RequestRecord
    BY <1>1 DEF LoginInv, RequestsOK
  <2>2. Established(r)' /\ FreshRow(r)'
    BY <1>2, <2>1 DEF Established, FreshRow
  <2>3. Origin(r)'
    BY <1>2, <1>3, <2>1 DEF Origin, fixed, RequestRecord
  <2> QED
    BY <2>2, <2>3
<1>6. Alone' /\ MembersOK'
  BY <1>2 DEF LoginInv, Alone, MembersOK, Ordered, fixed
<1>7. FlowsOK'
  <2>1. FlowsOK
    BY DEF LoginInv
  <2>2. CASE Start(f)
    <3>1. PICK b \in Browsers :
            /\ flows[f].phase = "new"
            /\ flows' = [flows EXCEPT ![f].phase = "started", ![f].browser = b]
            /\ browsers' = [browsers EXCEPT ![b].login = f]
            /\ disturbed' = disturbed \cup Others(b, f)
      BY <1>1, <2>2 DEF Start, LoginCookie
    <3>2. /\ flows'[f].phase = "started" /\ flows'[f].browser = b
          /\ \A g \in Flows : g # f => flows'[g] = flows[g]
          /\ browsers'[b].login = f
          /\ \A c \in Browsers : c # b => browsers'[c] = browsers[c]
          /\ \A g \in Flows : g # f /\ flows[g].phase # "new" /\ flows[g].browser = b
               => g \in disturbed'
      BY <1>1, <3>1 DEF Others
    <3>3. \A c \in Browsers : c # b => browsers[c].login # f
      BY <2>1, <3>1 DEF FlowsOK
    <3> QED
      BY <1>3, <2>1, <3>2, <3>3 DEF FlowsOK
  <2>3. CASE Authenticate(f)
    BY <1>1, <2>1, <2>3 DEF Authenticate, FlowsOK, history
  <2>4. CASE Expire(f)
    BY <1>1, <2>1, <2>4 DEF Expire, FlowsOK, history
  <2> QED
    BY <2>2, <2>3, <2>4 DEF Visit
<1>8. SessionsOK'
  <2> SUFFICES ASSUME NEW b \in Browsers, browsers'[b].session # None
               PROVE  SessionOK(b)'
    BY DEF SessionsOK, SessionOK
  <2>1. SessionOK(b) /\ browsers'[b].session = browsers[b].session
    BY <1>3 DEF LoginInv, SessionsOK
  <2>2. PICK r \in Requests :
          /\ requests[r].pc = "in" /\ requests[r].browser = b
          /\ requests[r].user = browsers[b].session
          /\ BegunHere(r, b) \/ ByDevelopment(r)
    BY <2>1 DEF SessionOK
  <2>3. Origin(r) /\ requests[r].pc \in Working
    BY <2>2 DEF LoginInv, RequestsOK, Working, Pcs, Ended
  <2>4. (BegunHere(r, b) \/ ByDevelopment(r))'
    BY <1>1, <1>2, <1>3, <2>2, <2>3 DEF BegunHere, ByDevelopment, Origin, fixed
  <2> QED
    BY <1>2, <2>1, <2>2, <2>4 DEF SessionOK
<1>9. RefusedForAReason'
  <2>1. \A r \in Requests : requests[r].pc = "refused" =>
          requests[r].flow \in Flows /\ flows[requests[r].flow].phase # "new"
    BY <1>1 DEF LoginInv, RequestsOK, Origin, Working, Pcs, Ended, RequestRecord
  <2> QED
    BY <1>2, <1>3, <2>1 DEF LoginInv, RefusedForAReason
<1>10. CodesOnce'
  BY <1>2 DEF LoginInv, CodesOnce
<1> QED
  BY <1>4, <1>5, <1>6, <1>7, <1>8, <1>9, <1>10 DEF LoginInv

LEMMA LoginNext == LoginInv /\ [Next]_vars => LoginInv'
<1>1. ASSUME LoginInv, NEW r \in Requests, Serve(r) PROVE LoginInv'
  BY <1>1, TypeServe, RequestsServe, AloneServe, MembersServe, FlowsServe, SessionsServe,
    CodesServe, RefusedServe DEF LoginInv
<1>2. ASSUME LoginInv, NEW f \in Flows, Visit(f) PROVE LoginInv'
  BY <1>2, VisitStep
<1>3. ASSUME LoginInv, UNCHANGED vars PROVE LoginInv'
  BY <1>3 DEF vars, LoginInv, TypeOK, RequestsOK, Established, Origin, FreshRow, Alone,
    MembersOK, Ordered, FlowsOK, SessionsOK, SessionOK, BegunHere, ByDevelopment, CodesOnce, RefusedForAReason
<1> QED
  BY <1>1, <1>2, <1>3, NextCases

LEMMA LoginAlways == Spec => []LoginInv
BY LoginInit, LoginNext, PTL DEF Spec

----------------------------------------------------------------------------
(* The properties.                                                         *)

\* Whoever a browser is logged in as is a user, a member and in the audit log,
\* and where logins have an order there is one membership of each person.
THEOREM SessionsHaveMembers == Spec => []SessionsAreMembers
<1>1. LoginInv => SessionsAreMembers
  <2> SUFFICES ASSUME LoginInv PROVE SessionsAreMembers
    OBVIOUS
  <2>1. TypeOK /\ \A m \in members : m.user \in users
    BY Types DEF LoginInv
  <2>2. \A b \in Browsers : SessionOK(b)
    BY DEF LoginInv, SessionsOK
  <2>3. Ordered => \A m, n \in members : m.user = n.user => m = n
    BY DEF LoginInv, MembersOK
  <2> QED
    BY <2>1, <2>2, <2>3 DEF SessionsAreMembers, SessionOK, Rows
<1> QED
  BY <1>1, LoginAlways, PTL

\* A browser is logged in as somebody who came in there, by a flow of its own
\* or by the development login.
THEOREM LoginsAreOwn == Spec => []OwnLogin
<1>1. LoginInv => OwnLogin
  <2> SUFFICES ASSUME LoginInv PROVE OwnLogin
    OBVIOUS
  <2>1. \A b \in Browsers : SessionOK(b)
    BY DEF LoginInv, SessionsOK
  <2>2. "in" \in Past
    BY DEF Past, Working, Pcs, Ended
  <2> QED
    BY <2>1, <2>2 DEF OwnLogin, SessionOK, LoginInv, CodesOnce
<1> QED
  BY <1>1, LoginAlways, PTL

\* A callback in the browser of its flow is only refused when it is late, or
\* when another login used the cookie of that browser.
THEOREM RefusalsHaveReasons == Spec => []RefusedForAReason
<1>1. LoginInv => RefusedForAReason
  BY DEF LoginInv
<1> QED
  BY <1>1, LoginAlways, PTL

\* What a session may do is what the roles given to its user allow, and more
\* than an ordinary user may only the developer and the development login's.
THEOREM RolesAreServed == Spec => []ServedByRole
<1>1. LoginInv => ServedByRole
  <2> SUFFICES ASSUME LoginInv, NEW b \in Browsers, NEW p \in Permissions,
                      NEW m \in members, m.user = browsers[b].session,
                      authorizeRole(m.role, p)
               PROVE  /\ p \notin userPermissions =>
                           \/ m.user = Developer
                           \/ deployment.devAuth /\ m.user \in elevated
                      /\ Ordered => authorizeRole(granted[m.user], p)
                      /\ p = "provider:configure_service" => deployment.mode = "multi_tenant"
    BY DEF ServedByRole, MayBeServed, CurrentMemberships, Rows
  <2>1. m.role \in Roles
    BY Types DEF LoginInv, MemberRecord
  <2>2. p \notin userPermissions => m.role # "user"
    BY DEF authorizeRole, PermissionsOf
  <2>3. p = "provider:configure_service" => m.role = "service_admin"
    BY <2>1 DEF authorizeRole, PermissionsOf, Roles, userPermissions, auditorPermissions,
      tenantAdminPermissions
  <2> QED
    BY <2>2, <2>3 DEF LoginInv, MembersOK, authorizeRole
<1> QED
  BY <1>1, LoginAlways, PTL
=============================================================================
