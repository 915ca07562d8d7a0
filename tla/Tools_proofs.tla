---------------------------- MODULE Tools_proofs ----------------------------
(***************************************************************************)
(* What the administration of tool plugins and the calls to their tools    *)
(* guarantee for any number of requests, plugins and tools.                *)
(***************************************************************************)
EXTENDS PluginAdmin, ToolCall, WellFoundedInduction, TLAPS

----------------------------------------------------------------------------
(* The first and the last of some places of a list.                        *)

\* A set of naturals that is not empty has a least element.
LEMMA LeastNatural ==
    ASSUME NEW T \in SUBSET Nat, T # {}
    PROVE  Min(T) \in T /\ \A y \in T : Min(T) <= y
<1>1. PICK x \in T : \A y \in T : ~(<<y, x>> \in OpToRel(<, Nat))
    BY WFMin, NatLessThanWellFounded
<1>2. ASSUME NEW y \in T PROVE x <= y
    <2>1. y < x => <<y, x>> \in OpToRel(<, Nat)
        BY DEF OpToRel
    <2>2. ~(y < x)
        BY <1>1, <2>1
    <2>3. x \in Nat /\ y \in Nat
        OBVIOUS
    <2> QED
        BY <2>2, <2>3
<1> QED
    BY <1>2 DEF Min

\* Max is the last of some places of a list.
LEMMA MaxOfPlaces ==
    ASSUME NEW n \in Nat, NEW T \in SUBSET (1..n), T # {}
    PROVE  Max(T) \in T /\ \A i \in T : i <= Max(T)
<1> DEFINE fromEnd == {k \in 0..n : n - k \in T}
<1>1. PICK i \in T : TRUE
    OBVIOUS
<1>2. n - i \in fromEnd /\ fromEnd \in SUBSET Nat
    OBVIOUS
<1>3. \A k \in fromEnd : n - k \in T
    OBVIOUS
<1>4. \A j \in T : n - j \in fromEnd
    OBVIOUS
<1> HIDE DEF fromEnd
<1>5. PICK x \in fromEnd : \A y \in fromEnd : x <= y
    BY <1>2, LeastNatural
<1>6. \A j \in T : n - x >= j
    BY <1>2, <1>4, <1>5
<1> QED
    BY <1>3, <1>5, <1>6 DEF Max

----------------------------------------------------------------------------
(* The inductive invariant of plugin administration.                       *)

\* An installation has a server, and no plugin is installed twice.
RowsOK ==
    /\ \A i \in 1..Len(rows) : rows[i].plugin \in servers
    /\ \A i, j \in 1..Len(rows) : rows[i].plugin = rows[j].plugin => i = j

Permitted(t) == \E i \in 1..Len(rows) : t \in Range(Asked[rows[i].plugin])

\* What a request has yet to permit is what it was asked for and is not permitted.
GrantOK(l) ==
    /\ l.plugin \in servers
    /\ RowOf(l.plugin) # {}
    /\ Range(l.asked) \subseteq Range(Asked[l.plugin])
    /\ Range(Asked[l.plugin]) \subseteq permissions \cup Range(l.asked)

Whole(p) ==
    /\ p \in servers \cap audits
    /\ RowOf(p) # {}
    /\ Range(Asked[p]) \subseteq permissions

Installing(l) == l.change = "install"

\* What a request holds at each place.
PlaceOK(l) ==
    /\ Installing(l) => ~l.form
    /\ l.pc = "server" => l.plugin \in Plugins \ servers
    /\ l.pc = "installation" => l.plugin \in servers /\ RowOf(l.plugin) = {}
    /\ l.pc \in {"server", "installation"} => Installing(l) /\ l.asked = Asked[l.plugin]
    /\ l.pc = "permissions" => Installing(l) /\ l.asked # <<>> /\ GrantOK(l)
    /\ l.pc = "audit" /\ Installing(l) => l.asked = <<>> /\ GrantOK(l)
    /\ l.pc \in {"select", "update"} => ~Installing(l)
    /\ l.pc = "query" /\ l.plugin # None => Whole(l.plugin)
    /\ l.waiting # {} => l.pc = "query"
    /\ l.rows \subseteq 1..Len(rows)
    /\ l.listing \subseteq 1..Len(rows)

\* No two requests create the same server, nor its installation.
Apart ==
    \A g, h \in Handlers :
        /\ g # h
        /\ handler[g].pc \in {"server", "installation"}
        /\ handler[g].pc = handler[h].pc
        => handler[g].plugin # handler[h].plugin

----------------------------------------------------------------------------
(* The inductive invariant of requests made one at a time.                 *)

\* The installations among asked whose plugins have registered the tool.
Able(t, silent, asked) ==
    {i \in asked : rows[i].plugin \notin silent /\ t \in Offers[rows[i].plugin]}

\* Who executes a tool when only some installations have been asked.
Newest(t, silent, asked) ==
    IF Able(t, silent, asked) # {} THEN rows[Max(Able(t, silent, asked))].plugin
    ELSE IF t \in MockTools THEN Mock
    ELSE None

Served(built, asked) ==
    \E silent \in SUBSET Flaky : \A t \in Tools : built[t] = Newest(t, silent, asked)

\* What a request alone has read is what the tables say, and what it has built
\* serves the installations asked so far, the oldest ones.
ReadOK(l) ==
    /\ l.pc = "query" =>
          /\ "servers" \notin l.waiting => l.servers = servers
          /\ "rows" \notin l.waiting => l.rows = ActiveInstallations
          /\ l.built = OnlyMocks
    /\ l.pc = "list" =>
          /\ l.listing \subseteq ActiveInstallations
          /\ \A i \in ActiveInstallations \ l.listing, j \in l.listing : i < j
          /\ Served(l.built, ActiveInstallations \ l.listing)

SerialOK ==
    serial =>
        /\ \A g, h \in Handlers : ~IsIdle(g) /\ ~IsIdle(h) => g = h
        /\ \A h \in Handlers : ReadOK(handler[h])
        /\ (\A h \in Handlers : IsIdle(h)) /\ ~failed => Served(gateway, ActiveInstallations)

PluginInv ==
    /\ TypeOK
    /\ RowsOK
    /\ \A t \in permissions : Permitted(t)
    /\ \A h \in Handlers : PlaceOK(handler[h])
    /\ Apart
    /\ SerialOK

\* The tables, whoever writes them.
TablesOK ==
    /\ servers \subseteq Plugins
    /\ rows \in Seq(Row)
    /\ permissions \subseteq Tools
    /\ audits \subseteq Plugins
    /\ gateway \in Gateway
    /\ memory \in BOOLEAN
    /\ serial \in BOOLEAN
    /\ failed \in BOOLEAN

\* Nothing that is installed, permitted or recorded is ever taken back.
Grows ==
    /\ servers \subseteq servers'
    /\ Len(rows) <= Len(rows')
    /\ \A i \in 1..Len(rows) : rows'[i].plugin = rows[i].plugin
    /\ permissions \subseteq permissions'
    /\ audits \subseteq audits'

----------------------------------------------------------------------------
(* Steps.                                                                  *)

\* A gateway without plugins has the mock tools.
LEMMA MocksTyped == OnlyMocks \in Gateway
BY DEF OnlyMocks, Gateway

\* Idle requests hold nothing.
LEMMA IdleTyped ==
    /\ Idle \in HandlerType
    /\ PlaceOK(Idle)
<1>1. Idle \in HandlerType
    BY MocksTyped DEF Idle, HandlerType, Places
<1>2. PlaceOK(Idle)
    BY DEF Idle, PlaceOK, Installing
<1> QED
    BY <1>1, <1>2

\* Without plugins the mock tools are what is to be served.
LEMMA MocksServed == Served(OnlyMocks, {})
<1>1. \A t \in Tools : Able(t, {}, {}) = {}
    BY DEF Able
<1>2. \A t \in Tools : OnlyMocks[t] = Newest(t, {}, {})
    BY <1>1 DEF OnlyMocks, Newest
<1> QED
    BY <1>2 DEF Served

\* At the start nothing is installed.
LEMMA InitInv == Init => PluginInv
<1> SUFFICES ASSUME Init
             PROVE  PluginInv
    OBVIOUS
<1>1. TypeOK
    <2>1. handler \in [Handlers -> HandlerType]
        BY IdleTyped DEF Init
    <2>2. gateway \in Gateway
        BY MocksTyped DEF Init
    <2>3. rows \in Seq(Row)
        BY DEF Init
    <2>4. /\ servers \subseteq Plugins /\ permissions \subseteq Tools /\ audits \subseteq Plugins
          /\ memory \in BOOLEAN /\ serial \in BOOLEAN /\ failed \in BOOLEAN
        BY DEF Init
    <2> QED
        BY <2>1, <2>2, <2>3, <2>4 DEF TypeOK
<1>2. RowsOK /\ \A t \in permissions : Permitted(t)
    BY DEF Init, RowsOK
<1>3. \A h \in Handlers : handler[h] = Idle
    BY DEF Init
<1>4. \A h \in Handlers : PlaceOK(handler[h])
    BY <1>3, IdleTyped
<1>5. Apart
    BY <1>3 DEF Apart, Idle
<1>6. ActiveInstallations = {}
    BY DEF Init, ActiveInstallations
<1>7. SerialOK
    <2>1. \A h \in Handlers : IsIdle(h)
        BY <1>3 DEF IsIdle, At, Idle
    <2>2. \A h \in Handlers : ReadOK(handler[h])
        BY <1>3 DEF ReadOK, Idle
    <2>3. Served(gateway, ActiveInstallations)
        BY <1>6, MocksServed DEF Init
    <2> QED
        BY <2>1, <2>2, <2>3 DEF SerialOK
<1> QED
    BY <1>1, <1>2, <1>4, <1>5, <1>7 DEF PluginInv

\* Where clients make one request at a time, a request on its way is alone.
LEMMA AloneWhenSerial ==
    ASSUME PluginInv, serial, NEW h \in Handlers, ~IsIdle(h)
    PROVE  \A g \in Handlers \ {h} : IsIdle(g)
BY DEF PluginInv, SerialOK

\* What holds of a request goes on to hold while others write.
LEMMA StaysInPlace ==
    ASSUME TypeOK, TablesOK', Grows, NEW l \in HandlerType, PlaceOK(l),
           l.pc = "server" => l.plugin \notin servers',
           l.pc = "installation" => \A i \in 1..Len(rows') : rows'[i].plugin # l.plugin
    PROVE  PlaceOK(l)'
<1>1. Len(rows) \in Nat /\ Len(rows') \in Nat
    BY DEF TypeOK, TablesOK
<1>2. 1..Len(rows) \subseteq 1..Len(rows')
    BY <1>1 DEF Grows
<1>3. \A p : RowOf(p) # {} => RowOf(p)' # {}
    BY <1>2 DEF RowOf, Grows
<1>4. \A i \in 1..Len(rows') : rows'[i].plugin # l.plugin => i \notin RowOf(l.plugin)'
    BY DEF RowOf
<1>5. GrantOK(l) => GrantOK(l)'
    BY <1>3 DEF GrantOK, Grows
<1>6. Whole(l.plugin) => Whole(l.plugin)'
    BY <1>3 DEF Whole, Grows
<1>7. l.pc = "installation" => l.plugin \in servers' /\ RowOf(l.plugin)' = {}
    <2>1. l.pc = "installation" => l.plugin \in servers'
        BY DEF PlaceOK, Grows
    <2>2. RowOf(l.plugin)' \subseteq 1..Len(rows')
        BY DEF RowOf
    <2> QED
        BY <1>4, <2>1, <2>2
<1>8. l.rows \subseteq 1..Len(rows') /\ l.listing \subseteq 1..Len(rows')
    BY <1>2 DEF PlaceOK
<1> QED
    BY <1>5, <1>6, <1>7, <1>8 DEF PlaceOK, Installing

\* A step of one request to the local state l keeps the invariant when l is in
\* order, no other request is creating what l creates or has created, and what
\* one request alone has read and published is true.
LEMMA Step ==
    ASSUME PluginInv, NEW h \in Handlers, NEW l \in HandlerType,
           handler' = [handler EXCEPT ![h] = l],
           TablesOK', serial' = serial, Grows, RowsOK',
           \A t \in permissions' : Permitted(t)',
           PlaceOK(l)',
           l.pc \in {"server", "installation"} => \A g \in Handlers \ {h} :
               handler[g].pc = l.pc => handler[g].plugin # l.plugin,
           \A g \in Handlers \ {h} :
               /\ At(g, "server") => handler[g].plugin \notin servers'
               /\ At(g, "installation") =>
                     \A i \in 1..Len(rows') : rows'[i].plugin # handler[g].plugin,
           serial => /\ \A g \in Handlers \ {h} : IsIdle(g)
                     /\ ReadOK(l)'
                     /\ l.pc = "idle" /\ ~failed' => Served(gateway, ActiveInstallations)'
    PROVE  PluginInv'
<1>1. TypeOK /\ handler \in [Handlers -> HandlerType]
    BY DEF PluginInv, TypeOK
<1>2. handler' \in [Handlers -> HandlerType]
    BY <1>1
<1>3. handler'[h] = l /\ \A g \in Handlers \ {h} : handler'[g] = handler[g]
    BY <1>1
<1>4. TypeOK'
    BY <1>2 DEF TypeOK, TablesOK
<1>5. ASSUME NEW g \in Handlers
      PROVE  PlaceOK(handler[g])'
    <2>1. PICK k : k = handler'[g]
        OBVIOUS
    <2>2. PlaceOK(k)'
        <3>1. CASE g = h
            <4>1. k = l
                BY <1>3, <2>1, <3>1
            <4> QED
                BY <4>1
        <3>2. CASE g # h
            <4>1. k = handler[g] /\ k \in HandlerType
                BY <1>1, <1>3, <2>1, <3>2
            <4>2. PlaceOK(k)
                BY <4>1 DEF PluginInv
            <4>3. k.pc = "server" => k.plugin \notin servers'
                BY <3>2, <4>1 DEF At
            <4>4. k.pc = "installation" => \A i \in 1..Len(rows') : rows'[i].plugin # k.plugin
                BY <3>2, <4>1 DEF At
            <4> QED
                BY <1>1, <4>1, <4>2, <4>3, <4>4, StaysInPlace
        <3> QED
            BY <3>1, <3>2
    <2> QED
        BY <2>1, <2>2 DEF PlaceOK, GrantOK, Whole, RowOf
<1>6. Apart'
    <2> SUFFICES ASSUME NEW f \in Handlers, NEW g \in Handlers, f # g,
                        handler'[f].pc \in {"server", "installation"},
                        handler'[f].pc = handler'[g].pc
                 PROVE  handler'[f].plugin # handler'[g].plugin
        BY DEF Apart
    <2>1. CASE f = h
        BY <1>3, <2>1
    <2>2. CASE g = h
        BY <1>3, <2>2
    <2>3. CASE f # h /\ g # h
        BY <1>3, <2>3 DEF PluginInv, Apart
    <2> QED
        BY <2>1, <2>2, <2>3
<1>7. ASSUME serial'
      PROVE  /\ \A f, g \in Handlers : ~IsIdle(f)' /\ ~IsIdle(g)' => f = g
             /\ \A g \in Handlers : ReadOK(handler[g])'
             /\ (\A g \in Handlers : IsIdle(g)') /\ ~failed'
                    => Served(gateway, ActiveInstallations)'
    <2>1. serial
        BY <1>7
    <2>2. \A g \in Handlers \ {h} : IsIdle(g)'
        BY <1>3, <2>1 DEF IsIdle, At
    <2>3. ASSUME NEW g \in Handlers
          PROVE  ReadOK(handler[g])'
        <3>1. CASE g = h
            <4>1. PICK k : k = handler'[g]
                OBVIOUS
            <4>2. k = l
                BY <1>3, <3>1, <4>1
            <4>3. ReadOK(k)'
                BY <2>1, <4>2
            <4> QED
                BY <4>1, <4>3 DEF ReadOK
        <3>2. CASE g # h
            BY <2>2, <3>2 DEF ReadOK, IsIdle, At
        <3> QED
            BY <3>1, <3>2
    <2>4. IsIdle(h)' => l.pc = "idle"
        BY <1>3 DEF IsIdle, At
    <2> QED
        BY <2>1, <2>2, <2>3, <2>4
<1>8. SerialOK'
    BY <1>7 DEF SerialOK
<1> QED
    BY <1>4, <1>5, <1>6, <1>8 DEF PluginInv

\* A step that leaves the tables alone keeps the invariant when the request
\* creates nothing and what it alone has read and published is true.
LEMMA LocalStep ==
    ASSUME PluginInv, NEW h \in Handlers, NEW l \in HandlerType,
           handler' = [handler EXCEPT ![h] = l],
           UNCHANGED <<servers, rows, permissions, audits, fixed>>,
           gateway' \in Gateway, failed' \in BOOLEAN,
           PlaceOK(l), l.pc \notin {"server", "installation"},
           serial => /\ \A g \in Handlers \ {h} : IsIdle(g)
                     /\ ReadOK(l)
                     /\ l.pc = "idle" /\ ~failed' => Served(gateway', ActiveInstallations)
    PROVE  PluginInv'
<1>1. TablesOK' /\ serial' = serial
    BY DEF PluginInv, TypeOK, TablesOK, fixed
<1>2. rows \in Seq(Row)
    BY DEF PluginInv, TypeOK
<1>3. Grows
    BY <1>2 DEF Grows
<1>4. RowsOK'
    BY DEF PluginInv, RowsOK
<1>5. \A t \in permissions' : Permitted(t)'
    BY DEF PluginInv, Permitted
<1>6. PlaceOK(l)'
    BY DEF PlaceOK, GrantOK, Whole, RowOf
<1>7. ASSUME NEW g \in Handlers
      PROVE  /\ At(g, "server") => handler[g].plugin \notin servers'
             /\ At(g, "installation") =>
                   \A i \in 1..Len(rows') : rows'[i].plugin # handler[g].plugin
    <2>1. PlaceOK(handler[g])
        BY DEF PluginInv
    <2> QED
        BY <2>1 DEF PlaceOK, At, RowOf
<1>8. ActiveInstallations' = ActiveInstallations
    BY DEF ActiveInstallations
<1>9. \A t, silent, asked : Newest(t, silent, asked)' = Newest(t, silent, asked)
    <2>1. \A t, silent, asked : Able(t, silent, asked)' = Able(t, silent, asked)
        BY DEF Able
    <2> QED
        BY <2>1 DEF Newest
<1>10. ReadOK(l) => ReadOK(l)'
    BY <1>8, <1>9 DEF ReadOK, Served
<1>11. Served(gateway', ActiveInstallations) => Served(gateway, ActiveInstallations)'
    BY <1>8, <1>9 DEF Served
<1> QED
    BY <1>1, <1>3, <1>4, <1>5, <1>6, <1>7, <1>10, <1>11, Step

----------------------------------------------------------------------------
(* A plugin is installed.                                                  *)

\* What a request or a form asks for a plugin is a list of tools.
LEMMA AskedTyped == \A p \in Plugins : Asked[p] \in Seq(Tools)
BY PluginAssumption

\* A request begins alone to create the server of a plugin.
LEMMA InstallInv ==
    ASSUME PluginInv, NEW h \in Handlers, NEW p \in Plugins, NEW scope \in {"tenant", "user"},
           serial => \A g \in Handlers : IsIdle(g),
           Install(h, p, scope)
    PROVE  PluginInv'
<1>1. PICK l : l = [Idle EXCEPT !.pc = "server", !.plugin = p, !.change = "install",
                                !.scope = scope, !.asked = Asked[p]]
    OBVIOUS
<1>2. /\ l.pc = "server" /\ l.plugin = p /\ l.change = "install" /\ l.form = FALSE
      /\ l.asked = Asked[p] /\ l.waiting = {} /\ l.rows = {} /\ l.listing = {}
    BY <1>1 DEF Idle
<1>3. l \in HandlerType
    BY <1>1, IdleTyped, AskedTyped DEF HandlerType, Places
<1>4. handler' = [handler EXCEPT ![h] = l]
    BY <1>1 DEF Install
<1>5. UNCHANGED <<servers, rows, permissions, audits, gateway, fixed, failed>>
    BY DEF Install, history
<1>6. TablesOK' /\ serial' = serial
    BY <1>5 DEF PluginInv, TypeOK, TablesOK, fixed
<1>7. rows \in Seq(Row)
    BY DEF PluginInv, TypeOK
<1>8. Grows
    BY <1>5, <1>7 DEF Grows
<1>9. RowsOK' /\ \A t \in permissions' : Permitted(t)'
    BY <1>5 DEF PluginInv, RowsOK, Permitted
<1>10. p \notin servers /\ \A g \in Handlers : At(g, "server") => handler[g].plugin # p
    BY DEF Install
<1>11. PlaceOK(l)'
    BY <1>2, <1>5, <1>10 DEF PlaceOK, Installing
<1>12. ASSUME NEW g \in Handlers
       PROVE  /\ At(g, "server") => handler[g].plugin \notin servers'
              /\ At(g, "installation") =>
                    \A i \in 1..Len(rows') : rows'[i].plugin # handler[g].plugin
    <2>1. PlaceOK(handler[g])
        BY DEF PluginInv
    <2> QED
        BY <1>5, <2>1 DEF PlaceOK, At, RowOf
<1>13. \A g \in Handlers \ {h} : handler[g].pc = l.pc => handler[g].plugin # l.plugin
    BY <1>2, <1>10 DEF At
<1>14. ReadOK(l)' /\ l.pc # "idle"
    BY <1>2 DEF ReadOK
<1> QED
    BY <1>3, <1>4, <1>6, <1>8, <1>9, <1>11, <1>12, <1>13, <1>14, Step

\* The server of a plugin appears once.
LEMMA CreateMcpServerInv ==
    ASSUME PluginInv, NEW h \in Handlers, CreateMcpServer(h)
    PROVE  PluginInv'
<1>1. PICK k : k = handler[h]
    OBVIOUS
<1>2. k \in HandlerType /\ k.pc = "server" /\ PlaceOK(k)
    BY <1>1 DEF PluginInv, TypeOK, CreateMcpServer, At
<1>3. PICK l : l = [k EXCEPT !.pc = "installation"]
    OBVIOUS
<1>4. /\ l.pc = "installation" /\ l.plugin = k.plugin /\ l.change = k.change
      /\ l.form = k.form /\ l.asked = k.asked /\ l.waiting = k.waiting
      /\ l.rows = k.rows /\ l.listing = k.listing
    BY <1>2, <1>3 DEF HandlerType
<1>5. l \in HandlerType
    BY <1>2, <1>3 DEF HandlerType, Places
<1>6. handler \in [Handlers -> HandlerType] /\ handler' = [handler EXCEPT ![h] = l]
    BY <1>1, <1>3 DEF CreateMcpServer, Goto, PluginInv, TypeOK
<1>7. /\ UNCHANGED <<rows, permissions, audits, gateway, fixed, failed>>
      /\ servers' = servers \cup {k.plugin}
    BY <1>1 DEF CreateMcpServer, history
<1>8. k.plugin \in Plugins \ servers /\ k.waiting = {}
    BY <1>2 DEF PlaceOK
<1>9. TablesOK' /\ serial' = serial
    BY <1>7, <1>8 DEF PluginInv, TypeOK, TablesOK, fixed
<1>10. Grows
    BY <1>7 DEF PluginInv, TypeOK, Grows
<1>11. RowsOK' /\ \A t \in permissions' : Permitted(t)'
    BY <1>7 DEF PluginInv, RowsOK, Permitted
<1>12. RowOf(k.plugin)' = {}
    BY <1>7, <1>8 DEF RowOf, PluginInv, RowsOK
<1>13. PlaceOK(l)'
    BY <1>2, <1>4, <1>7, <1>8, <1>12 DEF PlaceOK, Installing, RowOf
<1>14. ASSUME NEW g \in Handlers \ {h}
       PROVE  /\ At(g, "server") => handler[g].plugin \notin servers'
              /\ At(g, "installation") =>
                    /\ \A i \in 1..Len(rows') : rows'[i].plugin # handler[g].plugin
                    /\ handler[g].plugin # k.plugin
    <2>1. PlaceOK(handler[g])
        BY DEF PluginInv
    <2>2. At(g, "server") => handler[g].plugin # k.plugin
        BY <1>1, <1>2 DEF PluginInv, Apart, At
    <2> QED
        BY <1>7, <1>8, <2>1, <2>2 DEF PlaceOK, At, RowOf
<1>15. \A g \in Handlers \ {h} : handler[g].pc = l.pc => handler[g].plugin # l.plugin
    BY <1>4, <1>14 DEF At
<1>16. ReadOK(l)' /\ l.pc # "idle"
    BY <1>4 DEF ReadOK
<1>17. serial => \A g \in Handlers \ {h} : IsIdle(g)
    BY <1>1, <1>2, AloneWhenSerial DEF IsIdle, At
<1> QED
    BY <1>5, <1>6, <1>9, <1>10, <1>11, <1>13, <1>14, <1>15, <1>16, <1>17, Step

\* The permissions of a request are written from its first tool to its last.
LEMMA GrantingKeeps ==
    ASSUME NEW k \in HandlerType
    PROVE  /\ Granting(k) \in HandlerType
           /\ Granting(k).pc = IF k.asked = <<>> THEN "audit" ELSE "permissions"
           /\ Granting(k).plugin = k.plugin /\ Granting(k).change = k.change
           /\ Granting(k).form = k.form /\ Granting(k).asked = k.asked
           /\ Granting(k).waiting = k.waiting /\ Granting(k).rows = k.rows
           /\ Granting(k).listing = k.listing
BY DEF Granting, HandlerType, Places

\* An installation is written for a plugin that has a server and no other one.
LEMMA CreateInstallationInv ==
    ASSUME PluginInv, NEW h \in Handlers, CreateInstallation(h)
    PROVE  PluginInv'
<1>1. PICK k : k = handler[h]
    OBVIOUS
<1>2. k \in HandlerType /\ k.pc = "installation" /\ PlaceOK(k)
    BY <1>1 DEF PluginInv, TypeOK, CreateInstallation, At
<1>3. PICK m : m = [k EXCEPT !.scope = "tenant"]
    OBVIOUS
<1>4. /\ m \in HandlerType /\ m.plugin = k.plugin /\ m.change = k.change /\ m.form = k.form
      /\ m.asked = k.asked /\ m.waiting = k.waiting /\ m.rows = k.rows
      /\ m.listing = k.listing
    BY <1>2, <1>3 DEF HandlerType
<1>5. PICK l : l = Granting(m)
    OBVIOUS
<1>6. /\ l \in HandlerType
      /\ l.pc = (IF k.asked = <<>> THEN "audit" ELSE "permissions")
      /\ l.plugin = k.plugin /\ l.change = k.change /\ l.form = k.form /\ l.asked = k.asked
      /\ l.waiting = k.waiting /\ l.rows = k.rows /\ l.listing = k.listing
    BY <1>4, <1>5, GrantingKeeps
<1>7. handler \in [Handlers -> HandlerType] /\ handler' = [handler EXCEPT ![h] = l]
    BY <1>1, <1>3, <1>5 DEF CreateInstallation, PluginInv, TypeOK
<1>8. PICK row : row = [plugin |-> k.plugin, scope |-> k.scope, enabled |-> TRUE]
    OBVIOUS
<1>9. /\ k.plugin \in servers /\ k.waiting = {} /\ RowOf(k.plugin) = {}
      /\ k.change = "install" /\ k.asked = Asked[k.plugin]
    BY <1>2 DEF PlaceOK, Installing
<1>10. TypeOK
    BY DEF PluginInv
<1>11. row \in Row /\ row.plugin = k.plugin /\ rows \in Seq(Row)
    BY <1>2, <1>8, <1>9, <1>10 DEF Row, HandlerType, TypeOK
<1>12. /\ UNCHANGED <<servers, permissions, audits, gateway, fixed, failed>>
       /\ rows' = Append(rows, row)
    BY <1>1, <1>8 DEF CreateInstallation, history
<1>13. /\ rows' \in Seq(Row) /\ Len(rows') = Len(rows) + 1 /\ Len(rows) \in Nat
       /\ rows'[Len(rows) + 1] = row
       /\ \A i \in 1..Len(rows) : rows'[i] = rows[i]
    BY <1>11, <1>12
<1>14. TablesOK' /\ serial' = serial
    BY <1>10, <1>12, <1>13 DEF TypeOK, TablesOK, fixed
<1>15. Grows
    BY <1>12, <1>13 DEF Grows
<1>16. \A i \in 1..Len(rows') : i \in 1..Len(rows) \/ i = Len(rows) + 1
    BY <1>13
<1>17. \A i \in 1..Len(rows) : rows[i].plugin # k.plugin
    BY <1>9 DEF RowOf
<1>18. RowsOK'
    <2>1. RowsOK
        BY DEF PluginInv
    <2>2. \A i \in 1..Len(rows') : rows'[i].plugin \in servers'
        BY <1>9, <1>11, <1>12, <1>13, <1>16, <2>1 DEF RowsOK
    <2>3. \A i, j \in 1..Len(rows') : rows'[i].plugin = rows'[j].plugin => i = j
        BY <1>11, <1>13, <1>16, <1>17, <2>1 DEF RowsOK
    <2> QED
        BY <2>2, <2>3 DEF RowsOK
<1>19. 1..Len(rows) \subseteq 1..Len(rows') /\ Len(rows) + 1 \in 1..Len(rows')
    BY <1>13
<1>20. \A t \in permissions' : Permitted(t)'
    BY <1>12, <1>13, <1>19 DEF PluginInv, Permitted
<1>21. Len(rows) + 1 \in RowOf(k.plugin)'
    BY <1>11, <1>13, <1>19 DEF RowOf
<1>22. GrantOK(l)'
    BY <1>6, <1>9, <1>12, <1>21 DEF GrantOK
<1>23. l.rows \subseteq 1..Len(rows') /\ l.listing \subseteq 1..Len(rows')
    BY <1>2, <1>6, <1>19 DEF PlaceOK
<1>24. PlaceOK(l)'
    BY <1>2, <1>6, <1>9, <1>22, <1>23 DEF PlaceOK, Installing
<1>25. ASSUME NEW g \in Handlers \ {h}
       PROVE  /\ At(g, "server") => handler[g].plugin \notin servers'
              /\ At(g, "installation") =>
                    \A i \in 1..Len(rows') : rows'[i].plugin # handler[g].plugin
    <2>1. PlaceOK(handler[g])
        BY DEF PluginInv
    <2>2. At(g, "installation") => handler[g].plugin # k.plugin
        BY <1>1, <1>2 DEF PluginInv, Apart, At
    <2>3. At(g, "installation") => \A i \in 1..Len(rows) : rows[i].plugin # handler[g].plugin
        BY <2>1 DEF PlaceOK, At, RowOf
    <2>4. At(g, "server") => handler[g].plugin \notin servers
        BY <2>1 DEF PlaceOK, At
    <2> QED
        BY <1>11, <1>12, <1>13, <1>16, <2>2, <2>3, <2>4
<1>26. ReadOK(l)' /\ l.pc \notin {"idle", "server", "installation"}
    BY <1>6 DEF ReadOK
<1>27. serial => \A g \in Handlers \ {h} : IsIdle(g)
    BY <1>1, <1>2, AloneWhenSerial DEF IsIdle, At
<1> QED
    BY <1>6, <1>7, <1>14, <1>15, <1>18, <1>20, <1>24, <1>25, <1>26, <1>27, Step

\* A list that is not empty holds its head and its rest.
LEMMA RangeOfRest ==
    ASSUME NEW S, NEW s \in Seq(S), s # <<>>
    PROVE  /\ Range(s) = {Head(s)} \cup Range(Tail(s))
           /\ Head(s) \in S
           /\ Tail(s) \in Seq(S)
<1>1. Len(s) \in Nat \ {0} /\ DOMAIN s = 1..Len(s) /\ Head(s) = s[1] /\ s[1] \in S
    OBVIOUS
<1>2. /\ Tail(s) \in Seq(S) /\ Len(Tail(s)) = Len(s) - 1
      /\ \A i \in 1..(Len(s) - 1) : Tail(s)[i] = s[i + 1]
    OBVIOUS
<1>3. DOMAIN Tail(s) = 1..(Len(s) - 1)
    BY <1>2
<1>4. ASSUME NEW i \in DOMAIN s
      PROVE  s[i] \in {Head(s)} \cup Range(Tail(s))
    <2>1. CASE i = 1
        BY <1>1, <2>1
    <2>2. CASE i # 1
        <3>1. i - 1 \in 1..(Len(s) - 1) /\ (i - 1) + 1 = i
            BY <1>1, <2>2
        <3>2. Tail(s)[i - 1] = s[i]
            BY <1>2, <3>1
        <3> QED
            BY <1>3, <3>1, <3>2 DEF Range
    <2> QED
        BY <2>1, <2>2
<1>5. ASSUME NEW i \in DOMAIN Tail(s)
      PROVE  Tail(s)[i] \in Range(s)
    <2>1. i + 1 \in DOMAIN s /\ Tail(s)[i] = s[i + 1]
        BY <1>1, <1>2, <1>3
    <2> QED
        BY <2>1 DEF Range
<1>6. Head(s) \in Range(s)
    BY <1>1 DEF Range
<1>7. Range(s) \subseteq {Head(s)} \cup Range(Tail(s))
    BY <1>4 DEF Range
<1>8. Range(Tail(s)) \subseteq Range(s)
    BY <1>5 DEF Range
<1> QED
    BY <1>1, <1>2, <1>6, <1>7, <1>8

\* One more tool of a request is permitted.
LEMMA CreatePermissionInv ==
    ASSUME PluginInv, NEW h \in Handlers, CreatePermission(h)
    PROVE  PluginInv'
<1>1. PICK k : k = handler[h]
    OBVIOUS
<1>2. k \in HandlerType /\ k.pc = "permissions" /\ PlaceOK(k)
    BY <1>1 DEF PluginInv, TypeOK, CreatePermission, At
<1>3. PICK m : m = [k EXCEPT !.asked = Tail(@)]
    OBVIOUS
<1>4. /\ k.asked \in Seq(Tools) /\ k.asked # <<>> /\ GrantOK(k) /\ k.change = "install"
      /\ k.waiting = {} /\ k.form = FALSE
    BY <1>2 DEF HandlerType, PlaceOK, Installing
<1>5. /\ Range(k.asked) = {Head(k.asked)} \cup Range(Tail(k.asked))
      /\ Head(k.asked) \in Tools /\ Tail(k.asked) \in Seq(Tools)
    BY <1>4, RangeOfRest
<1>6. /\ m \in HandlerType /\ m.plugin = k.plugin /\ m.change = k.change /\ m.form = k.form
      /\ m.asked = Tail(k.asked) /\ m.waiting = k.waiting /\ m.rows = k.rows
      /\ m.listing = k.listing
    BY <1>2, <1>3, <1>5 DEF HandlerType
<1>7. PICK l : l = Granting(m)
    OBVIOUS
<1>8. /\ l \in HandlerType
      /\ l.pc = (IF l.asked = <<>> THEN "audit" ELSE "permissions")
      /\ l.plugin = k.plugin /\ l.change = k.change /\ l.form = k.form
      /\ l.asked = Tail(k.asked)
      /\ l.waiting = k.waiting /\ l.rows = k.rows /\ l.listing = k.listing
    BY <1>6, <1>7, GrantingKeeps
<1>9. handler \in [Handlers -> HandlerType] /\ handler' = [handler EXCEPT ![h] = l]
    BY <1>1, <1>3, <1>7 DEF CreatePermission, Granted, PluginInv, TypeOK
<1>10. /\ UNCHANGED <<servers, rows, audits, gateway, fixed, failed>>
       /\ permissions' = permissions \cup {Head(k.asked)}
    BY <1>1 DEF CreatePermission, history
<1>11. TablesOK' /\ serial' = serial
    BY <1>5, <1>10 DEF PluginInv, TypeOK, TablesOK, fixed
<1>12. rows \in Seq(Row)
    BY DEF PluginInv, TypeOK
<1>13. Grows
    BY <1>10, <1>12 DEF Grows
<1>14. RowsOK'
    BY <1>10 DEF PluginInv, RowsOK
<1>15. \A t \in permissions' : Permitted(t)'
    <2>1. PICK i \in RowOf(k.plugin) : TRUE
        BY <1>4 DEF GrantOK
    <2>2. i \in 1..Len(rows) /\ rows[i].plugin = k.plugin
        BY <2>1 DEF RowOf
    <2>3. Head(k.asked) \in Range(Asked[k.plugin])
        BY <1>4, <1>5 DEF GrantOK
    <2>4. Permitted(Head(k.asked))
        BY <2>2, <2>3 DEF Permitted
    <2> QED
        BY <1>10, <2>4 DEF PluginInv, Permitted
<1>16. RowOf(k.plugin)' = RowOf(k.plugin)
    BY <1>10 DEF RowOf
<1>17. GrantOK(l)'
    <2>1. Range(l.asked) \subseteq Range(k.asked)
        BY <1>5, <1>8
    <2>2. Range(k.asked) = {Head(k.asked)} \cup Range(l.asked)
        BY <1>5, <1>8
    <2> QED
        BY <1>4, <1>8, <1>10, <1>16, <2>1, <2>2 DEF GrantOK
<1>18. PlaceOK(l)'
    BY <1>2, <1>4, <1>8, <1>10, <1>17 DEF PlaceOK, Installing
<1>19. ASSUME NEW g \in Handlers
       PROVE  /\ At(g, "server") => handler[g].plugin \notin servers'
              /\ At(g, "installation") =>
                    \A i \in 1..Len(rows') : rows'[i].plugin # handler[g].plugin
    <2>1. PlaceOK(handler[g])
        BY DEF PluginInv
    <2> QED
        BY <1>10, <2>1 DEF PlaceOK, At, RowOf
<1>20. ReadOK(l)' /\ l.pc \notin {"idle", "server", "installation"}
    BY <1>8 DEF ReadOK
<1>21. serial => \A g \in Handlers \ {h} : IsIdle(g)
    BY <1>1, <1>2, AloneWhenSerial DEF IsIdle, At
<1> QED
    BY <1>8, <1>9, <1>11, <1>13, <1>14, <1>15, <1>18, <1>19, <1>20, <1>21, Step

\* A refresh begins with both queries to be answered and the mock tools.
LEMMA QueriesTyped ==
    ASSUME NEW k \in HandlerType
    PROVE  /\ SendQueries(k) \in HandlerType
           /\ SendQueries(k).pc = "query"
           /\ SendQueries(k).plugin = (IF Installing(k) THEN k.plugin ELSE None)
           /\ SendQueries(k).change = "none" /\ SendQueries(k).form = FALSE
           /\ SendQueries(k).waiting = {"servers", "rows"}
           /\ SendQueries(k).rows = {} /\ SendQueries(k).listing = {}
           /\ SendQueries(k).built = OnlyMocks
<1>1. PICK p : p = IF Installing(k) THEN k.plugin ELSE None
    OBVIOUS
<1>2. p \in Plugins \cup {None}
    BY <1>1 DEF HandlerType
<1>3. SendQueries(k) = [Idle EXCEPT !.pc = "query", !.waiting = {"servers", "rows"},
                                    !.plugin = p]
    BY <1>1 DEF SendQueries, Installing
<1> HIDE DEF Installing
<1> QED
    BY ZenonT(30), <1>1, <1>2, <1>3, IdleTyped DEF HandlerType, Places, Idle

\* A request that sends the queries of its refresh has read nothing yet, and
\* has installed what it still names.
LEMMA QueriesInPlace ==
    ASSUME NEW k \in HandlerType, Installing(k) => Whole(k.plugin)
    PROVE  PlaceOK(SendQueries(k)) /\ ReadOK(SendQueries(k))
<1>1. PICK l : l = SendQueries(k)
    OBVIOUS
<1>2. /\ l.pc = "query" /\ l.change = "none" /\ l.form = FALSE
      /\ l.plugin = (IF Installing(k) THEN k.plugin ELSE None)
      /\ l.waiting = {"servers", "rows"} /\ l.rows = {} /\ l.listing = {}
      /\ l.built = OnlyMocks
    BY <1>1, QueriesTyped
<1>3. PlaceOK(l)
    <2>1. l.plugin # None => Whole(l.plugin)
        BY <1>2
    <2>2. ~Installing(l)
        BY <1>2 DEF Installing
    <2> QED
        BY <1>2, <2>1, <2>2 DEF PlaceOK
<1>4. ReadOK(l)
    BY <1>2 DEF ReadOK
<1> QED
    BY <1>1, <1>3, <1>4

\* The evidence of an installation is written when all its permissions are.
LEMMA AuditInstallInv ==
    ASSUME PluginInv, NEW h \in Handlers, AuditInstall(h)
    PROVE  PluginInv'
<1>1. PICK k : k = handler[h]
    OBVIOUS
<1>2. k \in HandlerType /\ k.pc = "audit" /\ k.change = "install" /\ PlaceOK(k)
    BY <1>1 DEF PluginInv, TypeOK, AuditInstall, At
<1>3. PICK l : l = SendQueries(k)
    OBVIOUS
<1>4. l \in HandlerType /\ l.pc = "query"
    BY <1>2, <1>3, QueriesTyped
<1>5. handler \in [Handlers -> HandlerType] /\ handler' = [handler EXCEPT ![h] = l]
    BY <1>1, <1>3 DEF AuditInstall, PluginInv, TypeOK
<1>6. /\ UNCHANGED <<servers, rows, permissions, gateway, fixed, failed>>
      /\ audits' = audits \cup {k.plugin}
    BY <1>1 DEF AuditInstall, history
<1>7. k.asked = <<>> /\ GrantOK(k)
    BY <1>2 DEF PlaceOK, Installing
<1>8. TypeOK
    BY DEF PluginInv
<1>9. k.plugin \in servers /\ k.plugin \in Plugins
    BY <1>7, <1>8 DEF GrantOK, TypeOK
<1>10. TablesOK' /\ serial' = serial
    BY <1>6, <1>8, <1>9 DEF TypeOK, TablesOK, fixed
<1>11. Grows
    BY <1>6, <1>8 DEF Grows, TypeOK
<1>12. RowsOK' /\ \A t \in permissions' : Permitted(t)'
    BY <1>6 DEF PluginInv, RowsOK, Permitted
<1>13. Whole(k.plugin)'
    <2>1. Range(k.asked) = {}
        BY <1>7 DEF Range
    <2>2. Range(Asked[k.plugin]) \subseteq permissions /\ RowOf(k.plugin) # {}
        BY <1>7, <2>1 DEF GrantOK
    <2>3. RowOf(k.plugin)' = RowOf(k.plugin)
        BY <1>6 DEF RowOf
    <2> QED
        BY <1>6, <1>9, <2>2, <2>3 DEF Whole
<1>14. PlaceOK(l)' /\ ReadOK(l)'
    <2>1. /\ l.pc = "query" /\ l.change = "none" /\ l.form = FALSE
          /\ l.plugin = k.plugin
          /\ l.waiting = {"servers", "rows"} /\ l.rows = {} /\ l.listing = {}
          /\ l.built = OnlyMocks
        BY <1>2, <1>3, QueriesTyped DEF Installing
    <2>2. PlaceOK(l)'
        BY <1>13, <2>1 DEF PlaceOK, Installing
    <2>3. ReadOK(l)'
        BY <2>1 DEF ReadOK, OnlyMocks
    <2> QED
        BY <2>2, <2>3
<1>15. ASSUME NEW g \in Handlers
       PROVE  /\ At(g, "server") => handler[g].plugin \notin servers'
              /\ At(g, "installation") =>
                    \A i \in 1..Len(rows') : rows'[i].plugin # handler[g].plugin
    <2>1. PlaceOK(handler[g])
        BY DEF PluginInv
    <2> QED
        BY <1>6, <2>1 DEF PlaceOK, At, RowOf
<1>16. serial => \A g \in Handlers \ {h} : IsIdle(g)
    BY <1>1, <1>2, AloneWhenSerial DEF IsIdle, At
<1> QED
    BY <1>4, <1>5, <1>10, <1>11, <1>12, <1>14, <1>15, <1>16, Step

----------------------------------------------------------------------------
(* An installation is switched.                                            *)

\* A request for a switch begins alone.
LEMMA SwitchInv ==
    ASSUME PluginInv, NEW h \in Handlers, NEW p \in Plugins,
           NEW to \in {"on", "off", "keep"}, NEW form \in BOOLEAN,
           serial => \A g \in Handlers : IsIdle(g),
           Switch(h, p, to, form)
    PROVE  PluginInv'
<1>1. PICK l : l = [Idle EXCEPT !.pc = "select", !.plugin = p, !.change = to, !.form = form]
    OBVIOUS
<1>2. /\ l.pc = "select" /\ l.change = to /\ l.waiting = {} /\ l.rows = {} /\ l.listing = {}
    BY <1>1 DEF Idle
<1>3. l \in HandlerType
    BY <1>1, IdleTyped DEF HandlerType, Places
<1>4. handler' = [handler EXCEPT ![h] = l]
    BY <1>1 DEF Switch
<1>5. UNCHANGED <<servers, rows, permissions, audits, gateway, fixed, failed>>
    BY DEF Switch, history
<1>6. gateway' \in Gateway /\ failed' \in BOOLEAN
    BY <1>5 DEF PluginInv, TypeOK
<1>7. PlaceOK(l) /\ ReadOK(l)
    BY <1>2 DEF PlaceOK, Installing, ReadOK
<1> QED
    BY <1>2, <1>3, <1>4, <1>5, <1>6, <1>7, LocalStep

\* After a switch comes its event or the refresh.
LEMMA AfterSwitchTyped ==
    ASSUME NEW k \in HandlerType, ~Installing(k)
    PROVE  /\ AfterSwitch(k) \in HandlerType
           /\ AfterSwitch(k).pc \in {"audit", "query"}
           /\ ~Installing(AfterSwitch(k))
           /\ AfterSwitch(k).rows = {} /\ AfterSwitch(k).listing = {}
           /\ AfterSwitch(k).pc = "audit" => AfterSwitch(k).waiting = {}
           /\ AfterSwitch(k).pc = "query" => /\ AfterSwitch(k).plugin = None
                                             /\ AfterSwitch(k).waiting = {"servers", "rows"}
                                             /\ AfterSwitch(k).built = OnlyMocks
<1>1. PICK l : l = AfterSwitch(k)
    OBVIOUS
<1>2. CASE k.form
    <2>1. l = [Idle EXCEPT !.pc = "audit", !.form = TRUE]
        BY <1>1, <1>2 DEF AfterSwitch
    <2>2. l \in HandlerType
        BY <2>1, IdleTyped DEF HandlerType, Places
    <2>3. l.pc = "audit" /\ l.change = "none" /\ l.rows = {} /\ l.listing = {} /\ l.waiting = {}
        BY <2>1 DEF Idle
    <2> QED
        BY <1>1, <2>2, <2>3 DEF Installing
<1>3. CASE ~k.form
    <2>1. l = SendQueries(k)
        BY <1>1, <1>3 DEF AfterSwitch
    <2>2. /\ l \in HandlerType /\ l.pc = "query" /\ l.plugin = None /\ l.change = "none"
          /\ l.waiting = {"servers", "rows"} /\ l.rows = {} /\ l.listing = {}
          /\ l.built = OnlyMocks
        BY <2>1, QueriesTyped
    <2> QED
        BY <1>1, <2>2 DEF Installing
<1> QED
    BY <1>2, <1>3

\* What comes after a switch is in order.
LEMMA AfterSwitchInPlace ==
    ASSUME NEW l, l.pc \in {"audit", "query"}, ~Installing(l), l.rows = {}, l.listing = {},
           l.pc = "audit" => l.waiting = {},
           l.pc = "query" => /\ l.plugin = None /\ l.waiting = {"servers", "rows"}
                             /\ l.built = OnlyMocks
    PROVE  PlaceOK(l) /\ ReadOK(l)
BY DEF PlaceOK, ReadOK

\* The switch of an installation looks for its row.
LEMMA SelectInstallationInv ==
    ASSUME PluginInv, NEW h \in Handlers, SelectInstallation(h)
    PROVE  PluginInv'
<1>1. PICK k : k = handler[h]
    OBVIOUS
<1>2. k \in HandlerType /\ k.pc = "select" /\ PlaceOK(k)
    BY <1>1 DEF PluginInv, TypeOK, SelectInstallation, At
<1>3. ~Installing(k) /\ k.waiting = {}
    BY <1>2 DEF PlaceOK
<1>4. PICK l : l = IF RowOf(k.plugin) = {} THEN AfterSwitch(k)
                   ELSE [k EXCEPT !.pc = "update", !.change = "none", !.enabled = Enabled(k)]
    OBVIOUS
<1>5. handler \in [Handlers -> HandlerType] /\ handler' = [handler EXCEPT ![h] = l]
    BY <1>1, <1>4 DEF SelectInstallation, PluginInv, TypeOK
<1>6. UNCHANGED <<servers, rows, permissions, audits, gateway, fixed, failed>>
    BY DEF SelectInstallation, history
<1>7. gateway' \in Gateway /\ failed' \in BOOLEAN
    BY <1>6 DEF PluginInv, TypeOK
<1>8. serial => \A g \in Handlers \ {h} : IsIdle(g)
    BY <1>1, <1>2, AloneWhenSerial DEF IsIdle, At
<1>9. l \in HandlerType /\ PlaceOK(l) /\ ReadOK(l)
      /\ l.pc \notin {"idle", "server", "installation"}
    <2>1. CASE RowOf(k.plugin) = {}
        BY <1>2, <1>3, <1>4, <2>1, AfterSwitchTyped, AfterSwitchInPlace
    <2>2. CASE RowOf(k.plugin) # {}
        <3>1. Enabled(k) \in BOOLEAN
            BY DEF Enabled, IsEnabled
        <3>2. PICK enabled \in BOOLEAN : enabled = Enabled(k)
            BY <3>1
        <3>3. l = [k EXCEPT !.pc = "update", !.change = "none", !.enabled = enabled]
            BY <1>4, <2>2, <3>2
        <3>4. l \in HandlerType
            BY <1>2, <3>3 DEF HandlerType, Places
        <3>5. /\ l.pc = "update" /\ l.change = "none" /\ l.waiting = {} /\ l.rows = k.rows
              /\ l.listing = k.listing
            BY <1>2, <1>3, <3>3 DEF HandlerType
        <3>6. PlaceOK(l) /\ ReadOK(l)
            BY <1>2, <3>5 DEF PlaceOK, Installing, ReadOK
        <3> QED
            BY <3>4, <3>5, <3>6
    <2> QED
        BY <2>1, <2>2
<1> QED
    BY <1>5, <1>6, <1>7, <1>8, <1>9, LocalStep

\* A switch changes no more than whether an installation is enabled.
LEMMA UpdateInv ==
    ASSUME PluginInv, NEW h \in Handlers, handler[h].pc \in {"select", "update"},
           NEW enabled \in BOOLEAN, Update(h, enabled)
    PROVE  PluginInv'
<1>1. PICK k : k = handler[h]
    OBVIOUS
<1>2. k \in HandlerType /\ k.pc \in {"select", "update"} /\ PlaceOK(k)
    BY <1>1 DEF PluginInv, TypeOK
<1>3. ~Installing(k)
    BY <1>2 DEF PlaceOK
<1>4. PICK l : l = AfterSwitch(k)
    OBVIOUS
<1>5. handler \in [Handlers -> HandlerType] /\ handler' = [handler EXCEPT ![h] = l]
    BY <1>1, <1>4 DEF Update, PluginInv, TypeOK
<1>6. /\ l \in HandlerType /\ l.pc \in {"audit", "query"} /\ ~Installing(l)
      /\ l.rows = {} /\ l.listing = {}
      /\ l.pc = "audit" => l.waiting = {}
      /\ l.pc = "query" => /\ l.plugin = None /\ l.waiting = {"servers", "rows"}
                           /\ l.built = OnlyMocks
    BY <1>2, <1>3, <1>4, AfterSwitchTyped
<1>7. UNCHANGED <<servers, permissions, audits, gateway, fixed, failed>>
    BY DEF Update, history
<1>8. rows \in Seq(Row) /\ Len(rows) \in Nat /\ rows \in [1..Len(rows) -> Row]
    BY DEF PluginInv, TypeOK
<1>9. rows' = [i \in 1..Len(rows) |->
                 IF i \in RowOf(k.plugin) THEN [rows[i] EXCEPT !.enabled = enabled]
                 ELSE rows[i]]
    BY <1>1 DEF Update
<1>10. ASSUME NEW i \in 1..Len(rows)
       PROVE  rows'[i] \in Row /\ rows'[i].plugin = rows[i].plugin
    <2>1. rows[i] \in Row
        BY <1>8
    <2>2. [rows[i] EXCEPT !.enabled = enabled] \in Row
          /\ [rows[i] EXCEPT !.enabled = enabled].plugin = rows[i].plugin
        BY <2>1 DEF Row
    <2>3. rows'[i] = IF i \in RowOf(k.plugin) THEN [rows[i] EXCEPT !.enabled = enabled]
                     ELSE rows[i]
        BY <1>9
    <2> QED
        BY <2>1, <2>2, <2>3
<1>11. rows' \in Seq(Row) /\ Len(rows') = Len(rows)
    <2>1. DOMAIN rows' = 1..Len(rows) /\ rows' = [i \in 1..Len(rows) |-> rows'[i]]
        BY <1>9
    <2>2. rows' \in [1..Len(rows) -> Row]
        BY <1>10, <2>1
    <2>3. rows' \in Seq(Row)
        BY <1>8, <2>2
    <2> QED
        BY <1>8, <2>1, <2>3
<1>12. TablesOK' /\ serial' = serial
    BY <1>7, <1>11 DEF PluginInv, TypeOK, TablesOK, fixed
<1>13. Grows
    BY <1>7, <1>8, <1>10, <1>11 DEF Grows
<1>14. RowsOK'
    <2>1. RowsOK
        BY DEF PluginInv
    <2> QED
        BY <1>7, <1>10, <1>11, <2>1 DEF RowsOK
<1>15. \A t \in permissions' : Permitted(t)'
    BY <1>7, <1>10, <1>11 DEF PluginInv, Permitted
<1>16. PlaceOK(l)' /\ ReadOK(l)'
    <2>1. PlaceOK(l)'
        BY <1>6 DEF PlaceOK, Installing
    <2>2. ReadOK(l)'
        BY <1>6 DEF ReadOK, OnlyMocks
    <2> QED
        BY <2>1, <2>2
<1>17. ASSUME NEW g \in Handlers
       PROVE  /\ At(g, "server") => handler[g].plugin \notin servers'
              /\ At(g, "installation") =>
                    \A i \in 1..Len(rows') : rows'[i].plugin # handler[g].plugin
    <2>1. PlaceOK(handler[g])
        BY DEF PluginInv
    <2> QED
        BY <1>7, <1>10, <1>11, <2>1 DEF PlaceOK, At, RowOf
<1>18. serial => \A g \in Handlers \ {h} : IsIdle(g)
    BY AloneWhenSerial DEF IsIdle, At
<1> QED
    BY <1>5, <1>6, <1>12, <1>13, <1>14, <1>15, <1>16, <1>17, <1>18, Step

\* The event of a switch precedes its refresh.
LEMMA AuditSwitchInv ==
    ASSUME PluginInv, NEW h \in Handlers, AuditSwitch(h)
    PROVE  PluginInv'
<1>1. PICK k : k = handler[h]
    OBVIOUS
<1>2. k \in HandlerType /\ k.pc = "audit" /\ k.form /\ PlaceOK(k)
    BY <1>1 DEF PluginInv, TypeOK, AuditSwitch, At
<1>3. ~Installing(k)
    BY <1>2 DEF PlaceOK
<1>4. PICK l : l = SendQueries(k)
    OBVIOUS
<1>5. l \in HandlerType /\ l.pc = "query" /\ PlaceOK(l) /\ ReadOK(l)
    BY <1>2, <1>3, <1>4, QueriesTyped, QueriesInPlace
<1>6. handler' = [handler EXCEPT ![h] = l]
    BY <1>1, <1>4 DEF AuditSwitch
<1>7. UNCHANGED <<servers, rows, permissions, audits, gateway, fixed, failed>>
    BY DEF AuditSwitch, history
<1>8. gateway' \in Gateway /\ failed' \in BOOLEAN
    BY <1>7 DEF PluginInv, TypeOK
<1>9. serial => \A g \in Handlers \ {h} : IsIdle(g)
    BY <1>1, <1>2, AloneWhenSerial DEF IsIdle, At
<1> QED
    BY <1>5, <1>6, <1>7, <1>8, <1>9, LocalStep

----------------------------------------------------------------------------
(* The refresh.                                                            *)

\* Installations in service are places of the list.
LEMMA ActiveTyped == ActiveInstallations \subseteq 1..Len(rows)
BY DEF ActiveInstallations

\* Answers to queries are what the tables hold.
LEMMA AnsweredTyped ==
    ASSUME TypeOK, NEW k \in HandlerType, NEW tables
    PROVE  /\ Answered(k, tables) \in HandlerType
           /\ Answered(k, tables).pc = k.pc /\ Answered(k, tables).plugin = k.plugin
           /\ Answered(k, tables).change = k.change /\ Answered(k, tables).form = k.form
           /\ Answered(k, tables).built = k.built /\ Answered(k, tables).listing = k.listing
           /\ Answered(k, tables).waiting = k.waiting \ tables
           /\ Answered(k, tables).servers =
                 (IF "servers" \in tables THEN servers ELSE k.servers)
           /\ Answered(k, tables).rows =
                 (IF "rows" \in tables THEN ActiveInstallations ELSE k.rows)
<1>1. ActiveInstallations \in SUBSET Nat /\ servers \in SUBSET Plugins
    BY ActiveTyped DEF TypeOK
<1>2. PICK s : s = IF "servers" \in tables THEN servers ELSE k.servers
    OBVIOUS
<1>3. PICK r : r = IF "rows" \in tables THEN ActiveInstallations ELSE k.rows
    OBVIOUS
<1>4. PICK w : w = k.waiting \ tables
    OBVIOUS
<1>5. Answered(k, tables) = [k EXCEPT !.waiting = w, !.servers = s, !.rows = r]
    BY <1>2, <1>3, <1>4 DEF Answered
<1>6. s \in SUBSET Plugins /\ r \in SUBSET Nat /\ w \in SUBSET {"servers", "rows"}
    BY <1>1, <1>2, <1>3, <1>4 DEF HandlerType
<1> QED
    BY ZenonT(30), <1>2, <1>3, <1>4, <1>5, <1>6 DEF HandlerType

\* The refresh reads the tables in any order, and goes on to the plugins.
LEMMA ReadTablesInv ==
    ASSUME PluginInv, NEW h \in Handlers, NEW tables \in SUBSET {"servers", "rows"},
           tables # {}, ReadTables(h, tables)
    PROVE  PluginInv'
<1>1. PICK k : k = handler[h]
    OBVIOUS
<1>2. TypeOK /\ k \in HandlerType /\ PlaceOK(k)
    BY <1>1 DEF PluginInv, TypeOK
<1>3. tables \subseteq k.waiting /\ k.pc = "query"
    BY <1>1, <1>2 DEF ReadTables, PlaceOK
<1>4. PICK m : m = Answered(k, tables)
    OBVIOUS
<1>5. /\ m \in HandlerType /\ m.pc = k.pc /\ m.plugin = k.plugin /\ m.change = k.change
      /\ m.form = k.form /\ m.built = k.built /\ m.listing = k.listing
      /\ m.waiting = k.waiting \ tables
      /\ m.servers = (IF "servers" \in tables THEN servers ELSE k.servers)
      /\ m.rows = (IF "rows" \in tables THEN ActiveInstallations ELSE k.rows)
    BY <1>2, <1>4, AnsweredTyped
<1>6. PICK l : l = Received(m)
    OBVIOUS
<1>7. handler \in [Handlers -> HandlerType] /\ handler' = [handler EXCEPT ![h] = l]
    BY <1>1, <1>2, <1>4, <1>6 DEF ReadTables, TypeOK
<1>8. UNCHANGED <<servers, rows, permissions, audits, gateway, fixed, failed>>
    BY DEF ReadTables, history
<1>9. gateway' \in Gateway /\ failed' \in BOOLEAN
    BY <1>2, <1>8 DEF TypeOK
<1>10. serial => /\ \A g \in Handlers \ {h} : IsIdle(g)
                 /\ ReadOK(k)
    BY <1>1, <1>3, AloneWhenSerial DEF IsIdle, At, PluginInv, SerialOK
<1>11. m.rows \subseteq 1..Len(rows)
    BY <1>2, <1>5, ActiveTyped DEF PlaceOK
<1>12. /\ l \in HandlerType /\ PlaceOK(l) /\ l.pc \in {"query", "list"}
       /\ serial => ReadOK(l)
    <2>1. CASE m.waiting # {}
        <3>1. l = m
            BY <1>6, <2>1 DEF Received
        <3>2. PlaceOK(l)
            BY <1>2, <1>3, <1>5, <1>11, <3>1 DEF PlaceOK, Installing
        <3>3. serial => ReadOK(l)
            BY <1>3, <1>5, <1>10, <3>1 DEF ReadOK
        <3> QED
            BY <1>3, <1>5, <3>1, <3>2, <3>3
    <2>2. CASE m.waiting = {}
        <3>1. PICK q : q = {i \in m.rows : rows[i].plugin \in m.servers}
            OBVIOUS
        <3>2. l = [m EXCEPT !.pc = "list", !.listing = q, !.servers = {}, !.rows = {},
                            !.plugin = None]
            BY <1>6, <2>2, <3>1 DEF Received
        <3>3. q \subseteq m.rows /\ q \in SUBSET Nat
            BY <1>5, <3>1 DEF HandlerType
        <3>4. l \in HandlerType
            BY <1>5, <3>2, <3>3 DEF HandlerType, Places
        <3>5. /\ l.pc = "list" /\ l.listing = q /\ l.rows = {} /\ l.plugin = None
              /\ l.change = k.change /\ l.form = k.form /\ l.waiting = {}
              /\ l.built = k.built
            BY <1>5, <2>2, <3>2 DEF HandlerType
        <3>6. PlaceOK(l)
            BY <1>2, <1>11, <3>3, <3>5 DEF PlaceOK, Installing
        <3>7. ASSUME serial
              PROVE  ReadOK(l)
            <4>1. m.servers = servers /\ m.rows = ActiveInstallations /\ l.built = OnlyMocks
                BY <1>3, <1>5, <1>10, <2>2, <3>5, <3>7 DEF ReadOK
            <4>2. q = ActiveInstallations
                BY <3>1, <4>1, ActiveTyped DEF PluginInv, RowsOK
            <4>3. ActiveInstallations \ l.listing = {}
                BY <3>5, <4>2
            <4>4. Served(l.built, ActiveInstallations \ l.listing)
                BY <4>1, <4>3, MocksServed
            <4> QED
                BY <3>5, <4>2, <4>3, <4>4 DEF ReadOK
        <3> QED
            BY <3>4, <3>5, <3>6, <3>7
    <2> QED
        BY <2>1, <2>2
<1> QED
    BY <1>7, <1>8, <1>9, <1>10, <1>12, LocalStep

\* The plugin p of installation n is asked after those of the installations in
\* asked, none of which is its own.
AskedLast(asked, n, p) ==
    /\ Len(rows) \in Nat
    /\ n \in 1..Len(rows)
    /\ p = rows[n].plugin
    /\ asked \subseteq 1..Len(rows)
    /\ \A i \in asked : i < n /\ rows[i].plugin # p

\* A plugin that registers its tools after all others executes them.
LEMMA NewestAnswers ==
    ASSUME NEW asked, NEW n, NEW p, AskedLast(asked, n, p), NEW silent, NEW t
    PROVE  Newest(t, silent \ {p}, asked \cup {n}) =
              (IF t \in Offers[p] THEN p ELSE Newest(t, silent, asked))
<1>1. /\ Len(rows) \in Nat /\ n \in 1..Len(rows) /\ p = rows[n].plugin
      /\ asked \subseteq 1..Len(rows)
      /\ \A i \in asked : i < n /\ rows[i].plugin # p
    BY DEF AskedLast
<1>2. CASE t \in Offers[p]
    <2>1. PICK able : able = Able(t, silent \ {p}, asked \cup {n})
        OBVIOUS
    <2>2. n \in able /\ able \subseteq asked \cup {n}
        BY <1>1, <1>2, <2>1 DEF Able
    <2>3. able \in SUBSET (1..Len(rows)) /\ able # {}
        BY <1>1, <2>2
    <2>4. Max(able) \in able /\ n <= Max(able)
        BY <1>1, <2>2, <2>3, MaxOfPlaces
    <2>5. Max(able) = n
        <3>1. CASE Max(able) \in asked
            <4>1. PICK i \in asked : i = Max(able)
                BY <3>1
            <4>2. i < n /\ i \in Nat /\ n \in Nat
                BY <1>1
            <4> QED
                BY <2>4, <4>1, <4>2
        <3> QED
            BY <2>2, <2>4, <3>1
    <2> QED
        BY <1>1, <1>2, <2>1, <2>3, <2>5 DEF Newest
<1>3. CASE t \notin Offers[p]
    <2>1. Able(t, silent \ {p}, asked \cup {n}) = Able(t, silent, asked)
        BY <1>1, <1>3 DEF Able
    <2> QED
        BY <1>3, <2>1 DEF Newest
<1> QED
    BY <1>2, <1>3

\* A plugin that does not answer changes nothing.
LEMMA NewestSilent ==
    ASSUME NEW asked, NEW n, NEW p, AskedLast(asked, n, p), NEW silent, NEW t
    PROVE  Newest(t, silent \cup {p}, asked \cup {n}) = Newest(t, silent, asked)
<1>1. Able(t, silent \cup {p}, asked \cup {n}) = Able(t, silent, asked)
    BY DEF Able, AskedLast
<1> QED
    BY <1>1 DEF Newest

\* The next plugin to be asked is that of the oldest installation left.
LEMMA NextIsOldest ==
    ASSUME PluginInv, NEW h \in Handlers, Listing(h)
    PROVE  LET listing == handler[h].listing IN
           /\ Min(listing) \in listing /\ \A i \in listing : Min(listing) <= i
           /\ listing \subseteq 1..Len(rows) /\ Min(listing) \in 1..Len(rows)
           /\ NextPlugin(h) = rows[Min(listing)].plugin
           /\ NextPlugin(h) \in Plugins
<1>1. PICK k : k = handler[h]
    OBVIOUS
<1>2. k \in HandlerType /\ PlaceOK(k) /\ k.listing # {}
    BY <1>1 DEF PluginInv, TypeOK, Listing
<1>3. k.listing \in SUBSET Nat /\ k.listing \subseteq 1..Len(rows)
    BY <1>2 DEF HandlerType, PlaceOK
<1>4. Min(k.listing) \in k.listing /\ \A i \in k.listing : Min(k.listing) <= i
    BY <1>2, <1>3, LeastNatural
<1>5. rows \in Seq(Row)
    BY DEF PluginInv, TypeOK
<1>6. Min(k.listing) \in 1..Len(rows)
    BY <1>3, <1>4
<1>7. rows[Min(k.listing)].plugin \in Plugins
    <2>1. rows[Min(k.listing)] \in Row
        BY <1>5, <1>6
    <2> QED
        BY <2>1 DEF Row
<1> QED
    BY <1>1, <1>3, <1>4, <1>6, <1>7 DEF NextPlugin

\* Whether it answers or not, the refresh goes on to the plugin after it.
LEMMA ListingStep ==
    ASSUME PluginInv, NEW h \in Handlers, Listing(h), NEW built \in Gateway,
           handler' = [handler EXCEPT ![h].built = built, ![h].listing = @ \ {Min(@)}],
           UNCHANGED <<servers, rows, permissions, audits, gateway, history>>,
           \A asked \in SUBSET (1..Len(rows)) :
               /\ Served(handler[h].built, asked)
               /\ \A i \in asked : i < Min(handler[h].listing)
                                   /\ rows[i].plugin # NextPlugin(h)
               => Served(built, asked \cup {Min(handler[h].listing)})
    PROVE  PluginInv'
<1>1. PICK k : k = handler[h]
    OBVIOUS
<1>2. k \in HandlerType /\ k.pc = "list" /\ PlaceOK(k)
    BY <1>1 DEF PluginInv, TypeOK, Listing, At
<1>3. PICK n : n = Min(k.listing)
    OBVIOUS
<1>4. /\ n \in k.listing /\ \A i \in k.listing : n <= i
      /\ k.listing \subseteq 1..Len(rows) /\ n \in 1..Len(rows)
      /\ NextPlugin(h) = rows[n].plugin
    BY <1>1, <1>3, NextIsOldest
<1>5. PICK l : l = [k EXCEPT !.built = built, !.listing = k.listing \ {n}]
    OBVIOUS
<1>6. /\ l \in HandlerType /\ l.pc = "list" /\ l.listing = k.listing \ {n}
      /\ l.built = built /\ l.change = k.change /\ l.form = k.form /\ l.waiting = k.waiting
      /\ l.rows = k.rows
    <2>1. k.listing \ {n} \in SUBSET Nat
        BY <1>2 DEF HandlerType
    <2> QED
        BY <1>2, <1>5, <2>1 DEF HandlerType
<1>7. handler \in [Handlers -> HandlerType] /\ handler' = [handler EXCEPT ![h] = l]
    <2>1. handler \in [Handlers -> HandlerType]
        BY DEF PluginInv, TypeOK
    <2> QED
        BY <1>1, <1>3, <1>5, <2>1
<1>8. UNCHANGED <<servers, rows, permissions, audits, gateway, fixed, failed>>
    BY DEF history
<1>9. gateway' \in Gateway /\ failed' \in BOOLEAN
    BY <1>8 DEF PluginInv, TypeOK
<1>10. PlaceOK(l)
    BY <1>2, <1>6 DEF PlaceOK, Installing
<1>11. ASSUME serial
       PROVE  ReadOK(l) /\ \A g \in Handlers \ {h} : IsIdle(g)
    <2>1. ReadOK(k) /\ \A g \in Handlers \ {h} : IsIdle(g)
        BY <1>1, <1>2, <1>11, AloneWhenSerial DEF IsIdle, At, PluginInv, SerialOK
    <2>2. PICK asked : asked = ActiveInstallations \ k.listing
        OBVIOUS
    <2>3. /\ k.listing \subseteq ActiveInstallations
          /\ \A i \in asked, j \in k.listing : i < j
          /\ Served(k.built, asked)
        BY <1>2, <2>1, <2>2 DEF ReadOK
    <2>4. asked \in SUBSET (1..Len(rows))
        BY <2>2, ActiveTyped
    <2>5. \A i \in asked : i < n /\ rows[i].plugin # rows[n].plugin
        <3>1. rows \in Seq(Row)
            BY DEF PluginInv, TypeOK
        <3> QED
            BY <1>4, <2>3, <2>4, <3>1 DEF PluginInv, RowsOK
    <2>6. Served(built, asked \cup {n})
        BY <1>1, <1>3, <1>4, <2>3, <2>4, <2>5
    <2>7. ActiveInstallations \ l.listing = asked \cup {n}
        BY <1>4, <1>6, <2>2, <2>3
    <2>8. \A i \in ActiveInstallations \ l.listing, j \in l.listing : i < j
        <3>1. \A j \in l.listing : n < j
            BY <1>4, <1>6
        <3> QED
            BY <1>6, <2>3, <2>7, <3>1
    <2> QED
        BY <1>6, <2>1, <2>3, <2>6, <2>7, <2>8 DEF ReadOK
<1> QED
    BY <1>6, <1>7, <1>8, <1>9, <1>10, <1>11, LocalStep

\* The tools of a plugin that answers go to it.
LEMMA ListToolsInv ==
    ASSUME PluginInv, NEW h \in Handlers, ListTools(h)
    PROVE  PluginInv'
<1>1. PICK p : p = NextPlugin(h)
    OBVIOUS
<1>2. PICK k : k = handler[h]
    OBVIOUS
<1>3. PICK built : built = Register(k.built, p)
    OBVIOUS
<1>4. Listing(h) /\ p \in Plugins
    BY <1>1, NextIsOldest DEF ListTools
<1>5. k.built \in Gateway
    BY <1>2 DEF PluginInv, TypeOK, HandlerType
<1>6. built \in Gateway
    BY <1>3, <1>4, <1>5 DEF Register, Gateway
<1>7. \A t \in Tools : built[t] = IF t \in Offers[p] THEN p ELSE k.built[t]
    BY <1>3 DEF Register
<1>8. ASSUME NEW asked \in SUBSET (1..Len(rows)), Served(k.built, asked),
             \A i \in asked : i < Min(k.listing) /\ rows[i].plugin # p
      PROVE  Served(built, asked \cup {Min(k.listing)})
    <2>1. PICK silent \in SUBSET Flaky : \A t \in Tools : k.built[t] = Newest(t, silent, asked)
        BY <1>8 DEF Served
    <2>2. Len(rows) \in Nat
        BY DEF PluginInv, TypeOK
    <2>3. Min(k.listing) \in 1..Len(rows) /\ p = rows[Min(k.listing)].plugin
        BY <1>1, <1>2, <1>4, NextIsOldest
    <2>4. \A t : Newest(t, silent \ {p}, asked \cup {Min(k.listing)}) =
                    (IF t \in Offers[p] THEN p ELSE Newest(t, silent, asked))
        <3> TAKE t
        <3>1. PICK n : n = Min(k.listing)
            OBVIOUS
        <3>2. n \in 1..Len(rows) /\ p = rows[n].plugin
            BY <2>3, <3>1
        <3>3. AskedLast(asked, n, p)
            BY <1>8, <2>2, <3>1, <3>2 DEF AskedLast
        <3>4. Newest(t, silent \ {p}, asked \cup {n}) =
                 (IF t \in Offers[p] THEN p ELSE Newest(t, silent, asked))
            BY <3>3, NewestAnswers
        <3> QED
            BY <3>1, <3>4
    <2>5. silent \ {p} \in SUBSET Flaky
        OBVIOUS
    <2>6. \A t \in Tools : built[t] = Newest(t, silent \ {p}, asked \cup {Min(k.listing)})
        BY <1>7, <2>1, <2>4
    <2> QED
        BY <2>5, <2>6 DEF Served
<1>9. handler' = [handler EXCEPT ![h].built = built, ![h].listing = @ \ {Min(@)}]
    BY <1>1, <1>2, <1>3 DEF ListTools
<1>10. UNCHANGED <<servers, rows, permissions, audits, gateway, history>>
    BY DEF ListTools
<1> QED
    BY <1>1, <1>2, <1>4, <1>6, <1>8, <1>9, <1>10, ListingStep

\* A plugin that does not answer keeps no other from being asked.
LEMMA ListFailsInv ==
    ASSUME PluginInv, NEW h \in Handlers, ListFails(h)
    PROVE  PluginInv'
<1>1. PICK p : p = NextPlugin(h)
    OBVIOUS
<1>2. PICK k : k = handler[h]
    OBVIOUS
<1>3. Listing(h) /\ p \in Flaky
    BY <1>1 DEF ListFails
<1>4. TypeOK /\ handler \in [Handlers -> HandlerType]
    BY DEF PluginInv, TypeOK
<1>5. k \in HandlerType /\ k.built \in Gateway
    BY <1>2, <1>4 DEF HandlerType
<1>6. ASSUME NEW asked \in SUBSET (1..Len(rows)), Served(k.built, asked),
             \A i \in asked : i < Min(k.listing) /\ rows[i].plugin # p
      PROVE  Served(k.built, asked \cup {Min(k.listing)})
    <2>1. PICK silent \in SUBSET Flaky : \A t \in Tools : k.built[t] = Newest(t, silent, asked)
        BY <1>6 DEF Served
    <2>2. Len(rows) \in Nat
        BY DEF PluginInv, TypeOK
    <2>3. Min(k.listing) \in 1..Len(rows) /\ p = rows[Min(k.listing)].plugin
        BY <1>1, <1>2, <1>3, NextIsOldest
    <2>4. \A t : Newest(t, silent \cup {p}, asked \cup {Min(k.listing)})
                    = Newest(t, silent, asked)
        <3> TAKE t
        <3>1. PICK n : n = Min(k.listing)
            OBVIOUS
        <3>2. n \in 1..Len(rows) /\ p = rows[n].plugin
            BY <2>3, <3>1
        <3>3. AskedLast(asked, n, p)
            BY <1>6, <2>2, <3>1, <3>2 DEF AskedLast
        <3>4. Newest(t, silent \cup {p}, asked \cup {n}) = Newest(t, silent, asked)
            BY <3>3, NewestSilent
        <3> QED
            BY <3>1, <3>4
    <2>5. silent \cup {p} \in SUBSET Flaky
        BY <1>3
    <2> QED
        BY <2>1, <2>4, <2>5 DEF Served
<1>7. handler' = [handler EXCEPT ![h].built = k.built, ![h].listing = @ \ {Min(@)}]
    <2>1. handler' = [handler EXCEPT ![h] = [k EXCEPT !.listing = k.listing \ {Min(k.listing)}]]
        BY <1>2 DEF ListFails
    <2>2. [k EXCEPT !.listing = k.listing \ {Min(k.listing)}]
          = [k EXCEPT !.built = k.built, !.listing = k.listing \ {Min(k.listing)}]
        BY <1>5 DEF HandlerType
    <2> QED
        BY <1>2, <1>4, <2>1, <2>2
<1>8. UNCHANGED <<servers, rows, permissions, audits, gateway, history>>
    BY DEF ListFails
<1> QED
    BY <1>1, <1>2, <1>3, <1>5, <1>6, <1>7, <1>8, ListingStep

\* What is published serves all installations.
LEMMA PublishInv ==
    ASSUME PluginInv, NEW h \in Handlers, Publish(h)
    PROVE  PluginInv'
<1>1. PICK k : k = handler[h]
    OBVIOUS
<1>2. k \in HandlerType /\ k.pc = "list" /\ k.listing = {}
    BY <1>1 DEF PluginInv, TypeOK, Publish, At
<1>3. /\ handler' = [handler EXCEPT ![h] = Idle]
      /\ gateway' = k.built /\ failed' = FALSE
      /\ UNCHANGED <<servers, rows, permissions, audits, fixed>>
    BY <1>1 DEF Publish
<1>4. gateway' \in Gateway /\ failed' \in BOOLEAN
    BY <1>2, <1>3 DEF HandlerType
<1>5. serial => /\ \A g \in Handlers \ {h} : IsIdle(g)
                /\ ReadOK(k)
    BY <1>1, <1>2, AloneWhenSerial DEF IsIdle, At, PluginInv, SerialOK
<1>6. serial => Served(gateway', ActiveInstallations)
    <2>1. ActiveInstallations \ k.listing = ActiveInstallations
        BY <1>2
    <2> QED
        BY <1>2, <1>3, <1>5, <2>1 DEF ReadOK
<1>7. Idle.pc = "idle" /\ ReadOK(Idle)
    BY DEF Idle, ReadOK
<1> QED
    BY <1>3, <1>4, <1>5, <1>6, <1>7, IdleTyped, LocalStep

\* A request may fail at any call to the database.
LEMMA FailInv ==
    ASSUME PluginInv, NEW h \in Handlers, Fail(h)
    PROVE  PluginInv'
<1>1. /\ handler' = [handler EXCEPT ![h] = Idle]
      /\ failed' = serial /\ ~IsIdle(h)
      /\ UNCHANGED <<servers, rows, permissions, audits, gateway, fixed>>
    BY DEF Fail
<1>2. gateway' \in Gateway /\ failed' \in BOOLEAN
    BY <1>1 DEF PluginInv, TypeOK
<1>3. serial => \A g \in Handlers \ {h} : IsIdle(g)
    BY <1>1, AloneWhenSerial
<1>4. Idle.pc = "idle" /\ ReadOK(Idle)
    BY DEF Idle, ReadOK
<1> QED
    BY <1>1, <1>2, <1>3, <1>4, IdleTyped, LocalStep

----------------------------------------------------------------------------
(* Every step.                                                             *)

\* A request arrives, alone where clients make one at a time.
LEMMA ArriveInv ==
    ASSUME PluginInv, NEW h \in Handlers, Arrive(h)
    PROVE  PluginInv'
<1>1. serial => \A g \in Handlers : IsIdle(g)
    BY DEF Arrive
<1>2. PICK p \in Plugins :
         \/ ArriveInstall(h, p)
         \/ ArriveInstallForm(h, p)
         \/ \E to \in Switches : ArriveSwitch(h, p, to) \/ ArriveSwitchForm(h, p, to)
    BY DEF Arrive
<1>3. CASE ArriveInstall(h, p)
    <2>1. PICK scope \in Scopes[p] : Install(h, p, scope)
        BY <1>3 DEF ArriveInstall
    <2>2. scope \in {"tenant", "user"}
        BY PluginAssumption
    <2> QED
        BY <1>1, <2>1, <2>2, InstallInv
<1>4. CASE ArriveInstallForm(h, p)
    <2>1. Install(h, p, "tenant")
        BY <1>4 DEF ArriveInstallForm
    <2> QED
        BY <1>1, <2>1, InstallInv
<1>5. ASSUME NEW to \in Switches, ArriveSwitch(h, p, to)
      PROVE  PluginInv'
    <2>1. to \in {"on", "off", "keep"} /\ Switch(h, p, to, FALSE)
        BY <1>5, PluginAssumption DEF ArriveSwitch
    <2> QED
        BY <1>1, <2>1, SwitchInv
<1>6. ASSUME NEW to \in Switches, ArriveSwitchForm(h, p, to)
      PROVE  PluginInv'
    <2>1. PICK asked : asked = IF to = "keep" THEN "off" ELSE to
        OBVIOUS
    <2>2. asked \in {"on", "off", "keep"}
        BY <2>1, PluginAssumption
    <2>3. Switch(h, p, asked, TRUE)
        BY <1>6, <2>1 DEF ArriveSwitchForm
    <2> QED
        BY <1>1, <2>2, <2>3, SwitchInv
<1> QED
    BY <1>2, <1>3, <1>4, <1>5, <1>6

LEMMA NextInv == PluginInv /\ [Next]_vars => PluginInv'
<1> SUFFICES ASSUME PluginInv, [Next]_vars
             PROVE  PluginInv'
    OBVIOUS
<1>1. ASSUME NEW h \in Handlers, Continue(h)
      PROVE  PluginInv'
    <2>1. CASE CreateMcpServer(h)
        BY <2>1, CreateMcpServerInv
    <2>2. CASE CreateInstallation(h)
        BY <2>2, CreateInstallationInv
    <2>3. CASE CreatePermission(h)
        BY <2>3, CreatePermissionInv
    <2>4. CASE AuditInstall(h)
        BY <2>4, AuditInstallInv
    <2>5. CASE SelectInstallation(h)
        BY <2>5, SelectInstallationInv
    <2>6. CASE UpdateInstallation(h)
        <3>1. handler[h].enabled \in BOOLEAN
            BY DEF PluginInv, TypeOK, HandlerType
        <3>2. handler[h].pc \in {"select", "update"} /\ Update(h, handler[h].enabled)
            BY <2>6 DEF UpdateInstallation, At
        <3> QED
            BY <3>1, <3>2, UpdateInv
    <2>7. CASE UpdateInMemory(h)
        <3>1. Enabled(handler[h]) \in BOOLEAN
            BY DEF Enabled, IsEnabled
        <3>2. handler[h].pc \in {"select", "update"} /\ Update(h, Enabled(handler[h]))
            BY <2>7 DEF UpdateInMemory, At
        <3> QED
            BY <3>1, <3>2, UpdateInv
    <2>8. CASE AuditSwitch(h)
        BY <2>8, AuditSwitchInv
    <2>9. CASE ReadServers(h)
        BY <2>9, ReadTablesInv DEF ReadServers
    <2>10. CASE ReadInstallations(h)
        BY <2>10, ReadTablesInv DEF ReadInstallations
    <2>11. CASE CopyTables(h)
        BY <2>11, ReadTablesInv DEF CopyTables
    <2>12. CASE ListTools(h)
        BY <2>12, ListToolsInv
    <2>13. CASE ListFails(h)
        BY <2>13, ListFailsInv
    <2>14. CASE Publish(h)
        BY <2>14, PublishInv
    <2> QED
        BY <1>1, <2>1, <2>2, <2>3, <2>4, <2>5, <2>6, <2>7, <2>8, <2>9, <2>10, <2>11,
           <2>12, <2>13, <2>14 DEF Continue
<1>2. CASE Next
    BY <1>1, <1>2, ArriveInv, FailInv DEF Next
<1>3. CASE UNCHANGED vars
    <2>1. UNCHANGED <<servers, rows, permissions, audits, gateway, handler, memory,
                      serial, failed>>
        BY <1>3 DEF vars
    <2>2. TypeOK' /\ RowsOK' /\ Apart'
        BY <2>1 DEF PluginInv, TypeOK, RowsOK, Apart
    <2>3. \A t \in permissions' : Permitted(t)'
        BY <2>1 DEF PluginInv, Permitted
    <2>4. \A h \in Handlers : PlaceOK(handler[h])'
        BY ZenonT(30), <2>1 DEF PluginInv, PlaceOK, GrantOK, Whole, RowOf
    <2>5. ActiveInstallations' = ActiveInstallations
        BY <2>1 DEF ActiveInstallations
    <2>6. \A t, silent, asked : Newest(t, silent, asked)' = Newest(t, silent, asked)
        <3>1. \A t, silent, asked : Able(t, silent, asked)' = Able(t, silent, asked)
            BY <2>1 DEF Able
        <3> QED
            BY <2>1, <3>1 DEF Newest
    <2>7. SerialOK'
        BY <2>1, <2>5, <2>6 DEF PluginInv, SerialOK, ReadOK, Served, IsIdle, At
    <2> QED
        BY <2>2, <2>3, <2>4, <2>7 DEF PluginInv
<1> QED
    BY <1>2, <1>3

LEMMA AlwaysInv == Spec => []PluginInv
BY InitInv, NextInv, PTL DEF Spec

----------------------------------------------------------------------------
(* Results.                                                                *)

\* However requests interleave and wherever they fail, no tool is permitted
\* for a plugin that is not installed, and a request that comes to its refresh
\* has installed all of what it was asked.
THEOREM InstallationsAreWhole == Spec => []InstalledWhole
<1>1. PluginInv => InstalledWhole
    <2> SUFFICES ASSUME PluginInv
                 PROVE  InstalledWhole
        OBVIOUS
    <2>1. TypeOK /\ \A t \in permissions : Permitted(t)
        BY DEF PluginInv
    <2>2. ASSUME NEW h \in Handlers, At(h, "query"), handler[h].plugin # None
          PROVE  Whole(handler[h].plugin)
        BY <2>2 DEF PluginInv, PlaceOK, At
    <2> QED
        BY <2>1, <2>2 DEF InstalledWhole, Permitted, Whole
<1> QED
    BY <1>1, AlwaysInv, PTL

\* With one request at a time, and none failed since the last refresh, the
\* newest enabled plugin that offers a tool and answered executes it, whatever
\* the plugins and the tools they offer.
THEOREM ToolsFollowTheTables == Spec => []QuietIsServed
<1>1. PluginInv => QuietIsServed
    <2> SUFFICES ASSUME PluginInv, serial, \A h \in Handlers : IsIdle(h), ~failed
                 PROVE  \E silent \in SUBSET Flaky :
                            \A t \in Tools : gateway[t] = Executor(t, silent)
        BY DEF QuietIsServed
    <2>1. Served(gateway, ActiveInstallations)
        BY DEF PluginInv, SerialOK
    <2>2. \A t, silent : Executor(t, silent) = Newest(t, silent, ActiveInstallations)
        <3> TAKE t, silent
        <3>1. {i \in 1..Len(rows) : /\ rows[i].enabled
                                    /\ rows[i].scope = "tenant"
                                    /\ rows[i].plugin \notin silent
                                    /\ t \in Offers[rows[i].plugin]}
              = Able(t, silent, ActiveInstallations)
            BY DEF Able, ActiveInstallations, InService
        <3> QED
            BY <3>1 DEF Executor, Newest
    <2> QED
        BY <2>1, <2>2 DEF Served
<1> QED
    BY <1>1, AlwaysInv, PTL

----------------------------------------------------------------------------
(* One call of an external tool server, for any amount of output.          *)

\* The timer watches the child from its start to the settlement.
Watched ==
    /\ child = "running" => timer = "armed"
    /\ timer = "armed" => promise = Pending
    /\ child = "none" => timer = "off"

\* An HTTP exchange has no child, and a stdio call no exchange.
OneTransport ==
    /\ transport = "http" => child = "none" /\ code = "none"
    /\ exchange \in {"sent", "ok", "notOk"} => transport = "http"

\* Only a child that ended by itself has an exit code of zero.
EndedWell == code = "zero" => child = "ended"

CallInv == CallTypeOK /\ Watched /\ OneTransport /\ EndedWell /\ WholeAnswer

\* Normalisation yields one of the two shapes a caller expects.
LEMMA NormalizeType ==
    ASSUME NEW json \in Payloads, method \in {"list", "invoke"}
    PROVE  Normalize(json) \in Values
BY DEF Normalize, NormalizeToolList, NormalizeToolResult,
   Payloads, Values

LEMMA CallStartInv == CallInit => CallInv
<1> SUFFICES ASSUME CallInit
             PROVE  CallInv
  OBVIOUS
<1>1. heard \in 0..written /\ written \in 0..MaxChunks
  BY ToolCallAssumption DEF CallInit
<1>2. CallTypeOK
  BY <1>1 DEF CallInit, CallTypeOK, Contents
<1>3. Watched /\ OneTransport /\ EndedWell
  BY DEF CallInit, Watched, OneTransport, EndedWell
<1>4. WholeAnswer
  BY DEF CallInit, WholeAnswer, Pending, Values
<1> QED
  BY <1>2, <1>3, <1>4 DEF CallInv

\* What a settlement with a parsed text yields.
LEMMA SettleParsed ==
    ASSUME CallInv, NEW text \in Contents, NEW outcome,
           outcome = Parsed(text), Settle(outcome)
    PROVE  /\ promise' \in {Pending, Rejected} \cup Values
           /\ promise' # Pending
           /\ promise' \in Values => \/ promise \in Values /\ promise' = promise
                                     \/ promise' = Normalize(text)
BY NormalizeType
DEF CallInv, CallTypeOK, Parsed, Settle, Pending, Rejected,
   Values, Payloads

LEMMA SettleRejected ==
    ASSUME CallInv, Settle(Rejected)
    PROVE  /\ promise' \in {Rejected} \cup Values
           /\ promise' # Pending
           /\ promise' \in Values => promise' = promise
BY DEF CallInv, CallTypeOK, Settle, Pending, Rejected, Values

LEMMA CallStepInv == CallInv /\ [CallNext]_callVars => CallInv'
<1> SUFFICES ASSUME CallInv, [CallNext]_callVars
             PROVE  CallInv'
  OBVIOUS
<1> USE ToolCallAssumption DEF CallInv, CallTypeOK, Watched, OneTransport,
   EndedWell
<1>1. CASE Spawn
  BY <1>1 DEF Spawn, Unspawned, WholeAnswer, Pending,
     Rejected, Values, Contents
<1>2. CASE SpawnFails
  BY <1>2 DEF SpawnFails, Unspawned, WholeAnswer, Pending,
     Rejected, Values, Contents
<1>3. CASE SpawnThrows
  BY <1>3 DEF SpawnThrows, Unspawned, Settle, stdioVars,
     WholeAnswer, Pending, Rejected, Values, Contents
<1>4. CASE Write
  BY <1>4 DEF Write, WholeAnswer, Pending, Values
<1>5. CASE Hear
  BY <1>5 DEF Hear, WholeAnswer, Pending, Values
<1>6. CASE Exit
  <2>1. promise = Pending
    BY <1>6 DEF Exit
  <2>2. payload' \in Contents
    BY <1>6 DEF Exit, Contents
  <2> QED
    BY <1>6, <2>1, <2>2 DEF Exit, WholeAnswer, Pending, Values
<1>7. CASE Release
  <2>1. UNCHANGED <<method, transport, promise, timer, child, code, written, heard,
                    payload, seen, exchange>>
        /\ held' \in BOOLEAN
    BY <1>7 DEF Release
  <2>2. WholeAnswer'
    <3>1. Normalize(payload)' = Normalize(payload)
      BY <2>1 DEF Normalize, NormalizeToolList, NormalizeToolResult
    <3> QED
      BY <2>1, <3>1 DEF WholeAnswer
  <2> QED
    BY <2>1, <2>2
<1>8. CASE Timeout
  <2>1. promise = Pending /\ promise' = Rejected
    BY <1>8 DEF Timeout, Settle
  <2> QED
    BY <1>8, <2>1 DEF Timeout, WholeAnswer, Pending, Rejected,
       Values
<1>9. CASE ErrorEvent
  <2>1. Settle(Rejected) /\ code' = code
    BY <1>9 DEF ErrorEvent
  <2>2. /\ promise' \in {Rejected} \cup Values
        /\ promise' # Pending
        /\ promise' \in Values => promise' = promise
    BY <2>1, SettleRejected
  <2>3. WholeAnswer'
    BY <1>9, <2>2 DEF ErrorEvent, WholeAnswer, Normalize
  <2>4. timer' \in {"off", "cleared", "fired"}
    BY <1>9 DEF ErrorEvent, ClearTimeout
  <2> QED
    BY <1>9, <2>2, <2>3, <2>4 DEF ErrorEvent, ClearTimeout
<1>10. CASE CloseEvent
  <2>1. timer' \in {"off", "cleared", "fired"}
    BY <1>10 DEF CloseEvent, ClearTimeout
  <2>2. transport = "stdio" /\ heard = written
    BY <1>10 DEF CloseEvent, AllHeard
  <2>3. CASE code = "zero"
    <3> DEFINE outcome == Parsed(payload)
    <3>1. Settle(outcome)
      BY <1>10, <2>3 DEF CloseEvent
    <3>2. /\ promise' \in {Pending, Rejected} \cup Values
          /\ promise' # Pending
          /\ promise' \in Values => \/ promise \in Values /\ promise' = promise
                                    \/ promise' = Normalize(payload)
      BY <3>1, SettleParsed
    <3>3. WholeAnswer'
      BY <1>10, <2>2, <2>3, <3>2 DEF CloseEvent, WholeAnswer, Normalize
    <3> HIDE DEF outcome
    <3> QED
      BY <1>10, <2>1, <3>2, <3>3 DEF CloseEvent, ClearTimeout
  <2>4. CASE code # "zero"
    <3>1. Settle(Rejected)
      BY <1>10, <2>4 DEF CloseEvent
    <3>2. /\ promise' \in {Rejected} \cup Values
          /\ promise' # Pending
          /\ promise' \in Values => promise' = promise
      BY <3>1, SettleRejected
    <3>3. WholeAnswer'
      BY <1>10, <3>2 DEF CloseEvent, WholeAnswer, Normalize
    <3> QED
      BY <1>10, <2>1, <3>2, <3>3 DEF CloseEvent, ClearTimeout
  <2> QED
    BY <2>3, <2>4
<1>11. CASE Send
  BY <1>11 DEF Send, stdioVars, WholeAnswer, Normalize
<1>12. CASE Respond
  BY <1>12 DEF Respond, stdioVars, WholeAnswer, Normalize
<1>13. CASE ReadJsonResponse
  <2>1. payload' \in Contents
    BY <1>13 DEF ReadJsonResponse, Contents
  <2>2. promise' \in {Rejected} \cup Values /\ (promise' \in Values => exchange = "ok")
    <3>1. promise' = IF exchange = "notOk" THEN Rejected ELSE ParsedBody(payload')
      BY <1>13 DEF ReadJsonResponse, Settle
    <3>2. ParsedBody(payload') \in {Rejected} \cup Values
      BY NormalizeType DEF ParsedBody, Parsed
    <3>3. Rejected \notin Values
      BY DEF Rejected, Values
    <3>4. exchange \in {"ok", "notOk"}
      BY <1>13 DEF ReadJsonResponse
    <3> QED
      BY <3>1, <3>2, <3>3, <3>4
  <2>3. transport = "http" /\ timer = "off"
    BY <1>13 DEF ReadJsonResponse
  <2>4. UNCHANGED <<method, transport, exchange, stdioVars>>
    BY <1>13 DEF ReadJsonResponse
  <2>5. WholeAnswer'
    BY <2>2, <2>3, <2>4 DEF WholeAnswer
  <2> QED
    BY <2>1, <2>2, <2>3, <2>4, <2>5 DEF stdioVars
<1>14. CASE FetchFails
  <2>1. promise' = Rejected /\ timer = "off"
    BY <1>14 DEF FetchFails, Settle
  <2> QED
    BY <1>14, <2>1 DEF FetchFails, stdioVars, WholeAnswer,
       Rejected, Values
<1>15. CASE UNCHANGED callVars
  BY <1>15 DEF callVars, stdioVars, WholeAnswer, Normalize
<1> QED
  BY <1>1, <1>2, <1>3, <1>4, <1>5, <1>6, <1>7, <1>8, <1>9, <1>10, <1>11,
     <1>12, <1>13, <1>14, <1>15 DEF CallNext

LEMMA CallAlwaysInv == CallSpec => []CallInv
BY CallStartInv, CallStepInv, PTL DEF CallSpec

\* However the events of a call are ordered, it never goes on without its
\* child being over and its timer being off.
THEOREM NothingIsLeft == CallSpec => []NothingLeft
<1>1. CallInv => NothingLeft
  BY DEF CallInv, Watched, NothingLeft, Settled
<1> QED
  BY <1>1, CallAlwaysInv, PTL

\* For any amount of output, a call succeeds only with all of it.
THEOREM AnswersAreWhole == CallSpec => []WholeAnswer
<1>1. CallInv => WholeAnswer
  BY DEF CallInv
<1> QED
  BY <1>1, CallAlwaysInv, PTL
=============================================================================
