-------------------------- MODULE Providers_proofs --------------------------
(***************************************************************************)
(* What provider administration guarantees for any number of requests,     *)
(* providers, models and keys, and what runChat receives of a provider's   *)
(* stream, for any lines, any length and any way the network cuts it.      *)
(***************************************************************************)
EXTENDS ProviderAdmin, ProviderStream, FiniteSetTheorems, SequenceTheorems, WellFoundedInduction, TLAPS

----------------------------------------------------------------------------
(* The newest key.                                                         *)

\* A set of naturals that is not empty has a least element.
LEMMA LeastNatural ==
    ASSUME NEW T \in SUBSET Nat, T # {}
    PROVE  \E x \in T : \A y \in T : x <= y
<1>1. PICK x \in T : \A y \in T : ~(<<y, x>> \in OpToRel(<, Nat))
    BY WFMin, NatLessThanWellFounded
<1>2. ASSUME NEW y \in T PROVE x <= y
    <2>1. y < x => <<y, x>> \in OpToRel(<, Nat)
        BY DEF OpToRel
    <2>2. ~(y < x)
        BY <1>1, <2>1
    <2>3. x \in Nat /\ y \in Nat
        OBVIOUS
    <2> QED
        BY <2>2, <2>3
<1> QED
    BY <1>2

\* Max is the last of some places of a list.
LEMMA MaxOfPlaces ==
    ASSUME NEW n \in Nat, NEW T \in SUBSET (1..n), T # {}
    PROVE  Max(T) \in T /\ \A i \in T : i <= Max(T)
<1> DEFINE fromEnd == {k \in 0..n : n - k \in T}
<1>1. PICK i \in T : TRUE
    OBVIOUS
<1>2. n - i \in fromEnd /\ fromEnd \in SUBSET Nat
    OBVIOUS
<1>3. \A k \in fromEnd : n - k \in T
    OBVIOUS
<1>4. \A j \in T : n - j \in fromEnd
    OBVIOUS
<1> HIDE DEF fromEnd
<1>5. PICK x \in fromEnd : \A y \in fromEnd : x <= y
    BY <1>2, LeastNatural
<1>6. \A j \in T : n - x >= j
    BY <1>2, <1>4, <1>5
<1> QED
    BY <1>3, <1>5, <1>6 DEF Max

\* The newest key of a provider, if it has one.
LEMMA SecretIsNewest ==
    ASSUME keys \in Seq(Providers), NEW p
    PROVE  /\ Secret(p) \in Nat
           /\ Secret(p) = 0 <=> KeysOf(p) = {}
           /\ KeysOf(p) # {} => Secret(p) = Max(KeysOf(p))
           /\ \A i \in KeysOf(p) : i <= Secret(p)
<1>1. Len(keys) \in Nat /\ KeysOf(p) \in SUBSET (1..Len(keys))
    BY DEF KeysOf
<1>2. KeysOf(p) # {} => Max(KeysOf(p)) \in KeysOf(p)
                        /\ \A i \in KeysOf(p) : i <= Max(KeysOf(p))
    BY <1>1, MaxOfPlaces
<1> QED
    BY <1>1, <1>2 DEF Secret

----------------------------------------------------------------------------
(* The inductive invariant.                                                *)

TablesOK ==
    /\ rows \in [Providers -> Flags]
    /\ models \in [Providers -> [Models -> Seq({"on", "off"})]]
    /\ keys \in Seq(Providers)
    /\ served \in [Providers -> Offer]
    /\ memory \in BOOLEAN
    /\ serial \in BOOLEAN
    /\ wish \in [Providers -> Flags]
    /\ failed \in BOOLEAN
    /\ ~memory => \A p \in Providers, m \in Models : Len(models[p][m]) <= 1

\* What a refresh publishes if nothing is written while it runs.
Current ==
    [p \in Providers |->
       IF rows[p] = "on" /\ Serving(p) # {} /\ KeysOf(p) # {}
       THEN [models |-> Serving(p), key |-> Secret(p)]
       ELSE OutOfService]

\* What a request holds at each place.
PlaceOK(l) ==
    /\ l.pc \in Places \ {"idle", "query", "keys"} => l.provider \in Providers
    /\ l.pc \in {"insertModel", "selectModel", "updateModel"} => l.model \in Models
    /\ l.pc = "updateModel" => l.kept \in {"on", "off"}
    /\ l.pc = "query" <=> l.waiting # {}

\* No offer has a key older than the newest one when the refresh began.
OffersFresh(l) ==
    /\ l.since <= Len(keys)
    /\ \A p \in Providers : l.offers[p] # OutOfService =>
          \A i \in KeysOf(p) : i <= l.since => i <= l.offers[p].key

\* A provider is created by one request, and no other knows its id before.
InsertAlone(h) ==
    At(h, "insert") =>
        /\ rows[Provider(h)] = "none"
        /\ \A g \in Handlers \ {h} : Provider(g) # Provider(h)

\* What a request alone has read is what the tables say.
ReadOK(l) ==
    /\ l.pc = "update" => l.kept = rows[l.provider]
    /\ l.pc = "query" =>
          /\ "providers" \notin l.waiting => l.active = {p \in Providers : rows[p] = "on"}
          /\ "models" \notin l.waiting => l.enabled = [p \in Providers |-> Serving(p)]
          /\ l.offers = [p \in Providers |-> OutOfService]
    /\ l.pc = "keys" => \A p \in Providers :
          IF p \in l.active
          THEN rows[p] = "on" /\ Serving(p) # {} /\ l.enabled[p] = Serving(p)
          ELSE l.offers[p] = Current[p]

\* Nothing has been written yet.
Unwritten(l) == l.pc \in {"idle", "select", "update", "snapshot"}

SerialOK ==
    serial =>
        /\ \A g, h \in Handlers : ~At(g, "idle") /\ ~At(h, "idle") => g = h
        /\ rows = wish
        /\ \A h \in Handlers : ReadOK(handler[h])
        /\ ~failed /\ (\A h \in Handlers : Unwritten(handler[h])) => served = Current

ProviderInv ==
    /\ TablesOK
    /\ handler \in [Handlers -> HandlerType]
    /\ \A h \in Handlers : /\ PlaceOK(handler[h]) /\ OffersFresh(handler[h])
                           /\ InsertAlone(h)
    /\ SerialOK

\* Idle requests hold nothing.
LEMMA IdleTyped ==
    /\ Idle \in HandlerType
    /\ PlaceOK(Idle)
<1>1. NoCall \in Calls \cup {NoCall}
    OBVIOUS
<1>2. [p \in Providers |-> {}] \in [Providers -> SUBSET Models]
    OBVIOUS
<1>3. [p \in Providers |-> OutOfService] \in [Providers -> Offer]
    BY DEF OutOfService, Offer
<1>4. Idle \in HandlerType
    BY <1>1, <1>2, <1>3 DEF Idle, HandlerType, Places, Flags
<1> QED
    BY <1>4 DEF Idle, PlaceOK, Places

\* A local state that offers nothing and has no key to be newer than.
LEMMA NothingOffered ==
    ASSUME keys \in Seq(Providers), NEW l, l.since <= Len(keys),
           l.offers = [p \in Providers |-> OutOfService]
    PROVE  OffersFresh(l)
BY DEF OffersFresh

\* Nobody asks, and the tables are empty.
LEMMA InitInv == Init => ProviderInv
<1> SUFFICES ASSUME Init PROVE ProviderInv
    OBVIOUS
<1>1. TablesOK
    <2>1. [p \in Providers |-> OutOfService] \in [Providers -> Offer]
        BY DEF OutOfService, Offer
    <2>2. [p \in Providers |-> [m \in Models |-> <<>>]]
            \in [Providers -> [Models -> Seq({"on", "off"})]]
        OBVIOUS
    <2>3. keys \in Seq(Providers)
        BY DEF Init
    <2>4. \A p \in Providers, m \in Models : Len(models[p][m]) <= 1
        BY DEF Init
    <2> QED
        BY <2>1, <2>2, <2>3, <2>4 DEF Init, TablesOK, Flags
<1>2. handler \in [Handlers -> HandlerType]
    BY IdleTyped DEF Init
<1>3. ASSUME NEW h \in Handlers
      PROVE  /\ handler[h] = Idle /\ At(h, "idle")
             /\ PlaceOK(handler[h]) /\ OffersFresh(handler[h]) /\ InsertAlone(h)
             /\ ReadOK(handler[h])
    <2>1. handler[h] = Idle /\ Idle.pc = "idle" /\ Idle.since = 0
          /\ Idle.offers = [p \in Providers |-> OutOfService]
        BY DEF Init, Idle
    <2>2. OffersFresh(Idle)
        BY <1>1, <2>1, NothingOffered DEF TablesOK
    <2> QED
        BY <2>1, <2>2, IdleTyped DEF At, InsertAlone, ReadOK
<1>4. served = Current
    BY DEF Init, Current
<1>5. rows = wish
    BY DEF Init
<1> QED
    BY <1>1, <1>2, <1>3, <1>4, <1>5 DEF ProviderInv, SerialOK

----------------------------------------------------------------------------
(* What a step has to keep.                                                *)

\* In a serial world who is on its way is alone.
LEMMA AloneWhenSerial ==
    ASSUME ProviderInv, serial, NEW h \in Handlers, ~At(h, "idle"), NEW g \in Handlers \ {h}
    PROVE  At(g, "idle")
BY DEF ProviderInv, SerialOK

\* Keys only become more: what was fresh stays fresh.
LEMMA StaysFresh ==
    ASSUME keys \in Seq(Providers), NEW l, OffersFresh(l), l.since \in Nat,
           keys' = keys \/ \E p \in Providers : keys' = Append(keys, p)
    PROVE  OffersFresh(l)'
<1>1. CASE keys' = keys
    BY <1>1 DEF OffersFresh, KeysOf
<1>2. ASSUME NEW q \in Providers, keys' = Append(keys, q)
      PROVE  OffersFresh(l)'
    <2>1. /\ Len(keys) \in Nat /\ Len(keys') = Len(keys) + 1
          /\ \A i \in 1..Len(keys) : keys'[i] = keys[i]
        BY <1>2
    <2>2. ASSUME NEW p \in Providers, l.offers[p] # OutOfService,
                 NEW i \in 1..Len(keys'), keys'[i] = p, i <= l.since
          PROVE  i <= l.offers[p].key
        <3>1. i \in 1..Len(keys)
            BY <2>1, <2>2 DEF OffersFresh
        <3>2. i \in KeysOf(p)
            BY <2>1, <2>2, <3>1 DEF KeysOf
        <3> QED
            BY <2>2, <3>2 DEF OffersFresh
    <2> QED
        BY <2>1, <2>2 DEF OffersFresh, KeysOf
<1> QED
    BY <1>1, <1>2

\* A step of one request to the local state l keeps the invariant when l is in
\* order, no other request is creating what l names, and what one request alone
\* has read and written is true.
LEMMA Step ==
    ASSUME ProviderInv, NEW h \in Handlers, NEW l \in HandlerType,
           handler' = [handler EXCEPT ![h] = l],
           TablesOK', serial' = serial,
           keys' = keys \/ \E p \in Providers : keys' = Append(keys, p),
           PlaceOK(l), OffersFresh(l)',
           l.pc = "insert" => /\ rows'[l.provider] = "none"
                              /\ \A g \in Handlers \ {h} : Provider(g) # l.provider,
           \A g \in Handlers \ {h} : At(g, "insert") =>
               /\ rows'[Provider(g)] = rows[Provider(g)]
               /\ l.provider # Provider(g),
           serial => /\ \A g \in Handlers \ {h} : At(g, "idle")
                     /\ rows' = wish'
                     /\ ReadOK(l)'
                     /\ ~failed' /\ Unwritten(l) => served' = Current'
    PROVE  ProviderInv'
<1>1. handler \in [Handlers -> HandlerType] /\ TablesOK
    BY DEF ProviderInv
<1>2. handler' \in [Handlers -> HandlerType]
    BY <1>1
<1>3. handler'[h] = l /\ \A g \in Handlers \ {h} : handler'[g] = handler[g]
    BY <1>1
<1>4. ASSUME NEW g \in Handlers
      PROVE  PlaceOK(handler[g])'
    <2>1. PICK k : k = handler'[g]
        OBVIOUS
    <2>2. PlaceOK(k)
        BY <1>3, <2>1 DEF ProviderInv
    <2> QED
        BY <2>1, <2>2 DEF PlaceOK
<1>5. ASSUME NEW g \in Handlers
      PROVE  OffersFresh(handler[g])'
    <2>1. PICK k : k = handler'[g]
        OBVIOUS
    <2>2. OffersFresh(k)'
        <3>1. CASE g = h
            BY <1>3, <2>1, <3>1
        <3>2. CASE g # h
            <4>1. k = handler[g] /\ k \in HandlerType
                BY <1>1, <1>3, <2>1, <3>2
            <4>2. OffersFresh(k) /\ k.since \in Nat
                BY <4>1 DEF ProviderInv, HandlerType
            <4>3. keys \in Seq(Providers)
                BY <1>1 DEF TablesOK
            <4> QED
                BY <4>2, <4>3, StaysFresh
        <3> QED
            BY <3>1, <3>2
    <2> QED
        BY <2>1, <2>2 DEF OffersFresh
<1>6. ASSUME NEW g \in Handlers
      PROVE  InsertAlone(g)'
    <2>1. CASE g = h
        BY <1>3, <2>1 DEF InsertAlone, At, Provider
    <2>2. CASE g # h
        <3> SUFFICES ASSUME At(g, "insert")'
                     PROVE  /\ rows'[Provider(g)'] = "none"
                            /\ \A f \in Handlers \ {g} : Provider(f)' # Provider(g)'
            BY DEF InsertAlone
        <3>1. At(g, "insert") /\ Provider(g)' = Provider(g)
            BY <1>3, <2>2 DEF At, Provider
        <3>2. InsertAlone(g)
            BY DEF ProviderInv
        <3>3. rows'[Provider(g)] = "none"
            BY <2>2, <3>1, <3>2 DEF InsertAlone
        <3>4. ASSUME NEW f \in Handlers \ {g}
              PROVE  Provider(f)' # Provider(g)
            <4>1. CASE f = h
                BY <1>3, <2>2, <3>1, <4>1 DEF Provider
            <4>2. CASE f # h
                BY <1>3, <3>1, <3>2, <4>2 DEF InsertAlone, Provider
            <4> QED
                BY <4>1, <4>2
        <3> QED
            BY <3>1, <3>3, <3>4
    <2> QED
        BY <2>1, <2>2
<1>7. ASSUME serial'
      PROVE  /\ \A f, g \in Handlers : ~At(f, "idle")' /\ ~At(g, "idle")' => f = g
             /\ rows' = wish'
             /\ \A g \in Handlers : ReadOK(handler[g])'
             /\ ~failed' /\ (\A g \in Handlers : Unwritten(handler[g])') => served' = Current'
    <2>1. serial
        BY <1>7
    <2>2. \A g \in Handlers \ {h} : At(g, "idle")'
        BY <1>3, <2>1 DEF At
    <2>3. ASSUME NEW g \in Handlers
          PROVE  ReadOK(handler[g])'
        <3>1. CASE g = h
            <4>1. PICK k : k = handler'[g]
                OBVIOUS
            <4>2. ReadOK(k)'
                BY <1>3, <2>1, <3>1, <4>1
            <4> QED
                BY <4>1, <4>2 DEF ReadOK
        <3>2. CASE g # h
            BY <2>2, <3>2 DEF ReadOK, At
        <3> QED
            BY <3>1, <3>2
    <2>4. Unwritten(handler[h])' => Unwritten(l)
        BY <1>3 DEF Unwritten
    <2> QED
        BY <2>1, <2>2, <2>3, <2>4
<1>8. SerialOK'
    BY <1>7 DEF SerialOK
<1> QED
    BY <1>2, <1>4, <1>5, <1>6, <1>8 DEF ProviderInv

\* A request that is on its way writes nothing and goes on, or returns.
LEMMA LocalStep ==
    ASSUME ProviderInv, NEW h \in Handlers, ~At(h, "idle"), NEW l \in HandlerType,
           handler' = [handler EXCEPT ![h] = l],
           UNCHANGED <<rows, models, keys, served, fixed, wish>>,
           failed' = failed \/ (failed' \in BOOLEAN /\ (serial => failed')),
           PlaceOK(l), OffersFresh(l),
           l.pc # "insert",
           l.provider = Provider(h) \/ l.provider = "none",
           serial => /\ ReadOK(l)
                     /\ Unwritten(l) /\ ~failed' => Unwritten(handler[h])
    PROVE  ProviderInv'
<1>1. TablesOK /\ TablesOK'
    BY DEF ProviderInv, TablesOK, fixed
<1>2. serial' = serial
    BY DEF fixed
<1>3. OffersFresh(l)'
    BY DEF OffersFresh, KeysOf
<1>4. ASSUME NEW g \in Handlers \ {h}, At(g, "insert")
      PROVE  l.provider # Provider(g)
    <2>1. Provider(h) # Provider(g)
        BY <1>4 DEF ProviderInv, InsertAlone
    <2>2. Provider(g) # "none"
        BY <1>4, ProviderAssumption DEF ProviderInv, PlaceOK, At, Provider, Places
    <2> QED
        BY <2>1, <2>2
<1>5. ASSUME serial
      PROVE  /\ \A g \in Handlers \ {h} : At(g, "idle")
             /\ rows' = wish'
             /\ ReadOK(l)'
             /\ ~failed' /\ Unwritten(l) => served' = Current'
    <2>1. \A g \in Handlers \ {h} : At(g, "idle")
        BY <1>5, AloneWhenSerial
    <2>2. rows' = wish'
        BY <1>5 DEF ProviderInv, SerialOK
    <2>3. Current' = Current
        BY DEF Current, Serving, KeysOf, Secret
    <2>4. ReadOK(l)'
        BY <1>5, <2>3 DEF ReadOK, Serving
    <2>5. ASSUME ~failed', Unwritten(l)
          PROVE  served' = Current'
        <3>1. ~failed /\ Unwritten(handler[h])
            BY <1>5, <2>5
        <3>2. \A g \in Handlers : Unwritten(handler[g])
            BY <2>1, <3>1 DEF Unwritten, At
        <3> QED
            BY <1>5, <2>3, <3>1, <3>2 DEF ProviderInv, SerialOK
    <2> QED
        BY <2>1, <2>2, <2>4, <2>5
<1>6. \A g \in Handlers \ {h} : At(g, "insert") =>
           rows'[Provider(g)] = rows[Provider(g)] /\ l.provider # Provider(g)
    BY <1>4
<1> QED
    BY <1>1, <1>2, <1>3, <1>5, <1>6, Step

\* A request writes, and has yet to read anything of its refresh.
LEMMA WriteStep ==
    ASSUME ProviderInv, NEW h \in Handlers, ~At(h, "idle"), NEW l \in HandlerType,
           handler' = [handler EXCEPT ![h] = l],
           TablesOK', serial' = serial,
           keys' = keys \/ \E p \in Providers : keys' = Append(keys, p),
           PlaceOK(l), OffersFresh(l),
           l.pc \in {"credential", "query", "sync"},
           l.pc = "query" => /\ l.waiting = {"providers", "models"}
                             /\ l.offers = [p \in Providers |-> OutOfService],
           l.provider = Provider(h) \/ l.provider = "none",
           \A q : q # Provider(h) => rows'[q] = rows[q],
           serial => rows' = wish'
    PROVE  ProviderInv'
<1>1. OffersFresh(l)'
    <2>1. keys \in Seq(Providers) /\ l.since \in Nat
        BY DEF ProviderInv, TablesOK, HandlerType
    <2> QED
        BY <2>1, StaysFresh
<1>2. ASSUME NEW g \in Handlers \ {h}, At(g, "insert")
      PROVE  rows'[Provider(g)] = rows[Provider(g)] /\ l.provider # Provider(g)
    <2>1. Provider(h) # Provider(g)
        BY <1>2 DEF ProviderInv, InsertAlone
    <2>2. Provider(g) # "none"
        BY <1>2, ProviderAssumption DEF ProviderInv, PlaceOK, At, Provider, Places
    <2> QED
        BY <2>1, <2>2
<1>3. ASSUME serial
      PROVE  /\ \A g \in Handlers \ {h} : At(g, "idle")
             /\ rows' = wish'
             /\ ReadOK(l)'
             /\ ~failed' /\ Unwritten(l) => served' = Current'
    <2>1. \A g \in Handlers \ {h} : At(g, "idle")
        BY <1>3, AloneWhenSerial
    <2>2. ReadOK(l)'
        BY DEF ReadOK
    <2>3. ~Unwritten(l)
        BY DEF Unwritten
    <2> QED
        BY <1>3, <2>1, <2>2, <2>3
<1>4. l.pc # "insert"
    OBVIOUS
<1> QED
    BY <1>1, <1>2, <1>3, <1>4, Step

\* A refresh begins with both queries to be answered and nothing to offer.
LEMMA RefreshTyped ==
    ASSUME NEW n \in Nat, NEW l,
           l = [Idle EXCEPT !.pc = "query", !.waiting = {"providers", "models"}, !.since = n]
    PROVE  /\ l \in HandlerType
           /\ PlaceOK(l)
           /\ l.pc = "query" /\ l.waiting = {"providers", "models"}
           /\ l.provider = "none" /\ l.since = n
           /\ l.offers = [p \in Providers |-> OutOfService]
<1>1. Idle \in HandlerType
    BY IdleTyped
<1>2. /\ l.pc = "query" /\ l.waiting = {"providers", "models"} /\ l.since = n
      /\ l.provider = "none" /\ l.offers = [p \in Providers |-> OutOfService]
    BY DEF Idle
<1>3. l \in HandlerType
    BY <1>1 DEF HandlerType, Places
<1> QED
    BY <1>2, <1>3 DEF PlaceOK

\* Where a request goes when its row is written.
LEMMA AfterWriteGoes ==
    ASSUME ProviderInv, NEW h \in Handlers, Provider(h) \in Providers, AfterWrite(h)
    PROVE  \E l \in HandlerType :
              /\ handler' = [handler EXCEPT ![h] = l]
              /\ PlaceOK(l) /\ OffersFresh(l)
              /\ l.pc \in {"credential", "query", "sync"}
              /\ l.pc = "query" => /\ l.waiting = {"providers", "models"}
                                   /\ l.offers = [p \in Providers |-> OutOfService]
              /\ l.provider = Provider(h) \/ l.provider = "none"
<1>1. keys \in Seq(Providers) /\ Len(keys) \in Nat
    BY DEF ProviderInv, TablesOK
<1>2. CASE Call(h).key
    <2>1. PICK l : l = [Idle EXCEPT !.pc = "credential", !.provider = Provider(h)]
        OBVIOUS
    <2>2. handler' = [handler EXCEPT ![h] = l]
        BY <1>2, <2>1 DEF AfterWrite
    <2>3. l \in HandlerType
        BY <2>1, IdleTyped DEF HandlerType, Places
    <2>4. /\ l.pc = "credential" /\ l.provider = Provider(h) /\ l.waiting = {}
          /\ l.since = 0 /\ l.offers = [p \in Providers |-> OutOfService]
        BY <2>1 DEF Idle
    <2>5. PlaceOK(l)
        BY <2>4 DEF PlaceOK
    <2>6. OffersFresh(l)
        BY <1>1, <2>4, NothingOffered
    <2> QED
        BY <2>2, <2>3, <2>4, <2>5, <2>6
<1>3. CASE ~Call(h).key
    <2>1. PICK l : l = [Idle EXCEPT !.pc = "query", !.waiting = {"providers", "models"},
                                    !.since = Len(keys)]
        OBVIOUS
    <2>2. handler' = [handler EXCEPT ![h] = l]
        BY <1>3, <2>1 DEF AfterWrite, Refresh
    <2>3. /\ l \in HandlerType /\ PlaceOK(l)
          /\ l.pc = "query" /\ l.waiting = {"providers", "models"}
          /\ l.provider = "none" /\ l.since = Len(keys)
          /\ l.offers = [p \in Providers |-> OutOfService]
        BY <1>1, <2>1, RefreshTyped
    <2>4. OffersFresh(l)
        BY <1>1, <2>3, NothingOffered
    <2> QED
        BY <2>2, <2>3, <2>4
<1> QED
    BY <1>2, <1>3

LEMMA RefreshGoes ==
    ASSUME ProviderInv, NEW h \in Handlers, Refresh(h)
    PROVE  \E l \in HandlerType :
              /\ handler' = [handler EXCEPT ![h] = l]
              /\ PlaceOK(l) /\ OffersFresh(l) /\ ReadOK(l)
              /\ l.pc = "query" /\ l.waiting = {"providers", "models"}
              /\ l.offers = [p \in Providers |-> OutOfService]
              /\ l.provider = "none"
<1>1. keys \in Seq(Providers) /\ Len(keys) \in Nat
    BY DEF ProviderInv, TablesOK
<1>2. PICK l : l = [Idle EXCEPT !.pc = "query", !.waiting = {"providers", "models"},
                                !.since = Len(keys)]
    OBVIOUS
<1>3. handler' = [handler EXCEPT ![h] = l]
    BY <1>2 DEF Refresh
<1>4. /\ l \in HandlerType /\ PlaceOK(l)
      /\ l.pc = "query" /\ l.waiting = {"providers", "models"}
      /\ l.provider = "none" /\ l.since = Len(keys)
      /\ l.offers = [p \in Providers |-> OutOfService]
    BY <1>1, <1>2, RefreshTyped
<1>5. OffersFresh(l)
    BY <1>1, <1>4, NothingOffered
<1>6. ReadOK(l)
    BY <1>4 DEF ReadOK
<1> QED
    BY <1>3, <1>4, <1>5, <1>6

\* A request that returns without having written.
LEMMA ReturnStep ==
    ASSUME ProviderInv, NEW h \in Handlers, ~At(h, "idle"), Return(h),
           UNCHANGED <<rows, models, keys, served, fixed, wish>>,
           \/ failed' = failed /\ Unwritten(handler[h])
           \/ failed' = serial
    PROVE  ProviderInv'
<1>1. PICK l : l = Idle
    OBVIOUS
<1>2. handler' = [handler EXCEPT ![h] = l]
    BY <1>1 DEF Return
<1>3. l \in HandlerType /\ PlaceOK(l)
    BY <1>1, IdleTyped
<1>4. /\ l.pc = "idle" /\ l.provider = "none" /\ l.since = 0
      /\ l.offers = [p \in Providers |-> OutOfService]
    BY <1>1 DEF Idle
<1>5. OffersFresh(l)
    BY <1>4, NothingOffered DEF ProviderInv, TablesOK
<1>6. ReadOK(l)
    BY <1>4 DEF ReadOK
<1>7. serial \in BOOLEAN
    BY DEF ProviderInv, TablesOK
<1>8. failed' = failed \/ (failed' \in BOOLEAN /\ (serial => failed'))
    BY <1>7
<1>9. serial => (Unwritten(l) /\ ~failed' => Unwritten(handler[h]))
    OBVIOUS
<1> QED
    BY <1>2, <1>3, <1>4, <1>5, <1>6, <1>8, <1>9, LocalStep

----------------------------------------------------------------------------
(* Every action keeps the invariant.                                       *)

\* What a request finds when it is on its way.
LEMMA OnItsWay ==
    ASSUME ProviderInv, NEW h \in Handlers
    PROVE  /\ TablesOK /\ handler[h] \in HandlerType
           /\ PlaceOK(handler[h]) /\ OffersFresh(handler[h])
           /\ serial => ReadOK(handler[h]) /\ rows = wish
           /\ rows \in [Providers -> Flags] /\ wish \in [Providers -> Flags]
           /\ models \in [Providers -> [Models -> Seq({"on", "off"})]]
           /\ keys \in Seq(Providers) /\ Len(keys) \in Nat
           /\ handler \in [Handlers -> HandlerType]
BY DEF ProviderInv, SerialOK, TablesOK

LEMMA BeginInv ==
    ASSUME ProviderInv, NEW h \in Handlers, NEW call \in Calls, NEW p \in Providers,
           NEW m \in Models, Begin(h, call, p, m)
    PROVE  ProviderInv'
<1>1. PICK l : l = [Idle EXCEPT !.pc = First(call), !.call = call, !.provider = p,
                                !.model = m]
    OBVIOUS
<1>2. /\ At(h, "idle")
      /\ serial => \A g \in Handlers : At(g, "idle")
      /\ IF call.kind = "create"
         THEN rows[p] = "none" /\ \A g \in Handlers : Provider(g) # p
         ELSE rows[p] # "none"
      /\ handler' = [handler EXCEPT ![h] = l]
      /\ UNCHANGED <<rows, models, keys, served, fixed, wish, failed>>
    BY <1>1 DEF Begin
<1>3. call \in CallType
    BY ProviderAssumption
<1>4. /\ First(call) \in {"insert", "select", "delete", "snapshot", "insertModel",
                         "selectModel"}
      /\ First(call) = "insert" => call.kind = "create"
    BY <1>3 DEF First, CallType
<1>5. /\ l.pc = First(call) /\ l.provider = p /\ l.model = m /\ l.waiting = {} /\ l.since = 0
      /\ l.offers = [q \in Providers |-> OutOfService]
    BY <1>1 DEF Idle
<1>6. l \in HandlerType
    BY <1>1, <1>4, IdleTyped DEF HandlerType, Places
<1>7. PlaceOK(l)
    BY <1>4, <1>5 DEF PlaceOK
<1>8. TablesOK' /\ serial' = serial
    BY <1>2 DEF ProviderInv, TablesOK, fixed
<1>9. OffersFresh(l)'
    <2>1. OffersFresh(l)
        BY <1>5, OnItsWay, NothingOffered
    <2> QED
        BY <1>2, <2>1 DEF OffersFresh, KeysOf
<1>10. l.pc = "insert" => /\ rows'[l.provider] = "none"
                          /\ \A g \in Handlers \ {h} : Provider(g) # l.provider
    BY <1>2, <1>4, <1>5
<1>11. ASSUME NEW g \in Handlers \ {h}, At(g, "insert")
       PROVE  rows'[Provider(g)] = rows[Provider(g)] /\ l.provider # Provider(g)
    <2>1. rows[Provider(g)] = "none"
        BY <1>11 DEF ProviderInv, InsertAlone
    <2> QED
        BY <1>2, <1>5, <2>1
<1>12. ASSUME serial
       PROVE  /\ \A g \in Handlers \ {h} : At(g, "idle")
              /\ rows' = wish'
              /\ ReadOK(l)'
              /\ ~failed' /\ Unwritten(l) => served' = Current'
    <2>1. \A g \in Handlers : At(g, "idle") /\ Unwritten(handler[g])
        BY <1>2, <1>12 DEF At, Unwritten
    <2>2. rows' = wish' /\ (~failed => served = Current)
        BY <1>2, <1>12, <2>1 DEF ProviderInv, SerialOK
    <2>3. Current' = Current
        BY <1>2 DEF Current, Serving, KeysOf, Secret
    <2>4. ReadOK(l)'
        BY <1>4, <1>5 DEF ReadOK
    <2> QED
        BY <1>2, <2>1, <2>2, <2>3, <2>4
<1> QED
    BY <1>2, <1>6, <1>7, <1>8, <1>9, <1>10, <1>11, <1>12, Step

LEMMA CreateProviderInv ==
    ASSUME ProviderInv, NEW h \in Handlers, CreateProviderConfig(h)
    PROVE  ProviderInv'
<1>1. /\ At(h, "insert") /\ ~At(h, "idle")
      /\ rows' = [rows EXCEPT ![Provider(h)] = "on"]
      /\ wish' = IF serial THEN [wish EXCEPT ![Provider(h)] = "on"] ELSE wish
      /\ AfterWrite(h)
      /\ UNCHANGED <<models, keys, served, fixed, failed>>
    BY DEF CreateProviderConfig, Wished, At
<1>2. Provider(h) \in Providers
    BY <1>1, OnItsWay DEF PlaceOK, At, Provider, Places
<1>3. PICK l \in HandlerType :
        /\ handler' = [handler EXCEPT ![h] = l]
        /\ PlaceOK(l) /\ OffersFresh(l)
        /\ l.pc \in {"credential", "query", "sync"}
        /\ l.pc = "query" => /\ l.waiting = {"providers", "models"}
                             /\ l.offers = [p \in Providers |-> OutOfService]
        /\ l.provider = Provider(h) \/ l.provider = "none"
    BY <1>1, <1>2, AfterWriteGoes
<1>4. TablesOK' /\ serial' = serial
    BY <1>1, OnItsWay DEF TablesOK, fixed, Flags
<1>5. serial => rows' = wish'
    BY <1>1, OnItsWay
<1>6. \A q : q # Provider(h) => rows'[q] = rows[q]
    BY <1>1, OnItsWay
<1> QED
    BY <1>1, <1>3, <1>4, <1>5, <1>6, WriteStep

LEMMA DeleteProviderInv ==
    ASSUME ProviderInv, NEW h \in Handlers, DeleteProviderConfig(h)
    PROVE  ProviderInv'
<1>1. /\ At(h, "delete") /\ ~At(h, "idle")
      /\ rows' = [rows EXCEPT ![Provider(h)] = "deleted"]
      /\ wish' = IF serial THEN [wish EXCEPT ![Provider(h)] = "deleted"] ELSE wish
      /\ Refresh(h)
      /\ UNCHANGED <<models, keys, served, fixed, failed>>
    BY DEF DeleteProviderConfig, Wished, At
<1>2. PICK l \in HandlerType :
        /\ handler' = [handler EXCEPT ![h] = l]
        /\ PlaceOK(l) /\ OffersFresh(l)
        /\ l.pc = "query" /\ l.waiting = {"providers", "models"}
        /\ l.offers = [p \in Providers |-> OutOfService]
        /\ l.provider = "none"
    BY <1>1, RefreshGoes
<1>3. TablesOK' /\ serial' = serial
    BY <1>1, OnItsWay DEF TablesOK, fixed, Flags
<1>4. serial => rows' = wish'
    BY <1>1, OnItsWay
<1>5. \A q : q # Provider(h) => rows'[q] = rows[q]
    BY <1>1, OnItsWay
<1> QED
    BY <1>1, <1>2, <1>3, <1>4, <1>5, WriteStep

\* Both updates: what is written is the flag asked for, or the one that was read.
LEMMA WriteProviderInv ==
    ASSUME ProviderInv, NEW h \in Handlers, ~At(h, "idle"), Provider(h) \in Providers,
           NEW kept \in Flags, serial => kept = rows[Provider(h)],
           WriteProvider(h, kept),
           UNCHANGED <<models, keys, served, fixed, failed>>
    PROVE  ProviderInv'
<1>1. Call(h).enabled \in {"on", "off", "keep"}
    <2>1. Call(h) \in Calls \cup {NoCall}
        BY OnItsWay DEF HandlerType, Call
    <2>2. Call(h) \in CallType \/ Call(h) = NoCall
        BY <2>1, ProviderAssumption
    <2> QED
        BY <2>2 DEF CallType, NoCall
<1>2. PICK flag : flag = Enabled(Call(h), kept)
    OBVIOUS
<1>3. /\ flag \in Flags
      /\ rows' = [rows EXCEPT ![Provider(h)] = flag]
      /\ AfterWrite(h)
    BY <1>1, <1>2 DEF WriteProvider, Enabled, Flags
<1>4. serial => wish' = [wish EXCEPT ![Provider(h)] = flag]
    BY <1>2, OnItsWay DEF WriteProvider, Wished, Enabled
<1>5. wish' \in [Providers -> Flags]
    BY <1>3, <1>4, OnItsWay DEF WriteProvider, Wished
<1>6. PICK l \in HandlerType :
        /\ handler' = [handler EXCEPT ![h] = l]
        /\ PlaceOK(l) /\ OffersFresh(l)
        /\ l.pc \in {"credential", "query", "sync"}
        /\ l.pc = "query" => /\ l.waiting = {"providers", "models"}
                             /\ l.offers = [p \in Providers |-> OutOfService]
        /\ l.provider = Provider(h) \/ l.provider = "none"
    BY <1>3, AfterWriteGoes
<1>7. TablesOK' /\ serial' = serial
    BY <1>3, <1>5, OnItsWay DEF TablesOK, fixed
<1>8. serial => rows' = wish'
    BY <1>3, <1>4, OnItsWay
<1>9. \A q : q # Provider(h) => rows'[q] = rows[q]
    BY <1>3, OnItsWay
<1> QED
    BY <1>6, <1>7, <1>8, <1>9, WriteStep

LEMMA UpdateProviderInv ==
    ASSUME ProviderInv, NEW h \in Handlers,
           UpdateProviderConfig(h) \/ UpdateProviderInMemory(h)
    PROVE  ProviderInv'
<1>1. /\ ~At(h, "idle") /\ Unwritten(handler[h]) /\ Provider(h) \in Providers
      /\ handler[h].kept \in Flags /\ rows[Provider(h)] \in Flags
      /\ At(h, "update") /\ serial => handler[h].kept = rows[Provider(h)]
    <2>1. At(h, "update") \/ At(h, "select")
        BY DEF UpdateProviderConfig, UpdateProviderInMemory
    <2>2. Provider(h) \in Providers
        BY <2>1, OnItsWay DEF PlaceOK, At, Provider, Places
    <2>3. handler[h].kept \in Flags /\ rows[Provider(h)] \in Flags
        BY <2>2, OnItsWay DEF HandlerType
    <2>4. At(h, "update") /\ serial => handler[h].kept = rows[Provider(h)]
        BY OnItsWay DEF ReadOK, At, Provider
    <2> QED
        BY <2>1, <2>2, <2>3, <2>4 DEF At, Unwritten
<1>2. CASE rows[Provider(h)] = "deleted"
    <2>1. Return(h) /\ UNCHANGED <<rows, models, keys, served, fixed, wish, failed>>
        BY <1>2 DEF UpdateProviderConfig, UpdateProviderInMemory
    <2> QED
        BY <1>1, <2>1, ReturnStep
<1>3. CASE rows[Provider(h)] # "deleted" /\ UpdateProviderConfig(h)
    <2>1. /\ At(h, "update") /\ WriteProvider(h, handler[h].kept)
          /\ UNCHANGED <<models, keys, served, fixed, failed>>
        BY <1>3 DEF UpdateProviderConfig
    <2> QED
        BY <1>1, <2>1, WriteProviderInv
<1>4. CASE rows[Provider(h)] # "deleted" /\ UpdateProviderInMemory(h)
    <2>1. /\ WriteProvider(h, rows[Provider(h)])
          /\ UNCHANGED <<models, keys, served, fixed, failed>>
        BY <1>4 DEF UpdateProviderInMemory
    <2> QED
        BY <1>1, <2>1, WriteProviderInv
<1> QED
    BY <1>2, <1>3, <1>4

LEMMA CreateCredentialInv ==
    ASSUME ProviderInv, NEW h \in Handlers, CreateCredential(h)
    PROVE  ProviderInv'
<1>1. /\ At(h, "credential") /\ ~At(h, "idle")
      /\ keys' = Append(keys, Provider(h))
      /\ Refresh(h)
      /\ UNCHANGED <<rows, models, served, fixed, wish, failed>>
    BY DEF CreateCredential, At
<1>2. Provider(h) \in Providers
    BY <1>1, OnItsWay DEF PlaceOK, At, Provider, Places
<1>3. PICK l \in HandlerType :
        /\ handler' = [handler EXCEPT ![h] = l]
        /\ PlaceOK(l) /\ OffersFresh(l)
        /\ l.pc = "query" /\ l.waiting = {"providers", "models"}
        /\ l.offers = [p \in Providers |-> OutOfService]
        /\ l.provider = "none"
    BY <1>1, RefreshGoes
<1>4. TablesOK' /\ serial' = serial
    <2>1. keys' \in Seq(Providers)
        BY <1>1, <1>2, OnItsWay
    <2> QED
        BY <1>1, <2>1, OnItsWay DEF TablesOK, fixed
<1>5. serial => rows' = wish'
    BY <1>1, OnItsWay
<1> QED
    BY <1>1, <1>2, <1>3, <1>4, <1>5, WriteStep

\* An update keeps the rows of a model, and a creation adds at most the first
\* of them, except in memory.
LEMMA CopiesTyped ==
    ASSUME NEW copies \in Seq({"on", "off"}), NEW flag \in {"on", "off"},
           ~memory => Len(copies) <= 1
    PROVE  /\ Updated(copies, flag) \in Seq({"on", "off"})
           /\ Created(copies) \in Seq({"on", "off"})
           /\ ~memory => Len(Updated(copies, flag)) <= 1 /\ Len(Created(copies)) <= 1
<1>1. /\ Updated(copies, flag) \in Seq({"on", "off"})
      /\ Len(Updated(copies, flag)) = Len(copies)
    <2>1. CASE copies = <<>>
        BY <2>1 DEF Updated
    <2>2. CASE copies # <<>>
        <3>1. PICK us : us = [copies EXCEPT ![1] = flag]
            OBVIOUS
        <3>2. us \in [1..Len(copies) -> {"on", "off"}]
            <4>1. copies \in [1..Len(copies) -> {"on", "off"}]
                OBVIOUS
            <4> QED
                BY <3>1, <4>1
        <3>3. us \in Seq({"on", "off"}) /\ Len(us) = Len(copies)
            BY <3>2
        <3> QED
            BY <2>2, <3>1, <3>3 DEF Updated
    <2> QED
        BY <2>1, <2>2
<1>2. /\ Created(copies) \in Seq({"on", "off"})
      /\ ~memory => Len(Created(copies)) <= 1
    BY DEF Created
<1> QED
    BY <1>1, <1>2

\* A request writes the rows of one model.
LEMMA ModelStep ==
    ASSUME ProviderInv, NEW h \in Handlers, ~At(h, "idle"),
           NEW p \in Providers, NEW m \in Models, NEW copies,
           models' = [models EXCEPT ![p][m] = copies],
           copies \in Seq({"on", "off"}), ~memory => Len(copies) <= 1,
           UNCHANGED <<rows, keys, served, fixed, wish, failed>>,
           NEW l \in HandlerType, handler' = [handler EXCEPT ![h] = l],
           PlaceOK(l), OffersFresh(l),
           l.pc \in {"query", "sync"},
           l.pc = "query" => /\ l.waiting = {"providers", "models"}
                             /\ l.offers = [q \in Providers |-> OutOfService],
           l.provider = Provider(h) \/ l.provider = "none"
    PROVE  ProviderInv'
<1>1. models \in [Providers -> [Models -> Seq({"on", "off"})]]
    BY OnItsWay
<1>2. models' \in [Providers -> [Models -> Seq({"on", "off"})]]
    BY <1>1
<1>3. ASSUME NEW q \in Providers, NEW n \in Models, ~memory
      PROVE  Len(models'[q][n]) <= 1
    <2>1. models'[q][n] = IF q = p /\ n = m THEN copies ELSE models[q][n]
        BY <1>1
    <2> QED
        BY <1>3, <2>1 DEF ProviderInv, TablesOK
<1>4. TablesOK' /\ serial' = serial
    BY <1>2, <1>3, OnItsWay DEF TablesOK, fixed
<1>5. serial => rows' = wish'
    BY OnItsWay
<1> QED
    BY <1>4, <1>5, WriteStep

\* The rows of a model as a request finds them.
LEMMA CopiesFound ==
    ASSUME ProviderInv, NEW p \in Providers, NEW m \in Models
    PROVE  models[p][m] \in Seq({"on", "off"}) /\ (~memory => Len(models[p][m]) <= 1)
BY DEF ProviderInv, TablesOK

LEMMA SyncModelInv ==
    ASSUME ProviderInv, NEW h \in Handlers, NEW m \in Models, SyncModel(h, m)
    PROVE  ProviderInv'
<1> DEFINE old == models[Provider(h)][m]
<1>1. PICK copies : copies = IF m \in handler[h].known THEN Updated(old, "on")
                             ELSE Created(old)
    OBVIOUS
<1>2. /\ At(h, "sync") /\ ~At(h, "idle")
      /\ UNCHANGED <<rows, keys, served, fixed, wish, failed>>
    BY DEF SyncModel, At
<1>3. Provider(h) \in Providers
    BY <1>2, OnItsWay DEF PlaceOK, At, Provider, Places
<1>4. copies \in Seq({"on", "off"}) /\ (~memory => Len(copies) <= 1)
    BY <1>1, <1>3, CopiesFound, CopiesTyped
<1>5. models' = [models EXCEPT ![Provider(h)][m] = copies]
    BY <1>1, <1>3, OnItsWay DEF SyncModel
<1>6. PICK l : l = [handler[h] EXCEPT !.left = @ \ {m}]
    OBVIOUS
<1>7. handler' = [handler EXCEPT ![h] = l]
    BY <1>6, OnItsWay DEF SyncModel
<1>8. /\ l \in HandlerType /\ l.pc = "sync" /\ l.provider = Provider(h)
      /\ l.waiting = handler[h].waiting /\ l.since = handler[h].since
      /\ l.offers = handler[h].offers
    <2>1. handler[h] \in HandlerType /\ handler[h].pc = "sync"
        BY <1>2, OnItsWay DEF At
    <2> QED
        BY <1>6, <2>1 DEF HandlerType, Provider
<1>9. PlaceOK(l) /\ OffersFresh(l)
    BY <1>2, <1>3, <1>8, OnItsWay DEF PlaceOK, OffersFresh, At
<1> QED
    BY <1>2, <1>3, <1>4, <1>5, <1>7, <1>8, <1>9, ModelStep

LEMMA SyncedInv ==
    ASSUME ProviderInv, NEW h \in Handlers, Synced(h)
    PROVE  ProviderInv'
<1>1. /\ At(h, "sync") /\ ~At(h, "idle") /\ Refresh(h)
      /\ UNCHANGED <<rows, models, keys, served, fixed, wish, failed>>
    BY DEF Synced, At
<1>2. PICK l \in HandlerType :
        /\ handler' = [handler EXCEPT ![h] = l]
        /\ PlaceOK(l) /\ OffersFresh(l) /\ ReadOK(l)
        /\ l.pc = "query" /\ l.provider = "none"
    BY <1>1, RefreshGoes
<1> QED
    BY <1>1, <1>2, LocalStep DEF Unwritten

\* A creation, and an update of the first row, by a request for one model.
LEMMA OneModelInv ==
    ASSUME ProviderInv, NEW h \in Handlers,
           handler[h].pc \in {"insertModel", "selectModel", "updateModel"},
           NEW copies, Refresh(h),
           models' = [models EXCEPT ![Provider(h)][handler[h].model] = copies],
           copies \in Seq({"on", "off"}), ~memory => Len(copies) <= 1,
           UNCHANGED <<rows, keys, served, fixed, wish, failed>>
    PROVE  ProviderInv'
<1>1. ~At(h, "idle") /\ Provider(h) \in Providers /\ handler[h].model \in Models
    BY OnItsWay DEF PlaceOK, At, Provider, Places
<1>2. PICK l \in HandlerType :
        /\ handler' = [handler EXCEPT ![h] = l]
        /\ PlaceOK(l) /\ OffersFresh(l)
        /\ l.pc = "query" /\ l.waiting = {"providers", "models"}
        /\ l.offers = [p \in Providers |-> OutOfService]
        /\ l.provider = "none"
    BY RefreshGoes
<1> QED
    BY <1>1, <1>2, ModelStep

LEMMA CreateModelInv ==
    ASSUME ProviderInv, NEW h \in Handlers, CreateModelConfig(h)
    PROVE  ProviderInv'
<1> DEFINE m   == handler[h].model
           old == models[Provider(h)][m]
<1>1. /\ handler[h].pc = "insertModel" /\ Refresh(h)
      /\ UNCHANGED <<rows, keys, served, fixed, wish, failed>>
    BY DEF CreateModelConfig, At
<1>2. Provider(h) \in Providers /\ m \in Models
    BY <1>1, OnItsWay DEF PlaceOK, Provider, Places
<1>3. PICK copies : copies = Created(old)
    OBVIOUS
<1>4. copies \in Seq({"on", "off"}) /\ (~memory => Len(copies) <= 1)
    BY <1>2, <1>3, CopiesFound, CopiesTyped
<1>5. models' = [models EXCEPT ![Provider(h)][m] = copies]
    BY <1>2, <1>3, OnItsWay DEF CreateModelConfig
<1> QED
    BY <1>1, <1>4, <1>5, OneModelInv

\* What an edit of a model asks for, when the model has a row.
LEMMA ModelFlag ==
    ASSUME ProviderInv, NEW h \in Handlers, NEW kept \in {"on", "off"}
    PROVE  Enabled(Call(h), kept) \in {"on", "off"}
<1>1. Call(h) \in Calls \cup {NoCall}
    BY OnItsWay DEF HandlerType, Call
<1>2. Call(h) \in CallType \/ Call(h) = NoCall
    BY <1>1, ProviderAssumption
<1>3. Call(h).enabled \in {"on", "off", "keep"}
    BY <1>2 DEF CallType, NoCall
<1> QED
    BY <1>3 DEF Enabled

LEMMA SelectModelInv ==
    ASSUME ProviderInv, NEW h \in Handlers, SelectModel(h)
    PROVE  ProviderInv'
<1> DEFINE old == models[Provider(h)][handler[h].model]
<1>1. /\ At(h, "selectModel") /\ ~At(h, "idle")
      /\ UNCHANGED <<rows, models, keys, served, fixed, wish, failed>>
    BY DEF SelectModel, At
<1>2. Provider(h) \in Providers /\ handler[h].model \in Models
    BY <1>1, OnItsWay DEF PlaceOK, At, Provider, Places
<1>3. CASE old = <<>>
    <2>1. Refresh(h)
        BY <1>3 DEF SelectModel
    <2>2. PICK l \in HandlerType :
            /\ handler' = [handler EXCEPT ![h] = l]
            /\ PlaceOK(l) /\ OffersFresh(l) /\ ReadOK(l)
            /\ l.pc = "query" /\ l.provider = "none"
        BY <2>1, RefreshGoes
    <2> QED
        BY <1>1, <2>2, LocalStep DEF Unwritten
<1>4. CASE old # <<>>
    <2>0. PICK flag : flag = old[1]
        OBVIOUS
    <2>1. PICK l : l = [handler[h] EXCEPT !.pc = "updateModel", !.kept = flag]
        OBVIOUS
    <2>2. flag \in {"on", "off"}
        BY <1>2, <1>4, <2>0, CopiesFound
    <2>3. handler' = [handler EXCEPT ![h] = l]
        BY <1>4, <2>0, <2>1, OnItsWay DEF SelectModel
    <2>4. /\ l \in HandlerType /\ l.pc = "updateModel" /\ l.provider = Provider(h)
          /\ l.kept = flag /\ l.model = handler[h].model
          /\ l.waiting = handler[h].waiting /\ l.since = handler[h].since
          /\ l.offers = handler[h].offers
        <3>1. flag \in Flags /\ "updateModel" \in Places /\ handler[h] \in HandlerType
            BY <2>2, OnItsWay DEF Flags, Places
        <3> QED
            BY <2>1, <3>1 DEF HandlerType, Provider
    <2>5. PlaceOK(l) /\ OffersFresh(l) /\ ReadOK(l)
        BY ZenonT(30), <1>1, <1>2, <2>2, <2>4, OnItsWay DEF PlaceOK, OffersFresh, At, ReadOK
    <2> QED
        BY <1>1, <2>3, <2>4, <2>5, LocalStep DEF Unwritten
<1> QED
    BY <1>3, <1>4

LEMMA UpdateModelInv ==
    ASSUME ProviderInv, NEW h \in Handlers, UpdateModel(h)
    PROVE  ProviderInv'
<1> DEFINE m   == handler[h].model
           old == models[Provider(h)][m]
<1>1. /\ handler[h].pc = "updateModel" /\ Refresh(h)
      /\ UNCHANGED <<rows, keys, served, fixed, wish, failed>>
    BY DEF UpdateModel, At
<1>2. Provider(h) \in Providers /\ m \in Models /\ handler[h].kept \in {"on", "off"}
    BY <1>1, OnItsWay DEF PlaceOK, Provider, Places
<1>3. PICK flag : flag = Enabled(Call(h), handler[h].kept)
    OBVIOUS
<1>4. flag \in {"on", "off"}
    BY <1>2, <1>3, ModelFlag
<1>5. PICK copies : copies = Updated(old, flag)
    OBVIOUS
<1>6. copies \in Seq({"on", "off"}) /\ (~memory => Len(copies) <= 1)
    BY <1>2, <1>4, <1>5, CopiesFound, CopiesTyped
<1>7. models' = [models EXCEPT ![Provider(h)][m] = copies]
    BY <1>2, <1>3, <1>5, OnItsWay DEF UpdateModel
<1> QED
    BY <1>1, <1>6, <1>7, OneModelInv

LEMMA UpdateModelInMemoryInv ==
    ASSUME ProviderInv, NEW h \in Handlers, UpdateModelInMemory(h)
    PROVE  ProviderInv'
<1> DEFINE m   == handler[h].model
           old == models[Provider(h)][m]
<1>1. /\ handler[h].pc = "selectModel" /\ Refresh(h) /\ memory
      /\ UNCHANGED <<rows, keys, served, fixed, wish, failed>>
    BY DEF UpdateModelInMemory, At
<1>2. Provider(h) \in Providers /\ m \in Models
    BY <1>1, OnItsWay DEF PlaceOK, Provider, Places
<1>3. PICK copies : copies = IF old = <<>> THEN old
                             ELSE Updated(old, Enabled(Call(h), old[1]))
    OBVIOUS
<1>4. copies \in Seq({"on", "off"})
    <2>1. old \in Seq({"on", "off"}) /\ (~memory => Len(old) <= 1)
        BY <1>2, CopiesFound
    <2>2. ASSUME old # <<>>
          PROVE  Updated(old, Enabled(Call(h), old[1])) \in Seq({"on", "off"})
        <3>1. old[1] \in {"on", "off"}
            BY <2>1, <2>2
        <3>2. Enabled(Call(h), old[1]) \in {"on", "off"}
            BY <3>1, ModelFlag
        <3> QED
            BY <2>1, <3>2, CopiesTyped
    <2> QED
        BY <1>3, <2>1, <2>2
<1>5. models' = [models EXCEPT ![Provider(h)][m] = copies]
    BY <1>2, <1>3, OnItsWay DEF UpdateModelInMemory
<1> QED
    BY <1>1, <1>4, <1>5, OneModelInv

\* What a request has read outside its refresh.
LEMMA SelectProviderInv ==
    ASSUME ProviderInv, NEW h \in Handlers, SelectProvider(h)
    PROVE  ProviderInv'
<1>1. /\ At(h, "select") /\ ~At(h, "idle") /\ Unwritten(handler[h])
      /\ UNCHANGED <<rows, models, keys, served, fixed, wish, failed>>
    BY DEF SelectProvider, At, Unwritten
<1>2. Provider(h) \in Providers
    BY <1>1, OnItsWay DEF PlaceOK, At, Provider, Places
<1>3. CASE rows[Provider(h)] = "deleted"
    <2>1. Return(h)
        BY <1>3 DEF SelectProvider
    <2> QED
        BY <1>1, <2>1, ReturnStep
<1>4. CASE rows[Provider(h)] # "deleted"
    <2>1. PICK flag : flag = rows[Provider(h)]
        OBVIOUS
    <2>2. PICK l : l = [handler[h] EXCEPT !.pc = "update", !.kept = flag]
        OBVIOUS
    <2>3. handler' = [handler EXCEPT ![h] = l]
        BY <1>4, <2>1, <2>2, OnItsWay DEF SelectProvider
    <2>4. flag \in Flags /\ "update" \in Places /\ handler[h] \in HandlerType
        BY <1>2, <2>1, OnItsWay DEF Places
    <2>5. /\ l \in HandlerType /\ l.pc = "update" /\ l.provider = Provider(h)
          /\ l.kept = flag /\ l.waiting = handler[h].waiting
          /\ l.since = handler[h].since /\ l.offers = handler[h].offers
        BY <2>2, <2>4 DEF HandlerType, Provider
    <2>6. PlaceOK(l) /\ OffersFresh(l) /\ ReadOK(l)
        BY <1>1, <1>2, <2>1, <2>5, OnItsWay DEF PlaceOK, OffersFresh, At, ReadOK
    <2> QED
        BY <1>1, <2>3, <2>5, <2>6, LocalStep
<1> QED
    BY <1>3, <1>4

LEMMA ReadSnapshotInv ==
    ASSUME ProviderInv, NEW h \in Handlers, ReadSnapshot(h)
    PROVE  ProviderInv'
<1>1. /\ At(h, "snapshot") /\ ~At(h, "idle") /\ Unwritten(handler[h])
      /\ UNCHANGED <<rows, models, keys, served, fixed, wish, failed>>
    BY DEF ReadSnapshot, At, Unwritten
<1>2. Provider(h) \in Providers
    BY <1>1, OnItsWay DEF PlaceOK, At, Provider, Places
<1>3. CASE rows[Provider(h)] = "deleted"
    <2>1. Return(h)
        BY <1>3 DEF ReadSnapshot
    <2> QED
        BY <1>1, <2>1, ReturnStep
<1>4. CASE rows[Provider(h)] # "deleted"
    <2>1. PICK found : found = {m \in Models : models[Provider(h)][m] # <<>>}
        OBVIOUS
    <2>2. PICK l : l = [handler[h] EXCEPT !.pc = "catalogue", !.known = found]
        OBVIOUS
    <2>3. handler' = [handler EXCEPT ![h] = l]
        BY <1>4, <2>1, <2>2, OnItsWay DEF ReadSnapshot
    <2>4. found \in SUBSET Models /\ "catalogue" \in Places /\ handler[h] \in HandlerType
        BY <2>1, OnItsWay DEF Places
    <2>5. /\ l \in HandlerType /\ l.pc = "catalogue" /\ l.provider = Provider(h)
          /\ l.waiting = handler[h].waiting
          /\ l.since = handler[h].since /\ l.offers = handler[h].offers
        BY <2>2, <2>4 DEF HandlerType, Provider
    <2>6. PlaceOK(l) /\ OffersFresh(l) /\ ReadOK(l)
        BY <1>1, <1>2, <2>5, OnItsWay DEF PlaceOK, OffersFresh, At, ReadOK
    <2> QED
        BY <1>1, <2>3, <2>5, <2>6, LocalStep
<1> QED
    BY <1>3, <1>4

LEMMA ListModelsInv ==
    ASSUME ProviderInv, NEW h \in Handlers, ListModels(h)
    PROVE  ProviderInv'
<1>1. /\ At(h, "catalogue") /\ ~At(h, "idle")
      /\ UNCHANGED <<rows, models, keys, served, fixed, wish, failed>>
    BY DEF ListModels, At
<1>2. Provider(h) \in Providers
    BY <1>1, OnItsWay DEF PlaceOK, At, Provider, Places
<1>3. PICK listed \in SUBSET Models :
          handler' = [handler EXCEPT ![h].pc = "sync", ![h].left = listed]
    BY DEF ListModels
<1>4. PICK l : l = [handler[h] EXCEPT !.pc = "sync", !.left = listed]
    OBVIOUS
<1>5. handler' = [handler EXCEPT ![h] = l]
    BY <1>3, <1>4, OnItsWay
<1>6. "sync" \in Places /\ handler[h] \in HandlerType
    BY OnItsWay DEF Places
<1>7. /\ l \in HandlerType /\ l.pc = "sync" /\ l.provider = Provider(h)
      /\ l.waiting = handler[h].waiting
      /\ l.since = handler[h].since /\ l.offers = handler[h].offers
    BY <1>4, <1>6 DEF HandlerType, Provider
<1>8. PlaceOK(l) /\ OffersFresh(l) /\ ReadOK(l)
    BY <1>1, <1>2, <1>7, OnItsWay DEF PlaceOK, OffersFresh, At, ReadOK
<1> QED
    BY <1>1, <1>5, <1>7, <1>8, LocalStep DEF Unwritten

\* The answer to some queries, and to the last of them the list of whom to ask.
LEMMA ReadTablesInv ==
    ASSUME ProviderInv, NEW h \in Handlers, At(h, "query"),
           NEW tabs \in SUBSET {"providers", "models"},
           ReadTables(h, tabs),
           UNCHANGED <<rows, models, keys, served, fixed, wish, failed>>
    PROVE  ProviderInv'
<1> DEFINE On == {p \in Providers : rows[p] = "on"}
           Served == [p \in Providers |-> Serving(p)]
<1>1. PICK active, enabled, k :
        /\ active = IF "providers" \in tabs THEN On ELSE handler[h].active
        /\ enabled = IF "models" \in tabs THEN Served ELSE handler[h].enabled
        /\ k = [handler[h] EXCEPT !.waiting = @ \ tabs, !.active = active,
                                  !.enabled = enabled]
    OBVIOUS
<1>2. handler[h] \in HandlerType /\ handler \in [Handlers -> HandlerType]
    BY OnItsWay
<1>3. /\ On \in SUBSET Providers
      /\ Served \in [Providers -> SUBSET Models]
    BY DEF Serving
<1>4. active \in SUBSET Providers /\ enabled \in [Providers -> SUBSET Models]
    <2>1. handler[h].active \in SUBSET Providers
          /\ handler[h].enabled \in [Providers -> SUBSET Models]
        BY <1>2 DEF HandlerType
    <2> HIDE DEF On, Served
    <2> QED
        BY <1>1, <1>3, <2>1
<1>5. handler' = [handler EXCEPT ![h] = Received(k)]
    <2>1. Answered(handler[h], tabs) = k
        BY <1>1 DEF Answered
    <2>2. handler' = [handler EXCEPT ![h] = Received(Answered(handler[h], tabs))]
        BY <1>2 DEF ReadTables
    <2> QED
        BY <2>1, <2>2
<1>6. /\ k \in HandlerType /\ k.pc = "query" /\ k.waiting = handler[h].waiting \ tabs
      /\ k.active = active /\ k.enabled = enabled /\ k.provider = Provider(h)
      /\ k.since = handler[h].since /\ k.offers = handler[h].offers
    BY ZenonT(30), <1>1, <1>2, <1>4 DEF HandlerType, Provider, At
<1>7. OffersFresh(k)
    BY <1>6, OnItsWay DEF OffersFresh
<1>8. ASSUME serial
      PROVE  /\ "providers" \notin k.waiting => k.active = On
             /\ "models" \notin k.waiting => k.enabled = Served
             /\ k.offers = [p \in Providers |-> OutOfService]
    BY <1>1, <1>6, <1>8, OnItsWay DEF ReadOK, At
<1>9. CASE k.waiting # {}
    <2>1. Received(k) = k
        BY <1>9 DEF Received
    <2>2. PlaceOK(k)
        BY <1>6, <1>9 DEF PlaceOK
    <2>3. serial => ReadOK(k)
        BY <1>6, <1>8 DEF ReadOK
    <2>4. handler' = [handler EXCEPT ![h] = k]
        BY <1>5, <2>1
    <2>5. ~At(h, "idle") /\ ~Unwritten(k) /\ k.pc # "insert"
        BY <1>6 DEF At, Unwritten
    <2> HIDE DEF On, Served
    <2> QED
        BY <1>6, <1>7, <2>2, <2>3, <2>4, <2>5, LocalStep
<1>10. CASE k.waiting = {}
    <2>1. PICK toAsk : toAsk = {p \in k.active : k.enabled[p] # {}}
        OBVIOUS
    <2>2. PICK some : some = [p \in Providers |-> IF p \in toAsk THEN k.enabled[p] ELSE {}]
        OBVIOUS
    <2>3. PICK l : l = [k EXCEPT !.pc = "keys", !.active = toAsk, !.enabled = some]
        OBVIOUS
    <2>4. Received(k) = l
        BY <1>10, <2>1, <2>2, <2>3 DEF Received
    <2>5. /\ toAsk \in SUBSET Providers /\ some \in [Providers -> SUBSET Models]
          /\ "keys" \in Places
        BY <1>4, <1>6, <2>1, <2>2 DEF Places
    <2>6. /\ l \in HandlerType /\ l.pc = "keys" /\ l.waiting = {}
          /\ l.active = toAsk /\ l.enabled = some /\ l.provider = Provider(h)
          /\ l.since = k.since /\ l.offers = k.offers
        BY <1>6, <1>10, <2>3, <2>5 DEF HandlerType
    <2>7. PlaceOK(l) /\ OffersFresh(l)
        BY <1>7, <2>6 DEF PlaceOK, OffersFresh
    <2>8. ASSUME serial
          PROVE  ReadOK(l)
        <3>1. k.active = On /\ k.enabled = Served
              /\ k.offers = [p \in Providers |-> OutOfService]
            BY <1>8, <1>10, <2>8
        <3>2. ASSUME NEW p \in Providers
              PROVE  IF p \in l.active
                     THEN rows[p] = "on" /\ Serving(p) # {} /\ l.enabled[p] = Serving(p)
                     ELSE l.offers[p] = Current[p]
            <4>1. p \in toAsk <=> rows[p] = "on" /\ Serving(p) # {}
                BY <2>1, <3>1
            <4>2. CASE p \in toAsk
                BY <2>2, <2>6, <3>1, <4>1, <4>2
            <4>3. CASE p \notin toAsk
                BY <2>6, <3>1, <4>1, <4>3 DEF Current
            <4> QED
                BY <2>6, <4>2, <4>3
        <3> QED
            BY <2>6, <3>2 DEF ReadOK
    <2>9. handler' = [handler EXCEPT ![h] = l]
        BY <1>5, <2>4
    <2>10. ~At(h, "idle") /\ ~Unwritten(l) /\ l.pc # "insert"
        BY <2>6 DEF At, Unwritten
    <2> HIDE DEF On, Served
    <2> QED
        BY <2>6, <2>7, <2>8, <2>9, <2>10, LocalStep
<1> QED
    BY <1>9, <1>10

LEMMA ReadKeyInv ==
    ASSUME ProviderInv, NEW h \in Handlers, NEW p \in Providers, ReadKey(h, p)
    PROVE  ProviderInv'
<1>1. /\ At(h, "keys") /\ ~At(h, "idle") /\ p \in handler[h].active
      /\ UNCHANGED <<rows, models, keys, served, fixed, wish, failed>>
    BY DEF ReadKey, At
<1>2. handler[h] \in HandlerType /\ handler \in [Handlers -> HandlerType]
    BY OnItsWay
<1>3. PICK offer : offer = IF Secret(p) = 0 THEN OutOfService
                           ELSE [models |-> handler[h].enabled[p], key |-> Secret(p)]
    OBVIOUS
<1>4. PICK l : l = [handler[h] EXCEPT !.active = @ \ {p}, !.enabled[p] = {},
                                      !.offers[p] = offer]
    OBVIOUS
<1>5. handler' = [handler EXCEPT ![h] = l]
    BY <1>2, <1>3, <1>4 DEF ReadKey
<1>6. keys \in Seq(Providers)
    BY OnItsWay
<1>7. offer \in Offer
    <2>1. handler[h].enabled[p] \in SUBSET Models
        BY <1>2 DEF HandlerType
    <2> QED
        BY <1>3, <1>6, <2>1, SecretIsNewest DEF Offer, OutOfService
<1>8. /\ l \in HandlerType /\ l.pc = "keys" /\ l.provider = Provider(h)
      /\ l.waiting = handler[h].waiting /\ l.since = handler[h].since
      /\ l.active = handler[h].active \ {p}
      /\ l.enabled = [handler[h].enabled EXCEPT ![p] = {}]
      /\ l.offers = [handler[h].offers EXCEPT ![p] = offer]
    BY <1>1, <1>2, <1>4, <1>7 DEF HandlerType, Provider, At
<1>9. l.offers[p] = offer /\ \A q \in Providers \ {p} : l.offers[q] = handler[h].offers[q]
                         /\ l.enabled[q] = handler[h].enabled[q]
    BY <1>2, <1>8 DEF HandlerType
<1>10. PlaceOK(l)
    BY <1>1, <1>8, OnItsWay DEF PlaceOK, At
<1>11. OffersFresh(l)
    <2>1. offer # OutOfService => offer.key = Secret(p)
        BY <1>3
    <2>2. \A i \in KeysOf(p) : i <= Secret(p)
        BY <1>6, SecretIsNewest
    <2> QED
        BY <1>8, <1>9, <2>1, <2>2, OnItsWay DEF OffersFresh
<1>12. ASSUME serial
       PROVE  ReadOK(l)
    <2>1. ASSUME NEW q \in Providers
          PROVE  IF q \in l.active
                 THEN rows[q] = "on" /\ Serving(q) # {} /\ l.enabled[q] = Serving(q)
                 ELSE l.offers[q] = Current[q]
        <3>1. IF q \in handler[h].active
              THEN rows[q] = "on" /\ Serving(q) # {} /\ handler[h].enabled[q] = Serving(q)
              ELSE handler[h].offers[q] = Current[q]
            BY <1>1, <1>12, OnItsWay DEF ReadOK, At
        <3>2. CASE q # p
            BY <1>8, <1>9, <3>1, <3>2
        <3>3. CASE q = p
            <4>1. rows[p] = "on" /\ Serving(p) # {} /\ handler[h].enabled[p] = Serving(p)
                BY <1>1, <3>1, <3>3
            <4>2. offer = Current[p]
                BY <1>3, <1>6, <4>1, SecretIsNewest DEF Current
            <4> QED
                BY <1>8, <1>9, <3>3, <4>2
        <3> QED
            BY <3>2, <3>3
    <2> QED
        BY <1>8, <2>1 DEF ReadOK
<1> QED
    BY <1>1, <1>5, <1>8, <1>10, <1>11, <1>12, LocalStep DEF Unwritten

\* What is published was true when its last key was read, and if the request is
\* alone it still is.
LEMMA PublishInv ==
    ASSUME ProviderInv, NEW h \in Handlers, Publish(h)
    PROVE  ProviderInv'
<1>1. /\ At(h, "keys") /\ ~At(h, "idle") /\ handler[h].active = {}
      /\ served' = handler[h].offers /\ failed' = FALSE
      /\ UNCHANGED <<rows, models, keys, fixed, wish>>
    BY DEF Publish, At
<1>2. PICK l : l = Idle
    OBVIOUS
<1>3. handler' = [handler EXCEPT ![h] = l]
    BY <1>2 DEF Publish, Return
<1>4. l \in HandlerType /\ PlaceOK(l)
    BY <1>2, IdleTyped
<1>5. /\ l.pc = "idle" /\ l.provider = "none" /\ l.since = 0
      /\ l.offers = [p \in Providers |-> OutOfService]
    BY <1>2 DEF Idle
<1>6. OffersFresh(l)'
    <2>1. OffersFresh(l)
        BY <1>5, OnItsWay, NothingOffered
    <2> QED
        BY <1>1, <2>1 DEF OffersFresh, KeysOf
<1>7. handler[h].offers \in [Providers -> Offer]
    BY OnItsWay DEF HandlerType
<1>8. TablesOK' /\ serial' = serial
    BY <1>1, <1>7, OnItsWay DEF TablesOK, fixed
<1>9. ASSUME NEW g \in Handlers \ {h}, At(g, "insert")
      PROVE  l.provider # Provider(g)
    BY <1>5, <1>9, ProviderAssumption DEF ProviderInv, PlaceOK, At, Provider, Places
<1>10. ASSUME serial
       PROVE  /\ \A g \in Handlers \ {h} : At(g, "idle")
              /\ rows' = wish'
              /\ ReadOK(l)'
              /\ ~failed' /\ Unwritten(l) => served' = Current'
    <2>1. \A g \in Handlers \ {h} : At(g, "idle")
        BY <1>1, <1>10, AloneWhenSerial
    <2>2. \A p \in Providers : handler[h].offers[p] = Current[p]
        BY <1>1, <1>10, OnItsWay DEF ReadOK, At
    <2>3. served' = Current
        BY <1>1, <1>7, <2>2 DEF Current
    <2>4. Current' = Current
        BY <1>1 DEF Current, Serving, KeysOf, Secret
    <2>5. ReadOK(l)'
        BY <1>5 DEF ReadOK
    <2> QED
        BY <1>1, <1>10, <2>1, <2>3, <2>4, <2>5, OnItsWay
<1>11. \A g \in Handlers \ {h} : At(g, "insert") =>
           rows'[Provider(g)] = rows[Provider(g)] /\ l.provider # Provider(g)
    BY <1>1, <1>9
<1> QED
    BY <1>1, <1>3, <1>4, <1>5, <1>6, <1>8, <1>10, <1>11, Step

LEMMA NextInv == ProviderInv /\ [Next]_vars => ProviderInv'
<1> SUFFICES ASSUME ProviderInv, [Next]_vars PROVE ProviderInv'
    OBVIOUS
<1>1. ASSUME NEW h \in Handlers, NEW call \in Calls, NEW p \in Providers, NEW m \in Models,
             Arrive(h, call, p, m) \/ ArriveForm(h, call, p, m)
      PROVE  ProviderInv'
    <2>1. Begin(h, call, p, m)
        BY <1>1 DEF Arrive, ArriveForm
    <2> QED
        BY <2>1, BeginInv
<1>2. ASSUME NEW h \in Handlers, Fail(h)
      PROVE  ProviderInv'
    <2>1. /\ ~At(h, "idle") /\ Return(h) /\ failed' = serial
          /\ UNCHANGED <<rows, models, keys, served, fixed, wish>>
        BY <1>2 DEF Fail
    <2> QED
        BY <2>1, ReturnStep
<1>3. ASSUME NEW h \in Handlers, Continue(h)
      PROVE  ProviderInv'
    <2>1. CASE CreateProviderConfig(h)
        BY <2>1, CreateProviderInv
    <2>2. CASE SelectProvider(h)
        BY <2>2, SelectProviderInv
    <2>3. CASE UpdateProviderConfig(h) \/ UpdateProviderInMemory(h)
        BY <2>3, UpdateProviderInv
    <2>4. CASE CreateCredential(h)
        BY <2>4, CreateCredentialInv
    <2>5. CASE DeleteProviderConfig(h)
        BY <2>5, DeleteProviderInv
    <2>6. CASE ReadSnapshot(h)
        BY <2>6, ReadSnapshotInv
    <2>7. CASE ListModels(h)
        BY <2>7, ListModelsInv
    <2>8. CASE Synced(h)
        BY <2>8, SyncedInv
    <2>9. CASE CreateModelConfig(h)
        BY <2>9, CreateModelInv
    <2>10. CASE SelectModel(h)
        BY <2>10, SelectModelInv
    <2>11. CASE UpdateModel(h)
        BY <2>11, UpdateModelInv
    <2>12. CASE UpdateModelInMemory(h)
        BY <2>12, UpdateModelInMemoryInv
    <2>13. CASE ReadProviders(h)
        <3>1. At(h, "query")
            BY <2>13, OnItsWay DEF ReadProviders, PlaceOK, At
        <3> QED
            BY <2>13, <3>1, ReadTablesInv DEF ReadProviders
    <2>14. CASE ReadModels(h)
        <3>1. At(h, "query")
            BY <2>14, OnItsWay DEF ReadModels, PlaceOK, At
        <3> QED
            BY <2>14, <3>1, ReadTablesInv DEF ReadModels
    <2>15. CASE CopyTables(h)
        BY <2>15, ReadTablesInv DEF CopyTables
    <2>16. CASE Publish(h)
        BY <2>16, PublishInv
    <2>17. ASSUME NEW m \in Models, SyncModel(h, m)
           PROVE  ProviderInv'
        BY <2>17, SyncModelInv
    <2>18. ASSUME NEW p \in Providers, ReadKey(h, p)
           PROVE  ProviderInv'
        BY <2>18, ReadKeyInv
    <2> QED
        BY <1>3, <2>1, <2>2, <2>3, <2>4, <2>5, <2>6, <2>7, <2>8, <2>9, <2>10, <2>11, <2>12,
           <2>13, <2>14, <2>15, <2>16, <2>17, <2>18 DEF Continue
<1>4. CASE UNCHANGED vars
    <2>1. /\ UNCHANGED <<rows, models, keys, served, handler, memory, serial, wish, failed>>
          /\ Current' = Current
        BY <1>4 DEF vars, Current, Serving, KeysOf, Secret
    <2>2. TablesOK'
        BY <2>1 DEF ProviderInv, TablesOK
    <2>3. SerialOK'
        BY <2>1 DEF ProviderInv, SerialOK, ReadOK, Unwritten, At, Serving
    <2> QED
        BY <2>1, <2>2, <2>3 DEF ProviderInv, PlaceOK, OffersFresh, InsertAlone, KeysOf, At,
                                Provider
<1> QED
    BY <1>1, <1>2, <1>3, <1>4 DEF Next

LEMMA AlwaysInv == Spec => []ProviderInv
BY InitInv, NextInv, PTL DEF Spec

----------------------------------------------------------------------------
(* What the routes guarantee, for any number of requests.                  *)

\* When clients make one request at a time, what is in service is what was last
\* asked for: the enabled models of the enabled providers, each with its newest
\* key; and a database server keeps one row of a model however requests overlap
\* (apps/web/src/app/api/providers, refreshAdminState).
THEOREM ServiceFollowsTheTables == Spec => []QuietIsServed
<1>1. ProviderInv => QuietIsServed
    <2> SUFFICES ASSUME ProviderInv PROVE QuietIsServed
        OBVIOUS
    <2>1. TypeOK
        BY DEF ProviderInv, TablesOK, TypeOK
    <2>2. ~memory => \A p \in Providers, m \in Models : Len(models[p][m]) <= 1
        BY DEF ProviderInv, TablesOK
    <2>3. serial => rows = wish
        BY DEF ProviderInv, SerialOK
    <2>4. ASSUME serial, Quiet, NEW p \in Providers
          PROVE  served[p] = IF rows[p] = "on" /\ Serving(p) # {} /\ KeysOf(p) # {}
                             THEN [models |-> Serving(p), key |-> Max(KeysOf(p))]
                             ELSE OutOfService
        <3>1. \A h \in Handlers : Unwritten(handler[h])
            BY <2>4 DEF Quiet, At, Unwritten
        <3>2. served = Current
            BY <2>4, <3>1 DEF ProviderInv, SerialOK, Quiet
        <3>3. KeysOf(p) # {} => Secret(p) = Max(KeysOf(p))
            BY DEF Secret
        <3> QED
            BY <3>2, <3>3 DEF Current
    <2> QED
        BY <2>1, <2>2, <2>3, <2>4 DEF QuietIsServed
<1> QED
    BY <1>1, AlwaysInv, PTL

\* No edit brings back a deleted provider, even one that had read it before
\* (updateProviderConfig, createProviderConfig).
THEOREM DeletedProvidersStay == Spec => DeletedStaysDeleted
<1> DEFINE Stays == \A p \in Providers : rows[p] = "deleted" => rows'[p] = "deleted"
<1>1. ProviderInv /\ [Next]_vars => [Stays]_vars
    <2> SUFFICES ASSUME ProviderInv, [Next]_vars, NEW p \in Providers, rows[p] = "deleted"
                 PROVE  rows'[p] = "deleted"
        OBVIOUS
    <2>1. rows \in [Providers -> Flags]
        BY DEF ProviderInv, TablesOK
    <2>2. ASSUME NEW h \in Handlers, Continue(h)
          PROVE  rows'[p] = "deleted"
        <3>1. CASE CreateProviderConfig(h)
            <4>1. rows[Provider(h)] = "none"
                BY <3>1 DEF CreateProviderConfig, ProviderInv, InsertAlone
            <4>2. Provider(h) # p
                BY <4>1
            <4> QED
                BY <2>1, <3>1, <4>2 DEF CreateProviderConfig
        <3>2. CASE UpdateProviderConfig(h)
            BY <2>1, <3>2 DEF UpdateProviderConfig, WriteProvider
        <3>3. CASE UpdateProviderInMemory(h)
            BY <2>1, <3>3 DEF UpdateProviderInMemory, WriteProvider
        <3>4. CASE DeleteProviderConfig(h)
            BY <2>1, <3>4 DEF DeleteProviderConfig
        <3>5. ASSUME rows' = rows
              PROVE  rows'[p] = "deleted"
            BY <3>5
        <3> QED
            BY <2>2, <3>1, <3>2, <3>3, <3>4, <3>5
               DEF Continue, SelectProvider, CreateCredential, ReadSnapshot, ListModels,
                   Synced, CreateModelConfig, SelectModel, UpdateModel,
                   UpdateModelInMemory, ReadProviders, ReadModels, CopyTables, Publish,
                   SyncModel, ReadKey
    <2>3. ASSUME NEW h \in Handlers, NEW call \in Calls, NEW q \in Providers,
                 NEW m \in Models, Arrive(h, call, q, m) \/ ArriveForm(h, call, q, m)
          PROVE  rows' = rows
        BY <2>3 DEF Arrive, ArriveForm, Begin
    <2>4. ASSUME NEW h \in Handlers, Fail(h)
          PROVE  rows' = rows
        BY <2>4 DEF Fail
    <2>5. CASE UNCHANGED vars
        BY <2>5 DEF vars
    <2> QED
        BY <2>2, <2>3, <2>4, <2>5 DEF Next
<1>2. DeletedStaysDeleted <=> [][Stays]_vars
    BY DEF DeletedStaysDeleted
<1> QED
    BY <1>1, <1>2, AlwaysInv, PTL DEF Spec

\* A refresh that began after a key was stored publishes no older one, however
\* the refreshes of several requests overlap (buildAdminState).
THEOREM PublishedKeysAreFresh == Spec => KeysAreFresh
<1> DEFINE Fresh == \A p \in Providers, h \in Handlers :
                      Publish(h) /\ served'[p] # OutOfService =>
                        \A i \in KeysOf(p) : i <= handler[h].since => i <= served'[p].key
<1>1. ProviderInv => Fresh
    BY DEF ProviderInv, OffersFresh, Publish
<1>2. KeysAreFresh <=> [][Fresh]_vars
    BY DEF KeysAreFresh
<1> QED
    BY <1>1, <1>2, AlwaysInv, PTL DEF Spec

----------------------------------------------------------------------------
(* Places of a sequence.                                                   *)

\* Places are finitely many.
LEMMA PlacesAreFinite ==
    ASSUME NEW n \in Nat, NEW T \in SUBSET (1..n)
    PROVE  IsFiniteSet(T) /\ Cardinality(T) \in 0..n
<1>1. IsFiniteSet(1..n) /\ Cardinality(1..n) = n
    BY FS_Interval
<1>2. IsFiniteSet(T) /\ Cardinality(T) <= Cardinality(1..n)
    BY <1>1, FS_Subset
<1>3. Cardinality(T) \in Nat
    BY <1>2, FS_CardinalityType
<1> QED
    BY <1>1, <1>2, <1>3

\* One place more or less counts one.
LEMMA CountStep ==
    ASSUME NEW n \in Nat, NEW T \in SUBSET (1..n), NEW m \in 1..n
    PROVE  Cardinality(T \cap 1..m) =
             Cardinality(T \cap 1..(m - 1)) + (IF m \in T THEN 1 ELSE 0)
<1>1. m - 1 \in Nat /\ T \cap 1..(m - 1) \in SUBSET (1..n)
    OBVIOUS
<1>2. IsFiniteSet(T \cap 1..(m - 1)) /\ Cardinality(T \cap 1..(m - 1)) \in Nat
    BY <1>1, PlacesAreFinite
<1>3. CASE m \in T
    <2>1. T \cap 1..m = (T \cap 1..(m - 1)) \cup {m}
        BY <1>3
    <2>2. m \notin T \cap 1..(m - 1)
        OBVIOUS
    <2> QED
        BY <1>2, <1>3, <2>1, <2>2, FS_AddElement
<1>4. CASE m \notin T
    <2>1. T \cap 1..m = T \cap 1..(m - 1)
        BY <1>4
    <2>2. Cardinality(T \cap 1..m) = Cardinality(T \cap 1..(m - 1))
        BY <2>1
    <2> QED
        BY <1>2, <1>4, <2>2
<1> QED
    BY <1>3, <1>4

\* Nothing stands before the first place.
LEMMA CountNone ==
    ASSUME NEW T
    PROVE  Cardinality(T \cap 1..0) = 0
<1>1. T \cap 1..0 = {}
    OBVIOUS
<1> QED
    BY <1>1, FS_EmptySet

\* The count up to a place counts the places of a smaller range.
LEMMA CountTyped ==
    ASSUME NEW n \in Nat, NEW T \in SUBSET (1..n), NEW m \in Nat
    PROVE  Cardinality(T \cap 1..m) \in Nat /\ Cardinality(T \cap 1..m) <= Cardinality(T)
<1>1. IsFiniteSet(T)
    BY PlacesAreFinite
<1> QED
    BY <1>1, FS_Subset, FS_CardinalityType

\* A later place has a greater count.
LEMMA CountGrows ==
    ASSUME NEW n \in Nat, NEW T \in SUBSET (1..n), NEW i \in 1..n, NEW j \in T, i < j
    PROVE  Cardinality(T \cap 1..i) < Cardinality(T \cap 1..j)
<1>1. IsFiniteSet(T \cap 1..j) /\ Cardinality(T \cap 1..j) \in Nat
    BY PlacesAreFinite
<1>2. T \cap 1..i \in SUBSET (T \cap 1..j) /\ T \cap 1..i # T \cap 1..j
    OBVIOUS
<1>3. Cardinality(T \cap 1..i) \in Nat
    BY CountTyped
<1> QED
    BY <1>1, <1>2, <1>3, FS_Subset

\* Every count up to the number of places is reached at one of them.
LEMMA CountReached ==
    ASSUME NEW n \in Nat, NEW T \in SUBSET (1..n), NEW k \in 1..Cardinality(T)
    PROVE  \E m \in T : Cardinality(T \cap 1..m) = k
<1> DEFINE enough == {m \in 1..n : k <= Cardinality(T \cap 1..m)}
<1>1. T \cap 1..n = T /\ n # 0
    <2>1. Cardinality(T) # 0
        BY PlacesAreFinite
    <2>2. T # {}
        BY <2>1, FS_EmptySet
    <2>3. PICK x \in T : x \in 1..n
        BY <2>2
    <2>4. T \cap 1..n = T
        OBVIOUS
    <2> QED
        BY <2>3, <2>4
<1>2. n \in enough /\ enough \in SUBSET Nat
    BY <1>1, PlacesAreFinite
<1>3. PICK m \in enough : \A x \in enough : m <= x
    BY <1>2, LeastNatural
<1>4. Cardinality(T \cap 1..m) \in Nat /\ Cardinality(T \cap 1..(m - 1)) \in Nat
    BY CountTyped
<1>5. Cardinality(T \cap 1..(m - 1)) < k
    <2>1. CASE m = 1
        BY <2>1, CountNone
    <2>2. CASE m # 1
        <3>1. m - 1 \notin enough
            BY <1>3, <2>2
        <3> QED
            BY <1>4, <2>2, <3>1
    <2> QED
        BY <2>1, <2>2
<1>6. Cardinality(T \cap 1..m) =
         Cardinality(T \cap 1..(m - 1)) + (IF m \in T THEN 1 ELSE 0)
    BY <1>3, CountStep
<1>7. k <= Cardinality(T \cap 1..m)
    BY <1>3
<1> QED
    BY <1>4, <1>5, <1>6, <1>7

\* The k-th place.
LEMMA NthIs ==
    ASSUME NEW n \in Nat, NEW T \in SUBSET (1..n), NEW k \in 1..Cardinality(T)
    PROVE  Nth(T, k) \in T /\ Cardinality(T \cap 1..Nth(T, k)) = k
BY CountReached DEF Nth

\* Only one place is the k-th.
LEMMA NthOnly ==
    ASSUME NEW n \in Nat, NEW T \in SUBSET (1..n), NEW m \in T
    PROVE  /\ Cardinality(T \cap 1..m) \in 1..Cardinality(T)
           /\ Nth(T, Cardinality(T \cap 1..m)) = m
<1> DEFINE k == Cardinality(T \cap 1..m)
<1>0. Cardinality(T) \in Nat
    BY PlacesAreFinite
<1>1. k \in Nat /\ k <= Cardinality(T) /\ Cardinality(T) \in Nat
    BY <1>0, CountTyped
<1>2. k # 0
    <2>1. IsFiniteSet(T \cap 1..m) /\ T \cap 1..m # {}
        BY PlacesAreFinite
    <2> QED
        BY <2>1, FS_EmptySet
<1>3. k \in 1..Cardinality(T)
    BY <1>1, <1>2
<1>4. Nth(T, k) \in T /\ Cardinality(T \cap 1..Nth(T, k)) = k
    BY <1>3, NthIs
<1>5. ASSUME NEW x \in T, NEW y \in T, x < y
      PROVE  Cardinality(T \cap 1..x) < Cardinality(T \cap 1..y)
    BY <1>5, CountGrows
<1>6. \A x \in T : Cardinality(T \cap 1..x) = k => x = m
    <2> SUFFICES ASSUME NEW x \in T, Cardinality(T \cap 1..x) = k PROVE x = m
        OBVIOUS
    <2>1. ~(x < m) /\ ~(m < x)
        BY <1>1, <1>5
    <2> QED
        BY <2>1
<1> QED
    BY <1>3, <1>4, <1>6

\* Places are counted in their order.
LEMMA NthGrows ==
    ASSUME NEW n \in Nat, NEW T \in SUBSET (1..n), NEW j \in 1..Cardinality(T),
           NEW k \in 1..Cardinality(T), j < k
    PROVE  Nth(T, j) < Nth(T, k)
<1>1. Nth(T, j) \in T /\ Cardinality(T \cap 1..Nth(T, j)) = j
    BY NthIs
<1>2. Nth(T, k) \in T /\ Cardinality(T \cap 1..Nth(T, k)) = k
    BY NthIs
<1>3. ASSUME NEW x \in T, NEW y \in T, x < y
      PROVE  Cardinality(T \cap 1..x) < Cardinality(T \cap 1..y)
    BY <1>3, CountGrows
<1>4. \A x, y \in T : Cardinality(T \cap 1..x) = j /\ Cardinality(T \cap 1..y) = k => x < y
    <2> SUFFICES ASSUME NEW x \in T, NEW y \in T, Cardinality(T \cap 1..x) = j,
                        Cardinality(T \cap 1..y) = k
                 PROVE  x < y
        OBVIOUS
    <2>1. x # y
        OBVIOUS
    <2>2. ~(y < x)
        BY <1>3
    <2> QED
        BY <2>1, <2>2
<1> QED
    BY <1>1, <1>2, <1>4

----------------------------------------------------------------------------
(* Places of a sequence made of two.                                       *)

\* T has the places U of the first m, and the places W of the n that follow them.
Joins(T, m, U, n, W) ==
    /\ T \in SUBSET (1..(m + n)) /\ U \in SUBSET (1..m) /\ W \in SUBSET (1..n)
    /\ \A i \in 1..m : i \in T <=> i \in U
    /\ \A i \in 1..n : m + i \in T <=> i \in W

\* The places of the first part are counted as they were.
LEMMA CountFirst ==
    ASSUME NEW m \in Nat, NEW n \in Nat, NEW T, NEW U, NEW W, Joins(T, m, U, n, W), NEW i \in 0..m
    PROVE  Cardinality(T \cap 1..i) = Cardinality(U \cap 1..i)
<1>1. T \cap 1..i = U \cap 1..i
    BY DEF Joins
<1> QED
    BY <1>1

\* The places of the second part are counted on.
LEMMA CountSecond ==
    ASSUME NEW m \in Nat, NEW n \in Nat, NEW T, NEW U, NEW W, Joins(T, m, U, n, W), NEW i \in 0..n
    PROVE  Cardinality(T \cap 1..(m + i)) = Cardinality(U) + Cardinality(W \cap 1..i)
<1> DEFINE Holds(j) == Cardinality(T \cap 1..(m + j)) = Cardinality(U) + Cardinality(W \cap 1..j)
           fails == {j \in 0..n : ~Holds(j)}
<1>1. Cardinality(U) \in Nat
    BY PlacesAreFinite DEF Joins
<1>2. Holds(0)
    <2>1. U \cap 1..m = U
        BY DEF Joins
    <2>2. Cardinality(T \cap 1..m) = Cardinality(U)
        BY <2>1, CountFirst
    <2>3. Cardinality(W \cap 1..0) = 0
        BY CountNone
    <2>4. m + 0 = m
        OBVIOUS
    <2> QED
        BY <1>1, <2>2, <2>3, <2>4
<1>3. ASSUME NEW j \in 1..n, Holds(j - 1) PROVE Holds(j)
    <2>1. Cardinality(T \cap 1..(m + j)) =
            Cardinality(T \cap 1..(m + j - 1)) + (IF m + j \in T THEN 1 ELSE 0)
        <3>1. m + n \in Nat /\ m + j \in 1..(m + n) /\ T \in SUBSET (1..(m + n))
            BY DEF Joins
        <3> QED
            BY <3>1, CountStep
    <2>2. Cardinality(W \cap 1..j) =
            Cardinality(W \cap 1..(j - 1)) + (IF j \in W THEN 1 ELSE 0)
        BY CountStep DEF Joins
    <2>3. m + j \in T <=> j \in W
        BY DEF Joins
    <2>4. m + (j - 1) = m + j - 1
        OBVIOUS
    <2>5. Cardinality(T \cap 1..(m + j - 1)) = Cardinality(U) + Cardinality(W \cap 1..(j - 1))
        BY <1>3, <2>4
    <2>6. j - 1 \in Nat /\ W \in SUBSET (1..n)
        BY DEF Joins
    <2>7. Cardinality(W \cap 1..(j - 1)) \in Nat
        BY <2>6, CountTyped
    <2> QED
        BY <1>1, <2>1, <2>2, <2>3, <2>5, <2>7
<1>4. ASSUME fails # {} PROVE FALSE
    <2>1. fails \in SUBSET Nat
        OBVIOUS
    <2>2. PICK j \in fails : \A x \in fails : j <= x
        BY <1>4, <2>1, LeastNatural
    <2>3. j \in 1..n
        BY <1>2, <2>2
    <2>4. j - 1 \notin fails
        BY <2>2, <2>3
    <2>5. Holds(j - 1)
        BY <2>3, <2>4
    <2>6. Holds(j)
        BY <1>3, <2>3, <2>5
    <2> QED
        BY <2>2, <2>6
<1> QED
    BY <1>4

\* So many places there are in all.
LEMMA CountBoth ==
    ASSUME NEW m \in Nat, NEW n \in Nat, NEW T, NEW U, NEW W, Joins(T, m, U, n, W)
    PROVE  Cardinality(T) = Cardinality(U) + Cardinality(W)
<1>1. n \in 0..n
    OBVIOUS
<1>2. T \cap 1..(m + n) = T /\ W \cap 1..n = W
    BY DEF Joins
<1> QED
    BY <1>1, <1>2, CountSecond

\* The k-th place of the first part.
LEMMA NthFirst ==
    ASSUME NEW m \in Nat, NEW n \in Nat, NEW T, NEW U, NEW W, Joins(T, m, U, n, W),
           NEW k \in 1..Cardinality(U)
    PROVE  Nth(T, k) = Nth(U, k)
<1>1. Nth(U, k) \in U /\ Cardinality(U \cap 1..Nth(U, k)) = k
    BY NthIs DEF Joins
<1>0. \A i \in U : i \in 0..m /\ i \in T
    BY DEF Joins
<1>2. Nth(U, k) \in 0..m /\ Nth(U, k) \in T
    BY <1>0, <1>1
<1>3. Cardinality(T \cap 1..Nth(U, k)) = k
    BY <1>1, <1>2, CountFirst
<1>4. m + n \in Nat /\ T \in SUBSET (1..(m + n))
    BY DEF Joins
<1> QED
    BY <1>2, <1>3, <1>4, NthOnly

\* The k-th place of the second part.
LEMMA NthSecond ==
    ASSUME NEW m \in Nat, NEW n \in Nat, NEW T, NEW U, NEW W, Joins(T, m, U, n, W),
           NEW k \in 1..Cardinality(W)
    PROVE  Nth(T, Cardinality(U) + k) = m + Nth(W, k)
<1>1. Nth(W, k) \in W /\ Cardinality(W \cap 1..Nth(W, k)) = k
    BY NthIs DEF Joins
<1>0. \A i \in W : i \in 0..n /\ m + i \in T
    BY DEF Joins
<1>2. Nth(W, k) \in 0..n /\ m + Nth(W, k) \in T
    BY <1>0, <1>1
<1>3. Cardinality(T \cap 1..(m + Nth(W, k))) = Cardinality(U) + k
    BY <1>1, <1>2, CountSecond
<1>4. m + n \in Nat /\ T \in SUBSET (1..(m + n))
    BY DEF Joins
<1> QED
    BY ZenonT(30), <1>2, <1>3, <1>4, NthOnly

----------------------------------------------------------------------------
(* What stands at some places.                                             *)

\* It is a sequence.
LEMMA ChosenTyped ==
    ASSUME NEW S, NEW s \in Seq(S), NEW T \in SUBSET DOMAIN s
    PROVE  /\ Chosen(s, T) \in Seq(S)
           /\ Len(Chosen(s, T)) = Cardinality(T)
           /\ \A k \in 1..Cardinality(T) : Chosen(s, T)[k] = s[Nth(T, k)] /\ Nth(T, k) \in T
<1>1. Len(s) \in Nat /\ DOMAIN s = 1..Len(s)
    OBVIOUS
<1>2. Cardinality(T) \in Nat
    BY <1>1, PlacesAreFinite
<1>3. \A k \in 1..Cardinality(T) : Nth(T, k) \in T
    BY <1>1, NthIs
<1>4. \A k \in 1..Cardinality(T) : s[Nth(T, k)] \in S
    BY <1>1, <1>3
<1>5. Chosen(s, T) \in [1..Cardinality(T) -> S]
    BY <1>4 DEF Chosen
<1> QED
    BY <1>2, <1>3, <1>5 DEF Chosen

\* Without a place it is empty.
LEMMA ChosenNone ==
    ASSUME NEW s
    PROVE  Chosen(s, {}) = <<>>
<1>1. Cardinality({}) = 0
    BY FS_EmptySet
<1>2. 1..0 = {}
    OBVIOUS
<1> QED
    BY <1>1, <1>2 DEF Chosen

\* Of two sequences it is what stands there in the one, and then in the other.
LEMMA ChosenJoin ==
    ASSUME NEW S, NEW s \in Seq(S), NEW t \in Seq(S), NEW T, NEW U, NEW W,
           Joins(T, Len(s), U, Len(t), W)
    PROVE  Chosen(s \o t, T) = Chosen(s, U) \o Chosen(t, W)
<1>1. s \o t \in Seq(S) /\ T \in SUBSET DOMAIN (s \o t) /\ U \in SUBSET DOMAIN s
      /\ W \in SUBSET DOMAIN t /\ Len(s) \in Nat /\ Len(t) \in Nat
    BY DEF Joins
<1>2. Cardinality(T) = Cardinality(U) + Cardinality(W)
    BY <1>1, CountBoth
<1>3. /\ Chosen(s, U) \in Seq(S) /\ Len(Chosen(s, U)) = Cardinality(U)
      /\ \A k \in 1..Cardinality(U) : Chosen(s, U)[k] = s[Nth(U, k)] /\ Nth(U, k) \in U
    BY <1>1, ChosenTyped
<1>4. /\ Chosen(t, W) \in Seq(S) /\ Len(Chosen(t, W)) = Cardinality(W)
      /\ \A k \in 1..Cardinality(W) : Chosen(t, W)[k] = t[Nth(W, k)] /\ Nth(W, k) \in W
    BY <1>1, ChosenTyped
<1>5. /\ Chosen(s \o t, T) \in Seq(S) /\ Len(Chosen(s \o t, T)) = Cardinality(T)
      /\ \A k \in 1..Cardinality(T) : Chosen(s \o t, T)[k] = (s \o t)[Nth(T, k)]
    BY <1>1, ChosenTyped
<1> DEFINE both == Chosen(s, U) \o Chosen(t, W)
<1>6. both \in Seq(S) /\ Len(both) = Cardinality(T)
    BY <1>2, <1>3, <1>4, ConcatProperties
<1>7. Cardinality(U) \in Nat /\ Cardinality(W) \in Nat
    BY <1>1, PlacesAreFinite DEF Joins
<1>8. ASSUME NEW k \in 1..Cardinality(T) PROVE Chosen(s \o t, T)[k] = both[k]
    <2>1. CASE k \in 1..Cardinality(U)
        <3>1. Nth(T, k) = Nth(U, k) /\ Nth(U, k) \in 1..Len(s)
            BY <1>1, <1>3, <2>1, NthFirst
        <3>2. both[k] = s[Nth(U, k)]
            BY <1>3, <1>4, <2>1
        <3> QED
            BY <1>1, <1>5, <3>1, <3>2
    <2>2. CASE k \notin 1..Cardinality(U)
        <3> DEFINE j == k - Cardinality(U)
        <3>1. j \in 1..Cardinality(W) /\ k = Cardinality(U) + j
            BY <1>2, <1>7, <2>2
        <3> HIDE DEF j
        <3>2. Nth(T, k) = Len(s) + Nth(W, j) /\ Nth(W, j) \in 1..Len(t)
            BY <1>1, <1>4, <3>1, NthSecond
        <3>3. both[k] = t[Nth(W, j)]
            BY <1>3, <1>4, <1>7, <3>1
        <3>4. (s \o t)[Nth(T, k)] = t[Nth(W, j)]
            BY <1>1, <3>2
        <3> QED
            BY <1>5, <3>3, <3>4
    <2> QED
        BY <2>1, <2>2
<1> QED
    BY <1>5, <1>6, <1>8, SeqEqual

----------------------------------------------------------------------------
(* Sequences put together.                                                 *)

\* f is the function by which FlattenSeq puts the first n of ss together.
Flattens(f, ss, n) == f = [i \in 1..n |-> IF i = 1 THEN ss[i] ELSE f[i - 1] \o ss[i]]

\* s and t begin with the same n elements.
SameFirst(s, t, n) == \A i \in 1..n : s[i] = t[i]

\* There is one for any number.
LEMMA FlattensExists ==
    ASSUME NEW ss, NEW n \in Nat
    PROVE  \E f : Flattens(f, ss, n)
<1> DEFINE fails == {m \in 0..n : ~(\E f : Flattens(f, ss, m))}
<1>1. \E f : Flattens(f, ss, 0)
    <2> DEFINE f == [i \in 1..0 |-> 0]
    <2>1. 1..0 = {}
        OBVIOUS
    <2>2. Flattens(f, ss, 0)
        BY <2>1 DEF Flattens
    <2> QED
        BY <2>2
<1>2. ASSUME NEW m \in 1..n, \E f : Flattens(f, ss, m - 1) PROVE \E f : Flattens(f, ss, m)
    <2>1. PICK f : Flattens(f, ss, m - 1)
        BY <1>2
    <2> DEFINE last == IF m = 1 THEN ss[m] ELSE f[m - 1] \o ss[m]
               g == [i \in 1..m |-> IF i = m THEN last ELSE f[i]]
    <2>2. \A i \in 1..(m - 1) : f[i] = IF i = 1 THEN ss[i] ELSE f[i - 1] \o ss[i]
        BY <2>1 DEF Flattens
    <2>3. \A i \in 1..m : g[i] = IF i = 1 THEN ss[i] ELSE g[i - 1] \o ss[i]
        <3> SUFFICES ASSUME NEW i \in 1..m PROVE g[i] = IF i = 1 THEN ss[i] ELSE g[i - 1] \o ss[i]
            OBVIOUS
        <3>1. CASE i = m
            <4>1. i # 1 => g[i - 1] = f[m - 1]
                BY <3>1
            <4> QED
                BY <3>1, <4>1
        <3>2. CASE i # m
            <4>1. i \in 1..(m - 1)
                BY <3>2
            <4>2. i # 1 => g[i - 1] = f[i - 1]
                BY <4>1
            <4> QED
                BY <2>2, <3>2, <4>1, <4>2
        <3> QED
            BY <3>1, <3>2
    <2>4. Flattens(g, ss, m)
        BY <2>3 DEF Flattens
    <2> QED
        BY <2>4
<1>3. ASSUME fails # {} PROVE FALSE
    <2>1. fails \in SUBSET Nat
        OBVIOUS
    <2>2. PICK m \in fails : \A x \in fails : m <= x
        BY <1>3, <2>1, LeastNatural
    <2>3. m \in 1..n
        BY <1>1, <2>2
    <2>4. m - 1 \notin fails
        BY <2>2, <2>3
    <2>5. \E f : Flattens(f, ss, m - 1)
        BY <2>3, <2>4
    <2> QED
        BY <1>2, <2>2, <2>3, <2>5
<1> QED
    BY <1>3

\* Where two agree in what they put together, they agree in what it gives.
LEMMA FlattensAgree ==
    ASSUME NEW ss, NEW tt, NEW n \in Nat, NEW m \in Nat, n <= m, SameFirst(ss, tt, n),
           NEW f, NEW g, Flattens(f, ss, n), Flattens(g, tt, m)
    PROVE  SameFirst(f, g, n)
<1> DEFINE fails == {i \in 1..n : f[i] # g[i]}
<1>1. ASSUME fails # {} PROVE FALSE
    <2>1. fails \in SUBSET Nat
        OBVIOUS
    <2>2. PICK i \in fails : \A x \in fails : i <= x
        BY <1>1, <2>1, LeastNatural
    <2>3. f[i] = IF i = 1 THEN ss[i] ELSE f[i - 1] \o ss[i]
        BY <2>2 DEF Flattens
    <2>4. i \in 1..m
        BY <2>2
    <2>5. g[i] = IF i = 1 THEN tt[i] ELSE g[i - 1] \o tt[i]
        BY <2>4 DEF Flattens
    <2>6. i # 1 => f[i - 1] = g[i - 1]
        BY <2>2
    <2> QED
        BY <2>2, <2>3, <2>5, <2>6 DEF SameFirst
<1> QED
    BY <1>1 DEF SameFirst

\* FlattenSeq of n sequences is the last value of such a function.
LEMMA FlattenIs ==
    ASSUME NEW S, NEW ss \in Seq(Seq(S)), ss # <<>>
    PROVE  \E f : Flattens(f, ss, Len(ss)) /\ FlattenSeq(ss) = f[Len(ss)]
<1> DEFINE n == Len(ss)
           f == CHOOSE f : f = [i \in 1..n |-> IF i = 1 THEN ss[i] ELSE f[i - 1] \o ss[i]]
<1>1. n \in Nat /\ n # 0
    OBVIOUS
<1>2. \E g : Flattens(g, ss, n)
    BY <1>1, FlattensExists
<1>3. Flattens(f, ss, n)
    BY <1>2 DEF Flattens
<1>4. FlattenSeq(ss) = f[n]
    BY <1>1 DEF FlattenSeq
<1> QED
    BY <1>3, <1>4

\* Nothing put together is nothing.
LEMMA FlattenNone == FlattenSeq(<<>>) = <<>>
BY DEF FlattenSeq

\* One sequence more is put at the end.
LEMMA FlattenAppend ==
    ASSUME NEW S, NEW ss \in Seq(Seq(S)), NEW s \in Seq(S)
    PROVE  FlattenSeq(Append(ss, s)) = FlattenSeq(ss) \o s
<1> DEFINE tt == Append(ss, s)
<1>1. tt \in Seq(Seq(S)) /\ tt # <<>> /\ Len(tt) = Len(ss) + 1 /\ tt[Len(tt)] = s
      /\ Len(ss) \in Nat
    BY AppendProperties
<1>0. \A i \in 1..Len(ss) : ss[i] = tt[i]
    BY AppendProperties
<1> HIDE DEF tt
<1>2. PICK g : Flattens(g, tt, Len(tt)) /\ FlattenSeq(tt) = g[Len(tt)]
    BY <1>1, FlattenIs
<1>3. g[Len(tt)] = IF Len(tt) = 1 THEN s ELSE g[Len(ss)] \o s
    <2>1. Len(tt) \in 1..Len(tt) /\ Len(tt) - 1 = Len(ss)
        BY <1>1
    <2>2. g[Len(tt)] = IF Len(tt) = 1 THEN tt[Len(tt)] ELSE g[Len(tt) - 1] \o tt[Len(tt)]
        BY <1>2, <2>1 DEF Flattens
    <2> QED
        BY <1>1, <2>1, <2>2
<1>4. CASE ss = <<>>
    <2>1. FlattenSeq(ss) = <<>> /\ Len(tt) = 1
        BY <1>1, <1>4, FlattenNone
    <2>2. <<>> \o s = s
        BY ConcatEmptySeq
    <2> QED
        BY <1>2, <1>3, <2>1, <2>2 DEF tt
<1>5. CASE ss # <<>>
    <2>1. PICK f : Flattens(f, ss, Len(ss)) /\ FlattenSeq(ss) = f[Len(ss)]
        BY <1>5, FlattenIs
    <2>2. Len(tt) \in Nat /\ Len(ss) <= Len(tt)
        BY <1>1
    <2>3. \A i \in 1..Len(ss) : f[i] = g[i]
        <3>1. SameFirst(ss, tt, Len(ss))
            BY <1>0 DEF SameFirst
        <3>2. SameFirst(f, g, Len(ss))
            BY <1>1, <1>2, <2>1, <2>2, <3>1, FlattensAgree
        <3> QED
            BY <3>2 DEF SameFirst
    <2>4. Len(ss) \in 1..Len(ss) /\ Len(tt) # 1
        BY <1>1, <1>5, EmptySeq
    <2>5. FlattenSeq(tt) = FlattenSeq(ss) \o s
        BY <1>2, <1>3, <2>1, <2>3, <2>4
    <2> QED
        BY <2>5 DEF tt
<1> QED
    BY <1>4, <1>5

\* A sequence is its first elements and one more.
LEMMA FirstsAndOne ==
    ASSUME NEW S, NEW s \in Seq(S), NEW k \in 1..Len(s)
    PROVE  /\ SubSeq(s, 1, k - 1) \in Seq(S)
           /\ SubSeq(s, 1, k) = Append(SubSeq(s, 1, k - 1), s[k])
OBVIOUS

\* What is put together of sequences is a sequence.
LEMMA FlattenTyped ==
    ASSUME NEW S, NEW ss \in Seq(Seq(S))
    PROVE  FlattenSeq(ss) \in Seq(S)
<1> DEFINE fails == {m \in 0..Len(ss) : FlattenSeq(SubSeq(ss, 1, m)) \notin Seq(S)}
<1>1. FlattenSeq(SubSeq(ss, 1, 0)) \in Seq(S)
    <2>1. SubSeq(ss, 1, 0) = <<>> /\ <<>> \in Seq(S)
        BY EmptySeq
    <2> QED
        BY <2>1, FlattenNone
<1>2. ASSUME fails # {} PROVE FALSE
    <2>1. fails \in SUBSET Nat
        OBVIOUS
    <2>2. PICK m \in fails : \A x \in fails : m <= x
        BY <1>2, <2>1, LeastNatural
    <2>3. m \in 1..Len(ss)
        BY <1>1, <2>2
    <2>4. m - 1 \notin fails
        BY <2>2, <2>3
    <2>5. FlattenSeq(SubSeq(ss, 1, m - 1)) \in Seq(S)
        BY <2>3, <2>4
    <2>6. /\ SubSeq(ss, 1, m - 1) \in Seq(Seq(S))
          /\ SubSeq(ss, 1, m) = Append(SubSeq(ss, 1, m - 1), ss[m]) /\ ss[m] \in Seq(S)
        BY <2>3, FirstsAndOne
    <2>7. FlattenSeq(SubSeq(ss, 1, m)) = FlattenSeq(SubSeq(ss, 1, m - 1)) \o ss[m]
        BY <2>6, FlattenAppend
    <2>8. FlattenSeq(SubSeq(ss, 1, m)) \in Seq(S)
        BY <2>5, <2>6, <2>7, ConcatProperties
    <2> QED
        BY <2>2, <2>8
<1>3. SubSeq(ss, 1, Len(ss)) = ss /\ Len(ss) \in 0..Len(ss)
    BY SubSeqFull
<1> QED
    BY <1>2, <1>3

\* Two lists of sequences can be put together one after the other.
LEMMA FlattenJoin ==
    ASSUME NEW S, NEW ss \in Seq(Seq(S)), NEW tt \in Seq(Seq(S))
    PROVE  FlattenSeq(ss \o tt) = FlattenSeq(ss) \o FlattenSeq(tt)
<1> DEFINE Holds(m) == FlattenSeq(ss \o SubSeq(tt, 1, m)) =
                         FlattenSeq(ss) \o FlattenSeq(SubSeq(tt, 1, m))
           fails == {m \in 0..Len(tt) : ~Holds(m)}
<1>0. FlattenSeq(ss) \in Seq(S)
    BY FlattenTyped
<1>1. Holds(0)
    <2>1. SubSeq(tt, 1, 0) = <<>> /\ ss \o <<>> = ss
        BY ConcatEmptySeq
    <2>2. FlattenSeq(ss) \o <<>> = FlattenSeq(ss)
        BY <1>0, ConcatEmptySeq
    <2> QED
        BY <2>1, <2>2, FlattenNone
<1>2. ASSUME fails # {} PROVE FALSE
    <2> HIDE DEF Holds
    <2>1. fails \in SUBSET Nat
        OBVIOUS
    <2>2. PICK m \in fails : \A x \in fails : m <= x
        BY <1>2, <2>1, LeastNatural
    <2>3. m \in 1..Len(tt)
        BY <1>1, <2>2
    <2>4. m - 1 \notin fails
        BY <2>2, <2>3
    <2>5. Holds(m - 1)
        BY <2>3, <2>4
    <2> DEFINE uu == SubSeq(tt, 1, m - 1)
    <2>6. uu \in Seq(Seq(S)) /\ SubSeq(tt, 1, m) = Append(uu, tt[m]) /\ tt[m] \in Seq(S)
        BY <2>3, FirstsAndOne
    <2> HIDE DEF uu
    <2>7. FlattenSeq(SubSeq(tt, 1, m)) = FlattenSeq(uu) \o tt[m]
        BY <2>6, FlattenAppend
    <2>8. ss \o Append(uu, tt[m]) = Append(ss \o uu, tt[m]) /\ ss \o uu \in Seq(Seq(S))
        BY SMTT(30), <2>6
    <2>9. FlattenSeq(ss \o SubSeq(tt, 1, m)) = FlattenSeq(ss \o uu) \o tt[m]
        BY <2>6, <2>8, FlattenAppend
    <2>10. FlattenSeq(uu) \in Seq(S)
        BY <2>6, FlattenTyped
    <2>11. (FlattenSeq(ss) \o FlattenSeq(uu)) \o tt[m] = FlattenSeq(ss) \o (FlattenSeq(uu) \o tt[m])
        <3>1. tt[m] \in Seq(S)
            BY <2>6
        <3>2. \A a, b, c \in Seq(S) : (a \o b) \o c = a \o (b \o c)
            BY SMTT(30), ConcatAssociative
        <3> QED
            BY <1>0, <2>10, <3>1, <3>2
    <2>12. Holds(m)
        BY <2>5, <2>7, <2>9, <2>11 DEF uu, Holds
    <2> QED
        BY <2>2, <2>12
<1>3. SubSeq(tt, 1, Len(tt)) = tt /\ Len(tt) \in 0..Len(tt)
    BY SubSeqFull
<1>4. Holds(Len(tt))
    BY <1>2, <1>3
<1> QED
    BY <1>3, <1>4

----------------------------------------------------------------------------
(* What lines contain.                                                     *)

ContentPlaces(s) == {n \in DOMAIN s : s[n].kind = "chunk" /\ Truthy(s[n].content)}

ChunkPlaces(s) == {n \in DOMAIN s : s[n].kind = "chunk"}

\* Of two sequences of lines, the places with content are those of the one and of the other.
LEMMA PlacesJoin ==
    ASSUME NEW s \in Seq(LineShapes), NEW t \in Seq(LineShapes)
    PROVE  /\ Joins(ContentPlaces(s \o t), Len(s), ContentPlaces(s), Len(t), ContentPlaces(t))
           /\ Joins(ChunkPlaces(s \o t), Len(s), ChunkPlaces(s), Len(t), ChunkPlaces(t))
<1>1. /\ s \o t \in Seq(LineShapes) /\ Len(s \o t) = Len(s) + Len(t)
      /\ \A i \in 1..Len(s) : (s \o t)[i] = s[i]
      /\ \A i \in 1..Len(t) : (s \o t)[Len(s) + i] = t[i]
      /\ \A i \in 1..Len(t) : Len(s) + i \in 1..(Len(s) + Len(t))
      /\ 1..Len(s) \subseteq 1..(Len(s) + Len(t))
    OBVIOUS
<1>2. DOMAIN (s \o t) = 1..(Len(s) + Len(t)) /\ DOMAIN s = 1..Len(s) /\ DOMAIN t = 1..Len(t)
    BY <1>1
<1>3. Joins(ContentPlaces(s \o t), Len(s), ContentPlaces(s), Len(t), ContentPlaces(t))
    BY <1>1, <1>2, Zenon DEF Joins, ContentPlaces
<1>4. Joins(ChunkPlaces(s \o t), Len(s), ChunkPlaces(s), Len(t), ChunkPlaces(t))
    BY <1>1, <1>2, Zenon DEF Joins, ChunkPlaces
<1> QED
    BY <1>3, <1>4

\* Contents are a sequence.
LEMMA ContentsTyped ==
    ASSUME NEW s \in Seq(LineShapes)
    PROVE  Contents(s) \in Seq(Strings \cup {Absent})
<1> DEFINE c == Chosen(s, ContentPlaces(s))
<1>1. ContentPlaces(s) \in SUBSET DOMAIN s
    BY DEF ContentPlaces
<1>2. c \in Seq(LineShapes)
    BY <1>1, ChosenTyped
<1>3. Contents(s) = [n \in DOMAIN c |-> c[n].content]
    BY DEF Contents, ContentPlaces
<1> HIDE DEF c
<1>4. \A n \in DOMAIN c : c[n].content \in Strings \cup {Absent}
    <2>1. \A n \in DOMAIN c : c[n] \in LineShapes
        BY <1>2
    <2>2. \A l \in LineShapes : l.content \in Strings \cup {Absent}
        BY DEF LineShapes
    <2> QED
        BY <2>1, <2>2
<1> QED
    BY <1>2, <1>3, <1>4

\* The contents of two sequences of lines are those of the one, then those of the other.
LEMMA ContentsJoin ==
    ASSUME NEW s \in Seq(LineShapes), NEW t \in Seq(LineShapes)
    PROVE  Contents(s \o t) = Contents(s) \o Contents(t)
<1> DEFINE a == Chosen(s, ContentPlaces(s))
           b == Chosen(t, ContentPlaces(t))
           c == Chosen(s \o t, ContentPlaces(s \o t))
           d == Contents(s) \o Contents(t)
<1>1. c = a \o b
    BY PlacesJoin, ChosenJoin
<1>2. a \in Seq(LineShapes) /\ b \in Seq(LineShapes)
    <2>1. ContentPlaces(s) \in SUBSET DOMAIN s /\ ContentPlaces(t) \in SUBSET DOMAIN t
        BY DEF ContentPlaces
    <2> QED
        BY <2>1, ChosenTyped
<1>3. /\ Contents(s) = [n \in DOMAIN a |-> a[n].content]
      /\ Contents(t) = [n \in DOMAIN b |-> b[n].content]
      /\ Contents(s \o t) = [n \in DOMAIN c |-> c[n].content]
    BY DEF Contents, ContentPlaces
<1>4. Contents(s) \in Seq(Strings \cup {Absent}) /\ Contents(t) \in Seq(Strings \cup {Absent})
      /\ Contents(s \o t) \in Seq(Strings \cup {Absent})
    <2>1. s \o t \in Seq(LineShapes)
        BY ConcatProperties
    <2> QED
        BY <2>1, ContentsTyped
<1> HIDE DEF a, b, c
<1>5. Len(Contents(s)) = Len(a) /\ Len(Contents(t)) = Len(b) /\ Len(Contents(s \o t)) = Len(a) + Len(b)
    BY <1>1, <1>2, <1>3, <1>4
<1>6. /\ d \in Seq(Strings \cup {Absent}) /\ Len(d) = Len(a) + Len(b)
      /\ \A i \in 1..(Len(a) + Len(b)) :
           d[i] = IF i <= Len(a) THEN Contents(s)[i] ELSE Contents(t)[i - Len(a)]
    <2>1. /\ d \in Seq(Strings \cup {Absent}) /\ Len(d) = Len(Contents(s)) + Len(Contents(t))
          /\ \A i \in 1..(Len(Contents(s)) + Len(Contents(t))) :
               d[i] = IF i <= Len(Contents(s)) THEN Contents(s)[i] ELSE Contents(t)[i - Len(Contents(s))]
        BY <1>4, ConcatProperties, Zenon
    <2> HIDE DEF d
    <2> QED
        BY <1>5, <2>1
<1>7. ASSUME NEW n \in 1..(Len(a) + Len(b)) PROVE Contents(s \o t)[n] = d[n]
    <2>1. CASE n \in 1..Len(a)
        <3>1. (a \o b)[n] = a[n] /\ n \in DOMAIN (a \o b) /\ n \in DOMAIN a
            BY <1>2, <2>1
        <3>2. d[n] = Contents(s)[n]
            BY <1>6, <2>1
        <3> QED
            BY <1>1, <1>3, <3>1, <3>2
    <2>2. CASE n \notin 1..Len(a)
        <3>1. (a \o b)[n] = b[n - Len(a)] /\ n \in DOMAIN (a \o b) /\ n - Len(a) \in DOMAIN b
            BY <1>2, <2>2
        <3>2. ~(n <= Len(a))
            BY <1>2, <2>2
        <3>3. d[n] = Contents(t)[n - Len(a)]
            BY <1>6, <3>2
        <3> QED
            BY <1>1, <1>3, <3>1, <3>3
    <2> QED
        BY <2>1, <2>2
<1> HIDE DEF d
<1>8. Contents(s \o t) = d
    BY <1>4, <1>5, <1>6, <1>7, SeqEqual
<1> QED
    BY <1>8 DEF d

\* The calls of the chunks among some lines.
CallsOf(s) == LET c == Chosen(s, ChunkPlaces(s)) IN [n \in DOMAIN c |-> c[n].calls]

\* They are sequences of fragments.
LEMMA CallsTyped ==
    ASSUME NEW s \in Seq(LineShapes)
    PROVE  CallsOf(s) \in Seq(Seq(CallShapes)) /\ Fragments(s) = FlattenSeq(CallsOf(s))
<1> DEFINE c == Chosen(s, ChunkPlaces(s))
<1>1. ChunkPlaces(s) \in SUBSET DOMAIN s
    BY DEF ChunkPlaces
<1>2. c \in Seq(LineShapes)
    BY <1>1, ChosenTyped
<1>3. CallsOf(s) = [n \in DOMAIN c |-> c[n].calls]
    BY DEF CallsOf
<1>4. Fragments(s) = FlattenSeq(CallsOf(s))
    BY DEF Fragments, CallsOf, ChunkPlaces
<1> HIDE DEF c
<1>5. \A n \in DOMAIN c : c[n].calls \in Seq(CallShapes)
    <2>1. \A n \in DOMAIN c : c[n] \in LineShapes
        BY <1>2
    <2>2. \A l \in LineShapes : l.calls \in Seq(CallShapes)
        BY DEF LineShapes
    <2> QED
        BY <2>1, <2>2
<1> QED
    BY <1>2, <1>3, <1>4, <1>5

\* The calls of two sequences of lines are those of the one, then those of the other.
LEMMA CallsJoin ==
    ASSUME NEW s \in Seq(LineShapes), NEW t \in Seq(LineShapes)
    PROVE  CallsOf(s \o t) = CallsOf(s) \o CallsOf(t)
<1> DEFINE a == Chosen(s, ChunkPlaces(s))
           b == Chosen(t, ChunkPlaces(t))
           c == Chosen(s \o t, ChunkPlaces(s \o t))
           d == CallsOf(s) \o CallsOf(t)
<1>1. c = a \o b
    BY PlacesJoin, ChosenJoin
<1>2. a \in Seq(LineShapes) /\ b \in Seq(LineShapes)
    <2>1. ChunkPlaces(s) \in SUBSET DOMAIN s /\ ChunkPlaces(t) \in SUBSET DOMAIN t
        BY DEF ChunkPlaces
    <2> QED
        BY <2>1, ChosenTyped
<1>3. /\ CallsOf(s) = [n \in DOMAIN a |-> a[n].calls]
      /\ CallsOf(t) = [n \in DOMAIN b |-> b[n].calls]
      /\ CallsOf(s \o t) = [n \in DOMAIN c |-> c[n].calls]
    BY DEF CallsOf
<1>4. CallsOf(s) \in Seq(Seq(CallShapes)) /\ CallsOf(t) \in Seq(Seq(CallShapes))
      /\ CallsOf(s \o t) \in Seq(Seq(CallShapes))
    <2>1. s \o t \in Seq(LineShapes)
        BY ConcatProperties
    <2> QED
        BY <2>1, CallsTyped
<1> HIDE DEF a, b, c
<1>5. Len(CallsOf(s)) = Len(a) /\ Len(CallsOf(t)) = Len(b) /\ Len(CallsOf(s \o t)) = Len(a) + Len(b)
    BY <1>1, <1>2, <1>3, <1>4
<1>6. /\ d \in Seq(Seq(CallShapes)) /\ Len(d) = Len(a) + Len(b)
      /\ \A i \in 1..(Len(a) + Len(b)) :
           d[i] = IF i <= Len(a) THEN CallsOf(s)[i] ELSE CallsOf(t)[i - Len(a)]
    <2>1. /\ d \in Seq(Seq(CallShapes)) /\ Len(d) = Len(CallsOf(s)) + Len(CallsOf(t))
          /\ \A i \in 1..(Len(CallsOf(s)) + Len(CallsOf(t))) :
               d[i] = IF i <= Len(CallsOf(s)) THEN CallsOf(s)[i] ELSE CallsOf(t)[i - Len(CallsOf(s))]
        BY <1>4, ConcatProperties, Zenon
    <2> HIDE DEF d
    <2> QED
        BY <1>5, <2>1
<1>7. ASSUME NEW n \in 1..(Len(a) + Len(b)) PROVE CallsOf(s \o t)[n] = d[n]
    <2>1. CASE n \in 1..Len(a)
        <3>1. (a \o b)[n] = a[n] /\ n \in DOMAIN (a \o b) /\ n \in DOMAIN a
            BY <1>2, <2>1
        <3>2. d[n] = CallsOf(s)[n]
            BY <1>6, <2>1
        <3> QED
            BY <1>1, <1>3, <3>1, <3>2
    <2>2. CASE n \notin 1..Len(a)
        <3>1. (a \o b)[n] = b[n - Len(a)] /\ n \in DOMAIN (a \o b) /\ n - Len(a) \in DOMAIN b
            BY <1>2, <2>2
        <3>2. ~(n <= Len(a))
            BY <1>2, <2>2
        <3>3. d[n] = CallsOf(t)[n - Len(a)]
            BY <1>6, <3>2
        <3> QED
            BY <1>1, <1>3, <3>1, <3>3
    <2> QED
        BY <2>1, <2>2
<1> HIDE DEF d
<1>8. CallsOf(s \o t) = d
    BY <1>4, <1>5, <1>6, <1>7, SeqEqual
<1> QED
    BY <1>8 DEF d

\* So are the fragments of calls.
LEMMA FragmentsJoin ==
    ASSUME NEW s \in Seq(LineShapes), NEW t \in Seq(LineShapes)
    PROVE  /\ Fragments(s) \in Seq(CallShapes)
           /\ Fragments(s \o t) = Fragments(s) \o Fragments(t)
<1>1. s \o t \in Seq(LineShapes)
    BY ConcatProperties
<1>2. /\ CallsOf(s) \in Seq(Seq(CallShapes)) /\ Fragments(s) = FlattenSeq(CallsOf(s))
      /\ CallsOf(t) \in Seq(Seq(CallShapes)) /\ Fragments(t) = FlattenSeq(CallsOf(t))
      /\ Fragments(s \o t) = FlattenSeq(CallsOf(s \o t))
    BY <1>1, CallsTyped
<1>3. Fragments(s) \in Seq(CallShapes)
    BY <1>2, FlattenTyped
<1>4. FlattenSeq(CallsOf(s) \o CallsOf(t)) = FlattenSeq(CallsOf(s)) \o FlattenSeq(CallsOf(t))
    BY <1>2, FlattenJoin
<1> QED
    BY <1>2, <1>3, <1>4, CallsJoin

----------------------------------------------------------------------------
(* Splitting a buffer.                                                     *)

Pieces == [line : LineShapes, part : 1..3]

Start(ends, k) == IF k = 1 THEN 1 ELSE Nth(ends, k - 1) + 1

\* Ends are places.
LEMMA EndsTyped ==
    ASSUME NEW buf \in Seq(Pieces)
    PROVE  /\ Ends(buf) \in SUBSET (1..Len(buf)) /\ Len(buf) \in Nat
           /\ Cardinality(Ends(buf)) \in Nat
<1>1. Ends(buf) \in SUBSET (1..Len(buf)) /\ Len(buf) \in Nat
    BY DEF Ends
<1> QED
    BY <1>1, PlacesAreFinite

\* A line begins after the end of the one before it.
LEMMA StartTyped ==
    ASSUME NEW buf \in Seq(Pieces), NEW k \in 1..Cardinality(Ends(buf))
    PROVE  Start(Ends(buf), k) \in 1..Nth(Ends(buf), k) /\ Nth(Ends(buf), k) \in 1..Len(buf)
<1>1. Ends(buf) \in SUBSET (1..Len(buf)) /\ Len(buf) \in Nat /\ Cardinality(Ends(buf)) \in Nat
    BY EndsTyped
<1>2. Nth(Ends(buf), k) \in 1..Len(buf)
    BY <1>1, NthIs
<1>3. CASE k = 1
    BY <1>2, <1>3 DEF Start
<1>4. CASE k # 1
    <2>1. k - 1 \in 1..Cardinality(Ends(buf)) /\ k - 1 < k
        BY <1>1, <1>4
    <2>2. Nth(Ends(buf), k - 1) < Nth(Ends(buf), k)
        BY <1>1, <2>1, NthGrows
    <2>3. Nth(Ends(buf), k - 1) \in 1..Len(buf)
        BY <1>1, <2>1, NthIs
    <2> QED
        BY <1>2, <1>4, <2>2, <2>3 DEF Start
<1> QED
    BY <1>3, <1>4

\* Skip and Bad are lines.
LEMMA SkipTyped == Skip \in LineShapes /\ Bad \in LineShapes
BY EmptySeq DEF Skip, Bad, LineShapes

\* What some pieces are taken for is a line.
LEMMA LineTyped ==
    ASSUME NEW buf \in Seq(Pieces)
    PROVE  Line(buf) \in LineShapes
<1>1. buf # <<>> => buf[1] \in Pieces
    OBVIOUS
<1>2. \A p \in Pieces : p.line \in LineShapes
    BY DEF Pieces
<1> QED
    BY <1>1, <1>2, SkipTyped DEF Line

\* Split gives as many lines as there are ends.
LEMMA SplitTyped ==
    ASSUME NEW buf \in Seq(Pieces)
    PROVE  /\ Split(buf) \in Seq(LineShapes)
           /\ Len(Split(buf)) = Cardinality(Ends(buf))
           /\ \A k \in 1..Cardinality(Ends(buf)) :
                Split(buf)[k] = Line(SubSeq(buf, Start(Ends(buf), k), Nth(Ends(buf), k) - 1))
<1> DEFINE c == Cardinality(Ends(buf))
           piece(k) == SubSeq(buf, Start(Ends(buf), k), Nth(Ends(buf), k) - 1)
<1>1. c \in Nat
    BY EndsTyped
<1>2. Split(buf) = [k \in 1..c |-> Line(piece(k))]
    BY DEF Split, Start
<1>3. ASSUME NEW k \in 1..c PROVE piece(k) \in Seq(Pieces)
    <2>1. Start(Ends(buf), k) \in 1..Nth(Ends(buf), k) /\ Nth(Ends(buf), k) \in 1..Len(buf)
        BY StartTyped
    <2> QED
        BY <2>1
<1>4. \A k \in 1..c : Line(piece(k)) \in LineShapes
    BY <1>3, LineTyped
<1> HIDE DEF c, piece
<1>5. Split(buf) \in Seq(LineShapes) /\ Len(Split(buf)) = c
      /\ \A k \in 1..c : Split(buf)[k] = Line(piece(k))
    BY <1>1, <1>2, <1>4
<1> QED
    BY <1>5 DEF c, piece

\* Without an end there is no line.
LEMMA SplitNone ==
    ASSUME NEW buf \in Seq(Pieces), Ends(buf) = {}
    PROVE  Split(buf) = <<>>
<1>1. Cardinality(Ends(buf)) = 0
    BY FS_EmptySet
<1> QED
    BY <1>1, SplitTyped, EmptySeq

\* The ends of two sequences of pieces.
LEMMA EndsJoin ==
    ASSUME NEW s \in Seq(Pieces), NEW t \in Seq(Pieces)
    PROVE  Joins(Ends(s \o t), Len(s), Ends(s), Len(t), Ends(t))
<1>1. /\ s \o t \in Seq(Pieces) /\ Len(s \o t) = Len(s) + Len(t)
      /\ \A i \in 1..Len(s) : (s \o t)[i] = s[i]
      /\ \A i \in 1..Len(t) : (s \o t)[Len(s) + i] = t[i]
      /\ \A i \in 1..Len(t) : Len(s) + i \in 1..(Len(s) + Len(t))
      /\ 1..Len(s) \subseteq 1..(Len(s) + Len(t))
    OBVIOUS
<1>2. DOMAIN (s \o t) = 1..(Len(s) + Len(t)) /\ DOMAIN s = 1..Len(s) /\ DOMAIN t = 1..Len(t)
    BY <1>1
<1> QED
    BY <1>1, <1>2, Zenon DEF Joins, Ends

\* Two buffers of which the first ends with an end can be split one after the other.
LEMMA SplitCut ==
    ASSUME NEW a \in Seq(Pieces), NEW b \in Seq(Pieces), a = <<>> \/ Len(a) \in Ends(a)
    PROVE  Split(a \o b) = Split(a) \o Split(b)
<1> DEFINE d == a \o b
           m == Cardinality(Ends(a))
           n == Cardinality(Ends(b))
<1>1. d \in Seq(Pieces) /\ Len(d) = Len(a) + Len(b) /\ Len(a) \in Nat /\ Len(b) \in Nat
    BY ConcatProperties, LenProperties
<1>2. Joins(Ends(d), Len(a), Ends(a), Len(b), Ends(b))
    BY EndsJoin
<1>3. Cardinality(Ends(d)) = m + n /\ m \in Nat /\ n \in Nat
    BY <1>1, <1>2, CountBoth, EndsTyped
<1> HIDE DEF d
<1>4. /\ Split(d) \in Seq(LineShapes) /\ Len(Split(d)) = m + n
      /\ \A k \in 1..(m + n) : Split(d)[k] = Line(SubSeq(d, Start(Ends(d), k), Nth(Ends(d), k) - 1))
    BY <1>1, <1>3, SplitTyped
<1>5. /\ Split(a) \in Seq(LineShapes) /\ Len(Split(a)) = m
      /\ \A k \in 1..m : Split(a)[k] = Line(SubSeq(a, Start(Ends(a), k), Nth(Ends(a), k) - 1))
    BY SplitTyped
<1>6. /\ Split(b) \in Seq(LineShapes) /\ Len(Split(b)) = n
      /\ \A k \in 1..n : Split(b)[k] = Line(SubSeq(b, Start(Ends(b), k), Nth(Ends(b), k) - 1))
    BY SplitTyped
<1>7. /\ Split(a) \o Split(b) \in Seq(LineShapes) /\ Len(Split(a) \o Split(b)) = m + n
      /\ \A k \in 1..m : (Split(a) \o Split(b))[k] = Split(a)[k]
      /\ \A k \in 1..n : (Split(a) \o Split(b))[m + k] = Split(b)[k]
    <2>1. \A x, y \in Seq(LineShapes) :
            /\ x \o y \in Seq(LineShapes) /\ Len(x \o y) = Len(x) + Len(y)
            /\ \A k \in 1..Len(x) : (x \o y)[k] = x[k]
            /\ \A k \in 1..Len(y) : (x \o y)[Len(x) + k] = y[k]
        OBVIOUS
    <2>2. /\ Split(a) \o Split(b) \in Seq(LineShapes)
          /\ Len(Split(a) \o Split(b)) = Len(Split(a)) + Len(Split(b))
          /\ \A k \in 1..Len(Split(a)) : (Split(a) \o Split(b))[k] = Split(a)[k]
          /\ \A k \in 1..Len(Split(b)) : (Split(a) \o Split(b))[Len(Split(a)) + k] = Split(b)[k]
        BY <1>5, <1>6, <2>1, Zenon
    <2> QED
        BY <1>5, <1>6, <2>2
<1>8. ASSUME NEW k \in 1..m PROVE Split(d)[k] = Split(a)[k]
    <2>1. Nth(Ends(d), k) = Nth(Ends(a), k)
        BY <1>1, <1>2, NthFirst
    <2>2. Start(Ends(d), k) = Start(Ends(a), k)
        <3>1. CASE k = 1
            BY <3>1 DEF Start
        <3>2. CASE k # 1
            <4>1. k - 1 \in 1..m
                BY <1>3, <3>2
            <4>2. Nth(Ends(d), k - 1) = Nth(Ends(a), k - 1)
                BY <1>1, <1>2, <4>1, NthFirst
            <4> QED
                BY <4>2 DEF Start
        <3> QED
            BY <3>1, <3>2
    <2> DEFINE x == Start(Ends(a), k)
               y == Nth(Ends(a), k)
    <2>3. x \in 1..y /\ y \in 1..Len(a)
        BY StartTyped
    <2> HIDE DEF x, y
    <2>4. SubSeq(d, x, y - 1) = SubSeq(a, x, y - 1)
        <3>1. \A i \in 1..Len(a) : d[i] = a[i]
            BY DEF d
        <3>2. \A i \in x..(y - 1) : d[i] = a[i]
            BY <1>1, <2>3, <3>1
        <3> QED
            BY <1>1, <2>3, <3>2
    <2>5. k \in 1..(m + n)
        BY <1>3
    <2> QED
        BY <1>4, <1>5, <2>1, <2>2, <2>4, <2>5 DEF x, y
<1>9. ASSUME NEW k \in 1..n PROVE Split(d)[m + k] = Split(b)[k]
    <2>1. Nth(Ends(d), m + k) = Len(a) + Nth(Ends(b), k)
        BY <1>1, <1>2, NthSecond
    <2>2. Start(Ends(d), m + k) = Len(a) + Start(Ends(b), k)
        <3>1. CASE k # 1
            <4>1. k - 1 \in 1..n /\ m + (k - 1) = m + k - 1 /\ m + k # 1
                BY <1>3, <3>1
            <4>2. Nth(Ends(d), m + k - 1) = Len(a) + Nth(Ends(b), k - 1)
                BY <1>1, <1>2, <4>1, NthSecond
            <4>3. Nth(Ends(b), k - 1) \in 1..Len(b)
                BY <4>1, StartTyped
            <4>4. Start(Ends(d), m + k) = Nth(Ends(d), m + k - 1) + 1
                <5>1. m + k - 1 = (m + k) - 1
                    BY <1>3
                <5> QED
                    BY <4>1, <5>1 DEF Start
            <4>5. Start(Ends(b), k) = Nth(Ends(b), k - 1) + 1
                BY <3>1 DEF Start
            <4> HIDE DEF m
            <4> QED
                BY <1>1, <4>2, <4>3, <4>4, <4>5
        <3>2. CASE k = 1 /\ a = <<>>
            <4>1. Ends(a) = {} /\ Len(a) = 0
                BY <3>2 DEF Ends
            <4>2. m = 0
                BY <4>1, FS_EmptySet
            <4> QED
                BY <3>2, <4>1, <4>2 DEF Start
        <3>3. CASE k = 1 /\ a # <<>>
            <4>1. Len(a) \in Ends(a) /\ Ends(a) \in SUBSET (1..Len(a))
                BY <3>3, EndsTyped
            <4>2. Ends(a) \cap 1..Len(a) = Ends(a)
                BY <4>1
            <4>3. m \in 1..m /\ Nth(Ends(a), m) = Len(a)
                BY ZenonT(30), <1>1, <4>1, <4>2, NthOnly
            <4>4. Nth(Ends(d), m) = Len(a)
                BY <1>1, <1>2, <4>3, NthFirst
            <4>5. m + k # 1 /\ m + k - 1 = m
                BY <1>3, <3>3, <4>3
            <4>6. Start(Ends(d), m + k) = Nth(Ends(d), m + k - 1) + 1
                <5>1. m + k - 1 = (m + k) - 1
                    BY <1>3
                <5> QED
                    BY <4>5, <5>1 DEF Start
            <4>7. Start(Ends(b), k) = 1
                BY <3>3 DEF Start
            <4> HIDE DEF m
            <4> QED
                BY <4>4, <4>5, <4>6, <4>7
        <3> QED
            BY <3>1, <3>2, <3>3
    <2> DEFINE x == Start(Ends(b), k)
               y == Nth(Ends(b), k)
    <2>3. x \in 1..y /\ y \in 1..Len(b)
        BY StartTyped
    <2> HIDE DEF x, y
    <2>4. SubSeq(d, Len(a) + x, Len(a) + y - 1) = SubSeq(b, x, y - 1)
        <3>1. \A i \in 1..Len(b) : d[Len(a) + i] = b[i]
            BY DEF d
        <3>2. \A i \in x..(y - 1) : d[Len(a) + i] = b[i]
            BY <1>1, <2>3, <3>1
        <3> QED
            BY SMTT(30), <1>1, <2>3, <3>2
    <2>5. m + k \in 1..(m + n)
        BY <1>3
    <2>6. Split(d)[m + k] = Line(SubSeq(d, Start(Ends(d), m + k), Nth(Ends(d), m + k) - 1))
        BY <1>4, <2>5
    <2>7. Split(b)[k] = Line(SubSeq(b, x, y - 1))
        BY <1>6 DEF x, y
    <2>8. Start(Ends(d), m + k) = Len(a) + x /\ Nth(Ends(d), m + k) = Len(a) + y
        BY <2>1, <2>2 DEF x, y
    <2> HIDE DEF m
    <2>9. (Len(a) + y) - 1 = Len(a) + y - 1
        BY <1>1, <2>3
    <2> QED
        BY <2>4, <2>6, <2>7, <2>8, <2>9, Zenon
<1>10. \A k \in 1..(m + n) : Split(d)[k] = (Split(a) \o Split(b))[k]
    <2> SUFFICES ASSUME NEW k \in 1..(m + n) PROVE Split(d)[k] = (Split(a) \o Split(b))[k]
        OBVIOUS
    <2>1. CASE k \in 1..m
        BY <1>7, <1>8, <2>1
    <2>2. CASE k \notin 1..m
        <3>1. k - m \in 1..n /\ m + (k - m) = k
            BY <1>3, <2>2
        <3> QED
            BY <1>7, <1>9, <3>1
    <2> QED
        BY <2>1, <2>2
<1>11. Split(d) = Split(a) \o Split(b)
    BY <1>4, <1>7, <1>10, SeqEqual
<1> QED
    BY <1>11 DEF d

----------------------------------------------------------------------------
(* What follows the last end of a buffer.                                  *)

\* Where the last end is, if there is one.
LEMMA LastEndIs ==
    ASSUME NEW buf \in Seq(Pieces)
    PROVE  /\ LastEnd(buf) \in 0..Len(buf)
           /\ LastEnd(buf) = 0 <=> Ends(buf) = {}
           /\ LastEnd(buf) # 0 => LastEnd(buf) \in Ends(buf)
           /\ \A n \in Ends(buf) : n <= LastEnd(buf)
<1> DEFINE E == Ends(buf)
<1>1. E \in SUBSET (1..Len(buf)) /\ Len(buf) \in Nat
    BY EndsTyped
<1> HIDE DEF E
<1>2. LastEnd(buf) = Max({0} \cup E)
    BY DEF LastEnd, E
<1>3. CASE E = {}
    <2>1. {0} \cup E = {0} /\ \A x \in {0} : x >= 0
        BY <1>3
    <2>2. Max({0}) = 0
        BY DEF Max
    <2> QED
        BY <1>1, <1>2, <1>3, <2>1, <2>2 DEF E
<1>4. CASE E # {}
    <2>1. Max(E) \in E /\ \A i \in E : i <= Max(E)
        BY <1>1, <1>4, MaxOfPlaces
    <2> DEFINE top == Max(E)
    <2>2. top \in E /\ top \in 1..Len(buf) /\ \A i \in E : i \in 1..Len(buf) /\ i <= top
        BY <1>1, <2>1
    <2> HIDE DEF top
    <2>3. \E x \in {0} \cup E : \A y \in {0} \cup E : x >= y
        <3>1. \A y \in {0} \cup E : top >= y
            BY <2>2
        <3> QED
            BY <2>2, <3>1
    <2>4. /\ LastEnd(buf) \in {0} \cup E
          /\ \A y \in {0} \cup E : LastEnd(buf) >= y
        BY <1>2, <2>3 DEF Max
    <2>5. LastEnd(buf) = top
        <3> DEFINE e == LastEnd(buf)
        <3>1. e >= top /\ e \in {0} \cup E
            BY <2>2, <2>4
        <3> HIDE DEF e
        <3>2. top \in Nat /\ top # 0
            BY <1>1, <2>2
        <3>3. e # 0
            BY <3>1, <3>2
        <3>4. e \in E
            BY <3>1, <3>3
        <3>5. e \in Nat /\ e <= top
            BY <1>1, <2>2, <3>4
        <3>6. e = top
            BY <3>1, <3>2, <3>5
        <3> QED
            BY <3>6 DEF e
    <2> QED
        BY <1>4, <2>2, <2>5 DEF E
<1> QED
    BY <1>3, <1>4

\* A buffer is its ended lines and the rest, and the rest has no end.
LEMMA RestIs ==
    ASSUME NEW buf \in Seq(Pieces)
    PROVE  /\ Rest(buf) \in Seq(Pieces)
           /\ SubSeq(buf, 1, LastEnd(buf)) \in Seq(Pieces)
           /\ Len(SubSeq(buf, 1, LastEnd(buf))) = LastEnd(buf)
           /\ buf = SubSeq(buf, 1, LastEnd(buf)) \o Rest(buf)
           /\ Ends(Rest(buf)) = {}
           /\ LastEnd(buf) # 0 => LastEnd(buf) \in Ends(SubSeq(buf, 1, LastEnd(buf)))
<1> DEFINE L == LastEnd(buf)
           a == SubSeq(buf, 1, L)
           r == SubSeq(buf, L + 1, Len(buf))
<1>1. /\ L \in 0..Len(buf) /\ Len(buf) \in Nat
      /\ L # 0 => L \in Ends(buf)
      /\ \A n \in Ends(buf) : n <= L
    BY LastEndIs
<1>2. Rest(buf) = r
    BY DEF Rest
<1> HIDE DEF L
<1>3. a \in Seq(Pieces) /\ Len(a) = L /\ \A i \in 1..L : a[i] = buf[i]
    BY <1>1
<1>4. r \in Seq(Pieces) /\ Len(r) = Len(buf) - L /\ \A i \in 1..(Len(buf) - L) : r[i] = buf[L + i]
    BY <1>1
<1>5. buf = a \o r
    <2>1. 1 \in 1..(Len(buf) + 1) /\ L \in (1 - 1)..Len(buf) /\ Len(buf) \in L..Len(buf)
        BY <1>1
    <2>2. a \o r = SubSeq(buf, 1, Len(buf))
        BY <2>1, ConcatAdjacentSubSeq
    <2> QED
        BY <2>2, SubSeqFull
<1>6. Ends(r) = {}
    <2> SUFFICES ASSUME NEW i \in Ends(r) PROVE FALSE
        OBVIOUS
    <2>1. i \in 1..(Len(buf) - L) /\ r[i].part = 3
        BY <1>4 DEF Ends
    <2>2. L + i \in Ends(buf)
        BY <1>1, <1>4, <2>1 DEF Ends
    <2> QED
        BY <1>1, <2>1, <2>2
<1>7. L # 0 => L \in Ends(a)
    BY <1>1, <1>3 DEF Ends
<1> QED
    BY <1>2, <1>3, <1>4, <1>5, <1>6, <1>7 DEF L

\* The ended part of a buffer, split.
LEMMA SplitEnded ==
    ASSUME NEW buf \in Seq(Pieces), NEW t \in Seq(Pieces)
    PROVE  Split(buf \o t) = Split(buf) \o Split(Rest(buf) \o t)
<1> DEFINE a == SubSeq(buf, 1, LastEnd(buf))
           r == Rest(buf)
<1>1. /\ a \in Seq(Pieces) /\ r \in Seq(Pieces) /\ buf = a \o r /\ Ends(r) = {}
      /\ a = <<>> \/ Len(a) \in Ends(a)
    <2>1. LastEnd(buf) = 0 => a = <<>>
        OBVIOUS
    <2> QED
        BY <2>1, RestIs
<1> HIDE DEF a, r
<1>2. Split(buf) = Split(a) \o Split(r)
    BY <1>1, SplitCut
<1>3. Split(r) = <<>>
    BY <1>1, SplitNone
<1>4. Split(a) \in Seq(LineShapes)
    BY <1>1, SplitTyped
<1>5. Split(buf) = Split(a)
    BY <1>2, <1>3, <1>4, ConcatEmptySeq
<1>6. buf \o t = a \o (r \o t) /\ r \o t \in Seq(Pieces)
    BY SMTT(30), <1>1, ConcatAssociative, ConcatProperties
<1>7. Split(a \o (r \o t)) = Split(a) \o Split(r \o t)
    BY <1>1, <1>6, SplitCut
<1> QED
    BY <1>5, <1>6, <1>7 DEF r

\* What is left of a buffer is all that matters for what is left later.
LEMMA RestResumes ==
    ASSUME NEW buf \in Seq(Pieces), NEW t \in Seq(Pieces)
    PROVE  Rest(buf \o t) = Rest(Rest(buf) \o t)
<1> DEFINE a == SubSeq(buf, 1, LastEnd(buf))
           r == Rest(buf)
           u == r \o t
           L == Len(a)
<1>1. /\ a \in Seq(Pieces) /\ r \in Seq(Pieces) /\ buf = a \o r
      /\ L = LastEnd(buf) /\ L \in Nat
      /\ L # 0 => L \in Ends(a)
    <2>1. LastEnd(buf) \in 0..Len(buf) /\ Len(buf) \in Nat
        BY LastEndIs
    <2>2. a \in Seq(Pieces) /\ r \in Seq(Pieces) /\ buf = a \o r /\ L = LastEnd(buf)
        BY RestIs
    <2>3. LastEnd(buf) # 0 => LastEnd(buf) \in Ends(a)
        BY RestIs
    <2> HIDE DEF a, r
    <2> QED
        BY <2>1, <2>2, <2>3
<1> HIDE DEF a, r
<1>2. buf \o t = a \o u /\ u \in Seq(Pieces)
    BY <1>1, ConcatAssociative, ConcatProperties
<1> HIDE DEF u
<1>3. a \o u \in Seq(Pieces) /\ Len(a \o u) = L + Len(u)
    BY <1>1, <1>2, ConcatProperties
<1>4. Joins(Ends(a \o u), L, Ends(a), Len(u), Ends(u))
    BY <1>1, <1>2, EndsJoin
<1>5. /\ LastEnd(u) \in 0..Len(u) /\ Len(u) \in Nat
      /\ LastEnd(u) # 0 => LastEnd(u) \in Ends(u)
      /\ \A n \in Ends(u) : n <= LastEnd(u)
    BY <1>2, LastEndIs, LenProperties
<1>6. /\ LastEnd(a \o u) \in 0..(L + Len(u))
      /\ LastEnd(a \o u) # 0 => LastEnd(a \o u) \in Ends(a \o u)
      /\ \A n \in Ends(a \o u) : n <= LastEnd(a \o u)
    BY <1>3, LastEndIs
<1> HIDE DEF L
<1>7. LastEnd(a \o u) = L + LastEnd(u)
    <2>1. L + LastEnd(u) <= LastEnd(a \o u)
        <3>1. CASE LastEnd(u) # 0
            <4>1. L + LastEnd(u) \in Ends(a \o u)
                BY <1>1, <1>4, <1>5, <3>1 DEF Joins
            <4> QED
                BY <1>6, <4>1
        <3>2. CASE LastEnd(u) = 0 /\ L # 0
            <4>1. L \in Ends(a \o u)
                BY <1>1, <1>4, <3>2 DEF Joins
            <4> QED
                BY <1>1, <1>6, <3>2, <4>1
        <3>3. CASE LastEnd(u) = 0 /\ L = 0
            BY <1>6, <3>3
        <3> QED
            BY <3>1, <3>2, <3>3
    <2>2. LastEnd(a \o u) <= L + LastEnd(u)
        <3> SUFFICES ASSUME LastEnd(a \o u) > L PROVE LastEnd(a \o u) <= L + LastEnd(u)
            BY <1>1, <1>5, <1>6
        <3> DEFINE i == LastEnd(a \o u) - L
        <3>1. i \in 1..Len(u) /\ LastEnd(a \o u) = L + i /\ L + i \in Ends(a \o u)
            BY <1>1, <1>5, <1>6
        <3> HIDE DEF i
        <3>2. i \in Ends(u)
            BY <1>4, <3>1 DEF Joins
        <3> QED
            BY <1>1, <1>5, <3>1, <3>2
    <2> QED
        BY <1>1, <1>5, <1>6, <2>1, <2>2
<1>8. SubSeq(a \o u, L + LastEnd(u) + 1, L + Len(u)) = SubSeq(u, LastEnd(u) + 1, Len(u))
    <2>1. \A i \in 1..Len(u) : (a \o u)[L + i] = u[i]
        BY SMTT(30), <1>1, <1>2 DEF L
    <2> DEFINE e == LastEnd(u)
               v == a \o u
    <2>2. e \in 0..Len(u) /\ v \in Seq(Pieces) /\ Len(v) = L + Len(u)
        BY <1>3, <1>5
    <2>3. \A i \in 1..Len(u) : v[L + i] = u[i]
        BY <2>1
    <2> HIDE DEF e, v
    <2>4. SubSeq(v, L + e + 1, L + Len(u)) = SubSeq(u, e + 1, Len(u))
        <3> DEFINE x == SubSeq(v, L + e + 1, L + Len(u))
                   y == SubSeq(u, e + 1, Len(u))
        <3>1. /\ x \in Seq(Pieces) /\ Len(x) = Len(u) - e
              /\ \A i \in 1..(Len(u) - e) : x[i] = v[L + (e + i)]
            <4> DEFINE p == L + e + 1
                       q == L + Len(u)
            <4>0. L \in Nat /\ Len(u) \in Nat /\ e \in 0..Len(u)
                BY <1>1, <1>5, <2>2
            <4>1. p \in Int /\ q \in Int /\ q - p + 1 = Len(u) - e /\ p \in 1..(q + 1)
                BY <4>0
            <4>2. \A i \in 1..(Len(u) - e) : p + i - 1 = L + (e + i)
                BY <4>0
            <4> HIDE DEF p
            <4>3. \A i \in p..q : v[i] \in Pieces
                BY <2>2, <4>1
            <4> HIDE DEF q
            <4>4. /\ SubSeq(v, p, q) \in Seq(Pieces)
                  /\ Len(SubSeq(v, p, q)) = IF p <= q THEN q - p + 1 ELSE 0
                  /\ \A i \in 1..(q - p + 1) : SubSeq(v, p, q)[i] = v[p + i - 1]
                BY <4>1, <4>3, SubSeqProperties
            <4>5. Len(SubSeq(v, p, q)) = Len(u) - e
                BY <4>1, <4>4
            <4>6. \A i \in 1..(Len(u) - e) : SubSeq(v, p, q)[i] = v[L + (e + i)]
                BY <4>1, <4>2, <4>4
            <4> QED
                BY <4>4, <4>5, <4>6 DEF p, q
        <3>2. /\ y \in Seq(Pieces) /\ Len(y) = Len(u) - e
              /\ \A i \in 1..(Len(u) - e) : y[i] = u[e + i]
            BY <1>2, <1>5, <2>2
        <3> HIDE DEF x, y
        <3>3. \A i \in 1..(Len(u) - e) : x[i] = y[i]
            <4> SUFFICES ASSUME NEW i \in 1..(Len(u) - e) PROVE x[i] = y[i]
                OBVIOUS
            <4>1. e + i \in 1..Len(u)
                BY <1>5, <2>2
            <4> QED
                BY <2>3, <3>1, <3>2, <4>1
        <3>4. x = y
            BY <3>1, <3>2, <3>3, SeqEqual
        <3> QED
            BY <3>4 DEF x, y
    <2> QED
        BY <2>4 DEF e, v
<1>9. Rest(a \o u) = Rest(u)
    <2>1. Rest(a \o u) = SubSeq(a \o u, L + LastEnd(u) + 1, L + Len(u))
        BY <1>3, <1>7 DEF Rest, L
    <2> QED
        BY <1>8, <2>1 DEF Rest
<1> QED
    BY <1>2, <1>9 DEF u, r

\* A whole line is read as that line, and nothing is left.
LEMMA WholeLine ==
    ASSUME NEW l \in LineShapes
    PROVE  /\ Parts(l, 3) \in Seq(Pieces)
           /\ Split(Parts(l, 3)) = <<l>> /\ Rest(Parts(l, 3)) = <<>>
<1> DEFINE s == Parts(l, 3)
<1>1. s \in Seq(Pieces) /\ Len(s) = 3 /\ \A i \in 1..3 : s[i].line = l /\ s[i].part = i
    BY DEF Parts, Pieces
<1> HIDE DEF s
<1>2. Ends(s) = {3}
    BY <1>1 DEF Ends
<1>3. Cardinality(Ends(s)) = 1 /\ 1 \in 1..Cardinality(Ends(s))
    <2>1. Cardinality(Ends(s)) = 1
        BY <1>2, FS_Singleton
    <2> QED
        BY <2>1
<1>4. Nth(Ends(s), 1) = 3
    <2>1. Nth(Ends(s), 1) \in Ends(s)
        <3>1. Ends(s) \in SUBSET (1..Len(s)) /\ Len(s) \in Nat
            BY <1>1, EndsTyped
        <3> QED
            BY <1>3, <3>1, NthIs
    <2> QED
        BY <1>2, <2>1
<1>5. /\ Split(s) \in Seq(LineShapes) /\ Len(Split(s)) = 1
      /\ Split(s)[1] = Line(SubSeq(s, Start(Ends(s), 1), Nth(Ends(s), 1) - 1))
    BY <1>1, <1>3, SplitTyped
<1>6. SubSeq(s, Start(Ends(s), 1), Nth(Ends(s), 1) - 1) = SubSeq(s, 1, 2)
    BY <1>4 DEF Start
<1>7. Line(SubSeq(s, 1, 2)) = l
    <2> DEFINE x == SubSeq(s, 1, 2)
    <2>1. x \in Seq(Pieces) /\ Len(x) = 2 /\ x[1] = s[1] /\ x # <<>>
        <3>1. \A i \in 1..3 : s[i] \in Pieces
            <4>1. s \in Seq(Pieces) /\ Len(s) = 3
                BY <1>1
            <4> QED
                BY <4>1, ElementOfSeq
        <3>2. x \in Seq(Pieces) /\ Len(x) = 2 /\ x[1] = s[1]
            BY <1>1, <3>1
        <3> HIDE DEF x
        <3>3. x # <<>>
            BY <3>2, EmptySeq
        <3> QED
            BY <3>2, <3>3
    <2> HIDE DEF x
    <2>2. Line(x) = l
        BY <1>1, <2>1 DEF Line
    <2> QED
        BY <2>2 DEF x
<1>8. Split(s) = <<l>>
    <2>1. <<l>> \in Seq(LineShapes) /\ Len(<<l>>) = 1 /\ <<l>>[1] = l
        OBVIOUS
    <2>2. Split(s)[1] = l
        BY <1>5, <1>6, <1>7
    <2>3. \A i \in 1..1 : Split(s)[i] = <<l>>[i]
        BY <2>1, <2>2
    <2> QED
        BY <1>5, <2>1, <2>3, SeqEqual
<1>9. Rest(s) = <<>>
    <2>1. LastEnd(s) = 3
        <3>1. LastEnd(s) # 0 /\ LastEnd(s) \in Ends(s)
            BY <1>1, <1>2, LastEndIs
        <3> QED
            BY <1>2, <3>1
    <2> QED
        BY <1>1, <2>1, SubSeqEmpty DEF Rest
<1> QED
    BY <1>1, <1>8, <1>9 DEF s

\* A line that is cut off has no end.
LEMMA CutLine ==
    ASSUME NEW l \in LineShapes, NEW n \in 1..2
    PROVE  Parts(l, n) \in Seq(Pieces) /\ Len(Parts(l, n)) = n /\ Ends(Parts(l, n)) = {}
<1> DEFINE s == Parts(l, n)
<1>1. s \in Seq(Pieces) /\ Len(s) = n /\ \A i \in 1..n : s[i].part = i
    BY DEF Parts, Pieces
<1> HIDE DEF s
<1>2. Ends(s) = {}
    BY <1>1 DEF Ends
<1> QED
    BY <1>1, <1>2 DEF s

\* Nothing to split.
LEMMA SplitEmpty ==
    /\ <<>> \in Seq(Pieces) /\ Ends(<<>>) = {}
    /\ Split(<<>>) = <<>> /\ Rest(<<>>) = <<>>
<1>1. <<>> \in Seq(Pieces) /\ Len(<<>>) = 0
    BY EmptySeq
<1>2. Ends(<<>>) = {}
    <2>1. Ends(<<>>) \in SUBSET (1..Len(<<>>))
        BY <1>1, EndsTyped
    <2>2. 1..0 = {}
        OBVIOUS
    <2> QED
        BY <1>1, <2>1, <2>2
<1>3. Split(<<>>) = <<>>
    BY <1>1, <1>2, SplitNone
<1>4. LastEnd(<<>>) = 0
    BY <1>1, <1>2, LastEndIs
<1>5. Rest(<<>>) = <<>>
    BY <1>1, <1>4, SubSeqEmpty DEF Rest
<1> QED
    BY <1>1, <1>2, <1>3, <1>5

----------------------------------------------------------------------------
(* Merging fragments one after the other.                                  *)

Entries == [index : Nat, id : Strings \cup {Absent}, name : Strings \cup {Absent},
            args : Seq(Strings)]

MergeAll(es, fs) == FoldLeft(Merge, es, fs)

\* g is the function by which FoldLeft merges the first n of fs.
Merges(g, es, fs, n) ==
    g = [S \in SUBSET (1..n) |->
           IF S = {} THEN es ELSE Merge(g[S \ {Max(S)}], fs[Max(S)])]

\* The greatest of some places.
LEMMA GreatestPlace ==
    ASSUME NEW m \in Nat, NEW S \in SUBSET (1..m), S # {}
    PROVE  /\ Max(S) \in S /\ Max(S) \in 1..m
           /\ S \ {Max(S)} \in SUBSET (1..(Max(S) - 1))
           /\ m \in S => Max(S) = m
<1>1. Max(S) \in S /\ \A i \in S : i <= Max(S)
    BY MaxOfPlaces
<1>2. Max(S) \in 1..m
    BY <1>1
<1>3. \A i \in S \ {Max(S)} : i \in 1..(Max(S) - 1)
    <2> SUFFICES ASSUME NEW i \in S, i # Max(S) PROVE i \in 1..(Max(S) - 1)
        OBVIOUS
    <2>1. i \in 1..m /\ i <= Max(S)
        BY <1>1
    <2> QED
        BY <1>2, <2>1
<1>4. m \in S => Max(S) = m
    BY <1>1, <1>2
<1> QED
    BY <1>1, <1>2, <1>3, <1>4

\* There is one for any number.
LEMMA MergesExists ==
    ASSUME NEW es, NEW fs, NEW n \in Nat
    PROVE  \E g : Merges(g, es, fs, n)
<1> DEFINE fails == {m \in 0..n : ~(\E g : Merges(g, es, fs, m))}
<1>1. \E g : Merges(g, es, fs, 0)
    <2> DEFINE g == [S \in SUBSET (1..0) |-> es]
    <2>1. \A S \in SUBSET (1..0) : S = {}
        OBVIOUS
    <2>2. Merges(g, es, fs, 0)
        BY <2>1 DEF Merges
    <2> QED
        BY <2>2
<1>2. ASSUME NEW m \in 1..n, \E g : Merges(g, es, fs, m - 1) PROVE \E g : Merges(g, es, fs, m)
    <2>1. PICK g : Merges(g, es, fs, m - 1)
        BY <1>2
    <2> DEFINE h == [S \in SUBSET (1..m) |-> IF m \in S THEN Merge(g[S \ {m}], fs[m]) ELSE g[S]]
               Value(S) == IF S = {} THEN es ELSE Merge(h[S \ {Max(S)}], fs[Max(S)])
    <2>2. \A S \in SUBSET (1..(m - 1)) :
            g[S] = IF S = {} THEN es ELSE Merge(g[S \ {Max(S)}], fs[Max(S)])
        BY <2>1 DEF Merges
    <2>3. \A S \in SUBSET (1..(m - 1)) : S \in SUBSET (1..m) /\ m \notin S
        OBVIOUS
    <2>4. \A S \in SUBSET (1..(m - 1)) : h[S] = g[S]
        BY <2>3
    <2>5. ASSUME NEW S \in SUBSET (1..m) PROVE h[S] = Value(S)
        <3>1. CASE m \in S
            <4>1. Max(S) = m /\ S \ {m} \in SUBSET (1..(m - 1)) /\ S # {}
                BY <3>1, GreatestPlace
            <4>2. h[S \ {m}] = g[S \ {m}]
                BY <2>4, <4>1
            <4>3. h[S] = Merge(g[S \ {m}], fs[m])
                BY <3>1
            <4> HIDE DEF h
            <4> QED
                BY <4>1, <4>2, <4>3
        <3>2. CASE m \notin S
            <4>1. S \in SUBSET (1..(m - 1))
                <5>1. \A i \in S : i \in 1..(m - 1)
                    BY <3>2
                <5> QED
                    BY <5>1
            <4>2. h[S] = g[S] /\ S \ {Max(S)} \in SUBSET (1..(m - 1))
                BY <2>4, <4>1
            <4>3. h[S \ {Max(S)}] = g[S \ {Max(S)}]
                BY <2>4, <4>2
            <4> HIDE DEF h
            <4> QED
                BY <2>2, <4>1, <4>2, <4>3
        <3> QED
            BY <3>1, <3>2
    <2>6. h = [S \in SUBSET (1..m) |-> Value(S)]
        BY <2>5
    <2>7. Merges(h, es, fs, m)
        <3> HIDE DEF h
        <3> QED
            BY <2>6 DEF Merges
    <2> HIDE DEF h
    <2> QED
        BY <2>7
<1>3. ASSUME fails # {} PROVE FALSE
    <2>1. fails \in SUBSET Nat
        OBVIOUS
    <2>2. PICK m \in fails : \A x \in fails : m <= x
        BY <1>3, <2>1, LeastNatural
    <2>3. m \in 1..n
        BY <1>1, <2>2
    <2>4. m - 1 \notin fails
        BY <2>2, <2>3
    <2>5. \E g : Merges(g, es, fs, m - 1)
        BY <2>3, <2>4
    <2> QED
        BY <1>2, <2>2, <2>3, <2>5
<1> QED
    BY <1>3

SameMerges(g, h, n) == \A S \in SUBSET (1..n) : g[S] = h[S]

\* Where two agree in what they merge, they agree in what it gives.
LEMMA MergesAgree ==
    ASSUME NEW es, NEW fs, NEW gs, NEW n \in Nat, NEW m \in Nat, n <= m, SameFirst(fs, gs, n),
           NEW g, NEW h, Merges(g, es, fs, n), Merges(h, es, gs, m)
    PROVE  SameMerges(g, h, n)
<1> DEFINE fails == {j \in 0..n : ~SameMerges(g, h, j)}
<1>1. \A S \in SUBSET (1..n) :
        g[S] = IF S = {} THEN es ELSE Merge(g[S \ {Max(S)}], fs[Max(S)])
    BY DEF Merges
<1>2. \A S \in SUBSET (1..n) :
        h[S] = IF S = {} THEN es ELSE Merge(h[S \ {Max(S)}], gs[Max(S)])
    <2>1. \A S \in SUBSET (1..n) : S \in SUBSET (1..m)
        OBVIOUS
    <2> QED
        BY <2>1 DEF Merges
<1>3. ASSUME fails # {} PROVE FALSE
    <2>1. fails \in SUBSET Nat
        OBVIOUS
    <2>2. PICK j \in fails : \A x \in fails : j <= x
        BY <1>3, <2>1, LeastNatural
    <2>3. PICK S \in SUBSET (1..j) : g[S] # h[S]
        BY <2>2 DEF SameMerges
    <2>4. j \in 0..n /\ S \in SUBSET (1..n)
        BY <2>2, <2>3
    <2>5. S # {}
        BY <1>1, <1>2, <2>3, <2>4
    <2>6. Max(S) \in 1..j /\ S \ {Max(S)} \in SUBSET (1..(Max(S) - 1))
        BY <2>3, <2>4, <2>5, GreatestPlace
    <2>7. j - 1 \in 0..n /\ S \ {Max(S)} \in SUBSET (1..(j - 1))
        BY <2>4, <2>6
    <2>8. j - 1 \notin fails
        BY <2>2, <2>4, <2>7
    <2>9. SameMerges(g, h, j - 1)
        BY <2>7, <2>8
    <2>10. g[S \ {Max(S)}] = h[S \ {Max(S)}]
        BY <2>7, <2>9 DEF SameMerges
    <2>11. fs[Max(S)] = gs[Max(S)]
        BY <2>4, <2>6 DEF SameFirst
    <2> QED
        BY <1>1, <1>2, <2>3, <2>4, <2>5, <2>10, <2>11
<1>4. n \in 0..n
    OBVIOUS
<1> QED
    BY <1>3, <1>4

\* FoldLeft is the last value of such a function.
LEMMA MergeAllIs ==
    ASSUME NEW es, NEW fs \in Seq(CallShapes)
    PROVE  \E g : Merges(g, es, fs, Len(fs)) /\ MergeAll(es, fs) = g[1..Len(fs)]
<1> DEFINE n == Len(fs)
           iter == CHOOSE iter : iter = [s \in SUBSET (1..n) |->
                     IF s = {} THEN es ELSE Merge(iter[s \ {Max(s)}], fs[Max(s)])]
<1>1. n \in Nat /\ DOMAIN fs = 1..n
    OBVIOUS
<1>2. \E g : Merges(g, es, fs, n)
    BY <1>1, MergesExists
<1>3. Merges(iter, es, fs, n)
    BY <1>2 DEF Merges
<1>4. MergeAll(es, fs) = iter[1..n]
    BY <1>1, Zenon DEF MergeAll, FoldLeft, MapThenFoldSet
<1> QED
    BY <1>3, <1>4

\* Without a fragment nothing changes.
LEMMA MergeNone ==
    ASSUME NEW es
    PROVE  MergeAll(es, <<>>) = es
<1>1. PICK g : Merges(g, es, <<>>, Len(<<>>)) /\ MergeAll(es, <<>>) = g[1..Len(<<>>)]
    BY EmptySeq, MergeAllIs
<1>2. Len(<<>>) = 0 /\ 1..0 = {} /\ {} \in SUBSET (1..0)
    OBVIOUS
<1> QED
    BY <1>1, <1>2 DEF Merges

\* A fragment more is merged last.
LEMMA MergeAppend ==
    ASSUME NEW es, NEW fs \in Seq(CallShapes), NEW f \in CallShapes
    PROVE  MergeAll(es, Append(fs, f)) = Merge(MergeAll(es, fs), f)
<1> DEFINE gs == Append(fs, f)
           n == Len(fs)
<1>1. gs \in Seq(CallShapes) /\ Len(gs) = n + 1 /\ gs[n + 1] = f /\ n \in Nat
      /\ \A i \in 1..n : fs[i] = gs[i]
    BY AppendProperties
<1> HIDE DEF gs
<1>2. PICK g : Merges(g, es, fs, n) /\ MergeAll(es, fs) = g[1..n]
    BY MergeAllIs
<1>3. PICK h : Merges(h, es, gs, n + 1) /\ MergeAll(es, gs) = h[1..(n + 1)]
    BY <1>1, MergeAllIs
<1> HIDE DEF n
<1>4. SameMerges(g, h, n)
    <2>1. SameFirst(fs, gs, n)
        BY <1>1 DEF SameFirst
    <2>2. n + 1 \in Nat /\ n <= n + 1
        BY <1>1
    <2> QED
        BY <1>1, <1>2, <1>3, <2>1, <2>2, MergesAgree
<1>5. h[1..n] = g[1..n]
    BY <1>4 DEF SameMerges
<1>6. Max(1..(n + 1)) = n + 1 /\ 1..(n + 1) # {} /\ (1..(n + 1)) \ {n + 1} = 1..n
    <2>1. n + 1 \in 1..(n + 1) /\ n + 1 \in Nat
        BY <1>1
    <2>2. Max(1..(n + 1)) = n + 1
        <3> DEFINE S == 1..(n + 1)
        <3>1. S \in SUBSET (1..(n + 1)) /\ S # {} /\ n + 1 \in S
            BY <2>1
        <3> HIDE DEF S
        <3>2. Max(S) = n + 1
            BY <2>1, <3>1, GreatestPlace
        <3> QED
            BY <3>2 DEF S
    <2>3. (1..(n + 1)) \ {n + 1} = 1..n
        BY <1>1
    <2> QED
        BY <2>1, <2>2, <2>3
<1>7. h[1..(n + 1)] = Merge(h[1..n], gs[n + 1])
    <2>1. 1..(n + 1) \in SUBSET (1..(n + 1))
        OBVIOUS
    <2> QED
        BY <1>3, <1>6, <2>1 DEF Merges
<1> QED
    BY <1>1, <1>2, <1>3, <1>5, <1>7 DEF gs

\* Merging keeps entries entries.
LEMMA MergeTyped ==
    ASSUME NEW es \in Seq(Entries), NEW f \in CallShapes
    PROVE  Merge(es, f) \in Seq(Entries)
<1> DEFINE i == Index(es, f)
           at == {n \in DOMAIN es : es[n].index = i}
           cur == IF at = {} THEN Empty(i) ELSE es[CHOOSE n \in at : TRUE]
           next == [index |-> i, id |-> Kept(Or(f.id, cur.id)), name |-> Kept(Or(f.name, cur.name)),
                    args |-> cur.args \o f.args]
<1>1. i \in Nat
    <2>1. f.index \in Nat \cup {Absent} /\ Len(es) \in Nat
        BY DEF CallShapes
    <2> QED
        BY <2>1 DEF Index, Or
<1>2. Merge(es, f) =
        IF at = {} THEN Append(es, next) ELSE [n \in DOMAIN es |-> IF n \in at THEN next ELSE es[n]]
    BY DEF Merge
<1>3. at \subseteq DOMAIN es
    OBVIOUS
<1> HIDE DEF i, at
<1>4. cur \in Entries
    <2>1. Empty(i) \in Entries
        BY <1>1, EmptySeq DEF Empty, Entries
    <2>2. at # {} => (CHOOSE n \in at : TRUE) \in DOMAIN es
        BY <1>3
    <2>3. \A n \in DOMAIN es : es[n] \in Entries
        OBVIOUS
    <2> QED
        BY <2>1, <2>2, <2>3
<1> HIDE DEF cur
<1>5. next \in Entries
    <2>1. /\ f.id \in Strings \cup {Absent} /\ f.name \in Strings \cup {Absent}
          /\ f.args \in Seq(Strings)
        BY DEF CallShapes
    <2>2. /\ cur.id \in Strings \cup {Absent} /\ cur.name \in Strings \cup {Absent}
          /\ cur.args \in Seq(Strings)
        BY <1>4 DEF Entries
    <2>3. cur.args \o f.args \in Seq(Strings)
        BY <2>1, <2>2, ConcatProperties
    <2> QED
        BY <1>1, <2>1, <2>2, <2>3 DEF Entries, Or, Kept
<1> HIDE DEF next
<1>6. Append(es, next) \in Seq(Entries)
    BY <1>5, AppendProperties
<1>7. [n \in DOMAIN es |-> IF n \in at THEN next ELSE es[n]] \in Seq(Entries)
    BY <1>5
<1> QED
    BY <1>2, <1>6, <1>7

\* So does merging many.
LEMMA MergeAllTyped ==
    ASSUME NEW es \in Seq(Entries), NEW fs \in Seq(CallShapes)
    PROVE  MergeAll(es, fs) \in Seq(Entries)
<1> DEFINE fails == {m \in 0..Len(fs) : MergeAll(es, SubSeq(fs, 1, m)) \notin Seq(Entries)}
<1>1. MergeAll(es, SubSeq(fs, 1, 0)) \in Seq(Entries)
    <2>1. SubSeq(fs, 1, 0) = <<>>
        BY SubSeqEmpty
    <2> QED
        BY <2>1, MergeNone
<1>2. ASSUME fails # {} PROVE FALSE
    <2>1. fails \in SUBSET Nat
        OBVIOUS
    <2>2. PICK m \in fails : \A x \in fails : m <= x
        BY <1>2, <2>1, LeastNatural
    <2>3. m \in 1..Len(fs)
        BY <1>1, <2>2
    <2>4. m - 1 \notin fails
        BY <2>2, <2>3
    <2>5. MergeAll(es, SubSeq(fs, 1, m - 1)) \in Seq(Entries)
        BY <2>3, <2>4
    <2>6. /\ SubSeq(fs, 1, m - 1) \in Seq(CallShapes)
          /\ SubSeq(fs, 1, m) = Append(SubSeq(fs, 1, m - 1), fs[m]) /\ fs[m] \in CallShapes
        BY <2>3, FirstsAndOne
    <2>7. MergeAll(es, SubSeq(fs, 1, m)) = Merge(MergeAll(es, SubSeq(fs, 1, m - 1)), fs[m])
        BY <2>6, MergeAppend
    <2> QED
        BY <2>2, <2>5, <2>6, <2>7, MergeTyped
<1>3. SubSeq(fs, 1, Len(fs)) = fs /\ Len(fs) \in 0..Len(fs)
    BY SubSeqFull
<1> QED
    BY <1>2, <1>3

\* Fragments can be merged in two steps.
LEMMA MergeJoin ==
    ASSUME NEW es, NEW fs \in Seq(CallShapes), NEW gs \in Seq(CallShapes)
    PROVE  MergeAll(es, fs \o gs) = MergeAll(MergeAll(es, fs), gs)
<1> DEFINE Holds(m) == MergeAll(es, fs \o SubSeq(gs, 1, m)) =
                         MergeAll(MergeAll(es, fs), SubSeq(gs, 1, m))
           fails == {m \in 0..Len(gs) : ~Holds(m)}
<1>1. Holds(0)
    <2>1. SubSeq(gs, 1, 0) = <<>> /\ fs \o <<>> = fs
        BY SubSeqEmpty, ConcatEmptySeq
    <2> QED
        BY <2>1, MergeNone
<1>2. ASSUME fails # {} PROVE FALSE
    <2> HIDE DEF Holds
    <2>1. fails \in SUBSET Nat
        OBVIOUS
    <2>2. PICK m \in fails : \A x \in fails : m <= x
        BY <1>2, <2>1, LeastNatural
    <2>3. m \in 1..Len(gs)
        BY <1>1, <2>2
    <2>4. m - 1 \notin fails
        BY <2>2, <2>3
    <2>5. Holds(m - 1)
        BY <2>3, <2>4
    <2> DEFINE hs == SubSeq(gs, 1, m - 1)
    <2>6. hs \in Seq(CallShapes) /\ SubSeq(gs, 1, m) = Append(hs, gs[m]) /\ gs[m] \in CallShapes
        BY <2>3, FirstsAndOne
    <2>7. MergeAll(es, fs \o hs) = MergeAll(MergeAll(es, fs), hs)
        BY <2>5 DEF Holds
    <2> HIDE DEF hs
    <2>8. fs \o Append(hs, gs[m]) = Append(fs \o hs, gs[m]) /\ fs \o hs \in Seq(CallShapes)
        BY <2>6
    <2>9. MergeAll(es, fs \o Append(hs, gs[m])) = Merge(MergeAll(es, fs \o hs), gs[m])
        BY <2>6, <2>8, MergeAppend
    <2>10. MergeAll(MergeAll(es, fs), Append(hs, gs[m])) = Merge(MergeAll(MergeAll(es, fs), hs), gs[m])
        BY <2>6, MergeAppend
    <2>11. Holds(m)
        BY <2>6, <2>7, <2>9, <2>10 DEF Holds
    <2> QED
        BY <2>2, <2>11
<1>3. SubSeq(gs, 1, Len(gs)) = gs /\ Len(gs) \in 0..Len(gs)
    BY SubSeqFull
<1>4. Holds(Len(gs))
    BY <1>2, <1>3
<1> QED
    BY <1>3, <1>4

----------------------------------------------------------------------------
(* The slots of fragments.                                                 *)

\* f is the function that Slots defines for the first n fragments.
SlotsOf(f, fs, n) ==
    f = [k \in 1..n |-> IF fs[k].index # Absent THEN fs[k].index
                        ELSE Cardinality({f[m] : m \in 1..(k - 1)})]

\* There is one for any number.
LEMMA SlotsExists ==
    ASSUME NEW fs, NEW n \in Nat
    PROVE  \E f : SlotsOf(f, fs, n)
<1> DEFINE fails == {m \in 0..n : ~(\E f : SlotsOf(f, fs, m))}
<1>1. \E f : SlotsOf(f, fs, 0)
    <2> DEFINE f == [i \in 1..0 |-> 0]
    <2>1. 1..0 = {}
        OBVIOUS
    <2>2. SlotsOf(f, fs, 0)
        BY <2>1 DEF SlotsOf
    <2> QED
        BY <2>2
<1>2. ASSUME NEW m \in 1..n, \E f : SlotsOf(f, fs, m - 1) PROVE \E f : SlotsOf(f, fs, m)
    <2>1. PICK f : SlotsOf(f, fs, m - 1)
        BY <1>2
    <2> DEFINE Seen(g, k) == {g[x] : x \in 1..(k - 1)}
               Value(g, k) == IF fs[k].index # Absent THEN fs[k].index ELSE Cardinality(Seen(g, k))
               g == [k \in 1..m |-> IF k = m THEN Value(f, k) ELSE f[k]]
    <2>2. \A k \in 1..(m - 1) : f[k] = Value(f, k)
        BY <2>1 DEF SlotsOf
    <2>3. \A k \in 1..(m - 1) : k \in 1..m /\ k # m
        OBVIOUS
    <2>4. \A k \in 1..(m - 1) : g[k] = f[k]
        BY <2>3
    <2>5. g[m] = Value(f, m)
        OBVIOUS
    <2>6. DOMAIN g = 1..m /\ g = [k \in 1..m |-> g[k]]
        OBVIOUS
    <2> HIDE DEF g
    <2>7. ASSUME NEW k \in 1..m PROVE g[k] = Value(g, k)
        <3>1. \A x \in 1..(k - 1) : x \in 1..(m - 1)
            OBVIOUS
        <3>2. \A x \in 1..(k - 1) : g[x] = f[x]
            BY <2>4, <3>1
        <3>3. Seen(g, k) = Seen(f, k)
            BY <3>2
        <3>4. g[k] = Value(f, k)
            <4>1. CASE k = m
                BY <2>5, <4>1
            <4>2. CASE k # m
                <5>1. k \in 1..(m - 1)
                    BY <4>2
                <5> QED
                    BY <2>2, <2>4, <5>1
            <4> QED
                BY <4>1, <4>2
        <3> HIDE DEF Seen
        <3> QED
            BY <3>3, <3>4
    <2>8. g = [k \in 1..m |-> Value(g, k)]
        <3> HIDE DEF Value
        <3> QED
            BY <2>6, <2>7
    <2>9. SlotsOf(g, fs, m)
        BY <2>8 DEF SlotsOf
    <2> QED
        BY <2>9
<1>3. ASSUME fails # {} PROVE FALSE
    <2>1. fails \in SUBSET Nat
        OBVIOUS
    <2>2. PICK m \in fails : \A x \in fails : m <= x
        BY <1>3, <2>1, LeastNatural
    <2>3. m \in 1..n
        BY <1>1, <2>2
    <2>4. m - 1 \notin fails
        BY <2>2, <2>3
    <2>5. \E f : SlotsOf(f, fs, m - 1)
        BY <2>3, <2>4
    <2> QED
        BY <1>2, <2>2, <2>3, <2>5
<1> QED
    BY <1>3

\* What Slots computes.
LEMMA SlotsIs ==
    ASSUME NEW fs \in Seq(CallShapes)
    PROVE  SlotsOf(Slots(fs), fs, Len(fs))
<1>1. Len(fs) \in Nat /\ DOMAIN fs = 1..Len(fs)
    OBVIOUS
<1>2. \E f : SlotsOf(f, fs, Len(fs))
    BY <1>1, SlotsExists
<1> DEFINE slot == CHOOSE slot : slot = [n \in 1..Len(fs) |->
                     IF fs[n].index # Absent THEN fs[n].index
                     ELSE Cardinality({slot[m] : m \in 1..(n - 1)})]
<1>3. SlotsOf(slot, fs, Len(fs))
    BY <1>2 DEF SlotsOf
<1>4. Slots(fs) = slot
    BY <1>1, Zenon DEF Slots
<1> QED
    BY <1>3, <1>4

SlotsBefore(slots, n) == {slots[m] : m \in 1..n}

\* A fragment more gets a slot, and leaves the slots of the others.
LEMMA SlotsAppend ==
    ASSUME NEW fs \in Seq(CallShapes), NEW f \in CallShapes
    PROVE  /\ DOMAIN Slots(fs) = 1..Len(fs)
           /\ DOMAIN Slots(Append(fs, f)) = 1..(Len(fs) + 1)
           /\ \A k \in 1..Len(fs) : Slots(Append(fs, f))[k] = Slots(fs)[k]
           /\ Slots(Append(fs, f))[Len(fs) + 1] =
                Or(f.index, Cardinality(SlotsBefore(Slots(fs), Len(fs))))
<1> DEFINE gs == Append(fs, f)
           n == Len(fs)
           s == Slots(fs)
           t == Slots(gs)
           Seen(g, k) == {g[m] : m \in 1..(k - 1)}
<1>1. gs \in Seq(CallShapes) /\ Len(gs) = n + 1 /\ gs[n + 1] = f /\ n \in Nat
      /\ \A i \in 1..n : gs[i] = fs[i]
    BY AppendProperties
<1> HIDE DEF gs
<1>2. SlotsOf(s, fs, n) /\ SlotsOf(t, gs, n + 1)
    BY <1>1, SlotsIs
<1> HIDE DEF n, s, t
<1>3. /\ DOMAIN s = 1..n /\ DOMAIN t = 1..(n + 1)
      /\ \A k \in 1..n : s[k] = IF fs[k].index # Absent THEN fs[k].index ELSE Cardinality(Seen(s, k))
      /\ \A k \in 1..(n + 1) :
           t[k] = IF gs[k].index # Absent THEN gs[k].index ELSE Cardinality(Seen(t, k))
    BY <1>2 DEF SlotsOf
<1> DEFINE fails == {k \in 1..n : t[k] # s[k]}
<1>4. ASSUME fails # {} PROVE FALSE
    <2>1. fails \in SUBSET Nat
        BY <1>1
    <2>2. PICK k \in fails : \A x \in fails : k <= x
        BY <1>4, <2>1, LeastNatural
    <2>3. k \in 1..n /\ k \in 1..(n + 1)
        BY <1>1, <2>2
    <2>4. \A x \in 1..(k - 1) : t[x] = s[x]
        BY <1>1, <2>2, <2>3
    <2>5. Seen(t, k) = Seen(s, k)
        BY <2>4
    <2>6. gs[k] = fs[k]
        BY <1>1, <2>3
    <2> HIDE DEF Seen
    <2>7. t[k] = s[k]
        BY <1>3, <2>3, <2>5, <2>6
    <2> QED
        BY <2>2, <2>7
<1>5. \A k \in 1..n : t[k] = s[k]
    BY <1>4
<1>6. Seen(t, n + 1) = SlotsBefore(s, n)
    <2>1. (n + 1) - 1 = n
        BY <1>1
    <2> QED
        BY <1>5, <2>1 DEF SlotsBefore
<1>7. t[n + 1] = Or(f.index, Cardinality(SlotsBefore(s, n)))
    <2>1. n + 1 \in 1..(n + 1)
        BY <1>1
    <2> HIDE DEF Seen
    <2> QED
        BY <1>1, <1>3, <1>6, <2>1 DEF Or
<1> QED
    BY <1>3, <1>5, <1>7 DEF gs, n, s, t

----------------------------------------------------------------------------
(* What is said at some places, and at one more.                           *)

\* The place of one element.
LEMMA OnePlace ==
    ASSUME NEW S, NEW x \in S
    PROVE  Chosen(<<x>>, {1}) = <<x>>
<1> DEFINE s == <<x>>
<1>1. s \in Seq(S) /\ Len(s) = 1 /\ s[1] = x /\ DOMAIN s = 1..1
    OBVIOUS
<1>2. Cardinality({1}) = 1
    BY FS_Singleton
<1>3. Nth({1}, 1) = 1
    <2>1. {1} \in SUBSET (1..1) /\ 1 \in 1..Cardinality({1}) /\ 1 \in Nat
        BY <1>2
    <2>2. Nth({1}, 1) \in {1}
        BY <2>1, NthIs
    <2> QED
        BY <2>2
<1> HIDE DEF s
<1>4. Chosen(s, {1}) \in Seq(S) /\ Len(Chosen(s, {1})) = 1 /\ Chosen(s, {1})[1] = x
    <2>1. {1} \in SUBSET DOMAIN s /\ 1 \in 1..Cardinality({1})
        BY <1>1, <1>2
    <2> QED
        BY <1>1, <1>2, <1>3, <2>1, ChosenTyped
<1>5. \A i \in 1..1 : Chosen(s, {1})[i] = s[i]
    BY <1>1, <1>4
<1>6. Chosen(s, {1}) = s
    BY <1>1, <1>4, <1>5, SeqEqual
<1> QED
    BY <1>6 DEF s

\* An element more is chosen last, or not at all.
LEMMA ChosenAppend ==
    ASSUME NEW S, NEW s \in Seq(S), NEW x \in S, NEW T \in SUBSET (1..Len(s))
    PROVE  /\ Chosen(Append(s, x), T) = Chosen(s, T)
           /\ Chosen(Append(s, x), T \cup {Len(s) + 1}) = Append(Chosen(s, T), x)
<1>1. <<x>> \in Seq(S) /\ Len(<<x>>) = 1 /\ Append(s, x) = s \o <<x>> /\ Len(s) \in Nat
    BY AppendIsConcat
<1>2. Chosen(s, T) \in Seq(S)
    <2>1. T \in SUBSET DOMAIN s
        OBVIOUS
    <2> QED
        BY <2>1, ChosenTyped
<1> DEFINE u == <<x>>
           n == Len(s)
<1>3. u \in Seq(S) /\ Len(u) = 1 /\ n \in Nat /\ T \in SUBSET (1..n)
    BY <1>1
<1> HIDE DEF u, n
<1>4. Joins(T, n, T, Len(u), {})
    <2>1. T \in SUBSET (1..(n + 1)) /\ \A i \in 1..1 : n + i \notin T
        BY <1>3
    <2> QED
        BY <1>3, <2>1 DEF Joins
<1>5. Joins(T \cup {n + 1}, n, T, Len(u), {1})
    <2>1. T \cup {n + 1} \in SUBSET (1..(n + 1)) /\ \A i \in 1..1 : i = 1
        BY <1>3
    <2>2. \A i \in 1..n : i # n + 1
        BY <1>3
    <2> QED
        BY <1>3, <2>1, <2>2 DEF Joins
<1>6. /\ Chosen(s \o <<x>>, T) = Chosen(s, T) \o Chosen(<<x>>, {})
      /\ Chosen(s \o <<x>>, T \cup {Len(s) + 1}) = Chosen(s, T) \o Chosen(<<x>>, {1})
    <2>0. u \in Seq(S)
        BY <1>3
    <2>1. Chosen(s \o u, T) = Chosen(s, T) \o Chosen(u, {})
        <3> DEFINE W == {}
        <3>1. Joins(T, Len(s), T, Len(u), W)
            BY <1>4 DEF n
        <3> HIDE DEF W
        <3>2. Chosen(s \o u, T) = Chosen(s, T) \o Chosen(u, W)
            BY <2>0, <3>1, ChosenJoin
        <3> QED
            BY <3>2 DEF W
    <2>2. Chosen(s \o u, T \cup {n + 1}) = Chosen(s, T) \o Chosen(u, {1})
        <3> DEFINE W == {1}
                   U == T \cup {n + 1}
        <3>1. Joins(U, Len(s), T, Len(u), W)
            BY <1>5 DEF n
        <3> HIDE DEF U, W
        <3>2. Chosen(s \o u, U) = Chosen(s, T) \o Chosen(u, W)
            BY <2>0, <3>1, ChosenJoin
        <3> QED
            BY <3>2 DEF U, W
    <2> QED
        BY <2>1, <2>2 DEF u, n
<1>7. Chosen(<<x>>, {}) = <<>> /\ Chosen(<<x>>, {1}) = <<x>>
    BY ChosenNone, OnePlace
<1>8. Chosen(s, T) \o <<>> = Chosen(s, T) /\ Chosen(s, T) \o <<x>> = Append(Chosen(s, T), x)
    BY <1>2, ConcatEmptySeq, AppendIsConcat
<1> QED
    BY <1>1, <1>6, <1>7, <1>8

\* The last value given at some places, and at one more after them.
LEMMA LastGivenMore ==
    ASSUME NEW n \in Nat, NEW T \in SUBSET (1..n), NEW v, NEW w, SameFirst(v, w, n)
    PROVE  /\ LastGiven(w, T) = LastGiven(v, T)
           /\ LastGiven(w, T \cup {n + 1}) = Or(w[n + 1], LastGiven(v, T))
<1> DEFINE given == {m \in T : v[m] # Absent}
           more == {m \in T \cup {n + 1} : w[m] # Absent}
<1>1. {m \in T : w[m] # Absent} = given
    BY DEF SameFirst
<1>2. given \in SUBSET (1..n)
    OBVIOUS
<1>3. given # {} => Max(given) \in given
    BY <1>2, MaxOfPlaces
<1>4. given # {} => w[Max(given)] = v[Max(given)]
    BY <1>2, <1>3 DEF SameFirst
<1>5. LastGiven(v, T) = IF given = {} THEN Absent ELSE v[Max(given)]
    BY DEF LastGiven
<1>6. LastGiven(w, T) = IF given = {} THEN Absent ELSE w[Max(given)]
    BY <1>1 DEF LastGiven
<1>7. LastGiven(w, T \cup {n + 1}) = IF more = {} THEN Absent ELSE w[Max(more)]
    BY DEF LastGiven
<1>8. CASE w[n + 1] = Absent
    <2>1. more = given
        BY <1>1, <1>8
    <2> HIDE DEF given, more
    <2> QED
        BY <1>4, <1>5, <1>6, <1>7, <1>8, <2>1 DEF Or
<1>9. CASE w[n + 1] # Absent
    <2>1. n + 1 \in more /\ more \in SUBSET (1..(n + 1)) /\ n + 1 \in Nat
        <3>1. n + 1 \in more /\ n + 1 \in Nat
            BY <1>9
        <3>2. \A m \in more : m \in 1..(n + 1)
            OBVIOUS
        <3> HIDE DEF more
        <3> QED
            BY <3>1, <3>2
    <2> HIDE DEF given, more
    <2>2. more # {}
        BY <2>1
    <2>3. Max(more) = n + 1
        BY <2>1, <2>2, GreatestPlace
    <2> QED
        BY <1>4, <1>5, <1>6, <1>7, <1>9, <2>2, <2>3 DEF Or
<1> QED
    BY <1>8, <1>9

----------------------------------------------------------------------------
(* Merged entries and the meaning of fragments.                            *)

\* What the fragments of slot i say.
Entry(fs, slots, i) ==
    [index |-> i,
     id    |-> Kept(LastGiven(Ids(fs), Of(slots, i))),
     name  |-> Kept(LastGiven(Names(fs), Of(slots, i))),
     args  |-> FlattenSeq(Chosen(Args(fs), Of(slots, i)))]

\* es has the slots of fs in their order, each with what its fragments say.
Describes(es, fs) ==
    /\ es \in Seq(Entries)
    /\ Len(es) = Cardinality(Firsts(Slots(fs)))
    /\ \A k \in 1..Len(es) : es[k] = Entry(fs, Slots(fs), Slots(fs)[Nth(Firsts(Slots(fs)), k)])
    /\ \A m \in 1..Len(fs) : \E k \in 1..Len(es) : es[k].index = Slots(fs)[m]

\* A merged fragment changes what its slot says, and only that.
Joined(e, f, i) ==
    [index |-> i, id |-> Kept(Or(f.id, e.id)), name |-> Kept(Or(f.name, e.name)),
     args  |-> e.args \o f.args]

\* What was taken back stays so, and what is kept is kept again.
LEMMA KeptAgain == \A x, y : Kept(Or(x, Kept(y))) = Kept(Or(x, y))
BY DEF Kept, Or, Truthy

\* Fragments of a slot are places, and a fragment more is one of its slot only.
LEMMA OfAppend ==
    ASSUME NEW fs \in Seq(CallShapes), NEW f \in CallShapes, NEW i
    PROVE  /\ Of(Slots(fs), i) \in SUBSET (1..Len(fs))
           /\ Slots(Append(fs, f))[Len(fs) + 1] = i =>
                Of(Slots(Append(fs, f)), i) = Of(Slots(fs), i) \cup {Len(fs) + 1}
           /\ Slots(Append(fs, f))[Len(fs) + 1] # i =>
                Of(Slots(Append(fs, f)), i) = Of(Slots(fs), i)
<1> DEFINE n == Len(fs)
           s == Slots(fs)
           t == Slots(Append(fs, f))
<1>1. n \in Nat /\ DOMAIN s = 1..n /\ DOMAIN t = 1..(n + 1) /\ \A k \in 1..n : t[k] = s[k]
    BY SlotsAppend, LenProperties
<1> HIDE DEF n, s, t
<1>2. 1..(n + 1) = (1..n) \cup {n + 1} /\ n + 1 \notin 1..n
    BY <1>1
<1>3. Of(s, i) = {k \in 1..n : s[k] = i}
    BY <1>1 DEF Of
<1>4. Of(t, i) = {k \in (1..n) \cup {n + 1} : t[k] = i}
    BY <1>1, <1>2 DEF Of
<1>5. Of(s, i) \in SUBSET (1..n)
    BY <1>3
<1>6. t[n + 1] = i => Of(t, i) = Of(s, i) \cup {n + 1}
    BY <1>1, <1>3, <1>4
<1>7. t[n + 1] # i => Of(t, i) = Of(s, i)
    BY <1>1, <1>3, <1>4
<1> QED
    BY <1>5, <1>6, <1>7 DEF n, s, t

\* What fragments say, field by field.
LEMMA FieldsAppend ==
    ASSUME NEW fs \in Seq(CallShapes), NEW f \in CallShapes
    PROVE  /\ SameFirst(Ids(fs), Ids(Append(fs, f)), Len(fs))
           /\ SameFirst(Names(fs), Names(Append(fs, f)), Len(fs))
           /\ Ids(Append(fs, f))[Len(fs) + 1] = f.id
           /\ Names(Append(fs, f))[Len(fs) + 1] = f.name
           /\ Args(fs) \in Seq(Seq(Strings)) /\ Len(Args(fs)) = Len(fs)
           /\ f.args \in Seq(Strings)
           /\ Args(Append(fs, f)) = Append(Args(fs), f.args)
<1> DEFINE gs == Append(fs, f)
           n == Len(fs)
<1>1. /\ gs \in Seq(CallShapes) /\ DOMAIN gs = 1..(n + 1) /\ DOMAIN fs = 1..n /\ gs[n + 1] = f
      /\ n \in Nat /\ \A i \in 1..n : gs[i] = fs[i] /\ fs[i] \in CallShapes
    BY AppendProperties, ElementOfSeq
<1>2. 1..n \subseteq 1..(n + 1) /\ n + 1 \in 1..(n + 1)
    BY <1>1
<1>3. \A c \in CallShapes : c.args \in Seq(Strings)
    BY DEF CallShapes
<1> HIDE DEF gs
<1>4. /\ SameFirst(Ids(fs), Ids(gs), n) /\ SameFirst(Names(fs), Names(gs), n)
      /\ Ids(gs)[n + 1] = f.id /\ Names(gs)[n + 1] = f.name
    BY <1>1, <1>2 DEF SameFirst, Ids, Names
<1>5. Args(fs) \in [1..n -> Seq(Strings)] /\ f.args \in Seq(Strings)
    BY <1>1, <1>3 DEF Args
<1>6. Args(fs) \in Seq(Seq(Strings)) /\ Len(Args(fs)) = n
    BY <1>1, <1>5
<1>7. /\ Append(Args(fs), f.args) \in Seq(Seq(Strings))
      /\ Len(Append(Args(fs), f.args)) = n + 1
      /\ \A i \in 1..n : Append(Args(fs), f.args)[i] = Args(fs)[i]
      /\ Append(Args(fs), f.args)[n + 1] = f.args
    BY <1>5, <1>6, AppendProperties
<1>8. /\ Args(gs) \in Seq(Seq(Strings)) /\ Len(Args(gs)) = n + 1
      /\ \A i \in 1..(n + 1) : Args(gs)[i] = gs[i].args
    <2>1. Args(gs) = [i \in 1..(n + 1) |-> gs[i].args]
        BY <1>1 DEF Args
    <2>2. \A i \in 1..(n + 1) : gs[i] \in CallShapes
        BY <1>1
    <2>3. Args(gs) \in [1..(n + 1) -> Seq(Strings)]
        BY <1>3, <2>1, <2>2
    <2> QED
        BY <1>1, <2>1, <2>3
<1>9. \A i \in 1..n : Args(fs)[i] = fs[i].args
    BY <1>1 DEF Args
<1>10. \A i \in 1..(n + 1) : Args(gs)[i] = Append(Args(fs), f.args)[i]
    <2> SUFFICES ASSUME NEW i \in 1..(n + 1) PROVE Args(gs)[i] = Append(Args(fs), f.args)[i]
        OBVIOUS
    <2>1. CASE i = n + 1
        BY <1>1, <1>7, <1>8, <2>1
    <2>2. CASE i # n + 1
        <3>1. i \in 1..n
            BY <1>1, <2>2
        <3> QED
            BY <1>1, <1>2, <1>7, <1>8, <1>9, <3>1
    <2> QED
        BY <2>1, <2>2
<1>11. Args(gs) = Append(Args(fs), f.args)
    BY <1>7, <1>8, <1>10, SeqEqual
<1> QED
    BY <1>4, <1>5, <1>6, <1>11 DEF gs

\* What a slot says after one fragment more.
LEMMA EntryAppend ==
    ASSUME NEW fs \in Seq(CallShapes), NEW f \in CallShapes, NEW i
    PROVE  /\ Slots(Append(fs, f))[Len(fs) + 1] # i =>
                Entry(Append(fs, f), Slots(Append(fs, f)), i) = Entry(fs, Slots(fs), i)
           /\ Slots(Append(fs, f))[Len(fs) + 1] = i =>
                Entry(Append(fs, f), Slots(Append(fs, f)), i) = Joined(Entry(fs, Slots(fs), i), f, i)
<1> DEFINE gs == Append(fs, f)
           n == Len(fs)
           T == Of(Slots(fs), i)
           W == Of(Slots(gs), i)
           a == Args(fs)
           x == f.args
<1>1. n \in Nat /\ T \in SUBSET (1..n)
    BY OfAppend, LenProperties
<1>2. /\ LastGiven(Ids(gs), T) = LastGiven(Ids(fs), T)
      /\ LastGiven(Ids(gs), T \cup {n + 1}) = Or(Ids(gs)[n + 1], LastGiven(Ids(fs), T))
    <2>1. SameFirst(Ids(fs), Ids(gs), n)
        BY FieldsAppend
    <2> HIDE DEF n, gs, T
    <2> QED
        BY ZenonT(30), <1>1, <2>1, LastGivenMore
<1>3. /\ LastGiven(Names(gs), T) = LastGiven(Names(fs), T)
      /\ LastGiven(Names(gs), T \cup {n + 1}) = Or(Names(gs)[n + 1], LastGiven(Names(fs), T))
    <2>1. SameFirst(Names(fs), Names(gs), n)
        BY FieldsAppend
    <2> HIDE DEF n, gs, T
    <2> QED
        BY ZenonT(30), <1>1, <2>1, LastGivenMore
<1>4. Ids(gs)[n + 1] = f.id /\ Names(gs)[n + 1] = f.name
    BY FieldsAppend
<1>5. a \in Seq(Seq(Strings)) /\ Len(a) = n /\ x \in Seq(Strings) /\ Args(gs) = Append(a, x)
    BY FieldsAppend
<1>6. /\ T \in SUBSET (1..Len(a)) /\ Chosen(a, T) \in Seq(Seq(Strings))
    <2>1. T \in SUBSET (1..Len(a)) /\ T \in SUBSET DOMAIN a
        <3> HIDE DEF a, T
        <3> QED
            BY <1>1, <1>5
    <2> QED
        BY <1>5, <2>1, ChosenTyped
<1>7. /\ Chosen(Args(gs), T) = Chosen(a, T)
      /\ Chosen(Args(gs), T \cup {n + 1}) = Append(Chosen(a, T), x)
    <2> HIDE DEF n, gs, T, a, x
    <2>0. a \in Seq(Seq(Strings)) /\ x \in Seq(Strings) /\ T \in SUBSET (1..Len(a))
        BY <1>5, <1>6
    <2>1. /\ Chosen(Append(a, x), T) = Chosen(a, T)
          /\ Chosen(Append(a, x), T \cup {Len(a) + 1}) = Append(Chosen(a, T), x)
        BY <2>0, ChosenAppend
    <2> QED
        BY <1>5, <2>1
<1>8. FlattenSeq(Append(Chosen(a, T), x)) = FlattenSeq(Chosen(a, T)) \o x
    BY <1>5, <1>6, FlattenAppend
<1>9. /\ Slots(gs)[n + 1] = i => W = T \cup {n + 1}
      /\ Slots(gs)[n + 1] # i => W = T
    BY OfAppend
<1>10. ASSUME Slots(gs)[n + 1] # i PROVE Entry(gs, Slots(gs), i) = Entry(fs, Slots(fs), i)
    <2>1. W = T
        BY <1>9, <1>10
    <2> QED
        BY <1>2, <1>3, <1>7, <2>1 DEF Entry
<1>11. ASSUME Slots(gs)[n + 1] = i PROVE Entry(gs, Slots(gs), i) = Joined(Entry(fs, Slots(fs), i), f, i)
    <2>1. W = T \cup {n + 1}
        BY <1>9, <1>11
    <2> DEFINE e == Entry(fs, Slots(fs), i)
    <2>2. e.id = Kept(LastGiven(Ids(fs), T)) /\ e.name = Kept(LastGiven(Names(fs), T))
          /\ e.args = FlattenSeq(Chosen(a, T))
        BY DEF Entry
    <2> HIDE DEF e
    <2>3. /\ Kept(LastGiven(Ids(gs), W)) = Kept(Or(f.id, e.id))
          /\ Kept(LastGiven(Names(gs), W)) = Kept(Or(f.name, e.name))
          /\ FlattenSeq(Chosen(Args(gs), W)) = e.args \o f.args
        <3>1. /\ LastGiven(Ids(gs), W) = Or(f.id, LastGiven(Ids(fs), T))
              /\ LastGiven(Names(gs), W) = Or(f.name, LastGiven(Names(fs), T))
            BY <1>2, <1>3, <1>4, <2>1
        <3>2. FlattenSeq(Chosen(Args(gs), W)) = e.args \o f.args
            BY ZenonT(30), <1>7, <1>8, <2>1, <2>2
        <3> QED
            BY <2>2, <3>1, <3>2, KeptAgain
    <2> HIDE DEF gs
    <2>4. Entry(gs, Slots(gs), i) = Joined(e, f, i)
        BY <2>3 DEF Entry, Joined, gs
    <2> QED
        BY <2>4 DEF e
<1> QED
    BY <1>10, <1>11

\* A slot of which no fragment was seen says nothing.
LEMMA EntryEmpty ==
    ASSUME NEW fs, NEW s, NEW i, Of(s, i) = {}
    PROVE  Entry(fs, s, i) = Empty(i)
<1>1. Kept(LastGiven(Ids(fs), {})) = Absent /\ Kept(LastGiven(Names(fs), {})) = Absent
    BY DEF LastGiven, Kept
<1>2. FlattenSeq(Chosen(Args(fs), {})) = <<>>
    BY ChosenNone, FlattenNone
<1> QED
    BY <1>1, <1>2 DEF Entry, Empty

\* The entries of a description are as many as its slots, each with a slot of its own.
LEMMA EntriesApart ==
    ASSUME NEW es, NEW fs \in Seq(CallShapes), Describes(es, fs)
    PROVE  /\ \A j, k \in 1..Len(es) : es[j].index = es[k].index => j = k
           /\ \A k \in 1..Len(es) : \E m \in 1..Len(fs) : es[k].index = Slots(fs)[m]
           /\ Cardinality(SlotsBefore(Slots(fs), Len(fs))) = Len(es)
<1> DEFINE s == Slots(fs)
           n == Len(fs)
           F == Firsts(s)
           L == Len(es)
<1>1. n \in Nat /\ DOMAIN s = 1..n
    BY SlotsIs DEF SlotsOf
<1>2. F \in SUBSET (1..n) /\ \A k \in F : \A m \in 1..(k - 1) : s[m] # s[k]
    <2> HIDE DEF s, n
    <2> QED
        BY <1>1 DEF Firsts
<1>3. L \in Nat /\ L = Cardinality(F) /\ \A k \in 1..L : es[k] = Entry(fs, s, s[Nth(F, k)])
    BY DEF Describes
<1>4. \A m \in 1..n : \E k \in 1..L : es[k].index = s[m]
    BY DEF Describes
<1> HIDE DEF s, n, F, L
<1>5. \A k \in 1..L : es[k].index = s[Nth(F, k)] /\ Nth(F, k) \in F
    <2>1. \A k \in 1..L : Nth(F, k) \in F
        BY <1>1, <1>2, <1>3, NthIs
    <2>2. \A x : Entry(fs, s, x).index = x
        BY DEF Entry
    <2> QED
        BY <1>3, <2>1, <2>2
<1>6. ASSUME NEW j \in 1..L, NEW k \in 1..L, j < k PROVE es[j].index # es[k].index
    <2>1. Nth(F, j) < Nth(F, k)
        BY <1>1, <1>2, <1>3, <1>6, NthGrows
    <2>2. Nth(F, j) \in F /\ Nth(F, k) \in F /\ Nth(F, j) \in 1..n /\ Nth(F, k) \in 1..n
        BY <1>2, <1>5
    <2>3. Nth(F, j) \in 1..(Nth(F, k) - 1)
        BY <1>1, <2>1, <2>2
    <2> QED
        BY <1>2, <1>5, <2>2, <2>3
<1>7. \A j, k \in 1..L : es[j].index = es[k].index => j = k
    <2> SUFFICES ASSUME NEW j \in 1..L, NEW k \in 1..L, es[j].index = es[k].index PROVE j = k
        OBVIOUS
    <2>1. ~(j < k) /\ ~(k < j)
        BY <1>6
    <2> QED
        BY <1>3, <2>1
<1>8. \A k \in 1..L : \E m \in 1..n : es[k].index = s[m]
    BY <1>2, <1>5
<1>9. Cardinality(SlotsBefore(s, n)) = L
    <2> DEFINE B == SlotsBefore(s, n)
               b == [k \in 1..L |-> es[k].index]
    <2>1. \A k \in 1..L : es[k].index \in B
        BY <1>8 DEF SlotsBefore
    <2>2. \A v \in B : \E k \in 1..L : es[k].index = v
        BY <1>4 DEF SlotsBefore
    <2> HIDE DEF B
    <2>3. b \in [1..L -> B] /\ \A k \in 1..L : b[k] = es[k].index
        BY <2>1
    <2> HIDE DEF b
    <2>4. \A j, k \in 1..L : b[j] = b[k] => j = k
        BY <1>7, <2>3
    <2>5. \A v \in B : \E k \in 1..L : b[k] = v
        BY <2>2, <2>3
    <2>6. b \in Bijection(1..L, B)
        BY <2>3, <2>4, <2>5, Zenon DEF Bijection, Injection, Surjection, IsInjective
    <2>7. ExistsBijection(1..L, B)
        BY <2>6 DEF ExistsBijection
    <2>8. IsFiniteSet(1..L) /\ Cardinality(1..L) = L
        BY <1>3, FS_Interval
    <2>9. Cardinality(B) = Cardinality(1..L)
        BY <2>7, <2>8, FS_Bijection
    <2> QED
        BY <2>8, <2>9 DEF B
<1> QED
    BY <1>7, <1>8, <1>9 DEF s, n, L

\* The first places of slots, with one fragment more.
LEMMA FirstsAppend ==
    ASSUME NEW fs \in Seq(CallShapes), NEW f \in CallShapes
    PROVE  LET s == Slots(fs)
               t == Slots(Append(fs, f))
               n == Len(fs)
           IN /\ Firsts(s) \in SUBSET (1..n)
              /\ (\E m \in 1..n : s[m] = t[n + 1]) => Firsts(t) = Firsts(s)
              /\ (\A m \in 1..n : s[m] # t[n + 1]) => Joins(Firsts(t), n, Firsts(s), 1, {1})
<1> DEFINE s == Slots(fs)
           t == Slots(Append(fs, f))
           n == Len(fs)
<1>1. n \in Nat /\ DOMAIN s = 1..n /\ DOMAIN t = 1..(n + 1) /\ \A k \in 1..n : t[k] = s[k]
    BY SlotsAppend, LenProperties
<1> HIDE DEF n, s, t
<1>2. Firsts(s) \in SUBSET (1..n) /\ Firsts(t) \in SUBSET (1..(n + 1))
    BY <1>1 DEF Firsts
<1>3. ASSUME NEW k \in 1..n PROVE k \in Firsts(t) <=> k \in Firsts(s)
    <2>1. k \in 1..(n + 1) /\ t[k] = s[k]
        BY <1>1
    <2>2. \A m \in 1..(k - 1) : m \in 1..n
        BY <1>1
    <2>3. \A m \in 1..(k - 1) : t[m] = s[m]
        BY <1>1, <2>2
    <2> QED
        BY <1>1, <2>1, <2>3 DEF Firsts
<1>4. n + 1 \in Firsts(t) <=> \A m \in 1..n : s[m] # t[n + 1]
    <2>1. n + 1 \in 1..(n + 1) /\ 1..((n + 1) - 1) = 1..n
        BY <1>1
    <2> QED
        BY <1>1, <2>1 DEF Firsts
<1>5. (\E m \in 1..n : s[m] = t[n + 1]) => Firsts(t) = Firsts(s)
    <2> SUFFICES ASSUME n + 1 \notin Firsts(t) PROVE Firsts(t) = Firsts(s)
        BY <1>4
    <2>1. \A k \in 1..(n + 1) : k \in 1..n \/ k = n + 1
        BY <1>1
    <2>2. \A k \in Firsts(t) : k \in 1..n
        BY <1>2, <2>1
    <2> QED
        BY <1>2, <1>3, <2>2
<1>6. (\A m \in 1..n : s[m] # t[n + 1]) => Joins(Firsts(t), n, Firsts(s), 1, {1})
    <2> SUFFICES ASSUME n + 1 \in Firsts(t) PROVE Joins(Firsts(t), n, Firsts(s), 1, {1})
        BY <1>4
    <2>1. \A i \in 1..1 : i = 1
        OBVIOUS
    <2> QED
        BY <1>2, <1>3, <2>1 DEF Joins
<1> QED
    BY <1>2, <1>5, <1>6 DEF n, s, t

\* A description stays one when a fragment is merged.
LEMMA MergeDescribes ==
    ASSUME NEW es, NEW fs \in Seq(CallShapes), NEW f \in CallShapes, Describes(es, fs)
    PROVE  Describes(Merge(es, f), Append(fs, f))
<1> DEFINE gs == Append(fs, f)
           n == Len(fs)
           s == Slots(fs)
           t == Slots(gs)
           L == Len(es)
           i == Index(es, f)
           at == {k \in DOMAIN es : es[k].index = i}
           cur == IF at = {} THEN Empty(i) ELSE es[CHOOSE k \in at : TRUE]
           next == [index |-> i, id |-> Kept(Or(f.id, cur.id)), name |-> Kept(Or(f.name, cur.name)),
                    args |-> cur.args \o f.args]
           new == Merge(es, f)
<1>1. es \in Seq(Entries) /\ DOMAIN es = 1..L /\ L \in Nat /\ n \in Nat
    BY LenProperties DEF Describes
<1>2. new = IF at = {} THEN Append(es, next) ELSE [k \in DOMAIN es |-> IF k \in at THEN next ELSE es[k]]
    BY DEF Merge
<1>3. new \in Seq(Entries)
    BY <1>1, MergeTyped
<1>4. gs \in Seq(CallShapes) /\ Len(gs) = n + 1
    BY AppendProperties
<1>5. /\ \A j, k \in 1..L : es[j].index = es[k].index => j = k
      /\ \A k \in 1..L : \E m \in 1..n : es[k].index = s[m]
      /\ Cardinality(SlotsBefore(s, n)) = L
    BY EntriesApart
<1>6. t[n + 1] = i /\ \A k \in 1..n : t[k] = s[k]
    BY <1>5, SlotsAppend DEF Index
<1>7. /\ L = Cardinality(Firsts(s))
      /\ \A k \in 1..L : es[k] = Entry(fs, s, s[Nth(Firsts(s), k)])
      /\ \A m \in 1..n : \E k \in 1..L : es[k].index = s[m]
    BY DEF Describes
<1>8. /\ \A j : j # i => Entry(gs, t, j) = Entry(fs, s, j)
      /\ Entry(gs, t, i) = Joined(Entry(fs, s, i), f, i)
    BY <1>6, EntryAppend
<1>9. \A j : Entry(fs, s, j).index = j
    BY DEF Entry
<1>10. /\ Firsts(s) \in SUBSET (1..n)
       /\ (\E m \in 1..n : s[m] = i) => Firsts(t) = Firsts(s)
       /\ (\A m \in 1..n : s[m] # i) => Joins(Firsts(t), n, Firsts(s), 1, {1})
    BY <1>6, FirstsAppend
<1>11. (\A m \in 1..n : s[m] # i) => Entry(fs, s, i) = Empty(i)
    <2>1. DOMAIN s = 1..n
        BY SlotsAppend
    <2>2. (\A m \in 1..n : s[m] # i) => Of(s, i) = {}
        BY <2>1 DEF Of
    <2> HIDE DEF s, i
    <2> QED
        BY <2>2, EntryEmpty
<1>12. next = Joined(cur, f, i)
    BY DEF Joined
<1>13. \A k \in 1..L : Nth(Firsts(s), k) \in 1..n
    BY <1>1, <1>7, <1>10, NthIs
<1> HIDE DEF gs, n, s, t, L, i, at, cur, next, new
<1>14. ASSUME at = {} PROVE Describes(new, gs)
    <2>1. \A k \in 1..L : es[k].index # i
        BY <1>1, <1>14 DEF at
    <2>2. \A m \in 1..n : s[m] # i
        BY <1>7, <2>1
    <2>3. cur = Entry(fs, s, i)
        BY <1>11, <1>14, <2>2 DEF cur
    <2>4. next = Entry(gs, t, i)
        BY <1>8, <1>12, <2>3
    <2>5. new = Append(es, next)
        BY <1>2, <1>14
    <2>6. next \in Entries
        <3>1. new # <<>> /\ DOMAIN new = 1..(L + 1) /\ new[L + 1] = next
            BY <1>1, <2>5
        <3>2. L + 1 \in DOMAIN new
            BY <1>1, <3>1
        <3> QED
            BY <1>3, <3>1, <3>2
    <2>7. /\ Len(new) = L + 1 /\ new[L + 1] = next
          /\ \A k \in 1..L : new[k] = es[k]
        BY <1>1, <2>5, <2>6, AppendProperties DEF L
    <2>8. Joins(Firsts(t), n, Firsts(s), 1, {1}) /\ 1 \in Nat
        BY <1>10, <2>2
    <2>9. Cardinality({1}) = 1 /\ Nth({1}, 1) = 1
        <3>1. Cardinality({1}) = 1
            BY FS_Singleton
        <3>2. {1} \in SUBSET (1..1) /\ 1 \in 1..Cardinality({1}) /\ 1 \in Nat
            BY <3>1
        <3>3. Nth({1}, 1) \in {1}
            BY <3>2, NthIs
        <3> QED
            BY <3>1, <3>3
    <2>10. Cardinality(Firsts(t)) = L + 1
        BY <1>1, <1>7, <2>8, <2>9, CountBoth
    <2>11. \A k \in 1..L : Nth(Firsts(t), k) = Nth(Firsts(s), k)
        BY <1>1, <1>7, <2>8, NthFirst
    <2>12. Nth(Firsts(t), L + 1) = n + 1
        <3>1. 1 \in 1..Cardinality({1})
            BY <2>9
        <3>2. Nth(Firsts(t), Cardinality(Firsts(s)) + 1) = n + Nth({1}, 1)
            BY <1>1, <2>8, <3>1, NthSecond
        <3> QED
            BY <1>7, <2>9, <3>2
    <2>13. ASSUME NEW k \in 1..(L + 1) PROVE new[k] = Entry(gs, t, t[Nth(Firsts(t), k)])
        <3>1. CASE k = L + 1
            BY <1>6, <2>4, <2>7, <2>12, <3>1
        <3>2. CASE k # L + 1
            <4>1. k \in 1..L
                BY <1>1, <3>2
            <4>2. Nth(Firsts(t), k) \in 1..n /\ Nth(Firsts(t), k) = Nth(Firsts(s), k)
                BY <1>13, <2>11, <4>1
            <4>3. t[Nth(Firsts(t), k)] = s[Nth(Firsts(s), k)] /\ s[Nth(Firsts(s), k)] # i
                BY <1>6, <2>2, <4>2
            <4> QED
                BY <1>7, <1>8, <2>7, <4>1, <4>3
        <3> QED
            BY <3>1, <3>2
    <2>14. ASSUME NEW m \in 1..(n + 1) PROVE \E k \in 1..(L + 1) : new[k].index = t[m]
        <3>1. CASE m = n + 1
            <4>1. next.index = i /\ L + 1 \in 1..(L + 1)
                BY <1>1 DEF next
            <4> QED
                BY <1>6, <2>7, <3>1, <4>1
        <3>2. CASE m # n + 1
            <4>1. m \in 1..n
                BY <1>1, <3>2
            <4>2. PICK k \in 1..L : es[k].index = s[m]
                BY <1>7, <4>1
            <4>3. k \in 1..(L + 1)
                BY <1>1
            <4> QED
                BY <1>6, <2>7, <4>1, <4>2, <4>3
        <3> QED
            BY <3>1, <3>2
    <2> QED
        BY <1>3, <1>4, <2>7, <2>10, <2>13, <2>14 DEF Describes, t
<1>15. ASSUME at # {} PROVE Describes(new, gs)
    <2>1. PICK c \in 1..L : at = {c} /\ es[c].index = i
        <3>1. PICK c \in at : TRUE
            BY <1>15
        <3>2. c \in 1..L /\ es[c].index = i
            BY <1>1, <3>1 DEF at
        <3>3. \A k \in at : k = c
            BY <1>1, <1>5, <3>2 DEF at
        <3> QED
            BY <3>1, <3>2, <3>3
    <2>2. cur = es[c]
        BY <2>1 DEF cur
    <2>3. s[Nth(Firsts(s), c)] = i /\ \E m \in 1..n : s[m] = i
        BY <1>7, <1>9, <1>13, <2>1
    <2>4. next = Entry(gs, t, i)
        BY <1>7, <1>8, <1>12, <2>1, <2>2, <2>3
    <2>5. new = [k \in 1..L |-> IF k = c THEN next ELSE es[k]]
        BY <1>1, <1>2, <2>1
    <2>6. /\ Len(new) = L /\ new[c] = next
          /\ \A k \in 1..L : k # c => new[k] = es[k]
        BY <1>1, <1>3, <2>1, <2>5
    <2>7. Firsts(t) = Firsts(s)
        BY <1>10, <2>3
    <2>8. ASSUME NEW k \in 1..L PROVE new[k] = Entry(gs, t, t[Nth(Firsts(t), k)])
        <3>1. t[Nth(Firsts(t), k)] = s[Nth(Firsts(s), k)]
            BY <1>6, <1>13, <2>7
        <3>2. CASE k = c
            BY <2>3, <2>4, <2>6, <3>1, <3>2
        <3>3. CASE k # c
            <4>1. es[k].index # i
                BY <1>5, <2>1, <3>3
            <4>2. s[Nth(Firsts(s), k)] # i
                BY <1>7, <1>9, <4>1
            <4> QED
                BY <1>7, <1>8, <2>6, <3>1, <3>3, <4>2
        <3> QED
            BY <3>2, <3>3
    <2>9. ASSUME NEW m \in 1..(n + 1) PROVE \E k \in 1..L : new[k].index = t[m]
        <3>0. next.index = i
            BY DEF next
        <3>1. CASE t[m] = i
            BY <2>6, <3>0, <3>1
        <3>2. CASE t[m] # i
            <4>1. m \in 1..n
                BY <1>1, <1>6, <3>2
            <4>2. PICK k \in 1..L : es[k].index = s[m]
                BY <1>7, <4>1
            <4>3. k # c
                BY <1>6, <2>1, <3>2, <4>1, <4>2
            <4> QED
                BY <1>6, <2>6, <4>1, <4>2, <4>3
        <3> QED
            BY <3>1, <3>2
    <2> QED
        BY <1>3, <1>4, <1>7, <2>6, <2>7, <2>8, <2>9 DEF Describes, t
<1> QED
    BY <1>14, <1>15 DEF new, gs

\* Nothing merged describes no fragment.
LEMMA NothingDescribes == Describes(<<>>, <<>>)
<1>1. <<>> \in Seq(Entries) /\ <<>> \in Seq(CallShapes) /\ Len(<<>>) = 0
    BY EmptySeq
<1>2. DOMAIN Slots(<<>>) = 1..0
    <2>1. SlotsOf(Slots(<<>>), <<>>, Len(<<>>))
        BY <1>1, SlotsIs
    <2> QED
        BY <1>1, <2>1 DEF SlotsOf
<1>3. Firsts(Slots(<<>>)) = {} /\ 1..0 = {}
    BY <1>2 DEF Firsts
<1>4. Cardinality(Firsts(Slots(<<>>))) = 0
    BY <1>3, FS_EmptySet
<1> QED
    BY <1>1, <1>3, <1>4 DEF Describes

\* The merged entries of any fragments describe them.
LEMMA MergeAllDescribes ==
    ASSUME NEW fs \in Seq(CallShapes)
    PROVE  Describes(MergeAll(<<>>, fs), fs)
<1> DEFINE Holds(m) == Describes(MergeAll(<<>>, SubSeq(fs, 1, m)), SubSeq(fs, 1, m))
           fails == {m \in 0..Len(fs) : ~Holds(m)}
<1>1. Holds(0)
    <2>1. SubSeq(fs, 1, 0) = <<>>
        BY SubSeqEmpty
    <2> QED
        BY <2>1, MergeNone, NothingDescribes
<1>2. ASSUME fails # {} PROVE FALSE
    <2> HIDE DEF Holds
    <2>1. fails \in SUBSET Nat
        OBVIOUS
    <2>2. PICK m \in fails : \A x \in fails : m <= x
        BY <1>2, <2>1, LeastNatural
    <2>3. m \in 1..Len(fs)
        BY <1>1, <2>2
    <2>4. m - 1 \notin fails
        BY <2>2, <2>3
    <2>5. Holds(m - 1)
        BY <2>3, <2>4
    <2> DEFINE gs == SubSeq(fs, 1, m - 1)
    <2>6. gs \in Seq(CallShapes) /\ SubSeq(fs, 1, m) = Append(gs, fs[m]) /\ fs[m] \in CallShapes
        BY <2>3, FirstsAndOne
    <2>7. Describes(MergeAll(<<>>, gs), gs)
        BY <2>5 DEF Holds
    <2> HIDE DEF gs
    <2>8. Describes(Merge(MergeAll(<<>>, gs), fs[m]), Append(gs, fs[m]))
        BY <2>6, <2>7, MergeDescribes
    <2>9. MergeAll(<<>>, Append(gs, fs[m])) = Merge(MergeAll(<<>>, gs), fs[m])
        BY <2>6, MergeAppend
    <2>10. Holds(m)
        BY <2>6, <2>8, <2>9 DEF Holds
    <2> QED
        BY <2>2, <2>10
<1>3. SubSeq(fs, 1, Len(fs)) = fs /\ Len(fs) \in 0..Len(fs)
    BY SubSeqFull
<1>4. Holds(Len(fs))
    BY <1>2, <1>3
<1> QED
    BY <1>3, <1>4

\* The calls of the merged entries are the meaning of the fragments.
LEMMA MeaningIsMerged ==
    ASSUME NEW fs \in Seq(CallShapes)
    PROVE  ToolCalls(MergeAll(<<>>, fs)) = Meaning(fs)
<1> DEFINE es == MergeAll(<<>>, fs)
           s == Slots(fs)
           L == Len(es)
           firsts == Chosen(s, Firsts(s))
           all == [k \in DOMAIN firsts |-> Meant(fs, Of(s, firsts[k]), firsts[k])]
           T == {k \in DOMAIN es : Named(es[k])}
           W == {k \in DOMAIN all : all[k].toolId # Absent}
<1>1. Describes(es, fs)
    BY MergeAllDescribes
<1>2. /\ es \in Seq(Entries) /\ DOMAIN es = 1..L /\ L = Cardinality(Firsts(s))
      /\ \A k \in 1..L : es[k] = Entry(fs, s, s[Nth(Firsts(s), k)])
    BY <1>1, LenProperties DEF Describes
<1>3. Meaning(fs) = Chosen(all, W)
    BY DEF Meaning
<1>4. ToolCalls(es) = [n \in DOMAIN Chosen(es, T) |-> ToCall(Chosen(es, T)[n])]
    BY DEF ToolCalls
<1>5. firsts = [k \in 1..L |-> s[Nth(Firsts(s), k)]]
    BY <1>2 DEF Chosen
<1> HIDE DEF es, s, L, firsts
<1>6. DOMAIN all = 1..L /\ \A k \in 1..L : all[k] = ToCall(es[k])
    <2>1. \A i : ToCall(Entry(fs, s, i)) = Meant(fs, Of(s, i), i)
        BY DEF ToCall, Entry, Meant
    <2>2. \A k \in 1..L : all[k] = Meant(fs, Of(s, firsts[k]), firsts[k]) /\ firsts[k] = s[Nth(Firsts(s), k)]
        BY <1>5
    <2> QED
        BY <1>2, <1>5, <2>1, <2>2
<1> HIDE DEF all
<1>7. W = T
    <2>0. \A e : ToCall(e).toolId = e.name
        BY DEF ToCall
    <2>1. \A k \in 1..L : all[k].toolId = es[k].name
        BY <1>6, <2>0
    <2>2. \A k \in 1..L : es[k].name # Absent <=> Named(es[k])
        <3>1. \A i : Entry(fs, s, i).name # Absent <=> Named(Entry(fs, s, i))
            BY DEF Entry, Kept, Truthy, Named
        <3> QED
            BY <1>2, <3>1
    <2> QED
        BY <1>2, <1>6, <2>1, <2>2
<1>8. Chosen(es, T) = [k \in 1..Cardinality(T) |-> es[Nth(T, k)]]
    BY DEF Chosen
<1>9. Chosen(all, T) = [k \in 1..Cardinality(T) |-> all[Nth(T, k)]]
    BY DEF Chosen
<1>10. \A k \in 1..Cardinality(T) : Nth(T, k) \in 1..L
    <2>1. L \in Nat /\ T \in SUBSET (1..L)
        BY <1>2, LenProperties DEF L
    <2> HIDE DEF T
    <2> QED
        BY <2>1, NthIs
<1> HIDE DEF T, W
<1>11. \A k \in 1..Cardinality(T) : all[Nth(T, k)] = ToCall(es[Nth(T, k)])
    BY <1>6, <1>10
<1>12. ToolCalls(es) = [k \in 1..Cardinality(T) |-> ToCall(es[Nth(T, k)])]
    BY <1>4, <1>8
<1> QED
    BY <1>3, <1>7, <1>9, <1>11, <1>12 DEF es

----------------------------------------------------------------------------
(* What a provider sends, and what an adapter returns.                     *)

\* The lines that were ended among some pieces.
EndedOf(t) == LET ends == Chosen(t, Ends(t)) IN [n \in DOMAIN ends |-> ends[n].line]

\* They are lines.
LEMMA EndedTyped ==
    ASSUME NEW t \in Seq(Pieces)
    PROVE  EndedOf(t) \in Seq(LineShapes) /\ Len(EndedOf(t)) = Len(Chosen(t, Ends(t)))
<1> DEFINE c == Chosen(t, Ends(t))
<1>1. Ends(t) \in SUBSET DOMAIN t
    BY DEF Ends
<1>2. c \in Seq(Pieces)
    BY <1>1, ChosenTyped
<1>3. EndedOf(t) = [n \in DOMAIN c |-> c[n].line]
    BY DEF EndedOf
<1> HIDE DEF c
<1>4. \A n \in DOMAIN c : c[n].line \in LineShapes
    <2>1. \A n \in DOMAIN c : c[n] \in Pieces
        BY <1>2
    <2>2. \A p \in Pieces : p.line \in LineShapes
        BY DEF Pieces
    <2> QED
        BY <2>1, <2>2
<1>5. EndedOf(t) \in Seq(LineShapes) /\ Len(EndedOf(t)) = Len(c)
    BY <1>2, <1>3, <1>4
<1> QED
    BY <1>5 DEF c

\* A whole line is ended.
LEMMA EndedWhole ==
    ASSUME NEW t \in Seq(Pieces), NEW l \in LineShapes
    PROVE  EndedOf(t \o Parts(l, 3)) = Append(EndedOf(t), l)
<1> DEFINE s == Parts(l, 3)
           x == [line |-> l, part |-> 3]
           a == Chosen(t, Ends(t))
           c == Chosen(t \o s, Ends(t \o s))
<1>1. s \in Seq(Pieces) /\ Len(s) = 3 /\ s[3] = x /\ x \in Pieces /\ \A i \in 1..3 : s[i].part = i
    BY DEF Parts, Pieces
<1>2. Chosen(s, Ends(s)) = <<x>>
    <2> HIDE DEF s, x
    <2>1. Ends(s) = {3}
        BY <1>1 DEF Ends
    <2>2. Cardinality(Ends(s)) = 1 /\ 1 \in 1..Cardinality(Ends(s))
        <3>1. Cardinality(Ends(s)) = 1
            BY <2>1, FS_Singleton
        <3> QED
            BY <3>1
    <2>3. Ends(s) \in SUBSET DOMAIN s
        BY DEF Ends
    <2>4. Nth(Ends(s), 1) = 3
        <3>1. Ends(s) \in SUBSET (1..Len(s)) /\ Len(s) \in Nat
            BY <1>1, EndsTyped
        <3>2. Nth(Ends(s), 1) \in Ends(s)
            BY <2>2, <3>1, NthIs
        <3> QED
            BY <2>1, <3>2
    <2>5. /\ Chosen(s, Ends(s)) \in Seq(Pieces) /\ Len(Chosen(s, Ends(s))) = 1
          /\ Chosen(s, Ends(s))[1] = x
        <3>1. s \in Seq(Pieces)
            BY <1>1
        <3>2. /\ Chosen(s, Ends(s)) \in Seq(Pieces)
              /\ Len(Chosen(s, Ends(s))) = Cardinality(Ends(s))
              /\ \A k \in 1..Cardinality(Ends(s)) : Chosen(s, Ends(s))[k] = s[Nth(Ends(s), k)]
            BY <2>3, <3>1, ChosenTyped
        <3> QED
            BY <1>1, <2>2, <2>4, <3>2
    <2>6. <<x>> \in Seq(Pieces) /\ Len(<<x>>) = 1 /\ <<x>>[1] = x
        BY <1>1
    <2>7. \A i \in 1..1 : Chosen(s, Ends(s))[i] = <<x>>[i]
        BY <2>5, <2>6
    <2> QED
        BY <2>5, <2>6, <2>7, SeqEqual
<1>3. c = a \o <<x>>
    <2>1. Joins(Ends(t \o s), Len(t), Ends(t), Len(s), Ends(s))
        BY <1>1, EndsJoin
    <2>2. c = a \o Chosen(s, Ends(s))
        BY <1>1, <2>1, ChosenJoin
    <2> QED
        BY <1>2, <2>2
<1>4. a \in Seq(Pieces)
    <2>1. Ends(t) \in SUBSET DOMAIN t
        BY DEF Ends
    <2> QED
        BY <2>1, ChosenTyped
<1>5. EndedOf(t) = [n \in DOMAIN a |-> a[n].line] /\ EndedOf(t \o s) = [n \in DOMAIN c |-> c[n].line]
    BY DEF EndedOf
<1>6. EndedOf(t) \in Seq(LineShapes) /\ EndedOf(t \o s) \in Seq(LineShapes)
    <2>1. t \o s \in Seq(Pieces)
        BY <1>1, ConcatProperties
    <2> QED
        BY <2>1, EndedTyped
<1>7. x.line = l
    OBVIOUS
<1> HIDE DEF s, x, a, c
<1>8. /\ c \in Seq(Pieces) /\ Len(c) = Len(a) + 1
      /\ \A i \in 1..Len(a) : c[i] = a[i]
      /\ c[Len(a) + 1] = x
    BY <1>1, <1>3, <1>4
<1>9. /\ Len(EndedOf(t)) = Len(a) /\ Len(EndedOf(t \o s)) = Len(a) + 1
      /\ \A i \in 1..Len(a) : EndedOf(t \o s)[i] = EndedOf(t)[i]
      /\ EndedOf(t \o s)[Len(a) + 1] = l
    BY <1>4, <1>5, <1>6, <1>7, <1>8
<1>10. /\ Append(EndedOf(t), l) \in Seq(LineShapes) /\ Len(Append(EndedOf(t), l)) = Len(a) + 1
       /\ \A i \in 1..Len(a) : Append(EndedOf(t), l)[i] = EndedOf(t)[i]
       /\ Append(EndedOf(t), l)[Len(a) + 1] = l
    BY <1>4, <1>6, <1>9, AppendProperties
<1>11. \A i \in 1..Len(EndedOf(t \o s)) : EndedOf(t \o s)[i] = Append(EndedOf(t), l)[i]
    BY <1>4, <1>9, <1>10
<1>12. EndedOf(t \o s) = Append(EndedOf(t), l)
    BY <1>6, <1>9, <1>10, <1>11, SeqEqual
<1> QED
    BY <1>12 DEF s

\* A line that is cut off is not ended.
LEMMA EndedCut ==
    ASSUME NEW t \in Seq(Pieces), NEW s \in Seq(Pieces), Ends(s) = {}
    PROVE  EndedOf(t \o s) = EndedOf(t)
<1>1. Chosen(t \o s, Ends(t \o s)) = Chosen(t, Ends(t)) \o Chosen(s, Ends(s))
    <2>1. Joins(Ends(t \o s), Len(t), Ends(t), Len(s), Ends(s))
        BY EndsJoin
    <2> QED
        BY <2>1, ChosenJoin
<1>2. Chosen(s, Ends(s)) = <<>>
    BY ChosenNone
<1>3. Chosen(t, Ends(t)) \in Seq(Pieces)
    <2>1. Ends(t) \in SUBSET DOMAIN t
        BY DEF Ends
    <2> QED
        BY <2>1, ChosenTyped
<1>4. Chosen(t, Ends(t)) \o <<>> = Chosen(t, Ends(t))
    BY <1>3, ConcatEmptySeq
<1> QED
    BY <1>1, <1>2, <1>4 DEF EndedOf

\* Nothing is ended.
LEMMA EndedNone == EndedOf(<<>>) = <<>>
<1>1. Ends(<<>>) = {}
    BY SplitEmpty
<1>2. Chosen(<<>>, Ends(<<>>)) = <<>>
    BY <1>1, ChosenNone
<1>3. [n \in DOMAIN <<>> |-> <<>>[n].line] = <<>>
    OBVIOUS
<1> QED
    BY <1>2, <1>3 DEF EndedOf

\* What an adapter may return.
ToolShapes ==
    [id : Strings \cup ({"toolcall"} \X Nat), toolId : Strings \cup {Absent}, args : Seq(Strings)]

Texts == Seq(Strings \cup {Absent})

\* The tool calls of a result are some.
LEMMA ToolCallsTyped ==
    ASSUME NEW es \in Seq(Entries)
    PROVE  ToolCalls(es) \in Seq(ToolShapes)
<1> DEFINE T == {n \in DOMAIN es : Named(es[n])}
           c == Chosen(es, T)
<1>1. c \in Seq(Entries)
    BY ChosenTyped
<1>2. ToolCalls(es) = [n \in DOMAIN c |-> ToCall(c[n])]
    BY DEF ToolCalls
<1>3. ASSUME NEW e \in Entries PROVE ToCall(e) \in ToolShapes
    <2>1. Or(e.id, <<"toolcall", e.index>>) \in Strings \cup ({"toolcall"} \X Nat)
        BY DEF Or, Entries
    <2>2. e.name \in Strings \cup {Absent} /\ ParseToolArguments(e.args) \in Seq(Strings)
        BY DEF ParseToolArguments, Entries
    <2> QED
        BY <2>1, <2>2 DEF ToCall, ToolShapes
<1> HIDE DEF c
<1>4. \A n \in DOMAIN c : c[n] \in Entries
    BY <1>1
<1>5. \A n \in DOMAIN c : ToCall(c[n]) \in ToolShapes
    BY <1>3, <1>4
<1> QED
    BY <1>1, <1>2, <1>5

\* What comes after the first elements of a sequence.
After(s, i) == SubSeq(s, i + 1, Len(s))

\* It is the next one, then what comes after that.
LEMMA AfterIs ==
    ASSUME NEW S, NEW s \in Seq(S), NEW i \in 0..Len(s)
    PROVE  /\ After(s, i) \in Seq(S) /\ Len(After(s, i)) = Len(s) - i
           /\ \A k \in 1..(Len(s) - i) : After(s, i)[k] = s[i + k]
<1>1. \A k \in 1..Len(s) : s[k] \in S
    BY ElementOfSeq
<1> QED
    BY <1>1 DEF After

EventShapes ==
    [type : {"delta", "tool_call", "done"},
     value : (Strings \cup {Absent}) \cup ToolShapes \cup {<<>>}]

\* The kth of the events of ds and calls.
EventAt(ds, calls, k) ==
    IF k <= Len(ds) THEN [type |-> "delta", value |-> ds[k]]
    ELSE IF k <= Len(ds) + Len(calls) THEN [type |-> "tool_call", value |-> calls[k - Len(ds)]]
    ELSE Done

\* Texts come first, then the calls, then the end.
LEMMA EventsAre ==
    ASSUME NEW ds \in Texts, NEW calls \in Seq(ToolShapes)
    PROVE  /\ Events(ds, calls) \in Seq(EventShapes)
           /\ Len(Events(ds, calls)) = Len(ds) + Len(calls) + 1
           /\ \A k \in 1..(Len(ds) + Len(calls) + 1) : Events(ds, calls)[k] = EventAt(ds, calls, k)
<1> DEFINE a == [n \in DOMAIN ds |-> [type |-> "delta", value |-> ds[n]]]
           b == [n \in DOMAIN calls |-> [type |-> "tool_call", value |-> calls[n]]]
           z == <<Done>>
           ab == a \o b
           e == ab \o z
<1>1. a \in Seq(EventShapes) /\ Len(a) = Len(ds)
    <2>1. \A n \in 1..Len(ds) : ds[n] \in Strings \cup {Absent}
        BY ElementOfSeq DEF Texts
    <2>2. \A n \in 1..Len(ds) : [type |-> "delta", value |-> ds[n]] \in EventShapes
        BY <2>1 DEF EventShapes
    <2> QED
        BY <2>2 DEF Texts
<1>2. b \in Seq(EventShapes) /\ Len(b) = Len(calls)
    <2>1. \A n \in 1..Len(calls) : calls[n] \in ToolShapes
        BY ElementOfSeq
    <2>2. \A n \in 1..Len(calls) : [type |-> "tool_call", value |-> calls[n]] \in EventShapes
        BY <2>1 DEF EventShapes
    <2> QED
        BY <2>2
<1>3. z \in Seq(EventShapes) /\ Len(z) = 1 /\ z[1] = Done
    <2>1. Done \in EventShapes
        BY DEF Done, EventShapes
    <2> QED
        BY <2>1
<1>4. \A k \in 1..Len(ds) : a[k] = [type |-> "delta", value |-> ds[k]]
    BY DEF Texts
<1>5. \A k \in 1..Len(calls) : b[k] = [type |-> "tool_call", value |-> calls[k]]
    OBVIOUS
<1>6. Events(ds, calls) = e
    BY DEF Events
<1>7. Len(ds) \in Nat /\ Len(calls) \in Nat
    BY DEF Texts
<1> HIDE DEF a, b, z
<1>8. /\ ab \in Seq(EventShapes) /\ Len(ab) = Len(a) + Len(b)
      /\ \A i \in 1..(Len(a) + Len(b)) : ab[i] = IF i <= Len(a) THEN a[i] ELSE b[i - Len(a)]
    BY <1>1, <1>2, ConcatProperties
<1> HIDE DEF ab
<1>9. /\ e \in Seq(EventShapes) /\ Len(e) = Len(ab) + Len(z)
      /\ \A i \in 1..(Len(ab) + Len(z)) : e[i] = IF i <= Len(ab) THEN ab[i] ELSE z[i - Len(ab)]
    <2>1. z \in Seq(EventShapes) /\ ab \in Seq(EventShapes)
        BY <1>3, <1>8
    <2> QED
        BY <2>1, ConcatProperties, Zenon
<1> HIDE DEF e
<1>10. ASSUME NEW k \in 1..(Len(ds) + Len(calls) + 1) PROVE e[k] = EventAt(ds, calls, k)
    <2>1. e[k] = IF k <= Len(ds) + Len(calls) THEN ab[k] ELSE z[k - (Len(ds) + Len(calls))]
        BY <1>1, <1>2, <1>3, <1>7, <1>8, <1>9
    <2>2. CASE k <= Len(ds)
        <3>1. ab[k] = a[k]
            BY <1>1, <1>2, <1>7, <1>8, <2>2
        <3> QED
            BY <1>4, <1>7, <2>1, <2>2, <3>1 DEF EventAt
    <2>3. CASE ~(k <= Len(ds)) /\ k <= Len(ds) + Len(calls)
        <3>1. ab[k] = b[k - Len(ds)] /\ k - Len(ds) \in 1..Len(calls)
            BY <1>1, <1>2, <1>7, <1>8, <2>3
        <3> QED
            BY <1>5, <1>7, <2>1, <2>3, <3>1 DEF EventAt
    <2>4. CASE ~(k <= Len(ds) + Len(calls))
        <3>1. k - (Len(ds) + Len(calls)) = 1 /\ ~(k <= Len(ds))
            BY <1>7, <2>4
        <3> QED
            BY <1>3, <2>1, <2>4, <3>1 DEF EventAt
    <2> QED
        BY <2>2, <2>3, <2>4
<1> QED
    BY <1>1, <1>2, <1>3, <1>6, <1>8, <1>9, <1>10

\* The first event, and the ones after it.
LEMMA EventsTail ==
    ASSUME NEW ds \in Texts, NEW calls \in Seq(ToolShapes), NEW dt \in Texts,
           NEW ct \in Seq(ToolShapes), Len(ds) + Len(calls) = Len(dt) + Len(ct) + 1,
           \A k \in 1..(Len(ds) + Len(calls)) : EventAt(ds, calls, k + 1) = EventAt(dt, ct, k)
    PROVE  /\ Head(Events(ds, calls)) = EventAt(ds, calls, 1)
           /\ Tail(Events(ds, calls)) = Events(dt, ct)
<1> DEFINE e == Events(ds, calls)
           f == Events(dt, ct)
           n == Len(ds) + Len(calls)
<1>1. n \in Nat
    BY DEF Texts
<1>2. e \in Seq(EventShapes) /\ Len(e) = n + 1 /\ \A k \in 1..(n + 1) : e[k] = EventAt(ds, calls, k)
    BY EventsAre
<1>3. f \in Seq(EventShapes) /\ Len(f) = n /\ \A k \in 1..n : f[k] = EventAt(dt, ct, k)
    <2>1. /\ f \in Seq(EventShapes) /\ Len(f) = Len(dt) + Len(ct) + 1
          /\ \A k \in 1..(Len(dt) + Len(ct) + 1) : f[k] = EventAt(dt, ct, k)
        BY EventsAre
    <2> QED
        BY <2>1
<1>4. \A k \in 1..n : EventAt(ds, calls, k + 1) = EventAt(dt, ct, k)
    OBVIOUS
<1> HIDE DEF e, f, n
<1>5. Tail(e) \in Seq(EventShapes) /\ Len(Tail(e)) = n /\ \A k \in 1..n : Tail(e)[k] = e[k + 1]
    <2>1. e # <<>>
        BY <1>1, <1>2, EmptySeq
    <2> QED
        BY <1>1, <1>2, <2>1, HeadTailProperties
<1>6. \A k \in 1..n : Tail(e)[k] = f[k]
    <2>1. \A k \in 1..n : k + 1 \in 1..(n + 1)
        BY <1>1
    <2> QED
        BY <1>2, <1>3, <1>4, <1>5, <2>1
<1>7. Tail(e) = f
    BY <1>3, <1>5, <1>6, SeqEqual
<1>8. Head(e) = EventAt(ds, calls, 1)
    <2>1. 1 \in 1..(n + 1)
        BY <1>1
    <2>2. Head(e) = e[1]
        BY <1>2
    <2> QED
        BY <1>2, <2>1, <2>2
<1> QED
    BY <1>7, <1>8 DEF e, f

\* While texts are left a text is next.
LEMMA DeltaNext ==
    ASSUME NEW ds \in Texts, NEW calls \in Seq(ToolShapes), NEW i \in 0..Len(ds), i # Len(ds)
    PROVE  /\ Head(Events(After(ds, i), calls)) = [type |-> "delta", value |-> ds[i + 1]]
           /\ Tail(Events(After(ds, i), calls)) = Events(After(ds, i + 1), calls)
<1> DEFINE a == After(ds, i)
           b == After(ds, i + 1)
<1>1. /\ i \in Nat /\ Len(ds) \in Nat /\ i + 1 \in 0..Len(ds) /\ Len(calls) \in Nat
    BY DEF Texts
<1>2. a \in Texts /\ Len(a) = Len(ds) - i /\ \A k \in 1..(Len(ds) - i) : a[k] = ds[i + k]
    BY AfterIs DEF Texts
<1>3. b \in Texts /\ Len(b) = Len(ds) - (i + 1) /\ \A k \in 1..(Len(ds) - (i + 1)) : b[k] = ds[(i + 1) + k]
    BY <1>1, AfterIs DEF Texts
<1> HIDE DEF a, b
<1>4. Len(a) = Len(b) + 1 /\ Len(b) \in Nat
    BY <1>1, <1>2, <1>3
<1>5. ASSUME NEW k \in 1..Len(b) PROVE a[k + 1] = b[k]
    <2>1. a[k + 1] = ds[i + (k + 1)]
        BY <1>1, <1>2, <1>4
    <2>2. b[k] = ds[(i + 1) + k]
        BY <1>3
    <2>3. i + (k + 1) = (i + 1) + k
        BY <1>1
    <2> QED
        BY <2>1, <2>2, <2>3
<1>6. ASSUME NEW k \in 1..(Len(a) + Len(calls)) PROVE EventAt(a, calls, k + 1) = EventAt(b, calls, k)
    <2>1. CASE k <= Len(b)
        BY <1>1, <1>4, <1>5, <2>1 DEF EventAt
    <2>2. CASE ~(k <= Len(b))
        <3>1. /\ ~(k + 1 <= Len(a)) /\ (k + 1) - Len(a) = k - Len(b)
              /\ (k + 1 <= Len(a) + Len(calls) <=> k <= Len(b) + Len(calls))
            BY <1>1, <1>4, <2>2
        <3> QED
            BY <2>2, <3>1 DEF EventAt
    <2> QED
        BY <2>1, <2>2
<1>7. Len(a) + Len(calls) = Len(b) + Len(calls) + 1
    BY <1>1, <1>4
<1>8. Head(Events(a, calls)) = EventAt(a, calls, 1) /\ Tail(Events(a, calls)) = Events(b, calls)
    BY ZenonT(30), <1>2, <1>3, <1>6, <1>7, EventsTail
<1>9. EventAt(a, calls, 1) = [type |-> "delta", value |-> ds[i + 1]]
    <2>1. 1 <= Len(a) /\ a[1] = ds[i + 1]
        BY <1>1, <1>2, <1>4
    <2> QED
        BY <2>1 DEF EventAt
<1> QED
    BY <1>8, <1>9 DEF a, b

\* Then, while calls are left, a call.
LEMMA CallNextEvent ==
    ASSUME NEW calls \in Seq(ToolShapes), NEW i \in 0..Len(calls), i # Len(calls), NEW ds \in Texts,
           Len(ds) = 0
    PROVE  /\ Head(Events(ds, After(calls, i))) = [type |-> "tool_call", value |-> calls[i + 1]]
           /\ Tail(Events(ds, After(calls, i))) = Events(ds, After(calls, i + 1))
<1> DEFINE a == After(calls, i)
           b == After(calls, i + 1)
<1>1. i \in Nat /\ Len(calls) \in Nat /\ i + 1 \in 0..Len(calls)
    OBVIOUS
<1>2. a \in Seq(ToolShapes) /\ Len(a) = Len(calls) - i /\ \A k \in 1..(Len(calls) - i) : a[k] = calls[i + k]
    BY AfterIs
<1>3. /\ b \in Seq(ToolShapes) /\ Len(b) = Len(calls) - (i + 1)
      /\ \A k \in 1..(Len(calls) - (i + 1)) : b[k] = calls[(i + 1) + k]
    <2> DEFINE j == i + 1
    <2>1. j \in 0..Len(calls)
        BY <1>1
    <2> HIDE DEF j
    <2>2. /\ After(calls, j) \in Seq(ToolShapes) /\ Len(After(calls, j)) = Len(calls) - j
          /\ \A k \in 1..(Len(calls) - j) : After(calls, j)[k] = calls[j + k]
        BY <2>1, AfterIs
    <2> QED
        BY <2>2 DEF j
<1> HIDE DEF a, b
<1>4. Len(a) = Len(b) + 1 /\ Len(b) \in Nat
    BY <1>1, <1>2, <1>3
<1>5. ASSUME NEW k \in 1..Len(b) PROVE a[k + 1] = b[k]
    <2>1. a[k + 1] = calls[i + (k + 1)]
        BY <1>1, <1>2, <1>4
    <2>2. b[k] = calls[(i + 1) + k]
        BY <1>3
    <2>3. i + (k + 1) = (i + 1) + k
        BY <1>1
    <2> QED
        BY <2>1, <2>2, <2>3
<1>6. ASSUME NEW k \in 1..(Len(ds) + Len(a)) PROVE EventAt(ds, a, k + 1) = EventAt(ds, b, k)
    <2>1. /\ ~(k + 1 <= 0) /\ ~(k <= 0) /\ (k + 1) - 0 = k + 1 /\ k - 0 = k
          /\ (k + 1 <= 0 + Len(a) <=> k <= 0 + Len(b))
          /\ (k <= 0 + Len(b) => k \in 1..Len(b))
        BY <1>4
    <2>2. /\ EventAt(ds, a, k + 1) =
               IF k + 1 <= 0 + Len(a) THEN [type |-> "tool_call", value |-> a[k + 1]] ELSE Done
          /\ EventAt(ds, b, k) =
               IF k <= 0 + Len(b) THEN [type |-> "tool_call", value |-> b[k]] ELSE Done
        BY <2>1 DEF EventAt
    <2> QED
        BY <1>5, <2>1, <2>2
<1>7. Len(ds) + Len(a) = Len(ds) + Len(b) + 1
    BY <1>4
<1>8. Head(Events(ds, a)) = EventAt(ds, a, 1) /\ Tail(Events(ds, a)) = Events(ds, b)
    BY <1>2, <1>3, <1>6, <1>7, EventsTail
<1>9. EventAt(ds, a, 1) = [type |-> "tool_call", value |-> calls[i + 1]]
    <2>1. ~(1 <= 0) /\ 1 <= 0 + Len(a) /\ a[1 - 0] = calls[i + 1]
        BY <1>1, <1>2, <1>4
    <2> QED
        BY <2>1 DEF EventAt
<1> QED
    BY <1>8, <1>9 DEF a, b

\* And then the result.
LEMMA DoneLast ==
    ASSUME NEW ds \in Texts, NEW calls \in Seq(ToolShapes), Len(ds) = 0, Len(calls) = 0
    PROVE  Events(ds, calls) = <<Done>> /\ Head(<<Done>>) = Done /\ Tail(<<Done>>) = <<>>
<1>1. /\ Events(ds, calls) \in Seq(EventShapes)
      /\ Len(Events(ds, calls)) = Len(ds) + Len(calls) + 1
      /\ \A k \in 1..(Len(ds) + Len(calls) + 1) : Events(ds, calls)[k] = EventAt(ds, calls, k)
    BY EventsAre
<1>2. EventAt(ds, calls, 1) = Done
    BY DEF EventAt
<1>3. Done \in EventShapes
    BY DEF Done, EventShapes
<1>4. Len(Events(ds, calls)) = 1 /\ Events(ds, calls)[1] = Done
    BY <1>1, <1>2
<1>5. <<Done>> \in Seq(EventShapes) /\ Len(<<Done>>) = 1 /\ <<Done>>[1] = Done
    BY <1>3
<1>6. \A k \in 1..1 : Events(ds, calls)[k] = <<Done>>[k]
    BY <1>4, <1>5
<1>7. Events(ds, calls) = <<Done>>
    BY <1>1, <1>4, <1>5, <1>6, SeqEqual
<1> QED
    BY <1>7

\* There is always an event.
LEMMA EventsLeft ==
    ASSUME NEW ds \in Texts, NEW calls \in Seq(ToolShapes)
    PROVE  Events(ds, calls) # <<>>
<1>1. Events(ds, calls) \in Seq(EventShapes) /\ Len(Events(ds, calls)) = Len(ds) + Len(calls) + 1
    BY EventsAre
<1>2. Len(ds) \in Nat /\ Len(calls) \in Nat
    BY DEF Texts
<1> QED
    BY <1>1, <1>2, EmptySeq

----------------------------------------------------------------------------
(* The invariant of a call.                                                *)

\* The pieces that were read.
Got == SubSeq(text, 1, pos)

\* The provider sends whole lines; only the last may be cut off.
TextOK ==
    /\ text \in Seq(Pieces) /\ pos \in 0..Len(text) /\ Len(text) <= 3 * MaxLines
    /\ Split(text) = EndedOf(text)
    /\ wire = "open" => Rest(text) = <<>> /\ \E k \in 0..MaxLines : Len(text) = 3 * k

\* What the decoder keeps is what the pieces it has read say.
DecoderOK ==
    /\ buffer = Rest(Got)
    /\ deltas = Contents(Split(Got))
    /\ entries = MergeAll(<<>>, Fragments(Split(Got)))
    /\ ~HasBad(Split(Got))

Results == [content : Texts, calls : Seq(ToolShapes)]

ShapesOK ==
    /\ pc \in {"resolve", "fetch", "read", "yield", "over", "failed"}
    /\ wire \in {"open", "ended", "broken"}
    /\ result \in Results
    /\ round \in [deltas : Texts, calls : Seq(ToolShapes), result : Results]

\* Before the answer is whole nothing is passed on.
QuietOK ==
    /\ pc \in {"resolve", "fetch", "read", "failed"} =>
         events = <<>> /\ round.deltas = <<>> /\ round.calls = <<>>
    /\ pc \in {"resolve", "fetch"} => wire = "open"

\* An answer is whole when it is yielded.
ResultOK ==
    pc \in {"yield", "over"} =>
      /\ wire # "broken"
      /\ wire = "ended" =>
           pos = Len(text) /\ result = [content |-> deltas, calls |-> ToolCalls(entries)]

\* The events of a stream; a whole answer has its result only.
Deltas == IF wire = "ended" THEN result.content ELSE <<>>

Found == IF wire = "ended" THEN result.calls ELSE <<>>

\* What runChat received and what is to come is all there is.
Pending ==
    \E i \in 0..Len(Deltas), j \in 0..Len(Found) :
      /\ events = Events(After(Deltas, i), After(Found, j))
      /\ round.deltas = SubSeq(Deltas, 1, i)
      /\ round.calls = SubSeq(Found, 1, j)

Whole ==
    events = <<>> /\ round.deltas = Deltas /\ round.calls = Found /\ round.result = result

YieldOK ==
    /\ pc = "yield" => Pending \/ Whole
    /\ pc = "over" =>
         round.deltas = Deltas /\ round.calls = result.calls /\ round.result = result

StreamInv == TextOK /\ DecoderOK /\ ShapesOK /\ QuietOK /\ ResultOK /\ YieldOK

\* Reading more adds the pieces to those that were read; sending more does not change them.
LEMMA GotGrows ==
    ASSUME NEW t \in Seq(Pieces), NEW p \in 0..Len(t)
    PROVE  /\ SubSeq(t, 1, p) \in Seq(Pieces)
           /\ \A n \in 1..(Len(t) - p) :
                /\ SubSeq(t, p + 1, p + n) \in Seq(Pieces)
                /\ SubSeq(t, 1, p + n) = SubSeq(t, 1, p) \o SubSeq(t, p + 1, p + n)
           /\ \A s \in Seq(Pieces) : SubSeq(t \o s, 1, p) = SubSeq(t, 1, p)
<1>1. SubSeq(t, 1, p) \in Seq(Pieces) /\ Len(SubSeq(t, 1, p)) = p
    BY ElementOfSeq
<1>2. ASSUME NEW n \in 1..(Len(t) - p)
      PROVE  /\ SubSeq(t, p + 1, p + n) \in Seq(Pieces)
             /\ SubSeq(t, 1, p + n) = SubSeq(t, 1, p) \o SubSeq(t, p + 1, p + n)
    <2>1. SubSeq(t, p + 1, p + n) \in Seq(Pieces)
        BY ElementOfSeq
    <2>2. SubSeq(t, 1, p + n) = SubSeq(t, 1, p) \o SubSeq(t, p + 1, p + n)
        <3>1. 1 \in 1..(Len(t) + 1) /\ p \in (1 - 1)..Len(t) /\ p + n \in p..Len(t)
            OBVIOUS
        <3> QED
            BY <3>1, ConcatAdjacentSubSeq
    <2> QED
        BY <2>1, <2>2
<1>3. ASSUME NEW s \in Seq(Pieces) PROVE SubSeq(t \o s, 1, p) = SubSeq(t, 1, p)
    <2> DEFINE a == SubSeq(t \o s, 1, p)
               b == SubSeq(t, 1, p)
               ts == t \o s
    <2>1. ts \in Seq(Pieces) /\ Len(ts) = Len(t) + Len(s) /\ \A k \in 1..Len(t) : ts[k] = t[k]
        OBVIOUS
    <2> HIDE DEF ts
    <2>2. SubSeq(ts, 1, p) \in Seq(Pieces) /\ Len(SubSeq(ts, 1, p)) = p
          /\ \A k \in 1..p : SubSeq(ts, 1, p)[k] = ts[k]
        BY <2>1, ElementOfSeq
    <2>3. b \in Seq(Pieces) /\ Len(b) = p /\ \A k \in 1..p : b[k] = t[k]
        BY ElementOfSeq
    <2> HIDE DEF b
    <2>4. \A k \in 1..p : SubSeq(ts, 1, p)[k] = b[k]
        BY <2>1, <2>2, <2>3
    <2>5. SubSeq(ts, 1, p) = b
        BY <2>2, <2>3, <2>4, SeqEqual
    <2> QED
        BY <2>5 DEF b, ts
<1> QED
    BY <1>1, <1>2, <1>3

\* What the decoder has kept is enough to go on with.
LEMMA DecodeMore ==
    ASSUME NEW got \in Seq(Pieces), NEW t \in Seq(Pieces)
    PROVE  LET lines == Split(Rest(got) \o t) IN
           /\ Rest(got \o t) = Rest(Rest(got) \o t)
           /\ Contents(Split(got \o t)) = Contents(Split(got)) \o Contents(lines)
           /\ MergeAll(<<>>, Fragments(Split(got \o t))) =
                MergeAll(MergeAll(<<>>, Fragments(Split(got))), Fragments(lines))
           /\ ~HasBad(Split(got)) /\ ~HasBad(lines) => ~HasBad(Split(got \o t))
<1> DEFINE lines == Split(Rest(got) \o t)
           old == Split(got)
<1>1. Rest(got \o t) = Rest(Rest(got) \o t)
    BY RestResumes
<1>2. Split(got \o t) = old \o lines
    BY SplitEnded
<1>3. old \in Seq(LineShapes) /\ lines \in Seq(LineShapes)
    <2>1. Rest(got) \in Seq(Pieces)
        BY RestIs
    <2>2. Rest(got) \o t \in Seq(Pieces)
        BY <2>1, ConcatProperties
    <2> QED
        BY <2>2, SplitTyped
<1> HIDE DEF old, lines
<1>4. Contents(old \o lines) = Contents(old) \o Contents(lines)
    BY <1>3, ContentsJoin
<1>5. Fragments(old) \in Seq(CallShapes) /\ Fragments(lines) \in Seq(CallShapes)
      /\ Fragments(old \o lines) = Fragments(old) \o Fragments(lines)
    BY <1>3, FragmentsJoin
<1>6. MergeAll(<<>>, Fragments(old) \o Fragments(lines)) =
        MergeAll(MergeAll(<<>>, Fragments(old)), Fragments(lines))
    BY <1>5, MergeJoin
<1>7. ~HasBad(old) /\ ~HasBad(lines) => ~HasBad(old \o lines)
    <2> SUFFICES ASSUME ~HasBad(old), ~HasBad(lines), NEW n \in DOMAIN (old \o lines)
                 PROVE  (old \o lines)[n].kind # "bad"
        BY DEF HasBad
    <2>1. CASE n \in 1..Len(old)
        <3>1. n \in DOMAIN old /\ (old \o lines)[n] = old[n]
            BY <1>3, <2>1
        <3> QED
            BY <3>1 DEF HasBad
    <2>2. CASE n \notin 1..Len(old)
        <3>1. n - Len(old) \in DOMAIN lines /\ (old \o lines)[n] = lines[n - Len(old)]
            BY <1>3, <2>2
        <3> QED
            BY <3>1 DEF HasBad
    <2> QED
        BY <2>1, <2>2
<1> QED
    BY <1>1, <1>2, <1>4, <1>5, <1>6, <1>7 DEF old, lines

\* Nothing was read of nothing, and that says nothing.
LEMMA NothingSaid ==
    /\ Contents(<<>>) = <<>> /\ Fragments(<<>>) = <<>> /\ ~HasBad(<<>>)
    /\ MergeAll(<<>>, Fragments(<<>>)) = <<>>
<1>1. ContentPlaces(<<>>) = {} /\ ChunkPlaces(<<>>) = {}
    BY DEF ContentPlaces, ChunkPlaces
<1>2. Chosen(<<>>, ContentPlaces(<<>>)) = <<>> /\ Chosen(<<>>, ChunkPlaces(<<>>)) = <<>>
    BY <1>1, ChosenNone
<1>3. Contents(<<>>) = [n \in DOMAIN <<>> |-> <<>>[n].content]
    BY <1>2 DEF Contents, ContentPlaces
<1>4. Fragments(<<>>) = FlattenSeq([n \in DOMAIN <<>> |-> <<>>[n].calls])
    BY <1>2 DEF Fragments, ChunkPlaces
<1>5. [n \in DOMAIN <<>> |-> <<>>[n].content] = <<>> /\ [n \in DOMAIN <<>> |-> <<>>[n].calls] = <<>>
    OBVIOUS
<1>6. Fragments(<<>>) = <<>>
    BY <1>4, <1>5, FlattenNone
<1>7. ~HasBad(<<>>)
    BY DEF HasBad
<1>8. MergeAll(<<>>, <<>>) = <<>>
    BY MergeNone
<1> QED
    BY <1>3, <1>5, <1>6, <1>7, <1>8

\* A call starts with nothing read.
LEMMA StreamStarts == StreamInit => StreamInv
<1> SUFFICES ASSUME StreamInit PROVE StreamInv
    OBVIOUS
<1> USE DEF StreamInit
<1>1. Got = <<>>
    BY SubSeqEmpty, SplitEmpty DEF Got
<1>2. TextOK
    <2>1. text = <<>> /\ <<>> \in Seq(Pieces) /\ Len(<<>>) = 0
        OBVIOUS
    <2>2. MaxLines \in Nat /\ pos = 0
        BY LineAssumption DEF LineAssumption
    <2>3. pos \in 0..Len(text) /\ Len(text) <= 3 * MaxLines
        BY <2>1, <2>2
    <2>4. Split(text) = EndedOf(text) /\ Rest(text) = <<>>
        BY SplitEmpty, EndedNone
    <2>5. 0 \in 0..MaxLines /\ Len(text) = 3 * 0
        BY <2>1, <2>2
    <2> QED
        BY <2>1, <2>3, <2>4, <2>5 DEF TextOK
<1>3. DecoderOK
    BY <1>1, SplitEmpty, NothingSaid DEF DecoderOK
<1>4. ShapesOK /\ QuietOK /\ ResultOK /\ YieldOK
    BY DEF ShapesOK, QuietOK, ResultOK, YieldOK, Results, NoResult, Texts
<1> QED
    BY <1>2, <1>3, <1>4 DEF StreamInv

\* Another line, or a part of one, changes nothing of what was read.
LEMMA MoreText ==
    ASSUME StreamInv, pc = "read", NEW s \in Seq(Pieces), text' = text \o s,
           UNCHANGED <<pc, decoder, result, events, round>>
    PROVE  /\ DecoderOK' /\ QuietOK' /\ ResultOK' /\ YieldOK'
           /\ wire' \in {"open", "ended", "broken"} => ShapesOK'
<1>1. TextOK /\ DecoderOK /\ ShapesOK /\ QuietOK
    BY DEF StreamInv
<1>2. Got' = Got
    <2>1. text \in Seq(Pieces) /\ pos \in 0..Len(text) /\ pos' = pos
        BY <1>1 DEF TextOK, decoder
    <2>2. SubSeq(text \o s, 1, pos) = SubSeq(text, 1, pos)
        BY <2>1, GotGrows
    <2> QED
        BY <2>1, <2>2 DEF Got
<1>3. DecoderOK'
    BY <1>1, <1>2 DEF DecoderOK, decoder
<1>4. QuietOK' /\ ResultOK' /\ YieldOK'
    BY <1>1 DEF QuietOK, ResultOK, YieldOK
<1>5. wire' \in {"open", "ended", "broken"} => ShapesOK'
    BY <1>1 DEF ShapesOK
<1> QED
    BY <1>3, <1>4, <1>5

\* The provider sends a line.
LEMMA SendKept == StreamInv /\ Send => StreamInv'
<1> SUFFICES ASSUME StreamInv, Send PROVE StreamInv'
    OBVIOUS
<1>1. PICK l \in Lines : text' = text \o Parts(l, 3)
    BY DEF Send
<1>2. l \in LineShapes /\ MaxLines \in Nat
    BY LineAssumption DEF LineAssumption
<1> DEFINE s == Parts(l, 3)
<1>3. s \in Seq(Pieces) /\ Split(s) = <<l>> /\ Rest(s) = <<>>
    BY <1>2, WholeLine
<1>4. Len(s) = 3
    BY DEF Parts
<1>5. pc = "read" /\ wire = "open" /\ wire' = wire /\ Len(text) < 3 * MaxLines
      /\ UNCHANGED <<pc, decoder, result, events, round>>
    BY DEF Send, RoomLeft
<1> HIDE DEF s
<1>6. text' = text \o s
    BY <1>1 DEF s
<1>7. TextOK
    BY DEF StreamInv
<1>8. text \in Seq(Pieces) /\ Rest(text) = <<>>
    BY <1>5, <1>7 DEF TextOK
<1>9. PICK k \in 0..MaxLines : Len(text) = 3 * k
    BY <1>5, <1>7 DEF TextOK
<1>10. text \o s \in Seq(Pieces) /\ Len(text \o s) = Len(text) + 3
    <2>1. s \in Seq(Pieces) /\ text \in Seq(Pieces)
        BY <1>3, <1>8
    <2>2. text \o s \in Seq(Pieces) /\ Len(text \o s) = Len(text) + Len(s)
        BY <2>1, ConcatProperties
    <2> QED
        BY <1>4, <2>2
<1>11. k + 1 \in 0..MaxLines /\ Len(text') = 3 * (k + 1) /\ Len(text') <= 3 * MaxLines
    BY <1>2, <1>5, <1>6, <1>9, <1>10
<1>12. Rest(text) \o s = s
    BY <1>3, <1>8, ConcatEmptySeq
<1>13. Split(text \o s) = EndedOf(text \o s)
    <2>1. Split(text \o s) = Split(text) \o <<l>>
        BY ZenonT(30), <1>3, <1>8, <1>12, SplitEnded
    <2>2. Split(text) \o <<l>> = Append(Split(text), l)
        <3>1. Split(text) \in Seq(LineShapes)
            BY <1>8, SplitTyped
        <3> QED
            BY <1>2, <3>1, AppendIsConcat
    <2>3. EndedOf(text \o s) = Append(EndedOf(text), l)
        BY <1>2, <1>8, EndedWhole DEF s
    <2>4. Split(text) = EndedOf(text)
        BY <1>7 DEF TextOK
    <2> QED
        BY <2>1, <2>2, <2>3, <2>4
<1>14. Rest(text \o s) = <<>>
    BY <1>3, <1>8, <1>12, RestResumes
<1>15. pos' \in 0..Len(text')
    <2>1. pos \in 0..Len(text) /\ pos' = pos /\ Len(text) \in Nat
        BY <1>5, <1>7, <1>8 DEF TextOK, decoder
    <2> QED
        BY <1>6, <1>10, <2>1
<1>16. TextOK'
    BY <1>6, <1>10, <1>11, <1>13, <1>14, <1>15 DEF TextOK
<1>17. DecoderOK' /\ QuietOK' /\ ResultOK' /\ YieldOK' /\ ShapesOK'
    BY <1>3, <1>5, <1>6, MoreText
<1> QED
    BY <1>16, <1>17 DEF StreamInv

\* The response ends, perhaps within a line.
LEMMA EndKept == StreamInv /\ End => StreamInv'
<1> SUFFICES ASSUME StreamInv, End PROVE StreamInv'
    OBVIOUS
<1>1. pc = "read" /\ wire = "open" /\ wire' = "ended"
      /\ UNCHANGED <<pc, decoder, result, events, round>>
    BY DEF End
<1>2. TextOK /\ text \in Seq(Pieces) /\ pos \in 0..Len(text) /\ Split(text) = EndedOf(text)
    BY DEF StreamInv, TextOK
<1>3. PICK s \in Seq(Pieces) : /\ text' = text \o s /\ Ends(s) = {}
                               /\ Len(text) + Len(s) <= 3 * MaxLines
    <2>1. CASE UNCHANGED text
        <3>1. text \o <<>> = text
            BY <1>2, ConcatEmptySeq
        <3>2. Len(text) + Len(<<>>) <= 3 * MaxLines
            BY <1>2 DEF TextOK
        <3> QED
            BY <2>1, <3>1, <3>2, SplitEmpty
    <2>2. CASE RoomLeft /\ \E l \in Lines, n \in 1..2 : text' = text \o Parts(l, n)
        <3>1. PICK l \in Lines, n \in 1..2 : text' = text \o Parts(l, n)
            BY <2>2
        <3>2. l \in LineShapes /\ MaxLines \in Nat
            BY LineAssumption DEF LineAssumption
        <3>3. Parts(l, n) \in Seq(Pieces) /\ Len(Parts(l, n)) = n /\ Ends(Parts(l, n)) = {}
            BY <3>2, CutLine
        <3>4. PICK k \in 0..MaxLines : Len(text) = 3 * k
            BY <1>1, <1>2 DEF TextOK
        <3>5. Len(text) + n <= 3 * MaxLines
            <4>1. 3 * k < 3 * MaxLines
                BY <2>2, <3>4 DEF RoomLeft
            <4> QED
                BY <3>2, <3>4, <4>1
        <3> QED
            BY <3>1, <3>3, <3>5
    <2> QED
        BY <2>1, <2>2 DEF End
<1>4. text \o s \in Seq(Pieces) /\ Len(text \o s) = Len(text) + Len(s)
    BY <1>2, <1>3, ConcatProperties
<1>5. Split(text \o s) = Split(text)
    <2>1. Split(text \o s) = Split(text) \o Split(Rest(text) \o s)
        BY <1>2, SplitEnded
    <2>2. Rest(text) \o s = s
        <3>1. Rest(text) = <<>>
            BY <1>1, <1>2 DEF TextOK
        <3> QED
            BY <3>1, ConcatEmptySeq
    <2>3. Split(s) = <<>>
        BY <1>3, SplitNone
    <2>4. Split(text) \o <<>> = Split(text)
        <3>1. Split(text) \in Seq(LineShapes)
            BY <1>2, SplitTyped
        <3> QED
            BY <3>1, ConcatEmptySeq
    <2> QED
        BY <2>1, <2>2, <2>3, <2>4
<1>6. EndedOf(text \o s) = EndedOf(text)
    BY <1>2, <1>3, EndedCut
<1>7. pos' \in 0..Len(text')
    <2>1. pos' = pos /\ Len(text) \in Nat /\ Len(s) \in Nat
        BY <1>1, <1>2 DEF decoder
    <2> QED
        BY <1>2, <1>3, <1>4, <2>1
<1>8. Len(text') <= 3 * MaxLines
    BY <1>3, <1>4
<1>9. TextOK'
    BY <1>1, <1>2, <1>3, <1>4, <1>5, <1>6, <1>7, <1>8 DEF TextOK
<1>10. DecoderOK' /\ QuietOK' /\ ResultOK' /\ YieldOK' /\ ShapesOK'
    BY <1>1, <1>3, MoreText
<1> QED
    BY <1>9, <1>10 DEF StreamInv

\* Nothing that was sent or read changes in the other steps.
LEMMA SameText ==
    ASSUME StreamInv, UNCHANGED <<text, decoder>>, wire' = "open" => wire = "open"
    PROVE  TextOK' /\ DecoderOK'
<1>1. Got' = Got
    BY DEF Got, decoder
<1> QED
    BY <1>1 DEF StreamInv, TextOK, DecoderOK, decoder

\* The response breaks off.
LEMMA BreakKept == StreamInv /\ Break => StreamInv'
<1> SUFFICES ASSUME StreamInv, Break PROVE StreamInv'
    OBVIOUS
<1>1. TextOK' /\ DecoderOK'
    BY SameText DEF Break
<1>2. ShapesOK' /\ QuietOK' /\ ResultOK' /\ YieldOK'
    BY DEF Break, StreamInv, ShapesOK, QuietOK, ResultOK, YieldOK
<1> QED
    BY <1>1, <1>2 DEF StreamInv

\* A call that fails before it yields has passed nothing on.
LEMMA FailKept == StreamInv /\ pc \in {"resolve", "fetch", "read"} /\ StreamFails => StreamInv'
<1> SUFFICES ASSUME StreamInv, pc \in {"resolve", "fetch", "read"}, StreamFails PROVE StreamInv'
    OBVIOUS
<1>1. TextOK' /\ DecoderOK'
    BY SameText DEF StreamFails, network
<1>2. ShapesOK' /\ QuietOK' /\ ResultOK' /\ YieldOK'
    BY DEF StreamFails, network, StreamInv, ShapesOK, QuietOK, ResultOK, YieldOK
<1> QED
    BY <1>1, <1>2 DEF StreamInv

\* A provider is found, and answers with a stream.
LEMMA OpenKept == StreamInv /\ (Resolve \/ FetchStream) => StreamInv'
<1> SUFFICES ASSUME StreamInv, Resolve \/ FetchStream PROVE StreamInv'
    OBVIOUS
<1>1. CASE StreamFails
    BY <1>1, FailKept DEF Resolve, FetchStream
<1>2. CASE /\ pc \in {"resolve", "fetch"} /\ pc' \in {"fetch", "read"}
           /\ UNCHANGED <<network, decoder, result, events, round>>
    <2>1. TextOK' /\ DecoderOK'
        BY <1>2, SameText DEF network
    <2>2. ShapesOK' /\ QuietOK' /\ ResultOK' /\ YieldOK'
        BY <1>2 DEF network, StreamInv, ShapesOK, QuietOK, ResultOK, YieldOK
    <2> QED
        BY <2>1, <2>2 DEF StreamInv
<1> QED
    BY <1>1, <1>2 DEF Resolve, FetchStream

\* A whole answer is yielded as its result, and nothing before it.
LEMMA CompleteKept == StreamInv /\ CompleteChat => StreamInv'
<1> SUFFICES ASSUME StreamInv, CompleteChat PROVE StreamInv'
    OBVIOUS
<1>1. pc = "fetch" /\ wire = "open" /\ ShapesOK /\ QuietOK
    BY DEF CompleteChat, StreamInv, QuietOK
<1>2. CASE StreamFails
    BY <1>1, <1>2, FailKept
<1>3. ASSUME NEW body \in Lines, body.kind = "chunk",
             pc' = "yield", events' = <<Done>>, UNCHANGED <<network, decoder, round>>,
             result' = [content |-> Contents(<<body>>),
                        calls |-> ToolCalls([n \in DOMAIN body.calls |->
                                               [body.calls[n] EXCEPT !.index = n - 1]])]
      PROVE  StreamInv'
    <2>1. body \in LineShapes
        BY LineAssumption DEF LineAssumption
    <2>2. Contents(<<body>>) \in Texts
        <3>1. <<body>> \in Seq(LineShapes)
            BY <2>1
        <3> QED
            BY <3>1, ContentsTyped DEF Texts
    <2> DEFINE calls == [n \in DOMAIN body.calls |-> [body.calls[n] EXCEPT !.index = n - 1]]
    <2>3. calls \in Seq(Entries)
        <3>1. body.calls \in Seq(CallShapes)
            BY <2>1 DEF LineShapes
        <3> DEFINE entry(n) == [body.calls[n] EXCEPT !.index = n - 1]
        <3>2. ASSUME NEW n \in 1..Len(body.calls) PROVE entry(n) \in Entries
            <4>1. body.calls[n] \in CallShapes
                BY <3>1, ElementOfSeq
            <4>2. n - 1 \in Nat
                BY <3>1
            <4> QED
                BY SMTT(30), <4>1, <4>2 DEF CallShapes, Entries
        <3>3. calls = [n \in DOMAIN body.calls |-> entry(n)]
            OBVIOUS
        <3>4. DOMAIN body.calls = 1..Len(body.calls) /\ Len(body.calls) \in Nat
            BY <3>1
        <3> HIDE DEF entry, calls
        <3> QED
            BY <3>2, <3>3, <3>4
    <2> HIDE DEF calls
    <2>4. ToolCalls(calls) \in Seq(ToolShapes)
        BY <2>3, ToolCallsTyped
    <2>5. result' \in Results
        BY <1>3, <2>2, <2>4 DEF Results, calls
    <2>6. TextOK' /\ DecoderOK' /\ wire' = "open"
        BY <1>1, <1>3, SameText DEF network
    <2>7. ShapesOK' /\ QuietOK' /\ ResultOK'
        BY <1>1, <1>3, <2>5, <2>6 DEF ShapesOK, QuietOK, ResultOK
    <2>8. Deltas' = <<>> /\ Found' = <<>>
        BY <2>6 DEF Deltas, Found
    <2>9. Pending'
        <3>1. After(<<>>, 0) = <<>> /\ SubSeq(<<>>, 1, 0) = <<>>
            BY DEF After
        <3>2. <<>> \in Texts /\ <<>> \in Seq(ToolShapes) /\ Len(<<>>) = 0
            BY DEF Texts
        <3>3. events' = Events(After(<<>>, 0), After(<<>>, 0))
            BY <1>3, <3>1, <3>2, DoneLast
        <3>4. round'.deltas = <<>> /\ round'.calls = <<>>
            BY <1>1, <1>3 DEF QuietOK
        <3>5. 0 \in 0..Len(<<>>)
            BY <3>2
        <3> QED
            BY <2>8, <3>1, <3>3, <3>4, <3>5 DEF Pending
    <2>10. YieldOK'
        BY <1>3, <2>9 DEF YieldOK
    <2> QED
        BY <2>6, <2>7, <2>10 DEF StreamInv
<1> QED
    BY <1>2, <1>3 DEF CompleteChat

\* What is read is decoded as if it had come at once.
LEMMA ReadKept == StreamInv /\ Read => StreamInv'
<1> SUFFICES ASSUME StreamInv, Read PROVE StreamInv'
    OBVIOUS
<1>1. TextOK /\ DecoderOK /\ ShapesOK /\ QuietOK /\ pc = "read"
    BY DEF StreamInv, Read
<1>2. text \in Seq(Pieces) /\ pos \in 0..Len(text)
    BY <1>1 DEF TextOK
<1>3. PICK n \in 1..(Len(text) - pos) :
        LET buf   == buffer \o SubSeq(text, pos + 1, pos + n)
            lines == Split(buf)
        IN IF HasBad(lines) THEN StreamFails
           ELSE /\ pos' = pos + n
                /\ buffer' = Rest(buf)
                /\ deltas' = deltas \o Contents(lines)
                /\ entries' = MergeAll(entries, Fragments(lines))
                /\ UNCHANGED <<pc, network, result, events, round>>
    BY DEF Read, MergeAll
<1> DEFINE t     == SubSeq(text, pos + 1, pos + n)
           got   == Got
           buf   == Rest(got) \o t
           lines == Split(buf)
<1>4. CASE StreamFails
    BY <1>1, <1>4, FailKept
<1>5. CASE ~StreamFails
    <2>1. t \in Seq(Pieces) /\ got \in Seq(Pieces) /\ SubSeq(text, 1, pos + n) = got \o t
        BY <1>2, GotGrows DEF Got
    <2>2. buffer = Rest(got)
        BY <1>1 DEF DecoderOK
    <2>3. /\ ~HasBad(lines)
          /\ pos' = pos + n
          /\ buffer' = Rest(buf)
          /\ deltas' = deltas \o Contents(lines)
          /\ entries' = MergeAll(entries, Fragments(lines))
          /\ UNCHANGED <<pc, network, result, events, round>>
        BY <1>3, <1>5, <2>2
    <2>4. Got' = got \o t
        BY <2>1, <2>3 DEF Got, network
    <2> HIDE DEF t, got
    <2>5. /\ Rest(got \o t) = Rest(buf)
          /\ Contents(Split(got \o t)) = Contents(Split(got)) \o Contents(lines)
          /\ MergeAll(<<>>, Fragments(Split(got \o t))) =
               MergeAll(MergeAll(<<>>, Fragments(Split(got))), Fragments(lines))
          /\ ~HasBad(Split(got)) /\ ~HasBad(lines) => ~HasBad(Split(got \o t))
        BY <2>1, DecodeMore
    <2>6. /\ deltas = Contents(Split(got))
          /\ entries = MergeAll(<<>>, Fragments(Split(got)))
          /\ ~HasBad(Split(got))
        BY <1>1 DEF DecoderOK, got
    <2> HIDE DEF buf, lines
    <2>7. DecoderOK'
        BY <2>3, <2>4, <2>5, <2>6 DEF DecoderOK
    <2>8. pos + n \in 0..Len(text)
        BY <1>2
    <2>9. TextOK'
        BY <1>1, <2>3, <2>8 DEF TextOK, network
    <2>10. ShapesOK' /\ QuietOK' /\ ResultOK' /\ YieldOK'
        BY <1>1, <2>3 DEF ShapesOK, QuietOK, ResultOK, YieldOK, network
    <2> QED
        BY <2>7, <2>9, <2>10 DEF StreamInv
<1> QED
    BY <1>4, <1>5

\* The calls that were found are entries.
LEMMA FoundTyped ==
    ASSUME StreamInv
    PROVE  /\ Got \in Seq(Pieces) /\ Split(Got) \in Seq(LineShapes)
           /\ Fragments(Split(Got)) \in Seq(CallShapes)
           /\ deltas \in Texts /\ entries \in Seq(Entries)
<1>1. text \in Seq(Pieces) /\ pos \in 0..Len(text) /\ DecoderOK
    BY DEF StreamInv, TextOK
<1>2. Got \in Seq(Pieces)
    BY <1>1, GotGrows DEF Got
<1>3. Split(Got) \in Seq(LineShapes)
    BY <1>2, SplitTyped
<1>4. Fragments(Split(Got)) \in Seq(CallShapes)
    BY <1>3, FragmentsJoin
<1>5. Contents(Split(Got)) \in Texts
    BY <1>3, ContentsTyped DEF Texts
<1>6. MergeAll(<<>>, Fragments(Split(Got))) \in Seq(Entries)
    <2>1. <<>> \in Seq(Entries)
        OBVIOUS
    <2> QED
        BY <1>4, <2>1, MergeAllTyped
<1> QED
    BY <1>1, <1>2, <1>3, <1>4, <1>5, <1>6 DEF DecoderOK

\* A stream that ended is yielded from its first event on.
LEMMA DoneKept == StreamInv /\ ReadDone => StreamInv'
<1> SUFFICES ASSUME StreamInv, ReadDone PROVE StreamInv'
    OBVIOUS
<1>1. /\ pc = "read" /\ wire = "ended" /\ pos = Len(text) /\ pc' = "yield"
      /\ result' = [content |-> deltas, calls |-> ToolCalls(entries)]
      /\ events' = Events(deltas, result'.calls)
      /\ UNCHANGED <<network, decoder, round>>
    BY DEF ReadDone
<1>2. deltas \in Texts /\ ToolCalls(entries) \in Seq(ToolShapes)
    BY FoundTyped, ToolCallsTyped
<1> DEFINE calls == ToolCalls(entries)
<1>3. TextOK' /\ DecoderOK'
    BY <1>1, SameText DEF network
<1>4. ShapesOK' /\ QuietOK' /\ ResultOK'
    BY <1>1, <1>2 DEF StreamInv, ShapesOK, QuietOK, ResultOK, Results, network, decoder
<1>5. Deltas' = deltas /\ Found' = calls /\ events' = Events(deltas, calls)
    BY <1>1 DEF Deltas, Found, network
<1>6. round'.deltas = <<>> /\ round'.calls = <<>>
    BY <1>1 DEF StreamInv, QuietOK
<1> HIDE DEF calls
<1>7. calls \in Seq(ToolShapes)
    BY <1>2 DEF calls
<1>8. /\ After(deltas, 0) = deltas /\ After(calls, 0) = calls
      /\ SubSeq(deltas, 1, 0) = <<>> /\ SubSeq(calls, 1, 0) = <<>>
      /\ 0 \in 0..Len(deltas) /\ 0 \in 0..Len(calls)
    <2>1. After(deltas, 0) = deltas
        <3>1. deltas \in Seq(Strings \cup {Absent})
            BY <1>2 DEF Texts
        <3> QED
            BY <3>1, SubSeqFull DEF After
    <2>2. After(calls, 0) = calls
        BY <1>7, SubSeqFull DEF After
    <2>3. SubSeq(deltas, 1, 0) = <<>> /\ SubSeq(calls, 1, 0) = <<>>
        BY <1>2, <1>7, SubSeqEmpty
    <2>4. 0 \in 0..Len(deltas) /\ 0 \in 0..Len(calls)
        BY <1>2, <1>7 DEF Texts
    <2> QED
        BY <2>1, <2>2, <2>3, <2>4
<1>9. Pending'
    BY <1>5, <1>6, <1>8 DEF Pending
<1>10. YieldOK'
    BY <1>1, <1>9 DEF YieldOK
<1> QED
    BY <1>3, <1>4, <1>10 DEF StreamInv

\* runChat takes an event.
LEMMA ReceiveKept == StreamInv /\ Receive => StreamInv'
<1> SUFFICES ASSUME StreamInv, Receive PROVE StreamInv'
    OBVIOUS
<1> DEFINE event == Head(events)
           D == Deltas
           C == Found
<1>1. /\ pc = "yield" /\ events # <<>> /\ pc' = pc /\ events' = Tail(events)
      /\ UNCHANGED <<network, decoder, result>>
      /\ round' = CASE event.type = "delta"     -> [round EXCEPT !.deltas = Append(@, event.value)]
                    [] event.type = "tool_call" -> [round EXCEPT !.calls = Append(@, event.value)]
                    [] event.type = "done"      -> [round EXCEPT !.result = result]
    BY DEF Receive
<1>2. TextOK' /\ DecoderOK'
    BY <1>1, SameText DEF network
<1>3. QuietOK' /\ ResultOK'
    BY <1>1 DEF StreamInv, QuietOK, ResultOK, network, decoder
<1>4. D' = D /\ C' = C
    BY <1>1 DEF Deltas, Found, network
<1>5. D \in Texts /\ C \in Seq(ToolShapes)
    BY DEF StreamInv, ShapesOK, Results, Deltas, Found, Texts
<1>6. PICK i \in 0..Len(D), j \in 0..Len(C) :
        /\ events = Events(After(D, i), After(C, j))
        /\ round.deltas = SubSeq(D, 1, i)
        /\ round.calls = SubSeq(C, 1, j)
    BY <1>1 DEF StreamInv, YieldOK, Pending, Whole
<1>7. After(D, i) \in Texts /\ After(C, j) \in Seq(ToolShapes)
      /\ Len(After(D, i)) = Len(D) - i /\ Len(After(C, j)) = Len(C) - j
    <2>1. D \in Seq(Strings \cup {Absent})
        BY <1>5 DEF Texts
    <2>2. After(D, i) \in Seq(Strings \cup {Absent}) /\ Len(After(D, i)) = Len(D) - i
        BY <2>1, AfterIs
    <2>3. After(C, j) \in Seq(ToolShapes) /\ Len(After(C, j)) = Len(C) - j
        BY <1>5, AfterIs
    <2> QED
        BY <2>2, <2>3 DEF Texts
<1>8. /\ round \in [deltas : Texts, calls : Seq(ToolShapes), result : Results]
      /\ result \in Results /\ Len(D) \in Nat /\ Len(C) \in Nat
    BY <1>5 DEF StreamInv, ShapesOK, Texts
<1>9. /\ pc' \in {"resolve", "fetch", "read", "yield", "over", "failed"}
      /\ wire' \in {"open", "ended", "broken"} /\ result' \in Results
    BY <1>1 DEF StreamInv, ShapesOK, network
<1>10. CASE i # Len(D)
    <2> DEFINE x == D[i + 1]
    <2>1. event = [type |-> "delta", value |-> x] /\ Tail(events) = Events(After(D, i + 1), After(C, j))
        BY <1>5, <1>6, <1>7, <1>10, DeltaNext
    <2>2. x \in Strings \cup {Absent} /\ i + 1 \in 1..Len(D) /\ i + 1 \in 0..Len(D) /\ (i + 1) - 1 = i
        BY <1>5, <1>8, <1>10, ElementOfSeq DEF Texts
    <2>3. SubSeq(D, 1, i + 1) = Append(SubSeq(D, 1, i), x)
        <3>1. D \in Seq(Strings \cup {Absent}) /\ i + 1 \in 1..Len(D)
            BY <1>5, <2>2 DEF Texts
        <3>2. SubSeq(D, 1, i + 1) = Append(SubSeq(D, 1, (i + 1) - 1), D[i + 1])
            BY <3>1, FirstsAndOne
        <3> QED
            BY <2>2, <3>2
    <2> HIDE DEF event, D, C, x
    <2>4. round' = [round EXCEPT !.deltas = Append(round.deltas, x)]
        BY <1>1, <2>1
    <2>5. round' \in [deltas : Texts, calls : Seq(ToolShapes), result : Results]
          /\ round'.deltas = Append(round.deltas, x) /\ round'.calls = round.calls
        <3>1. Append(round.deltas, x) \in Texts
            BY <1>8, <2>2, AppendProperties DEF Texts
        <3> QED
            BY <1>8, <2>4, <3>1
    <2>6. Pending'
        <3>1. /\ i + 1 \in 0..Len(D') /\ j \in 0..Len(C')
              /\ events' = Events(After(D', i + 1), After(C', j))
              /\ round'.deltas = SubSeq(D', 1, i + 1)
              /\ round'.calls = SubSeq(C', 1, j)
            BY <1>1, <1>4, <1>6, <2>1, <2>2, <2>3, <2>5
        <3> QED
            BY <3>1 DEF Pending, D, C
    <2> QED
        BY <1>1, <1>2, <1>3, <1>9, <2>5, <2>6 DEF StreamInv, ShapesOK, YieldOK
<1>11. CASE i = Len(D) /\ j # Len(C)
    <2> DEFINE x == C[j + 1]
    <2>1. event = [type |-> "tool_call", value |-> x] /\ Tail(events) = Events(After(D, i), After(C, j + 1))
        <3>1. Len(After(D, i)) = 0
            BY <1>7, <1>8, <1>11
        <3> QED
            BY <1>5, <1>6, <1>7, <1>11, <3>1, CallNextEvent
    <2>2. x \in ToolShapes /\ j + 1 \in 1..Len(C) /\ j + 1 \in 0..Len(C) /\ (j + 1) - 1 = j
        BY <1>5, <1>8, <1>11, ElementOfSeq
    <2>3. SubSeq(C, 1, j + 1) = Append(SubSeq(C, 1, j), x)
        <3>1. C \in Seq(ToolShapes) /\ j + 1 \in 1..Len(C)
            BY <1>5, <2>2
        <3>2. SubSeq(C, 1, j + 1) = Append(SubSeq(C, 1, (j + 1) - 1), C[j + 1])
            BY <3>1, FirstsAndOne
        <3> QED
            BY <2>2, <3>2
    <2> HIDE DEF event, D, C, x
    <2>4. round' = [round EXCEPT !.calls = Append(round.calls, x)]
        BY <1>1, <2>1
    <2>5. round' \in [deltas : Texts, calls : Seq(ToolShapes), result : Results]
          /\ round'.calls = Append(round.calls, x) /\ round'.deltas = round.deltas
        <3>1. Append(round.calls, x) \in Seq(ToolShapes)
            BY <1>8, <2>2, AppendProperties
        <3> QED
            BY <1>8, <2>4, <3>1
    <2>6. Pending'
        <3>1. /\ i \in 0..Len(D') /\ j + 1 \in 0..Len(C')
              /\ events' = Events(After(D', i), After(C', j + 1))
              /\ round'.deltas = SubSeq(D', 1, i)
              /\ round'.calls = SubSeq(C', 1, j + 1)
            BY <1>1, <1>4, <1>6, <2>1, <2>2, <2>3, <2>5
        <3> QED
            BY <3>1 DEF Pending, D, C
    <2> QED
        BY <1>1, <1>2, <1>3, <1>9, <2>5, <2>6 DEF StreamInv, ShapesOK, YieldOK
<1>12. CASE i = Len(D) /\ j = Len(C)
    <2>1. events = <<Done>> /\ event = Done /\ Tail(events) = <<>>
        <3>1. Len(After(D, i)) = 0 /\ Len(After(C, j)) = 0
            BY <1>7, <1>8, <1>12
        <3>2. Events(After(D, i), After(C, j)) = <<Done>> /\ Head(<<Done>>) = Done /\ Tail(<<Done>>) = <<>>
            BY <1>7, <3>1, DoneLast
        <3> QED
            BY <1>6, <3>2
    <2>2. Done.type = "done"
        BY DEF Done
    <2>3. round' = [round EXCEPT !.result = result]
        BY <1>1, <2>1, <2>2
    <2>4. /\ round' \in [deltas : Texts, calls : Seq(ToolShapes), result : Results]
          /\ round'.deltas = round.deltas /\ round'.calls = round.calls /\ round'.result = result
        BY <1>8, <2>3
    <2>5. round.deltas = D /\ round.calls = C
        <3>1. D \in Seq(Strings \cup {Absent})
            BY <1>5 DEF Texts
        <3>2. SubSeq(D, 1, Len(D)) = D /\ SubSeq(C, 1, Len(C)) = C
            BY <1>5, <3>1, SubSeqFull
        <3> QED
            BY <1>6, <1>12, <3>2
    <2>6. Whole'
        BY <1>1, <1>4, <2>1, <2>4, <2>5 DEF Whole
    <2> QED
        BY <1>1, <1>2, <1>3, <1>9, <2>4, <2>6 DEF StreamInv, ShapesOK, YieldOK
<1> QED
    BY <1>10, <1>11, <1>12

\* The loop of runChat is over when it has received everything.
LEMMA FinishKept == StreamInv /\ Finish => StreamInv'
<1> SUFFICES ASSUME StreamInv, Finish PROVE StreamInv'
    OBVIOUS
<1>1. /\ pc = "yield" /\ events = <<>> /\ pc' = "over" /\ round' = [round EXCEPT !.calls = Round]
      /\ UNCHANGED <<network, decoder, result, events>>
    BY DEF Finish
<1>2. TextOK' /\ DecoderOK'
    BY <1>1, SameText DEF network
<1>3. Deltas \in Texts /\ Found \in Seq(ToolShapes)
    BY DEF StreamInv, ShapesOK, Results, Deltas, Found, Texts
<1>4. Whole
    <2>1. ASSUME Pending PROVE FALSE
        <3>1. PICK i \in 0..Len(Deltas), j \in 0..Len(Found) :
                events = Events(After(Deltas, i), After(Found, j))
            BY <2>1 DEF Pending
        <3>2. After(Deltas, i) \in Texts /\ After(Found, j) \in Seq(ToolShapes)
            <4>1. Deltas \in Seq(Strings \cup {Absent})
                BY <1>3 DEF Texts
            <4>2. After(Deltas, i) \in Seq(Strings \cup {Absent})
                BY <4>1, AfterIs
            <4>3. After(Found, j) \in Seq(ToolShapes)
                BY <1>3, AfterIs
            <4> QED
                BY <4>2, <4>3 DEF Texts
        <3> QED
            BY <1>1, <3>1, <3>2, EventsLeft
    <2> QED
        BY <1>1, <2>1 DEF StreamInv, YieldOK
<1>5. /\ round \in [deltas : Texts, calls : Seq(ToolShapes), result : Results]
      /\ result \in Results
    BY DEF StreamInv, ShapesOK
<1>6. Round = result.calls
    <2>1. CASE wire = "ended"
        <3>1. round.calls = result.calls /\ round.result = result
            BY <1>4, <2>1 DEF Whole, Found
        <3> QED
            BY <3>1 DEF Round
    <2>2. CASE wire # "ended"
        <3>1. round.calls = <<>> /\ round.result = result
            BY <1>4, <2>2 DEF Whole, Found
        <3> QED
            BY <3>1 DEF Round
    <2> QED
        BY <2>1, <2>2
<1>7. result.calls \in Seq(ToolShapes)
    BY <1>5 DEF Results
<1>8. /\ round' \in [deltas : Texts, calls : Seq(ToolShapes), result : Results]
      /\ round'.deltas = round.deltas /\ round'.calls = result.calls /\ round'.result = round.result
    BY <1>1, <1>5, <1>6, <1>7
<1>9. ShapesOK' /\ QuietOK' /\ ResultOK'
    BY <1>1, <1>8 DEF StreamInv, ShapesOK, QuietOK, ResultOK, network, decoder
<1>10. Deltas' = Deltas /\ result' = result
    BY <1>1 DEF Deltas, network
<1>11. YieldOK'
    BY <1>1, <1>4, <1>8, <1>10 DEF YieldOK, Whole
<1> QED
    BY <1>2, <1>9, <1>11 DEF StreamInv

\* Every step keeps the invariant.
LEMMA StreamKept == StreamInv /\ [StreamNext]_streamVars => StreamInv'
<1> SUFFICES ASSUME StreamInv, [StreamNext]_streamVars PROVE StreamInv'
    OBVIOUS
<1>1. CASE Send
    BY <1>1, SendKept
<1>2. CASE End
    BY <1>2, EndKept
<1>3. CASE Break
    BY <1>3, BreakKept
<1>4. CASE Resolve \/ FetchStream
    BY <1>4, OpenKept
<1>5. CASE CompleteChat
    BY <1>5, CompleteKept
<1>6. CASE Read
    BY <1>6, ReadKept
<1>7. CASE ReadBroken
    BY <1>7, FailKept DEF ReadBroken
<1>8. CASE ReadDone
    BY <1>8, DoneKept
<1>9. CASE Receive
    BY <1>9, ReceiveKept
<1>10. CASE Finish
    BY <1>10, FinishKept
<1>11. CASE UNCHANGED streamVars
    <2>1. TextOK' /\ DecoderOK'
        BY <1>11, SameText DEF streamVars, decoder
    <2>2. Deltas' = Deltas /\ Found' = Found
        BY <1>11 DEF streamVars, Deltas, Found
    <2>3. ShapesOK' /\ QuietOK' /\ ResultOK' /\ YieldOK'
        BY <1>11, <2>2
        DEF streamVars, StreamInv, ShapesOK, QuietOK, ResultOK, YieldOK, Pending, Whole
    <2> QED
        BY <2>1, <2>3 DEF StreamInv
<1> QED
    BY <1>1, <1>2, <1>3, <1>4, <1>5, <1>6, <1>7, <1>8, <1>9, <1>10, <1>11 DEF StreamNext, Client

\* What is kept of a line has no end, and what is kept of the calls is apart.
LEMMA StreamTyped == StreamInv => StreamTypeOK
<1> SUFFICES ASSUME StreamInv PROVE StreamTypeOK
    OBVIOUS
<1>1. TextOK /\ DecoderOK /\ ShapesOK
    BY DEF StreamInv
<1>2. Got \in Seq(Pieces) /\ Fragments(Split(Got)) \in Seq(CallShapes)
    BY FoundTyped
<1>3. buffer \in Seq(Pieces) /\ Ends(buffer) = {}
    BY <1>1, <1>2, RestIs DEF DecoderOK
<1>4. ASSUME NEW n \in DOMAIN buffer PROVE buffer[n].part \in 1..2
    <2>1. buffer[n] \in Pieces
        BY <1>3
    <2>2. buffer[n].part \in 1..3
        BY <2>1 DEF Pieces
    <2>3. buffer[n].part # 3
        BY <1>3 DEF Ends
    <2> QED
        BY <2>2, <2>3
<1>5. \A m, n \in DOMAIN entries : entries[m].index = entries[n].index => m = n
    <2> DEFINE fs == Fragments(Split(Got))
    <2>1. fs \in Seq(CallShapes) /\ entries = MergeAll(<<>>, fs)
        BY <1>1, <1>2 DEF DecoderOK
    <2> HIDE DEF fs
    <2>2. Describes(entries, fs)
        BY <2>1, MergeAllDescribes
    <2>3. \A j, k \in 1..Len(entries) : entries[j].index = entries[k].index => j = k
        BY <2>1, <2>2, EntriesApart
    <2>4. DOMAIN entries = 1..Len(entries)
        BY FoundTyped
    <2> QED
        BY <2>3, <2>4
<1> QED
    BY <1>1, <1>4, <1>5 DEF StreamTypeOK, TextOK, ShapesOK

\* What was read to the end is what was sent.
LEMMA StreamSaid == StreamInv => FramingIsIrrelevant
<1> SUFFICES ASSUME StreamInv PROVE FramingIsIrrelevant
    OBVIOUS
<1>1. StreamTypeOK
    BY StreamTyped
<1>2. ASSUME Streamed
      PROVE  /\ ~HasBad(EndedLines)
             /\ result = [content |-> Contents(EndedLines), calls |-> Meaning(Fragments(EndedLines))]
    <2>1. TextOK /\ DecoderOK
        BY DEF StreamInv
    <2>2. pos = Len(text) /\ result = [content |-> deltas, calls |-> ToolCalls(entries)]
        BY <1>2 DEF StreamInv, ResultOK, Streamed
    <2>3. Got = text
        <3>1. text \in Seq(Pieces)
            BY <2>1 DEF TextOK
        <3> QED
            BY <2>2, <3>1, SubSeqFull DEF Got
    <2>4. EndedLines = Split(Got)
        <3>1. EndedLines = EndedOf(text)
            BY DEF EndedLines, EndedOf
        <3> QED
            BY <2>1, <2>3, <3>1 DEF TextOK
    <2>5. Fragments(Split(Got)) \in Seq(CallShapes)
        BY FoundTyped
    <2>6. ToolCalls(entries) = Meaning(Fragments(Split(Got)))
        BY <2>1, <2>5, MeaningIsMerged DEF DecoderOK
    <2> QED
        BY <2>1, <2>2, <2>4, <2>6 DEF DecoderOK
<1> QED
    BY <1>1, <1>2 DEF FramingIsIrrelevant

(***************************************************************************)
(* However a stream is cut, what openAiStreamEvents takes from it is what  *)
(* the lines the provider ended mean.                                      *)
(***************************************************************************)
THEOREM TextIsRead == StreamSpec => []FramingIsIrrelevant
<1>1. StreamInit => StreamInv
    BY StreamStarts
<1>2. StreamInv /\ [StreamNext]_streamVars => StreamInv'
    BY StreamKept
<1>3. StreamInv => FramingIsIrrelevant
    BY StreamSaid
<1> QED
    BY <1>1, <1>2, <1>3, PTL DEF StreamSpec

(***************************************************************************)
(* runChat gets nothing of an answer that failed, and each tool call of    *)
(* any other once (streamChat, the receiving loop of runChat).             *)
(***************************************************************************)
THEOREM RoundIsWhole == StreamSpec => []AllOrNothing
<1>1. StreamInit => StreamInv
    BY StreamStarts
<1>2. StreamInv /\ [StreamNext]_streamVars => StreamInv'
    BY StreamKept
<1>3. StreamInv => AllOrNothing
    <2> SUFFICES ASSUME StreamInv PROVE AllOrNothing
        OBVIOUS
    <2>1. ASSUME pc = "failed" PROVE round.deltas = <<>> /\ round.calls = <<>>
        BY <2>1 DEF StreamInv, QuietOK
    <2>2. ASSUME pc = "over"
          PROVE  /\ wire # "broken"
                 /\ round.calls = round.result.calls
                 /\ round.result = result
                 /\ round.deltas # <<>> => round.deltas = result.content
        BY <2>2 DEF StreamInv, ResultOK, YieldOK, Deltas
    <2> QED
        BY <2>1, <2>2 DEF AllOrNothing
<1> QED
    BY <1>1, <1>2, <1>3, PTL DEF StreamSpec

=============================================================================
