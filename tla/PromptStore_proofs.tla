------------------------- MODULE PromptStore_proofs -------------------------
(***************************************************************************)
(* Proofs about PromptStore for any handlers, fragments, names, contents   *)
(* and keys, any calls and any bound on the versions.                      *)
(***************************************************************************)
EXTENDS PromptStore, FiniteSetTheorems, TLAPS

----------------------------------------------------------------------------
(* The inductive invariant.                                                *)

\* At most one.
One(S) == S = {} \/ \E x \in S : S = {x}

EditionOf(row) == [version |-> row.version, content |-> row.blob.content]

EditionRead(source) == [version |-> source.version, content |-> source.content]

\* There is a fragment from its first content on, its row is readable, holds a
\* content it is known to have had, and, wherever versions are to identify
\* contents, the newest version.  Over SQL a deleted row is disabled for good.
FragmentOK(f) ==
    /\ One(rows[f])
    /\ \A row \in rows[f] : /\ Opens(row.blob, row.name)
                            /\ EditionOf(row) \in past[f]
                            /\ ~memory /\ row.deleted => ~row.enabled
    /\ rows[f] = {} => past[f] = {}
    /\ \A i \in 1..Len(versions[f]) : versions[f][i].blob.key \in keys
    /\ memory \/ serial =>
          /\ \A e \in past[f], row \in rows[f] : e.version <= row.version
          /\ \A d, e \in past[f] : d.version = e.version => d.content = e.content

Creating(l) == l.call.kind = "create" /\ l.pc \in {"key", "makeKey", "insert"}

Updating(l) == l.call.kind = "update" /\ l.pc \in {"decrypt", "key", "makeKey", "write"}

Encrypts(call) == call.kind = "create" \/ Edits(call)

\* Where a request with the local state l stands, by what it asks for.
Stage(l) ==
    /\ l.pc = "insert" => l.call.kind = "create"
    /\ l.pc \in {"select", "write"} => l.call.kind = "update"
    /\ l.pc = "decrypt" => Edits(l.call)
    /\ l.pc \in {"key", "makeKey"} => l.call.kind = "compile" \/ Encrypts(l.call)
    /\ l.pc \in {"load", "compile", "read"} => l.call.kind \in {"compile", "preview"}
    /\ l.pc = "version" => ~memory
    /\ l.pc = "write" /\ memory => Edits(l.call)

\* What it encrypts is there in time, and so is a key that has been saved.
Equipped(l) ==
    /\ l.pc = "select" => l.content = l.call.content
    /\ l.pc \in {"key", "makeKey", "insert", "write"} /\ Encrypts(l.call)
          => l.content \in Contents
    /\ l.key \subseteq keys
    /\ l.pc \in {"insert", "write"} /\ Encrypts(l.call) => l.key # {}

\* The row it holds is one the fragment had; of requests one at a time, the one
\* it has.  Nobody else makes a row of a fresh id.
Holds(l) ==
    /\ One(l.row)
    /\ \A row \in l.row : /\ Opens(row.blob, row.name)
                          /\ EditionOf(row) \in past[l.fragment]
                          /\ memory \/ ~row.deleted
    /\ Creating(l) => rows[l.fragment] = {}
    /\ serial /\ Updating(l) => l.row = rows[l.fragment]

\* What a compilation has loaded and read are contents the fragments had.
Compiles(l) ==
    /\ \A s \in l.loaded \cup l.reading : EditionOf(s.row) \in past[s.id]
    /\ l.reading # {} => l.pc = "read"
    /\ memory /\ serial => \A s \in l.reading : rows[s.id] = {s.row}
    /\ ~memory \/ serial => \A s \in l.sources : EditionRead(s) \in past[s.fragment]

LocalOK(l) == Stage(l) /\ Equipped(l) /\ Holds(l) /\ Compiles(l)

\* Fresh ids are drawn apart, and of requests one at a time only one is on its way.
Apart ==
    \A g, h \in Handlers : g # h =>
        /\ ~ ( /\ Creating(handler[g]) /\ Creating(handler[h])
               /\ handler[g].fragment = handler[h].fragment )
        /\ serial => At(g, "idle") \/ At(h, "idle")

InHistory(f, e) ==
    \E i \in 1..Len(versions[f]) :
        versions[f][i].version = e.version /\ versions[f][i].blob.content = e.content

\* The request h is about to put the content e of f into the history.
AboutTo(h, f, e) ==
    /\ At(h, "version") /\ handler[h].fragment = f
    /\ \E row \in handler[h].row : EditionOf(row) = e

Recorded ==
    ~failed => \A f \in Fragments : \A e \in past[f] :
        InHistory(f, e) \/ \E h \in Handlers : AboutTo(h, f, e)

CompiledOK == ~memory \/ serial => \A s \in compiled : EditionRead(s) \in past[s.fragment]

StoreInv ==
    /\ TypeOK
    /\ \A f \in Fragments : FragmentOK(f)
    /\ \A h \in Handlers : LocalOK(handler[h])
    /\ Apart
    /\ Recorded
    /\ CompiledOK

LEMMA IdleOK == Idle \in HandlerType /\ Idle.pc = "idle" /\ LocalOK(Idle)
<1>1. (CHOOSE call \in Calls : TRUE) \in Calls /\ (CHOOSE f \in Fragments : TRUE) \in Fragments
    BY PromptAssumption
<1>2. Idle \in HandlerType /\ Idle.pc = "idle"
    BY <1>1 DEF Idle, HandlerType, Places
<1>3. /\ Idle.row = {} /\ Idle.loaded = {} /\ Idle.reading = {} /\ Idle.sources = {}
      /\ Idle.key = {}
    BY DEF Idle
<1> QED
    BY <1>2, <1>3 DEF LocalOK, Stage, Equipped, Holds, Compiles, One, Creating, Updating

LEMMA OneCounts ==
    ASSUME NEW S, One(S)
    PROVE  Cardinality(S) <= 1
<1>1. CASE S = {}
    BY <1>1, FS_EmptySet
<1>2. CASE \E x \in S : S = {x}
    <2>1. PICK x \in S : S = {x}
        BY <1>2
    <2>2. Cardinality({x}) = 1
        BY FS_Singleton
    <2> QED
        BY <2>1, <2>2
<1> QED
    BY <1>1, <1>2 DEF One

LEMMA StoreInit == Init => StoreInv
<1> SUFFICES ASSUME Init PROVE StoreInv
    OBVIOUS
<1>1. /\ \A f \in Fragments : rows[f] = {} /\ versions[f] = <<>> /\ past[f] = {}
      /\ \A h \in Handlers : handler[h] = Idle
    BY DEF Init
<1>2. \A f \in Fragments : Cardinality(rows[f]) <= 1
    BY <1>1, FS_EmptySet
<1>3. TypeOK
    <2>1. handler \in [Handlers -> HandlerType]
        BY IdleOK DEF Init
    <2>2. <<>> \in Seq([version : Nat \ {0}, blob : Blob])
        OBVIOUS
    <2>3. /\ rows \in [Fragments -> SUBSET RowType] /\ past \in [Fragments -> SUBSET Edition]
          /\ versions \in [Fragments -> Seq([version : Nat \ {0}, blob : Blob])]
        BY <2>2 DEF Init
    <2> QED
        BY <1>2, <2>1, <2>3 DEF Init, TypeOK
<1>4. \A f \in Fragments : FragmentOK(f)
    BY <1>1 DEF FragmentOK, One
<1>5. \A h \in Handlers : LocalOK(handler[h])
    BY <1>1, IdleOK
<1>6. Apart /\ Recorded /\ CompiledOK
    BY <1>1, IdleOK DEF Init, Apart, Recorded, CompiledOK, Creating, At
<1> QED
    BY <1>3, <1>4, <1>5, <1>6 DEF StoreInv

----------------------------------------------------------------------------
(* Steps.                                                                  *)

\* Moving one handler to a typed state keeps all handlers typed.
LEMMA HandlerMoved ==
    ASSUME TypeOK, NEW h \in Handlers, NEW l \in HandlerType,
           handler' = [handler EXCEPT ![h] = l]
    PROVE  /\ handler' \in [Handlers -> HandlerType]
           /\ handler'[h] = l
           /\ \A g \in Handlers : g # h => handler'[g] = handler[g]
BY DEF TypeOK

\* What a request knows stays true while keys and past contents only grow, no
\* row appears under its fresh id and, one at a time, rows stay while it is on
\* its way.
LEMMA LocalKept ==
    ASSUME NEW l \in HandlerType, LocalOK(l), UNCHANGED fixed, keys \subseteq keys',
           \A f \in Fragments : past[f] \subseteq past'[f],
           Creating(l) /\ rows[l.fragment] = {} => rows'[l.fragment] = {},
           serial /\ l.pc # "idle" => rows' = rows
    PROVE  LocalOK(l)'
<1>1. Stage(l)' /\ Equipped(l)'
    BY DEF LocalOK, Stage, Equipped, fixed
<1>2. l.fragment \in Fragments /\ l.loaded \cup l.reading \subseteq [id : Fragments, row : RowType]
      /\ l.sources \subseteq Source
    BY DEF HandlerType
<1>3. Holds(l)'
    BY <1>2 DEF LocalOK, Holds, Opens, Updating, Creating, fixed
<1>4. Compiles(l)'
    <2>1. \A s \in l.loaded \cup l.reading : s.id \in Fragments
        BY <1>2
    <2>2. \A s \in l.sources : s.fragment \in Fragments
        BY <1>2 DEF Source
    <2> QED
        BY <2>1, <2>2 DEF LocalOK, Compiles, fixed
<1> QED
    BY <1>1, <1>3, <1>4 DEF LocalOK

\* A fact about a local state is one about the handler that comes to be in it.
LEMMA LocalAt ==
    ASSUME NEW g \in Handlers, NEW l, l = handler'[g], LocalOK(l)'
    PROVE  LocalOK(handler[g])'
BY DEF LocalOK, Stage, Equipped, Holds, Compiles, Creating, Updating

\* A step of one handler that leaves the tables alone.
LEMMA MovedStep ==
    ASSUME StoreInv, NEW h \in Handlers, NEW l \in HandlerType,
           handler' = [handler EXCEPT ![h] = l],
           UNCHANGED <<tables, fixed, past, failed>>,
           LocalOK(l), ~At(h, "version"),
           Creating(l) => \/ Creating(handler[h]) /\ l.fragment = handler[h].fragment
                          \/ \A g \in Handlers : ~( /\ Creating(handler[g])
                                                    /\ handler[g].fragment = l.fragment ),
           At(h, "idle") /\ serial => \A g \in Handlers : At(g, "idle"),
           compiled' \subseteq Source, CompiledOK'
    PROVE  StoreInv'
<1>1. TypeOK /\ UNCHANGED <<rows, versions, keys, past, serial, memory, failed>>
    BY DEF StoreInv, tables, fixed
<1>2. /\ handler' \in [Handlers -> HandlerType] /\ handler'[h] = l
      /\ \A g \in Handlers : g # h => handler'[g] = handler[g]
    BY <1>1, HandlerMoved
<1>3. TypeOK'
    BY <1>1, <1>2 DEF TypeOK
<1>4. ASSUME NEW f \in Fragments PROVE FragmentOK(f)'
    BY <1>1 DEF StoreInv, FragmentOK, Opens
<1>5. ASSUME NEW g \in Handlers PROVE LocalOK(handler[g])'
    <2>1. PICK k \in HandlerType : k = handler'[g] /\ LocalOK(k)
        BY <1>2 DEF StoreInv
    <2>2. LocalOK(k)'
        BY <1>1, <2>1, LocalKept DEF fixed
    <2> QED
        BY <2>1, <2>2, LocalAt
<1>6. Apart'
    BY <1>1, <1>2 DEF StoreInv, Apart, At, Creating
<1>7. Recorded'
    BY <1>1, <1>2 DEF StoreInv, Recorded, InHistory, AboutTo, At
<1> QED
    BY <1>3, <1>4, <1>5, <1>6, <1>7 DEF StoreInv

\* What Store leaves of a request.
Written(h, row, place) ==
    IF place = "idle" THEN Idle
    ELSE [handler[h] EXCEPT !.row = {row}, !.pc = place, !.content = "none", !.key = {}]

\* A row is written, with the next version or with the content it had, and put
\* into the history at once or by the step that comes next.
LEMMA StoreStep ==
    ASSUME StoreInv, NEW h \in Handlers, NEW row \in RowType,
           NEW place \in {"version", "idle"},
           Store(h, handler[h].fragment, row, place),
           UNCHANGED <<keys, fixed, compiled, failed>>,
           handler[h].pc \in {"insert", "write", "select"},
           Opens(row.blob, row.name), memory \/ ~row.deleted,
           Creating(handler[h]) \/ rows[handler[h].fragment] # {},
           memory \/ serial =>
              \/ /\ EditionOf(row) \in past[handler[h].fragment]
                 /\ \A e \in past[handler[h].fragment] : e.version <= row.version
              \/ \A e \in past[handler[h].fragment] : e.version < row.version,
           place = "version" => ~memory /\ UNCHANGED versions,
           place = "idle" =>
              \/ UNCHANGED versions /\ EditionOf(row) \in past[handler[h].fragment]
              \/ Edited(handler[h].fragment, row)
    PROVE  StoreInv'
<1> DEFINE f == handler[h].fragment
           l == Written(h, row, place)
<1>1. /\ TypeOK /\ f \in Fragments /\ handler[h] \in HandlerType
      /\ LocalOK(handler[h]) /\ FragmentOK(f)
    BY DEF StoreInv, TypeOK, HandlerType
<1>2. UNCHANGED <<keys, serial, memory, compiled, failed, fixed>>
    BY DEF fixed
<1>3. EditionOf(row) \in Edition
    BY DEF RowType, Blob, Edition, EditionOf
<1>4. /\ rows' = [rows EXCEPT ![f] = {row}]
      /\ past' = [past EXCEPT ![f] = past[f] \cup {EditionOf(row)}]
      /\ handler' = [handler EXCEPT ![h] = l]
    BY <1>1 DEF Store, EditionOf, Written
<1>5. l \in HandlerType
    <2>1. CASE place = "idle"
        BY <2>1, IdleOK DEF Written
    <2>2. CASE place = "version"
        BY <1>1, <2>2 DEF Written, HandlerType, Places
    <2> QED
        BY <2>1, <2>2
<1>6. /\ place = "idle" => l = Idle
      /\ place = "version" =>
            /\ l.pc = "version" /\ l.row = {row} /\ l.fragment = f /\ l.content = "none"
            /\ l.key = {} /\ l.loaded = handler[h].loaded /\ l.reading = handler[h].reading
            /\ l.sources = handler[h].sources /\ l.call = handler[h].call
    BY <1>1 DEF Written, HandlerType
<1> HIDE DEF f, l
<1>7. /\ rows' \in [Fragments -> SUBSET RowType] /\ past' \in [Fragments -> SUBSET Edition]
      /\ rows'[f] = {row} /\ past'[f] = past[f] \cup {EditionOf(row)}
      /\ \A g \in Fragments : g # f => rows'[g] = rows[g] /\ past'[g] = past[g]
    BY <1>1, <1>3, <1>4 DEF TypeOK
<1>8. /\ handler' \in [Handlers -> HandlerType] /\ handler'[h] = l
      /\ \A g \in Handlers : g # h => handler'[g] = handler[g]
    BY <1>1, <1>4, <1>5, HandlerMoved
<1>9. /\ versions' \in [Fragments -> Seq([version : Nat \ {0}, blob : Blob])]
      /\ \A g \in Fragments : g # f => versions'[g] = versions[g]
      /\ \/ versions' = versions
         \/ /\ Len(versions'[f]) = Len(versions[f]) + 1 /\ Len(versions[f]) \in Nat
            /\ \A i \in 1..Len(versions[f]) : versions'[f][i] = versions[f][i]
            /\ versions'[f][Len(versions'[f])] = [version |-> row.version, blob |-> row.blob]
    <2>1. CASE UNCHANGED versions
        BY <1>1, <2>1 DEF TypeOK
    <2>2. CASE Edited(f, row)
        <3> DEFINE entry == [version |-> row.version, blob |-> row.blob]
                   Entries == [version : Nat \ {0}, blob : Blob]
        <3>1. entry \in Entries
            BY DEF RowType
        <3>2. /\ versions \in [Fragments -> Seq(Entries)]
              /\ versions' = [versions EXCEPT ![f] = Append(versions[f], entry)]
            BY <1>1, <2>2 DEF TypeOK, Edited
        <3> HIDE DEF entry, Entries
        <3>3. versions[f] \in Seq(Entries) /\ versions'[f] = Append(versions[f], entry)
            BY <1>1, <3>2
        <3>4. /\ Append(versions[f], entry) \in Seq(Entries)
              /\ Len(Append(versions[f], entry)) = Len(versions[f]) + 1
              /\ Len(versions[f]) \in Nat
              /\ \A i \in 1..Len(versions[f]) : Append(versions[f], entry)[i] = versions[f][i]
              /\ Append(versions[f], entry)[Len(versions[f]) + 1] = entry
            BY <3>1, <3>3
        <3>5. versions' \in [Fragments -> Seq(Entries)]
            BY <3>2, <3>4
        <3>6. \A g \in Fragments : g # f => versions'[g] = versions[g]
            BY <3>2
        <3> QED
            BY <3>3, <3>4, <3>5, <3>6 DEF entry, Entries
    <2> QED
        BY <2>1, <2>2 DEF f
<1>10. TypeOK'
    <2>1. \A g \in Fragments : One(rows'[g])
        BY <1>7 DEF StoreInv, FragmentOK, One
    <2> QED
        BY <1>1, <1>2, <1>7, <1>8, <1>9, <2>1, OneCounts DEF TypeOK
<1>11. ASSUME NEW g \in Fragments PROVE FragmentOK(g)'
    <2>1. CASE g # f
        <3>1. /\ FragmentOK(g) /\ rows'[g] = rows[g] /\ past'[g] = past[g]
              /\ versions'[g] = versions[g]
            BY <1>7, <1>9, <2>1 DEF StoreInv
        <3> QED
            BY <1>2, <3>1 DEF FragmentOK, Opens, One
    <2>2. CASE g = f
        <3>1. One(rows'[f])
            BY <1>7 DEF One
        <3>2. \A r \in rows'[f] : /\ Opens(r.blob, r.name)'
                                  /\ EditionOf(r) \in past'[f]
                                  /\ ~memory' /\ r.deleted => ~r.enabled
            BY <1>2, <1>7 DEF Opens
        <3>3. rows'[f] # {}
            BY <1>7
        <3>4. \A i \in 1..Len(versions'[f]) : versions'[f][i].blob.key \in keys'
            <4>1. /\ \A i \in 1..Len(versions[f]) : versions[f][i].blob.key \in keys
                  /\ row.blob.key \in keys /\ keys' = keys
                BY <1>1, <1>2 DEF FragmentOK, Opens
            <4>2. CASE versions' = versions
                BY <4>1, <4>2
            <4>3. CASE /\ Len(versions'[f]) = Len(versions[f]) + 1 /\ Len(versions[f]) \in Nat
                       /\ \A i \in 1..Len(versions[f]) : versions'[f][i] = versions[f][i]
                       /\ versions'[f][Len(versions'[f])].blob = row.blob
                <5> SUFFICES ASSUME NEW i \in 1..Len(versions'[f])
                             PROVE  versions'[f][i].blob.key \in keys'
                    OBVIOUS
                <5>1. i \in 1..Len(versions[f]) \/ i = Len(versions'[f])
                    BY <4>3
                <5> QED
                    BY <4>1, <4>3, <5>1
            <4> QED
                BY SMTT(30), <1>9, <4>2, <4>3
        <3>5. memory' \/ serial' =>
                /\ \A e \in past'[f], r \in rows'[f] : e.version <= r.version
                /\ \A d, e \in past'[f] : d.version = e.version => d.content = e.content
            <4>1. \A e \in past[f] : e.version \in Nat
                BY <1>1 DEF TypeOK, Edition
            <4>2. EditionOf(row).version = row.version /\ row.version \in Nat
                BY DEF EditionOf, RowType
            <4>3. memory \/ serial =>
                    \/ /\ EditionOf(row) \in past[f]
                       /\ \A e \in past[f] : e.version <= row.version
                    \/ \A e \in past[f] : e.version < row.version
                BY DEF f
            <4> QED
                BY <1>1, <1>2, <1>7, <4>1, <4>2, <4>3 DEF FragmentOK
        <3> QED
            BY <2>2, <3>1, <3>2, <3>3, <3>4, <3>5 DEF FragmentOK
    <2> QED
        BY <2>1, <2>2
<1>12. serial => \A g \in Handlers : g # h => At(g, "idle")
    BY DEF StoreInv, Apart, At
<1>13. ASSUME NEW g \in Handlers PROVE LocalOK(handler[g])'
    <2>1. CASE g # h
        <3>1. PICK k \in HandlerType : k = handler[g] /\ LocalOK(k)
            BY <1>1 DEF TypeOK, StoreInv
        <3>2. Creating(k) /\ rows[k.fragment] = {} => rows'[k.fragment] = {}
            BY <1>7, <2>1, <3>1 DEF StoreInv, Apart, f, HandlerType
        <3>3. serial => k.pc = "idle"
            BY <1>12, <2>1, <3>1 DEF At
        <3>4. \A e \in Fragments : past[e] \subseteq past'[e]
            BY <1>7
        <3>5. LocalOK(k)'
            BY <1>2, <3>1, <3>2, <3>3, <3>4, LocalKept
        <3> QED
            BY <1>8, <2>1, <3>1, <3>5, LocalAt
    <2>2. CASE g = h /\ place = "idle"
        <3>1. PICK k \in HandlerType : k = Idle
            BY IdleOK
        <3>2. LocalOK(k)'
            BY <3>1, IdleOK DEF Idle, LocalOK, Stage, Equipped, Holds, Compiles, One,
                Creating, Updating
        <3> QED
            BY <1>6, <1>8, <2>2, <3>1, <3>2, LocalAt
    <2>3. CASE g = h /\ place = "version"
        <3>1. PICK k \in HandlerType : k = l
            BY <1>5
        <3>2. ~memory
            BY <2>3
        <3>3. Stage(k)' /\ Equipped(k)'
            BY <1>2, <1>6, <2>3, <3>1, <3>2 DEF Stage, Equipped
        <3>4. Holds(k)'
            BY <1>2, <1>6, <1>7, <2>3, <3>1 DEF Holds, One, Opens, Creating, Updating
        <3>5. Compiles(k)'
            <4>1. Compiles(handler[h]) /\ handler[h].reading = {}
                BY <1>1 DEF LocalOK, Compiles
            <4>2. /\ \A s \in handler[h].loaded : s.id \in Fragments
                  /\ \A s \in handler[h].sources : s.fragment \in Fragments
                BY <1>1 DEF HandlerType, Source
            <4>3. \A e \in Fragments : past[e] \subseteq past'[e]
                BY <1>7
            <4> QED
                BY <1>2, <1>6, <2>3, <3>1, <3>2, <4>1, <4>2, <4>3 DEF Compiles
        <3>6. LocalOK(k)'
            BY <3>3, <3>4, <3>5 DEF LocalOK
        <3> QED
            BY <1>8, <2>3, <3>1, <3>6, LocalAt
    <2> QED
        BY <2>1, <2>2, <2>3
<1>14. Apart'
    <2>1. ~Creating(l)
        BY <1>6, IdleOK DEF Creating
    <2> QED
        BY <1>2, <1>8, <1>12, <2>1 DEF StoreInv, Apart, At, Creating
<1>15. Recorded'
    <2>1. SUFFICES ASSUME ~failed, NEW g \in Fragments, NEW e \in past'[g]
                   PROVE  InHistory(g, e)' \/ \E k \in Handlers : AboutTo(k, g, e)'
        BY <1>2 DEF Recorded
    <2>2. CASE e \in past[g]
        <3>1. CASE InHistory(g, e)
            <4>1. PICK i \in 1..Len(versions[g]) :
                    versions[g][i].version = e.version /\ versions[g][i].blob.content = e.content
                BY <3>1 DEF InHistory
            <4>2. i \in 1..Len(versions'[g]) /\ versions'[g][i] = versions[g][i]
                BY <1>9, <4>1
            <4> QED
                BY <4>1, <4>2 DEF InHistory
        <3>2. CASE \E k \in Handlers : AboutTo(k, g, e)
            <4>1. PICK k \in Handlers : AboutTo(k, g, e)
                BY <3>2
            <4>2. k # h
                BY <4>1 DEF AboutTo, At
            <4> QED
                BY <1>8, <4>1, <4>2 DEF AboutTo, At
        <3> QED
            BY <2>1, <2>2, <3>1, <3>2 DEF StoreInv, Recorded
    <2>3. CASE e \notin past[g]
        <3>1. g = f /\ e = EditionOf(row)
            BY <1>7, <2>1, <2>3
        <3>2. CASE place = "version"
            BY <1>6, <1>8, <3>1, <3>2 DEF AboutTo, At
        <3>3. CASE place = "idle"
            <4>1. Edited(f, row)
                BY <2>3, <3>1, <3>3 DEF f
            <4>2. versions'[g] = Append(versions[g], [version |-> row.version, blob |-> row.blob])
                BY <1>1, <3>1, <4>1 DEF Edited, TypeOK
            <4>3. Len(versions[g]) \in Nat
                BY <1>1, <3>1 DEF TypeOK
            <4>4. /\ Len(versions'[g]) = Len(versions[g]) + 1
                  /\ versions'[g][Len(versions[g]) + 1]
                       = [version |-> row.version, blob |-> row.blob]
                BY <1>1, <3>1, <4>2 DEF TypeOK
            <4>5. /\ Len(versions[g]) + 1 \in 1..Len(versions'[g])
                  /\ versions'[g][Len(versions[g]) + 1].version = e.version
                  /\ versions'[g][Len(versions[g]) + 1].blob.content = e.content
                BY <3>1, <4>3, <4>4 DEF EditionOf
            <4> QED
                BY <4>5 DEF InHistory
        <3> QED
            BY <3>2, <3>3
    <2> QED
        BY <2>2, <2>3
<1>16. CompiledOK'
    <2>1. \A s \in compiled : s.fragment \in Fragments
        BY <1>1 DEF TypeOK, Source
    <2> QED
        BY <1>2, <1>7, <2>1 DEF StoreInv, CompiledOK
<1> QED
    BY <1>10, <1>11, <1>13, <1>14, <1>15, <1>16 DEF StoreInv

----------------------------------------------------------------------------
(* The rows that are written.                                              *)

\* What is encrypted opens under the name it is encrypted for.
LEMMA EncryptOK ==
    ASSUME TypeOK, NEW h \in Handlers, LocalOK(handler[h]), NEW name \in Names,
           handler[h].pc \in {"insert", "write"}, Encrypts(handler[h].call)
    PROVE  /\ Encrypt(h, name) \in Blob
           /\ Opens(Encrypt(h, name), name)
           /\ Encrypt(h, name).content = handler[h].content
<1>1. /\ handler[h].content \in Contents /\ handler[h].key \subseteq keys
      /\ handler[h].key # {} /\ keys \subseteq Keys
    BY DEF LocalOK, Equipped, TypeOK
<1>2. (CHOOSE key \in handler[h].key : TRUE) \in handler[h].key
    BY <1>1
<1> QED
    BY <1>1, <1>2 DEF Encrypt, Blob, Opens

LEMMA NewRowOK ==
    ASSUME TypeOK, NEW h \in Handlers, LocalOK(handler[h]), handler[h].pc = "insert"
    PROVE  /\ NewRow(h) \in RowType /\ ~NewRow(h).deleted
           /\ Opens(NewRow(h).blob, NewRow(h).name)
<1>1. handler[h].call.kind = "create" /\ handler[h].call \in Calls
    BY DEF LocalOK, Stage, TypeOK, HandlerType
<1>2. handler[h].call.name \in Names
    BY <1>1, PromptAssumption DEF CallType
<1> DEFINE name == handler[h].call.name
<1>3. Encrypt(h, name) \in Blob /\ Opens(Encrypt(h, name), name)
    BY <1>1, <1>2, EncryptOK DEF Encrypts
<1> QED
    BY <1>2, <1>3 DEF NewRow, RowType

\* An edit gives the row its next version and a new ciphertext under its new
\* name; any other update leaves name, ciphertext and version as they were.
LEMMA UpdatedOK ==
    ASSUME TypeOK, NEW h \in Handlers, LocalOK(handler[h]),
           handler[h].call.kind = "update",
           NEW selected \in RowType, NEW row \in RowType,
           Edits(handler[h].call) => handler[h].pc = "write",
           ~Edits(handler[h].call) => selected = row /\ Opens(row.blob, row.name)
    PROVE  LET new == Updated(h, selected, row)
           IN  /\ new \in RowType /\ new.deleted = row.deleted
               /\ Opens(new.blob, new.name)
               /\ Edits(handler[h].call) => new.version = row.version + 1
               /\ ~Edits(handler[h].call) => /\ EditionOf(new) = EditionOf(row)
                                             /\ new.version = row.version
<1> DEFINE call == handler[h].call
           name == NextName(call, selected)
           enabled == NextEnabled(call, row)
<1>1. call \in CallType
    BY PromptAssumption DEF TypeOK, HandlerType
<1>2. name \in Names /\ enabled \in BOOLEAN
    BY <1>1 DEF NextName, NextEnabled, CallType, RowType
<1>3. CASE Edits(call)
    <2> DEFINE blob == Encrypt(h, name)
    <2>1. blob \in Blob /\ Opens(blob, name)
        BY <1>2, <1>3, EncryptOK DEF Encrypts
    <2>2. Updated(h, selected, row)
            = [row EXCEPT !.name = name, !.blob = blob, !.version = row.version + 1,
                          !.enabled = enabled]
        BY <1>3 DEF Updated
    <2> HIDE DEF blob, name, enabled
    <2>3. ASSUME NEW new,
                 new = [row EXCEPT !.name = name, !.blob = blob,
                                   !.version = row.version + 1, !.enabled = enabled]
          PROVE  /\ new \in RowType /\ new.deleted = row.deleted
                 /\ new.version = row.version + 1 /\ new.name = name /\ new.blob = blob
        <3>1. row.version + 1 \in Nat \ {0}
            BY DEF RowType
        <3> QED
            BY <1>2, <2>1, <2>3, <3>1 DEF RowType
    <2> QED
        BY <1>3, <2>1, <2>2, <2>3
<1>4. CASE ~Edits(call)
    <2>1. name = row.name
        BY <1>4 DEF Edits, NextName
    <2>2. Updated(h, selected, row) = [row EXCEPT !.enabled = enabled]
        <3>1. Updated(h, selected, row)
                = [row EXCEPT !.name = name, !.blob = row.blob, !.version = row.version,
                              !.enabled = enabled]
            BY <1>4 DEF Updated
        <3> HIDE DEF name, enabled
        <3> QED
            BY <2>1, <3>1 DEF RowType
    <2> HIDE DEF name, enabled
    <2> QED
        BY <1>2, <1>4, <2>2 DEF RowType, EditionOf
<1> QED
    BY <1>3, <1>4

\* A fragment is created, and over SQL put into the history by the next step.
LEMMA InsertStep ==
    ASSUME StoreInv, NEW h \in Handlers, InsertFragment(h) \/ PushFragment(h)
    PROVE  StoreInv'
<1> DEFINE f == handler[h].fragment
           row == NewRow(h)
<1>1. TypeOK /\ LocalOK(handler[h]) /\ handler[h].pc = "insert" /\ f \in Fragments
    BY DEF StoreInv, InsertFragment, PushFragment, At, TypeOK, HandlerType
<1>2. row \in RowType /\ ~row.deleted /\ Opens(row.blob, row.name)
    BY <1>1, NewRowOK
<1>3. Creating(handler[h]) /\ rows[f] = {} /\ past[f] = {}
    BY <1>1 DEF StoreInv, FragmentOK, LocalOK, Stage, Holds, Creating
<1> HIDE DEF row
<1>4. CASE InsertFragment(h)
    BY <1>1, <1>2, <1>3, <1>4, StoreStep DEF InsertFragment, row
<1>5. CASE PushFragment(h)
    BY <1>1, <1>2, <1>3, <1>5, StoreStep DEF PushFragment, row
<1> QED
    BY <1>4, <1>5

\* Whoever holds a row the fragment had, and holds the newest one if requests
\* come one at a time, writes its successor.
LEMMA WriteRowStep ==
    ASSUME StoreInv, NEW h \in Handlers, WriteRow(h), Live(handler[h].fragment) # {}
    PROVE  StoreInv'
<1> DEFINE f == handler[h].fragment
<1>1. /\ TypeOK /\ LocalOK(handler[h]) /\ handler[h].pc = "write" /\ f \in Fragments
      /\ ~memory /\ handler[h].call.kind = "update" /\ handler[h].row \subseteq RowType
    BY DEF StoreInv, WriteRow, At, TypeOK, HandlerType, LocalOK, Stage
<1>2. PICK row \in handler[h].row :
        Store(h, f, Updated(h, row, row), AfterWrite(handler[h].call))
    BY DEF WriteRow
<1>3. rows[f] # {}
    BY DEF Live
<1>4. /\ row \in RowType /\ Opens(row.blob, row.name) /\ ~row.deleted
      /\ EditionOf(row) \in past[f]
    BY <1>1 DEF LocalOK, Holds
<1> DEFINE new == Updated(h, row, row)
<1>5. /\ new \in RowType /\ ~new.deleted /\ Opens(new.blob, new.name)
      /\ Edits(handler[h].call) => new.version = row.version + 1
      /\ ~Edits(handler[h].call) => /\ EditionOf(new) = EditionOf(row)
                                    /\ new.version = row.version
    BY <1>1, <1>4, UpdatedOK
<1>6. serial => row \in rows[f] /\ \A e \in past[f] : e.version <= row.version
    BY <1>1 DEF StoreInv, FragmentOK, LocalOK, Holds, Updating
<1>7. row.version \in Nat /\ \A e \in past[f] : e.version \in Nat
    BY <1>1, <1>4 DEF TypeOK, RowType, Edition
<1>8. UNCHANGED <<versions, keys, fixed, compiled, failed>>
    BY DEF WriteRow
<1> HIDE DEF new
<1>9. CASE Edits(handler[h].call)
    <2>1. Store(h, f, new, "version")
        BY <1>2, <1>9 DEF AfterWrite, new
    <2>2. serial => \A e \in past[f] : e.version < new.version
        BY <1>5, <1>6, <1>7, <1>9
    <2> QED
        BY <1>1, <1>3, <1>5, <1>8, <2>1, <2>2, StoreStep
<1>10. CASE ~Edits(handler[h].call)
    <2>1. Store(h, f, new, "idle")
        BY <1>2, <1>10 DEF AfterWrite, new
    <2>2. EditionOf(new) \in past[f] /\ (serial => \A e \in past[f] : e.version <= new.version)
        BY <1>4, <1>5, <1>6, <1>10
    <2> QED
        BY <1>1, <1>3, <1>5, <1>8, <2>1, <2>2, StoreStep
<1> QED
    BY <1>9, <1>10

\* In memory the version is that of the object as it has become.
LEMMA WriteObjectStep ==
    ASSUME StoreInv, NEW h \in Handlers, WriteObject(h)
    PROVE  StoreInv'
<1> DEFINE f == handler[h].fragment
<1>1. /\ TypeOK /\ LocalOK(handler[h]) /\ handler[h].pc = "write" /\ f \in Fragments
      /\ memory /\ handler[h].call.kind = "update" /\ handler[h].row \subseteq RowType
      /\ Edits(handler[h].call)
    BY DEF StoreInv, WriteObject, At, TypeOK, HandlerType, LocalOK, Stage
<1>2. PICK found \in handler[h].row, object \in rows[f] :
        /\ Store(h, f, Updated(h, found, object), "idle")
        /\ Edited(f, Updated(h, found, object))
    BY DEF WriteObject
<1>3. found \in RowType /\ object \in RowType
    BY <1>1 DEF TypeOK
<1> DEFINE new == Updated(h, found, object)
<1>4. /\ new \in RowType /\ Opens(new.blob, new.name)
      /\ new.version = object.version + 1
    BY <1>1, <1>3, UpdatedOK
<1>5. \A e \in past[f] : e.version <= object.version
    BY <1>1 DEF StoreInv, FragmentOK
<1>6. object.version \in Nat /\ \A e \in past[f] : e.version \in Nat
    BY <1>1, <1>3 DEF TypeOK, RowType, Edition
<1>7. \A e \in past[f] : e.version < new.version
    BY <1>4, <1>5, <1>6
<1>8. UNCHANGED <<keys, fixed, compiled, failed>>
    BY DEF WriteObject
<1>9. Store(h, f, new, "idle") /\ Edited(f, new)
    BY <1>2
<1> HIDE DEF new
<1> QED
    BY <1>1, <1>2, <1>4, <1>7, <1>8, <1>9, StoreStep

\* In memory an update without an edit is done when the object is found.
LEMMA FindAndWriteStep ==
    ASSUME StoreInv, NEW h \in Handlers, FindFragment(h), ~Edits(handler[h].call),
           Live(handler[h].fragment) # {}
    PROVE  StoreInv'
<1> DEFINE f == handler[h].fragment
<1>1. /\ TypeOK /\ LocalOK(handler[h]) /\ handler[h].pc = "select" /\ f \in Fragments
      /\ memory /\ handler[h].call.kind = "update"
    BY DEF StoreInv, FindFragment, At, TypeOK, HandlerType, LocalOK, Stage
<1>2. PICK object \in Live(f) : Store(h, f, Updated(h, object, object), "idle")
    BY DEF FindFragment
<1>3. /\ object \in rows[f] /\ object \in RowType /\ Opens(object.blob, object.name)
      /\ EditionOf(object) \in past[f] /\ \A e \in past[f] : e.version <= object.version
    BY <1>1 DEF Live, TypeOK, StoreInv, FragmentOK
<1> DEFINE new == Updated(h, object, object)
<1>4. /\ new \in RowType /\ Opens(new.blob, new.name)
      /\ EditionOf(new) = EditionOf(object) /\ new.version = object.version
    BY <1>1, <1>3, UpdatedOK
<1>5. Store(h, f, new, "idle")
    BY <1>2
<1>6. UNCHANGED <<versions, keys, fixed, compiled, failed>>
    BY DEF FindFragment
<1>7. EditionOf(new) \in past[f] /\ \A e \in past[f] : e.version <= new.version
    BY <1>3, <1>4
<1> HIDE DEF new
<1> QED
    BY <1>1, <1>3, <1>4, <1>5, <1>6, <1>7, StoreStep

----------------------------------------------------------------------------
(* The other steps.                                                        *)

\* A request is done, and the tables are as they were.
LEMMA ReturnStep ==
    ASSUME StoreInv, NEW h \in Handlers, Return(h), ~At(h, "version"), ~At(h, "idle"),
           UNCHANGED <<tables, fixed, past, failed>>,
           compiled' = compiled \/ compiled' = handler[h].sources
    PROVE  StoreInv'
<1>1. compiled' \subseteq Source
    BY DEF StoreInv, TypeOK, HandlerType
<1>2. CompiledOK'
    BY DEF StoreInv, CompiledOK, LocalOK, Compiles, fixed
<1>3. handler' = [handler EXCEPT ![h] = Idle] /\ ~Creating(Idle)
    BY IdleOK DEF Return, Creating
<1> QED
    BY <1>1, <1>2, <1>3, IdleOK, MovedStep

\* What a request starts from.
LEMMA ArriveStep ==
    ASSUME StoreInv, NEW h \in Handlers, NEW call \in Calls, NEW f \in Fragments,
           Arrive(h, call, f)
    PROVE  StoreInv'
<1> DEFINE place == CASE call.kind = "create"  -> "key"
                      [] call.kind = "update"  -> "select"
                      [] call.kind = "delete"  -> "delete"
                      [] call.kind \in {"compile", "preview"} -> "load"
           l == [Idle EXCEPT !.call = call, !.fragment = f, !.content = call.content,
                             !.pc = place]
<1>1. call \in CallType
    BY PromptAssumption
<1>2. /\ call.kind \in {"create", "update", "delete", "compile", "preview"}
      /\ call.content \in Contents \cup {"none"}
      /\ call.kind = "create" => call.content \in Contents
    BY <1>1, PromptAssumption DEF CallType
<1>3. /\ place \in {"key", "select", "delete", "load"}
      /\ place = "key" <=> call.kind = "create"
      /\ place = "select" <=> call.kind = "update"
      /\ place = "load" <=> call.kind \in {"compile", "preview"}
    BY <1>2
<1>4. /\ l.call = call /\ l.fragment = f /\ l.content = call.content /\ l.pc = place
      /\ l.row = {} /\ l.loaded = {} /\ l.reading = {} /\ l.sources = {} /\ l.key = {}
    BY DEF Idle
<1>5. l \in HandlerType
    BY <1>2, <1>3, IdleOK DEF HandlerType, Places
<1>6. handler' = [handler EXCEPT ![h] = l]
    BY DEF Arrive
<1> HIDE DEF l, place
<1>7. Creating(l) => /\ rows[f] = {}
                     /\ \A g \in Handlers : ~(Creating(handler[g]) /\ handler[g].fragment = f)
    <2>1. ASSUME NEW g \in Handlers, Creating(handler[g]), handler[g].fragment = f
          PROVE  Working(f) # {}
        BY <2>1 DEF Creating, Working, At
    <2> QED
        BY <1>4, <2>1 DEF Creating, Arrive
<1>8. Stage(l) /\ Equipped(l) /\ Holds(l) /\ Compiles(l)
    BY <1>2, <1>3, <1>4, <1>7
    DEF Stage, Equipped, Holds, Compiles, Encrypts, One, Updating
<1>9. /\ UNCHANGED <<tables, fixed, past, failed>> /\ At(h, "idle") /\ compiled' = {}
      /\ serial => \A g \in Handlers : At(g, "idle")
    BY DEF Arrive
<1>10. compiled' \subseteq Source /\ CompiledOK'
    BY <1>9 DEF CompiledOK
<1> QED
    BY <1>4, <1>5, <1>6, <1>7, <1>8, <1>9, <1>10, MovedStep DEF LocalOK, At

LEMMA LiveRow ==
    ASSUME StoreInv, NEW f \in Fragments, Live(f) # {}
    PROVE  \E row : Live(f) = {row} /\ rows[f] = {row} /\ ~row.deleted
<1>1. PICK row \in rows[f] : rows[f] = {row}
    BY DEF StoreInv, FragmentOK, One, Live
<1> QED
    BY <1>1 DEF Live

\* The live row, or object, is taken up.
LEMMA TakeUpStep ==
    ASSUME StoreInv, NEW h \in Handlers, NEW row, Live(handler[h].fragment) = {row},
           NEW place \in {"write", "decrypt", "key"}, At(h, "select"),
           handler' = [handler EXCEPT ![h].row = {row}, ![h].pc = place],
           UNCHANGED <<tables, fixed, past, failed, compiled>>,
           place = "write" => ~memory /\ ~Edits(handler[h].call),
           place # "write" => Edits(handler[h].call),
           place = "key" => handler[h].call.content # "none"
    PROVE  StoreInv'
<1> DEFINE f == handler[h].fragment
           l == [handler[h] EXCEPT !.row = {row}, !.pc = place]
<1>1. /\ TypeOK /\ LocalOK(handler[h]) /\ handler[h].pc = "select" /\ f \in Fragments
      /\ handler[h] \in HandlerType /\ FragmentOK(f) /\ handler[h].call \in CallType
      /\ rows[f] \in SUBSET RowType
    BY PromptAssumption DEF StoreInv, At, TypeOK, HandlerType
<1>2. row \in rows[f] /\ ~row.deleted /\ rows[f] = {row} /\ row \in RowType
    BY <1>1 DEF Live, FragmentOK, One
<1>3. l \in HandlerType
    BY <1>1, <1>2 DEF HandlerType, Places
<1>4. /\ l.row = {row} /\ l.pc = place /\ l.call = handler[h].call /\ l.fragment = f
      /\ l.content = handler[h].content /\ l.key = handler[h].key
      /\ l.loaded = handler[h].loaded /\ l.reading = handler[h].reading
      /\ l.sources = handler[h].sources
    BY <1>1 DEF HandlerType
<1>5. handler' = [handler EXCEPT ![h] = l]
    BY <1>1 DEF TypeOK
<1>6. handler[h].call.kind = "update" /\ handler[h].content = handler[h].call.content
    BY <1>1 DEF LocalOK, Stage, Equipped
<1> HIDE DEF l, f
<1>7. Stage(l) /\ Equipped(l)
    BY <1>1, <1>4, <1>6 DEF LocalOK, Stage, Equipped, Encrypts, CallType
<1>8. Holds(l) /\ Compiles(l) /\ ~Creating(l)
    BY <1>1, <1>2, <1>4, <1>6 DEF LocalOK, FragmentOK, Holds, Compiles, One, Creating
<1>9. compiled' \subseteq Source /\ CompiledOK'
    BY DEF StoreInv, TypeOK, CompiledOK, fixed
<1> QED
    BY <1>1, <1>3, <1>5, <1>7, <1>8, <1>9, MovedStep DEF LocalOK, At

LEMMA SelectStep ==
    ASSUME StoreInv, NEW h \in Handlers, SelectFragment(h)
    PROVE  StoreInv'
<1> DEFINE f == handler[h].fragment
           place == IF ~Edits(handler[h].call) THEN "write"
                    ELSE IF handler[h].call.content = "none" THEN "decrypt"
                    ELSE "key"
<1>1. f \in Fragments /\ ~memory /\ At(h, "select")
    BY DEF StoreInv, TypeOK, HandlerType, SelectFragment
<1>2. UNCHANGED <<tables, fixed, past, failed, compiled>>
    BY DEF SelectFragment, history
<1>3. CASE Live(f) = {}
    BY <1>1, <1>2, <1>3, ReturnStep DEF SelectFragment, At
<1>4. CASE Live(f) # {}
    <2>1. PICK row : Live(f) = {row}
        BY <1>1, <1>4, LiveRow
    <2>2. handler' = [handler EXCEPT ![h].row = {row}, ![h].pc = place]
        BY <1>4, <2>1 DEF SelectFragment
    <2> QED
        BY <1>1, <1>2, <2>1, <2>2, TakeUpStep
<1> QED
    BY <1>3, <1>4

LEMMA FindStep ==
    ASSUME StoreInv, NEW h \in Handlers, FindFragment(h)
    PROVE  StoreInv'
<1> DEFINE f == handler[h].fragment
           place == IF handler[h].call.content = "none" THEN "decrypt" ELSE "key"
<1>1. f \in Fragments /\ At(h, "select")
    BY DEF StoreInv, TypeOK, HandlerType, FindFragment
<1>2. UNCHANGED <<versions, keys, fixed, failed, compiled>>
    BY DEF FindFragment
<1>3. CASE Live(f) = {}
    <2>1. Return(h) /\ UNCHANGED <<rows, past>>
        BY <1>3 DEF FindFragment
    <2> QED
        BY <1>1, <1>2, <2>1, ReturnStep DEF At, tables
<1>4. CASE Live(f) # {} /\ ~Edits(handler[h].call)
    BY <1>4, FindAndWriteStep
<1>5. CASE Live(f) # {} /\ Edits(handler[h].call)
    <2>1. PICK row : Live(f) = {row}
        BY <1>1, <1>5, LiveRow
    <2>2. /\ handler' = [handler EXCEPT ![h].row = {row}, ![h].pc = place]
          /\ UNCHANGED <<rows, past>>
        BY <1>5, <2>1 DEF FindFragment
    <2> QED
        BY <1>1, <1>2, <1>5, <2>1, <2>2, TakeUpStep DEF tables
<1> QED
    BY <1>3, <1>4, <1>5

\* The content is read under the name it was bound to.
LEMMA DecryptStep ==
    ASSUME StoreInv, NEW h \in Handlers, DecryptOld(h)
    PROVE  StoreInv'
<1>1. PICK row \in handler[h].row :
        handler' = [handler EXCEPT ![h].content = row.blob.content, ![h].pc = "key"]
    BY DEF DecryptOld
<1> DEFINE l == [handler[h] EXCEPT !.content = row.blob.content, !.pc = "key"]
<1>2. /\ TypeOK /\ LocalOK(handler[h]) /\ handler[h].pc = "decrypt"
      /\ handler[h] \in HandlerType /\ row \in RowType
    BY <1>1 DEF StoreInv, DecryptOld, At, TypeOK, HandlerType
<1>3. row.blob.content \in Contents
    BY <1>2 DEF RowType, Blob
<1>4. l \in HandlerType
    BY <1>2, <1>3 DEF HandlerType, Places
<1>5. /\ l.row = handler[h].row /\ l.pc = "key" /\ l.call = handler[h].call
      /\ l.fragment = handler[h].fragment /\ l.content \in Contents
      /\ l.key = handler[h].key
      /\ l.loaded = handler[h].loaded /\ l.reading = handler[h].reading
      /\ l.sources = handler[h].sources
    BY <1>2, <1>3 DEF HandlerType
<1>6. handler' = [handler EXCEPT ![h] = l]
    BY <1>1, <1>2 DEF TypeOK
<1>7. Edits(l.call) /\ l.call.kind = "update"
    BY <1>2, <1>5 DEF LocalOK, Stage, Edits
<1> HIDE DEF l
<1>8. Stage(l) /\ Equipped(l) /\ Holds(l) /\ Compiles(l) /\ ~Creating(l)
    BY <1>2, <1>5, <1>7
    DEF LocalOK, Stage, Equipped, Holds, Compiles, Encrypts, Creating, Updating
<1>9. UNCHANGED <<tables, fixed, past, failed, compiled>>
    BY DEF DecryptOld, history
<1>10. compiled' \subseteq Source /\ CompiledOK'
    BY <1>9 DEF StoreInv, TypeOK, CompiledOK, fixed
<1> QED
    BY <1>2, <1>4, <1>6, <1>8, <1>9, <1>10, MovedStep DEF LocalOK, At

\* The key is one that is saved, and kept with what is to be encrypted.
LEMMA UseKeyOK ==
    ASSUME StoreInv, NEW h \in Handlers, handler[h].pc \in {"key", "makeKey"},
           NEW key \in Keys, key \in keys',
           keys \subseteq keys', UNCHANGED <<rows, fixed, past>>,
           UseKey(h, key)
    PROVE  \E l \in HandlerType :
              /\ handler' = [handler EXCEPT ![h] = l]
              /\ LocalOK(l)'
              /\ Creating(l) => Creating(handler[h]) /\ l.fragment = handler[h].fragment
              /\ l.pc # "idle"
<1> DEFINE place == AfterKey(handler[h].call)
           l == [handler[h] EXCEPT !.key = {key}, !.pc = place]
<1>1. /\ TypeOK /\ LocalOK(handler[h]) /\ handler[h] \in HandlerType
      /\ handler[h].call \in CallType
    BY PromptAssumption DEF StoreInv, TypeOK, HandlerType
<1>2. handler[h].call.kind = "compile" \/ Encrypts(handler[h].call)
    BY <1>1 DEF LocalOK, Stage
<1>3. /\ place \in {"insert", "write", "save"}
      /\ place = "insert" <=> handler[h].call.kind = "create"
      /\ place = "write" => Edits(handler[h].call) /\ handler[h].call.kind = "update"
      /\ place = "save" <=> handler[h].call.kind = "compile"
    BY <1>2 DEF AfterKey, Encrypts, Edits
<1>4. l \in HandlerType
    BY <1>1, <1>3 DEF HandlerType, Places
<1>5. /\ l.row = handler[h].row /\ l.pc = place /\ l.call = handler[h].call
      /\ l.fragment = handler[h].fragment /\ l.content = handler[h].content
      /\ l.key = {key}
      /\ l.loaded = handler[h].loaded /\ l.reading = handler[h].reading
      /\ l.sources = handler[h].sources
    BY <1>1 DEF HandlerType
<1>6. handler' = [handler EXCEPT ![h] = l]
    BY <1>1 DEF UseKey, TypeOK
<1>7. PICK k \in HandlerType : k = l
    BY <1>4
<1> HIDE DEF l, place
<1>8. Stage(k)' /\ Equipped(k)'
    BY <1>1, <1>3, <1>5, <1>7 DEF LocalOK, Stage, Equipped, Encrypts, Edits, fixed
<1>9. Creating(k) => Creating(handler[h]) /\ k.fragment = handler[h].fragment
    BY <1>5, <1>7 DEF Creating
<1>10. Holds(k)'
    <2>1. Updating(k) => Updating(handler[h])
        BY <1>5, <1>7 DEF Updating
    <2>2. Holds(handler[h]) /\ k.row = handler[h].row /\ k.fragment = handler[h].fragment
        BY <1>1, <1>5, <1>7 DEF LocalOK
    <2>3. \A row \in k.row : Opens(row.blob, row.name)'
        BY <2>2 DEF Holds, Opens
    <2>4. (Creating(k) <=> Creating(k)') /\ (Updating(k) <=> Updating(k)')
        BY DEF Creating, Updating
    <2> QED
        BY <1>9, <2>1, <2>2, <2>3, <2>4 DEF Holds, fixed
<1>11. Compiles(k)'
    BY <1>1, <1>5, <1>7 DEF LocalOK, Compiles, fixed
<1> QED
    BY <1>3, <1>5, <1>6, <1>7, <1>8, <1>9, <1>10, <1>11 DEF LocalOK

LEMMA FindKeyStep ==
    ASSUME StoreInv, NEW h \in Handlers, FindKey(h)
    PROVE  StoreInv'
<1>1. /\ TypeOK /\ LocalOK(handler[h]) /\ handler[h].pc = "key"
      /\ handler[h] \in HandlerType /\ keys \subseteq Keys
    BY DEF StoreInv, FindKey, At, TypeOK
<1>2. UNCHANGED <<tables, fixed, past, failed, compiled>>
    BY DEF FindKey, history
<1>3. compiled' \subseteq Source /\ CompiledOK'
    BY <1>2 DEF StoreInv, TypeOK, CompiledOK, fixed
<1>4. CASE Goto(h, "makeKey")
    <2> DEFINE l == [handler[h] EXCEPT !.pc = "makeKey"]
    <2>1. l \in HandlerType /\ handler' = [handler EXCEPT ![h] = l]
        BY <1>1, <1>4 DEF Goto, HandlerType, Places, TypeOK
    <2>2. /\ l.row = handler[h].row /\ l.pc = "makeKey" /\ l.call = handler[h].call
          /\ l.fragment = handler[h].fragment /\ l.content = handler[h].content
          /\ l.key = handler[h].key
          /\ l.loaded = handler[h].loaded /\ l.reading = handler[h].reading
          /\ l.sources = handler[h].sources
        BY <1>1 DEF HandlerType
    <2> HIDE DEF l
    <2>3. /\ Creating(l) => Creating(handler[h]) /\ l.fragment = handler[h].fragment
          /\ Stage(l) /\ Equipped(l) /\ Holds(l) /\ Compiles(l)
        BY <1>1, <2>2
        DEF LocalOK, Stage, Equipped, Holds, Compiles, Encrypts, Creating, Updating
    <2> QED
        BY <1>1, <1>2, <1>3, <2>1, <2>3, MovedStep DEF LocalOK, At
<1>5. CASE \E key \in keys : UseKey(h, key)
    <2>1. PICK key \in keys : UseKey(h, key)
        BY <1>5
    <2>2. PICK l \in HandlerType :
              /\ handler' = [handler EXCEPT ![h] = l]
              /\ LocalOK(l)'
              /\ Creating(l) => Creating(handler[h]) /\ l.fragment = handler[h].fragment
              /\ l.pc # "idle"
        BY <1>1, <1>2, <2>1, UseKeyOK DEF tables
    <2>3. LocalOK(l)
        BY <1>2, <2>2
        DEF LocalOK, Stage, Equipped, Holds, Compiles, Opens, Creating, Updating, tables, fixed
    <2> QED
        BY <1>1, <1>2, <1>3, <2>2, <2>3, MovedStep DEF At
<1> QED
    BY <1>4, <1>5 DEF FindKey

\* A second key takes nothing away from what the first one opens.
LEMMA MakeKeyStep ==
    ASSUME StoreInv, NEW h \in Handlers, MakeKey(h)
    PROVE  StoreInv'
<1>1. PICK key \in Keys \ keys : keys' = keys \cup {key} /\ UseKey(h, key)
    BY DEF MakeKey
<1>2. /\ TypeOK /\ handler[h].pc = "makeKey"
      /\ UNCHANGED <<rows, versions, fixed, serial, memory, past, failed, compiled>>
    BY DEF StoreInv, MakeKey, At, history, fixed
<1>3. PICK l \in HandlerType :
          /\ handler' = [handler EXCEPT ![h] = l]
          /\ LocalOK(l)'
          /\ Creating(l) => Creating(handler[h]) /\ l.fragment = handler[h].fragment
          /\ l.pc # "idle"
    BY <1>1, <1>2, UseKeyOK
<1>4. /\ handler' \in [Handlers -> HandlerType] /\ handler'[h] = l
      /\ \A g \in Handlers : g # h => handler'[g] = handler[g]
    BY <1>2, <1>3, HandlerMoved
<1>5. TypeOK'
    BY <1>1, <1>2, <1>4 DEF TypeOK
<1>6. ASSUME NEW f \in Fragments PROVE FragmentOK(f)'
    BY <1>1, <1>2 DEF StoreInv, FragmentOK, Opens
<1>7. ASSUME NEW g \in Handlers PROVE LocalOK(handler[g])'
    <2>1. CASE g # h
        <3>1. PICK k \in HandlerType : k = handler[g] /\ LocalOK(k)
            BY <1>2 DEF TypeOK, StoreInv
        <3>2. LocalOK(k)'
            BY <1>1, <1>2, <3>1, LocalKept
        <3> QED
            BY <1>4, <2>1, <3>1, <3>2, LocalAt
    <2>2. CASE g = h
        BY <1>3, <1>4, <2>2, LocalAt
    <2> QED
        BY <2>1, <2>2
<1>8. Apart'
    BY <1>2, <1>3, <1>4 DEF StoreInv, Apart, At, Creating
<1>9. Recorded'
    BY <1>2, <1>4 DEF StoreInv, Recorded, InHistory, AboutTo, At
<1>10. CompiledOK'
    BY <1>2 DEF StoreInv, CompiledOK
<1> QED
    BY <1>5, <1>6, <1>7, <1>8, <1>9, <1>10 DEF StoreInv

\* The version that was written is put into the history.
LEMMA InsertVersionStep ==
    ASSUME StoreInv, NEW h \in Handlers, InsertVersion(h)
    PROVE  StoreInv'
<1>1. /\ TypeOK /\ LocalOK(handler[h]) /\ handler[h].pc = "version"
      /\ handler[h] \in HandlerType
      /\ UNCHANGED <<rows, keys, fixed, serial, memory, past, failed, compiled>>
    BY DEF StoreInv, InsertVersion, At, TypeOK, history, fixed
<1> DEFINE f == handler[h].fragment
<1>2. f \in Fragments /\ handler[h].row \subseteq RowType
    BY <1>1 DEF HandlerType
<1>3. PICK row \in handler[h].row :
        versions' = [versions EXCEPT ![f] =
                        Append(versions[f], [version |-> row.version, blob |-> row.blob])]
    BY <1>2 DEF InsertVersion
<1>4. handler[h].row = {row} /\ row \in RowType /\ Opens(row.blob, row.name)
    BY <1>1, <1>2, <1>3 DEF LocalOK, Holds, One
<1> DEFINE entry == [version |-> row.version, blob |-> row.blob]
           Entries == [version : Nat \ {0}, blob : Blob]
<1>5. /\ entry \in Entries /\ entry.version = row.version /\ entry.blob = row.blob
      /\ versions \in [Fragments -> Seq(Entries)]
      /\ versions' = [versions EXCEPT ![f] = Append(versions[f], entry)]
    BY <1>1, <1>3, <1>4 DEF TypeOK, RowType
<1> HIDE DEF entry, Entries, f
<1>6. /\ versions'[f] = Append(versions[f], entry) /\ versions[f] \in Seq(Entries)
      /\ \A g \in Fragments : g # f => versions'[g] = versions[g]
    BY <1>2, <1>5 DEF f
<1>7. /\ Append(versions[f], entry) \in Seq(Entries)
      /\ Len(versions[f]) \in Nat
      /\ Len(versions'[f]) = Len(versions[f]) + 1
      /\ \A i \in 1..Len(versions[f]) : versions'[f][i] = versions[f][i]
      /\ versions'[f][Len(versions[f]) + 1] = entry
    BY <1>5, <1>6
<1>8. versions' \in [Fragments -> Seq(Entries)]
    BY <1>5, <1>7
<1>9. /\ handler' \in [Handlers -> HandlerType] /\ handler'[h] = Idle
      /\ \A g \in Handlers : g # h => handler'[g] = handler[g]
    BY <1>1, IdleOK, HandlerMoved DEF InsertVersion, Return
<1>10. TypeOK'
    BY <1>1, <1>8, <1>9 DEF TypeOK, Entries
<1>11. ASSUME NEW g \in Fragments PROVE FragmentOK(g)'
    <2>1. \A i \in 1..Len(versions'[g]) : versions'[g][i].blob.key \in keys
        <3>1. CASE g = f
            <4>1. ASSUME NEW i \in 1..Len(versions'[f]) PROVE versions'[f][i].blob.key \in keys
                <5>1. CASE i \in 1..Len(versions[f])
                    BY <1>2, <1>7, <5>1 DEF StoreInv, FragmentOK, f
                <5>2. CASE i = Len(versions[f]) + 1
                    BY <1>4, <1>5, <1>7, <5>2 DEF Opens
                <5> QED
                    BY <1>7, <5>1, <5>2
            <4> QED
                BY <3>1, <4>1
        <3>2. CASE g # f
            BY <1>6, <3>2 DEF StoreInv, FragmentOK
        <3> QED
            BY <3>1, <3>2
    <2>2. FragmentOK(g)
        BY DEF StoreInv
    <2> QED
        BY <1>1, <2>1, <2>2 DEF FragmentOK, Opens, One
<1>12. ASSUME NEW g \in Handlers PROVE LocalOK(handler[g])'
    <2>1. PICK k \in HandlerType : k = handler'[g] /\ LocalOK(k)
        BY <1>9, IdleOK DEF StoreInv
    <2>2. LocalOK(k)'
        BY <1>1, <2>1, LocalKept
    <2> QED
        BY <2>1, <2>2, LocalAt
<1>13. Apart'
    BY <1>1, <1>9, IdleOK DEF StoreInv, Apart, At, Creating
<1>14. Recorded'
    <2>1. SUFFICES ASSUME ~failed, NEW g \in Fragments, NEW e \in past[g]
                   PROVE  InHistory(g, e)' \/ \E k \in Handlers : AboutTo(k, g, e)'
        BY <1>1 DEF Recorded
    <2>2. CASE InHistory(g, e)
        <3>1. PICK i \in 1..Len(versions[g]) :
                versions[g][i].version = e.version /\ versions[g][i].blob.content = e.content
            BY <2>2 DEF InHistory
        <3>2. i \in 1..Len(versions'[g]) /\ versions'[g][i] = versions[g][i]
            BY <1>6, <1>7, <3>1
        <3> QED
            BY <3>1, <3>2 DEF InHistory
    <2>3. CASE AboutTo(h, g, e)
        <3>1. g = f /\ e = EditionOf(row)
            BY <1>4, <2>3 DEF AboutTo, f
        <3>2. /\ Len(versions[g]) + 1 \in 1..Len(versions'[g])
              /\ versions'[g][Len(versions[g]) + 1].version = e.version
              /\ versions'[g][Len(versions[g]) + 1].blob.content = e.content
            BY <1>5, <1>7, <3>1 DEF EditionOf
        <3> QED
            BY <3>2 DEF InHistory
    <2>4. CASE \E k \in Handlers : k # h /\ AboutTo(k, g, e)
        BY <1>9, <2>4 DEF AboutTo, At
    <2> QED
        BY <2>1, <2>2, <2>3, <2>4 DEF StoreInv, Recorded
<1>15. CompiledOK'
    BY <1>1 DEF StoreInv, CompiledOK
<1> QED
    BY <1>10, <1>11, <1>12, <1>13, <1>14, <1>15 DEF StoreInv

\* A deleted row keeps its name, its ciphertext and its version.
LEMMA DeleteStep ==
    ASSUME StoreInv, NEW h \in Handlers, DeleteFragment(h)
    PROVE  StoreInv'
<1>1. /\ TypeOK /\ handler[h].pc = "delete" /\ handler[h].fragment \in Fragments
      /\ UNCHANGED <<versions, keys, fixed, serial, memory, past, failed, compiled>>
    BY DEF StoreInv, DeleteFragment, At, TypeOK, HandlerType, history, fixed
<1>2. PICK f \in Fragments : f = handler[h].fragment
    BY <1>1
<1>3. /\ rows' = [rows EXCEPT ![f] = {Deleted(row) : row \in rows[f]}]
      /\ handler' = [handler EXCEPT ![h] = Idle]
    BY <1>2 DEF DeleteFragment, Return
<1>4. /\ handler' \in [Handlers -> HandlerType] /\ handler'[h] = Idle
      /\ \A g \in Handlers : g # h => handler'[g] = handler[g]
    BY <1>1, <1>3, IdleOK, HandlerMoved
<1>5. \A row \in RowType : /\ Deleted(row) \in RowType /\ Deleted(row).deleted
                           /\ ~Deleted(row).enabled /\ Deleted(row).blob = row.blob
                           /\ Deleted(row).name = row.name
                           /\ Deleted(row).version = row.version
    BY DEF Deleted, RowType
<1>6. /\ rows'[f] = {Deleted(row) : row \in rows[f]}
      /\ \A g \in Fragments : g # f => rows'[g] = rows[g]
      /\ rows[f] \subseteq RowType
    BY <1>1, <1>3 DEF TypeOK
<1>7. /\ rows[f] = {} => rows'[f] = {}
      /\ \A r \in rows[f] : rows[f] = {r} => rows'[f] = {Deleted(r)}
    BY <1>6
<1>8. \A g \in Fragments : One(rows'[g])
    BY <1>6, <1>7 DEF StoreInv, FragmentOK, One
<1>9. TypeOK'
    <2>1. rows'[f] \subseteq RowType
        BY <1>5, <1>6
    <2>2. rows' \in [Fragments -> SUBSET RowType]
        BY <1>1, <1>3, <1>6, <2>1 DEF TypeOK
    <2> QED
        BY <1>1, <1>4, <1>8, <2>2, OneCounts DEF TypeOK
<1>10. ASSUME NEW g \in Fragments PROVE FragmentOK(g)'
    <2>1. FragmentOK(g)
        BY DEF StoreInv
    <2>2. CASE g # f \/ rows[g] = {}
        <3>1. rows'[g] = rows[g]
            BY <1>6, <1>7, <2>2
        <3> QED
            BY <1>1, <2>1, <3>1 DEF FragmentOK, Opens, One
    <2>3. CASE g = f /\ rows[f] # {}
        <3>1. PICK r \in rows[f] : rows[f] = {r}
            BY <2>1, <2>3 DEF FragmentOK, One
        <3>2. rows'[g] = {Deleted(r)} /\ r \in RowType
            BY <1>6, <1>7, <2>3, <3>1
        <3>3. EditionOf(Deleted(r)) = EditionOf(r)
            BY <1>5, <3>2 DEF EditionOf
        <3>4. One(rows'[g])
            BY <1>8
        <3>5. \A row \in rows'[g] : /\ Opens(row.blob, row.name)'
                                    /\ EditionOf(row) \in past'[g]
                                    /\ ~memory' /\ row.deleted => ~row.enabled
            BY <1>1, <1>5, <2>1, <2>3, <3>1, <3>2, <3>3 DEF FragmentOK, Opens
        <3>6. memory \/ serial => \A e \in past[g], row \in rows'[g] : e.version <= row.version
            BY <1>5, <2>1, <2>3, <3>1, <3>2 DEF FragmentOK
        <3> QED
            BY <1>1, <2>1, <3>2, <3>4, <3>5, <3>6 DEF FragmentOK
    <2> QED
        BY <2>2, <2>3
<1>11. serial => \A g \in Handlers : g # h => At(g, "idle")
    BY <1>1 DEF StoreInv, Apart, At
<1>12. ASSUME NEW g \in Handlers PROVE LocalOK(handler[g])'
    <2>1. PICK k \in HandlerType : k = handler'[g] /\ LocalOK(k) /\ (serial => k.pc = "idle")
        BY <1>4, <1>11, IdleOK DEF StoreInv, At
    <2>2. rows[k.fragment] = {} => rows'[k.fragment] = {}
        BY <1>6, <1>7, <2>1 DEF HandlerType
    <2>3. LocalOK(k)'
        BY <1>1, <2>1, <2>2, LocalKept
    <2> QED
        BY <2>1, <2>3, LocalAt
<1>13. Apart'
    BY <1>1, <1>4, IdleOK DEF StoreInv, Apart, At, Creating
<1>14. Recorded'
    BY <1>1, <1>4 DEF StoreInv, Recorded, InHistory, AboutTo, At
<1>15. CompiledOK'
    BY <1>1 DEF StoreInv, CompiledOK
<1> QED
    BY <1>9, <1>10, <1>12, <1>13, <1>14, <1>15 DEF StoreInv

\* In memory nothing is on its way into the history when a call throws.
LEMMA FailStep ==
    ASSUME StoreInv, NEW h \in Handlers, Fail(h)
    PROVE  StoreInv'
<1>1. /\ TypeOK /\ LocalOK(handler[h])
      /\ UNCHANGED <<tables, rows, versions, keys, fixed, serial, memory, past, compiled>>
    BY DEF StoreInv, Fail, tables, fixed
<1>2. CASE memory
    <2>1. failed' = failed /\ ~At(h, "version") /\ ~At(h, "idle")
        BY <1>1, <1>2 DEF Fail, LocalOK, Stage, At, TypeOK, StoreInv
    <2> QED
        BY <1>1, <2>1, ReturnStep DEF Fail
<1>3. CASE ~memory
    <2>1. /\ handler' \in [Handlers -> HandlerType] /\ handler'[h] = Idle
          /\ \A g \in Handlers : g # h => handler'[g] = handler[g]
        BY <1>1, IdleOK, HandlerMoved DEF Fail, Return
    <2>2. failed'
        BY <1>3 DEF Fail
    <2>3. TypeOK'
        BY <1>1, <2>1 DEF TypeOK, Fail
    <2>4. ASSUME NEW f \in Fragments PROVE FragmentOK(f)'
        BY <1>1 DEF StoreInv, FragmentOK, Opens
    <2>5. ASSUME NEW g \in Handlers PROVE LocalOK(handler[g])'
        <3>1. PICK k \in HandlerType : k = handler'[g] /\ LocalOK(k)
            BY <2>1, IdleOK DEF StoreInv
        <3>2. LocalOK(k)'
            BY <1>1, <3>1, LocalKept
        <3> QED
            BY <3>1, <3>2, LocalAt
    <2>6. Apart'
        BY <1>1, <2>1, IdleOK DEF StoreInv, Apart, At, Creating
    <2>7. Recorded'
        BY <2>2 DEF Recorded
    <2>8. CompiledOK'
        BY <1>1 DEF StoreInv, CompiledOK
    <2> QED
        BY <2>3, <2>4, <2>5, <2>6, <2>7, <2>8 DEF StoreInv
<1> QED
    BY <1>2, <1>3

----------------------------------------------------------------------------
(* Compilations.                                                           *)

LoadedRow == [id : Fragments, row : RowType]

\* Nobody is kept waiting for a write by a compilation: its state is its own.
LEMMA CompileMoved ==
    ASSUME StoreInv, NEW h \in Handlers, handler[h].pc \in {"load", "compile", "read"},
           NEW place \in {"compile", "read", "key", "save"},
           NEW loaded \in SUBSET LoadedRow, NEW reading \in SUBSET LoadedRow,
           NEW sources \in SUBSET Source,
           NEW l, l = [handler[h] EXCEPT !.pc = place, !.loaded = loaded,
                                         !.reading = reading, !.sources = sources],
           Compiles(l),
           place = "key" => handler[h].call.kind = "compile",
           handler' = [handler EXCEPT ![h] = l],
           UNCHANGED <<tables, history>>
    PROVE  StoreInv'
<1>1. TypeOK /\ LocalOK(handler[h]) /\ handler[h] \in HandlerType
    BY DEF StoreInv, TypeOK
<1>2. l \in HandlerType
    BY <1>1 DEF HandlerType, Places, LoadedRow
<1>3. /\ l.pc = place /\ l.call = handler[h].call /\ l.row = handler[h].row
      /\ l.fragment = handler[h].fragment /\ l.content = handler[h].content
      /\ l.key = handler[h].key
    BY <1>1 DEF HandlerType
<1>4. handler[h].call.kind \in {"compile", "preview"}
    BY <1>1 DEF LocalOK, Stage
<1>5. ~Creating(l) /\ ~Updating(l) /\ ~Encrypts(l.call) /\ ~Edits(l.call)
    BY <1>3, <1>4 DEF Creating, Updating, Encrypts, Edits
<1>6. Stage(l) /\ Equipped(l)
    BY <1>1, <1>3, <1>4, <1>5 DEF LocalOK, Stage, Equipped
<1>7. Holds(l)
    BY <1>1, <1>3, <1>5 DEF LocalOK, Holds
<1>8. compiled' \subseteq Source /\ CompiledOK'
    BY DEF StoreInv, TypeOK, CompiledOK, history, fixed, tables
<1> QED
    BY <1>2, <1>5, <1>6, <1>7, <1>8, MovedStep DEF LocalOK, At, history

LEMMA LoadStep ==
    ASSUME StoreInv, NEW h \in Handlers, LoadFragments(h)
    PROVE  StoreInv'
<1> DEFINE enabled == UNION {{[id |-> f, row |-> row] : row \in {r \in Live(f) : r.enabled}}
                               : f \in Fragments}
<1>1. /\ TypeOK /\ LocalOK(handler[h]) /\ handler[h] \in HandlerType
      /\ handler[h].pc = "load"
    BY DEF StoreInv, TypeOK, LoadFragments, At
<1>2. \A s \in enabled : \E f \in Fragments : \E row \in rows[f] : s = [id |-> f, row |-> row]
    BY DEF Live
<1>3. \A f \in Fragments : rows[f] \subseteq RowType
    BY <1>1 DEF TypeOK
<1>4. handler' = [handler EXCEPT ![h].loaded = enabled, ![h].pc = "compile"]
    BY DEF LoadFragments
<1> HIDE DEF enabled
<1>5. \A s \in enabled : /\ s \in LoadedRow
                        /\ EditionOf(s.row) \in past[s.id]
    BY <1>2, <1>3 DEF StoreInv, FragmentOK, LoadedRow
<1>6. /\ handler[h].reading = {} /\ handler[h].sources \in SUBSET Source
      /\ ~memory \/ serial =>
            \A s \in handler[h].sources : EditionRead(s) \in past[s.fragment]
    BY <1>1 DEF LocalOK, Compiles, HandlerType
<1>7. PICK l : l = [handler[h] EXCEPT !.pc = "compile", !.loaded = enabled, !.reading = {},
                                      !.sources = handler[h].sources]
    OBVIOUS
<1>8. handler' = [handler EXCEPT ![h] = l]
    <2>1. [handler[h] EXCEPT !.loaded = enabled, !.pc = "compile"] = l
        BY <1>1, <1>6, <1>7 DEF HandlerType
    <2>2. handler' = [handler EXCEPT ![h] =
                        [handler[h] EXCEPT !.loaded = enabled, !.pc = "compile"]]
        BY <1>1, <1>4 DEF TypeOK
    <2> QED
        BY <2>1, <2>2
<1>9. enabled \in SUBSET LoadedRow /\ {} \in SUBSET LoadedRow
    BY <1>5
<1>10. Compiles(l)
    <2>1. l.loaded = enabled /\ l.reading = {} /\ l.sources = handler[h].sources
        BY <1>1, <1>7 DEF HandlerType
    <2> QED
        BY <1>5, <1>6, <2>1 DEF Compiles
<1>11. UNCHANGED <<tables, history>>
    BY DEF LoadFragments
<1> QED
    BY <1>1, <1>6, <1>7, <1>8, <1>9, <1>10, <1>11, CompileMoved

\* What starts to be read is a content the fragment has or had.
LEMMA FoundOK ==
    ASSUME StoreInv, NEW s \in LoadedRow,
           EditionOf(s.row) \in past[s.id]
    PROVE  /\ Found(s) \subseteq LoadedRow
           /\ \A r \in Found(s) : EditionOf(r.row) \in past[r.id]
           /\ memory => \A r \in Found(s) : rows[r.id] = {r.row}
<1>1. CASE memory
    <2>1. ASSUME NEW r \in Found(s)
          PROVE  \E row \in rows[s.id] : r = [id |-> s.id, row |-> row]
        <3>1. PICK row \in rows[s.id] : r = [s EXCEPT !.row = row]
            BY <1>1, <2>1 DEF Found
        <3> QED
            BY <3>1 DEF LoadedRow
    <2>2. s.id \in Fragments /\ rows[s.id] \subseteq RowType
        BY DEF StoreInv, TypeOK, LoadedRow
    <2>3. /\ \A row \in rows[s.id] : EditionOf(row) \in past[s.id]
          /\ \A row \in rows[s.id] : rows[s.id] = {row}
        BY <2>2 DEF StoreInv, FragmentOK, One
    <2> QED
        BY <1>1, <2>1, <2>2, <2>3 DEF LoadedRow
<1>2. CASE ~memory
    BY <1>2 DEF Found
<1> QED
    BY <1>1, <1>2

LEMMA NextSourceStep ==
    ASSUME StoreInv, NEW h \in Handlers, handler[h].pc \in {"compile", "read"},
           NEW sources \in SUBSET Source,
           ~memory \/ serial => \A s \in sources : EditionRead(s) \in past[s.fragment],
           NextSource(h, handler[h].loaded, sources),
           UNCHANGED <<tables, history>>
    PROVE  StoreInv'
<1>1. /\ TypeOK /\ LocalOK(handler[h]) /\ handler[h] \in HandlerType
      /\ handler[h].loaded \in SUBSET LoadedRow
      /\ \A s \in handler[h].loaded : EditionOf(s.row) \in past[s.id]
      /\ handler[h].call.kind \in {"compile", "preview"}
    BY DEF StoreInv, TypeOK, HandlerType, LocalOK, Stage, Compiles, LoadedRow
<1>2. CASE handler[h].loaded # {}
    <2>1. PICK s \in handler[h].loaded :
            handler' = [handler EXCEPT ![h].loaded = handler[h].loaded \ {s},
                          ![h].pc = "read", ![h].reading = Found(s), ![h].sources = sources]
        BY <1>2 DEF NextSource
    <2> DEFINE rest == handler[h].loaded \ {s}
    <2>2. PICK l : l = [handler[h] EXCEPT !.pc = "read", !.loaded = rest,
                                          !.reading = Found(s), !.sources = sources]
        OBVIOUS
    <2>3. handler' = [handler EXCEPT ![h] = l]
        BY <1>1, <2>1, <2>2 DEF TypeOK, HandlerType
    <2>4. /\ Found(s) \in SUBSET LoadedRow
          /\ \A r \in Found(s) : EditionOf(r.row) \in past[r.id]
          /\ memory => \A r \in Found(s) : rows[r.id] = {r.row}
        BY <1>1, FoundOK
    <2>5. rest \in SUBSET LoadedRow
        BY <1>1
    <2>6. Compiles(l)
        <3>1. /\ l.loaded = rest /\ l.reading = Found(s) /\ l.sources = sources
              /\ l.pc = "read"
            BY <1>1, <2>2 DEF HandlerType
        <3> QED
            BY <1>1, <2>4, <3>1 DEF Compiles
    <2> HIDE DEF rest
    <2> QED
        BY <2>2, <2>3, <2>4, <2>5, <2>6, CompileMoved
<1>3. CASE handler[h].loaded = {}
    <2>1. PICK place \in AfterStack(handler[h].call) :
            handler' = [handler EXCEPT ![h] =
               IF place = "idle" THEN Idle
               ELSE [handler[h] EXCEPT !.pc = place, !.reading = {}, !.loaded = {},
                                       !.sources = sources]]
        BY <1>1, <1>3 DEF NextSource, TypeOK
    <2>2. CASE place = "idle"
        <3>1. Return(h)
            BY <2>1, <2>2 DEF Return
        <3> QED
            BY <3>1, ReturnStep DEF At, history
    <2>3. CASE place # "idle"
        <3>1. place \in {"key", "save"} /\ handler[h].call.kind = "compile"
            BY <1>1, <2>1, <2>3 DEF AfterStack
        <3>2. PICK l : l = [handler[h] EXCEPT !.pc = place, !.loaded = {}, !.reading = {},
                                              !.sources = sources]
            OBVIOUS
        <3>3. handler' = [handler EXCEPT ![h] = l]
            BY <1>1, <2>1, <2>3, <3>2 DEF HandlerType
        <3>4. Compiles(l) /\ {} \in SUBSET LoadedRow
            <4>1. l.loaded = {} /\ l.reading = {} /\ l.sources = sources
                BY <1>1, <3>2 DEF HandlerType
            <4> QED
                BY <4>1 DEF Compiles
        <3> QED
            BY <3>1, <3>2, <3>3, <3>4, CompileMoved
    <2> QED
        BY <2>2, <2>3
<1> QED
    BY <1>2, <1>3

\* What has been read is recorded with the version that is there by then.
LEMMA FinishSourceStep ==
    ASSUME StoreInv, NEW h \in Handlers, FinishSource(h)
    PROVE  StoreInv'
<1>1. /\ TypeOK /\ LocalOK(handler[h]) /\ handler[h].pc = "read"
      /\ handler[h] \in HandlerType
    BY DEF StoreInv, TypeOK, FinishSource, At
<1>2. PICK s \in handler[h].reading :
        NextSource(h, handler[h].loaded, handler[h].sources \cup
          {[ fragment |-> s.id, content |-> s.row.blob.content, version |-> VersionRead(s) ]})
    BY DEF FinishSource
<1>3. /\ s.id \in Fragments /\ s.row \in RowType /\ EditionOf(s.row) \in past[s.id]
      /\ memory /\ serial => rows[s.id] = {s.row}
    BY <1>1, <1>2 DEF LocalOK, Compiles, HandlerType
<1> DEFINE source == [ fragment |-> s.id, content |-> s.row.blob.content,
                       version |-> VersionRead(s) ]
<1>4. VersionRead(s) \in Nat \ {0} /\ (~memory \/ serial => VersionRead(s) = s.row.version)
    <2>1. s.row.version \in Nat \ {0}
        BY <1>3 DEF RowType
    <2>2. CASE memory
        <3>1. rows[s.id] # {} /\ rows[s.id] \subseteq RowType
            BY <1>1, <1>3 DEF StoreInv, FragmentOK, TypeOK
        <3>2. (CHOOSE row \in rows[s.id] : TRUE) \in rows[s.id]
            BY <3>1
        <3> QED
            BY <1>3, <2>1, <2>2, <3>1, <3>2 DEF VersionRead, RowType
    <2>3. CASE ~memory
        BY <2>1, <2>3 DEF VersionRead
    <2> QED
        BY <2>2, <2>3
<1>5. s.row.blob.content \in Contents
    BY <1>3 DEF RowType, Blob
<1>6. /\ source \in Source
      /\ ~memory \/ serial => EditionRead(source) \in past[source.fragment]
    BY <1>3, <1>4, <1>5 DEF Source, EditionRead, EditionOf
<1> HIDE DEF source
<1>7. PICK sources : sources = handler[h].sources \cup {source}
    OBVIOUS
<1>8. /\ sources \in SUBSET Source
      /\ ~memory \/ serial => \A r \in sources : EditionRead(r) \in past[r.fragment]
    BY <1>1, <1>6, <1>7 DEF LocalOK, Compiles, HandlerType
<1>9. NextSource(h, handler[h].loaded, sources)
    BY <1>2, <1>7 DEF source
<1> QED
    BY <1>1, <1>8, <1>9, NextSourceStep DEF FinishSource

LEMMA StoreNext == StoreInv /\ [Next]_vars => StoreInv'
<1>1. ASSUME StoreInv, UNCHANGED vars PROVE StoreInv'
    <2>1. UNCHANGED <<rows, versions, keys, handler, serial, memory, compiled, past, failed>>
        BY <1>1 DEF vars
    <2>2. TypeOK'
        BY <1>1, <2>1 DEF StoreInv, TypeOK
    <2>3. \A f \in Fragments : FragmentOK(f)'
        BY <1>1, <2>1 DEF StoreInv, FragmentOK, Opens
    <2>4. \A h \in Handlers : LocalOK(handler[h])'
        BY <1>1, <2>1 DEF StoreInv, LocalOK, Stage, Equipped, Holds, Compiles, Opens,
            Creating, Updating
    <2>5. Apart' /\ Recorded' /\ CompiledOK'
        BY <1>1, <2>1 DEF StoreInv, Apart, Recorded, CompiledOK, At, InHistory, AboutTo,
            Creating
    <2> QED
        BY <2>2, <2>3, <2>4, <2>5 DEF StoreInv
<1>2. ASSUME StoreInv, NEW h \in Handlers, Advance(h) PROVE StoreInv'
    <2>1. CASE SelectFragment(h)
        BY <1>2, <2>1, SelectStep
    <2>2. CASE DecryptOld(h)
        BY <1>2, <2>2, DecryptStep
    <2>3. CASE FindKey(h) \/ MakeKey(h)
        BY <1>2, <2>3, FindKeyStep, MakeKeyStep
    <2>4. CASE InsertFragment(h) \/ PushFragment(h)
        BY <1>2, <2>4, InsertStep
    <2>5. CASE WriteRow(h)
        <3>1. CASE Live(handler[h].fragment) # {}
            BY <1>2, <2>5, <3>1, WriteRowStep
        <3>2. CASE Live(handler[h].fragment) = {}
            <4>1. /\ Return(h) /\ UNCHANGED <<tables, fixed, past, failed, compiled>>
                  /\ ~At(h, "version") /\ ~At(h, "idle")
                BY <2>5, <3>2 DEF WriteRow, tables, At
            <4> QED
                BY <1>2, <4>1, ReturnStep
        <3> QED
            BY <3>1, <3>2
    <2>6. CASE InsertVersion(h)
        BY <1>2, <2>6, InsertVersionStep
    <2>7. CASE DeleteFragment(h)
        BY <1>2, <2>7, DeleteStep
    <2>8. CASE FindFragment(h)
        BY <1>2, <2>8, FindStep
    <2>9. CASE WriteObject(h)
        BY <1>2, <2>9, WriteObjectStep
    <2>10. CASE LoadFragments(h)
        BY <1>2, <2>10, LoadStep
    <2>11. CASE ReadSources(h)
        <3>1. /\ handler[h].pc = "compile" /\ UNCHANGED <<tables, history>>
              /\ NextSource(h, handler[h].loaded, {})
            BY <2>11 DEF ReadSources, At
        <3> QED
            BY <1>2, <3>1, NextSourceStep
    <2>12. CASE FinishSource(h)
        BY <1>2, <2>12, FinishSourceStep
    <2>13. CASE SaveCompilation(h)
        BY <1>2, <2>13, ReturnStep DEF SaveCompilation, At
    <2>14. CASE Fail(h)
        BY <1>2, <2>14, FailStep
    <2> QED
        BY <1>2, <2>1, <2>2, <2>3, <2>4, <2>5, <2>6, <2>7, <2>8, <2>9, <2>10, <2>11,
            <2>12, <2>13, <2>14 DEF Advance
<1> QED
    BY <1>1, <1>2, ArriveStep DEF Next

LEMMA StoreAlways == Spec => []StoreInv
BY StoreInit, StoreNext, PTL DEF Spec

----------------------------------------------------------------------------
(* Theorems.                                                               *)

\* Every fragment opens under the name it has, and every version of the history
\* under a key that is saved.
THEOREM FragmentsAreReadable == Spec => []AlwaysReadable
<1>1. StoreInv => AlwaysReadable
    BY DEF StoreInv, FragmentOK, AlwaysReadable
<1> QED
    BY <1>1, StoreAlways, PTL

\* Unless a request failed, what was ever written is in the history as soon as
\* no request is about to put it there.
THEOREM HistoryIsComplete == Spec => []HistoryComplete
<1>1. StoreInv => HistoryComplete
    BY DEF StoreInv, Recorded, InHistory, AboutTo, HistoryComplete
<1> QED
    BY <1>1, StoreAlways, PTL

\* A compilation records versions that tell what was compiled.
THEOREM VersionsTell == Spec => []VersionsIdentify
<1>1. StoreInv => VersionsIdentify
    BY DEF StoreInv, FragmentOK, CompiledOK, EditionRead, VersionsIdentify
<1> QED
    BY <1>1, StoreAlways, PTL

\* The rows of a fragment that a step may change, and to what.
LEMMA DeletedKept ==
    ASSUME StoreInv, [Next]_vars, NEW f \in Fragments, NEW row \in rows[f], row.deleted
    PROVE  /\ \A next \in rows'[f] : next.deleted
           /\ memory \/ rows'[f] = rows[f]
<1>1. rows[f] = {row} /\ row \in RowType /\ (memory \/ ~row.enabled) /\ Live(f) = {}
    <2>1. rows[f] = {row} /\ row \in RowType /\ (memory \/ ~row.enabled)
        BY DEF StoreInv, FragmentOK, One, TypeOK
    <2> QED
        BY <2>1 DEF Live
<1>2. CASE UNCHANGED rows
    BY <1>1, <1>2
<1>3. ASSUME NEW h \in Handlers, Advance(h) PROVE UNCHANGED rows \/
                 InsertFragment(h) \/ WriteRow(h) \/ DeleteFragment(h) \/ PushFragment(h)
                 \/ FindFragment(h) \/ WriteObject(h)
    BY <1>3 DEF Advance, SelectFragment, DecryptOld, FindKey, MakeKey, InsertVersion,
        LoadFragments, ReadSources, FinishSource, SaveCompilation, Fail, tables
<1>4. ASSUME NEW h \in Handlers, handler[h].fragment # f \/ UNCHANGED rows,
             InsertFragment(h) \/ WriteRow(h) \/ DeleteFragment(h) \/ PushFragment(h)
                 \/ FindFragment(h) \/ WriteObject(h)
      PROVE  rows'[f] = rows[f]
    <2>1. CASE UNCHANGED rows
        BY <2>1
    <2>2. CASE handler[h].fragment # f
        <3>1. rows' = rows \/ \E rs : rows' = [rows EXCEPT ![handler[h].fragment] = rs]
            BY <1>4 DEF InsertFragment, WriteRow, DeleteFragment, PushFragment,
                FindFragment, WriteObject, Store
        <3> QED
            BY <2>2, <3>1 DEF StoreInv, TypeOK
    <2> QED
        BY <1>4, <2>1, <2>2
<1>5. ASSUME NEW h \in Handlers, handler[h].fragment = f,
             InsertFragment(h) \/ WriteRow(h) \/ DeleteFragment(h) \/ PushFragment(h)
                 \/ FindFragment(h) \/ WriteObject(h)
      PROVE  \/ UNCHANGED rows
             \/ /\ \A next \in rows'[f] : next.deleted
                /\ memory \/ rows'[f] = rows[f]
    <2>1. /\ LocalOK(handler[h]) /\ TypeOK /\ handler[h] \in HandlerType
        BY DEF StoreInv, TypeOK
    <2>2. ~InsertFragment(h) /\ ~PushFragment(h)
        <3>1. handler[h].pc = "insert" => rows[f] = {}
            BY <1>5, <2>1 DEF LocalOK, Stage, Holds, Creating
        <3> QED
            BY <1>1, <3>1 DEF InsertFragment, PushFragment, At
    <2>3. CASE WriteRow(h) \/ FindFragment(h)
        BY <1>1, <1>5, <2>3 DEF WriteRow, FindFragment
    <2>4. CASE DeleteFragment(h)
        <3>1. rows'[f] = {Deleted(row)}
            BY <1>1, <1>5, <2>1, <2>4 DEF DeleteFragment, TypeOK
        <3>2. Deleted(row).deleted /\ (~row.enabled => Deleted(row) = row)
            BY <1>1 DEF Deleted, RowType
        <3> QED
            BY <1>1, <3>1, <3>2
    <2>5. CASE WriteObject(h)
        <3>1. PICK found \in handler[h].row, object \in rows[f] :
                Store(h, f, Updated(h, found, object), "idle")
            BY <1>5, <2>5 DEF WriteObject
        <3>2. found \in RowType /\ object = row
            BY <1>1, <2>1, <3>1 DEF HandlerType
        <3>3. handler[h].call.kind = "update" /\ Edits(handler[h].call) /\ memory
              /\ handler[h].pc = "write"
            BY <2>1, <2>5 DEF WriteObject, LocalOK, Stage, At
        <3>4. Updated(h, found, row).deleted
            BY <1>1, <2>1, <3>2, <3>3, UpdatedOK
        <3>5. rows'[f] = {Updated(h, found, row)}
            BY <2>1, <3>1, <3>2 DEF Store, TypeOK
        <3> QED
            BY <3>3, <3>4, <3>5
    <2> QED
        BY <1>5, <2>2, <2>3, <2>4, <2>5
<1>6. CASE \E h \in Handlers : \E call \in Calls, g \in Fragments : Arrive(h, call, g)
    BY <1>2, <1>6 DEF Arrive, tables
<1>7. CASE \E h \in Handlers : Advance(h)
    <2>1. PICK h \in Handlers : Advance(h)
        BY <1>7
    <2>2. CASE UNCHANGED rows
        BY <1>2, <2>2
    <2>3. CASE \/ InsertFragment(h) \/ WriteRow(h) \/ DeleteFragment(h) \/ PushFragment(h)
               \/ FindFragment(h) \/ WriteObject(h)
        <3>1. CASE handler[h].fragment = f
            BY <1>2, <1>5, <2>3, <3>1
        <3>2. CASE handler[h].fragment # f
            <4>1. rows'[f] = rows[f]
                BY <1>4, <2>3, <3>2
            <4> QED
                BY <1>1, <4>1
        <3> QED
            BY <3>1, <3>2
    <2> QED
        BY <1>3, <2>1, <2>2, <2>3
<1> QED
    BY <1>2, <1>6, <1>7 DEF Next, vars

\* No step brings a deleted fragment back, or, over SQL, touches its row.
THEOREM DeletedFragmentsStay == Spec => DeletedStaysDeleted
<1>1. StoreInv /\ [Next]_vars =>
        [ \A f \in Fragments : \A row \in rows[f] :
            row.deleted => /\ \A next \in rows'[f] : next.deleted
                           /\ memory \/ rows'[f] = rows[f] ]_vars
    BY DeletedKept
<1> QED
    BY <1>1, StoreAlways, PTL DEF Spec, DeletedStaysDeleted
=============================================================================
