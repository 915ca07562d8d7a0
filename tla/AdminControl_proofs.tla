------------------------ MODULE AdminControl_proofs ------------------------
(***************************************************************************)
(* Proofs about AdminControl for any number of handlers, any set of calls  *)
(* and any bound on the bundles.                                           *)
(***************************************************************************)
EXTENDS AdminControl, WellFoundedInduction, TLAPS

----------------------------------------------------------------------------
(* The last of a list, as BundleMode looks for it.                         *)

\* A set of naturals that is not empty has a least element.
LEMMA LeastNatural ==
    ASSUME NEW T \in SUBSET Nat, T # {}
    PROVE  \E x \in T : \A y \in T : x <= y
<1>1. PICK x \in T : \A y \in T : ~(<<y, x>> \in OpToRel(<, Nat))
    BY WFMin, NatLessThanWellFounded
<1>2. ASSUME NEW y \in T PROVE x <= y
    <2>1. y < x => <<y, x>> \in OpToRel(<, Nat)
        BY DEF OpToRel
    <2>2. ~(y < x)
        BY <1>1, <2>1
    <2>3. x \in Nat /\ y \in Nat
        OBVIOUS
    <2> QED
        BY <2>2, <2>3
<1> QED
    BY <1>2

\* Max finds the greatest of some positions of a list.
LEMMA MaxOfPositions ==
    ASSUME NEW n \in Nat, NEW T \in SUBSET (1..n), T # {}
    PROVE  Max(T) \in T
<1> DEFINE fromEnd == {k \in 0..n : n - k \in T}
<1>1. PICK i \in T : TRUE
    OBVIOUS
<1>2. n - i \in fromEnd /\ fromEnd \in SUBSET Nat
    OBVIOUS
<1>3. \A k \in fromEnd : n - k \in T
    OBVIOUS
<1>4. \A j \in T : n - j \in fromEnd
    OBVIOUS
<1> HIDE DEF fromEnd
<1>5. PICK x \in fromEnd : \A y \in fromEnd : x <= y
    BY <1>2, LeastNatural
<1>6. \A j \in T : n - x >= j
    BY <1>2, <1>4, <1>5
<1> QED
    BY <1>3, <1>5, <1>6 DEF Max

\* What is built of rows is a mode, or none.
LEMMA BuildTyped ==
    ASSUME NEW ps \in Seq(Stored), NEW bs \in Seq(Bundle)
    PROVE  Build(ps, bs) \in Stored
<1> DEFINE naming == {i \in 1..Len(bs) : bs[i].enabled /\ bs[i].mode # "none"}
<1>1. BundleMode(bs) \in Stored
    <2>1. CASE naming = {}
        BY <2>1 DEF BundleMode, Stored
    <2>2. CASE naming # {}
        <3> HIDE DEF naming
        <3>1. Len(bs) \in Nat /\ naming \in SUBSET (1..Len(bs))
            BY DEF naming
        <3>2. Max(naming) \in naming
            BY <2>2, <3>1, MaxOfPositions
        <3> USE DEF naming
        <3>3. bs[Max(naming)] \in Bundle
            BY <3>2
        <3> QED
            BY <2>2, <3>3 DEF BundleMode, Bundle
    <2> QED
        BY <2>1, <2>2
<1>2. ps # <<>> => ps[1] \in Stored
    OBVIOUS
<1> QED
    BY <1>1, <1>2 DEF Build, Stored

\* A row of a list of bundles, as it is and with its flag switched.
LEMMA BundleAt ==
    ASSUME NEW bs \in Seq(Bundle), NEW i \in 1..Len(bs)
    PROVE  /\ bs[i] \in Bundle /\ bs[i].enabled \in BOOLEAN
           /\ \A flag \in BOOLEAN : [bs[i] EXCEPT !.enabled = flag] \in Bundle
<1>1. bs[i] \in Bundle
    OBVIOUS
<1>2. ASSUME NEW bundle \in Bundle, NEW flag \in BOOLEAN
      PROVE  bundle.enabled \in BOOLEAN /\ [bundle EXCEPT !.enabled = flag] \in Bundle
    BY <1>2 DEF Bundle
<1> QED
    BY <1>1, <1>2

LEMMA SwitchedTyped ==
    ASSUME NEW bs \in Seq(Bundle), NEW row, NEW flag \in BOOLEAN
    PROVE  [bs EXCEPT ![row].enabled = flag] \in Seq(Bundle)
<1> DEFINE new == [bs EXCEPT ![row].enabled = flag]
<1>1. Len(bs) \in Nat /\ bs = [i \in 1..Len(bs) |-> bs[i]]
    OBVIOUS
<1>2. new = [i \in 1..Len(bs) |-> IF i = row THEN [bs[i] EXCEPT !.enabled = flag] ELSE bs[i]]
    BY <1>1
<1>3. \A i \in 1..Len(bs) :
        (IF i = row THEN [bs[i] EXCEPT !.enabled = flag] ELSE bs[i]) \in Bundle
    BY BundleAt
<1>4. new \in [1..Len(bs) -> Bundle]
    BY <1>2, <1>3
<1> HIDE DEF new
<1>5. new \in Seq(Bundle)
    BY <1>1, <1>4
<1> QED
    BY <1>5 DEF new

\* An upsert keeps a list of modes, and adds a row only when it found none.
LEMMA UpsertedTyped ==
    ASSUME policies \in Seq(Stored), NEW row \in Nat, NEW mode \in Stored
    PROVE  /\ Upserted(row, mode) \in Seq(Stored)
           /\ row = 0 => Len(Upserted(row, mode)) = Len(policies) + 1
           /\ row # 0 => Len(Upserted(row, mode)) = Len(policies)
<1> HIDE DEF Stored
<1>1. CASE row = 0
    BY <1>1 DEF Upserted
<1>2. CASE row # 0
    <2> DEFINE new == [policies EXCEPT ![row] = mode]
    <2>1. Len(policies) \in Nat /\ policies \in [1..Len(policies) -> Stored]
        OBVIOUS
    <2>2. new \in [1..Len(policies) -> Stored]
        BY <2>1
    <2> HIDE DEF new
    <2>3. new \in Seq(Stored) /\ Len(new) = Len(policies)
        BY <2>1, <2>2
    <2> QED
        BY <1>2, <2>3 DEF Upserted, new
<1> QED
    BY <1>1, <1>2

----------------------------------------------------------------------------
(* The inductive invariant.                                                *)

\* A handler reads one snapshot; unless a write has overtaken it, what it has
\* read so far is what is there.
SnapshotOK(h) ==
    At(h, "build") /\ h \notin moved =>
        /\ "policies" \notin handler[h].waiting => handler[h].policies = policies
        /\ "bundles" \notin handler[h].waiting => handler[h].bundles = bundles

\* Of requests one at a time only one is under way, so that no snapshot is ever
\* overtaken, and a retention policy is inserted only where there is none.
OneAtATime ==
    serial =>
        /\ \A g, h \in Handlers : g # h => At(g, "idle") \/ At(h, "idle")
        /\ moved = {}
        /\ \A h \in Handlers :
              At(h, "write") /\ handler[h].call.kind = "retention" /\ handler[h].row = 0
                => policies = <<>>

\* In memory a policy is found and written in one step.
InMemory ==
    memory => \A h \in Handlers : ~(At(h, "write") /\ handler[h].call.kind = "retention")

ControlInv ==
    /\ UndisturbedIsCurrent
    /\ \A h \in Handlers : SnapshotOK(h)
    /\ OneAtATime
    /\ InMemory

LEMMA IdleTyped == Idle \in HandlerType /\ Idle.pc = "idle" /\ Idle.waiting = {}
<1>1. (CHOOSE call \in Calls : TRUE) \in Calls
    BY AdminAssumption
<1> QED
    BY <1>1 DEF Idle, HandlerType, Places

LEMMA ControlInit == Init => ControlInv
<1> SUFFICES ASSUME Init PROVE ControlInv
    OBVIOUS
<1>1. policies \in Seq(Stored) /\ Len(policies) <= 1 /\ bundles \in Seq(Bundle)
    <2>1. CASE policies = <<>>
        BY <2>1 DEF Init
    <2>2. CASE \E m \in Stored : policies = <<m>>
        BY <2>2 DEF Init
    <2> QED
        BY <2>1, <2>2 DEF Init
<1>2. published \in Stored /\ published = InForce
    BY <1>1, BuildTyped DEF Init, InForce
<1>3. handler \in [Handlers -> HandlerType] /\ \A h \in Handlers : handler[h].pc = "idle"
    BY IdleTyped DEF Init
<1>4. UndisturbedIsCurrent
    BY <1>1, <1>2, <1>3 DEF Init, UndisturbedIsCurrent, TypeOK
<1> QED
    BY <1>3, <1>4 DEF Init, ControlInv, SnapshotOK, OneAtATime, InMemory, At

\* Moving one handler to a typed state keeps all handlers typed.
LEMMA HandlerMoved ==
    ASSUME TypeOK, NEW h \in Handlers, NEW state \in HandlerType,
           handler' = [handler EXCEPT ![h] = state]
    PROVE  /\ handler' \in [Handlers -> HandlerType]
           /\ handler'[h] = state
           /\ \A g \in Handlers : g # h => handler'[g] = handler[g]
BY DEF TypeOK

\* A request begins and finds its row: nothing is written yet.
Seek(h) ==
    \/ \E call \in Calls : Begin(h, call)
    \/ SelectPolicy(h) \/ SelectBundle(h) \/ AuditChange(h)

Write(h) ==
    \/ WritePolicy(h) \/ InsertBundle(h) \/ UpdateBundle(h)
    \/ UpsertInMemory(h) \/ UpdateInMemory(h)

\* The refresh, without its end.
Read(h) == SendQueries(h) \/ CopyTables(h) \/ ReadPolicies(h) \/ ReadBundles(h)

LEMMA NextCases ==
    ASSUME Next
    PROVE  \E h \in Handlers : \/ Seek(h) \/ Write(h) \/ Read(h)
                              \/ Publish(h) \/ Fail(h)
BY DEF Next, Advance, Arrive, ArriveForm, Seek, Write, Read

LEMMA SeekStep ==
    ASSUME ControlInv, NEW h \in Handlers, Seek(h)
    PROVE  ControlInv'
<1>1. /\ TypeOK /\ handler[h] \in HandlerType
      /\ UNCHANGED <<policies, bundles, published, fixed, moved, settled, failed>>
    BY DEF ControlInv, UndisturbedIsCurrent, TypeOK, Seek, Begin, SelectPolicy,
        SelectBundle, AuditChange, history
<1>2. /\ handler' = [handler EXCEPT ![h] = handler'[h]]
      /\ handler'[h] \in HandlerType
      /\ handler'[h].pc # "build"
      /\ serial => \A g \in Handlers : g # h => At(g, "idle")
      /\ handler'[h].pc = "write" /\ handler'[h].call.kind = "retention" =>
            ~memory /\ (handler'[h].row = 0 => policies = <<>>)
    <2>1. CASE \E call \in Calls : Begin(h, call)
        <3>1. PICK call \in Calls : Begin(h, call)
            BY <2>1
        <3> DEFINE place == CASE call.kind = "install" -> "write"
                              [] call.kind = "other"   -> "snapshot"
                              [] OTHER                 -> "select"
        <3>2. handler' = [handler EXCEPT ![h].call = call, ![h].pc = place]
            BY <3>1 DEF Begin
        <3>3. /\ place \in {"write", "snapshot", "select"}
              /\ place = "write" => call.kind = "install"
            OBVIOUS
        <3>4. serial => \A g \in Handlers : At(g, "idle")
            BY <3>1 DEF Begin, InFlight
        <3> HIDE DEF place
        <3> QED
            BY <1>1, <3>2, <3>3, <3>4 DEF HandlerType, Places, TypeOK
    <2>2. ASSUME handler[h].pc # "idle"
          PROVE  serial => \A g \in Handlers : g # h => At(g, "idle")
        BY <2>2 DEF ControlInv, OneAtATime, At
    <2>3. CASE SelectPolicy(h)
        <3>1. PICK row \in IF policies = <<>> THEN {0} ELSE 1..Len(policies) :
                handler' = [handler EXCEPT ![h].row = row, ![h].pc = "write"]
            BY <2>3 DEF SelectPolicy
        <3>2. row \in Nat /\ (row = 0 => policies = <<>>)
            BY <1>1 DEF TypeOK
        <3> QED
            BY <1>1, <2>2, <2>3, <3>1, <3>2 DEF SelectPolicy, At, HandlerType, Places, TypeOK
    <2>4. CASE SelectBundle(h)
        <3>1. /\ handler[h].call.kind \in {"toggle", "approve"}
              /\ handler[h].pc = "select"
            BY <2>4 DEF SelectBundle, At
        <3>2. CASE handler' = [handler EXCEPT ![h].row = 0, ![h].pc = "audit"]
            BY <1>1, <2>2, <3>1, <3>2 DEF HandlerType, Places, TypeOK
        <3>3. CASE \E row \in 1..Len(bundles) :
                     handler' = [handler EXCEPT ![h].row = row, ![h].pc = "write",
                                                ![h].kept = bundles[row].enabled]
            <4>1. PICK row \in 1..Len(bundles) :
                    handler' = [handler EXCEPT ![h].row = row, ![h].pc = "write",
                                               ![h].kept = bundles[row].enabled]
                BY <3>3
            <4>2. row \in Nat /\ bundles[row].enabled \in BOOLEAN
                BY <1>1, BundleAt DEF TypeOK
            <4> QED
                BY <1>1, <2>2, <3>1, <4>1, <4>2 DEF HandlerType, Places, TypeOK
        <3> QED
            BY <2>4, <3>2, <3>3 DEF SelectBundle
    <2>5. CASE AuditChange(h)
        BY <1>1, <2>2, <2>5 DEF AuditChange, Goto, At, HandlerType, Places, TypeOK
    <2> QED
        BY <2>1, <2>3, <2>4, <2>5 DEF Seek
<1>3. /\ handler' \in [Handlers -> HandlerType]
      /\ \A g \in Handlers : g # h => handler'[g] = handler[g]
    BY <1>1, <1>2, HandlerMoved
<1>4. UndisturbedIsCurrent'
    BY <1>1, <1>3 DEF ControlInv, UndisturbedIsCurrent, TypeOK, InForce, fixed
<1>5. \A g \in Handlers : SnapshotOK(g)'
    BY <1>1, <1>2, <1>3 DEF ControlInv, SnapshotOK, At
<1>6. OneAtATime'
    BY <1>1, <1>2, <1>3 DEF ControlInv, OneAtATime, At, fixed
<1>7. InMemory'
    BY <1>1, <1>2, <1>3 DEF ControlInv, InMemory, At, fixed
<1> QED
    BY <1>4, <1>5, <1>6, <1>7 DEF ControlInv

\* A write lets every snapshot that is being taken count as overtaken.
LEMMA WriteStep ==
    ASSUME ControlInv, NEW h \in Handlers, Write(h)
    PROVE  ControlInv'
<1>1. /\ TypeOK /\ handler[h] \in HandlerType /\ handler[h].pc \in {"write", "select"}
      /\ Overtake /\ UNCHANGED published
      /\ \E place \in {"snapshot", "audit"} : Goto(h, place)
    BY DEF ControlInv, UndisturbedIsCurrent, TypeOK, Write, WritePolicy, InsertBundle,
        UpdateBundle, UpsertInMemory, UpdateInMemory, At
<1>2. /\ handler' = [handler EXCEPT ![h] = handler'[h]]
      /\ handler'[h] \in HandlerType
      /\ handler'[h].pc \in {"snapshot", "audit"}
    <2>1. PICK place \in {"snapshot", "audit"} : handler' = [handler EXCEPT ![h].pc = place]
        BY <1>1 DEF Goto
    <2>2. [handler[h] EXCEPT !.pc = place] \in HandlerType
        BY <1>1 DEF HandlerType, Places
    <2>3. handler'[h] = [handler[h] EXCEPT !.pc = place]
        BY <1>1, <2>1 DEF TypeOK
    <2> QED
        BY <1>1, <2>1, <2>2, <2>3 DEF HandlerType, TypeOK
<1>3. /\ handler' \in [Handlers -> HandlerType]
      /\ \A g \in Handlers : g # h => handler'[g] = handler[g]
    BY <1>1, <1>2, HandlerMoved
<1>4. /\ policies \in Seq(Stored) /\ bundles \in Seq(Bundle)
      /\ handler[h].call \in CallType
    BY <1>1, AdminAssumption DEF TypeOK, HandlerType
<1>5. /\ policies' \in Seq(Stored)
      /\ serial \/ memory => Len(policies') <= 1
    <2>1. ASSUME NEW row \in Nat, policies' = Upserted(row, handler[h].call.mode),
                 row = 0 /\ (serial \/ memory) => policies = <<>>
          PROVE  policies' \in Seq(Stored) /\ (serial \/ memory => Len(policies') <= 1)
        <3>1. handler[h].call.mode \in Stored
            BY <1>4 DEF CallType
        <3>2. serial \/ memory => Len(policies) <= 1
            BY DEF ControlInv, UndisturbedIsCurrent
        <3> QED
            BY <1>4, <2>1, <3>1, <3>2, UpsertedTyped
    <2>2. CASE WritePolicy(h)
        <3>1. /\ handler[h].row \in Nat
              /\ policies' = Upserted(handler[h].row, handler[h].call.mode)
              /\ handler[h].row = 0 /\ (serial \/ memory) => policies = <<>>
            BY <1>1, <2>2 DEF WritePolicy, HandlerType, ControlInv, OneAtATime, InMemory
        <3> QED
            BY <2>1, <3>1
    <2>3. CASE UpsertInMemory(h)
        <3>1. policies' = Upserted(IF policies = <<>> THEN 0 ELSE 1, handler[h].call.mode)
            BY <2>3 DEF UpsertInMemory
        <3>2. CASE policies = <<>>
            BY <2>1, <3>1, <3>2
        <3>3. CASE policies # <<>>
            BY <2>1, <3>1, <3>3
        <3> QED
            BY <3>2, <3>3
    <2>4. CASE UNCHANGED policies
        BY <1>4, <2>4 DEF ControlInv, UndisturbedIsCurrent
    <2> QED
        BY <2>2, <2>3, <2>4 DEF Write, InsertBundle, UpdateBundle, UpdateInMemory
<1>6. bundles' \in Seq(Bundle)
    <2>1. ASSUME NEW row, NEW kept \in BOOLEAN,
                 bundles' = Switched(row, handler[h].call, kept)
          PROVE  bundles' \in Seq(Bundle)
        <3> DEFINE flag == IF handler[h].call.kind = "toggle"
                           THEN handler[h].call.enabled ELSE kept
        <3>1. flag \in BOOLEAN
            BY <1>4 DEF CallType
        <3>2. bundles' = [bundles EXCEPT ![row].enabled = flag]
            BY <2>1 DEF Switched
        <3> HIDE DEF flag
        <3> QED
            BY <1>4, <3>1, <3>2, SwitchedTyped
    <2>2. CASE InsertBundle(h)
        <3> DEFINE new == [mode |-> handler[h].call.mode, enabled |-> handler[h].call.enabled]
        <3>1. new \in Bundle
            BY <1>4 DEF CallType, Bundle
        <3>2. bundles' = Append(bundles, new)
            BY <2>2 DEF InsertBundle
        <3> HIDE DEF new
        <3> QED
            BY <1>4, <3>1, <3>2
    <2>3. CASE UpdateBundle(h)
        <3>1. handler[h].kept \in BOOLEAN
            BY <1>1 DEF HandlerType
        <3> QED
            BY <2>1, <2>3, <3>1 DEF UpdateBundle
    <2>4. CASE UpdateInMemory(h)
        <3>1. PICK row \in 1..Len(bundles) :
                bundles' = Switched(row, handler[h].call, bundles[row].enabled)
            BY <2>4 DEF UpdateInMemory
        <3>2. bundles[row].enabled \in BOOLEAN
            BY <1>4, BundleAt
        <3> QED
            BY <2>1, <3>1, <3>2
    <2>5. CASE UNCHANGED bundles
        BY <1>4, <2>5
    <2> QED
        BY <2>2, <2>3, <2>4, <2>5 DEF Write, WritePolicy, UpsertInMemory
<1>7. UndisturbedIsCurrent'
    BY <1>1, <1>3, <1>5, <1>6 DEF UndisturbedIsCurrent, TypeOK, Overtake, fixed
<1>8. \A g \in Handlers : SnapshotOK(g)'
    BY <1>1, <1>2, <1>3 DEF SnapshotOK, At, Overtake
<1>9. serial => \A g \in Handlers : g # h => At(g, "idle")
    BY <1>1 DEF ControlInv, OneAtATime, At
<1>10. OneAtATime'
    <2>1. serial => moved' = {}
        BY <1>1, <1>9 DEF ControlInv, OneAtATime, Overtake, At
    <2> QED
        BY <1>1, <1>2, <1>3, <1>9, <2>1 DEF OneAtATime, At, Overtake, fixed
<1>11. InMemory'
    BY <1>1, <1>2, <1>3 DEF ControlInv, InMemory, At, Overtake, fixed
<1> QED
    BY <1>7, <1>8, <1>10, <1>11 DEF ControlInv

\* A snapshot is begun afresh, and read when the database gets to it.
LEMMA ReadStep ==
    ASSUME ControlInv, NEW h \in Handlers, Read(h)
    PROVE  ControlInv'
<1>1. /\ TypeOK /\ handler[h] \in HandlerType /\ handler[h].pc \in {"snapshot", "build"}
      /\ UNCHANGED <<policies, bundles, published, fixed, settled, failed>>
      /\ moved' \in {moved, moved \ {h}}
    BY DEF ControlInv, UndisturbedIsCurrent, TypeOK, Read, SendQueries, CopyTables,
        ReadPolicies, ReadBundles, At, history
<1>2. policies \in Seq(Stored) /\ bundles \in Seq(Bundle)
    BY <1>1 DEF TypeOK
<1>3. /\ handler' = [handler EXCEPT ![h] = handler'[h]]
      /\ handler'[h] \in HandlerType /\ handler'[h].pc = "build"
      /\ SnapshotOK(h)'
    <2>1. CASE SendQueries(h)
        BY <1>1, <2>1, IdleTyped DEF SendQueries, HandlerType, Places, TypeOK, SnapshotOK
    <2>2. CASE CopyTables(h)
        BY <1>1, <1>2, <2>2, IdleTyped
        DEF CopyTables, HandlerType, Places, TypeOK, SnapshotOK, At
    <2>3. CASE ReadPolicies(h)
        BY <1>1, <1>2, <2>3
        DEF ControlInv, ReadPolicies, HandlerType, TypeOK, SnapshotOK, At, history
    <2>4. CASE ReadBundles(h)
        BY <1>1, <1>2, <2>4
        DEF ControlInv, ReadBundles, HandlerType, TypeOK, SnapshotOK, At, history
    <2> QED
        BY <2>1, <2>2, <2>3, <2>4 DEF Read
<1>4. /\ handler' \in [Handlers -> HandlerType]
      /\ \A g \in Handlers : g # h => handler'[g] = handler[g]
    BY <1>1, <1>3, HandlerMoved
<1>5. UndisturbedIsCurrent'
    BY <1>1, <1>4 DEF ControlInv, UndisturbedIsCurrent, TypeOK, InForce, fixed
<1>6. \A g \in Handlers : SnapshotOK(g)'
    BY <1>1, <1>3, <1>4 DEF ControlInv, SnapshotOK, At
<1>7. OneAtATime'
    BY <1>1, <1>3, <1>4 DEF ControlInv, OneAtATime, At, fixed
<1>8. InMemory'
    BY <1>1, <1>3, <1>4 DEF ControlInv, InMemory, At, fixed
<1> QED
    BY <1>5, <1>6, <1>7, <1>8 DEF ControlInv

\* What is published, unless overtaken, is what is there.
LEMMA PublishCurrent ==
    ASSUME ControlInv, NEW h \in Handlers, Publish(h)
    PROVE  published' \in Stored /\ (h \notin moved => published' = InForce)
<1>1. /\ handler[h].policies \in Seq(Stored) /\ handler[h].bundles \in Seq(Bundle)
    BY DEF ControlInv, UndisturbedIsCurrent, TypeOK, HandlerType
<1> QED
    BY <1>1, BuildTyped DEF Publish, ControlInv, SnapshotOK, InForce

\* The end of a request, with its publication or by an error.
LEMMA EndStep ==
    ASSUME ControlInv, NEW h \in Handlers, Publish(h) \/ Fail(h)
    PROVE  ControlInv'
<1>1. /\ TypeOK /\ handler' = [handler EXCEPT ![h] = Idle]
      /\ UNCHANGED <<policies, bundles, fixed, moved>>
    BY DEF ControlInv, UndisturbedIsCurrent, Publish, Fail
<1>2. /\ handler' \in [Handlers -> HandlerType] /\ handler'[h].pc = "idle"
      /\ \A g \in Handlers : g # h => handler'[g] = handler[g]
    BY <1>1, IdleTyped, HandlerMoved
<1>3. /\ published' \in Stored /\ settled' \in BOOLEAN /\ failed' \in BOOLEAN
      /\ settled' => published' = InForce
    <2>1. CASE Publish(h)
        BY <2>1, PublishCurrent DEF Publish, ControlInv, UndisturbedIsCurrent, TypeOK
    <2>2. CASE Fail(h)
        BY <2>2 DEF Fail, ControlInv, UndisturbedIsCurrent, TypeOK
    <2> QED
        BY <2>1, <2>2
<1>4. UndisturbedIsCurrent'
    BY <1>1, <1>2, <1>3 DEF ControlInv, UndisturbedIsCurrent, TypeOK, InForce, fixed
<1>5. \A g \in Handlers : SnapshotOK(g)'
    BY <1>1, <1>2 DEF ControlInv, SnapshotOK, At
<1>6. OneAtATime' /\ InMemory'
    BY <1>1, <1>2 DEF ControlInv, OneAtATime, InMemory, At, fixed
<1> QED
    BY <1>4, <1>5, <1>6 DEF ControlInv

LEMMA ControlNext == ControlInv /\ [Next]_vars => ControlInv'
<1>1. ASSUME ControlInv, UNCHANGED vars PROVE ControlInv'
    BY <1>1 DEF vars, ControlInv, UndisturbedIsCurrent, TypeOK, InForce, SnapshotOK,
        OneAtATime, InMemory, At
<1> QED
    BY <1>1, NextCases, SeekStep, WriteStep, ReadStep, EndStep

LEMMA ControlAlways == Spec => []ControlInv
BY ControlInit, ControlNext, PTL DEF Spec

----------------------------------------------------------------------------
(* The properties.                                                         *)

\* A refresh that no write overtakes publishes what the database says, and
\* where requests have an order, or in memory, a tenant has one policy row.
THEOREM UndisturbedStaysCurrent == Spec => []UndisturbedIsCurrent
<1>1. ControlInv => UndisturbedIsCurrent
    BY DEF ControlInv
<1> QED
    BY <1>1, ControlAlways, PTL

LEMMA RegisterInit == Init => Register!Init
<1> SUFFICES ASSUME Init PROVE Register!Init
    OBVIOUS
<1>1. published = InForce /\ published \in Stored
    BY ControlInit DEF Init, InForce, ControlInv, UndisturbedIsCurrent, TypeOK
<1> QED
    BY <1>1 DEF Register!Init, Stored

LEMMA RegisterStep == ControlInv /\ [Next]_vars => [Register!Next]_(Register!vars)
<1> SUFFICES ASSUME ControlInv, [Next]_vars PROVE [Register!Next]_(Register!vars)
    OBVIOUS
<1>1. CASE UNCHANGED <<policies, bundles, published, serial>>
    BY <1>1 DEF Register!vars, InForce
<1>2. ASSUME NEW h \in Handlers, Write(h) PROVE Register!Store
    <2>1. policies' \in Seq(Stored) /\ bundles' \in Seq(Bundle)
        BY <1>2, WriteStep DEF ControlInv, UndisturbedIsCurrent, TypeOK
    <2>2. InForce' \in Stored
        BY <2>1, BuildTyped DEF InForce
    <2>3. UNCHANGED <<published, serial>>
        BY <1>2 DEF Write, WritePolicy, InsertBundle, UpdateBundle, UpsertInMemory,
            UpdateInMemory, Overtake, fixed
    <2> QED
        BY <2>2, <2>3 DEF Register!Store, Stored
<1>3. ASSUME NEW h \in Handlers, Publish(h) PROVE Register!Apply
    <2>1. UNCHANGED <<policies, bundles, serial>>
        BY <1>3 DEF Publish, fixed
    <2>2. serial => published' = InForce
        BY <1>3, PublishCurrent DEF ControlInv, OneAtATime
    <2> QED
        BY <2>1, <2>2 DEF Register!Apply, InForce
<1>4. ASSUME NEW h \in Handlers, Seek(h) \/ Read(h) \/ Fail(h)
      PROVE  UNCHANGED <<policies, bundles, published, serial>>
    BY <1>4 DEF Seek, Begin, SelectPolicy, SelectBundle, AuditChange, Read, SendQueries,
        CopyTables, ReadPolicies, ReadBundles, Fail, history, fixed
<1> QED
    BY <1>1, <1>2, <1>3, <1>4, NextCases DEF vars, Register!Next

\* Requests one at a time implement Settings: what is published is a whole and
\* current copy of what is stored.
THEOREM ImplementsTheRegister == Spec => ImplementsSettings
BY ControlAlways, RegisterInit, RegisterStep, PTL DEF Spec, ImplementsSettings, Register!Spec
=============================================================================
