--------------------------- MODULE Startup_proofs ---------------------------
(***************************************************************************)
(* Proofs about Startup for any number of processes, anything              *)
(* administrators may change or store and any number of faults.            *)
(***************************************************************************)
EXTENDS Startup, TLAPS

----------------------------------------------------------------------------
(* The inductive invariant.                                                *)

\* A start that is not under way has no place in the list.  One that is has
\* everything before its place; what its look found, it still finds: nobody
\* takes a row away.
ProgressOK(p) ==
    /\ promise[p] # "pending" => next[p] = 1 /\ found[p] = "unread"
    /\ \A i \in 1..Len(Seeds) : i < next[p] => rows[Seeds[i]] # <<>>
    /\ found[p] # "unread" => Starting(p) /\ Seed(p) \notin Keyed
    /\ found[p] = "yes" => rows[Seed(p)] # <<>>

\* Of starts one at a time only one is under way, so what its look missed is
\* still missing.  At most one row of a thing is not deleted, and a thing that
\* an administrator has disabled has one: the disabled one.
SerialOK ==
    serial =>
        /\ \A p, q \in Procs : promise[p] = "pending" /\ promise[q] = "pending" => p = q
        /\ \A p \in Procs : found[p] = "no" => ~Present(Seed(p))
        /\ \A t \in Things : wish[t] = "off" =>
              \E i \in 1..Len(rows[t]) : rows[t][i] = "off"

StartupInv ==
    /\ SeededOnce
    /\ AdministratorDecides
    /\ \A p \in Procs : ProgressOK(p)
    /\ SerialOK

LEMMA SeedsTyped ==
    /\ Len(Seeds) \in Nat
    /\ \A i \in 1..Len(Seeds) : Seeds[i] \in Things
    /\ \A t \in Things : \E i \in 1..Len(Seeds) : t = Seeds[i]
    /\ Switchable \subseteq Things /\ Switchable \cap Unique = {}
    /\ Keyed \cap Unique = {} /\ Unique \cup Keyed \subseteq Things
<1>1. Len(Seeds) = 11
    BY DEF Seeds
<1>2. /\ Seeds[1] = "tenant" /\ Seeds[2] = "devUser" /\ Seeds[5] = "mockProvider"
      /\ Seeds[6] = "mockChat" /\ Seeds[7] = "mockChatFast"
      /\ Seeds[8] = "tenantPrompt" /\ Seeds[9] = "userPrompt"
    BY DEF Seeds
<1>3. \A i \in 1..Len(Seeds) : Seeds[i] \in Things
    BY DEF Things
<1>4. {"tenant", "devUser", "mockProvider", "mockChat", "mockChatFast",
       "tenantPrompt", "userPrompt"} \subseteq Things
    BY <1>1, <1>2, <1>3
<1> QED
    BY <1>1, <1>3, <1>4 DEF Things, Switchable, Unique, Keyed, Prompts

LEMMA StartupInit == Init => StartupInv
<1> SUFFICES ASSUME Init PROVE StartupInv
    OBVIOUS
<1>1. TypeOK
    BY SeedsTyped, StartupAssumption DEF Init, TypeOK, RowState
<1>2. \A t \in Things : rows[t] = <<>> /\ wish[t] = "on"
    BY DEF Init
<1>3. \A p \in Procs : promise[p] = "none" /\ next[p] = 1 /\ found[p] = "unread"
    BY DEF Init
<1>4. SeededOnce
    BY <1>1, <1>2, <1>3, SeedsTyped DEF SeededOnce, Up
<1> QED
    BY <1>2, <1>3, <1>4, SeedsTyped
    DEF StartupInv, AdministratorDecides, ProgressOK, SerialOK

\* A step that changes no row and makes no process ready leaves open only
\* where the process that takes it stands.
LEMMA Standing ==
    ASSUME StartupInv, NEW p \in Procs, TypeOK',
           UNCHANGED <<rows, touched, serial, wish>>,
           \A q \in Procs : q # p => /\ promise'[q] = promise[q]
                                     /\ next'[q] = next[q] /\ found'[q] = found[q],
           promise'[p] = "ready" => promise[p] = "ready" \/ next[p] > Len(Seeds),
           ProgressOK(p)',
           serial /\ found'[p] = "no" => ~Present(Seeds[next'[p]]),
           serial /\ promise'[p] = "pending" =>
              \A q \in Procs : q # p => promise[q] # "pending"
    PROVE  StartupInv'
<1>1. Up' => \A t \in Things : rows[t] # <<>>
    <2>1. SUFFICES ASSUME NEW q \in Procs, promise'[q] = "ready", NEW t \in Things
                   PROVE  rows[t] # <<>>
        BY DEF Up
    <2>2. CASE promise[q] = "ready"
        BY <2>2 DEF StartupInv, SeededOnce, Up
    <2>3. CASE q = p /\ next[p] > Len(Seeds)
        <3>1. PICK i \in 1..Len(Seeds) : t = Seeds[i]
            BY SeedsTyped
        <3>2. i < next[p]
            BY <2>3, SeedsTyped DEF StartupInv, SeededOnce, TypeOK
        <3> QED
            BY <3>1, <3>2 DEF StartupInv, ProgressOK
    <2> QED
        BY <2>1, <2>2, <2>3
<1>2. SeededOnce'
    BY <1>1 DEF StartupInv, SeededOnce
<1>3. AdministratorDecides'
    BY DEF StartupInv, AdministratorDecides
<1>4. ASSUME NEW q \in Procs PROVE ProgressOK(q)'
    BY <1>4 DEF StartupInv, ProgressOK, Starting, Seed
<1>5. SerialOK'
    <2>1. ASSUME serial, NEW q \in Procs, found'[q] = "no" PROVE ~Present(Seed(q))'
        BY <2>1 DEF StartupInv, SerialOK, Present, Seed
    <2> QED
        BY <2>1 DEF StartupInv, SerialOK
<1> QED
    BY <1>2, <1>3, <1>4, <1>5 DEF StartupInv

\* A process takes its place at the head of the list, or leaves it.
LEMMA EndStep ==
    ASSUME StartupInv, NEW p \in Procs, NEW state \in {"none", "ready", "rejected"},
           End(p, state), faults' \in 0..MaxFaults,
           state = "ready" => next[p] > Len(Seeds)
    PROVE  StartupInv'
<1>1. TypeOK
    BY DEF StartupInv, SeededOnce
<1>2. TypeOK'
    BY <1>1, SeedsTyped DEF TypeOK, End
<1>3. promise'[p] = state /\ next'[p] = 1 /\ found'[p] = "unread"
    BY <1>1 DEF TypeOK, End
<1>4. ProgressOK(p)'
    BY <1>3 DEF ProgressOK
<1>5. \A q \in Procs : q # p => /\ promise'[q] = promise[q]
                                /\ next'[q] = next[q] /\ found'[q] = found[q]
    BY <1>1 DEF TypeOK, End
<1> QED
    BY <1>2, <1>3, <1>4, <1>5, Standing DEF End

\* The first request of a process.
LEMMA StartStep ==
    ASSUME StartupInv, NEW p \in Procs, GetRuntime(p)
    PROVE  StartupInv'
<1>1. TypeOK
    BY DEF StartupInv, SeededOnce
<1>2. TypeOK'
    BY <1>1, SeedsTyped DEF TypeOK, GetRuntime
<1>3. promise'[p] = "pending" /\ next'[p] = 1 /\ found'[p] = "unread"
    BY <1>1 DEF TypeOK, GetRuntime
<1>4. ProgressOK(p)'
    BY <1>3 DEF ProgressOK
<1>5. \A q \in Procs : q # p => /\ promise'[q] = promise[q]
                                /\ next'[q] = next[q] /\ found'[q] = found[q]
    BY <1>1 DEF TypeOK, GetRuntime
<1>6. serial => \A q \in Procs : promise[q] # "pending"
    BY DEF GetRuntime
<1> QED
    BY <1>2, <1>3, <1>4, <1>5, <1>6, Standing DEF GetRuntime

\* Without a write nothing but its own finding changes.
LEMMA LookStep ==
    ASSUME StartupInv, NEW p \in Procs, Look(p)
    PROVE  StartupInv'
<1>1. TypeOK /\ ProgressOK(p) /\ Starting(p) /\ Seed(p) \notin Keyed
    BY DEF StartupInv, SeededOnce, Look
<1>2. TypeOK'
    BY <1>1 DEF TypeOK, Look
<1>3. /\ promise'[p] = "pending" /\ next'[p] = next[p]
      /\ found'[p] = "yes" => Present(Seed(p))
      /\ found'[p] = "no" => ~Present(Seed(p))
    BY <1>1 DEF TypeOK, Look, Starting
<1>4. Present(Seed(p)) => rows[Seed(p)] # <<>>
    BY DEF Present
<1>5. ProgressOK(p)'
    BY <1>1, <1>3, <1>4 DEF ProgressOK, Starting, Seed, Look
<1>6. \A q \in Procs : q # p => /\ promise'[q] = promise[q]
                                /\ next'[q] = next[q] /\ found'[q] = found[q]
    BY <1>1 DEF TypeOK, Look
<1>7. serial => \A q \in Procs : q # p => promise[q] # "pending"
    BY <1>1 DEF StartupInv, SerialOK, Starting
<1> QED
    BY <1>2, <1>3, <1>5, <1>6, <1>7, Standing DEF Look, Seed

\* The refresh reads what administrators have stored, after the last seed.
LEMMA ReadStep ==
    ASSUME StartupInv, NEW p \in Procs, ReadState(p)
    PROVE  StartupInv'
<1>1. TypeOK /\ ProgressOK(p) /\ promise[p] = "pending" /\ next[p] = Len(Seeds) + 1
    BY DEF StartupInv, SeededOnce, ReadState
<1>2. TypeOK'
    BY <1>1, SeedsTyped DEF TypeOK, ReadState
<1>3. /\ promise'[p] = "pending" /\ next'[p] = Len(Seeds) + 2
      /\ rows' = rows /\ found'[p] = found[p]
    BY <1>1 DEF TypeOK, ReadState
<1>4. found[p] = "unread"
    BY <1>1, SeedsTyped DEF ProgressOK, Starting
<1>5. ProgressOK(p)'
    <2>1. \A i \in 1..Len(Seeds) : i < next[p]
        BY <1>1, SeedsTyped
    <2> QED
        BY <1>1, <1>3, <1>4, <2>1 DEF ProgressOK
<1>6. \A q \in Procs : q # p => /\ promise'[q] = promise[q]
                                /\ next'[q] = next[q] /\ found'[q] = found[q]
    BY <1>1 DEF TypeOK, ReadState
<1>7. serial => \A q \in Procs : q # p => promise[q] # "pending"
    BY <1>1 DEF StartupInv, SerialOK
<1> QED
    BY <1>2, <1>3, <1>4, <1>5, <1>6, <1>7, Standing DEF ReadState

\* An answer, and what administrators store or remove, touch no seed.
LEMMA ExternalStep ==
    ASSUME StartupInv,
           \/ \E p \in Procs : Answer(p)
           \/ \E e \in ExternalRows : StoreExternal(e) \/ RemoveExternal(e)
    PROVE  StartupInv'
<1>1. UNCHANGED <<rows, promise, next, found, faults, touched, serial, wish>>
    BY DEF Answer, StoreExternal, RemoveExternal
<1>2. stored' \subseteq ExternalRows /\ ahead' \in [Procs -> SUBSET ExternalRows]
    <2>1. stored \subseteq ExternalRows /\ ahead \in [Procs -> SUBSET ExternalRows]
        BY DEF StartupInv, SeededOnce, TypeOK
    <2>2. CASE \E p \in Procs : Answer(p)
        BY <2>1, <2>2 DEF Answer
    <2>3. CASE \E e \in ExternalRows : StoreExternal(e) \/ RemoveExternal(e)
        BY <2>1, <2>3 DEF StoreExternal, RemoveExternal
    <2> QED
        BY <2>2, <2>3
<1>3. TypeOK'
    BY <1>1, <1>2 DEF StartupInv, SeededOnce, TypeOK
<1>4. SeededOnce'
    BY <1>1, <1>3 DEF StartupInv, SeededOnce, Up
<1> QED
    BY <1>1, <1>4 DEF StartupInv, AdministratorDecides, ProgressOK, SerialOK, Starting,
        Seed, Present

\* The next seed has its turn when this one is there.
LEMMA WentOn ==
    ASSUME TypeOK, NEW p \in Procs, ProgressOK(p), Starting(p), GoOn(p),
           \A t \in Things : rows[t] # <<>> => rows'[t] # <<>>,
           rows'[Seed(p)] # <<>>
    PROVE  /\ promise'[p] = "pending" /\ found'[p] = "unread"
           /\ next' \in [Procs -> 1..(Len(Seeds) + 2)]
           /\ found' \in [Procs -> {"unread", "yes", "no"}]
           /\ ProgressOK(p)'
           /\ \A q \in Procs : q # p => /\ promise'[q] = promise[q]
                                        /\ next'[q] = next[q] /\ found'[q] = found[q]
<1>1. next[p] \in 1..Len(Seeds) /\ promise[p] = "pending"
    BY SeedsTyped DEF TypeOK, Starting
<1>2. /\ promise'[p] = "pending" /\ found'[p] = "unread" /\ next'[p] = next[p] + 1
      /\ \A q \in Procs : q # p => /\ promise'[q] = promise[q]
                                   /\ next'[q] = next[q] /\ found'[q] = found[q]
    BY <1>1 DEF TypeOK, GoOn
<1>3. /\ next' \in [Procs -> 1..(Len(Seeds) + 2)]
      /\ found' \in [Procs -> {"unread", "yes", "no"}]
    <2>1. next[p] + 1 \in 1..(Len(Seeds) + 2)
        BY <1>1, SeedsTyped
    <2> QED
        BY <2>1 DEF TypeOK, GoOn
<1>4. ASSUME NEW i \in 1..Len(Seeds), i < next'[p] PROVE rows'[Seeds[i]] # <<>>
    <2>1. i < next[p] \/ i = next[p]
        BY <1>1, <1>2, <1>4, SeedsTyped
    <2>2. Seeds[i] \in Things
        BY SeedsTyped
    <2> QED
        BY <2>1, <2>2 DEF ProgressOK, Seed
<1>5. ProgressOK(p)'
    BY <1>2, <1>4 DEF ProgressOK
<1> QED
    BY <1>2, <1>3, <1>5

\* Of a thing that is there, the row is kept.
LEMMA KeepStep ==
    ASSUME StartupInv, NEW p \in Procs, Starting(p), GoOn(p), UNCHANGED rows,
           rows[Seed(p)] # <<>>
    PROVE  StartupInv'
<1>1. TypeOK /\ ProgressOK(p)
    BY DEF StartupInv, SeededOnce
<1>2. /\ promise'[p] = "pending" /\ found'[p] = "unread"
      /\ next' \in [Procs -> 1..(Len(Seeds) + 2)]
      /\ found' \in [Procs -> {"unread", "yes", "no"}]
      /\ ProgressOK(p)'
      /\ \A q \in Procs : q # p => /\ promise'[q] = promise[q]
                                   /\ next'[q] = next[q] /\ found'[q] = found[q]
    BY <1>1, WentOn
<1>3. TypeOK'
    BY <1>1, <1>2 DEF TypeOK, GoOn
<1>4. serial => \A q \in Procs : q # p => promise[q] # "pending"
    BY DEF StartupInv, SerialOK, Starting
<1> QED
    BY <1>2, <1>3, <1>4, Standing DEF GoOn

\* A row is added where there is none, or none that is not deleted.
LEMMA AddStep ==
    ASSUME StartupInv, NEW p \in Procs, Starting(p), GoOn(p), Add(Seed(p)),
           serial => ~Present(Seed(p)),
           Seed(p) \in Unique \cup Keyed => rows[Seed(p)] = <<>>
    PROVE  StartupInv'
<1> DEFINE new == Seed(p)
<1>1. TypeOK /\ ProgressOK(p) /\ promise[p] = "pending"
    BY DEF StartupInv, SeededOnce, Starting
<1>2. new \in Things
    BY <1>1, SeedsTyped DEF TypeOK, Starting, Seed
<1>3. rows[new] \in Seq(RowState) /\ "on" \in RowState
    BY <1>1, <1>2 DEF TypeOK, RowState
<1>4. rows' = [rows EXCEPT ![new] = Append(rows[new], "on")]
    BY DEF Add
<1>5. (serial => ~Present(new)) /\ (new \in Unique \cup Keyed => rows[new] = <<>>)
    OBVIOUS
<1> HIDE DEF new
<1>6. /\ rows' \in [Things -> Seq(RowState)]
      /\ rows'[new] = Append(rows[new], "on")
      /\ \A t \in Things : t # new => rows'[t] = rows[t]
    BY <1>1, <1>2, <1>3, <1>4 DEF TypeOK
<1>7. /\ Len(rows'[new]) = Len(rows[new]) + 1 /\ Len(rows[new]) \in Nat
      /\ rows'[new][Len(rows[new]) + 1] = "on"
      /\ \A i \in 1..Len(rows[new]) : rows'[new][i] = rows[new][i]
    BY <1>3, <1>6
<1>8. \A t \in Things : rows[t] # <<>> => rows'[t] # <<>>
    BY <1>3, <1>6
<1>9. /\ promise'[p] = "pending" /\ found'[p] = "unread"
      /\ next' \in [Procs -> 1..(Len(Seeds) + 2)]
      /\ found' \in [Procs -> {"unread", "yes", "no"}]
      /\ ProgressOK(p)'
      /\ \A q \in Procs : q # p => /\ promise'[q] = promise[q]
                                   /\ next'[q] = next[q] /\ found'[q] = found[q]
    <2>1. rows'[Seed(p)] # <<>>
        BY <1>3, <1>6 DEF new
    <2> QED
        BY <1>1, <1>8, <2>1, WentOn
<1>10. UNCHANGED <<stored, promise, ahead, faults, touched, serial, wish>>
    BY DEF GoOn
<1>11. SeededOnce'
    <2>1. TypeOK'
        BY <1>1, <1>6, <1>9, <1>10 DEF TypeOK
    <2>2. Up' => \A t \in Things : rows'[t] # <<>>
        BY <1>8, <1>10 DEF StartupInv, SeededOnce, Up
    <2>3. ASSUME NEW t \in Unique \cup Keyed PROVE Len(rows'[t]) <= 1
        <3>1. CASE t = new
            BY <1>5, <1>7, <2>3, <3>1
        <3>2. CASE t # new
            BY <1>6, <2>3, <3>2, SeedsTyped DEF StartupInv, SeededOnce
        <3> QED
            BY <3>1, <3>2
    <2>4. ASSUME serial, NEW t \in Things, NEW i \in 1..Len(rows'[t]),
                 NEW j \in 1..Len(rows'[t]),
                 rows'[t][i] # "deleted", rows'[t][j] # "deleted"
          PROVE  i = j
        <3>1. CASE t = new
            <4>1. \A k \in 1..Len(rows[new]) : rows[new][k] = "deleted"
                BY <1>5, <2>4 DEF Present
            <4>2. \A k \in 1..Len(rows'[new]) :
                    rows'[new][k] # "deleted" => k = Len(rows[new]) + 1
                BY <1>7, <4>1
            <4> QED
                BY <2>4, <3>1, <4>2
        <3>2. CASE t # new
            BY <1>6, <2>4, <3>2 DEF StartupInv, SeededOnce
        <3> QED
            BY <3>1, <3>2
    <2> QED
        BY <1>10, <2>1, <2>2, <2>3, <2>4 DEF SeededOnce
<1>12. ASSUME serial, NEW t \in Things, wish[t] = "off"
       PROVE  /\ \A i \in 1..Len(rows'[t]) : rows'[t][i] # "on"
              /\ \E i \in 1..Len(rows'[t]) : rows'[t][i] = "off"
    <2>1. PICK i \in 1..Len(rows[t]) : rows[t][i] = "off"
        BY <1>12 DEF StartupInv, SerialOK
    <2>2. t # new
        BY <1>5, <1>12, <2>1 DEF Present
    <2> QED
        BY <1>6, <1>12, <2>1, <2>2 DEF StartupInv, AdministratorDecides
<1>13. AdministratorDecides'
    BY <1>10, <1>12 DEF AdministratorDecides
<1>14. ASSUME NEW q \in Procs PROVE ProgressOK(q)'
    <2>1. CASE q # p
        <3>1. ProgressOK(q)
            BY DEF StartupInv
        <3>2. \A i \in 1..Len(Seeds) : Seeds[i] \in Things
            BY SeedsTyped
        <3>3. found[q] # "unread" => Seed(q) \in Things
            BY <1>1, <3>1, <3>2 DEF ProgressOK, Starting, Seed, TypeOK
        <3> QED
            BY <1>8, <1>9, <2>1, <3>1, <3>2, <3>3 DEF ProgressOK, Starting, Seed
    <2> QED
        BY <1>9, <2>1
<1>15. SerialOK'
    <2>1. ASSUME serial, NEW q \in Procs PROVE found'[q] # "no"
        <3>1. CASE q # p
            <4>1. promise[q] # "pending"
                BY <1>1, <2>1, <3>1 DEF StartupInv, SerialOK
            <4>2. found[q] = "unread"
                BY <4>1 DEF StartupInv, ProgressOK
            <4> QED
                BY <1>9, <3>1, <4>2
        <3> QED
            BY <1>9, <3>1
    <2> QED
        BY <1>10, <1>12, <2>1 DEF StartupInv, SerialOK
<1> QED
    BY <1>11, <1>13, <1>14, <1>15 DEF StartupInv

\* What administrators do to a row that is there.
LEMMA SwitchStep ==
    ASSUME StartupInv, NEW t \in Switchable, NEW to \in RowState,
           NEW i \in 1..Len(rows[t]), Switch(t, i, to)
    PROVE  StartupInv'
<1>1. TypeOK /\ t \in Things /\ t \notin Unique
    BY SeedsTyped, StartupAssumption DEF StartupInv, SeededOnce
<1>2. /\ rows' = [rows EXCEPT ![t] = [rows[t] EXCEPT ![i] = to]]
      /\ UNCHANGED <<stored, promise, next, found, ahead, faults, touched, serial>>
      /\ rows[t][i] # "deleted"
    BY DEF Switch
<1>3. Len(rows[t]) \in Nat /\ rows[t] \in [1..Len(rows[t]) -> RowState]
    BY <1>1 DEF TypeOK
<1>4. /\ rows'[t] = [rows[t] EXCEPT ![i] = to]
      /\ \A s \in Things : s # t => rows'[s] = rows[s]
    BY <1>1, <1>2 DEF TypeOK
<1>5. /\ rows'[t] \in Seq(RowState) /\ Len(rows'[t]) = Len(rows[t])
      /\ rows'[t][i] = to
      /\ \A j \in 1..Len(rows[t]) : j # i => rows'[t][j] = rows[t][j]
    <2>1. rows'[t] \in [1..Len(rows[t]) -> RowState]
        BY <1>3, <1>4
    <2> QED
        BY <1>3, <1>4, <2>1
<1>6. rows' \in [Things -> Seq(RowState)]
    BY <1>1, <1>2, <1>4, <1>5 DEF TypeOK
<1>7. /\ wish' \in [Things -> RowState]
      /\ serial => wish'[t] = to
      /\ \A s \in Things : s # t => wish'[s] = wish[s]
    BY <1>1 DEF TypeOK, Switch
<1>8. \A s \in Things : Len(rows'[s]) = Len(rows[s]) /\ (rows[s] # <<>> => rows'[s] # <<>>)
    BY <1>1, <1>3, <1>4, <1>5, <1>6 DEF TypeOK
<1>9. serial => \A j \in 1..Len(rows[t]) : j # i => rows[t][j] = "deleted"
    BY <1>1, <1>2 DEF StartupInv, SeededOnce
<1>10. SeededOnce'
    <2>1. TypeOK'
        BY <1>1, <1>2, <1>6, <1>7 DEF TypeOK
    <2>2. Up' => \A s \in Things : rows'[s] # <<>>
        BY <1>2, <1>8 DEF StartupInv, SeededOnce, Up
    <2>3. \A s \in Unique \cup Keyed : Len(rows'[s]) <= 1
        BY <1>8, SeedsTyped DEF StartupInv, SeededOnce
    <2>4. ASSUME serial, NEW s \in Things, NEW j \in 1..Len(rows'[s]),
                 NEW k \in 1..Len(rows'[s]),
                 rows'[s][j] # "deleted", rows'[s][k] # "deleted"
          PROVE  j = k
        <3>1. CASE s = t
            BY <1>5, <1>9, <2>4, <3>1
        <3>2. CASE s # t
            BY <1>4, <2>4, <3>2 DEF StartupInv, SeededOnce
        <3> QED
            BY <3>1, <3>2
    <2> QED
        BY <1>2, <2>1, <2>2, <2>3, <2>4 DEF SeededOnce
<1>11. ASSUME serial, NEW s \in Things, wish'[s] = "off"
       PROVE  /\ \A j \in 1..Len(rows'[s]) : rows'[s][j] # "on"
              /\ \E j \in 1..Len(rows'[s]) : rows'[s][j] = "off"
    <2>1. CASE s = t
        <3>1. to = "off"
            BY <1>7, <1>11, <2>1
        <3> QED
            BY <1>5, <1>9, <1>11, <2>1, <3>1
    <2>2. CASE s # t
        BY <1>4, <1>7, <1>11, <2>2 DEF StartupInv, AdministratorDecides, SerialOK
    <2> QED
        BY <2>1, <2>2
<1>12. AdministratorDecides'
    BY <1>2, <1>11 DEF AdministratorDecides
<1>13. ASSUME NEW q \in Procs PROVE ProgressOK(q)'
    <2>1. ProgressOK(q)
        BY DEF StartupInv
    <2>2. \A k \in 1..Len(Seeds) : Seeds[k] \in Things
        BY SeedsTyped
    <2>3. found[q] # "unread" => Seed(q) \in Things
        BY <1>1, <2>1, <2>2 DEF ProgressOK, Starting, Seed, TypeOK
    <2> QED
        BY <1>2, <1>8, <2>1, <2>2, <2>3 DEF ProgressOK, Starting, Seed
<1>14. SerialOK'
    <2>1. ASSUME serial, NEW q \in Procs, found[q] = "no" PROVE ~Present(Seed(q))'
        <3>1. Seed(q) \in Things /\ ~Present(Seed(q))
            BY <1>1, <2>1, SeedsTyped
            DEF StartupInv, ProgressOK, SerialOK, Starting, Seed, TypeOK
        <3>2. Seed(q) # t
            BY <1>2, <3>1 DEF Present
        <3>3. Seed(q)' = Seed(q)
            BY <1>2 DEF Seed
        <3> QED
            BY <1>4, <3>1, <3>2, <3>3 DEF Present
    <2> QED
        BY <1>2, <1>11, <2>1 DEF StartupInv, SerialOK
<1> QED
    BY <1>10, <1>12, <1>13, <1>14 DEF StartupInv

LEMMA StartupNext == StartupInv /\ [Next]_vars => StartupInv'
<1>1. ASSUME StartupInv, UNCHANGED vars PROVE StartupInv'
    BY <1>1 DEF vars, StartupInv, SeededOnce, TypeOK, Up, AdministratorDecides,
        ProgressOK, SerialOK, Starting, Seed, Present
<1>2. ASSUME StartupInv, NEW p \in Procs, Boot(p) PROVE StartupInv'
    <2>1. CASE GetRuntime(p)
        BY <1>2, <2>1, StartStep
    <2>2. CASE Look(p)
        BY <1>2, <2>2, LookStep
    <2>3. CASE Keep(p)
        <3>1. rows[Seed(p)] # <<>>
            BY <1>2, <2>3 DEF Keep, StartupInv, ProgressOK
        <3> QED
            BY <1>2, <2>3, <3>1, KeepStep DEF Keep
    <2>4. CASE Insert(p)
        <3>1. /\ serial => ~Present(Seed(p))
              /\ Seed(p) \in Unique \cup Keyed => rows[Seed(p)] = <<>>
            BY <1>2, <2>4 DEF Insert, StartupInv, ProgressOK, SerialOK
        <3> QED
            BY <1>2, <2>4, <3>1, AddStep DEF Insert
    <2>5. CASE Collide(p)
        BY <1>2, <2>5, EndStep DEF Collide, StartupInv, SeededOnce, TypeOK
    <2>6. CASE InsertKeyed(p)
        <3>1. CASE rows[Seed(p)] = <<>>
            <4>1. ~Present(Seed(p))
                BY <3>1 DEF Present
            <4> QED
                BY <1>2, <2>6, <3>1, <4>1, AddStep DEF InsertKeyed
        <3>2. CASE rows[Seed(p)] # <<>>
            BY <1>2, <2>6, <3>2, KeepStep DEF InsertKeyed
        <3> QED
            BY <3>1, <3>2
    <2>7. CASE ReadState(p)
        BY <1>2, <2>7, ReadStep
    <2>8. CASE Reject(p)
        BY <1>2, <2>8, EndStep DEF Reject, StartupInv, SeededOnce, TypeOK
    <2>9. CASE Ready(p)
        <3>1. next[p] > Len(Seeds)
            BY <2>9, SeedsTyped DEF Ready
        <3> QED
            BY <1>2, <2>9, <3>1, EndStep DEF Ready, StartupInv, SeededOnce, TypeOK
    <2> QED
        BY <1>2, <2>1, <2>2, <2>3, <2>4, <2>5, <2>6, <2>7, <2>8, <2>9 DEF Boot
<1>3. ASSUME StartupInv, NEW p \in Procs, Fail(p) \/ Crash(p) \/ Restart(p)
      PROVE  StartupInv'
    <2>1. faults' \in 0..MaxFaults
        BY <1>3, StartupAssumption
        DEF StartupInv, SeededOnce, TypeOK, Fail, Crash, Restart
    <2>2. \E state \in {"none", "rejected"} : End(p, state)
        BY <1>3 DEF Fail, Crash, Restart
    <2> QED
        BY <1>3, <2>1, <2>2, EndStep
<1>4. ASSUME StartupInv, Administer PROVE StartupInv'
    BY <1>4, SwitchStep, ExternalStep DEF Administer
<1>5. ASSUME StartupInv, NEW p \in Procs, Answer(p) PROVE StartupInv'
    BY <1>5, ExternalStep
<1> QED
    BY <1>1, <1>2, <1>3, <1>4, <1>5 DEF Next

LEMMA StartupAlways == Spec => []StartupInv
BY StartupInit, StartupNext, PTL DEF Spec

----------------------------------------------------------------------------
(* Theorems.                                                               *)

\* A process serves only when all it needs is seeded; tenant, user, provider
\* and models are there once however starts collide, and of starts one at a
\* time nothing is there twice, wherever earlier ones stopped or failed.
THEOREM StartsSeedOnce == Spec => []SeededOnce
<1>1. StartupInv => SeededOnce
    BY DEF StartupInv
<1> QED
    BY <1>1, StartupAlways, PTL

\* Of starts one at a time none enables what an administrator has disabled.
THEOREM StartsObeyAdministrators == Spec => []AdministratorDecides
<1>1. StartupInv => AdministratorDecides
    BY DEF StartupInv
<1> QED
    BY <1>1, StartupAlways, PTL
=============================================================================
