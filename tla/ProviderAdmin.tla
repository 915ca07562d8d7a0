--------------------------- MODULE ProviderAdmin ---------------------------
(***************************************************************************)
(* How model providers come into and out of service: the routes and forms  *)
(* that create, edit and delete a provider, store a key for it,            *)
(* synchronise its models with its catalogue and add or edit a model.      *)
(* Each request ends with a refresh that reads providers and models, then  *)
(* the newest key of one provider after the other, and publishes what can  *)
(* be served.  In a database server updates read a row and later write all *)
(* of it, and a model has one row; in memory a call reads and writes in    *)
(* one step, and nothing keeps a model from being there twice.             *)
(***************************************************************************)
EXTENDS Naturals, Sequences, FiniteSetsExt

CONSTANTS
    Handlers,       \* admin requests that can be on their way at once
    Providers,      \* each is created by one request, with an OpenRouter type
    Models,         \* the catalogue of every provider
    Calls,          \* what requests may ask for
    MaxKeys,        \* bound: keys ever stored
    MaxCopies       \* bound: rows of one model

\* A PATCH or POST may carry a key; "keep" names no enabled flag.
CallType ==
    [kind : {"create", "edit", "delete", "sync", "add", "model"},
     enabled : {"on", "off", "keep"}, key : BOOLEAN]

NoCall == [kind |-> "none", enabled |-> "keep", key |-> FALSE]

ASSUME ProviderAssumption ==
    /\ "none" \notin Providers
    /\ Calls \subseteq CallType
    /\ MaxKeys \in Nat
    /\ MaxCopies \in Nat \ {0}

VARIABLES
    rows,           \* provider_configs
    models,         \* model_configs, by provider and model key, oldest first
    keys,           \* provider_credentials, oldest first: whose key it is
    served,         \* for each provider in service: its models and its key
    handler,        \* the local state of each request
    memory,         \* whether the database is in memory
    serial,         \* whether clients make one request at a time
    wish,           \* history: what the last of serial requests made of a row
    failed          \* history: one of serial requests failed, no refresh followed

vars == <<rows, models, keys, served, handler, memory, serial, wish, failed>>

fixed == <<memory, serial>>

Flags == {"none", "on", "off", "deleted"}

\* What is in service: the key is named by its place in keys; 0 for none.
Offer == [models : SUBSET Models, key : Nat]

OutOfService == [models |-> {}, key |-> 0]

Places == {"idle", "insert", "select", "update", "credential", "delete",
           "snapshot", "catalogue", "sync", "insertModel", "selectModel", "updateModel",
           "query", "keys"}

HandlerType ==
    [ pc       : Places,
      call     : Calls \cup {NoCall},
      provider : Providers \cup {"none"},
      model    : Models \cup {"none"},
      kept     : Flags,                     \* the flag the select read
      known    : SUBSET Models,             \* model rows sync has seen
      left     : SUBSET Models,             \* models sync has still to write
      waiting  : SUBSET {"providers", "models"},    \* queries still running
      active   : SUBSET Providers,          \* whose key is still to be read
      enabled  : [Providers -> SUBSET Models],
      since    : Nat,                       \* history: keys when the refresh began
      offers   : [Providers -> Offer] ]

TypeOK ==
    /\ rows \in [Providers -> Flags]
    /\ models \in [Providers -> [Models -> Seq({"on", "off"})]]
    /\ keys \in Seq(Providers)
    /\ served \in [Providers -> Offer]
    /\ handler \in [Handlers -> HandlerType]
    /\ memory \in BOOLEAN
    /\ serial \in BOOLEAN
    /\ wish \in [Providers -> Flags]
    /\ failed \in BOOLEAN

----------------------------------------------------------------------------
KeysOf(p) == {i \in 1..Len(keys) : keys[i] = p}

\* Mutated form: the oldest key.
SecretBug(p) == IF KeysOf(p) = {} THEN 0 ELSE Min(KeysOf(p))

\* order by created_at desc limit 1
Secret(p) == IF KeysOf(p) = {} THEN 0 ELSE Max(KeysOf(p))

At(h, place) == handler[h].pc = place

Provider(h) == handler[h].provider

Call(h) == handler[h].call

Idle ==
    [ pc |-> "idle", call |-> NoCall, provider |-> "none", model |-> "none",
      kept |-> "none", known |-> {}, left |-> {}, waiting |-> {}, active |-> {},
      enabled |-> [p \in Providers |-> {}], since |-> 0,
      offers |-> [p \in Providers |-> OutOfService] ]

Init ==
    /\ rows = [p \in Providers |-> "none"]
    /\ models = [p \in Providers |-> [m \in Models |-> <<>>]]
    /\ keys = <<>>
    /\ served = [p \in Providers |-> OutOfService]
    /\ handler = [h \in Handlers |-> Idle]
    /\ memory \in BOOLEAN
    /\ serial \in BOOLEAN
    /\ wish = [p \in Providers |-> "none"]
    /\ failed = FALSE

Goto(h, place) == handler' = [handler EXCEPT ![h].pc = place]

Return(h) == handler' = [handler EXCEPT ![h] = Idle]

\* The snapshot of a refresh: its queries are sent all at once.  What the
\* request asked for matters no more.
Refresh(h) ==
    handler' = [handler EXCEPT ![h] =
                  [Idle EXCEPT !.pc = "query", !.waiting = {"providers", "models"},
                               !.since = Len(keys)]]

\* Where each route starts.
First(call) ==
    CASE call.kind = "create" -> "insert"
      [] call.kind = "edit" -> "select"
      [] call.kind = "delete" -> "delete"
      [] call.kind = "sync" -> "snapshot"
      [] call.kind = "add" -> "insertModel"
      [] call.kind = "model" -> "selectModel"

\* An id that a request names is one that was created.  Nothing in the code
\* keeps requests apart; a single patient client does.
Begin(h, call, p, m) ==
    /\ At(h, "idle")
    /\ serial => \A g \in Handlers : At(g, "idle")
    /\ IF call.kind = "create"
       THEN rows[p] = "none" /\ \A g \in Handlers : Provider(g) # p
       ELSE rows[p] # "none"
    /\ handler' = [handler EXCEPT ![h] =
                     [Idle EXCEPT !.pc = First(call), !.call = call, !.provider = p, !.model = m]]
    /\ UNCHANGED <<rows, models, keys, served, fixed, wish, failed>>

Arrive(h, call, p, m) == Begin(h, call, p, m)

\* The forms of the page create and synchronise.
ArriveForm(h, call, p, m) ==
    /\ call.kind \in {"create", "sync"}
    /\ Begin(h, call, p, m)

----------------------------------------------------------------------------
(* POST, PATCH and DELETE of a provider.                                   *)

Wished(h, flag) == wish' = IF serial THEN [wish EXCEPT ![Provider(h)] = flag] ELSE wish

AfterWrite(h) ==
    IF Call(h).key
    THEN handler' = [handler EXCEPT ![h] =
                       [Idle EXCEPT !.pc = "credential", !.provider = Provider(h)]]
    ELSE Refresh(h)

CreateProviderConfig(h) ==
    /\ At(h, "insert")
    /\ rows' = [rows EXCEPT ![Provider(h)] = "on"]
    /\ Wished(h, "on")
    /\ AfterWrite(h)
    /\ UNCHANGED <<models, keys, served, fixed, failed>>

\* A deleted provider is not found, and the request returns at once.
SelectProvider(h) ==
    /\ At(h, "select")
    /\ ~memory
    /\ IF rows[Provider(h)] = "deleted"
       THEN Return(h)
       ELSE handler' = [handler EXCEPT ![h].pc = "update", ![h].kept = rows[Provider(h)]]
    /\ UNCHANGED <<rows, models, keys, served, fixed, wish, failed>>

\* input.enabled ?? current.enabled
Enabled(call, kept) == IF call.enabled = "keep" THEN kept ELSE call.enabled

WriteProvider(h, kept) ==
    /\ rows' = [rows EXCEPT ![Provider(h)] = Enabled(Call(h), kept)]
    /\ Wished(h, Enabled(Call(h), wish[Provider(h)]))
    /\ AfterWrite(h)

\* Mutated form: the update does not look at deleted_at.
UpdateProviderConfigBug(h) ==
    /\ At(h, "update")
    /\ WriteProvider(h, handler[h].kept)
    /\ UNCHANGED <<models, keys, served, fixed, failed>>

UpdateProviderConfig(h) ==
    /\ At(h, "update")
    /\ IF rows[Provider(h)] = "deleted"
       THEN Return(h) /\ UNCHANGED <<rows, wish>>
       ELSE WriteProvider(h, handler[h].kept)
    /\ UNCHANGED <<models, keys, served, fixed, failed>>

UpdateProviderInMemory(h) ==
    /\ At(h, "select")
    /\ memory
    /\ IF rows[Provider(h)] = "deleted"
       THEN Return(h) /\ UNCHANGED <<rows, wish>>
       ELSE WriteProvider(h, rows[Provider(h)])
    /\ UNCHANGED <<models, keys, served, fixed, failed>>

CreateCredential(h) ==
    /\ At(h, "credential")
    /\ Len(keys) < MaxKeys
    /\ keys' = Append(keys, Provider(h))
    /\ Refresh(h)
    /\ UNCHANGED <<rows, models, served, fixed, wish, failed>>

DeleteProviderConfig(h) ==
    /\ At(h, "delete")
    /\ rows' = [rows EXCEPT ![Provider(h)] = "deleted"]
    /\ Wished(h, "deleted")
    /\ Refresh(h)
    /\ UNCHANGED <<models, keys, served, fixed, failed>>

----------------------------------------------------------------------------
(* POST /api/providers/:id/sync-models, POST and PATCH of a model.         *)

\* A deleted provider is an error, which changes nothing.
ReadSnapshot(h) ==
    /\ At(h, "snapshot")
    /\ IF rows[Provider(h)] = "deleted"
       THEN Return(h)
       ELSE handler' = [handler EXCEPT ![h].pc = "catalogue",
                          ![h].known = {m \in Models : models[Provider(h)][m] # <<>>}]
    /\ UNCHANGED <<rows, models, keys, served, fixed, wish, failed>>

\* The key is read, and with or without one the catalogue is asked, which may
\* have any models.
ListModels(h) ==
    /\ At(h, "catalogue")
    /\ \E listed \in SUBSET Models :
          handler' = [handler EXCEPT ![h].pc = "sync", ![h].left = listed]
    /\ UNCHANGED <<rows, models, keys, served, fixed, wish, failed>>

\* on conflict the row stays as it is; in memory there is one more.
Created(copies) ==
    IF copies = <<>> \/ memory THEN Append(copies, "on") ELSE copies

\* Bound: in memory, rows of a model; one when requests overlap.
Room(h, m) ==
    memory => Len(models[Provider(h)][m]) < IF serial THEN MaxCopies ELSE 1

\* The first row there is; without one nothing is updated.
Updated(copies, flag) == IF copies = <<>> THEN copies ELSE [copies EXCEPT ![1] = flag]

\* A model the snapshot knew is updated and enabled, any other is created.
SyncModel(h, m) ==
    /\ At(h, "sync")
    /\ m \in handler[h].left
    /\ LET known == m \in handler[h].known
       IN  /\ ~known => Room(h, m)
           /\ models' = [models EXCEPT ![Provider(h)][m] =
                           IF known THEN Updated(@, "on") ELSE Created(@)]
    /\ handler' = [handler EXCEPT ![h].left = @ \ {m}]
    /\ UNCHANGED <<rows, keys, served, fixed, wish, failed>>

Synced(h) ==
    /\ At(h, "sync")
    /\ handler[h].left = {}
    /\ Refresh(h)
    /\ UNCHANGED <<rows, models, keys, served, fixed, wish, failed>>

CreateModelConfig(h) ==
    /\ At(h, "insertModel")
    /\ Room(h, handler[h].model)
    /\ models' = [models EXCEPT ![Provider(h)][handler[h].model] = Created(@)]
    /\ Refresh(h)
    /\ UNCHANGED <<rows, keys, served, fixed, wish, failed>>

\* A model without a row is not updated, and the refresh follows.
SelectModel(h) ==
    /\ At(h, "selectModel")
    /\ ~memory
    /\ IF models[Provider(h)][handler[h].model] = <<>>
       THEN Refresh(h)
       ELSE handler' = [handler EXCEPT ![h].pc = "updateModel",
                                       ![h].kept = models[Provider(h)][handler[h].model][1]]
    /\ UNCHANGED <<rows, models, keys, served, fixed, wish, failed>>

UpdateModel(h) ==
    /\ At(h, "updateModel")
    /\ models' = [models EXCEPT ![Provider(h)][handler[h].model] =
                    Updated(@, Enabled(Call(h), handler[h].kept))]
    /\ Refresh(h)
    /\ UNCHANGED <<rows, keys, served, fixed, wish, failed>>

UpdateModelInMemory(h) ==
    /\ At(h, "selectModel")
    /\ memory
    /\ models' = [models EXCEPT ![Provider(h)][handler[h].model] =
                    IF @ = <<>> THEN @ ELSE Updated(@, Enabled(Call(h), @[1]))]
    /\ Refresh(h)
    /\ UNCHANGED <<rows, keys, served, fixed, wish, failed>>

----------------------------------------------------------------------------
(* refreshAdminState, buildAdminState.                                     *)

\* One enabled row of a model is enough.
Serving(p) == {m \in Models : \E i \in 1..Len(models[p][m]) : models[p][m][i] = "on"}

\* Providers without models are passed over before their key is read.
Received(local) ==
    IF local.waiting # {} THEN local
    ELSE LET toAsk == {p \in local.active : local.enabled[p] # {}}
         IN  [local EXCEPT !.pc = "keys", !.active = toAsk,
                           !.enabled = [p \in Providers |-> IF p \in toAsk THEN @[p] ELSE {}]]

\* What the local state holds when the queries for these tables have answered.
Answered(local, tables) ==
    [local EXCEPT
        !.waiting = @ \ tables,
        !.active  = IF "providers" \in tables THEN {p \in Providers : rows[p] = "on"} ELSE @,
        !.enabled = IF "models" \in tables THEN [p \in Providers |-> Serving(p)] ELSE @]

\* The query for providers and the one for models, or both at once in memory.
ReadTables(h, tables) ==
    handler' = [handler EXCEPT ![h] = Received(Answered(@, tables))]

\* Mutated form: every provider that is not deleted.
ReadProvidersBug(h) ==
    /\ "providers" \in handler[h].waiting
    /\ ~memory
    /\ handler' = [handler EXCEPT ![h] =
                     Received([@ EXCEPT !.waiting = @ \ {"providers"},
                                        !.active = {p \in Providers : rows[p] \in {"on", "off"}}])]
    /\ UNCHANGED <<rows, models, keys, served, fixed, wish, failed>>

ReadProviders(h) ==
    /\ "providers" \in handler[h].waiting
    /\ ~memory
    /\ ReadTables(h, {"providers"})
    /\ UNCHANGED <<rows, models, keys, served, fixed, wish, failed>>

ReadModels(h) ==
    /\ "models" \in handler[h].waiting
    /\ ~memory
    /\ ReadTables(h, {"models"})
    /\ UNCHANGED <<rows, models, keys, served, fixed, wish, failed>>

CopyTables(h) ==
    /\ At(h, "query")
    /\ memory
    /\ ReadTables(h, {"providers", "models"})
    /\ UNCHANGED <<rows, models, keys, served, fixed, wish, failed>>

\* A provider without a key is not put into service.
ReadKey(h, p) ==
    /\ At(h, "keys")
    /\ p \in handler[h].active
    /\ handler' = [handler EXCEPT
                     ![h].active = @ \ {p},
                     ![h].enabled[p] = {},
                     ![h].offers[p] = IF Secret(p) = 0 THEN OutOfService
                                      ELSE [models |-> handler[h].enabled[p], key |-> Secret(p)]]
    /\ UNCHANGED <<rows, models, keys, served, fixed, wish, failed>>

Publish(h) ==
    /\ At(h, "keys")
    /\ handler[h].active = {}
    /\ served' = handler[h].offers
    /\ Return(h)
    /\ failed' = FALSE
    /\ UNCHANGED <<rows, models, keys, fixed, wish>>

\* The database or the catalogue throws: the request is answered with an error.
Fail(h) ==
    /\ ~At(h, "idle")
    /\ Return(h)
    /\ failed' = serial
    /\ UNCHANGED <<rows, models, keys, served, fixed, wish>>

Continue(h) ==
    \/ CreateProviderConfig(h) \/ SelectProvider(h) \/ UpdateProviderConfig(h)
    \/ UpdateProviderInMemory(h) \/ CreateCredential(h) \/ DeleteProviderConfig(h)
    \/ ReadSnapshot(h) \/ ListModels(h) \/ Synced(h)
    \/ CreateModelConfig(h) \/ SelectModel(h) \/ UpdateModel(h) \/ UpdateModelInMemory(h)
    \/ ReadProviders(h) \/ ReadModels(h) \/ CopyTables(h) \/ Publish(h)
    \/ \E m \in Models : SyncModel(h, m)
    \/ \E p \in Providers : ReadKey(h, p)

Next ==
    \E h \in Handlers :
        \/ \E call \in Calls, p \in Providers, m \in Models :
              Arrive(h, call, p, m) \/ ArriveForm(h, call, p, m)
        \/ Continue(h)
        \/ Fail(h)

Spec == Init /\ [][Next]_vars

----------------------------------------------------------------------------
(* Properties.                                                             *)

Quiet == (\A h \in Handlers : At(h, "idle")) /\ ~failed

\* One request at a time: a provider is in the state somebody last asked for,
\* and no edit of something else enables it.  When none failed since the last
\* refresh, in service are the enabled models of the enabled providers that
\* have a key, with the key that was stored last.  However requests overlap, a
\* database server keeps one row of a model, which its edits reach.
QuietIsServed ==
    /\ TypeOK
    /\ ~memory => \A p \in Providers, m \in Models : Len(models[p][m]) <= 1
    /\ serial => rows = wish
    /\ serial /\ Quiet => \A p \in Providers :
          served[p] = IF rows[p] = "on" /\ Serving(p) # {} /\ KeysOf(p) # {}
                      THEN [models |-> Serving(p), key |-> Max(KeysOf(p))]
                      ELSE OutOfService

\* A provider that was deleted stays deleted, even under an edit that had
\* read it before.
DeletedStaysDeleted ==
    [][\A p \in Providers : rows[p] = "deleted" => rows'[p] = "deleted"]_vars

\* A refresh publishes no key older than the newest one when it began.
KeysAreFresh ==
    [][\A p \in Providers, h \in Handlers :
          Publish(h) /\ served'[p] # OutOfService =>
              \A i \in KeysOf(p) : i <= handler[h].since => i <= served'[p].key]_vars
=============================================================================
