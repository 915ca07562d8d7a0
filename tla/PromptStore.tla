---------------------------- MODULE PromptStore ----------------------------
(***************************************************************************)
(* The encrypted prompt fragments of packages/db, the envelope encryption  *)
(* they are stored under (EnvelopeContentCrypto, packages/crypto) and the  *)
(* prompt stack that reads them (packages/prompts).  A ciphertext is       *)
(* bound, by its additional data, to the name of the fragment; renaming a  *)
(* fragment re-encrypts it.  Each request is a sequence of awaited calls   *)
(* without a transaction around them.  There are two repositories: against *)
(* SqlRuntimeDatabase a request works on copies of rows, against           *)
(* InMemoryDatabase on the objects the repository holds.  The refresh of   *)
(* the admin state that ends a request is the subject of AdminControl.     *)
(***************************************************************************)
EXTENDS Naturals, Sequences, FiniteSets

CONSTANTS
    Handlers,       \* requests that can be on their way at once
    Fragments,      \* ids of prompt fragments
    Names,
    Contents,
    Keys,           \* ids getOrCreateKey may draw
    Calls,          \* what a caller may ask for
    MaxVersion      \* bound: versions, and entries of the history, of one fragment

CallType ==
    [ kind    : {"create", "update", "delete", "compile", "preview"},
      name    : Names \cup {"none"},
      content : Contents \cup {"none"},
      enabled : {"on", "off", "none"} ]

ASSUME PromptAssumption ==
    /\ Calls \subseteq CallType /\ Calls # {} /\ Fragments # {}
    /\ "none" \notin Names \cup Contents
    /\ MaxVersion \in Nat
    /\ \A c \in Calls : c.kind = "create" => "none" \notin {c.name, c.content}

\* What encryptForTenant returns; only the key and the bound name open it.
Blob == [content : Contents, key : Keys, name : Names]

RowType ==
    [ name : Names, blob : Blob, version : Nat \ {0}, enabled : BOOLEAN,
      deleted : BOOLEAN ]

VARIABLES
    rows,           \* prompt_fragments: at most one row for each id
    versions,       \* prompt_fragment_versions, by fragment
    keys,           \* encryption_keys, all of them active
    handler,        \* the local state of each request
    serial,         \* whether clients make one request at a time
    memory,         \* whether the repository is InMemoryDatabase
    compiled,       \* history: sources of a compilation, until the next request
    past,           \* history: versions and contents each row ever had
    failed          \* history: some request over SQL failed

vars == <<rows, versions, keys, handler, serial, memory, compiled, past, failed>>

Places == {"idle", "select", "decrypt", "key", "makeKey", "insert", "write",
           "version", "delete", "load", "compile", "read", "save"}

Source == [fragment : Fragments, version : Nat \ {0}, content : Contents]

Edition == [version : Nat \ {0}, content : Contents]

HandlerType ==
    [ pc       : Places,
      call     : Calls,
      fragment : Fragments,
      row      : SUBSET RowType,                \* as selected, then as written
      loaded   : SUBSET [id : Fragments, row : RowType],    \* yet to be read
      reading  : SUBSET [id : Fragments, row : RowType],    \* being decrypted
      sources  : SUBSET Source,                             \* of the prompt stack
      content  : Contents \cup {"none"},        \* the plaintext to encrypt
      key      : SUBSET Keys ]                  \* getOrCreateKey's result

TypeOK ==
    /\ rows \in [Fragments -> SUBSET RowType]
    /\ \A f \in Fragments : Cardinality(rows[f]) <= 1
    /\ versions \in [Fragments -> Seq([version : Nat \ {0}, blob : Blob])]
    /\ keys \subseteq Keys
    /\ handler \in [Handlers -> HandlerType]
    /\ serial \in BOOLEAN
    /\ memory \in BOOLEAN
    /\ compiled \subseteq Source
    /\ past \in [Fragments -> SUBSET Edition]
    /\ failed \in BOOLEAN

----------------------------------------------------------------------------
At(h, place) == handler[h].pc = place

Idle ==
    [ pc |-> "idle", call |-> CHOOSE call \in Calls : TRUE,
      fragment |-> CHOOSE f \in Fragments : TRUE, row |-> {}, loaded |-> {},
      reading |-> {}, sources |-> {}, content |-> "none", key |-> {} ]

Goto(h, place) == handler' = [handler EXCEPT ![h].pc = place]

Return(h) == handler' = [handler EXCEPT ![h] = Idle]

tables == <<rows, versions, keys>>

fixed == <<serial, memory>>

history == <<fixed, compiled, past, failed>>

Live(f) == {row \in rows[f] : ~row.deleted}

\* Decrypting finds the key by its id and checks the tag over name and key.
Opens(blob, name) == blob.key \in keys /\ blob.name = name

Edits(call) == call.kind = "update" /\ {call.name, call.content} # {"none"}

Init ==
    /\ rows = [f \in Fragments |-> {}]
    /\ versions = [f \in Fragments |-> <<>>]
    /\ keys = {}
    /\ handler = [h \in Handlers |-> Idle]
    /\ serial \in BOOLEAN
    /\ memory \in BOOLEAN
    /\ compiled = {}
    /\ past = [f \in Fragments |-> {}]
    /\ failed = FALSE

----------------------------------------------------------------------------
(* Requests.                                                               *)

\* The requests on their way that name, or have drawn, the id f.
Working(f) ==
    {h \in Handlers : /\ ~At(h, "idle")
                      /\ handler[h].call.kind \notin {"compile", "preview"}
                      /\ handler[h].fragment = f}

\* A create draws a fresh id, an update or a delete names one; a compilation
\* and the preview of one read them all.
Arrive(h, call, f) ==
    /\ At(h, "idle")
    /\ serial => \A g \in Handlers : At(g, "idle")
    /\ call.kind = "create" => rows[f] = {} /\ Working(f) = {}
    /\ call.kind \in {"compile", "preview"} => f = Idle.fragment
    /\ Edits(call) => \A n \in {Len(versions[f])} \cup {row.version : row \in rows[f]} :
                        n + Cardinality(Working(f)) < MaxVersion
    /\ handler' = [handler EXCEPT ![h] =
         [Idle EXCEPT !.call = call, !.fragment = f, !.content = call.content,
            !.pc = CASE call.kind = "create"  -> "key"
                     [] call.kind = "update"  -> "select"
                     [] call.kind = "delete"  -> "delete"
                     [] call.kind \in {"compile", "preview"} -> "load"]]
    /\ compiled' = {}
    /\ UNCHANGED <<tables, fixed, past, failed>>

\* The select of updatePromptFragment: no live row, nothing to update.
SelectFragment(h) ==
    /\ ~memory /\ At(h, "select")
    /\ LET found == Live(handler[h].fragment)
           call  == handler[h].call
       IN  \/ found = {} /\ Return(h)
           \/ /\ found # {}
              /\ handler' = [handler EXCEPT ![h].row = found, ![h].pc =
                   IF ~Edits(call) THEN "write"
                   ELSE IF call.content = "none" THEN "decrypt"
                   ELSE "key"]
    /\ UNCHANGED <<tables, history>>

\* A new name without new content: the content is read under the old name.
DecryptOld(h) ==
    /\ At(h, "decrypt")
    /\ \E row \in handler[h].row :
         /\ Opens(row.blob, row.name)
         /\ handler' = [handler EXCEPT ![h].content = row.blob.content,
                                       ![h].pc = "key"]
    /\ UNCHANGED <<tables, history>>

AfterKey(call) ==
    CASE call.kind = "create"  -> "insert"
      [] call.kind = "update"  -> "write"
      [] call.kind = "compile" -> "save"

UseKey(h, key) ==
    handler' = [handler EXCEPT ![h].key = {key},
                               ![h].pc = AfterKey(handler[h].call)]

\* getOrCreateKey: the newest active key, if there is one; which of several is
\* the newest by the clocks that dated them is left open.
FindKey(h) ==
    /\ At(h, "key")
    /\ \/ keys = {} /\ Goto(h, "makeKey")
       \/ \E key \in keys : UseKey(h, key)
    /\ UNCHANGED <<tables, history>>

\* Mutated form: the new key is used before it is saved.
MakeKeyBug(h) ==
    /\ At(h, "makeKey")
    /\ \E key \in Keys \ keys : UseKey(h, key)
    /\ UNCHANGED <<tables, history>>

\* Nobody looks again for a key that another request has saved meanwhile.
MakeKey(h) ==
    /\ At(h, "makeKey")
    /\ \E key \in Keys \ keys : keys' = keys \cup {key} /\ UseKey(h, key)
    /\ UNCHANGED <<rows, versions, history>>

Encrypt(h, name) ==
    [ content |-> handler[h].content, name |-> name,
      key |-> CHOOSE key \in handler[h].key : TRUE ]

\* The row of f is written, remembered, and returned to the request.
Store(h, f, row, place) ==
    /\ rows' = [rows EXCEPT ![f] = {row}]
    /\ past' = [past EXCEPT ![f] = @ \cup
                  {[version |-> row.version, content |-> row.blob.content]}]
    /\ handler' = IF place = "idle" THEN [handler EXCEPT ![h] = Idle]
                  ELSE [handler EXCEPT ![h].row = {row}, ![h].pc = place,
                                       ![h].content = "none", ![h].key = {}]

NewRow(h) ==
    LET name == handler[h].call.name
    IN  [ name |-> name, blob |-> Encrypt(h, name), version |-> 1,
          enabled |-> TRUE, deleted |-> FALSE ]

InsertFragment(h) ==
    /\ ~memory /\ At(h, "insert")
    /\ Store(h, handler[h].fragment, NewRow(h), "version")
    /\ UNCHANGED <<versions, keys, fixed, compiled, failed>>

NextName(call, row) == IF call.name = "none" THEN row.name ELSE call.name

NextEnabled(call, row) ==
    IF call.enabled = "none" THEN row.enabled ELSE call.enabled = "on"

\* The row an update makes of row; the name is that of the row it selected.
Updated(h, selected, row) ==
    LET call == handler[h].call
        name == NextName(call, selected)
    IN  [row EXCEPT
            !.name = name,
            !.blob = IF Edits(call) THEN Encrypt(h, name) ELSE @,
            !.version = IF Edits(call) THEN @ + 1 ELSE @,
            !.enabled = NextEnabled(call, row)]

AfterWrite(call) == IF Edits(call) THEN "version" ELSE "idle"

\* Mutated form: the update no longer asks for a live row.
WriteRowBug(h) ==
    /\ ~memory /\ At(h, "write")
    /\ \E row \in handler[h].row :
         Store(h, handler[h].fragment, Updated(h, row, row), AfterWrite(handler[h].call))
    /\ UNCHANGED <<versions, keys, fixed, compiled, failed>>

\* update ... where id and not deleted: a row deleted meanwhile stays so, and
\* whatever else the row has become since the select is overwritten, every
\* column being computed from the request and the row that was selected.
WriteRow(h) ==
    /\ ~memory /\ At(h, "write")
    /\ LET f == handler[h].fragment
       IN  \/ Live(f) = {} /\ Return(h) /\ UNCHANGED <<rows, past>>
           \/ /\ Live(f) # {}
              /\ \E row \in handler[h].row :
                   Store(h, f, Updated(h, row, row), AfterWrite(handler[h].call))
    /\ UNCHANGED <<versions, keys, fixed, compiled, failed>>

\* Mutated form: only first versions are put into the history.
InsertVersionBug(h) ==
    /\ At(h, "version")
    /\ \E row \in handler[h].row :
         versions' = IF row.version > 1 THEN versions
                     ELSE [versions EXCEPT ![handler[h].fragment] =
                             Append(@, [version |-> row.version, blob |-> row.blob])]
    /\ Return(h)
    /\ UNCHANGED <<rows, keys, history>>

\* insertPromptFragmentVersion, with the version and ciphertext written.
InsertVersion(h) ==
    /\ At(h, "version")
    /\ \E row \in handler[h].row :
         versions' = [versions EXCEPT ![handler[h].fragment] =
                        Append(@, [version |-> row.version, blob |-> row.blob])]
    /\ Return(h)
    /\ UNCHANGED <<rows, keys, history>>

Deleted(row) == [row EXCEPT !.enabled = FALSE, !.deleted = TRUE]

\* One statement, and one step in memory; the row stays, out of every later
\* select.
DeleteFragment(h) ==
    /\ At(h, "delete")
    /\ rows' = [rows EXCEPT ![handler[h].fragment] = {Deleted(row) : row \in @}]
    /\ Return(h)
    /\ UNCHANGED <<versions, keys, history>>

----------------------------------------------------------------------------
(* The objects of InMemoryDatabase: nothing is awaited between the steps   *)
(* of a write, but the object may have changed since the request found it. *)

Edited(f, row) ==
    versions' = [versions EXCEPT ![f] =
                    Append(@, [version |-> row.version, blob |-> row.blob])]

\* The fragment and its first version are pushed together.
PushFragment(h) ==
    /\ memory /\ At(h, "insert")
    /\ Store(h, handler[h].fragment, NewRow(h), "idle")
    /\ Edited(handler[h].fragment, NewRow(h))
    /\ UNCHANGED <<keys, fixed, compiled, failed>>

\* find, and an update that needs no encryption is done with it; one that does
\* keeps the name, and starts to decrypt the content, that it found.
FindFragment(h) ==
    /\ memory /\ At(h, "select")
    /\ LET f    == handler[h].fragment
           call == handler[h].call
       IN  \/ Live(f) = {} /\ Return(h) /\ UNCHANGED <<rows, past>>
           \/ \E object \in Live(f) :
                IF Edits(call)
                THEN /\ handler' = [handler EXCEPT ![h].row = {object}, ![h].pc =
                          IF call.content = "none" THEN "decrypt" ELSE "key"]
                     /\ UNCHANGED <<rows, past>>
                ELSE Store(h, f, Updated(h, object, object), "idle")
    /\ UNCHANGED <<versions, keys, fixed, compiled, failed>>

\* The object takes the new ciphertext, its next version and the new name, even
\* if it was deleted meanwhile: nothing looks at deletedAt again.
WriteObject(h) ==
    /\ memory /\ At(h, "write")
    /\ LET f == handler[h].fragment
       IN  \E found \in handler[h].row, object \in rows[f] :
             /\ Store(h, f, Updated(h, found, object), "idle")
             /\ Edited(f, Updated(h, found, object))
    /\ UNCHANGED <<keys, fixed, compiled, failed>>

----------------------------------------------------------------------------
(* Compiling the prompt stack.                                             *)

\* getPromptFragments: one query for all rows that are live and enabled.
LoadFragments(h) ==
    /\ At(h, "load")
    /\ handler' = [handler EXCEPT ![h].loaded =
         UNION {{[id |-> f, row |-> row] : row \in {r \in Live(f) : r.enabled}}
                  : f \in Fragments},
         ![h].pc = "compile"]
    /\ UNCHANGED <<tables, history>>

\* What readContent of l starts to decrypt: the row that was loaded, or what the
\* object that was loaded has become.
Found(l) == IF memory THEN {[l EXCEPT !.row = row] : row \in rows[l.id]} ELSE {l}

\* The compiled prompt is encrypted if it is kept; a preview of it is answered,
\* and nothing is recorded (GET effective-preview).
AfterStack(call) == IF call.kind = "preview" THEN {"idle"} ELSE {"key", "save"}

\* loadPromptFragmentSources takes the fragments one after the other; with every
\* content there the stack is compiled.
NextSource(h, loaded, sources) ==
    IF loaded # {}
    THEN \E l \in loaded :
           handler' = [handler EXCEPT ![h].loaded = loaded \ {l}, ![h].pc = "read",
                         ![h].reading = Found(l), ![h].sources = sources]
    ELSE \E place \in AfterStack(handler[h].call) :
           handler' = [handler EXCEPT ![h] =
             IF place = "idle" THEN Idle
             ELSE [@ EXCEPT !.pc = place, !.reading = {}, !.loaded = {},
                            !.sources = sources]]

ReadSources(h) ==
    /\ At(h, "compile")
    /\ NextSource(h, handler[h].loaded, {})
    /\ UNCHANGED <<tables, history>>

\* Mutated form: the version is read again, as it is in memory.
VersionReadBug(l) == (CHOOSE row \in rows[l.id] : TRUE).version

\* fragment.version is evaluated when the content has been awaited: an object
\* may have a newer one by then, a row that was read has the one it was read with.
VersionRead(l) ==
    IF memory THEN (CHOOSE row \in rows[l.id] : TRUE).version ELSE l.row.version

FinishSource(h) ==
    /\ At(h, "read")
    /\ \E l \in handler[h].reading :
         /\ Opens(l.row.blob, l.row.name)
         /\ NextSource(h, handler[h].loaded, handler[h].sources \cup
              {[ fragment |-> l.id, content |-> l.row.blob.content,
                 version |-> VersionRead(l) ]})
    /\ UNCHANGED <<tables, history>>

\* createPromptCompilation records what was used.
SaveCompilation(h) ==
    /\ At(h, "save")
    /\ compiled' = handler[h].sources
    /\ Return(h)
    /\ UNCHANGED <<tables, fixed, past, failed>>

\* An awaited call throws; what was written stays.
Fail(h) ==
    /\ ~At(h, "idle")
    /\ Return(h)
    /\ failed' = (failed \/ ~memory)
    /\ UNCHANGED <<tables, fixed, compiled, past>>

Advance(h) ==
    \/ SelectFragment(h) \/ DecryptOld(h) \/ FindKey(h) \/ MakeKey(h)
    \/ InsertFragment(h) \/ WriteRow(h) \/ InsertVersion(h) \/ DeleteFragment(h)
    \/ PushFragment(h) \/ FindFragment(h) \/ WriteObject(h)
    \/ LoadFragments(h) \/ ReadSources(h) \/ FinishSource(h)
    \/ SaveCompilation(h) \/ Fail(h)

Next ==
    \E h \in Handlers :
        (\E call \in Calls, f \in Fragments : Arrive(h, call, f)) \/ Advance(h)

Spec == Init /\ [][Next]_vars

----------------------------------------------------------------------------
(* Properties.                                                             *)

\* Every fragment can be decrypted under the name it has, and every entry of
\* the history under a key that is there, however renames, edits and key
\* creation interleave, and whichever of their steps fail.
AlwaysReadable ==
    \A f \in Fragments :
        /\ \A row \in rows[f] : Opens(row.blob, row.name)
        /\ \A i \in 1..Len(versions[f]) : versions[f][i].blob.key \in keys

\* A deleted fragment stays deleted: no update that was on its way when it
\* was deleted brings it back, or, of the rows of SQL, touches it.
DeletedStaysDeleted ==
    [][ \A f \in Fragments : \A row \in rows[f] :
          row.deleted => /\ \A next \in rows'[f] : next.deleted
                         /\ memory \/ rows'[f] = rows[f] ]_vars

\* Every content a fragment ever had is in its history under the version it
\* had, once the request that wrote it is done, unless some request failed; in
\* memory even then, since nothing is awaited between the two.
HistoryComplete ==
    ~failed /\ (\A h \in Handlers : ~At(h, "version"))
      => \A f \in Fragments : \A e \in past[f] :
           \E i \in 1..Len(versions[f]) :
              /\ versions[f][i].version = e.version
              /\ versions[f][i].blob.content = e.content

\* A version says which content was meant.  A compilation records the versions
\* of the contents that were compiled, although fragments are edited while it
\* decrypts them: always over SQL, and of requests one at a time in memory.  No
\* version of a fragment comes to stand for a second content: always in memory,
\* and of requests one at a time over SQL.
VersionsIdentify ==
    /\ TypeOK
    /\ ~memory \/ serial =>
         \A s \in compiled :
            [version |-> s.version, content |-> s.content] \in past[s.fragment]
    /\ memory \/ serial =>
         \A f \in Fragments : \A d, e \in past[f] :
            d.version = e.version => d.content = e.content
=============================================================================
