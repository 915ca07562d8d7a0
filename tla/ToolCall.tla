------------------------------ MODULE ToolCall ------------------------------
(***************************************************************************)
(* One call of an external tool server (packages/mcp-gateway): either a    *)
(* child process that answers on its standard output and is watched by a   *)
(* timer (StdioMcpTransportAdapter), or an HTTP exchange that is not       *)
(* (HttpMcpTransportAdapter).  Timer, process and stream events reach the  *)
(* event loop in any order in which they can become due.                   *)
(***************************************************************************)
EXTENDS Naturals

CONSTANT MaxChunks      \* bound: pieces of output of a child

ASSUME ToolCallAssumption == MaxChunks \in Nat

\* What JSON can be, as far as normalisation tells it apart.
Payloads == {"array", "tools", "resultRecord", "resultOther", "record", "scalar"}

\* What the caller gets: a list of tools, or one record.
Values == {"entries", "noEntries", "inner", "boxed", "itself"}

VARIABLES
    method,         \* "list" for listTools, "invoke" for invokeTool
    transport,
    promise,        \* what the caller awaits
    timer,
    child,          \* the process
    code,           \* its exit code; "null" after a signal
    written,        \* pieces of output the child has written
    heard,          \* pieces delivered to the "data" listener
    held,           \* a process the child started keeps its output open
    payload,        \* the whole output or body
    seen,           \* events of the child that were delivered
    exchange        \* progress of the HTTP exchange

stdioVars == <<timer, child, code, written, heard, held, seen>>

callVars == <<method, transport, promise, payload, exchange, stdioVars>>

Pending == "pending"

Rejected == "rejected"

Contents == Payloads \cup {"unknown", "malformed", "empty"}

CallTypeOK ==
    /\ method \in {"list", "invoke"}
    /\ transport \in {"stdio", "http"}
    /\ promise \in {Pending, Rejected} \cup Values
    /\ timer \in {"off", "armed", "cleared", "fired"}
    /\ child \in {"none", "running", "ended", "killed", "failed"}
    /\ code \in {"none", "zero", "other", "null"}
    /\ written \in 0..MaxChunks
    /\ heard \in 0..written
    /\ held \in BOOLEAN
    /\ payload \in Contents
    /\ seen \subseteq {"error", "close"}
    /\ exchange \in {"none", "sent", "ok", "notOk", "over"}

CallInit ==
    /\ method \in {"list", "invoke"}
    /\ transport \in {"stdio", "http"}
    /\ promise = Pending
    /\ timer = "off"
    /\ child = "none"
    /\ code = "none"
    /\ written = 0
    /\ heard = 0
    /\ held = FALSE
    /\ payload = "unknown"
    /\ seen = {}
    /\ exchange = "none"

----------------------------------------------------------------------------
(* Normalisation.                                                          *)

NormalizeToolList(json) ==
    IF json \in {"array", "tools"} THEN "entries" ELSE "noEntries"

NormalizeToolResult(json) ==
    CASE json = "resultRecord" -> "inner"
      [] json \in {"resultOther", "array", "scalar"} -> "boxed"
      [] json \in {"tools", "record"} -> "itself"

Normalize(json) ==
    IF method = "list" THEN NormalizeToolList(json) ELSE NormalizeToolResult(json)

\* JSON.parse throws on anything but JSON.
Parsed(text) == IF text \in Payloads THEN Normalize(text) ELSE Rejected

\* A promise is settled once; what comes later is ignored.
Settle(outcome) == promise' = IF promise = Pending THEN outcome ELSE promise

----------------------------------------------------------------------------
(* StdioMcpTransportAdapter.call.                                          *)

Unspawned == transport = "stdio" /\ child = "none" /\ promise = Pending

Spawn ==
    /\ Unspawned
    /\ child' = "running"
    /\ timer' = "armed"
    /\ UNCHANGED <<method, transport, promise, code, written, heard, held, payload, seen, exchange>>

\* The command does not exist: an "error" event will follow.
SpawnFails ==
    /\ Unspawned
    /\ child' = "failed"
    /\ code' = "other"
    /\ timer' = "armed"
    /\ UNCHANGED <<method, transport, promise, written, heard, held, payload, seen, exchange>>

\* spawn itself throws, inside the executor of the promise.
SpawnThrows ==
    /\ Unspawned
    /\ Settle(Rejected)
    /\ UNCHANGED <<method, transport, payload, exchange, stdioVars>>

Write ==
    /\ child = "running"
    /\ written < MaxChunks
    /\ written' = written + 1
    /\ UNCHANGED <<method, transport, promise, timer, child, code, heard, held, payload, seen, exchange>>

\* A "data" event.
Hear ==
    /\ heard < written
    /\ heard' = heard + 1
    /\ UNCHANGED <<method, transport, promise, timer, child, code, written, held, payload, seen, exchange>>

\* The child ends by itself.  Without output there is no JSON.
Exit ==
    /\ child = "running"
    /\ child' = "ended"
    /\ code' \in {"zero", "other"}
    /\ held' \in BOOLEAN
    /\ payload' \in IF written = 0 THEN {"empty"} ELSE Payloads \cup {"malformed"}
    /\ UNCHANGED <<method, transport, promise, timer, written, heard, seen, exchange>>

\* The last process that held the child's output open lets go of it.
Release ==
    /\ held
    /\ held' = FALSE
    /\ UNCHANGED <<method, transport, promise, timer, child, code, written, heard, payload, seen, exchange>>

\* Mutated form: the rejection is left to the "close" event.
TimeoutSilent ==
    /\ timer = "armed"
    /\ timer' = "fired"
    /\ IF child = "running"
       THEN child' = "killed" /\ code' = "null" /\ held' \in BOOLEAN
       ELSE UNCHANGED <<child, code, held>>
    /\ UNCHANGED <<method, transport, promise, written, heard, payload, seen, exchange>>

\* Killing a child that has ended already does nothing.
Timeout ==
    /\ timer = "armed"
    /\ timer' = "fired"
    /\ Settle(Rejected)
    /\ IF child = "running"
       THEN child' = "killed" /\ code' = "null" /\ held' \in BOOLEAN
       ELSE UNCHANGED <<child, code, held>>
    /\ UNCHANGED <<method, transport, written, heard, payload, seen, exchange>>

\* Mutated form: the timer goes on.
ClearTimeoutBug == UNCHANGED timer

ClearTimeout == timer' = IF timer = "armed" THEN "cleared" ELSE timer

ErrorEvent ==
    /\ child = "failed"
    /\ "error" \notin seen
    /\ seen' = seen \cup {"error"}
    /\ ClearTimeout
    /\ Settle(Rejected)
    /\ UNCHANGED <<method, transport, child, code, written, heard, held, payload, exchange>>

\* Mutated form: the listener is on "exit", which does not wait for output.
AllHeardBug == TRUE

\* "close" comes when the process is over and its output has been read.
AllHeard == heard = written /\ ~held

CloseEvent ==
    /\ child \in {"ended", "killed", "failed"}
    /\ AllHeard
    /\ "close" \notin seen
    /\ seen' = seen \cup {"close"}
    /\ ClearTimeout
    /\ Settle(IF code = "zero" THEN Parsed(payload) ELSE Rejected)
    /\ UNCHANGED <<method, transport, child, code, written, heard, held, payload, exchange>>

----------------------------------------------------------------------------
(* HttpMcpTransportAdapter: fetch, and the text of its response.           *)

Send ==
    /\ transport = "http"
    /\ exchange = "none"
    /\ exchange' = "sent"
    /\ UNCHANGED <<method, transport, promise, payload, stdioVars>>

Respond ==
    /\ exchange = "sent"
    /\ exchange' \in {"ok", "notOk"}
    /\ UNCHANGED <<method, transport, promise, payload, stdioVars>>

\* An empty body counts as an empty record.
ParsedBody(text) == Parsed(IF text = "empty" THEN "record" ELSE text)

ReadJsonResponse ==
    /\ exchange \in {"ok", "notOk"}
    /\ promise = Pending
    /\ payload' \in Payloads \cup {"malformed", "empty"}
    /\ Settle(IF exchange = "notOk" THEN Rejected ELSE ParsedBody(payload'))
    /\ UNCHANGED <<method, transport, exchange, stdioVars>>

\* The address is no URL, the network fails, or the body breaks off.
FetchFails ==
    /\ transport = "http"
    /\ promise = Pending
    /\ exchange' = "over"
    /\ Settle(Rejected)
    /\ UNCHANGED <<method, transport, payload, stdioVars>>

CallNext ==
    \/ Spawn \/ SpawnFails \/ SpawnThrows \/ Write \/ Hear \/ Exit \/ Release
    \/ Timeout \/ ErrorEvent \/ CloseEvent
    \/ Send \/ Respond \/ ReadJsonResponse \/ FetchFails

CallSpec == CallInit /\ [][CallNext]_callVars

\* The call is made, and its timer comes due.  Nothing is asked of the child.
FairCallSpec == CallSpec /\ WF_callVars(Spawn \/ SpawnFails \/ SpawnThrows) /\ WF_callVars(Timeout)

----------------------------------------------------------------------------
(* Properties.                                                             *)

Settled == promise # Pending

\* When the caller goes on, neither a child nor a timer is left behind.
NothingLeft == Settled => child # "running" /\ timer # "armed"

\* A call succeeds only with the whole output of a child that ended well, or
\* the body of a successful response.
WholeAnswer ==
    promise \in Values =>
        IF transport = "stdio"
        THEN /\ code = "zero"
             /\ heard = written
             /\ promise = Normalize(payload)
        ELSE exchange = "ok"

\* A stdio call comes to an end, whatever the child and its descendants do.
StdioSettles == (transport = "stdio") ~> Settled
=============================================================================
