--------------------------- MODULE ProviderStream ---------------------------
(***************************************************************************)
(* One answer of a language model: from the bytes of a provider's HTTP     *)
(* response to the tool calls that runChat goes on with.                   *)
(*   packages/providers/src/index.ts: OpenRouterProvider.streamChat,       *)
(*     openAiStreamEvents, OpenAICompatibleProvider.streamChat,            *)
(*     openAiChatResponseToResult, ProviderGateway.resolve                 *)
(*   packages/runtime/src/index.ts: the for await loop of runChat          *)
(* A streamed body is a sequence of lines. The network cuts it anywhere,   *)
(* so a line travels as pieces: its two halves and its end. The provider,  *)
(* and the network, are the environment.                                   *)
(***************************************************************************)
EXTENDS Integers, SequencesExt

CONSTANTS
  Absent,    \* undefined: a field that a message of the provider leaves out
  Blank,     \* the empty string
  Strings,   \* contents, ids, names, and the parts of an argument text, where empty ones add nothing
  Lines,     \* the lines a provider may send
  Objects,   \* the argument texts that are JSON objects
  MaxLines   \* bound on the lines of one response

(***************************************************************************)
(* kind: "chunk" is data with a JSON body, "done" is data with [DONE],     *)
(* "bad" is data that is no JSON, "skip" is anything else.                 *)
(* A call of a chunk is a fragment of a tool call.                         *)
(***************************************************************************)
CallShapes ==
  [index : Nat \cup {Absent}, id : Strings \cup {Absent}, name : Strings \cup {Absent},
   args : Seq(Strings \ {Blank})]

LineShapes ==
  [kind : {"chunk", "done", "bad", "skip"}, content : Strings \cup {Absent}, calls : Seq(CallShapes)]

LineAssumption ==
  /\ MaxLines \in Nat
  /\ Lines \subseteq LineShapes

ASSUME LineAssumption

VARIABLES
  pc,       \* where the call is
  text,     \* the pieces of the lines the provider sent
  wire,     \* "open", "ended" or "broken"
  pos,      \* how many pieces were read
  buffer,   \* pieces of a line whose end was not read yet
  deltas,   \* content found so far
  entries,  \* toolCalls: the entries of the map, in the order of insertion
  result,   \* the result of the adapter
  events,   \* what the adapter has still to yield
  round     \* what runChat has received: deltas, calls, and the result

streamVars == <<pc, text, wire, pos, buffer, deltas, entries, result, events, round>>

network == <<text, wire>>

decoder == <<pos, buffer, deltas, entries>>

NoResult == [content |-> <<>>, calls |-> <<>>]

Skip == [kind |-> "skip", content |-> Absent, calls |-> <<>>]

Bad == [kind |-> "bad", content |-> Absent, calls |-> <<>>]

Parts(l, n) == [p \in 1..n |-> [line |-> l, part |-> p]]

StreamInit ==
  /\ pc = "resolve"
  /\ text = <<>> /\ wire = "open"
  /\ pos = 0 /\ buffer = <<>> /\ deltas = <<>> /\ entries = <<>>
  /\ result = NoResult /\ events = <<>>
  /\ round = [deltas |-> <<>>, calls |-> <<>>, result |-> NoResult]

(***************************************************************************)
(* What stands at the places T of a sequence, in its order.                *)
(***************************************************************************)
Nth(T, k) == CHOOSE n \in T : Cardinality(T \cap 1..n) = k

Chosen(s, T) == [k \in 1..Cardinality(T) |-> s[Nth(T, k)]]

(***************************************************************************)
(* The tool calls of a result.                                             *)
(***************************************************************************)
Or(a, b) == IF a # Absent THEN a ELSE b

\* Absent and the empty string are false in a condition; ?? knows only Absent.
Truthy(s) == s \notin {Absent, Blank}

Kept(s) == IF Truthy(s) THEN s ELSE Absent

ParseToolArguments(args) == IF args \in Objects THEN args ELSE <<>>

ToCall(e) ==
  [id     |-> Or(e.id, <<"toolcall", e.index>>),
   toolId |-> e.name,
   args   |-> ParseToolArguments(e.args)]

Named(e) == Truthy(e.name)

ToolCalls(es) ==
  LET named == Chosen(es, {n \in DOMAIN es : Named(es[n])})
  IN [n \in DOMAIN named |-> ToCall(named[n])]

(***************************************************************************)
(* Decoding. The lines of the buffer are split at their ends; what follows *)
(* the last end waits for the next piece.                                  *)
(***************************************************************************)
Ends(buf) == {n \in DOMAIN buf : buf[n].part = 3}

LastEnd(buf) == Max({0} \cup Ends(buf))

\* Mutated form: what follows the last end of an event is dropped.
RestBug(buf) == <<>>

Rest(buf) == SubSeq(buf, LastEnd(buf) + 1, Len(buf))

\* What a line between two ends is taken for.
Line(pieces) ==
  IF pieces = <<>> \/ pieces[1].part # 1 THEN Skip
  ELSE IF Len(pieces) = 2 THEN pieces[1].line ELSE Bad

Split(buf) ==
  LET ends     == Ends(buf)
      start(k) == IF k = 1 THEN 1 ELSE Nth(ends, k - 1) + 1
  IN [k \in 1..Cardinality(ends) |-> Line(SubSeq(buf, start(k), Nth(ends, k) - 1))]

Index(es, f) == Or(f.index, Len(es))

Empty(i) == [index |-> i, id |-> Absent, name |-> Absent, args |-> <<>>]

\* A fragment joins the entry of its index; one without an index opens the next.
\* What it does not give stays; an empty id or name takes away the one there was.
Merge(es, f) ==
  LET i    == Index(es, f)
      at   == {n \in DOMAIN es : es[n].index = i}
      cur  == IF at = {} THEN Empty(i) ELSE es[CHOOSE n \in at : TRUE]
      next == [index |-> i, id |-> Kept(Or(f.id, cur.id)), name |-> Kept(Or(f.name, cur.name)),
               args |-> cur.args \o f.args]
  IN IF at = {} THEN Append(es, next) ELSE [n \in DOMAIN es |-> IF n \in at THEN next ELSE es[n]]

Contents(lines) ==
  LET with == Chosen(lines, {n \in DOMAIN lines : lines[n].kind = "chunk" /\ Truthy(lines[n].content)})
  IN [n \in DOMAIN with |-> with[n].content]

Fragments(lines) ==
  LET chunks == Chosen(lines, {n \in DOMAIN lines : lines[n].kind = "chunk"})
  IN FlattenSeq([n \in DOMAIN chunks |-> chunks[n].calls])

Done == [type |-> "done", value |-> <<>>]

\* Everything found, then the result.
Events(ds, calls) ==
  [n \in DOMAIN ds |-> [type |-> "delta", value |-> ds[n]]]
    \o [n \in DOMAIN calls |-> [type |-> "tool_call", value |-> calls[n]]] \o <<Done>>

HasBad(lines) == \E n \in DOMAIN lines : lines[n].kind = "bad"

(***************************************************************************)
(* The provider and the network.                                           *)
(***************************************************************************)
RoomLeft == Len(text) < 3 * MaxLines

Send ==
  /\ pc = "read" /\ wire = "open" /\ RoomLeft
  /\ \E l \in Lines : text' = text \o Parts(l, 3)
  /\ UNCHANGED <<pc, wire, decoder, result, events, round>>

\* The response ends, perhaps before the last line does.
End ==
  /\ pc = "read" /\ wire = "open"
  /\ \/ UNCHANGED text
     \/ RoomLeft /\ \E l \in Lines, n \in 1..2 : text' = text \o Parts(l, n)
  /\ wire' = "ended"
  /\ UNCHANGED <<pc, decoder, result, events, round>>

Break ==
  /\ pc = "read" /\ wire = "open"
  /\ wire' = "broken"
  /\ UNCHANGED <<pc, text, decoder, result, events, round>>

(***************************************************************************)
(* The adapters.                                                           *)
(***************************************************************************)
StreamFails ==
  /\ pc' = "failed"
  /\ UNCHANGED <<network, decoder, result, events, round>>

\* The provider the policy selected may have left the registry since.
Resolve ==
  /\ pc = "resolve"
  /\ \/ /\ pc' = "fetch"
        /\ UNCHANGED <<network, decoder, result, events, round>>
     \/ StreamFails

\* OpenRouter answers with a stream, or with an error.
FetchStream ==
  /\ pc = "fetch"
  /\ \/ /\ pc' = "read"
        /\ UNCHANGED <<network, decoder, result, events, round>>
     \/ StreamFails

\* An OpenAI-compatible provider is asked for a whole answer; its only event is "done".
CompleteChat ==
  /\ pc = "fetch"
  /\ \E body \in Lines :
       IF body.kind # "chunk" THEN StreamFails
       ELSE LET calls == [n \in DOMAIN body.calls |-> [body.calls[n] EXCEPT !.index = n - 1]]
            IN /\ pc' = "yield"
               /\ result' = [content |-> Contents(<<body>>), calls |-> ToolCalls(calls)]
               /\ events' = <<Done>>
               /\ UNCHANGED <<network, decoder, round>>

\* One chunk of the body arrives: the lines it completes are decoded.
Read ==
  /\ pc = "read" /\ wire # "broken" /\ pos < Len(text)
  /\ \E n \in 1..(Len(text) - pos) :
       \E buf \in {buffer \o SubSeq(text, pos + 1, pos + n)} : \E lines \in {Split(buf)} :
         IF HasBad(lines) THEN StreamFails
         ELSE /\ pos' = pos + n
              /\ buffer' = Rest(buf)
              /\ deltas' = deltas \o Contents(lines)
              /\ entries' = FoldLeft(Merge, entries, Fragments(lines))
              /\ UNCHANGED <<pc, network, result, events, round>>

\* Mutated form: a stream that breaks off counts as one that ended.
ReadBrokenBug ==
  /\ pc = "read" /\ wire = "broken"
  /\ pc' = "yield"
  /\ result' = [content |-> deltas, calls |-> ToolCalls(entries)]
  /\ events' = Events(deltas, result'.calls)
  /\ UNCHANGED <<network, decoder, round>>

ReadBroken ==
  /\ pc = "read" /\ wire = "broken"
  /\ StreamFails

\* Mutated form: an end inside an event is not noticed.
ReadDoneWaits ==
  /\ pc = "read" /\ wire = "ended" /\ pos = Len(text) /\ buffer = <<>>
  /\ pc' = "yield"
  /\ result' = [content |-> deltas, calls |-> ToolCalls(entries)]
  /\ events' = Events(deltas, result'.calls)
  /\ UNCHANGED <<network, decoder, round>>

\* Only now is anything passed on as an event.
ReadDone ==
  /\ pc = "read" /\ wire = "ended" /\ pos = Len(text)
  /\ pc' = "yield"
  /\ result' = [content |-> deltas, calls |-> ToolCalls(entries)]
  /\ events' = Events(deltas, result'.calls)
  /\ UNCHANGED <<network, decoder, round>>

(***************************************************************************)
(* The loop of runChat takes one event after the other.                    *)
(***************************************************************************)
Receive ==
  /\ pc = "yield" /\ events # <<>>
  /\ LET event == Head(events) IN
       round' = CASE event.type = "delta"     -> [round EXCEPT !.deltas = Append(@, event.value)]
                  [] event.type = "tool_call" -> [round EXCEPT !.calls = Append(@, event.value)]
                  [] event.type = "done"      -> [round EXCEPT !.result = result]
  /\ events' = Tail(events)
  /\ UNCHANGED <<pc, network, decoder, result>>

\* The loop is over: the round goes on with the calls it received one by one, if there were any.
Round == IF round.calls # <<>> THEN round.calls ELSE round.result.calls

Finish ==
  /\ pc = "yield" /\ events = <<>>
  /\ pc' = "over"
  /\ round' = [round EXCEPT !.calls = Round]
  /\ UNCHANGED <<network, decoder, result, events>>

Client == Resolve \/ FetchStream \/ CompleteChat \/ Read \/ ReadBroken \/ ReadDone \/ Receive \/ Finish

StreamNext == Send \/ End \/ Break \/ Client

StreamSpec == StreamInit /\ [][StreamNext]_streamVars

\* A response whose bytes have all been sent is read, and what it says is taken.
FairStreamSpec == StreamSpec /\ WF_streamVars(Client)

(***************************************************************************)
(* Properties.                                                             *)
(***************************************************************************)
StreamTypeOK ==
  /\ pc \in {"resolve", "fetch", "read", "yield", "over", "failed"}
  /\ wire \in {"open", "ended", "broken"}
  /\ pos \in 0..Len(text) /\ Len(text) <= 3 * MaxLines
  /\ \A n \in DOMAIN buffer : buffer[n].part \in 1..2
  /\ \A m, n \in DOMAIN entries : entries[m].index = entries[n].index => m = n

(***************************************************************************)
(* What the lines of a response mean, said without reading them one by     *)
(* one: fragments of one call carry its index, or none for a new call. Its *)
(* id and its name are the last that were given; a call whose last name is *)
(* empty is none, and one whose last id is empty gets an id as if it had   *)
(* never had one.                                                          *)
(***************************************************************************)
Slots(fs) ==
  LET slot[n \in DOMAIN fs] ==
        IF fs[n].index # Absent THEN fs[n].index ELSE Cardinality({slot[m] : m \in 1..(n - 1)})
  IN slot

Of(slots, i) == {n \in DOMAIN slots : slots[n] = i}

LastGiven(values, places) ==
  LET given == {n \in places : values[n] # Absent}
  IN IF given = {} THEN Absent ELSE values[Max(given)]

Ids(fs) == [n \in DOMAIN fs |-> fs[n].id]

Names(fs) == [n \in DOMAIN fs |-> fs[n].name]

Args(fs) == [n \in DOMAIN fs |-> fs[n].args]

Firsts(slots) == {n \in DOMAIN slots : \A m \in 1..(n - 1) : slots[m] # slots[n]}

Meant(fs, of, i) ==
  [id     |-> Or(Kept(LastGiven(Ids(fs), of)), <<"toolcall", i>>),
   toolId |-> Kept(LastGiven(Names(fs), of)),
   args   |-> ParseToolArguments(FlattenSeq(Chosen(Args(fs), of)))]

Meaning(fs) ==
  LET slots  == Slots(fs)
      firsts == Chosen(slots, Firsts(slots))
      all    == [k \in DOMAIN firsts |-> Meant(fs, Of(slots, firsts[k]), firsts[k])]
  IN Chosen(all, {k \in DOMAIN all : all[k].toolId # Absent})

EndedLines == LET ends == Chosen(text, Ends(text)) IN [n \in DOMAIN ends |-> ends[n].line]

Streamed == pc \in {"yield", "over"} /\ wire = "ended"

(***************************************************************************)
(* However the network cut the stream, and however the calls are spread    *)
(* over the chunks, the result has the content and the calls of the lines  *)
(* the provider ended, in their order: no fragment is overlooked, doubled, *)
(* or joined to another call. It does not say that a call once named is    *)
(* handed on: a later fragment with an empty name takes it back, and one   *)
(* with an empty id its id (openAiStreamEvents).                           *)
(***************************************************************************)
FramingIsIrrelevant ==
  /\ StreamTypeOK
  /\ Streamed =>
    /\ ~HasBad(EndedLines)
    /\ result = [content |-> Contents(EndedLines), calls |-> Meaning(Fragments(EndedLines))]

(***************************************************************************)
(* Of a response that broke off or made no sense runChat gets nothing at   *)
(* all: no text it would have shown, no call it would have executed. Of    *)
(* any other it gets each tool call once, although a call comes as an      *)
(* event of its own and again with the result; and the text it shows is    *)
(* the result's (streamChat, the receiving loop of runChat).               *)
(***************************************************************************)
AllOrNothing ==
  /\ pc = "failed" => round.deltas = <<>> /\ round.calls = <<>>
  /\ pc = "over" =>
       /\ wire # "broken"
       /\ round.calls = round.result.calls
       /\ round.result = result
       /\ round.deltas # <<>> => round.deltas = result.content

(***************************************************************************)
(* A response that ended or broke off is eventually disposed of.           *)
(***************************************************************************)
StreamSettles == wire # "open" ~> pc \in {"over", "failed"}
=============================================================================
