-------------------------- MODULE MCProviderStream --------------------------
(***************************************************************************)
(* Calls "a" and "b" with arguments in one or two fragments, fragments     *)
(* that repeat the name or the id as an empty string, a call without index *)
(* and id, an entry that never gets a name, and every kind of line.        *)
(***************************************************************************)
EXTENDS ProviderStream

CONSTANTS a, b, add, find, hello, world, open, close

Fragment(index, id, name, args) == [index |-> index, id |-> id, name |-> name, args |-> args]

Chunk(content, calls) == [kind |-> "chunk", content |-> content, calls |-> calls]

FirstHalf == Fragment(0, a, add, <<open>>)

SecondHalf == Fragment(0, Absent, Absent, <<close>>)

Other == Fragment(1, b, find, <<open, close>>)

mcStrings == {Blank, a, b, add, find, hello, world, open, close}

mcLines ==
  {Skip, Bad, [Skip EXCEPT !.kind = "done"],
   Chunk(hello, <<>>), Chunk(world, <<FirstHalf>>),
   Chunk(Absent, <<FirstHalf, Other>>), Chunk(Blank, <<SecondHalf>>),
   Chunk(Absent, <<Fragment(0, Absent, Blank, <<close>>)>>),
   Chunk(Absent, <<Fragment(0, Blank, Absent, <<close>>)>>),
   Chunk(Absent, <<Fragment(Absent, Absent, find, <<open, close>>)>>)}

mcObjects == {<<open, close>>}
=============================================================================
