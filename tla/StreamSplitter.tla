--------------------------- MODULE StreamSplitter ---------------------------
(***************************************************************************)
(* The reader of a PostToolUse input (engine/hookwire/jsonsplit.go).  The  *)
(* input may be as large as the answer of a tool, so it is not held: one   *)
(* pass over the stream keeps the fields of the object but one, of which it*)
(* keeps a hash, through a buffer of fixed size.  The stream is a sequence *)
(* of tokens; a text and a number are one token each.                      *)
(***************************************************************************)
EXTENDS Integers, SequencesExt

CONSTANTS
  RestLimit,    \* MaxEnvelopeBytes: how much of the rest may be kept
  SinkBuffer,   \* sinkBufferBytes: what the hashing sink holds back
  RunLength,    \* the length of the run of plain characters in a text
  MaxNesting,   \* maxNestingDepth
  Streams       \* the inputs there may be, as sequences of tokens

ASSUME SplitAssumption == {RestLimit, SinkBuffer, RunLength, MaxNesting} \subseteq Nat \ {0}

VARIABLES
  stream,  \* the input
  at,      \* how many of its tokens were read
  nesting, \* the composites that are open inside the object, the innermost last
  expects, \* what the splitter looks for next
  hashing, \* whether the value being read is the one that is hashed
  rest,    \* the kept fields, byte for byte
  sink,    \* the hashing sink: what it wrote to the hash and what it holds back
  split    \* "reading", "accepted" or "refused"

splitVars == <<stream, at, nesting, expects, hashing, rest, sink, split>>

Name == "tool_response"
TextTokens == {"text", Name}
Opening == {"{", "["}
Closing(open) == IF open = "{" THEN "}" ELSE "]"
Tokens == TextTokens \union Opening \union {"}", "]", ":", ",", "scalar", " "}
ASSUME StreamsAssumption == \A s \in Streams : s \in Seq(Tokens)

----------------------------------------------------------------------------
(* A text is put down as a quote, a run of plain characters and a quote; a *)
(* byte is put, a run is written.                                          *)
Quote == "quote"
Atoms(t) == IF t \in TextTokens THEN <<Quote, t, Quote>> ELSE <<t>>
Weight(atom) == IF atom \in TextTokens THEN RunLength ELSE IF atom = "null" THEN 4 ELSE 1
Length(atoms) == FoldLeft(LAMBDA n, a : n + Weight(a), 0, atoms)

Flush(s) == [wrote |-> s.wrote \o s.held, held |-> <<>>]
Held(s, atom) ==
  LET kept == [s EXCEPT !.held = Append(@, atom)]
  IN  IF Length(kept.held) = SinkBuffer THEN Flush(kept) ELSE kept
(* A form it must not have: a run as long as the buffer goes past what the *)
(* buffer still holds.                                                     *)
WriteAhead(s, atom) ==
  IF Weight(atom) >= SinkBuffer THEN [s EXCEPT !.wrote = Append(@, atom)]
  ELSE IF Length(s.held) + Weight(atom) > SinkBuffer THEN Held(Flush(s), atom)
  ELSE Held(s, atom)
WriteRun(s, atom) ==
  LET room == IF Length(s.held) + Weight(atom) > SinkBuffer THEN Flush(s) ELSE s
  IN  IF room.held = <<>> /\ Weight(atom) >= SinkBuffer
      THEN [room EXCEPT !.wrote = Append(@, atom)]
      ELSE Held(room, atom)
Sunk(s, atom) == IF atom \in TextTokens THEN WriteRun(s, atom) ELSE Held(s, atom)

----------------------------------------------------------------------------
(* The grammar: what a token may be where the splitter stands.  White space*)
(* may stand anywhere; a key is the name only in the object itself.        *)
Inside == nesting # <<>>
Innermost == nesting[Len(nesting)]
InObject == Inside => Innermost = "{"
StartsObject(t) == expects = "object" /\ t = "{"
IsKey(t) == expects \in {"first", "key"} /\ InObject /\ t \in TextTokens
IsColon(t) == expects \in {"colon", "colon of it"} /\ t = ":"
IsValue(t) ==
  /\ t \in TextTokens \union Opening \union {"scalar"}
  /\ expects \in {"value", "value of it"} \/ (expects = "first" /\ ~ InObject)
IsEnd(t) ==
  /\ expects \in {"first", "after"}
  /\ t = IF Inside THEN Closing(Innermost) ELSE "}"
IsComma(t) == expects = "after" /\ t = ","
Grammatical(t) ==
  \/ t = " " \/ StartsObject(t) \/ IsKey(t) \/ IsColon(t) \/ IsValue(t) \/ IsEnd(t) \/ IsComma(t)

(* A form it must not have: a field of a value is taken for one of the     *)
(* object.                                                                 *)
NamedAnywhere(t) == t = Name
IsName(t) == t = Name /\ ~ Inside

Expected(t) ==
  IF t = " " THEN expects
  ELSE IF StartsObject(t) THEN "first"
  ELSE IF IsKey(t) THEN (IF IsName(t) THEN "colon of it" ELSE "colon")
  ELSE IF IsColon(t) THEN (IF expects = "colon of it" THEN "value of it" ELSE "value")
  ELSE IF IsValue(t) THEN (IF t \in Opening THEN "first" ELSE "after")
  ELSE IF IsEnd(t) THEN (IF Inside THEN "after" ELSE "end")
  ELSE IF InObject THEN "key" ELSE "value"
Nested(t) ==
  IF IsValue(t) /\ t \in Opening THEN Append(nesting, t)
  ELSE IF IsEnd(t) /\ Inside THEN SubSeq(nesting, 1, Len(nesting) - 1)
  ELSE nesting

(* Where a token goes.  White space of the object itself is dropped; inside*)
(* a value it belongs to the value.  A value under the name is hashed, anew*)
(* for each field of the name, and null stands for it in the rest.         *)
BeginsHashed(t) == expects = "value of it" /\ IsValue(t)
EndsHashed(t) ==
  \/ BeginsHashed(t) /\ t \notin Opening
  \/ hashing /\ IsEnd(t) /\ Len(nesting) = 1
RestGains(t) ==
  IF EndsHashed(t) THEN <<"null">>
  ELSE IF hashing \/ BeginsHashed(t) \/ (t = " " /\ ~ Inside) THEN <<>>
  ELSE Atoms(t)
SinkAfter(t) ==
  LET begun == IF BeginsHashed(t) THEN [wrote |-> <<>>, held |-> <<>>] ELSE sink
      fed == IF hashing \/ BeginsHashed(t) THEN FoldLeft(Sunk, begun, Atoms(t)) ELSE begun
  IN  IF EndsHashed(t) THEN Flush(fed) ELSE fed

----------------------------------------------------------------------------
SplitInit ==
  /\ stream \in Streams
  /\ at = 0
  /\ nesting = <<>>
  /\ expects = "object"
  /\ hashing = FALSE
  /\ rest = <<>>
  /\ sink = [wrote |-> <<>>, held |-> <<>>]
  /\ split = "reading"

(* A token the grammar allows, within the nesting and the limit of what is *)
(* kept; the limit counts nothing of a hashed value.                       *)
Takes(t) ==
  /\ Grammatical(t)
  /\ Len(Nested(t)) <= MaxNesting
  /\ Length(rest) + Length(RestGains(t)) <= RestLimit
TakeToken ==
  /\ split = "reading"
  /\ at < Len(stream)
  /\ LET t == stream[at + 1]
     IN  /\ Takes(t)
         /\ nesting' = Nested(t)
         /\ expects' = Expected(t)
         /\ hashing' = (~ EndsHashed(t) /\ (hashing \/ BeginsHashed(t)))
         /\ rest' = rest \o RestGains(t)
         /\ sink' = SinkAfter(t)
  /\ at' = at + 1
  /\ UNCHANGED <<stream, split>>

RefuseToken ==
  /\ split = "reading"
  /\ at < Len(stream)
  /\ ~ Takes(stream[at + 1])
  /\ split' = "refused"
  /\ UNCHANGED <<stream, at, nesting, expects, hashing, rest, sink>>

(* The stream ends: after the object, or in the middle of it.              *)
EndOfStream ==
  /\ split = "reading"
  /\ at = Len(stream)
  /\ split' = IF expects = "end" THEN "accepted" ELSE "refused"
  /\ UNCHANGED <<stream, at, nesting, expects, hashing, rest, sink>>

SplitNext == TakeToken \/ RefuseToken \/ EndOfStream

----------------------------------------------------------------------------
SplitTypeOK ==
  /\ stream \in Seq(Tokens)
  /\ at \in 0..Len(stream)
  /\ nesting \in Seq(Opening)
  /\ split \in {"reading", "accepted", "refused"}

(* The values, the fields and the items of each number of tokens, by the   *)
(* grammar of JSON, and the objects of at most a number.                   *)
Joined(A, sep, B) == {a \o sep \o b : a \in A, b \in B}
Between(open, C) == {<<open>> \o c \o <<Closing(open)>> : c \in C}
NoTokens == [value |-> {}, field |-> {}, fields |-> {}, items |-> {}]
Grammar(n) ==
  FoldLeft(
    LAMBDA g, i :
      LET Of(k) == IF k \in DOMAIN g THEN g[k] ELSE NoTokens
          Inner(kinds) == IF i = 2 THEN {<<>>} ELSE kinds
          value == IF i = 1 THEN {<<"scalar">>, <<"text">>, <<Name>>}
                   ELSE Between("{", Inner(Of(i - 2).fields)) \union Between("[", Inner(Of(i - 2).items))
          field == Joined({<<t>> : t \in TextTokens}, <<":">>, Of(i - 2).value)
          More(one, list) == UNION {Joined(one[j], <<",">>, list[j]) : j \in 1..(i - 2)}
      IN  Append(g, [value |-> value, field |-> field,
                     fields |-> field \union More([j \in 1..(i - 2) |-> Of(j).field],
                                                  [j \in 1..(i - 2) |-> Of(i - 1 - j).fields]),
                     items |-> value \union More([j \in 1..(i - 2) |-> Of(j).value],
                                                 [j \in 1..(i - 2) |-> Of(i - 1 - j).items])]),
    <<>>, [i \in 1..n |-> i])
Objects(n) ==
  LET g == Grammar(n) IN UNION {{v \in g[i].value : v[1] = "{"} : i \in 1..n}

(* How many composites are open at a place, the object among them.         *)
Depth(tokens, i) ==
  Len(SelectSeq(SubSeq(tokens, 1, i), LAMBDA t : t \in Opening))
    - Len(SelectSeq(SubSeq(tokens, 1, i), LAMBDA t : t \in {"}", "]"}))
Bare(tokens) == SelectSeq(tokens, LAMBDA t : t # " ")

(* The splitter takes an object that nests no deeper and keeps no more than*)
(* it allows, and nothing else.                                            *)
TakesExactly(objects) ==
  /\ split = "accepted" => Bare(stream) \in objects
  /\ split = "refused" /\ Bare(stream) \in objects =>
       \/ \E i \in DOMAIN stream : Depth(stream, i) > MaxNesting + 1
       \/ Length(rest) + Length(RestGains(stream[at + 1])) > RestLimit

(* Of an object it keeps everything but the values under the name, which   *)
(* null replaces in the object itself and nowhere else, and it has hashed  *)
(* all of the last of these values, in its order.                          *)
KeepsAndHashes ==
  split = "accepted" =>
    LET atoms == FlattenSeq([i \in DOMAIN Bare(stream) |-> Atoms(Bare(stream)[i])])
        kept == Bare(rest)
        nulls == {i \in DOMAIN kept : kept[i] = "null"}
        Upto(i) == SubSeq(kept, 1, i - 1)
        From(i) == Bare(sink.wrote) \o SubSeq(kept, i + 1, Len(kept))
    IN  /\ sink.held = <<>>
        /\ nulls = {} => kept = atoms
        /\ \A i \in nulls :
             /\ Depth(kept, i) = 1
             /\ (\A j \in nulls : i <= j) => IsPrefix(Upto(i), atoms)
             /\ (\A j \in nulls : i >= j) => IsSuffix(From(i), atoms)
             /\ nulls = {i} => Upto(i) \o From(i) = atoms
=============================================================================
