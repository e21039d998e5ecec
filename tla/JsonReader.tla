----------------------------- MODULE JsonReader -----------------------------
(* The incremental JSON reader of uploads and the parser of glTF documents *)
(* on top of it (files/validation/content.py): the upload comes in chunks, *)
(* which may end anywhere, within a character too; the reader keeps no     *)
(* more than a chunk and the nesting it is in.                             *)
(*                                                                         *)
(* A byte is a member of Unit: a character the grammar knows, a key, which *)
(* is one letter here and no escape, a digit, one half of the word null or *)
(* one byte of a two-byte character.  Python's call stack is the variable  *)
(* stack, whose first frame is the innermost call.                         *)
(*                                                                         *)
(* A definition introduced as "a slip" is not part of the specification:   *)
(* it is a likely mistake in the code of the definition after it.          *)
(***************************************************************************)
EXTENDS Naturals, FiniteSets, SequencesExt

CONSTANTS
  Document,   \* the uploads: sequences of units
  ChunkSize   \* the sizes of chunks

Structure == {"{", "}", "[", "]", ":", ","}
Quote == "quote"
Key == {"asset", "buffers", "uri", "name"}
Null == <<"nu", "ll">>
ByteOne == "h"
ByteTwo == "t"
Unit == Structure \cup Key \cup {Quote, "\\", " ", "1", "nu", "ll", ByteOne, ByteTwo}

\* What the decoder makes of ByteOne and ByteTwo.
Character == "ht"

\* A chunk holds any character whole: chunks have thousands of bytes.
ASSUME InputAssumption ==
  /\ Document \subseteq Seq(Unit)
  /\ ChunkSize \subseteq Nat \ {0, 1}

VARIABLES
  document, size,  \* the upload and the size of its chunks
  rest,            \* what has not been read from the file yet
  partial,         \* what the decoder holds of a character
  buffer,          \* _buffer, decoded
  eof,             \* _eof
  stack,           \* the calls: which object or array, and where in it
  token,           \* the string or scalar being read, or read last
  uri,             \* the resource's uri: none or one
  asset,           \* asset_present
  references,      \* the uris collected
  verdict

input == <<document, size>>
reader == <<rest, partial, buffer, eof>>
found == <<token, uri, asset, references>>
vars == <<input, reader, stack, found, verdict>>

Object == {"gltf", "resource", "object"}
Array == {"resources", "array"}

\* The places in the code where a character is looked at.
Point == {"open", "first", "key", "item", "colon", "asset", "uri", "string", "escape", "scalar",
          "after", "next", "end"}

\* then: what follows the string that is being read.
Frame == [kind : Object \cup Array, point : Point, then : {"colon", "after", "uri"}]

Call(kind) == [kind |-> kind, point |-> "open", then |-> "after"]

Init ==
  /\ document \in Document /\ size \in ChunkSize
  /\ rest = document /\ partial = <<>> /\ buffer = <<>> /\ eof = FALSE
  /\ stack = <<Call("gltf")>>
  /\ token = <<>> /\ uri = <<>> /\ asset = FALSE /\ references = <<>>
  /\ verdict = "reading"

Reading == verdict = "reading"
At == Head(stack).point
Kind == Head(stack).kind
Opener == IF Kind \in Object THEN "{" ELSE "["
Closer == IF Kind \in Object THEN "}" ELSE "]"
InString == At \in {"string", "escape"}

---------------------------------------------------------------------------
(* The file and the decoder *)

\* UTF-8: the two bytes of a character come together.
WellEncoded(bytes) ==
  \A i \in DOMAIN bytes :
    /\ bytes[i] = ByteOne => i < Len(bytes) /\ bytes[i + 1] = ByteTwo
    /\ bytes[i] = ByteTwo => i > 1 /\ bytes[i - 1] = ByteOne

\* The characters of bytes that are well encoded: each ByteTwo belongs to the
\* ByteOne before it.
Characters[bytes \in Seq(Unit)] ==
  IF bytes = <<>> THEN <<>>
  ELSE LET before == Characters[Front(bytes)]
           last == Last(bytes)
       IN IF last = ByteTwo THEN before
          ELSE Append(before, IF last = ByteOne THEN Character ELSE last)

\* The incremental decoder: before is what it holds of a character.
Decoded(before, bytes) ==
  LET all == before \o bytes
      whole == IF all # <<>> /\ Last(all) = ByteOne THEN Front(all) ELSE all
  IN [chars   |-> Characters[whole],
      partial |-> SubSeq(all, Len(whole) + 1, Len(all)),
      bad     |-> ~ WellEncoded(whole)]

\* A slip: the decoder forgets what a chunk ended with.
DecodedAlone(c) == Decoded(<<>>, c)

DecodedChunk(c) == Decoded(partial, c)

Chunk == SubSeq(rest, 1, IF size < Len(rest) THEN size ELSE Len(rest))

\* A slip: the whole upload is read first.
WantsEverything(point) == Len(document)

\* A slip: the word is taken without a look at what follows it.
WordAlone(point) == IF point = "uri" /\ buffer # <<>> /\ Head(buffer) # " " THEN Len(Null) ELSE 1

\* How many characters the code reads before it decides: consume("null")
\* asks for the word, then for what follows it.
Wants(point) ==
  CASE point # "uri" \/ buffer = <<>> \/ (buffer # <<>> /\ Head(buffer) = " ") -> 1
    [] point = "uri" /\ IsPrefix(Null, buffer) -> Len(Null) + 1
    [] OTHER -> Len(Null)

Short == Reading /\ ~ eof /\ Len(buffer) < Wants(At)

\* _fill with another chunk.  Strings call it once and take the first
\* character, which is an IndexError when the chunk holds none.
Fill ==
  LET d == DecodedChunk(Chunk) IN
  /\ Short /\ rest # <<>> /\ ~ d.bad
  /\ rest' = SubSeq(rest, Len(Chunk) + 1, Len(rest))
  /\ partial' = d.partial
  /\ buffer' = buffer \o d.chars
  /\ verdict' = IF InString /\ buffer' = <<>> THEN "crashed" ELSE "reading"
  /\ UNCHANGED <<input, eof, stack, found>>

\* A slip: the end of the file is not noted.
EndMissed(b) == b

EndNoted(b) == TRUE

\* _fill at the end of the file, where the decoder must hold nothing.
FillAtEnd ==
  /\ Short /\ rest = <<>> /\ partial = <<>> /\ ~ InString
  /\ eof' = EndNoted(eof)
  /\ UNCHANGED <<input, rest, partial, buffer, stack, found, verdict>>

Refuse == verdict' = "refused" /\ UNCHANGED <<input, reader, stack, found>>

\* The chunk is no UTF-8, or the file ends within a character or a string.
Unreadable ==
  /\ Short
  /\ IF rest = <<>> THEN partial # <<>> \/ InString ELSE DecodedChunk(Chunk).bad
  /\ Refuse

\* Enough characters, or no more of them.
Sees == Reading /\ (eof \/ Len(buffer) >= Wants(At))
Char == IF buffer = <<>> THEN "" ELSE Head(buffer)

Drop(n) ==
  /\ buffer' = SubSeq(buffer, n + 1, Len(buffer))
  /\ UNCHANGED <<rest, partial, eof>>

\* The points whose code begins with skip_whitespace: a bare peek does not.
SkipsBlanks(point) == point \notin {"string", "escape", "scalar", "asset", "next"}

Blank ==
  /\ Sees /\ Char = " " /\ SkipsBlanks(At)
  /\ Drop(1)
  /\ UNCHANGED <<input, stack, found, verdict>>

---------------------------------------------------------------------------
(* What may stand where *)

Delimiter == {",", "]", "}", " ", ""}

\* read_scalar_token: a literal or a number.
IsScalar(t) == t # <<>> /\ (t = Null \/ \A i \in DOMAIN t : t[i] = "1")

\* consume("null") wants a delimiter behind the word.
IsNull == IsPrefix(Null, buffer) /\ (Len(buffer) > Len(Null) => buffer[Len(Null) + 1] \in Delimiter)

Ends(point) == point \in {"first", "after"} /\ Char = Closer

AssetThere(kind) == kind = "gltf" => asset

\* The character at this point is one the code goes on with.
Fits ==
  CASE At = "open"   -> Char = Opener
    [] At = "key"    -> Char = Quote
    [] At = "colon"  -> Char = ":"
    [] At = "asset"  -> Char = "{"
    [] At = "uri"    -> IsNull \/ Char = Quote
    [] At = "string" -> Char # ""
    [] At = "escape" -> Char \in {Quote, "\\"}
    [] At = "scalar" -> Char \in Delimiter => IsScalar(token)
    [] At = "after"  -> Char = "," \/ (Ends(At) /\ AssetThere(Kind))
    [] At = "first"  -> Ends(At) => AssetThere(Kind)
    [] At = "next"   -> Char # Closer
    [] At = "item"   -> TRUE
    [] At = "end"    -> Char = ""

Decides == Sees /\ ~ (Char = " " /\ SkipsBlanks(At))

Unfit == Decides /\ ~ Fits /\ Refuse

---------------------------------------------------------------------------
(* The grammar *)

Goto(point) == stack' = <<[Head(stack) EXCEPT !.point = point]>> \o Tail(stack)

\* A string is read, and then leads to then.
GotoString(then) == stack' = <<[Head(stack) EXCEPT !.point = "string", !.then = then]>> \o Tail(stack)

\* The frame waits for its value, and the call is made.
Push(kind) == stack' = <<Call(kind), [Head(stack) EXCEPT !.point = "after"]>> \o Tail(stack)

Item == IF Kind \in Object THEN "key" ELSE "item"

Open == At = "open" /\ Drop(1) /\ Goto("first") /\ UNCHANGED <<found, verdict>>

First == At = "first" /\ ~ Ends(At) /\ Goto(Item) /\ UNCHANGED <<reader, found, verdict>>

Comma == At = "after" /\ ~ Ends(At) /\ Drop(1) /\ Goto("next") /\ UNCHANGED <<found, verdict>>

Next1 == At = "next" /\ Goto(Item) /\ UNCHANGED <<reader, found, verdict>>

\* A slip: a resource without a uri has the one before it.
LastUri(kind) ==
  CASE kind # "resource" -> references
    [] uri = <<>> /\ references # <<>> -> Append(references, Last(references))
    [] OTHER -> references \o uri

\* What a resource adds when it ends.
Collected(kind) == IF kind = "resource" THEN references \o uri ELSE references

\* The call returns; ensure_eof follows the outermost one.
Close ==
  /\ Ends(At)
  /\ Drop(1)
  /\ IF Len(stack) = 1 THEN Goto("end") ELSE stack' = Tail(stack)
  /\ references' = Collected(Kind)
  /\ uri' = IF Kind = "resource" THEN <<>> ELSE uri
  /\ UNCHANGED <<token, asset, verdict>>

ReadKey ==
  /\ At = "key"
  /\ Drop(1) /\ GotoString("colon")
  /\ token' = <<>>
  /\ UNCHANGED <<uri, asset, references, verdict>>

IsAsset == Kind = "gltf" /\ token = <<"asset">>
IsResources == Kind = "gltf" /\ token = <<"buffers">>
IsUri == Kind = "resource" /\ token = <<"uri">>

\* How the value is read goes by the key, in a document and in its resources.
Colon ==
  /\ At = "colon"
  /\ Drop(1)
  /\ \/ IsAsset /\ Goto("asset")
     \/ IsResources /\ Push("resources")
     \/ IsUri /\ Goto("uri")
     \/ ~ IsAsset /\ ~ IsResources /\ ~ IsUri /\ Goto("item")
  /\ UNCHANGED <<found, verdict>>

Asset ==
  /\ At = "asset"
  /\ Push("object") /\ asset' = TRUE
  /\ UNCHANGED <<reader, token, uri, references, verdict>>

\* A resource array holds objects; any other value is skipped by its first
\* character.
ItemValue ==
  /\ At = "item"
  /\ \/ Kind = "resources" /\ Push("resource") /\ UNCHANGED reader
     \/ Kind # "resources" /\ Char = "{" /\ Push("object") /\ UNCHANGED reader
     \/ Kind # "resources" /\ Char = "[" /\ Push("array") /\ UNCHANGED reader
     \/ Kind # "resources" /\ Char = Quote /\ Drop(1) /\ GotoString("after")
     \/ Kind # "resources" /\ Char \notin {"{", "[", Quote} /\ Goto("scalar") /\ UNCHANGED reader
  /\ token' = <<>>
  /\ UNCHANGED <<uri, asset, references, verdict>>

Uri ==
  /\ At = "uri"
  /\ IF IsNull THEN Drop(Len(Null)) /\ Goto("after") ELSE Drop(1) /\ GotoString("uri")
  /\ token' = <<>>
  /\ UNCHANGED <<uri, asset, references, verdict>>

\* A character of a string; after a backslash, the one it stands for.
StringChar ==
  /\ \/ At = "string" /\ Char \notin {Quote, "\\"} /\ token' = Append(token, Char) /\ Goto("string")
     \/ At = "string" /\ Char = "\\" /\ Goto("escape") /\ UNCHANGED token
     \/ At = "escape" /\ token' = Append(token, Char) /\ Goto("string")
  /\ Drop(1)
  /\ UNCHANGED <<uri, asset, references, verdict>>

StringEnds ==
  /\ At = "string" /\ Char = Quote
  /\ Drop(1)
  /\ IF Head(stack).then = "uri" THEN Goto("after") /\ uri' = <<token>>
                                 ELSE Goto(Head(stack).then) /\ UNCHANGED uri
  /\ UNCHANGED <<token, asset, references, verdict>>

ScalarChar ==
  /\ At = "scalar" /\ Char \notin Delimiter
  /\ Drop(1) /\ token' = Append(token, Char)
  /\ UNCHANGED <<stack, uri, asset, references, verdict>>

\* In the code a scalar also ends at a chunk that holds no character; the
\* character that follows is then refused, as it is here.
ScalarEnds ==
  /\ At = "scalar" /\ Char \in Delimiter
  /\ Goto("after")
  /\ UNCHANGED <<reader, found, verdict>>

Accept ==
  /\ At = "end"
  /\ verdict' = "accepted"
  /\ UNCHANGED <<reader, stack, found>>

Grammar ==
  /\ Decides /\ Fits
  /\ UNCHANGED input
  /\ \/ Open \/ First \/ Comma \/ Next1 \/ Close \/ ReadKey \/ Colon \/ Asset \/ ItemValue \/ Uri
     \/ StringChar \/ StringEnds \/ ScalarChar \/ ScalarEnds \/ Accept

---------------------------------------------------------------------------

Next == Fill \/ FillAtEnd \/ Unreadable \/ Blank \/ Unfit \/ Grammar

\* The validator is a sequential function: it goes on while it can.
Spec == Init /\ [][Next]_vars /\ WF_vars(Next)

\* Nothing but units and characters is ever read, and nothing is left of the
\* file unaccounted for.
ReaderTypeOK ==
  /\ size \in ChunkSize
  /\ \A i \in DOMAIN rest : rest[i] = document[Len(document) - Len(rest) + i]
  /\ partial \in {<<>>, <<ByteOne>>}
  /\ Len(uri) <= 1 /\ {eof, asset} \subseteq BOOLEAN
  /\ \A i \in DOMAIN stack : stack[i] \in Frame
  /\ verdict \in {"reading", "accepted", "refused", "crashed"}

\* The reader lets go of what it has read: its buffer holds no more than a chunk
\* and the word it looks for, whatever the size of the upload
\* (content.py:600-658).  Keys, and the uris that are collected, are kept
\* elsewhere and are not bounded by this.
BufferIsBounded == ReaderTypeOK /\ Len(buffer) <= size + Len(Null)

=============================================================================
