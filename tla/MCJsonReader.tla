---------------------------- MODULE MCJsonReader ----------------------------
(* glTF documents for JsonReader, and the grammar they are compared with.  *)
(* The grammar is stated without the code: for a position and a kind of    *)
(* value, where a value of that kind that begins there ends.               *)
EXTENDS JsonText, TLC

CONSTANTS
  Bases,      \* the documents that are edited
  Edits       \* the units that are inserted and written over others

---------------------------------------------------------------------------
(* The documents: one edit away from a base, or cut off *)

S(u) == <<Quote, u, Quote>>
Member(k, v) == S(k) \o <<":">> \o v
Braces(s) == <<"{">> \o s \o <<"}">>
Brackets(s) == <<"[">> \o s \o <<"]">>

Empty == Braces(Member("asset", Braces(<<>>)))
Resource == Braces(Member("asset", Braces(<<>>)) \o <<",">>
                   \o Member("buffers", Brackets(Braces(Member("uri", S("name")))
                                                 \o <<",">> \o Braces(Member("uri", Null)) \o <<" ">>)))
Literals == Braces(Member("name", Brackets(<<"1", " ", ",">> \o <<Quote, ByteOne, ByteTwo, Quote>>))
                   \o <<",">> \o Member("asset", Braces(<<>>)))
Letter == Braces(Member("asset", Braces(Member("name", <<Quote, "\\", Quote, ByteOne, ByteTwo, Quote>>))))

\* The word null of Resource ends with a chunk of two and of three.
BaseDocuments == {Empty, Resource, Literals, Letter}

AllEdits == Structure \cup {Quote, "\\", " ", "1", "nu", ByteOne, "uri"}

Inserted(d, i, u) == SubSeq(d, 1, i - 1) \o <<u>> \o SubSeq(d, i, Len(d))

Edited(d) ==
  {d}
  \cup {Inserted(d, i, u) : i \in 1..(Len(d) + 1), u \in Edits}
  \cup {[d EXCEPT ![i] = u] : i \in 1..Len(d), u \in Edits}
  \cup {RemoveAt(d, i) : i \in 1..Len(d)}
  \cup {SubSeq(d, 1, i) : i \in 0..Len(d)}

Documents == UNION {Edited(d) : d \in Bases}

---------------------------------------------------------------------------
(* The grammar *)

Is(d, i, c) == i <= Len(d) /\ d[i] = c

\* The first position from i that is no blank.
NonBlank(d, i) ==
  CHOOSE j \in i..(Len(d) + 1) : ~ Is(d, j, " ") /\ \A k \in i..(j - 1) : d[k] = " "

\* An odd number of backslashes stands before k, in a string that opens at i.
Escaped(d, i, k) ==
  Cardinality({m \in (i + 1)..(k - 1) : \A x \in m..(k - 1) : d[x] = "\\"}) % 2 = 1

\* Where a string that opens at i closes.
StringCloses(d, i) ==
  {j \in (i + 1)..Len(d) :
     /\ d[i] = Quote /\ d[j] = Quote /\ ~ Escaped(d, i, j)
     /\ \A k \in (i + 1)..(j - 1) : IF Escaped(d, i, k) THEN d[k] \in {Quote, "\\"} ELSE d[k] # Quote}

\* The string between the quotes at i and j, unescaped.
Content(d, i, j) ==
  LET Stands(k) == d[k] # ByteTwo /\ (d[k] = "\\" => Escaped(d, i, k))
      at == SelectSeq([m \in 1..(j - i - 1) |-> i + m], Stands)
  IN [m \in DOMAIN at |-> IF d[at[m]] = ByteOne THEN Character ELSE d[at[m]]]

Scalars(d, i) ==
  {j \in (i + 1)..(Len(d) + 1) : SubSeq(d, i, j - 1) = Null \/ \A k \in i..(j - 1) : d[k] = "1"}

\* What kind of value a member of an object, or an element of an array, is.
MemberKind(kind, key) ==
  CASE kind = "gltf" /\ key = <<"asset">>     -> "object"
    [] kind = "gltf" /\ key = <<"buffers">>   -> "resources"
    [] kind = "resource" /\ key = <<"uri">>   -> "uri"
    [] kind = "resources"                     -> "resource"
    [] OTHER                                  -> "any"

Parsed(at, uris, keys) == [at |-> at, uris |-> uris, keys |-> keys]

\* A member's or element's value added to what is before it.
Joined(kind, before, r, key) ==
  Parsed(r.at,
         IF kind = "resource" /\ r.uris # <<>> THEN r.uris ELSE before.uris \o r.uris,
         before.keys \cup {key})

RECURSIVE ValueAt(_, _, _), ItemsAt(_, _, _, _)

\* The ends of a value of the kind that begins at i, and what it holds.
ValueAt(d, kind, i) ==
  LET Opens(o) == Is(d, i, o)
      Within(k, o, c) ==
        LET j == NonBlank(d, i + 1) IN
        IF ~ Is(d, i, o) THEN {}
        ELSE IF Is(d, j, c) THEN {Parsed(j + 1, <<>>, {})}
        ELSE ItemsAt(d, k, j, Parsed(i, <<>>, {}))
  IN CASE i > Len(d) -> {}
       [] kind \in Object /\ i <= Len(d) -> Within(kind, "{", "}")
       [] kind \in Array /\ i <= Len(d) -> Within(kind, "[", "]")
       [] kind = "uri" /\ i <= Len(d) ->
            {Parsed(j + 1, <<Content(d, i, j)>>, {}) : j \in StringCloses(d, i)}
            \cup {Parsed(j, <<>>, {}) : j \in {j \in Scalars(d, i) : d[i] = Null[1]}}
       [] kind = "any" /\ i <= Len(d) ->
            {Parsed(j, <<>>, {}) : j \in Scalars(d, i) \cup {k + 1 : k \in StringCloses(d, i)}}
            \cup ValueAt(d, "object", i) \cup ValueAt(d, "array", i)

\* The members or elements from i to the end of the object or array.
ItemsAt(d, kind, i, before) ==
  LET Keyed == {<<Content(d, i, j), NonBlank(d, j + 1)>> : j \in StringCloses(d, i)}
      Here == IF kind \in Array
              THEN {Joined(kind, before, r, <<>>) : r \in ValueAt(d, MemberKind(kind, <<>>), i)}
              ELSE UNION {{Joined(kind, before, r, p[1]) :
                             r \in ValueAt(d, MemberKind(kind, p[1]), NonBlank(d, p[2] + 1))} :
                          p \in {q \in Keyed : Is(d, q[2], ":")}}
      Closing == IF kind \in Array THEN "]" ELSE "}"
  IN IF i > Len(d) THEN {}
     ELSE UNION {LET j == NonBlank(d, r.at) IN
                 CASE Is(d, j, Closing) -> {[r EXCEPT !.at = j + 1]}
                   [] Is(d, j, ",")     -> ItemsAt(d, kind, NonBlank(d, j + 1), r)
                   [] OTHER             -> {} : r \in Here}

\* The ways to read a glTF document: there is one, or none.
Parses(d) ==
  {r \in IF WellEncoded(d) THEN ValueAt(d, "gltf", NonBlank(d, 1)) ELSE {} :
     NonBlank(d, r.at) = Len(d) + 1 /\ <<"asset">> \in r.keys}

\* There is a blank between the colon after "asset" and the value.
AssetApart(d) ==
  \E i, k \in DOMAIN d :
    /\ k < i /\ d[k] = "asset" /\ d[i] = ":" /\ Is(d, i + 1, " ")
    /\ \A x \in (k + 1)..(i - 1) : d[x] \in {Quote, " "}

---------------------------------------------------------------------------
(* Properties *)

\* A document that is accepted is JSON in UTF-8 and has the members a glTF
\* document must have, however its chunks fall (content.py:791-842).
AcceptedIsValid == verdict = "accepted" => Parses(document) # {}

\* A valid document is accepted, however its chunks fall, unless a blank
\* stands before the asset's value (content.py:174-181).
CompactIsAccepted ==
  verdict \in {"refused", "crashed"} => Parses(document) = {} \/ AssetApart(document)

\* The uris collected are those of the resources, in their order and
\* unescaped (content.py:845-852): a file that is missing from them is not
\* asked for when the bundle is uploaded.
ReferencesAreComplete ==
  verdict = "accepted" => \A r \in Parses(document) : references = r.uris

\* A document that is accepted was read as the grammar reads it
\* (content.py:791-852).
AcceptedIsRead == AcceptedIsValid /\ ReferencesAreComplete

\* Every read comes to an end, for documents cut off anywhere too
\* (content.py:644-658, the loops around _fill).
ReadEnds == <>(verdict # "reading")

\* A glTF document with its asset is a glTF document (content.py:183-188).  TLC
\* refutes it: peek does not skip blanks.
ValidIsAccepted == verdict = "refused" => Parses(document) = {}

\* What is wrong with an upload is answered as malformed content
\* (content.py:174-181).  TLC refutes it: the buffer may be empty after _fill.
NeverCrashes == verdict # "crashed"

=============================================================================
