---------------------------- MODULE Coordinates ----------------------------
(* The summary of coordinates in GeoJSON (files/validation/content.py): of *)
(* arrays in arrays, however long, the validator keeps their depth, the    *)
(* first and the last position, and of each level of brackets the least    *)
(* number of elements and whether all of them are closed.                  *)
(*                                                                         *)
(* A value is a pair of a tag and what it holds: <<"array", values>>,      *)
(* <<"object", fields>> with fields <<key, value>>, <<"number", n>>,       *)
(* <<"string", s>>, <<"null", 0>>, and <<"bare", numbers>>: numbers with   *)
(* commas between them but no brackets around, which is no JSON value.     *)
(* JsonReader has the characters.                                          *)
(*                                                                         *)
(* A definition introduced as "a slip" is not part of the specification:   *)
(* it is a likely mistake in the code of the definition after it.          *)
EXTENDS Integers, Sequences, FiniteSetsExt

CONSTANTS
  Value,   \* the values in the uploads, those within other values too
  Length   \* value -> the length of its text

Tag(v) == v[1]
Of(v) == v[2]
Tags(vs) == {Tag(vs[i]) : i \in DOMAIN vs}

Content(v) ==
  CASE Tag(v) = "array"  -> Seq(Value)
    [] Tag(v) = "object" -> Seq(STRING \X Value)
    [] Tag(v) = "bare"   -> Seq(Int)
    [] Tag(v) = "number" -> Int
    [] Tag(v) = "string" -> STRING
    [] Tag(v) = "null"   -> {0}

\* The values a value is made of.
Inner(v) ==
  CASE Tag(v) = "array"  -> {Of(v)[i] : i \in DOMAIN Of(v)}
    [] Tag(v) = "object" -> {Of(v)[i][2] : i \in DOMAIN Of(v)}
    [] OTHER             -> {}

ASSUME ValueAssumption ==
  /\ Length \in [Value -> Nat]
  /\ \A v \in Value :
       /\ Tag(v) \in {"array", "object", "bare", "number", "string", "null"}
       /\ v = <<Tag(v), Of(v)>> /\ Of(v) \in Content(v)
       /\ \A x \in Inner(v) : Length[x] < Length[v]

Depth ==
  [t \in {"Point", "MultiPoint", "LineString", "MultiLineString", "Polygon", "MultiPolygon"} |->
     CASE t = "Point"                         -> 1
       [] t \in {"MultiPoint", "LineString"}    -> 2
       [] t \in {"MultiLineString", "Polygon"} -> 3
       [] t = "MultiPolygon"                  -> 4]

---------------------------------------------------------------------------
\* depth stands for shape; counts and closed are minimum_counts, all_closed.
Refused == [ok |-> FALSE, depth |-> 0, first |-> <<>>, last |-> <<>>, counts |-> <<>>, closed |-> <<>>]

Numbers(vs) == [i \in DOMAIN vs |-> Of(vs[i])]

\* Longitude and latitude; whatever follows them may be any number.
InRange(p) == Len(p) >= 2 /\ p[1] \in -180..180 /\ p[2] \in -90..90

Position(p) == IF InRange(p) THEN [Refused EXCEPT !.ok = TRUE, !.first = p, !.last = p] ELSE Refused

\* A slip: the first child is not counted.
CountFromZero(children) == Len(children) - 1

Count(children) == Len(children)

MinimumCount(children, l) == Min({children[i].counts[l] : i \in DOMAIN children})

\* A slip: the flags are joined with or.
OneClosed(children, l) == \E i \in DOMAIN children : children[i].closed[l]

AllClosed(children, l) == \A i \in DOMAIN children : children[i].closed[l]

SameShape(children) == \A i \in DOMAIN children : children[i].depth = children[1].depth

Nested(children) ==
  LET first == children[1].first
      last == children[Len(children)].last
      levels == 1..Len(children[1].counts)
  IN IF ~ (\A i \in DOMAIN children : children[i].ok) \/ ~ SameShape(children) THEN Refused
     ELSE [ok     |-> TRUE,
           depth  |-> children[1].depth + 1,
           first  |-> first,
           last   |-> last,
           counts |-> <<Count(children)>> \o [l \in levels |-> MinimumCount(children, l)],
           closed |-> <<first = last>> \o [l \in levels |-> AllClosed(children, l)]]

\* Numbers that stand together are one position, in brackets of their own or
\* not; no array holds numbers and arrays.  summary has the values inside.
SummaryOf(v, summary) ==
  CASE Tag(v) = "bare" -> Position(Of(v))
    [] Tag(v) = "array" /\ Tags(Of(v)) = {"number"} -> Nested(<<Position(Numbers(Of(v)))>>)
    [] Tag(v) = "array" /\ Tags(Of(v)) = {"array"} -> Nested([i \in DOMAIN Of(v) |-> summary[Of(v)[i]]])
    [] OTHER -> Refused

Summary[v \in Value] == SummaryOf(v, [x \in Inner(v) |-> Summary[x]])

\* _validate_coordinate_summary: lines and rings are one level above the
\* positions' arrays.
Suits(s, type) ==
  LET level == Depth[type] - 1 IN
  /\ Len(s.counts) = Depth[type]
  /\ type \in {"LineString", "MultiLineString"} => s.counts[level] >= 2
  /\ type \in {"Polygon", "MultiPolygon"} => s.counts[level] >= 4 /\ s.closed[level]

---------------------------------------------------------------------------
(* What the coordinates of a type are, said without a summary *)

Elements(v) == {Of(v)[i] : i \in DOMAIN Of(v)}

IsPosition(v) ==
  /\ Tag(v) = "array" /\ Len(Of(v)) >= 2 /\ \A x \in Elements(v) : Tag(x) = "number"
  /\ Of(Of(v)[1]) \in -180..180 /\ Of(Of(v)[2]) \in -90..90

ListOf(v, least, Good(_)) == Tag(v) = "array" /\ Len(Of(v)) >= least /\ \A x \in Elements(v) : Good(x)

IsLine(v) == ListOf(v, 2, IsPosition)
IsRing(v) == ListOf(v, 4, IsPosition) /\ Of(v)[1] = Of(v)[Len(Of(v))]
IsPolygon(v) == ListOf(v, 1, IsRing)

IsCoordinates(type, v) ==
  CASE type = "Point"           -> IsPosition(v)
    [] type = "MultiPoint"      -> ListOf(v, 1, IsPosition)
    [] type = "LineString"      -> IsLine(v)
    [] type = "MultiLineString" -> ListOf(v, 1, IsLine)
    [] type = "Polygon"         -> IsPolygon(v)
    [] type = "MultiPolygon"    -> ListOf(v, 1, IsPolygon)

=============================================================================
