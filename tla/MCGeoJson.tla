----------------------------- MODULE MCGeoJson -----------------------------
(* GeoJSON uploads for GeoJson: coordinates, geometries, features, and     *)
(* what is almost one of them.                                             *)
EXTENDS GeoJson

Array(vs) == <<"array", vs>>
Object(fields) == <<"object", fields>>
String(s) == <<"string", s>>
Null == <<"null", 0>>
Pos(p) == Array([i \in DOMAIN p |-> <<"number", p[i]>>])

\* Sequences of length m to n.
Between(m, n, set) == UNION {[1..k -> set] : k \in m..n}

---------------------------------------------------------------------------
(* Coordinates *)

A == Pos(<<0, 0>>)
B == Pos(<<1, 0>>)
High == Pos(<<0, 0, 500>>)
Odd == {Pos(<<0>>), Pos(<<0, 91>>), Pos(<<-181, 0>>), Array(<<>>), <<"number", 1>>, Null,
        Array(<<A, <<"number", 1>>>>)}

Points == {A, Pos(<<180, -90>>), High} \cup Odd
Lines == {Array(s) : s \in Between(0, 5, {A, B})}
         \cup {Array(<<A, p>>) : p \in Odd \cup {High, Array(<<A>>)}}
         \cup {Array(<<A, B, B, High>>)}
SomeLines == {Array(s) : s \in Between(1, 2, {A, B})} \cup {Array(<<A, B, B, p>>) : p \in {A, B}}
Surfaces == {Array(s) : s \in Between(1, 2, SomeLines \cup {A})}
SomeSurfaces == {Array(s) : s \in Between(1, 2, {Array(<<A, B, B, A>>), Array(<<A, B>>), Array(<<A, B, B, B>>)})}
MultiSurfaces == {Array(s) : s \in Between(1, 2, SomeSurfaces \cup {Array(<<A, B>>)})}
Bare == {<<"bare", p>> : p \in {<<1>>, <<1, 2>>, <<1, 91>>}}

Geometry(t, c) == Object(<< <<"type", String(t)>>, <<"coordinates", c>> >>)
Geometries == {Geometry(t, c) : t \in DOMAIN Depth,
                                c \in Points \cup Lines \cup Surfaces \cup MultiSurfaces \cup Bare}

---------------------------------------------------------------------------
(* Objects: up to three of these fields, in any order *)

SomeFeature == Object(<< <<"type", String("Feature")>>, <<"geometry", Null>> >>)
SomePoint == Geometry("Point", A)
BadLine == Geometry("LineString", Array(<<A>>))

Fields ==
  {<<"type", String(t)>> : t \in {"Feature", "FeatureCollection", "GeometryCollection", "Point", "Circle"}}
  \cup {<<"type", Null>>}
  \cup {<<"geometry", v>> : v \in {Null, SomePoint, SomeFeature, BadLine}}
  \cup {<<"features", Array(vs)>> : vs \in {<<>>, <<SomeFeature>>, <<SomeFeature, SomePoint>>, <<Null>>}}
  \cup {<<"geometries", Array(vs)>> : vs \in {<<>>, <<SomePoint>>, <<SomePoint, SomeFeature>>, <<BadLine>>}}
  \cup {<<"coordinates", v>> : v \in {A, Array(<<A, B>>), <<"bare", <<1, 2>>>>}}
  \cup {<<"properties", v>> : v \in {Null, <<"bare", <<1, 2>>>>}}

Objects == {Object(s) : s \in Between(0, 3, Fields)}

\* The same a level deeper.
Wrapped ==
  {Object(<< <<"type", String("FeatureCollection")>>, <<"features", Array(<<SomeFeature, Object(s)>>)>> >>) :
     s \in Between(1, 2, Fields)}
  \cup {Object(<< <<"geometry", Object(s)>>, <<"type", String("Feature")>> >>) : s \in Between(1, 2, Fields)}

AllDocuments == Geometries \cup Objects \cup Wrapped

\* What is within these values, and how long their texts are.
RECURSIVE SubValues(_)
SubValues(vs) == IF vs = {} THEN {} ELSE vs \cup SubValues(UNION {Inner(v) : v \in vs})
SubValuesOfAll == SubValues(AllDocuments)

RECURSIVE Size(_)
Size(v) == 1 + FoldSet(LAMBDA x, n : Size(x) + n, 0, Inner(v))
SizesOfAll == [v \in SubValuesOfAll |-> Size(v)]

\* TLC computes a definition once, but not what a cfg puts for a constant.
AllValues == SubValuesOfAll
Sizes == SizesOfAll

---------------------------------------------------------------------------
(* Properties that TLC refutes *)

\* The geometry of a feature is a geometry, and a collection of geometries
\* holds nothing else (content.py:491).  TLC refutes it: the check never fails.
GeometriesAreGeometries ==
  answer = "accepted" =>
    \A v \in Parts[upload] :
      /\ TypeIs(v, {"Feature"}) => \A x \in Values(v, "geometry") : Tag(x) = "null" \/ TypeIs(x, GeometryTypes)

\* What is accepted is JSON (tests/test_validation.py:368).  TLC refutes it for
\* coordinates without brackets.
AcceptedIsJson == answer = "accepted" => \A i \in DOMAIN Of(upload) : Tag(Of(upload)[i][2]) # "bare"

=============================================================================
