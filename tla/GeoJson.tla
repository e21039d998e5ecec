------------------------------ MODULE GeoJson ------------------------------
(* The validator of GeoJSON uploads (files/validation/content.py): objects *)
(* are read field by field, and of the coordinates only the summary of     *)
(* module Coordinates is kept.                                             *)
(*                                                                         *)
(* The names of the state machine are long because another one stands      *)
(* beside it in the module of the proofs.                                  *)
EXTENDS Coordinates

VARIABLES upload, answer
geoJsonVars == <<upload, answer>>

Types == DOMAIN Depth \cup {"FeatureCollection", "Feature", "GeometryCollection"}

---------------------------------------------------------------------------
(* Objects *)

Keys(fields) == {fields[i][1] : i \in DOMAIN fields}
Has(fields, key) == key \in Keys(fields)
Get(fields, key) == fields[CHOOSE i \in DOMAIN fields : fields[i][1] = key][2]

\* What the fields must hold for the type they give.
Complete(fields, type) ==
  CASE type = "FeatureCollection"  -> Has(fields, "features")
    [] type = "Feature"            -> Has(fields, "geometry")
    [] type = "GeometryCollection" -> Has(fields, "geometries")
    [] OTHER -> Has(fields, "coordinates") /\ Suits(Summary[Get(fields, "coordinates")], type)

IsExpected(type, expected) == type \in expected

\* _parse_object_array; types has what the objects leave in last_object_type.
ObjectArray(v, expected, types) ==
  Tag(v) = "array" /\ \A i \in DOMAIN Of(v) : IsExpected(types[Of(v)[i]], expected)

\* The value of a field is read by its key; other values are skipped.  The
\* comma after bare numbers is taken for theirs, so nothing may follow them.
ReadsField(fields, i, types) ==
  LET key == fields[i][1]
      v == fields[i][2]
  IN CASE key = "type"        -> Tag(v) = "string"
       [] key = "coordinates" -> Summary[v].ok /\ (Tag(v) = "bare" => i = Len(fields))
       [] key = "features"    -> ObjectArray(v, {"Feature"}, types)
       [] key = "geometries"  -> ObjectArray(v, Types, types)
       [] key = "geometry"    -> Tag(v) = "null" \/ types[v] # ""
       [] OTHER               -> Tag(v) # "bare"

KeysDiffer(fields) == \A i, j \in DOMAIN fields : fields[i][1] = fields[j][1] => i = j

TypeOf(v, types) ==
  LET fields == Of(v)
      type == Of(Get(fields, "type"))
  IN IF /\ Tag(v) = "object" /\ KeysDiffer(fields)
        /\ \A i \in DOMAIN fields : ReadsField(fields, i, types)
        /\ Has(fields, "type") /\ type \in Types /\ Complete(fields, type)
     THEN type
     ELSE ""

\* The values of the fields and the elements of arrays there.
Within(v) == Inner(v) \cup UNION {Inner(x) : x \in Inner(v)}

\* _parse_geojson_object returns, and leaves last_object_type; "" if refused.
ObjectType[v \in Value] == TypeOf(v, [x \in Within(v) |-> ObjectType[x]])

---------------------------------------------------------------------------

GeoJsonInit == upload \in {v \in Value : Tag(v) = "object"} /\ answer = "reading"

Validate ==
  /\ answer = "reading"
  /\ answer' = IF ObjectType[upload] = "" THEN "refused" ELSE "accepted"
  /\ UNCHANGED upload

GeoJsonNext == Validate
GeoJsonSpec == GeoJsonInit /\ [][GeoJsonNext]_geoJsonVars

---------------------------------------------------------------------------
(* What GeoJSON is, by the type of the object *)

\* The values of the fields with this key.
Values(v, key) == {Of(v)[i][2] : i \in {j \in DOMAIN Of(v) : Of(v)[j][1] = key}}

TypeIs(v, types) ==
  /\ Tag(v) = "object" /\ Values(v, "type") # {}
  /\ \A x \in Values(v, "type") : Tag(x) = "string" /\ Of(x) \in types

GeometryTypes == DOMAIN Depth \cup {"GeometryCollection"}

\* The field that belongs to the type.
Defining(v) ==
  CASE TypeIs(v, {"Feature"})            -> "geometry"
    [] TypeIs(v, {"FeatureCollection"})  -> "features"
    [] TypeIs(v, {"GeometryCollection"}) -> "geometries"
    [] OTHER                             -> "coordinates"

Listed(x) == IF Tag(x) = "array" THEN Elements(x) ELSE {x}

\* The objects in that field.
Members(v) ==
  IF Tag(v) # "object" \/ Defining(v) = "coordinates" THEN {}
  ELSE {y \in UNION {Listed(x) : x \in Values(v, Defining(v))} : Tag(y) = "object"}

\* The objects that v consists of.
Parts[v \in Value] == {v} \cup UNION {Parts[y] : y \in Members(v)}

\* No field is one that belongs to another type, or no JSON.
NothingElse(v) ==
  \A i \in DOMAIN Of(v) :
    Of(v)[i][1] \in {"type", Defining(v), "properties"} /\ Tag(Of(v)[i][2]) # "bare"

KeyOnce(v) == \A i, j \in DOMAIN Of(v) : i # j => Of(v)[i][1] # Of(v)[j][1]

\* What the defining field of v may hold.
MayHold(v, x) ==
  CASE TypeIs(v, {"Feature"})            -> Tag(x) = "null" \/ TypeIs(x, GeometryTypes)
    [] TypeIs(v, {"FeatureCollection"})  -> Tag(x) = "array" /\ \A y \in Elements(x) : TypeIs(y, {"Feature"})
    [] TypeIs(v, {"GeometryCollection"}) -> Tag(x) = "array" /\ \A y \in Elements(x) : TypeIs(y, GeometryTypes)
    [] OTHER -> \A t \in DOMAIN Depth : TypeIs(v, {t}) => IsCoordinates(t, x)

IsObject(v) ==
  /\ TypeIs(v, Types) /\ KeyOnce(v) /\ NothingElse(v)
  /\ \E x \in Values(v, Defining(v)) : MayHold(v, x)

IsGeoJson(v) == \A p \in Parts[v] : IsObject(p)

---------------------------------------------------------------------------
(* Properties *)

\* The coordinates of every geometry in an accepted upload are positions
\* on the earth in as many brackets as the type has, lines have two and rings
\* four positions and rings are closed: the summary has kept enough
\* (content.py:523-584).
GeometriesAreSound ==
  answer = "accepted" => \A v \in Parts[upload], t \in DOMAIN Depth :
                TypeIs(v, {t}) => \A c \in Values(v, "coordinates") : IsCoordinates(t, c)

\* What the type promises is there, and a collection of features holds
\* features: the type left by the last object is that of the element
\* (content.py:500-516).
FeaturesAreFeatures ==
  answer = "accepted" =>
    \A v \in Parts[upload] :
      /\ TypeIs(v, Types) /\ Values(v, Defining(v)) # {}
      /\ TypeIs(v, {"FeatureCollection"}) =>
           \A x \in Values(v, "features") : \A y \in Elements(x) : TypeIs(y, {"Feature"})

\* No part of an accepted upload has two fields with one key, which two
\* readers could read differently (content.py:463-464).
KeysAreUnique == answer = "accepted" => \A v \in Parts[upload] : KeyOnce(v)

\* The summary, the last object's type and the list of keys were enough to tell
\* an accepted upload from an unsound one (content.py:450-584).
AcceptedIsSound == GeometriesAreSound /\ FeaturesAreFeatures /\ KeysAreUnique

\* GeoJSON is accepted (content.py:450-497).
GeoJsonIsAccepted == IsGeoJson(upload) => answer # "refused"

=============================================================================
