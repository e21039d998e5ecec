---------------------------- MODULE MCTilePyramid ----------------------------
(* Small instances of TilePyramid: a square of 12 units, so that tiles of   *)
(* the deeper levels begin within a unit, and rasters at its edges.         *)
EXTENDS TilePyramid

Sides == [z \in 0..Cap |-> 2 ^ z]

At(px, py) == [x |-> px, y |-> py]
Ends(set) == {p \in set \X set : p[1] <= p[2]}

Rasters(west, east, north, south, nodata) ==
  LET columns == IF west <= east THEN west..(Lesser(east, World - 1)) ELSE (west..(World - 1)) \cup 0..east
      rows == (Greater(north, 0))..(Lesser(south, World - 1))
      Here(r) == [west |-> west, east |-> east, north |-> north, south |-> south,
                  width |-> r, height |-> r, nodata |-> nodata,
                  data |-> {At(a, b) : a \in columns, b \in rows}]
      Corners(r) == [Here(r) EXCEPT !.data = {p \in @ : p.x \in {west, east} /\ p.y \in {north, south}}]
  IN {Here(r) : r \in {1, 12}} \cup {Corners(r) : r \in {4, 12}}

Ordered ==
  UNION {Rasters(b[1], b[2], c[1], c[2], n) :
           b \in Ends({0, 1, 5, 7, 12}),
           c \in {<<-3, 14>>, <<-3, 0>>, <<3, 7>>, <<7, 7>>, <<11, 14>>},
           n \in BOOLEAN}

Crossing == UNION {Rasters(w, e, 3, 6, n) : w \in {10, 11}, e \in {0, 1}, n \in BOOLEAN}

Most == Ordered \cup Crossing
=============================================================================
