---------------------------- MODULE TilePyramid ----------------------------
(* The tiles of a raster and the requests for them: _generate_xyz_tile_    *)
(* pyramid in processing/services/raster.py cuts a raster into tiles, level *)
(* by level, and get_map_tile_redirect_for_user in maps/services.py answers *)
(* for one tile.                                                           *)
(*                                                                         *)
(* Positions are on the square of the Mercator projection, World units on  *)
(* a side, x from the west and y from the north; bounds in degrees stand   *)
(* for the positions they are projected to.  Pixels are points.  Failures  *)
(* of transfers and the publication are in Execution.                      *)
(*                                                                         *)
(* A definition introduced as "a slip" is not part of the specification:   *)
(* it is a likely mistake in the code of the definition after it.          *)
(***************************************************************************)
EXTENDS Integers, FiniteSets

CONSTANTS
  World,     \* the side of the Mercator square
  TileSize,  \* TILE_SIZE_PX
  Cap,       \* ASSESSMENT_MAX_GENERATED_TILE_ZOOM
  Side,      \* zoom -> tiles on a side: 2**z
  Raster     \* the rasters that are tried

\* The bounds run from west to east: eastward across the antimeridian when
\* west is the greater.
Crosses(r) == r.west > r.east

Spans(r, x) == IF Crosses(r) THEN x >= r.west \/ x <= r.east ELSE x >= r.west /\ x <= r.east

Point == [x : 0..(World - 1), y : 0..(World - 1)]

ASSUME PyramidAssumption ==
  /\ World \in Nat \ {0} /\ TileSize \in Nat \ {0} /\ Cap \in Nat
  /\ Side \in [0..Cap -> Nat \ {0}] /\ Side[0] = 1
  /\ \A z \in 0..(Cap - 1) : Side[z + 1] = 2 * Side[z]
  /\ \A r \in Raster :
       /\ r.west \in 0..World /\ r.east \in 0..World
       /\ r.north \in Int /\ r.south \in Int /\ r.north <= r.south
       /\ r.width \in Nat \ {0} /\ r.height \in Nat \ {0}
       /\ r.nodata \in BOOLEAN
       /\ r.data \subseteq Point
       /\ \A p \in r.data : Spans(r, p.x) /\ p.y >= r.north /\ p.y <= r.south

VARIABLES
  raster,   \* the file
  phase,    \* "idle", "level", "tile" or "published"
  maxZoom,
  ranges,   \* tile_matrix_bounds
  zoom, x, y,
  tiles,    \* the objects stored
  answer    \* to the last request

vars == <<raster, phase, maxZoom, ranges, zoom, x, y, tiles, answer>>

NoAnswer == [kind |-> "none"]

---------------------------------------------------------------------------
(* Arithmetic *)

Lesser(a, b) == IF a < b THEN a ELSE b
Greater(a, b) == IF a < b THEN b ELSE a

Clamp(a, low, high) == Greater(low, Lesser(high, a))

\* A slip: to the nearest.
Nearest(c, z) == Clamp((2 * c * Side[z] + World) \div (2 * World), 0, Side[z] - 1)

\* _lonlat_to_tile, of one coordinate
TileOf(c, z) == Clamp((c * Side[z]) \div World, 0, Side[z] - 1)

\* _tile_range_for_bounds
RangeOf(r, z) ==
  LET west == TileOf(Clamp(r.west, 0, World), z)
      east == TileOf(Clamp(r.east, 0, World), z)
      north == TileOf(Clamp(r.north, 0, World), z)
      south == TileOf(Clamp(r.south, 0, World), z)
  IN [xMin |-> Lesser(west, east), xMax |-> Greater(west, east),
      yMin |-> Lesser(north, south), yMax |-> Greater(north, south)]

\* The bounds on the Mercator plane: all of its width for a raster that
\* crosses the antimeridian.
Width(r) == IF Crosses(r) THEN World ELSE Greater(r.east - r.west, 1)
Height(r) == Greater(r.south - r.north, 1)

\* A tile of level z has pixels no larger than the raster's.
Resolves(r, z) ==
  \/ World * r.width <= TileSize * Side[z] * Width(r)
  \/ World * r.height <= TileSize * Side[z] * Height(r)

\* _derive_max_zoom: as many levels as are too coarse, up to the cap.
DerivedMaxZoom(r) == Cardinality({z \in 0..(Cap - 1) : ~ Resolves(r, z)})

\* _mercator_tile_bounds
LiesIn(p, z, tx, ty) == (p.x * Side[z]) \div World = tx /\ (p.y * Side[z]) \div World = ty

\* A tile without a pixel is masked, if the raster says what is no data.
Masked(r, z, tx, ty) == r.nodata /\ ~ \E p \in r.data : LiesIn(p, z, tx, ty)

---------------------------------------------------------------------------

Init ==
  /\ raster \in Raster
  /\ phase = "idle" /\ maxZoom = 0 /\ ranges = [z \in {} |-> 0]
  /\ zoom = 0 /\ x = 0 /\ y = 0
  /\ tiles = {} /\ answer = NoAnswer

Open ==
  /\ phase = "idle"
  /\ phase' = "level" /\ maxZoom' = DerivedMaxZoom(raster)
  /\ UNCHANGED <<raster, ranges, zoom, x, y, tiles, answer>>

StartLevel ==
  /\ phase = "level" /\ zoom <= maxZoom
  /\ LET range == RangeOf(raster, zoom) IN
     /\ ranges' = [z \in DOMAIN ranges \cup {zoom} |-> IF z = zoom THEN range ELSE ranges[z]]
     /\ x' = range.xMin /\ y' = range.yMin
  /\ phase' = "tile"
  /\ UNCHANGED <<raster, maxZoom, zoom, tiles, answer>>

\* A slip: range() is given the last column, not the one after.
MoreButLast(at, last) == at + 1 < last

More(at, last) == at < last

\* One tile, and the next of the two loops.
RenderTile ==
  /\ phase = "tile"
  /\ tiles' = IF Masked(raster, zoom, x, y) THEN tiles ELSE tiles \cup {<<zoom, x, y>>}
  /\ \/ /\ More(y, ranges[zoom].yMax)
        /\ y' = y + 1
        /\ UNCHANGED <<x, zoom, phase>>
     \/ /\ ~ More(y, ranges[zoom].yMax) /\ More(x, ranges[zoom].xMax)
        /\ x' = x + 1 /\ y' = ranges[zoom].yMin
        /\ UNCHANGED <<zoom, phase>>
     \/ /\ ~ More(y, ranges[zoom].yMax) /\ ~ More(x, ranges[zoom].xMax)
        /\ zoom' = zoom + 1 /\ phase' = "level"
        /\ UNCHANGED <<x, y>>
  /\ UNCHANGED <<raster, maxZoom, ranges, answer>>

\* The metadata are stored after the tiles, and the file is published.
Publish ==
  /\ phase = "level" /\ zoom > maxZoom
  /\ phase' = "published"
  /\ UNCHANGED <<raster, maxZoom, ranges, zoom, x, y, tiles, answer>>

\* A slip: the last column and row are taken for the ends of a range().
IsBefore(range, tx, ty) == tx >= range.xMin /\ tx < range.xMax /\ ty >= range.yMin /\ ty < range.yMax

IsInside(range, tx, ty) == tx >= range.xMin /\ tx <= range.xMax /\ ty >= range.yMin /\ ty <= range.yMax

\* get_map_tile_redirect_for_user, _validate_tile_request: the object is not
\* looked for.  One request is answered, as none changes the answer to another.
RequestTile(z, tx, ty) ==
  /\ phase = "published" /\ answer = NoAnswer
  /\ answer' =
       [kind |-> IF z <= maxZoom /\ z \in DOMAIN ranges /\ IsInside(ranges[z], tx, ty) THEN "redirect" ELSE "not_found",
        tile |-> <<z, tx, ty>>]
  /\ UNCHANGED <<raster, phase, maxZoom, ranges, zoom, x, y, tiles>>

\* Requests are bounded by one level and one column more than there can be.
Next ==
  \/ Open \/ StartLevel \/ RenderTile \/ Publish
  \/ \E z \in 0..(Cap + 1), tx, ty \in 0..Side[Cap] : RequestTile(z, tx, ty)

Spec == Init /\ [][Next]_vars

---------------------------------------------------------------------------
(* Properties *)

PyramidTypeOK ==
  /\ raster \in Raster
  /\ phase \in {"idle", "level", "tile", "published"}
  /\ maxZoom \in 0..Cap /\ zoom \in 0..(Cap + 1)
  /\ DOMAIN ranges \subseteq 0..Cap
  /\ x \in Nat /\ y \in Nat
  /\ \A t \in tiles : t[1] \in 0..Cap /\ t[2] \in 0..(Side[t[1]] - 1) /\ t[3] \in 0..(Side[t[1]] - 1)

IsTiled(p, z) == \E t \in tiles : t[1] = z /\ LiesIn(p, z, t[2], t[3])

\* Every pixel of a raster that does not cross the antimeridian is on a tile
\* of every level that is published (raster.py:107-168, 186-201).
DataIsTiled ==
  phase = "published" /\ ~ Crosses(raster) =>
    \A p \in raster.data, z \in 0..maxZoom : IsTiled(p, z)

\* The same of any raster (README.md:75).  TLC refutes it.
AllDataIsTiled ==
  phase = "published" => \A p \in raster.data, z \in 0..maxZoom : IsTiled(p, z)

\* Whoever sees a tile and moves out to the level above sees one there.
PyramidHasNoHoles ==
  phase = "published" =>
    \A t \in tiles : t[1] > 0 => <<t[1] - 1, t[2] \div 2, t[3] \div 2>> \in tiles

\* A tile that is stored is found, and nothing outside the square or below
\* the last level is (maps/services.py:209-224).
TilesAreServed ==
  /\ answer.kind = "not_found" => answer.tile \notin tiles
  /\ answer.kind = "redirect" =>
       LET z == answer.tile[1] IN z <= maxZoom /\ answer.tile[2] < Side[z] /\ answer.tile[3] < Side[z]

\* A redirect leads to a tile (docs/DEVELOPMENT_DECISIONS.md:249).  TLC refutes it
\* for masked tiles.
RedirectsReachTiles == answer.kind = "redirect" => answer.tile \in tiles

=============================================================================
