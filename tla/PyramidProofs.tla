--------------------------- MODULE PyramidProofs ---------------------------
(* Proofs about TilePyramid, for a square, tiles and rasters of any size.  *)
EXTENDS TilePyramid, FiniteSetTheorems, TLAPS

\* The levels before the current one have their ranges, and it too once its
\* tiles are made.
LevelsAreRanged ==
  /\ phase = "idle" => zoom = 0 /\ tiles = {}
  /\ phase # "idle" => zoom <= maxZoom + 1
  /\ phase = "tile" => zoom <= maxZoom
  /\ phase = "published" => zoom = maxZoom + 1
  /\ DOMAIN ranges = IF phase = "tile" THEN 0..zoom ELSE 0..(zoom - 1)
  /\ \A z \in DOMAIN ranges : ranges[z] = RangeOf(raster, z)

CursorIsInside == phase = "tile" => IsInside(ranges[zoom], x, y)

\* The loops have passed this tile.
Visited(z, tx, ty) ==
  \/ z < zoom
  \/ phase = "tile" /\ z = zoom /\ (tx < x \/ (tx = x /\ ty < y))

VisitedAreStored ==
  \A z \in DOMAIN ranges, tx, ty \in Nat :
    IsInside(ranges[z], tx, ty) /\ Visited(z, tx, ty) /\ ~ Masked(raster, z, tx, ty) => <<z, tx, ty>> \in tiles

TilesAreInside ==
  \A t \in tiles :
    /\ t = <<t[1], t[2], t[3]>> /\ t[1] \in DOMAIN ranges
    /\ t[2] \in Nat /\ t[3] \in Nat
    /\ IsInside(ranges[t[1]], t[2], t[3])

AnswersAreLast == answer # NoAnswer => phase = "published" /\ answer.tile = <<answer.tile[1], answer.tile[2], answer.tile[3]>>

PyramidInv ==
  /\ PyramidTypeOK /\ LevelsAreRanged /\ CursorIsInside
  /\ VisitedAreStored /\ TilesAreInside
  /\ AnswersAreLast /\ TilesAreServed

---------------------------------------------------------------------------
(* Arithmetic *)

LEMMA DivBounds ==
  ASSUME NEW a \in Int, NEW w \in Nat \ {0}
  PROVE  /\ a \div w \in Int
         /\ w * (a \div w) <= a
         /\ a < w * (a \div w) + w
BY SMT

LEMMA DivMonotone ==
  ASSUME NEW a \in Int, NEW b \in Int, a <= b, NEW w \in Nat \ {0}
  PROVE  a \div w <= b \div w
BY DivBounds, SMTT(30)

LEMMA ScaledMonotone ==
  ASSUME NEW a \in Int, NEW b \in Int, a <= b, NEW n \in Nat
  PROVE  a * n <= b * n /\ a * n \in Int /\ b * n \in Int
BY SMT

\* The tile of a position on the square is on the square.
LEMMA TileIsInside ==
  ASSUME NEW c \in 0..(World - 1), NEW z \in 0..Cap
  PROVE  /\ (c * Side[z]) \div World \in 0..(Side[z] - 1)
         /\ TileOf(c, z) = (c * Side[z]) \div World
<1>1. Side[z] \in Nat \ {0} /\ World \in Nat \ {0}
  BY PyramidAssumption
<1>2. 0 <= c * Side[z] /\ c * Side[z] < World * Side[z] /\ c * Side[z] \in Int
  BY <1>1, SMT
<1> DEFINE q == (c * Side[z]) \div World
<1>3. q \in Int /\ World * q <= c * Side[z] /\ c * Side[z] < World * q + World
  BY <1>1, <1>2, DivBounds
<1> HIDE DEF q
<1>4. q >= 0
  <2> SUFFICES ASSUME q < 0 PROVE FALSE
    BY <1>3
  <2>1. q + 1 <= 0
    BY <1>3
  <2>2. World * (q + 1) <= 0
    BY <2>1, <1>1, <1>3, SMT
  <2> QED BY <2>2, <1>1, <1>2, <1>3, SMT
<1>5. q < Side[z]
  <2> SUFFICES ASSUME q >= Side[z] PROVE FALSE
    BY <1>1, <1>3
  <2>1. World * Side[z] <= World * q
    BY <1>1, <1>3, SMT
  <2> QED BY <2>1, <1>1, <1>2, <1>3, SMT
<1>6. q \in 0..(Side[z] - 1)
  BY <1>1, <1>3, <1>4, <1>5
<1>7. Clamp(q, 0, Side[z] - 1) = q
  BY <1>1, <1>3, <1>4, <1>5 DEF Clamp, Greater, Lesser
<1> QED BY <1>6, <1>7 DEF q, TileOf

LEMMA TileOfMonotone ==
  ASSUME NEW a \in Int, NEW b \in Int, a <= b, NEW z \in 0..Cap
  PROVE  /\ TileOf(a, z) \in 0..(Side[z] - 1) /\ TileOf(b, z) \in 0..(Side[z] - 1)
         /\ TileOf(a, z) <= TileOf(b, z)
<1>1. Side[z] \in Nat \ {0} /\ World \in Nat \ {0}
  BY PyramidAssumption
<1>2. a * Side[z] \in Int /\ b * Side[z] \in Int /\ a * Side[z] <= b * Side[z]
  BY <1>1, ScaledMonotone
<1> DEFINE q == (a * Side[z]) \div World
           s == (b * Side[z]) \div World
<1>3. q \in Int /\ s \in Int /\ q <= s
  BY <1>1, <1>2, DivBounds, DivMonotone
<1> HIDE DEF q, s
<1>4. /\ Clamp(q, 0, Side[z] - 1) \in 0..(Side[z] - 1) /\ Clamp(s, 0, Side[z] - 1) \in 0..(Side[z] - 1)
      /\ Clamp(q, 0, Side[z] - 1) <= Clamp(s, 0, Side[z] - 1)
  BY <1>1, <1>3 DEF Clamp, Greater, Lesser
<1> QED BY <1>4 DEF q, s, TileOf

LEMMA ClampedBound ==
  ASSUME NEW a \in Int
  PROVE  Clamp(a, 0, World) \in 0..World
BY PyramidAssumption DEF Clamp, Greater, Lesser

\* A range is on the square and is not empty.
LEMMA RangeIsOnSquare ==
  ASSUME NEW r \in Raster, NEW z \in 0..Cap
  PROVE  LET range == RangeOf(r, z) IN
         /\ range.xMin \in 0..(Side[z] - 1) /\ range.xMax \in 0..(Side[z] - 1) /\ range.xMin <= range.xMax
         /\ range.yMin \in 0..(Side[z] - 1) /\ range.yMax \in 0..(Side[z] - 1) /\ range.yMin <= range.yMax
<1> DEFINE west == TileOf(Clamp(r.west, 0, World), z)
           east == TileOf(Clamp(r.east, 0, World), z)
           north == TileOf(Clamp(r.north, 0, World), z)
           south == TileOf(Clamp(r.south, 0, World), z)
<1>1. r.west \in Int /\ r.east \in Int /\ r.north \in Int /\ r.south \in Int /\ Side[z] \in Nat \ {0}
  BY PyramidAssumption
<1>2. /\ Clamp(r.west, 0, World) \in Int /\ Clamp(r.east, 0, World) \in Int
      /\ Clamp(r.north, 0, World) \in Int /\ Clamp(r.south, 0, World) \in Int
  BY <1>1, ClampedBound
<1>3. /\ west \in 0..(Side[z] - 1) /\ east \in 0..(Side[z] - 1)
      /\ north \in 0..(Side[z] - 1) /\ south \in 0..(Side[z] - 1)
  BY <1>2, TileOfMonotone
<1> HIDE DEF west, east, north, south
<1>4. RangeOf(r, z) = [xMin |-> Lesser(west, east), xMax |-> Greater(west, east),
                       yMin |-> Lesser(north, south), yMax |-> Greater(north, south)]
  BY DEF RangeOf, west, east, north, south
<1> QED BY <1>1, <1>3, <1>4 DEF Lesser, Greater

\* The range of a raster that does not cross the antimeridian has the tile of
\* every pixel in it.
LEMMA RangeCoversData ==
  ASSUME NEW r \in Raster, ~ Crosses(r), NEW p \in r.data, NEW z \in 0..Cap
  PROVE  IsInside(RangeOf(r, z), (p.x * Side[z]) \div World, (p.y * Side[z]) \div World)
<1>1. /\ p.x \in 0..(World - 1) /\ p.y \in 0..(World - 1)
      /\ r.west \in 0..World /\ r.east \in 0..World /\ r.north \in Int /\ r.south \in Int
      /\ World \in Nat \ {0} /\ Side[z] \in Nat \ {0}
  BY PyramidAssumption DEF Point
<1>2. r.west <= p.x /\ p.x <= r.east /\ r.north <= p.y /\ p.y <= r.south
  BY PyramidAssumption DEF Spans, Crosses
<1> DEFINE cw == Clamp(r.west, 0, World)
           ce == Clamp(r.east, 0, World)
           cn == Clamp(r.north, 0, World)
           cs == Clamp(r.south, 0, World)
<1>3. cw \in Int /\ ce \in Int /\ cn \in Int /\ cs \in Int
  BY <1>1, ClampedBound
<1>4. cw <= p.x /\ p.x <= ce /\ cn <= p.y /\ p.y <= cs
  BY <1>1, <1>2 DEF Clamp, Greater, Lesser
<1> HIDE DEF cw, ce, cn, cs
<1>5. TileOf(cw, z) <= TileOf(p.x, z) /\ TileOf(p.x, z) <= TileOf(ce, z)
  BY <1>1, <1>3, <1>4, TileOfMonotone
<1>6. TileOf(cn, z) <= TileOf(p.y, z) /\ TileOf(p.y, z) <= TileOf(cs, z)
  BY <1>1, <1>3, <1>4, TileOfMonotone
<1>7. /\ TileOf(cw, z) \in Int /\ TileOf(ce, z) \in Int /\ TileOf(cn, z) \in Int /\ TileOf(cs, z) \in Int
      /\ TileOf(p.x, z) \in Int /\ TileOf(p.y, z) \in Int
  BY <1>1, <1>3, TileOfMonotone
<1>8. RangeOf(r, z) = [xMin |-> Lesser(TileOf(cw, z), TileOf(ce, z)), xMax |-> Greater(TileOf(cw, z), TileOf(ce, z)),
                       yMin |-> Lesser(TileOf(cn, z), TileOf(cs, z)), yMax |-> Greater(TileOf(cn, z), TileOf(cs, z))]
  BY DEF RangeOf, cw, ce, cn, cs
<1>9. IsInside(RangeOf(r, z), TileOf(p.x, z), TileOf(p.y, z))
  BY <1>5, <1>6, <1>7, <1>8 DEF IsInside, Lesser, Greater
<1> QED BY <1>1, <1>9, TileIsInside

LEMMA MaxZoomIsCapped ==
  ASSUME NEW r \in Raster
  PROVE  DerivedMaxZoom(r) \in 0..Cap
<1> DEFINE coarse == {z \in 0..(Cap - 1) : ~ Resolves(r, z)}
<1>1. Cap \in Nat
  BY PyramidAssumption
<1>2. IsFiniteSet(0..(Cap - 1)) /\ Cardinality(0..(Cap - 1)) = Cap
  BY <1>1, FS_Interval
<1>3. IsFiniteSet(coarse) /\ Cardinality(coarse) <= Cap
  BY <1>2, FS_Subset
<1>4. Cardinality(coarse) \in Nat
  BY <1>3, FS_CardinalityType
<1> QED BY <1>1, <1>3, <1>4 DEF DerivedMaxZoom

---------------------------------------------------------------------------
(* The invariant *)

LEMMA PyramidInit == Init => PyramidInv
<1> SUFFICES ASSUME Init PROVE PyramidInv
  OBVIOUS
<1> USE PyramidAssumption DEF Init, NoAnswer
<1>1. PyramidTypeOK
  BY DEF PyramidTypeOK
<1>2. LevelsAreRanged /\ CursorIsInside
  BY DEF LevelsAreRanged, CursorIsInside
<1>3. VisitedAreStored /\ TilesAreInside
  BY DEF VisitedAreStored, TilesAreInside
<1>4. AnswersAreLast /\ TilesAreServed
  BY DEF AnswersAreLast, TilesAreServed
<1> QED BY <1>1, <1>2, <1>3, <1>4 DEF PyramidInv

LEMMA OpenKeepsPyramid == PyramidInv /\ Open => PyramidInv'
<1> SUFFICES ASSUME PyramidInv, Open PROVE PyramidInv'
  OBVIOUS
<1> USE PyramidAssumption DEF Open, PyramidInv
<1>1. maxZoom' \in 0..Cap /\ raster \in Raster
  BY MaxZoomIsCapped DEF PyramidTypeOK
<1>2. PyramidTypeOK'
  BY <1>1 DEF PyramidTypeOK
<1>3. LevelsAreRanged' /\ CursorIsInside'
  BY <1>1 DEF LevelsAreRanged, CursorIsInside
<1>4. VisitedAreStored' /\ TilesAreInside'
  BY DEF VisitedAreStored, TilesAreInside, LevelsAreRanged, Visited
<1>5. AnswersAreLast' /\ TilesAreServed'
  BY DEF AnswersAreLast, TilesAreServed, NoAnswer
<1> QED BY <1>2, <1>3, <1>4, <1>5

LEMMA StartLevelKeepsPyramid == PyramidInv /\ StartLevel => PyramidInv'
<1> SUFFICES ASSUME PyramidInv, StartLevel PROVE PyramidInv'
  OBVIOUS
<1> DEFINE range == RangeOf(raster, zoom)
<1>1. /\ zoom \in 0..Cap /\ zoom <= maxZoom /\ maxZoom \in 0..Cap /\ raster \in Raster /\ Cap \in Nat
      /\ DOMAIN ranges = 0..(zoom - 1)
  BY PyramidAssumption DEF PyramidInv, StartLevel, PyramidTypeOK, LevelsAreRanged
<1>2. /\ range.xMin \in Nat /\ range.xMax \in Nat /\ range.xMin <= range.xMax
      /\ range.yMin \in Nat /\ range.yMax \in Nat /\ range.yMin <= range.yMax
  <2>1. Side[zoom] \in Nat
    BY <1>1, PyramidAssumption
  <2> QED BY <1>1, <2>1, RangeIsOnSquare
<1>3. /\ DOMAIN ranges' = 0..zoom
      /\ ranges'[zoom] = range
      /\ \A z \in 0..(zoom - 1) : ranges'[z] = ranges[z]
  BY <1>1 DEF StartLevel
<1>4. /\ x' = range.xMin /\ y' = range.yMin /\ phase' = "tile" /\ phase = "level"
      /\ UNCHANGED <<raster, maxZoom, zoom, tiles, answer>>
  BY DEF StartLevel
<1> HIDE DEF range
<1>5. PyramidTypeOK'
  BY <1>1, <1>2, <1>3, <1>4, PyramidAssumption DEF PyramidInv, PyramidTypeOK
<1>6. LevelsAreRanged'
  BY <1>1, <1>3, <1>4 DEF PyramidInv, LevelsAreRanged, range
<1>7. CursorIsInside'
  BY <1>2, <1>3, <1>4 DEF CursorIsInside, IsInside
<1>8. VisitedAreStored'
  <2> SUFFICES ASSUME NEW z \in DOMAIN ranges', NEW tx \in Nat, NEW ty \in Nat,
                      IsInside(ranges'[z], tx, ty), Visited(z, tx, ty)', ~ Masked(raster', z, tx, ty)
               PROVE  <<z, tx, ty>> \in tiles'
    BY DEF VisitedAreStored
  <2>1. CASE z = zoom
    BY <2>1, <1>1, <1>2, <1>3, <1>4 DEF Visited, IsInside
  <2>2. CASE z # zoom
    <3>1. z \in 0..(zoom - 1)
      BY <2>2, <1>1, <1>3
    <3> QED BY <3>1, <1>1, <1>3, <1>4 DEF PyramidInv, VisitedAreStored, Visited
  <2> QED BY <2>1, <2>2
<1>9. TilesAreInside'
  <2> SUFFICES ASSUME NEW t \in tiles
               PROVE  /\ t = <<t[1], t[2], t[3]>> /\ t[1] \in DOMAIN ranges'
                      /\ t[2] \in Nat /\ t[3] \in Nat /\ IsInside(ranges'[t[1]], t[2], t[3])
    BY <1>4 DEF TilesAreInside
  <2>1. /\ t = <<t[1], t[2], t[3]>> /\ t[1] \in 0..(zoom - 1)
        /\ t[2] \in Nat /\ t[3] \in Nat /\ IsInside(ranges[t[1]], t[2], t[3])
    BY <1>1 DEF PyramidInv, TilesAreInside
  <2> QED BY <2>1, <1>1, <1>3
<1>10. AnswersAreLast' /\ TilesAreServed'
  BY <1>4 DEF PyramidInv, AnswersAreLast, TilesAreServed, NoAnswer
<1> QED BY <1>5, <1>6, <1>7, <1>8, <1>9, <1>10 DEF PyramidInv

\* Between the old cursor and the new one of the loops there is only the tile
\* that was made.
LEMMA RenderTileKeepsPyramid == PyramidInv /\ RenderTile => PyramidInv'
<1> SUFFICES ASSUME PyramidInv, RenderTile PROVE PyramidInv'
  OBVIOUS
<1> DEFINE range == ranges[zoom]
<1>1. /\ zoom \in 0..Cap /\ zoom <= maxZoom /\ maxZoom \in 0..Cap /\ raster \in Raster /\ Cap \in Nat
      /\ DOMAIN ranges = 0..zoom /\ range = RangeOf(raster, zoom) /\ phase = "tile"
      /\ x \in Nat /\ y \in Nat
  <2>1. phase = "tile" /\ Cap \in Nat
    BY PyramidAssumption DEF RenderTile
  <2>2. /\ raster \in Raster /\ maxZoom \in 0..Cap /\ zoom \in 0..(Cap + 1) /\ x \in Nat /\ y \in Nat
    BY DEF PyramidInv, PyramidTypeOK
  <2>3. /\ zoom <= maxZoom /\ DOMAIN ranges = 0..zoom
        /\ \A z \in DOMAIN ranges : ranges[z] = RangeOf(raster, z)
    BY <2>1 DEF PyramidInv, LevelsAreRanged
  <2>4. zoom \in 0..zoom /\ zoom \in 0..Cap
    BY <2>1, <2>2, <2>3
  <2> QED BY <2>1, <2>2, <2>3, <2>4
<1>2. /\ Side[zoom] \in Nat
      /\ range.xMin \in 0..(Side[zoom] - 1) /\ range.xMax \in 0..(Side[zoom] - 1)
      /\ range.yMin \in 0..(Side[zoom] - 1) /\ range.yMax \in 0..(Side[zoom] - 1)
  <2>1. Side[zoom] \in Nat
    BY <1>1, PyramidAssumption
  <2> QED BY <1>1, <2>1, RangeIsOnSquare
<1>3. IsInside(range, x, y)
  BY <1>1 DEF PyramidInv, CursorIsInside
<1>4. /\ tiles' = IF Masked(raster, zoom, x, y) THEN tiles ELSE tiles \cup {<<zoom, x, y>>}
      /\ UNCHANGED <<raster, maxZoom, ranges, answer>>
  BY DEF RenderTile
<1>5. \/ y < range.yMax /\ y' = y + 1 /\ x' = x /\ zoom' = zoom /\ phase' = phase
      \/ ~ (y < range.yMax) /\ x < range.xMax /\ x' = x + 1 /\ y' = range.yMin /\ zoom' = zoom /\ phase' = phase
      \/ ~ (y < range.yMax) /\ ~ (x < range.xMax) /\ zoom' = zoom + 1 /\ phase' = "level" /\ x' = x /\ y' = y
  BY DEF RenderTile, More
<1> HIDE DEF range
<1>6. PyramidTypeOK'
  <2>1. x' \in Nat /\ y' \in Nat /\ zoom' \in 0..(Cap + 1) /\ phase' \in {"level", "tile"}
    BY <1>1, <1>2, <1>5
  <2>2. x \in 0..(Side[zoom] - 1) /\ y \in 0..(Side[zoom] - 1)
    BY <1>1, <1>2, <1>3 DEF IsInside
  <2>3. \A t \in tiles' : t[1] \in 0..Cap /\ t[2] \in 0..(Side[t[1]] - 1) /\ t[3] \in 0..(Side[t[1]] - 1)
    BY <1>1, <1>4, <2>2 DEF PyramidInv, PyramidTypeOK
  <2> QED BY <1>1, <1>4, <2>1, <2>3 DEF PyramidInv, PyramidTypeOK
<1>7. LevelsAreRanged'
  BY <1>1, <1>4, <1>5 DEF PyramidInv, LevelsAreRanged
<1>8. CursorIsInside'
  BY <1>1, <1>2, <1>3, <1>4, <1>5 DEF CursorIsInside, IsInside, range
<1>9. VisitedAreStored'
  <2> SUFFICES ASSUME NEW z \in DOMAIN ranges, NEW tx \in Nat, NEW ty \in Nat,
                      IsInside(ranges[z], tx, ty), Visited(z, tx, ty)', ~ Masked(raster, z, tx, ty)
               PROVE  <<z, tx, ty>> \in tiles'
    BY <1>4 DEF VisitedAreStored
  <2>1. CASE Visited(z, tx, ty)
    BY <2>1, <1>4 DEF PyramidInv, VisitedAreStored
  <2>2. CASE z = zoom /\ tx = x /\ ty = y
    BY <2>2, <1>4
  <2>3. Visited(z, tx, ty) \/ (z = zoom /\ tx = x /\ ty = y)
    <3>1. z \in 0..zoom
      BY <1>1
    <3>2. CASE z < zoom
      BY <3>2 DEF Visited
    <3>3. CASE z = zoom
      <4>1. tx >= range.xMin /\ tx <= range.xMax /\ ty >= range.yMin /\ ty <= range.yMax
        BY <3>3 DEF IsInside, range
      <4>2. x >= range.xMin /\ x <= range.xMax /\ y >= range.yMin /\ y <= range.yMax
        BY <1>3 DEF IsInside
      <4>3. tx < x \/ (tx = x /\ ty <= y)
        BY <3>3, <4>1, <4>2, <1>1, <1>2, <1>5 DEF Visited
      <4> QED BY <3>3, <4>3, <1>1 DEF Visited
    <3> QED BY <3>1, <3>2, <3>3, <1>1
  <2> QED BY <2>1, <2>2, <2>3
<1>10. TilesAreInside'
  BY <1>1, <1>3, <1>4 DEF PyramidInv, TilesAreInside, range
<1>11. AnswersAreLast' /\ TilesAreServed'
  BY <1>1, <1>4 DEF PyramidInv, AnswersAreLast, TilesAreServed, NoAnswer
<1> QED BY <1>6, <1>7, <1>8, <1>9, <1>10, <1>11 DEF PyramidInv

LEMMA PublishKeepsPyramid == PyramidInv /\ Publish => PyramidInv'
<1> SUFFICES ASSUME PyramidInv, Publish PROVE PyramidInv'
  OBVIOUS
<1> USE DEF Publish, PyramidInv
<1>1. zoom \in Int /\ maxZoom \in Int
  BY PyramidAssumption DEF PyramidTypeOK
<1>2. PyramidTypeOK'
  BY DEF PyramidTypeOK
<1>3. LevelsAreRanged' /\ CursorIsInside'
  BY <1>1 DEF LevelsAreRanged, CursorIsInside
<1>4. VisitedAreStored' /\ TilesAreInside'
  BY DEF VisitedAreStored, TilesAreInside, Visited
<1>5. AnswersAreLast' /\ TilesAreServed'
  BY DEF AnswersAreLast, TilesAreServed
<1> QED BY <1>2, <1>3, <1>4, <1>5

LEMMA RequestTileKeepsPyramid ==
  ASSUME NEW z \in 0..(Cap + 1), NEW tx \in 0..Side[Cap], NEW ty \in 0..Side[Cap], PyramidInv, RequestTile(z, tx, ty)
  PROVE  PyramidInv'
<1>1. /\ phase = "published" /\ UNCHANGED <<raster, phase, maxZoom, ranges, zoom, x, y, tiles>>
      /\ answer'.tile = <<z, tx, ty>>
      /\ answer'.kind = IF z <= maxZoom /\ z \in DOMAIN ranges /\ IsInside(ranges[z], tx, ty) THEN "redirect" ELSE "not_found"
  BY DEF RequestTile
<1>2. /\ Cap \in Nat /\ maxZoom \in 0..Cap /\ raster \in Raster /\ zoom = maxZoom + 1
      /\ DOMAIN ranges = 0..maxZoom
      /\ \A low \in 0..maxZoom : ranges[low] = RangeOf(raster, low)
  <2>1. Cap \in Nat /\ maxZoom \in 0..Cap /\ raster \in Raster
    BY PyramidAssumption DEF PyramidInv, PyramidTypeOK
  <2>2. zoom = maxZoom + 1 /\ DOMAIN ranges = 0..(zoom - 1)
    BY <1>1 DEF PyramidInv, LevelsAreRanged
  <2>3. DOMAIN ranges = 0..maxZoom
    BY <2>1, <2>2
  <2>4. \A low \in DOMAIN ranges : ranges[low] = RangeOf(raster, low)
    BY DEF PyramidInv, LevelsAreRanged
  <2> QED BY <2>1, <2>2, <2>3, <2>4
<1>3. PyramidTypeOK' /\ LevelsAreRanged' /\ CursorIsInside'
  BY <1>1 DEF PyramidInv, PyramidTypeOK, LevelsAreRanged, CursorIsInside
<1>4. VisitedAreStored' /\ TilesAreInside'
  BY <1>1 DEF PyramidInv, VisitedAreStored, TilesAreInside, Visited
<1>5. AnswersAreLast'
  BY <1>1 DEF AnswersAreLast
<1>6. ASSUME answer'.kind = "not_found" PROVE <<z, tx, ty>> \notin tiles
  <2>1. ~ (z <= maxZoom /\ z \in DOMAIN ranges /\ IsInside(ranges[z], tx, ty))
    BY <1>1, <1>6
  <2>2. SUFFICES ASSUME <<z, tx, ty>> \in tiles PROVE FALSE
    OBVIOUS
  <2>3. z \in DOMAIN ranges /\ IsInside(ranges[z], tx, ty)
    BY <2>2 DEF PyramidInv, TilesAreInside
  <2> QED BY <2>1, <2>3, <1>2
<1>7. ASSUME answer'.kind = "redirect" PROVE z <= maxZoom /\ tx < Side[z] /\ ty < Side[z]
  <2>1. z \in 0..maxZoom /\ IsInside(RangeOf(raster, z), tx, ty)
    BY <1>1, <1>2, <1>7
  <2>2. z \in 0..Cap /\ Side[z] \in Nat /\ Side[Cap] \in Nat
    BY <1>2, <2>1, PyramidAssumption
  <2> QED BY <2>1, <2>2, <1>2, RangeIsOnSquare DEF IsInside
<1>8. TilesAreServed'
  BY <1>1, <1>6, <1>7 DEF TilesAreServed
<1> QED BY <1>3, <1>4, <1>5, <1>8 DEF PyramidInv

\* The state of the loops, the ranges and the tiles agree in every state: the
\* types, and that whatever the loops have passed is stored unless masked.
THEOREM PyramidInvariant == Spec => []PyramidInv
<1>1. PyramidInv /\ [Next]_vars => PyramidInv'
  <2> SUFFICES ASSUME PyramidInv, [Next]_vars PROVE PyramidInv'
    OBVIOUS
  <2>1. CASE Open
    BY <2>1, OpenKeepsPyramid
  <2>2. CASE StartLevel
    BY <2>2, StartLevelKeepsPyramid
  <2>3. CASE RenderTile
    BY <2>3, RenderTileKeepsPyramid
  <2>4. CASE Publish
    BY <2>4, PublishKeepsPyramid
  <2>5. ASSUME NEW z \in 0..(Cap + 1), NEW tx \in 0..Side[Cap], NEW ty \in 0..Side[Cap], RequestTile(z, tx, ty)
        PROVE  PyramidInv'
    BY <2>5, RequestTileKeepsPyramid
  <2>6. CASE UNCHANGED vars
    BY <2>6 DEF vars, PyramidInv, PyramidTypeOK, LevelsAreRanged, CursorIsInside, VisitedAreStored, Visited,
                TilesAreInside, AnswersAreLast, TilesAreServed
  <2> QED BY <2>1, <2>2, <2>3, <2>4, <2>5, <2>6 DEF Next
<1> QED BY PyramidInit, <1>1, PTL DEF Spec

\* The types, and that no tile lies outside the square of its level.
THEOREM PyramidIsTyped == Spec => []PyramidTypeOK
<1>1. PyramidInv => PyramidTypeOK
  BY DEF PyramidInv
<1> QED BY <1>1, PyramidInvariant, PTL

\* Whatever is stored is found by a request, and a request outside the square
\* is refused.
THEOREM PyramidServesTiles == Spec => []TilesAreServed
<1>1. PyramidInv => TilesAreServed
  BY DEF PyramidInv
<1> QED BY <1>1, PyramidInvariant, PTL

\* Every pixel of a published raster that does not cross the antimeridian is
\* on a tile of every level, for rasters of any size and place.
THEOREM PyramidTilesData == Spec => []DataIsTiled
<1>1. PyramidInv => DataIsTiled
  <2> SUFFICES ASSUME PyramidInv, phase = "published", ~ Crosses(raster),
                      NEW p \in raster.data, NEW z \in 0..maxZoom
               PROVE  IsTiled(p, z)
    BY DEF DataIsTiled
  <2> DEFINE tx == (p.x * Side[z]) \div World
             ty == (p.y * Side[z]) \div World
  <2>1. /\ raster \in Raster /\ Cap \in Nat /\ maxZoom \in 0..Cap /\ z \in 0..Cap
        /\ zoom = maxZoom + 1 /\ DOMAIN ranges = 0..maxZoom
        /\ ranges[z] = RangeOf(raster, z)
    <3>1. raster \in Raster /\ maxZoom \in 0..Cap /\ zoom \in 0..(Cap + 1) /\ Cap \in Nat
      BY PyramidAssumption DEF PyramidInv, PyramidTypeOK
    <3>2. /\ zoom = maxZoom + 1 /\ DOMAIN ranges = 0..(zoom - 1)
          /\ \A low \in DOMAIN ranges : ranges[low] = RangeOf(raster, low)
      BY DEF PyramidInv, LevelsAreRanged
    <3>3. 0..(zoom - 1) = 0..maxZoom /\ z \in 0..Cap
      BY <3>1, <3>2
    <3> QED BY <3>1, <3>2, <3>3
  <2>2. IsInside(ranges[z], tx, ty)
    BY <2>1, RangeCoversData
  <2>3. p.x \in 0..(World - 1) /\ p.y \in 0..(World - 1)
    BY <2>1, PyramidAssumption DEF Point
  <2>4. tx \in Nat /\ ty \in Nat
    <3>1. Side[z] \in Nat
      BY <2>1, PyramidAssumption
    <3>2. tx \in 0..(Side[z] - 1) /\ ty \in 0..(Side[z] - 1)
      BY <2>1, <2>3, TileIsInside
    <3> HIDE DEF tx, ty
    <3> QED BY <3>1, <3>2
  <2>5. LiesIn(p, z, tx, ty)
    BY DEF LiesIn
  <2> HIDE DEF tx, ty
  <2>6. ~ Masked(raster, z, tx, ty)
    BY <2>5 DEF Masked
  <2>7. Visited(z, tx, ty)
    BY <2>1 DEF Visited
  <2>8. <<z, tx, ty>> \in tiles
    BY <2>1, <2>2, <2>4, <2>6, <2>7 DEF PyramidInv, VisitedAreStored
  <2> QED BY <2>5, <2>8 DEF IsTiled
<1> QED BY <1>1, PyramidInvariant, PTL

---------------------------------------------------------------------------
(* A level and the one above it *)

LEMMA DivHalves ==
  ASSUME NEW a \in Int, NEW w \in Nat \ {0}
  PROVE  ((2 * a) \div w) \div 2 = a \div w
<1> DEFINE q == (2 * a) \div w
           s == a \div w
           h == q \div 2
<1>1. q \in Int /\ w * q <= 2 * a /\ 2 * a < w * q + w
  BY DivBounds
<1>2. s \in Int /\ w * s <= a /\ a < w * s + w
  BY DivBounds
<1> HIDE DEF q, s
<1>3. h \in Int /\ 2 * h <= q /\ q < 2 * h + 2
  BY <1>1, DivBounds
<1> HIDE DEF h
<1>4. h <= s
  <2> SUFFICES ASSUME h >= s + 1 PROVE FALSE
    BY <1>2, <1>3
  <2>1. q >= 2 * s + 2
    BY <1>1, <1>2, <1>3
  <2>2. w * q >= w * (2 * s + 2)
    BY <2>1, <1>1, <1>2, SMT
  <2>3. w * (2 * s + 2) = 2 * (w * s + w)
    BY <1>2, SMT
  <2> QED BY <2>2, <2>3, <1>1, <1>2
<1>5. h >= s
  <2> SUFFICES ASSUME h <= s - 1 PROVE FALSE
    BY <1>2, <1>3
  <2>1. q + 1 <= 2 * s
    BY <1>1, <1>2, <1>3
  <2>2. w * (q + 1) <= w * (2 * s)
    BY <2>1, <1>1, <1>2, SMT
  <2>3. w * (2 * s) = 2 * (w * s) /\ w * (q + 1) = w * q + w
    BY <1>1, <1>2, SMT
  <2> QED BY <2>2, <2>3, <1>1, <1>2
<1>6. h = s
  BY <1>2, <1>3, <1>4, <1>5
<1> QED BY <1>6 DEF h, q, s

LEMMA ClampHalves ==
  ASSUME NEW q \in Int, NEW n \in Nat \ {0}
  PROVE  Clamp(q, 0, 2 * n - 1) \div 2 = Clamp(q \div 2, 0, n - 1)
BY DivBounds DEF Clamp, Greater, Lesser

LEMMA SideDoubles ==
  ASSUME NEW z \in 0..Cap, z > 0
  PROVE  z - 1 \in 0..Cap /\ Side[z - 1] \in Nat \ {0} /\ Side[z] = 2 * Side[z - 1]
<1>1. z - 1 \in 0..(Cap - 1) /\ z - 1 \in 0..Cap /\ (z - 1) + 1 = z
  BY PyramidAssumption
<1> QED BY <1>1, PyramidAssumption

\* The tile of a position, a level up, is that around it.
LEMMA TileOfParent ==
  ASSUME NEW c \in Int, NEW z \in 0..Cap, z > 0
  PROVE  /\ TileOf(c, z) \div 2 = TileOf(c, z - 1)
         /\ ((c * Side[z]) \div World) \div 2 = (c * Side[z - 1]) \div World
<1>1. Side[z - 1] \in Nat \ {0} /\ Side[z] = 2 * Side[z - 1] /\ World \in Nat \ {0}
  BY SideDoubles, PyramidAssumption
<1>2. c * Side[z] = 2 * (c * Side[z - 1]) /\ c * Side[z - 1] \in Int
  BY <1>1, SMT
<1>3. ((c * Side[z]) \div World) \div 2 = (c * Side[z - 1]) \div World
  BY <1>1, <1>2, DivHalves
<1>4. (c * Side[z]) \div World \in Int
  BY <1>1, <1>2, DivBounds
<1>5. Clamp((c * Side[z]) \div World, 0, Side[z] - 1) \div 2
        = Clamp(((c * Side[z]) \div World) \div 2, 0, Side[z - 1] - 1)
  BY <1>1, <1>4, ClampHalves
<1> QED BY <1>3, <1>5 DEF TileOf

LEMMA HalvedBetween ==
  ASSUME NEW a \in Int, NEW b \in Int, NEW t \in Int, Lesser(a, b) <= t, t <= Greater(a, b)
  PROVE  Lesser(a \div 2, b \div 2) <= t \div 2 /\ t \div 2 <= Greater(a \div 2, b \div 2)
<1>1. \A c, d \in Int : c <= d => c \div 2 <= d \div 2
  BY DivMonotone
<1>2. a \div 2 \in Int /\ b \div 2 \in Int /\ t \div 2 \in Int
  BY DivBounds
<1>3. CASE a < b
  BY <1>1, <1>2, <1>3 DEF Lesser, Greater
<1>4. CASE ~ (a < b)
  BY <1>1, <1>2, <1>4 DEF Lesser, Greater
<1> QED BY <1>3, <1>4

\* What a range covers, the range of the level above covers too.
LEMMA RangesNest ==
  ASSUME NEW r \in Raster, NEW z \in 0..Cap, z > 0, NEW tx \in Int, NEW ty \in Int,
         IsInside(RangeOf(r, z), tx, ty)
  PROVE  IsInside(RangeOf(r, z - 1), tx \div 2, ty \div 2)
<1> DEFINE west(l) == TileOf(Clamp(r.west, 0, World), l)
           east(l) == TileOf(Clamp(r.east, 0, World), l)
           north(l) == TileOf(Clamp(r.north, 0, World), l)
           south(l) == TileOf(Clamp(r.south, 0, World), l)
<1>1. z - 1 \in 0..Cap
  BY SideDoubles
<1>2. /\ Clamp(r.west, 0, World) \in Int /\ Clamp(r.east, 0, World) \in Int
      /\ Clamp(r.north, 0, World) \in Int /\ Clamp(r.south, 0, World) \in Int
  <2>1. r.west \in Int /\ r.east \in Int /\ r.north \in Int /\ r.south \in Int /\ World \in Nat
    BY PyramidAssumption
  <2> QED BY <2>1, ClampedBound
<1>3. /\ west(z) \div 2 = west(z - 1) /\ east(z) \div 2 = east(z - 1)
      /\ north(z) \div 2 = north(z - 1) /\ south(z) \div 2 = south(z - 1)
  BY <1>2, TileOfParent
<1>4. west(z) \in Int /\ east(z) \in Int /\ north(z) \in Int /\ south(z) \in Int
  <2>1. Side[z] \in Nat
    BY PyramidAssumption
  <2> QED BY <1>2, <2>1, TileOfMonotone
<1>5. \A l \in {z, z - 1} :
        RangeOf(r, l) = [xMin |-> Lesser(west(l), east(l)), xMax |-> Greater(west(l), east(l)),
                         yMin |-> Lesser(north(l), south(l)), yMax |-> Greater(north(l), south(l))]
  BY DEF RangeOf
<1> HIDE DEF west, east, north, south
<1>6. /\ Lesser(west(z), east(z)) <= tx /\ tx <= Greater(west(z), east(z))
      /\ Lesser(north(z), south(z)) <= ty /\ ty <= Greater(north(z), south(z))
  BY <1>5 DEF IsInside
<1>7. /\ Lesser(west(z - 1), east(z - 1)) <= tx \div 2
      /\ tx \div 2 <= Greater(west(z - 1), east(z - 1))
      /\ Lesser(north(z - 1), south(z - 1)) <= ty \div 2
      /\ ty \div 2 <= Greater(north(z - 1), south(z - 1))
  BY <1>3, <1>4, <1>6, HalvedBetween
<1>8. /\ Lesser(west(z - 1), east(z - 1)) \in Int /\ Lesser(north(z - 1), south(z - 1)) \in Int
      /\ tx \div 2 \in Int /\ ty \div 2 \in Int
  BY <1>3, <1>4, DivBounds DEF Lesser
<1> QED BY <1>5, <1>7, <1>8 DEF IsInside

\* A tile that has data lies in one that has.
LEMMA DataNests ==
  ASSUME NEW r \in Raster, NEW z \in 0..Cap, z > 0, NEW tx, NEW ty, ~ Masked(r, z, tx, ty)
  PROVE  ~ Masked(r, z - 1, tx \div 2, ty \div 2)
<1>1. CASE ~ r.nodata
  BY <1>1 DEF Masked
<1>2. ASSUME NEW p \in r.data, LiesIn(p, z, tx, ty)
      PROVE  LiesIn(p, z - 1, tx \div 2, ty \div 2)
  <2>1. p.x \in Int /\ p.y \in Int
    BY PyramidAssumption DEF Point
  <2> QED BY <1>2, <2>1, TileOfParent DEF LiesIn
<1> QED BY <1>1, <1>2 DEF Masked

\* What is stored has data, if the raster says what has none.
StoredHaveData == \A t \in tiles : ~ Masked(raster, t[1], t[2], t[3])

\* A tile without data is skipped, so none is ever stored (raster.py:137-142).
THEOREM NoTileIsMasked == Spec => []StoredHaveData
<1>1. Init => StoredHaveData
  BY DEF Init, StoredHaveData
<1>2. StoredHaveData /\ [Next]_vars => StoredHaveData'
  <2> SUFFICES ASSUME StoredHaveData, [Next]_vars PROVE StoredHaveData'
    OBVIOUS
  <2>1. CASE RenderTile
    <3>1. /\ raster' = raster
          /\ tiles' = IF Masked(raster, zoom, x, y) THEN tiles ELSE tiles \cup {<<zoom, x, y>>}
      BY <2>1 DEF RenderTile
    <3> QED BY <3>1 DEF StoredHaveData
  <2>2. CASE UNCHANGED <<raster, tiles>>
    BY <2>2 DEF StoredHaveData
  <2> QED BY <2>1, <2>2 DEF Next, vars, Open, StartLevel, Publish, RequestTile
<1> QED BY <1>1, <1>2, PTL DEF Spec

\* The tile around a stored one, a level up, is stored too (raster.py:107-168):
\* ranges nest, because positions are rounded down, and so do tiles with data.
THEOREM PyramidIsWhole == Spec => []PyramidHasNoHoles
<1>1. PyramidInv /\ StoredHaveData => PyramidHasNoHoles
  <2> SUFFICES ASSUME PyramidInv, StoredHaveData, phase = "published", NEW t \in tiles, t[1] > 0
               PROVE  <<t[1] - 1, t[2] \div 2, t[3] \div 2>> \in tiles
    BY DEF PyramidHasNoHoles
  <2>1. raster \in Raster /\ maxZoom \in 0..Cap /\ Cap \in Nat /\ t[1] \in 0..Cap
    BY PyramidAssumption DEF PyramidInv, PyramidTypeOK
  <2>2. /\ zoom = maxZoom + 1 /\ DOMAIN ranges = 0..(zoom - 1)
        /\ \A low \in DOMAIN ranges : ranges[low] = RangeOf(raster, low)
    BY DEF PyramidInv, LevelsAreRanged
  <2>3. /\ t[1] \in DOMAIN ranges /\ t[2] \in Nat /\ t[3] \in Nat
        /\ IsInside(ranges[t[1]], t[2], t[3])
    BY DEF PyramidInv, TilesAreInside
  <2>4. t[1] - 1 \in DOMAIN ranges /\ t[1] - 1 < zoom
    BY <2>1, <2>2, <2>3
  <2>5. IsInside(ranges[t[1] - 1], t[2] \div 2, t[3] \div 2)
    <3>1. IsInside(RangeOf(raster, t[1]), t[2], t[3])
      BY <2>2, <2>3
    <3>2. t[2] \in Int /\ t[3] \in Int
      BY <2>3
    <3>3. IsInside(RangeOf(raster, t[1] - 1), t[2] \div 2, t[3] \div 2)
      BY <2>1, <3>1, <3>2, RangesNest, Zenon
    <3> QED BY <2>2, <2>4, <3>3
  <2>6. ~ Masked(raster, t[1] - 1, t[2] \div 2, t[3] \div 2)
    BY <2>1, DataNests DEF StoredHaveData
  <2>7. t[2] \div 2 \in Nat /\ t[3] \div 2 \in Nat
    BY <2>3, SMT
  <2>8. Visited(t[1] - 1, t[2] \div 2, t[3] \div 2)
    BY <2>4 DEF Visited
  <2> QED BY <2>4, <2>5, <2>6, <2>7, <2>8 DEF PyramidInv, VisitedAreStored
<1> QED BY <1>1, PyramidInvariant, NoTileIsMasked, PTL
=============================================================================
