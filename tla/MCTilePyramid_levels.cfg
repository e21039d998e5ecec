SPECIFICATION Spec
CONSTANTS
  World = 12
  TileSize = 2
  Cap = 3
  Side <- Sides
  Raster <- Most
CHECK_DEADLOCK FALSE
INVARIANTS
  DataIsTiled
  PyramidHasNoHoles
  TilesAreServed
