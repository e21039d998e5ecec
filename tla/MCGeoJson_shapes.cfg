SPECIFICATION GeoJsonSpec
CONSTANTS
  Value <- AllValues
  Length <- Sizes
CHECK_DEADLOCK FALSE
INVARIANTS
  AcceptedIsSound
  GeoJsonIsAccepted
