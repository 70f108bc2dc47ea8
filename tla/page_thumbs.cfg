SPECIFICATION ThumbsSpec
CONSTANTS
  Tiles <- FleetTiles
  Budget = 1
  Dark = {"aft"}
PROPERTY ThumbsComeAround
