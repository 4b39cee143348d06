SPECIFICATION ExtractionSpec
CONSTANTS
  Documents <- MCDocuments
  SCHEDULE_REGISTRY <- MCRegistry
  CountedCatalogs <- MCCounted
  MarkLike = {"N1", "N2", "N3", "B1", "L1", "L2"}
  TagLike = {"L1", "L2", "W1", "X"}
  Number <- MCNumber
  MinBuiltin = 2
  MinCols = 3
  Area <- MCArea
  AreaWithUnit <- MCAreaWithUnit
  MaxDist = 4
  MaxSF = 20000
  MinLabels = 2
  MinRooms = 2
  MinTags = 3
  Spread = 7
  Confidences = {40, 90}
  MaxFailures = 1
INVARIANTS
  ItemsAreWhole
  AreasAreMutual
  QuantitiesAreCounted
