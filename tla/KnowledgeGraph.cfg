SPECIFICATION Spec
CONSTANTS
  Packages <- MCPackages
  Inputs <- MCInputs
  MinRun = 3
  MATERIAL_SECTION <- MCMaterials
  FINISH_SECTION <- MCFinishes
  Base <- MCBase
  Division <- MCDivision
  TraceSections = {"081113", "087100"}
  HardwareSection = "087100"
  GlazingSection = "088000"
  DoorSheets = {"A9.3.1", "A2.1.1"}
  RoomSheets = {"AF2.4", "A2.1.1"}
  SectionLLM = TRUE
INVARIANTS
  RegionsTile
  LocatedIsBest
  EdgesAreGrounded
  CodesAreAccounted
