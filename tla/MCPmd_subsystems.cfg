SPECIFICATION Spec
CONSTANTS
  Names = {"sfp"}
  SubNames = {"base", "ext"}
  Cages = {"sfp", "sfp_ext"}
  Device <- McDevice
  Modules = {"SR"}
  Serials = {"SR"}
  Empty = Empty
  Uuid = {u1, u2, u3}
  NoUuid = NoUuid
  NoSub = NoSub
  Connector <- McConnector
  Fits <- McFits
  HasReset <- McHasReset
  Eeprom <- McEeprom
  Described <- McDescribed
  EnableValues = {"true", "absent"}
  Faults = {"yaml", "crash"}
  MaxEvents = 3
SYMMETRY UuidSymmetry
INVARIANTS
  PortForEveryRow
  SfpLaserFollowsRow
  CurHwFlagIsTrue
PROPERTIES
  LaserMovesTowardsRow
  ImplementsService
