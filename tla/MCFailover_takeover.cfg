SPECIFICATION FailoverSpec
CONSTANTS
  Names = {"sfp"}
  SubNames = {"base"}
  Cages = {"sfp"}
  Device <- McDevice
  Modules = {"SR"}
  Serials = {"SR"}
  Empty = Empty
  Uuid = {u1, u2, u3, u4}
  NoUuid = NoUuid
  NoSub = NoSub
  Connector <- McConnector
  Fits <- McFits
  HasReset = {}
  Eeprom <- McEeprom
  Described <- McDescribed
  EnableValues = {"true", "absent"}
  Faults = {"crash"}
  MaxEvents = 3
SYMMETRY UuidSymmetry
INVARIANTS
  SfpLaserFollowsRow
  StandbyIsBlank
PROPERTIES
  PairImplementsService
