SPECIFICATION Spec
CONSTANTS
  Names = {"sfp", "qsfp"}
  SubNames = {"base"}
  Cages = {"sfp", "qsfp"}
  Device <- McDevice
  Modules = {"SR", "LR4", "CR4"}
  Serials = {"SR", "LR4", "CR4"}
  Empty = Empty
  Uuid = {u1, u2, u3}
  NoUuid = NoUuid
  NoSub = NoSub
  Connector <- McConnector
  Fits <- McFits
  HasReset <- McHasReset
  Eeprom <- McEeprom
  Described <- McDescribed
  EnableValues = {"true", "absent"}
  Faults = {"i2c"}
  MaxEvents = 2
SYMMETRY UuidSymmetry
INVARIANTS
  TypeOK
  SfpLaserFollowsRow
  FlagTellsUpdateNeeded
PROPERTIES
  LaserMovesTowardsRow
