SPECIFICATION Spec
CONSTANTS
  Names = {"qsfp"}
  SubNames = {"base"}
  Cages = {"qsfp"}
  Device <- McDevice
  Modules = {"LR4", "CR4"}
  Serials = {"LR4", "CR4"}
  Empty = Empty
  Uuid = {u1, u2, u3}
  NoUuid = NoUuid
  NoSub = NoSub
  Connector <- McConnector
  Fits <- McFits
  HasReset <- McHasReset
  Eeprom <- McEeprom
  Described <- McDescribed
  EnableValues = {"true", "absent"}
  Faults = {"i2c", "yaml", "commit", "lock", "crash"}
  MaxEvents = 4
SYMMETRY UuidSymmetry
INVARIANTS
  PortMirrorsRow
  QuietPortIsPublished
PROPERTIES
  CurHwAfterModules
  ImplementsService
  SettledStaysSettled
