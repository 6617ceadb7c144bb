SPECIFICATION FairSpec
CONSTANTS
  Names = {"sfp"}
  SubNames = {"base", "ext"}
  Cages = {"sfp", "sfp_ext"}
  Device <- McDevice
  Modules = {"SR"}
  Serials = {"SR"}
  Empty = Empty
  Uuid = {u1, u2, u3}
  NoUuid = NoUuid
  NoSub = NoSub
  Connector <- McConnector
  Fits <- McFits
  HasReset <- McHasReset
  Eeprom <- McEeprom
  Described <- McDescribed
  EnableValues = {"true", "absent"}
  Faults = {}
  MaxEvents = 1
PROPERTIES
  EventuallyLaser
