SPECIFICATION FairSpec
CONSTANTS
  Names = {"sfp"}
  SubNames = {"base"}
  Cages = {"sfp"}
  Device <- McDevice
  Modules = {"SR"}
  Serials = {"SR"}
  Empty = Empty
  Uuid = {u1, u2, u3}
  NoUuid = NoUuid
  NoSub = NoSub
  Connector <- McConnector
  Fits <- McFits
  HasReset <- McHasReset
  Eeprom <- McEeprom
  Described <- McDescribed
  EnableValues = {"true", "absent"}
  Faults = {"lock"}
  MaxEvents = 1
PROPERTIES
  EventuallyCurHw
