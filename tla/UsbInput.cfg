SPECIFICATION Spec
CONSTANTS
  Hid = Hid
  Xbox = Xbox
  NoDevice = NoDevice
  Free = Free
  HidSlots = {Hid}
  XboxSlots = {Xbox}
  MapBits = 2
  MaxTroubles = 2
INVARIANTS
  OwnIndex
  NoIndexLost
  LastReportShown
  HeardAsItself
  MutexGivenBack
