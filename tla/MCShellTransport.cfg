SPECIFICATION FairSpec
CONSTANTS
  Calls = {c1, c2}
  c1 = c1
  c2 = c2
  Offered <- MCOffered
  Kinds = {"ssh", "adb-usb", "adb-wifi"}
INVARIANTS
  TypeOK
  EveryReturnRecorded
  OkRecordIsReal
  StepsInOrder
  TargetToldFirst
  NothingLeftRunning
PROPERTIES
  ImplementsTransport
  EveryCallEnds
CHECK_DEADLOCK FALSE
