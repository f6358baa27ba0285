SPECIFICATION Spec
CONSTANTS
  NumVfs = 1
  MaxFaults = 1
  MaxLost = 1
  MaxRestarts = 1
  MaxCrashes = 1
  MaxTotal = 2
INVARIANTS PodConnected ChainNotNil NfConnected
PROPERTIES DownBeforeLeaving BootEnds VfRecovers
