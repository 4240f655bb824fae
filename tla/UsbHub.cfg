SPECIFICATION FairSpec
CONSTANTS
  DEVICE_CNT = 3
  EP_POOL_CNT = 8
  Ports = {0, 1}
  MaxPlugs = 3
  MaxFaults = 1
INVARIANTS Address0Alone RootDeviceKnown AllFreed
PROPERTY DevicesServed
