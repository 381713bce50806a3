SPECIFICATION FairSpec
CONSTANTS
  ps3 = ps3
  pc = pc
  Talker <- MCTalkers
  Loopback = Loopback
  Self = Self
  PS3_IP = ps3
  NoAddress = NoAddress
  InCap = 2
  MaxRestarts = 1
PROPERTIES
  OwnPacketsDieOut
