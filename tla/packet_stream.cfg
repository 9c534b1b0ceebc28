SPECIFICATION StreamFairSpec
CONSTANTS
  Packets <- MCPackets
  BufSize = 9
  MaxSent = 3
  MaxTimeouts = 1
INVARIANTS
  WithinBuffer
  PacketsInOrder
PROPERTIES
  PacketsArrive
