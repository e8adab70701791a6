SPECIFICATION Spec
CONSTANTS
  Interface = {2, 3}
  Packet <- MCPacket
  MaxCount = 2
INVARIANTS ShowsWhatWasCounted
