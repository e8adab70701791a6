SPECIFICATION Spec
CONSTANTS
  Interface = {1, 8}
  Packet <- MCPacket
  MaxCount = 2
INVARIANTS TypeOK ShowsWhatWasCounted
