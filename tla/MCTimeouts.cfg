SPECIFICATION Spec
CONSTANTS
  MaxRep = 127
  PerSecond = 3
  PerMillisecond = 2
  Asked <- MCAsked
  Offered <- MCOffered
  DefaultTimeout = 1
  Uptime = 16
  Station = {1}
INVARIANTS ExpiresAsAsked ShownIsAsked
PROPERTY ExpiredMacPurged
