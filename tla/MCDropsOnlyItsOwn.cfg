SPECIFICATION MCSpec
CONSTANTS
  h1 = h1  h2 = h2  w1 = w1  w2 = w2  all = all
  Port <- MCPort
  Station <- MCStation
  Group <- MCGroup
  Hw <- MCHw
  Wifi = {2}
  Tx <- MCTx
  Origin <- MCOrigin
  FrameOf <- MCFrame
  Body <- MCBody
  MacTimeout = {1}
  DefaultMacTimeout = 1
  SentTimeout = 1
  MaxLag = 1
PROPERTIES DropsOnlyItsOwn
