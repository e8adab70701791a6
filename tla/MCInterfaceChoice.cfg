SPECIFICATION Spec
CONSTANTS
  NetworkInterface = {1, 2, 3}
  NoInterface = NoInterface
CHECK_DEADLOCK FALSE
INVARIANTS TypeOK ViewsFollowHandles
PROPERTIES StartsWhatIsShown BoxesCatchUp
