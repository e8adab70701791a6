SPECIFICATION Spec
CONSTANT Interface = {1, 2, 3}
INVARIANTS TypeOK IdleMeansNoThread UnfinishedHasThread NoTimerMeansIdle JoinsEnd
PROPERTIES StopRequestSticks ImplementsSwitchControl ImplementsSnifferLife
PROPERTIES GuiReturnsToLoop WindowCatchesUp StoppingEnds
