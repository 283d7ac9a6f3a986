SPECIFICATION FairSpec
CONSTANT Silence = 2
CHECK_DEADLOCK FALSE
PROPERTIES ConnectionSteps SlotReleased HardStop DeadAirEnds
