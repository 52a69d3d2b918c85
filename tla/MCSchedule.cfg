SPECIFICATION FairSpec
CONSTANTS
    Objects = {o1}
    Names = {n1, n2}
    Intervals <- IntervalsValue
    Counts <- CountsValue
    MaxTicks = 3
    MaxLag = 1
INVARIANTS
    ArmedTimerHasTick
    OneTickUnlessReadded
    CountedExactly
PROPERTIES
    NoDueTickLeft
    NeverEarly
    ArmedTimerFires
    ExecuteEnds
