SPECIFICATION Spec
CONSTANTS
    NumCores = 2
    EventType = {vblank}
    MAX_SLICE_LENGTH = 2
    MinDelay = 1
    Overshoot = 1
    Delays = {0, 2}
    ClockReads = {0, 3}
    MaxTicks = 3
    MaxEvents = 2
INVARIANTS TypeOK SliceEndsByNextEvent NextEventAhead CoresStayTogether RunsFromSameTimeUnlessLoaded
PROPERTY OnlyRunningTakesTime
