SPECIFICATION Spec
CONSTANTS
    Top = 3
    MaxGap = 3
    MaxTicks = 14
INVARIANTS TypeOK ClockExact
CHECK_DEADLOCK FALSE
