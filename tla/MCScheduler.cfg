SPECIFICATION Spec
CONSTANTS
    Sensors <- MCSensors
    Static <- MCStatic
    Periods <- MCPeriods
    NativePeriod <- MCNative
    BackoffCap = 1
    MaxMicros = 12
    MaxTokens = 2
    Horizon = 3
INVARIANTS TypeOK PeriodIsFastest ParkedOnlyAfterReading DueWithinBackoff
PROPERTY ImplementsContract
