SPECIFICATION Spec
CHECK_DEADLOCK FALSE
CONSTANTS
    HISTORY_RECORDS = 5
    CURVE_RECORDS = 3
    MaxRecordId = 13
INVARIANT CurveIdsAreNew
PROPERTY ImplementsLog
