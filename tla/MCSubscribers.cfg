SPECIFICATION Spec
CHECK_DEADLOCK FALSE
CONSTANTS
    Subjects <- MCSubjects
    Callers = {"app", "bot"}
    Extras = {"tradeHistory"}
    Contents <- MCContents
    MaxCalls = 4
    MaxSlot = 3
    MaxEvents = 6
INVARIANT ReleasedWhenUnsubscribed
INVARIANT SubscribedIsLive
PROPERTY OnlyLaterSlotsReplace
PROPERTY CallsReturn
