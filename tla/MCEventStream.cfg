\* Six events, a history of three, waits of 1, 2, 4 and 5 units.
SPECIFICATION StreamSpec
CONSTANTS
    MaxHistory = 3
    MaxBackoff = 5
    MaxEvents = 6
INVARIANT FeedExact
PROPERTY DaemonStaysOnDuty
CHECK_DEADLOCK FALSE
