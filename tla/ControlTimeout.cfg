CONSTANTS
    Waypoints <- MCWaypoints
    MaxCalls <- MCMaxCalls
    OutboxCap <- MCOutboxCap
    TimeoutCalls <- MCAnyCallTimesOut
    CustomCalls <- MCNoCustom
SPECIFICATION Spec
PROPERTY Refines
CHECK_DEADLOCK FALSE
