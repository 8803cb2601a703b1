CONSTANTS
    Waypoints <- MCWaypoints
    MaxCalls <- MCMaxCalls
    OutboxCap <- MCOutboxCap
    TimeoutCalls <- MCLastCallTimesOut
    CustomCalls <- MCFirstLastCustom
SPECIFICATION Spec
INVARIANT TypeOK
 
PROPERTY CommandReturns
CHECK_DEADLOCK FALSE
