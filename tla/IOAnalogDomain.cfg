CONSTANTS
    OutIds <- MCOutIds
    AnalogIds <- MCAnalogIdsBoth
    ToolIds <- MCToolIds
    Speeds <- MCSpeeds
    Ratios <- MCRatios
    InboxCap <- MCInboxCap
    NoValue = NoValue
    Thrown = Thrown
SPECIFICATION Spec
CONSTRAINT StateBound
INVARIANT AnalogDomainMatches
