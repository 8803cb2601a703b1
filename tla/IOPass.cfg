CONSTANTS
    OutIds <- MCOutIds
    ToolIds <- MCToolIds
    AnalogIds <- MCAnalogIds
    Speeds <- MCSpeeds
    Ratios <- MCRatios
    InboxCap <- MCInboxCap
    NoValue = NoValue
    Thrown = Thrown
SPECIFICATION Spec
CONSTRAINT StateBound
INVARIANTS
    TypeOK
    DigitalOutputsMatch
