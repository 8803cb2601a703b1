CONSTANTS
    OutIds <- MCOutIds
    AnalogIds <- MCAnalogIds
    ToolIds <- MCToolIds
    Speeds <- MCSpeeds
    Ratios <- MCRatios
    InboxCap <- MCInboxCapTwo
    NoValue = NoValue
    Thrown = Thrown
SPECIFICATION Spec
CONSTRAINT StateBound
PROPERTY ProgramStateFresh
