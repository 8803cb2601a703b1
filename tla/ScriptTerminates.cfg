CONSTANTS
    Major <- MCMajor
    Minor <- MCMinor
    Digits <- MCDigits
    DigitValue <- MCDigitValue
    Texts <- AllTexts
    SizeBits <- MCSizeBits
    NoValue = NoValue
    Thrown = Thrown
SPECIFICATION Spec
PROPERTIES
    FilterTerminates
