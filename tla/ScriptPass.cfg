CONSTANTS
    Major <- MCMajor
    Minor <- MCMinor
    Digits <- MCDigits
    DigitValue <- MCDigitValue
    Texts <- NewlineTexts
    SizeBits <- MCSizeBits
    NoValue = NoValue
    Thrown = Thrown
SPECIFICATION Spec
INVARIANT TypeOK
PROPERTIES
    FilterMatchesReference
    FilterTerminates
