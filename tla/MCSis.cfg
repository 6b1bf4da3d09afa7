CONSTANTS
    Modes <- MCModes
    ShortNames <- MCNames
    Alerts <- MCAlerts
    LongName = 8
    Message = 5
    Ussn = 7
    Slogan = 6
    Services = 2
    Parameters = 3
    Clocked = TRUE
    MaxFrames = 2
    MaxUnseen = 3
    Lengths <- MCLengths
    AlertTexts <- MCAlertTexts
    Digits <- MCDigits
    MaxLocations = 31
SPECIFICATION SisSpec
INVARIANTS
    FrameInRange
    AlertUnmixed
    SentWholeOnce
    HeadersFit
    LocationsRecovered
PROPERTIES
    AlertReceived
    EncoderGoesRound
