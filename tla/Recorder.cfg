SPECIFICATION Spec
CONSTANTS
    Capacity = 400
    HeaderLens <- MCHeaderLens
    TextLens <- MCTextLens
    BurstLens <- MCBurstLens
    StampLens <- MCStampLens
    SizeMod = 1000
    MaxEntries = 12
INVARIANTS
    TypeOK
    RemainingNeverWraps
PROPERTIES
    NothingAfterTruncated
    StoppedIsFinal
