CONSTANTS
    MaxBlob = 3
    MinFrame = 2
    RxSz = 2
    WordSz = 8
    Knobs = {"baud", "parity"}
SPECIFICATION Spec
INVARIANTS TypeOK CleanUnlessRaced LengthInBounds ReportedAtMostOnce
PROPERTY DroppedStaysSilent
