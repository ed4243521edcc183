CONSTANTS
    MaxBlob = 3
    MinFrame = 2
    RxSz = 2
    WordSz = 8
    Knobs = {"baud"}
SPECIFICATION Spec
INVARIANT CleanBaseline
