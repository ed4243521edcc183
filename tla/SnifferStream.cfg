SPECIFICATION Spec
CONSTANTS
    w1 = w1
    w2 = w2
    HdrLen = 2
    MaxFrameLen = 4
    PayloadLen = 1
    Windows <- MCWindows
    StrayWindow = StrayWindow
    Noise = Noise
    Regs <- MCRegs
    KnownRegs <- MCKnownRegs
    Raw = {0, 1}
    Unseen = Unseen
    CommandRingSz = 2
    NoCommand = NoCommand
    RxBufSz = 4
    UartQueueSz = 2
    MaxBlob = 5
    MaxIters = 2
    RespTimeout = 0
    SkippedRingSz = 1
    WinRegs <- MCWinRegs
    None = None
    Traffic <- StreamTraffic
    NoiseBursts = {1}
    CutPoints = {2}
    Faults <- StreamFaults
    MaxFaults = 1
    MaxPolls = 2
    PollGap = 0
    ReplyBy = 0
    WholeFrames = FALSE
    Prompt = FALSE
INVARIANTS
    TypeOK
    BytesConserved
    FramesAccounted
    ReportedOnce
PROPERTIES
    ImplementsPairing
