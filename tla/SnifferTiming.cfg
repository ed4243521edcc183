SPECIFICATION FairSpec
CONSTANTS
    w1 = w1
    w2 = w2
    HdrLen = 2
    MaxFrameLen = 4
    PayloadLen = 1
    Windows <- MCWindows
    StrayWindow = StrayWindow
    Noise = Noise
    Regs <- MCRegs
    KnownRegs <- MCKnownRegs
    Raw = {0, 1}
    Unseen = Unseen
    CommandRingSz = 2
    NoCommand = NoCommand
    RxBufSz = 20
    UartQueueSz = 4
    MaxBlob = 20
    MaxIters = 8
    RespTimeout = 1
    SkippedRingSz = 1
    WinRegs <- MCWinRegs
    None = None
    Traffic <- MCTraffic
    NoiseBursts = {1, 3}
    CutPoints = {}
    Faults <- TimingFaults
    MaxFaults = 2
    MaxPolls = 2
    PollGap = 3
    ReplyBy = 1
    WholeFrames = TRUE
    Prompt = TRUE
INVARIANTS
    AnswerOfThisPoll
    CleanBusNoErrors
PROPERTIES
    NoFalseTimeout
    NoFrameSkipped
    RequestResolved
