CONSTANTS
    CommandRingSz = 2
    SkippedRingSz = 2
    Raw = {1, 2}
    MaxFrames = 3
SPECIFICATION Spec
INVARIANTS TypeOK SnapshotReadTrue CommandsInOrder SkippedReal UnknownAddsUp
