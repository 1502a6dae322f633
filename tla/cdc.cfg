CONSTANTS
    Byte = {0, 1}
    Gear <- MCGear
    Fingerprints = 16
    Strict = 4
    Loose = 2
    MinSize = 1
    AvgSize = 5
    MaxSize = 7
    Threshold = 10
    SampleWidth = 2
    StrideWords = 2
    MaxLength = 10
SPECIFICATION Spec
INVARIANTS TypeOK ChunksTile ShortcutsExact EditIsLocal
CHECK_DEADLOCK FALSE
