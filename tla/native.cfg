SPECIFICATION MCSpec
CONSTANTS
    MAX_CPU = 3
    t1 = t1
    t2 = t2
    esc = esc
    a = a
    A = A
    B = B
    f = f
    Tasks = {t1, t2}
    Keys = {esc, a}
    NoKey = NoKey
    Escape = esc
    KEY_QUEUE_LEN = 3
    MaxInits = 2
    MaxPresses = 4
    PipeSize = 3
    PipeBuf = 2
    Lengths = {1, 3}
    StreamLen = 2
    MaxBytes = 5
    MaxPipes = 2
    MaxCtrl = 2
    Spaces = {A, B}
    Vas = {1, 2}
    Pas = {f}
    Null = Null
    MaxMaps = 3
    Processors = {0, 1}
INVARIANTS
    NativeTypeOK
    DevicesReadyOnce
    PlayedInOrder
    HostIsSpace
PROPERTIES
    RingIsQueue
    EverythingIsRead
    EverythingIsPlayed
    SwitchEnds
CHECK_DEADLOCK FALSE
