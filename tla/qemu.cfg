SPECIFICATION MCSpec
CONSTANTS
    N = 3
    A = A
    B = B
    f = f
    Processors = {0, 1}
    Spaces = {A, B}
    PageFrames = {1, 2, 3}
    Dirs = {0, 1}
    KernelDir = 9
    Slots = {2, 3}
    Pas = {f}
    KernelTable = KernelTable
    Null = Null
    MaxCalls = 4
    Readers = {0, 1}
    PerMinute = 3
    PerHour = 2
    PerDay = 2
    MaxTicks = 7
    ScreenW = 3
    ScreenH = 2
    MaxX = 4
    MaxY = 3
    MaxSide = 3
INVARIANTS
    QemuTypeOK
    BootStackExclusive
    TablesOwned
    WalkIsMap
    UserSeesItsSpace
    ShownTime
    DrawnIsClipped
PROPERTIES
    AllEnter
    HaltPowersOff
CHECK_DEADLOCK FALSE
