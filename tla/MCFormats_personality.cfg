SPECIFICATION PartsSpec
CONSTANTS
    Parts = {"cfi"}
    CodeSections = {".text"}
    DataSections = {".data"}
    Gaps = {17, 18}
    FileNums = {0, 1, 3}
    Lines = {4, 9, 10}
    Options <- Opts
    Paths <- Pths
    SourceFiles <- Srcs
    MaxDirectives = 3
    MaxBytes = 35
    None = None
    CfiInsns = {}
    CfiDirectives = 6
    Omit = Omit
    UnwindDirectives = 5
    UnwindSizes <- SomeSizes
    UnwindOffsets <- SomeOffsets
    UnwindXmm <- SomeXmm
    UnwindFrames <- SomeFrames
CHECK_DEADLOCK FALSE
INVARIANT
    SamePersonality
