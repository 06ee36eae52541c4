SPECIFICATION PartsSpec
CONSTANTS
    Parts = {"unwind"}
    CodeSections = {".text"}
    DataSections = {".data"}
    Gaps = {17, 18}
    FileNums = {0, 1, 3}
    Lines = {4, 9, 10}
    Options <- Opts
    Paths <- Pths
    SourceFiles <- Srcs
    MaxDirectives = 3
    MaxBytes = 35
    None = None
    CfiInsns = {}
    CfiDirectives = 5
    Omit = Omit
    UnwindDirectives = 7
    UnwindSizes = {}
    UnwindOffsets = {}
    UnwindXmm = {}
    UnwindFrames = {}
CHECK_DEADLOCK FALSE
INVARIANT
    EntryRefersToInfo
