CONSTANTS
    Procs = {p1, p2}
    Files = {f1, f2, f3}
    Majors = {m1}
    TextCap = 4
    TextLens <- MCTextLens
    BadLen = 2
    SampleIds <- MCSampleIds
    ReadCounts <- MCReadCounts
    NoOwner = NoOwner
    Admin = Admin
    NoFile = NoFile
    NoMajor = NoMajor
SPECIFICATION Spec
INVARIANT
    LibraryInitialised
