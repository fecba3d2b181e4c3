CONSTANTS
    a = a  b = b  c = c  d = d  e = e  f = f
    NoDir = NoDir
    N = 2
    Dirs = {a, b, c, d, e, f}
    Children <- Broad
    Initial = {a, b, f}
    Repos = {d, e}
    SearchOnly = {d}
    Faulty = {b, c, e}
    Panics = {}
    Detect = "OpenScan"
    FdCap = 1
SPECIFICATION FairSpec
INVARIANTS TypeOK NoEarlyExit FdSoftBound DescriptorsGivenBack CompleteOrFlagged
PROPERTIES WalkSpec EveryWorkerEnds
