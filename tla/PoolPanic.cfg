CONSTANTS
    a = a  b = b  c = c  d = d  e = e  f = f
    NoDir = NoDir
    N = 3
    Dirs = {a, b, c, d}
    Children <- Wide
    Initial = {a}
    Repos = {d}
    SearchOnly = {}
    Faulty = {}
    Panics = {a, b}
    Detect = "StatFirst"
    FdCap = 2
SPECIFICATION TimedSpec
INVARIANTS IInv
PROPERTIES EveryWorkerEnds
