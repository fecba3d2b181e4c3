CONSTANTS
    a = a  b = b  c = c  d = d  e = e  f = f
    NoDir = NoDir
    N = 2
    Dirs = {a, b, c}
    Children <- Line
    Initial = {a, c}
    Repos = {b}
    SearchOnly = {b}
    Faulty = {}
    Panics = {}
    Detect = "OpenScan"
    FdCap = 1
SPECIFICATION Spec
INVARIANTS SearchOnlyListed
