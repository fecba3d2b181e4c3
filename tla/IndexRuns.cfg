CONSTANTS
    r = r  x = x  y = y  l1 = l1  l2 = l2
    Paths = {r, x, y}
    Root = r
    Parent <- Chain
    Inos = {1}
    Procs = {l1, l2}
    Exclude <- NoExclusion
    Faulty = {y}
    Window = 2
    MaxWalk = 1
    MaxTime = 3
    MaxEdits = 1
    MaxRuns = 3
    SwapMidRun = FALSE
    NoIndex = NoIndex
SPECIFICATION Spec
SYMMETRY Symmetry
CHECK_DEADLOCK FALSE
INVARIANTS TypeOK QuietRunIsRight NothingStaleIsBelieved WrittenDecodes
