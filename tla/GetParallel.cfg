CONSTANTS
    p1 = p1  p2 = p2  p3 = p3  a = a  b = b
    Procs = {p1, p2}
    Dests = {a, b}
    Inodes = {i1, i2, i3, i4}
    NoInode = NoInode
    Leftovers = {}
    FlockFails = {b}
    Targets <- Crossed
    Parallel <- OnlyP1
    Update <- Nobody
SPECIFICATION Spec
SYMMETRY Symmetry
INVARIANTS DestNeverPartial OkMeansCloned
PROPERTIES TempfailMeansBusy
