CONSTANTS
    p1 = p1  p2 = p2  p3 = p3  a = a  b = b
    Procs = {p1, p2, p3}
    Dests = {a}
    Inodes = {i1, i2, i3}
    NoInode = NoInode
    Leftovers = {p2, p3}
    FlockFails = {}
    Targets <- SameTarget
    Parallel <- Nobody
    Update <- OnlyP1
SPECIFICATION Spec
SYMMETRY Symmetry
INVARIANTS TypeOK DestNeverPartial LiveCloneUndisturbed OkMeansCloned NothingLeftBehind LeftoversSwept
PROPERTIES TempfailMeansBusy AbstractSpec
