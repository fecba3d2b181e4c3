CONSTANTS
    p1 = p1  p2 = p2  p3 = p3  a = a  b = b
    Procs = {p1}
    Dests = {a}
    Inodes = {i1, i2, i3}
    NoInode = NoInode
    Leftovers = {}
    FlockFails = {}
    Targets <- Thrice
    Parallel <- OnlyP1
    Update <- Nobody
SPECIFICATION Spec
SYMMETRY Symmetry
INVARIANTS DestNeverPartial
