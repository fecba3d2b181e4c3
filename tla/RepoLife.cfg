CONSTANTS
    p1 = p1  a = a  rm1 = rm1  mk1 = mk1  mk2 = mk2
    Procs = {p1}
    Dests = {a}
    Inodes = {i1, i2}
    NoInode = NoInode
    Leftovers = {}
    FlockFails = {}
    Targets <- Twice
    Parallel <- Nobody
    Update <- OnlyP1
    Commands = {rm1, mk1, mk2}
    Kind <- Kinds
    Target <- AtA
SPECIFICATION LifeFairSpec
INVARIANTS PartialIsReported OkMeansThere
PROPERTIES LostOnlyToRm EveryRunEnds
