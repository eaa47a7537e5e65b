SPECIFICATION Spec
CONSTANTS
    c1 = c1
    c2 = c2
    k1 = k1
    k2 = k2
    k3 = k3
    Call <- MCCall
    Key <- MCKey
    NoKey = NoKey
    Ttl = 1
    MaxEntries = 2
    MaxTime = 3
    MaxWrites = 2
SYMMETRY MCSymmetry
INVARIANTS
    TypeOK
    StalenessIsBounded
    StaleOnlyByOverlap
