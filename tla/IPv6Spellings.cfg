CONSTANTS
    SourceNets = {n1, n2, n3}
    Hosts = {h1, h2}
    Spellings = {lower, upper}
    NumDocs = 2
SPECIFICATION Spec
INVARIANTS
    NoUnexpectedCollision
CHECK_DEADLOCK FALSE
