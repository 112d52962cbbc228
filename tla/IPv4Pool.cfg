CONSTANTS
    SourceNets = {n1, n2, n3}
    NumDocs = 2
    NumHosts = 3
SPECIFICATION Spec
INVARIANTS
    Injective
    UncollapsedNetsKeepStructure
    TypeOK
CHECK_DEADLOCK FALSE
