CONSTANTS
    PathKinds = {"POOL"}
    TextKinds = {"FQDN"}
    Common = Common
    Partitions = {Common, acme}
    Leaves = {leaf}
    Names = {n1}
    SourceNets = {m1, m2}
    NumDocs = 1
    NumHosts = 2
    SourceNets6 = {m3, m4}
    Hosts6 = {h1, h2}
    Spellings = {lower, upper}
    NumDocs6 = 1
    Vocab <- NoVocab
    SessionWords = {}
    MaxCycle = 0
    Years = {}
    Instants = {}
    LastSecond = 0
    Identifiers = {}
    IdentTexts = {}
    None = None
SPECIFICATION Spec
INVARIANTS
    BookInverse
    BookNumbered
    BookPartitions
    ReadsBack
    Ipv6StructureKept
    AddressesAccounted
    TypeOK
PROPERTIES
    IsCodebook
CHECK_DEADLOCK FALSE
