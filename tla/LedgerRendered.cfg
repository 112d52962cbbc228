CONSTANTS
    PathKinds = {}
    TextKinds = {}
    Common = Common
    Partitions = {Common}
    Leaves = {}
    Names = {}
    SourceNets = {}
    NumDocs = 1
    NumHosts = 1
    SourceNets6 = {}
    Hosts6 = {}
    Spellings = {}
    NumDocs6 = 0
    Vocab <- MCVocab
    SessionWords = {w1, w2, w3}
    MaxCycle = 2
    Years = {y1}
    Instants = {t1, t2, t3}
    LastSecond = 1
    Identifiers = {i1}
    IdentTexts <- MCIdentTexts
    None = None
SPECIFICATION Spec
INVARIANTS
    BookInverse
    SessionWordsUsed
PROPERTIES
    UsesVocab
CHECK_DEADLOCK FALSE
