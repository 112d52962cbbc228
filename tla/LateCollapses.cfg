CONSTANTS
    Common <- MCCommon
    None = None
    Punctuation <- MCPunctuation
    Indexes <- MCIndexes
    SourceNets = {0, 1, 5, 6}
    NumDocs = 1
    NumHosts = 3
    SourceNets6 = {1, 2}
    Hosts6 = {0}
    Spellings = {1, 2}
    NumDocs6 = 1
    Vocab <- MCVocab
    MaxCycle = 2
    LastSecond = 1
    Short <- MCShort
    Labels <- MCLabels
    Numbers <- MCNumbers
    Tlds <- MCTlds
    InternalSuffixes <- MCInternal
    Uppers <- MCUppers
    Singles <- MCSingles
    Sources <- MCLateCollapses
SPECIFICATION Spec
INVARIANTS
    CollapsesReported
CHECK_DEADLOCK FALSE
