CONSTANTS
    Obfuscations <- MCObfuscations
    Deobfuscations <- MCDeobfuscations
    InitialFiles <- MCInitialFiles
    StdText <- MCStdText
    Std = Std
    None = None
    pw1 = pw1
    pw2 = pw2
    MaxCommands = 3
SPECIFICATION Spec
INVARIANTS
    KeyOnDisk
    OldFilesKept
    RefusalWritesNothing
    SuccessIsDecodable
    ArchiveRecovered
    SuccessRestores
    TypeOK
PROPERTIES
    AnswerAtomic
    Finishes
CHECK_DEADLOCK FALSE
