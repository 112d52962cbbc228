CONSTANTS
    Obfuscations <- MCTwins
    Deobfuscations <- MCNone
    InitialFiles <- MCInitialTwins
    StdText <- MCStdText
    Std = Std
    None = None
    pw1 = pw1
    pw2 = pw2
    MaxCommands = 1
SPECIFICATION Spec
INVARIANTS
    SuccessIsDecodable
CHECK_DEADLOCK FALSE
