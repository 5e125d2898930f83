CONSTANTS
    NSlots = 2
    a = a
    b = b
    Tok = {a, b}
    NoTok = NoTok
    NoTask = NoTask
    NoFile = NoFile
    Configs <- AllConfigs
SPECIFICATION FairSpec
INVARIANT KvMatchesPrompt
PROPERTIES NoNeedlessExhaustion RequestsEnd
