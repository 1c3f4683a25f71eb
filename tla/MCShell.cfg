SPECIFICATION ShellFairSpec
CONSTANTS
    IntBits = 8
    LongBits = 16
    Width = 4
    Height = 2
    BufSize = 6
    MaxArgs = 2
    HistSize = 3
    Commands <- MCCommands
    Chars <- MCChars
    MaxKeys = 5
    MaxLogs = 1
INVARIANTS LineShown WordsRun
PROPERTIES LogsShown
CHECK_DEADLOCK FALSE
