CONSTANTS
    Chars <- MCChars
    MaxLen = 2
    HistSize = 3
SPECIFICATION Spec
INVARIANTS TypeOK CursorInLine HistoryTrimmed
PROPERTY HistoryRingRefined
