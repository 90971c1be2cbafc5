CONSTANTS
    Chars <- MCChars
    MaxLen = 2
    HistSize = 3
SPECIFICATION Spec
PROPERTY TabListKeepsCursor
