CONSTANTS
    Lines <- MCLinesNoRepeat
    Procs = {p1}
    HistSize = 2
SPECIFICATION FFairSpec
PROPERTY ShellReprompts
CHECK_DEADLOCK FALSE
