CONSTANTS
    Lines <- MCLines
    Procs = {p1, p2}
    HistSize = 2
SPECIFICATION FairSpec
PROPERTY ShellReprompts
CHECK_DEADLOCK FALSE
