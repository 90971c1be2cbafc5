CONSTANTS
    Lines <- MCLines
    Procs = {p1, p2}
    HistSize = 2
SPECIFICATION Spec
INVARIANT ShellHeldExclusive
CHECK_DEADLOCK FALSE
