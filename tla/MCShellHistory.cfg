CONSTANTS
    Lines <- MCLines
    Procs = {p1, p2}
    HistSize = 2
SPECIFICATION Spec
PROPERTY HistoryRecordsSubmitted
CHECK_DEADLOCK FALSE
