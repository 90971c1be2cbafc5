CONSTANTS
    Lines <- MCLines
    Procs = {p1, p2}
    HistSize = 2
SPECIFICATION Spec
INVARIANTS TypeOK WaitSlot CountCovered
PROPERTIES WaitChannelRefined AnswerNeverParsed
CHECK_DEADLOCK FALSE
