CONSTANTS
    Thread = {t1, t2}
    Kid = kid
    Main = t1
    Parent = parent
    Child = child
    None = None
    Ghost = Ghost
    MaxDepth = 2
    MaxStatements = 0
    MaxCalls <- MCOneCall
SPECIFICATION FairSpec
PROPERTIES WritersProceed TransactionsEnd
CHECK_DEADLOCK FALSE
