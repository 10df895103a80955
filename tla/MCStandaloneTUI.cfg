\* ExecuteStandalone in TUI mode, with and without a load-test error and a
\* stats-file error, while two transactors record up to two transactions.
CONSTANTS
    x1 = x1
    x2 = x2
    Transactors = {x1, x2}
    MaxTx = 2
SPECIFICATION FairSpec
INVARIANTS NoFrameAfterRestore TerminalRestored SnapshotConsistent
PROPERTIES StopReturns
\* ExecuteStandalone has returned and the UI goroutine has exited: the
\* process ends, and the transactors may have stopped.
CHECK_DEADLOCK FALSE
