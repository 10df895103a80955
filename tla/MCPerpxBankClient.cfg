CONSTANTS
    w1 = w1
    t1 = t1
    t2 = t2
    t3 = t3
    NoHolder = NoHolder
    Workers <- MCWorkers
    Threads <- MCThreads
    StartSeqs <- MCStartSeqs
    MaxCalls <- MCMaxCalls
SPECIFICATION FairSpec
INVARIANTS
    NoSeqReuse
    SeqContiguous
    NoAdvanceUnresolved
PROPERTIES
    ResolvedOnce
    AllocatorRefined
    CallsReturn
CHECK_DEADLOCK FALSE
