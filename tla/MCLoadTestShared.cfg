\* Successive load-test processes (restarts) against one seeded account.
CONSTANTS
    p1 = p1
    p2 = p2
    Procs <- MCProcs
    Configs <- MCConfigs
    Envs <- MCEnvs
    SeedWorkers = 1
    StartSeqs = {0}
    MaxSeq = 3
    Concurrent = TRUE
SPECIFICATION Spec
INVARIANT
    DistinctAccounts
CHECK_DEADLOCK FALSE
