\* The planner against a ledger whose queries and broadcasts never fail.
CONSTANTS
    NumWorkers = 3
    BatchSize = 2
    FundAmount <- MCFundAmount
    FeeReservePerWorker <- MCFeeReserve
    GasPerMsg <- MCGasPerMsg
    MinGasPrice <- MCMinGasPrice
    SeedKeyConfigs <- MCKeyConfigs
    SeedBalances <- MCSeedBalances
    WorkerBalances <- MCWorkerBalances
    MaxPolls = 2
    MaxRuns = 3
    Flaky = FALSE
SPECIFICATION FairSpec
INVARIANTS TypeOK NoDoubleFunding BatchesCoverNeeds AtMostOnePending
PROPERTIES SeedTerminates
\* The last run ends the process.
CHECK_DEADLOCK FALSE
