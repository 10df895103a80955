\* The planner against a ledger whose queries and broadcasts may fail.
CONSTANTS
    NumWorkers = 3
    BatchSize = 2
    FundAmount <- MCFundAmount
    FeeReservePerWorker <- MCFeeReserve
    GasPerMsg <- MCGasPerMsg
    MinGasPrice <- MCMinGasPrice
    SeedKeyConfigs <- MCKeyConfigs
    SeedBalances <- MCSeedBalances
    WorkerBalances <- MCWorkerBalances
    MaxPolls = 2
    MaxRuns = 3
    Flaky = TRUE
SPECIFICATION FairSpec
INVARIANTS SuccessImpliesFunded
PROPERTIES SeedTerminates
\* The last run ends the process.
CHECK_DEADLOCK FALSE
