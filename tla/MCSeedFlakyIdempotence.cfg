\* Idempotence when a balance query fails transiently.
CONSTANTS
    NumWorkers = 3
    BatchSize = 2
    FundAmount <- MCFundAmount
    FeeReservePerWorker <- MCFeeReserve
    GasPerMsg <- MCGasPerMsg
    MinGasPrice <- MCMinGasPrice
    SeedKeyConfigs <- MCKeyConfigs
    SeedBalances <- MCSeedBalances
    WorkerBalances <- MCWorkerBalances
    MaxPolls = 2
    MaxRuns = 3
    Flaky = TRUE
SPECIFICATION FairSpec
INVARIANT NoDoubleFunding
\* The last run ends the process.
CHECK_DEADLOCK FALSE
