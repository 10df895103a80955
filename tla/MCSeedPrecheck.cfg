\* The precheck against the fees the batches really pay.
CONSTANTS
    NumWorkers = 3
    BatchSize = 2
    FundAmount <- MCFundAmount
    FeeReservePerWorker <- MCFeeReserve
    GasPerMsg <- MCGasPerMsg
    MinGasPrice <- MCMinGasPrice
    SeedKeyConfigs <- MCKeyConfigs
    SeedBalances <- MCSeedBalances
    WorkerBalances <- MCWorkerBalances
    MaxPolls = 2
    MaxRuns = 3
    Flaky = FALSE
SPECIFICATION FairSpec
INVARIANT PrecheckSufficient
\* The last run ends the process.
CHECK_DEADLOCK FALSE
