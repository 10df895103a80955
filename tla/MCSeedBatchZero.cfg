\* "--batch-size 0" is accepted by the parser (seed.go:126 drops the Atoi error).
CONSTANTS
    NumWorkers = 3
    BatchSize = 0
    FundAmount <- MCFundAmount
    FeeReservePerWorker <- MCFeeReserve
    GasPerMsg <- MCGasPerMsg
    MinGasPrice <- MCMinGasPrice
    SeedKeyConfigs <- MCKeyConfigs
    SeedBalances <- MCSeedBalances
    WorkerBalances <- MCWorkerBalances
    MaxPolls = 2
    MaxRuns = 3
    Flaky = FALSE
SPECIFICATION Spec
INVARIANT NoEmptyBatch
\* The last run ends the process.
CHECK_DEADLOCK FALSE
