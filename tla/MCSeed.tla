------------------------------- MODULE MCSeed -------------------------------
(***************************************************************************)
(* Instance of Seed for TLC.  Three workers in batches of two give one     *)
(* full and one short batch (the 4, 4, 2 split of ten workers in batches   *)
(* of four, scaled down).  The amounts are scaled too, keeping what the    *)
(* code's amounts have: the fee of one message (100000 gas at 25e9) is     *)
(* larger than the fund amount, which is larger than the 10000 per worker  *)
(* fee reserve.  Two polls stand for the sixty of maxWait: one "not yet"   *)
(* and one more chance.  Two runs are an operator re-running the command.  *)
(***************************************************************************)
EXTENDS Seed

MCFundAmount == 2
MCFeeReserve == 1
MCGasPerMsg == 1
MCMinGasPrice == 3

\* A seed that fails the precheck (the total is 3 * (2 + 1) = 9), one at the
\* precheck's total whose first batch fails in its block, one that runs out
\* of fee in the second batch, and one that funds everything twice over.
MCSeedBalances == {8, 9, 12, 40}

\* An account the chain has never seen, and one already funded.
MCWorkerBalances == {0, 2}

MCKeyConfigs == {"alice", "keyName"}
=============================================================================
