-------------------------------- MODULE Seed --------------------------------
(***************************************************************************)
(* The funding planner, seedAccounts in src/pkg/seed/seed.go, run against  *)
(* a ledger node, possibly several times in a row by the operator.         *)
(*                                                                         *)
(* The planner is one sequential process: pc names the point of            *)
(* seedAccounts it has reached.  Every network call it makes is one step,  *)
(* so the ledger can move (a block commits, the mempool is flushed)        *)
(* between any two of them.  Worker accounts are the indexes 0..W-1 that   *)
(* seed.go derives its bench keys from; the key derivation itself is a     *)
(* hash and is abstracted to the index.  Amounts are integers in the one   *)
(* denomination cfg.Denom; the fund coin is assumed to be in that          *)
(* denomination.                                                           *)
(*                                                                         *)
(* The ledger is the Cosmos SDK chain: CheckTx runs the ante handler only  *)
(* (fee deduction, then the signature sequence check) against the check    *)
(* state, DeliverTx runs the ante handler and then the bank sends, which   *)
(* fail as a whole when the seed cannot pay them.  The ledger is not code  *)
(* of this repository; its actions are modelled from the SDK's behaviour.  *)
(***************************************************************************)
EXTENDS Naturals, Sequences, FiniteSets

CONSTANTS
    NumWorkers,          \* cfg.Workers
    BatchSize,           \* cfg.BatchSize
    FundAmount,          \* fundCoin.Amount
    FeeReservePerWorker, \* the 10000 per worker of estimatedFees
    GasPerMsg,           \* the 100000 gas per message of the batch loop
    MinGasPrice,         \* the 25000000000 of the batch loop
    SeedKeyConfigs,      \* the key material an operator may supply
    SeedBalances,        \* possible initial balances of the seed account
    WorkerBalances,      \* possible initial balances of a worker account
    MaxPolls,            \* status polls within maxWait (30s / 500ms)
    MaxRuns,             \* times the operator runs the seed command
    Flaky                \* whether a network call may fail transiently

KeyConfigs == {"privateKey", "badPrivateKey", "alice", "mnemonic", "keyName"}

ASSUME SeedAssumption ==
    /\ NumWorkers \in Nat
    /\ BatchSize \in Nat
    /\ {FundAmount, FeeReservePerWorker, GasPerMsg, MinGasPrice} \subseteq Nat
    /\ SeedKeyConfigs \subseteq KeyConfigs /\ SeedKeyConfigs # {}
    /\ SeedBalances \subseteq Nat /\ WorkerBalances \subseteq Nat
    /\ SeedBalances # {} /\ WorkerBalances # {}
    /\ MaxPolls \in Nat \ {0} /\ MaxRuns \in Nat \ {0}
    /\ Flaky \in BOOLEAN

VARIABLES
    pc,          \* where seedAccounts is
    err,         \* the error seedAccounts returned, "none" on success
    cause,       \* the chain's reason when a broadcast or a block failed it
    run,         \* which invocation of the seed command this is
    curSeq,      \* currentSeq
    needs,       \* needsFunding, in worker order
    idx,         \* the loop index of the classification, batch or verify loop
    tx,          \* the batch transaction last broadcast
    polls,       \* status polls made for tx
    allFunded,   \* allFunded of the verification loop
    runSent,     \* ghost: the accounts of this run's broadcast batches, in order
    seedBal,     \* committed balance of the seed account
    bal,         \* committed balances of the worker accounts
    chainSeq,    \* committed sequence of the seed account
    checkSeq,    \* sequence of the seed account in the mempool's check state
    pendingFees, \* fees the check state has deducted for pending transactions
    mempool,     \* pending transactions
    committed,   \* included transactions with their result codes
    initBal,     \* ghost: the worker balances before the first run
    credits      \* ghost: transfers each worker account has received

plannerVars == <<pc, err, cause, run, curSeq, needs, idx, tx, polls, allFunded, runSent>>
ledgerVars == <<seedBal, bal, chainSeq, checkSeq, pendingFees, mempool, committed, initBal, credits>>
vars == <<plannerVars, ledgerVars>>

Ws == 0 .. (NumWorkers - 1)

\* totalRequired: the fund amount per worker plus the estimated fee reserve.
TotalRequired == FundAmount * NumWorkers + FeeReservePerWorker * NumWorkers

\* feeAmount of a batch of k messages: gasLimit = 100000 * k times minGasPrice.
BatchFee(k) == MinGasPrice * (GasPerMsg * k)

\* Mutant: end = i + BatchSize - 1.
BatchOfShort(s, i) ==
    SubSeq(s, i + 1, IF i + BatchSize - 1 > Len(s) THEN Len(s) ELSE i + BatchSize - 1)

\* needsFunding[i:end] with end capped at len(needsFunding); i is 0-based.
BatchOf(s, i) ==
    SubSeq(s, i + 1, IF i + BatchSize > Len(s) THEN Len(s) ELSE i + BatchSize)

\* A transaction is identified by its bytes, and signing is deterministic:
\* the same batch signed at the same sequence is the same transaction.
Txs == [seq : Nat, to : Seq(Ws), fee : Nat]
Codes == {"ok", "InsufficientFunds", "InsufficientFee"}
Errors == {"none", "ConfigError", "QueryFailed", "InsufficientFunds",
           "BroadcastError", "BroadcastRejected", "OnChainFailure",
           "ConfirmationTimeout", "PartialFundingFailure"}
Causes == {"none", "Duplicate", "EmptyTx", "InsufficientFee", "WrongSequence",
           "InsufficientFunds"}
PCs == {"key", "seedBalance", "seedAccount", "classify", "build", "poll",
        "verify", "done", "failed"}

Fail(e) == /\ pc' = "failed"
           /\ err' = e

\* A network read that may fail transiently: only when Flaky.
QueryFails == Flaky

(***************************************************************************)
(* The ledger's answer to a broadcast in SYNC mode: the first check that   *)
(* fails, in the order CometBFT and the ante handler run them.             *)
(***************************************************************************)
CheckTxError(t) ==
    CASE t \in mempool                      -> "Duplicate"
      [] Len(t.to) = 0                      -> "EmptyTx"
      [] seedBal - pendingFees < t.fee      -> "InsufficientFee"
      [] t.seq # checkSeq                   -> "WrongSequence"
      [] OTHER                              -> "none"

Init ==
    /\ pc = "key"
    /\ err = "none"
    /\ cause = "none"
    /\ run = 1
    /\ curSeq = 0
    /\ needs = <<>>
    /\ idx = 0
    /\ tx = [seq |-> 0, to |-> <<>>, fee |-> 0]
    /\ polls = 0
    /\ allFunded = TRUE
    /\ runSent = <<>>
    /\ seedBal \in SeedBalances
    /\ bal \in [Ws -> WorkerBalances]
    /\ chainSeq = 0
    /\ checkSeq = 0
    /\ pendingFees = 0
    /\ mempool = {}
    /\ committed = {}
    /\ initBal = bal
    /\ credits = [w \in Ws |-> 0]

(***************************************************************************)
(* Key resolution, lines 185-228: a raw private key takes precedence and   *)
(* must be 32 bytes of hex; otherwise "alice" is replaced by the localnet  *)
(* mnemonic and the key must be a mnemonic.  Parsing the fund amount       *)
(* (lines 169-173) is a configuration check of the same kind; the model's  *)
(* fund amount is always a valid coin.                                     *)
(***************************************************************************)
ResolveSeedKey ==
    /\ pc = "key"
    /\ \E k \in SeedKeyConfigs :
          IF k \in {"privateKey", "alice", "mnemonic"}
            THEN pc' = "seedBalance" /\ UNCHANGED err
            ELSE Fail("ConfigError")
    /\ UNCHANGED <<cause, run, curSeq, needs, idx, tx, polls, allFunded, runSent, ledgerVars>>

\* The seed balance query and the InsufficientFunds precheck, lines 246-284.
QuerySeedBalance ==
    /\ pc = "seedBalance"
    /\ \/ QueryFails /\ Fail("QueryFailed")
       \/ seedBal < TotalRequired /\ Fail("InsufficientFunds")
       \/ seedBal >= TotalRequired /\ pc' = "seedAccount" /\ UNCHANGED err
    /\ UNCHANGED <<cause, run, curSeq, needs, idx, tx, polls, allFunded, runSent, ledgerVars>>

\* The account query, lines 286-319: the committed sequence, read once.
QuerySeedAccount ==
    /\ pc = "seedAccount"
    /\ \/ QueryFails /\ Fail("QueryFailed") /\ UNCHANGED <<curSeq, needs, idx>>
       \/ /\ pc' = "classify"
          /\ curSeq' = chainSeq
          /\ needs' = <<>>
          /\ idx' = 0
          /\ UNCHANGED err
    /\ UNCHANGED <<cause, run, tx, polls, allFunded, runSent, ledgerVars>>

\* Mutant: a balance equal to the fund amount counts as underfunded.
ClassifyWorkerLTE ==
    /\ pc = "classify"
    /\ idx < NumWorkers
    /\ \/ QueryFails /\ needs' = Append(needs, idx)
       \/ needs' = IF bal[idx] <= FundAmount THEN Append(needs, idx) ELSE needs
    /\ idx' = idx + 1
    /\ UNCHANGED <<pc, err, cause, run, curSeq, tx, polls, allFunded, runSent, ledgerVars>>

\* Mutant: a failed query counts as "already funded".
ClassifyWorkerErrorSkips ==
    /\ pc = "classify"
    /\ idx < NumWorkers
    /\ \/ QueryFails /\ UNCHANGED needs
       \/ needs' = IF bal[idx] < FundAmount THEN Append(needs, idx) ELSE needs
    /\ idx' = idx + 1
    /\ UNCHANGED <<pc, err, cause, run, curSeq, tx, polls, allFunded, runSent, ledgerVars>>

(***************************************************************************)
(* One iteration of the classification loop, lines 340-377: a failed       *)
(* query, a non-200 answer or an undecodable body counts as "needs         *)
(* funding", and so does a balance below the fund amount.                  *)
(***************************************************************************)
ClassifyWorker ==
    /\ pc = "classify"
    /\ idx < NumWorkers
    /\ \/ QueryFails /\ needs' = Append(needs, idx)
       \/ needs' = IF bal[idx] < FundAmount THEN Append(needs, idx) ELSE needs
    /\ idx' = idx + 1
    /\ UNCHANGED <<pc, err, cause, run, curSeq, tx, polls, allFunded, runSent, ledgerVars>>

\* The end of the classification loop, lines 379-387: nothing to fund is success.
ClassifyDone ==
    /\ pc = "classify"
    /\ idx = NumWorkers
    /\ IF needs = <<>>
         THEN pc' = "done" /\ UNCHANGED idx
         ELSE pc' = "build" /\ idx' = 0
    /\ UNCHANGED <<err, cause, run, curSeq, needs, tx, polls, allFunded, runSent, ledgerVars>>

(***************************************************************************)
(* One batch, lines 387-497: the transfer messages of needsFunding[i:end], *)
(* the fee for their gas, signed at currentSeq and broadcast in SYNC mode. *)
(* The node either rejects it (a non-zero code is fatal) or puts it in the *)
(* mempool; a transport error is fatal too, and the node may have accepted *)
(* the transaction before the reply was lost.  Building and signing fail   *)
(* only on malformed inputs, which the model does not produce.             *)
(***************************************************************************)
BuildAndBroadcast ==
    /\ pc = "build"
    /\ idx < Len(needs)
    /\ LET t == [seq |-> curSeq, to |-> BatchOf(needs, idx),
                 fee |-> BatchFee(Len(BatchOf(needs, idx)))]
           Accept == /\ mempool' = mempool \cup {t}
                     /\ checkSeq' = checkSeq + 1
                     /\ pendingFees' = pendingFees + t.fee
       IN \/ /\ QueryFails
             /\ Fail("BroadcastError")
             /\ UNCHANGED <<tx, polls, runSent, cause>>
             /\ \/ CheckTxError(t) = "none" /\ Accept
                \/ UNCHANGED <<mempool, checkSeq, pendingFees>>
          \/ /\ CheckTxError(t) # "none"
             /\ Fail("BroadcastRejected")
             /\ cause' = CheckTxError(t)
             /\ UNCHANGED <<tx, polls, runSent, mempool, checkSeq, pendingFees>>
          \/ /\ CheckTxError(t) = "none"
             /\ Accept
             /\ pc' = "poll"
             /\ tx' = t
             /\ polls' = 0
             /\ runSent' = runSent \o t.to
             /\ UNCHANGED <<err, cause>>
    /\ UNCHANGED <<run, curSeq, needs, idx, allFunded, seedBal, bal, chainSeq,
                   committed, initBal, credits>>

\* The end of the batch loop, lines 387 and 561-563.
BatchesDone ==
    /\ pc = "build"
    /\ idx >= Len(needs)
    /\ pc' = "verify"
    /\ idx' = 0
    /\ allFunded' = TRUE
    /\ UNCHANGED <<err, cause, run, curSeq, needs, tx, polls, runSent, ledgerVars>>

\* Mutant: the loop condition is checked after one poll too many.
PollTxStatusNoBound ==
    /\ pc = "poll"
    /\ polls <= MaxPolls
    /\ \/ /\ QueryFails \/ \A r \in committed : r.tx # tx
          /\ polls' = polls + 1
          /\ UNCHANGED <<pc, err, cause, curSeq, idx>>
       \/ \E r \in committed :
            /\ r.tx = tx /\ r.code = "ok"
            /\ pc' = "build" /\ curSeq' = curSeq + 1 /\ idx' = idx + BatchSize
            /\ UNCHANGED <<polls, err, cause>>
    /\ UNCHANGED <<run, needs, tx, allFunded, runSent, ledgerVars>>

\* Mutant: the elapsed time is never advanced, so maxWait never passes.
PollTxStatusNoCount ==
    /\ pc = "poll"
    /\ polls < MaxPolls
    /\ \/ /\ QueryFails \/ \A r \in committed : r.tx # tx
          /\ UNCHANGED <<pc, err, cause, curSeq, idx, polls>>
       \/ \E r \in committed :
            /\ r.tx = tx /\ r.code = "ok"
            /\ pc' = "build" /\ curSeq' = curSeq + 1 /\ idx' = idx + BatchSize
            /\ UNCHANGED <<polls, err, cause>>
    /\ UNCHANGED <<run, needs, tx, allFunded, runSent, ledgerVars>>

\* Mutant: the next batch is built without waiting for the confirmation.
PollTxStatusNoWait ==
    /\ pc = "poll"
    /\ polls < MaxPolls
    /\ pc' = "build" /\ curSeq' = curSeq + 1 /\ idx' = idx + BatchSize
    /\ UNCHANGED <<polls, err, cause, run, needs, tx, allFunded, runSent, ledgerVars>>

(***************************************************************************)
(* One iteration of the polling loop, lines 499-555, and what follows a    *)
(* confirmation: currentSeq++ and i += BatchSize (lines 558 and 387).  A   *)
(* failed query, a 404 or an undecodable body all mean "poll again".       *)
(***************************************************************************)
PollTxStatus ==
    /\ pc = "poll"
    /\ polls < MaxPolls
    /\ \/ /\ QueryFails \/ \A r \in committed : r.tx # tx
          /\ polls' = polls + 1
          /\ UNCHANGED <<pc, err, cause, curSeq, idx>>
       \/ \E r \in committed :
            /\ r.tx = tx
            /\ r.code # "ok"
            /\ Fail("OnChainFailure")
            /\ cause' = r.code
            /\ UNCHANGED <<polls, curSeq, idx>>
       \/ \E r \in committed :
            /\ r.tx = tx
            /\ r.code = "ok"
            /\ pc' = "build"
            /\ curSeq' = curSeq + 1
            /\ idx' = idx + BatchSize
            /\ UNCHANGED <<polls, err, cause>>
    /\ UNCHANGED <<run, needs, tx, allFunded, runSent, ledgerVars>>

\* maxWait elapsed without an inclusion, lines 556-560.
PollTimeout ==
    /\ pc = "poll"
    /\ polls = MaxPolls
    /\ Fail("ConfirmationTimeout")
    /\ UNCHANGED <<cause, run, curSeq, needs, idx, tx, polls, allFunded, runSent, ledgerVars>>

\* One iteration of the verification loop, lines 561-599.
VerifyWorker ==
    /\ pc = "verify"
    /\ idx < Len(needs)
    /\ \/ QueryFails /\ allFunded' = FALSE
       \/ allFunded' = (allFunded /\ bal[needs[idx + 1]] >= FundAmount)
    /\ idx' = idx + 1
    /\ UNCHANGED <<pc, err, cause, run, curSeq, needs, tx, polls, runSent, ledgerVars>>

\* The end of seedAccounts, lines 601-608.
VerifyDone ==
    /\ pc = "verify"
    /\ idx = Len(needs)
    /\ IF allFunded THEN pc' = "done" /\ UNCHANGED err
                    ELSE Fail("PartialFundingFailure")
    /\ UNCHANGED <<cause, run, curSeq, needs, idx, tx, polls, allFunded, runSent, ledgerVars>>

\* The operator runs the seed command again (Run, lines 53-73): a new process.
Rerun ==
    /\ pc \in {"done", "failed"}
    /\ run < MaxRuns
    /\ pc' = "key"
    /\ err' = "none"
    /\ cause' = "none"
    /\ run' = run + 1
    /\ curSeq' = 0
    /\ needs' = <<>>
    /\ idx' = 0
    /\ polls' = 0
    /\ allFunded' = TRUE
    /\ runSent' = <<>>
    /\ UNCHANGED <<tx, ledgerVars>>

(***************************************************************************)
(* The ledger.  A block includes the pending transaction at the committed  *)
(* sequence.  DeliverTx re-runs the ante handler: a fee the seed cannot    *)
(* pay fails the transaction with no effect, and the sequence gap it      *)
(* leaves makes the recheck evict the rest of the mempool.  Otherwise the  *)
(* fee is taken and the sequence advances, and the bank sends either all   *)
(* succeed or all revert with code InsufficientFunds.                      *)
(***************************************************************************)
Occurrences(s, w) == Cardinality({k \in DOMAIN s : s[k] = w})

CommitTx ==
    \E t \in mempool :
       /\ t.seq = chainSeq
       /\ IF seedBal < t.fee
            THEN /\ committed' = committed \cup {[tx |-> t, code |-> "InsufficientFee"]}
                 /\ mempool' = {}
                 /\ checkSeq' = chainSeq
                 /\ pendingFees' = 0
                 /\ UNCHANGED <<seedBal, bal, chainSeq, credits>>
            ELSE LET afterFee == seedBal - t.fee
                     cost == FundAmount * Len(t.to)
                 IN /\ chainSeq' = chainSeq + 1
                    /\ mempool' = mempool \ {t}
                    /\ pendingFees' = pendingFees - t.fee
                    /\ UNCHANGED checkSeq
                    /\ IF afterFee >= cost
                         THEN /\ seedBal' = afterFee - cost
                              /\ bal' = [w \in Ws |-> bal[w] + FundAmount * Occurrences(t.to, w)]
                              /\ credits' = [w \in Ws |-> credits[w] + Occurrences(t.to, w)]
                              /\ committed' = committed \cup {[tx |-> t, code |-> "ok"]}
                         ELSE /\ seedBal' = afterFee
                              /\ committed' = committed \cup {[tx |-> t, code |-> "InsufficientFunds"]}
                              /\ UNCHANGED <<bal, credits>>
    /\ UNCHANGED <<plannerVars, initBal>>

\* The node drops its pending transactions (a restart or an eviction); the
\* check state is reset to the committed state.
FlushMempool ==
    /\ mempool # {}
    /\ mempool' = {}
    /\ checkSeq' = chainSeq
    /\ pendingFees' = 0
    /\ UNCHANGED <<plannerVars, seedBal, bal, chainSeq, committed, initBal, credits>>

Planner ==
    \/ ResolveSeedKey \/ QuerySeedBalance \/ QuerySeedAccount
    \/ ClassifyWorker \/ ClassifyDone
    \/ BuildAndBroadcast \/ BatchesDone
    \/ PollTxStatus \/ PollTimeout
    \/ VerifyWorker \/ VerifyDone

Ledger == CommitTx \/ FlushMempool

Next == Planner \/ Rerun \/ Ledger

Spec == Init /\ [][Next]_vars

(***************************************************************************)
(* The planner is one goroutine that only waits on network calls, each     *)
(* bounded by a client timeout, so it keeps taking steps: weak fairness of *)
(* its steps.  The ledger gets no fairness (a block may never include the  *)
(* batch: that is the timeout path), and neither does the operator.        *)
(***************************************************************************)
FairSpec == Spec /\ WF_vars(Planner)

-----------------------------------------------------------------------------

TypeOK ==
    /\ pc \in PCs
    /\ err \in Errors
    /\ cause \in Causes
    /\ run \in 1 .. MaxRuns
    /\ curSeq \in Nat
    /\ needs \in Seq(Ws)
    /\ idx \in Nat
    /\ tx \in Txs
    /\ polls \in 0 .. MaxPolls
    /\ allFunded \in BOOLEAN
    /\ runSent \in Seq(Ws)
    /\ seedBal \in Nat
    /\ bal \in [Ws -> Nat]
    /\ chainSeq \in Nat
    /\ checkSeq \in Nat
    /\ pendingFees \in Nat
    /\ mempool \subseteq Txs
    /\ committed \subseteq [tx : Txs, code : Codes]
    /\ credits \in [Ws -> Nat]

(***************************************************************************)
(* Idempotence (the planner's contract): across any number of runs an     *)
(* account that already held the fund amount is never sent funds, and one *)
(* that did not is sent funds at most once.  Breaking it takes a run that  *)
(* times out or fails after its broadcast and a later run that funds the   *)
(* same accounts again; what prevents it is that every run signs at the    *)
(* committed sequence and the ledger refuses a second transaction there.  *)
(***************************************************************************)
NoDoubleFunding ==
    \A w \in Ws : credits[w] <= IF initBal[w] < FundAmount THEN 1 ELSE 0

(***************************************************************************)
(* The batch loop partitions needsFunding: the batches broadcast so far    *)
(* are, in order, a prefix of it, and when the loop ends they are all of   *)
(* it, so the verification loop checks exactly the accounts funded.        *)
(***************************************************************************)
BatchesCoverNeeds ==
    /\ pc \in {"build", "poll", "verify"} =>
          runSent = SubSeq(needs, 1, Len(runSent))
    /\ pc = "verify" => runSent = needs

(***************************************************************************)
(* Batches are confirmed before the next is built: the seed account never *)
(* has two transactions pending, in one run or across runs.                *)
(***************************************************************************)
AtMostOnePending == Cardinality(mempool) <= 1

(***************************************************************************)
(* A successful return means every worker account holds the fund amount,   *)
(* however the queries before it failed.                                   *)
(***************************************************************************)
SuccessImpliesFunded ==
    pc = "done" => \A w \in Ws : bal[w] >= FundAmount

(***************************************************************************)
(* The precheck guards the whole run: once the seed balance has passed it, *)
(* no batch fails because the seed cannot pay its fee or its transfers     *)
(* (the spec: InsufficientFunds is fatal before any broadcast).            *)
(***************************************************************************)
PrecheckSufficient ==
    err \in {"BroadcastRejected", "OnChainFailure"} =>
        cause \notin {"InsufficientFee", "InsufficientFunds"}

(***************************************************************************)
(* The batching loop (seed.go:388-393) never sends a transaction with no   *)
(* transfer in it: every batch it signs and broadcasts funds at least one  *)
(* account, so CheckTx never rejects a batch for being empty.              *)
(***************************************************************************)
NoEmptyBatch == cause # "EmptyTx"

(***************************************************************************)
(* Every invocation of the seed command returns: polling is bounded by     *)
(* maxWait, and every other call is made once.                             *)
(***************************************************************************)
SeedTerminates == pc \notin {"done", "failed"} ~> pc \in {"done", "failed"}

=============================================================================
