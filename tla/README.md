# TLA+ models of perpx-load-test

This directory holds TLA+ models of the two stateful parts of the load tester:
- the per-worker transaction generator (`PerpxBankClient`, in `src/unnamed/part_003`);
- the funding planner (`seedAccounts`, in `src/pkg/seed/seed.go`);
- the standalone terminal UI (`startStandaloneTUI`, in `src/unnamed/part_003`)
  and the TUI-mode control flow of `ExecuteStandalone` (`src/unnamed/part_004`);
- the client factory and the bank-send strategy (`src/pkg/client/factory.go`,
  `src/pkg/strategies/bank_send.go`), composed with the generator and the
  ledger over several load-test processes (`LoadTest`).

It also holds TLC configurations that model-check them, TLAPS proofs about the
generator, and the project manifest `PROJECT.json`. The manifest records
components, runs, mutants, the definition-to-source map, findings, hazards and
theorems.

## The system

- **Funding planner** (`seed.Run` → `seedAccounts`). It is a single goroutine
  that runs once per `seed` command and works in this order:
  1. It resolves the seed key: a raw hex private key, otherwise a mnemonic
     ("alice" is replaced by the localnet mnemonic).
  2. It checks the seed balance against `Workers × (fund + 10000)`.
  3. It reads the seed account's committed sequence once.
  4. It classifies each of the W derived worker accounts by a balance query.
  5. It funds the underfunded ones in batches of `BatchSize` messages. Each
     batch is signed at `currentSeq` and broadcast in SYNC mode. Its status is
     then polled every 500 ms for up to 30 s, and `currentSeq++` follows only
     after a confirmation.
  6. It re-queries every funded account.

  Every error returns at once, and `Run` exits with status 1.
- **Per-worker generator** (`PerpxBankClient`). The external load engine calls
  `GenerateTx`, possibly from several goroutines at once.
  - The first call resolves the account under `accountQueryMtx`
    (`ensureAccountQueried`: lock, early return if already queried, REST query,
    store the sequence).
  - Every call then reserves a sequence with `atomic.AddUint64(&c.sequence,1)-1`,
    builds the MsgSend, and signs and encodes it.
  - The engine broadcasts what is returned. The chain's CheckTx admits a
    transaction only if its sequence is the account's next one.
- **Ledger** (external). It is a Cosmos SDK chain:
  - CheckTx runs the ante handler only, against the check state: the
    duplicate check, the fee deduction, then the sequence check.
  - DeliverTx charges the fee, advances the sequence, and runs the bank sends,
    which revert together if the seed cannot pay them.
- **Terminal UI** (`startStandaloneTUI`). It hides the cursor and starts a
  goroutine that loops on `select { ticker, stopc }`. On each tick it copies
  `tg.txCounts` under `tg.statsMtx.RLock`, releases the lock, clears the
  screen and draws a frame. On `stopc` it returns and closes `stopped` by
  defer. The returned stop function closes `stopc` unless it is already
  closed, waits on `stopped`, then clears the screen and shows the cursor.
  `ExecuteStandalone` defers the stop function, and on the `tg.Wait` error
  path also calls it before printing the error to stderr.
- **Client factory** (`PerpxBankClientFactory`). One per process. The
  engine calls `ValidateConfig` (connections > 0, time or count > 0, an
  endpoint), then `NewClient` once per transactor slot (connections ×
  endpoints) from `AddAll`. `NewClient` builds a `BankSendStrategy` from the
  environment (empty fields and a malformed sink address are errors, which
  end the process) and takes `workerID = AddInt64(&workerCounter, 1) - 1`.
- The key deriver and the rest of `ExecuteStandalone` are listed in
  `PROJECT.json` with their status.

The two parts interact only through the ledger. The planner funds accounts
0..W-1. Each generator signs for the account its worker ID derives.

## Modules

| module | models | state | actions |
|---|---|---|---|
| `PerpxBankClient` | `NewPerpxBankClient`, `ensureAccountQueried`, `GenerateTx`, plus the engine's broadcasts and the ledger's per-account sequences | per client: `accountQueried`, `sequence`, the mutex `holder`; per goroutine: `pc`, reserved `seq`; `generated` (the returned sequences, in return order); ghosts `skipped`, `startSeq`, `rejected`; ledger `funded`, `chainSeq`, `checkSeq`, `sent` | `GenerateTxCall`, `EnsureLock` (lock + early return), `EnsureQuery` (= `QueryAccountOK` or `QueryAccountFail`: every error return, Unlock by defer), `ReserveSeq` (the fetch-and-add), `BuildAndSign` (success, or an error return after the reservation); environment `BroadcastTx`, `BroadcastLost`, `CommitBlock` |
| `PerpxBankClientProofs` | the TLAPS proofs about `PerpxBankClient` | | |
| `SeedProofs`, `StandaloneTUIProofs`, `LoadTestProofs` | the TLAPS proofs about `Seed`, `StandaloneTUI` and `LoadTest` | | |
| `MCPerpxBankClient` | the TLC instance: 1 client, 3 goroutines, 4 calls, start sequences {0, 2} | | |
| `Seed` | `seedAccounts` one network call per step, repeated runs (`Run`), and the ledger | planner `pc`, `err`, `cause`, `curSeq`, `needs` (needsFunding), loop `idx`, `tx`, `polls`, `allFunded`, ghost `runSent`; ledger `seedBal`, `bal`, `chainSeq`, `checkSeq`, `pendingFees`, `mempool`, `committed`, ghosts `initBal`, `credits` | `ResolveSeedKey`, `QuerySeedBalance`, `QuerySeedAccount`, `ClassifyWorker`/`ClassifyDone`, `BuildAndBroadcast`/`BatchesDone`, `PollTxStatus`/`PollTimeout`, `VerifyWorker`/`VerifyDone`, `Rerun`; ledger `CommitTx`, `FlushMempool` |
| `SeqAllocator` | the spec's promise for sequences: resolved once from the ledger, then fresh numbers counting upwards | per account `resolved`, `counter`, `issued` | `Resolve`, `Allocate` |
| `LoadTest` | the factory (`ValidateConfig`, `NewClient`), `NewBankSendStrategy`, `AddAll`/`Start`, the client's query and reservation, over processes that start, run and exit, and a ledger | per process `pst`, `cfg`, `workerCounter`, per slot `wid`; per client `resolved`, `counter`, ghosts `stale`, `pendingSeen`; ledger `chainSeq`, `checkSeq` | `Start`, `NewClient`, `StartTransactors`, `QueryAccount`, `Send`, `SignFail`, `Exit`; ledger `Commit` |
| `MCLoadTest` | the TLC instance: 2 processes, configs with 2 or 0 connections, a valid and a malformed environment, 1 seeded worker | | |
| `MCSeed` | the TLC instance: 3 workers, batches of 2, scaled amounts | | |
| `StandaloneTUI` | `startStandaloneTUI`, its stop function, `ExecuteStandalone` in TUI mode; the transactors' writes to `txCounts` | main `mpc`, `ret` (where a stop call returns); UI `gpc`; channels `stopcClosed`, `stoppedClosed`; terminal `cursorHidden`, `errShown`; ghosts `errPrinted`, `restored`, `lateFrame`; stats `counts`, `writer`, `readLocked`, `snap`, `copied` | main `StartTUI`, `WaitDone`, `WriteStats`, `PrintErr`, `Return`; stop function `StopSelect`, `StopWait`, `StopRestore`; UI `TickRLock`, `CopyCount`, `TickRUnlock`, `Render`, `Exit`; transactors `RecordTx`, `ReleaseTx` |

A few points on the abstraction choices:
- Data is abstracted to what the properties tell apart. Accounts are indexes.
  Transactions are records of sequence, recipients and fee. Signing is
  deterministic, so the same batch at the same sequence is the same
  transaction, with the same hash.
- JSON decoding, URL building and printing become the branches the code takes
  on their outcome.
- In `Seed`, a transient network failure (`QueryFails`) is possible only when
  the constant `Flaky` is TRUE. This separates what the code guarantees on a
  reliable network from what it does when calls fail.

## Runs

| run | cfg | expect | checks | shows |
|---|---|---|---|---|
| `bank_client_safety` | `MCPerpxBankClient.cfg` | pass | NoSeqReuse, SeqContiguous, NoAdvanceUnresolved, ResolvedOnce, AllocatorRefined, CallsReturn | concurrent callers never share or skip a sequence, resolve the account once, implement `SeqAllocator`, always return (115k states) |
| `bank_client_gap_stall` | `MCPerpxBankClientGap.cfg` | violation | AllAdmitted | two goroutines reserve 0 and 1, the second returns first, and CheckTx refuses it; the client never resynchronises |
| `seed_reliable` | `MCSeedReliable.cfg` | pass | TypeOK, NoDoubleFunding, BatchesCoverNeeds, AtMostOnePending, SeedTerminates | three runs of the command against commits, drops and timeouts: idempotent, batches partition the needs list, one batch pending at a time, each run returns |
| `seed_flaky` | `MCSeedFlaky.cfg` | pass | SuccessImpliesFunded, SeedTerminates | with any call able to fail, success still means every worker is funded (205k states) |
| `seed_precheck` | `MCSeedPrecheck.cfg` | violation | PrecheckSufficient | a seed at exactly the precheck total passes it and then fails its first batch on chain |
| `tui_stop` | `MCStandaloneTUI.cfg` | pass | NoFrameAfterRestore, TerminalRestored, SnapshotConsistent, StopReturns | both stop calls, the UI goroutine and two transactors: no frame after the restore, the cursor always shown again, a consistent snapshot, and the command always returns |
| `tui_error_visible` | `MCStandaloneTUIError.cfg` | violation | ErrorStaysVisible | an error printed in TUI mode is wiped by the deferred stop call's `clearScreen` |
| `load_test_restarts` | `MCLoadTest.cfg` | pass | DistinctAccounts, RestartCostBounded | processes one after another: live clients never share an account, and a restarted client loses at most the transactions pending when it read its sequence |
| `load_test_shared_accounts` | `MCLoadTestShared.cfg` | violation | DistinctAccounts | two processes at once both hand out worker ID 0 |
| `load_test_restart_reuse` | `MCLoadTestRestart.cfg` | violation | NoStaleSequence | a process restarted while its predecessor's transaction is pending signs at a used sequence |
| `seed_batch_zero` | `MCSeedBatchZero.cfg` | violation | NoEmptyBatch | `--batch-size 0` builds an empty batch that the node rejects |
| `seed_flaky_idempotence` | `MCSeedFlakyIdempotence.cfg` | violation | NoDoubleFunding | a failed balance query of an already-funded worker sends it funds again |

Each property of a passing run has a mutant in `PROJECT.json`: a plausible bug
in a mapped definition (a dropped increment, an off-by-one in the batch end or
the poll bound, `<=` for `<`, a missing unlock) that TLC shows breaks it.

### Bounds, and why they are enough

- **Generator.** Workers share no variable, so one client shows every
  interleaving that matters.
  - Three goroutines allow two callers blocked behind the resolving one, and
    two concurrent reservations.
  - Four calls allow a failed first query followed by a successful retry, and
    then concurrent reservations.
  - Start sequences {0, 2} distinguish the committed sequence from 0.
- **Planner.**
  - Three workers in batches of two give a full batch and a short one, the
    scaled-down form of the spec's 4, 4, 2 split.
  - The amounts keep the order of the code's real amounts: fee per message
    (100000 × 25e9) > fund amount > the 10000 reserve.
  - The seed balances are: below the precheck; at it; enough for the first
    batch only; enough for everything.
  - Two polls cover "not yet, then confirmed or timed out".
  - Three runs cover a failed run followed by a recovery, and a run after
    success.
- **TUI.** Two transactors with counts up to 2 let a write fall between the
  UI's two per-entry copies. The main goroutine takes every path of
  `ExecuteStandalone` (success, `Wait` error, stats-file error), so the stop
  function runs once or twice, against a UI goroutine in any phase of a tick.
  No property is stated about closing `stopc` twice. Only the main goroutine
  calls the stop function, one call after the other, so the select at
  part_003:437-441 always sees the earlier close. Nor is there a property
  that a frame is drawn only after `RUnlock`: `TickRUnlock` releases the lock
  in the same step that enters render, so such a property would only restate
  that step.
- **Type invariants.** The type invariants of the bank client and the
  seeder are proved (`TypeCorrect`). TLC checks `TypeOK` only in
  `seed_reliable`, where an unbounded poll would break it.

- **Load test.** Two processes, each with a valid or an invalid config and
  environment, give every error path of client creation, a restart after an
  exit, and (with `Concurrent`) two processes at once. Two slots against one
  seeded worker give both a funded client and one whose query fails with 404.
  Sequences up to 3 let a pending transaction survive its process's exit.

### Fairness

- **Generator.** Each goroutine step is weakly fair. Go schedules runnable
  goroutines, and `sync.Mutex` hands the lock to a waiter that has starved for
  1 ms. The engine's calls and the ledger get no fairness.
- **Planner.** The planner's steps are weakly fair as a whole: it is one
  goroutine, and each network call is bounded by the 10 s client timeout. The
  ledger gets no fairness, because a block may never include a batch, which is
  exactly the timeout path. The operator's re-runs get none either.
- **TUI.** The main goroutine and the UI goroutine's steps inside a tick are
  weakly fair. `Exit`, the `stopc` case of the select, is strongly fair:
  the ticker case is ready again every second, so `Exit` is not continuously
  enabled. Go's select picks uniformly among ready cases, so a case that is
  ready infinitely often is eventually taken. Transactors get no fairness.

## Findings

1. **The precheck underestimates fees** (`seed.go:177`). The code reserves
   10000 per worker for fees, but each message pays 2.5e15. The
   InsufficientFunds check can pass, and a later batch then fails at CheckTx
   (fee) or in its block (sends), after earlier batches were funded.
2. **A transient query error is taken for an unfunded account**
   (`seed.go:345`). This breaks idempotence: a funded worker gets a second
   transfer. The spec's open question names the conflation.
3. **A generator gap or reorder stalls the worker** (`part_003:194`).
   - An out-of-order return, a signing failure after the reservation, or a lost
     broadcast makes CheckTx refuse the dependent transactions.
   - The counter is never re-read, so after a gap the worker's later
     transactions are all refused.
   - The spec calls a gap acceptable.

4. **Errors printed in TUI mode are wiped** (`part_004:59`). The code's
   comment says errors are printed after the UI stops.
   - On the `Wait` error path, the error is printed after an explicit stop,
     but the deferred stop call runs again on return and clears the screen.
   - On the stats-file path, the error is printed while the UI still runs;
     the next tick or the deferred stop clears it.

5. **Worker IDs are unique only within one process** (`factory.go:56`). The
   comment says each client gets a unique ID. Each process has its own factory
   counter from 0, so two load-test processes at once use the same accounts.
6. **A restart reuses pending sequences** (`part_003:180`). The query returns
   the committed sequence, not the mempool's; a client started while earlier
   transactions are pending signs at used sequences until it counts past them.
   `RestartCostBounded` shows the loss is bounded by what was pending.
7. **`--batch-size 0` is accepted** (`seed.go:126`). The Atoi error is dropped
   and the value is never checked, so the first batch is empty and rejected.
   A negative value panics at line 393 (not modelled).

## Proofs (TLAPS)

Four modules hold the proofs. Each extends the module it is about and proves
its theorems for every value of the constants, under that module's ASSUME.
TLC also evaluates each ASSUME on every run of the module. Every theorem
below states a property that a run checks on a small instance.

### `PerpxBankClientProofs`

These theorems hold for any set of clients and goroutines, any start
sequences and any call bound, under `ConstantsAssumption`:
- `TypeCorrect`: `Spec => []TypeOK`.
- `NoSeqReuseHolds`: `Spec => []NoSeqReuse`.
- `AllocatorRefinement`: `Spec => AllocatorRefined`. `PerpxBankClient`
  implements `SeqAllocator` under this mapping:
  - resolved ← `accountQueried`;
  - counter ← `sequence`;
  - issued ← the generated, in-flight and skipped sequences.
- `SeqContiguousHolds`: `Spec => []SeqContiguous`.
- `NoAdvanceUnresolvedHolds`: `Spec => []NoAdvanceUnresolved`.
- `ResolvedOnceHolds`: `Spec => ResolvedOnce`. This is the action property
  that no step unresolves an account, changes its start, or lowers its
  counter.

`NoSeqReuse` is not inductive as stated. The proof uses `SeqInv`, which is
`TypeOK` plus these conjuncts per client:
- a goroutine in reserve or sign implies that the account is queried;
- a goroutine in query holds the mutex on an unqueried account;
- no transaction was generated before the account was queried;
- every generated sequence, and every sequence being signed, is below the
  counter;
- the generated sequences are pairwise distinct;
- the in-flight sequences are pairwise distinct and not among the generated
  ones.

The counter bound is the key conjunct. `ReserveSeq` hands out the current
counter value, which no earlier sequence can equal because all of them are
below it, and then raises the counter. The mutex conjuncts are needed because
a query resets the counter: they show that no goroutine holds a sequence while
a query can still happen.

The proof has one lemma per action, and per action one step per conjunct the
action can disturb. `TypeOK` is split into its client and ledger halves, so
that each step expands only what it changes.

The refinement proof strengthens `SeqInv` with `SkipInv`: an unqueried
account has skipped nothing, and every skipped sequence is below the counter.
`RefInv` is `SeqInv /\ SkipInv`. The proof shows `Init => Alloc!Init`. It
also shows that each action maps to one of:
- `Resolve`, for `EnsureQuery` on success;
- `Allocate`, for `ReserveSeq`;
- a stutter, for every other step, which leaves the issued set and the
  counter unchanged.

The last three theorems are proved through the allocator:
- `ContigInv(w)` says that an unqueried client has counter 0 and has issued
  nothing, and that a queried one has issued exactly
  `startSeq .. sequence - 1`.
- It is proved by cases on the allocator step that each client step maps to.
  `QueriedFrame` shows that only the successful query writes `startSeq`.
- `ResolvedOnce` follows from the same two facts. `Resolve` applies to an
  unresolved account only, and `Allocate` raises the counter by one.

TLC checked `SeqInv` and `ContigInv` on the `bank_client_safety` instance
before they were proved.

### `SeedProofs`

These theorems hold for any number of workers, batch size, amount, fee, poll
bound and run bound, under `SeedAssumption`:
- `TypeCorrect`;
- `AtMostOnePendingHolds`;
- `BatchesCoverNeedsHolds`;
- `SuccessImpliesFundedHolds`;
- `NoDoubleFundingHolds`, under the hypothesis `~Flaky`.

Their strengthenings are:
- `IInv = TypeOK /\ LedgerInv /\ CursorInv`.
  - `LedgerInv`: the check state is exactly one ahead of the committed state
    per pending transaction, and the only transaction that can be pending is
    the one at the committed sequence.
  - `CursorInv`: `currentSeq` never runs ahead of the chain.
  - Both are needed to show that a new batch is never accepted while another
    is pending, and that the seed balance stays natural.
- `BatchInv` says where the batch loop stands in `needs`, for
  `BatchesCoverNeeds`.
- `FundedInv` holds that every worker that classification has passed is in
  `needs` or already funded, and that balances only grow. It is needed for
  `SuccessImpliesFunded`.
- `DInv` is the strengthening for `NoDoubleFunding`:
  - `Accounting`: a balance is the initial balance plus `FundAmount` times the
    number of credits.
  - `PendingFresh`: a pending batch has increasing, uncredited recipients.
  - `PlannerFresh`: while `currentSeq` equals the chain's sequence, the
    accounts from the cursor on are still uncredited. After a batch is
    admitted, the chain is one ahead and the mempool is empty.

  The argument behind `DInv` runs as follows:
  - A batch is built only from uncredited accounts at the sequence the chain
    expects.
  - When any other transaction lands first, the chain moves past
    `currentSeq`, and nothing later in that run can be admitted.
  - `~Flaky` is what makes classification sound. With failing queries, a
    batch that timed out but committed is funded again (finding 2), and the
    `seed_flaky_idempotence` run shows this.

### `StandaloneTUIProofs`

These theorems hold for any non-empty set of transactors and any count bound,
under `TUIAssumption`:
- `NoFrameAfterRestoreHolds`;
- `TerminalRestoredHolds`;
- `SnapshotConsistentHolds`.

All three rest on `TUIInv`, which says:
- the UI goroutine has not started while main is at its start;
- `statsMtx` is read-locked exactly while the UI copies the counters, and
  then no transactor holds it for writing;
- `stopped` is closed only by the UI's exit;
- the stop function restores the terminal only after `<-stopped`;
- main reaches `exited` only through the restore, which shows the cursor.

### `LoadTestProofs`

These theorems hold for any processes, configs and environments, when
processes run one at a time (the hypothesis `~Concurrent`), under
`LoadTestAssumption` and `SlotsAssumption`:
- `DistinctAccountsHolds`;
- `RestartCostBoundedHolds`.

`SlotsAssumption` states what the CHOOSE in `Slots` presumes: the configs'
connections × endpoints have a largest value. It holds for any finite set of
configs.

`DistinctAccounts` needs `IdInv`:
- every id a factory handed out is below its `workerCounter`;
- `workerCounter` equals the number of slots given an id;
- the ids of one process are distinct;
- without `Concurrent`, at most one process is adding or running.

The counting conjunct makes every id an account of `Accounts`, via
`FS_Subset` on the finite `Slots`.

`RestartCostBounded` needs `ClientInv` as well. For a running, resolved
client, `stale + (checkSeq[account] - counter) <= pendingSeen`.
- A refused transaction adds one loss and closes the gap by one.
- An admitted one moves the counter and the check state together.
- A sign failure only closes the gap.
- No other running client moves that account's check state, which is where
  the proof uses `DistinctAccounts`.

With `Concurrent`, `DistinctAccounts` fails (finding 5, run
`load_test_shared_accounts`), and the `RestartCostBounded` proof no longer
applies.

Before each proof, TLC checked the strengthening as an invariant on the same
instance as the run of its property: `SeqInv`, `RefInv`, `ContigInv`, `IInv`, `BatchInv`,
`FundedInv`, `DInv`, `TUIInv`, `IdInv` and `CostInv`. `CostInv` was also
checked with two funded accounts, so that both clients of a process resolve.

### What only TLC checks, and why

- The liveness properties `CallsReturn`, `SeedTerminates` and `StopReturns`.
  TLAPS cannot reason about fairness or ENABLED, so these stay with TLC under
  the fairness described above.
- The violated properties of the violation runs, which are counterexamples
  and not theorems.
- Nothing in the four proof modules uses RECURSIVE operators, Bitwise or
  UndirectedGraphs. Those modules would take the SMT backend away from the
  prover.

## Not modelled, and the plan

- The account deriver is a hash; accounts are indexes, and worker w signs
  for account w.
- The transaction encoding is a byte transformation.
- The shell script and the READMEs are not Go code.
- The load engine itself (`TransactorGroup`, rate control) is outside `src/`;
  `LoadTest` models only the calls it makes into this code.

Planned next:
1. Liveness of the load test: a funded client eventually has a transaction
   admitted. This needs fairness on `Commit` and `Send`, and TLC only.
2. The remaining steps of the Seed and TUI proofs: the action property that a
   worker's balance never decreases, and a refinement of the planner's
   batches against an abstract funding specification.
