----------------------------- MODULE LoadTest ------------------------------
(***************************************************************************)
(* The load-test processes of the tool, composed with the accounts the    *)
(* seeder funded and the ledger they share.                               *)
(*                                                                         *)
(* Each process registers one PerpxBankClientFactory (workerCounter = 0), *)
(* has the engine validate its configuration (ValidateConfig), and then   *)
(* creates connections x endpoints clients with NewClient.  NewClient     *)
(* builds the bank-send strategy from the environment (an error returns   *)
(* before any id is taken), takes workerID = AddInt64(&workerCounter,1)-1 *)
(* and derives the client's account from workerID alone.  The engine      *)
(* then calls GenerateTx on every client and broadcasts what it returns.  *)
(*                                                                         *)
(* A client is the allocator that PerpxBankClient is proved to implement  *)
(* (SeqAllocator): resolved once from the committed sequence, then one    *)
(* fresh number per call.  One GenerateTx and the engine's broadcast of   *)
(* its result are one step here; their interleavings inside one client    *)
(* are the subject of PerpxBankClient.                                    *)
(*                                                                         *)
(* Processes end at any moment (the test's duration, Ctrl-C, a crash),    *)
(* and a later process starts over with a fresh factory.  With Concurrent *)
(* several processes run at once, as the engine's coordinator/worker mode *)
(* runs one factory per worker process.                                   *)
(***************************************************************************)
EXTENDS Integers, FiniteSets

CONSTANTS
    Procs,        \* load-test processes (model values)
    Configs,      \* loadtest.Config values: connections, endpoints, time, count
    Envs,         \* LOADTEST_CHAIN_ID / DENOM / SINK_ADDRESS settings
    SeedWorkers,  \* the seeder's --workers: accounts 0 .. SeedWorkers-1 are funded
    StartSeqs,    \* committed sequences the accounts may start at
    MaxSeq,       \* bound on an account's sequence
    Concurrent    \* whether processes may run at the same time

ASSUME LoadTestAssumption ==
    /\ Procs # {} /\ SeedWorkers \in Nat /\ MaxSeq \in Nat
    /\ StartSeqs \subseteq 0 .. MaxSeq /\ StartSeqs # {}
    /\ Concurrent \in BOOLEAN
    /\ \A c \in Configs : c.connections \in Int /\ c.endpoints \in Nat
                          /\ c.time \in Int /\ c.count \in Int
    /\ \A e \in Envs : \A f \in {"chainID", "denom", "sink"} :
                          e[f] \in {"", "valid", "malformed"}

(* The configs' connections x endpoints have a largest value (any finite  *)
(* set of configs has one); Slots below is that value.                    *)
ASSUME SlotsAssumption ==
    \E m \in {c.connections * c.endpoints : c \in Configs} :
        \A c \in Configs : c.connections * c.endpoints <= m

(* Transactor slots: at most connections x endpoints of any config.      *)
Slots == 1 .. (LET n == {c.connections * c.endpoints : c \in Configs}
               IN CHOOSE m \in n : \A k \in n : k <= m)

(* Worker ids a factory can hand out, hence the accounts clients use.    *)
Accounts == 0 .. (Cardinality(Slots) - 1)

NoID == -1

VARIABLES
    pst,          \* process state: "idle", "adding", "running", "done"
    cfg,          \* the config and environment a process started with
    workerCounter,\* f.workerCounter of the process's factory
    wid,          \* wid[p][g]: workerID of transactor g's client, or NoID
    resolved,     \* the client's accountQueried
    counter,      \* the client's local sequence counter
    chainSeq,     \* ledger: committed sequence of each account
    checkSeq,     \* ledger: check-state sequence of each account
    stale,        \* ghost: txs of the client CheckTx refused as already used
    pendingSeen   \* ghost: check-state minus committed sequence at resolution

procVars == <<pst, cfg, workerCounter, wid>>
clientVars == <<resolved, counter, stale, pendingSeen>>
ledgerVars == <<chainSeq, checkSeq>>
vars == <<procVars, clientVars, ledgerVars>>

Funded(a) == a < SeedWorkers

Transactors(p) == 1 .. (cfg[p].c.connections * cfg[p].c.endpoints)

(* PerpxBankClientFactory.ValidateConfig                                  *)
ValidateConfig(c) ==
    /\ c.connections > 0
    /\ c.time > 0 \/ c.count > 0
    /\ c.endpoints # 0

(* NewBankSendStrategy: every field set and the sink address valid.       *)
NewBankSendStrategyOK(e) ==
    /\ \A f \in {"chainID", "denom", "sink"} : e[f] # ""
    /\ e.sink = "valid"

Init ==
    /\ pst = [p \in Procs |-> "idle"]
    /\ cfg \in [Procs -> [c : Configs, e : Envs]]
    /\ workerCounter = [p \in Procs |-> 0]
    /\ wid = [p \in Procs |-> [g \in Slots |-> NoID]]
    /\ resolved = [p \in Procs |-> [g \in Slots |-> FALSE]]
    /\ counter = [p \in Procs |-> [g \in Slots |-> 0]]
    /\ stale = [p \in Procs |-> [g \in Slots |-> 0]]
    /\ pendingSeen = [p \in Procs |-> [g \in Slots |-> 0]]
    /\ chainSeq \in [Accounts -> StartSeqs]
    /\ checkSeq = chainSeq

-----------------------------------------------------------------------------
(* A process starts: NewPerpxBankClientFactory, then the engine's          *)
(* ValidateConfig; a bad config ends the process before any client.       *)
Start(p) ==
    /\ pst[p] = "idle"
    /\ Concurrent \/ \A q \in Procs : pst[q] # "adding" /\ pst[q] # "running"
    /\ pst' = [pst EXCEPT ![p] = IF ValidateConfig(cfg[p].c) THEN "adding" ELSE "done"]
    /\ UNCHANGED <<cfg, workerCounter, wid, clientVars, ledgerVars>>

\* Mutant: the id is read from workerCounter, which is never incremented.
NewClientSharedID(p, g) ==
    /\ pst[p] = "adding" /\ g \in Transactors(p) /\ wid[p][g] = NoID
    /\ wid' = [wid EXCEPT ![p][g] = workerCounter[p]]
    /\ UNCHANGED <<pst, cfg, workerCounter, clientVars, ledgerVars>>

(* NewClient for transactor g: getEnv, NewBankSendStrategy (its error     *)
(* makes the engine's AddAll fail and the process end), then              *)
(* workerID := AddInt64(&f.workerCounter, 1) - 1 and NewPerpxBankClient, *)
(* which derives the account from workerID and cannot fail.               *)
NewClient(p, g) ==
    /\ pst[p] = "adding" /\ g \in Transactors(p) /\ wid[p][g] = NoID
    /\ IF NewBankSendStrategyOK(cfg[p].e)
         THEN /\ wid' = [wid EXCEPT ![p][g] = workerCounter[p]]
              /\ workerCounter' = [workerCounter EXCEPT ![p] = @ + 1]
              /\ UNCHANGED pst
         ELSE /\ pst' = [pst EXCEPT ![p] = "done"]
              /\ UNCHANGED <<wid, workerCounter>>
    /\ UNCHANGED <<cfg, clientVars, ledgerVars>>

(* Every client made: the engine starts the transactors.                  *)
StartTransactors(p) ==
    /\ pst[p] = "adding"
    /\ \A g \in Transactors(p) : wid[p][g] # NoID
    /\ pst' = [pst EXCEPT ![p] = "running"]
    /\ UNCHANGED <<cfg, workerCounter, wid, clientVars, ledgerVars>>

(* GenerateTx's ensureAccountQueried on a client not yet resolved: the    *)
(* REST query returns the committed sequence, or HTTP 404 for an account  *)
(* the seeder never funded (the call fails, nothing advances).            *)
QueryAccount(p, g) ==
    /\ pst[p] = "running" /\ g \in Transactors(p) /\ ~resolved[p][g]
    /\ LET a == wid[p][g] IN
         /\ Funded(a)
         /\ resolved' = [resolved EXCEPT ![p][g] = TRUE]
         /\ counter' = [counter EXCEPT ![p][g] = chainSeq[a]]
         /\ pendingSeen' = [pendingSeen EXCEPT ![p][g] = checkSeq[a] - chainSeq[a]]
    /\ UNCHANGED <<procVars, stale, ledgerVars>>

\* Mutant: the counter advances only when CheckTx admits the tx.
SendIncrementOnSuccess(p, g) ==
    /\ pst[p] = "running" /\ g \in Transactors(p) /\ resolved[p][g]
    /\ counter[p][g] < MaxSeq
    /\ LET a == wid[p][g]
           s == counter[p][g]
       IN  /\ checkSeq' = [checkSeq EXCEPT ![a] = IF s = @ THEN @ + 1 ELSE @]
           /\ counter' = [counter EXCEPT ![p][g] = IF s = checkSeq[a] THEN @ + 1 ELSE @]
           /\ stale' = [stale EXCEPT ![p][g] = IF s < checkSeq[a] THEN @ + 1 ELSE @]
    /\ UNCHANGED <<procVars, resolved, pendingSeen, chainSeq>>

(* GenerateTx on a resolved client reserves counter (the fetch-and-add),  *)
(* signs with it, and the engine broadcasts the tx.  CheckTx admits it    *)
(* when it carries the account's next check-state sequence; a lower one  *)
(* is refused as already used, a higher one as a gap.                     *)
Send(p, g) ==
    /\ pst[p] = "running" /\ g \in Transactors(p) /\ resolved[p][g]
    /\ counter[p][g] < MaxSeq
    /\ LET a == wid[p][g]
           s == counter[p][g]
       IN  /\ checkSeq' = [checkSeq EXCEPT ![a] = IF s = @ THEN @ + 1 ELSE @]
           /\ stale' = [stale EXCEPT ![p][g] = IF s < checkSeq[a] THEN @ + 1 ELSE @]
    /\ counter' = [counter EXCEPT ![p][g] = @ + 1]
    /\ UNCHANGED <<procVars, resolved, pendingSeen, chainSeq>>

(* GenerateTx fails after the reservation (CreateMsg, signing, encoding): *)
(* the number is consumed and nothing is broadcast.                       *)
SignFail(p, g) ==
    /\ pst[p] = "running" /\ g \in Transactors(p) /\ resolved[p][g]
    /\ counter[p][g] < MaxSeq
    /\ counter' = [counter EXCEPT ![p][g] = @ + 1]
    /\ UNCHANGED <<procVars, resolved, stale, pendingSeen, ledgerVars>>

(* The process ends: the test's time or count is reached, the operator    *)
(* interrupts it, or it crashes.  Its clients' state dies with it; what   *)
(* it broadcast stays in the mempool.                                     *)
Exit(p) ==
    /\ pst[p] \in {"adding", "running"}
    /\ pst' = [pst EXCEPT ![p] = "done"]
    /\ UNCHANGED <<cfg, workerCounter, wid, clientVars, ledgerVars>>

(* The ledger commits the next admitted tx of account a.                  *)
Commit(a) ==
    /\ chainSeq[a] < checkSeq[a]
    /\ chainSeq' = [chainSeq EXCEPT ![a] = @ + 1]
    /\ UNCHANGED <<procVars, clientVars, checkSeq>>

Next ==
    \/ \E p \in Procs :
          \/ Start(p) \/ StartTransactors(p) \/ Exit(p)
          \/ \E g \in Slots : NewClient(p, g) \/ QueryAccount(p, g)
                              \/ Send(p, g) \/ SignFail(p, g)
    \/ \E a \in Accounts : Commit(a)

Spec == Init /\ [][Next]_vars

-----------------------------------------------------------------------------
TypeOK ==
    /\ pst \in [Procs -> {"idle", "adding", "running", "done"}]
    /\ workerCounter \in [Procs -> Nat]
    /\ wid \in [Procs -> [Slots -> Accounts \cup {NoID}]]
    /\ resolved \in [Procs -> [Slots -> BOOLEAN]]
    /\ counter \in [Procs -> [Slots -> 0 .. MaxSeq]]
    /\ stale \in [Procs -> [Slots -> Nat]]
    /\ chainSeq \in [Accounts -> 0 .. MaxSeq]
    /\ checkSeq \in [Accounts -> 0 .. MaxSeq]

(* The clients a process runs at one time.                                *)
Live(p) == {g \in Slots : pst[p] \in {"adding", "running"} /\ wid[p][g] # NoID}

(* DistinctAccounts (factory.go: "each worker derives a distinct key";    *)
(* spec 5, "no shared mutable state exists between different workers'     *)
(* generators"): no two live clients, of one process or of two, sign for  *)
(* the same account, so no two counters race for one ledger sequence.     *)
DistinctAccounts ==
    \A p, q \in Procs : \A g \in Live(p), h \in Live(q) :
        <<p, g>> # <<q, h>> => wid[p][g] # wid[q][h]

(* RestartCostBounded: a client that resolved its account while earlier  *)
(* transactions of the account were still pending loses at most that    *)
(* many transactions to "sequence already used" refusals: its counter,    *)
(* read from the committed state, catches up with the mempool because     *)
(* every call consumes a number whatever becomes of the tx.               *)
RestartCostBounded ==
    \A p \in Procs, g \in Slots : stale[p][g] <= pendingSeen[p][g]

(* NoStaleSequence (spec 3, "a given account's sequence number, once       *)
(* claimed, locally or confirmed on-chain, is never reused"): no tx is    *)
(* signed with a sequence the ledger has already admitted.                *)
NoStaleSequence ==
    \A p \in Procs, g \in Slots : stale[p][g] = 0

=============================================================================
