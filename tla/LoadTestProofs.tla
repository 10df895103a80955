--------------------------- MODULE LoadTestProofs ---------------------------
(***************************************************************************)
(* Proofs about the load-test processes for every set of processes,       *)
(* configurations and environments, when processes run one at a time      *)
(* (~Concurrent, how the tool runs standalone).  The load_test_shared_    *)
(* accounts run shows that DistinctAccounts fails when they overlap.      *)
(***************************************************************************)
EXTENDS LoadTest, FiniteSetTheorems, TLAPS

Active(p) == pst[p] \in {"adding", "running"}

(* The transactors of p that NewClient has given a worker id.             *)
Issued(p) == {g \in Slots : wid[p][g] # NoID}

(***************************************************************************)
(* DistinctAccounts is not inductive: it needs that every id a factory    *)
(* handed out is below its workerCounter, so the next AddInt64 gives a    *)
(* new one, that the counter counts the ids handed out (so an id is an   *)
(* account of Accounts), and that only one process is ever active.       *)
(***************************************************************************)
IdInv ==
    /\ pst \in [Procs -> {"idle", "adding", "running", "done"}]
    /\ workerCounter \in [Procs -> Nat]
    /\ wid \in [Procs -> [Slots -> Int]]
    /\ \A p \in Procs : workerCounter[p] = Cardinality(Issued(p))
    /\ \A p \in Procs, g \in Slots :
          wid[p][g] # NoID => wid[p][g] \in 0 .. (workerCounter[p] - 1)
    /\ \A p \in Procs, g, h \in Slots :
          g # h /\ wid[p][g] # NoID => wid[p][g] # wid[p][h]
    /\ ~Concurrent => \A p, q \in Procs : Active(p) /\ Active(q) => p = q



(***************************************************************************)
(* RestartCostBounded is not inductive either.  While a resolved client   *)
(* runs, what it has lost to "already used" refusals plus the distance    *)
(* from its counter up to the account's check-state sequence stays within *)
(* what was pending when it resolved: a refused call and an admitted one  *)
(* both advance the counter, and no other live client moves that account's*)
(* check state (DistinctAccounts).  The ledger never commits past the     *)
(* check state, so pendingSeen is not negative.                           *)
(***************************************************************************)
Gap(p, g) == checkSeq[wid[p][g]] - counter[p][g]

ClientTypes ==
    /\ resolved \in [Procs -> [Slots -> BOOLEAN]]
    /\ counter \in [Procs -> [Slots -> Int]]
    /\ stale \in [Procs -> [Slots -> Int]]
    /\ pendingSeen \in [Procs -> [Slots -> Int]]
    /\ chainSeq \in [Accounts -> Int]
    /\ checkSeq \in [Accounts -> Int]

LedgerOrder == \A a \in Accounts : chainSeq[a] <= checkSeq[a]

RunningIssued ==
    \A p \in Procs : pst[p] = "running" =>
        \A g \in Transactors(p) \cap Slots : wid[p][g] # NoID

ClientCost(p, g) ==
    /\ stale[p][g] <= pendingSeen[p][g]
    /\ ~resolved[p][g] => stale[p][g] = 0
    /\ resolved[p][g] => pst[p] \in {"running", "done"} /\ wid[p][g] # NoID
    /\ resolved[p][g] /\ pst[p] = "running" =>
          stale[p][g] + Gap(p, g) <= pendingSeen[p][g]

ClientInv ==
    /\ ClientTypes
    /\ LedgerOrder
    /\ RunningIssued
    /\ \A p \in Procs, g \in Slots : ClientCost(p, g)

CostInv == IdInv /\ ClientInv

(* Slots is an interval of integers, hence finite, and Accounts has as    *)
(* many members as Slots.                                                 *)
LEMMA SlotsFinite ==
    /\ IsFiniteSet(Slots)
    /\ Cardinality(Slots) \in Nat
    /\ \A S \in SUBSET Slots : IsFiniteSet(S) /\ Cardinality(S) <= Cardinality(Slots)
<1> DEFINE n == {c.connections * c.endpoints : c \in Configs}
           top == CHOOSE m \in n : \A k \in n : k <= m
<1>1. \E m \in n : \A k \in n : k <= m
  BY SlotsAssumption
<1>2. top \in n
  BY <1>1
<1>3. top \in Int
  <2>1. \A c \in Configs : c.connections * c.endpoints \in Int
    <3> SUFFICES ASSUME NEW c \in Configs
                 PROVE  c.connections * c.endpoints \in Int
      OBVIOUS
    <3>1. c.connections \in Int /\ c.endpoints \in Nat
      BY LoadTestAssumption, Zenon
    <3>2. QED
      BY <3>1
  <2>2. \A k \in n : k \in Int
    BY <2>1
  <2>3. QED
    BY <2>2, <1>2, Zenon
<1>4. Slots = 1 .. top
  BY DEF Slots
<1>5. IsFiniteSet(Slots) /\ Cardinality(Slots) \in Nat
  BY <1>3, <1>4, FS_Interval, FS_CardinalityType
<1>6. QED
  BY <1>5, FS_Subset

(* Whether p is active is all that Start's guard reads of other processes. *)
LEMMA InitIdInv == Init => IdInv
<1> SUFFICES ASSUME Init PROVE IdInv
  OBVIOUS
<1>1. \A p \in Procs : Issued(p) = {}
  BY DEF Init, Issued, NoID
<1>2. \A p \in Procs : workerCounter[p] = Cardinality(Issued(p))
  BY <1>1, FS_EmptySet, Zenon DEF Init
<1>3. QED
  BY <1>2 DEF Init, IdInv, Active, NoID

LEMMA StartIdInv ==
    ASSUME IdInv, NEW p \in Procs, Start(p)
    PROVE  IdInv'
<1>1. \A q \in Procs : Issued(q)' = Issued(q)
  BY DEF Start, Issued
<1>2. ~Concurrent => \A q \in Procs : ~Active(q)
  BY LoadTestAssumption, Zenon DEF Start, Active
<1>3. QED
  BY <1>1, <1>2 DEF Start, IdInv, Active

LEMMA NewClientIdInv ==
    ASSUME IdInv, NEW p \in Procs, NEW g \in Slots, NewClient(p, g)
    PROVE  IdInv'
<1>1. CASE NewBankSendStrategyOK(cfg[p].e)
  <2>1. /\ wid' = [wid EXCEPT ![p][g] = workerCounter[p]]
        /\ workerCounter' = [workerCounter EXCEPT ![p] = @ + 1]
        /\ pst' = pst /\ wid[p][g] = NoID
    BY <1>1 DEF NewClient
  <2>2. Issued(p)' = Issued(p) \cup {g} /\ g \notin Issued(p)
    BY <2>1 DEF IdInv, Issued, NoID
  <2>3. \A q \in Procs \ {p} : Issued(q)' = Issued(q)
    BY <2>1 DEF IdInv, Issued
  <2>4. IsFiniteSet(Issued(p))
    BY SlotsFinite DEF Issued
  <2>5. Cardinality(Issued(p)') = workerCounter[p] + 1
    <3>1. Cardinality(Issued(p) \cup {g}) = Cardinality(Issued(p)) + 1
      BY <2>2, <2>4, FS_AddElement
    <3>2. workerCounter[p] = Cardinality(Issued(p))
      BY DEF IdInv
    <3>3. QED
      BY <2>2, <3>1, <3>2
  <2>6. \A q \in Procs : workerCounter'[q] = Cardinality(Issued(q)')
    BY <2>1, <2>3, <2>5 DEF IdInv
  <2>7. \A q \in Procs, h \in Slots :
           wid'[q][h] # NoID => wid'[q][h] \in 0 .. (workerCounter'[q] - 1)
    BY <2>1 DEF IdInv, NoID
  <2>8. \A q \in Procs, h, k \in Slots :
           h # k /\ wid'[q][h] # NoID => wid'[q][h] # wid'[q][k]
    BY <2>1 DEF IdInv, NoID
  <2>9. QED
    BY <2>1, <2>6, <2>7, <2>8 DEF IdInv, Active
<1>2. CASE ~NewBankSendStrategyOK(cfg[p].e)
  <2>1. pst' = [pst EXCEPT ![p] = "done"] /\ UNCHANGED <<wid, workerCounter>>
    BY <1>2 DEF NewClient
  <2>2. \A q \in Procs : Issued(q)' = Issued(q)
    BY <2>1 DEF Issued
  <2>3. QED
    BY <2>1, <2>2 DEF IdInv, Active
<1>3. QED
  BY <1>1, <1>2

LEMMA StartTransactorsIdInv ==
    ASSUME IdInv, NEW p \in Procs, StartTransactors(p)
    PROVE  IdInv'
<1>1. \A q \in Procs : Issued(q)' = Issued(q)
  BY DEF StartTransactors, Issued
<1>2. QED
  BY <1>1 DEF StartTransactors, IdInv, Active

LEMMA ExitIdInv ==
    ASSUME IdInv, NEW p \in Procs, Exit(p)
    PROVE  IdInv'
<1>1. \A q \in Procs : Issued(q)' = Issued(q)
  BY DEF Exit, Issued
<1>2. QED
  BY <1>1 DEF Exit, IdInv, Active

(* The client and ledger steps leave the processes and factories alone.    *)
LEMMA ProcVarsIdInv ==
    ASSUME IdInv, UNCHANGED procVars
    PROVE  IdInv'
<1>1. \A q \in Procs : Issued(q)' = Issued(q)
  BY DEF procVars, Issued
<1>2. QED
  BY <1>1 DEF procVars, IdInv, Active

-----------------------------------------------------------------------------
(* Every worker id a factory handed out is an account of Accounts: the    *)
(* ids are below workerCounter, which counts the slots given one.         *)
LEMMA WidAccount ==
    ASSUME IdInv, NEW p \in Procs, NEW g \in Slots, wid[p][g] # NoID
    PROVE  wid[p][g] \in Accounts
<1>1. Issued(p) \in SUBSET Slots
  BY DEF Issued
<1>2. Cardinality(Issued(p)) <= Cardinality(Slots) /\ Cardinality(Slots) \in Nat
  BY <1>1, SlotsFinite
<1>3. wid[p][g] \in 0 .. (workerCounter[p] - 1)
      /\ workerCounter[p] = Cardinality(Issued(p))
      /\ workerCounter[p] \in Nat
  BY DEF IdInv
<1>4. \A x, w, k, n :
         x \in 0 .. (w - 1) /\ w = k /\ k <= n /\ n \in Nat /\ w \in Nat
           => x \in 0 .. (n - 1)
  OBVIOUS
<1>5. wid[p][g] \in 0 .. (Cardinality(Slots) - 1)
  BY <1>2, <1>3, <1>4, Zenon
<1>6. QED
  BY <1>5 DEF Accounts

(* A resolved client's account is an account of the ledger.               *)
LEMMA ResolvedAccount ==
    ASSUME CostInv, NEW q \in Procs, NEW h \in Slots, resolved[q][h]
    PROVE  wid[q][h] \in Accounts
<1>1. wid[q][h] # NoID
  BY DEF CostInv, ClientInv, ClientCost
<1>2. QED
  BY <1>1, WidAccount DEF CostInv

LEMMA IdInvDistinct == ~Concurrent /\ IdInv => DistinctAccounts
  BY DEF IdInv, DistinctAccounts, Live, Active

LEMMA InitCostInv == Init => CostInv
<1> SUFFICES ASSUME Init PROVE ClientInv
  BY InitIdInv DEF CostInv
<1>1. chainSeq \in [Accounts -> Int] /\ checkSeq = chainSeq
  <2>1. StartSeqs \subseteq 0 .. MaxSeq /\ MaxSeq \in Nat
    BY LoadTestAssumption, Zenon
  <2>2. StartSeqs \subseteq Int
    BY <2>1
  <2>3. chainSeq \in [Accounts -> StartSeqs] /\ checkSeq = chainSeq
    BY DEF Init
  <2>4. QED
    BY <2>2, <2>3, Zenon
<1>2. QED
  BY <1>1 DEF Init, ClientInv, ClientTypes, LedgerOrder, RunningIssued,
              ClientCost

(* A step of the processes keeps ClientInv when it leaves the clients and *)
(* the ledger alone, gives every transactor of a process that becomes     *)
(* running its id, and neither renames nor starts a resolved client.      *)
LEMMA ProcStepCost ==
    ASSUME CostInv, UNCHANGED <<cfg, clientVars, ledgerVars>>,
           \A q \in Procs : pst'[q] = "running" =>
               \A g \in Transactors(q) \cap Slots : wid'[q][g] # NoID,
           \A q \in Procs, h \in Slots : resolved[q][h] =>
               /\ wid'[q][h] = wid[q][h]
               /\ pst'[q] \in {"running", "done"}
               /\ pst'[q] = "running" => pst[q] = "running"
    PROVE  ClientInv'
<1>1. ClientTypes' /\ LedgerOrder'
  BY DEF CostInv, ClientInv, ClientTypes, LedgerOrder, clientVars, ledgerVars
<1>2. RunningIssued'
  BY DEF RunningIssued, Transactors
<1>3. ASSUME NEW q \in Procs, NEW h \in Slots PROVE ClientCost(q, h)'
  <2>1. ClientCost(q, h)
    BY DEF CostInv, ClientInv
  <2>2. QED
    BY <2>1 DEF ClientCost, Gap, clientVars, ledgerVars
<1>4. QED
  BY <1>1, <1>2, <1>3 DEF ClientInv

LEMMA StartCost ==
    ASSUME CostInv, NEW p \in Procs, Start(p)
    PROVE  ClientInv'
<1>1. /\ pst[p] = "idle" /\ pst'[p] # "running"
      /\ \A q \in Procs \ {p} : pst'[q] = pst[q]
      /\ UNCHANGED <<cfg, wid, clientVars, ledgerVars>>
  BY DEF Start, CostInv, IdInv
<1>2. \A q \in Procs : pst'[q] = "running" =>
          \A g \in Transactors(q) \cap Slots : wid'[q][g] # NoID
  BY <1>1 DEF CostInv, ClientInv, RunningIssued, Transactors
<1>3. \A q \in Procs, h \in Slots : resolved[q][h] =>
          /\ wid'[q][h] = wid[q][h]
          /\ pst'[q] \in {"running", "done"}
          /\ pst'[q] = "running" => pst[q] = "running"
  BY <1>1 DEF CostInv, ClientInv, ClientCost
<1>4. QED
  BY <1>1, <1>2, <1>3, ProcStepCost

LEMMA NewClientCost ==
    ASSUME CostInv, NEW p \in Procs, NEW g \in Slots, NewClient(p, g)
    PROVE  ClientInv'
<1>1. /\ pst[p] = "adding" /\ pst'[p] # "running"
      /\ \A q \in Procs \ {p} : pst'[q] = pst[q] /\ wid'[q] = wid[q]
      /\ UNCHANGED <<cfg, clientVars, ledgerVars>>
  BY DEF NewClient, CostInv, IdInv
<1>2. \A q \in Procs : pst'[q] = "running" =>
          \A h \in Transactors(q) \cap Slots : wid'[q][h] # NoID
  BY <1>1 DEF CostInv, ClientInv, RunningIssued, Transactors
<1>3. \A q \in Procs, h \in Slots : resolved[q][h] =>
          /\ wid'[q][h] = wid[q][h]
          /\ pst'[q] \in {"running", "done"}
          /\ pst'[q] = "running" => pst[q] = "running"
  BY <1>1 DEF CostInv, ClientInv, ClientCost
<1>4. QED
  BY <1>1, <1>2, <1>3, ProcStepCost

LEMMA StartTransactorsCost ==
    ASSUME CostInv, NEW p \in Procs, StartTransactors(p)
    PROVE  ClientInv'
<1>1. /\ pst[p] = "adding" /\ \A g \in Transactors(p) : wid[p][g] # NoID
      /\ \A q \in Procs \ {p} : pst'[q] = pst[q]
      /\ UNCHANGED <<cfg, wid, clientVars, ledgerVars>>
  BY DEF StartTransactors, CostInv, IdInv
<1>2. \A q \in Procs : pst'[q] = "running" =>
          \A g \in Transactors(q) \cap Slots : wid'[q][g] # NoID
  BY <1>1 DEF CostInv, ClientInv, RunningIssued, Transactors
<1>3. \A q \in Procs, h \in Slots : resolved[q][h] =>
          /\ wid'[q][h] = wid[q][h]
          /\ pst'[q] \in {"running", "done"}
          /\ pst'[q] = "running" => pst[q] = "running"
  BY <1>1 DEF CostInv, ClientInv, ClientCost
<1>4. QED
  BY <1>1, <1>2, <1>3, ProcStepCost

LEMMA ExitCost ==
    ASSUME CostInv, NEW p \in Procs, Exit(p)
    PROVE  ClientInv'
<1>1. /\ pst'[p] = "done" /\ \A q \in Procs \ {p} : pst'[q] = pst[q]
      /\ UNCHANGED <<cfg, wid, clientVars, ledgerVars>>
  BY DEF Exit, CostInv, IdInv
<1>2. \A q \in Procs : pst'[q] = "running" =>
          \A g \in Transactors(q) \cap Slots : wid'[q][g] # NoID
  BY <1>1 DEF CostInv, ClientInv, RunningIssued, Transactors
<1>3. \A q \in Procs, h \in Slots : resolved[q][h] =>
          /\ wid'[q][h] = wid[q][h]
          /\ pst'[q] \in {"running", "done"}
          /\ pst'[q] = "running" => pst[q] = "running"
  BY <1>1 DEF CostInv, ClientInv, ClientCost
<1>4. QED
  BY <1>1, <1>2, <1>3, ProcStepCost

(* Resolving reads the committed sequence and notes what is pending above *)
(* it: the client starts with no loss and a gap of exactly pendingSeen.   *)
LEMMA QueryAccountCost ==
    ASSUME CostInv, NEW p \in Procs, NEW g \in Slots, QueryAccount(p, g)
    PROVE  ClientInv'
<1> DEFINE a == wid[p][g]
<1>1. /\ pst[p] = "running" /\ g \in Transactors(p) /\ ~resolved[p][g]
      /\ resolved' = [resolved EXCEPT ![p][g] = TRUE]
      /\ counter' = [counter EXCEPT ![p][g] = chainSeq[a]]
      /\ pendingSeen' = [pendingSeen EXCEPT ![p][g] = checkSeq[a] - chainSeq[a]]
      /\ UNCHANGED <<pst, cfg, workerCounter, wid, stale, chainSeq, checkSeq>>
  BY DEF QueryAccount, procVars, ledgerVars
<1>2. ClientTypes /\ LedgerOrder /\ RunningIssued
      /\ \A q \in Procs, h \in Slots : ClientCost(q, h)
  BY DEF CostInv, ClientInv
<1>3. a \in Accounts
  <2>1. a # NoID
    BY <1>1, <1>2 DEF RunningIssued
  <2>2. QED
    BY <2>1, WidAccount DEF CostInv
<1>4. ClientTypes'
  BY <1>1, <1>2, <1>3 DEF ClientTypes
<1>5. LedgerOrder' /\ RunningIssued'
  BY <1>1, <1>2 DEF LedgerOrder, RunningIssued, Transactors
<1>6. ASSUME NEW q \in Procs, NEW h \in Slots PROVE ClientCost(q, h)'
  <2>1. CASE q = p /\ h = g
    <3>1. /\ resolved'[p][g] /\ counter'[p][g] = chainSeq[a]
          /\ pendingSeen'[p][g] = checkSeq[a] - chainSeq[a]
          /\ stale'[p][g] = 0
      BY <1>1, <1>2 DEF ClientTypes, ClientCost
    <3>2. chainSeq[a] \in Int /\ checkSeq[a] \in Int /\ chainSeq[a] <= checkSeq[a]
      BY <1>2, <1>3 DEF LedgerOrder, ClientTypes
    <3>3. /\ wid' = wid /\ wid[p][g] # NoID
          /\ pst'[p] = "running" /\ checkSeq' = checkSeq
      BY <1>1, <1>2 DEF RunningIssued
    <3>4. QED
      BY <2>1, <3>1, <3>2, <3>3 DEF ClientCost, Gap
  <2>2. CASE ~(q = p /\ h = g)
    BY <1>1, <1>2, <2>2 DEF ClientCost, Gap, ClientTypes
  <2>3. QED
    BY <2>1, <2>2
<1>7. QED
  BY <1>4, <1>5, <1>6 DEF ClientInv

(* A sign failure consumes a number: the gap shrinks, nothing is lost.    *)
LEMMA SignFailCost ==
    ASSUME CostInv, NEW p \in Procs, NEW g \in Slots, SignFail(p, g)
    PROVE  ClientInv'
<1>1. /\ resolved[p][g]
      /\ counter' = [counter EXCEPT ![p][g] = @ + 1]
      /\ UNCHANGED <<pst, cfg, workerCounter, wid, resolved, stale, pendingSeen,
                     chainSeq, checkSeq>>
  BY DEF SignFail, procVars, ledgerVars
<1>2. ClientTypes /\ LedgerOrder /\ RunningIssued
      /\ \A q \in Procs, h \in Slots : ClientCost(q, h)
  BY DEF CostInv, ClientInv
<1>3. ClientTypes' /\ LedgerOrder' /\ RunningIssued'
  BY <1>1, <1>2 DEF ClientTypes, LedgerOrder, RunningIssued, Transactors
<1>4. ASSUME NEW q \in Procs, NEW h \in Slots PROVE ClientCost(q, h)'
  <2>1. resolved[q][h] => checkSeq[wid[q][h]] \in Int
    BY <1>2, ResolvedAccount DEF ClientTypes
  <2>2. CASE q = p /\ h = g
    BY <1>1, <1>2, <2>1, <2>2 DEF ClientCost, Gap, ClientTypes
  <2>3. CASE ~(q = p /\ h = g)
    BY <1>1, <1>2, <2>3 DEF ClientCost, Gap, ClientTypes
  <2>4. QED
    BY <2>2, <2>3
<1>5. QED
  BY <1>3, <1>4 DEF ClientInv

(* A commit moves the committed sequence up to the check state at most;   *)
(* no client's gap reads it.                                              *)
LEMMA CommitCost ==
    ASSUME CostInv, NEW a \in Accounts, Commit(a)
    PROVE  ClientInv'
<1>1. /\ chainSeq[a] < checkSeq[a]
      /\ chainSeq' = [chainSeq EXCEPT ![a] = @ + 1]
      /\ UNCHANGED <<pst, cfg, workerCounter, wid, resolved, counter, stale,
                     pendingSeen, checkSeq>>
  BY DEF Commit, procVars, clientVars
<1>2. ClientTypes /\ LedgerOrder /\ RunningIssued
      /\ \A q \in Procs, h \in Slots : ClientCost(q, h)
  BY DEF CostInv, ClientInv
<1>3. ClientTypes' /\ LedgerOrder' /\ RunningIssued'
  BY <1>1, <1>2 DEF ClientTypes, LedgerOrder, RunningIssued, Transactors
<1>4. ASSUME NEW q \in Procs, NEW h \in Slots PROVE ClientCost(q, h)'
  BY <1>1, <1>2 DEF ClientCost, Gap
<1>5. QED
  BY <1>3, <1>4 DEF ClientInv

(* A broadcast moves the check state of its own account only, and no other *)
(* running resolved client signs for that account.  A refused tx counts    *)
(* one loss and closes the gap by one; an admitted one moves the counter  *)
(* and the check state together; one above the check state only lowers    *)
(* the gap.                                                                *)
LEMMA SendCost ==
    ASSUME ~Concurrent, CostInv, NEW p \in Procs, NEW g \in Slots, Send(p, g)
    PROVE  ClientInv'
<1> DEFINE a == wid[p][g]
           s == counter[p][g]
<1>1. /\ pst[p] = "running" /\ resolved[p][g]
      /\ checkSeq' = [checkSeq EXCEPT ![a] = IF s = @ THEN @ + 1 ELSE @]
      /\ stale' = [stale EXCEPT ![p][g] = IF s < checkSeq[a] THEN @ + 1 ELSE @]
      /\ counter' = [counter EXCEPT ![p][g] = @ + 1]
      /\ UNCHANGED <<pst, cfg, workerCounter, wid, resolved, pendingSeen, chainSeq>>
  BY DEF Send, procVars
<1>2. ClientTypes /\ LedgerOrder /\ RunningIssued
      /\ \A q \in Procs, h \in Slots : ClientCost(q, h)
  BY DEF CostInv, ClientInv
<1>3. a \in Accounts
  BY <1>1, ResolvedAccount
<1>4. ASSUME NEW q \in Procs, NEW h \in Slots,
             resolved[q][h], pst[q] = "running", ~(q = p /\ h = g)
      PROVE  wid[q][h] # a
  <2>1. wid[q][h] # NoID /\ a # NoID
    BY <1>1, <1>2, <1>4 DEF ClientCost
  <2>2. h \in Live(q) /\ g \in Live(p)
    BY <1>1, <1>4, <2>1 DEF Live
  <2>3. DistinctAccounts
    BY IdInvDistinct DEF CostInv
  <2>4. QED
    BY <1>4, <2>2, <2>3 DEF DistinctAccounts
<1>5. ClientTypes' /\ LedgerOrder' /\ RunningIssued'
  BY <1>1, <1>2, <1>3 DEF ClientTypes, LedgerOrder, RunningIssued, Transactors
<1>6. ASSUME NEW q \in Procs, NEW h \in Slots PROVE ClientCost(q, h)'
  <2>1. CASE q = p /\ h = g
    <3>1. s \in Int /\ checkSeq[a] \in Int /\ stale[p][g] \in Int
          /\ pendingSeen[p][g] \in Int
      BY <1>2, <1>3 DEF ClientTypes
    <3>2. /\ stale[p][g] <= pendingSeen[p][g]
          /\ stale[p][g] + (checkSeq[a] - s) <= pendingSeen[p][g]
          /\ a # NoID
      BY <1>1, <1>2 DEF ClientCost, Gap
    <3>3. /\ checkSeq'[a] = IF s = checkSeq[a] THEN checkSeq[a] + 1 ELSE checkSeq[a]
          /\ stale'[p][g] = IF s < checkSeq[a] THEN stale[p][g] + 1 ELSE stale[p][g]
          /\ counter'[p][g] = s + 1
      BY <1>1, <1>2, <1>3 DEF ClientTypes
    <3>4. QED
      BY <1>1, <2>1, <3>1, <3>2, <3>3 DEF ClientCost, Gap
  <2>2. CASE ~(q = p /\ h = g)
    <3>1. /\ stale'[q][h] = stale[q][h] /\ counter'[q][h] = counter[q][h]
      BY <1>1, <1>2, <2>2 DEF ClientTypes
    <3>2. resolved[q][h] /\ pst[q] = "running"
            => checkSeq'[wid[q][h]] = checkSeq[wid[q][h]]
      BY <1>1, <1>2, <1>4, <2>2, ResolvedAccount DEF ClientTypes
    <3>3. QED
      BY <1>1, <1>2, <3>1, <3>2 DEF ClientCost, Gap
  <2>3. QED
    BY <2>1, <2>2
<1>7. QED
  BY <1>5, <1>6 DEF ClientInv

LEMMA NextIdInv == IdInv /\ [Next]_vars => IdInv'
<1> SUFFICES ASSUME IdInv, [Next]_vars PROVE IdInv'
  OBVIOUS
<1>1. CASE \E p \in Procs : Start(p)
  BY <1>1, StartIdInv
<1>2. CASE \E p \in Procs : StartTransactors(p)
  BY <1>2, StartTransactorsIdInv
<1>3. CASE \E p \in Procs : Exit(p)
  BY <1>3, ExitIdInv
<1>4. CASE \E p \in Procs, g \in Slots : NewClient(p, g)
  BY <1>4, NewClientIdInv
<1>5. CASE \E p \in Procs, g \in Slots :
              QueryAccount(p, g) \/ Send(p, g) \/ SignFail(p, g)
  BY <1>5, ProcVarsIdInv DEF QueryAccount, Send, SignFail
<1>6. CASE \E a \in Accounts : Commit(a)
  BY <1>6, ProcVarsIdInv DEF Commit
<1>7. CASE UNCHANGED vars
  BY <1>7, ProcVarsIdInv DEF vars
<1>8. QED
  BY <1>1, <1>2, <1>3, <1>4, <1>5, <1>6, <1>7 DEF Next

LEMMA IdInvHolds == Spec => []IdInv
  BY InitIdInv, NextIdInv, PTL DEF Spec

(* For every set of processes, configs and environments, when processes   *)
(* run one at a time: no two live clients sign for the same account, since *)
(* NewClient takes every workerID from the process's own AddInt64 on     *)
(* workerCounter and only one process has live clients.                   *)
THEOREM DistinctAccountsHolds ==
    ASSUME ~Concurrent
    PROVE  Spec => []DistinctAccounts
<1>1. IdInv => DistinctAccounts
  BY DEF IdInv, DistinctAccounts, Live, Active
<1>2. QED
  BY <1>1, IdInvHolds, PTL


LEMMA NextCostInv ==
    ASSUME ~Concurrent, CostInv, [Next]_vars
    PROVE  CostInv'
<1>1. IdInv'
  BY NextIdInv DEF CostInv
<1>2. ClientInv'
  <2>1. CASE \E p \in Procs : Start(p)
    BY <2>1, StartCost
  <2>2. CASE \E p \in Procs : StartTransactors(p)
    BY <2>2, StartTransactorsCost
  <2>3. CASE \E p \in Procs : Exit(p)
    BY <2>3, ExitCost
  <2>4. CASE \E p \in Procs, g \in Slots : NewClient(p, g)
    BY <2>4, NewClientCost
  <2>5. CASE \E p \in Procs, g \in Slots : QueryAccount(p, g)
    BY <2>5, QueryAccountCost
  <2>6. CASE \E p \in Procs, g \in Slots : Send(p, g)
    BY <2>6, SendCost
  <2>7. CASE \E p \in Procs, g \in Slots : SignFail(p, g)
    BY <2>7, SignFailCost
  <2>8. CASE \E a \in Accounts : Commit(a)
    BY <2>8, CommitCost
  <2>9. CASE UNCHANGED vars
    <3>1. UNCHANGED <<cfg, clientVars, ledgerVars>> /\ pst' = pst /\ wid' = wid
      BY <2>9 DEF vars, procVars
    <3>2. \A q \in Procs : pst'[q] = "running" =>
              \A g \in Transactors(q) \cap Slots : wid'[q][g] # NoID
      BY <3>1 DEF CostInv, ClientInv, RunningIssued, Transactors
    <3>3. \A q \in Procs, h \in Slots : resolved[q][h] =>
              /\ wid'[q][h] = wid[q][h]
              /\ pst'[q] \in {"running", "done"}
              /\ pst'[q] = "running" => pst[q] = "running"
      BY <3>1 DEF CostInv, ClientInv, ClientCost
    <3>4. QED
      BY <3>1, <3>2, <3>3, ProcStepCost
  <2>10. QED
    BY <2>1, <2>2, <2>3, <2>4, <2>5, <2>6, <2>7, <2>8, <2>9 DEF Next
<1>3. QED
  BY <1>1, <1>2 DEF CostInv

(* For every set of processes, configs and environments, when processes   *)
(* run one at a time: a client that resolved its account while earlier    *)
(* transactions were pending (a restart) has at most that many of its own *)
(* transactions refused as "sequence already used" by CheckTx, because     *)
(* GenerateTx consumes a number on every call, whatever becomes of the tx. *)
THEOREM RestartCostBoundedHolds ==
    ASSUME ~Concurrent
    PROVE  Spec => []RestartCostBounded
<1>1. Init => CostInv
  BY InitCostInv
<1>2. CostInv /\ [Next]_vars => CostInv'
  BY NextCostInv
<1>3. CostInv => RestartCostBounded
  BY DEF CostInv, ClientInv, ClientCost, RestartCostBounded
<1>4. QED
  BY <1>1, <1>2, <1>3, PTL DEF Spec

=============================================================================
