----------------------------- MODULE SeedProofs -----------------------------
(***************************************************************************)
(* Proofs about the funding planner and the ledger it runs against, for   *)
(* every number of workers, batch size, amount, poll and run bound.  The  *)
(* invariants the runs check are not inductive as stated; each is proved  *)
(* from a strengthening that TLC also checks on the seed_reliable and      *)
(* seed_flaky instances.                                                  *)
(***************************************************************************)
EXTENDS Seed, TLAPS, SequenceTheorems, FiniteSetTheorems

-----------------------------------------------------------------------------
(* The ledger's pending state.  The check state runs exactly one ahead of  *)
(* the committed state per pending transaction, and the one transaction    *)
(* that can be pending is the one at the committed sequence.               *)
LedgerInv ==
    \/ /\ mempool = {}
       /\ checkSeq = chainSeq
       /\ pendingFees = 0
    \/ \E t \in mempool : /\ mempool = {t}
                          /\ t.seq = chainSeq
                          /\ checkSeq = chainSeq + 1
                          /\ pendingFees = t.fee

(* The planner's currentSeq never runs ahead of the chain: it is read from  *)
(* the chain and advanced only past a transaction the chain included.      *)
CursorInv ==
    /\ curSeq <= chainSeq
    /\ pc = "poll" => tx.seq = curSeq
    /\ \A r \in committed : r.code = "ok" => r.tx.seq < chainSeq

IInv == TypeOK /\ LedgerInv /\ CursorInv

(* needs[1..n], capped at the length of needs. *)
Cap(n) == IF n > Len(needs) THEN Len(needs) ELSE n

(* Where the batch loop is, in terms of the accounts broadcast so far.     *)
BatchInv ==
    /\ pc \in {"key", "seedBalance", "seedAccount", "classify"} => runSent = <<>>
    /\ pc = "build" => runSent = SubSeq(needs, 1, Cap(idx))
    /\ pc = "poll" => /\ idx < Len(needs)
                      /\ runSent = SubSeq(needs, 1, Cap(idx + BatchSize))
    /\ pc = "verify" => runSent = needs

(* Every worker the classification loop has passed is either in needs or  *)
(* already funded, and balances only grow.                                 *)
InNeeds(w) == \E k \in 1 .. Len(needs) : needs[k] = w

FundedInv ==
    /\ pc = "classify" => /\ idx <= NumWorkers
                          /\ \A w \in 0 .. (idx - 1) : InNeeds(w) \/ bal[w] >= FundAmount
    /\ pc \in {"build", "poll", "verify"} =>
          \A w \in Ws : InNeeds(w) \/ bal[w] >= FundAmount
    /\ pc = "verify" => /\ idx <= Len(needs)
                        /\ allFunded => \A k \in 1 .. idx : bal[needs[k]] >= FundAmount
    /\ pc = "done" => \A w \in Ws : bal[w] >= FundAmount

(* Idempotence.  A worker is fresh while it has never been credited and    *)
(* started below the fund amount: only fresh workers may still be sent     *)
(* funds.  Every pending batch and every batch the planner can still get   *)
(* admitted carries fresh, distinct workers; when another transaction      *)
(* lands first, the chain's sequence moves past currentSeq and the rest    *)
(* of that run's batches can no longer be admitted.                        *)
Fresh(w) == credits[w] = 0 /\ initBal[w] < FundAmount

Increasing(s) == \A i, j \in 1 .. Len(s) : i < j => s[i] < s[j]

FreshFrom(i) == \A k \in i .. Len(needs) : Fresh(needs[k])

Accounting ==
    /\ initBal \in [Ws -> Nat]
    /\ \A w \in Ws : bal[w] = initBal[w] + FundAmount * credits[w]

PendingFresh ==
    \A t \in mempool : Increasing(t.to) /\ \A k \in 1 .. Len(t.to) : Fresh(t.to[k])

PlannerFresh ==
    /\ pc \in {"classify", "build", "poll"} => Increasing(needs)
    /\ pc = "classify" => /\ \A k \in 1 .. Len(needs) : needs[k] < idx
                          /\ curSeq = chainSeq => FreshFrom(1)
    /\ pc = "build" /\ curSeq = chainSeq => FreshFrom(idx + 1)
    /\ pc = "poll" =>
          /\ idx < Len(needs)
          /\ tx.to = BatchOf(needs, idx)
          /\ chainSeq <= curSeq + 1
          /\ chainSeq = curSeq => mempool \subseteq {tx} /\ FreshFrom(idx + 1)
          /\ chainSeq = curSeq + 1 => mempool = {} /\ FreshFrom(Cap(idx + BatchSize) + 1)

DInv == Accounting /\ NoDoubleFunding /\ PendingFresh /\ PlannerFresh

-----------------------------------------------------------------------------
(* Lemmas about the operators the planner is built from.                   *)

(* A batch of needsFunding is a sequence of workers.                       *)
LEMMA BatchOfType ==
    ASSUME NEW s \in Seq(Ws), NEW i \in Nat
    PROVE  BatchOf(s, i) \in Seq(Ws)
<1>1. \A j \in (i + 1) .. (IF i + BatchSize > Len(s) THEN Len(s) ELSE i + BatchSize) :
         s[j] \in Ws
  BY SeedAssumption
<1>2. QED
  BY <1>1, SeedAssumption, SubSeqProperties DEF BatchOf

(* The number of times a worker occurs in a batch is a natural number.     *)
LEMMA OccurrencesType ==
    ASSUME NEW s \in Seq(Ws), NEW w
    PROVE  Occurrences(s, w) \in Nat
<1>1. IsFiniteSet(1 .. Len(s))
  BY FS_Interval
<1>2. {k \in DOMAIN s : s[k] = w} \in SUBSET (1 .. Len(s))
  OBVIOUS
<1>3. IsFiniteSet({k \in DOMAIN s : s[k] = w})
  BY <1>1, <1>2, FS_Subset
<1>4. QED
  BY <1>3, FS_CardinalityType DEF Occurrences

(* The product of two naturals is a natural.                               *)
LEMMA NatProduct ==
    ASSUME NEW a \in Nat, NEW b \in Nat
    PROVE  a * b \in Nat
  OBVIOUS

(* What CheckTx accepting a transaction says of it, and what it answers.   *)
LEMMA CheckTxAccepts ==
    ASSUME NEW t, CheckTxError(t) = "none"
    PROVE  /\ t \notin mempool
           /\ Len(t.to) # 0
           /\ t.seq = checkSeq
  BY DEF CheckTxError

LEMMA CheckTxType ==
    ASSUME NEW t
    PROVE  CheckTxError(t) \in Causes
  BY DEF CheckTxError, Causes

-----------------------------------------------------------------------------
(* The strengthened invariant holds initially and is kept by every step.   *)
LEMMA InitIInv == Init => IInv
<1> SUFFICES ASSUME Init PROVE IInv
  OBVIOUS
<1>1. tx \in Txs
  BY DEF Init, Txs
<1>2. bal \in [Ws -> Nat] /\ seedBal \in Nat
  BY SeedAssumption, Zenon DEF Init
<1>3. run \in 1 .. MaxRuns /\ polls \in 0 .. MaxPolls
  BY SeedAssumption DEF Init
<1>4. TypeOK
  BY <1>1, <1>2, <1>3 DEF Init, TypeOK, PCs, Errors, Causes
<1>5. LedgerInv /\ CursorInv
  BY DEF Init, LedgerInv, CursorInv
<1>6. QED
  BY <1>4, <1>5 DEF IInv

(* The steps of the planner that do not touch the ledger, and the flush.  *)
LEMMA ResolveSeedKeyIInv == IInv /\ ResolveSeedKey => IInv'
  BY SeedAssumption DEF IInv, TypeOK, LedgerInv, CursorInv, ResolveSeedKey, ledgerVars, Fail, PCs, Errors

LEMMA QuerySeedBalanceIInv == IInv /\ QuerySeedBalance => IInv'
  BY SeedAssumption DEF IInv, TypeOK, LedgerInv, CursorInv, QuerySeedBalance, ledgerVars, Fail, PCs, Errors, QueryFails

LEMMA QuerySeedAccountIInv == IInv /\ QuerySeedAccount => IInv'
<1> SUFFICES ASSUME IInv, QuerySeedAccount PROVE IInv'
  OBVIOUS
<1>1. TypeOK'
  <2>1. CASE pc' = "failed"
    BY <2>1 DEF IInv, TypeOK, QuerySeedAccount, ledgerVars, Fail, PCs, Errors
  <2>2. CASE pc' # "failed"
    <3>1. pc' = "classify" /\ curSeq' = chainSeq /\ needs' = <<>> /\ idx' = 0
          /\ err' = err
      BY <2>2 DEF QuerySeedAccount, Fail
    <3>2. QED
      BY <3>1 DEF IInv, TypeOK, QuerySeedAccount, ledgerVars, PCs
  <2>3. QED
    BY <2>1, <2>2
<1>2. LedgerInv'
  BY DEF IInv, LedgerInv, QuerySeedAccount, ledgerVars
<1>3. CursorInv'
  BY DEF IInv, TypeOK, CursorInv, QuerySeedAccount, ledgerVars, Fail
<1>4. QED
  BY <1>1, <1>2, <1>3 DEF IInv

LEMMA ClassifyWorkerIInv == IInv /\ ClassifyWorker => IInv'
<1> SUFFICES ASSUME IInv, ClassifyWorker PROVE IInv'
  OBVIOUS
<1>0. Append(needs, idx) \in Seq(Ws)
  BY SeedAssumption, AppendProperties DEF IInv, TypeOK, ClassifyWorker, Ws
<1>1. TypeOK'
  <2>1. needs' \in Seq(Ws)
    BY <1>0, Zenon DEF IInv, TypeOK, ClassifyWorker
  <2>2. QED
    BY <2>1 DEF IInv, TypeOK, ClassifyWorker, ledgerVars
<1>2. LedgerInv'
  BY DEF IInv, LedgerInv, ClassifyWorker, ledgerVars
<1>3. CursorInv'
  BY DEF IInv, CursorInv, ClassifyWorker, ledgerVars
<1>4. QED
  BY <1>1, <1>2, <1>3 DEF IInv

LEMMA ClassifyDoneIInv == IInv /\ ClassifyDone => IInv'
  BY SeedAssumption DEF IInv, TypeOK, LedgerInv, CursorInv, ClassifyDone, ledgerVars, PCs

LEMMA BatchesDoneIInv == IInv /\ BatchesDone => IInv'
  BY SeedAssumption DEF IInv, TypeOK, LedgerInv, CursorInv, BatchesDone, ledgerVars, PCs

LEMMA PollTimeoutIInv == IInv /\ PollTimeout => IInv'
  BY SeedAssumption DEF IInv, TypeOK, LedgerInv, CursorInv, PollTimeout, ledgerVars, Fail, PCs, Errors

LEMMA VerifyWorkerIInv == IInv /\ VerifyWorker => IInv'
<1> SUFFICES ASSUME IInv, VerifyWorker PROVE IInv'
  OBVIOUS
<1>0. allFunded' \in BOOLEAN
  BY Zenon DEF VerifyWorker
<1>1. TypeOK'
  BY <1>0 DEF IInv, TypeOK, VerifyWorker, ledgerVars
<1>2. LedgerInv'
  BY DEF IInv, LedgerInv, VerifyWorker, ledgerVars
<1>3. CursorInv'
  BY DEF IInv, CursorInv, VerifyWorker, ledgerVars
<1>4. QED
  BY <1>1, <1>2, <1>3 DEF IInv

LEMMA VerifyDoneIInv == IInv /\ VerifyDone => IInv'
  BY SeedAssumption DEF IInv, TypeOK, LedgerInv, CursorInv, VerifyDone, ledgerVars, Fail, PCs, Errors

LEMMA RerunIInv == IInv /\ Rerun => IInv'
  BY SeedAssumption DEF IInv, TypeOK, LedgerInv, CursorInv, Rerun, ledgerVars, PCs, Errors, Causes

LEMMA FlushMempoolIInv == IInv /\ FlushMempool => IInv'
<1> SUFFICES ASSUME IInv, FlushMempool PROVE IInv'
  OBVIOUS
<1>1. TypeOK'
  BY DEF IInv, TypeOK, FlushMempool, plannerVars
<1>2. LedgerInv'
  BY DEF LedgerInv, FlushMempool
<1>3. CursorInv'
  BY DEF IInv, CursorInv, FlushMempool, plannerVars
<1>4. QED
  BY <1>1, <1>2, <1>3 DEF IInv

(* A poll: again, an on-chain failure, or a confirmation that moves        *)
(* currentSeq past the included transaction.                               *)
LEMMA PollTxStatusIInv == IInv /\ PollTxStatus => IInv'
<1> SUFFICES ASSUME IInv, PollTxStatus PROVE IInv'
  OBVIOUS
<1>0. /\ TypeOK /\ CursorInv /\ LedgerInv
      /\ UNCHANGED <<run, needs, tx, allFunded, runSent, ledgerVars>>
      /\ pc = "poll" /\ polls < MaxPolls
  BY DEF IInv, PollTxStatus
<1>1. CASE /\ QueryFails \/ \A r \in committed : r.tx # tx
           /\ polls' = polls + 1
           /\ UNCHANGED <<pc, err, cause, curSeq, idx>>
  <2>1. polls' \in 0 .. MaxPolls
    BY <1>0, <1>1, SeedAssumption DEF TypeOK
  <2>2. QED
    BY <1>0, <1>1, <2>1 DEF IInv, TypeOK, LedgerInv, CursorInv, ledgerVars
<1>2. CASE \E r \in committed : /\ r.tx = tx
                                /\ r.code # "ok"
                                /\ Fail("OnChainFailure")
                                /\ cause' = r.code
                                /\ UNCHANGED <<polls, curSeq, idx>>
  <2>1. PICK r \in committed : /\ r.tx = tx
                               /\ r.code # "ok"
                               /\ Fail("OnChainFailure")
                               /\ cause' = r.code
                               /\ UNCHANGED <<polls, curSeq, idx>>
    BY <1>2
  <2>2. cause' \in Causes /\ pc' = "failed" /\ err' \in Errors
    BY <1>0, <2>1 DEF TypeOK, Codes, Causes, Fail, Errors
  <2>3. QED
    BY <1>0, <2>1, <2>2 DEF IInv, TypeOK, LedgerInv, CursorInv, ledgerVars, PCs
<1>3. CASE \E r \in committed : /\ r.tx = tx
                                /\ r.code = "ok"
                                /\ pc' = "build"
                                /\ curSeq' = curSeq + 1
                                /\ idx' = idx + BatchSize
                                /\ UNCHANGED <<polls, err, cause>>
  <2>1. PICK r \in committed : /\ r.tx = tx
                               /\ r.code = "ok"
                               /\ pc' = "build"
                               /\ curSeq' = curSeq + 1
                               /\ idx' = idx + BatchSize
                               /\ UNCHANGED <<polls, err, cause>>
    BY <1>3
  <2>2. curSeq + 1 <= chainSeq
    BY <1>0, <2>1 DEF CursorInv, TypeOK, Txs
  <2>3. idx' \in Nat
    BY <1>0, <2>1, SeedAssumption DEF TypeOK
  <2>4. QED
    BY <1>0, <2>1, <2>2, <2>3 DEF IInv, TypeOK, LedgerInv, CursorInv, ledgerVars, PCs
<1>4. QED
  BY <1>1, <1>2, <1>3 DEF PollTxStatus
(* A batch broadcast.  CheckTx admits it only at the check-state sequence, *)
(* and currentSeq <= chainSeq < checkSeq whenever a transaction is pending, *)
(* so an admitted batch is the only pending transaction.                   *)
(* The node accepts a batch signed at the planner's sequence only when     *)
(* nothing is pending and that sequence is the committed one.              *)
LEMMA AcceptedOnlyWhenIdle ==
    ASSUME TypeOK, LedgerInv, CursorInv, NEW t, t.seq = curSeq,
           CheckTxError(t) = "none"
    PROVE  /\ mempool = {} /\ checkSeq = chainSeq /\ pendingFees = 0
           /\ curSeq = chainSeq
<1>1. t.seq = checkSeq
  BY CheckTxAccepts
<1>2. ~(checkSeq = chainSeq + 1)
  BY <1>1 DEF CursorInv, TypeOK
<1>3. QED
  BY <1>1, <1>2 DEF LedgerInv

LEMMA BuildAndBroadcastIInv == IInv /\ BuildAndBroadcast => IInv'
<1> SUFFICES ASSUME IInv, BuildAndBroadcast PROVE IInv'
  OBVIOUS
<1> DEFINE b == BatchOf(needs, idx)
           t == [seq |-> curSeq, to |-> b, fee |-> BatchFee(Len(b))]
<1>0. /\ TypeOK /\ CursorInv /\ LedgerInv
      /\ pc = "build" /\ idx < Len(needs)
      /\ UNCHANGED <<run, curSeq, needs, idx, allFunded, seedBal, bal, chainSeq,
                     committed, initBal, credits>>
  BY DEF IInv, BuildAndBroadcast
<1>1. b \in Seq(Ws) /\ t \in Txs
  <2>1. b \in Seq(Ws)
    BY <1>0, BatchOfType DEF TypeOK
  <2>2. BatchFee(Len(b)) \in Nat
    BY <2>1, SeedAssumption DEF BatchFee
  <2>3. QED
    BY <1>0, <2>1, <2>2 DEF TypeOK, Txs
<1>2. /\ pc' \in {"failed", "poll"}
      /\ pc' = "poll" => /\ tx' = t /\ runSent' = runSent \o t.to /\ polls' = 0
                         /\ err' = err /\ cause' = cause
      /\ pc' = "failed" => /\ err' \in Errors /\ cause' \in {cause, CheckTxError(t)}
                           /\ UNCHANGED <<tx, polls, runSent>>
      /\ \/ /\ CheckTxError(t) = "none"
            /\ mempool' = mempool \cup {t}
            /\ checkSeq' = checkSeq + 1
            /\ pendingFees' = pendingFees + t.fee
         \/ UNCHANGED <<mempool, checkSeq, pendingFees>>
  BY DEF BuildAndBroadcast, Fail, Errors
<1>3. CheckTxError(t) = "none" => /\ mempool = {}
                                 /\ checkSeq = chainSeq
                                 /\ pendingFees = 0
                                 /\ t.seq = chainSeq
  BY <1>0, AcceptedOnlyWhenIdle
<1>4. LedgerInv'
  <2>1. CASE /\ CheckTxError(t) = "none"
             /\ mempool' = mempool \cup {t}
             /\ checkSeq' = checkSeq + 1
             /\ pendingFees' = pendingFees + t.fee
    <3>1. mempool' = {t} /\ t.seq = chainSeq' /\ checkSeq' = chainSeq' + 1
          /\ pendingFees' = t.fee
      BY <1>0, <1>1, <1>3, <2>1, SMTT(20) DEF TypeOK, Txs
    <3>2. QED
      BY <3>1 DEF LedgerInv
  <2>4. CASE UNCHANGED <<mempool, checkSeq, pendingFees>>
    BY <1>0, <2>4 DEF LedgerInv
  <2>5. QED
    BY <1>2, <2>1, <2>4
<1>5. TypeOK'
  <2>1. cause' \in Causes /\ err' \in Errors /\ pc' \in PCs
    BY <1>0, <1>2, CheckTxType DEF TypeOK, PCs
  <2>2. tx' \in Txs /\ polls' \in 0 .. MaxPolls /\ runSent' \in Seq(Ws)
    <3>1. runSent \o t.to \in Seq(Ws)
      BY <1>0, <1>1, ConcatProperties DEF TypeOK
    <3>2. CASE pc' = "poll"
      <4>1. tx' = t /\ polls' = 0 /\ runSent' = runSent \o t.to
        BY <1>2, <3>2
      <4>2. 0 \in 0 .. MaxPolls
        BY SeedAssumption
      <4>3. QED
        BY <1>1, <3>1, <4>1, <4>2
    <3>3. CASE pc' = "failed"
      BY <1>0, <1>2, <3>3 DEF TypeOK
    <3>4. QED
      BY <1>2, <3>2, <3>3
  <2>3. mempool' \subseteq Txs /\ checkSeq' \in Nat /\ pendingFees' \in Nat
    <3>1. t.fee \in Nat
      BY <1>1 DEF Txs
    <3>2. mempool' \subseteq Txs
      BY <1>0, <1>1, <1>2 DEF TypeOK
    <3>3. checkSeq' \in Nat
      BY <1>0, <1>2 DEF TypeOK
    <3>4. pendingFees' \in Nat
      BY <1>0, <1>2, <3>1 DEF TypeOK
    <3>5. QED
      BY <3>2, <3>3, <3>4
  <2>4. QED
    BY <1>0, <2>1, <2>2, <2>3 DEF TypeOK
<1>6. CursorInv'
  BY <1>0, <1>2 DEF CursorInv
<1>7. QED
  BY <1>4, <1>5, <1>6 DEF IInv
(* A block includes the pending transaction: whatever its result, the     *)
(* mempool empties and the check state meets the committed state again.    *)
LEMMA CommitTxIInv == IInv /\ CommitTx => IInv'
<1> SUFFICES ASSUME IInv, CommitTx PROVE IInv'
  OBVIOUS
<1>0. TypeOK /\ CursorInv /\ LedgerInv /\ UNCHANGED <<plannerVars, initBal>>
  BY DEF IInv, CommitTx
<1>1. PICK t \in mempool :
        /\ t.seq = chainSeq
        /\ IF seedBal < t.fee
             THEN /\ committed' = committed \cup {[tx |-> t, code |-> "InsufficientFee"]}
                  /\ mempool' = {}
                  /\ checkSeq' = chainSeq
                  /\ pendingFees' = 0
                  /\ UNCHANGED <<seedBal, bal, chainSeq, credits>>
             ELSE LET afterFee == seedBal - t.fee
                      cost == FundAmount * Len(t.to)
                  IN /\ chainSeq' = chainSeq + 1
                     /\ mempool' = mempool \ {t}
                     /\ pendingFees' = pendingFees - t.fee
                     /\ UNCHANGED checkSeq
                     /\ IF afterFee >= cost
                          THEN /\ seedBal' = afterFee - cost
                               /\ bal' = [w \in Ws |-> bal[w] + FundAmount * Occurrences(t.to, w)]
                               /\ credits' = [w \in Ws |-> credits[w] + Occurrences(t.to, w)]
                               /\ committed' = committed \cup {[tx |-> t, code |-> "ok"]}
                          ELSE /\ seedBal' = afterFee
                               /\ committed' = committed \cup {[tx |-> t, code |-> "InsufficientFunds"]}
                               /\ UNCHANGED <<bal, credits>>
  BY DEF CommitTx
<1>2. mempool = {t} /\ checkSeq = chainSeq + 1 /\ pendingFees = t.fee /\ t \in Txs
  BY <1>0, <1>1 DEF LedgerInv, TypeOK
<1>3. t.fee \in Nat /\ t.to \in Seq(Ws) /\ t.seq \in Nat
  BY <1>2 DEF Txs
<1>4. CursorInv' /\ pc' = pc /\ curSeq' = curSeq /\ tx' = tx
  <2>1. pc' = pc /\ curSeq' = curSeq /\ tx' = tx
    BY <1>0 DEF plannerVars
  <2>2. \E c \in Codes : /\ committed' = committed \cup {[tx |-> t, code |-> c]}
                         /\ chainSeq' \in {chainSeq, chainSeq + 1}
                         /\ c = "ok" => chainSeq' = chainSeq + 1
    BY <1>1 DEF Codes
  <2>3. \A r \in committed' : r.code = "ok" => r.tx.seq < chainSeq'
    <3>1. PICK c \in Codes : /\ committed' = committed \cup {[tx |-> t, code |-> c]}
                             /\ chainSeq' \in {chainSeq, chainSeq + 1}
                             /\ c = "ok" => chainSeq' = chainSeq + 1
      BY <2>2
    <3>2. ASSUME NEW r \in committed, r.code = "ok" PROVE r.tx.seq < chainSeq'
      <4>1. r.tx.seq \in Nat /\ r.tx.seq < chainSeq
        BY <1>0, <3>2 DEF TypeOK, CursorInv, Txs
      <4>2. QED
        BY <1>0, <3>1, <4>1 DEF TypeOK
    <3>3. c = "ok" => t.seq < chainSeq'
      BY <1>1, <1>3, <3>1, <1>0 DEF TypeOK
    <3>4. QED
      BY <3>1, <3>2, <3>3
  <2>4. curSeq' <= chainSeq'
    BY <1>0, <2>1, <2>2 DEF TypeOK, CursorInv
  <2>5. QED
    BY <1>0, <2>1, <2>3, <2>4 DEF CursorInv
<1>5. CASE seedBal < t.fee
  <2>1. LedgerInv'
    BY <1>1, <1>5 DEF LedgerInv
  <2>2. TypeOK'
    BY <1>0, <1>1, <1>2, <1>5 DEF TypeOK, plannerVars, Codes
  <2>3. QED
    BY <1>4, <2>1, <2>2 DEF IInv
<1>6. CASE ~(seedBal < t.fee)
  <2>1. /\ chainSeq' = chainSeq + 1 /\ mempool' = {} /\ pendingFees' = 0
        /\ checkSeq' = checkSeq
    BY <1>1, <1>2, <1>3, <1>6, <1>0 DEF TypeOK
  <2>2. LedgerInv'
    BY <1>2, <2>1 DEF LedgerInv
  <2>3. /\ seedBal' \in Nat /\ bal' \in [Ws -> Nat] /\ credits' \in [Ws -> Nat]
        /\ committed' \subseteq [tx : Txs, code : Codes]
    <3>1. \A w \in Ws : Occurrences(t.to, w) \in Nat
      BY <1>3, OccurrencesType
    <3>2. CASE seedBal - t.fee >= FundAmount * Len(t.to)
      <4>1. /\ seedBal' = (seedBal - t.fee) - FundAmount * Len(t.to)
            /\ bal' = [w \in Ws |-> bal[w] + FundAmount * Occurrences(t.to, w)]
            /\ credits' = [w \in Ws |-> credits[w] + Occurrences(t.to, w)]
            /\ committed' = committed \cup {[tx |-> t, code |-> "ok"]}
        BY <1>1, <1>6, <3>2
      <4>2. seedBal' \in Nat
        BY <1>0, <1>3, <3>2, <4>1, SeedAssumption DEF TypeOK
      <4>3. bal' \in [Ws -> Nat] /\ credits' \in [Ws -> Nat]
        <5>1. FundAmount \in Nat
          BY SeedAssumption
        <5>2. ASSUME NEW w \in Ws
              PROVE  bal[w] + FundAmount * Occurrences(t.to, w) \in Nat
          <6>1. Occurrences(t.to, w) \in Nat /\ bal[w] \in Nat
            BY <1>0, <3>1 DEF TypeOK
          <6>2. FundAmount * Occurrences(t.to, w) \in Nat
            BY <5>1, <6>1, NatProduct
          <6>3. QED
            BY <6>1, <6>2
        <5>3. \A w \in Ws : credits[w] + Occurrences(t.to, w) \in Nat
          BY <1>0, <3>1 DEF TypeOK
        <5>4. QED
          BY <4>1, <5>2, <5>3
      <4>4. committed' \subseteq [tx : Txs, code : Codes]
        BY <1>0, <1>2, <4>1 DEF TypeOK, Codes
      <4>5. QED
        BY <4>2, <4>3, <4>4
    <3>3. CASE ~(seedBal - t.fee >= FundAmount * Len(t.to))
      <4>1. /\ seedBal' = seedBal - t.fee
            /\ bal' = bal /\ credits' = credits
            /\ committed' = committed \cup {[tx |-> t, code |-> "InsufficientFunds"]}
        BY <1>1, <1>6, <3>3
      <4>2. QED
        BY <1>0, <1>2, <1>3, <1>6, <4>1 DEF TypeOK, Codes
    <3>4. QED
      BY <3>2, <3>3
  <2>4. TypeOK'
    BY <1>0, <2>1, <2>3 DEF TypeOK, plannerVars
  <2>5. QED
    BY <1>4, <2>2, <2>4 DEF IInv
<1>7. QED
  BY <1>5, <1>6
LEMMA NextIInv == IInv /\ [Next]_vars => IInv'
<1> SUFFICES ASSUME IInv, [Next]_vars PROVE IInv'
  OBVIOUS
<1>1. CASE Next
  BY <1>1, ResolveSeedKeyIInv, QuerySeedBalanceIInv, QuerySeedAccountIInv,
     ClassifyWorkerIInv, ClassifyDoneIInv, BuildAndBroadcastIInv,
     BatchesDoneIInv, PollTxStatusIInv, PollTimeoutIInv, VerifyWorkerIInv,
     VerifyDoneIInv, RerunIInv, CommitTxIInv, FlushMempoolIInv, SMTT(20)
  DEF Next, Planner, Ledger
<1>2. CASE UNCHANGED vars
  BY <1>2 DEF IInv, TypeOK, LedgerInv, CursorInv, vars, plannerVars, ledgerVars
<1>3. QED
  BY <1>1, <1>2

-----------------------------------------------------------------------------
(* Every reachable state of the planner and the ledger is well typed, for  *)
(* any number of workers, batch size, amounts and bounds: the ledger's     *)
(* pending fees never go negative, and the balance arithmetic of a block   *)
(* (seedBal - fee - FundAmount * len) stays in the naturals.               *)
THEOREM TypeCorrect == Spec => []TypeOK
<1>1. Spec => []IInv
  BY InitIInv, NextIInv, PTL DEF Spec
<1>2. QED
  BY <1>1, PTL DEF IInv

(* The planner never has two transactions pending at once, on any run of  *)
(* the seed command: a batch is admitted only at the check-state sequence,  *)
(* which is ahead of every sequence the planner can sign at while another  *)
(* batch is pending, even one left over from an earlier run that timed out. *)
THEOREM AtMostOnePendingHolds == Spec => []AtMostOnePending
<1>1. IInv => AtMostOnePending
  <2> SUFFICES ASSUME IInv PROVE Cardinality(mempool) <= 1
    BY DEF AtMostOnePending
  <2>1. CASE mempool = {}
    BY <2>1, FS_EmptySet
  <2>2. CASE mempool # {}
    <3>1. PICK t \in mempool : mempool = {t}
      BY <2>2 DEF IInv, LedgerInv
    <3>2. Cardinality({t}) = 1
      BY FS_Singleton
    <3>3. QED
      BY <3>1, <3>2
  <2>3. QED
    BY <2>1, <2>2
<1>2. QED
  BY <1>1, InitIInv, NextIInv, PTL DEF Spec
-----------------------------------------------------------------------------
(* The batch loop's cursor, in terms of sequences.                         *)

(* A prefix of needsFunding has the length it is cut at.                    *)
LEMMA PrefixLen ==
    ASSUME NEW s \in Seq(Ws), NEW n \in 0 .. Len(s)
    PROVE  /\ SubSeq(s, 1, n) \in Seq(Ws)
           /\ Len(SubSeq(s, 1, n)) = n
<1>1. \A i \in 1 .. n : s[i] \in Ws
  OBVIOUS
<1>2. QED
  BY <1>1, SubSeqProperties

(* The capped end of a batch lies within needsFunding.                      *)
LEMMA CapRange ==
    ASSUME needs \in Seq(Ws), NEW n \in Nat
    PROVE  /\ Cap(n) \in 0 .. Len(needs)
           /\ n <= Len(needs) => Cap(n) = n
           /\ n >= Len(needs) => Cap(n) = Len(needs)
  BY DEF Cap

(* The batch broadcast at idx is needsFunding[idx+1 .. Cap(idx + BatchSize)],  *)
(* and appended to the prefix already broadcast it gives a longer prefix.   *)
LEMMA BatchExtendsPrefix ==
    ASSUME needs \in Seq(Ws), NEW i \in Nat, i < Len(needs)
    PROVE  SubSeq(needs, 1, Cap(i)) \o BatchOf(needs, i)
             = SubSeq(needs, 1, Cap(i + BatchSize))
<1>1. Cap(i) = i
  BY CapRange
<1>2. BatchOf(needs, i) = SubSeq(needs, i + 1, Cap(i + BatchSize))
  BY DEF BatchOf, Cap
<1>3. Cap(i + BatchSize) \in i .. Len(needs)
  BY SeedAssumption, CapRange DEF Cap
<1>4. /\ 1 \in 1 .. Len(needs) + 1
      /\ i \in 1 - 1 .. Len(needs)
  OBVIOUS
<1>5. SubSeq(needs, 1, i) \o SubSeq(needs, i + 1, Cap(i + BatchSize))
        = SubSeq(needs, 1, Cap(i + BatchSize))
  BY <1>3, <1>4, ConcatAdjacentSubSeq, Zenon
<1>6. QED
  BY <1>1, <1>2, <1>5, Zenon
LEMMA InitBatchInv == Init => BatchInv
  BY DEF Init, BatchInv

LEMMA NextBatchInv == TypeOK /\ BatchInv /\ [Next]_vars => BatchInv'
<1> SUFFICES ASSUME TypeOK, BatchInv, [Next]_vars PROVE BatchInv'
  OBVIOUS
<1>1. CASE ResolveSeedKey \/ QuerySeedBalance \/ QuerySeedAccount \/ ClassifyWorker
  BY <1>1 DEF ResolveSeedKey, QuerySeedBalance, QuerySeedAccount, ClassifyWorker,
              Fail, BatchInv
<1>2. CASE ClassifyDone
  <2>1. SubSeq(needs, 1, IF 0 > Len(needs) THEN Len(needs) ELSE 0) = <<>>
    <3>1. (IF 0 > Len(needs) THEN Len(needs) ELSE 0) = 0
      BY DEF TypeOK
    <3>2. SubSeq(needs, 1, 0) = <<>>
      BY SubSeqEmpty
    <3>3. QED
      BY <3>1, <3>2
  <2>2. QED
    BY <1>2, <2>1 DEF ClassifyDone, BatchInv, Cap
<1>3. CASE BuildAndBroadcast
  <2>1. pc = "build" /\ idx < Len(needs) /\ UNCHANGED <<needs, idx>>
    BY <1>3 DEF BuildAndBroadcast
  <2>2. runSent \o BatchOf(needs, idx) = SubSeq(needs, 1, Cap(idx + BatchSize))
    BY <2>1, BatchExtendsPrefix, Zenon DEF TypeOK, BatchInv
  <2>3. pc' \in {"failed", "poll"}
        /\ (pc' = "poll" => runSent' = runSent \o BatchOf(needs, idx))
    BY <1>3 DEF BuildAndBroadcast, Fail
  <2>4. QED
    BY <2>1, <2>2, <2>3 DEF BatchInv, Cap
<1>4. CASE BatchesDone
  <2>1. SubSeq(needs, 1, Cap(idx)) = needs
    BY <1>4, CapRange, SubSeqFull DEF BatchesDone, TypeOK
  <2>2. QED
    BY <1>4, <2>1, Zenon DEF BatchesDone, BatchInv
<1>5. CASE PollTxStatus
  BY <1>5 DEF PollTxStatus, Fail, BatchInv, Cap
<1>6. CASE PollTimeout \/ VerifyWorker \/ VerifyDone \/ Rerun
  BY <1>6 DEF PollTimeout, VerifyWorker, VerifyDone, Rerun, Fail, BatchInv
<1>7. CASE CommitTx \/ FlushMempool \/ UNCHANGED vars
  BY <1>7 DEF CommitTx, FlushMempool, vars, plannerVars, BatchInv, Cap
<1>8. QED
  BY <1>1, <1>2, <1>3, <1>4, <1>5, <1>6, <1>7 DEF Next, Planner, Ledger

(* The batch loop partitions needsFunding, in order, for every batch size  *)
(* and every list: what has been broadcast is a prefix of needsFunding, and *)
(* when the loop ends, the verification loop checks exactly the accounts   *)
(* the batches funded (i += BatchSize against end capped at the length).   *)
THEOREM BatchesCoverNeedsHolds == Spec => []BatchesCoverNeeds
<1>1. TypeOK /\ BatchInv => BatchesCoverNeeds
  <2> SUFFICES ASSUME TypeOK, BatchInv PROVE BatchesCoverNeeds
    OBVIOUS
  <2>1. ASSUME NEW n \in Nat, runSent = SubSeq(needs, 1, Cap(n))
        PROVE  runSent = SubSeq(needs, 1, Len(runSent))
    BY <2>1, CapRange, PrefixLen DEF TypeOK
  <2>2. pc = "verify" => runSent = SubSeq(needs, 1, Len(runSent))
    BY SubSeqFull DEF TypeOK, BatchInv
  <2>3. pc = "build" => runSent = SubSeq(needs, 1, Len(runSent))
    BY <2>1, Zenon DEF BatchInv, TypeOK
  <2>4. pc = "poll" => runSent = SubSeq(needs, 1, Len(runSent))
    <3>1. idx + BatchSize \in Nat
      BY SeedAssumption DEF TypeOK
    <3>2. QED
      BY <2>1, <3>1 DEF BatchInv
  <2>5. pc = "verify" => runSent = needs
    BY DEF BatchInv
  <2>6. QED
    BY <2>2, <2>3, <2>4, <2>5 DEF BatchesCoverNeeds
<1>2. Spec => [](IInv /\ BatchInv)
  <2>1. Init => IInv /\ BatchInv
    BY InitIInv, InitBatchInv
  <2>2. IInv /\ BatchInv /\ [Next]_vars => (IInv /\ BatchInv)'
    BY NextIInv, NextBatchInv DEF IInv
  <2>3. QED
    BY <2>1, <2>2, PTL DEF Spec
<1>3. IInv /\ BatchInv => BatchesCoverNeeds
  BY <1>1 DEF IInv
<1>4. QED
  BY <1>2, <1>3, PTL
-----------------------------------------------------------------------------
(* Success means funded.                                                    *)

(* A block only ever adds to the worker balances.                          *)
LEMMA CommitTxBalGrows ==
    ASSUME IInv, CommitTx
    PROVE  \A w \in Ws : bal'[w] \in Nat /\ bal'[w] >= bal[w]
<1>1. PICK t \in mempool : CommitTx!(t)
  BY DEF CommitTx
<1>2. t.to \in Seq(Ws)
  BY DEF IInv, TypeOK, Txs
<1>3. \A w \in Ws : FundAmount * Occurrences(t.to, w) \in Nat
  BY <1>2, OccurrencesType, NatProduct, SeedAssumption
<1>4. QED
  BY <1>1, <1>3, SMTT(20) DEF IInv, TypeOK

(* Appending to needsFunding keeps every account it held, and adds one.    *)
LEMMA InNeedsAppend ==
    ASSUME needs \in Seq(Ws), NEW x \in Ws, needs' = Append(needs, x)
    PROVE  /\ \A w : InNeeds(w) => InNeeds(w)'
           /\ InNeeds(x)'
  BY AppendProperties DEF InNeeds

LEMMA InitFundedInv == Init => FundedInv
  BY DEF Init, FundedInv

LEMMA NextFundedInv == IInv /\ FundedInv /\ [Next]_vars => FundedInv'
<1> SUFFICES ASSUME IInv, FundedInv, [Next]_vars PROVE FundedInv'
  OBVIOUS
<1>0. TypeOK
  BY DEF IInv
<1>1. CASE ResolveSeedKey \/ QuerySeedBalance \/ QuerySeedAccount
  BY <1>1, SeedAssumption DEF ResolveSeedKey, QuerySeedBalance, QuerySeedAccount,
                              Fail, FundedInv
<1>2. CASE ClassifyWorker
  <2>2. idx \in Ws
    <3>1. idx \in Nat /\ idx < NumWorkers /\ NumWorkers \in Nat
      BY <1>0, <1>2, SeedAssumption DEF TypeOK, ClassifyWorker
    <3>2. QED
      BY <3>1 DEF Ws
  <2>1. pc = "classify" /\ idx < NumWorkers /\ idx' = idx + 1 /\ pc' = pc
        /\ bal' = bal
        /\ \/ needs' = Append(needs, idx)
           \/ needs' = needs /\ bal[idx] >= FundAmount
    <3>1. bal[idx] \in Nat /\ FundAmount \in Nat
      BY <1>0, <2>2, SeedAssumption DEF TypeOK
    <3>2. QED
      BY <1>2, <3>1 DEF ClassifyWorker, ledgerVars
  <2>3. ASSUME NEW w \in 0 .. (idx' - 1)
        PROVE  InNeeds(w)' \/ bal'[w] >= FundAmount
    <3>1. CASE needs' = Append(needs, idx)
      BY <1>0, <2>1, <2>2, <3>1, InNeedsAppend DEF FundedInv, TypeOK
    <3>2. CASE needs' = needs /\ bal[idx] >= FundAmount
      BY <1>0, <2>1, <3>2 DEF FundedInv, TypeOK, InNeeds
    <3>3. QED
      BY <2>1, <3>1, <3>2
  <2>4. QED
    BY <1>0, <2>1, <2>3, SeedAssumption DEF FundedInv, TypeOK
<1>3. CASE ClassifyDone
  <2>1. pc = "classify" /\ idx = NumWorkers /\ bal' = bal /\ needs' = needs
    BY <1>3 DEF ClassifyDone, ledgerVars
  <2>2. \A w \in Ws : InNeeds(w) \/ bal[w] >= FundAmount
    BY <2>1 DEF FundedInv, Ws
  <2>3. needs = <<>> => \A w \in Ws : ~InNeeds(w)
    BY DEF InNeeds
  <2>4. QED
    BY <1>3, <2>1, <2>2, <2>3 DEF ClassifyDone, FundedInv, InNeeds
<1>4. CASE BuildAndBroadcast \/ PollTxStatus \/ PollTimeout
  BY <1>4 DEF BuildAndBroadcast, PollTxStatus, PollTimeout, Fail, FundedInv,
              InNeeds, ledgerVars
<1>5. CASE BatchesDone
  BY <1>5 DEF BatchesDone, FundedInv, InNeeds, ledgerVars, TypeOK
<1>6. CASE VerifyWorker
  <2>1. /\ pc = "verify" /\ idx < Len(needs) /\ idx' = idx + 1
        /\ UNCHANGED <<pc, needs, bal>>
        /\ allFunded' => allFunded /\ bal[needs[idx + 1]] >= FundAmount
    BY <1>6, Zenon DEF VerifyWorker, ledgerVars
  <2>2. allFunded' => \A k \in 1 .. idx' : bal'[needs'[k]] >= FundAmount
    BY <1>0, <2>1 DEF FundedInv, TypeOK
  <2>3. QED
    BY <1>0, <2>1, <2>2 DEF FundedInv, InNeeds, TypeOK
<1>7. CASE VerifyDone
  <2>1. pc = "verify" /\ idx = Len(needs) /\ UNCHANGED <<needs, bal, allFunded>>
    BY <1>7 DEF VerifyDone, ledgerVars
  <2>2. pc' = "done" => allFunded
    BY <1>7 DEF VerifyDone, Fail
  <2>3. allFunded => \A w \in Ws : bal[w] >= FundAmount
    BY <2>1 DEF FundedInv, InNeeds
  <2>4. QED
    BY <1>7, <2>1, <2>2, <2>3 DEF VerifyDone, Fail, FundedInv
<1>8. CASE Rerun
  BY <1>8 DEF Rerun, FundedInv
<1>9. CASE CommitTx
  <2>1. \A w \in Ws : bal'[w] \in Nat /\ bal'[w] >= bal[w]
    BY <1>9, CommitTxBalGrows
  <2>2. UNCHANGED plannerVars
    BY <1>9 DEF CommitTx
  <2>3. \A w \in Ws : bal[w] >= FundAmount => bal'[w] >= FundAmount
    BY <1>0, <2>1, SeedAssumption DEF TypeOK
  <2>4. UNCHANGED <<pc, needs, idx, allFunded>>
    BY <2>2 DEF plannerVars
  <2>5. (pc = "verify" /\ idx <= Len(needs)) => \A k \in 1 .. idx : needs[k] \in Ws
    BY <1>0 DEF TypeOK
  <2>6. (pc = "classify" => /\ idx <= NumWorkers
                            /\ \A w \in 0 .. (idx - 1) : InNeeds(w) \/ bal[w] >= FundAmount)'
    <3>1. pc = "classify" => \A w \in 0 .. (idx - 1) : w \in Ws
      BY <1>0, SeedAssumption DEF FundedInv, TypeOK, Ws
    <3>2. QED
      BY <2>3, <2>4, <3>1 DEF FundedInv, InNeeds
  <2>7. (pc \in {"build", "poll", "verify"} =>
          \A w \in Ws : InNeeds(w) \/ bal[w] >= FundAmount)'
    BY <2>3, <2>4 DEF FundedInv, InNeeds
  <2>8. (pc = "verify" => /\ idx <= Len(needs)
                          /\ allFunded => \A k \in 1 .. idx : bal[needs[k]] >= FundAmount)'
    BY <2>3, <2>4, <2>5 DEF FundedInv
  <2>9. (pc = "done" => \A w \in Ws : bal[w] >= FundAmount)'
    BY <2>3, <2>4 DEF FundedInv
  <2>10. QED
    BY <2>6, <2>7, <2>8, <2>9 DEF FundedInv
<1>10. CASE FlushMempool \/ UNCHANGED vars
  BY <1>10 DEF FlushMempool, vars, plannerVars, ledgerVars, FundedInv, InNeeds
<1>11. QED
  BY <1>1, <1>2, <1>3, <1>4, <1>5, <1>6, <1>7, <1>8, <1>9, <1>10
  DEF Next, Planner, Ledger

(* For every number of workers and whatever calls fail: when seedAccounts  *)
(* returns success, every worker account holds the fund amount.  Both      *)
(* success paths are covered: "all accounts already funded" after the      *)
(* classification loop, and allFunded after the verification loop.         *)
THEOREM SuccessImpliesFundedHolds == Spec => []SuccessImpliesFunded
<1>1. Spec => [](IInv /\ FundedInv)
  <2>1. Init => IInv /\ FundedInv
    BY InitIInv, InitFundedInv
  <2>2. IInv /\ FundedInv /\ [Next]_vars => (IInv /\ FundedInv)'
    BY NextIInv, NextFundedInv
  <2>3. QED
    BY <2>1, <2>2, PTL DEF Spec
<1>2. FundedInv => SuccessImpliesFunded
  BY DEF FundedInv, SuccessImpliesFunded
<1>3. QED
  BY <1>1, <1>2, PTL
-----------------------------------------------------------------------------
(* Idempotence on a reliable network.                                      *)

(* Multiplying by a positive count does not shrink a natural; products     *)
(* distribute over sums.                                                   *)
LEMMA NatMulFacts ==
    ASSUME NEW a \in Nat, NEW b \in Nat, NEW c \in Nat
    PROVE  /\ b >= 1 => a * b >= a
           /\ a * (b + c) = a * b + a * c
  OBVIOUS

(* In an increasing sequence a value occurs at most once, and not at all   *)
(* when no position holds it.                                              *)
LEMMA IncreasingOccurrences ==
    ASSUME NEW s \in Seq(Ws), Increasing(s), NEW w
    PROVE  /\ Occurrences(s, w) <= 1
           /\ (\A k \in 1 .. Len(s) : s[k] # w) => Occurrences(s, w) = 0
<1> DEFINE S == {k \in DOMAIN s : s[k] = w}
<1>1. CASE S = {}
  <2>1. Cardinality(S) = 0
    BY <1>1, FS_EmptySet, Zenon
  <2>2. QED
    BY <2>1 DEF Occurrences
<1>2. CASE S # {}
  <2>1. PICK k0 \in S : TRUE
    BY <1>2
  <2>2. ASSUME NEW k \in S PROVE k = k0
    <3>1. k \in 1 .. Len(s) /\ k0 \in 1 .. Len(s) /\ s[k] = s[k0]
      BY <2>1
    <3>2. s[k] \in Nat
      BY <3>1, SeedAssumption DEF Ws
    <3>3. ~(k < k0) /\ ~(k0 < k)
      BY <3>1, <3>2 DEF Increasing
    <3>4. QED
      BY <3>1, <3>3
  <2>6. S = {k0}
    BY <2>1, <2>2
  <2>3. Cardinality(S) = 1
    BY <2>6, FS_Singleton, Zenon
  <2>4. (\A k \in 1 .. Len(s) : s[k] # w) => FALSE
    BY <2>1
  <2>5. QED
    BY <2>3, <2>4 DEF Occurrences

<1>3. QED
  BY <1>1, <1>2

(* A batch of an increasing needsFunding is needsFunding[i+1 .. Cap(i+B)],   *)
(* increasing too.                                                          *)
LEMMA BatchOfElems ==
    ASSUME needs \in Seq(Ws), NEW i \in Nat, i < Len(needs)
    PROVE  /\ Len(BatchOf(needs, i)) = Cap(i + BatchSize) - i
           /\ \A j \in 1 .. Len(BatchOf(needs, i)) :
                 /\ i + j \in i + 1 .. Cap(i + BatchSize)
                 /\ BatchOf(needs, i)[j] = needs[i + j]
<1>1. Cap(i + BatchSize) \in i .. Len(needs)
  BY SeedAssumption, CapRange DEF Cap
<1>2. \A k \in (i + 1) .. Cap(i + BatchSize) : needs[k] \in Ws
  BY <1>1
<1>3. BatchOf(needs, i) = SubSeq(needs, i + 1, Cap(i + BatchSize))
  BY DEF BatchOf, Cap
<1>4. QED
  BY <1>1, <1>2, <1>3, SubSeqProperties

LEMMA BatchOfIncreasing ==
    ASSUME needs \in Seq(Ws), Increasing(needs), NEW i \in Nat, i < Len(needs)
    PROVE  Increasing(BatchOf(needs, i))
<1>1. Cap(i + BatchSize) \in 0 .. Len(needs)
  BY CapRange, SeedAssumption
<1>2. SUFFICES ASSUME NEW a \in 1 .. Len(BatchOf(needs, i)), NEW b \in 1 .. Len(BatchOf(needs, i)), a < b
               PROVE  BatchOf(needs, i)[a] < BatchOf(needs, i)[b]
  BY DEF Increasing
<1>5. /\ i + a \in i + 1 .. Cap(i + BatchSize) /\ BatchOf(needs, i)[a] = needs[i + a]
      /\ i + b \in i + 1 .. Cap(i + BatchSize) /\ BatchOf(needs, i)[b] = needs[i + b]
  BY BatchOfElems
<1>3. /\ i + a \in 1 .. Len(needs) /\ i + b \in 1 .. Len(needs)
      /\ BatchOf(needs, i)[a] = needs[i + a] /\ BatchOf(needs, i)[b] = needs[i + b]
  BY <1>1, <1>5, SMTT(20)
<1>4. QED
  BY <1>2, <1>3 DEF Increasing

(* Appending a larger value keeps a sequence increasing.                   *)
LEMMA AppendIncreasing ==
    ASSUME NEW s \in Seq(Ws), Increasing(s), NEW x \in Ws,
           \A k \in 1 .. Len(s) : s[k] < x
    PROVE  Increasing(Append(s, x))
  BY AppendProperties DEF Increasing

(* A worker below the fund amount has never been credited.                 *)
LEMMA LowBalanceFresh ==
    ASSUME TypeOK, Accounting, NEW w \in Ws, bal[w] < FundAmount
    PROVE  Fresh(w)
<1>1. initBal[w] \in Nat /\ credits[w] \in Nat /\ FundAmount \in Nat
  BY SeedAssumption DEF TypeOK, Accounting
<1>2. credits[w] >= 1 => FundAmount * credits[w] >= FundAmount
  BY <1>1, NatMulFacts
<1>3. FundAmount * credits[w] \in Nat
  BY <1>1, NatProduct
<1>4. credits[w] = 0
  BY <1>1, <1>2, <1>3 DEF Accounting
<1>5. initBal[w] < FundAmount
  BY <1>1, <1>4 DEF Accounting
<1>6. QED
  BY <1>4, <1>5 DEF Fresh
(* The inductive strengthening of idempotence holds initially.             *)
LEMMA InitDInv == Init => DInv
<1> SUFFICES ASSUME Init PROVE DInv
  OBVIOUS
<1>1. initBal \in [Ws -> Nat] /\ credits = [w \in Ws |-> 0]
  BY SeedAssumption, Zenon DEF Init
<1>2. Accounting
  <2>1. FundAmount \in Nat
    BY SeedAssumption
  <2>2. QED
    BY <1>1, <2>1 DEF Init, Accounting
<1>3. NoDoubleFunding
  BY <1>1 DEF NoDoubleFunding
<1>4. QED
  BY <1>2, <1>3 DEF Init, DInv, PendingFresh, PlannerFresh

(* Accounting, idempotence and the pending batch's freshness mention only  *)
(* the ledger, so a planner step that leaves the ledger alone keeps them.  *)
LEMMA LedgerUnchangedDInv ==
    ASSUME DInv, UNCHANGED ledgerVars, PlannerFresh'
    PROVE  DInv'
  BY DEF DInv, ledgerVars, Accounting, NoDoubleFunding, PendingFresh, Fresh

(* Frame facts: the freshness predicates depend only on the variables     *)
(* they mention.                                                            *)
LEMMA FreshFromFrame ==
    ASSUME credits' = credits, initBal' = initBal, needs' = needs, NEW i
    PROVE  /\ \A w : Fresh(w)' = Fresh(w)
           /\ FreshFrom(i)' = FreshFrom(i)
<1>1. \A w : Fresh(w)' = Fresh(w)
  BY DEF Fresh
<1>2. QED
  BY <1>1 DEF FreshFrom

LEMMA PlannerFreshFrame ==
    ASSUME UNCHANGED <<pc, needs, idx, curSeq, chainSeq, credits, initBal, tx, mempool>>,
           PlannerFresh
    PROVE  PlannerFresh'
<1>1. Increasing(needs)' = Increasing(needs)
  BY DEF Increasing
<1>2. \A n : Cap(n)' = Cap(n)
  BY DEF Cap
<1>3. \A i : FreshFrom(i)' = FreshFrom(i)
  BY FreshFromFrame
<1>4. BatchOf(needs, idx)' = BatchOf(needs, idx)
  OBVIOUS
<1>5. QED
  BY <1>1, <1>2, <1>3, <1>4 DEF PlannerFresh

(* Leaving the three loop states makes the planner part vacuous.          *)
LEMMA OutsideLoopPlannerFresh ==
    ASSUME pc' \notin {"classify", "build", "poll"}
    PROVE  PlannerFresh'
  BY DEF PlannerFresh

LEMMA OtherPlannerDInv ==
    ASSUME DInv,
           ResolveSeedKey \/ QuerySeedBalance \/ BatchesDone \/ PollTimeout
             \/ VerifyWorker \/ VerifyDone \/ Rerun
    PROVE  DInv'
<1>1. UNCHANGED ledgerVars /\ pc' \notin {"classify", "build", "poll"}
  BY DEF ResolveSeedKey, QuerySeedBalance, BatchesDone, PollTimeout,
         VerifyWorker, VerifyDone, Rerun, Fail, ledgerVars
<1>2. QED
  BY <1>1, OutsideLoopPlannerFresh, LedgerUnchangedDInv

(* Reading the committed sequence starts classification with no needs.     *)
LEMMA QuerySeedAccountDInv ==
    ASSUME ~Flaky, DInv, QuerySeedAccount
    PROVE  DInv'
<1>1. UNCHANGED ledgerVars /\ pc' = "classify" /\ needs' = <<>>
  BY DEF QuerySeedAccount, QueryFails
<1>2. PlannerFresh'
  BY <1>1 DEF PlannerFresh, Increasing, FreshFrom
<1>3. QED
  BY <1>1, <1>2, LedgerUnchangedDInv
(* A reliable balance query appends exactly the workers below the fund     *)
(* amount, and those are fresh; appending in index order keeps the list    *)
(* increasing.                                                              *)
LEMMA ClassifyWorkerDInv ==
    ASSUME ~Flaky, IInv, DInv, ClassifyWorker
    PROVE  DInv'
<1>0. /\ TypeOK /\ Accounting /\ PlannerFresh
      /\ pc = "classify" /\ pc' = pc /\ idx < NumWorkers /\ idx' = idx + 1
      /\ UNCHANGED ledgerVars /\ curSeq' = curSeq
      /\ needs' = IF bal[idx] < FundAmount THEN Append(needs, idx) ELSE needs
  BY DEF IInv, DInv, ClassifyWorker, QueryFails
<1>1. idx \in Ws /\ (\A w \in Ws : w \in Nat) /\ idx' \in Nat /\ needs \in Seq(Ws)
  BY <1>0, SeedAssumption DEF Ws, TypeOK
<1>2. /\ Increasing(needs)
      /\ \A k \in 1 .. Len(needs) : needs[k] < idx
      /\ curSeq = chainSeq => FreshFrom(1)
  BY <1>0 DEF PlannerFresh
<1>8. pc' = "classify"
  BY <1>0
<1>4. ASSUME bal[idx] < FundAmount PROVE PlannerFresh'
  <2>1. Fresh(idx)
    BY <1>0, <1>1, <1>4, LowBalanceFresh
  <2>2. needs' = Append(needs, idx)
    BY <1>0, <1>4
  <2>3. /\ Len(needs') = Len(needs) + 1
        /\ needs'[Len(needs) + 1] = idx
        /\ \A k \in 1 .. Len(needs) : needs'[k] = needs[k]
    BY <2>2, <1>1, AppendProperties
  <2>8. Increasing(Append(needs, idx))
    BY <1>1, <1>2, AppendIncreasing
  <2>4. Increasing(needs')
    BY <2>2, <2>8
  <2>5. \A k \in 1 .. Len(needs') : needs'[k] < idx'
    <3> SUFFICES ASSUME NEW k \in 1 .. Len(needs) + 1 PROVE needs'[k] < idx + 1
      BY <1>0, <2>3
    <3>1. CASE k = Len(needs) + 1
      BY <3>1, <2>3, <1>1
    <3>2. CASE k \in 1 .. Len(needs)
      <4>5. needs[k] \in Ws
        BY <3>2, <1>1
      <4>6. needs[k] < idx
        BY <3>2, <1>2
      <4>7. needs'[k] = needs[k]
        BY <3>2, <2>3
      <4>1. needs[k] \in Nat /\ needs[k] < idx /\ needs'[k] = needs[k]
        BY <4>5, <4>6, <4>7, <1>1
      <4>2. QED
        BY <4>1, <1>1
    <3>3. QED
      BY <3>1, <3>2
  <2>6. curSeq' = chainSeq' => FreshFrom(1)'
    <3> SUFFICES ASSUME curSeq' = chainSeq', NEW k \in 1 .. Len(needs) + 1
                 PROVE  Fresh(needs[k])'
      BY <2>3 DEF FreshFrom
    <3>1. curSeq = chainSeq
      BY <1>0 DEF ledgerVars
    <3>2. CASE k = Len(needs) + 1
      <4>1. needs'[k] = idx
        BY <3>2, <2>3
      <4>2. QED
        BY <4>1, <1>0, <2>1 DEF Fresh, ledgerVars
    <3>3. CASE k \in 1 .. Len(needs)
      <4>1. needs'[k] = needs[k]
        BY <3>3, <2>3
      <4>2. Fresh(needs[k])
        BY <3>1, <3>3, <1>2 DEF FreshFrom
      <4>3. QED
        BY <4>1, <4>2, <1>0 DEF Fresh, ledgerVars
    <3>4. QED
      BY <3>2, <3>3
  <2>7. QED
    BY <1>8, <2>4, <2>5, <2>6 DEF PlannerFresh
<1>5. ASSUME ~(bal[idx] < FundAmount) PROVE PlannerFresh'
  <2>1. needs' = needs /\ needs \in Seq(Ws)
    BY <1>0, <1>1, <1>5
  <2>2. \A k \in 1 .. Len(needs') : needs'[k] < idx'
    <3> SUFFICES ASSUME NEW k \in 1 .. Len(needs) PROVE needs[k] < idx + 1
      BY <1>0, <2>1
    <3>1. needs[k] \in Nat /\ needs[k] < idx
      BY <2>1, <1>1, <1>2
    <3>2. QED
      BY <3>1, <1>1
  <2>3. curSeq' = chainSeq' => FreshFrom(1)'
    <3> SUFFICES ASSUME curSeq' = chainSeq', NEW k \in 1 .. Len(needs)
                 PROVE  Fresh(needs[k])'
      BY <2>1 DEF FreshFrom
    <3>1. Fresh(needs[k])
      BY <1>0, <1>2, <2>1 DEF FreshFrom, ledgerVars
    <3>2. QED
      BY <3>1, <1>0, <2>1 DEF Fresh, ledgerVars
  <2>5. Increasing(needs')
    BY <1>2, <2>1
  <2>4. QED
    BY <1>8, <2>5, <2>2, <2>3 DEF PlannerFresh
<1>6. PlannerFresh'
  BY <1>4, <1>5
<1>7. QED
  BY <1>0, <1>6, LedgerUnchangedDInv DEF DInv

(* Classification ends by entering the batch loop at index 0.              *)
LEMMA ClassifyDoneDInv ==
    ASSUME DInv, ClassifyDone
    PROVE  DInv'
<1>0. /\ PlannerFresh /\ pc = "classify" /\ UNCHANGED ledgerVars
      /\ UNCHANGED <<curSeq, needs>>
      /\ \/ pc' = "done"
         \/ pc' = "build" /\ idx' = 0
  BY DEF DInv, ClassifyDone
<1>1. CASE pc' = "done"
  BY <1>0, <1>1, OutsideLoopPlannerFresh, LedgerUnchangedDInv
<1>2. CASE pc' = "build" /\ idx' = 0
  <2>1. PlannerFresh'
    BY <1>0, <1>2 DEF PlannerFresh, FreshFrom, Fresh, ledgerVars
  <2>2. QED
    BY <1>0, <2>1, LedgerUnchangedDInv
<1>3. QED
  BY <1>0, <1>1, <1>2
(* A confirmation is only seen once the batch committed, which advanced    *)
(* the chain past the planner's sequence; the next batch starts at         *)
(* i + BatchSize, beyond every worker the committed batch funded.          *)
LEMMA PollTxStatusDInv ==
    ASSUME IInv, DInv, PollTxStatus
    PROVE  DInv'
<1>0. /\ TypeOK /\ CursorInv /\ PlannerFresh /\ pc = "poll"
      /\ UNCHANGED ledgerVars /\ UNCHANGED <<needs, tx>>
  BY DEF IInv, DInv, PollTxStatus
<1>1. CASE UNCHANGED <<pc, curSeq, idx>>
  <2>1. PlannerFresh'
    BY <1>0, <1>1, PlannerFreshFrame DEF ledgerVars
  <2>2. QED
    BY <1>0, <2>1, LedgerUnchangedDInv
<1>2. CASE pc' = "failed"
  BY <1>0, <1>2, OutsideLoopPlannerFresh, LedgerUnchangedDInv
<1>3. CASE \E r \in committed : /\ r.tx = tx /\ r.code = "ok"
                                /\ pc' = "build" /\ curSeq' = curSeq + 1
                                /\ idx' = idx + BatchSize
  <2>1. PICK r \in committed : /\ r.tx = tx /\ r.code = "ok"
                               /\ pc' = "build" /\ curSeq' = curSeq + 1
                               /\ idx' = idx + BatchSize
    BY <1>3
  <2>2. curSeq \in Nat /\ chainSeq \in Nat /\ idx \in Nat /\ BatchSize \in Nat
        /\ needs \in Seq(Ws)
    BY <1>0, SeedAssumption DEF TypeOK
  <2>3. tx.seq = curSeq /\ tx.seq < chainSeq
    BY <1>0, <2>1 DEF CursorInv
  <2>4. chainSeq <= curSeq + 1 /\ (chainSeq = curSeq + 1 => FreshFrom(Cap(idx + BatchSize) + 1))
    BY <1>0 DEF PlannerFresh
  <2>5. FreshFrom(Cap(idx + BatchSize) + 1) /\ curSeq' = chainSeq'
    BY <2>1, <2>2, <2>3, <2>4, <1>0 DEF ledgerVars
  <2>6. Cap(idx + BatchSize) <= idx + BatchSize
    BY <2>2, CapRange
  <2>7. FreshFrom(idx + 1)'
    <3> SUFFICES ASSUME NEW k \in idx + BatchSize + 1 .. Len(needs)
                 PROVE  Fresh(needs[k])'
      BY <1>0, <2>1 DEF FreshFrom
    <3>1. k \in Cap(idx + BatchSize) + 1 .. Len(needs)
      BY <2>2, <2>6, CapRange
    <3>2. Fresh(needs[k])
      BY <3>1, <2>5 DEF FreshFrom
    <3>3. QED
      BY <3>2, <1>0 DEF Fresh, ledgerVars
  <2>8. Increasing(needs')
    BY <1>0 DEF PlannerFresh
  <2>9. PlannerFresh'
    BY <2>1, <2>5, <2>7, <2>8 DEF PlannerFresh
  <2>10. QED
    BY <1>0, <2>9, LedgerUnchangedDInv
<1>4. QED
  BY <1>1, <1>2, <1>3 DEF PollTxStatus, Fail

(* Emptying the mempool without touching the planner, the chain height or  *)
(* the accounts keeps the planner part: it only ever asks for less.          *)
LEMMA EmptyMempoolPlannerFresh ==
    ASSUME PlannerFresh, mempool' = {},
           UNCHANGED <<plannerVars, chainSeq, initBal, credits>>
    PROVE  PlannerFresh'
<1>1. /\ Increasing(needs)' = Increasing(needs)
      /\ \A n : Cap(n)' = Cap(n)
      /\ \A i : FreshFrom(i)' = FreshFrom(i)
  BY FreshFromFrame DEF Increasing, Cap, plannerVars
<1>2. QED
  BY <1>1 DEF PlannerFresh, plannerVars

(* Dropping the pending transaction leaves the accounts and the planner    *)
(* untouched and the mempool empty.                                         *)
LEMMA FlushMempoolDInv ==
    ASSUME DInv, FlushMempool
    PROVE  DInv'
<1>0. /\ mempool' = {}
      /\ UNCHANGED <<plannerVars, bal, chainSeq, initBal, credits>>
  BY DEF FlushMempool
<1>1. Accounting' /\ NoDoubleFunding' /\ PendingFresh'
  BY <1>0 DEF DInv, Accounting, NoDoubleFunding, PendingFresh, plannerVars
<1>2. PlannerFresh'
  BY <1>0, EmptyMempoolPlannerFresh DEF DInv
<1>3. QED
  BY <1>1, <1>2 DEF DInv

(* A batch is accepted only at the committed sequence, and then every      *)
(* worker of needsFunding from i on is fresh; the batch is a slice of      *)
(* that list, so it pays only fresh workers, each once.                    *)
LEMMA BuildAndBroadcastDInv ==
    ASSUME IInv, DInv, BuildAndBroadcast
    PROVE  DInv'
<1> DEFINE b == BatchOf(needs, idx)
           t == [seq |-> curSeq, to |-> b, fee |-> BatchFee(Len(b))]
<1>0. /\ TypeOK /\ LedgerInv /\ CursorInv /\ PlannerFresh /\ PendingFresh
      /\ Accounting /\ NoDoubleFunding
      /\ pc = "build" /\ idx < Len(needs)
      /\ UNCHANGED <<curSeq, needs, idx, bal, chainSeq, initBal, credits>>
  BY ZenonT(30) DEF IInv, DInv, BuildAndBroadcast
<1>1. \/ pc' = "failed" /\ UNCHANGED mempool
      \/ pc' = "failed" /\ CheckTxError(t) = "none" /\ mempool' = mempool \cup {t}
      \/ pc' = "poll" /\ tx' = t /\ CheckTxError(t) = "none" /\ mempool' = mempool \cup {t}
  BY ZenonT(30) DEF BuildAndBroadcast, Fail
<1>2. Accounting' /\ NoDoubleFunding'
  BY <1>0 DEF Accounting, NoDoubleFunding
<1>3. \A w : Fresh(w)' = Fresh(w)
  BY <1>0, FreshFromFrame
<1>4. CheckTxError(t) = "none" => mempool = {} /\ curSeq = chainSeq
  BY <1>0, AcceptedOnlyWhenIdle
<1>5. /\ needs \in Seq(Ws) /\ idx \in Nat
      /\ Increasing(needs)
      /\ curSeq = chainSeq => FreshFrom(idx + 1)
  BY <1>0 DEF TypeOK, PlannerFresh
<1>6. Increasing(t.to)
  BY <1>5, <1>0, BatchOfIncreasing
<1>7. curSeq = chainSeq => \A j \in 1 .. Len(t.to) : Fresh(t.to[j])
  <2> SUFFICES ASSUME curSeq = chainSeq, NEW j \in 1 .. Len(b) PROVE Fresh(b[j])
    OBVIOUS
  <2>1. idx + j \in idx + 1 .. Cap(idx + BatchSize) /\ b[j] = needs[idx + j]
    BY <1>0, <1>5, BatchOfElems, SMTT(20)
  <2>2. Cap(idx + BatchSize) \in 0 .. Len(needs)
    BY <1>5, SeedAssumption, CapRange
  <2>4. idx + j \in idx + 1 .. Len(needs)
    BY <1>5, <2>1, <2>2
  <2>5. Fresh(needs[idx + j])
    BY <1>5, <2>4 DEF FreshFrom
  <2>3. QED
    BY <2>1, <2>5
<1>8. PendingFresh'
  <2>1. CASE UNCHANGED mempool
    BY <1>0, <1>3, <2>1 DEF PendingFresh
  <2>2. CASE CheckTxError(t) = "none" /\ mempool' = mempool \cup {t}
    <3>1. mempool' = {t} /\ curSeq = chainSeq
      BY <1>4, <2>2
    <3>2. QED
      BY <3>1, <1>3, <1>6, <1>7 DEF PendingFresh
  <2>3. QED
    BY <1>1, <2>1, <2>2, SMTT(20)
<1>9. PlannerFresh'
  <2>1. CASE pc' = "failed"
    BY <2>1, OutsideLoopPlannerFresh
  <2>2. CASE pc' = "poll" /\ tx' = t /\ CheckTxError(t) = "none" /\ mempool' = mempool \cup {t}
    <3>1. mempool' = {t} /\ curSeq = chainSeq /\ curSeq \in Nat
      BY <1>0, <1>4, <2>2 DEF TypeOK
    <3>2. FreshFrom(idx + 1)' = FreshFrom(idx + 1)
      BY <1>0, FreshFromFrame
    <3>3. Increasing(needs)' = Increasing(needs)
      BY <1>0 DEF Increasing
    <3>4. QED
      BY <1>0, <1>5, <2>2, <3>1, <3>2, <3>3 DEF PlannerFresh
  <2>3. QED
    BY <1>1, <2>1, <2>2
<1>10. QED
  BY <1>2, <1>8, <1>9, SMTT(20) DEF DInv

(* The bank sends of a committed batch whose recipients are fresh and      *)
(* distinct credit each of them once and keep balances and credits in      *)
(* step.                                                                    *)
LEMMA CommitOkAccounts ==
    ASSUME TypeOK, Accounting, NoDoubleFunding,
           NEW t \in Txs, Increasing(t.to),
           \A k \in 1 .. Len(t.to) : Fresh(t.to[k]),
           bal' = [w \in Ws |-> bal[w] + FundAmount * Occurrences(t.to, w)],
           credits' = [w \in Ws |-> credits[w] + Occurrences(t.to, w)],
           initBal' = initBal
    PROVE  Accounting' /\ NoDoubleFunding'
<1>0. t.to \in Seq(Ws) /\ FundAmount \in Nat /\ initBal \in [Ws -> Nat]
  BY SeedAssumption, SMTT(20) DEF Txs, Accounting
<1>1. SUFFICES ASSUME NEW w \in Ws
               PROVE  /\ bal'[w] = initBal[w] + FundAmount * credits'[w]
                      /\ credits'[w] <= IF initBal[w] < FundAmount THEN 1 ELSE 0
  BY <1>0, SMTT(20) DEF Accounting, NoDoubleFunding
<1> DEFINE O == Occurrences(t.to, w)
           c == credits[w]
<1>2. O \in Nat /\ O <= 1 /\ ((\A k \in 1 .. Len(t.to) : t.to[k] # w) => O = 0)
  BY <1>0, OccurrencesType, IncreasingOccurrences, ZenonT(30)
<1>3. c \in Nat /\ initBal[w] \in Nat /\ bal[w] = initBal[w] + FundAmount * c
  <2>1. credits \in [Ws -> Nat]
    BY Zenon DEF TypeOK
  <2>2. bal[w] = initBal[w] + FundAmount * c
    BY Zenon DEF Accounting
  <2>3. QED
    BY <1>0, <2>1, <2>2
<1>4. bal'[w] = bal[w] + FundAmount * O /\ credits'[w] = c + O
  BY ZenonT(30)
<1>5. bal'[w] = initBal[w] + FundAmount * credits'[w]
  <2>1. FundAmount * (c + O) = FundAmount * c + FundAmount * O
    BY <1>0, <1>2, <1>3, NatMulFacts, SMTT(20)
  <2>2. FundAmount * c \in Nat /\ FundAmount * O \in Nat
    BY <1>0, <1>2, <1>3, NatProduct, ZenonT(30)
  <2>3. QED
    BY <1>3, <1>4, <2>1, <2>2, SMTT(20)
<1>6. CASE O = 0
  <2>1. c <= IF initBal[w] < FundAmount THEN 1 ELSE 0
    BY DEF NoDoubleFunding
  <2>2. QED
    BY <1>3, <1>4, <1>5, <1>6, <2>1
<1>7. CASE O # 0
  <2>1. PICK k \in 1 .. Len(t.to) : t.to[k] = w
    BY <1>2, <1>7
  <2>2. Fresh(w)
    BY <2>1, SMTT(20)
  <2>3. c = 0 /\ initBal[w] < FundAmount /\ O = 1
    BY <1>2, <1>7, <2>2 DEF Fresh
  <2>4. QED
    BY <1>4, <1>5, <2>3
<1>8. QED
  BY <1>5, <1>6, <1>7, SMTT(20)

(* The workers of needsFunding after the pending batch are not among its   *)
(* recipients: the list is increasing and the batch is a slice before them.*)
LEMMA LaterNotInBatch ==
    ASSUME needs \in Seq(Ws), Increasing(needs), NEW i \in Nat, i < Len(needs),
           NEW k \in Cap(i + BatchSize) + 1 .. Len(needs)
    PROVE  \A j \in 1 .. Len(BatchOf(needs, i)) : BatchOf(needs, i)[j] # needs[k]
<1> SUFFICES ASSUME NEW j \in 1 .. Len(BatchOf(needs, i))
             PROVE  BatchOf(needs, i)[j] # needs[k]
  OBVIOUS
<1>1. i + j \in i + 1 .. Cap(i + BatchSize) /\ BatchOf(needs, i)[j] = needs[i + j]
  BY BatchOfElems
<1>2. Cap(i + BatchSize) \in 0 .. Len(needs)
  BY SeedAssumption, CapRange
<1>3. i + j \in 1 .. Len(needs) /\ k \in 1 .. Len(needs) /\ i + j < k
  BY <1>1, <1>2
<1>4. needs[i + j] < needs[k]
  BY <1>3 DEF Increasing
<1>5. needs[k] \in Nat
  BY <1>3, SeedAssumption, SMTT(20) DEF Ws
<1>6. QED
  BY <1>1, <1>4, <1>5
(* A block commits the pending batch.  Its recipients were fresh, so each  *)
(* is credited once; the chain moves past the planner's sequence, and the  *)
(* workers still to be batched were not recipients, so they stay fresh.    *)
LEMMA CommitTxDInv ==
    ASSUME IInv, DInv, CommitTx
    PROVE  DInv'
<1>0. /\ TypeOK /\ LedgerInv /\ CursorInv
      /\ Accounting /\ NoDoubleFunding /\ PendingFresh /\ PlannerFresh
      /\ UNCHANGED <<plannerVars, initBal>>
  BY DEF IInv, DInv, CommitTx
<1>1. PICK t \in mempool :
         /\ t.seq = chainSeq
         /\ IF seedBal < t.fee
              THEN /\ mempool' = {}
                   /\ UNCHANGED <<bal, chainSeq, credits>>
              ELSE /\ chainSeq' = chainSeq + 1
                   /\ mempool' = mempool \ {t}
                   /\ \/ /\ bal' = [w \in Ws |-> bal[w] + FundAmount * Occurrences(t.to, w)]
                         /\ credits' = [w \in Ws |-> credits[w] + Occurrences(t.to, w)]
                      \/ UNCHANGED <<bal, credits>>
  BY DEF CommitTx
<1>2. mempool = {t}
  BY <1>0, SMTT(20) DEF LedgerInv
<1>3. /\ t \in Txs /\ Increasing(t.to) /\ \A k \in 1 .. Len(t.to) : Fresh(t.to[k])
      /\ curSeq \in Nat /\ chainSeq \in Nat /\ curSeq <= chainSeq
  BY <1>0, Zenon DEF TypeOK, PendingFresh, CursorInv
<1>4. CASE seedBal < t.fee
  <2>1. mempool' = {} /\ UNCHANGED <<bal, chainSeq, credits>>
    BY <1>1, <1>4
  <2>2. Accounting' /\ NoDoubleFunding' /\ PendingFresh'
    BY <1>0, <2>1 DEF Accounting, NoDoubleFunding, PendingFresh
  <2>3. PlannerFresh'
    BY <1>0, <2>1, EmptyMempoolPlannerFresh
  <2>4. QED
    BY <2>2, <2>3 DEF DInv
<1>5. CASE ~(seedBal < t.fee)
  <2>1. chainSeq' = chainSeq + 1 /\ mempool' = {}
    BY <1>1, <1>2, <1>5
  <2>2. Accounting' /\ NoDoubleFunding'
    <3>1. CASE /\ bal' = [w \in Ws |-> bal[w] + FundAmount * Occurrences(t.to, w)]
               /\ credits' = [w \in Ws |-> credits[w] + Occurrences(t.to, w)]
      BY <1>0, <1>3, <3>1, CommitOkAccounts
    <3>2. CASE UNCHANGED <<bal, credits>>
      BY <1>0, <3>2 DEF Accounting, NoDoubleFunding
    <3>3. QED
      BY <1>1, <1>5, <3>1, <3>2
  <2>3. PendingFresh'
    BY <2>1 DEF PendingFresh
  <2>4. /\ Increasing(needs)' = Increasing(needs)
        /\ \A n : Cap(n)' = Cap(n)
        /\ BatchOf(needs, idx)' = BatchOf(needs, idx)
        /\ curSeq' = curSeq /\ curSeq # chainSeq'
    <3>1. needs' = needs /\ idx' = idx /\ curSeq' = curSeq
      BY <1>0 DEF plannerVars
    <3>2. Increasing(needs)' = Increasing(needs)
      BY <3>1 DEF Increasing
    <3>3. \A n : Cap(n)' = Cap(n)
      BY <3>1 DEF Cap
    <3>4. BatchOf(needs, idx)' = BatchOf(needs, idx)
      BY <3>1
    <3>5. curSeq # chainSeq'
      BY <1>3, <2>1
    <3>6. QED
      BY <3>1, <3>2, <3>3, <3>4, <3>5
  <2>5. ASSUME pc = "poll"
        PROVE  /\ idx < Len(needs) /\ tx.to = BatchOf(needs, idx)
               /\ chainSeq' = curSeq + 1
               /\ FreshFrom(Cap(idx + BatchSize) + 1)'
    <3>1. /\ idx < Len(needs) /\ tx.to = BatchOf(needs, idx)
          /\ chainSeq <= curSeq + 1
          /\ chainSeq = curSeq => mempool \subseteq {tx} /\ FreshFrom(idx + 1)
          /\ chainSeq = curSeq + 1 => mempool = {}
          /\ Increasing(needs) /\ needs \in Seq(Ws) /\ idx \in Nat
      BY <2>5, <1>0 DEF PlannerFresh, TypeOK
    <3>2. chainSeq = curSeq /\ t = tx
      BY <1>2, <1>3, <3>1
    <3>3. SUFFICES ASSUME NEW k \in Cap(idx + BatchSize) + 1 .. Len(needs)
                   PROVE  Fresh(needs[k])'
      BY <1>0, <2>1, <2>4, <3>1, <3>2, SMTT(20) DEF FreshFrom, plannerVars
    <3>4. Cap(idx + BatchSize) \in idx .. Len(needs)
      BY <3>1, SeedAssumption, CapRange DEF Cap
    <3>5. needs[k] \in Ws /\ Fresh(needs[k])
      BY <3>1, <3>2, <3>4 DEF FreshFrom
    <3>6. \A j \in 1 .. Len(t.to) : t.to[j] # needs[k]
      BY <3>1, <3>2, LaterNotInBatch
    <3>7. Occurrences(t.to, needs[k]) = 0
      BY <1>3, <3>6, IncreasingOccurrences DEF Txs
    <3>8. credits'[needs[k]] = credits[needs[k]]
      BY <1>1, <1>5, <3>5, <3>7, <1>0 DEF TypeOK
    <3>10. needs' = needs /\ initBal' = initBal
      BY <1>0 DEF plannerVars
    <3>9. QED
      BY <3>5, <3>8, <3>10 DEF Fresh
  <2>6. PlannerFresh'
    BY <1>0, <2>1, <2>4, <2>5 DEF PlannerFresh, plannerVars
  <2>7. QED
    BY <2>2, <2>3, <2>6 DEF DInv
<1>6. QED
  BY <1>4, <1>5
LEMMA NextDInv ==
    ASSUME ~Flaky, IInv, DInv, [Next]_vars
    PROVE  DInv'
<1>1. CASE ResolveSeedKey \/ QuerySeedBalance \/ BatchesDone \/ PollTimeout
             \/ VerifyWorker \/ VerifyDone \/ Rerun
  BY <1>1, OtherPlannerDInv
<1>2. CASE QuerySeedAccount
  BY <1>2, QuerySeedAccountDInv
<1>3. CASE ClassifyWorker
  BY <1>3, ClassifyWorkerDInv
<1>4. CASE ClassifyDone
  BY <1>4, ClassifyDoneDInv
<1>5. CASE BuildAndBroadcast
  BY <1>5, BuildAndBroadcastDInv
<1>6. CASE PollTxStatus
  BY <1>6, PollTxStatusDInv
<1>7. CASE CommitTx
  BY <1>7, CommitTxDInv
<1>8. CASE FlushMempool
  BY <1>8, FlushMempoolDInv
<1>9. CASE UNCHANGED vars
  <2>1. PlannerFresh'
    BY <1>9, PlannerFreshFrame DEF DInv, vars, plannerVars, ledgerVars
  <2>2. QED
    BY <1>9, <2>1, LedgerUnchangedDInv DEF vars
<1>10. QED
  BY <1>1, <1>2, <1>3, <1>4, <1>5, <1>6, <1>7, <1>8, <1>9
  DEF Next, Planner, Ledger

(* For every number of workers, batch size and number of runs, when no     *)
(* query or broadcast fails: however often the operator re-runs the seed   *)
(* command, seedAccounts never sends funds to an account that already held *)
(* the fund amount, and sends to every other account at most once.  The    *)
(* seed_flaky_idempotence run shows why the assumption is needed: with     *)
(* failing calls the property is violated (seed.go:345).                    *)
THEOREM NoDoubleFundingHolds ==
    ASSUME ~Flaky
    PROVE  Spec => []NoDoubleFunding
<1>1. Spec => [](IInv /\ DInv)
  <2>1. Init => IInv /\ DInv
    BY InitIInv, InitDInv
  <2>2. IInv /\ DInv /\ [Next]_vars => (IInv /\ DInv)'
    BY NextIInv, NextDInv
  <2>3. QED
    BY <2>1, <2>2, PTL DEF Spec
<1>2. DInv => NoDoubleFunding
  BY DEF DInv
<1>3. QED
  BY <1>1, <1>2, PTL
=============================================================================
