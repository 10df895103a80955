----------------------- MODULE PerpxBankClientProofs -----------------------
(***************************************************************************)
(* Proofs about the per-worker generator, for every set of workers and    *)
(* goroutines, every starting sequence and every call bound.  Each action  *)
(* changes a few variables with EXCEPT; its type step proves the type of   *)
(* those and takes the rest from UNCHANGED.                                *)
(***************************************************************************)
EXTENDS PerpxBankClient, TLAPS

USE ConstantsAssumption

-----------------------------------------------------------------------------
(* Type correctness of every reachable state.                            *)
LEMMA InitTypeOK == Init => TypeOK
<1> SUFFICES ASSUME Init PROVE TypeOK
  OBVIOUS
<1>1. ClientTypeOK
  BY DEF Init, ClientTypeOK, PCs
<1>2. chainSeq \in [Workers -> Nat]
  BY Zenon DEF Init
<1>3. LedgerTypeOK
  BY <1>2 DEF Init, LedgerTypeOK
<1>4. QED
  BY <1>1, <1>3 DEF TypeOK

(* A step of client w that changes no ledger variable keeps LedgerTypeOK. *)
LEMMA LedgerUnchangedTypeOK ==
  ASSUME TypeOK, UNCHANGED ledgerVars PROVE LedgerTypeOK'
  BY DEF TypeOK, LedgerTypeOK, ledgerVars

(* Setting one goroutine's pc to a label keeps pc well typed.             *)
LEMMA SetPcTypeOK ==
  ASSUME TypeOK, NEW w \in Workers, NEW t \in Threads, NEW l \in PCs,
         SetPc(w, t, l)
  PROVE  pc' \in [Workers -> [Threads -> PCs]]
  BY DEF TypeOK, ClientTypeOK, SetPc

LEMMA GenerateTxCallTypeOK ==
  ASSUME TypeOK, NEW w \in Workers, NEW t \in Threads, GenerateTxCall(w, t)
  PROVE  TypeOK'
<1>1. pc' \in [Workers -> [Threads -> PCs]]
  BY SetPcTypeOK DEF GenerateTxCall, PCs
<1>2. calls' \in [Workers -> 0..MaxCalls]
  BY DEF GenerateTxCall, TypeOK, ClientTypeOK
<1>3. LedgerTypeOK'
  BY LedgerUnchangedTypeOK DEF GenerateTxCall
<1>4. QED
  BY <1>1, <1>2, <1>3, SMTT(20) DEF GenerateTxCall, TypeOK, ClientTypeOK

LEMMA EnsureLockTypeOK ==
  ASSUME TypeOK, NEW w \in Workers, NEW t \in Threads, EnsureLock(w, t)
  PROVE  TypeOK'
<1>1. pc' \in [Workers -> [Threads -> PCs]]
  BY SetPcTypeOK DEF EnsureLock, PCs
<1>2. holder' \in [Workers -> Threads \cup {NoHolder}]
  BY Zenon DEF EnsureLock, TypeOK, ClientTypeOK
<1>3. LedgerTypeOK'
  BY LedgerUnchangedTypeOK DEF EnsureLock
<1>4. QED
  BY <1>1, <1>2, <1>3 DEF EnsureLock, TypeOK, ClientTypeOK

LEMMA EnsureQueryTypeOK ==
  ASSUME TypeOK, NEW w \in Workers, NEW t \in Threads, EnsureQuery(w, t)
  PROVE  TypeOK'
<1>1. CASE QueryAccountOK(w, t)
  <2>1. pc' \in [Workers -> [Threads -> PCs]]
    BY <1>1, SetPcTypeOK DEF QueryAccountOK, PCs
  <2>2. /\ sequence' \in [Workers -> Nat]
        /\ startSeq' \in [Workers -> Nat]
        /\ accountQueried' \in [Workers -> BOOLEAN]
        /\ holder' \in [Workers -> Threads \cup {NoHolder}]
    BY <1>1, Zenon DEF QueryAccountOK, TypeOK, ClientTypeOK, LedgerTypeOK
  <2>3. LedgerTypeOK'
    BY LedgerUnchangedTypeOK DEF EnsureQuery
  <2>4. QED
    BY <2>1, <2>2, <2>3, Zenon DEF EnsureQuery, TypeOK, ClientTypeOK
<1>2. CASE QueryAccountFail(w, t)
  <2>1. pc' \in [Workers -> [Threads -> PCs]]
    BY <1>2, SetPcTypeOK DEF QueryAccountFail, PCs
  <2>2. holder' \in [Workers -> Threads \cup {NoHolder}]
    BY <1>2 DEF QueryAccountFail, TypeOK, ClientTypeOK
  <2>3. LedgerTypeOK'
    BY LedgerUnchangedTypeOK DEF EnsureQuery
  <2>4. QED
    BY <1>2, <2>1, <2>2, <2>3 DEF EnsureQuery, QueryAccountFail, TypeOK,
                                ClientTypeOK
<1>3. QED
  BY <1>1, <1>2 DEF EnsureQuery

LEMMA ReserveSeqTypeOK ==
  ASSUME TypeOK, NEW w \in Workers, NEW t \in Threads, ReserveSeq(w, t)
  PROVE  TypeOK'
<1>1. pc' \in [Workers -> [Threads -> PCs]]
  BY SetPcTypeOK DEF ReserveSeq, PCs
<1>2. /\ seq' \in [Workers -> [Threads -> Nat]]
      /\ sequence' \in [Workers -> Nat]
  BY DEF ReserveSeq, TypeOK, ClientTypeOK
<1>3. LedgerTypeOK'
  BY LedgerUnchangedTypeOK DEF ReserveSeq
<1>4. QED
  BY <1>1, <1>2, <1>3, Zenon DEF ReserveSeq, TypeOK, ClientTypeOK

LEMMA BuildAndSignTypeOK ==
  ASSUME TypeOK, NEW w \in Workers, NEW t \in Threads, BuildAndSign(w, t)
  PROVE  TypeOK'
<1>1. pc' \in [Workers -> [Threads -> PCs]]
  BY SetPcTypeOK DEF BuildAndSign, PCs
<1>2. seq[w][t] \in Nat
  BY DEF TypeOK, ClientTypeOK
<1>3. /\ generated' \in [Workers -> Seq(Nat)]
      /\ skipped' \in [Workers -> SUBSET Nat]
  <2>1. CASE /\ generated' = [generated EXCEPT ![w] = Append(@, seq[w][t])]
             /\ UNCHANGED skipped
    <3>1. Append(generated[w], seq[w][t]) \in Seq(Nat)
      BY <1>2 DEF TypeOK, ClientTypeOK
    <3>2. QED
      BY <2>1, <3>1, Zenon DEF TypeOK, ClientTypeOK
  <2>2. CASE /\ skipped' = [skipped EXCEPT ![w] = @ \cup {seq[w][t]}]
             /\ UNCHANGED generated
    BY <1>2, <2>2 DEF TypeOK, ClientTypeOK
  <2>3. QED
    BY <2>1, <2>2 DEF BuildAndSign
<1>4. LedgerTypeOK'
  BY LedgerUnchangedTypeOK DEF BuildAndSign
<1>5. QED
  BY <1>1, <1>3, <1>4 DEF BuildAndSign, TypeOK, ClientTypeOK

LEMMA LedgerTypeOKStep ==
  ASSUME TypeOK, NEW w \in Workers, Ledger(w)
  PROVE  TypeOK'
<1>1. UNCHANGED clientVars
  BY DEF Ledger, BroadcastTx, BroadcastLost, CommitBlock
<1>2. ClientTypeOK'
  BY <1>1 DEF TypeOK, ClientTypeOK, clientVars
<1>3. LedgerTypeOK'
  <2>1. CASE BroadcastTx(w)
    BY <2>1 DEF BroadcastTx, TypeOK, LedgerTypeOK
  <2>2. CASE BroadcastLost(w)
    BY <2>2 DEF BroadcastLost, TypeOK, LedgerTypeOK
  <2>3. CASE CommitBlock(w)
    BY <2>3 DEF CommitBlock, TypeOK, LedgerTypeOK
  <2>4. QED
    BY <2>1, <2>2, <2>3 DEF Ledger
<1>4. QED
  BY <1>2, <1>3 DEF TypeOK

LEMMA NextTypeOK == TypeOK /\ [Next]_vars => TypeOK'
<1> SUFFICES ASSUME TypeOK, [Next]_vars PROVE TypeOK'
  OBVIOUS
<1>1. CASE UNCHANGED vars
  BY <1>1, Zenon DEF vars, clientVars, ledgerVars, TypeOK, ClientTypeOK, LedgerTypeOK
<1>2. QED
  BY <1>1, GenerateTxCallTypeOK, EnsureLockTypeOK, EnsureQueryTypeOK,
     ReserveSeqTypeOK, BuildAndSignTypeOK, LedgerTypeOKStep DEF Next, Client

(* TypeCorrect: every state of the specification satisfies TypeOK.      *)
THEOREM TypeCorrect == Spec => []TypeOK
  BY InitTypeOK, NextTypeOK, PTL DEF Spec

-----------------------------------------------------------------------------
(***************************************************************************)
(* NoSeqReuse.  It is not inductive as it stands: a reservation must also  *)
(* be known to be fresh.  The strengthening WorkerSeqInv(w) says that      *)
(*  - a goroutine can be reserving or signing only once the account is    *)
(*    resolved, and nothing was returned before that, so the one write of *)
(*    c.sequence by ensureAccountQueried cannot clash with a used number; *)
(*  - a goroutine in the REST query holds the mutex and the account is    *)
(*    still unresolved, so only one goroutine ever writes c.sequence;     *)
(*  - every number returned or still being signed with lies below the     *)
(*    local counter, so the fetch-and-add always hands out a fresh one.   *)
(***************************************************************************)
WorkerSeqInv(w) ==
    /\ \A t \in Threads : pc[w][t] \in {"reserve", "sign"} => accountQueried[w]
    /\ \A t \in Threads : pc[w][t] = "query" => holder[w] = t /\ ~accountQueried[w]
    /\ ~accountQueried[w] => generated[w] = <<>>
    /\ \A i \in 1..Len(generated[w]) : generated[w][i] < sequence[w]
    /\ \A t \in Threads : pc[w][t] = "sign" => seq[w][t] < sequence[w]
    /\ IsInjective(generated[w])
    /\ \A t, u \in Threads :
          pc[w][t] = "sign" /\ pc[w][u] = "sign" /\ t # u => seq[w][t] # seq[w][u]
    /\ \A t \in Threads : pc[w][t] = "sign" => seq[w][t] \notin Range(generated[w])

SeqInv == TypeOK /\ \A w \in Workers : WorkerSeqInv(w)

(* Appending a number that does not occur keeps a sequence injective.   *)
LEMMA AppendInjective ==
  ASSUME NEW S, NEW s \in Seq(S), NEW x \in S,
         IsInjective(s), x \notin Range(s)
  PROVE  IsInjective(Append(s, x)) /\ Range(Append(s, x)) = Range(s) \cup {x}
<1> DEFINE a == Append(s, x)
<1>1. /\ DOMAIN a = 1..(Len(s) + 1)
      /\ \A i \in 1..Len(s) : a[i] = s[i]
      /\ a[Len(s) + 1] = x
      /\ DOMAIN s = 1..Len(s)
  OBVIOUS
<1>2. IsInjective(a)
  BY <1>1 DEF IsInjective, Range
<1>3. Range(a) = Range(s) \cup {x}
  BY <1>1 DEF Range
<1>4. QED
  BY <1>2, <1>3

(* A step that leaves worker v's part of the client alone keeps its part *)
(* of the invariant.                                                     *)
LEMMA WorkerFrame ==
  ASSUME NEW v, WorkerSeqInv(v),
         pc'[v] = pc[v], seq'[v] = seq[v], generated'[v] = generated[v],
         sequence'[v] = sequence[v], accountQueried'[v] = accountQueried[v],
         holder'[v] = holder[v]
  PROVE  WorkerSeqInv(v)'
  BY DEF WorkerSeqInv

LEMMA InitSeqInv == Init => SeqInv
  BY InitTypeOK DEF Init, SeqInv, WorkerSeqInv, IsInjective, Range

LEMMA GenerateTxCallSeqInv ==
  ASSUME SeqInv, NEW w \in Workers, NEW t \in Threads, GenerateTxCall(w, t)
  PROVE  WorkerSeqInv(w)'
  BY DEF SeqInv, TypeOK, ClientTypeOK, GenerateTxCall, SetPc, WorkerSeqInv

LEMMA EnsureLockSeqInv ==
  ASSUME SeqInv, NEW w \in Workers, NEW t \in Threads, EnsureLock(w, t)
  PROVE  WorkerSeqInv(w)'
<1>1. CASE accountQueried[w]
  <2>1. /\ pc' = [pc EXCEPT ![w][t] = "reserve"]
        /\ UNCHANGED <<holder, accountQueried, sequence, seq, generated>>
    BY <1>1 DEF EnsureLock, SetPc
  <2>2. QED
    BY <1>1, <2>1 DEF SeqInv, TypeOK, ClientTypeOK, WorkerSeqInv
<1>2. CASE ~accountQueried[w]
  <2>1. /\ pc' = [pc EXCEPT ![w][t] = "query"]
        /\ holder' = [holder EXCEPT ![w] = t]
        /\ holder[w] = NoHolder
        /\ UNCHANGED <<accountQueried, sequence, seq, generated>>
    BY <1>2 DEF EnsureLock, SetPc
  <2>2. QED
    BY <1>2, <2>1 DEF SeqInv, TypeOK, ClientTypeOK, WorkerSeqInv
<1>3. QED
  BY <1>1, <1>2

LEMMA EnsureQuerySeqInv ==
  ASSUME SeqInv, NEW w \in Workers, NEW t \in Threads, EnsureQuery(w, t)
  PROVE  WorkerSeqInv(w)'
<1>1. CASE QueryAccountOK(w, t)
  <2>1. /\ ~accountQueried[w]
        /\ generated[w] = <<>>
        /\ \A u \in Threads : pc[w][u] \notin {"query", "reserve", "sign"} \/ u = t
    BY DEF SeqInv, WorkerSeqInv, EnsureQuery
  <2>2. QED
    BY <1>1, <2>1 DEF SeqInv, TypeOK, ClientTypeOK, EnsureQuery,
                      QueryAccountOK, SetPc, WorkerSeqInv, IsInjective, Range
<1>2. CASE QueryAccountFail(w, t)
  BY <1>2 DEF SeqInv, TypeOK, ClientTypeOK, EnsureQuery, QueryAccountFail,
              SetPc, WorkerSeqInv
<1>3. QED
  BY <1>1, <1>2 DEF EnsureQuery

LEMMA ReserveSeqSeqInv ==
  ASSUME SeqInv, NEW w \in Workers, NEW t \in Threads, ReserveSeq(w, t)
  PROVE  WorkerSeqInv(w)'
<1> USE DEF SeqInv, TypeOK, ClientTypeOK
<1>1. /\ pc' = [pc EXCEPT ![w][t] = "sign"]
      /\ seq' = [seq EXCEPT ![w][t] = sequence[w]]
      /\ sequence' = [sequence EXCEPT ![w] = @ + 1]
      /\ UNCHANGED <<holder, accountQueried, generated>>
      /\ accountQueried[w]
  BY DEF ReserveSeq, SetPc, WorkerSeqInv
<1>2. /\ \A u \in Threads : pc'[w][u] \in {"reserve", "sign"} => accountQueried'[w]
      /\ \A u \in Threads : pc'[w][u] = "query" => holder'[w] = u /\ ~accountQueried'[w]
      /\ ~accountQueried'[w] => generated'[w] = <<>>
  BY <1>1 DEF WorkerSeqInv
<1>3. /\ sequence'[w] = sequence[w] + 1
      /\ sequence[w] \in Nat
      /\ generated'[w] = generated[w]
  BY <1>1
<1>8. \A i \in 1..Len(generated'[w]) : generated'[w][i] < sequence'[w]
  <2>1. generated[w] \in Seq(Nat)
    OBVIOUS
  <2>2. \A i \in 1..Len(generated[w]) : generated[w][i] < sequence[w]
    BY DEF WorkerSeqInv
  <2>3. \A i \in 1..Len(generated[w]) : generated[w][i] < sequence[w] + 1
    <3> SUFFICES ASSUME NEW i \in 1..Len(generated[w])
                 PROVE  generated[w][i] < sequence[w] + 1
      OBVIOUS
    <3>1. generated[w][i] \in Nat /\ generated[w][i] < sequence[w]
      BY <2>1, <2>2
    <3>2. QED
      BY <1>3, <3>1
  <2>4. QED
    BY <1>3, <2>3, Zenon
<1>9. \A u \in Threads : pc'[w][u] = "sign" => seq'[w][u] < sequence'[w]
  BY <1>1, <1>3 DEF WorkerSeqInv
<1>4. IsInjective(generated'[w])
  BY <1>1 DEF WorkerSeqInv
<1>5. \A u, v \in Threads :
         pc'[w][u] = "sign" /\ pc'[w][v] = "sign" /\ u # v => seq'[w][u] # seq'[w][v]
  BY <1>1 DEF WorkerSeqInv
<1>6. \A u \in Threads : pc'[w][u] = "sign" => seq'[w][u] \notin Range(generated'[w])
  <2>1. \A x \in Range(generated[w]) : x < sequence[w]
    BY DEF WorkerSeqInv, Range
  <2>2. QED
    BY <1>1, <2>1 DEF WorkerSeqInv
<1>7. QED
  BY <1>2, <1>8, <1>9, <1>4, <1>5, <1>6 DEF WorkerSeqInv

LEMMA BuildAndSignSeqInv ==
  ASSUME SeqInv, NEW w \in Workers, NEW t \in Threads, BuildAndSign(w, t)
  PROVE  WorkerSeqInv(w)'
<1>1. CASE /\ generated' = [generated EXCEPT ![w] = Append(@, seq[w][t])]
           /\ UNCHANGED skipped
  <2>1. /\ IsInjective(generated'[w])
        /\ Range(generated'[w]) = Range(generated[w]) \cup {seq[w][t]}
    BY <1>1, AppendInjective DEF SeqInv, TypeOK, ClientTypeOK, WorkerSeqInv,
                                BuildAndSign
  <2>2. QED
    BY <1>1, <2>1, SMTT(20) DEF SeqInv, TypeOK, ClientTypeOK, BuildAndSign, SetPc,
                      WorkerSeqInv
<1>2. CASE /\ skipped' = [skipped EXCEPT ![w] = @ \cup {seq[w][t]}]
           /\ UNCHANGED generated
  BY <1>2 DEF SeqInv, TypeOK, ClientTypeOK, BuildAndSign, SetPc, WorkerSeqInv
<1>3. QED
  BY <1>1, <1>2 DEF BuildAndSign

LEMMA SeqInvStep == SeqInv /\ [Next]_vars => SeqInv'
<1> SUFFICES ASSUME SeqInv, [Next]_vars PROVE SeqInv'
  OBVIOUS
<1>1. TypeOK'
  BY NextTypeOK DEF SeqInv
<1>2. CASE UNCHANGED vars
  BY <1>1, <1>2 DEF vars, clientVars, SeqInv, WorkerSeqInv
<1>3. ASSUME NEW w \in Workers, NEW t \in Threads, Client(w, t)
      PROVE  SeqInv'
  <2>1. WorkerSeqInv(w)'
    BY <1>3, GenerateTxCallSeqInv, EnsureLockSeqInv, EnsureQuerySeqInv,
       ReserveSeqSeqInv, BuildAndSignSeqInv DEF Client
  <2>2. ASSUME NEW v \in Workers, v # w PROVE WorkerSeqInv(v)'
    <3>1. /\ pc'[v] = pc[v] /\ seq'[v] = seq[v]
          /\ generated'[v] = generated[v] /\ sequence'[v] = sequence[v]
          /\ accountQueried'[v] = accountQueried[v] /\ holder'[v] = holder[v]
      BY <1>3, <2>2, ZenonT(30) DEF Client, GenerateTxCall, EnsureLock, EnsureQuery,
                        QueryAccountOK, QueryAccountFail, ReserveSeq,
                        BuildAndSign, SetPc, SeqInv, TypeOK, ClientTypeOK
    <3>2. QED
      BY <3>1, WorkerFrame DEF SeqInv
  <2>3. QED
    BY <1>1, <2>1, <2>2 DEF SeqInv
<1>4. ASSUME NEW w \in Workers, Ledger(w) PROVE SeqInv'
  <2>1. UNCHANGED clientVars
    BY <1>4 DEF Ledger, BroadcastTx, BroadcastLost, CommitBlock
  <2>2. QED
    BY <1>1, <2>1 DEF clientVars, SeqInv, WorkerSeqInv
<1>5. QED
  BY <1>2, <1>3, <1>4 DEF Next

LEMMA SeqInvNoSeqReuse == SeqInv => NoSeqReuse
  BY DEF SeqInv, WorkerSeqInv, NoSeqReuse

(* NoSeqReuseHolds: for every number of workers and goroutines and every  *)
(* starting sequence, no client ever returns two transactions with the    *)
(* same sequence, nor one whose sequence a concurrent GenerateTx is still *)
(* signing with: the fetch-and-add and the mutex-guarded one-time          *)
(* resolution in ensureAccountQueried suffice.                            *)
THEOREM NoSeqReuseHolds == Spec => []NoSeqReuse
<1>1. Spec => []SeqInv
  BY InitSeqInv, SeqInvStep, PTL DEF Spec
<1>2. QED
  BY <1>1, SeqInvNoSeqReuse, PTL

-----------------------------------------------------------------------------
(***************************************************************************)
(* The refinement of SeqAllocator.  Issued(w) also counts the numbers     *)
(* lost to failed calls, so the invariant needs two facts about skipped   *)
(* that SeqInv does not state: it is empty until the account is resolved, *)
(* and it lies below the counter.                                         *)
(***************************************************************************)
SkipInv(w) ==
    /\ ~accountQueried[w] => skipped[w] = {}
    /\ \A x \in skipped[w] : x < sequence[w]

RefInv == SeqInv /\ \A w \in Workers : SkipInv(w)

LEMMA InitRefInv == Init => RefInv
  BY InitSeqInv DEF Init, RefInv, SkipInv

LEMMA SkipInvStep ==
  ASSUME RefInv, [Next]_vars, NEW v \in Workers
  PROVE  SkipInv(v)'
<1>0. /\ SkipInv(v)
      /\ skipped \in [Workers -> SUBSET Nat]
      /\ sequence \in [Workers -> Nat]
      /\ \A u \in Workers : WorkerSeqInv(u)
      /\ TypeOK
  BY DEF RefInv, SeqInv, TypeOK, ClientTypeOK
<1>1. CASE UNCHANGED vars
  BY <1>0, <1>1 DEF vars, clientVars, SkipInv
<1>2. ASSUME NEW w \in Workers, Ledger(w) PROVE SkipInv(v)'
  <2>1. UNCHANGED clientVars
    BY <1>2 DEF Ledger, BroadcastTx, BroadcastLost, CommitBlock
  <2>2. QED
    BY <1>0, <2>1 DEF clientVars, SkipInv
<1>3. ASSUME NEW w \in Workers, NEW t \in Threads, Client(w, t)
      PROVE  SkipInv(v)'
  <2>1. CASE GenerateTxCall(w, t) \/ EnsureLock(w, t)
    BY <1>0, <2>1 DEF GenerateTxCall, EnsureLock, SkipInv
  <2>2. CASE EnsureQuery(w, t) /\ QueryAccountOK(w, t)
    <3>1. v = w => ~accountQueried[w]
      BY <1>0, <2>2 DEF EnsureQuery, WorkerSeqInv
    <3>2. QED
      BY <1>0, <2>2, <3>1 DEF EnsureQuery, QueryAccountOK, SkipInv
  <2>3. CASE EnsureQuery(w, t) /\ QueryAccountFail(w, t)
    BY <1>0, <2>3 DEF EnsureQuery, QueryAccountFail, SkipInv
  <2>4. CASE ReserveSeq(w, t)
    <3>1. /\ skipped'[v] = skipped[v]
          /\ accountQueried'[v] = accountQueried[v]
          /\ sequence'[v] \in Nat
          /\ sequence'[v] >= sequence[v]
      BY <1>0, <2>4 DEF ReserveSeq
    <3>2. ~accountQueried'[v] => skipped'[v] = {}
      BY <1>0, <3>1 DEF SkipInv
    <3>3. \A x \in skipped'[v] : x < sequence'[v]
      <4>1. \A x \in skipped[v] : x < sequence[v]
        BY <1>0 DEF SkipInv
      <4>2. skipped[v] \subseteq Nat /\ sequence[v] \in Nat
        BY <1>0
      <4>3. QED
        BY <3>1, <4>1, <4>2
    <3>4. QED
      BY <3>2, <3>3 DEF SkipInv
  <2>5. CASE BuildAndSign(w, t)
    <3>1. /\ accountQueried[w]
          /\ seq[w][t] < sequence[w]
      BY <1>0, <2>5 DEF BuildAndSign, WorkerSeqInv
    <3>2. /\ skipped'[v] \subseteq skipped[v] \cup {seq[w][t]}
          /\ v # w => skipped'[v] = skipped[v]
          /\ accountQueried'[v] = accountQueried[v]
          /\ sequence'[v] = sequence[v]
      BY <1>0, <2>5 DEF BuildAndSign
    <3>3. QED
      BY <1>0, <3>1, <3>2 DEF SkipInv
  <2>6. EnsureQuery(w, t) => QueryAccountOK(w, t) \/ QueryAccountFail(w, t)
    BY DEF EnsureQuery
  <2>7. QED
    BY <1>3, <2>1, <2>2, <2>3, <2>4, <2>5, <2>6 DEF Client
<1>4. QED
  BY <1>1, <1>2, <1>3 DEF Next

LEMMA RefInvStep == RefInv /\ [Next]_vars => RefInv'
  BY SeqInvStep, SkipInvStep DEF RefInv

(* A step that moves goroutine t of w between labels other than "sign"    *)
(* and touches no reserved number, returned tx or lost number changes    *)
(* nothing that has been handed out.                                      *)
LEMMA IssuedUnchanged ==
  ASSUME TypeOK, NEW w \in Workers, NEW t \in Threads, NEW l,
         pc' = [pc EXCEPT ![w][t] = l], l # "sign", pc[w][t] # "sign",
         UNCHANGED <<seq, generated, skipped>>
  PROVE  issuedBar' = issuedBar
<1>1. \A v \in Workers :
         {u \in Threads : pc'[v][u] = "sign"} = {u \in Threads : pc[v][u] = "sign"}
  BY SMTT(20) DEF TypeOK, ClientTypeOK
<1>2. \A v \in Workers : InFlight(v)' = InFlight(v)
  BY <1>1 DEF InFlight
<1>3. QED
  BY <1>2 DEF issuedBar, Issued

LEMMA RefStep == RefInv /\ [Next]_vars => [Alloc!Next]_Alloc!vars
<1> SUFFICES ASSUME RefInv, [Next]_vars PROVE [Alloc!Next]_Alloc!vars
  OBVIOUS
<1> USE DEF RefInv, SeqInv, TypeOK, ClientTypeOK
<1>1. CASE UNCHANGED vars
  BY <1>1 DEF vars, clientVars, Alloc!vars, issuedBar, Issued, InFlight
<1>2. ASSUME NEW w \in Workers, Ledger(w) PROVE UNCHANGED Alloc!vars
  <2>1. UNCHANGED clientVars
    BY <1>2 DEF Ledger, BroadcastTx, BroadcastLost, CommitBlock
  <2>2. QED
    BY <2>1 DEF clientVars, Alloc!vars, issuedBar, Issued, InFlight
<1>3. ASSUME NEW w \in Workers, NEW t \in Threads, GenerateTxCall(w, t)
      PROVE  UNCHANGED Alloc!vars
  BY <1>3, IssuedUnchanged, Zenon DEF GenerateTxCall, SetPc, Alloc!vars
<1>4. ASSUME NEW w \in Workers, NEW t \in Threads, EnsureLock(w, t)
      PROVE  UNCHANGED Alloc!vars
  <2>1. pc[w][t] = "lock"
    BY <1>4 DEF EnsureLock
  <2>2. CASE accountQueried[w]
    BY <1>4, <2>1, <2>2, IssuedUnchanged, Zenon DEF EnsureLock, SetPc, Alloc!vars
  <2>3. CASE ~accountQueried[w]
    BY <1>4, <2>1, <2>3, IssuedUnchanged, Zenon DEF EnsureLock, SetPc, Alloc!vars
  <2>4. QED
    BY <2>2, <2>3
<1>5. ASSUME NEW w \in Workers, NEW t \in Threads, EnsureQuery(w, t),
             QueryAccountFail(w, t)
      PROVE  UNCHANGED Alloc!vars
  BY <1>5, IssuedUnchanged, Zenon DEF EnsureQuery, QueryAccountFail, SetPc, Alloc!vars
<1>6. ASSUME NEW w \in Workers, NEW t \in Threads, EnsureQuery(w, t),
             QueryAccountOK(w, t)
      PROVE  Alloc!Resolve(w)
  <2>1. ~accountQueried[w]
    BY <1>6 DEF EnsureQuery, WorkerSeqInv
  <2>2. issuedBar' = issuedBar
    BY <1>6, IssuedUnchanged, Zenon DEF EnsureQuery, QueryAccountOK, SetPc
  <2>3. /\ sequence'[w] \in Nat
        /\ sequence' = [sequence EXCEPT ![w] = sequence'[w]]
    BY <1>6 DEF QueryAccountOK, LedgerTypeOK
  <2>4. QED
    BY <1>6, <2>1, <2>2, <2>3 DEF QueryAccountOK, Alloc!Resolve
<1>7. ASSUME NEW w \in Workers, NEW t \in Threads, ReserveSeq(w, t)
      PROVE  Alloc!Allocate(w)
  <2>1. /\ pc[w][t] = "reserve"
        /\ accountQueried[w]
    BY <1>7 DEF ReserveSeq, WorkerSeqInv
  <2>2. sequence[w] \notin Issued(w)
    <3>1. \A x \in Range(generated[w]) : x < sequence[w]
      BY DEF WorkerSeqInv, Range
    <3>2. \A x \in InFlight(w) : x < sequence[w]
      BY DEF WorkerSeqInv, InFlight
    <3>3. \A x \in skipped[w] : x < sequence[w]
      BY DEF SkipInv
    <3>4. QED
      BY <3>1, <3>2, <3>3 DEF Issued
  <2>3. InFlight(w)' = InFlight(w) \cup {sequence[w]}
    BY <1>7, <2>1 DEF ReserveSeq, SetPc, InFlight
  <2>4. \A v \in Workers \ {w} : InFlight(v)' = InFlight(v)
    BY <1>7 DEF ReserveSeq, SetPc, InFlight
  <2>5. issuedBar' = [issuedBar EXCEPT ![w] = @ \cup {sequence[w]}]
    BY <1>7, <2>3, <2>4, ZenonT(30) DEF ReserveSeq, issuedBar, Issued
  <2>6. QED
    BY <1>7, <2>1, <2>2, <2>5 DEF ReserveSeq, Alloc!Allocate, issuedBar
<1>8. ASSUME NEW w \in Workers, NEW t \in Threads, BuildAndSign(w, t)
      PROVE  UNCHANGED Alloc!vars
  <2>1. /\ pc[w][t] = "sign"
        /\ seq[w][t] \in Nat
        /\ IsInjective(generated[w])
        /\ seq[w][t] \notin Range(generated[w])
    BY <1>8 DEF BuildAndSign, WorkerSeqInv
  <2>2. InFlight(w)' \cup {seq[w][t]} = InFlight(w)
    BY <1>8, <2>1 DEF BuildAndSign, SetPc, InFlight
  <2>3. \A v \in Workers \ {w} : InFlight(v)' = InFlight(v)
    BY <1>8 DEF BuildAndSign, SetPc, InFlight
  <2>4. Range(generated'[w]) \cup skipped'[w]
          = Range(generated[w]) \cup skipped[w] \cup {seq[w][t]}
    <3>1. CASE /\ generated' = [generated EXCEPT ![w] = Append(@, seq[w][t])]
               /\ UNCHANGED skipped
      <4>1. /\ generated[w] \in Seq(Nat)
            /\ generated'[w] = Append(generated[w], seq[w][t])
        BY <3>1
      <4> HIDE DEF RefInv, SeqInv, TypeOK, ClientTypeOK
      <4>2. Range(Append(generated[w], seq[w][t]))
              = Range(generated[w]) \cup {seq[w][t]}
        BY <4>1, <2>1, AppendInjective
      <4>5. Range(generated'[w]) = Range(generated[w]) \cup {seq[w][t]}
        BY <4>1, <4>2
      <4>3. QED
        BY <3>1, <4>5
    <3>2. CASE /\ skipped' = [skipped EXCEPT ![w] = @ \cup {seq[w][t]}]
               /\ UNCHANGED generated
      BY <3>2
    <3>3. QED
      BY <1>8, <3>1, <3>2, Zenon DEF BuildAndSign
  <2>5. \A v \in Workers \ {w} : /\ generated'[v] = generated[v]
                                 /\ skipped'[v] = skipped[v]
    BY <1>8, SMTT(20) DEF BuildAndSign
  <2>6. issuedBar' = issuedBar
    BY <2>2, <2>3, <2>4, <2>5, Zenon DEF issuedBar, Issued
  <2>7. QED
    BY <1>8, <2>6 DEF BuildAndSign, Alloc!vars
<1>9. QED
  BY <1>1, <1>2, <1>3, <1>4, <1>5, <1>6, <1>7, <1>8
     DEF Next, Client, EnsureQuery, Alloc!Next

-----------------------------------------------------------------------------
(***************************************************************************)
(* SeqContiguous and NoAdvanceUnresolved.  Both follow from ContigInv(w):  *)
(* until ensureAccountQueried succeeds the counter is 0 and nothing is     *)
(* issued; afterwards the numbers issued are exactly startSeq up to the    *)
(* counter.  The step argument reads every client step through RefStep:   *)
(* the REST query is a Resolve, which issues nothing and sets the counter *)
(* to startSeq, and the fetch-and-add an Allocate, which issues exactly   *)
(* the counter's old value.                                               *)
(***************************************************************************)
ContigInv(w) ==
    /\ ~accountQueried[w] => sequence[w] = 0 /\ Issued(w) = {}
    /\ accountQueried[w] =>
          /\ startSeq[w] <= sequence[w]
          /\ Issued(w) = startSeq[w] .. (sequence[w] - 1)

(* Only the successful REST query writes startSeq, and it is the step     *)
(* that resolves the account, leaving the counter at startSeq.             *)
LEMMA QueriedFrame ==
  ASSUME RefInv, [Next]_vars, NEW v \in Workers
  PROVE  \/ startSeq'[v] = startSeq[v] /\ accountQueried'[v] = accountQueried[v]
         \/ ~accountQueried[v] /\ accountQueried'[v] /\ startSeq'[v] = sequence'[v]
<1>0. TypeOK
  BY DEF RefInv, SeqInv
<1>1. CASE UNCHANGED vars
  BY <1>1 DEF vars, clientVars
<1>2. ASSUME NEW w \in Workers, Ledger(w) PROVE UNCHANGED <<startSeq, accountQueried>>
  BY <1>2 DEF Ledger, BroadcastTx, BroadcastLost, CommitBlock, clientVars
<1>3. ASSUME NEW w \in Workers, NEW t \in Threads, EnsureQuery(w, t), QueryAccountOK(w, t)
      PROVE  \/ startSeq'[v] = startSeq[v] /\ accountQueried'[v] = accountQueried[v]
             \/ ~accountQueried[v] /\ accountQueried'[v] /\ startSeq'[v] = sequence'[v]
  <2>1. ~accountQueried[w]
    BY <1>3 DEF RefInv, SeqInv, EnsureQuery, WorkerSeqInv
  <2>2. QED
    BY <1>0, <1>3, <2>1, Zenon DEF QueryAccountOK, TypeOK, ClientTypeOK
<1>4. ASSUME NEW w \in Workers, NEW t \in Threads, Client(w, t),
             ~(EnsureQuery(w, t) /\ QueryAccountOK(w, t))
      PROVE  UNCHANGED <<startSeq, accountQueried>>
  <2>1. EnsureQuery(w, t) => QueryAccountFail(w, t)
    BY <1>4 DEF EnsureQuery
  <2>2. QED
    BY <1>4, <2>1 DEF Client, GenerateTxCall, EnsureLock, EnsureQuery,
                      QueryAccountFail, ReserveSeq, BuildAndSign
<1>5. QED
  BY <1>1, <1>2, <1>3, <1>4 DEF Next

(* A step that leaves worker v's resolution, counter, start and issued     *)
(* numbers alone keeps ContigInv(v).                                       *)
LEMMA ContigFrame ==
  ASSUME NEW v, ContigInv(v),
         accountQueried'[v] = accountQueried[v], sequence'[v] = sequence[v],
         startSeq'[v] = startSeq[v], Issued(v)' = Issued(v)
  PROVE  ContigInv(v)'
  BY DEF ContigInv

LEMMA InitContigInv == Init => \A w \in Workers : ContigInv(w)
  BY DEF Init, ContigInv, Issued, InFlight, Range

LEMMA ContigStep ==
  ASSUME RefInv, [Next]_vars, \A w \in Workers : ContigInv(w), NEW v \in Workers
  PROVE  ContigInv(v)'
<1>0. /\ [Alloc!Next]_Alloc!vars
      /\ ContigInv(v)
      /\ sequence \in [Workers -> Nat] /\ startSeq \in [Workers -> Nat]
      /\ accountQueried \in [Workers -> BOOLEAN]
      /\ issuedBar'[v] = Issued(v)' /\ issuedBar[v] = Issued(v)
  BY RefStep, SMTT(20) DEF RefInv, SeqInv, TypeOK, ClientTypeOK, issuedBar
<1>1. \/ startSeq'[v] = startSeq[v] /\ accountQueried'[v] = accountQueried[v]
      \/ ~accountQueried[v] /\ accountQueried'[v] /\ startSeq'[v] = sequence'[v]
  BY QueriedFrame
<1>2. CASE UNCHANGED Alloc!vars
  <2>1. accountQueried'[v] = accountQueried[v] /\ sequence'[v] = sequence[v]
        /\ Issued(v)' = Issued(v)
    BY <1>0, <1>2 DEF Alloc!vars
  <2>2. QED
    BY <1>0, <1>1, <2>1, ContigFrame
<1>3. ASSUME NEW a \in Workers, Alloc!Resolve(a) PROVE ContigInv(v)'
  <2>1. CASE a # v
    <3>1. accountQueried'[v] = accountQueried[v] /\ sequence'[v] = sequence[v]
          /\ Issued(v)' = Issued(v)
      BY <1>0, <1>3, <2>1, Zenon DEF Alloc!Resolve, issuedBar
    <3>2. QED
      BY <1>0, <1>1, <3>1, ContigFrame
  <2>2. CASE a = v
    <3>1. ~accountQueried[v] /\ accountQueried'[v] /\ Issued(v)' = Issued(v)
          /\ sequence'[v] \in Nat
      BY <1>0, <1>3, <2>2 DEF Alloc!Resolve, issuedBar
    <3>2. Issued(v) = {} /\ startSeq'[v] = sequence'[v]
      BY <1>0, <1>1, <3>1, Zenon DEF ContigInv
    <3>3. QED
      BY <3>1, <3>2 DEF ContigInv
  <2>3. QED
    BY <2>1, <2>2
<1>4. ASSUME NEW a \in Workers, Alloc!Allocate(a) PROVE ContigInv(v)'
  <2>1. CASE a # v
    <3>1. accountQueried'[v] = accountQueried[v] /\ sequence'[v] = sequence[v]
          /\ Issued(v)' = Issued(v)
      BY <1>0, <1>4, <2>1 DEF Alloc!Allocate
    <3>2. QED
      BY <1>0, <1>1, <3>1, ContigFrame
  <2>2. CASE a = v
    <3>1. /\ accountQueried[v] /\ accountQueried'[v]
          /\ Issued(v)' = Issued(v) \cup {sequence[v]}
          /\ sequence'[v] = sequence[v] + 1
      BY <1>0, <1>4, <2>2 DEF Alloc!Allocate, issuedBar
    <3>2. startSeq'[v] = startSeq[v]
      BY <1>1, <3>1
    <3>3. startSeq[v] <= sequence[v] /\ Issued(v) = startSeq[v] .. (sequence[v] - 1)
      BY <1>0, <3>1 DEF ContigInv
    <3>4. QED
      BY <1>0, <3>1, <3>2, <3>3 DEF ContigInv
  <2>3. QED
    BY <2>1, <2>2
<1>5. QED
  BY <1>0, <1>2, <1>3, <1>4 DEF Alloc!Next

LEMMA InitRef == Init => Alloc!Init
  BY DEF Init, Alloc!Init, issuedBar, Issued, InFlight, Range

(* Refinement: every behaviour of the client is a behaviour of the        *)
(* abstract allocator under the mapping of PerpxBankClient: the REST     *)
(* query is the one-time Resolve, each fetch-and-add an Allocate of a    *)
(* fresh number, and every other step of a goroutine, of the engine or   *)
(* of the ledger leaves the allocator as it was.                         *)
THEOREM AllocatorRefinement == Spec => AllocatorRefined
<1>1. Spec => []RefInv
  BY InitRefInv, RefInvStep, PTL DEF Spec
<1>2. QED
  BY <1>1, InitRef, RefStep, PTL DEF Spec, AllocatorRefined, Alloc!Spec

-----------------------------------------------------------------------------
CInv == RefInv /\ \A w \in Workers : ContigInv(w)

LEMMA CInvInductive == Spec => []CInv
<1>1. Init => CInv
  BY InitRefInv, InitContigInv DEF CInv
<1>2. CInv /\ [Next]_vars => CInv'
  <2> SUFFICES ASSUME CInv, [Next]_vars PROVE CInv'
    OBVIOUS
  <2>1. RefInv'
    BY RefInvStep DEF CInv
  <2>2. \A v \in Workers : ContigInv(v)'
    BY ContigStep DEF CInv
  <2>3. QED
    BY <2>1, <2>2 DEF CInv
<1>3. QED
  BY <1>1, <1>2, PTL DEF Spec

(* For every number of workers, goroutines, calls and starting sequences:  *)
(* once ensureAccountQueried has read s0, the numbers the fetch-and-add in *)
(* GenerateTx has handed out (returned, still being signed, or lost to a   *)
(* failed build) are exactly s0 up to the local counter, with no gap.      *)
THEOREM SeqContiguousHolds == Spec => []SeqContiguous
<1>1. CInv => SeqContiguous
  BY DEF CInv, ContigInv, SeqContiguous, Issued
<1>2. QED
  BY <1>1, CInvInductive, PTL

(* For every number of workers, goroutines and calls: while the account's  *)
(* REST query has not succeeded (an unseeded account answers 404), the     *)
(* client's counter stays 0, no transaction has been returned and no       *)
(* goroutine is reserving or signing.                                      *)
THEOREM NoAdvanceUnresolvedHolds == Spec => []NoAdvanceUnresolved
<1>1. CInv => NoAdvanceUnresolved
  <2> SUFFICES ASSUME CInv, NEW w \in Workers, ~accountQueried[w]
               PROVE  /\ sequence[w] = 0
                      /\ generated[w] = <<>>
                      /\ \A t \in Threads : pc[w][t] \notin {"reserve", "sign"}
    BY DEF NoAdvanceUnresolved
  <2>1. sequence[w] = 0
    BY DEF CInv, ContigInv
  <2>2. generated[w] = <<>> /\ \A t \in Threads : pc[w][t] \notin {"reserve", "sign"}
    BY DEF CInv, RefInv, SeqInv, WorkerSeqInv
  <2>3. QED
    BY <2>1, <2>2
<1>2. QED
  BY <1>1, CInvInductive, PTL


(* Once resolved, a client's account stays resolved, keeps its start, and  *)
(* its counter only grows: every step is an allocator step, which resolves *)
(* an unresolved account only and moves a counter up by one.               *)
LEMMA ResolvedOnceStep ==
  ASSUME RefInv, [Next]_vars, NEW v \in Workers, accountQueried[v]
  PROVE  /\ accountQueried'[v]
         /\ sequence'[v] >= sequence[v]
         /\ startSeq'[v] = startSeq[v]
<1>0. /\ [Alloc!Next]_Alloc!vars
      /\ sequence \in [Workers -> Nat] /\ accountQueried \in [Workers -> BOOLEAN]
  BY RefStep DEF RefInv, SeqInv, TypeOK, ClientTypeOK
<1>1. startSeq'[v] = startSeq[v] /\ accountQueried'[v] = accountQueried[v]
  BY QueriedFrame, Zenon
<1>2. sequence'[v] >= sequence[v]
  <2>1. CASE UNCHANGED Alloc!vars
    BY <1>0, <2>1 DEF Alloc!vars
  <2>2. ASSUME NEW a \in Workers, Alloc!Resolve(a) PROVE sequence'[v] >= sequence[v]
    <3>1. a # v
      BY <2>2 DEF Alloc!Resolve
    <3>2. QED
      BY <1>0, <2>2, <3>1 DEF Alloc!Resolve
  <2>3. ASSUME NEW a \in Workers, Alloc!Allocate(a) PROVE sequence'[v] >= sequence[v]
    BY <1>0, <2>3 DEF Alloc!Allocate
  <2>4. QED
    BY <1>0, <2>1, <2>2, <2>3 DEF Alloc!Next
<1>3. QED
  BY <1>1, <1>2

(* For every number of clients, goroutines and calls (ResolvedOnce):       *)
(* ensureAccountQueried resolves an account at most once per process, and *)
(* the local counter never moves backwards, whatever the ledger's          *)
(* committed sequence does meanwhile.                                      *)
THEOREM ResolvedOnceHolds == Spec => ResolvedOnce
<1>1. RefInv /\ [Next]_vars =>
        [\A w \in Workers :
            accountQueried[w] =>
                /\ accountQueried'[w]
                /\ sequence'[w] >= sequence[w]
                /\ startSeq'[w] = startSeq[w]]_vars
  BY ResolvedOnceStep
<1>2. Spec => []RefInv
  BY InitRefInv, RefInvStep, PTL DEF Spec
<1>3. QED
  BY <1>1, <1>2, PTL DEF Spec, ResolvedOnce

=============================================================================
