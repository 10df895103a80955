-------------------------- MODULE PerpxBankClient --------------------------
(***************************************************************************)
(* The per-worker transaction generator of the load tester                 *)
(* (PerpxBankClient in the client package) together with the part of the  *)
(* ledger it talks to.                                                     *)
(*                                                                         *)
(* Each worker w owns one client.  The load engine calls GenerateTx on it; *)
(* we let several goroutines (Threads) call it concurrently, as the spec   *)
(* allows.  GenerateTx first runs ensureAccountQueried, which takes the    *)
(* client's accountQueryMtx and, on the first successful call only, reads  *)
(* the account's committed sequence from the ledger's REST endpoint into   *)
(* the local counter c.sequence.  It then reserves a sequence number with  *)
(* atomic.AddUint64(&c.sequence, 1) - 1, builds and signs a one-message    *)
(* transfer with it and hands the bytes back; the engine broadcasts them.  *)
(*                                                                         *)
(* The ledger keeps, per account, the committed sequence (what the REST    *)
(* query returns) and the check-state sequence of the mempool (what        *)
(* CheckTx compares an incoming transaction against).                      *)
(***************************************************************************)
EXTENDS Naturals, Sequences, FiniteSets, Functions

CONSTANTS
    Workers,     \* the workers, one client and one derived account each
    Threads,     \* goroutines that may call GenerateTx on the same client
    NoHolder,    \* model value: accountQueryMtx is free
    StartSeqs,   \* committed sequences an account may have when the test starts
    MaxCalls     \* bound: GenerateTx calls per worker in one run

ASSUME ConstantsAssumption ==
    /\ Workers # {} /\ Threads # {}
    /\ NoHolder \notin Threads
    /\ StartSeqs \subseteq Nat /\ StartSeqs # {}
    /\ MaxCalls \in Nat

VARIABLES
    accountQueried, \* c.accountQueried
    sequence,       \* c.sequence, the local counter
    holder,         \* the goroutine holding c.accountQueryMtx, or NoHolder
    pc,             \* pc[w][t]: where goroutine t is in GenerateTx of client w
    seq,            \* seq[w][t]: the sequence number goroutine t reserved
    calls,          \* GenerateTx calls made on client w (bounded by MaxCalls)
    generated,      \* generated[w]: sequences of the signed txs returned, in order
    skipped,        \* ghost: sequences reserved by a call that then failed
    startSeq,       \* ghost: the sequence ensureAccountQueried read
    funded,         \* ledger: the account exists (was seeded)
    chainSeq,       \* ledger: committed sequence of the account
    checkSeq,       \* ledger: mempool check-state sequence of the account
    sent,           \* engine: how many of generated[w] it has broadcast
    rejected        \* ghost: broadcasts CheckTx refused

clientVars == <<accountQueried, sequence, holder, pc, seq, calls, generated,
                skipped, startSeq>>
ledgerVars == <<funded, chainSeq, checkSeq, sent, rejected>>
vars == <<clientVars, ledgerVars>>

PCs == {"idle", "lock", "query", "reserve", "sign"}

-----------------------------------------------------------------------------
(* NewPerpxBankClient: the client starts unresolved with counters at 0.   *)
Init ==
    /\ accountQueried = [w \in Workers |-> FALSE]
    /\ sequence = [w \in Workers |-> 0]
    /\ holder = [w \in Workers |-> NoHolder]
    /\ pc = [w \in Workers |-> [t \in Threads |-> "idle"]]
    /\ seq = [w \in Workers |-> [t \in Threads |-> 0]]
    /\ calls = [w \in Workers |-> 0]
    /\ generated = [w \in Workers |-> <<>>]
    /\ skipped = [w \in Workers |-> {}]
    /\ startSeq = [w \in Workers |-> 0]
    /\ funded \in [Workers -> BOOLEAN]
    /\ chainSeq \in [Workers -> StartSeqs]
    /\ checkSeq = chainSeq
    /\ sent = [w \in Workers |-> 0]
    /\ rejected = [w \in Workers |-> 0]

SetPc(w, t, l) == pc' = [pc EXCEPT ![w][t] = l]

(* Plausible faults of the code below, each the counterpart of one        *)
(* definition; a property that no fault can break says nothing.           *)
\* EnsureLock without the "if c.accountQueried { return nil }" early return.
EnsureLockRequery(w, t) ==
    /\ pc[w][t] = "lock"
    /\ holder[w] = NoHolder
    /\ SetPc(w, t, "query")
    /\ holder' = [holder EXCEPT ![w] = t]
    /\ UNCHANGED <<accountQueried, sequence, seq, calls, generated, skipped,
                   startSeq, ledgerVars>>

\* A query error that skips the deferred Unlock.
QueryAccountFailNoUnlock(w, t) ==
    /\ SetPc(w, t, "idle")
    /\ UNCHANGED <<holder, accountQueried, sequence, startSeq>>

\* GenerateTx that ignores the error returned by ensureAccountQueried.
QueryAccountFailIgnored(w, t) ==
    /\ holder' = [holder EXCEPT ![w] = NoHolder]
    /\ SetPc(w, t, "reserve")
    /\ UNCHANGED <<accountQueried, sequence, startSeq>>

\* seq := atomic.LoadUint64(&c.sequence): the increment is lost.
ReserveSeqNoIncrement(w, t) ==
    /\ pc[w][t] = "reserve"
    /\ seq' = [seq EXCEPT ![w][t] = sequence[w]]
    /\ SetPc(w, t, "sign")
    /\ UNCHANGED <<sequence, accountQueried, holder, calls, generated, skipped,
                   startSeq, ledgerVars>>

\* seq := atomic.AddUint64(&c.sequence, 1), without the "- 1".
ReserveSeqNewValue(w, t) ==
    /\ pc[w][t] = "reserve"
    /\ seq' = [seq EXCEPT ![w][t] = sequence[w] + 1]
    /\ sequence' = [sequence EXCEPT ![w] = @ + 1]
    /\ SetPc(w, t, "sign")
    /\ UNCHANGED <<accountQueried, holder, calls, generated, skipped, startSeq,
                   ledgerVars>>

-----------------------------------------------------------------------------

(* The engine calls GenerateTx on client w from goroutine t.              *)
GenerateTxCall(w, t) ==
    /\ pc[w][t] = "idle"
    /\ calls[w] < MaxCalls
    /\ calls' = [calls EXCEPT ![w] = @ + 1]
    /\ SetPc(w, t, "lock")
    /\ UNCHANGED <<accountQueried, sequence, holder, seq, generated, skipped,
                   startSeq, ledgerVars>>

(* ensureAccountQueried, first part: Lock(); if the account was already   *)
(* queried, return nil (the deferred Unlock releases the mutex at once);  *)
(* otherwise keep the mutex and go on to the REST query.                  *)
EnsureLock(w, t) ==
    /\ pc[w][t] = "lock"
    /\ holder[w] = NoHolder
    /\ IF accountQueried[w]
         THEN /\ SetPc(w, t, "reserve")
              /\ UNCHANGED holder
         ELSE /\ SetPc(w, t, "query")
              /\ holder' = [holder EXCEPT ![w] = t]
    /\ UNCHANGED <<accountQueried, sequence, seq, calls, generated, skipped,
                   startSeq, ledgerVars>>

(* ensureAccountQueried, second part, with the mutex held: GET the account *)
(* from the REST API.  A missing account (HTTP 404), a transport error or *)
(* a decode/parse error returns the error, and GenerateTx returns it; the *)
(* deferred Unlock runs on every path.  On success the committed sequence *)
(* is stored in c.sequence and accountQueried is set.                     *)
QueryAccountOK(w, t) ==
    /\ funded[w]
    /\ sequence' = [sequence EXCEPT ![w] = chainSeq[w]]
    /\ startSeq' = [startSeq EXCEPT ![w] = chainSeq[w]]
    /\ accountQueried' = [accountQueried EXCEPT ![w] = TRUE]
    /\ holder' = [holder EXCEPT ![w] = NoHolder]
    /\ SetPc(w, t, "reserve")

QueryAccountFail(w, t) ==
    /\ holder' = [holder EXCEPT ![w] = NoHolder]
    /\ SetPc(w, t, "idle")
    /\ UNCHANGED <<accountQueried, sequence, startSeq>>

EnsureQuery(w, t) ==
    /\ pc[w][t] = "query"
    /\ QueryAccountOK(w, t) \/ QueryAccountFail(w, t)
    /\ UNCHANGED <<seq, calls, generated, skipped, ledgerVars>>

(* seq := atomic.AddUint64(&c.sequence, 1) - 1                            *)
ReserveSeq(w, t) ==
    /\ pc[w][t] = "reserve"
    /\ seq' = [seq EXCEPT ![w][t] = sequence[w]]
    /\ sequence' = [sequence EXCEPT ![w] = @ + 1]
    /\ SetPc(w, t, "sign")
    /\ UNCHANGED <<accountQueried, holder, calls, generated, skipped, startSeq,
                   ledgerVars>>

(* The rest of GenerateTx: CreateMsg, SetMsgs, fee and gas, the empty     *)
(* signature, SignWithPrivKey, SetSignatures and TxEncoder.  Success      *)
(* returns a tx carrying the reserved sequence; any of the error returns  *)
(* leaves the reserved sequence consumed and unused.                      *)
BuildAndSign(w, t) ==
    /\ pc[w][t] = "sign"
    /\ \/ /\ generated' = [generated EXCEPT ![w] = Append(@, seq[w][t])]
          /\ UNCHANGED skipped
       \/ /\ skipped' = [skipped EXCEPT ![w] = @ \cup {seq[w][t]}]
          /\ UNCHANGED generated
    /\ SetPc(w, t, "idle")
    /\ UNCHANGED <<accountQueried, sequence, holder, seq, calls, startSeq,
                   ledgerVars>>

-----------------------------------------------------------------------------
(* Environment: the engine broadcasts the client's txs in the order they  *)
(* were returned; CheckTx admits one only if its sequence equals the      *)
(* account's check-state sequence, and a block commits admitted txs.      *)
BroadcastTx(w) ==
    /\ sent[w] < Len(generated[w])
    /\ LET s == generated[w][sent[w] + 1]
       IN  /\ checkSeq' = [checkSeq EXCEPT ![w] = IF s = @ THEN @ + 1 ELSE @]
           /\ rejected' = [rejected EXCEPT ![w] = IF s = checkSeq[w] THEN @ ELSE @ + 1]
    /\ sent' = [sent EXCEPT ![w] = @ + 1]
    /\ UNCHANGED <<clientVars, funded, chainSeq>>

(* The broadcast fails in transport and the tx never reaches the node.    *)
BroadcastLost(w) ==
    /\ sent[w] < Len(generated[w])
    /\ sent' = [sent EXCEPT ![w] = @ + 1]
    /\ UNCHANGED <<clientVars, funded, chainSeq, checkSeq, rejected>>

CommitBlock(w) ==
    /\ chainSeq[w] < checkSeq[w]
    /\ chainSeq' = [chainSeq EXCEPT ![w] = @ + 1]
    /\ UNCHANGED <<clientVars, funded, checkSeq, sent, rejected>>

-----------------------------------------------------------------------------
Client(w, t) ==
    \/ GenerateTxCall(w, t)
    \/ EnsureLock(w, t)
    \/ EnsureQuery(w, t)
    \/ ReserveSeq(w, t)
    \/ BuildAndSign(w, t)

Ledger(w) == BroadcastTx(w) \/ BroadcastLost(w) \/ CommitBlock(w)

Next ==
    \/ \E w \in Workers, t \in Threads : Client(w, t)
    \/ \E w \in Workers : Ledger(w)

(* Goroutines are scheduled fairly; a goroutine blocked on the mutex is   *)
(* woken when it is released (sync.Mutex hands it over in starvation mode).*)
Fairness ==
    \A w \in Workers, t \in Threads :
        /\ WF_vars(EnsureLock(w, t))
        /\ WF_vars(EnsureQuery(w, t))
        /\ WF_vars(ReserveSeq(w, t))
        /\ WF_vars(BuildAndSign(w, t))

Spec == Init /\ [][Next]_vars
FairSpec == Spec /\ Fairness

-----------------------------------------------------------------------------
(* Sequence numbers reserved by goroutines that have not yet returned.    *)
InFlight(w) == {seq[w][t] : t \in {u \in Threads : pc[w][u] = "sign"}}

ClientTypeOK ==
    /\ accountQueried \in [Workers -> BOOLEAN]
    /\ sequence \in [Workers -> Nat]
    /\ holder \in [Workers -> Threads \cup {NoHolder}]
    /\ pc \in [Workers -> [Threads -> PCs]]
    /\ seq \in [Workers -> [Threads -> Nat]]
    /\ calls \in [Workers -> 0..MaxCalls]
    /\ generated \in [Workers -> Seq(Nat)]
    /\ skipped \in [Workers -> SUBSET Nat]
    /\ startSeq \in [Workers -> Nat]

LedgerTypeOK ==
    /\ funded \in [Workers -> BOOLEAN]
    /\ chainSeq \in [Workers -> Nat]
    /\ checkSeq \in [Workers -> Nat]
    /\ sent \in [Workers -> Nat]
    /\ rejected \in [Workers -> Nat]

TypeOK == ClientTypeOK /\ LedgerTypeOK

(* NoSeqReuse (spec 3, "a sequence number, once claimed, is never reused"; *)
(* GenerateTx's atomic fetch-and-add): the txs a client returns carry     *)
(* pairwise distinct sequences, and none equals a sequence another        *)
(* goroutine of the same client has reserved and is still signing with.   *)
NoSeqReuse ==
    \A w \in Workers :
        /\ IsInjective(generated[w])
        /\ \A t, u \in Threads :
              /\ pc[w][t] = "sign" /\ pc[w][u] = "sign" /\ t # u
                 => seq[w][t] # seq[w][u]
        /\ \A t \in Threads :
              pc[w][t] = "sign" => seq[w][t] \notin Range(generated[w])

(* SeqContiguous (spec 8, "1000 concurrent next() calls yield exactly     *)
(* {s0, ..., s0+999}"): once the account is resolved at s0, the sequences  *)
(* returned, in flight and lost to failed calls are exactly s0 up to the  *)
(* local counter, so the client neither skips nor invents a number.       *)
SeqContiguous ==
    \A w \in Workers :
        accountQueried[w] =>
            Range(generated[w]) \cup InFlight(w) \cup skipped[w]
                = startSeq[w] .. (sequence[w] - 1)

(* NoAdvanceUnresolved (spec 8, "a worker whose account was never seeded   *)
(* yields AccountNotFound ... with zero local sequence advancement"): as  *)
(* long as ensureAccountQueried has not succeeded, the counter is still 0 *)
(* and no goroutine has reserved or signed anything.                      *)
NoAdvanceUnresolved ==
    \A w \in Workers :
        ~accountQueried[w] =>
            /\ sequence[w] = 0
            /\ generated[w] = <<>>
            /\ \A t \in Threads : pc[w][t] \notin {"reserve", "sign"}

(* ResolvedOnce (spec 3, "initialized from the ledger at most once per     *)
(* process lifetime ... only advances"): once the account is queried it   *)
(* stays queried and the local counter never moves backwards, whatever    *)
(* the ledger's committed sequence does meanwhile.                        *)
ResolvedOnce ==
    [][\A w \in Workers :
          accountQueried[w] =>
              /\ accountQueried'[w]
              /\ sequence'[w] >= sequence[w]
              /\ startSeq'[w] = startSeq[w]]_vars

(* CallsReturn (defer Unlock in ensureAccountQueried): every GenerateTx    *)
(* call returns, whichever query fails, so no goroutine waits forever on  *)
(* accountQueryMtx.                                                       *)
CallsReturn ==
    \A w \in Workers, t \in Threads :
        pc[w][t] # "idle" ~> pc[w][t] = "idle"

(* The numbers a client has handed out: returned, still being signed, or *)
(* consumed by a call that failed after the reservation.                  *)
Issued(w) == Range(generated[w]) \cup InFlight(w) \cup skipped[w]

issuedBar == [w \in Workers |-> Issued(w)]

Alloc == INSTANCE SeqAllocator
             WITH Accounts <- Workers, resolved <- accountQueried,
                  counter <- sequence, issued <- issuedBar

(* AllocatorRefined (spec 3 and 4.5): the client, with its mutex, its     *)
(* early return, its REST query and its fetch-and-add, implements the     *)
(* abstract allocator: the counter is set once, from the ledger, while    *)
(* nothing has been handed out, and every reservation hands out a number  *)
(* never handed out before and moves the counter past it.                 *)
AllocatorRefined == Alloc!Spec

(* AllAdmitted (spec 7, "per-worker generation failures are scoped to that *)
(* one call"; spec 4.5, "a gap is acceptable"): every transaction the      *)
(* client returned that reached the node is admitted by CheckTx, so a      *)
(* failed call, a lost broadcast or an out-of-order return costs only      *)
(* itself.  The client never re-reads the account after the first query,  *)
(* so this decides whether one lost sequence stalls the worker for the     *)
(* rest of the run.                                                        *)
AllAdmitted == \A w \in Workers : rejected[w] = 0

=============================================================================
