--------------------------- MODULE SeqAllocator ----------------------------
(***************************************************************************)
(* What the per-worker generator promises about sequence numbers (spec    *)
(* sections 3 and 4.5), with nothing of how it keeps the promise: an      *)
(* account's allocator is resolved once from the ledger, at whatever      *)
(* sequence the ledger reports, and afterwards hands out one number per   *)
(* call, each a number it has never handed out before, counting upwards.  *)
(* Numbers handed out stay handed out, whether the transaction that       *)
(* carries them is returned, still being built, or lost to an error.      *)
(***************************************************************************)
EXTENDS Naturals

CONSTANT Accounts

VARIABLES
    resolved,   \* the account's sequence has been read from the ledger
    counter,    \* the next number the allocator hands out
    issued      \* the numbers handed out so far

vars == <<resolved, counter, issued>>

Init ==
    /\ resolved = [a \in Accounts |-> FALSE]
    /\ counter = [a \in Accounts |-> 0]
    /\ issued = [a \in Accounts |-> {}]

(* The one-time resolution: the counter starts at whatever sequence the    *)
(* ledger reports.                                                         *)
Resolve(a) ==
    /\ ~resolved[a]
    /\ resolved' = [resolved EXCEPT ![a] = TRUE]
    /\ counter'[a] \in Nat
    /\ counter' = [counter EXCEPT ![a] = counter'[a]]
    /\ UNCHANGED issued

(* One allocation: a fresh number, and the counter moves past it.          *)
Allocate(a) ==
    /\ resolved[a]
    /\ counter[a] \notin issued[a]
    /\ issued' = [issued EXCEPT ![a] = @ \cup {counter[a]}]
    /\ counter' = [counter EXCEPT ![a] = @ + 1]
    /\ UNCHANGED resolved

Next == \E a \in Accounts : Resolve(a) \/ Allocate(a)

Spec == Init /\ [][Next]_vars

=============================================================================
