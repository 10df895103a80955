------------------------ MODULE MCPerpxBankClient --------------------------
(* Model-checking instance of PerpxBankClient.  Clients of different      *)
(* workers share no variable (each has its own mutex, counter and ledger   *)
(* account), so one worker shows every interleaving that matters; three   *)
(* goroutines contend for its mutex and counter over four calls.          *)
EXTENDS PerpxBankClient, TLC

CONSTANTS w1, t1, t2, t3

MCWorkers == {w1}
MCThreads == {t1, t2, t3}
MCStartSeqs == {0, 2}
MCMaxCalls == 4

(* A client's goroutines are interchangeable.                             *)
MCSymmetry == Permutations(MCThreads)
=============================================================================
