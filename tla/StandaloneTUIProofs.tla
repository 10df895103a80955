------------------------ MODULE StandaloneTUIProofs -------------------------
(***************************************************************************)
(* Proofs of the safety invariants of StandaloneTUI for every set of       *)
(* transactors and every bound on their counts.                            *)
(*                                                                         *)
(* None of them is inductive alone.  TUIInv adds what ties them together:  *)
(*  - the UI goroutine is started only by startStandaloneTUI;             *)
(*  - statsMtx is read-locked exactly while the UI goroutine copies the    *)
(*    counters, and then no transactor holds it for writing;               *)
(*  - stopped is closed only by the UI goroutine's exit, and the stop      *)
(*    function restores the terminal only after <-stopped, so once the     *)
(*    terminal is restored the UI goroutine has exited for good;           *)
(*  - the only step that can reach "exited" in the main goroutine is the   *)
(*    stop function's restore, which shows the cursor.                     *)
(***************************************************************************)
EXTENDS StandaloneTUI, TLAPS

TUIInv ==
    /\ TypeOK
    /\ mpc = "start" => gpc = "idle"
    /\ readLocked = (gpc = "copy")
    /\ readLocked => writer = NoWriter
    /\ gpc = "copy" => \A t \in copied : snap[t] = counts[t]
    /\ stoppedClosed => gpc = "exited"
    /\ mpc = "stopRestore" => stoppedClosed
    /\ restored => gpc = "exited"
    /\ mpc = "exited" => ~cursorHidden
    /\ ~lateFrame

LEMMA InitTUIInv == Init => TUIInv
<1> SUFFICES ASSUME Init PROVE TUIInv
  OBVIOUS
<1>1. {stopcClosed, stoppedClosed, cursorHidden, errPrinted, errShown,
       restored, lateFrame} \subseteq BOOLEAN
  BY Zenon DEF Init
<1>2. TypeOK
  BY <1>1, TUIAssumption DEF Init, TypeOK, MainPCs, NoWriter
<1>3. QED
  BY <1>2, Zenon DEF Init, TUIInv

(* Each step of the main goroutine and of the UI goroutine keeps TUIInv.  *)
LEMMA StartTUITUIInv == TUIInv /\ StartTUI => TUIInv'
<1> SUFFICES ASSUME TUIInv, StartTUI PROVE TUIInv'
  OBVIOUS
<1>1. ({stopcClosed, stoppedClosed, cursorHidden, errPrinted, errShown,
        restored, lateFrame} \subseteq BOOLEAN)'
  BY Zenon DEF StartTUI, TUIInv, TypeOK
<1>2. TypeOK'
  BY <1>1 DEF StartTUI, TUIInv, TypeOK, MainPCs, statsVars
<1>3. QED
  BY <1>2 DEF StartTUI, TUIInv, statsVars

LEMMA WaitDoneTUIInv == TUIInv /\ WaitDone => TUIInv'
  BY DEF WaitDone, TUIInv, TypeOK, MainPCs, CallStop, statsVars

LEMMA WriteStatsTUIInv == TUIInv /\ WriteStats => TUIInv'
  BY DEF WriteStats, TUIInv, TypeOK, MainPCs, statsVars

LEMMA PrintErrTUIInv == TUIInv /\ PrintErr => TUIInv'
  BY DEF PrintErr, TUIInv, TypeOK, MainPCs, statsVars

LEMMA ReturnTUIInv == TUIInv /\ Return => TUIInv'
  BY DEF Return, TUIInv, TypeOK, MainPCs, CallStop, statsVars

LEMMA StopSelectTUIInv == TUIInv /\ StopSelect => TUIInv'
  BY DEF StopSelect, TUIInv, TypeOK, MainPCs, statsVars

LEMMA StopWaitTUIInv == TUIInv /\ StopWait => TUIInv'
  BY DEF StopWait, TUIInv, TypeOK, MainPCs, statsVars

LEMMA StopRestoreTUIInv == TUIInv /\ StopRestore => TUIInv'
  BY Zenon DEF StopRestore, TUIInv, TypeOK, MainPCs, statsVars

LEMMA TickRLockTUIInv == TUIInv /\ TickRLock => TUIInv'
  BY Zenon DEF TickRLock, TUIInv, TypeOK, MainPCs, statsVars

LEMMA TickRUnlockTUIInv == TUIInv /\ TickRUnlock => TUIInv'
  BY ZenonT(30) DEF TickRUnlock, TUIInv, TypeOK, MainPCs, statsVars

LEMMA RenderTUIInv == TUIInv /\ Render => TUIInv'
  BY Zenon DEF Render, TUIInv, TypeOK, MainPCs, statsVars

LEMMA ExitTUIInv == TUIInv /\ Exit => TUIInv'
  BY DEF Exit, TUIInv, TypeOK, MainPCs, statsVars

LEMMA CopyCountTUIInv ==
    ASSUME TUIInv, NEW t \in Transactors, CopyCount(t)
    PROVE  TUIInv'
  BY DEF CopyCount, TUIInv, TypeOK, termVars

(* A transactor writes only while the UI does not hold the read lock.     *)
LEMMA RecordTxTUIInv ==
    ASSUME TUIInv, NEW t \in Transactors, RecordTx(t)
    PROVE  TUIInv'
<1>0. /\ counts \in [Transactors -> 0 .. MaxTx] /\ counts[t] < MaxTx
      /\ counts' = [counts EXCEPT ![t] = counts[t] + 1]
  BY DEF RecordTx, TUIInv, TypeOK
<1>1. counts' \in [Transactors -> 0 .. MaxTx]
  BY <1>0, TUIAssumption
<1>2. TypeOK'
  BY <1>1 DEF RecordTx, TUIInv, TypeOK, termVars
<1>3. QED
  BY <1>2, Zenon DEF RecordTx, TUIInv, termVars

LEMMA ReleaseTxTUIInv ==
    ASSUME TUIInv, NEW t \in Transactors, ReleaseTx(t)
    PROVE  TUIInv'
  BY DEF ReleaseTx, TUIInv, TypeOK, termVars, NoWriter

LEMMA NextTUIInv == TUIInv /\ [Next]_vars => TUIInv'
<1> SUFFICES ASSUME TUIInv, [Next]_vars PROVE TUIInv'
  OBVIOUS
<1>1. CASE Main
  BY <1>1, StartTUITUIInv, WaitDoneTUIInv, WriteStatsTUIInv, PrintErrTUIInv,
     ReturnTUIInv, StopSelectTUIInv, StopWaitTUIInv, StopRestoreTUIInv DEF Main
<1>2. CASE UI
  BY <1>2, TickRLockTUIInv, CopyCountTUIInv, TickRUnlockTUIInv, RenderTUIInv,
     ExitTUIInv DEF UI
<1>3. CASE Engine
  BY <1>3, RecordTxTUIInv, ReleaseTxTUIInv DEF Engine
<1>4. CASE UNCHANGED vars
  BY <1>4 DEF TUIInv, TypeOK, vars, termVars, statsVars
<1>5. QED
  BY <1>1, <1>2, <1>3, <1>4 DEF Next

LEMMA TUIInvHolds == Spec => []TUIInv
  BY InitTUIInv, NextTUIInv, PTL DEF Spec

(* For every set of transactors: the UI goroutine never draws a frame after *)
(* the stop function has cleared the screen and shown the cursor, because  *)
(* the stop function waits on <-stopped first.                              *)
THEOREM NoFrameAfterRestoreHolds == Spec => []NoFrameAfterRestore
  BY TUIInvHolds, PTL DEF TUIInv, NoFrameAfterRestore

(* ExecuteStandalone never returns with the cursor hidden, on any path.     *)
THEOREM TerminalRestoredHolds == Spec => []TerminalRestored
  BY TUIInvHolds, PTL DEF TUIInv, TerminalRestored

(* While the UI copies tg.txCounts entry by entry under RLock, every entry  *)
(* it has copied still equals the live count: no transactor can take the    *)
(* write lock in between.                                                    *)
THEOREM SnapshotConsistentHolds == Spec => []SnapshotConsistent
  BY TUIInvHolds, PTL DEF TUIInv, SnapshotConsistent
=============================================================================
