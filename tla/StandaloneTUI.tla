--------------------------- MODULE StandaloneTUI ---------------------------
(***************************************************************************)
(* The terminal UI of a standalone load test: startStandaloneTUI and the   *)
(* stop function it returns (src/unnamed/part_003), driven by              *)
(* ExecuteStandalone (src/unnamed/part_004, lines 13-102).                 *)
(*                                                                         *)
(* Two goroutines share the terminal.  The main goroutine starts the UI,   *)
(* waits for the load test, may print an error and returns, calling the    *)
(* stop function explicitly on the error path of tg.Wait and by defer on   *)
(* every path.  The UI goroutine loops on select { ticker, stopc },        *)
(* clearing the screen and drawing a frame on each tick, and closes        *)
(* `stopped` by defer when it returns.  The terminal is abstracted to      *)
(* whether the cursor is hidden and whether the error text printed to      *)
(* stderr is still on the screen; frames are not told apart.               *)
(*                                                                         *)
(* The counters a frame shows are the load engine's tg.txCounts, which     *)
(* its transactors increment under tg.statsMtx.Lock and the UI copies      *)
(* under RLock, one map entry at a time in Go's random map order.          *)
(***************************************************************************)
EXTENDS Naturals

CONSTANTS
    Transactors,   \* the ids of tg.txCounts
    MaxTx          \* bound on each transactor's count

ASSUME TUIAssumption == Transactors # {} /\ MaxTx \in Nat

NoWriter == "none"

VARIABLES
    mpc,           \* main goroutine: where ExecuteStandalone is
    ret,           \* where the stop function returns to
    gpc,           \* UI goroutine: "idle" (not started), "loop" or "exited"
    stopcClosed,   \* close(stopc) has happened
    stoppedClosed, \* close(stopped) has happened
    cursorHidden,  \* the terminal's cursor is hidden
    errPrinted,    \* ghost: an error was printed to stderr
    errShown,      \* the error text is still on the screen
    restored,      \* ghost: the stop function has restored the terminal
    lateFrame,     \* ghost: a frame was drawn after the terminal was restored
    counts,        \* tg.txCounts
    writer,        \* the transactor holding statsMtx for writing
    readLocked,    \* the UI goroutine holds statsMtx for reading
    snap,          \* the UI's copy of txCounts for the frame being built
    copied         \* the ids the UI has copied so far this tick

termVars == <<mpc, ret, gpc, stopcClosed, stoppedClosed, cursorHidden, errPrinted,
              errShown, restored, lateFrame>>
statsVars == <<counts, writer, readLocked, snap, copied>>
vars == <<termVars, statsVars>>

MainPCs == {"start", "wait", "writeStats", "printErr", "return",
            "stopSelect", "stopWait", "stopRestore", "exited"}

Init ==
    /\ mpc = "start"
    /\ ret = "exited"
    /\ gpc = "idle"
    /\ stopcClosed = FALSE
    /\ stoppedClosed = FALSE
    /\ cursorHidden = FALSE
    /\ errPrinted = FALSE
    /\ errShown = FALSE
    /\ restored = FALSE
    /\ lateFrame = FALSE
    /\ counts = [t \in Transactors |-> 0]
    /\ writer = NoWriter
    /\ readLocked = FALSE
    /\ snap = [t \in Transactors |-> 0]
    /\ copied = {}

\* A call of the stop function returning to r.
CallStop(r) == mpc' = "stopSelect" /\ ret' = r

\* stopTUI = startStandaloneTUI(&cfg, tg): hideCursor, clearScreen, go func.
StartTUI ==
    /\ mpc = "start"
    /\ mpc' = "wait"
    /\ gpc' = "loop"
    /\ cursorHidden' = TRUE
    /\ errShown' = FALSE
    /\ UNCHANGED <<ret, stopcClosed, stoppedClosed, errPrinted, restored,
                   lateFrame, statsVars>>

\* tg.Wait() returns: an error calls stopTUI() before printing it.
WaitDone ==
    /\ mpc = "wait"
    /\ \/ CallStop("printErr")
       \/ mpc' = "writeStats" /\ UNCHANGED ret
    /\ UNCHANGED <<gpc, stopcClosed, stoppedClosed, cursorHidden, errPrinted,
                   errShown, restored, lateFrame, statsVars>>

\* WriteAggregateStats, when a stats file is configured: its error is
\* printed without stopping the UI first.
WriteStats ==
    /\ mpc = "writeStats"
    /\ mpc' \in {"printErr", "return"}
    /\ UNCHANGED <<ret, gpc, stopcClosed, stoppedClosed, cursorHidden,
                   errPrinted, errShown, restored, lateFrame, statsVars>>

\* fmt.Fprintln(os.Stderr, err.Error()), then return err.
PrintErr ==
    /\ mpc = "printErr"
    /\ mpc' = "return"
    /\ errPrinted' = TRUE
    /\ errShown' = TRUE
    /\ UNCHANGED <<ret, gpc, stopcClosed, stoppedClosed, cursorHidden,
                   restored, lateFrame, statsVars>>

\* Mutant: ExecuteStandalone without "defer stopTUI()".
ReturnNoDefer ==
    /\ mpc = "return"
    /\ mpc' = "exited"
    /\ UNCHANGED <<ret, gpc, stopcClosed, stoppedClosed, cursorHidden,
                   errPrinted, errShown, restored, lateFrame, statsVars>>

\* The function returns and the deferred stopTUI() runs.
Return ==
    /\ mpc = "return"
    /\ CallStop("exited")
    /\ UNCHANGED <<gpc, stopcClosed, stoppedClosed, cursorHidden, errPrinted,
                   errShown, restored, lateFrame, statsVars>>

\* select { case <-stopc: (already stopped) default: close(stopc) }
StopSelect ==
    /\ mpc = "stopSelect"
    /\ mpc' = "stopWait"
    /\ stopcClosed' = TRUE
    /\ UNCHANGED <<ret, gpc, stoppedClosed, cursorHidden, errPrinted,
                   errShown, restored, lateFrame, statsVars>>

\* Mutant: the terminal is restored without waiting for <-stopped.
StopWaitNoWait ==
    /\ mpc = "stopWait"
    /\ mpc' = "stopRestore"
    /\ UNCHANGED <<ret, gpc, stopcClosed, stoppedClosed, cursorHidden,
                   errPrinted, errShown, restored, lateFrame, statsVars>>

\* <-stopped
StopWait ==
    /\ mpc = "stopWait"
    /\ stoppedClosed
    /\ mpc' = "stopRestore"
    /\ UNCHANGED <<ret, gpc, stopcClosed, stoppedClosed, cursorHidden,
                   errPrinted, errShown, restored, lateFrame, statsVars>>

\* clearScreen(); showCursor(); and the stop function returns.
StopRestore ==
    /\ mpc = "stopRestore"
    /\ mpc' = ret
    /\ errShown' = FALSE
    /\ cursorHidden' = FALSE
    /\ restored' = TRUE
    /\ UNCHANGED <<ret, gpc, stopcClosed, stoppedClosed, errPrinted,
                   lateFrame, statsVars>>

(***************************************************************************)
(* One tick of the UI loop (lines 343-433): RLock, copy every entry of     *)
(* txCounts, RUnlock, then clearScreen and draw the frame.                 *)
(***************************************************************************)
\* Mutant: the counters are copied without taking the read lock.
TickNoRLock ==
    /\ gpc = "loop"
    /\ gpc' = "copy"
    /\ copied' = {}
    /\ UNCHANGED <<mpc, ret, stopcClosed, stoppedClosed, cursorHidden, errPrinted,
                   errShown, restored, lateFrame, counts, writer, snap, readLocked>>

TickRLock ==
    /\ gpc = "loop"
    /\ writer = NoWriter
    /\ gpc' = "copy"
    /\ readLocked' = TRUE
    /\ copied' = {}
    /\ UNCHANGED <<mpc, ret, stopcClosed, stoppedClosed, cursorHidden, errPrinted,
                   errShown, restored, lateFrame, counts, writer, snap>>

CopyCount(t) ==
    /\ gpc = "copy"
    /\ t \notin copied
    /\ snap' = [snap EXCEPT ![t] = counts[t]]
    /\ copied' = copied \cup {t}
    /\ UNCHANGED <<termVars, counts, writer, readLocked>>

TickRUnlock ==
    /\ gpc = "copy"
    /\ copied = Transactors
    /\ gpc' = "render"
    /\ readLocked' = FALSE
    /\ UNCHANGED <<mpc, ret, stopcClosed, stoppedClosed, cursorHidden, errPrinted,
                   errShown, restored, lateFrame, counts, writer, snap, copied>>

Render ==
    /\ gpc = "render"
    /\ gpc' = "loop"
    /\ errShown' = FALSE
    /\ lateFrame' = (lateFrame \/ restored)
    /\ UNCHANGED <<mpc, ret, stopcClosed, stoppedClosed, cursorHidden, errPrinted,
                   restored, statsVars>>

(***************************************************************************)
(* A transactor of the load engine records a sent transaction: Lock,       *)
(* txCounts[id]++, Unlock.                                                 *)
(***************************************************************************)
RecordTx(t) ==
    /\ writer = NoWriter
    /\ ~readLocked
    /\ counts[t] < MaxTx
    /\ writer' = t
    /\ counts' = [counts EXCEPT ![t] = @ + 1]
    /\ UNCHANGED <<termVars, readLocked, snap, copied>>

ReleaseTx(t) ==
    /\ writer = t
    /\ writer' = NoWriter
    /\ UNCHANGED <<termVars, counts, readLocked, snap, copied>>

\* Mutant: a loop whose select has no stopc case.
ExitNever == FALSE

\* case <-stopc: return, and the deferred close(stopped) and ticker.Stop.
Exit ==
    /\ gpc = "loop"
    /\ stopcClosed
    /\ gpc' = "exited"
    /\ stoppedClosed' = TRUE
    /\ UNCHANGED <<mpc, ret, stopcClosed, cursorHidden, errPrinted, errShown,
                   restored, lateFrame, statsVars>>

Main ==
    \/ StartTUI \/ WaitDone \/ WriteStats \/ PrintErr \/ Return
    \/ StopSelect \/ StopWait \/ StopRestore

UI == TickRLock \/ (\E t \in Transactors : CopyCount(t)) \/ TickRUnlock \/ Render \/ Exit

Engine == \E t \in Transactors : RecordTx(t) \/ ReleaseTx(t)

Next == Main \/ UI \/ Engine

Spec == Init /\ [][Next]_vars

(***************************************************************************)
(* The main goroutine's steps, and the UI goroutine's steps within a tick, *)
(* are weakly fair.  The UI goroutine's select picks uniformly at random   *)
(* among its ready cases, so once stopc is closed the stopc case, ready at *)
(* every iteration, is eventually taken: strong fairness of Exit.  The     *)
(* transactors get none: they may stop sending at any time.               *)
(***************************************************************************)
FairSpec ==
    /\ Spec
    /\ WF_vars(Main)
    /\ WF_vars(\E t \in Transactors : CopyCount(t))
    /\ WF_vars(TickRUnlock)
    /\ WF_vars(Render)
    /\ SF_vars(Exit)

-----------------------------------------------------------------------------

TypeOK ==
    /\ mpc \in MainPCs
    /\ ret \in {"printErr", "exited"}
    /\ gpc \in {"idle", "loop", "copy", "render", "exited"}
    /\ counts \in [Transactors -> 0 .. MaxTx]
    /\ writer \in Transactors \cup {NoWriter}
    /\ snap \in [Transactors -> 0 .. MaxTx]
    /\ copied \subseteq Transactors
    /\ {stopcClosed, stoppedClosed, cursorHidden, errPrinted, errShown,
        restored, lateFrame} \subseteq BOOLEAN

(***************************************************************************)
(* The stop function waits for the UI goroutine to exit before it clears   *)
(* the screen and shows the cursor, so no frame is drawn over the restored *)
(* terminal, even though the goroutine's select may still take a tick      *)
(* after stopc is closed.                                                  *)
(***************************************************************************)
NoFrameAfterRestore == ~lateFrame

(***************************************************************************)
(* ExecuteStandalone never returns with the cursor hidden, on any path     *)
(* (spec 4.6: restore the terminal unconditionally).                       *)
(***************************************************************************)
TerminalRestored == mpc = "exited" => ~cursorHidden

(***************************************************************************)
(* The frame shows one instant of the counters: while the UI copies        *)
(* txCounts entry by entry, every entry it has copied is still the current *)
(* count, because no transactor can take the write lock in between.        *)
(***************************************************************************)
SnapshotConsistent ==
    gpc = "copy" => \A t \in copied : snap[t] = counts[t]

(***************************************************************************)
(* The stop function returns: the UI goroutine notices stopc and exits.    *)
(***************************************************************************)
StopReturns == <>(mpc = "exited")

(***************************************************************************)
(* "We'll print errors after the UI stops" (part_004, line 15): an error   *)
(* printed in TUI mode is still on the screen when ExecuteStandalone       *)
(* returns.                                                                *)
(***************************************************************************)
ErrorStaysVisible == (mpc = "exited" /\ errPrinted) => errShown

=============================================================================
