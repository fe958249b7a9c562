------------------------------- MODULE UiPanes -------------------------------
(***************************************************************************)
(* The pane store, the rotation thread and the lifecycle of the ui thread *)
(* of ttds (src/threads/ui.h, the ui.c part).                              *)
(*                                                                         *)
(* Three threads share one struct ui_ctx:                                  *)
(*   "cmd"  the command reader calling ui_pane_create/remove/draw_*,       *)
(*   "rot"  rotate_panes, showing panes[i % count] once per second,        *)
(*   "ui"   ui_thread, which waits for termination, cancels "rot" through  *)
(*          a pipe, joins it and tears the context down.                   *)
(* Every operation on the pane table holds panes.lock for its whole body, *)
(* so each one is a single step here; lockHolder records a lock that an    *)
(* operation returned without releasing.  The display call is abstracted   *)
(* to the pane it was given (module DoubleBuffer models what it does).     *)
(***************************************************************************)
EXTENDS Naturals, FiniteSets

CONSTANTS
  Names,          \* pane names the client uses
  Root,           \* "root", the pane ui_ctx_new creates
  Canvases,       \* addresses malloc may hand out for a struct canvas
  MaxPanes,       \* MAX_PANES
  RotPeriod,      \* a common multiple of 1..MaxPanes: i is kept modulo it
  RemovableNames, \* names the client may pass to REMOVE
  AllocMayFail,   \* whether strdup/malloc may return NULL
  None            \* no name, no canvas, no lock holder

ASSUME NamesAssumption == Root \in Names /\ RemovableNames \subseteq Names
ASSUME MaxPanesAssumption == MaxPanes \in Nat \ {0}
ASSUME RotPeriodAssumption ==
  RotPeriod \in Nat \ {0} /\ \A c \in 1..MaxPanes : RotPeriod % c = 0
ASSUME CanvasAssumption ==
  IsFiniteSet(Canvases) /\ Cardinality(Canvases) >= MaxPanes
ASSUME NoneAssumption == None \notin Names \cup Canvases
ASSUME AllocAssumption == AllocMayFail \in BOOLEAN

Slots == 1..MaxPanes
Slot == [name : Names \cup {None}, cv : Canvases \cup {None}]
Blank == [name |-> None, cv |-> None]
Faults == {"none", "div_by_zero", "abort", "segv", "use_after_free"}

VARIABLES
  count,       \* ctx->panes.count
  panes,       \* ctx->panes.panes[], slot j holds C index j - 1
  live,        \* canvases allocated and not yet freed
  foreign,     \* foreign[c]: a draw call for another name painted canvas c
  lockHolder,  \* a thread left holding ctx->panes.lock, or None
  rotPc,       \* rotate_panes: "lock" (top of loop), "poll", "done"
  rotI,        \* the loop counter i of rotate_panes, modulo RotPeriod
  shown,       \* the pane last handed to rendering_show
  uiPc,        \* ui_thread: "wait" (term_block), "join", "exited"
  cmdPc,       \* the command reader: "run" or "done"
  term,        \* the termination signal has arrived
  cancelPipe,  \* the byte has been written to the cancellation pipe
  ctxFreed,    \* ui_thread has freed ctx
  fault        \* how the process died, or "none"

storeVars == <<count, panes, live, foreign>>
vars == <<count, panes, live, foreign, lockHolder, rotPc, rotI, shown, uiPc,
          cmdPc, term, cancelPipe, ctxFreed, fault>>

PaneNames == {panes[j].name : j \in 1..count}
PaneCanvases == {panes[j].cv : j \in 1..count}
Alive == fault = "none"

(* The index the linear scans of ui.c stop at for name n.  Names in the   *)
(* table are unique (NamesUnique), so the first match is the only one.     *)
IndexOf(n) == CHOOSE j \in 1..count : panes[j].name = n

-----------------------------------------------------------------------------
(* ui_ctx_new, then ui_thread up to term_block with rotate_panes started.  *)
Init ==
  \E c0 \in Canvases :
    /\ count = 1
    /\ panes = [j \in Slots |-> IF j = 1 THEN [name |-> Root, cv |-> c0] ELSE Blank]
    /\ live = {c0}
    /\ foreign = [c \in Canvases |-> FALSE]
    /\ lockHolder = None
    /\ rotPc = "lock"
    /\ rotI = 0
    /\ shown = Blank
    /\ uiPc = "wait"
    /\ cmdPc = "run"
    /\ term = FALSE
    /\ cancelPipe = FALSE
    /\ ctxFreed = FALSE
    /\ fault = "none"

(* The command reader is between operations and may take the lock.        *)
CmdReady == Alive /\ cmdPc = "run" /\ ~ctxFreed /\ lockHolder = None

CmdUnchanged == UNCHANGED <<lockHolder, rotPc, rotI, shown, uiPc, cmdPc,
                            term, cancelPipe, ctxFreed>>

(* ui_pane_create: duplicate scan, assert, strdup, canvas_init, fill.      *)
Create(n) ==
  /\ CmdReady
  /\ \/ /\ n \in PaneNames
        /\ UNCHANGED vars
     \/ /\ n \notin PaneNames
        /\ count >= MaxPanes
        /\ fault' = "abort"
        /\ UNCHANGED storeVars /\ CmdUnchanged
     \/ /\ n \notin PaneNames /\ count < MaxPanes /\ AllocMayFail
        /\ \/ /\ lockHolder' = "cmd"      \* strdup failed: return, lock held
              /\ UNCHANGED <<fault>>
           \/ /\ fault' = "segv"          \* canvas malloc failed: NULL deref
              /\ UNCHANGED <<lockHolder>>
        /\ UNCHANGED storeVars
        /\ UNCHANGED <<rotPc, rotI, shown, uiPc, cmdPc, term, cancelPipe, ctxFreed>>
     \/ /\ n \notin PaneNames /\ count < MaxPanes
        /\ \E c \in Canvases \ live :
             /\ panes' = [panes EXCEPT ![count + 1] = [name |-> n, cv |-> c]]
             /\ live' = live \cup {c}
             /\ foreign' = [foreign EXCEPT ![c] = FALSE]
        /\ count' = count + 1
        /\ UNCHANGED fault /\ CmdUnchanged

(* Mutant: the shift loop is skipped, only count is decremented.          *)
CompactNoShift(k) == panes

(* The pane table after the shift loop of ui_pane_remove drops index k.    *)
Compact(k) ==
  [j \in Slots |-> IF k <= j /\ j < count THEN panes[j + 1] ELSE panes[j]]

(* Mutant: count-- placed after the scan, so it runs when nothing matched. *)
RemoveCountAlways(n) ==
  /\ CmdReady
  /\ \/ /\ n \notin PaneNames
        /\ count' = count - 1
        /\ UNCHANGED <<panes, live, foreign, fault>> /\ CmdUnchanged
     \/ /\ n \in PaneNames
        /\ live' = live \ {panes[IndexOf(n)].cv}
        /\ panes' = Compact(IndexOf(n))
        /\ count' = count - 1
        /\ UNCHANGED <<foreign, fault>> /\ CmdUnchanged

(* ui_pane_remove: free the first pane named n and shift the rest down.    *)
Remove(n) ==
  /\ CmdReady
  /\ \/ /\ n \notin PaneNames
        /\ UNCHANGED vars
     \/ /\ n \in PaneNames
        /\ live' = live \ {panes[IndexOf(n)].cv}
        /\ panes' = Compact(IndexOf(n))
        /\ count' = count - 1
        /\ UNCHANGED <<foreign, fault>> /\ CmdUnchanged

(* The pane ui_pane_draw_* paints for n: the match, or the last scanned.   *)
DrawTarget(n) ==
  IF n \in PaneNames THEN panes[IndexOf(n)] ELSE panes[count]

(* ui_pane_draw_rect and ui_pane_draw_circle.                              *)
Draw(n) ==
  /\ CmdReady
  /\ \/ /\ count = 0                      \* p == NULL: return, lock held
        /\ lockHolder' = "cmd"
        /\ UNCHANGED storeVars
        /\ UNCHANGED <<rotPc, rotI, shown, uiPc, cmdPc, term, cancelPipe,
                       ctxFreed, fault>>
     \/ /\ count > 0
        /\ foreign' = [foreign EXCEPT ![DrawTarget(n).cv] = @ \/ DrawTarget(n).name # n]
        /\ UNCHANGED <<count, panes, live, fault>> /\ CmdUnchanged

(* Any ui_pane_* call made after ui_thread freed ctx.                      *)
CmdAfterTeardown ==
  /\ Alive /\ cmdPc = "run" /\ ctxFreed
  /\ fault' = "use_after_free"
  /\ UNCHANGED storeVars /\ CmdUnchanged

(* cmd_thread: after term_block it cancels its reader, which then exits.   *)
CmdStop ==
  /\ Alive /\ cmdPc = "run" /\ term
  /\ cmdPc' = "done"
  /\ UNCHANGED <<count, panes, live, foreign, lockHolder, rotPc, rotI, shown,
                 uiPc, term, cancelPipe, ctxFreed, fault>>

-----------------------------------------------------------------------------
(* One iteration's lock, idx = i % count, rendering_show, unlock.          *)
RotShow ==
  /\ Alive /\ rotPc = "lock" /\ lockHolder = None
  /\ \/ /\ count = 0
        /\ fault' = "div_by_zero"
        /\ UNCHANGED <<rotPc, shown>>
     \/ /\ count > 0
        /\ shown' = panes[(rotI % count) + 1]
        /\ rotPc' = "poll"
        /\ UNCHANGED fault
  /\ UNCHANGED <<count, panes, live, foreign, lockHolder, rotI, uiPc, cmdPc,
                 term, cancelPipe, ctxFreed>>

(* Mutant: i never incremented.                                           *)
NextRotIStuck == rotI

(* i++ of the for loop, kept modulo RotPeriod (count divides it).          *)
NextRotI == (rotI + 1) % RotPeriod

(* Mutant: a plain sleep that never looks at the cancellation pipe.       *)
RotPollIgnoringCancel ==
  /\ Alive /\ rotPc = "poll"
  /\ rotPc' = "lock"
  /\ rotI' = NextRotI
  /\ UNCHANGED <<count, panes, live, foreign, lockHolder, shown, uiPc, cmdPc,
                 term, cancelPipe, ctxFreed, fault>>

(* The cancellable one-second poll on the pipe: break, or next iteration.  *)
RotPoll ==
  /\ Alive /\ rotPc = "poll"
  /\ \/ /\ cancelPipe
        /\ rotPc' = "done"
        /\ UNCHANGED rotI
     \/ /\ ~cancelPipe
        /\ rotPc' = "lock"
        /\ rotI' = NextRotI
  /\ UNCHANGED <<count, panes, live, foreign, lockHolder, shown, uiPc, cmdPc,
                 term, cancelPipe, ctxFreed, fault>>

-----------------------------------------------------------------------------
(* The process receives its termination signal (term_block returns).       *)
Term ==
  /\ Alive /\ ~term
  /\ term' = TRUE
  /\ UNCHANGED <<count, panes, live, foreign, lockHolder, rotPc, rotI, shown,
                 uiPc, cmdPc, cancelPipe, ctxFreed, fault>>

(* ui_thread: term_block returned; write the byte to the pipe.             *)
UiCancel ==
  /\ Alive /\ uiPc = "wait" /\ term
  /\ cancelPipe' = TRUE
  /\ uiPc' = "join"
  /\ UNCHANGED <<count, panes, live, foreign, lockHolder, rotPc, rotI, shown,
                 cmdPc, term, ctxFreed, fault>>

(* Mutant: the panes are freed without waiting for the join.               *)
UiTeardownNoJoin ==
  /\ Alive /\ uiPc = "join"
  /\ live' = live \ PaneCanvases
  /\ ctxFreed' = TRUE
  /\ uiPc' = "exited"
  /\ UNCHANGED <<count, panes, foreign, lockHolder, rotPc, rotI, shown, cmdPc,
                 term, cancelPipe, fault>>

(* ui_thread: pthread_join returned; free every pane, the backend, ctx.    *)
UiTeardown ==
  /\ Alive /\ uiPc = "join" /\ rotPc = "done"
  /\ live' = live \ PaneCanvases
  /\ ctxFreed' = TRUE
  /\ uiPc' = "exited"
  /\ UNCHANGED <<count, panes, foreign, lockHolder, rotPc, rotI, shown, cmdPc,
                 term, cancelPipe, fault>>

(* The process has exited or died: nothing more happens.                   *)
Stopped == ~Alive \/ (uiPc = "exited" /\ cmdPc = "done")

Next ==
  \/ \E n \in Names : Create(n) \/ Draw(n)
  \/ \E n \in RemovableNames : Remove(n)
  \/ CmdAfterTeardown \/ CmdStop
  \/ RotShow \/ RotPoll
  \/ Term \/ UiCancel \/ UiTeardown
  \/ Stopped /\ UNCHANGED vars

Spec == Init /\ [][Next]_vars

(* The scheduler runs every runnable thread; the client and the signal    *)
(* are not obliged to act.                                                 *)
FairSpec ==
  /\ Spec
  /\ WF_vars(RotShow) /\ WF_vars(RotPoll)
  /\ WF_vars(UiCancel) /\ WF_vars(UiTeardown) /\ WF_vars(CmdStop)

-----------------------------------------------------------------------------
(* Every variable holds a value of its kind: in particular the table never *)
(* grows past MAX_PANES and i % count always names a slot.                 *)
TypeOK ==
  /\ count \in 0..MaxPanes
  /\ panes \in [Slots -> Slot]
  /\ live \in SUBSET Canvases
  /\ foreign \in [Canvases -> BOOLEAN]
  /\ lockHolder \in {None, "cmd"}
  /\ rotPc \in {"lock", "poll", "done"}
  /\ rotI \in 0..(RotPeriod - 1)
  /\ shown \in Slot
  /\ uiPc \in {"wait", "join", "exited"}
  /\ cmdPc \in {"run", "done"}
  /\ term \in BOOLEAN /\ cancelPipe \in BOOLEAN /\ ctxFreed \in BOOLEAN
  /\ fault \in Faults

(* The pane table is in use up to count, and no name is in it twice:       *)
(* ui_pane_create's duplicate scan and ui_pane_remove's shift keep names   *)
(* unique however creates, failures and removes interleave.                *)
NamesUnique ==
  /\ \A j \in 1..count : panes[j].name \in Names /\ panes[j].cv \in Canvases
  /\ \A i, j \in 1..count : panes[i].name = panes[j].name => i = j

(* Every canvas malloc handed out is owned by exactly one pane until       *)
(* ui_thread frees them all: remove's free-then-shift neither leaks a      *)
(* canvas nor leaves a freed one in the table, and teardown frees each     *)
(* exactly once.                                                           *)
CanvasOwnership ==
  /\ \A i, j \in 1..count : panes[i].cv = panes[j].cv => i = j
  /\ live = IF ctxFreed THEN {} ELSE PaneCanvases

StoreInv == NamesUnique /\ CanvasOwnership

(* ui_pane_draw_* paints only the pane it names (ui.h: it returns          *)
(* UI_NO_SUCH_PANE for an unknown name).                                   *)
DrawTargetsNamedPane ==
  \A j \in 1..count : ~foreign[panes[j].cv]

(* rotate_panes hands rendering_show only a canvas that is still          *)
(* allocated: ui_thread frees the panes only after pthread_join of the     *)
(* rotation thread has returned (ui.h:141-154), and the store's own frees  *)
(* never leave a freed canvas in the table.                                *)
ShowsLiveCanvas ==
  [][rotPc = "lock" /\ rotPc' = "poll" => shown'.cv \in live]_vars

(* rotate_panes never computes i % count with no pane left.                *)
RotationCountNonZero == fault # "div_by_zero"

(* No ui_pane_* call returns with ctx->panes.lock still held.              *)
LockNeverLeaked == lockHolder = None

(* No ui_pane_* call runs on the ctx ui_thread has freed.                  *)
NoUseAfterFree == fault # "use_after_free"

(* A pane that stays in the table while the process runs is shown again   *)
(* and again by the round robin i % count, however the client creates and  *)
(* removes other panes meanwhile.                                          *)
RotationFairness ==
  \A n \in Names :
    (<>[](~term /\ n \in PaneNames)) => []<>(shown.name = n)

(* Once the termination signal arrives, the pipe wakes rotate_panes, the   *)
(* join returns and ui_thread finishes its teardown.                       *)
ShutdownCompletes == term ~> (uiPc = "exited")

=============================================================================
