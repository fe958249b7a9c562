# TLA+ models of ttds

ttds is a small display server. A Pane Store holds named off-screen canvases. A rotation thread shows them one after another on a DRM/KMS display. A command thread reads commands from stdin that create, remove and draw on panes. This directory holds TLA+ models of those parts, TLC configurations that check them, and TLAPS proofs about the pane store, the double buffer and the DRM acquisition chain.

Source layout, with line numbers as in `cat -n` of each file:

| file | contents |
|---|---|
| `src/threads/ui.h` | `ui.h` (1–33) then `ui.c` (34–317): pane store, rotation loop, UI thread |
| `src/unnamed/part_000` | `rendering.c`: rasterizer (146–220, 496–505) and an older copy of the DRM backend |
| `src/unnamed/part_001` | `canvas.h` and `tests.nix` |
| `src/unnamed/part_002` | backend table (1–15) then `backends/drm.c` (16–366) |
| `src/unnamed/part_003` | `commands.c`: command threads, parser, actions |

## 1. Inventory

### Components and how they interact

- **Pane Store** (`ui.c`). This is a mutex-guarded array of at most `MAX_PANES` panes, each a name and a canvas. `ui_ctx_new` creates it with a "root" pane. The operations are `ui_pane_create`, `ui_pane_remove`, `ui_pane_draw_rect` and `ui_pane_draw_circle`. Each one locks the store, scans by name and acts.
- **Rotation Loop** (`rotate_panes`). It runs forever: lock, `idx = i % count`, `rendering_show(panes[idx])`, unlock, then a one-second `poll` on a cancellation pipe.
- **UI thread** (`ui_thread`). It spawns the rotation thread, then blocks in `term_block` until termination. It writes a byte to the pipe and joins the rotation thread. Finally it frees every pane, the backend and `ctx`, without taking the lock.
- **Command threads** (`cmd_thread` and `cmd_inner`):
  - `cmd_thread` starts a reader thread, waits in `term_block`, then cancels the reader through its own pipe.
  - The reader polls stdin, parses a line (`parse`, `collect_args`, `parse_color`) and calls `run`.
  - `run` dispatches to `act_*`, which call the `ui_pane_*` operations.
- **Display backend** (`backends/drm.c`, reached through the table in part_002 1–15):
  - `drm_rendering_init` runs the acquisition chain: card, capabilities, resources, connector, CRTC, mode, plane, two dumb buffers.
  - `drm_canvas_init` allocates a canvas of the mode's size.
  - `drm_rendering_show` copies a canvas into the back buffer and page-flips, retrying while the kernel reports `EBUSY`.
  - `drm_rendering_cleanup` releases the chosen objects and closes the card.
- **Rasterizer** (`rendering.c`): fill, rectangle, midpoint circle, `draw_point`.

The threads interact only through the pane store lock, plus two things that are not protected by it: the teardown in `ui_thread` and the termination signal both threads wait for.

### Hard behaviours

- Three threads share one store:
  - the command reader mutates it;
  - the rotation thread reads it;
  - the UI thread frees it after joining only the rotation thread.
- Error paths that return with the lock still held.
- Index arithmetic, in three places:
  - `i % count` with a count that removals can bring to zero;
  - the shift loop of `ui_pane_remove`;
  - the draw scan that leaves its pointer at the last pane.
- The page flip is asynchronous: the kernel keeps a flip pending until the next vertical blank, and `show` may be called again before then.
- The acquisition chain:
  - each libdrm call may fail;
  - some results are used without a check;
  - the scans must free every candidate they pass over.
- Unsigned 16-bit geometry in the rasterizer.

## 2. Modules

| module | models | state | actions |
|---|---|---|---|
| `UiPanes` | Pane Store, Rotation Loop, UI thread, command client | `count`, `panes` (slot → name, canvas), `live` canvases, `foreign` (a canvas received ink meant for another pane), `lockHolder`, rotation `rotPc`/`rotI`/`shown`, `uiPc`, `cmdPc`, `term`, `cancelPipe`, `ctxFreed`, `fault` | `Create(n)`, `Remove(n)`, `Draw(n)`, `CmdAfterTeardown`, `CmdStop`, `RotShow`, `RotPoll`, `Term`, `UiCancel`, `UiTeardown` |
| `DisplayAbstract` | what `show` promises: frames reach the screen in order, and the caller blocks while one is queued | `screen`, `queue`, `caller`, `halted` | `Show(f)`, `Display`, `Halt` |
| `DoubleBuffer` | `drm_rendering_show` against a kernel with one pending flip | `front`, `content` of each buffer, `scanout`, `pending`, `showPc`, `fatal` | `Copy(f)`, `Flip`, `FlipFailed`, `VBlank` (kernel) |
| `DrmInit` | `drm_rendering_init`, its helpers, and `drm_rendering_cleanup` | card contents `conns`/`crtcs`/`planes` chosen in Init, `pc`, loop index `i`, chosen `ctx`, `held` handles, `pitchOk`, `mapped`, `outcome` | `InitCard`, `InitRes`, `InitConn`, `InitCrtc`, `InitPlaneRes`, `InitPlane`, `InitBuf(b)`, `Cleanup` |
| `Raster` | `draw_point`, `rendering_fill`, `rendering_draw_rect`, `rendering_draw_circle` on a canvas from `canvas_init_bgra` or `drm_canvas_init` | `canvas` (width, height, stride, buffer size), `pc`, the circle `circ` and its loop locals `x`, `y`, `t1`, the `drawn` pixels, the `last` call, `oob` | `Fill`, `DrawRect(r)`, `DrawCircle(c)`, `CircleStep`, `CircleDone` |
| `Commands` | `cmd_inner`'s loop, `parse`, `collect_args`, `run`, the `act_*` hooks, `parse_color` | reader `pc`, `cancelled`, lines read `n`, the last `line`, the stack `slot` of argc/argv, `heap` and `mem` of argv allocations, the ui `call` made, the first undefined behaviour `ub` | `Command(l)`, `ReadFails`, `Terminate`, `Cancel` |
| `UiPanesProofs`, `DoubleBufferProofs`, `DrmInitProofs`, `RasterProofs`, `RasterCircleProofs` | TLAPS proofs | | |
| `MC_*` | model values, symmetry and call sets for TLC | | |

### How the models correspond to the code

**UiPanes**
- Each `ui_pane_*` call runs entirely under the store lock, so it is one atomic action. Its guard `CmdReady` says that the lock is free, the caller is alive and `ctx` has not been freed.
- An error path that returns without unlocking sets `lockHolder` to `"cmd"`, and nothing can take the lock after that.
- Crashes are terminal values of `fault`:
  - `abort`: the `assert` at `MAX_PANES`;
  - `segv`: an unchecked malloc in `drm_canvas_init`;
  - `div_by_zero`;
  - `use_after_free`.
- Drawing is abstracted to which pane the pixels land on.
- `rotI` counts modulo `RotPeriod`, a common multiple of `1..MaxPanes`. Every `i % count` therefore has the same value as with the unbounded counter, so the abstraction is exact.
- `term_block` is not in `src/`. `Term` models it from the spec as the one-time termination event both threads wait for.

**DoubleBuffer**
- `Copy` is the `memcpy` into `bufs[1 ^ front_buf_idx]`.
- `Flip` is the `drmModePageFlip` loop. Its guard `pending = None` is the `EBUSY` retry: the caller stays in `showPc = "flip"` while the kernel answers busy. The action ends with the `front_buf_idx ^= 1` swap.
- `FlipFailed` is the `FATAL_ERR` on any other error.
- `VBlank` is the kernel completing the pending flip.

**DrmInit**
- Each helper is one action, and each iteration of a scanning loop is one step. `NewCtx` is `drm_rendering_init`'s unchecked `malloc` of `rendering_ctx`; a NULL is written through at line 82, a crash.
- A call listed in `FailingCalls` may fail.
- `FATAL_ERR` and NULL dereferences end in a terminal `outcome`.
- `held` is the set of fds, libdrm objects, dumb buffers, framebuffers and mappings the process holds.

**Raster**
- Coordinates are `uint16_t`; every store into one is taken modulo `2^Bits` (`U`). TLC runs use `Bits = 4`, which keeps the wraparound reachable on a 6×5 canvas.
- A fill or a rectangle is one step. The circle's `while (x >= y)` loop is one step per iteration (`CircleStep`), its eight span loops computed as sets of pixels (`Spans`, `DownSpan`, `UpSpan`), then `y++`, `t1 += y`, `t2 = t1 - x` and the conditional `x--`. `CircleDone` is the loop exit.
- With `circle->x = 0` the first span loop's `eff_x >= 0` is always true on an unsigned type: that iteration sweeps its row for ever and never completes, so `CircleStep` repeats without changing `x`, `y`, `t1`.
- `draw_point` computes `(y * width + x) * stride` and writes 4 bytes with no check; `oob` records a write past `canvas.size`. A DRM canvas has `stride = Pitch` (the dumb buffer's pitch) and `size = Pitch * height`.
- Colours are left out: no property tells them apart.

**Commands**
- A line is abstracted to what `parse` tells apart: a `:`, the target before it, the first word after it, the remaining words, and whether whitespace follows the action word (`nl`). `fgets` keeps the `'\n'`, so only the last line before EOF, or a line cut at `MAX_CMD_LEN - 1` bytes, has `nl = FALSE` with no arguments.
- A word is abstracted to what `parse_color` and `strtol` test: a leading `#`, its length, whether the rest is hex, whether it is a whole number and its value.
- One line is parsed and run in one step, as `cmd_inner` does. The step covers `parse`'s early returns, then `Run` on the argc/argv pair that `parse` left. `Run` is `run`'s search of `actions[]`, the hook, and `free(c->argv)`.
- `parse` assigns `argc`/`argv` only when whitespace follows the action (part_003:178). Otherwise they hold what the stack held. That is undefined behaviour, modelled as a choice between the previous command's pair (`slot`) and garbage. Each argv `collect_args` allocates is named by its line number; `heap` says whether it is live or freed, and reads and frees of freed or garbage pointers set `ub`.
- `ui_pane_draw_circle`'s result is taken from `CircleResults`, because `act_circle` indexes `ui_failure_strs` with the radius when the draw fails.

### The kernel environment

- The connector, CRTC and plane lists the card reports are chosen in `Init`. Each is a list of up to `MaxObjs` entries.
- A connector is connected, disconnected, or has no modes.
- A CRTC has a valid mode or not.
- A plane drives CRTC 0..`MaxObjs` and has type primary, overlay, or no type property.

## 3. Runs

| run | cfg | expect | checks |
|---|---|---|---|
| store_safety | `store_safety.cfg` | pass | `StoreInv`, `ShowsLiveCanvas` |
| rotation_live | `rotation_live.cfg` | pass | `RotationCountNonZero`, `RotationFairness`, `ShutdownCompletes` |
| display_refines | `display_refines.cfg` | pass | `TypeOK`, `ImplementsDisplay` |
| drm_init | `drm_init.cfg` | pass | `ChosenObjectsQualify`, `OnlyChosenHeld` |
| raster_shapes | `raster_shapes.cfg` | pass | `WritesInBounds`, `CircleShape`, `CircleReturns` |
| draw_missing_pane | `draw_missing_pane.cfg` | violation | `DrawTargetsNamedPane` |
| alloc_failure_lock | `alloc_failure_lock.cfg` | violation | `LockNeverLeaked` |
| teardown_race | `teardown_race.cfg` | violation | `NoUseAfterFree` |
| unchecked_calls | `unchecked_calls.cfg` | violation | `CallFailuresAreFatal` |
| drm_canvas_stride | `drm_canvas_stride.cfg` | violation | `WritesInBounds` |
| commands_unterminated | `commands_unterminated.cfg` | violation | `MemorySafe` |
| commands_colour | `commands_colour.cfg` | violation | `DispatchAsDocumented` |

### What the passing runs show

- **store_safety.** Any interleaving of create, remove, draw, rotation, termination and teardown keeps names unique. The live canvases stay exactly the panes' canvases, each owned by one pane. This includes allocation failures and a full table. The action property `ShowsLiveCanvas` adds that every canvas `rotate_panes` hands to `rendering_show` is still allocated, because `ui_thread` frees the panes only after joining the rotation thread (ui.h 140–150).
  - `CHECK_DEADLOCK FALSE` is used because a leaked lock really does stop the system (see the findings).
  - The run has 3.6M distinct states and takes about a minute.
- **rotation_live.** The client never removes "root".
  - The rotation loop never computes `i % 0` (`RotationCountNonZero`).
  - Under weak fairness of the rotation and UI threads and of the command thread's stop:
    - every pane that stays in the store is shown infinitely often, even though removals shift indices under the counter;
    - termination always leads to the UI thread finishing.
- **display_refines.** When every flip completes before the next `show` (`VBlankBeforeNextShow`), the double buffer implements `DisplayAbstract`. The refinement mapping is:
  - the screen is the scanned-out buffer's content;
  - the queue is the pending flip's frame followed by the frame being flipped;
  - the caller is blocked while it retries on `EBUSY`.
- **drm_init.** The card has up to two connectors, CRTCs and planes in every combination (8281 initial states), and every call may fail. Every negotiation that completes:
  - picks the first connected connector with a mode, the first CRTC with a valid mode, and a primary plane that drives that CRTC;
  - still holds exactly the chosen objects, the card fd and the resources; every candidate it scanned past was freed.

- **raster_shapes.** On a BGRA canvas, with fills, rectangles inside the canvas (zero sizes, and widths past the right edge that the column clamp cuts) and circles of radius 1–2 inside the canvas, in any order:
  - no `draw_point` writes past the buffer;
  - a finished circle lies in its bounding box, reaches its four extreme points and is symmetric under both mirrors and the diagonal swap;
  - under weak fairness of the drawing loop, every circle call returns.
- The `Commands` model has no passing run. On newline-terminated lines with well-formed words, what the reader does is what its table and hooks say, and a property about it would only restate them. Every hazard of the reader is a violation: see `commands_unterminated` and `commands_colour` below, and the `MemorySafe` question about `act_circle`.

### Findings (the violation runs)

- **draw_missing_pane.** Drawing on a name the store does not hold paints the last pane and returns OK. The spec says the call returns `NoSuchPane`. (ui.c scan at ui.h:278)
- **alloc_failure_lock.** A failed `strdup` in `ui_pane_create` returns with the lock held, and then every thread blocks. Drawing into an empty store does the same.
- **teardown_race.** `ui_thread` frees the store after joining only the rotation thread. The command thread wakes on the same termination and can still call in.
- **unchecked_calls.** These failures crash the process, or leave an unmapped buffer, instead of the fatal error spec 4.1 requires:
  - the `malloc` of `rendering_ctx` (part_002:81), `drmModeGetPlaneResources`, `drmModeGetPlane` and `drmModeGetProperty` returning NULL;
  - `mmap` returning `MAP_FAILED`.
- **drm_canvas_stride.** `drm_canvas_init` sets the canvas stride to the dumb buffer's pitch, which is bytes per row. `draw_point` multiplies the pixel index by it, so the `rendering_fill` that every `ui_pane_create` does already writes past the buffer.
- **commands_unterminated.** When no whitespace follows the action word, `parse` leaves `argc`/`argv` stale (part_003:178; the `XXX` at 187). `run` then frees a garbage pointer, or the previous command's argv a second time: `p: CREATE #ff0000` then `p: REMOVE` at EOF is a double free.
- **commands_colour.** `parse_color` checks the `#` and the length 7, then calls `strtol(&in[1], NULL, 16)` with no end pointer (part_003:388). `p: CREATE #12345g` therefore creates a pane with colour `0x012345`, while section 6 gives the colour text as `#RRGGBB` in hex digits. `Documented` states the call section 6 and the usage messages give a line, and the run is the first line that differs.

### Questions TLC answers that no run keeps

Each of these is checked by changing one line of a cfg, and each is violated:
- `RotationCountNonZero` (UiPanes) with root in `RemovableNames`, as in `store_safety`: after the root and the last pane are removed, the rotation loop computes `i % 0`. Spec section 9 leaves this removal open.
- `ImplementsDisplay` with `VBlankBeforeNextShow = FALSE`: the copy overwrites the buffer the CRTC is scanning out now: the pending flip carries the front buffer, so `bufs[1 ^ front_buf_idx]` is still on screen, and the tearing happens before the flip that would report `EBUSY`.
- `PitchHoldsPixels` with `ShortPitchPossible = TRUE`: a pitch below `width * 4` is accepted; spec 4.1 calls it fatal.
- `WritesInBounds` with `Rects <- TallRects`: `draw_rect` tests `y < bottom_edge` twice and never the height (part_000:163).
- `RectMatchesSpec` with `Rects <- WideRects`: `x + w` wraps in `uint16_t`, so a wide rectangle draws nothing (part_000:161). On rectangles that do not wrap the property only restates `DrawRect`, so no run keeps it.
- `CircleShape` with `Circles <- DotCircle`: for `r = 0` the first iteration's `x--` wraps `x` and the loop draws far from the centre. Spec 8 says exactly the centre pixel.
- `CircleReturns` with `Circles <- LeftDotCircle`: a circle at `x = 0` never returns (part_000:177). Spec 8 says it terminates.
- `MemorySafe` with `CircleResults` containing a failure and a radius of 4 or more: `act_circle` prints `ui_failure_str(r)` with the full `size_t` radius, reading past `ui_failure_strs` (part_003:374).
### Bounds

- **UiPanes.** The runs use 3 slots, 3 canvases, and 4 names including root (3 for the liveness run).
  - The 4th name makes the full-table `assert` reachable.
  - 3 slots are enough to see shifting in the middle of the table, removal of the last slot and rotation over unequal counts.
  - The symmetry over non-root names and canvases is sound because no definition distinguishes them.
- **DoubleBuffer.** 4 frames, because distinct frames are what make a lost or reordered frame visible.
- **DrmInit.** `MaxObjs = 2` gives every "first one fails, second one qualifies" case for each scan.
- **Raster.** `Bits = 4` on a 6×5 canvas. With 16 coordinate values, the wraparound of every `uint16_t` expression is reachable; the rectangle inputs (x ∈ {0,2,5}, w ∈ {0,1,3,9}) reach both clamped and unclamped right edges and zero sizes, and radius 2 reaches both branches of `t2 >= 0`.
- **Commands.** `MaxCmds = 3` lines for `commands_unterminated`, because two lines are enough for the stale argc/argv to reach a later command. `commands_colour` needs one line, and its run uses 2. Garbage argc ranges over `0..MaxArgc`, 5 being the largest argc any hook accepts.

### Mutants

Each pass-run property is broken by a plausible bug:
- a teardown that frees the panes without waiting for the join;
- `Compact` without the shift, and `Remove` decrementing `count` when no pane matched;
- a rotation counter that is never incremented;
- a rotation poll that ignores cancellation;
- the front index not swapped, or incremented instead of toggled;
- `is_primary_plane` accepting any typed plane;
- a `drmModeFree*` left out;
- rectangle columns without the width clamp, a circle down-span that skips its centre column, a `y++` left out.

## 4. Fairness

`FairSpec` in `UiPanes` assumes weak fairness for five steps:
- the rotation thread's show and poll, because `poll` with a one-second timeout always returns and the lock is held only for bounded work;
- the UI thread's cancel and teardown;
- the command thread's stop, since after `term_block` returns the write and join are bounded.

The client (`Create`, `Remove`, `Draw`) and `Term` get no fairness: nothing obliges a user to send commands or to stop the server.

`DoubleBuffer`'s `FairSpec` assumes weak fairness of `Flip` and of the kernel's `VBlank`. The display refreshes periodically, and `Flip` stays enabled while the caller retries.

`Raster`'s `FairSpec` assumes weak fairness of the circle loop (`CircleStep \/ CircleDone`): a thread inside `rendering_draw_circle` keeps executing it. The callers get none.

`Commands` has no liveness property. A reader that `poll` reports readable on a partial line blocks in `fgets` until the client sends the newline, and only then sees the cancellation byte; whether shutdown completes depends on the client, not on the code (hazard at part_003:115).

## 5. Proofs

`UiPanesProofs` proves, for every value of the constants allowed by the `ASSUME`s of `UiPanes`:
- `TypeCorrect`: `Spec => []TypeOK`;
- `StoreSafety`: `Spec => []StoreInv`.

`TypeOK` is proved but is not a property of a run. No mutation of the code breaks it: the table bound is `Create`'s own `assert`, and the only counter that could leave its range is `rotI`, whose wrap is the model's device for the code's unbounded `size_t i`.

`StoreInv` (names unique, canvases owned and live) is not inductive on its own, for two reasons:
- `UiTeardown` empties `live` but not `panes`, so the invariant needs to know that `ctxFreed` holds exactly when the UI thread has exited;
- every step needs the type invariant.

The inductive invariant is therefore `IInv == TypeOK /\ StoreInv /\ LifecycleInv` with `LifecycleInv == ctxFreed = (uiPc = "exited")`. The proof shows `Init => IInv` and `IInv /\ [Next]_vars => IInv'`, with one lemma per action that touches the store (`CreateIInv`, `RemoveIInv`, `TeardownIInv`) and a frame lemma for the rest. It rests on these helper lemmas:
- `IndexOfFound`: the scan finds a present name;
- `CompactShift` and `CompactKeeps`: what the shift loop leaves in each slot;
- `ShowIndex`: `i % count + 1` is a valid slot.

`MaxPanesAssumption` and `RotPeriodAssumption` are the only facts about the constants the arithmetic needs.

`DoubleBufferProofs` proves, for every set of frames:
- `TypeCorrect`: `Spec => []TypeOK`, from the step lemma `TypeStep`;
- `ImplementsDisplaySafety`: `VBlankBeforeNextShow => (Spec => DisplayAbstract!SafetySpec)` under the refinement mapping of `display_refines`. This is the safety part of `ImplementsDisplay`.

The refinement needs the invariant `Roles`:
- a pending flip carries the front buffer;
- with no flip pending, the CRTC scans the front buffer or still the console;
- while the caller retries, no flip is pending (this conjunct needs `VBlankBeforeNextShow`).

With it, `Copy` never writes the scanned-out buffer and is the contract's `Show`, `Flip` only swaps roles (a stutter), `FlipFailed` is `Halt`, and `VBlank` is `Display`: lemmas `InitRefines` and `StepRefines`.

`DrmInitProofs` proves, for every card contents, `MaxObjs` and set of `FailingCalls`:
- `ChosenObjectsCorrect`: `Spec => []ChosenObjectsQualify`;
- `OnlyChosenObjectsHeld`: `Spec => []OnlyChosenHeld`.

Both follow from the inductive invariant `IInv == TypeOK /\ Phases`. `Phases` says, for each helper `pc` names, that the candidates scanned so far (`1..i-1`) were rejected, that the earlier choices stand, and exactly which handles are held. The properties themselves only speak about the end of negotiation, so they are not inductive. The proof has one lemma per helper (`InitCardIInv` … `CleanupIInv`), each with one case per branch, and `DieKeeps` for every fatal exit. `DrmInit` builds the card's lists with its own `Reported(S)` rather than `SequencesExt`, so the proofs module reaches no recursive operator.

`UiPanesProofs` also proves `RootKeepsRotationDefined`: `Root \notin RemovableNames => (Spec => []RotationCountNonZero)`. The hypothesis is the `rotation_live` client. When root is removable, TLC violates the property. The inductive invariant is `RootInv == IInv /\ Root \in PaneNames /\ RotationCountNonZero`, and the proof rests on two lemmas:
- `RootStays`: a create appends, and removing another name keeps root through the shift (`CompactKeeps`, `CompactShift`);
- `NoDivStep`: while root is present `count # 0`, so `RotShow`'s `div_by_zero` branch is disabled, and no other action sets that fault.

`RasterProofs` proves, for every canvas size and every coordinate width `Bits`:
- `DrawsStayInBuffer`: `InBoundsHyp => (Spec => []WritesInBounds)`.

The hypotheses state what callers must pass. TLC shows that each one is needed:
- `BgraOnly`: only `canvas_init_bgra` canvases. `drm_canvas_stride` violates the property with a DRM canvas.
- `RectsInRows`: `y + h <= height`. `TallRects` violates the property, because `draw_rect` never tests the height.
- `CirclesInside`: radius at least 1, and the circle strictly inside the canvas. `DotCircle` violates the property, because `x--` wraps at `r = 0`.

The inductive invariant is `IInv == TypeOK /\ canvas = BgraCanvas /\ LoopBounds /\ WritesInBounds`. `LoopBounds` keeps the midpoint loop's `x` in `0..r` and `y` a natural number, and requires `r <= x + y`. That last conjunct keeps the eight spans inside the circle's box while `x` shrinks and `y` grows.

The arithmetic rests on these lemmas:
- `PixelInBuffer`: a canvas pixel's four bytes lie inside a BGRA buffer (a nonlinear bound);
- `UKeeps`: `U` is the identity on the coordinate range;
- one lemma per drawing routine.

The provers treat `^` as opaque, so `Raster` assumes `PowerAssumption == 2^Bits \in Nat \ {0}`. TLC evaluates it on every run.

`UiPanesProofs` also proves two more theorems:
- `ShowsOnlyLiveCanvases`: `Spec => ShowsLiveCanvas`. The step invariant is `JoinInv == uiPc = "exited" => rotPc = "done"`: the UI thread exits only after the join. With `LifecycleInv`, a `RotShow` therefore runs while `ctxFreed` is false, when `live` is exactly the panes' canvases, and `ShowIndex` picks a slot of the table (lemma `ShowStep`).
- `LockLeaksOnlyOnFailure`: `~AllocMayFail /\ Root \notin RemovableNames => (Spec => []LockNeverLeaked)`. The code leaks the lock on two paths: the `return UI_OOM` of a failed `strdup` in `ui_pane_create`, which leaves the lock held (ui.h 216), and `ui_pane_draw` on an empty table (ui.h 285). The hypotheses close both. The proof reuses `RootInv`, so the table is never empty (lemma `LockStep`). `alloc_failure_lock` shows the first hypothesis is needed. The `RotationCountNonZero` question shows why the second is: when root is removable, the table can empty.

`RasterCircleProofs` proves `CircleDrawsItsShape`: `CirclesInside => (Spec => []CircleShape)`, for every canvas size and `Bits`. The pixels drawn are full rows, symmetric about both axes and both diagonals through the centre, and they contain the four extreme points. One iteration's spans are not symmetric about the diagonal. Row `cy ± y` is painted at width `x`, but its mirror column `cx ± y` reaches height `x` only in a later iteration, once `y` has grown. So the inductive invariant `ShapeInv` carries three facts:
- `RowsFilled`: every row strictly between `cy - y` and `cy + y` is filled across `cx - x .. cx + x`.
- Every drawn pixel is in the box, and its mirror images in x and in y are drawn.
- Every drawn pixel either has its diagonal swap drawn, or is `Pending`: its column offset lies in `y..x` and its row is strictly inside the rows still to come.

When the loop ends (`x < y`), nothing is pending, so `CircleShape` follows. `SpansChar` states which points the eight spans of one iteration cover, and `IterSwap` and `IterMirror` state that an iteration's spans are closed under mirroring and, outside the pending band, under the swap.

`DrmInitProofs` also proves `CheckedFailuresAreFatal`: `FailingCalls \cap Unchecked = {} => (Spec => []CallFailuresAreFatal)`. `Unchecked` is the five calls whose result drm.c does not check: the `malloc` of `rendering_ctx`, `drmModeGetPlaneResources`, `drmModeGetPlane`, `drmModeGetProperty` and `mmap`. If none of them fails, every failure is a `FATAL_ERR` and never a crash, and a ready backend has both buffers mapped. `unchecked_calls` violates the property when they can fail. The inductive invariant `MapInv` records that every buffer `init_buf` has passed is mapped (lemma `MapStep`).

### Model-checked only

- Liveness (`RotationFairness`, `ShutdownCompletes`, `CircleReturns`) and the fairness part of `ImplementsDisplay`. Fairness and `ENABLED` are beyond TLAPS.
- The theorems above cover only the inputs their hypotheses allow. Outside those inputs, the results are TLC's violation runs.

## 6. Not modelled

- The characters of a command line: `Commands` works on lines abstracted to their parts, so `eat_whitespace`'s and the word loops' character handling is not modelled.
- `canvas_deinit` (a free), the older `canvas_init` and the colour values of the rasterizer.
- The older DRM backend in `rendering.c` (superseded by `backends/drm.c`), `canvas.h` (declarations), `tests.nix`, and `drm_rendering_ctx_log` (output only).
- `ui_ctx_new` never assigns `ctx->vt`. The models assume the DRM functions are called, because a call through an indeterminate pointer has no outcome to enumerate.

## 7. Plan for later work

1. Compose `UiPanes` with `DoubleBuffer`. `RotShow` becomes a `show` that may block on `EBUSY` while holding the store lock, which raises the question of command latency and deadlock.
2. Compose `Commands` with `UiPanes`, so that a line's call acts on the store: the draw on an empty store would then be reached by commands alone.
3. A reader blocked in `fgets` on a partial line, with a liveness property for cancellation.
