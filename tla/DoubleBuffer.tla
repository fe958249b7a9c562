---------------------------- MODULE DoubleBuffer ----------------------------
(***************************************************************************)
(* drm_rendering_show of the DRM backend (src/unnamed/part_002, the        *)
(* backends/drm.c part) against an asynchronous page flip.                 *)
(*                                                                         *)
(* Two dumb buffers; front_buf_idx names the one software calls front.     *)
(* show copies the canvas into the other one (the back buffer), then asks *)
(* the kernel to flip to it, retrying while the kernel answers EBUSY, and *)
(* swaps the roles as soon as the request is accepted.  The kernel keeps  *)
(* at most one flip pending and performs it at the next vertical blank:   *)
(* only then does the CRTC scan the new buffer out.                        *)
(***************************************************************************)
EXTENDS Naturals, Sequences

CONSTANTS
  Frames,               \* canvases the caller shows (abstract contents)
  Console,              \* what the CRTC scans out before the first flip
  None,
  VBlankBeforeNextShow  \* a flip always completes before the next show

ASSUME FrameAssumption == Console \notin Frames /\ None \notin Frames \cup {0, 1}
ASSUME VBlankAssumption == VBlankBeforeNextShow \in BOOLEAN

Buffers == {0, 1}

VARIABLES
  front,    \* ctx->front_buf_idx
  content,  \* content[b]: the frame last copied into bufs[b].data
  scanout,  \* the buffer the CRTC is scanning out, or None (the console)
  pending,  \* the buffer of the flip the kernel has queued, or None
  showPc,   \* the caller: "idle", or "flip" inside the EBUSY retry loop
  fatal     \* FATAL_ERR was reached

vars == <<front, content, scanout, pending, showPc, fatal>>

Back == 1 - front

(* What the monitor shows.                                                 *)
Screen == IF scanout = None THEN Console ELSE content[scanout]

(* rendering_init leaves front_buf_idx = 0 and the CRTC on its old buffer; *)
(* dumb buffers come zero-filled, shown here as Console.                   *)
Init ==
  /\ front = 0
  /\ content = [b \in Buffers |-> Console]
  /\ scanout = None
  /\ pending = None
  /\ showPc = "idle"
  /\ fatal = FALSE

(* show, first half: memcpy(back.data, c->buffer, back.size).             *)
Copy(f) ==
  /\ ~fatal /\ showPc = "idle"
  /\ VBlankBeforeNextShow => pending = None
  /\ content' = [content EXCEPT ![Back] = f]
  /\ showPc' = "flip"
  /\ UNCHANGED <<front, scanout, pending, fatal>>

(* Mutant: the role swap front_buf_idx ^= 1 is left out.                   *)
NextFrontUnswapped == front
(* Mutant: front_buf_idx += 1 instead of ^= 1.                             *)
NextFrontIncremented == front + 1

(* front_buf_idx ^= 1.                                                     *)
NextFront == 1 - front

(* drmModePageFlip accepted (no flip pending): the roles swap at once.     *)
(* While a flip is pending the kernel answers EBUSY and the loop retries,  *)
(* which changes nothing: the step is simply not enabled.                  *)
Flip ==
  /\ ~fatal /\ showPc = "flip" /\ pending = None
  /\ pending' = Back
  /\ front' = NextFront
  /\ showPc' = "idle"
  /\ UNCHANGED <<content, scanout, fatal>>

(* drmModePageFlip failed with anything but EBUSY: FATAL_ERR.              *)
FlipFailed ==
  /\ ~fatal /\ showPc = "flip"
  /\ fatal' = TRUE
  /\ UNCHANGED <<front, content, scanout, pending, showPc>>

(* The kernel completes the pending flip at the vertical blank.            *)
VBlank ==
  /\ ~fatal /\ pending # None
  /\ scanout' = pending
  /\ pending' = None
  /\ UNCHANGED <<front, content, showPc, fatal>>

Next ==
  \/ \E f \in Frames : Copy(f)
  \/ Flip \/ FlipFailed \/ VBlank
  \/ fatal /\ UNCHANGED vars

Spec == Init /\ [][Next]_vars

(* The show loop is a busy retry that runs whenever the kernel lets it,    *)
(* and the hardware blanks every frame.                                    *)
FairSpec == Spec /\ WF_vars(Flip) /\ WF_vars(VBlank)

-----------------------------------------------------------------------------
(* Each buffer index is 0 or 1 and each buffer holds a frame.             *)
TypeOK ==
  /\ front \in Buffers
  /\ content \in [Buffers -> Frames \cup {Console}]
  /\ scanout \in Buffers \cup {None}
  /\ pending \in Buffers \cup {None}
  /\ showPc \in {"idle", "flip"}
  /\ fatal \in BOOLEAN

(* The frames accepted by show and not yet on screen: the one the pending  *)
(* flip carries, then the one copied by a caller still in its retry loop.  *)
Queued ==
  (IF pending = None THEN <<>> ELSE <<content[pending]>>)
  \o (IF showPc = "flip" THEN <<content[Back]>> ELSE <<>>)

(* The caller is blocked when its frame waits behind a pending flip.       *)
Caller == IF showPc = "flip" /\ pending # None THEN "blocked" ELSE "idle"

Abstract == INSTANCE DisplayAbstract
              WITH screen <- Screen, queue <- Queued, caller <- Caller,
                   halted <- fatal, Initial <- Console

(* drm_rendering_show implements the display contract: the monitor shows   *)
(* every frame handed to show, whole and in order, and never a buffer that *)
(* is being overwritten.                                                   *)
ImplementsDisplay == Abstract!Spec

=============================================================================
