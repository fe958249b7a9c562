------------------------- MODULE DoubleBufferProofs -------------------------
(***************************************************************************)
(* Proofs about drm_rendering_show (DoubleBuffer): the type invariant for  *)
(* every set of frames, and, when every flip completes before the next    *)
(* show is called, the safety part of the refinement of DisplayAbstract.  *)
(***************************************************************************)
EXTENDS DoubleBuffer, TLAPS

(* The buffer roles after the flip the kernel has accepted: a pending flip *)
(* carries the front buffer; with no flip pending the CRTC scans the front *)
(* buffer or still the console; and while the caller is in its retry loop *)
(* no flip is pending.  The last conjunct needs VBlankBeforeNextShow.      *)
Roles ==
  /\ pending # None => pending = front
  /\ pending = None => scanout \in {None, front}
  /\ showPc = "flip" => pending = None

IInv == TypeOK /\ Roles

-----------------------------------------------------------------------------
(* Every step of show, of the kernel or of the fatal exit keeps the types. *)
LEMMA TypeStep == TypeOK /\ [Next]_vars => TypeOK'
<1> SUFFICES ASSUME TypeOK, [Next]_vars PROVE TypeOK'
  OBVIOUS
<1>1. ASSUME NEW f \in Frames, Copy(f) PROVE TypeOK'
  BY <1>1 DEF Copy, TypeOK, Back, Buffers
<1>2. CASE Flip
  BY <1>2 DEF Flip, TypeOK, Back, NextFront, Buffers
<1>3. CASE FlipFailed
  BY <1>3 DEF FlipFailed, TypeOK
<1>4. CASE VBlank
  BY <1>4 DEF VBlank, TypeOK
<1>5. CASE (fatal /\ UNCHANGED vars) \/ UNCHANGED vars
  BY <1>5 DEF vars, TypeOK
<1>6. QED
  BY <1>1, <1>2, <1>3, <1>4, <1>5 DEF Next

(* drm_rendering_show keeps front_buf_idx a buffer index and every buffer  *)
(* holding a frame, whatever the kernel answers.                           *)
THEOREM TypeCorrect == Spec => []TypeOK
<1>1. Init => TypeOK
  BY FrameAssumption DEF Init, TypeOK, Buffers
<1>2. QED
  BY <1>1, TypeStep, PTL DEF Spec

(* With every flip completing before the next show, the roles above hold   *)
(* in every state: show never copies into the buffer being scanned out.    *)
LEMMA RolesInvariant == VBlankBeforeNextShow => (Spec => []IInv)
<1> SUFFICES ASSUME VBlankBeforeNextShow PROVE Spec => []IInv
  OBVIOUS
<1>1. Init => IInv
  BY FrameAssumption DEF Init, IInv, TypeOK, Roles, Buffers
<1>2. IInv /\ [Next]_vars => IInv'
  <2> SUFFICES ASSUME IInv, [Next]_vars PROVE Roles'
    BY TypeStep DEF IInv
  <2>1. ASSUME NEW f \in Frames, Copy(f) PROVE Roles'
    BY <2>1 DEF Copy, IInv, Roles
  <2>2. CASE Flip
    BY <2>2, FrameAssumption DEF Flip, IInv, TypeOK, Roles, Back, NextFront, Buffers
  <2>3. CASE FlipFailed
    BY <2>3 DEF FlipFailed, IInv, Roles
  <2>4. CASE VBlank
    BY <2>4, FrameAssumption DEF VBlank, IInv, TypeOK, Roles, Buffers
  <2>5. CASE (fatal /\ UNCHANGED vars) \/ UNCHANGED vars
    BY <2>5 DEF vars, IInv, Roles
  <2>6. QED
    BY <2>1, <2>2, <2>3, <2>4, <2>5 DEF Next
<1>3. QED
  BY <1>1, <1>2, PTL DEF Spec

-----------------------------------------------------------------------------
(* The initial state of the backend is the contract's: the console on      *)
(* screen, no frame queued, the caller free.                                *)
LEMMA InitRefines == Init => Abstract!Init
BY DEF Init, Abstract!Init, Screen, Queued, Caller

(* Each step of the backend is a step of the contract or leaves the        *)
(* contract's view unchanged: copy is show(f), an accepted flip only swaps *)
(* roles, a failed flip is the fatal exit, and the vertical blank displays *)
(* the queued frame.                                                        *)
LEMMA StepRefines ==
  VBlankBeforeNextShow /\ IInv /\ [Next]_vars => [Abstract!Next]_Abstract!vars
<1> SUFFICES ASSUME VBlankBeforeNextShow, IInv, [Next]_vars
             PROVE  [Abstract!Next]_Abstract!vars
  OBVIOUS
<1>1. ASSUME NEW f \in Frames, Copy(f) PROVE Abstract!Show(f)
  <2>1. pending = None /\ showPc = "idle" /\ pending' = None /\ showPc' = "flip"
    BY <1>1 DEF Copy
  <2>2. Queued = <<>> /\ Queued' = <<f>>
    BY <1>1, <2>1, FrameAssumption DEF Copy, Queued, IInv, TypeOK, Back, Buffers
  <2>3. Screen' = Screen
    BY <1>1, <2>1, FrameAssumption DEF Copy, Screen, IInv, TypeOK, Roles, Back, Buffers
  <2>4. Caller = "idle" /\ Caller' = "idle"
    BY <2>1 DEF Caller
  <2>5. QED
    BY <1>1, <2>2, <2>3, <2>4 DEF Copy, Abstract!Show
<1>2. CASE Flip
  BY <1>2, FrameAssumption
     DEF Flip, Abstract!vars, Screen, Queued, Caller, IInv, TypeOK, Back, NextFront, Buffers
<1>3. CASE FlipFailed
  <2>1. Abstract!Halt
    BY <1>3 DEF FlipFailed, Abstract!Halt, Screen, Queued, Caller, Back
  <2>2. QED
    BY <2>1 DEF Abstract!Next
<1>4. CASE VBlank
  <2>1. showPc = "idle"
    BY <1>4 DEF VBlank, IInv, Roles, TypeOK
  <2>2. Queued = <<content[pending]>> /\ Queued' = <<>>
    BY <1>4, <2>1 DEF VBlank, Queued
  <2>3. Screen' = content[pending] /\ Caller' = "idle"
    BY <1>4, FrameAssumption DEF VBlank, Screen, Caller, IInv, TypeOK, Buffers
  <2>4. QED
    BY <1>4, <2>2, <2>3 DEF VBlank, Abstract!Next, Abstract!Display
<1>5. CASE (fatal /\ UNCHANGED vars) \/ UNCHANGED vars
  <2>1. UNCHANGED Abstract!vars
    BY <1>5 DEF vars, Abstract!vars, Screen, Queued, Caller, Back
  <2>2. QED
    BY <2>1
<1>6. QED
  BY <1>1, <1>2, <1>3, <1>4, <1>5 DEF Next, Abstract!Next

(* When every page flip completes before the next show, drm_rendering_show *)
(* implements the safety part of the display contract: the monitor shows  *)
(* only frames handed to show, in order, and never a buffer being          *)
(* overwritten.  (The fairness part is left to TLC.)                        *)
THEOREM ImplementsDisplaySafety ==
  VBlankBeforeNextShow => (Spec => Abstract!SafetySpec)
<1> SUFFICES ASSUME VBlankBeforeNextShow PROVE Spec => Abstract!SafetySpec
  OBVIOUS
<1>1. Spec => []IInv
  BY RolesInvariant
<1>2. QED
  BY <1>1, InitRefines, StepRefines, PTL DEF Spec, Abstract!SafetySpec
====
