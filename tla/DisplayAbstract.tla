-------------------------- MODULE DisplayAbstract --------------------------
(***************************************************************************)
(* What the display backend promises its single caller (spec 4.1): every *)
(* frame handed to show is displayed, in the order given and whole, and   *)
(* show blocks only while an earlier frame is still waiting for the       *)
(* screen.  queue holds the frames accepted but not yet on screen.  A     *)
(* fatal error may end the process at any time.                           *)
(***************************************************************************)
EXTENDS Sequences

CONSTANTS Frames, Initial

VARIABLES screen, queue, caller, halted

vars == <<screen, queue, caller, halted>>

Init ==
  /\ screen = Initial
  /\ queue = <<>>
  /\ caller = "idle"
  /\ halted = FALSE

(* show(f) is called: f is queued; the caller stays blocked if another     *)
(* frame is still ahead of it.                                             *)
Show(f) ==
  /\ ~halted /\ caller = "idle"
  /\ halted = FALSE
  /\ queue' = Append(queue, f)
  /\ caller' = IF queue = <<>> THEN "idle" ELSE "blocked"
  /\ UNCHANGED <<screen, halted>>

(* The screen moves on to the oldest queued frame.                         *)
Display ==
  /\ ~halted /\ queue # <<>>
  /\ screen' = Head(queue)
  /\ queue' = Tail(queue)
  /\ caller' = "idle"
  /\ UNCHANGED halted

(* The process dies: nothing is shown any more.                            *)
Halt ==
  /\ ~halted
  /\ halted' = TRUE
  /\ UNCHANGED <<screen, queue, caller>>

Next == (\E f \in Frames : Show(f)) \/ Display \/ Halt

(* The safety part: the steps the backend may take.                       *)
SafetySpec == Init /\ [][Next]_vars

(* Queued frames reach the screen unless the process dies.                 *)
Spec == Init /\ [][Next]_vars /\ WF_vars(Display)

=============================================================================
