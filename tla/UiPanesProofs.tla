--------------------------- MODULE UiPanesProofs ---------------------------
(***************************************************************************)
(* Proofs about UiPanes for every value of the constants: the type         *)
(* invariant, and the ownership of names and canvases by the pane table.   *)
(***************************************************************************)
EXTENDS UiPanes, TLAPS

(* ctx is freed exactly when ui_thread has finished its teardown.          *)
LifecycleInv == ctxFreed = (uiPc = "exited")

(* The inductive strengthening of StoreInv.                                *)
IInv == TypeOK /\ StoreInv /\ LifecycleInv

-----------------------------------------------------------------------------
(* The scan of ui.c finds a pane named n whenever there is one.            *)
LEMMA IndexOfFound ==
  ASSUME TypeOK, NEW n, n \in PaneNames
  PROVE  IndexOf(n) \in 1..count /\ panes[IndexOf(n)].name = n
BY DEF IndexOf, PaneNames

(* i++ modulo RotPeriod stays a residue.                                   *)
LEMMA NextRotIType ==
  ASSUME rotI \in 0..(RotPeriod - 1)
  PROVE  NextRotI \in 0..(RotPeriod - 1)
BY RotPeriodAssumption DEF NextRotI

(* i % count + 1 is an index of the table when it is not empty.            *)
LEMMA ShowIndex ==
  ASSUME TypeOK, count > 0
  PROVE  (rotI % count) + 1 \in 1..count
BY DEF TypeOK

-----------------------------------------------------------------------------
(* Blank, the root pane and any named pane are table entries.             *)
LEMMA SlotValues ==
  /\ Blank \in Slot
  /\ \A n \in Names, c \in Canvases : [name |-> n, cv |-> c] \in Slot
BY DEF Blank, Slot

LEMMA InitTypeOK == Init => TypeOK
<1> SUFFICES ASSUME Init PROVE TypeOK
  OBVIOUS
<1>1. PICK c0 \in Canvases :
        /\ count = 1
        /\ panes = [j \in Slots |-> IF j = 1 THEN [name |-> Root, cv |-> c0] ELSE Blank]
        /\ live = {c0}
        /\ foreign = [c \in Canvases |-> FALSE]
  BY DEF Init
<1>2. panes \in [Slots -> Slot]
  BY <1>1, SlotValues, NamesAssumption
<1>3. count \in 0..MaxPanes
  BY <1>1, MaxPanesAssumption
<1>4. rotI \in 0..(RotPeriod - 1) /\ shown \in Slot
  BY RotPeriodAssumption, SlotValues DEF Init
<1>5. QED
  BY <1>1, <1>2, <1>3, <1>4 DEF Init, TypeOK, Faults

LEMMA NextTypeOK == TypeOK /\ [Next]_vars => TypeOK'
<1> SUFFICES ASSUME TypeOK, [Next]_vars PROVE TypeOK'
  OBVIOUS
<1>1. ASSUME NEW n \in Names, Create(n) PROVE TypeOK'
  <2>1. CASE UNCHANGED vars
    BY <2>1 DEF vars, TypeOK
  <2>2. CASE fault' = "abort" /\ UNCHANGED storeVars /\ CmdUnchanged
    BY <2>2 DEF storeVars, CmdUnchanged, TypeOK, Faults
  <2>3. CASE /\ \/ lockHolder' = "cmd" /\ UNCHANGED fault
                \/ fault' = "segv" /\ UNCHANGED lockHolder
             /\ UNCHANGED storeVars
             /\ UNCHANGED <<rotPc, rotI, shown, uiPc, cmdPc, term, cancelPipe, ctxFreed>>
    BY <2>3 DEF storeVars, TypeOK, Faults
  <2>4. CASE /\ count < MaxPanes
             /\ \E c \in Canvases \ live :
                  /\ panes' = [panes EXCEPT ![count + 1] = [name |-> n, cv |-> c]]
                  /\ live' = live \cup {c}
                  /\ foreign' = [foreign EXCEPT ![c] = FALSE]
             /\ count' = count + 1
             /\ UNCHANGED fault /\ CmdUnchanged
    <3>1. PICK c \in Canvases \ live :
                  /\ panes' = [panes EXCEPT ![count + 1] = [name |-> n, cv |-> c]]
                  /\ live' = live \cup {c}
                  /\ foreign' = [foreign EXCEPT ![c] = FALSE]
      BY <2>4
    <3>2. count + 1 \in Slots /\ count' \in 0..MaxPanes
      BY <2>4, MaxPanesAssumption DEF TypeOK, Slots
    <3>3. panes' \in [Slots -> Slot]
      BY <3>1, <3>2, SlotValues DEF TypeOK
    <3>4. QED
      BY <2>4, <3>1, <3>2, <3>3 DEF CmdUnchanged, TypeOK
  <2>5. QED
    BY <1>1, <2>1, <2>2, <2>3, <2>4 DEF Create
<1>2. ASSUME NEW n \in Names, Draw(n) PROVE TypeOK'
  BY <1>2 DEF Draw, CmdReady, CmdUnchanged, storeVars, TypeOK
<1>3. ASSUME NEW n \in RemovableNames, Remove(n) PROVE TypeOK'
  <2>1. CASE n \notin PaneNames
    BY <1>3, <2>1 DEF Remove, vars, TypeOK
  <2>2. CASE n \in PaneNames
    <3>1. IndexOf(n) \in 1..count
      BY <2>2, IndexOfFound
    <3>2. Compact(IndexOf(n)) \in [Slots -> Slot]
      <4>1. \A j \in Slots : j < count => j + 1 \in Slots
        BY MaxPanesAssumption DEF TypeOK, Slots
      <4>2. QED
        BY <4>1 DEF Compact, TypeOK
    <3>3. count' \in 0..MaxPanes
      BY <1>3, <2>2, <3>1, MaxPanesAssumption DEF Remove, TypeOK
    <3>4. QED
      BY <1>3, <2>2, <3>2, <3>3 DEF Remove, CmdUnchanged, TypeOK, PaneNames
  <2>3. QED
    BY <2>1, <2>2
<1>4. CASE CmdAfterTeardown \/ CmdStop \/ Term \/ UiCancel \/ UiTeardown
  BY <1>4 DEF CmdAfterTeardown, CmdStop, Term, UiCancel, UiTeardown,
              CmdUnchanged, storeVars, TypeOK, Faults
<1>5. CASE RotShow
  <2>1. CASE count = 0
    BY <1>5, <2>1 DEF RotShow, TypeOK, Faults
  <2>2. CASE count > 0
    <3>1. panes[(rotI % count) + 1] \in Slot
      BY <2>2, ShowIndex, MaxPanesAssumption DEF TypeOK, Slots
    <3>2. QED
      BY <1>5, <2>2, <3>1 DEF RotShow, TypeOK
  <2>3. QED
    BY <2>1, <2>2 DEF TypeOK
<1>6. CASE RotPoll
  BY <1>6, NextRotIType DEF RotPoll, TypeOK
<1>7. CASE (Stopped /\ UNCHANGED vars) \/ UNCHANGED vars
  BY <1>7 DEF vars, TypeOK
<1>8. QED
  BY <1>1, <1>2, <1>3, <1>4, <1>5, <1>6, <1>7 DEF Next

(* The variables always have the types TypeOK gives them.                  *)
THEOREM TypeCorrect == Spec => []TypeOK
BY InitTypeOK, NextTypeOK, PTL DEF Spec

-----------------------------------------------------------------------------
(* Entry i of the compacted table is entry i or i + 1 of the old one.      *)
LEMMA CompactShift ==
  ASSUME TypeOK, NEW k \in 1..count, NEW i \in 1..(count - 1)
  PROVE  /\ Compact(k)[i] = panes[IF i < k THEN i ELSE i + 1]
         /\ (IF i < k THEN i ELSE i + 1) \in 1..count
         /\ (IF i < k THEN i ELSE i + 1) # k
BY MaxPanesAssumption DEF Compact, TypeOK, Slots

(* Every entry but k survives the compaction.                              *)
LEMMA CompactKeeps ==
  ASSUME TypeOK, NEW k \in 1..count, NEW j \in 1..count, j # k
  PROVE  \E i \in 1..(count - 1) : (IF i < k THEN i ELSE i + 1) = j
<1>1. CASE j < k
  BY <1>1 DEF TypeOK
<1>2. CASE j > k
  <2>1. j - 1 \in 1..(count - 1) /\ ~(j - 1 < k)
    BY <1>2, MaxPanesAssumption DEF TypeOK
  <2>2. QED
    BY <2>1
<1>3. QED
  BY <1>1, <1>2 DEF TypeOK

LEMMA InitIInv == Init => IInv
<1> SUFFICES ASSUME Init PROVE IInv
  OBVIOUS
<1>1. PICK c0 \in Canvases :
        /\ count = 1
        /\ panes = [j \in Slots |-> IF j = 1 THEN [name |-> Root, cv |-> c0] ELSE Blank]
        /\ live = {c0}
  BY DEF Init
<1>2. 1 \in Slots /\ panes[1] = [name |-> Root, cv |-> c0]
  BY <1>1, MaxPanesAssumption DEF Slots
<1>3. PaneCanvases = {c0}
  BY <1>1, <1>2 DEF PaneCanvases
<1>4. QED
  <2>1. NamesUnique
    BY <1>1, <1>2, NamesAssumption DEF NamesUnique
  <2>2. CanvasOwnership
    BY <1>1, <1>2, <1>3 DEF Init, CanvasOwnership
  <2>3. LifecycleInv
    BY DEF Init, LifecycleInv
  <2>4. QED
    BY <2>1, <2>2, <2>3, InitTypeOK DEF IInv, StoreInv

(* A step that leaves the table, the canvases and ctx alone keeps IInv.    *)
LEMMA StoreFrame ==
  ASSUME IInv, TypeOK',
         UNCHANGED <<count, panes, live, ctxFreed, uiPc>>
  PROVE  IInv'
BY DEF IInv, StoreInv, NamesUnique, CanvasOwnership, LifecycleInv, PaneCanvases

LEMMA CreateIInv ==
  ASSUME IInv, NEW n \in Names, Create(n)
  PROVE  IInv'
<1>1. TypeOK'
  BY NextTypeOK DEF IInv, Next
<1>2. ~ctxFreed /\ live = PaneCanvases
  <2>1. ~ctxFreed
    BY DEF Create, CmdReady
  <2>2. QED
    BY <2>1 DEF IInv, StoreInv, CanvasOwnership
<1>3. CASE UNCHANGED vars \/ (UNCHANGED storeVars /\ CmdUnchanged)
  BY <1>1, <1>3, StoreFrame DEF vars, storeVars, CmdUnchanged
<1>4. CASE /\ \/ lockHolder' = "cmd" /\ UNCHANGED fault
              \/ fault' = "segv" /\ UNCHANGED lockHolder
           /\ UNCHANGED storeVars
           /\ UNCHANGED <<rotPc, rotI, shown, uiPc, cmdPc, term, cancelPipe, ctxFreed>>
  BY <1>1, <1>4, StoreFrame DEF storeVars
<1>5. CASE /\ n \notin PaneNames /\ count < MaxPanes
           /\ \E c \in Canvases \ live :
                /\ panes' = [panes EXCEPT ![count + 1] = [name |-> n, cv |-> c]]
                /\ live' = live \cup {c}
                /\ foreign' = [foreign EXCEPT ![c] = FALSE]
           /\ count' = count + 1
           /\ UNCHANGED fault /\ CmdUnchanged
  <2>1. PICK c \in Canvases \ live :
                /\ panes' = [panes EXCEPT ![count + 1] = [name |-> n, cv |-> c]]
                /\ live' = live \cup {c}
    BY <1>5
  <2>2. /\ count + 1 \in Slots
        /\ panes'[count + 1] = [name |-> n, cv |-> c]
        /\ \A j \in 1..count : panes'[j] = panes[j]
    BY <2>1, <1>5, MaxPanesAssumption DEF IInv, TypeOK, Slots
  <2>3. \A j \in 1..count : panes[j].name # n /\ panes[j].cv # c
    BY <1>2, <1>5, <2>1 DEF PaneNames, PaneCanvases
  <2>4. NamesUnique'
    BY <1>5, <2>1, <2>2, <2>3 DEF IInv, TypeOK, StoreInv, NamesUnique
  <2>5. \A i, j \in 1..count' : panes'[i].cv = panes'[j].cv => i = j
    BY <1>5, <2>2, <2>3 DEF IInv, TypeOK, StoreInv, CanvasOwnership
  <2>6. live' = PaneCanvases'
    <3>1. PaneCanvases' = PaneCanvases \cup {c}
      BY <1>5, <2>2 DEF IInv, TypeOK, PaneCanvases
    <3>2. QED
      BY <1>2, <2>1, <3>1
  <2>7. QED
    BY <1>1, <1>2, <1>5, <2>4, <2>5, <2>6
       DEF IInv, StoreInv, CanvasOwnership, LifecycleInv, CmdUnchanged
<1>6. QED
  BY <1>3, <1>4, <1>5 DEF Create

LEMMA RemoveIInv ==
  ASSUME IInv, NEW n \in RemovableNames, Remove(n)
  PROVE  IInv'
<1>1. TypeOK'
  BY NextTypeOK DEF IInv, Next
<1>2. ~ctxFreed /\ live = PaneCanvases /\ TypeOK
  <2>1. ~ctxFreed
    BY DEF Remove, CmdReady
  <2>2. QED
    BY <2>1 DEF IInv, StoreInv, CanvasOwnership
<1>3. CASE n \notin PaneNames
  BY <1>1, <1>3, StoreFrame DEF Remove, vars
<1>4. CASE n \in PaneNames
  <2> DEFINE k == IndexOf(n)
             s(i) == IF i < k THEN i ELSE i + 1
  <2>1. k \in 1..count
    BY <1>2, <1>4, IndexOfFound
  <2>2. /\ live' = live \ {panes[k].cv}
        /\ panes' = Compact(k)
        /\ count' = count - 1
        /\ UNCHANGED <<ctxFreed, uiPc>>
    BY <1>4 DEF Remove, CmdUnchanged
  <2>3. \A i \in 1..count' : panes'[i] = panes[s(i)] /\ s(i) \in 1..count /\ s(i) # k
    BY <1>2, <2>1, <2>2, CompactShift
  <2>4. \A i, j \in 1..count' : s(i) = s(j) => i = j
    BY <2>1, <2>2, <1>2 DEF TypeOK
  <2>5. NamesUnique'
    BY <2>3, <2>4 DEF IInv, StoreInv, NamesUnique
  <2>6. \A i, j \in 1..count' : panes'[i].cv = panes'[j].cv => i = j
    BY <2>3, <2>4 DEF IInv, StoreInv, CanvasOwnership
  <2>7. PaneCanvases' = PaneCanvases \ {panes[k].cv}
    <3>1. ASSUME NEW i \in 1..count' PROVE panes'[i].cv \in PaneCanvases \ {panes[k].cv}
      BY <2>1, <2>3, <1>2 DEF IInv, StoreInv, CanvasOwnership, PaneCanvases
    <3>2. ASSUME NEW j \in 1..count, j # k PROVE \E i \in 1..count' : panes'[i].cv = panes[j].cv
      <4>1. PICK i \in 1..(count - 1) : s(i) = j
        BY <1>2, <2>1, <3>2, CompactKeeps
      <4>2. QED
        BY <2>2, <2>3, <4>1
    <3>3. QED
      BY <3>1, <3>2, <2>2 DEF PaneCanvases
  <2>8. QED
    BY <1>1, <1>2, <2>2, <2>5, <2>6, <2>7
       DEF IInv, StoreInv, CanvasOwnership, LifecycleInv
<1>5. QED
  BY <1>3, <1>4

LEMMA TeardownIInv ==
  ASSUME IInv, UiTeardown
  PROVE  IInv'
<1>1. TypeOK'
  BY NextTypeOK DEF IInv, Next
<1>2. live = PaneCanvases
  BY DEF UiTeardown, IInv, StoreInv, LifecycleInv, CanvasOwnership
<1>3. QED
  BY <1>1, <1>2 DEF UiTeardown, IInv, StoreInv, NamesUnique, CanvasOwnership,
                    LifecycleInv, PaneCanvases

LEMMA NextIInv == IInv /\ [Next]_vars => IInv'
<1> SUFFICES ASSUME IInv, [Next]_vars PROVE IInv'
  OBVIOUS
<1>1. TypeOK'
  BY NextTypeOK DEF IInv
<1>2. ASSUME NEW n \in Names, Create(n) PROVE IInv'
  BY <1>2, CreateIInv
<1>3. ASSUME NEW n \in RemovableNames, Remove(n) PROVE IInv'
  BY <1>3, RemoveIInv
<1>4. ASSUME NEW n \in Names, Draw(n) PROVE IInv'
  BY <1>1, <1>4, StoreFrame DEF Draw, storeVars, CmdUnchanged
<1>5. CASE UiTeardown
  BY <1>5, TeardownIInv
<1>6. CASE CmdAfterTeardown \/ CmdStop \/ RotShow \/ RotPoll \/ Term
  BY <1>1, <1>6, StoreFrame
     DEF CmdAfterTeardown, CmdStop, RotShow, RotPoll, Term, storeVars, CmdUnchanged
<1>7. CASE UiCancel
  BY <1>1, <1>7 DEF UiCancel, IInv, StoreInv, NamesUnique, CanvasOwnership,
                    LifecycleInv, PaneCanvases
<1>8. CASE UNCHANGED vars
  BY <1>1, <1>8, StoreFrame DEF vars
<1>9. QED
  BY <1>2, <1>3, <1>4, <1>5, <1>6, <1>7, <1>8 DEF Next

(* Pane names stay unique and every live canvas belongs to exactly one     *)
(* pane until teardown frees them all, for any table size and any client.  *)
THEOREM StoreSafety == Spec => []StoreInv
<1>1. IInv => StoreInv
  BY DEF IInv
<1>2. QED
  BY InitIInv, NextIInv, <1>1, PTL DEF Spec

-----------------------------------------------------------------------------
(* The root pane ui_ctx_new creates stays in the table.                    *)
RootInv == IInv /\ Root \in PaneNames /\ RotationCountNonZero

(* ui_ctx_new starts the table with the root pane alone.                  *)
LEMMA InitRoot == Init => RootInv
<1> SUFFICES ASSUME Init PROVE RootInv
  OBVIOUS
<1>1. PICK c0 \in Canvases :
        /\ count = 1
        /\ panes = [j \in Slots |-> IF j = 1 THEN [name |-> Root, cv |-> c0] ELSE Blank]
  BY DEF Init
<1>2. 1 \in Slots
  BY MaxPanesAssumption DEF Slots
<1>3. Root \in PaneNames
  BY <1>1, <1>2 DEF PaneNames
<1>4. QED
  BY <1>3, InitIInv DEF RootInv, Init, RotationCountNonZero

(* A client that never removes "root" leaves it in the table: creates     *)
(* append, and remove's shift keeps every pane but the one it frees.       *)
LEMMA RootStays ==
  ASSUME Root \notin RemovableNames, IInv, Root \in PaneNames, [Next]_vars
  PROVE  Root \in PaneNames'
<1>0. TypeOK /\ NamesUnique
  BY DEF IInv, StoreInv
<1>1. PICK j \in 1..count : panes[j].name = Root
  BY DEF PaneNames
<1>2. ASSUME NEW n \in Names, Create(n) PROVE Root \in PaneNames'
  <2>1. CASE UNCHANGED <<count, panes>>
    BY <2>1 DEF PaneNames
  <2>2. CASE /\ count' = count + 1 /\ count < MaxPanes
             /\ \E c \in Canvases \ live :
                  panes' = [panes EXCEPT ![count + 1] = [name |-> n, cv |-> c]]
    <3>1. PICK c \in Canvases \ live :
                  panes' = [panes EXCEPT ![count + 1] = [name |-> n, cv |-> c]]
      BY <2>2
    <3>2. j \in 1..count' /\ panes'[j] = panes[j]
      BY <1>0, <2>2, <3>1, MaxPanesAssumption DEF TypeOK, Slots
    <3>3. QED
      BY <1>1, <3>2 DEF PaneNames
  <2>3. QED
    BY <1>2, <2>1, <2>2 DEF Create, vars, storeVars
<1>3. ASSUME NEW n \in RemovableNames, Remove(n) PROVE Root \in PaneNames'
  <2>1. CASE n \notin PaneNames
    BY <1>3, <2>1 DEF Remove, vars, PaneNames
  <2>2. CASE n \in PaneNames
    <3> DEFINE k == IndexOf(n)
    <3>1. k \in 1..count /\ panes[k].name = n /\ n # Root
      BY <1>0, <1>3, <2>2, IndexOfFound, NamesAssumption
    <3>2. j # k
      BY <1>1, <3>1
    <3>3. PICK i \in 1..(count - 1) : (IF i < k THEN i ELSE i + 1) = j
      BY <1>0, <3>1, <3>2, CompactKeeps
    <3>4. panes' = Compact(k) /\ count' = count - 1
      BY <1>3, <2>2 DEF Remove
    <3>5. panes'[i] = panes[j]
      BY <1>0, <3>1, <3>3, <3>4, CompactShift
    <3>6. QED
      BY <1>1, <3>3, <3>4, <3>5 DEF PaneNames
  <2>3. QED
    BY <2>1, <2>2
<1>4. CASE \/ \E n \in Names : Draw(n)
           \/ CmdAfterTeardown \/ CmdStop \/ RotShow \/ RotPoll
           \/ Term \/ UiCancel \/ UiTeardown \/ UNCHANGED vars
  <2>1. UNCHANGED <<count, panes>>
    BY <1>4 DEF Draw, CmdAfterTeardown, CmdStop, RotShow, RotPoll, Term,
                UiCancel, UiTeardown, vars, storeVars
  <2>2. QED
    BY <1>1, <2>1 DEF PaneNames
<1>5. QED
  BY <1>2, <1>3, <1>4 DEF Next

(* Only rotate_panes' i % count on an empty table raises "div_by_zero",   *)
(* and the table is not empty while root is in it.                         *)
LEMMA NoDivStep ==
  ASSUME IInv, Root \in PaneNames, RotationCountNonZero, [Next]_vars
  PROVE  RotationCountNonZero'
<1>1. count # 0
  BY DEF PaneNames
<1>2. ASSUME NEW n \in Names, Create(n) PROVE fault' \in {fault, "abort", "segv"}
  BY <1>2 DEF Create, vars, CmdUnchanged
<1>3. CASE \E n \in Names : Create(n)
  BY <1>2, <1>3 DEF RotationCountNonZero
<1>4. CASE RotShow
  BY <1>1, <1>4 DEF RotShow, RotationCountNonZero
<1>5. CASE CmdAfterTeardown
  BY <1>5 DEF CmdAfterTeardown, RotationCountNonZero
<1>6. CASE \/ \E n \in RemovableNames : Remove(n)
           \/ \E n \in Names : Draw(n)
           \/ CmdStop \/ RotPoll \/ Term \/ UiCancel \/ UiTeardown \/ UNCHANGED vars
  <2>1. fault' = fault
    BY <1>6 DEF Remove, Draw, CmdStop, RotPoll, Term, UiCancel, UiTeardown, vars
  <2>2. QED
    BY <2>1 DEF RotationCountNonZero
<1>7. QED
  BY <1>3, <1>4, <1>5, <1>6 DEF Next

(* A client that never removes "root" can never make rotate_panes compute *)
(* i % 0 (ui.h:175), for every MaxPanes, name set and canvas set; the     *)
(* hazard needs the root pane removed (store_safety's client).            *)
THEOREM RootKeepsRotationDefined ==
  Root \notin RemovableNames => (Spec => []RotationCountNonZero)
<1> SUFFICES ASSUME Root \notin RemovableNames PROVE Spec => []RotationCountNonZero
  OBVIOUS
<1>1. Init => RootInv
  BY InitRoot
<1>2. RootInv /\ [Next]_vars => RootInv'
  BY NextIInv, RootStays, NoDivStep DEF RootInv
<1>3. QED
  BY <1>1, <1>2, PTL DEF Spec, RootInv

-----------------------------------------------------------------------------
(* ui_thread exits only after pthread_join of rotate_panes has returned.   *)
JoinInv == uiPc = "exited" => rotPc = "done"

(* The join is kept: the rotation thread never leaves "done", and the ui   *)
(* thread reaches "exited" only from the join with rotation done.          *)
LEMMA JoinStep ==
  ASSUME IInv, JoinInv, [Next]_vars
  PROVE  JoinInv'
<1>1. CASE UiTeardown
  BY <1>1 DEF UiTeardown, JoinInv
<1>2. CASE RotShow \/ RotPoll
  BY <1>2 DEF RotShow, RotPoll, JoinInv
<1>3. CASE \/ \E n \in Names : Create(n) \/ Draw(n)
           \/ \E n \in RemovableNames : Remove(n)
           \/ CmdAfterTeardown \/ CmdStop \/ Term \/ UiCancel \/ UNCHANGED vars
  <2>1. rotPc' = rotPc /\ (uiPc' = uiPc \/ uiPc' = "join")
    BY <1>3 DEF Create, Draw, Remove, CmdAfterTeardown, CmdStop, Term, UiCancel,
                CmdUnchanged, vars
  <2>2. QED
    BY <2>1 DEF JoinInv
<1>4. QED
  BY <1>1, <1>2, <1>3 DEF Next

(* A step that takes rotate_panes from its lock to its poll is RotShow's   *)
(* show branch, and the pane it shows has a live canvas: ctx is not freed  *)
(* while rotation runs, so the live canvases are the table's.              *)
LEMMA ShowStep ==
  ASSUME IInv, JoinInv, [Next]_vars, rotPc = "lock", rotPc' = "poll"
  PROVE  shown'.cv \in live
<1>1. /\ count > 0 /\ shown' = panes[(rotI % count) + 1]
  <2>1. ~(\/ \E n \in Names : Create(n) \/ Draw(n)
          \/ \E n \in RemovableNames : Remove(n)
          \/ CmdAfterTeardown \/ CmdStop \/ Term \/ UiCancel \/ UiTeardown
          \/ RotPoll \/ UNCHANGED vars)
    BY DEF Create, Draw, Remove, CmdAfterTeardown, CmdStop, Term, UiCancel,
           UiTeardown, RotPoll, CmdUnchanged, vars
  <2>2. RotShow
    BY <2>1 DEF Next
  <2>3. QED
    BY <2>2 DEF RotShow
<1>2. ~ctxFreed
  BY DEF IInv, LifecycleInv, JoinInv
<1>3. live = PaneCanvases
  BY <1>2 DEF IInv, StoreInv, CanvasOwnership
<1>4. (rotI % count) + 1 \in 1..count
  BY <1>1, ShowIndex DEF IInv
<1>5. QED
  BY <1>1, <1>3, <1>4 DEF PaneCanvases

(* rendering_show is only ever handed a canvas that is still allocated,    *)
(* for every MaxPanes, name and canvas set: ui_thread frees the panes only *)
(* after joining rotate_panes, and remove never leaves a freed canvas in   *)
(* the table.                                                               *)
THEOREM ShowsOnlyLiveCanvases == Spec => ShowsLiveCanvas
<1>1. Init => IInv /\ JoinInv
  BY InitIInv DEF Init, JoinInv
<1>2. IInv /\ JoinInv /\ [Next]_vars => IInv' /\ JoinInv'
  BY NextIInv, JoinStep
<1>3. IInv /\ JoinInv /\ [Next]_vars
        => [rotPc = "lock" /\ rotPc' = "poll" => shown'.cv \in live]_vars
  BY ShowStep
<1>4. QED
  BY <1>1, <1>2, <1>3, PTL DEF Spec, ShowsLiveCanvas

-----------------------------------------------------------------------------
(* The store lock is left held only by the two early returns of ui.h: a   *)
(* failed strdup in ui_pane_create and a draw on an empty store.  With    *)
(* allocations that succeed and root kept, neither is reachable.            *)
LEMMA LockStep ==
  ASSUME ~AllocMayFail, IInv, Root \in PaneNames, LockNeverLeaked, [Next]_vars
  PROVE  LockNeverLeaked'
<1>1. count # 0
  BY DEF PaneNames
<1>2. ASSUME NEW n \in Names, Create(n) PROVE LockNeverLeaked'
  BY <1>2 DEF Create, CmdUnchanged, vars, LockNeverLeaked
<1>3. ASSUME NEW n \in Names, Draw(n) PROVE LockNeverLeaked'
  BY <1>1, <1>3 DEF Draw, CmdUnchanged, LockNeverLeaked
<1>4. CASE \/ \E n \in RemovableNames : Remove(n)
           \/ CmdAfterTeardown \/ CmdStop \/ RotShow \/ RotPoll
           \/ Term \/ UiCancel \/ UiTeardown \/ UNCHANGED vars
  BY <1>4 DEF Remove, CmdAfterTeardown, CmdStop, RotShow, RotPoll, Term, UiCancel,
              UiTeardown, CmdUnchanged, vars, LockNeverLeaked
<1>5. QED
  BY <1>2, <1>3, <1>4 DEF Next

(* When every strdup and malloc succeeds and the client never removes      *)
(* "root", no ui_pane_* call ever returns with the store lock held, for    *)
(* every MaxPanes, name and canvas set: alloc_failure_lock's two leaks are *)
(* the only ones.                                                           *)
THEOREM LockLeaksOnlyOnFailure ==
  ~AllocMayFail /\ Root \notin RemovableNames => (Spec => []LockNeverLeaked)
<1> SUFFICES ASSUME ~AllocMayFail, Root \notin RemovableNames
             PROVE  Spec => []LockNeverLeaked
  OBVIOUS
<1>1. Init => RootInv /\ LockNeverLeaked
  BY InitRoot DEF Init, LockNeverLeaked
<1>2. RootInv /\ LockNeverLeaked /\ [Next]_vars => RootInv' /\ LockNeverLeaked'
  BY NextIInv, RootStays, NoDivStep, LockStep DEF RootInv
<1>3. QED
  BY <1>1, <1>2, PTL DEF Spec

=============================================================================
