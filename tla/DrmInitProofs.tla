---------------------------- MODULE DrmInitProofs ----------------------------
(***************************************************************************)
(* Proofs about the DRM acquisition chain (DrmInit): for every card, every *)
(* set of failing calls and every bound on the object lists, the objects  *)
(* negotiation settles on are the ones spec section 3 names and they are   *)
(* the only libdrm objects left held.                                       *)
(***************************************************************************)
EXTENDS DrmInit, TLAPS

Pcs == {"ctx", "card", "res", "conn", "crtc", "planeRes", "plane", "buf0", "buf1",
        "ready", "closed"}

\* The card's lists, the helper reached, the loop index and the indices
\* kept in rendering_ctx have their types.
TypeOK ==
  /\ conns \in Seq(ConnKinds)
  /\ crtcs \in Seq(BOOLEAN)
  /\ planes \in Seq([crtc : 0..MaxObjs, type : PlaneTypes])
  /\ pc \in Pcs
  /\ i \in Nat \ {0}
  /\ ctx \in [conn : Nat, crtc : Nat, plane : Nat]

\* The choices of init_conn, init_crtc and init_plane, as spec section 3
\* states them.
ConnChosen ==
  /\ ctx.conn \in 1..Len(conns) /\ conns[ctx.conn] = "connected"
  /\ \A j \in 1..(ctx.conn - 1) : conns[j] # "connected"
CrtcChosen ==
  /\ ctx.crtc \in 1..Len(crtcs) /\ crtcs[ctx.crtc]
  /\ \A j \in 1..(ctx.crtc - 1) : ~crtcs[j]
PlaneChosen ==
  /\ ctx.plane \in 1..Len(planes)
  /\ planes[ctx.plane].crtc = ctx.crtc /\ planes[ctx.plane].type = "primary"

Core == {H("card", 0), H("res", 0)}
BufHandles == {"dumb", "fb", "map"} \X Bufs

\* What each helper of drm_rendering_init finds on entry: the candidates
\* scanned so far were rejected, the earlier choices stand, and exactly
\* the handles of the earlier helpers are held.
Phases ==
  /\ pc \in {"ctx", "card"} => held = {}
  /\ pc = "res" => held = {H("card", 0)}
  /\ pc = "conn" => /\ \A j \in 1..(i - 1) : conns[j] # "connected"
                    /\ held = Core
  /\ pc = "crtc" => /\ ConnChosen
                    /\ \A j \in 1..(i - 1) : ~crtcs[j]
                    /\ held = Core \cup {H("conn", ctx.conn)}
  /\ pc = "planeRes" => /\ ConnChosen /\ CrtcChosen
                        /\ held = Core \cup {H("conn", ctx.conn), H("crtc", ctx.crtc)}
  /\ pc = "plane" => /\ ConnChosen /\ CrtcChosen
                     /\ held = Core \cup {H("conn", ctx.conn), H("crtc", ctx.crtc),
                                          H("planeRes", 0)}
  /\ Negotiated => /\ ConnChosen /\ CrtcChosen /\ PlaneChosen
                   /\ held \ BufHandles
                        = Core \cup {H("conn", ctx.conn), H("crtc", ctx.crtc),
                                     H("plane", ctx.plane)}

IInv == TypeOK /\ Phases

-----------------------------------------------------------------------------
\* drm_rendering_init starts at init_card holding nothing.
LEMMA InitIInv == Init => IInv
<1> SUFFICES ASSUME Init PROVE IInv
  OBVIOUS
<1>1. \A S : Reported(S) \subseteq Seq(S)
  BY MaxObjsAssumption DEF Reported
<1>2. TypeOK
  BY <1>1 DEF Init, TypeOK, Pcs
<1>3. Phases
  BY DEF Init, Phases, Negotiated
<1>4. QED
  BY <1>2, <1>3 DEF IInv

\* FATAL_ERR, a crash and the end of the process change neither the phase
\* nor what is held.
LEMMA DieKeeps == ASSUME IInv, NEW o, Die(o), o # "running" PROVE IInv'
BY DEF Die, IInv, TypeOK, Phases, Negotiated, Running, ConnChosen, CrtcChosen,
       PlaneChosen


\* The malloc of rendering_ctx acquires no handle.
LEMMA NewCtxIInv == ASSUME IInv, NewCtx PROVE IInv'
<1>1. CASE Die("segv")
  BY <1>1, DieKeeps
<1>2. CASE pc' = "card" /\ UNCHANGED <<hw, i, ctx, held, pitchOk, mapped, outcome>>
  BY <1>2 DEF NewCtx, IInv, hw, TypeOK, Phases, Negotiated, Pcs
<1>3. QED
  BY <1>1, <1>2 DEF NewCtx

\* init_card acquires the card fd and nothing else.
LEMMA InitCardIInv == ASSUME IInv, InitCard PROVE IInv'
<1>1. CASE Die("fatal")
  BY <1>1, DieKeeps
<1>2. CASE /\ held' = held \cup {H("card", 0)} /\ pc' = "res"
           /\ UNCHANGED <<hw, i, ctx, pitchOk, mapped, outcome>>
  BY <1>2 DEF InitCard, IInv, hw, TypeOK, Phases, Negotiated, Pcs
<1>3. QED
  BY <1>1, <1>2 DEF InitCard

\* init_res acquires the resources and nothing else.
LEMMA InitResIInv == ASSUME IInv, InitRes PROVE IInv'
<1>1. CASE Die("fatal")
  BY <1>1, DieKeeps
<1>2. CASE /\ held' = held \cup {H("res", 0)} /\ pc' = "conn" /\ i' = 1
           /\ UNCHANGED <<hw, ctx, pitchOk, mapped, outcome>>
  BY <1>2 DEF InitRes, IInv, hw, TypeOK, Phases, Negotiated, Pcs, Core
<1>3. QED
  BY <1>1, <1>2 DEF InitRes

\* init_conn keeps the connector it settles on and frees every other one.
LEMMA InitConnIInv == ASSUME IInv, InitConn PROVE IInv'
<1> USE DEF IInv
<1>1. CASE Die("fatal")
  BY <1>1, DieKeeps
<1>2. CASE /\ i <= Len(conns) /\ conns[i] = "connected"
           /\ ctx' = [ctx EXCEPT !.conn = i]
           /\ held' = held \cup {H("conn", i)}
           /\ pc' = "crtc" /\ i' = 1
           /\ UNCHANGED <<hw, pitchOk, mapped, outcome>>
  <2>1. TypeOK'
    BY <1>2 DEF InitConn, hw, TypeOK, Pcs
  <2>2. ConnChosen'
    BY <1>2 DEF InitConn, hw, TypeOK, Phases, ConnChosen
  <2>3. QED
    BY <1>2, <2>1, <2>2 DEF InitConn, hw, TypeOK, Phases, Negotiated, Core
<1>3. CASE /\ i <= Len(conns) /\ conns[i] # "connected"
           /\ held' = Release(held \cup {H("conn", i)}, H("conn", i))
           /\ i' = i + 1
           /\ UNCHANGED <<hw, pc, ctx, pitchOk, mapped, outcome>>
  <2>1. held' = held
    BY <1>3 DEF InitConn, TypeOK, Phases, Core, H, Release
  <2>2. QED
    BY <1>3, <2>1 DEF InitConn, hw, TypeOK, Phases, Negotiated, Core
<1>4. QED
  BY <1>1, <1>2, <1>3 DEF InitConn

\* init_crtc keeps the CRTC it settles on and frees every other one.
LEMMA InitCrtcIInv == ASSUME IInv, InitCrtc PROVE IInv'
<1> USE DEF IInv
<1>1. CASE Die("fatal")
  BY <1>1, DieKeeps
<1>2. CASE /\ i <= Len(crtcs) /\ crtcs[i]
           /\ ctx' = [ctx EXCEPT !.crtc = i]
           /\ held' = held \cup {H("crtc", i)}
           /\ pc' = "planeRes"
           /\ UNCHANGED <<hw, i, pitchOk, mapped, outcome>>
  <2>1. TypeOK'
    BY <1>2 DEF InitCrtc, hw, TypeOK, Pcs
  <2>2. ConnChosen' /\ CrtcChosen'
    BY <1>2 DEF InitCrtc, hw, TypeOK, Phases, ConnChosen, CrtcChosen
  <2>3. QED
    BY <1>2, <2>1, <2>2 DEF InitCrtc, hw, TypeOK, Phases, Negotiated, Core
<1>3. CASE /\ i <= Len(crtcs) /\ ~crtcs[i]
           /\ held' = Release(held \cup {H("crtc", i)}, H("crtc", i))
           /\ i' = i + 1
           /\ UNCHANGED <<hw, pc, ctx, pitchOk, mapped, outcome>>
  <2>1. held' = held
    BY <1>3 DEF InitCrtc, TypeOK, Phases, Core, H, Release
  <2>2. QED
    BY <1>3, <2>1 DEF InitCrtc, hw, TypeOK, Phases, Negotiated, Core, ConnChosen
<1>4. QED
  BY <1>1, <1>2, <1>3 DEF InitCrtc

\* init_plane's drmModeGetPlaneResources adds the plane resources.
LEMMA InitPlaneResIInv == ASSUME IInv, InitPlaneRes PROVE IInv'
<1>1. CASE Die("segv")
  BY <1>1, DieKeeps
<1>2. CASE /\ held' = held \cup {H("planeRes", 0)} /\ pc' = "plane" /\ i' = 1
           /\ UNCHANGED <<hw, ctx, pitchOk, mapped, outcome>>
  BY <1>2 DEF InitPlaneRes, IInv, hw, TypeOK, Phases, Negotiated, Pcs, Core,
     ConnChosen, CrtcChosen
<1>3. QED
  BY <1>1, <1>2 DEF InitPlaneRes

\* is_primary_plane answers "primary" only for a plane whose type says so.
LEMMA PrimaryVerdict ==
  ASSUME NEW p, NEW r \in IsPrimaryPlane(p), r = "primary"
  PROVE  planes[p].type = "primary"
BY DEF IsPrimaryPlane, PlaneVerdict

\* init_plane keeps the primary plane of the chosen CRTC, frees every other
\* plane it looks at, and frees the plane resources when it is done.
LEMMA InitPlaneIInv == ASSUME IInv, InitPlane PROVE IInv'
<1> USE DEF IInv
<1>0. pc = "plane"
  BY DEF InitPlane
<1>1. CASE \E o \in {"fatal", "segv"} : Die(o)
  BY <1>1, DieKeeps
<1>2. CASE /\ i <= Len(planes)
           /\ held' = Release(held \cup {H("plane", i)}, H("plane", i))
           /\ i' = i + 1
           /\ UNCHANGED <<hw, pc, ctx, pitchOk, mapped, outcome>>
  <2>1. held' = held
    BY <1>0, <1>2 DEF TypeOK, Phases, Core, H, Release
  <2>2. QED
    BY <1>2, <2>1 DEF InitPlane, hw, TypeOK, Phases, Negotiated, Core,
       ConnChosen, CrtcChosen
<1>3. CASE /\ i <= Len(planes)
           /\ planes[i].crtc = ctx.crtc /\ planes[i].type = "primary"
           /\ ctx' = [ctx EXCEPT !.plane = i]
           /\ held' = Release(held \cup {H("plane", i)}, H("planeRes", 0))
           /\ pc' = "buf0"
           /\ UNCHANGED <<hw, i, pitchOk, mapped, outcome>>
  <2>1. TypeOK'
    BY <1>3 DEF InitPlane, hw, TypeOK, Pcs
  <2>2. ConnChosen' /\ CrtcChosen' /\ PlaneChosen'
    BY <1>3 DEF InitPlane, hw, TypeOK, Phases, ConnChosen, CrtcChosen,
       PlaneChosen
  <2>3. held' \ BufHandles
          = Core \cup {H("conn", ctx.conn), H("crtc", ctx.crtc), H("plane", i)}
    BY <1>3 DEF InitPlane, TypeOK, Phases, Core, H, Release, BufHandles
  <2>4. QED
    BY <1>3, <2>1, <2>2, <2>3 DEF InitPlane, hw, TypeOK, Phases, Negotiated,
       Running
<1>4. QED
  BY <1>1, <1>2, <1>3, PrimaryVerdict DEF InitPlane

\* init_buf adds only dumb buffers, framebuffers and mappings.
LEMMA InitBufIInv == ASSUME IInv, NEW b \in Bufs, InitBuf(b) PROVE IInv'
<1> USE DEF IInv
<1>1. CASE Die("fatal")
  BY <1>1, DieKeeps
<1>2. CASE /\ \E extra \in SUBSET BufHandles : held' = held \cup extra
           /\ pc' = AfterBuf(b)
           /\ UNCHANGED <<hw, i, ctx, outcome>>
  <2>1. Negotiated /\ Negotiated'
    BY <1>2 DEF InitBuf, Negotiated, Running, BufPc, AfterBuf
  <2>2. held' \ BufHandles = held \ BufHandles
    BY <1>2
  <2>3. QED
    BY <1>2, <2>1, <2>2 DEF InitBuf, hw, TypeOK, Phases, Pcs, AfterBuf,
       ConnChosen, CrtcChosen, PlaneChosen
<1>3. QED
  <2>1. PICK created \in Result("create_dumb"), added \in Result("add_fb"),
             mapOk \in Result("map_dumb"), mm \in Result("mmap"),
             pitch \in (IF ShortPitchPossible THEN BOOLEAN ELSE {TRUE}) :
          \/ ~(created /\ added /\ mapOk) /\ Die("fatal")
          \/ /\ created /\ added /\ mapOk
             /\ held' = held \cup {H("dumb", b), H("fb", b)}
                             \cup (IF mm THEN {H("map", b)} ELSE {})
             /\ mapped' = [mapped EXCEPT ![b] = mm]
             /\ pitchOk' = [pitchOk EXCEPT ![b] = pitch]
             /\ pc' = AfterBuf(b)
             /\ UNCHANGED <<hw, i, ctx, outcome>>
    BY DEF InitBuf
  <2>2. {H("dumb", b), H("fb", b)} \cup (IF mm THEN {H("map", b)} ELSE {})
          \in SUBSET BufHandles
    BY DEF H, BufHandles
  <2>3. QED
    BY <1>1, <1>2, <2>1, <2>2

\* drm_rendering_cleanup ends negotiation, whatever close answers.
LEMMA CleanupIInv == ASSUME IInv, Cleanup PROVE IInv'
<1> USE DEF IInv
<1>1. CASE /\ pc = "ready" /\ outcome' = "fatal"
           /\ UNCHANGED <<hw, pc, i, ctx>>
  BY <1>1 DEF hw, TypeOK, Phases, Negotiated, Running
<1>2. CASE /\ pc' = "closed"
           /\ UNCHANGED <<hw, i, ctx, outcome>>
  BY <1>2 DEF hw, TypeOK, Phases, Negotiated, Running, Pcs
<1>3. QED
  BY <1>1, <1>2 DEF Cleanup

\* Every step of drm_rendering_init, of cleanup or of the ended process
\* keeps the phase invariant.
LEMMA StepIInv == IInv /\ [Next]_vars => IInv'
<1> SUFFICES ASSUME IInv, [Next]_vars PROVE IInv'
  OBVIOUS
<1>1. CASE Ended \/ UNCHANGED vars
  BY <1>1 DEF Ended, vars, IInv, TypeOK, Phases, Negotiated, Running,
     ConnChosen, CrtcChosen, PlaneChosen
<1>2. QED
  BY <1>1, NewCtxIInv, InitCardIInv, InitResIInv, InitConnIInv, InitCrtcIInv,
     InitPlaneResIInv, InitPlaneIInv, InitBufIInv, CleanupIInv DEF Next

\* The phase invariant holds in every state.
LEMMA AlwaysIInv == Spec => []IInv
BY InitIInv, StepIInv, PTL DEF Spec

(* For every card and every failing call, once drm_rendering_init is past  *)
(* init_plane the connector, CRTC and plane in rendering_ctx are the first *)
(* connected connector with a mode, the first CRTC with a valid mode, and a *)
(* primary plane of that CRTC (init_conn, init_crtc, init_plane).           *)
THEOREM ChosenObjectsCorrect == Spec => []ChosenObjectsQualify
<1>1. IInv => ChosenObjectsQualify
  BY DEF IInv, Phases, ChosenObjectsQualify, ConnChosen, CrtcChosen,
     PlaneChosen
<1>2. QED
  BY <1>1, AlwaysIInv, PTL

(* For every card and every failing call, once negotiation is over the     *)
(* only libdrm objects held besides the card and its resources are the     *)
(* chosen connector, CRTC and plane: the scans free every candidate they   *)
(* pass over, and init_plane frees the plane resources.                     *)
THEOREM OnlyChosenObjectsHeld == Spec => []OnlyChosenHeld
<1>1. IInv => OnlyChosenHeld
  BY DEF IInv, Phases, OnlyChosenHeld, Core, BufHandles
<1>2. QED
  BY <1>1, AlwaysIInv, PTL

-----------------------------------------------------------------------------
(* The calls whose failure drm.c does not check: the malloc of            *)
(* rendering_ctx (drm_rendering_init), drmModeGetPlaneResources and        *)
(* drmModeGetPlane (init_plane), drmModeGetProperty (is_primary_plane) and *)
(* mmap (init_buf).                                                         *)
Unchecked == {"malloc", "get_plane_resources", "get_plane", "get_property", "mmap"}

\* No crash so far, and every buffer init_buf has passed is mapped.
MapInv ==
  /\ mapped \in [Bufs -> BOOLEAN]
  /\ outcome # "segv"
  /\ pc \in {"buf1", "ready", "closed"} => mapped[0]
  /\ pc \in {"ready", "closed"} => mapped[1]

\* With the unchecked calls succeeding, a step never crashes and init_buf
\* maps the buffer it registers.
LEMMA MapStep ==
  ASSUME FailingCalls \cap Unchecked = {}, IInv, MapInv, [Next]_vars
  PROVE  MapInv'
<1> USE DEF IInv, TypeOK
<1>0. /\ Result("malloc") = {TRUE}
      /\ Result("get_plane_resources") = {TRUE}
      /\ Result("get_plane") = {TRUE}
      /\ Result("mmap") = {TRUE}
      /\ \A p : "segv" \notin IsPrimaryPlane(p)
  BY DEF Result, Unchecked, IsPrimaryPlane, PlaneVerdict
<1>1. ASSUME NEW o, Die(o), o # "segv" PROVE MapInv'
  BY <1>1 DEF Die, MapInv
<1>9. CASE NewCtx
  BY <1>0, <1>9 DEF NewCtx, MapInv
<1>2. CASE InitCard \/ InitRes \/ InitConn \/ InitCrtc
  <2>1. CASE Die("fatal")
    BY <2>1, <1>1
  <2>2. CASE ~Die("fatal")
    BY <1>2, <2>2 DEF InitCard, InitRes, InitConn, InitCrtc, MapInv
  <2>3. QED
    BY <2>1, <2>2
<1>3. CASE InitPlaneRes
  BY <1>0, <1>1, <1>3 DEF InitPlaneRes, MapInv
<1>4. CASE InitPlane
  <2>1. CASE \E o \in {"fatal", "segv"} : Die(o) /\ o # "segv"
    BY <2>1, <1>1
  <2>2. CASE ~\E o \in {"fatal", "segv"} : Die(o) /\ o # "segv"
    BY <1>0, <1>4, <2>2 DEF InitPlane, MapInv
  <2>3. QED
    BY <2>1, <2>2
<1>5. ASSUME NEW b \in Bufs, InitBuf(b) PROVE MapInv'
  <2>1. CASE Die("fatal")
    BY <2>1, <1>1
  <2>2. CASE /\ mapped' = [mapped EXCEPT ![b] = TRUE]
             /\ pc' = AfterBuf(b) /\ UNCHANGED outcome
    BY <1>5, <2>2 DEF InitBuf, BufPc, AfterBuf, MapInv, Bufs
  <2>3. QED
    BY <1>0, <1>5, <2>1, <2>2 DEF InitBuf
<1>6. CASE Cleanup
  BY <1>6 DEF Cleanup, MapInv
<1>7. CASE Ended \/ UNCHANGED vars
  BY <1>7 DEF Ended, vars, MapInv
<1>8. QED
  BY <1>9, <1>2, <1>3, <1>4, <1>5, <1>6, <1>7 DEF Next

(* Spec 4.1 says each acquisition step fails fatally.  If none of the five *)
(* calls drm.c leaves unchecked fails, every failure of drm_rendering_init *)
(* is a FATAL_ERR and never a crash, and a ready backend has both buffers  *)
(* mapped; run unchecked_calls shows each of the five breaks this.         *)
THEOREM CheckedFailuresAreFatal ==
  FailingCalls \cap Unchecked = {} => (Spec => []CallFailuresAreFatal)
<1> SUFFICES ASSUME FailingCalls \cap Unchecked = {}
             PROVE  Spec => []CallFailuresAreFatal
  OBVIOUS
<1>1. Init => MapInv
  BY DEF Init, MapInv, Bufs
<1>2. IInv /\ MapInv /\ [Next]_vars => MapInv'
  BY MapStep
<1>3. MapInv => CallFailuresAreFatal
  BY DEF MapInv, CallFailuresAreFatal, Bufs
<1>4. QED
  BY <1>1, <1>2, <1>3, InitIInv, StepIInv, PTL DEF Spec
====
