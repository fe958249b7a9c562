------------------------------ MODULE DrmInit ------------------------------
(***************************************************************************)
(* The acquisition chain of the DRM display backend (backends/drm.c):      *)
(* drm_rendering_init with its init_* helpers, find_card, the capability   *)
(* checks and is_primary_plane, followed by drm_rendering_cleanup.         *)
(*                                                                         *)
(* The program is single-threaded here; every helper is one action, and    *)
(* each iteration of a scanning loop is one step.  The kernel is the       *)
(* environment: the connector, CRTC and plane lists are chosen in Init,    *)
(* and each libdrm call named in FailingCalls may fail.  Handles the       *)
(* process holds (fds, libdrm objects, dumb buffers, framebuffers and      *)
(* mappings) are kept in the set "held".  FATAL_ERR exits the process and  *)
(* a NULL dereference crashes it; both are terminal outcomes.              *)
(***************************************************************************)
EXTENDS Naturals, Sequences

CONSTANTS
    MaxObjs,             \* the most connectors, CRTCs or planes a card reports
    FailingCalls,        \* the libdrm / libc calls the environment may fail
    ShortPitchPossible   \* the driver may report a pitch below width * 4

Calls == {"malloc", "find_card", "get_cap", "set_client_cap", "get_resources",
          "get_connector", "get_crtc", "get_plane_resources", "get_plane",
          "get_properties", "get_property", "create_dumb", "add_fb",
          "map_dumb", "mmap", "close"}

ASSUME MaxObjsAssumption == MaxObjs \in Nat \ {0}
ASSUME FailingCallsAssumption == FailingCalls \subseteq Calls
ASSUME ShortPitchAssumption == ShortPitchPossible \in BOOLEAN

\* What drmModeGetConnector reports: usable means DRM_MODE_CONNECTED with
\* count_modes > 0.
ConnKinds == {"connected", "disconnected", "no_modes"}
\* The value of a plane's "type" property; "untyped" has no such property.
PlaneTypes == {"primary", "overlay", "untyped"}
Bufs == {0, 1}

\* A list the card reports: at most MaxObjs entries of S.
Reported(S) == UNION {[1..n -> S] : n \in 0..MaxObjs}

VARIABLES
    conns, crtcs, planes,   \* what the card reports (fixed after Init)
    pc,                     \* the helper drm_rendering_init is in
    i,                      \* loop index of init_conn / init_crtc / init_plane
    ctx,                    \* the chosen conn, crtc and plane of rendering_ctx
    held,                   \* handles the process holds
    pitchOk,                \* bufs[b].stride holds a 32-bit row
    mapped,                 \* bufs[b].data is a real mapping
    outcome                 \* running, or how the process ended

hw == <<conns, crtcs, planes>>
vars == <<conns, crtcs, planes, pc, i, ctx, held, pitchOk, mapped, outcome>>

H(kind, j) == <<kind, j>>

\* The results a call can return: it may fail only if the environment may.
Result(c) == IF c \in FailingCalls THEN BOOLEAN ELSE {TRUE}

\* Releasing a handle (drmModeFree*, closedir, close).
ReleaseNothing(hs, h) == hs
Release(hs, h) == hs \ {h}

\* find_card: opendir("/dev/dri"), the first "card*" entry, openat.
FindCard == Result("find_card")
\* require_dumb_buffers: drmGetCap succeeds and reports the capability.
RequireDumbBuffers == Result("get_cap")
\* require_universal_planes: drmSetClientCap succeeds.
RequireUniversalPlanes == Result("set_client_cap")

\* The answer of is_primary_plane for a plane that has a "type" property.
PlaneVerdictAnyType(p) == "primary"
PlaneVerdict(p) == IF planes[p].type = "primary" THEN "primary" ELSE "other"

\* is_primary_plane: drmModeObjectGetProperties failing is fatal; a NULL
\* from drmModeGetProperty is dereferenced by strcmp; a plane without a
\* "type" property reaches the trailing FATAL_ERR.
IsPrimaryPlane(p) ==
    (IF "get_properties" \in FailingCalls THEN {"fatal"} ELSE {})
    \cup (IF "get_property" \in FailingCalls THEN {"segv"} ELSE {})
    \cup {IF planes[p].type = "untyped" THEN "fatal" ELSE PlaneVerdict(p)}

Running == outcome = "running"

\* FATAL_ERR or a crash: the process ends where it is.
Die(o) == /\ outcome' = o
          /\ UNCHANGED <<conns, crtcs, planes, pc, i, ctx, held, pitchOk, mapped>>

Init == /\ conns \in Reported(ConnKinds)
        /\ crtcs \in Reported(BOOLEAN)
        /\ planes \in Reported([crtc : 0..MaxObjs, type : PlaneTypes])
        /\ pc = "ctx"
        /\ i = 1
        /\ ctx = [conn |-> 0, crtc |-> 0, plane |-> 0]
        /\ held = {}
        /\ pitchOk = [b \in Bufs |-> TRUE]
        /\ mapped = [b \in Bufs |-> FALSE]
        /\ outcome = "running"

\* drm_rendering_init's malloc of rendering_ctx: the result is not checked,
\* and storing front_buf_idx through a NULL crashes the process.
NewCtx ==
    /\ Running /\ pc = "ctx"
    /\ \E ok \in Result("malloc") :
          \/ ~ok /\ Die("segv")
          \/ ok /\ pc' = "card" /\ UNCHANGED <<hw, i, ctx, held, pitchOk, mapped, outcome>>

\* init_card: find_card, then the two capability checks; any failure is fatal.
InitCard ==
    /\ Running /\ pc = "card"
    /\ \E found \in FindCard, dumb \in RequireDumbBuffers,
          planesCap \in RequireUniversalPlanes :
          \/ /\ ~(found /\ dumb /\ planesCap)
             /\ Die("fatal")
          \/ /\ found /\ dumb /\ planesCap
             /\ held' = held \cup {H("card", 0)}
             /\ pc' = "res"
             /\ UNCHANGED <<hw, i, ctx, pitchOk, mapped, outcome>>

\* init_res: drmModeGetResources, fatal on NULL.
InitRes ==
    /\ Running /\ pc = "res"
    /\ \E ok \in Result("get_resources") :
          \/ ~ok /\ Die("fatal")
          \/ /\ ok
             /\ held' = held \cup {H("res", 0)}
             /\ pc' = "conn" /\ i' = 1
             /\ UNCHANGED <<hw, ctx, pitchOk, mapped, outcome>>

\* One iteration of init_conn: the first connected connector with a mode is
\* kept, the others are freed; running out of connectors is fatal.
InitConn ==
    /\ Running /\ pc = "conn"
    /\ \/ i > Len(conns) /\ Die("fatal")
       \/ /\ i <= Len(conns)
          /\ \E ok \in Result("get_connector") :
                \/ ~ok /\ Die("fatal")
                \/ /\ ok /\ conns[i] = "connected"
                   /\ ctx' = [ctx EXCEPT !.conn = i]
                   /\ held' = held \cup {H("conn", i)}
                   /\ pc' = "crtc" /\ i' = 1
                   /\ UNCHANGED <<hw, pitchOk, mapped, outcome>>
                \/ /\ ok /\ conns[i] # "connected"
                   /\ held' = Release(held \cup {H("conn", i)}, H("conn", i))
                   /\ i' = i + 1
                   /\ UNCHANGED <<hw, pc, ctx, pitchOk, mapped, outcome>>

\* One iteration of init_crtc, followed by init_mode when a CRTC is taken:
\* the first CRTC with a valid mode is kept, the others are freed.
InitCrtc ==
    /\ Running /\ pc = "crtc"
    /\ \/ i > Len(crtcs) /\ Die("fatal")
       \/ /\ i <= Len(crtcs)
          /\ \E ok \in Result("get_crtc") :
                \/ ~ok /\ Die("fatal")
                \/ /\ ok /\ crtcs[i]
                   /\ ctx' = [ctx EXCEPT !.crtc = i]
                   /\ held' = held \cup {H("crtc", i)}
                   /\ pc' = "planeRes"
                   /\ UNCHANGED <<hw, i, pitchOk, mapped, outcome>>
                \/ /\ ok /\ ~crtcs[i]
                   /\ held' = Release(held \cup {H("crtc", i)}, H("crtc", i))
                   /\ i' = i + 1
                   /\ UNCHANGED <<hw, pc, ctx, pitchOk, mapped, outcome>>

\* init_plane, its first line: the result of drmModeGetPlaneResources is
\* dereferenced by the loop condition without a NULL check.
InitPlaneRes ==
    /\ Running /\ pc = "planeRes"
    /\ \E ok \in Result("get_plane_resources") :
          \/ ~ok /\ Die("segv")
          \/ /\ ok
             /\ held' = held \cup {H("planeRes", 0)}
             /\ pc' = "plane" /\ i' = 1
             /\ UNCHANGED <<hw, ctx, pitchOk, mapped, outcome>>

\* One iteration of init_plane's loop: drmModeGetPlane (unchecked), then the
\* plane is kept if it drives the chosen CRTC and is primary; on leaving the
\* loop the plane resources are freed, and no plane found is fatal.
InitPlane ==
    /\ Running /\ pc = "plane"
    /\ \/ i > Len(planes) /\ Die("fatal")
       \/ /\ i <= Len(planes)
          /\ \E ok \in Result("get_plane") :
                \/ ~ok /\ Die("segv")
                \/ /\ ok /\ planes[i].crtc # ctx.crtc
                   /\ held' = Release(held \cup {H("plane", i)}, H("plane", i))
                   /\ i' = i + 1
                   /\ UNCHANGED <<hw, pc, ctx, pitchOk, mapped, outcome>>
                \/ /\ ok /\ planes[i].crtc = ctx.crtc
                   /\ \E r \in IsPrimaryPlane(i) :
                         \/ r \in {"fatal", "segv"} /\ Die(r)
                         \/ /\ r = "other"
                            /\ held' = Release(held \cup {H("plane", i)}, H("plane", i))
                            /\ i' = i + 1
                            /\ UNCHANGED <<hw, pc, ctx, pitchOk, mapped, outcome>>
                         \/ /\ r = "primary"
                            /\ ctx' = [ctx EXCEPT !.plane = i]
                            /\ held' = Release(held \cup {H("plane", i)}, H("planeRes", 0))
                            /\ pc' = "buf0"
                            /\ UNCHANGED <<hw, i, pitchOk, mapped, outcome>>

BufPc(b) == IF b = 0 THEN "buf0" ELSE "buf1"
AfterBuf(b) == IF b = 0 THEN "buf1" ELSE "ready"

\* init_buf(ctx, b): create a dumb buffer, register it with drmModeAddFB2,
\* map it; each failure is fatal except mmap's, whose MAP_FAILED passes the
\* "!target->data" check.  The pitch is stored without a check.
InitBuf(b) ==
    /\ Running /\ pc = BufPc(b)
    /\ \E created \in Result("create_dumb"), added \in Result("add_fb"),
          mapOk \in Result("map_dumb"), mm \in Result("mmap"),
          pitch \in (IF ShortPitchPossible THEN BOOLEAN ELSE {TRUE}) :
          \/ ~(created /\ added /\ mapOk) /\ Die("fatal")
          \/ /\ created /\ added /\ mapOk
             /\ held' = held \cup {H("dumb", b), H("fb", b)}
                             \cup (IF mm THEN {H("map", b)} ELSE {})
             /\ mapped' = [mapped EXCEPT ![b] = mm]
             /\ pitchOk' = [pitchOk EXCEPT ![b] = pitch]
             /\ pc' = AfterBuf(b)
             /\ UNCHANGED <<hw, i, ctx, outcome>>

\* drm_rendering_cleanup: free plane, CRTC, connector and resources, then
\* close the card; a failing close is fatal.  Buffers are left alone.
Cleanup ==
    /\ Running /\ pc = "ready"
    /\ \E ok \in Result("close") :
          LET freed == Release(Release(Release(Release(held,
                         H("plane", ctx.plane)), H("crtc", ctx.crtc)),
                         H("conn", ctx.conn)), H("res", 0))
          IN  \/ /\ ~ok
                 /\ held' = freed /\ outcome' = "fatal"
                 /\ UNCHANGED <<hw, pc, i, ctx, pitchOk, mapped>>
              \/ /\ ok
                 /\ held' = Release(freed, H("card", 0))
                 /\ pc' = "closed"
                 /\ UNCHANGED <<hw, i, ctx, pitchOk, mapped, outcome>>

\* The process has exited, crashed or released the backend.
Ended == (~Running \/ pc = "closed") /\ UNCHANGED vars

Next == \/ NewCtx \/ InitCard \/ InitRes \/ InitConn \/ InitCrtc
        \/ InitPlaneRes \/ InitPlane \/ \E b \in Bufs : InitBuf(b)
        \/ Cleanup \/ Ended

Spec == Init /\ [][Next]_vars

-----------------------------------------------------------------------------
Negotiated == Running /\ pc \in {"buf0", "buf1", "ready"}

\* Once negotiation is over (drm_rendering_init past init_plane), the chosen
\* objects are the ones spec section 3 names: the first connected connector
\* with a mode, the first CRTC with a valid mode, and a primary plane that
\* drives that CRTC.  Breaks if a loop skips or keeps the wrong object.
ChosenObjectsQualify ==
    Negotiated =>
        /\ conns[ctx.conn] = "connected"
        /\ \A j \in 1..(ctx.conn - 1) : conns[j] # "connected"
        /\ crtcs[ctx.crtc]
        /\ \A j \in 1..(ctx.crtc - 1) : ~crtcs[j]
        /\ planes[ctx.plane].crtc = ctx.crtc
        /\ planes[ctx.plane].type = "primary"

\* Once negotiation is over, the only libdrm objects init_conn, init_crtc and
\* init_plane leave behind are the chosen connector, CRTC and plane (next
\* to the card fd and the resources): every skipped candidate and the plane
\* resources were freed, and cleanup frees the chosen ones.
OnlyChosenHeld ==
    Negotiated =>
        held \ ({"dumb", "fb", "map"} \X Bufs)
          = {H("card", 0), H("res", 0), H("conn", ctx.conn),
             H("crtc", ctx.crtc), H("plane", ctx.plane)}

\* Spec 4.1: each acquisition step fails fatally; a failed call must never
\* crash the process or leave a backend whose buffer is not mapped.
CallFailuresAreFatal ==
    /\ outcome # "segv"
    /\ pc = "ready" => \A b \in Bufs : mapped[b]

\* Spec 4.1: initialisation is fatal if the reported row pitch cannot hold
\* 32-bit pixels, so a ready backend has two buffers whose pitch does.
PitchHoldsPixels ==
    pc = "ready" => \A b \in Bufs : pitchOk[b]
=============================================================================
