----------------------------- MODULE MC_DrmInit -----------------------------
(* Model-checking instance of the DRM acquisition chain: at most two       *)
(* connectors, CRTCs and planes, and the calls each run lets fail.          *)
EXTENDS DrmInit

\* Every call may fail.
AllCalls == Calls
\* The calls drm.c uses without checking the result for failure.
UncheckedCalls == {"malloc", "get_plane_resources", "get_plane", "get_property", "mmap"}
=============================================================================
