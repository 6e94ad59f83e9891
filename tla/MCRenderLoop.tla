---------------------------- MODULE MCRenderLoop ----------------------------
(***************************************************************************)
(* RenderLoop for TLC: two inhibitors (DPMS and the session), two items,   *)
(* and an X11 backend, the kind whose destruction invalidates the loop.    *)
(***************************************************************************)
EXTENDS RenderLoop
=============================================================================
