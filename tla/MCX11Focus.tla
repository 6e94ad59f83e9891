----------------------------- MODULE MCX11Focus ------------------------------
(***************************************************************************)
(* X11Focus for TLC.  Liveness is checked, so that windows are not taken   *)
(* to be interchangeable.                                                  *)
(***************************************************************************)
EXTENDS X11Focus
=============================================================================
