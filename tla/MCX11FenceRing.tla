--------------------------- MODULE MCX11FenceRing ---------------------------
(***************************************************************************)
(* X11FenceRing for TLC: the ring of four fences the code has, and as many *)
(* frames in flight as it allows for.                                      *)
(***************************************************************************)
EXTENDS X11FenceRing
=============================================================================
