------------------------- MODULE MCXwaylandLauncher -------------------------
(***************************************************************************)
(* XwaylandLauncher for TLC: up to three servers, of which one may end      *)
(* without consequence.                                                    *)
(***************************************************************************)
EXTENDS XwaylandLauncher
=============================================================================
