-------------------------- MODULE MCX11SyncRequest --------------------------
(***************************************************************************)
(* X11SyncRequest for TLC: a low word of one bit, so that the carry        *)
(* happens, and a second alarm for a client that lost its support.         *)
(***************************************************************************)
EXTENDS X11SyncRequest
=============================================================================
