--------------------------- MODULE MCXdgConfigure ---------------------------
(***************************************************************************)
(* XdgConfigure with small sets of positions and sizes.  Resizes that hold *)
(* the far edge can walk a window any distance; Reach bounds how far it is *)
(* followed.                                                               *)
(***************************************************************************)
EXTENDS XdgConfigure

CONSTANT Reach

PositionsBounded ==
  frame.pos \in -Reach..Reach /\ moveResizeGeometry.pos \in -Reach..Reach
=============================================================================
