--------------------------- MODULE MCSurfaceCommit ---------------------------
(***************************************************************************)
(* SurfaceCommit for TLC: a window, a sub-surface of it and a sub-surface  *)
(* of that one, all of which come and go.  Buffers, frame callbacks and    *)
(* stacking orders are merged independently of each other, so in each      *)
(* behaviour the client uses one kind of request only.                     *)
(***************************************************************************)
EXTENDS SurfaceCommit

CONSTANTS a, b          \* the two sub-surfaces

VARIABLE kind           \* the kind of request the client uses

Chain == {<<a, Root>>, <<b, a>>}

MCInit == Init /\ kind \in {"buffer", "callback", "order"}
MCSpec == MCInit /\ [][Next /\ UNCHANGED kind]_<<vars, kind>>

OneKind ==
  /\ open # {} => kind = "callback"
  /\ \A s \in Surfaces : (pending[s].isSet => kind = "buffer")
                         /\ (pending[s].changed => kind = "order")
=============================================================================
