--------------------------- MODULE FrameScheduler ---------------------------
(***************************************************************************)
(* What a RenderLoop promises to the rest of KWin: a frame is started only *)
(* because a repaint was wanted, never while another frame is out and      *)
(* never while the output is held (switched off, or its session paused).   *)
(***************************************************************************)
EXTENDS Naturals

VARIABLES
  wanted,   \* a repaint is wanted that no frame has served
  out,      \* number of frames started and not answered
  held      \* somebody holds the output

Init == wanted = FALSE /\ out = 0 /\ held = FALSE

Want == wanted' = TRUE /\ UNCHANGED <<out, held>>

Start ==
  /\ wanted /\ out = 0 /\ ~held
  /\ wanted' = FALSE /\ out' = 1
  /\ UNCHANGED held

Answer == out = 1 /\ out' = 0 /\ UNCHANGED <<wanted, held>>

HoldOrRelease == held' = ~held /\ UNCHANGED <<wanted, out>>

Next == Want \/ Start \/ Answer \/ HoldOrRelease

Spec == Init /\ [][Next]_<<wanted, out, held>>
=============================================================================
