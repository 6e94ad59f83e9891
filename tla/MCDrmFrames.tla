---------------------------- MODULE MCDrmFrames -----------------------------
(***************************************************************************)
(* DrmFrames for TLC.                                                      *)
(***************************************************************************)
EXTENDS DrmFrames

CONSTANT MaxCount   \* bound on counters that a defect makes grow

CountersBounded ==
  \A o \in Outputs : out[o].loop.pendingFrameCount \in -MaxCount..MaxCount
                     /\ out[o].loop.inhibitCount \in -MaxCount..MaxCount
=============================================================================
