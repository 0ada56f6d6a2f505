------------------------------ MODULE MCRC3Flow ------------------------------
(***************************************************************************)
(* The flow on small instances.  Segments of two bytes, so that a byte can *)
(* lie inside one.                                                         *)
(***************************************************************************)
EXTENDS RC3Flow

MCOneWrite  == <<FlowSize>>
MCTwoWrites == <<6, FlowSize - 6>>

\* On the grid of segments the theorems of RC3Flow_proofs apply to the instance.
ASSUME MCHypotheses == FlowSize % MSS = 0 => Segmented /\ WritesFit /\ MSS > 1 /\ WordLarge
=============================================================================
