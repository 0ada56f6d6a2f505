---------------------------- MODULE MCVisualizer ----------------------------
(***************************************************************************)
(* Visualizer for TLC.  Its constants are numbers, given in the            *)
(* configurations.                                                         *)
(***************************************************************************)
EXTENDS Visualizer
=============================================================================
