------------------------- MODULE MCPointToPointLink -------------------------
(***************************************************************************)
(* A link with three classes and packets of one to three ticks.            *)
(***************************************************************************)
EXTENDS PointToPointLink

MCClasses    == 0 .. NumClasses - 1
MCSizes      == {1, 3}
=============================================================================
