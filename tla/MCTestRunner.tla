---------------------------- MODULE MCTestRunner ----------------------------
(***************************************************************************)
(* TestRunner for TLC: the jobs of the runs.  Workers are model values.    *)
(***************************************************************************)
EXTENDS TestRunner

MCSuite   == [kind |-> "suite", skip |-> FALSE]
MCExample == [kind |-> "example", skip |-> FALSE]
MCSkipped == [kind |-> "example", skip |-> TRUE]

MCMixed   == <<MCSuite, MCExample, MCSkipped>>
=============================================================================
