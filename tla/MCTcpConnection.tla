--------------------------- MODULE MCTcpConnection ---------------------------
(***************************************************************************)
(* TcpConnection for TLC.  Every constant is a number or a flag, given in  *)
(* the configurations.                                                     *)
(***************************************************************************)
EXTENDS TcpConnection

MCProgram(sink, patient, stops) == [sink |-> sink, patient |-> patient, stops |-> stops]
MCHasty    == {MCProgram(FALSE, FALSE, "any")}
MCPatient  == {MCProgram(FALSE, TRUE, "any"), MCProgram(FALSE, TRUE, "closed"), MCProgram(TRUE, TRUE, "never")}
MCPrograms == MCHasty \cup MCPatient

=============================================================================
