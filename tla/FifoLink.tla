------------------------------ MODULE FifoLink ------------------------------
(***************************************************************************)
(* What a link promises the packets of the top class: those it accepts     *)
(* arrive, once each and in order, whatever else it carries.               *)
(***************************************************************************)
EXTENDS Sequences

CONSTANT Packets

VARIABLE transit     \* accepted and not yet arrived

Init == transit = <<>>

Accept(p) == transit' = Append(transit, p)

Arrive == transit # <<>> /\ transit' = Tail(transit)

Next == Arrive \/ \E p \in Packets : Accept(p)

Spec == Init /\ [][Next]_transit /\ WF_transit(Arrive)
=============================================================================
