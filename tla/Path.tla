-------------------------------- MODULE Path --------------------------------
(***************************************************************************)
(* One direction of the network between two sockets, as the sockets can    *)
(* tell it apart: the sequence of what was put on it, oldest first.  Its   *)
(* device queues serve priorities strictly and each priority in order, so  *)
(* a packet may pass the packets of lower priority ahead of it and nothing *)
(* else.                                                                   *)
(***************************************************************************)
EXTENDS Naturals, Sequences, FiniteSets, Ranking

\* The next of each priority to come out of a path.
Deliverable(path) == {i \in DOMAIN path : \A j \in 1 .. i - 1 : path[j].prio > path[i].prio}

\* FlushOutFlowPackets reaches those that have not left the sender's queue:
\* with a segment, all that would be served after it.
Flushable(path) ==
  {F \in SUBSET {i \in DOMAIN path : path[i].prio > 0} :
     \A i \in F : \A j \in DOMAIN path : j > i /\ path[j].prio >= path[i].prio => j \in F}

Keep(path, gone) == Chosen(path, DOMAIN path \ gone)
=============================================================================
