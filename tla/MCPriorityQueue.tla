--------------------------- MODULE MCPriorityQueue ---------------------------
(* Instances of PriorityQueue: the five classes of the code, a tag priority *)
(* beyond the last class, a buffer of a few packets or bytes.               *)
EXTENDS PriorityQueueIsolation

MCPriorities == 0 .. NumClasses
MCSizes      == {1, 2}
MCOneSize    == {1}
=============================================================================
