--------------------------- MODULE ReliableStream ---------------------------
(***************************************************************************)
(* What a connection promises to the two applications that use it: bytes   *)
(* are received in order, without a gap, after they were written; the      *)
(* receiving application is given them in order, all at once or not yet;   *)
(* and the sender frees a byte only after it was received.                 *)
(***************************************************************************)
EXTENDS Integers

CONSTANT Total          \* bytes that the application may write

VARIABLES written,      \* bytes accepted by Send
          received,     \* bytes the receiver has in order
          read,         \* bytes given to the receiving application
          acked         \* bytes the sender no longer keeps

vars == <<written, received, read, acked>>

Init == written = 0 /\ received = 0 /\ read = 0 /\ acked = 0

Write ==
  /\ written' \in written + 1 .. Total
  /\ UNCHANGED <<received, read, acked>>

Receive ==
  /\ received' \in received + 1 .. written
  /\ read' \in {read, received'}
  /\ UNCHANGED <<written, acked>>

Acknowledge ==
  /\ acked' \in acked + 1 .. received
  /\ UNCHANGED <<written, received, read>>

Next == Write \/ Receive \/ Acknowledge

Spec == Init /\ [][Next]_vars
=============================================================================
