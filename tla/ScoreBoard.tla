----------------------------- MODULE ScoreBoard -----------------------------
(***************************************************************************)
(* ns3::ScoreBoard (scoreboard.cc): what the sender of a flow knows of the *)
(* receiver's data.  m_sbn maps the first byte of a segment to two flags;  *)
(* here a board is the set of its keys and the sets of those flagged.  The *)
(* code walks it in strides of MSS bytes, so a key that is not on the      *)
(* stride of the walk is never met.                                        *)
(***************************************************************************)
EXTENDS Integers, FiniteSets, FiniteSetsExt, Functions

CONSTANT MSS     \* m_mss, the segment size in bytes

ASSUME MSSAssumption == MSS \in Nat \ {0}

Board == [known : SUBSET Nat, acked : SUBSET Nat, sacked : SUBSET Nat]

Stride(s, t) == (t - s) % MSS = 0
Strides(a, b) == {t \in a .. b : Stride(a, t)}

EmptyBoard == [known |-> {}, acked |-> {}, sacked |-> {}]

\* One node for every segment that starts before byte size, flags cleared.
CreateScoreBoard(board, size) ==
  LET keys == Strides(1, size - 1)
  IN [known |-> board.known \cup keys, acked |-> board.acked \ keys, sacked |-> board.sacked \ keys]

\* The keys that a walk upwards from s meets, without a gap.
WalkUp(board, s) == {t \in board.known : t >= s /\ Stride(s, t) /\ Strides(s, t) \subseteq board.known}

ClearScoreBoard(board) ==
  [board EXCEPT !.acked  = @ \ WalkUp(board, 1),
                !.sacked = @ \ WalkUp(board, 1)]

\* A cumulative acknowledgement is marked downwards until a node that is
\* missing or already marked; a SACK block creates the nodes it needs.
UpdateScoreBoard(board, ack, blocks) ==
  LET fresh == board.known \ board.acked
      below == {t \in fresh : t < ack /\ Stride(t, ack) /\ Strides(t, ack - 1) \subseteq fresh}
      inBlocks == UNION {Strides(b[1], b[2] - 1) : b \in Range(blocks)}
  IN [known  |-> board.known \cup inBlocks,
      acked  |-> board.acked \cup below,
      sacked |-> board.sacked \cup inBlocks]

Unmarked(board, s) == WalkUp(board, s) \ (board.acked \cup board.sacked)

\* 0 when the walk ends before it finds an unmarked segment.
GetNextAggSegment(board, s) ==
  IF Unmarked(board, s) = {} THEN 0 ELSE Min(Unmarked(board, s))
=============================================================================
