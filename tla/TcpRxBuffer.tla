----------------------------- MODULE TcpRxBuffer -----------------------------
(***************************************************************************)
(* ns3::TcpRxBuffer (tcp-rx-buffer.cc): the reassembly buffer.  A buffer   *)
(* is the next byte expected in order and the fragments held: disjoint     *)
(* pairs <<first byte, byte after the last>>, and the sequence number of   *)
(* the FIN, 0 before there is one.  The buffer is large enough for the     *)
(* flow (the driver gives it 2048000000 bytes).                            *)
(***************************************************************************)
EXTENDS Integers, FiniteSets, FiniteSetsExt

Starts(frags)  == {f[1] : f \in frags}
Holds(frags)   == UNION {f[1] .. (f[2] - 1) : f \in frags}
Missing(frags, a, b) == {n \in a .. b : n \notin Holds(frags)}

EmptyBuffer == [next |-> 1, frags |-> {}, fin |-> 0]

\* Add for the bytes seq .. end - 1.  The head of the packet is cut back to
\* the first byte that is neither delivered nor held, its tail to the start
\* of the fragment that already holds its end; fragments that lie strictly
\* inside what remains are replaced.
Head0(buf, seq)   == IF seq < buf.next THEN buf.next ELSE seq
Cut(buf, seq, end) ==
  LET head == Min(Missing(buf.frags, Head0(buf, seq), end) \cup {end})
      over == {f \in buf.frags : f[1] > head /\ f[1] <= end /\ f[2] >= end}
  IN <<head, Min(Starts(over) \cup {end})>>

Stores(buf, seq, end) == Head0(buf, seq) < end /\ Cut(buf, seq, end)[1] < Cut(buf, seq, end)[2]

\* A FIN that is next in order takes a sequence number of its own.
FinCounted(buf) == IF buf.fin /= 0 /\ buf.next = buf.fin THEN [buf EXCEPT !.next = @ + 1] ELSE buf

SetFinSequence(buf, seq) == FinCounted([buf EXCEPT !.fin = seq])
Finished(buf) == buf.fin /= 0 /\ buf.fin < buf.next

\* What is next in order and then, if it is next, the FIN.
Advanced(buf) ==
  FinCounted([buf EXCEPT !.next = Min(Missing(buf.frags, @, Max({f[2] : f \in buf.frags} \cup {@})))])

Replace(buf, cut, end) ==
  Advanced([buf EXCEPT !.frags = {f \in @ : ~(f[1] > cut[1] /\ f[2] < end)} \cup {cut}])

Add(buf, seq, end) == IF Stores(buf, seq, end) THEN Replace(buf, Cut(buf, seq, end), end) ELSE buf

\* Extract, called by the application until it gets nothing more.  Fragments
\* that are in order and not yet extracted stay among the fragments.
ExtractAll(buf) == [buf EXCEPT !.frags = {f \in @ : f[1] >= buf.next}]

\* Every byte that has arrived, delivered or held.
Arrived(buf) == (1 .. buf.next - 1) \cup Holds(buf.frags)
=============================================================================
