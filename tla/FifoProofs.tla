----------------------------- MODULE FifoProofs -----------------------------
(***************************************************************************)
(* Facts about the cursor arithmetic of Fifo, for every size of the buffer: *)
(* the comparison with the end that the code makes instead of a modulo moves *)
(* a cursor around the ring, and the number of bytes to the end follows it.  *)
(***************************************************************************)
EXTENDS Fifo, Sequences, SequenceTheorems, TLAPS

\* A cursor moved around the ring stays in the buffer.
LEMMA CursorType ==
  ASSUME NEW p \in Offsets, NEW n \in 0 .. Size
  PROVE  Ahead(p, n) \in Offsets /\ Behind(p, n) \in Offsets
BY SizeAssumption DEF Offsets, Ahead, Behind

\* The code's step of a cursor, fed the right distance to the end, is the step
\* around the ring, and yields the right distance again.
LEMMA Advance ==
  ASSUME NEW p \in Offsets
  PROVE  /\ AdvancedPtr(p, Size - p) = Ahead(p, 1)
         /\ AdvancedEnd(Size - p) = Size - Ahead(p, 1)
BY SizeAssumption DEF Offsets, Ahead, AdvancedPtr, AdvancedEnd

LEMMA EndType ==
  ASSUME NEW e \in 1 .. Size
  PROVE  AdvancedEnd(e) \in 1 .. Size
BY SizeAssumption DEF AdvancedEnd

\* Putting a byte leaves the oldest byte where it is.
LEMMA OldestKept ==
  ASSUME NEW p \in Offsets, NEW n \in 0 .. Size - 1
  PROVE  Behind(Ahead(p, 1), n + 1) = Behind(p, n)
BY SizeAssumption DEF Offsets, Ahead, Behind

\* Taking a byte makes the next one the oldest.
LEMMA OldestMoves ==
  ASSUME NEW p \in Offsets, NEW n \in 1 .. Size
  PROVE  Behind(p, n - 1) = Ahead(Behind(p, n), 1)
BY SizeAssumption DEF Offsets, Ahead, Behind

\* Steps around the ring add up.
LEMMA AheadTwice ==
  ASSUME NEW p \in Offsets, NEW m \in 0 .. Size, NEW n \in 0 .. Size,
         m + n <= Size
  PROVE  Ahead(Ahead(p, m), n) = Ahead(p, m + n)
BY SizeAssumption DEF Offsets, Ahead

\* The cell n bytes after the oldest of n bytes is the write cursor's.
LEMMA AheadOfBehind ==
  ASSUME NEW p \in Offsets, NEW n \in 0 .. Size
  PROVE  Ahead(Behind(p, n), n) = p
BY SizeAssumption DEF Offsets, Ahead, Behind

\* Fewer than Size bytes occupy cells of their own.
LEMMA AheadDistinct ==
  ASSUME NEW p \in Offsets, NEW m \in 0 .. Size - 1, NEW n \in 0 .. Size - 1,
         m # n
  PROVE  Ahead(p, m) # Ahead(p, n)
BY SizeAssumption DEF Offsets, Ahead

-----------------------------------------------------------------------------
(* Sequences of bytes *)

\* The bytes of n cells from p on are a sequence.
LEMMA CellsSeq ==
  ASSUME NEW m \in [Offsets -> Data], NEW p \in Offsets, NEW n \in 0 .. Size
  PROVE  LET s == [i \in 1 .. n |-> m[Ahead(p, i - 1)]]
         IN  /\ s \in Seq(Data) /\ Len(s) = n
             /\ \A i \in 1 .. n : s[i] = m[Ahead(p, i - 1)] /\ s[i] \in Data
<1>1. \A i \in 1 .. n : m[Ahead(p, i - 1)] \in Data
  BY SizeAssumption, CursorType
<1> QED BY <1>1, SizeAssumption

LEMMA IsAppend ==
  ASSUME NEW S, NEW s \in Seq(S), NEW t \in Seq(S), NEW x \in S,
         Len(t) = Len(s) + 1, \A i \in 1 .. Len(s) : t[i] = s[i],
         t[Len(s) + 1] = x
  PROVE  t = Append(s, x)
<1>1. /\ Append(s, x) \in Seq(S) /\ Len(Append(s, x)) = Len(s) + 1
      /\ \A i \in 1 .. Len(s) + 1 : Append(s, x)[i] = IF i <= Len(s) THEN s[i] ELSE x
  OBVIOUS
<1>2. \A i \in 1 .. Len(t) : t[i] = Append(s, x)[i]
  BY <1>1
<1> QED BY <1>1, <1>2, SeqEqual

LEMMA IsTail ==
  ASSUME NEW S, NEW s \in Seq(S), NEW t \in Seq(S), s # <<>>,
         Len(t) = Len(s) - 1, \A i \in 1 .. Len(t) : t[i] = s[i + 1]
  PROVE  t = Tail(s)
BY HeadTailProperties, SeqEqual
=============================================================================
