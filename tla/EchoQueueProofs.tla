--------------------------- MODULE EchoQueueProofs ---------------------------
(***************************************************************************)
(* The echo queue for every buffer size, batch size and alphabet: its       *)
(* invariant is inductive and implies that a batch is always covered by      *)
(* what is queued, that the byte removed is the byte sent, and that the      *)
(* queue is a bounded queue.                                                 *)
(***************************************************************************)
EXTENDS EchoQueue, FifoProofs

\* What the inductive invariant adds to the checked ones: the locals of
\* _inline_fifo_get while it runs, and that a byte in flight is counted.
GetLocals ==
  /\ send \in {"send", "savePtr", "saveEnd", "count"} => /\ count > 0
                                                          /\ tx_byte = mem[Oldest]
  /\ send \in {"savePtr", "saveEnd", "count"} => /\ ptr = Ahead(Oldest, 1)
                                                 /\ toEnd = Size - ptr
                                                 /\ data = tx_byte

IInv == TypeOK /\ CursorsAgree /\ BatchIsCovered /\ GetLocals

LEMMA InitInvariant == Init => IInv
BY SizeAssumption, ZeroAssumption, BatchAssumption
   DEF Init, fifo_init, IInv, TypeOK, FifoTypeOK, CursorsAgree, BatchIsCovered,
       GetLocals, Oldest, Offsets, Behind

LEMMA StepInvariant == IInv /\ [Next]_vars => IInv'
<1> SUFFICES ASSUME IInv, [Next]_vars PROVE IInv'
  OBVIOUS
<1> USE SizeAssumption, BatchAssumption, NoByteAssumption
<1>a. /\ pwrite \in Offsets /\ count \in 0 .. Size /\ Oldest \in Offsets
      /\ Size \in Nat /\ Batch \in Nat
  BY CursorType DEF IInv, TypeOK, FifoTypeOK, Oldest
<1>1. ASSUME NEW x \in Data, IsrPut(x) PROVE IInv'
  <2>1. /\ count < Size /\ count' = count + 1 /\ mem' = [mem EXCEPT ![pwrite] = x]
        /\ UNCHANGED <<pread, read2end, mainVars>>
    BY <1>1 DEF IsrPut, fifo_put
  <2>2. pwrite' = Ahead(pwrite, 1) /\ write2end' = Size - pwrite'
    BY <1>1, <1>a, Advance DEF IsrPut, fifo_put, IInv, CursorsAgree
  <2>3. pwrite' \in Offsets
    BY <1>a, <2>2, CursorType
  <2>4. Oldest' = Oldest
    BY <1>a, <2>1, <2>2, OldestKept DEF Oldest
  <2>5. count > 0 => mem'[Oldest] = mem[Oldest]
    <3>1. Ahead(Oldest, count) = pwrite /\ Ahead(Oldest, 0) = Oldest
      BY <1>a, AheadOfBehind DEF Oldest, Ahead, Offsets
    <3> QED BY <1>a, <2>1, <3>1, AheadDistinct DEF IInv, TypeOK, FifoTypeOK
  <2>6. TypeOK'
    BY <1>a, <2>1, <2>2, <2>3 DEF IInv, TypeOK, FifoTypeOK, mainVars, Offsets
  <2>7. CursorsAgree'
    BY <2>1, <2>2, <2>4 DEF IInv, CursorsAgree, mainVars
  <2>8. BatchIsCovered' /\ GetLocals'
    BY <1>a, <2>1, <2>4, <2>5 DEF IInv, TypeOK, BatchIsCovered, GetLocals, mainVars
  <2> QED BY <2>6, <2>7, <2>8 DEF IInv
<1>2. CASE StartBatch
  BY <1>2, <1>a DEF StartBatch, IInv, TypeOK, FifoTypeOK, CursorsAgree, BatchIsCovered,
                    GetLocals, Oldest, fifoVars
<1>3. CASE EndBatch
  BY <1>3, <1>a DEF EndBatch, IInv, TypeOK, FifoTypeOK, CursorsAgree, BatchIsCovered,
                    GetLocals, Oldest, fifoVars
<1>4. CASE fifo_peek_nowait
  BY <1>4, <1>a DEF fifo_peek_nowait, IInv, TypeOK, FifoTypeOK, CursorsAgree,
                    BatchIsCovered, GetLocals, Oldest, fifoVars
<1>5. CASE SendFails
  BY <1>5, <1>a DEF SendFails, IInv, TypeOK, FifoTypeOK, CursorsAgree, BatchIsCovered,
                    GetLocals, Oldest, fifoVars
<1>6. CASE GetLoad
  <2>1. ptr' = Ahead(Oldest, 1) /\ toEnd' = Size - ptr' /\ ptr' \in Offsets
    BY <1>6, <1>a, Advance, CursorType DEF GetLoad, IInv, CursorsAgree
  <2>2. toEnd' \in 1 .. Size
    BY <2>1 DEF Offsets
  <2> QED
    BY <1>6, <1>a, <2>1, <2>2 DEF GetLoad, IInv, TypeOK, FifoTypeOK, CursorsAgree,
                    BatchIsCovered, GetLocals, Oldest, fifoVars
<1>7. CASE GetSavePtr
  BY <1>7, <1>a DEF GetSavePtr, IInv, TypeOK, FifoTypeOK, CursorsAgree, BatchIsCovered,
                    GetLocals, Oldest
<1>8. CASE GetSaveEnd
  BY <1>8, <1>a DEF GetSaveEnd, IInv, TypeOK, FifoTypeOK, CursorsAgree, BatchIsCovered,
                    GetLocals, Oldest
<1>9. CASE GetCount
  <2>1. Oldest' = Ahead(Oldest, 1)
    BY <1>9, <1>a, OldestMoves DEF GetCount, IInv, GetLocals, Oldest
  <2> QED
    BY <1>9, <1>a, <2>1 DEF GetCount, IInv, TypeOK, FifoTypeOK, CursorsAgree,
                    BatchIsCovered, GetLocals
<1>10. CASE UNCHANGED vars
  BY <1>10 DEF vars, fifoVars, mainVars, IInv, TypeOK, FifoTypeOK, CursorsAgree,
               BatchIsCovered, GetLocals, Oldest
<1> QED
  BY <1>1, <1>2, <1>3, <1>4, <1>5, <1>6, <1>7, <1>8, <1>9, <1>10
     DEF Next, sende_uart_puffer

\* The inductive invariant holds in every reachable state.
THEOREM Invariant == Spec => []IInv
BY InitInvariant, StepInvariant, PTL DEF Spec

\* Every variable keeps its type: no cursor leaves the buffer, and count never
\* exceeds its size.
THEOREM TypeCorrect == Spec => []TypeOK
BY Invariant, PTL DEF IInv

\* The cursors, their distances to the end and the counter agree between any
\* two stores of the main loop.
THEOREM CursorsCorrect == Spec => []CursorsAgree
BY Invariant, PTL DEF IInv

\* A batch of sende_uart_puffer is always covered by what is queued.
THEOREM BatchCorrect == Spec => []BatchIsCovered
BY Invariant, PTL DEF IInv

-----------------------------------------------------------------------------
\* The byte removed is the byte that was sent.
THEOREM RemovesWhatWasSent == Spec => SentIsRemoved
<1>1. ASSUME IInv, [Next]_vars
      PROVE  [txed_byte' # txed_byte \/ count' < count => txed_byte' = tx_byte]_vars
  <2> USE <1>1
  <2>1. ASSUME NEW x \in Data, IsrPut(x)
        PROVE  count' = count + 1 /\ txed_byte' = txed_byte
    BY <2>1 DEF IsrPut, fifo_put, mainVars
  <2>2. CASE GetCount
    BY <2>2 DEF GetCount, IInv, GetLocals
  <2>3. CASE sende_uart_puffer /\ ~GetCount
    BY <2>3 DEF sende_uart_puffer, StartBatch, EndBatch, fifo_peek_nowait, SendFails,
                GetLoad, GetSavePtr, GetSaveEnd, fifoVars, IInv, TypeOK, FifoTypeOK
  <2>4. CASE UNCHANGED vars
    BY <2>4
  <2> QED
    BY <2>1, <2>2, <2>3, <2>4 DEF Next, IInv, TypeOK, FifoTypeOK
<1> QED
  BY <1>1, Invariant, PTL DEF Spec, SentIsRemoved

-----------------------------------------------------------------------------
\* The echo queue implements the bounded queue: a put in the interrupt is a
\* put, the decrement of count is the get, every other step changes nothing
\* that a client sees.
LEMMA InitRefines == Init => Queue!Init
BY DEF Init, fifo_init, Queue!Init, Contents

\* A byte put appears at the end of the contents.
LEMMA PutRefines ==
  ASSUME IInv, NEW x \in Data, IsrPut(x)
  PROVE  Queue!Put(x)
<1> USE SizeAssumption
<1>a. /\ pwrite \in Offsets /\ count \in 0 .. Size /\ Oldest \in Offsets
      /\ Size \in Nat /\ mem \in [Offsets -> Data]
  BY CursorType DEF IInv, TypeOK, FifoTypeOK, Oldest
<1>1. /\ count < Size /\ count' = count + 1 /\ mem' = [mem EXCEPT ![pwrite] = x]
      /\ pwrite' = Ahead(pwrite, 1) /\ txed_byte' = txed_byte
  BY <1>a, Advance DEF IsrPut, fifo_put, IInv, CursorsAgree, mainVars
<1>2. Oldest' = Oldest
  BY <1>a, <1>1, OldestKept DEF Oldest
<1>3. Ahead(Oldest, count) = pwrite
  BY <1>a, AheadOfBehind DEF Oldest
<1>4. \A i \in 1 .. count : /\ Ahead(Oldest, i - 1) # pwrite
                            /\ mem'[Ahead(Oldest, i - 1)] = mem[Ahead(Oldest, i - 1)]
  <2> TAKE i \in 1 .. count
  <2>1. Ahead(Oldest, i - 1) # pwrite
    BY <1>a, <1>1, <1>3, AheadDistinct
  <2>2. Ahead(Oldest, i - 1) \in Offsets
    BY <1>a, CursorType
  <2> QED BY <1>a, <1>1, <2>1, <2>2
<1>5. mem'[Ahead(Oldest, count)] = x
  BY <1>a, <1>1, <1>3
<1>6. /\ Contents \in Seq(Data) /\ Len(Contents) = count
      /\ \A i \in 1 .. count : Contents[i] = mem[Ahead(Oldest, i - 1)]
  BY <1>a, CellsSeq DEF Contents
<1>7. /\ Contents' \in Seq(Data) /\ Len(Contents') = count + 1
      /\ \A i \in 1 .. count + 1 : Contents'[i] = mem'[Ahead(Oldest, i - 1)]
  <2> DEFINE c == [i \in 1 .. count + 1 |-> mem'[Ahead(Oldest, i - 1)]]
  <2>1. mem' \in [Offsets -> Data] /\ count + 1 \in 0 .. Size
    BY <1>a, <1>1
  <2>2. /\ c \in Seq(Data) /\ Len(c) = count + 1
        /\ \A i \in 1 .. count + 1 : c[i] = mem'[Ahead(Oldest, i - 1)]
    BY <1>a, <2>1, CellsSeq
  <2>3. Contents' = c
    BY <1>1, <1>2 DEF Contents, Ahead
  <2> QED BY <2>2, <2>3
<1>8. Contents' = Append(Contents, x)
  <2>1. \A i \in 1 .. Len(Contents) : Contents'[i] = Contents[i]
    BY <1>a, <1>4, <1>6, <1>7
  <2>2. Contents'[Len(Contents) + 1] = x
    BY <1>a, <1>5, <1>6, <1>7
  <2> QED BY <1>6, <1>7, <2>1, <2>2, IsAppend
<1> QED
  BY <1>1, <1>6, <1>8 DEF Queue!Put

\* The decrement of count takes the head of the contents.
LEMMA GetRefines ==
  ASSUME IInv, GetCount
  PROVE  Queue!Get
<1> USE SizeAssumption
<1>a. /\ pwrite \in Offsets /\ count \in 1 .. Size /\ Oldest \in Offsets
      /\ Size \in Nat /\ mem \in [Offsets -> Data]
  BY CursorType DEF IInv, TypeOK, FifoTypeOK, Oldest, GetCount, GetLocals
<1>1. /\ count' = count - 1 /\ mem' = mem /\ Oldest' = Ahead(Oldest, 1)
      /\ txed_byte' = mem[Oldest]
  BY <1>a, OldestMoves DEF GetCount, Oldest, IInv, GetLocals
<1>2. /\ Contents \in Seq(Data) /\ Len(Contents) = count
      /\ \A i \in 1 .. count : Contents[i] = mem[Ahead(Oldest, i - 1)]
  BY <1>a, CellsSeq DEF Contents
<1>3. /\ Contents' \in Seq(Data) /\ Len(Contents') = count - 1
      /\ \A i \in 1 .. count - 1 : Contents'[i] = mem[Ahead(Ahead(Oldest, 1), i - 1)]
  <2> DEFINE c == [i \in 1 .. count - 1 |-> mem[Ahead(Ahead(Oldest, 1), i - 1)]]
  <2>1. Ahead(Oldest, 1) \in Offsets /\ count - 1 \in 0 .. Size
    BY <1>a, CursorType
  <2>2. /\ c \in Seq(Data) /\ Len(c) = count - 1
        /\ \A i \in 1 .. count - 1 : c[i] = mem[Ahead(Ahead(Oldest, 1), i - 1)]
    BY <1>a, <2>1, CellsSeq
  <2>3. Contents' = c
    BY <1>1 DEF Contents, Ahead
  <2> QED BY <2>2, <2>3
<1>4. \A i \in 1 .. count - 1 : Ahead(Ahead(Oldest, 1), i - 1) = Ahead(Oldest, i)
  BY <1>a, AheadTwice
<1>5. Contents # <<>> /\ Head(Contents) = mem[Oldest]
  BY <1>a, <1>2 DEF Ahead, Offsets
<1>6. Contents' = Tail(Contents)
  <2>1. \A i \in 1 .. Len(Contents') : Contents'[i] = Contents[i + 1]
    <3> TAKE i \in 1 .. Len(Contents')
    <3>1. i \in 1 .. count - 1 /\ i + 1 \in 1 .. count /\ (i + 1) - 1 = i
      BY <1>a, <1>3
    <3>2. Contents[i + 1] = mem[Ahead(Oldest, i)]
      BY <1>2, <3>1
    <3> QED BY <1>3, <1>4, <3>1, <3>2
  <2> QED BY <1>2, <1>3, <1>5, <2>1, IsTail
<1> QED
  BY <1>1, <1>5, <1>6 DEF Queue!Get

\* The echo queue, its two sides running concurrently, is a bounded queue:
\* the host is sent the echoed characters once each and in order.
THEOREM Refinement == Spec => IsBoundedQueue
<1>1. ASSUME IInv, [Next]_vars
      PROVE  [Queue!Next]_<<Contents, txed_byte>>
  <2> USE <1>1
  <2>1. ASSUME NEW x \in Data, IsrPut(x) PROVE Queue!Next
    BY <2>1, PutRefines DEF Queue!Next
  <2>2. CASE GetCount
    BY <2>2, GetRefines DEF Queue!Next
  <2>3. CASE sende_uart_puffer /\ ~GetCount
    <3>1. UNCHANGED <<mem, count, pwrite, txed_byte>>
      BY <2>3 DEF sende_uart_puffer, StartBatch, EndBatch, fifo_peek_nowait, SendFails,
                  GetLoad, GetSavePtr, GetSaveEnd, fifoVars
    <3> QED BY <3>1 DEF Contents, Oldest
  <2>4. CASE UNCHANGED vars
    BY <2>4 DEF vars, fifoVars, mainVars, Contents, Oldest
  <2> QED
    BY <2>1, <2>2, <2>3, <2>4 DEF Next
<1> QED
  BY <1>1, Invariant, InitRefines, PTL DEF Spec, IsBoundedQueue, Queue!Spec
=============================================================================
