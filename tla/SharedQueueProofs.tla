-------------------------- MODULE SharedQueueProofs --------------------------
(***************************************************************************)
(* The shared queue for every buffer size and alphabet, as long as no flush  *)
(* interrupts a put: the interrupt may take bytes between any two stores of  *)
(* fifo_put, and put its own outside it, and the queue is still a bounded    *)
(* queue.                                                                    *)
(***************************************************************************)
EXTENDS SharedQueue, FifoProofs

IInv == TypeOK /\ CursorsAgree /\ StoredBeforeCounted

LEMMA InitInvariant == Init => IInv
BY SizeAssumption, ZeroAssumption
   DEF Init, fifo_init, IInv, TypeOK, FifoTypeOK, CursorsAgree, StoredBeforeCounted,
       Offsets, Ahead

\* What the invariant says of the cells, for the steps below.
LEMMA Cells ==
  ASSUME IInv
  PROVE  /\ Size \in Nat /\ pread \in Offsets /\ pwrite \in Offsets
         /\ count \in 0 .. Size /\ mem \in [Offsets -> Data]
         /\ Ahead(pread, count) \in Offsets
         /\ pwrite = IF put = "count" THEN Ahead(Ahead(pread, count), 1)
                                      ELSE Ahead(pread, count)
BY SizeAssumption, CursorType DEF IInv, TypeOK, FifoTypeOK, CursorsAgree

\* A character taken by the interrupt leaves the cell the put is filling at
\* the same place of the ring.
LEMMA TakeKeeps ==
  ASSUME IInv, IsrGet
  PROVE  /\ count \in 1 .. Size /\ count' = count - 1 /\ mem' = mem
         /\ pread' = Ahead(pread, 1) /\ pread' \in Offsets
         /\ read2end' = Size - pread'
         /\ Ahead(pread', count') = Ahead(pread, count)
         /\ UNCHANGED <<pwrite, write2end, put, data, ptr, toEnd>>
<1> USE SizeAssumption
<1>1. /\ count \in 1 .. Size /\ count' = count - 1 /\ mem' = mem
      /\ UNCHANGED <<pwrite, write2end, put, data, ptr, toEnd>>
  BY Cells DEF IsrGet, fifo_get, mainVars
<1>2. pread' = Ahead(pread, 1) /\ read2end' = Size - pread'
  BY Cells, Advance DEF IsrGet, fifo_get, IInv, CursorsAgree
<1>3. pread' \in Offsets
  BY <1>2, Cells, CursorType
<1>4. Ahead(Ahead(pread, 1), count - 1) = Ahead(pread, count)
  BY <1>1, Cells, AheadTwice
<1> QED BY <1>1, <1>2, <1>3, <1>4

\* A byte put by the interrupt moves the write cursor and nothing of the reader's.
LEMMA RefillPuts ==
  ASSUME IInv, NEW x \in Data, IsrPut(x)
  PROVE  /\ put = "idle" /\ count \in 0 .. Size - 1 /\ count' = count + 1
         /\ mem' = [mem EXCEPT ![pwrite] = x] /\ pwrite = Ahead(pread, count)
         /\ pwrite' = Ahead(pwrite, 1) /\ pwrite' \in Offsets
         /\ pwrite' = Ahead(pread, count + 1)
         /\ write2end' = Size - pwrite'
         /\ UNCHANGED <<pread, read2end, put, data, ptr, toEnd, taken>>
<1> USE SizeAssumption
<1>1. /\ put = "idle" /\ count \in 0 .. Size - 1 /\ count' = count + 1
      /\ mem' = [mem EXCEPT ![pwrite] = x]
      /\ UNCHANGED <<pread, read2end, put, data, ptr, toEnd, taken>>
  BY Cells DEF IsrPut, fifo_put, mainVars
<1>2. pwrite = Ahead(pread, count)
  BY <1>1, Cells
<1>3. pwrite' = Ahead(pwrite, 1) /\ write2end' = Size - pwrite'
  BY <1>1, Cells, Advance DEF IsrPut, fifo_put, IInv, CursorsAgree
<1>4. pwrite' \in Offsets
  BY <1>3, Cells, CursorType
<1>5. Ahead(pread, count + 1) = Ahead(Ahead(pread, count), 1)
  BY <1>1, Cells, AheadTwice
<1> QED BY <1>1, <1>2, <1>3, <1>4, <1>5

LEMMA StepInvariant ==
  ASSUME ~FlushDuringPut, IInv, [Next]_vars
  PROVE  IInv'
<1> USE SizeAssumption
<1>1. ASSUME NEW x \in Data, PutCheck(x) PROVE IInv'
  BY <1>1, Cells DEF PutCheck, IInv, TypeOK, FifoTypeOK, CursorsAgree,
                     StoredBeforeCounted, fifoVars
<1>2. CASE PutStore
  BY <1>2, Cells DEF PutStore, IInv, TypeOK, FifoTypeOK, CursorsAgree, StoredBeforeCounted
<1>3. CASE PutWrap
  <2>1. ptr' = Ahead(pwrite, 1) /\ toEnd' = Size - ptr' /\ ptr' \in Offsets
    BY <1>3, Cells, Advance, CursorType DEF PutWrap, IInv, CursorsAgree
  <2>2. toEnd' \in 1 .. Size
    BY <2>1, Cells DEF Offsets
  <2>3. put = "wrap" /\ put' = "saveEnd" /\ UNCHANGED <<fifoVars, data, taken>>
    BY <1>3 DEF PutWrap
  <2>4. TypeOK'
    BY <2>1, <2>2, <2>3 DEF IInv, TypeOK, FifoTypeOK, fifoVars, Offsets
  <2>5. CursorsAgree' /\ StoredBeforeCounted'
    BY <2>1, <2>3 DEF IInv, CursorsAgree, StoredBeforeCounted, fifoVars
  <2> QED BY <2>4, <2>5 DEF IInv
<1>4. CASE PutSaveEnd
  BY <1>4, Cells DEF PutSaveEnd, IInv, TypeOK, FifoTypeOK, CursorsAgree, StoredBeforeCounted
<1>5. CASE PutSavePtr
  BY <1>5, Cells DEF PutSavePtr, IInv, TypeOK, FifoTypeOK, CursorsAgree, StoredBeforeCounted
<1>6. CASE PutCount
  <2>1. count' = count + 1 /\ count' \in 0 .. Size
    BY <1>6, Cells DEF PutCount, IInv, CursorsAgree
  <2>2. Ahead(pread, count + 1) = Ahead(Ahead(pread, count), 1)
    BY <2>1, Cells, AheadTwice
  <2> QED
    BY <1>6, <2>1, <2>2, Cells DEF PutCount, IInv, TypeOK, FifoTypeOK, CursorsAgree,
                                   StoredBeforeCounted
<1>7. CASE MainReset \/ IsrFlush
  <2>1. /\ put = "idle" /\ UNCHANGED <<mem, put, data, ptr, toEnd, taken>>
        /\ count' = 0 /\ pread' = 0 /\ pwrite' = 0 /\ read2end' = Size /\ write2end' = Size
    BY <1>7 DEF MainReset, IsrFlush, fifo_reset, mainVars
  <2> QED
    BY <2>1, Cells DEF IInv, TypeOK, FifoTypeOK, CursorsAgree, StoredBeforeCounted,
                       Offsets, Ahead
<1>8. CASE IsrGet
  <2>a. read2end' \in 1 .. Size /\ taken' \in Data /\ count' \in 0 .. Size
    BY <1>8, TakeKeeps, Cells DEF IsrGet, Offsets
  <2>1. TypeOK'
    BY <1>8, <2>a, TakeKeeps DEF IInv, TypeOK, FifoTypeOK, Offsets
  <2>2. CursorsAgree'
    BY <1>8, TakeKeeps, Cells DEF IInv, CursorsAgree
  <2>3. StoredBeforeCounted'
    BY <1>8, TakeKeeps DEF IInv, StoredBeforeCounted
  <2> QED BY <2>1, <2>2, <2>3 DEF IInv
<1>9. ASSUME NEW x \in Data, IsrPut(x) PROVE IInv'
  <2>1. TypeOK'
    <3>1. mem' \in [Offsets -> Data] /\ count' \in 0 .. Size
      BY <1>9, RefillPuts, Cells
    <3>2. pwrite' \in Offsets /\ write2end' \in 1 .. Size
      BY <1>9, RefillPuts, Cells DEF Offsets
    <3>3. UNCHANGED <<pread, read2end, put, data, ptr, toEnd, taken>>
      BY <1>9, RefillPuts
    <3> QED BY <3>1, <3>2, <3>3 DEF IInv, TypeOK, FifoTypeOK
  <2>2. pwrite' = Ahead(pread, count)'
    BY <1>9, RefillPuts DEF Ahead
  <2>3. CursorsAgree'
    BY <1>9, <2>2, RefillPuts DEF IInv, CursorsAgree
  <2>4. StoredBeforeCounted'
    BY <1>9, RefillPuts DEF StoredBeforeCounted
  <2> QED BY <2>1, <2>3, <2>4 DEF IInv
<1>10. CASE UNCHANGED vars
  BY <1>10 DEF vars, fifoVars, mainVars, IInv, TypeOK, FifoTypeOK, CursorsAgree,
              StoredBeforeCounted
<1> QED
  BY <1>1, <1>2, <1>3, <1>4, <1>5, <1>6, <1>7, <1>8, <1>9, <1>10 DEF Next, MainStep

\* The inductive invariant holds in every state reachable without a flush
\* inside a put.
THEOREM Invariant == ASSUME ~FlushDuringPut PROVE Spec => []IInv
<1>1. IInv /\ [Next]_vars => IInv'
  BY StepInvariant
<1> QED BY <1>1, InitInvariant, PTL DEF Spec

\* Every variable keeps its type: no cursor leaves the buffer.
THEOREM TypeCorrect == ASSUME ~FlushDuringPut PROVE Spec => []TypeOK
BY Invariant, PTL DEF IInv

\* The cursors, their distances to the end and the counter agree between any
\* two stores of a put.
THEOREM CursorsCorrect == ASSUME ~FlushDuringPut PROVE Spec => []CursorsAgree
BY Invariant, PTL DEF IInv

\* The interrupt never takes a cell the put has not yet filled.
THEOREM StoredCorrect == ASSUME ~FlushDuringPut PROVE Spec => []StoredBeforeCounted
BY Invariant, PTL DEF IInv

-----------------------------------------------------------------------------
(* The bounded queue *)

LEMMA InitRefines == Init => Queue!Init
BY DEF Init, fifo_init, Queue!Init, Contents

LEMMA ContentsSeq ==
  ASSUME IInv
  PROVE  /\ Contents \in Seq(Data) /\ Len(Contents) = count
         /\ \A i \in 1 .. count : Contents[i] = mem[Ahead(pread, i - 1)]
BY Cells, CellsSeq DEF Contents

\* Filling the cell at the write cursor is invisible until it is counted.
LEMMA StoreIsHidden ==
  ASSUME IInv, PutStore
  PROVE  Contents' = Contents
<1> USE SizeAssumption
<1>1. /\ count < Size /\ pwrite = Ahead(pread, count) /\ pread' = pread /\ count' = count
      /\ mem' = [mem EXCEPT ![pwrite] = data]
  BY Cells DEF PutStore, IInv, CursorsAgree
<1>2. \A i \in 1 .. count : mem'[Ahead(pread, i - 1)] = mem[Ahead(pread, i - 1)]
  <2> TAKE i \in 1 .. count
  <2>1. Ahead(pread, i - 1) # pwrite
    BY <1>1, Cells, AheadDistinct
  <2>2. Ahead(pread, i - 1) \in Offsets
    BY Cells, CursorType
  <2> QED BY <1>1, <2>1, <2>2, Cells
<1> QED BY <1>1, <1>2 DEF Contents, Ahead

\* Counting a filled cell appends its byte, whoever filled it.
LEMMA CountAppends ==
  ASSUME IInv, NEW x \in Data, NEW m \in [Offsets -> Data],
         count < Size, count' = count + 1, pread' = pread, taken' = taken,
         mem' = m, m[Ahead(pread, count)] = x,
         \A i \in 1 .. count : m[Ahead(pread, i - 1)] = mem[Ahead(pread, i - 1)]
  PROVE  Queue!Put(x)
<1> USE SizeAssumption
<1>2. /\ Contents' \in Seq(Data) /\ Len(Contents') = count + 1
      /\ \A i \in 1 .. count + 1 : Contents'[i] = m[Ahead(pread, i - 1)]
  <2> DEFINE c == [i \in 1 .. count + 1 |-> m[Ahead(pread, i - 1)]]
  <2>1. count + 1 \in 0 .. Size
    BY Cells
  <2>2. /\ c \in Seq(Data) /\ Len(c) = count + 1
        /\ \A i \in 1 .. count + 1 : c[i] = m[Ahead(pread, i - 1)]
    BY <2>1, Cells, CellsSeq
  <2>3. Contents' = c
    BY DEF Contents, Ahead
  <2> QED BY <2>2, <2>3
<1>3. \A i \in 1 .. Len(Contents) : Contents'[i] = Contents[i]
  BY <1>2, Cells, ContentsSeq
<1>4. Contents'[Len(Contents) + 1] = x
  BY <1>2, Cells, ContentsSeq
<1>5. Contents' = Append(Contents, x)
  BY Cells, <1>2, <1>3, <1>4, ContentsSeq, IsAppend
<1> QED
  BY <1>5, ContentsSeq DEF Queue!Put

\* The main loop's put, once it counts, ...
LEMMA PutRefines ==
  ASSUME IInv, PutCount
  PROVE  Queue!Put(data)
<1>1. /\ count < Size /\ count' = count + 1 /\ mem' = mem /\ pread' = pread
      /\ taken' = taken /\ mem[Ahead(pread, count)] = data /\ data \in Data
  BY DEF PutCount, IInv, TypeOK, CursorsAgree, StoredBeforeCounted
<1> QED BY <1>1, Cells, CountAppends

\* ... and the interrupt's, in one piece.
LEMMA RefillRefines ==
  ASSUME IInv, NEW x \in Data, IsrPut(x)
  PROVE  Queue!Put(x)
<1> USE SizeAssumption
<1>1. /\ count < Size /\ count' = count + 1 /\ pread' = pread /\ taken' = taken
      /\ pwrite = Ahead(pread, count) /\ mem' = [mem EXCEPT ![pwrite] = x]
  BY RefillPuts
<1>2. mem' \in [Offsets -> Data] /\ mem'[Ahead(pread, count)] = x
  BY <1>1, Cells
<1>3. \A i \in 1 .. count : mem'[Ahead(pread, i - 1)] = mem[Ahead(pread, i - 1)]
  <2> TAKE i \in 1 .. count
  <2>1. Ahead(pread, i - 1) # pwrite
    BY <1>1, Cells, AheadDistinct
  <2>2. Ahead(pread, i - 1) \in Offsets
    BY Cells, CursorType
  <2> QED BY <1>1, <2>1, <2>2, Cells
<1> QED BY <1>1, <1>2, <1>3, CountAppends

\* The interrupt's get takes the head.
LEMMA GetRefines ==
  ASSUME IInv, IsrGet
  PROVE  Queue!Get
<1> USE SizeAssumption
<1>1. taken' = mem[pread]
  BY DEF IsrGet
<1>2. /\ Contents' \in Seq(Data) /\ Len(Contents') = count - 1
      /\ \A i \in 1 .. count - 1 : Contents'[i] = mem[Ahead(Ahead(pread, 1), i - 1)]
  <2> DEFINE c == [i \in 1 .. count - 1 |-> mem[Ahead(Ahead(pread, 1), i - 1)]]
  <2>1. Ahead(pread, 1) \in Offsets /\ count - 1 \in 0 .. Size
    BY TakeKeeps
  <2>2. /\ c \in Seq(Data) /\ Len(c) = count - 1
        /\ \A i \in 1 .. count - 1 : c[i] = mem[Ahead(Ahead(pread, 1), i - 1)]
    BY <2>1, Cells, CellsSeq
  <2>3. Contents' = c
    BY TakeKeeps DEF Contents, Ahead
  <2> QED BY <2>2, <2>3
<1>3. \A i \in 1 .. count - 1 : Ahead(Ahead(pread, 1), i - 1) = Ahead(pread, i)
  BY Cells, TakeKeeps, AheadTwice
<1>4. Contents # <<>> /\ Head(Contents) = mem[pread]
  <2>1. Ahead(pread, 0) = pread
    BY Cells DEF Ahead, Offsets
  <2>2. 1 \in 1 .. count /\ 1 - 1 = 0 /\ count # 0
    BY TakeKeeps
  <2>3. Contents[1] = mem[pread]
    BY <2>1, <2>2, ContentsSeq
  <2> QED BY <2>2, <2>3, ContentsSeq
<1>5. \A i \in 1 .. Len(Contents') : Contents'[i] = Contents[i + 1]
  <2> TAKE i \in 1 .. Len(Contents')
  <2>1. i \in 1 .. count - 1 /\ i + 1 \in 1 .. count /\ (i + 1) - 1 = i
    BY <1>2, TakeKeeps
  <2>2. Contents[i + 1] = mem[Ahead(pread, i)]
    BY <2>1, ContentsSeq
  <2> QED BY <1>2, <1>3, <2>1, <2>2
<1>6. Contents' = Tail(Contents)
  BY <1>2, <1>4, <1>5, ContentsSeq, IsTail
<1> QED
  BY <1>1, <1>4, <1>6 DEF Queue!Get

\* As long as no flush interrupts a put, what either side has put comes out once
\* each and in order.
THEOREM Refinement == ASSUME ~FlushDuringPut PROVE Spec => IsBoundedQueue
<1>1. ASSUME IInv, [Next]_vars
      PROVE  [Queue!Next]_<<Contents, taken>>
  <2> USE <1>1
  <2>1. CASE (\E x \in Data : PutCheck(x)) \/ PutWrap \/ PutSaveEnd \/ PutSavePtr
    <3>1. UNCHANGED <<mem, count, pread, taken>>
      BY <2>1 DEF PutCheck, PutWrap, PutSaveEnd, PutSavePtr, fifoVars
    <3> QED BY <3>1 DEF Contents
  <2>2. CASE PutStore
    BY <2>2, StoreIsHidden DEF PutStore
  <2>3. CASE PutCount
    <3>1. data \in Data
      BY DEF IInv, TypeOK
    <3> QED BY <2>3, <3>1, PutRefines DEF Queue!Next
  <2>4. CASE IsrGet
    BY <2>4, GetRefines DEF Queue!Next
  <2>5. CASE MainReset \/ IsrFlush
    <3>1. Contents' = <<>> /\ taken' = taken
      BY <2>5 DEF MainReset, IsrFlush, fifo_reset, Contents
    <3> QED BY <3>1 DEF Queue!Next, Queue!Reset
  <2>6. ASSUME NEW x \in Data, IsrPut(x) PROVE [Queue!Next]_<<Contents, taken>>
    BY <2>6, RefillRefines DEF Queue!Next
  <2>7. CASE UNCHANGED vars
    BY <2>7 DEF vars, fifoVars, Contents
  <2> QED
    BY <2>1, <2>2, <2>3, <2>4, <2>5, <2>6, <2>7 DEF Next, MainStep
<1> QED
  BY <1>1, Invariant, InitRefines, PTL DEF Spec, IsBoundedQueue, Queue!Spec
=============================================================================
