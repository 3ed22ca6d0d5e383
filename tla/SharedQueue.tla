----------------------------- MODULE SharedQueue -----------------------------
(***************************************************************************)
(* A queue into which the main loop puts with fifo_put, whose stores the     *)
(* timer interrupt can fall between.  MorseFSM.c has two of them.            *)
(*                                                                           *)
(* AsciiQueue: the decoder puts the characters to be sent, the interrupt     *)
(* gets them with fifo_get_nowait and, when the operator's break-in ends,    *)
(* flushes the queue with fifo_reset; the main loop resets it on a           *)
(* clear-buffer command.  FSM_Queue: Morse_FSM_Force_Dit and _Dah reset it   *)
(* and put one element, the interrupt gets the elements, flushes, and also   *)
(* puts: the letters it refills the queue with, never while the main loop is *)
(* inside its own put (MorseFSM's OneProducer).  The module allows what      *)
(* either of them may do.                                                    *)
(*                                                                           *)
(* Only the increment of count is protected, so a flush may fall inside a    *)
(* put.  FlushDuringPut says whether it does: the queue is a queue as long   *)
(* as it does not, and the run with FlushDuringPut shows what happens when   *)
(* it does.                                                                  *)
(***************************************************************************)
EXTENDS Fifo, Sequences

CONSTANTS NoByte,           \* nothing was taken out yet
          FlushDuringPut    \* the break-in's flush may interrupt a fifo_put

ASSUME NoByteAssumption == NoByte \notin Data
ASSUME FlushAssumption == FlushDuringPut \in BOOLEAN

VARIABLES put,      \* where the main loop is in _inline_fifo_put
          data,     \* its parameter
          ptr,      \* its local pwrite
          toEnd,    \* its local write2end
          taken     \* the byte the interrupt took last

mainVars == <<put, data, ptr, toEnd>>
vars == <<fifoVars, mainVars, taken>>

Init == /\ fifo_init
        /\ put = "idle" /\ data = Zero /\ ptr = 0 /\ toEnd = Size
        /\ taken = NoByte

-----------------------------------------------------------------------------
\* The main loop: insert_keybyte and Morse_FSM_Empty_Ascii_Buffer, and both in
\* turn in Morse_FSM_Force_Dit.

\* Mutant of PutCheck: one byte too many is let in.
PutCheckLate(x) == /\ put = "idle" /\ count <= Size
                   /\ put' = "store" /\ data' = x
                   /\ UNCHANGED <<fifoVars, ptr, toEnd, taken>>

\* if (f->count >= f->size) return 0; otherwise the put goes on.
PutCheck(x) == /\ put = "idle" /\ count < Size
               /\ put' = "store" /\ data' = x
               /\ UNCHANGED <<fifoVars, ptr, toEnd, taken>>

\* Mutant of PutStore: the byte goes to the next cell, *(++pwrite) = data.
StoreNext == /\ put = "store"
             /\ mem' = [mem EXCEPT ![Ahead(pwrite, 1)] = data]
             /\ ptr' = pwrite
             /\ put' = "wrap"
             /\ UNCHANGED <<count, pread, pwrite, read2end, write2end, data, toEnd, taken>>

\* *(pwrite++) = data
PutStore == /\ put = "store"
            /\ mem' = [mem EXCEPT ![pwrite] = data]
            /\ ptr' = pwrite
            /\ put' = "wrap"
            /\ UNCHANGED <<count, pread, pwrite, read2end, write2end, data, toEnd, taken>>

\* if (--write2end == 0) ... on the local copies
PutWrap == /\ put = "wrap"
           /\ ptr' = AdvancedPtr(ptr, write2end)
           /\ toEnd' = AdvancedEnd(write2end)
           /\ put' = "saveEnd"
           /\ UNCHANGED <<fifoVars, data, taken>>

\* Mutant of PutSaveEnd: the distance to the end is not saved.
EndUnsaved == /\ put = "saveEnd"
              /\ put' = "savePtr"
              /\ UNCHANGED <<fifoVars, data, ptr, toEnd, taken>>

PutSaveEnd == /\ put = "saveEnd"
              /\ write2end' = toEnd
              /\ put' = "savePtr"
              /\ UNCHANGED <<mem, count, pread, pwrite, read2end, data, ptr, toEnd, taken>>

PutSavePtr == /\ put = "savePtr"
              /\ pwrite' = ptr
              /\ put' = "count"
              /\ UNCHANGED <<mem, count, pread, read2end, write2end, data, ptr, toEnd, taken>>

\* The increment, between cli() and the restored SREG.
PutCount == /\ put = "count"
            /\ count' = count + 1
            /\ put' = "idle"
            /\ UNCHANGED <<mem, pread, pwrite, read2end, write2end, data, ptr, toEnd, taken>>

MainReset == /\ put = "idle"
             /\ fifo_reset
             /\ UNCHANGED <<mainVars, taken>>

MainStep == \/ \E x \in Data : PutCheck(x)
            \/ PutStore \/ PutWrap \/ PutSaveEnd \/ PutSavePtr \/ PutCount
            \/ MainReset

-----------------------------------------------------------------------------
\* The timer interrupt.

IsrGet == /\ fifo_get
          /\ taken' = mem[pread]
          /\ UNCHANGED mainVars

\* The whole fifo_put of a refill.
IsrPut(x) == /\ put = "idle"
             /\ fifo_put(x)
             /\ UNCHANGED <<mainVars, taken>>

\* Morse_FSM_Empty_All_Buffer when the break-in ends.
IsrFlush == /\ FlushDuringPut \/ put = "idle"
            /\ fifo_reset
            /\ UNCHANGED <<mainVars, taken>>

Next == MainStep \/ IsrGet \/ (\E x \in Data : IsrPut(x)) \/ IsrFlush

Spec == Init /\ [][Next]_vars

-----------------------------------------------------------------------------
(* Properties *)

\* Every variable has its type.
TypeOK == /\ FifoTypeOK
          /\ put \in {"idle", "store", "wrap", "saveEnd", "savePtr", "count"}
          /\ data \in Data /\ ptr \in Offsets /\ toEnd \in 1 .. Size
          /\ taken \in Data \cup {NoByte}

\* Between any two stores of a put the cursors and the counter tell the same
\* story to the interrupt: the write cursor is count bytes ahead of the read
\* cursor, or one more once the put has moved it; the distances to the end
\* are those of the pointers; and a put under way has room left.
CursorsAgree ==
  /\ read2end = Size - pread
  /\ put # "count" => pwrite = Ahead(pread, count)
  /\ put = "count" => pwrite = Ahead(Ahead(pread, count), 1)
  /\ put # "savePtr" => write2end = Size - pwrite
  /\ put \in {"saveEnd", "savePtr"} => /\ ptr = Ahead(pwrite, 1)
                                       /\ toEnd = Size - ptr
  /\ put = "savePtr" => write2end = toEnd
  /\ put = "wrap" => ptr = pwrite
  /\ put # "idle" => count < Size

\* The byte being put is in its cell before it is counted, so the interrupt
\* never takes a cell the put has not yet filled.
StoredBeforeCounted ==
  put \in {"wrap", "saveEnd", "savePtr", "count"} => mem[Ahead(pread, count)] = data

\* The queue's contents, oldest first.
Contents == [i \in 1 .. count |-> mem[Ahead(pread, i - 1)]]

\* As long as no flush interrupts a put, the characters or elements come out
\* once each and in the order in which they were put, by either side.
Queue == INSTANCE BoundedQueue WITH q <- Contents, out <- taken
IsBoundedQueue == Queue!Spec

\* fifo.h documents count as the number of characters in the buffer: outside
\* a put, that is how far the write cursor is ahead of the read cursor.
CountsContents == put = "idle" => pwrite = Ahead(pread, count)
=============================================================================
