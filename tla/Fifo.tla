-------------------------------- MODULE Fifo --------------------------------
(***************************************************************************)
(* fifo_t of RingBuffer/fifo.h.  Both cursors are kept twice, as a pointer  *)
(* (here an offset into buffer_start) and as the number of bytes left       *)
(* before the end of the buffer; count is what the two sides share.  This   *)
(* module holds the state and the operations as they run where nothing can  *)
(* interrupt them; EchoQueue and SharedQueue cut one side into its steps.   *)
(***************************************************************************)
EXTENDS Integers

CONSTANTS Size,   \* f->size, a uint8_t
          Data,   \* the bytes
          Zero    \* the byte static storage starts with

ASSUME SizeAssumption == Size \in 1 .. 255
ASSUME ZeroAssumption == Zero \in Data

VARIABLES mem,                  \* *buffer_start
          count,                \* number of bytes in the queue
          pread, pwrite,        \* cursors
          read2end, write2end   \* bytes before each cursor has to wrap

fifoVars == <<mem, count, pread, pwrite, read2end, write2end>>

Offsets == 0 .. Size - 1

FifoTypeOK == /\ mem \in [Offsets -> Data]
              /\ count \in 0 .. Size
              /\ pread \in Offsets /\ pwrite \in Offsets
              /\ read2end \in 1 .. Size /\ write2end \in 1 .. Size

fifo_init == /\ mem = [i \in Offsets |-> Zero]
             /\ count = 0
             /\ pread = 0 /\ pwrite = 0
             /\ read2end = Size /\ write2end = Size

\* Mutant of fifo_reset: the write cursor stays where it is.
ResetOfReader == /\ count' = 0
                 /\ pread' = 0 /\ read2end' = Size
                 /\ UNCHANGED <<mem, pwrite, write2end>>

fifo_reset == /\ count' = 0
              /\ pread' = 0 /\ pwrite' = 0
              /\ read2end' = Size /\ write2end' = Size
              /\ UNCHANGED mem

\* A cursor one byte further: (--toEnd == 0) wraps it to the buffer's start.
AdvancedPtr(ptr, toEnd) == IF toEnd = 1 THEN ptr + 1 - Size ELSE ptr + 1
AdvancedEnd(toEnd)      == IF toEnd = 1 THEN Size ELSE toEnd - 1

\* fifo_put when it finds room; a full queue returns 0 and changes nothing.
fifo_put(x) == /\ count < Size
               /\ mem' = [mem EXCEPT ![pwrite] = x]
               /\ pwrite' = AdvancedPtr(pwrite, write2end)
               /\ write2end' = AdvancedEnd(write2end)
               /\ count' = count + 1
               /\ UNCHANGED <<pread, read2end>>

\* fifo_get_nowait when there is a byte; the byte is mem[pread].
fifo_get == /\ count # 0
            /\ pread' = AdvancedPtr(pread, read2end)
            /\ read2end' = AdvancedEnd(read2end)
            /\ count' = count - 1
            /\ UNCHANGED <<mem, pwrite, write2end>>

\* The offset n bytes after, and n bytes before, the offset ptr.
Ahead(ptr, n)  == IF ptr + n < Size THEN ptr + n ELSE ptr + n - Size
Behind(ptr, n) == IF ptr >= n THEN ptr - n ELSE ptr - n + Size
=============================================================================
