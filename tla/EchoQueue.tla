------------------------------ MODULE EchoQueue ------------------------------
(***************************************************************************)
(* MorseEchotoUSB_Buffer: the timer interrupt puts each echoed character    *)
(* with fifo_put (it cannot be interrupted itself), and the main loop       *)
(* empties the queue in sende_uart_puffer: it takes the number of bytes     *)
(* found as its batch, and for each byte peeks it, hands it to              *)
(* CDC_Device_SendByte, and only if that succeeds removes it with           *)
(* fifo_get_nowait, whose stores the interrupt can fall between.            *)
(***************************************************************************)
EXTENDS Fifo, Sequences

CONSTANTS Batch,    \* BufferSize of sende_uart_puffer, CDC_TXRX_EPSIZE - 1
          NoByte    \* the -1 of fifo_peek_nowait and fifo_get_nowait

ASSUME BatchAssumption == Batch \in 1 .. 255
ASSUME NoByteAssumption == NoByte \notin Data

VARIABLES send,         \* where sende_uart_puffer is
          BufferCount,  \* bytes of the batch still to be sent
          tx_byte,      \* the byte peeked and sent
          ptr, toEnd,   \* pread and read2end of _inline_fifo_get
          data,         \* data of _inline_fifo_get
          txed_byte     \* the byte the last fifo_get_nowait returned

mainVars == <<send, BufferCount, tx_byte, ptr, toEnd, data, txed_byte>>
vars == <<fifoVars, mainVars>>

Init == /\ fifo_init
        /\ send = "wait" /\ BufferCount = 0
        /\ tx_byte = NoByte /\ txed_byte = NoByte
        /\ ptr = 0 /\ toEnd = Size /\ data = NoByte

-----------------------------------------------------------------------------
\* The timer interrupt echoes a character.

IsrPut(x) == fifo_put(x) /\ UNCHANGED mainVars

-----------------------------------------------------------------------------
\* The main loop sends the queue to the host.

\* Mutant of StartBatch: a full batch, whatever is in the queue.
FullBatch == /\ send = "wait" /\ count # 0
             /\ BufferCount' = Batch
             /\ send' = "batch"
             /\ UNCHANGED <<fifoVars, tx_byte, ptr, toEnd, data, txed_byte>>

StartBatch == /\ send = "wait" /\ count # 0
              /\ BufferCount' = IF count > Batch THEN Batch ELSE count
              /\ send' = "batch"
              /\ UNCHANGED <<fifoVars, tx_byte, ptr, toEnd, data, txed_byte>>

EndBatch == /\ send = "batch" /\ BufferCount = 0
            /\ send' = "wait"
            /\ UNCHANGED <<fifoVars, BufferCount, tx_byte, ptr, toEnd, data, txed_byte>>

\* Mutant of fifo_peek_nowait: it peeks the byte put last.
PeekNewest == /\ send = "batch" /\ BufferCount > 0
              /\ BufferCount' = BufferCount - 1
              /\ tx_byte' = mem[Behind(pwrite, 1)]
              /\ send' = "send"
              /\ UNCHANGED <<fifoVars, ptr, toEnd, data, txed_byte>>

fifo_peek_nowait == /\ send = "batch" /\ BufferCount > 0
                    /\ BufferCount' = BufferCount - 1
                    /\ tx_byte' = IF count = 0 THEN NoByte ELSE mem[pread]
                    /\ send' = "send"
                    /\ UNCHANGED <<fifoVars, ptr, toEnd, data, txed_byte>>

\* CDC_Device_SendByte fails: the byte stays queued, the batch is given up.
SendFails == /\ send = "send"
             /\ send' = "wait"
             /\ UNCHANGED <<fifoVars, BufferCount, tx_byte, ptr, toEnd, data, txed_byte>>

\* It succeeds: fifo_get_nowait finds a byte and loads the read cursor.
GetLoad == /\ send = "send" /\ count # 0
           /\ data' = mem[pread]
           /\ ptr' = AdvancedPtr(pread, read2end)
           /\ toEnd' = AdvancedEnd(read2end)
           /\ send' = "savePtr"
           /\ UNCHANGED <<fifoVars, BufferCount, tx_byte, txed_byte>>

GetSavePtr == /\ send = "savePtr"
              /\ pread' = ptr
              /\ send' = "saveEnd"
              /\ UNCHANGED <<mem, count, pwrite, read2end, write2end>>
              /\ UNCHANGED <<BufferCount, tx_byte, ptr, toEnd, data, txed_byte>>

\* Mutant of GetSaveEnd: the distance to the end is not saved.
EndUnsaved == /\ send = "saveEnd"
              /\ send' = "count"
              /\ UNCHANGED <<fifoVars, BufferCount, tx_byte, ptr, toEnd, data, txed_byte>>

GetSaveEnd == /\ send = "saveEnd"
              /\ read2end' = toEnd
              /\ send' = "count"
              /\ UNCHANGED <<mem, count, pread, pwrite, write2end>>
              /\ UNCHANGED <<BufferCount, tx_byte, ptr, toEnd, data, txed_byte>>

\* Mutant of GetCount: the byte is not counted out.
GetUncounted == /\ send = "count"
                /\ txed_byte' = data
                /\ send' = "batch"
                /\ UNCHANGED <<fifoVars, BufferCount, tx_byte, ptr, toEnd, data>>

\* The decrement, between cli() and the restored SREG.
GetCount == /\ send = "count"
            /\ count' = count - 1
            /\ txed_byte' = data
            /\ send' = "batch"
            /\ UNCHANGED <<mem, pread, pwrite, read2end, write2end>>
            /\ UNCHANGED <<BufferCount, tx_byte, ptr, toEnd, data>>

sende_uart_puffer == \/ StartBatch \/ EndBatch \/ fifo_peek_nowait \/ SendFails
                     \/ GetLoad \/ GetSavePtr \/ GetSaveEnd \/ GetCount

Next == (\E x \in Data : IsrPut(x)) \/ sende_uart_puffer

Spec == Init /\ [][Next]_vars

-----------------------------------------------------------------------------
(* Properties *)

\* Every variable has its type.
TypeOK == /\ FifoTypeOK
          /\ send \in {"wait", "batch", "send", "savePtr", "saveEnd", "count"}
          /\ BufferCount \in 0 .. Batch
          /\ tx_byte \in Data \cup {NoByte} /\ txed_byte \in Data \cup {NoByte}
          /\ ptr \in Offsets /\ toEnd \in 1 .. Size
          /\ data \in Data \cup {NoByte}

\* The oldest byte that is still counted.
Oldest == Behind(pwrite, count)

\* The three records the code keeps of the queue agree between any two stores
\* of the main loop: the counter says how far the write cursor is ahead of the
\* oldest byte, each cursor's distance to the end is the one its pointer has,
\* and the read cursor is at the oldest byte, or one ahead of it while
\* _inline_fifo_get has moved it and not yet counted the byte out.
CursorsAgree ==
  /\ write2end = Size - pwrite
  /\ send \in {"wait", "batch", "send", "savePtr"} => pread = Oldest
  /\ send \in {"saveEnd", "count"} => pread = Ahead(Oldest, 1)
  /\ send \in {"wait", "batch", "send", "savePtr"} => read2end = Size - pread
  /\ send = "saveEnd" => read2end = Size - Oldest
  /\ send = "count" => read2end = Size - pread

\* A batch never outruns the queue: whenever sende_uart_puffer peeks, sends or
\* removes a byte there is one, so the -1 of an empty queue is never sent to
\* the host as the byte 0xFF.  The interrupt only adds to what was counted.
BatchIsCovered ==
  /\ send = "batch" => BufferCount <= count
  /\ send \in {"send", "savePtr", "saveEnd", "count"} => BufferCount < count
  /\ send = "send" => tx_byte # NoByte

\* The byte removed is the byte that was sent, although it was peeked some
\* interrupts earlier: no echo is lost or sent twice.
SentIsRemoved == [][txed_byte' # txed_byte \/ count' < count => txed_byte' = tx_byte]_vars

\* The queue's contents, oldest first.
Contents == [i \in 1 .. count |-> mem[Ahead(Oldest, i - 1)]]

\* The echo queue with its two sides running concurrently is a bounded queue:
\* the host is sent the echoed characters once each and in order.
Queue == INSTANCE BoundedQueue WITH q <- Contents, out <- txed_byte
IsBoundedQueue == Queue!Spec
=============================================================================
