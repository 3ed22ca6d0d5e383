------------------------------- MODULE UsbLink -------------------------------
(***************************************************************************)
(* The main loop of cwkeyer.c and the way of a byte to the host: out of one *)
(* of the two queues, or of a dump of the emulated EEPROM, into the bank of *)
(* the IN endpoint, and with it to the host.  The loop is interrupted        *)
(* between any two of its steps by the timer interrupt, which puts echoed    *)
(* bytes, and by the interrupts of UsbDevice, which may change the device's  *)
(* state behind a test or select another endpoint behind a selection.  What  *)
(* is then written into the control endpoint is lost.                        *)
(*                                                                           *)
(* A byte is its source and its number.  Which bytes the host sends is not   *)
(* modelled: any of them may start a dump, or make the decoder reply.  The   *)
(* delay that emulates a baud rate takes time only.                          *)
(***************************************************************************)
EXTENDS UsbDevice

CONSTANTS Period,       \* every how many passes CDC_Device_USBTask is called, 32
          QueueSize,    \* of the two queues; the code's hold 128 replies, 32 echoes
          MaxEcho, MaxReply,    \* bounds: bytes echoed, replies of the decoder
          DumpSize      \* bytes of the emulated EEPROM, 256, dumped once

ASSUME LinkAssumption == /\ Period \in Nat \ {0} /\ QueueSize \in Nat \ {0}
                         /\ MaxEcho \in Nat /\ MaxReply \in Nat /\ DumpSize \in Nat

VARIABLES
  pc,           \* where the main loop is
  source,       \* what it is sending: "dump", "reply" or "echo"
  queue,        \* numbers of the bytes left to send of each
  produced,     \* how many bytes there have been of each
  BufferCount,  \* bytes left of this batch
  pass,         \* freecounter
  skipped,      \* observer: dumped bytes given up
  trouble       \* observer: a write was given up, or a byte lost, since the start

mainVars == <<pc, source, queue, produced, BufferCount, pass, skipped, trouble>>
vars     == <<deviceVars, mainVars>>

Sources == {"dump", "reply", "echo"}

\* What the registers of the device show of a selected endpoint, and what of
\* the main loop is left as it is.
Hardware == <<DeviceState, ConfigurationNumber, address, wake, BaudRate, request, stuck, got,
              events, opened, wipes>>
Kept     == <<queue, produced, pass, skipped, trouble>>

Goto(p) == pc' = p

\* What the main loop may read from the selected endpoint: the flags of the
\* control endpoint may be up or down.
Ready     == selected = "in" => ~sent
NotReady  == selected = "in" => sent
HasRoom   == selected = "in" => ~sent /\ Len(bank) < BankSize
HasNoRoom == selected = "in" => sent \/ Len(bank) >= BankSize
Select(e) == selected' = e

Produce(s) == /\ produced' = [produced EXCEPT ![s] = @ + 1]
              /\ queue' = [queue EXCEPT ![s] = Append(@, produced'[s])]

-----------------------------------------------------------------------------
(* A pass of the main loop                                                   *)

\* CDC_Device_ReceiveByte and Decoder: nothing, a reply, or a dump.  A reply
\* that finds its queue full is dropped.
ReceiveByte ==
  /\ pc = "receive"
  /\ \/ /\ Goto("task") /\ UNCHANGED <<queue, produced>>
     \/ /\ Online /\ produced["reply"] < MaxReply /\ Len(queue["reply"]) < QueueSize
        /\ Goto("task") /\ Produce("reply")
     \/ /\ Online /\ produced["dump"] = 0 /\ DumpSize > 0
        /\ Goto("count")
        /\ produced' = [produced EXCEPT !["dump"] = DumpSize]
        /\ queue' = [queue EXCEPT !["dump"] = [i \in 1 .. DumpSize |-> i]]
  /\ source' = "dump"
  /\ Select(IF Online THEN "out" ELSE selected)
  /\ UNCHANGED <<Hardware, bank, sent, BufferCount, pass, skipped, trouble>>

\* Every so many passes CDC_Device_USBTask.  USB_USBTask, which follows it,
\* finds no request that the interrupt has not served.
Task ==
  /\ pc = "task"
  /\ IF pass = Period - 1 /\ Online THEN Goto("flush") /\ Select("in")
                                    ELSE Goto("count") /\ UNCHANGED selected
  /\ source' = "reply" /\ pass' = (pass + 1) % Period
  /\ UNCHANGED <<Hardware, bank, sent, queue, produced, BufferCount, skipped, trouble>>

\* Mutant of Flush: a bank is only sent when it is full.
FlushFull ==
  /\ pc = "flush" /\ selected = "in"
  /\ IF ~sent /\ Online /\ Len(bank) = BankSize THEN Goto("clear full") ELSE Goto("count")
  /\ UNCHANGED <<Hardware, selected, bank, sent, source, BufferCount, Kept>>

\* CDC_Device_Flush of what the bank holds; a full bank is followed by a packet
\* of length zero.
Flush ==
  /\ pc = "flush" /\ selected = "in"
  /\ IF ~sent /\ Online /\ bank # <<>>
       THEN Goto(IF Len(bank) = BankSize THEN "clear full" ELSE "clear")
       ELSE Goto("count")
  /\ UNCHANGED <<Hardware, selected, bank, sent, source, BufferCount, Kept>>

\* After a reset it sees only what the control endpoint has, or an empty bank.
FlushOther ==
  /\ pc = "flush" /\ selected # "in"
  /\ Goto("count")
  /\ UNCHANGED <<Hardware, selected, bank, sent, source, BufferCount, Kept>>

\* Endpoint_WaitUntilReady, before the packet of length zero.
Flushed ==
  /\ pc = "flushed"
  /\ \/ Ready /\ Goto("clear")
     \/ NotReady /\ Goto("count")
  /\ UNCHANGED <<Hardware, selected, bank, sent, source, BufferCount, Kept>>

\* Endpoint_ClearIN, at its three places: it sends the bank.
ClearIN ==
  /\ \/ pc = "clear full" /\ Goto("flushed")
     \/ pc = "clear" /\ Goto("count")
     \/ pc = "full" /\ Goto("wait")
  /\ sent' = (selected = "in" \/ sent)
  /\ UNCHANGED <<Hardware, selected, bank, source, BufferCount, Kept>>

-----------------------------------------------------------------------------
(* sende_uart_puffer, once for each queue, and usb_puts for each byte of a   *)
(* dump, which gives up where sende_uart_puffer tries again.                  *)

Following == \/ source = "dump" /\ Goto("task") /\ UNCHANGED source
             \/ source = "reply" /\ Goto("count") /\ source' = "echo"
             \/ source = "echo" /\ Goto("receive") /\ UNCHANGED source

\* fifo_get_item_count, and the IN endpoint is selected.
Count ==
  /\ pc = "count"
  /\ IF queue[source] = <<>>
       THEN Following /\ UNCHANGED <<selected, BufferCount>>
       ELSE /\ Goto("poll") /\ BufferCount' = Len(queue[source]) /\ Select("in")
            /\ UNCHANGED source
  /\ UNCHANGED <<Hardware, bank, sent, Kept>>

\* A byte of a dump that cannot be sent is skipped; a queue keeps it.
GiveUp ==
  IF source = "dump"
    THEN /\ queue' = [queue EXCEPT !["dump"] = Tail(@)]
         /\ skipped' = skipped \cup {Head(queue["dump"])}
    ELSE UNCHANGED <<queue, skipped>>

\* Endpoint_IsINReady
Poll ==
  /\ pc = "poll"
  /\ \/ /\ Ready /\ Goto("send") /\ UNCHANGED <<queue, skipped>>
        /\ BufferCount' = IF source = "dump" THEN 1
                          ELSE IF BufferCount > BankSize - 1 THEN BankSize - 1
                          ELSE BufferCount
     \/ NotReady /\ Goto("count") /\ GiveUp /\ UNCHANGED BufferCount
  /\ UNCHANGED <<Hardware, selected, bank, sent, source, produced, pass, trouble>>

\* CDC_Device_SendByte: its first test, ...
Send ==
  /\ pc = "send"
  /\ IF BufferCount = 0 THEN Goto("count") /\ UNCHANGED <<queue, skipped, trouble>>
     ELSE IF Online     THEN Goto("select") /\ UNCHANGED <<queue, skipped, trouble>>
     ELSE Goto("count") /\ GiveUp /\ trouble' = TRUE
  /\ UNCHANGED <<Hardware, selected, bank, sent, source, produced, BufferCount, pass>>

SelectIN ==
  /\ pc = "select"
  /\ Select("in") /\ Goto("room")
  /\ UNCHANGED <<Hardware, bank, sent, source, BufferCount, Kept>>

\* Mutant of Room: an overfull bank.
RoomForOne ==
  /\ pc = "room"
  /\ \/ (selected = "in" => ~sent /\ Len(bank) <= BankSize) /\ Goto("write")
     \/ (selected = "in" => sent) /\ Goto("full")
  /\ UNCHANGED <<Hardware, selected, bank, sent, source, BufferCount, Kept>>

\* ... Endpoint_IsReadWriteAllowed, and a full bank is sent, ...
Room ==
  /\ pc = "room"
  /\ \/ HasRoom /\ Goto("write")
     \/ HasNoRoom /\ Goto("full")
  /\ UNCHANGED <<Hardware, selected, bank, sent, source, BufferCount, Kept>>

\* ... Endpoint_WaitUntilReady, ...
Wait ==
  /\ pc = "wait" /\ Ready
  /\ Goto("write")
  /\ UNCHANGED <<Hardware, selected, bank, sent, source, BufferCount, Kept>>

\* ... which fails on a suspended bus and after a time,
WaitFails ==
  /\ pc = "wait" /\ NotReady
  /\ Goto("count") /\ GiveUp /\ trouble' = TRUE
  /\ UNCHANGED <<Hardware, selected, bank, sent, source, produced, BufferCount, pass>>

\* Mutant of Write: the device's state is tested after the byte is written.
WriteThenTest ==
  /\ pc = "write"
  /\ IF selected = "in"
       THEN bank' = Append(bank, <<source, Head(queue[source])>>) /\ UNCHANGED trouble
       ELSE UNCHANGED bank /\ trouble' = TRUE
  /\ Goto(IF Online THEN "get" ELSE "count")
  /\ UNCHANGED <<Hardware, selected, sent, source, queue, produced, BufferCount, pass, skipped>>

\* Mutant of Write: a bank is sent as soon as it is full.
WriteAndSend ==
  /\ pc = "write"
  /\ IF selected = "in"
       THEN /\ bank' = Append(bank, <<source, Head(queue[source])>>)
            /\ sent' = (Len(bank') = BankSize) /\ UNCHANGED trouble
       ELSE UNCHANGED <<bank, sent>> /\ trouble' = TRUE
  /\ Goto("get")
  /\ UNCHANGED <<Hardware, selected, source, queue, produced, BufferCount, pass, skipped>>

\* ... and Endpoint_Write_8.
Write ==
  /\ pc = "write"
  /\ IF selected = "in"
       THEN bank' = Append(bank, <<source, Head(queue[source])>>) /\ UNCHANGED trouble
       ELSE UNCHANGED bank /\ trouble' = TRUE
  /\ Goto("get")
  /\ UNCHANGED <<Hardware, selected, sent, source, queue, produced, BufferCount, pass, skipped>>

\* Mutant of Get: the byte stays in its queue.
GetNothing ==
  /\ pc = "get"
  /\ BufferCount' = BufferCount - 1 /\ Goto("send")
  /\ UNCHANGED <<Hardware, selected, bank, sent, source, Kept>>

\* fifo_get_nowait
Get ==
  /\ pc = "get"
  /\ queue' = [queue EXCEPT ![source] = Tail(@)]
  /\ BufferCount' = BufferCount - 1 /\ Goto("send")
  /\ UNCHANGED <<Hardware, selected, bank, sent, source, produced, pass, skipped, trouble>>

MainLoop ==
  /\ Running
  /\ \/ ReceiveByte \/ Task \/ Flush \/ FlushOther \/ Flushed \/ ClearIN
     \/ Count \/ Poll \/ Send \/ SelectIN \/ Room \/ Wait \/ WaitFails \/ Write \/ Get

-----------------------------------------------------------------------------
\* The timer interrupt echoes a byte; one that finds the queue full is dropped.
Echo ==
  /\ produced["echo"] < MaxEcho /\ Len(queue["echo"]) < QueueSize
  /\ Produce("echo")
  /\ UNCHANGED <<deviceVars, pc, source, BufferCount, pass, skipped, trouble>>

\* Mutant of Device: with the bank, what waits in the queues is dropped.
DeviceDropsQueues ==
  /\ HostConnects \/ HostDisturbs \/ Served \/ HostReads
  /\ trouble' = (trouble \/ wipes' # wipes)
  /\ queue' = IF wipes' # wipes /\ pc = "receive" THEN [s \in Sources |-> <<>>] ELSE queue
  /\ UNCHANGED <<pc, source, produced, BufferCount, pass, skipped>>

\* What an interrupt or the host may do.  A wiped bank is trouble.
Device ==
  /\ HostConnects \/ HostDisturbs \/ Served \/ HostReads
  /\ trouble' = (trouble \/ wipes' # wipes)
  /\ UNCHANGED <<pc, source, queue, produced, BufferCount, pass, skipped>>

Init ==
  /\ DeviceInit
  /\ pc = "receive" /\ source = "dump" /\ BufferCount = 0 /\ pass = 0
  /\ queue = [s \in Sources |-> <<>>] /\ produced = [s \in Sources |-> 0]
  /\ skipped = {} /\ trouble = FALSE

Next == MainLoop \/ Echo \/ Device

Spec == Init /\ [][Next]_vars

\* The main loop is never held up for ever; interrupts end; and there is a host
\* that brings the link up again and goes on reading.
Fairness == /\ WF_vars(MainLoop)
            /\ WF_vars(Device /\ Served)
            /\ WF_vars(Device /\ HostConnects)
            /\ WF_vars(Device /\ HostReads)

FairSpec == Spec /\ Fairness

-----------------------------------------------------------------------------
(* Properties *)

\* What is left to be written of each source: a byte that is written and not yet
\* dequeued is not.
Left(s) == IF pc = "get" /\ source = s THEN Tail(queue[s]) ELSE queue[s]

Before(a, b) == a[1] = b[1] => a[2] < b[2]

\* No byte reaches the host twice or out of order, whatever happens to the bus
\* while it is on its way.
InOrder ==
  /\ \A i, j \in 1 .. Len(bank) : i < j => Before(bank[i], bank[j])
  /\ \A a \in got, j \in 1 .. Len(bank) : Before(a, bank[j])
  /\ \A s \in Sources : \A j \in 1 .. Len(Left(s)) :
       /\ \A i \in 1 .. Len(Left(s)) : i < j => Left(s)[i] < Left(s)[j]
       /\ \A i \in 1 .. Len(bank) : Before(bank[i], <<s, Left(s)[j]>>)
       /\ \A a \in got : Before(a, <<s, Left(s)[j]>>)

InQueue(s)  == {<<s, Left(s)[j]>> : j \in 1 .. Len(Left(s))}
OnTheWay(s) == {b \in InBank : b[1] = s} \cup InQueue(s)

\* Bytes of the two queues that neither are on their way nor have arrived.
Accepted == UNION {{s} \X (1 .. produced[s]) : s \in {"reply", "echo"}}
Lost     == {b \in Accepted : b \notin got \cup InBank \cup InQueue(b[1])}

\* A reset or a new configuration of a link in use costs what the bank holds
\* and the byte in hand, and nothing else ever costs any: not a host that stops
\* reading, not a suspended bus, not a baud rate of 0.
LossIsBounded == Cardinality(Lost) <= wipes * (BankSize + 1)

\* usb_puts does not wait for a bank that is on its way to the host, so a dump
\* may lose bytes although nothing goes wrong; but then it is its beginning.
DumpLosesItsBeginning ==
  ~trouble => \A n \in skipped : \A m \in 1 .. n : m \in skipped

\* As long as the host comes back the main loop comes back to decoding, unless
\* a SET_LINE_ENCODING is left without its data by a bus reset.
ReturnsToDecoder == []<>(pc = "receive" \/ stuck)

\* The echo gets out to the host, and the last of it does not stay in the bank
\* for want of another byte.
EchoGetsOut == []<>(OnTheWay("echo") = {} \/ stuck)

LinkTypeOK ==
  /\ DeviceState \in {"Unattached", "Powered", "Default", "Addressed", "Configured"}
  /\ ConfigurationNumber \in 0 .. 1 /\ BaudRate \in 0 .. 1
  /\ request \in {"none", "address", "configuration", "line"}
  /\ selected \in {"control", "in", "out"}
  /\ Len(bank) <= BankSize /\ bank \in Seq(Sources \X Nat)
  /\ \A s \in Sources \ {"dump"} : Len(queue[s]) <= QueueSize
  /\ BufferCount <= QueueSize + DumpSize
  /\ pc = "get" => BufferCount \in 1 .. BankSize - 1 /\ queue[source] # <<>>
  /\ skipped \subseteq 1 .. DumpSize /\ pass \in 0 .. Period - 1
=============================================================================
