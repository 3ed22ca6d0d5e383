---------------------------- MODULE UsbLinkProofs ----------------------------
(***************************************************************************)
(* UsbLink for every size of the bank, the queues and the dump, and however  *)
(* often the host disturbs the link.  Types says in particular that nothing  *)
(* is taken from an empty queue and no bank overfilled; on it rest the order *)
(* of the bytes, the beginning that a dump may lose (DumpInv), and the bound *)
(* on what the queues lose (LossInv).                                        *)
(***************************************************************************)
EXTENDS UsbLink, FiniteSetTheorems, SequenceTheorems, TLAPS

States == {"Unattached", "Powered", "Default", "Addressed", "Configured"}
Requests == {"none", "address", "configuration", "line"}
Endpoints == {"control", "in", "out"}

\* Where a byte is in hand: before it is written, and then not yet dequeued.
Unwritten == {"select", "room", "full", "wait", "write"}
InHand    == Unwritten \cup {"get"}
Batching  == {"count", "poll", "send"} \cup InHand
Places    == {"receive", "task", "flush", "clear full", "flushed", "clear"} \cup Batching

Bytes == Sources \X Nat

DeviceType ==
  /\ DeviceState \in States /\ ConfigurationNumber \in 0 .. 1 /\ BaudRate \in 0 .. 1
  /\ request \in Requests /\ selected \in Endpoints
  /\ sent \in BOOLEAN /\ opened \in BOOLEAN /\ wipes \in Nat
  /\ bank \in Seq(Bytes) /\ Len(bank) <= BankSize /\ got \subseteq Bytes

LoopType ==
  /\ pc \in Places /\ source \in Sources /\ pass \in 0 .. Period - 1
  /\ queue \in [Sources -> Seq(Nat)] /\ produced \in [Sources -> Nat]
  /\ Len(queue["reply"]) <= QueueSize /\ Len(queue["echo"]) <= QueueSize
  /\ BufferCount \in 0 .. QueueSize + DumpSize
  /\ trouble \in BOOLEAN

\* Of a batch no more is left than the queue holds.
Batch ==
  /\ pc = "poll" => BufferCount \in 1 .. Len(queue[source])
  /\ pc = "send" => BufferCount \in 0 .. BankSize - 1 /\ BufferCount <= Len(queue[source])
  /\ pc \in InHand => BufferCount \in 1 .. BankSize - 1 /\ BufferCount <= Len(queue[source])

\* A byte is only written into a bank that has room for it.
BankHasRoom ==
  /\ pc = "write" /\ selected = "in" => Len(bank) < BankSize
  /\ pc = "wait" /\ selected = "in" => sent \/ Len(bank) < BankSize

\* No byte is met that has not been produced.
Numbers ==
  /\ \A s \in Sources : \A j \in 1 .. Len(queue[s]) : queue[s][j] \in 1 .. produced[s]
  /\ \A i \in 1 .. Len(bank) : bank[i][2] \in 1 .. produced[bank[i][1]]
  /\ \A b \in got : b[2] \in 1 .. produced[b[1]]

\* The dumped bytes that are gone from its loop, and those left.
Gone == DumpSize - Len(queue["dump"])

DumpShape ==
  /\ produced["dump"] \in {0, DumpSize} /\ Len(queue["dump"]) <= DumpSize
  /\ produced["dump"] = 0 => queue["dump"] = <<>> /\ skipped = {}
  /\ \A j \in 1 .. Len(queue["dump"]) : queue["dump"][j] = Gone + j
  /\ skipped \subseteq 1 .. Gone
  /\ queue["dump"] # <<>> => source = "dump" /\ pc \in Batching

Types == DeviceType /\ LoopType /\ Batch /\ BankHasRoom /\ Numbers /\ DumpShape

\* A device that is online once its requests are served has been opened.
OpenedBefore ==
  /\ ConfigurationNumber # 0 \/ DeviceState = "Configured"
  /\ request # "configuration" /\ BaudRate # 0
  => opened

\* As long as there is no trouble a byte is only in hand where its way is open;
HandInv ==
  /\ pc \in InHand => opened
  /\ pc \in InHand \ {"select"} => selected = "in"
  /\ pc \in {"write", "get"} => ~sent

\* and either all bytes gone were skipped, or one was written, and then the bank
\* is not sent before it is full.
AllSkipped == skipped = 1 .. Gone /\ ~(pc = "get" /\ source = "dump")
OneWritten ==
  /\ \E m \in 0 .. Gone : skipped = 1 .. m
  /\ queue["dump"] # <<>> => opened /\ (pc = "poll" => selected = "in") /\ (sent => pc = "wait")

DumpInv == ~trouble => HandInv /\ (AllSkipped \/ OneWritten)

\* The byte that a wiped link may still cost, or the one written since.
Astray  == pc \in Unwritten \ {"select"} /\ selected # "in"
Reserve == IF Astray \/ (pc \in Unwritten /\ ~opened) THEN 1
           ELSE IF opened THEN 0 ELSE Len(bank)

LossInv ==
  /\ ~opened => Len(bank) <= 1 /\ (pc \in Unwritten => bank = <<>>)
  /\ IsFiniteSet(Lost)
  /\ Cardinality(Lost) + Reserve <= wipes * (BankSize + 1)

IInv == Types /\ OpenedBefore /\ InOrder /\ DumpInv /\ LossInv

-----------------------------------------------------------------------------
(* What the device's steps do to the main loop.                              *)

\* A reset or a new configuration; the host reads; anything else.
Wipes  == /\ bank' = <<>> /\ sent' = FALSE /\ got' = got
          /\ opened' = FALSE /\ wipes' = IF opened THEN wipes + 1 ELSE wipes
          /\ selected' \in {selected, "control"}
Reads  == /\ got' = got \cup InBank /\ bank' = <<>> /\ sent' = FALSE
          /\ opened' = opened /\ wipes' = wipes /\ selected' = selected
Leaves == /\ bank' = bank /\ sent' = sent /\ got' = got
          /\ opened' \in {opened, TRUE} /\ wipes' = wipes /\ selected' = selected

Steps == HostConnects \/ HostDisturbs \/ Served \/ HostReads

LEMMA ResetStep ==
  ASSUME DeviceType, OpenedBefore, BusReset
  PROVE  DeviceType' /\ OpenedBefore' /\ Wipes
<1>1. Wipes
  BY DEF BusReset, Reset, Wiped, Wipes
<1>2. DeviceState' = "Default" /\ ConfigurationNumber' = 0 /\ BaudRate' = BaudRate
      /\ request' \in Requests
  BY DEF BusReset, Reset, DeviceType, Requests
<1>3. bank' \in Seq(Bytes) /\ Len(bank') <= BankSize
  BY <1>1, DeviceAssumption DEF Wipes
<1>4. selected' \in Endpoints /\ wipes' \in Nat
  BY <1>1 DEF Wipes, DeviceType, Endpoints
<1>5. sent' \in BOOLEAN /\ opened' \in BOOLEAN
  BY <1>1 DEF Wipes
<1>6. got' \subseteq Bytes
  BY <1>1 DEF Wipes, DeviceType
<1>7. DeviceType'
  BY <1>2, <1>3, <1>4, <1>6, <1>5 DEF DeviceType, States
<1> QED BY <1>1, <1>2, <1>7 DEF OpenedBefore

LEMMA ConfigurationStep ==
  ASSUME DeviceType, OpenedBefore, ConfigurationChanged
  PROVE  DeviceType' /\ OpenedBefore' /\ Wipes
<1>1. Wipes
  BY DEF ConfigurationChanged, Wiped, Wipes
<1>2. DeviceState' \in States /\ ConfigurationNumber' = ConfigurationNumber
      /\ BaudRate' = 0 /\ request' = "none"
  BY DEF ConfigurationChanged, States
<1>3. bank' \in Seq(Bytes) /\ Len(bank') <= BankSize
  BY <1>1, DeviceAssumption DEF Wipes
<1>4. selected' \in Endpoints /\ wipes' \in Nat
  BY <1>1 DEF Wipes, DeviceType, Endpoints
<1>5. sent' \in BOOLEAN /\ opened' \in BOOLEAN
  BY <1>1 DEF Wipes
<1>6. got' \subseteq Bytes
  BY <1>1 DEF Wipes, DeviceType
<1>7. DeviceType'
  BY <1>2, <1>3, <1>4, <1>6, <1>5 DEF DeviceType, Requests
<1> QED BY <1>1, <1>2, <1>7 DEF OpenedBefore

LEMMA ReadStep ==
  ASSUME DeviceType, OpenedBefore, HostReads
  PROVE  DeviceType' /\ OpenedBefore' /\ Reads
<1>1. Reads
  BY DEF HostReads, Reads
<1>2. InBank \subseteq Bytes
  BY DEF DeviceType, InBank
<1>3. bank' \in Seq(Bytes) /\ Len(bank') <= BankSize
  BY <1>1, DeviceAssumption DEF Reads
<1>4. got' \subseteq Bytes /\ sent' \in BOOLEAN
  BY <1>1, <1>2 DEF Reads, DeviceType
<1>5. UNCHANGED <<DeviceState, ConfigurationNumber, BaudRate, request, selected, opened, wipes>>
  BY DEF HostReads
<1>6. DeviceType'
  BY <1>3, <1>4, <1>5 DEF DeviceType
<1> QED BY <1>1, <1>5, <1>6 DEF OpenedBefore

\* The requests and interrupts that leave the bank alone.
LEMMA OtherSteps ==
  ASSUME DeviceType, OpenedBefore,
         \/ Suspended \/ WokenUp \/ SetAddress \/ AddressEnabled \/ SetLineEncoding
         \/ \E c \in 0 .. 1 : SetConfiguration(c) \/ LineEncodingChanged(c)
         \/ LineEncodingGivenUp
  PROVE  DeviceType' /\ OpenedBefore' /\ Leaves
<1> USE DEF DeviceType, OpenedBefore, Leaves, States, Requests, Endpoints
<1>1. CASE Suspended
  BY <1>1 DEF Suspended
<1>2. CASE WokenUp
  BY <1>2 DEF WokenUp
<1>3. CASE SetAddress
  BY <1>3 DEF SetAddress, Arrives
<1>4. CASE AddressEnabled
  BY <1>4 DEF AddressEnabled
<1>5. CASE SetLineEncoding
  BY <1>5 DEF SetLineEncoding, Arrives
<1>6. ASSUME NEW c \in 0 .. 1, SetConfiguration(c) PROVE DeviceType' /\ OpenedBefore' /\ Leaves
  BY <1>6 DEF SetConfiguration, Arrives
<1>7. ASSUME NEW c \in 0 .. 1, LineEncodingChanged(c) PROVE DeviceType' /\ OpenedBefore' /\ Leaves
  <2>1. opened' \in BOOLEAN /\ opened' \in {opened, TRUE} /\ (BaudRate' # 0 => opened')
    BY <1>7 DEF LineEncodingChanged
  <2> QED BY <1>7, <2>1 DEF LineEncodingChanged
<1>8. CASE LineEncodingGivenUp
  BY <1>8 DEF LineEncodingGivenUp
<1> QED BY <1>1, <1>2, <1>3, <1>4, <1>5, <1>6, <1>7, <1>8

LEMMA DeviceStep ==
  ASSUME DeviceType, OpenedBefore, Steps
  PROVE  DeviceType' /\ OpenedBefore' /\ (Wipes \/ Reads \/ Leaves)
<1>1. \/ BusReset \/ ConfigurationChanged \/ HostReads
      \/ Suspended \/ WokenUp \/ SetAddress \/ AddressEnabled \/ SetLineEncoding
      \/ \E c \in 0 .. 1 : SetConfiguration(c) \/ LineEncodingChanged(c)
      \/ LineEncodingGivenUp
  BY DEF Steps, HostConnects, HostDisturbs, Served
<1> QED BY <1>1, ResetStep, ConfigurationStep, ReadStep, OtherSteps

-----------------------------------------------------------------------------
(* The queues                                                                *)

LEMMA Taken ==
  ASSUME LoopType, NEW s \in Sources, queue[s] # <<>>,
         queue' = [queue EXCEPT ![s] = Tail(@)]
  PROVE  /\ queue' \in [Sources -> Seq(Nat)]
         /\ queue'[s] = Tail(queue[s])
         /\ Len(queue'[s]) = Len(queue[s]) - 1
         /\ \A j \in 1 .. Len(queue'[s]) : j + 1 \in 1 .. Len(queue[s])
                                           /\ queue'[s][j] = queue[s][j + 1]
         /\ \A t \in Sources : t # s => queue'[t] = queue[t]
         /\ 1 \in 1 .. Len(queue[s]) /\ Head(queue[s]) = queue[s][1]
<1>1. queue[s] \in Seq(Nat) /\ queue \in [Sources -> Seq(Nat)]
  BY DEF LoopType
<1>2. Tail(queue[s]) \in Seq(Nat) /\ Len(Tail(queue[s])) = Len(queue[s]) - 1
      /\ Len(queue[s]) \in Nat \ {0}
  BY <1>1
<1>3. \A j \in 1 .. Len(Tail(queue[s])) : Tail(queue[s])[j] = queue[s][j + 1]
  BY <1>1
<1>4. queue'[s] = Tail(queue[s]) /\ \A t \in Sources : t # s => queue'[t] = queue[t]
  BY <1>1
<1>5. queue' \in [Sources -> Seq(Nat)]
  BY <1>1, <1>2
<1> QED BY <1>1, <1>2, <1>3, <1>4, <1>5

LEMMA Produced ==
  ASSUME LoopType, NEW s \in Sources, Produce(s)
  PROVE  /\ queue' \in [Sources -> Seq(Nat)] /\ produced' \in [Sources -> Nat]
         /\ produced'[s] = produced[s] + 1
         /\ queue'[s] = Append(queue[s], produced[s] + 1)
         /\ Len(queue'[s]) = Len(queue[s]) + 1
         /\ queue'[s][Len(queue[s]) + 1] = produced[s] + 1
         /\ \A j \in 1 .. Len(queue[s]) : queue'[s][j] = queue[s][j]
         /\ \A t \in Sources : t # s => queue'[t] = queue[t] /\ produced'[t] = produced[t]
<1>1. queue[s] \in Seq(Nat) /\ queue \in [Sources -> Seq(Nat)]
      /\ produced \in [Sources -> Nat] /\ produced[s] + 1 \in Nat
  BY DEF LoopType
<1>2. produced' \in [Sources -> Nat] /\ produced'[s] = produced[s] + 1
      /\ \A t \in Sources : t # s => produced'[t] = produced[t]
  BY <1>1 DEF Produce
<1>3. queue' = [queue EXCEPT ![s] = Append(@, produced[s] + 1)]
  BY <1>2 DEF Produce
<1>4. Append(queue[s], produced[s] + 1) \in Seq(Nat)
  BY <1>1
<1>5. queue'[s] = Append(queue[s], produced[s] + 1) /\ queue' \in [Sources -> Seq(Nat)]
      /\ \A t \in Sources : t # s => queue'[t] = queue[t]
  BY <1>1, <1>3, <1>4
<1> QED BY <1>1, <1>2, <1>5

\* What Types says of the data, for a step that leaves the data alone.
LEMMA DataKept ==
  ASSUME Types, UNCHANGED <<Hardware, bank, queue, produced, skipped>>,
         selected' \in Endpoints, sent' \in BOOLEAN, LoopType', Batch', BankHasRoom',
         queue["dump"] # <<>> => source' = "dump" /\ pc' \in Batching
  PROVE  Types'
<1>1. DeviceType'
  BY DEF Types, DeviceType, Hardware
<1>2. Numbers'
  BY DEF Types, Numbers, Hardware
<1>3. DumpShape'
  BY DEF Types, DumpShape, Gone
<1> QED BY <1>1, <1>2, <1>3 DEF Types

-----------------------------------------------------------------------------
(* The types of the main loop                                                *)

\* The steps that leave queues, bank and host alone.
Quiet == UNCHANGED <<Hardware, bank, queue, produced, skipped>>

\* The steps between the batches: nothing is in hand before or after.
LEMMA IdleTypes ==
  ASSUME Types, Task \/ Flush \/ FlushOther \/ Flushed \/ Count
         \/ (ClearIN /\ pc # "full") \/ (ReceiveByte /\ UNCHANGED <<queue, produced>>)
  PROVE  Types' /\ Quiet /\ pc \notin InHand /\ pc' \notin InHand /\ trouble' = trouble
<1>1. Quiet
  BY DEF Quiet, Task, Flush, FlushOther, Flushed, Count, ClearIN, ReceiveByte, Kept, Goto
<1>2. pass' \in 0 .. Period - 1
  <2>1. pass \in 0 .. Period - 1 /\ Period \in Nat \ {0}
    BY LinkAssumption DEF Types, LoopType
  <2>2. (pass + 1) % Period \in 0 .. Period - 1
    BY <2>1
  <2>3. pass' \in {pass, (pass + 1) % Period}
    BY DEF Task, Flush, FlushOther, Flushed, Count, ClearIN, ReceiveByte, Kept
  <2> QED BY <2>1, <2>2, <2>3
<1>3. /\ pc \notin InHand /\ pc' \notin InHand /\ trouble' = trouble
      /\ pc' \in Places /\ source' \in Sources
  BY DEF Task, Flush, FlushOther, Flushed, Count, ClearIN, ReceiveByte, Kept, Goto, Following,
         Places, Batching, InHand, Unwritten, Sources, Types, LoopType
<1>4. /\ selected' \in Endpoints
      /\ queue["dump"] # <<>> => source' = "dump" /\ pc' \in Batching
  BY DEF Task, Flush, FlushOther, Flushed, Count, ClearIN, ReceiveByte, Kept, Goto, Select,
         Following, Types, DumpShape, DeviceType, Endpoints, Batching, InHand, Unwritten
<1>5. sent' \in BOOLEAN
  BY DEF Task, Flush, FlushOther, Flushed, Count, ClearIN, ReceiveByte, Types, DeviceType
<1>6. /\ BufferCount' \in 0 .. QueueSize + DumpSize
      /\ pc' = "poll" => BufferCount' \in 1 .. Len(queue[source'])
      /\ pc' # "send"
  <2>1. CASE Count
    <3>1. Len(queue[source]) \in Nat
          /\ (queue[source] # <<>> => Len(queue[source]) \in 1 .. QueueSize + DumpSize)
      BY LinkAssumption DEF Types, LoopType, DumpShape, Sources
    <3> QED BY <2>1, <3>1 DEF Count, Goto, Following, Types, LoopType
  <2>2. CASE ~Count
    BY <2>2 DEF Task, Flush, FlushOther, Flushed, ClearIN, ReceiveByte, Goto, Types, LoopType
  <2> QED BY <2>1, <2>2
<1>7. LoopType'
  BY <1>1, <1>2, <1>3, <1>6 DEF Quiet, Types, LoopType
<1>8. Batch' /\ BankHasRoom'
  <2>1. queue' = queue /\ pc' \notin {"wait", "write"}
    BY <1>1, <1>3 DEF Quiet, InHand, Unwritten
  <2> QED BY <1>3, <1>6, <2>1 DEF Batch, BankHasRoom
<1> QED BY <1>1, <1>3, <1>4, <1>5, <1>7, <1>8, DataKept DEF Quiet

\* The steps of a batch that move no byte.
LEMMA BatchTypes ==
  ASSUME Types, Poll \/ Send \/ SelectIN \/ Room \/ Wait \/ WaitFails \/ (ClearIN /\ pc = "full"),
         UNCHANGED <<queue, skipped>>
  PROVE  Types' /\ Quiet /\ source' = source
<1>1. Quiet /\ source' = source /\ pass' = pass
  BY DEF Quiet, Poll, Send, SelectIN, Room, Wait, WaitFails, ClearIN, Kept
<1>2. /\ pc \in Batching /\ pc' \in Batching /\ pc' \notin {"poll", "get"}
      /\ selected' \in Endpoints
  BY DEF Poll, Send, SelectIN, Room, Wait, WaitFails, ClearIN, Kept, Goto, Select, Batching,
         InHand, Unwritten, Types, DeviceType, Endpoints
<1>3. sent' \in BOOLEAN /\ trouble' \in BOOLEAN
  BY DEF Poll, Send, SelectIN, Room, Wait, WaitFails, ClearIN, Kept, Types, DeviceType, LoopType
<1>4. /\ BufferCount' \in 0 .. QueueSize + DumpSize
      /\ pc' = "send" => BufferCount' \in 0 .. BankSize - 1 /\ BufferCount' <= Len(queue[source])
      /\ pc' \in InHand => BufferCount' \in 1 .. BankSize - 1
                          /\ BufferCount' <= Len(queue[source])
  <2>0. Len(queue[source]) \in Nat
    BY DEF Types, LoopType
  <2>1. CASE Poll
    <3>1. BufferCount \in 1 .. Len(queue[source]) /\ BufferCount \in 0 .. QueueSize + DumpSize
      BY <2>1 DEF Poll, Types, LoopType, Batch
    <3>2. BufferCount' \in 1 .. BufferCount
          /\ (pc' = "send" => BufferCount' <= BankSize - 1) /\ pc' \in {"send", "count"}
      BY <2>1, <3>1, DeviceAssumption DEF Poll, Goto
    <3>3. pc' \notin InHand
      BY <3>2 DEF InHand, Unwritten
    <3>4. BankSize \in Nat /\ QueueSize + DumpSize \in Nat
      BY DeviceAssumption, LinkAssumption
    <3>5. BufferCount' \in 0 .. QueueSize + DumpSize /\ BufferCount' <= Len(queue[source])
      BY <2>0, <3>1, <3>2, <3>4
    <3> QED BY <3>2, <3>3, <3>4, <3>5
  <2>2. CASE Send
    BY <2>0, <2>2 DEF Send, Goto, Types, LoopType, Batch, InHand, Unwritten
  <2>3. CASE ~Poll /\ ~Send
    BY <2>0, <2>3 DEF SelectIN, Room, Wait, WaitFails, ClearIN, Goto, Types, LoopType, Batch,
                      InHand, Unwritten
  <2> QED BY <2>1, <2>2, <2>3
<1>5. LoopType'
  BY <1>1, <1>2, <1>3, <1>4 DEF Quiet, Types, LoopType, Places
<1>6. Batch'
  BY <1>1, <1>2, <1>4 DEF Quiet, Batch
<1>7. BankHasRoom'
  BY DEF BankHasRoom, Types, DeviceType, Poll, Send, SelectIN, Room, Wait, WaitFails, ClearIN,
         Kept, Goto, Select, HasRoom, HasNoRoom, Ready
<1>8. queue["dump"] # <<>> => source' = "dump" /\ pc' \in Batching
  BY <1>1, <1>2 DEF Types, DumpShape
<1> QED BY <1>1, <1>2, <1>3, <1>5, <1>6, <1>7, <1>8, DataKept DEF Quiet

\* A byte of the dump is given up; so is the batch, of one byte, it was in.
GivesUp == /\ source = "dump" /\ queue["dump"] # <<>> /\ GiveUp
           /\ UNCHANGED <<Hardware, selected, bank, sent, source, produced, BufferCount, pass>>
           /\ pc \in Batching \ {"get"} /\ pc' = "count"
           /\ (trouble' = TRUE \/ (trouble' = trouble /\ pc = "poll" /\ NotReady))

LEMMA GiveUpTypes == ASSUME Types, GivesUp PROVE Types'
<1>1. LoopType /\ "dump" \in Sources /\ queue' = [queue EXCEPT !["dump"] = Tail(@)]
      /\ skipped' = skipped \cup {Head(queue["dump"])}
  BY DEF Types, GivesUp, GiveUp, Sources
<1>2. /\ queue' \in [Sources -> Seq(Nat)]
      /\ Len(queue'["dump"]) = Len(queue["dump"]) - 1
      /\ \A j \in 1 .. Len(queue'["dump"]) : j + 1 \in 1 .. Len(queue["dump"])
                                             /\ queue'["dump"][j] = queue["dump"][j + 1]
      /\ \A t \in Sources : t # "dump" => queue'[t] = queue[t]
      /\ 1 \in 1 .. Len(queue["dump"]) /\ Head(queue["dump"]) = queue["dump"][1]
  BY <1>1, Taken DEF GivesUp
<1>3. DeviceType'
  BY DEF Types, DeviceType, GivesUp, Hardware
<1>4. LoopType'
  BY <1>1, <1>2 DEF LoopType, GivesUp, Sources, Places, Batching
<1>5. Batch' /\ BankHasRoom'
  BY DEF Batch, BankHasRoom, GivesUp, InHand, Unwritten
<1>6. Numbers'
  <2>1. \A s \in Sources : \A j \in 1 .. Len(queue'[s]) : queue'[s][j] \in 1 .. produced[s]
    <3>1. \A s \in Sources : \A j \in 1 .. Len(queue[s]) : queue[s][j] \in 1 .. produced[s]
      BY DEF Types, Numbers
    <3>2. \A j \in 1 .. Len(queue'["dump"]) : queue'["dump"][j] \in 1 .. produced["dump"]
      BY <1>1, <1>2, <3>1
    <3> QED BY <1>2, <3>1, <3>2
  <2> QED BY <2>1 DEF Types, Numbers, GivesUp, Hardware
<1>7. DumpShape'
  <2>1. Len(queue["dump"]) \in Nat /\ DumpSize \in Nat /\ Len(queue["dump"]) <= DumpSize
    BY <1>1, LinkAssumption DEF LoopType, Types, DumpShape
  <2>2. Gone' = Gone + 1 /\ Gone \in Nat
    BY <1>2, <2>1 DEF Gone
  <2>3. Gone' = Gone + 1 /\ Gone \in Nat /\ Head(queue["dump"]) = Gone + 1
    BY <1>2, <2>2 DEF Types, DumpShape
  <2>4. skipped' \subseteq 1 .. Gone'
    <3>1. skipped \subseteq 1 .. Gone /\ skipped' = skipped \cup {Gone + 1}
      BY <1>1, <2>3 DEF Types, DumpShape
    <3> QED BY <2>3, <3>1
  <2>5. \A j \in 1 .. Len(queue'["dump"]) : queue'["dump"][j] = Gone' + j
    <3>1. \A j \in 1 .. Len(queue["dump"]) : queue["dump"][j] = Gone + j
      BY DEF Types, DumpShape
    <3> SUFFICES ASSUME NEW j \in 1 .. Len(queue'["dump"])
                 PROVE  queue'["dump"][j] = Gone' + j
      OBVIOUS
    <3>2. j \in Int /\ queue'["dump"][j] = Gone + (j + 1)
      BY <1>2, <3>1
    <3> QED BY <2>3, <3>2
  <2>6. produced' = produced /\ produced["dump"] # 0
    BY DEF GivesUp, Types, DumpShape
  <2> QED BY <1>2, <2>1, <2>4, <2>5, <2>6 DEF Types, DumpShape, GivesUp, Batching
<1> QED BY <1>3, <1>4, <1>5, <1>6, <1>7 DEF Types

\* What is left of each source is a sequence of produced numbers.
LEMMA LeftType ==
  ASSUME Types, NEW s \in Sources
  PROVE  /\ Left(s) \in Seq(Nat)
         /\ pc = "get" /\ source = s => Len(Left(s)) = Len(queue[s]) - 1
         /\ pc = "get" /\ source = s =>
              \A j \in 1 .. Len(Left(s)) : j + 1 \in 1 .. Len(queue[s])
                                           /\ Left(s)[j] = queue[s][j + 1]
         /\ ~(pc = "get" /\ source = s) => Left(s) = queue[s]
         /\ \A j \in 1 .. Len(Left(s)) : Left(s)[j] \in 1 .. produced[s]
<1>1. queue[s] \in Seq(Nat)
  BY DEF Types, LoopType
<1>2. CASE pc = "get" /\ source = s
  <2>1. BufferCount \in 1 .. Len(queue[s])
    BY <1>1, <1>2 DEF Types, Batch, InHand, LoopType
  <2>2. queue[s] # <<>> /\ Left(s) = Tail(queue[s])
    BY <1>1, <1>2, <2>1 DEF Left
  <2>3. Left(s) \in Seq(Nat) /\ Len(Left(s)) = Len(queue[s]) - 1
        /\ \A j \in 1 .. Len(Left(s)) : j + 1 \in 1 .. Len(queue[s])
                                        /\ Left(s)[j] = queue[s][j + 1]
    BY <1>1, <2>2
  <2> QED BY <1>2, <2>3 DEF Types, Numbers
<1>3. CASE ~(pc = "get" /\ source = s)
  BY <1>1, <1>3 DEF Left, Types, Numbers
<1> QED BY <1>2, <1>3

\* The byte that Write writes.
LEMMA InHandType ==
  ASSUME Types, pc \in InHand
  PROVE  /\ source \in Sources /\ queue[source] \in Seq(Nat) /\ queue[source] # <<>>
         /\ 1 \in 1 .. Len(queue[source]) /\ Head(queue[source]) = queue[source][1]
         /\ Head(queue[source]) \in 1 .. produced[source]
         /\ <<source, Head(queue[source])>> \in Bytes
<1>1. source \in Sources /\ queue[source] \in Seq(Nat)
  BY DEF Types, LoopType
<1>2. BufferCount \in 1 .. Len(queue[source])
  BY <1>1 DEF Types, Batch, LoopType
<1>3. 1 \in 1 .. Len(queue[source]) /\ Head(queue[source]) = queue[source][1]
      /\ queue[source] # <<>>
  BY <1>1, <1>2
<1>4. Head(queue[source]) \in 1 .. produced[source] /\ produced[source] \in Nat
  BY <1>1, <1>3 DEF Types, LoopType, Numbers
<1> QED BY <1>1, <1>3, <1>4 DEF Bytes

LEMMA WriteTypes == ASSUME Types, Write PROVE Types'
<1>1. pc \in InHand /\ pc' \in InHand /\ pc' = "get"
  BY DEF Write, Goto, InHand, Unwritten
<1>2. <<source, Head(queue[source])>> \in Bytes /\ Head(queue[source]) \in 1 .. produced[source]
  BY <1>1, InHandType
<1>3. bank \in Seq(Bytes) /\ (selected = "in" => Len(bank) < BankSize) /\ Len(bank) <= BankSize
      /\ Len(bank) \in Nat
  BY DEF Types, DeviceType, BankHasRoom, Write
<1>4. bank' \in {bank, Append(bank, <<source, Head(queue[source])>>)}
      /\ (selected # "in" => bank' = bank)
  BY DEF Write
<1>5. bank' \in Seq(Bytes) /\ Len(bank') <= BankSize
  <2>1. CASE selected = "in"
    <3>1. Append(bank, <<source, Head(queue[source])>>) \in Seq(Bytes)
          /\ Len(Append(bank, <<source, Head(queue[source])>>)) = Len(bank) + 1
      BY <1>2, <1>3
    <3>2. Len(bank) + 1 <= BankSize
      BY <1>3, <2>1, DeviceAssumption
    <3> QED BY <1>3, <1>4, <3>1, <3>2
  <2>2. CASE selected # "in"
    BY <1>3, <1>4, <2>2
  <2> QED BY <2>1, <2>2
<1>6. DeviceType'
  BY <1>5 DEF Types, DeviceType, Write, Hardware
<1>7. LoopType'
  <2>1. trouble' \in BOOLEAN
    BY DEF Write, Types, LoopType
  <2> QED BY <1>1, <2>1 DEF Types, LoopType, Write, Places, Batching
<1>8. Batch' /\ BankHasRoom'
  BY <1>1 DEF Types, Batch, BankHasRoom, Write
<1>9. \A i \in 1 .. Len(bank') : bank'[i][2] \in 1 .. produced[bank'[i][1]]
  <2>1. CASE bank' = bank
    BY <2>1 DEF Types, Numbers
  <2>2. CASE bank' = Append(bank, <<source, Head(queue[source])>>)
    BY <1>2, <1>3, <2>2 DEF Types, Numbers
  <2> QED BY <1>4, <2>1, <2>2
<1>10. Numbers'
  BY <1>9 DEF Types, Numbers, Write, Hardware
<1>11. DumpShape'
  BY <1>1 DEF Types, DumpShape, Gone, Write, Batching
<1> QED BY <1>6, <1>7, <1>8, <1>10, <1>11 DEF Types

LEMMA GetTypes == ASSUME Types, Get PROVE Types'
<1>1. pc = "get" /\ pc \in InHand /\ pc' = "send" /\ source' = source
  BY DEF Get, Goto, InHand
<1>2. LoopType /\ source \in Sources /\ queue[source] # <<>>
  BY <1>1, InHandType DEF Types
<1>3. /\ queue' \in [Sources -> Seq(Nat)]
      /\ Len(queue'[source]) = Len(queue[source]) - 1
      /\ \A j \in 1 .. Len(queue'[source]) : j + 1 \in 1 .. Len(queue[source])
                                             /\ queue'[source][j] = queue[source][j + 1]
      /\ \A t \in Sources : t # source => queue'[t] = queue[t]
      /\ Len(queue[source]) \in Nat
  BY <1>2, Taken DEF Get, LoopType
<1>4. source # "dump"
      \/ (Len(queue'["dump"]) = Len(queue["dump"]) - 1 /\ Len(queue["dump"]) \in Nat
          /\ \A j \in 1 .. Len(queue'["dump"]) : j + 1 \in 1 .. Len(queue["dump"])
                                                 /\ queue'["dump"][j] = queue["dump"][j + 1])
  BY <1>3
<1>5. DeviceType'
  BY DEF Types, DeviceType, Get, Hardware
<1>6. BufferCount \in 1 .. BankSize - 1 /\ BufferCount <= Len(queue[source])
      /\ BufferCount \in 0 .. QueueSize + DumpSize /\ BufferCount' = BufferCount - 1
  BY <1>1 DEF Types, Batch, LoopType, Get
<1>7. LoopType'
  <2>1. BufferCount' \in 0 .. QueueSize + DumpSize
    BY <1>6, DeviceAssumption, LinkAssumption
  <2>2. Len(queue'["reply"]) <= QueueSize /\ Len(queue'["echo"]) <= QueueSize
    BY <1>2, <1>3, LinkAssumption DEF LoopType, Sources
  <2> QED BY <1>1, <1>2, <1>3, <2>1, <2>2 DEF LoopType, Get, Places, Batching
<1>8. Batch'
  <2>1. BufferCount' \in 0 .. BankSize - 1 /\ BufferCount' <= Len(queue'[source])
    BY <1>3, <1>6, DeviceAssumption
  <2> QED BY <1>1, <2>1 DEF Batch, InHand, Unwritten
<1>9. BankHasRoom'
  BY <1>1 DEF BankHasRoom
<1>10. Numbers'
  <2>1. \A s \in Sources : \A j \in 1 .. Len(queue[s]) : queue[s][j] \in 1 .. produced[s]
    BY DEF Types, Numbers
  <2>2. \A j \in 1 .. Len(queue'[source]) : queue'[source][j] \in 1 .. produced[source]
    BY <1>2, <1>3, <2>1
  <2>3. \A s \in Sources : \A j \in 1 .. Len(queue'[s]) : queue'[s][j] \in 1 .. produced[s]
    BY <1>3, <2>1, <2>2
  <2> QED BY <2>3 DEF Types, Numbers, Get, Hardware
<1>11. DumpShape'
  <2>1. produced' = produced /\ skipped' = skipped /\ DumpSize \in Nat
    BY LinkAssumption DEF Get
  <2>2. CASE source # "dump"
    <3>1. queue'["dump"] = queue["dump"]
      BY <1>3, <2>2 DEF Sources
    <3> QED BY <1>1, <2>1, <2>2, <3>1 DEF Types, DumpShape, Gone
  <2>3. CASE source = "dump"
    <3>0. Len(queue["dump"]) \in Nat /\ Len(queue["dump"]) <= DumpSize
          /\ Len(queue'["dump"]) = Len(queue["dump"]) - 1
      BY <1>4, <2>3 DEF Types, DumpShape
    <3>1. Gone' = Gone + 1 /\ Gone \in Nat
      BY <2>1, <3>0 DEF Gone
    <3>2. \A j \in 1 .. Len(queue["dump"]) : queue["dump"][j] = Gone + j
      BY DEF Types, DumpShape
    <3>3. \A j \in 1 .. Len(queue'["dump"]) : queue'["dump"][j] = Gone' + j
      <4> SUFFICES ASSUME NEW j \in 1 .. Len(queue'["dump"])
                   PROVE  queue'["dump"][j] = Gone' + j
        OBVIOUS
      <4>1. j \in Int /\ queue'["dump"][j] = Gone + (j + 1)
        BY <1>4, <2>3, <3>2
      <4> QED BY <3>1, <4>1
    <3>4. skipped' \subseteq 1 .. Gone'
      BY <2>1, <3>1 DEF Types, DumpShape
    <3>5. produced["dump"] # 0 /\ Len(queue'["dump"]) <= DumpSize
      BY <1>2, <1>4, <2>1, <2>3 DEF Types, DumpShape
    <3> QED BY <1>1, <2>1, <2>3, <3>3, <3>4, <3>5 DEF Types, DumpShape, Batching
  <2> QED BY <2>2, <2>3
<1> QED BY <1>5, <1>7, <1>8, <1>9, <1>10, <1>11 DEF Types

\* A byte joins one of the queues, which has room for it: an echoed one in the
\* middle of whatever the main loop does, a reply before anything else.
Joins(s) ==
  /\ s \in {"reply", "echo"} /\ Len(queue[s]) < QueueSize /\ Produce(s)
  /\ UNCHANGED <<Hardware, bank, sent, BufferCount, pass, skipped, trouble>>
  /\ \/ UNCHANGED <<pc, source, selected>>
     \/ /\ pc = "receive" /\ pc' = "task" /\ source' = "dump"
        /\ selected' \in {selected, "out"}

LEMMA JoinTypes == ASSUME Types, NEW s, Joins(s) PROVE Types'
<1>1. LoopType /\ s \in Sources /\ Produce(s) /\ s # "dump"
  BY DEF Types, Joins, Sources
<1>2. /\ queue' \in [Sources -> Seq(Nat)] /\ produced' \in [Sources -> Nat]
      /\ produced'[s] = produced[s] + 1
      /\ Len(queue'[s]) = Len(queue[s]) + 1
      /\ queue'[s][Len(queue[s]) + 1] = produced[s] + 1
      /\ \A j \in 1 .. Len(queue[s]) : queue'[s][j] = queue[s][j]
      /\ \A t \in Sources : t # s => queue'[t] = queue[t] /\ produced'[t] = produced[t]
  BY <1>1, Produced
<1>3. Len(queue[s]) \in Nat /\ produced[s] \in Nat
      /\ queue'["dump"] = queue["dump"] /\ produced'["dump"] = produced["dump"]
  BY <1>1, <1>2 DEF LoopType, Sources
<1>4. DeviceType'
  BY DEF Types, DeviceType, Joins, Hardware, Endpoints
<1>5. LoopType'
  <2>1. \A t \in {"reply", "echo"} : Len(queue'[t]) <= QueueSize
    <3>1. QueueSize \in Nat /\ Len(queue'[s]) <= QueueSize
      BY <1>2, <1>3, LinkAssumption DEF Joins
    <3>2. \A t \in {"reply", "echo"} : Len(queue[t]) <= QueueSize /\ t \in Sources
      BY DEF Types, LoopType, Sources
    <3> QED BY <1>2, <3>1, <3>2
  <2> QED BY <1>1, <1>2, <2>1 DEF LoopType, Joins, Sources, Places, Batching
<1>6. Batch'
  <2>1. Len(queue[source]) \in Nat /\ Len(queue'[source]) \in Nat
        /\ Len(queue[source]) <= Len(queue'[source]) /\ BufferCount \in Nat
    <3>1. source \in Sources /\ Len(queue[source]) \in Nat /\ BufferCount \in Nat
      BY <1>1, LinkAssumption DEF LoopType
    <3>2. queue'[source] = queue[source] \/ (s = source /\ Len(queue'[s]) = Len(queue[s]) + 1)
      BY <1>2, <3>1
    <3> QED BY <3>1, <3>2
  <2>2. CASE UNCHANGED <<pc, source>>
    BY <2>1, <2>2 DEF Types, Batch, Joins
  <2>3. CASE pc' = "task"
    BY <2>3 DEF Batch, InHand, Unwritten
  <2> QED BY <2>2, <2>3 DEF Joins
<1>7. BankHasRoom'
  BY DEF Types, BankHasRoom, Joins
<1>8. \A t \in Sources : produced[t] <= produced'[t] /\ produced[t] \in Nat /\ produced'[t] \in Nat
  <2>1. \A t \in Sources : produced[t] \in Nat
    BY <1>1 DEF LoopType
  <2>2. \A t \in Sources : produced'[t] = produced[t] \/ produced'[t] = produced[t] + 1
    BY <1>2
  <2> QED BY <2>1, <2>2
<1>9. Numbers'
  <2>1. \A t \in Sources : \A j \in 1 .. Len(queue[t]) : queue[t][j] \in 1 .. produced[t]
    BY DEF Types, Numbers
  <2>2. \A j \in 1 .. Len(queue'[s]) : queue'[s][j] \in 1 .. produced'[s]
    <3> SUFFICES ASSUME NEW j \in 1 .. Len(queue'[s]) PROVE queue'[s][j] \in 1 .. produced'[s]
      OBVIOUS
    <3>1. j \in 1 .. Len(queue[s]) \/ j = Len(queue[s]) + 1
      BY <1>2, <1>3
    <3>2. CASE j \in 1 .. Len(queue[s])
      <4>1. queue'[s][j] = queue[s][j] /\ queue[s][j] \in 1 .. produced[s]
        BY <1>1, <1>2, <2>1, <3>2
      <4> QED BY <1>2, <1>3, <4>1
    <3>3. CASE j = Len(queue[s]) + 1
      BY <1>2, <1>3, <3>3
    <3> QED BY <3>1, <3>2, <3>3
  <2>3. \A t \in Sources : \A j \in 1 .. Len(queue'[t]) : queue'[t][j] \in 1 .. produced'[t]
    BY <1>2, <2>1, <2>2
  <2>4. \A b \in Bytes : b[1] \in Sources
    BY DEF Bytes
  <2>5. \A i \in 1 .. Len(bank) : bank[i] \in Bytes
    BY DEF Types, DeviceType
  <2>6. \A b \in Bytes : b[2] \in 1 .. produced[b[1]] => b[2] \in 1 .. produced'[b[1]]
    BY <1>8, <2>4
  <2> QED BY <2>3, <2>5, <2>6 DEF Types, DeviceType, Numbers, Joins, Hardware
<1>10. DumpShape'
  BY <1>3 DEF Types, DumpShape, Gone, Joins, Batching, InHand, Unwritten
<1> QED BY <1>4, <1>5, <1>6, <1>7, <1>9, <1>10 DEF Types

\* A dump begins.
Dumps ==
  /\ pc = "receive" /\ pc' = "count" /\ source' = "dump"
  /\ produced["dump"] = 0 /\ DumpSize > 0
  /\ produced' = [produced EXCEPT !["dump"] = DumpSize]
  /\ queue' = [queue EXCEPT !["dump"] = [i \in 1 .. DumpSize |-> i]]
  /\ selected' \in {selected, "out"}
  /\ UNCHANGED <<Hardware, bank, sent, BufferCount, pass, skipped, trouble>>

LEMMA DumpStarts ==
  ASSUME Types, Dumps
  PROVE  /\ queue' \in [Sources -> Seq(Nat)] /\ produced' \in [Sources -> Nat]
         /\ queue'["dump"] = [i \in 1 .. DumpSize |-> i] /\ Len(queue'["dump"]) = DumpSize
         /\ produced'["dump"] = DumpSize /\ queue["dump"] = <<>> /\ skipped = {}
         /\ \A t \in Sources : t # "dump" => queue'[t] = queue[t] /\ produced'[t] = produced[t]
<1>1. queue \in [Sources -> Seq(Nat)] /\ produced \in [Sources -> Nat] /\ "dump" \in Sources
      /\ DumpSize \in Nat
  BY LinkAssumption DEF Types, LoopType, Sources
<1>2. [i \in 1 .. DumpSize |-> i] \in Seq(Nat) /\ Len([i \in 1 .. DumpSize |-> i]) = DumpSize
  BY <1>1
<1> QED BY <1>1, <1>2 DEF Dumps, Types, DumpShape

LEMMA DumpTypes == ASSUME Types, Dumps PROVE Types'
<1>1. /\ queue' \in [Sources -> Seq(Nat)] /\ produced' \in [Sources -> Nat]
      /\ queue'["dump"] = [i \in 1 .. DumpSize |-> i] /\ Len(queue'["dump"]) = DumpSize
      /\ produced'["dump"] = DumpSize /\ queue["dump"] = <<>> /\ skipped = {}
      /\ \A t \in Sources : t # "dump" => queue'[t] = queue[t] /\ produced'[t] = produced[t]
  BY DumpStarts
<1>2. DeviceType'
  BY DEF Types, DeviceType, Dumps, Hardware, Endpoints
<1>3. LoopType'
  BY <1>1 DEF Types, LoopType, Dumps, Sources, Places, Batching
<1>4. Batch' /\ BankHasRoom'
  BY DEF Batch, BankHasRoom, Dumps, InHand, Unwritten
<1>5. DumpSize \in Nat
  BY LinkAssumption
<1>6. Numbers'
  <2>1. \A j \in 1 .. Len(queue'["dump"]) : queue'["dump"][j] \in 1 .. produced'["dump"]
    BY <1>1, <1>5
  <2>2. \A t \in Sources : \A j \in 1 .. Len(queue[t]) : queue[t][j] \in 1 .. produced[t]
    BY DEF Types, Numbers
  <2>3. \A t \in Sources : \A j \in 1 .. Len(queue'[t]) : queue'[t][j] \in 1 .. produced'[t]
    BY <1>1, <2>1, <2>2
  <2>4. \A b \in Bytes : b[1] \in Sources
    BY DEF Bytes
  <2>5. \A i \in 1 .. Len(bank) : bank[i] \in Bytes
    BY DEF Types, DeviceType
  <2>6. \A b \in Bytes : b[2] \in 1 .. produced[b[1]] => b[2] \in 1 .. produced'[b[1]]
    <3> SUFFICES ASSUME NEW b \in Bytes, b[2] \in 1 .. produced[b[1]]
                 PROVE  b[2] \in 1 .. produced'[b[1]]
      OBVIOUS
    <3>1. b[1] # "dump"
      BY DEF Dumps
    <3> QED BY <1>1, <2>4, <3>1
  <2> QED BY <2>3, <2>5, <2>6 DEF Types, DeviceType, Numbers, Dumps, Hardware
<1>7. DumpShape'
  <2>1. Gone' = 0
    BY <1>1, <1>5 DEF Gone
  <2>2. \A j \in 1 .. Len(queue'["dump"]) : queue'["dump"][j] = Gone' + j
    BY <1>1, <1>5, <2>1
  <2>3. skipped' = {} /\ source' = "dump" /\ pc' \in Batching /\ produced'["dump"] # 0
    BY <1>1 DEF Dumps, Batching
  <2> QED BY <1>1, <1>5, <2>2, <2>3 DEF DumpShape
<1> QED BY <1>2, <1>3, <1>4, <1>6, <1>7 DEF Types

DeviceMoves == /\ DeviceType' /\ (Wipes \/ Reads \/ Leaves)
               /\ trouble' = (trouble \/ wipes' # wipes)
               /\ UNCHANGED <<pc, source, queue, produced, BufferCount, pass, skipped>>

LEMMA DeviceTypes == ASSUME Types, DeviceMoves PROVE Types'
<1>1. LoopType' /\ Batch' /\ DumpShape' /\ DeviceType'
  <2>1. trouble' \in BOOLEAN
    BY DEF DeviceMoves
  <2>2. UNCHANGED <<pc, source, queue, produced, BufferCount, pass, skipped>> /\ DeviceType'
    BY DEF DeviceMoves
  <2>3. LoopType'
    BY <2>1, <2>2 DEF Types, LoopType
  <2>4. Batch' /\ DumpShape'
    BY <2>2 DEF Types, Batch, DumpShape, Gone
  <2> QED BY <2>2, <2>3, <2>4
<1>2. BankHasRoom'
  <2>1. CASE bank' = <<>>
    BY <2>1, DeviceAssumption DEF BankHasRoom
  <2>2. CASE bank' # <<>>
    <3>1. Leaves /\ pc' = pc
      BY <2>2 DEF DeviceMoves, Wipes, Reads
    <3>2. bank' = bank /\ selected' = selected /\ sent' = sent
      BY <3>1 DEF Leaves
    <3> QED BY <3>1, <3>2 DEF Types, BankHasRoom
  <2> QED BY <2>1, <2>2
<1>3. Numbers'
  <2>1. \A i \in 1 .. Len(bank) : bank[i][2] \in 1 .. produced[bank[i][1]]
    BY DEF Types, Numbers
  <2>2. \A b \in InBank : b[2] \in 1 .. produced[b[1]]
    BY <2>1 DEF InBank
  <2>3. \A b \in got' : b[2] \in 1 .. produced[b[1]]
    BY <2>2 DEF Types, Numbers, DeviceMoves, Wipes, Reads, Leaves
  <2>4. bank' = <<>> \/ bank' = bank
    BY DEF DeviceMoves, Wipes, Reads, Leaves
  <2>5. \A i \in 1 .. Len(bank') : bank'[i][2] \in 1 .. produced[bank'[i][1]]
    BY <2>1, <2>4
  <2> QED BY <2>3, <2>5 DEF Types, Numbers, DeviceMoves
<1> QED BY <1>1, <1>2, <1>3 DEF Types

-----------------------------------------------------------------------------
(* The steps, by what they move                                              *)

\* Of the steps without a name of their own.
Passes == Quiet /\ pc \notin InHand /\ pc' \notin InHand /\ trouble' = trouble
          /\ (Task \/ Flush \/ FlushOther \/ Flushed \/ Count
              \/ (ClearIN /\ pc # "full") \/ (ReceiveByte /\ UNCHANGED <<queue, produced>>))
Handles == Quiet /\ source' = source
           /\ (Poll \/ Send \/ SelectIN \/ Room \/ Wait \/ WaitFails \/ (ClearIN /\ pc = "full"))

LEMMA LoopSteps ==
  ASSUME Types, MainLoop
  PROVE  \/ Passes \/ Handles \/ GivesUp \/ Write \/ Get \/ Dumps
         \/ \E s \in {"reply", "echo"} : Joins(s)
<1>1. CASE Task \/ Flush \/ FlushOther \/ Flushed \/ Count
           \/ (ClearIN /\ pc # "full") \/ (ReceiveByte /\ UNCHANGED <<queue, produced>>)
  BY <1>1, IdleTypes DEF Passes
<1>2. CASE ReceiveByte /\ ~UNCHANGED <<queue, produced>>
  BY <1>2 DEF ReceiveByte, Goto, Select, Joins, Dumps
<1>3. CASE Poll \/ Send \/ SelectIN \/ Room \/ Wait \/ WaitFails \/ (ClearIN /\ pc = "full")
  <2>1. CASE UNCHANGED <<queue, skipped>>
    BY <1>3, <2>1, BatchTypes DEF Handles
  <2>2. CASE ~UNCHANGED <<queue, skipped>>
    <3>1. /\ Poll \/ Send \/ WaitFails
          /\ GiveUp /\ source = "dump"
      BY <1>3, <2>2 DEF Poll, Send, WaitFails, SelectIN, Room, Wait, ClearIN, GiveUp, Kept
    <3>2. pc \in {"poll", "send", "wait"} /\ (pc = "send" => BufferCount # 0) /\ pc' = "count"
          /\ (trouble' = TRUE \/ (trouble' = trouble /\ pc = "poll" /\ NotReady))
      BY <2>2, <3>1 DEF Poll, Send, WaitFails, Goto
    <3>3. queue["dump"] \in Seq(Nat)
      BY DEF Types, LoopType, Sources
    <3>4. queue["dump"] # <<>>
      BY <3>1, <3>2, <3>3 DEF Types, LoopType, Batch, InHand, Unwritten
    <3>5. UNCHANGED <<Hardware, selected, bank, sent, source, produced, BufferCount, pass>>
      BY <2>2, <3>1 DEF Poll, Send, WaitFails
    <3> QED BY <3>1, <3>2, <3>4, <3>5 DEF GivesUp, Batching, InHand, Unwritten
  <2> QED BY <2>1, <2>2
<1> QED BY <1>1, <1>2, <1>3 DEF MainLoop

LEMMA StepKinds ==
  ASSUME Types, OpenedBefore, Next
  PROVE  \/ Passes
         \/ Handles /\ Running
         \/ GivesUp \/ Write \/ Get \/ Dumps
         \/ \E s \in {"reply", "echo"} : Joins(s)
         \/ DeviceMoves /\ OpenedBefore'
<1>1. CASE MainLoop
  BY <1>1, LoopSteps DEF MainLoop
<1>2. CASE Echo
  BY <1>2 DEF Echo, Joins, deviceVars, Hardware
<1>3. CASE Device
  <2>1. DeviceType /\ Steps
    BY <1>3 DEF Types, Device, Steps
  <2>2. DeviceType' /\ OpenedBefore' /\ (Wipes \/ Reads \/ Leaves)
    BY <2>1, DeviceStep
  <2> QED BY <1>3, <2>2 DEF Device, DeviceMoves
<1> QED BY <1>1, <1>2, <1>3 DEF Next

LEMMA TypesStep == ASSUME Types, OpenedBefore, [Next]_vars PROVE Types' /\ OpenedBefore'
<1>1. ASSUME Next PROVE Types'
  <2>1. ASSUME Passes PROVE Types'
    BY <2>1, IdleTypes DEF Passes
  <2>2. ASSUME Handles PROVE Types'
    BY <2>2, BatchTypes DEF Handles, Quiet
  <2> QED BY <1>1, <2>1, <2>2, StepKinds, GiveUpTypes, WriteTypes, GetTypes, DumpTypes,
             JoinTypes, DeviceTypes
<1>2. ASSUME Next PROVE OpenedBefore'
  <2>1. ASSUME UNCHANGED Hardware PROVE OpenedBefore'
    BY <2>1 DEF OpenedBefore, Hardware
  <2>2. Passes \/ Handles \/ GivesUp \/ Write \/ Get \/ Dumps
          \/ (\E s \in {"reply", "echo"} : Joins(s)) => UNCHANGED Hardware
    BY DEF Passes, Handles, Quiet, GivesUp, Write, Get, Dumps, Joins
  <2> QED BY <1>2, <2>1, <2>2, StepKinds
<1>3. ASSUME UNCHANGED vars PROVE Types' /\ OpenedBefore'
  BY <1>3 DEF vars, deviceVars, mainVars, Types, DeviceType, LoopType, Batch, BankHasRoom,
              Numbers, DumpShape, Gone, OpenedBefore
<1> QED BY <1>1, <1>2, <1>3

-----------------------------------------------------------------------------
(* The order of the bytes: InOrder of a bank B, of what the host has read, G, *)
(* and of what is left of each source, L.                                    *)

Ordered(B, G, L) ==
  /\ \A i, j \in 1 .. Len(B) : i < j => Before(B[i], B[j])
  /\ \A a \in G, j \in 1 .. Len(B) : Before(a, B[j])
  /\ \A s \in Sources : \A j \in 1 .. Len(L[s]) :
       /\ \A i \in 1 .. Len(L[s]) : i < j => L[s][i] < L[s][j]
       /\ \A i \in 1 .. Len(B) : Before(B[i], <<s, L[s][j]>>)
       /\ \A a \in G : Before(a, <<s, L[s][j]>>)

LeftOver == [s \in Sources |-> Left(s)]
Lines    == [Sources -> Seq(Nat)]

LEMMA InOrderIs ==
  /\ InOrder <=> Ordered(bank, got, LeftOver)
  /\ InOrder' <=> Ordered(bank', got', LeftOver')
<1>1. InOrder <=> Ordered(bank, got, LeftOver)
  BY DEF InOrder, Ordered, LeftOver
<1>2. InOrder' <=> Ordered(bank', got', LeftOver')
  BY DEF InOrder, Ordered, LeftOver
<1> QED BY <1>1, <1>2

\* The first byte of a source is dropped, ...
LEMMA OrderedTail ==
  ASSUME NEW B \in Seq(Bytes), NEW G \in SUBSET Bytes, NEW L \in Lines, NEW M \in Lines,
         Ordered(B, G, L), NEW s \in Sources, Len(M[s]) = Len(L[s]) - 1,
         \A j \in 1 .. Len(M[s]) : j + 1 \in 1 .. Len(L[s]) /\ M[s][j] = L[s][j + 1],
         \A t \in Sources : t # s => M[t] = L[t]
  PROVE  Ordered(B, G, M)
<1>1. ASSUME NEW j \in 1 .. Len(M[s])
      PROVE  /\ \A i \in 1 .. Len(M[s]) : i < j => M[s][i] < M[s][j]
             /\ \A i \in 1 .. Len(B) : Before(B[i], <<s, M[s][j]>>)
             /\ \A a \in G : Before(a, <<s, M[s][j]>>)
  <2>1. j + 1 \in 1 .. Len(L[s]) /\ M[s][j] = L[s][j + 1]
    OBVIOUS
  <2>2. ASSUME NEW i \in 1 .. Len(M[s]), i < j PROVE M[s][i] < M[s][j]
    <3>1. i + 1 \in 1 .. Len(L[s]) /\ M[s][i] = L[s][i + 1] /\ i + 1 < j + 1
      BY <2>2
    <3> QED BY <2>1, <3>1 DEF Ordered
  <2> QED BY <2>1, <2>2 DEF Ordered
<1> QED BY <1>1 DEF Ordered

\* ... or first put into the bank.
LEMMA OrderedMove ==
  ASSUME NEW B \in Seq(Bytes), NEW G \in SUBSET Bytes, NEW L \in Lines, NEW M \in Lines,
         Ordered(B, G, L), NEW s \in Sources, Len(M[s]) = Len(L[s]) - 1, 1 \in 1 .. Len(L[s]),
         \A j \in 1 .. Len(M[s]) : j + 1 \in 1 .. Len(L[s]) /\ M[s][j] = L[s][j + 1],
         \A t \in Sources : t # s => M[t] = L[t]
  PROVE  Ordered(Append(B, <<s, L[s][1]>>), G, M)
<1> DEFINE b == <<s, L[s][1]>>
           C == Append(B, b)
<1>1. Ordered(B, G, M)
  BY OrderedTail
<1>2. Len(C) = Len(B) + 1 /\ Len(B) \in Nat /\ C[Len(B) + 1] = b
      /\ \A i \in 1 .. Len(B) : C[i] = B[i]
  OBVIOUS
<1>3. (\A i \in 1 .. Len(B) : Before(B[i], b)) /\ \A a \in G : Before(a, b)
  BY DEF Ordered
<1>4. \A t \in Sources : \A j \in 1 .. Len(M[t]) : Before(b, <<t, M[t][j]>>)
  <2> SUFFICES ASSUME NEW j \in 1 .. Len(M[s]) PROVE L[s][1] < M[s][j]
    BY DEF Before
  <2>1. j + 1 \in 1 .. Len(L[s]) /\ M[s][j] = L[s][j + 1] /\ 1 < j + 1
    OBVIOUS
  <2> QED BY <2>1 DEF Ordered
<1> HIDE DEF b, C
<1>5. \A i \in 1 .. Len(C) : i \in 1 .. Len(B) \/ i = Len(B) + 1
  BY <1>2
<1>6. \A i, j \in 1 .. Len(C) : i < j => Before(C[i], C[j])
  BY <1>1, <1>2, <1>3, <1>5 DEF Ordered
<1>7. \A a \in G, j \in 1 .. Len(C) : Before(a, C[j])
  BY <1>1, <1>2, <1>3, <1>5 DEF Ordered
<1>8. \A t \in Sources : \A j \in 1 .. Len(M[t]) : \A i \in 1 .. Len(C) :
        Before(C[i], <<t, M[t][j]>>)
  BY <1>1, <1>2, <1>4, <1>5 DEF Ordered
<1>9. Ordered(C, G, M)
  BY <1>1, <1>6, <1>7, <1>8 DEF Ordered
<1> QED BY <1>9 DEF C, b

\* A byte with a higher number than all others of its source joins its queue.
LEMMA OrderedAppend ==
  ASSUME NEW B \in Seq(Bytes), NEW G \in SUBSET Bytes, NEW L \in Lines, NEW M \in Lines,
         Ordered(B, G, L), NEW s \in Sources, NEW n \in Nat, Len(M[s]) = Len(L[s]) + 1,
         M[s][Len(L[s]) + 1] = n, \A j \in 1 .. Len(L[s]) : M[s][j] = L[s][j] /\ L[s][j] < n,
         \A i \in 1 .. Len(B) : Before(B[i], <<s, n>>),
         \A a \in G : Before(a, <<s, n>>),
         \A t \in Sources : t # s => M[t] = L[t]
  PROVE  Ordered(B, G, M)
<1>1. ASSUME NEW j \in 1 .. Len(M[s])
      PROVE  /\ \A i \in 1 .. Len(M[s]) : i < j => M[s][i] < M[s][j]
             /\ \A i \in 1 .. Len(B) : Before(B[i], <<s, M[s][j]>>)
             /\ \A a \in G : Before(a, <<s, M[s][j]>>)
  <2>0. Len(L[s]) \in Nat
    BY DEF Lines
  <2>1. CASE j = Len(L[s]) + 1
    <3>1. \A i \in 1 .. Len(M[s]) : i < j => i \in 1 .. Len(L[s])
      BY <2>0, <2>1
    <3> QED BY <2>1, <3>1
  <2>2. CASE j \in 1 .. Len(L[s])
    <3>1. \A i \in 1 .. Len(M[s]) : i < j => i \in 1 .. Len(L[s])
      BY <2>0, <2>2
    <3>2. M[s][j] = L[s][j]
      BY <2>2
    <3>3. \A i \in 1 .. Len(M[s]) : i < j => M[s][i] < M[s][j]
      BY <2>2, <3>1, <3>2 DEF Ordered
    <3>4. /\ \A i \in 1 .. Len(B) : Before(B[i], <<s, L[s][j]>>)
          /\ \A a \in G : Before(a, <<s, L[s][j]>>)
      BY <2>2 DEF Ordered
    <3> QED BY <3>2, <3>3, <3>4
  <2>3. j = Len(L[s]) + 1 \/ j \in 1 .. Len(L[s])
    BY <2>0
  <2> QED BY <2>1, <2>2, <2>3
<1> QED BY <1>1 DEF Ordered

\* What LeftOver holds, and where it is the queue itself.
LEMMA LeftOverType ==
  ASSUME Types
  PROVE  /\ LeftOver \in Lines
         /\ pc # "get" => LeftOver = queue
         /\ \A s \in Sources : s # source => LeftOver[s] = queue[s]
         /\ bank \in Seq(Bytes) /\ got \in SUBSET Bytes
<1>1. \A s \in Sources : Left(s) \in Seq(Nat)
  BY LeftType
<1>2. queue \in [Sources -> Seq(Nat)]
  BY DEF Types, LoopType
<1>3. pc # "get" => \A s \in Sources : Left(s) = queue[s]
  BY DEF Left
<1>4. \A s \in Sources : s # source => Left(s) = queue[s]
  BY DEF Left
<1> QED BY <1>1, <1>2, <1>3, <1>4 DEF LeftOver, Lines, Types, DeviceType

\* Get finishes what Write began, and leaves the same bytes.
LEMMA GetLeaves == ASSUME Types, Get PROVE LeftOver' = LeftOver
<1>1. pc = "get" /\ pc' = "send" /\ queue' = [queue EXCEPT ![source] = Tail(@)]
  BY DEF Get, Goto
<1>2. source \in Sources /\ queue \in [Sources -> Seq(Nat)]
  BY DEF Types, LoopType
<1>3. \A s \in Sources : Left(s)' = Left(s)
  BY <1>1, <1>2 DEF Left
<1> QED BY <1>3 DEF LeftOver

LEMMA WriteMoves ==
  ASSUME Types, Write
  PROVE  /\ LeftOver = queue /\ source \in Sources /\ 1 \in 1 .. Len(queue[source])
         /\ Head(queue[source]) = queue[source][1]
         /\ Len(LeftOver'[source]) = Len(queue[source]) - 1
         /\ \A j \in 1 .. Len(LeftOver'[source]) : j + 1 \in 1 .. Len(queue[source])
                                       /\ LeftOver'[source][j] = queue[source][j + 1]
         /\ \A t \in Sources : t # source => LeftOver'[t] = queue[t]
<1>1. pc = "write" /\ pc \in InHand /\ pc' = "get" /\ queue' = queue /\ source' = source
  BY DEF Write, Goto, InHand, Unwritten
<1>2. source \in Sources /\ 1 \in 1 .. Len(queue[source]) /\ queue[source] # <<>>
      /\ Head(queue[source]) = queue[source][1] /\ queue[source] \in Seq(Nat)
  BY <1>1, InHandType
<1>3. LeftOver = queue
  BY <1>1, LeftOverType
<1>4. LeftOver'[source] = Tail(queue[source])
      /\ \A t \in Sources : t # source => LeftOver'[t] = queue[t]
  BY <1>1, <1>2 DEF LeftOver, Left
<1>5. Len(Tail(queue[source])) = Len(queue[source]) - 1
      /\ \A j \in 1 .. Len(Tail(queue[source])) :
           j + 1 \in 1 .. Len(queue[source]) /\ Tail(queue[source])[j] = queue[source][j + 1]
  BY <1>2
<1> QED BY <1>1, <1>2, <1>3, <1>4, <1>5

LEMMA JoinAppends ==
  ASSUME Types, NEW s, Joins(s)
  PROVE  /\ s \in Sources /\ produced[s] + 1 \in Nat
         /\ Len(LeftOver'[s]) = Len(LeftOver[s]) + 1
         /\ LeftOver'[s][Len(LeftOver[s]) + 1] = produced[s] + 1
         /\ \A j \in 1 .. Len(LeftOver[s]) : LeftOver'[s][j] = LeftOver[s][j]
         /\ \A t \in Sources : t # s => LeftOver'[t] = LeftOver[t]
<1>1. s \in Sources /\ LoopType /\ Produce(s) /\ produced[s] + 1 \in Nat
  BY DEF Types, LoopType, Joins, Sources
<1>2. /\ queue'[s] = Append(queue[s], produced[s] + 1)
      /\ \A t \in Sources : t # s => queue'[t] = queue[t]
      /\ queue[s] \in Seq(Nat)
  BY <1>1, Produced DEF LoopType
<1>3. (pc' = pc /\ source' = source) \/ (pc' # "get" /\ pc # "get")
  BY DEF Joins
<1>4. \A t \in Sources : t # s => LeftOver'[t] = LeftOver[t]
  BY <1>2, <1>3 DEF LeftOver, Left
<1>5. LeftOver'[s] = Append(LeftOver[s], produced[s] + 1) /\ LeftOver[s] \in Seq(Nat)
  <2>1. CASE pc = "get" /\ source = s
    <3>1. BufferCount \in 1 .. Len(queue[s])
      BY <1>2, <2>1 DEF Types, Batch, InHand, LoopType
    <3>2. queue[s] # <<>> /\ Tail(queue[s]) \in Seq(Nat)
      BY <1>2, <3>1
    <3>3. Tail(Append(queue[s], produced[s] + 1)) = Append(Tail(queue[s]), produced[s] + 1)
      BY <1>2, <3>2, HeadTailAppend
    <3> QED BY <1>1, <1>2, <1>3, <2>1, <3>2, <3>3 DEF LeftOver, Left
  <2>2. CASE ~(pc = "get" /\ source = s)
    BY <1>1, <1>2, <1>3, <2>2 DEF LeftOver, Left
  <2> QED BY <2>1, <2>2
<1> QED BY <1>1, <1>4, <1>5

LEMMA LinesType == Types => LeftOver \in Lines
BY LeftOverType

\* The bank goes to the host, or is lost.
LEMMA OrderedEmpties ==
  ASSUME NEW B \in Seq(Bytes), NEW G, NEW L, Ordered(B, G, L)
  PROVE  /\ Ordered(<<>>, G, L)
         /\ Ordered(<<>>, G \cup {B[i] : i \in 1 .. Len(B)}, L)
BY DEF Ordered

LEMMA OrderStep ==
  ASSUME Types, OpenedBefore, InOrder, [Next]_vars, Types'
  PROVE  InOrder'
<1>1. /\ Ordered(bank, got, LeftOver) /\ LeftOver \in Lines
      /\ bank \in Seq(Bytes) /\ got \in SUBSET Bytes
      /\ pc # "get" => LeftOver = queue
  BY InOrderIs, LeftOverType
<1>2. (LeftOver \in Lines)'
  BY LinesType, PTL
<1>3. SUFFICES Ordered(bank', got', LeftOver')
  BY InOrderIs
<1>4. ASSUME bank' = bank, got' = got, LeftOver' = LeftOver PROVE Ordered(bank', got', LeftOver')
  BY <1>1, <1>4
<1>5. CASE Passes
  BY <1>4, <1>5 DEF Passes, Quiet, Hardware, LeftOver, Left, InHand
<1>6. CASE Handles
  <2>1. pc # "get" /\ pc' # "get"
    BY <1>6 DEF Handles, Poll, Send, SelectIN, Room, Wait, WaitFails, ClearIN, Goto
  <2> QED BY <1>4, <1>6, <2>1 DEF Handles, Quiet, Hardware, LeftOver, Left
<1>7. CASE GivesUp
  <2>1. LoopType /\ "dump" \in Sources /\ queue' = [queue EXCEPT !["dump"] = Tail(@)]
        /\ pc # "get" /\ pc' # "get" /\ bank' = bank /\ got' = got
    BY <1>7 DEF Types, GivesUp, GiveUp, Sources, Hardware
  <2>2. /\ Len(queue'["dump"]) = Len(queue["dump"]) - 1
        /\ \A j \in 1 .. Len(queue'["dump"]) : j + 1 \in 1 .. Len(queue["dump"])
                                               /\ queue'["dump"][j] = queue["dump"][j + 1]
        /\ \A t \in Sources : t # "dump" => queue'[t] = queue[t]
    BY <1>7, <2>1, Taken DEF GivesUp
  <2>3. LeftOver = queue /\ \A t \in Sources : LeftOver'[t] = queue'[t]
    BY <1>1, <2>1 DEF LeftOver, Left
  <2>4. /\ Len(LeftOver'["dump"]) = Len(LeftOver["dump"]) - 1
        /\ \A j \in 1 .. Len(LeftOver'["dump"]) : j + 1 \in 1 .. Len(LeftOver["dump"])
                                     /\ LeftOver'["dump"][j] = LeftOver["dump"][j + 1]
        /\ \A t \in Sources : t # "dump" => LeftOver'[t] = LeftOver[t]
    BY <2>1, <2>2, <2>3
  <2> QED BY <1>1, <1>2, <2>1, <2>4, OrderedTail
<1>8. CASE Write
  <2>1. /\ LeftOver = queue /\ source \in Sources /\ 1 \in 1 .. Len(LeftOver[source])
        /\ Head(queue[source]) = LeftOver[source][1]
        /\ Len(LeftOver'[source]) = Len(LeftOver[source]) - 1
        /\ \A j \in 1 .. Len(LeftOver'[source]) : j + 1 \in 1 .. Len(LeftOver[source])
                                      /\ LeftOver'[source][j] = LeftOver[source][j + 1]
        /\ \A t \in Sources : t # source => LeftOver'[t] = LeftOver[t]
    BY <1>8, WriteMoves
  <2>2. got' = got /\ (bank' = bank \/ bank' = Append(bank, <<source, LeftOver[source][1]>>))
    BY <1>8, <2>1 DEF Write, Hardware
  <2>3. Ordered(bank, got, LeftOver')
    BY <1>1, <1>2, <2>1, OrderedTail
  <2>4. Ordered(Append(bank, <<source, LeftOver[source][1]>>), got, LeftOver')
    BY <1>1, <1>2, <2>1, OrderedMove
  <2> QED BY <2>2, <2>3, <2>4
<1>9. CASE Get
  BY <1>4, <1>9, GetLeaves DEF Get, Hardware
<1>10. ASSUME NEW s, Joins(s) PROVE Ordered(bank', got', LeftOver')
  <2>1. /\ s \in Sources /\ produced[s] + 1 \in Nat /\ produced[s] \in Nat
        /\ Len(LeftOver'[s]) = Len(LeftOver[s]) + 1
        /\ LeftOver'[s][Len(LeftOver[s]) + 1] = produced[s] + 1
        /\ \A j \in 1 .. Len(LeftOver[s]) : LeftOver'[s][j] = LeftOver[s][j]
        /\ \A t \in Sources : t # s => LeftOver'[t] = LeftOver[t]
        /\ bank' = bank /\ got' = got
    BY <1>10, JoinAppends DEF Types, LoopType, Joins, Hardware
  <2>2. \A j \in 1 .. Len(LeftOver[s]) : LeftOver[s][j] < produced[s] + 1
    <3>1. \A j \in 1 .. Len(Left(s)) : Left(s)[j] \in 1 .. produced[s]
      BY <2>1, LeftType
    <3> QED BY <2>1, <3>1 DEF LeftOver
  <2>3. \A b \in Bytes : b[2] \in 1 .. produced[b[1]] => Before(b, <<s, produced[s] + 1>>)
    BY <2>1 DEF Before
  <2>4. /\ \A i \in 1 .. Len(bank) : bank[i] \in Bytes /\ bank[i][2] \in 1 .. produced[bank[i][1]]
        /\ \A b \in got : b \in Bytes /\ b[2] \in 1 .. produced[b[1]]
    BY <1>1 DEF Types, Numbers
  <2>5. /\ \A i \in 1 .. Len(bank) : Before(bank[i], <<s, produced[s] + 1>>)
        /\ \A a \in got : Before(a, <<s, produced[s] + 1>>)
    BY <2>3, <2>4
  <2> QED BY <1>1, <1>2, <2>1, <2>2, <2>5, OrderedAppend
<1>11. CASE Dumps
  <2>1. /\ queue'["dump"] = [i \in 1 .. DumpSize |-> i] /\ Len(queue'["dump"]) = DumpSize
        /\ \A t \in Sources : t # "dump" => queue'[t] = queue[t]
        /\ pc # "get" /\ pc' # "get" /\ bank' = bank /\ got' = got
        /\ produced["dump"] = 0 /\ DumpSize \in Nat
    BY <1>11, DumpStarts, LinkAssumption DEF Dumps, Hardware
  <2>2. LeftOver = queue /\ \A t \in Sources : LeftOver'[t] = queue'[t]
    BY <1>1, <2>1 DEF LeftOver, Left
  <2>3. \A n \in Nat : /\ \A i \in 1 .. Len(bank) : Before(bank[i], <<"dump", n>>)
                       /\ \A a \in got : Before(a, <<"dump", n>>)
    BY <2>1 DEF Types, Numbers, Before
  <2>4. \A i, j \in 1 .. DumpSize : i < j => queue'["dump"][i] < queue'["dump"][j]
    BY <2>1
  <2>5. \A j \in 1 .. DumpSize : queue'["dump"][j] \in Nat
    BY <2>1
  <2> QED BY <1>1, <2>1, <2>2, <2>3, <2>4, <2>5 DEF Ordered
<1>12. CASE DeviceMoves
  <2>1. LeftOver' = LeftOver
    BY <1>12 DEF DeviceMoves, LeftOver, Left
  <2>2. CASE Wipes
    BY <1>1, <2>1, <2>2, OrderedEmpties DEF Wipes
  <2>3. CASE Reads
    BY <1>1, <2>1, <2>3, OrderedEmpties DEF Reads, InBank
  <2>4. CASE Leaves
    BY <1>4, <2>1, <2>4 DEF Leaves
  <2> QED BY <1>12, <2>2, <2>3, <2>4 DEF DeviceMoves
<1>13. CASE UNCHANGED vars
  BY <1>4, <1>13 DEF vars, deviceVars, mainVars, LeftOver, Left
<1> QED BY <1>5, <1>6, <1>7, <1>8, <1>9, <1>10, <1>11, <1>12, <1>13, StepKinds

-----------------------------------------------------------------------------
(* The beginning of a dump                                                   *)

LEMMA GoneType ==
  ASSUME Types
  PROVE  /\ Gone \in Nat /\ Len(queue["dump"]) \in Nat /\ queue["dump"] \in Seq(Nat)
         /\ skipped \subseteq 1 .. Gone
<1>1. queue["dump"] \in Seq(Nat) /\ Len(queue["dump"]) <= DumpSize /\ DumpSize \in Nat
  BY LinkAssumption DEF Types, LoopType, Sources, DumpShape
<1>2. Len(queue["dump"]) \in Nat
  BY <1>1
<1> QED BY <1>1, <1>2 DEF Gone, Types, DumpShape

\* A step that leaves the dump alone.
LEMMA DumpKept ==
  ASSUME DumpInv, queue'["dump"] = queue["dump"], skipped' = skipped, trouble' = trouble,
         ~trouble => HandInv', pc' = "get" /\ source' = "dump" => pc = "get" /\ source = "dump",
         queue["dump"] # <<>> /\ ~sent /\ opened =>
           opened' /\ (pc' = "poll" => selected' = "in") /\ (sent' => pc' = "wait"),
         queue["dump"] # <<>> /\ sent /\ pc = "wait" /\ opened =>
           opened' /\ pc' # "poll" /\ (sent' => pc' = "wait")
  PROVE  DumpInv'
<1>1. Gone' = Gone
  BY DEF Gone
<1> QED BY <1>1 DEF DumpInv, AllSkipped, OneWritten

LEMMA DumpPasses == ASSUME Types, DumpInv, Passes PROVE DumpInv'
<1>1. pc \notin InHand /\ pc' \notin InHand /\ queue' = queue /\ skipped' = skipped
      /\ trouble' = trouble /\ opened' = opened
  BY DEF Passes, Quiet, Hardware
<1>2. ASSUME queue["dump"] # <<>> PROVE (pc' = "poll" => selected' = "in") /\ sent' = sent
  BY <1>2 DEF Passes, Types, DumpShape, Batching, InHand, Unwritten, Task, Flush, FlushOther,
              Flushed, Count, ClearIN, ReceiveByte, Goto, Select
<1>3. HandInv' /\ pc' # "get" /\ pc # "wait"
  BY <1>1 DEF HandInv, InHand, Unwritten
<1> QED BY <1>1, <1>2, <1>3, DumpKept

LEMMA DumpHandles == ASSUME Types, OpenedBefore, DumpInv, Handles, Running PROVE DumpInv'
<1>1. source' = source /\ queue' = queue /\ skipped' = skipped /\ opened' = opened
  BY DEF Handles, Quiet, Hardware
<1>2. CASE trouble' = TRUE
  BY <1>2 DEF DumpInv
<1>3. CASE trouble' # TRUE
  <2>1. trouble' = trouble /\ ~WaitFails
    BY <1>3 DEF Handles, Poll, Send, SelectIN, Room, Wait, WaitFails, ClearIN, Kept
  <2>2. ASSUME ~trouble PROVE HandInv'
    <3>1. HandInv
      BY <2>2 DEF DumpInv
    <3>2. Online => opened
      BY DEF Online, OpenedBefore, Running
    <3>3. CASE Poll \/ Send
      BY <1>1, <1>3, <3>2, <3>3 DEF Poll, Send, Goto, HandInv, InHand, Unwritten
    <3>4. CASE SelectIN
      BY <1>1, <3>1, <3>4 DEF SelectIN, Goto, Select, HandInv, InHand, Unwritten
    <3>5. CASE Room \/ Wait
      <4>1. pc \in InHand \ {"select"} /\ pc' \in InHand /\ selected' = selected /\ sent' = sent
            /\ (pc' = "write" => Ready) /\ pc' # "get"
        BY <3>5 DEF Room, Wait, Goto, HasRoom, Ready, InHand, Unwritten
      <4> QED BY <1>1, <3>1, <4>1 DEF HandInv, Ready, InHand, Unwritten
    <3>6. CASE ClearIN /\ pc = "full"
      BY <1>1, <3>1, <3>6 DEF ClearIN, Goto, HandInv, InHand, Unwritten
    <3> QED BY <2>1, <3>3, <3>4, <3>5, <3>6 DEF Handles
  <2>3. pc' \notin {"get", "poll"}
    BY DEF Handles, Poll, Send, SelectIN, Room, Wait, WaitFails, ClearIN, Goto
  <2>4. ~sent => (sent' => pc' = "wait")
    BY DEF Handles, Poll, Send, SelectIN, Room, Wait, WaitFails, ClearIN, Goto
  <2>5. ASSUME pc = "wait", ~trouble PROVE ~sent'
    BY <2>1, <2>5 DEF Handles, Poll, Send, SelectIN, Room, Wait, ClearIN, Ready, DumpInv,
                      HandInv, InHand, Unwritten
  <2> QED BY <1>1, <2>1, <2>2, <2>3, <2>4, <2>5, DumpKept DEF DumpInv
<1> QED BY <1>2, <1>3

\* The first dumped byte that is left is the one after those that are gone.
LEMMA DumpGivesUp == ASSUME Types, DumpInv, GivesUp PROVE DumpInv'
<1>1. CASE trouble'
  BY <1>1 DEF DumpInv
<1>2. CASE ~trouble'
  <2>1. ~trouble /\ pc = "poll" /\ NotReady /\ queue["dump"] # <<>>
    BY <1>2 DEF GivesUp
  <2>2. skipped = 1 .. Gone
    BY <2>1 DEF DumpInv, OneWritten, AllSkipped, NotReady
  <2>3. LoopType /\ "dump" \in Sources /\ queue' = [queue EXCEPT !["dump"] = Tail(@)]
        /\ skipped' = skipped \cup {Head(queue["dump"])}
    BY DEF Types, GivesUp, GiveUp, Sources
  <2>4. Len(queue'["dump"]) = Len(queue["dump"]) - 1 /\ 1 \in 1 .. Len(queue["dump"])
        /\ Head(queue["dump"]) = queue["dump"][1]
    BY <2>1, <2>3, Taken
  <2>5. Gone' = Gone + 1 /\ Gone \in Nat
    BY <2>4, GoneType, LinkAssumption DEF Gone
  <2>6. Head(queue["dump"]) = Gone + 1
    BY <2>4, <2>5 DEF Types, DumpShape
  <2>7. skipped' = 1 .. Gone'
    BY <2>2, <2>3, <2>5, <2>6
  <2>8. pc' = "count"
    BY DEF GivesUp
  <2> QED BY <2>7, <2>8 DEF DumpInv, AllSkipped, HandInv, InHand, Unwritten
<1> QED BY <1>1, <1>2

LEMMA DumpWrite == ASSUME Types, DumpInv, Write PROVE DumpInv'
<1>1. /\ pc = "write" /\ pc' = "get" /\ source' = source /\ queue' = queue
      /\ skipped' = skipped /\ sent' = sent /\ opened' = opened /\ selected' = selected
  BY DEF Write, Goto, Hardware
<1>2. Gone' = Gone /\ Gone \in Nat
  BY <1>1, GoneType DEF Gone
<1>3. CASE trouble'
  BY <1>3 DEF DumpInv
<1>4. CASE ~trouble'
  <2>1. HandInv /\ (AllSkipped \/ OneWritten) /\ ~trouble
    BY <1>1, <1>4 DEF Write, DumpInv
  <2>2. opened /\ selected = "in" /\ ~sent
    BY <1>1, <2>1 DEF HandInv, InHand, Unwritten
  <2>3. HandInv'
    BY <1>1, <2>2 DEF HandInv
  <2>4. AllSkipped => \E m \in 0 .. Gone : skipped = 1 .. m
    BY <1>2 DEF AllSkipped
  <2>5. OneWritten'
    BY <1>1, <1>2, <2>1, <2>2, <2>4 DEF OneWritten
  <2> QED BY <2>3, <2>5 DEF DumpInv
<1> QED BY <1>3, <1>4

LEMMA DumpGet == ASSUME Types, DumpInv, Get PROVE DumpInv'
<1>1. /\ pc = "get" /\ pc' = "send" /\ source' = source /\ skipped' = skipped
      /\ sent' = sent /\ opened' = opened /\ selected' = selected /\ trouble' = trouble
      /\ queue' = [queue EXCEPT ![source] = Tail(@)]
  BY DEF Get, Goto, Hardware
<1>2. LoopType /\ source \in Sources /\ queue[source] # <<>> /\ pc \in InHand
  BY <1>1, InHandType DEF Types, InHand
<1>3. HandInv'
  BY <1>1 DEF HandInv, InHand, Unwritten
<1>4. ~trouble => opened /\ ~sent
  BY <1>1, <1>2 DEF DumpInv, HandInv
<1>5. CASE source = "dump"
  <2>1. Len(queue'["dump"]) = Len(queue["dump"]) - 1
    BY <1>1, <1>2, <1>5, Taken
  <2>2. Gone' = Gone + 1 /\ Gone \in Nat
    BY <2>1, GoneType, LinkAssumption DEF Gone
  <2>3. ASSUME ~trouble PROVE \E m \in 0 .. Gone' : skipped' = 1 .. m
    <3>1. PICK m \in 0 .. Gone : skipped = 1 .. m
      BY <1>1, <1>5, <2>3 DEF DumpInv, AllSkipped, OneWritten
    <3>2. m \in 0 .. Gone'
      BY <2>2
    <3> QED BY <1>1, <3>1, <3>2
  <2> QED BY <1>1, <1>3, <1>4, <2>3 DEF DumpInv, OneWritten
<1>6. CASE source # "dump"
  <2>1. queue'["dump"] = queue["dump"]
    BY <1>1, <1>2, <1>6 DEF LoopType, Sources
  <2> QED BY <1>1, <1>3, <1>4, <2>1, DumpKept
<1> QED BY <1>5, <1>6

LEMMA DumpMoves == ASSUME Types, DumpInv, DeviceMoves PROVE DumpInv'
<1>1. /\ UNCHANGED <<pc, source, queue, skipped>> /\ wipes \in Nat
      /\ trouble' = (trouble \/ wipes' # wipes)
  BY DEF DeviceMoves, Types, DeviceType
<1>2. Gone' = Gone
  BY <1>1 DEF Gone
<1>3. ~trouble' => ~trouble /\ wipes' = wipes
  BY <1>1
<1>4. CASE Wipes
  <2>1. ASSUME ~trouble' PROVE ~opened /\ opened' = FALSE /\ sent' = FALSE
    <3>1. opened' = FALSE /\ sent' = FALSE /\ (opened => wipes' = wipes + 1)
      BY <1>4 DEF Wipes
    <3> QED BY <1>1, <1>3, <2>1, <3>1
  <2> QED BY <1>1, <1>2, <1>3, <2>1 DEF DumpInv, HandInv, AllSkipped, OneWritten, InHand
<1>5. CASE Reads \/ Leaves
  <2>1. selected' = selected /\ (sent' = FALSE \/ sent' = sent)
        /\ (opened' = opened \/ opened' = TRUE)
    BY <1>5 DEF Reads, Leaves
  <2>2. (sent' => sent) /\ (opened => opened')
    BY <2>1
  <2> QED BY <1>1, <1>2, <1>3, <2>1, <2>2 DEF DumpInv, HandInv, AllSkipped, OneWritten
<1> QED BY <1>4, <1>5 DEF DeviceMoves

LEMMA DumpStep ==
  ASSUME Types, OpenedBefore, DumpInv, [Next]_vars
  PROVE  DumpInv'
<1>1. ASSUME NEW s, Joins(s) PROVE DumpInv'
  <2>1. queue'["dump"] = queue["dump"] /\ skipped' = skipped /\ trouble' = trouble
        /\ sent' = sent /\ opened' = opened
    BY <1>1, Produced DEF Joins, Types, Sources, Hardware
  <2>2. CASE UNCHANGED <<pc, source, selected>>
    BY <2>1, <2>2 DEF DumpInv, HandInv, AllSkipped, OneWritten, Gone
  <2>3. CASE pc = "receive" /\ pc' = "task"
    <3>1. queue["dump"] = <<>> /\ HandInv' /\ pc' # "get"
      BY <2>3 DEF Types, DumpShape, Batching, InHand, Unwritten, HandInv
    <3> QED BY <2>1, <3>1, DumpKept
  <2> QED BY <1>1, <2>2, <2>3 DEF Joins
<1>2. CASE Dumps
  <2>1. Len(queue'["dump"]) = DumpSize /\ skipped' = {} /\ pc' = "count" /\ DumpSize \in Nat
    BY <1>2, DumpStarts, LinkAssumption DEF Dumps
  <2>2. Gone' = 0
    BY <2>1 DEF Gone
  <2> QED BY <2>1, <2>2 DEF DumpInv, AllSkipped, HandInv, InHand, Unwritten
<1>3. CASE UNCHANGED vars
  BY <1>3 DEF vars, deviceVars, mainVars, DumpInv, HandInv, AllSkipped, OneWritten, Gone
<1> QED BY <1>1, <1>2, <1>3, StepKinds, DumpPasses, DumpHandles, DumpGivesUp, DumpWrite,
           DumpGet, DumpMoves

-----------------------------------------------------------------------------
(* The bytes of the queues that are lost                                     *)

\* The bank holds no more bytes than its length.
LEMMA BankFinite ==
  ASSUME Types
  PROVE  /\ IsFiniteSet(InBank) /\ Cardinality(InBank) \in Nat
         /\ Cardinality(InBank) <= Len(bank) /\ Len(bank) \in Nat /\ Len(bank) <= BankSize
<1>1. bank \in Seq(Bytes) /\ Len(bank) <= BankSize
  BY DEF Types, DeviceType
<1>2. Len(bank) \in Nat
  BY <1>1
<1>3. bank \in [1 .. Len(bank) -> InBank]
  BY <1>1 DEF InBank
<1>4. ExistsSurjection(1 .. Len(bank), InBank)
  BY <1>3 DEF InBank, Surjection, ExistsSurjection
<1> QED BY <1>1, <1>2, <1>4, FS_SurjCardinalityBound, FS_NatSurjection, FS_CardinalityType

LEMMA AcceptedIs ==
  /\ \A b : b \in Accepted <=> \E s \in {"reply", "echo"} : \E n \in 1 .. produced[s] : b = <<s, n>>
  /\ \A b : b \in Accepted' <=> \E s \in {"reply", "echo"} : \E n \in 1 .. produced'[s] : b = <<s, n>>
<1>1. \A b : b \in Accepted <=> \E s \in {"reply", "echo"} : \E n \in 1 .. produced[s] : b = <<s, n>>
  BY DEF Accepted
<1>2. \A b : b \in Accepted' <=> \E s \in {"reply", "echo"} : \E n \in 1 .. produced'[s] : b = <<s, n>>
  BY DEF Accepted
<1> QED BY <1>1, <1>2

\* A step loses at most A if all that was on its way, or is produced, is in A, on
\* its way or with the host.
LEMMA LosesAtMost ==
  ASSUME NEW A,
         \A s \in {"reply", "echo"} : \A n \in 1 .. produced'[s] :
           \/ n \in 1 .. produced[s] /\ <<s, n>> \notin got \cup InBank \cup InQueue(s)
           \/ <<s, n>> \in A \cup got' \cup InBank' \cup InQueue(s)'
  PROVE  Lost' \subseteq Lost \cup A
<1> SUFFICES ASSUME NEW b \in Lost', b \notin A PROVE b \in Lost
  OBVIOUS
<1>1. b \in Accepted' /\ b \notin got' \cup InBank' \cup InQueue(b[1])'
  BY DEF Lost
<1>2. PICK s \in {"reply", "echo"} : \E n \in 1 .. produced'[s] : b = <<s, n>>
  BY <1>1, AcceptedIs
<1>3. PICK n \in 1 .. produced'[s] : b = <<s, n>> /\ b[1] = s
  BY <1>2
<1>4. n \in 1 .. produced[s] /\ b \notin got \cup InBank \cup InQueue(s)
  BY <1>1, <1>3
<1>5. b \in Accepted
  BY <1>3, <1>4, AcceptedIs
<1> QED BY <1>3, <1>4, <1>5 DEF Lost

\* What is so for the steps that only lose what was in the bank.
LEMMA LosesNothing ==
  ASSUME NEW A, got \cup InBank \subseteq A \cup got' \cup InBank',
         \A s \in {"reply", "echo"} : produced'[s] = produced[s] /\ Left(s)' = Left(s)
  PROVE  Lost' \subseteq Lost \cup A
<1>1. \A s \in {"reply", "echo"} : InQueue(s)' = InQueue(s)
  BY DEF InQueue
<1> QED BY <1>1, LosesAtMost

LEMMA Costs ==
  ASSUME IsFiniteSet(Lost), NEW A, IsFiniteSet(A), Lost' \subseteq Lost \cup A
  PROVE  /\ IsFiniteSet(Lost') /\ Cardinality(Lost') \in Nat /\ Cardinality(Lost) \in Nat
         /\ Cardinality(A) \in Nat
         /\ Cardinality(Lost') <= Cardinality(Lost) + Cardinality(A)
<1>1. /\ IsFiniteSet(Lost \cup A) /\ IsFiniteSet(Lost \cap A)
      /\ Cardinality(Lost \cup A) = Cardinality(Lost) + Cardinality(A) - Cardinality(Lost \cap A)
  BY FS_Union, FS_Subset
<1>2. IsFiniteSet(Lost') /\ Cardinality(Lost') <= Cardinality(Lost \cup A)
  BY <1>1, FS_Subset
<1>3. /\ Cardinality(Lost') \in Nat /\ Cardinality(Lost) \in Nat /\ Cardinality(A) \in Nat
      /\ Cardinality(Lost \cap A) \in Nat /\ Cardinality(Lost \cup A) \in Nat
  BY <1>1, <1>2, FS_CardinalityType
<1> QED BY <1>1, <1>2, <1>3

\* The two ways to keep the bound: nothing more is lost, or the link was in use.
LEMMA CostsNothing ==
  ASSUME LossInv, Types, wipes' = wipes, Reserve' \in Nat, NEW A, IsFiniteSet(A),
         Lost' \subseteq Lost \cup A, Reserve \in Nat, Cardinality(A) + Reserve' <= Reserve,
         ~opened' => Len(bank') <= 1 /\ (pc' \in Unwritten => bank' = <<>>)
  PROVE  LossInv'
<1>1. /\ IsFiniteSet(Lost') /\ Cardinality(Lost') \in Nat /\ Cardinality(Lost) \in Nat
      /\ Cardinality(A) \in Nat
      /\ Cardinality(Lost') <= Cardinality(Lost) + Cardinality(A)
  BY Costs DEF LossInv
<1>2. wipes * (BankSize + 1) \in Nat
  BY DeviceAssumption DEF Types, DeviceType
<1>3. Cardinality(Lost) + Reserve <= wipes * (BankSize + 1)
  BY DEF LossInv
<1>4. Cardinality(Lost') + Reserve' <= wipes * (BankSize + 1)
  BY <1>1, <1>2, <1>3
<1> QED BY <1>1, <1>4 DEF LossInv

LEMMA ReserveType == Types => Reserve \in Nat
BY BankFinite DEF Reserve

\* Of a link that is not in use the bank holds at most one byte.
LEMMA LossQuiet ==
  ASSUME Types, LossInv, bank' = bank, got' = got, produced' = produced, wipes' = wipes,
         opened' = opened,
         \A s \in {"reply", "echo"} : Left(s)' = Left(s),
         pc' \in Unwritten => pc \in Unwritten \/ opened,
         pc' \in Unwritten \ {"select"} /\ selected' # "in" => Astray
  PROVE  LossInv'
<1>1. InBank' = InBank
  BY DEF InBank
<1>2. Lost' \subseteq Lost \cup {}
  BY <1>1, LosesNothing
<1>3. Reserve \in Nat /\ Len(bank) \in Nat
  BY ReserveType, BankFinite
<1>4. pc \in Unwritten /\ ~opened => Len(bank) = 0
  BY DEF LossInv
<1>5. (Astray' => Astray) /\ (Astray => pc \in Unwritten)
  BY DEF Astray
<1>6. Reserve' \in Nat /\ Reserve' <= Reserve
  <2>1. CASE Astray' \/ (pc' \in Unwritten /\ ~opened')
    <3>1. Astray \/ (pc \in Unwritten /\ ~opened)
      BY <1>5, <2>1
    <3> QED BY <2>1, <3>1 DEF Reserve
  <2>2. CASE ~(Astray' \/ (pc' \in Unwritten /\ ~opened')) /\ opened
    <3>1. Reserve' = 0
      BY <2>2 DEF Reserve
    <3> QED BY <1>3, <3>1
  <2>3. CASE ~(Astray' \/ (pc' \in Unwritten /\ ~opened')) /\ ~opened
    <3>1. Reserve' = Len(bank)
      BY <2>3 DEF Reserve
    <3>2. (Reserve = 1 /\ Len(bank) = 0) \/ Reserve = Len(bank)
      BY <1>4, <1>5, <2>3 DEF Reserve
    <3> QED BY <1>3, <3>1, <3>2
  <2> QED BY <2>2, <2>1, <2>3
<1>7. IsFiniteSet({}) /\ Cardinality({}) = 0
  BY FS_EmptySet
<1>8. ~opened' => Len(bank') <= 1 /\ (pc' \in Unwritten => bank' = <<>>)
  BY DEF LossInv
<1> QED BY <1>2, <1>3, <1>6, <1>7, <1>8, CostsNothing

\* The byte in hand moves from its queue into the bank, or is the one that was
\* still to be lost.
LEMMA LossWrite == ASSUME Types, LossInv, Write, Types' PROVE LossInv'
<1>1. /\ LeftOver = queue /\ source \in Sources /\ 1 \in 1 .. Len(queue[source])
      /\ Head(queue[source]) = queue[source][1]
      /\ Len(LeftOver'[source]) = Len(queue[source]) - 1
      /\ \A j \in 1 .. Len(LeftOver'[source]) : j + 1 \in 1 .. Len(queue[source])
                                    /\ LeftOver'[source][j] = queue[source][j + 1]
      /\ \A t \in Sources : t # source => LeftOver'[t] = queue[t]
  BY WriteMoves
<1> DEFINE b == <<source, Head(queue[source])>>
<1>2. /\ pc = "write" /\ pc' = "get" /\ got' = got /\ produced' = produced
      /\ wipes' = wipes /\ opened' = opened
      /\ (selected = "in" /\ bank' = Append(bank, b)) \/ (selected # "in" /\ bank' = bank)
  BY DEF Write, Goto, Hardware
<1>3. bank \in Seq(Bytes) /\ Len(bank) \in Nat
  BY DEF Types, DeviceType
<1>4. \A s \in Sources : \A x \in InQueue(s) : x \in InQueue(s)' \/ x = b
  <2> SUFFICES ASSUME NEW s \in Sources, NEW j \in 1 .. Len(LeftOver[s])
               PROVE  <<s, LeftOver[s][j]>> \in InQueue(s)' \/ <<s, LeftOver[s][j]>> = b
    BY DEF InQueue, LeftOver
  <2>1. CASE s # source
    BY <1>1, <2>1 DEF InQueue, LeftOver
  <2>2. CASE s = source /\ j = 1
    BY <1>1, <2>2
  <2>3. CASE s = source /\ j # 1
    <3>1. j - 1 \in 1 .. Len(LeftOver'[s]) /\ (j - 1) + 1 = j
      BY <1>1, <2>3
    <3>2. LeftOver'[s][j - 1] = LeftOver[s][j]
      BY <1>1, <2>3, <3>1
    <3>3. InQueue(s)' = {<<s, LeftOver'[s][i]>> : i \in 1 .. Len(LeftOver'[s])}
      BY DEF InQueue, LeftOver
    <3> QED BY <3>1, <3>2, <3>3
  <2> QED BY <2>1, <2>2, <2>3
<1> HIDE DEF b
<1>5. ASSUME NEW A, b \in A \cup InBank', InBank \subseteq InBank' PROVE Lost' \subseteq Lost \cup A
  BY <1>2, <1>4, <1>5, LosesAtMost DEF Sources
<1>6. Reserve \in Nat /\ (Reserve \in Nat)'
  BY ReserveType, PTL
<1>7. CASE selected = "in"
  <2>1. bank' = Append(bank, b) /\ Len(bank') = Len(bank) + 1
        /\ \A i \in 1 .. Len(bank) : bank'[i] = bank[i]
    BY <1>2, <1>3, <1>7
  <2>2. bank'[Len(bank) + 1] = b /\ Len(bank) + 1 \in 1 .. Len(bank')
        /\ \A i \in 1 .. Len(bank) : i \in 1 .. Len(bank')
    BY <1>3, <2>1
  <2>3. b \in InBank' /\ InBank \subseteq InBank'
    BY <2>1, <2>2 DEF InBank
  <2>4. Lost' \subseteq Lost \cup {}
    BY <1>5, <2>3
  <2>5. ~opened => bank = <<>> /\ Reserve = 1 /\ Len(bank') = 1
    BY <1>2, <1>7, <2>1 DEF LossInv, Reserve, Unwritten
  <2>6. Reserve' <= Reserve
    <3>1. Reserve' = IF opened' THEN 0 ELSE Len(bank')
      BY <1>2 DEF Reserve, Astray, Unwritten
    <3> QED BY <1>2, <1>6, <2>5, <3>1
  <2>7. ~opened' => Len(bank') <= 1 /\ (pc' \in Unwritten => bank' = <<>>)
    BY <1>2, <2>5 DEF Unwritten
  <2> QED BY <1>2, <1>6, <2>4, <2>6, <2>7, CostsNothing, FS_EmptySet
<1>8. CASE selected # "in"
  <2>1. bank' = bank /\ InBank' = InBank
    BY <1>2, <1>8 DEF InBank
  <2>2. Lost' \subseteq Lost \cup {b} /\ IsFiniteSet({b}) /\ Cardinality({b}) = 1
    BY <1>5, <2>1, FS_Singleton
  <2>3. Reserve = 1
    BY <1>2, <1>8 DEF Reserve, Astray, Unwritten
  <2>4. ~opened => bank = <<>>
    BY <1>2 DEF LossInv, Unwritten
  <2>5. Reserve' = 0
    BY <1>2, <2>1, <2>4 DEF Reserve, Astray, Unwritten
  <2>6. ~opened' => Len(bank') <= 1 /\ (pc' \in Unwritten => bank' = <<>>)
    BY <1>2, <2>1 DEF LossInv, Unwritten
  <2> QED BY <1>2, <1>6, <2>2, <2>3, <2>5, <2>6, CostsNothing
<1> QED BY <1>7, <1>8

\* A byte that is produced is queued.
LEMMA LossJoins == ASSUME Types, LossInv, NEW s, Joins(s), Types' PROVE LossInv'
<1>1. /\ s \in Sources /\ produced[s] + 1 \in Nat /\ LoopType /\ Produce(s)
      /\ Len(LeftOver'[s]) = Len(LeftOver[s]) + 1
      /\ LeftOver'[s][Len(LeftOver[s]) + 1] = produced[s] + 1
      /\ \A j \in 1 .. Len(LeftOver[s]) : LeftOver'[s][j] = LeftOver[s][j]
      /\ \A t \in Sources : t # s => LeftOver'[t] = LeftOver[t]
  BY JoinAppends DEF Types, Joins
<1>2. /\ produced'[s] = produced[s] + 1 /\ produced[s] \in Nat
      /\ \A t \in Sources : t # s => produced'[t] = produced[t]
  BY <1>1, Produced DEF LoopType
<1>3. /\ bank' = bank /\ got' = got /\ wipes' = wipes /\ opened' = opened /\ InBank' = InBank
      /\ (pc' = pc /\ selected' = selected) \/ (pc' \notin Unwritten /\ pc \notin Unwritten)
  BY DEF Joins, Hardware, InBank, Unwritten
<1>4. Len(LeftOver[s]) \in Nat
  BY <1>1, LeftOverType DEF Lines
<1>5. \A t \in Sources : InQueue(t) \subseteq InQueue(t)'
  <2> SUFFICES ASSUME NEW t \in Sources, NEW j \in 1 .. Len(LeftOver[t])
               PROVE  <<t, LeftOver[t][j]>> \in InQueue(t)'
    BY DEF InQueue, LeftOver
  <2>1. j \in 1 .. Len(LeftOver'[t]) /\ LeftOver'[t][j] = LeftOver[t][j]
    BY <1>1, <1>4
  <2> QED BY <2>1 DEF InQueue, LeftOver
<1>6. <<s, produced[s] + 1>> \in InQueue(s)'
  <2>1. Len(LeftOver[s]) + 1 \in 1 .. Len(LeftOver'[s])
    BY <1>1, <1>4
  <2>2. InQueue(s)' = {<<s, LeftOver'[s][i]>> : i \in 1 .. Len(LeftOver'[s])}
    BY <1>1 DEF InQueue, LeftOver
  <2> QED BY <1>1, <2>1, <2>2
<1>7. \A t \in {"reply", "echo"} : \A n \in 1 .. produced'[t] :
        n \in 1 .. produced[t] \/ (t = s /\ n = produced[s] + 1)
  BY <1>2 DEF Sources
<1>8. Lost' \subseteq Lost \cup {}
  BY <1>3, <1>5, <1>6, <1>7, LosesAtMost DEF Sources
<1>9. Reserve' = Reserve /\ Reserve \in Nat
  BY <1>3, ReserveType DEF Reserve, Astray
<1>10. ~opened' => Len(bank') <= 1 /\ (pc' \in Unwritten => bank' = <<>>)
  BY <1>3 DEF LossInv
<1> QED BY <1>3, <1>8, <1>9, <1>10, CostsNothing, FS_EmptySet

\* A wiped link costs what the bank held and the byte in hand.
LEMMA LossMoves == ASSUME Types, LossInv, DeviceMoves, Types' PROVE LossInv'
<1>1. /\ pc' = pc /\ produced' = produced /\ \A s \in Sources : Left(s)' = Left(s)
  BY DEF DeviceMoves, Left
<1>2. Reserve \in Nat /\ (Reserve \in Nat)'
  BY ReserveType, PTL
<1>3. IsFiniteSet(InBank) /\ Cardinality(InBank) \in Nat /\ Cardinality(InBank) <= Len(bank)
      /\ Len(bank) \in Nat /\ Len(bank) <= BankSize
  BY BankFinite
<1>4. CASE Wipes
  <2>1. bank' = <<>> /\ got' = got /\ opened' = FALSE
    BY <1>4 DEF Wipes
  <2>2. Lost' \subseteq Lost \cup InBank
    BY <1>1, <2>1, LosesNothing DEF Sources
  <2>3. ~opened' => Len(bank') <= 1 /\ (pc' \in Unwritten => bank' = <<>>)
    BY <2>1
  <2>4. Reserve' \in 0 .. 1 /\ (pc' \notin Unwritten => Reserve' = 0)
    BY <2>1 DEF Reserve, Astray
  <2>5. CASE opened
    <3>1. wipes' = wipes + 1 /\ wipes \in Nat
      BY <1>4, <2>5 DEF Wipes, Types, DeviceType
    <3>2. IsFiniteSet(Lost) /\ Cardinality(Lost) + Reserve <= wipes * (BankSize + 1)
      BY DEF LossInv
    <3>3. IsFiniteSet(Lost') /\ Cardinality(Lost') \in Nat /\ Cardinality(Lost) \in Nat
          /\ Cardinality(Lost') <= Cardinality(Lost) + Cardinality(InBank)
      BY <1>3, <2>2, <3>2, Costs
    <3>4. wipes' * (BankSize + 1) = wipes * (BankSize + 1) + BankSize + 1
          /\ wipes * (BankSize + 1) \in Nat /\ BankSize \in Nat
      BY <3>1, DeviceAssumption
    <3>5. Cardinality(Lost') + Reserve' <= wipes' * (BankSize + 1)
      BY <1>2, <1>3, <2>4, <3>2, <3>3, <3>4
    <3> QED BY <2>3, <3>3, <3>5 DEF LossInv
  <2>6. CASE ~opened
    <3>1. wipes' = wipes
      BY <1>4, <2>6 DEF Wipes
    <3>2. CASE pc \in Unwritten
      <4>1. bank = <<>> /\ Reserve = 1
        BY <2>6, <3>2 DEF LossInv, Reserve
      <4>2. InBank = {}
        BY <4>1 DEF InBank
      <4> QED BY <1>2, <2>2, <2>3, <2>4, <3>1, <4>1, <4>2, CostsNothing, FS_EmptySet
    <3>3. CASE pc \notin Unwritten
      <4>1. Reserve = Len(bank) /\ Reserve' = 0
        BY <1>1, <2>4, <2>6, <3>3 DEF Reserve, Astray
      <4> QED BY <1>2, <1>3, <2>2, <2>3, <3>1, <4>1, CostsNothing
    <3> QED BY <3>2, <3>3
  <2> QED BY <2>5, <2>6
<1>5. CASE Reads
  <2>1. bank' = <<>> /\ got' = got \cup InBank /\ wipes' = wipes /\ opened' = opened
        /\ selected' = selected
    BY <1>5 DEF Reads
  <2>2. Lost' \subseteq Lost \cup {}
    BY <1>1, <2>1, LosesNothing DEF Sources
  <2>3. Astray' = Astray
    BY <1>1, <2>1 DEF Astray
  <2>4. Reserve' <= Reserve
    BY <1>1, <1>3, <2>1, <2>3 DEF Reserve
  <2>5. ~opened' => Len(bank') <= 1 /\ (pc' \in Unwritten => bank' = <<>>)
    BY <2>1
  <2> QED BY <1>2, <2>1, <2>2, <2>4, <2>5, CostsNothing, FS_EmptySet
<1>6. CASE Leaves
  <2>1. bank' = bank /\ got' = got /\ wipes' = wipes /\ opened' \in {opened, TRUE}
        /\ selected' = selected /\ InBank' = InBank
    BY <1>6 DEF Leaves, InBank
  <2>2. Lost' \subseteq Lost \cup {}
    BY <1>1, <2>1, LosesNothing DEF Sources
  <2>3. (Astray' <=> Astray) /\ (~opened' => ~opened)
    <3>1. Astray' <=> Astray
      BY <1>1, <2>1 DEF Astray
    <3>2. opened' = opened \/ opened' = TRUE
      BY <2>1
    <3>3. ~opened' => ~opened
      BY <3>2
    <3> QED BY <3>1, <3>3
  <2>4. Reserve' <= Reserve
    BY <1>1, <1>2, <1>3, <2>1, <2>3 DEF Reserve
  <2>5. ~opened' => Len(bank') <= 1 /\ (pc' \in Unwritten => bank' = <<>>)
    BY <1>1, <2>1, <2>3 DEF LossInv
  <2> QED BY <1>2, <2>1, <2>2, <2>4, <2>5, CostsNothing, FS_EmptySet
<1> QED BY <1>4, <1>5, <1>6 DEF DeviceMoves

LEMMA LossStep ==
  ASSUME Types, OpenedBefore, LossInv, [Next]_vars, Types'
  PROVE  LossInv'
<1>1. CASE Passes
  BY <1>1, LossQuiet DEF Passes, Quiet, Hardware, InHand, Left
<1>2. CASE Handles /\ Running
  <2>1. Online => opened
    BY <1>2 DEF Online, OpenedBefore, Running
  <2>2. pc # "get" /\ pc' # "get"
    BY <1>2 DEF Handles, Poll, Send, SelectIN, Room, Wait, WaitFails, ClearIN, Goto
  <2>3. pc' \in Unwritten => pc \in Unwritten \/ opened
    BY <1>2, <2>1 DEF Handles, Poll, Send, SelectIN, Room, Wait, WaitFails, ClearIN, Goto,
                      Unwritten
  <2>4. pc' \in Unwritten \ {"select"} /\ selected' # "in" => Astray
    BY <1>2 DEF Handles, Poll, Send, SelectIN, Room, Wait, WaitFails, ClearIN, Goto, Select,
                Unwritten, Astray
  <2> QED BY <1>2, <2>2, <2>3, <2>4, LossQuiet DEF Handles, Quiet, Hardware, Left
<1>3. CASE GivesUp
  <2>1. \A s \in {"reply", "echo"} : Left(s)' = Left(s)
    BY <1>3 DEF GivesUp, GiveUp, Left, Types, LoopType, Sources
  <2> QED BY <1>3, <2>1, LossQuiet DEF GivesUp, Hardware, Unwritten
<1>4. CASE Get
  <2>1. \A s \in {"reply", "echo"} : Left(s)' = Left(s)
    BY <1>4, GetLeaves DEF LeftOver, Sources
  <2> QED BY <1>4, <2>1, LossQuiet DEF Get, Goto, Hardware, Unwritten
<1>5. CASE Dumps
  <2>1. \A t \in Sources : t # "dump" => queue'[t] = queue[t] /\ produced'[t] = produced[t]
    BY <1>5, DumpStarts
  <2>2. /\ \A s \in {"reply", "echo"} : Left(s)' = Left(s) /\ produced'[s] = produced[s]
        /\ bank' = bank /\ got' = got /\ InBank' = InBank /\ opened' = opened /\ wipes' = wipes
        /\ pc \notin Unwritten /\ pc' \notin Unwritten
    BY <1>5, <2>1 DEF Dumps, Left, Sources, Hardware, InBank, Unwritten
  <2>3. Lost' \subseteq Lost \cup {}
    BY <2>2, LosesNothing
  <2>4. Reserve' = Reserve /\ Reserve \in Nat
    BY <2>2, ReserveType DEF Reserve, Astray
  <2>5. ~opened' => Len(bank') <= 1 /\ (pc' \in Unwritten => bank' = <<>>)
    BY <2>2 DEF LossInv
  <2> QED BY <2>2, <2>3, <2>4, <2>5, CostsNothing, FS_EmptySet
<1>6. CASE UNCHANGED vars
  BY <1>6, LossQuiet DEF vars, deviceVars, mainVars, Left, Astray
<1> QED BY <1>1, <1>2, <1>3, <1>4, <1>5, <1>6, StepKinds, LossWrite, LossJoins, LossMoves

-----------------------------------------------------------------------------
(* The theorems                                                              *)

LEMMA InitInv == Init => IInv
<1> SUFFICES ASSUME Init PROVE IInv
  OBVIOUS
<1> USE DEF Init, DeviceInit
<1>1. DeviceType
  <2>1. bank \in Seq(Bytes) /\ Len(bank) <= BankSize
    BY DeviceAssumption
  <2>2. 0 \in 0 .. 1 /\ 0 \in Nat
    OBVIOUS
  <2> QED BY <2>1, <2>2 DEF DeviceType, States, Requests, Endpoints
<1>2. queue \in [Sources -> Seq(Nat)] /\ produced \in [Sources -> Nat]
      /\ (\A s \in Sources : queue[s] = <<>> /\ Left(s) = <<>> /\ produced[s] = 0)
  BY DEF Left
<1>3. LoopType
  <2>1. Len(queue["reply"]) <= QueueSize /\ Len(queue["echo"]) <= QueueSize
    BY <1>2, LinkAssumption DEF Sources
  <2>2. 0 \in 0 .. Period - 1 /\ 0 \in 0 .. QueueSize + DumpSize
    BY LinkAssumption
  <2> QED BY <1>2, <2>1, <2>2 DEF LoopType, Places, Sources
<1>4. Batch /\ BankHasRoom
  BY DEF Batch, BankHasRoom, InHand, Unwritten
<1>5. Numbers
  BY <1>2 DEF Numbers
<1>6. queue["dump"] = <<>> /\ produced["dump"] = 0
  BY <1>2 DEF Sources
<1>7. DumpShape
  <2>1. Len(queue["dump"]) = 0 /\ Len(queue["dump"]) <= DumpSize /\ 1 .. Len(queue["dump"]) = {}
    BY <1>6, LinkAssumption
  <2> QED BY <1>6, <2>1 DEF DumpShape
<1>8. OpenedBefore
  BY DEF OpenedBefore
<1>9. InOrder
  BY <1>2 DEF InOrder
<1>10. Gone = DumpSize /\ DumpSize \in Nat
  BY <1>6, LinkAssumption DEF Gone
<1>11. DumpInv
  <2>1. OneWritten
    <3>1. 0 \in 0 .. Gone /\ skipped = 1 .. 0
      BY <1>10
    <3> QED BY <1>6, <3>1 DEF OneWritten
  <2> QED BY <2>1 DEF DumpInv, HandInv, InHand, Unwritten
<1>12. Lost = {}
  BY <1>2, AcceptedIs DEF Lost, Sources
<1>13. LossInv
  <2>1. Reserve = 0
    BY DEF Reserve, Astray, Unwritten
  <2>2. wipes * (BankSize + 1) = 0
    BY DeviceAssumption
  <2> QED BY <1>12, <2>1, <2>2, FS_EmptySet DEF LossInv, Unwritten
<1> QED BY <1>1, <1>3, <1>4, <1>5, <1>7, <1>8, <1>9, <1>11, <1>13 DEF IInv, Types

\* IInv is inductive.
THEOREM Invariance == Spec => []IInv
<1>1. IInv /\ [Next]_vars => IInv'
  BY TypesStep, OrderStep, DumpStep, LossStep DEF IInv
<1> QED BY InitInv, <1>1, PTL DEF Spec

\* The types of all that moves: the bank is never overfilled, no queue holds more
\* than its size, no batch outgrows its queue, and nothing is taken from an empty
\* one (cwkeyer.c, sende_uart_puffer and usb_puts; CDC_Device_SendByte).
THEOREM TypeCorrect == Spec => []LinkTypeOK
<1>1. IInv => LinkTypeOK
  <2> SUFFICES ASSUME IInv PROVE LinkTypeOK
    OBVIOUS
  <2>1. DeviceType /\ LoopType /\ Batch
    BY DEF IInv, Types
  <2>2. \A s \in Sources \ {"dump"} : Len(queue[s]) <= QueueSize
    BY <2>1 DEF LoopType, Sources
  <2>3. BufferCount <= QueueSize + DumpSize
    BY <2>1, LinkAssumption DEF LoopType
  <2>4. pc = "get" => BufferCount \in 1 .. BankSize - 1 /\ queue[source] # <<>>
    BY <2>1, InHandType DEF IInv, Batch, InHand
  <2>5. skipped \subseteq 1 .. DumpSize
    BY GoneType, LinkAssumption DEF IInv, Gone
  <2> QED BY <2>1, <2>2, <2>3, <2>4, <2>5 DEF LinkTypeOK, DeviceType, LoopType, States, Requests,
             Endpoints, Bytes
<1> QED BY Invariance, <1>1, PTL

\* No byte overtakes another of its source or comes twice, in the bank or at the
\* host, whatever resets, suspensions and requests come between its being
\* written and its being dequeued (cwkeyer.c, sende_uart_puffer and usb_puts).
THEOREM OrderCorrect == Spec => []InOrder
<1>1. IInv => InOrder
  BY DEF IInv
<1> QED BY Invariance, <1>1, PTL

\* As long as nothing goes wrong the dumped bytes that usb_puts gives up are the
\* first of the dump (cwkeyer.c, usb_puts).
THEOREM DumpCorrect == Spec => []DumpLosesItsBeginning
<1>1. IInv => DumpLosesItsBeginning
  <2> SUFFICES ASSUME IInv, ~trouble, NEW n \in skipped, NEW m \in 1 .. n PROVE m \in skipped
    BY DEF DumpLosesItsBeginning
  <2>1. Gone \in Nat /\ skipped \subseteq 1 .. Gone
    BY GoneType DEF IInv
  <2>2. \E k \in 0 .. Gone : skipped = 1 .. k
    BY <2>1 DEF IInv, DumpInv, AllSkipped, OneWritten
  <2> QED BY <2>2
<1> QED BY Invariance, <1>1, PTL

\* Of the echo and the replies a reset or a new configuration of a link in use
\* costs at most what the bank held and the byte in hand, and nothing else costs
\* any (cwkeyer.c, sende_uart_puffer, which dequeues what CDC_Device_SendByte took).
THEOREM LossCorrect == Spec => []LossIsBounded
<1>1. IInv => LossIsBounded
  <2> SUFFICES ASSUME IInv PROVE LossIsBounded
    OBVIOUS
  <2>1. Reserve \in Nat /\ IsFiniteSet(Lost) /\ Cardinality(Lost) + Reserve <= wipes * (BankSize + 1)
    BY ReserveType DEF IInv, LossInv
  <2>2. Cardinality(Lost) \in Nat
    BY <2>1, FS_CardinalityType
  <2>3. wipes * (BankSize + 1) \in Nat
    BY DeviceAssumption DEF IInv, Types, DeviceType
  <2> QED BY <2>1, <2>2, <2>3 DEF LossIsBounded
<1> QED BY Invariance, <1>1, PTL
=============================================================================
