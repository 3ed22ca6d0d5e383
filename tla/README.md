# CW-Keyer: TLA+ models, checks and proofs

CW-Keyer is the firmware of a Morse keyer on an ATmega32U2. It keys a
transmitter, either from two paddles that an operator presses or from text that
a host sends over USB (a virtual serial port that speaks a WinKey dialect). This
directory holds TLA+ models of it, the TLC configurations that check them on
small instances, and proofs that TLAPS checks for every instance. Paths are
relative to `src/CWKeyer/`.

Run in this directory: `tlc -config X.cfg M` for a run of the table below, and
`tlapm M.tla` for a `*Proofs` module.

## 1. The system

Two activities share one memory, without an operating system:

* the **timer interrupt** `ISR(TIMER1_COMPA_vect)`, once a millisecond, which no
  other code of the program can interrupt;
* the **main loop** of `cwkeyer.c`, which the interrupt may stop between any two
  instructions: it sends queued bytes to the host, takes at most one byte from it,
  gives it to the decoder, and serves USB.

A third one, the **USB interrupts** of LUFA, interrupt the main loop too:
`USB_GEN_vect` follows the bus (suspend, wake-up, reset) and `USB_COM_vect` serves
control requests (address, configuration, line coding), waiting for the host inside
the interrupt with interrupts enabled. They change the state that the main loop
tests, the endpoint it has selected and the bank it writes to.

| Component | State | Operations | Talks to |
|---|---|---|---|
| Ring buffer, `RingBuffer/fifo.{h,c}` | the bytes, two cursors kept as pointer and distance to the end, `count` | `fifo_init`, `_reset`, `_put`, `_get_nowait`, `_peek_nowait` | four queues: text and echo between main loop and interrupt, elements and presses inside the interrupt |
| Keyer, `MorseFSM/MorseFSM.c` | two state machines, their tick counters, mode, speed, three queues, the byte being keyed, the key | the interrupt; `insert_keybyte`, `SetWPM`, `Morse_FSM_Update_Config`, `_Force_Dit/_Dah`, `_Empty_*_Buffer` | paddles, Morse table, echo queue, key output |
| Paddles, `HW_Def/HW_Def.h` and the head of the interrupt | one shift register of 8 samples each | one sample per tick | the keyer |
| Morse table, `LUT/chartomorse.c` | constant | `CharToMorse` | the keyer |
| WinKey decoder, `WinKeyDecoder/WinKeyDecoder.c` | decoder state, operands, `DefaultConfiguration`, EEPROM pointer | `Decoder`, one byte of the host each | keyer (commands and text), EEPROM, replies through a queue, dumps through `usb_puts` |
| Configuration store, same file | one configuration with a CRC, and 256 bytes of emulated WinKey EEPROM | `load_configuration`, `save_configuration`, dump and load | the keyer at start, the decoder |
| Main loop and USB link, `cwkeyer.c` | two output queues, the endpoint | `sende_uart_puffer`, `usb_puts`, the emulated baud rate | LUFA, decoder, echo queue |
| LUFA's device side, `src/LUFA/.../USB/{Class/Device,Core}` | device state, configuration, address, line coding, selected endpoint, IN bank | the two interrupts, `CDC_Device_ReceiveByte`, `_SendByte`, `_Flush`, `_USBTask` | the main loop, the host |

### What is hard here, and what has to be true

*Ring buffer.* `fifo_put` and `fifo_get_nowait` protect only the change of `count`;
everything else is safe only if each queue has one producer and one consumer and
the stores come in the right order. Correct: a bounded queue, each byte once, in
order. The code keeps the condition but for one case: the end of a break-in resets the
text queue and the element queue, also while the main loop is inside a put.

*Keyer.* The operator may break in at any tick of any state of the text's machine.
The break-in suspends that machine, the hand-back (`MorseFSM.c:475-486`)
drops the text but not the interrupted mark, and several states write no key level of
their own (the manual `IDLE`, both text pauses), so the key is right there only if
every way in leaves it right. Correct: no key stuck down, no press lost to the
hand-back, whole marks at proper distance, the text keyed as Morse, echoed after
it is keyed, resumed when the operator stops. Commands work on the same variables
a store at a time.

*Paddles.* A press counts at exactly seven ones, a held paddle from eight on.
Correct: one press per touch.

*Morse table.* Sixty-four hand-typed entries indexed by whatever byte the host
sends. Correct: in range, the right letter, no two alike.

*Decoder.* Operands are counted by states; a command whose state never returns to
`ANFANG` swallows the text. Correct: framing is kept, what is stored is what is
installed, the flow-control bytes say the truth.

*Configuration store.* Written byte by byte with the CRC last; the power may fail
between any two writes. Correct: a start installs a configuration that was saved
whole, or the defaults.

*Main loop and USB.* `sende_uart_puffer` loops until its queue is empty, whether
or not the host reads, on a device state and a selected endpoint that interrupts
change behind every test. Correct: no byte twice or out of order, a bounded loss
when the bus is reset, and the loop comes back when the host does.

`PROJECT.json` lists every hazard at its line with the properties that cover it.

## 2. Modules

| Module | Models | Used by |
|---|---|---|
| `BoundedQueue` | *abstract*: a bounded queue with reset | `EchoQueue`, `SharedQueue` implement it, `MorseFSM` uses it |
| `Fifo` | `fifo_t` and its uninterrupted operations | both queues |
| `EchoQueue` | the echo queue: interrupt puts, main loop peeks, sends, gets | run, proofs |
| `SharedQueue` | a queue the main loop puts into, as the text queue and the element queue: the interrupt gets, refills and flushes | runs, proofs |
| `Paddle` | one shift register | `MCInputs`, `MorseFSMProofs` |
| `MorseTable` | the table, the lookup, the loop that reads an entry | `MCInputs`, `MorseFSMProofs` |
| `MorseFSM` | the timer interrupt and the keyer's functions | `KeyLine`, runs, proofs |
| `KeyLine` | `MorseFSM` and an observer at the key output | runs, proofs |
| `AtomicStore` | *abstract*: a configuration stored at a stroke, with power failures | `ConfigStore` implements it |
| `ConfigStore` | the EEPROM byte by byte, CRC, start and repair | `WinKeyDecoder`, proofs |
| `WinKeyDecoder` | `Decoder()` with the store under it and the host as an observer | runs, proofs |
| `UsbDevice` | LUFA's device state, interrupts and requests, the IN bank | `UsbLink` |
| `UsbLink` | the main loop and the way of a byte to the host | run, proofs |
| `MCMorseFSM`, `MCKeyLine`, `MCInputs`, `MCWinKeyDecoder` | small instances | runs |
| `FifoProofs`, `EchoQueueProofs`, `SharedQueueProofs`, `MorseFSMProofs`, `KeyLineProofs`, `ConfigStoreProofs`, `WinKeyDecoderProofs`, `UsbLinkProofs` | proofs | |

`MorseFSM` does not repeat the cursors: its queues are the sequences of
`BoundedQueue`. `EchoQueue` shows the echo queue to be one, `SharedQueue` the text queue
and the element queue, but these only as long as no break-in ends while the main loop is
inside `fifo_put`. `MorseFSM` has that case as a state of its own, `main = "flushed"`, and
claims nothing beyond it (see below). It
keeps of a paddle's register only the run of newest ones, which `Paddle` shows to
be all the code can see of it. Its `Morse` is a constant, which `MorseTable` checks
for the real table. That the keyer fits these modules is proved (section 5).

### How the models correspond to the code

**`EchoQueue`.** `IsrPut` is the whole `fifo_put` of the interrupt. The main loop's
side is cut at every access to what it shares: `StartBatch` reads `count` once for
the batch, `fifo_peek_nowait` peeks, `SendFails` gives up, `GetLoad`, `GetSavePtr`,
`GetSaveEnd` and `GetCount` are the four steps of `_inline_fifo_get`, the last the
one between `cli()` and the restored `SREG`.

**`SharedQueue`.** The mirror image: `PutCheck` to `PutCount` are the six steps of
`_inline_fifo_put`, whether `insert_keybyte` puts a character into `AsciiQueue` or
`Morse_FSM_Force_Dit` an element into `FSM_Queue`. `IsrGet`, `IsrFlush` and, for the element
queue, the refill's `IsrPut` run in one piece; the last only outside a put of the main
loop, which is `OneProducer` of `MorseFSM`. `FlushDuringPut` says whether the end of a
break-in may fall inside a put.

**`MorseFSM`.** Variables have the names of the code. `Tick(p1, p2)` is one run of
the interrupt: `SamplePaddles` shifts the two samples in, and `ManualTick` or
`AutomaticTick` follows as the code's `if (... || FSM_Mode == FSM_Manuall)` has it.
The manual part first handles the paddle events (`EventQueue`, `EventState`,
`EventParameterA` are what they leave), then takes the one branch of
`switch(FSM_ManualState)` that applies, one action per branch. `AutomaticIdle` is
the whole `case IDLE` of the text's machine: the echo of the last byte, the fetch
and lookup of the next, and the start of its first element, in one tick.
`KEYOUTPUTHIGH` is `Key = "HIGH"`, the transmitter on.

The main loop's functions are actions that need `main = "idle"`. Where a function
has several stores on shared state, each is an action and `main` says which comes
next: `insert_keybyte` (`insert_keybyte`, `InsertPut`), `Morse_FSM_Force_Dit`
(`ForceResetAscii`, `ForceResetFSM`, `ForceCheck`, `ForcePut`) and
`Morse_FSM_Update_Config` (`UpdateKeymode` to `UpdateWPM`). `Command` leaves the
order of commands to the host: it allows every order of calls that `WinKeyDecoder`
can make, and more, so what holds of `MorseFSM` holds under the decoder.

A put of the main loop is two steps: the test for room, and the `count++` that shows the
byte to the interrupt; `SharedQueue` has the stores in between, which the interrupt does not
read. If `EndBreakIn` falls between the two (`InsidePut`), the put goes on with cursors
from before the reset. The byte is counted, but not where the interrupt will look for it,
and as the saved pointer no longer goes with its distance to the end, a later wrap may
carry it out of the buffer. What the program does after that depends on what lies
there. `FlushIsSeen` therefore sets `main` to `"flushed"` for good: the main loop does nothing
any more, and no property is meant to speak of the program from then on, though the
interrupt's part is still followed and those that do not say `PutsAreWhole` hold of it. The
properties that would be false right after such a flush, because they relate the queues
to the text, carry `PutsAreWhole` as a condition.

Divisions are the code's integer divisions; for the speed 0 the build's division
routine answers all ones. Counters are unsigned and wrap at `Word`.

**`KeyLine`.** `ObserveTick` counts the ticks the key has been down (`high`) or up
(`low`), `expected` is what the accepted text says is still to be keyed, and
`byHand` who keyed the last mark. A byte is accepted when `InsertPut` counts it. It reads the keyer and never steers it.

**`Paddle`, `MorseTable`.** The register with all 256 values; the table with all its
entries, where `TableNext` looks one byte up after another.

**`ConfigStore`.** `save_configuration` and `LoadDefaults` only begin to write; then
`WriteByte` writes `wparam[next]`, and `WriteCrcLo` and `WriteCrcHi` the two halves
of the word at `CRC16_EEPROM_ADDR`. `PowerFails` may come at any point and leaves the
byte or half that was being written torn (`Torn`); one that `eeprom_update_*` finds
unchanged is not written and cannot tear. `active` is what the keyer was last given
by `Morse_FSM_Update_Config` or `SetWPM`. Half a CRC is kept as the configuration it
was computed from, so `Matches` compares configurations: the model leaves out that a
torn mixture may by chance have the CRC of another configuration. The code's CRC-16
catches every change of up to two neighbouring bytes and all others but one in
65536.

**`WinKeyDecoder`.** `Text`, `Command`, `Query`, `Admin` and the actions under
`Operand` are the branches of `Decoder()`; `Commands` is the inner switch as a set
of pairs of byte and state. A handler's assignments are one step, as nothing
else reads them; its calls of `save_configuration` and `Morse_FSM_Update_Config` are
steps that follow in the code's order (`then`), with the power failing in between.
`Free` says when the main loop decodes the next byte. The keyer is `text`, the length of
its queue, which `KeyerTakes` shortens between any two steps. `expects` and `due` are
the host's own count of what it still has to send; a restart is taken to reach the host.
How many operands a command has is read from its name, its comment and the place its
operands go to (one byte of the configuration, all of them, 256 bytes). For the pointer
command 0x16 and the admin codes 0x0E, 0x0F, 0x13 and 0x16 the repository has nothing but
the decoder's own code, so of these `InStep` only says that a command after them is
still taken for one, and cannot find their count wrong.
The emulated EEPROM lies between configuration and CRC (`LayoutAssumption`), so
what LOAD_EEPROM writes is a variable of its own.

**`UsbDevice`.** `Suspended`, `WokenUp` and `Reset` are the three branches of
`USB_GEN_vect` that this controller has. A control request is cut at its wait for the
host: `SetAddress`, `SetConfiguration` and `SetLineEncoding` are what comes before,
`AddressEnabled`, `ConfigurationChanged` and `LineEncodingChanged` what comes after.
While a request is served the main loop stands still (`Running`). On this controller
LUFA calls a suspended device `Unattached`. `stuck` is a SET_LINE_ENCODING whose data
a bus reset has taken away: it loops on `Endpoint_IsOUTReceived`, the reset has
enabled the interrupt of the next SETUP packet, and the handlers of later requests
nest inside it. The flags of the control endpoint may be up or down where the main
loop reads them by mistake.

**`UsbLink`.** `pc` is the place in `main`, `sende_uart_puffer`, `usb_puts`,
`CDC_Device_SendByte` or `CDC_Device_Flush`, cut at every test of something that an
interrupt may change and at every use of the selected endpoint. A byte is a pair of
source and number. `HostConnects` is what a host does to bring the link up,
`HostDisturbs` what it does out of turn, at most `MaxEvents` times.

## 3. Runs

All bounds are constants of the cfg files. In the keyer's runs a dit is one or two
ticks (`DitMs`), a clean press two samples, the counters 13 to 32 values wide
(`Word`), the queues one to four elements.

| Run | Question | Bounds |
|---|---|---|
| `EchoQueue` | Is the echo queue a bounded queue with both sides interleaved store by store? | 4 cells, batch 2, 2 bytes |
| `SharedQueue` | And a queue the main loop puts into, if no flush interrupts a put? | 4 cells, 2 bytes |
| `SharedQueueFlush` | *violation*: and if one does? | same |
| `MCBreakIn` | Does any play of both paddles, in each mode, over text, leave a key down, a press behind, a pause keyed? Does every tick without a paddle bring the text nearer, and does it come back once the paddles are left alone? (liveness) | text of E and space, text queue 1, presses queue 1, 4 modes, echo in two of them, echo queue of 1 that may stay full |
| `MCHostCommands` | Are letters unmixed, is there one producer, and is the key up when nothing is keyed, with every host command cut at its stores and the end of a break-in anywhere between them? | A; one paddle; start in iambic A or bug mode; configurations that swap paddles, leave bug mode and set speed 0 |
| `MCModeChange` | *violation*: is a bug dah released after a change of mode? | a configuration leaving bug mode |
| `MCKeyedText` | Does a listener hear the text, with its pauses, and is it echoed after? | A, N, an unknown character, space; text queue 3; 2 speeds |
| `MCBreakInLine` | What does the transmitter see of break-ins into text? | A; 4 modes, without echo; observer counts to 13 |
| `MCInputs` | Is the run of ones all there is to see of a paddle's register, a touch one press, and the table right? | none: the real register, all 256 bytes |
| `MCWinKeyDecoder` | Do decoder and host stay in step, does flow control hold, does a configuration survive power failures at any point? | 4 places and 3 byte values, emulated EEPROM of 2, text queue of 2, all commands and admin codes |
| `MCSidetone` | *violation*: does SIDETONE take one operand? | same, two commands |
| `UsbLink` | What of echo, replies and a dump reaches the host, in which order, and does the main loop come back? (liveness) | bank 2, queues 2, 3 echoes, 1 reply, dump of 2, one disturbance |

**Why the bounds are enough.** The queues behave differently only when empty, full
and wrapping, which four cells (two batches) and one element reach. The keyer
compares its counters with 0 and 1 only, so a dit of one or two ticks meets every
branch; `Word` keeps the values that the code's timings need apart
(`TimingAssumption`) and is small enough for the wrap from 0 to be followed to its
end, which with 2^16 takes 65 s of real time. The table's longest letter needs
nothing that two marks do not. Two samples make a press, hold and bounce as seven
do. Letters are chosen for the case at hand: E is a single mark, A and N differ
only in order, `#` stands for a character without marks. The observer has to count
beyond the longest time a property names (`ObserverAssumption`). The proofs of section 5 are
free of all of these bounds.

A configuration of four places has the three that the code writes by name (mode,
speed, ratio) and the header; three byte values tell an old, a new and a default byte
apart. Operand counts come from `ConfigSize` and `EepromSize` in the model as
from `sizeof` and 256 in the code, and the decoder compares its counters with
nothing else. In `UsbLink` a bank of two is empty, begun and full, and the two bytes
of echo or dump fill it; the reply comes between them. A disturbance may fall
between any two steps, before the link is up, while it is in use, and once more as
its own recovery. Three echoes and a reply are four bytes, one more than a wipe may cost
(`BankSize + 1`), so the bound of `LossIsBounded` can fail after a wipe and before one.
Instances with two and three disturbances and a bank of three (one to five million
states) were checked with the same safety properties, and one with two disturbances with
the liveness properties too; they are not among the runs for the time they take.

`MCHostCommands` starts in iambic A, where a dah ends by itself, and in bug mode, where
only the release ends it and the configuration that comes meanwhile takes bug mode
away. With an operator, forced elements and a text byte in one run, every place a tick can
fall between two stores of a command is met, the end of a break-in inside a put included.

### What the properties say

*Queues.* `CursorsAgree`: pointers, distances and counter describe one queue between
any two stores. `BatchIsCovered`: the count read once is a safe promise, so the
`-1` of an empty queue is never sent as 0xFF. `SentIsRemoved`: the byte removed is
the byte sent. `StoredBeforeCounted`: the interrupt never takes an unfilled cell.
`IsBoundedQueue`: refinement of `BoundedQueue`.

*Keyer.* `HandedOver`: back to the text only with nothing of the operator's left.
`NoStuckKey`, `GapsAreSilent`: the key is up in the states that do not write it; the
first is checked with configurations that arrive at any time as well (`MCHostCommands`).
`OneProducer`: when the main loop puts a forced element the interrupt cannot be
putting into the same queue. `RestOfLetter`: the element queue holds the rest of
one letter, unless a break-in has ended inside a put. `BugDahIsHeld`: a bug dah lasts
as long as its paddle is held (holds without changes of mode; the theorem `BugDahHeld`).
`ReturnsToText`, `TextGoesOut`: once the paddles are left alone the keyer is back at the text, and the text queue never stands
still with a byte in it. `EveryTickCounts`: the safety underneath, a count of the ticks
that are left (`TicksLeft`) of the break-in or of the byte being keyed, which every tick
without a paddle lowers and nothing the main loop does raises.

*What `PutsAreWhole` conditions.* `RestOfLetter`, `TextIsKeyed`, `EchoFollowsKeying` and
`PausesAreKept` relate the element queue, the text accepted and what is keyed, and say
nothing once a break-in has ended inside a put: in the code they then fail, as
`SharedQueueFlush` shows. The others hold of the modelled interrupt whatever `main` is,
but past such a flush the model is not the program, so all of them are to be read as said
of the program up to there.

*Key line.* `TextIsKeyed`, `EchoFollowsKeying`, `PausesAreKept` for the text (the
second is checked without an operator only, and proved with one: `EchoFollows`);
`WaitsItOut`, `MarksAreWhole`, `MarksAreApart` for the operator.

*Inputs.* `RunIsEnough` for the paddles: a touch is one press until the first zero sample
(it says nothing of contact bounce, see the disagreements); `LookupIsSafe` and
`AsInTheChart` for the table.

*Store.* `StoredWhole`: whenever the decoder is at work, what it stored last is in
the EEPROM as a whole, so a power failure now costs nothing; and a start never
installs bytes of two configurations, nor one from before the last. `IsAtomicStore`: refinement of `AtomicStore`, which says what a power failure
during a save may leave: the old one, the new one, or none.

*Decoder.* `InStep`: the decoder waits for a command exactly when the host has sent
all operands of the last one, and puts each operand in its place. `FlowControl`: a
status without XOFF is a promise of room for the next 42 bytes. `SettingsSurvive`: a
host that has set mode and speed since the start finds both again after a power
failure. Either alone is not enough, and the property says so by its premise:
`DefaultConfiguration` starts as zeros, whatever is stored, so SET_KEYMODE alone
stores the speed 0, and WPM_SPEED alone the mode 0.

*USB link.* `InOrder`: no byte reaches the host twice or out of order.
`LossIsBounded`: a reset or new configuration of a link in use costs what the bank
holds and the byte in hand, and nothing else costs any. `DumpLosesItsBeginning`:
while nothing goes wrong a dump may lose bytes to `usb_puts`' unwaited test, but
only its first ones. `ReturnsToDecoder`, `EchoGetsOut`: once the host is back, so is
the main loop, and the last echo leaves a bank that is not full.

### Disagreements found

* `CountsContents` (`SharedQueueFlush`): the break-in that ends while the main loop is
  inside `fifo_put` leaves `count` one too high and the cursors apart, until the
  next reset. It can happen to a character of the text (`AsciiQueue`) and to a forced
  element (`FSM_Queue`), as `MorseFSM.c:481` flushes both; a stale cell is keyed then.
* `BugDahIsHeld` (`MCModeChange`): a mode change while the bug's dah is held leaves
  the transmitter keyed: the release is handled in bug mode only.
* `OperandsEnd` (`MCSidetone`): SIDETONE never returns to the commands; after it
  the keyer takes neither text nor commands until it is restarted.

Reading the code for the model showed more, without a run: every press of the dah
paddle during a dit adds two dits to it, so a bounce makes it longer than the dah of
the comment at `MorseFSM.c:420`; SW_PADDLE is left as little as SIDETONE; the
comments at `MorseFSM.c:172` and `WinKeyDecoder.c:564` have iambic A and B the other
way round than `MorseFSM.c:126-134`; a dit of the text takes one tick more than
1200/WPM and a dah two more (`MorseFSM.c:819`, `:848`), so a dit at 100 WPM lasts
13 ms and not the 12 of `cwkeyer.c:291`; a bug dah does not start the post-wait of a
dit that `MorseFSM.c:399` speaks of; one zero sample releases a paddle, where
`cwkeyer.c:47-48` asks for seven, so that a
bounce of a held paddle is a release and a new press; the reply to a byte that found the text queue full
(`WinKeyDecoder.c:141`) is the status of a queue with room; `cwkeyer.c:161` says
every 16th pass and means every 32nd. The model has the code's behaviour in all of
these, and its properties are stated with it in mind (`WaitsItOut` and
`MarksAreApart` leave bug mode out; `PausesAreKept` allows the tick; `InStep` leaves
the two trapped states out).

## 4. Fairness

Safety is checked and proved without fairness. `FairSpec` adds two conditions.

`WF_vars(Continue)`: a function the main loop has begun is finished, as nothing in it
waits. (Past a flush inside a put no function goes on in the model, and nothing is
claimed.)

`WF_vars(Tick(0, 0))`: the hardware raises the interrupt for ever once
`Morse_FSM_Start` has enabled it. Fairness of `Timer` as a whole would be wrong: a
tick that changes nothing is a stuttering step, and where only such ticks are left
`WF_vars(Timer)` would make the operator press a paddle, so that no behaviour could
show a keyer that hangs. In the behaviours that the liveness properties speak of,
those with `<>[]Released`, endless ticks are endlessly many `Tick(0, 0)`, and
that is all the condition asks.

Nothing is assumed of the host there: it may never read its echoes and never send
again.

`UsbLink`'s `Fairness` has a condition for each party. `WF_vars(MainLoop)`: the
processor goes on when no interrupt holds it up; `CDC_Device_SendByte`'s wait may end
either way. `WF_vars(Device /\ Served)`: an interrupt handler that need not wait for
the host any more ends. `WF_vars(Device /\ HostConnects)` and
`WF_vars(Device /\ HostReads)`: there is a host that brings the link up again and goes
on reading. This is an assumption on the host, and the properties need it:
`sende_uart_puffer` loops as long as it cannot send. Neither assumes that a bus is
ever suspended, which alone ends a SET_LINE_ENCODING without data; both properties
make that exception (`stuck`), and the run does not check for deadlock because of it.

## 5. Proofs

Everything below holds for every size, speed, alphabet, table and configuration that
the named assumptions of the modules allow.

**`FifoProofs`** has the arithmetic of the cursors (`Ahead`, `Behind`, `AdvancedPtr`)
that the two queue proofs cite.

**`EchoQueueProofs`.** The inductive invariant is `TypeOK`, `CursorsAgree` and
`BatchIsCovered` with `GetLocals`, which says what the locals of the get hold between
its stores. From it: `CursorsCorrect`, `BatchCorrect`, `RemovesWhatWasSent`, and
`Refinement`, where every store but the counted ones is a stutter of `BoundedQueue`.

**`SharedQueueProofs`** proves the same of a queue the main loop puts into, under
`~FlushDuringPut`. The condition is needed: `SharedQueueFlush` is the counterexample without
it.

**`MorseFSMProofs`.** The invariant `IInv` is `TypeOK`, `KeyInv` and `TextInv`:

* `KeyInv` adds `HeldIsSilent` to `HandedOver`, `NoStuckKey` and `GapsAreSilent`.
  `NoStuckKey` alone is not inductive: a tick that finds a paddle held, but newly
  pressed no longer, goes from the text to the manual `IDLE` without writing the
  key. `HeldIsSilent` says that this only happens after a hand-back under a held
  paddle, with the key up.
* `TextInv` adds `ForcedFirst` to `OneProducer` and `RestOfLetter`: from the first
  reset of `Morse_FSM_Force_Dit` on the text queue is empty, which is why the
  interrupt cannot refill the element queue between the second reset and the put; and
  `RoomIsLeft`, that a put that has found room still has it when it counts its byte, as the
  interrupt only takes.

There is one step per action, and one below it per conjunct the action can disturb.
`TypeCorrect`, `HandOverCorrect`, `KeyReleased`, `GapsSilent`, `SingleProducer` and
`LettersUnmixed` follow. `LettersUnmixed`, like everything below that speaks of the text
queues, holds as long as no break-in ends inside a put (`PutsAreWhole`).

`BugDahHeld` proves `BugDahIsHeld` of every behaviour in which the mode is not changed
while a dah of bug mode is keyed (`ModeKept`). The condition is needed: `MCModeChange`
is the counterexample without it. `BugDahHeldUnconfigured` is the case of a host that
sends no configuration. The invariant says more than the property: the mode is still
bug mode, as only then the release is handled.

*How long the text waits.* `TicksCount` proves `EveryTickCounts`, and `WaitIsBounded` draws
the conclusion: with a clock that counts the ticks without a paddle (`ClockSpec`), an
operator who lets go gives the keyer back, and then each byte of the text is taken, within
`MaxTicks`, as long as no break-in has ended inside a put. That is `ManualSize + FSMSize + 3` times the longest element the counters can
hold; it depends neither on the speed, 0 included, nor on what the host sends meanwhile.
The measure has one part per machine. `BreakInLeft` counts the presses that wait and the one
extension iambic B may still add as an element each, then what is left of the element under
way, then the post-wait, which any of them may begin anew and which may wrap from 0.
`ByteLeft` counts the elements left in `FSM_Queue`. It is lowered by what each tick does
(`BreakInTick`, `ByteTick`: one case per action) and left alone by the main loop
(`MainWaits`: a forced element is only put where no byte waits, by `TextInv`). Both
theorems also need `ModeKept`, as in `MCModeChange` the keyer never comes back. With the
fairness of the tick they are why `ReturnsToText` and `TextGoesOut` hold; that last
inference is TLC's.

*What the keyer leaves to other modules.* `MorseFSM` replaces three things by something
simpler, and each replacement is a theorem:

* `RegistersRefine`: give the keyer the two 8-bit registers next to its runs of ones
  (`RegisterSpec`), and each of them with its run is a `Paddle`. `Shows` is the invariant, one
  line per length of the run. `RunSuffices`: so `RunIsEnough` holds of both all the time.
* `TableFits`: what is assumed of `Morse` holds of the table of the code, and `LookupsSafe`:
  `LookupIsSafe` holds of every byte the keyer comes to key.
* `QueuesRefine`: the text queue and the echo queue of the keyer, with the bytes that left
  them observed, are `BoundedQueue`s, which is what `SharedQueue` and `EchoQueue` implement;
  of behaviours in which all puts are whole, the condition the first of them has too. (The
  other two are not mapped: a letter is put into `FSM_Queue` and its first element taken
  within one tick, and only the interrupt uses `ManualDataQueue`.)

**`KeyLineProofs`** extends them to what the transmitter sees. Its specification has no
command of the host but text, so the configuration stays the stored one; of the keyer
below the observer `LineRefines` shows that it is the one of `MorseFSM`, whose `IInv`
carries over. Two invariants are added, one for each hand on the key.

*The operator* (`LineInvariant`). `HandInv` relates the observer's two counters to the
keyer's states and parameters:

* `KeyCounted`: which of the two counters runs, the key that the hardware is set up
  with down included.
* `BagInv` and `WaitInv`: after the operator's last mark, the pause that has passed and
  what is left in `SwitchBagLevel` add up to the post-wait. A break-in while the keyer
  waits begins the count anew, which is why the states that lead to a mark have to be
  followed too. It gives `WaitIsWhole`.
* `ApartInv`: the same for the dit's gap after a mark, which `FSM_ParameterB` still holds
  when the mark itself ends. It gives `MarksApart`.

`MarksWhole` needs a third relation, `WholeInv`, between what has been keyed of a mark
and what is left in `FSM_ParameterA`, and a hypothesis, `DitFits`: while a dit has not
yet had its own length, prolonging it does not carry that counter over its sixteen
bits. Every press of the dah paddle in a dit adds two dits to it (`MorseFSM.c:419-423`),
and nothing limits the presses; without the hypothesis TLC finds a clipped dit on an
instance with one sample to a press and a narrow counter (`DitMs` 12, `Word` 145).
`MarksWholeAtSpeed` replaces the hypothesis by one on the speed. Between two presses of a
paddle lie a release and seven samples, so in the `e` ticks keyed of a dit it can have been
prolonged about `e / 8` times only; `DitBounded` is that relation between `high`,
`FSM_ParameterA` and the paddle's run of ones (`ToPress`), and inductive. `SpeedFits` asks that a
dit prolonged that often fits its counter. `MarksWholeInBuild` does the arithmetic for the
build's numbers: it holds at every stored speed of 3 WPM and more. At one or two words a
minute (27 and 55 presses in a dit) the counter can overflow; there, and at the speed 0,
only `MarksWhole` with its hypothesis speaks.

*The text* (`PlanInvariant`). `expected` is the listener's plan. `PlanInv` says, in every
state in which the text has the keyer, how that plan lies over the two queues. All of
this, and with it `PausesKept`, `EchoFollows` and `TextKeyed`, is stated of behaviours in
which no break-in has ended inside a put: after one the queue no longer holds the accepted
bytes (`SharedQueueFlush`), and no plan could match it.

* `SoundInv`: the key is down only in a mark of the text, which is the first of the plan,
  or an interrupted one that was taken up again after a break-in (`any`).
* `LetterInv`: what is left in `FSM_Queue` is next in the plan and ends in the pause.
* `LayoutInv`: behind it come the marks of the bytes in `AsciiQueue`, cut byte by byte
  (`Planned`), each with the pause that is due before it; `Quiet` says of the first of
  these pauses that what has passed of it and what is certain to come add up.
* `CloseInv` and `LenInv`: inside a letter a gap is not longer than it should be, and what
  has been keyed of a mark and what is left of it make a dit or a dah.

It is needed because the three properties are about the moment a mark begins or ends,
and the plan was made when the byte was accepted, many steps before; the cuts connect the two.
A step of the text's machine moves the border between letter and bytes (`TextLetter`,
`TextRefills`, `TextMarks`), a byte accepted adds one cut at the end (`PlanGrows`), a byte
taken drops the first (`PlanTail`), a hand-back drops all of them (`PlanDrop`).

`PausesKept` and `EchoFollows` follow for every speed, 0 included. The second has to
equate the plan with `FlattenSeq` of the queue, which is recursive: `FlattenByCuts`
goes over the queue's bytes with `LeastNatural`, the least counterexample, which
the well-foundedness of the naturals gives without an operator as parameter.
`TextKeyed` is stated for stored speeds of 1 to `DitMs`. A speed in the code is a byte
and `DitMs` is 1200, so this leaves out the speed 0 only, where dit and dah have the same
length, `Word - 1`, and no listener can tell them apart.

**`ConfigStoreProofs`.** `StoreInv` adds to `StoreTypeOK` how far a write has got
(`Progress`): while bytes are written those below `next` are the new ones, and the CRC's
low half is the new one once it has been written; while the keyer runs the CRC
matches and the bytes are those stored last; a start's own repair writes a
configuration with default values. The conjunct that carries the argument is that
the CRC's high half, written last of all, is at any time that of the configuration
stored last, or none's: so a CRC that matches is the CRC of `saved` (`MatchIsSaved`), however
many power failures came in between. `StoredWhole` follows.
`Refinement` maps every byte to `Overwrite` or a stutter of `AtomicStore` and the last
half of the CRC to `Saved`.

**`WinKeyDecoderProofs`** extends them. `DecoderUsesStore` shows that every step of
the decoder is a step of the store or leaves it alone, so the store's theorems
hold of the decoder's specification (`DecoderIsAtomic`, `DecoderStoresWhole`). `InStepCorrect` rests on `Agreement`, which ties
the decoder's state to the host's `expects` and `due`; of the two trapped states it says
only that `expects` and `due` fit each other. `SettingsSurviveCorrect` rests on `Settings`, which follows the two settings
from the operand to the copy in RAM, the EEPROM and the keyer, through the steps of
`then`. `FlowControlCorrect` is inductive as it stands.

**`UsbLinkProofs`.** The invariant `IInv` has five parts, and each step of the main
loop, the timer interrupt and the device is first put into one of a few kinds by what it
moves (`StepKinds`):

* `Types` says that of a batch no more is left than its queue holds (`Batch`), that a
  byte is only written where there is room (`BankHasRoom`: after `wait` because the
  bank the host has read is empty), that no byte is met that has not been produced
  (`Numbers`), and that the dump is worked off from its beginning (`DumpShape`).
* `OpenedBefore`: a device that is online once its requests are served has been
  opened, so that what the main loop finds online after an interrupt counts as in use.
* `InOrder` is inductive with `Types`. A byte that is written and not yet dequeued
  counts as written; `Write` moves it, `Get` leaves it where it is.
* `DumpInv`: without trouble either all the dumped bytes that are gone were skipped, or
  one was written; then the bank is not sent before it is full, and so never found
  on its way by the next byte.
* `LossInv` adds to `LossIsBounded` the byte that a link already counted as wiped may still
  cost (`Reserve`): one in hand while another endpoint is selected, or while the link
  is not in use, and later in a bank that is wiped again before the link is opened.

`TypeCorrect`, `OrderCorrect`, `DumpCorrect` and `LossCorrect` follow, for every
`MaxEvents`, so for every number of disturbances.

**Model-checked only.** The four liveness properties, and everything that needs `ENABLED` (out
of the prover's reach); of the keyer's two the safety half is proved, of `UsbLink`'s it is not,
as there every step forward waits for the host. `AsInTheChart`, which compares the table with
a tree walked by recursion. `MCInputs` is exhaustive for the real data, the 256 values of a
register and the 256 bytes of the host, so it needs no proof; what is proved about `Paddle`
and `MorseTable` is that the keyer is entitled to them. Before they were proved, the parts of the inductive invariants were checked by TLC
on the instances of the runs, those of `PlanInv` with the cuts computed from the queue.

## 6. Not modelled

* The rest of LUFA, which is most of the repository by size: a vendored library for
  many devices. Host mode and pipes are not compiled into this program, the audio, HID,
  MIDI, mass storage, printer and still image classes and the stream functions
  are not called, the headers of other architectures not used. Of what the
  program does use, these are left out: requests that only read (descriptors,
  status, line coding), SET_ADDRESS with 0, endpoint halts, remote wake-up. No
  property would tell the models with and without them apart.
* `USB_USBTask` in the main loop: with control requests served by interrupt it finds
  none.
* Which bytes of the host arrive over a disturbed link: `UsbLink` lets any byte
  arrive, `WinKeyDecoder` any sequence of them.
* The composition of `WinKeyDecoder` with `MorseFSM`'s variables. The first sees of the
  keyer only the length of its queue and what it was given, the second allows every
  order of commands.
* A power failure inside a byte of the emulated EEPROM: nothing is claimed of its
  contents.
* `SetupHardware`, descriptors: set-up and constant data. The watchdog that a reset
  leaves running, with its shortest period, through the first 200 ms of `main` is left
  out: that period is the hardware's. So is `long_delay(10000/baud)`, which a host's
  baud rate of 0 makes a division by zero.
* Time below a tick, and an interrupt missed because a handler overran its
  millisecond; the emulated baud rate, a delay.
* The dit/dah ratio, weighting, farnsworth and the other settings the keyer
  stores and never reads.
* Functions without a caller: `fifo_get_wait`, `SetEchoMode`, `Morse_FSM_Stop`,
  `Morse_FSM_SetWPM`, `insert_FSMData`, and `SetPaddleSwap`, which is empty.
* Two-byte accesses of the main loop cut in half by the interrupt: the speed and
  the modes are single bytes.

## 7. What could follow

1. The observer of `KeyLine` under the host's other commands: what a listener may
   expect of a text whose speed changes while it is keyed, or that a forced element cuts.
2. The host's side of a dump: a reader that can tell which bytes are missing.
