------------------------------- MODULE MorseFSM -------------------------------
(***************************************************************************)
(* The keyer of MorseFSM/MorseFSM.c.  A timer interrupt runs every           *)
(* millisecond: it samples the two paddles, and then advances either the     *)
(* manual state machine (the operator keys) or the automatic one (the text   *)
(* of the host is keyed).  The main loop works on the same variables through *)
(* the functions the decoder calls; the interrupt can fall between any two   *)
(* of their stores, which are therefore actions of their own.                *)
(*                                                                           *)
(* The queues are the bounded queues that EchoQueue and SharedQueue show the *)
(* code's fifo_t to be, and a put of the main loop is cut in two: it begins  *)
(* where it finds room, and the byte is in the queue once it is counted; the *)
(* stores in between change nothing that the interrupt reads.  One thing     *)
(* breaks such a queue, a break-in that ends while the main loop is inside   *)
(* fifo_put: the flush resets the cursors under it (SharedQueue's violation, *)
(* and the next wrap may leave the buffer).  From then on the main loop is   *)
(* not followed any further (main is "flushed"): the module describes the    *)
(* keyer up to there, and what is said of the text is said of behaviours in  *)
(* which this has not happened (PutsAreWhole).                               *)
(*                                                                           *)
(* A paddle's shift register is kept as the length of its newest run of      *)
(* ones, all that the code tests of it (see Paddle).                         *)
(***************************************************************************)
EXTENDS Integers, Sequences

CONSTANTS
  Chars, SPACE,           \* the bytes of the text, ' ' among them
  Morse,                  \* CharToMorse: the elements of each other byte
  NoChar,                 \* TXChar == -1
  AsciiSize, FSMSize, ManualSize, EchoSize,   \* sizes of the queues
  DitMs,                  \* 1200: milliseconds of a dit at 1 WPM
  Word,                   \* 2^16: the counters are uint16_t
  Samples,                \* 7: samples of a clean key press
  Paddles,                \* pairs of paddle bits the operator may produce
  BootConfigs, Configs,   \* configurations stored in EEPROM, sent by the host
  Speeds,                 \* operands of the host's WPM_SPEED command
  Forced                  \* elements the host may force, DIT_MACHINE or DAH_MACHINE

Elements == {"DIT_MACHINE", "DAH_MACHINE", "SPACE_MACHINE", "LETTERPAUSE_MACHINE"}
ConfigSet == [mode : 0 .. 3, swap : 0 .. 1, echo : 0 .. 1, WPM : Nat]

ASSUME TextAssumption ==
  /\ SPACE \notin {NoChar} /\ NoChar \notin Chars
  /\ Morse \in [Chars \ {SPACE} -> Seq({"DIT_MACHINE", "DAH_MACHINE"})]
ASSUME QueueAssumption ==
  /\ AsciiSize \in Nat \ {0} /\ FSMSize \in Nat \ {0}
  /\ ManualSize \in Nat \ {0} /\ EchoSize \in Nat \ {0}
  /\ \A c \in Chars \ {SPACE} : Len(Morse[c]) < FSMSize
ASSUME TimingAssumption ==
  /\ DitMs \in Nat /\ Word \in Nat \ {0, 1} /\ Samples \in Nat \ {0}
  /\ 12 * DitMs < Word
ASSUME InputAssumption ==
  /\ Paddles \subseteq (0 .. 1) \X (0 .. 1)
  /\ BootConfigs \subseteq ConfigSet /\ Configs \subseteq ConfigSet
  /\ Speeds \subseteq Nat
  /\ Forced \subseteq {"DIT_MACHINE", "DAH_MACHINE"}

VARIABLES
  PaddleKeyA, PaddleKeyB,           \* run of ones, 0 .. Samples + 1
  FSM_Mode,                         \* who keys: the text or the operator
  FSM_State, FSM_ManualState,       \* the two state machines
  FSM_ParameterA, FSM_ParameterB,   \* ticks left: of the mark, of the gap
  SwitchBagLevel,                   \* ticks until the text may be keyed again
  ManualDataQueue,                  \* paddle presses not yet keyed
  FSM_Queue,                        \* elements of the letter being keyed
  AsciiQueue,                       \* text not yet keyed
  TXChar,                           \* byte being keyed, to be echoed after it
  EchoBuffer,                       \* MorseEchotoUSB_Buffer
  LAMBICB_EXTENSION, ULTIMATIC_EXTENSION,
  CurrentKeymode, current_paddle_swap, EchoModeOn, current_WPM,
  Key,                              \* KEYOUTPUTHIGH keys the transmitter
  main,                             \* where the main loop is in a function
  Config,                           \* the configuration it installs
  data                              \* the byte or element it puts: fifo_put's parameter

paddleVars == <<PaddleKeyA, PaddleKeyB>>
manualVars == <<FSM_ManualState, SwitchBagLevel, ManualDataQueue,
                LAMBICB_EXTENSION, ULTIMATIC_EXTENSION>>
textVars   == <<FSM_Queue, AsciiQueue>>
sendVars   == <<FSM_State, TXChar, EchoBuffer>>
timeVars   == <<FSM_ParameterA, FSM_ParameterB>>
configVars == <<CurrentKeymode, current_paddle_swap, EchoModeOn, current_WPM>>
putVars    == <<main, data>>
mainVars   == <<putVars, Config>>
isrVars    == <<paddleVars, FSM_Mode, manualVars, sendVars, timeVars, Key>>
vars       == <<isrVars, textVars, configVars, mainVars>>

\* Mutant of Enqueue: the queue takes one element too many.
EnqueueLate(queue, x, size) == IF Len(queue) <= size THEN Append(queue, x) ELSE queue

\* fifo_put: a full queue drops the element.
Enqueue(queue, x, size) == IF Len(queue) < size THEN Append(queue, x) ELSE queue

-----------------------------------------------------------------------------
(* Timing: integer quotients of milliseconds at 1 WPM by the speed.  The     *)
(* division routine of the build answers all ones for a division by zero.    *)

Ticks(dits) == IF current_WPM = 0 THEN Word - 1 ELSE (dits * DitMs) \div current_WPM

DitTicks   == Ticks(1)
\* Mutant of DahTicks: a dah of two dits.
TwoDits == Ticks(2)

DahTicks   == Ticks(3)
SpaceTicks == Ticks(7)
CalculateDeltaDitDah == Ticks(2)
BagTicks   == (Ticks(6) * 2) % Word     \* GetTimingHalfDahHigh()*2

-----------------------------------------------------------------------------
(* Paddles *)

Shifted(run, bit) == IF bit = 0 THEN 0 ELSE IF run > Samples THEN run ELSE run + 1

\* Mutant of KeyState: any sample counts as a held paddle.
Undebounced(run) == CASE run = Samples -> "PRESSED"
                      [] run > 0 /\ run # Samples -> "STILLPRESSED"
                      [] OTHER -> "RELEASED"

KeyState(run) == CASE run = Samples -> "PRESSED"
                   [] run > Samples -> "STILLPRESSED"
                   [] OTHER         -> "RELEASED"

SamplePaddles(p1, p2) ==
  IF current_paddle_swap = "NORMAL"
  THEN PaddleKeyA' = Shifted(PaddleKeyA, p1) /\ PaddleKeyB' = Shifted(PaddleKeyB, p2)
  ELSE PaddleKeyA' = Shifted(PaddleKeyA, p2) /\ PaddleKeyB' = Shifted(PaddleKeyB, p1)

\* What the tick found of the paddles it has just sampled.
KeyA == KeyState(PaddleKeyA')
KeyB == KeyState(PaddleKeyB')
Touched == KeyA # "RELEASED" \/ KeyB # "RELEASED"
Squeezed == KeyA = "STILLPRESSED" /\ KeyB = "STILLPRESSED"

-----------------------------------------------------------------------------
(* The manual state machine: first the paddle events of this tick ...        *)

BugMode == CurrentKeymode = "BUGMODE"

\* A dah press during a dit's mark makes the mark longer.
ExtendsDit == KeyB = "PRESSED" /\ ~BugMode /\ FSM_ManualState = "DIT_HIGH_HUMAN"
BugPress   == BugMode /\ (KeyB = "PRESSED" \/ Squeezed)

\* Mutant of BugRelease: the release of both paddles.
BothReleased == BugMode /\ ~Touched /\ FSM_ManualState = "BUGMODE_DAH_PRESSED"

BugRelease == BugMode /\ KeyB = "RELEASED" /\ FSM_ManualState = "BUGMODE_DAH_PRESSED"

EventQueue ==
  LET afterA == IF KeyA = "PRESSED"
                THEN Enqueue(ManualDataQueue, "DIT_HUMAN", ManualSize)
                ELSE ManualDataQueue
      afterB == IF KeyB = "PRESSED" /\ ~BugMode /\ ~ExtendsDit
                THEN Enqueue(afterA, "DAH_HUMAN", ManualSize)
                ELSE afterA
  IN  IF BugRelease THEN <<>> ELSE afterB

EventState == CASE BugPress   -> "BUGMODE_DAH_PRESSED"
                [] BugRelease -> "BUGMODE_DAH_RELEASED"
                [] OTHER      -> FSM_ManualState

EventParameterA == IF ExtendsDit THEN (FSM_ParameterA + CalculateDeltaDitDah) % Word
                                 ELSE FSM_ParameterA

(* ... then the switch over FSM_ManualState.                                 *)

ExtensionsKept == UNCHANGED <<LAMBICB_EXTENSION, ULTIMATIC_EXTENSION>>
StaysManual == FSM_Mode' = "FSM_Manuall" /\ UNCHANGED <<textVars, sendVars, putVars>>
EventsQueued == ManualDataQueue' = EventQueue

\* Mutant of TakePress: the post-wait is not started anew.
TakeOnly ==
  /\ EventState = "IDLE" /\ EventQueue # <<>>
  /\ FSM_ManualState' = Head(EventQueue)
  /\ ManualDataQueue' = Tail(EventQueue)
  /\ StaysManual /\ ExtensionsKept /\ UNCHANGED <<timeVars, Key, SwitchBagLevel>>

\* Mutant of TakePress: the press stays in the queue.
PeekPress ==
  /\ EventState = "IDLE" /\ EventQueue # <<>>
  /\ FSM_ManualState' = Head(EventQueue)
  /\ EventsQueued
  /\ SwitchBagLevel' = BagTicks
  /\ StaysManual /\ ExtensionsKept /\ UNCHANGED <<timeVars, Key>>

\* IDLE: the next press is taken, ...
TakePress ==
  /\ EventState = "IDLE" /\ EventQueue # <<>>
  /\ FSM_ManualState' = Head(EventQueue)
  /\ ManualDataQueue' = Tail(EventQueue)
  /\ SwitchBagLevel' = BagTicks
  /\ StaysManual /\ ExtensionsKept /\ UNCHANGED <<timeVars, Key>>

\* Mutant of PostWait: the counter stays at 0.
PostWaitSaturates ==
  /\ EventState = "IDLE" /\ EventQueue = <<>> /\ SwitchBagLevel # 1
  /\ FSM_ManualState' = "IDLE" /\ EventsQueued
  /\ SwitchBagLevel' = IF SwitchBagLevel = 0 THEN 0 ELSE SwitchBagLevel - 1
  /\ StaysManual /\ ExtensionsKept /\ UNCHANGED <<timeVars, Key>>

\* ... or the post-wait goes on (the counter is unsigned: 0 becomes Word - 1) ...
PostWait ==
  /\ EventState = "IDLE" /\ EventQueue = <<>> /\ SwitchBagLevel # 1
  /\ FSM_ManualState' = "IDLE" /\ EventsQueued
  /\ SwitchBagLevel' = IF SwitchBagLevel = 0 THEN Word - 1 ELSE SwitchBagLevel - 1
  /\ StaysManual /\ ExtensionsKept /\ UNCHANGED <<timeVars, Key>>

\* The main loop is inside fifo_put, past its test for room and before its count++;
\* it is not followed any further if the queue is flushed there.
InsidePut == main \in {"insert_put", "force_put"}
FlushIsSeen == IF InsidePut THEN main' = "flushed" /\ data' = NoChar ELSE UNCHANGED putVars

\* Mutants of EndBreakIn: a press that waits is overlooked, ...
EndWithPresses ==
  /\ EventState = "IDLE" /\ SwitchBagLevel = 1
  /\ FSM_ManualState' = "IDLE" /\ EventsQueued
  /\ SwitchBagLevel' = 0
  /\ FSM_Mode' = "FSM_Automacit"
  /\ AsciiQueue' = <<>> /\ FSM_Queue' = <<>>
  /\ FlushIsSeen /\ ExtensionsKept /\ UNCHANGED <<timeVars, Key, sendVars>>

\* ... or the rest of the interrupted letter is not dropped.
EndKeepsLetter ==
  /\ EventState = "IDLE" /\ EventQueue = <<>> /\ SwitchBagLevel = 1
  /\ FSM_ManualState' = "IDLE" /\ EventsQueued
  /\ SwitchBagLevel' = 0
  /\ FSM_Mode' = "FSM_Automacit"
  /\ AsciiQueue' = <<>> /\ UNCHANGED FSM_Queue
  /\ FlushIsSeen /\ ExtensionsKept /\ UNCHANGED <<timeVars, Key, sendVars>>

\* ... or the break-in is over: Morse_FSM_Empty_All_Buffer drops the interrupted text.
EndBreakIn ==
  /\ EventState = "IDLE" /\ EventQueue = <<>> /\ SwitchBagLevel = 1
  /\ FSM_ManualState' = "IDLE" /\ EventsQueued
  /\ SwitchBagLevel' = 0
  /\ FSM_Mode' = "FSM_Automacit"
  /\ AsciiQueue' = <<>> /\ FSM_Queue' = <<>>
  /\ FlushIsSeen /\ ExtensionsKept /\ UNCHANGED <<timeVars, Key, sendVars>>

\* Mutant of BugDah: it ends with the mode, but nothing writes the key.
BugDahDropped ==
  /\ EventState = "BUGMODE_DAH_PRESSED"
  /\ FSM_ManualState' = IF BugMode THEN "BUGMODE_DAH_PRESSED" ELSE "IDLE"
  /\ EventsQueued
  /\ Key' = "HIGH"
  /\ StaysManual /\ ExtensionsKept /\ UNCHANGED <<timeVars, SwitchBagLevel>>

BugDah ==
  /\ EventState = "BUGMODE_DAH_PRESSED"
  /\ FSM_ManualState' = "BUGMODE_DAH_PRESSED" /\ EventsQueued
  /\ Key' = "HIGH"
  /\ StaysManual /\ ExtensionsKept /\ UNCHANGED <<timeVars, SwitchBagLevel>>

\* Mutant of BugDahEnds: the key stays down.
BugDahHangs ==
  /\ EventState = "BUGMODE_DAH_RELEASED"
  /\ FSM_ManualState' = "IDLE" /\ EventsQueued
  /\ StaysManual /\ ExtensionsKept /\ UNCHANGED <<timeVars, Key, SwitchBagLevel>>

BugDahEnds ==
  /\ EventState = "BUGMODE_DAH_RELEASED"
  /\ FSM_ManualState' = "IDLE" /\ EventsQueued
  /\ Key' = "LOW"
  /\ StaysManual /\ ExtensionsKept /\ UNCHANGED <<timeVars, SwitchBagLevel>>

\* Mutant of StartMark: the gap is not timed.
StartUntimed(state, high, low, ticks) ==
  /\ EventState = state /\ EventsQueued
  /\ Key' = "HIGH"
  /\ FSM_ParameterA' = IF ticks = 0 THEN 0 ELSE ticks - 1
  /\ FSM_ManualState' = IF ticks = 0 THEN low ELSE high
  /\ StaysManual /\ ExtensionsKept /\ UNCHANGED <<SwitchBagLevel, FSM_ParameterB>>

\* DIT_HUMAN and DAH_HUMAN: the mark starts.
StartMark(state, high, low, ticks) ==
  /\ EventState = state /\ EventsQueued
  /\ Key' = "HIGH"
  /\ FSM_ParameterA' = IF ticks = 0 THEN 0 ELSE ticks - 1
  /\ FSM_ParameterB' = DitTicks
  /\ FSM_ManualState' = IF ticks = 0 THEN low ELSE high
  /\ StaysManual /\ ExtensionsKept /\ UNCHANGED SwitchBagLevel

\* Mutant of Mark: it ends with the touch of the paddle.
MarkClipped(high, low) ==
  /\ EventState = high /\ EventsQueued
  /\ Key' = "HIGH"
  /\ IF EventParameterA > 0 /\ Touched
     THEN FSM_ParameterA' = EventParameterA - 1 /\ FSM_ManualState' = high
     ELSE FSM_ParameterA' = EventParameterA /\ FSM_ManualState' = low
  /\ StaysManual /\ ExtensionsKept /\ UNCHANGED <<FSM_ParameterB, SwitchBagLevel>>

\* DIT_HIGH_HUMAN and DAH_HIGH_HUMAN: the mark goes on, its last tick included.
Mark(high, low) ==
  /\ EventState = high /\ EventsQueued
  /\ Key' = "HIGH"
  /\ IF EventParameterA > 0
     THEN FSM_ParameterA' = EventParameterA - 1 /\ FSM_ManualState' = high
     ELSE FSM_ParameterA' = EventParameterA /\ FSM_ManualState' = low
  /\ StaysManual /\ ExtensionsKept /\ UNCHANGED <<FSM_ParameterB, SwitchBagLevel>>

\* DIT_LOW_HUMAN and DAH_LOW_HUMAN while the gap lasts.
Gap(low) ==
  /\ EventState = low /\ FSM_ParameterB > 0 /\ EventsQueued
  /\ Key' = "LOW"
  /\ FSM_ParameterB' = FSM_ParameterB - 1
  /\ FSM_ManualState' = low
  /\ StaysManual /\ ExtensionsKept /\ UNCHANGED <<FSM_ParameterA, SwitchBagLevel>>

\* The gap is over: the paddles that are held say what comes next.
GapEnds(low) ==
  /\ EventState = low /\ FSM_ParameterB = 0 /\ EventsQueued
  /\ Key' = "LOW"
  /\ StaysManual /\ UNCHANGED <<timeVars, SwitchBagLevel>>

\* A squeeze alternates dit and dah; ultimatic alternates once and then repeats.
SqueezeTo(same, other) ==
  IF CurrentKeymode = "ULTIMATIC"
  THEN /\ FSM_ManualState' = IF ULTIMATIC_EXTENSION = 0 THEN other ELSE same
       /\ ULTIMATIC_EXTENSION' = 1
       /\ UNCHANGED LAMBICB_EXTENSION
  ELSE /\ FSM_ManualState' = other
       /\ LAMBICB_EXTENSION' = IF CurrentKeymode = "LAMBICB" THEN 1 ELSE LAMBICB_EXTENSION
       /\ UNCHANGED ULTIMATIC_EXTENSION

\* A pending iambic B extension is one more element of the other kind.
ExtensionTo(other) ==
  /\ FSM_ManualState' = IF LAMBICB_EXTENSION > 0 THEN other ELSE "IDLE"
  /\ LAMBICB_EXTENSION' = 0
  /\ UNCHANGED ULTIMATIC_EXTENSION

AfterDit ==
  /\ GapEnds("DIT_LOW_HUMAN")
  /\ \/ /\ KeyA = "STILLPRESSED" /\ KeyB # "STILLPRESSED"
        /\ FSM_ManualState' = "DIT_HUMAN" /\ ExtensionsKept
     \/ Squeezed /\ SqueezeTo("DIT_HUMAN", "DAH_HUMAN")
     \/ /\ KeyA # "STILLPRESSED"
        /\ FSM_ManualState' = "IDLE" /\ ExtensionsKept

AfterDah ==
  /\ GapEnds("DAH_LOW_HUMAN")
  /\ \/ /\ KeyB = "STILLPRESSED" /\ KeyA # "STILLPRESSED"
        /\ FSM_ManualState' = "DAH_HUMAN"
        /\ ULTIMATIC_EXTENSION' = IF CurrentKeymode = "ULTIMATIC" THEN 0
                                                                  ELSE ULTIMATIC_EXTENSION
        /\ UNCHANGED LAMBICB_EXTENSION
     \/ Squeezed /\ SqueezeTo("DAH_HUMAN", "DIT_HUMAN")
     \/ KeyB # "STILLPRESSED" /\ ExtensionTo("DIT_HUMAN")

ManualTick ==
  \/ TakePress \/ PostWait \/ EndBreakIn
  \/ BugDah \/ BugDahEnds
  \/ StartMark("DIT_HUMAN", "DIT_HIGH_HUMAN", "DIT_LOW_HUMAN", DitTicks)
  \/ StartMark("DAH_HUMAN", "DAH_HIGH_HUMAN", "DAH_LOW_HUMAN", DahTicks)
  \/ Mark("DIT_HIGH_HUMAN", "DIT_LOW_HUMAN")
  \/ Mark("DAH_HIGH_HUMAN", "DAH_LOW_HUMAN")
  \/ Gap("DIT_LOW_HUMAN") \/ Gap("DAH_LOW_HUMAN")
  \/ AfterDit \/ AfterDah

-----------------------------------------------------------------------------
(* The automatic state machine.                                              *)

\* IDLE with no element left: the byte just keyed is echoed, the next one is
\* fetched and looked up.
Echoes  == FSM_Queue = <<>> /\ EchoModeOn = 1 /\ TXChar # NoChar

\* Mutants of Refills: in the middle of a letter, or not until the echo can go out.
RefillsEarly == AsciiQueue # <<>>
RefillsLate  == FSM_Queue = <<>> /\ AsciiQueue # <<>> /\ Len(EchoBuffer) < EchoSize

Refills == FSM_Queue = <<>> /\ AsciiQueue # <<>>

\* Mutant of Looked: no pause after a letter.
LookedUnpaused(c) == IF c = SPACE THEN <<"SPACE_MACHINE">> ELSE Morse[c]

Looked(c) == IF c = SPACE THEN <<"SPACE_MACHINE">>
                          ELSE Append(Morse[c], "LETTERPAUSE_MACHINE")

ToKey == IF Refills THEN Looked(Head(AsciiQueue)) ELSE FSM_Queue

\* The element taken from the queue starts; after a mark comes its gap.
StartElement(e) ==
  CASE e = "DIT_MACHINE" ->
         /\ Key' = "HIGH"
         /\ FSM_ParameterB' = DitTicks
         /\ IF DitTicks = 0
            THEN FSM_State' = "DIT_LOW_MACHINE" /\ FSM_ParameterA' = 0
            ELSE FSM_State' = "DIT_HIGH_MACHINE" /\ FSM_ParameterA' = DitTicks - 1
    [] e = "DAH_MACHINE" ->     \* the tick spent is taken off the gap
         /\ Key' = "HIGH"
         /\ FSM_ParameterA' = DahTicks
         /\ IF DitTicks = 0
            THEN FSM_State' = "DAH_LOW_MACHINE" /\ FSM_ParameterB' = 0
            ELSE FSM_State' = "DAH_HIGH_MACHINE" /\ FSM_ParameterB' = DitTicks - 1
    [] e = "SPACE_MACHINE" ->
         /\ Key' = "LOW"
         /\ FSM_State' = "DO_SPACE_MACHINE"
         /\ FSM_ParameterA' = 0 /\ FSM_ParameterB' = SpaceTicks
    [] e = "LETTERPAUSE_MACHINE" ->
         /\ Key' = "LOW"
         /\ FSM_State' = "PAUSE_LETTERS"
         /\ FSM_ParameterA' = DitTicks /\ FSM_ParameterB' = DitTicks

AutomaticIdle ==
  /\ FSM_State = "IDLE"
  /\ EchoBuffer' = IF Echoes THEN Enqueue(EchoBuffer, TXChar, EchoSize) ELSE EchoBuffer
  /\ TXChar' = CASE Refills -> Head(AsciiQueue)
                 [] ~Refills /\ Echoes -> NoChar
                 [] OTHER -> TXChar
  /\ AsciiQueue' = IF Refills THEN Tail(AsciiQueue) ELSE AsciiQueue
  /\ IF ToKey # <<>>
     THEN FSM_Queue' = Tail(ToKey) /\ StartElement(Head(ToKey))
     ELSE /\ Key' = "LOW"
          /\ UNCHANGED <<FSM_Queue, FSM_State, timeVars>>

MachineMark(high, low) ==
  /\ FSM_State = high
  /\ Key' = "HIGH"
  /\ IF FSM_ParameterA > 0
     THEN FSM_ParameterA' = FSM_ParameterA - 1 /\ UNCHANGED FSM_State
     ELSE FSM_State' = low /\ UNCHANGED FSM_ParameterA
  /\ UNCHANGED <<FSM_ParameterB, textVars, TXChar, EchoBuffer>>

\* The gaps; only those after a mark write the key.
MachineGap(low) ==
  /\ FSM_State = low
  /\ Key' = IF low \in {"DIT_LOW_MACHINE", "DAH_LOW_MACHINE"} THEN "LOW" ELSE Key
  /\ IF FSM_ParameterB > 0
     THEN FSM_ParameterB' = FSM_ParameterB - 1 /\ UNCHANGED FSM_State
     ELSE FSM_State' = "IDLE" /\ UNCHANGED FSM_ParameterB
  /\ UNCHANGED <<FSM_ParameterA, textVars, TXChar, EchoBuffer>>

AutomaticTick ==
  /\ \/ AutomaticIdle
     \/ MachineMark("DIT_HIGH_MACHINE", "DIT_LOW_MACHINE")
     \/ MachineMark("DAH_HIGH_MACHINE", "DAH_LOW_MACHINE")
     \/ \E low \in {"DIT_LOW_MACHINE", "DAH_LOW_MACHINE",
                    "PAUSE_LETTERS", "DO_SPACE_MACHINE"} : MachineGap(low)
  /\ UNCHANGED <<FSM_Mode, manualVars, putVars>>

\* ISR(TIMER1_COMPA_vect), with the paddles at p1 and p2.
Tick(p1, p2) ==
  /\ SamplePaddles(p1, p2)
  /\ IF Touched \/ FSM_Mode = "FSM_Manuall" THEN ManualTick ELSE AutomaticTick
  /\ UNCHANGED <<configVars, Config>>

Timer == \E p \in Paddles : Tick(p[1], p[2])

-----------------------------------------------------------------------------
(* The main loop.                                                            *)

\* insert_keybyte begins to put a byte where it finds room, ...
insert_keybyte(c) ==
  /\ main = "idle" /\ Len(AsciiQueue) < AsciiSize
  /\ main' = "insert_put" /\ data' = c
  /\ UNCHANGED <<isrVars, textVars, configVars, Config>>

\* ... and counts it; the parameter is gone when fifo_put returns.
InsertPut ==
  /\ main = "insert_put"
  /\ main' = "idle" /\ data' = NoChar
  /\ AsciiQueue' = Append(AsciiQueue, data)
  /\ UNCHANGED <<isrVars, FSM_Queue, configVars, Config>>

Morse_FSM_Empty_Ascii_Buffer ==
  /\ main = "idle"
  /\ AsciiQueue' = <<>>
  /\ UNCHANGED <<isrVars, FSM_Queue, configVars, mainVars>>

\* WPM_SPEED.
SetWPM(Value) ==
  /\ main = "idle"
  /\ current_WPM' = CASE Value < 1 -> 1 [] Value > 100 -> 100 [] OTHER -> Value
  /\ UNCHANGED <<isrVars, textVars, mainVars>>
  /\ UNCHANGED <<CurrentKeymode, current_paddle_swap, EchoModeOn>>

\* Mutant of ForceResetAscii: the text is not dropped.
ForceKeepsText(e) ==
  /\ main = "idle"
  /\ main' = "force_reset" /\ data' = e
  /\ UNCHANGED <<isrVars, textVars, configVars, Config>>

\* Morse_FSM_Force_Dit and Morse_FSM_Force_Dah: two resets and a put.
ForceResetAscii(e) ==
  /\ main = "idle"
  /\ main' = "force_reset" /\ data' = e
  /\ AsciiQueue' = <<>>
  /\ UNCHANGED <<isrVars, FSM_Queue, configVars, Config>>

\* Mutant of ForceResetFSM: the rest of the letter is not dropped.
ForceKeepsLetter ==
  /\ main = "force_reset"
  /\ main' = "force_check"
  /\ UNCHANGED <<isrVars, textVars, configVars, Config, data>>

ForceResetFSM ==
  /\ main = "force_reset"
  /\ main' = "force_check"
  /\ FSM_Queue' = <<>>
  /\ UNCHANGED <<isrVars, AsciiQueue, configVars, Config, data>>

\* The put begins, and ...
ForceCheck ==
  /\ main = "force_check"
  /\ IF Len(FSM_Queue) < FSMSize
     THEN main' = "force_put" /\ UNCHANGED data
     ELSE main' = "idle" /\ data' = NoChar
  /\ UNCHANGED <<isrVars, textVars, configVars, Config>>

\* ... the element is counted.
ForcePut ==
  /\ main = "force_put"
  /\ main' = "idle" /\ data' = NoChar
  /\ FSM_Queue' = Append(FSM_Queue, data)
  /\ UNCHANGED <<isrVars, AsciiQueue, configVars, Config>>

\* Morse_FSM_Update_Config: four stores.
KeymodeOf(mode) == <<"LAMBICA", "LAMBICB", "ULTIMATIC", "BUGMODE">>[mode + 1]
SwapOf(swap) == IF swap = 0 THEN "NORMAL" ELSE "SWAP"

UpdateKeymode(c) ==
  /\ main = "idle"
  /\ main' = "update_swap" /\ Config' = c
  /\ CurrentKeymode' = KeymodeOf(c.mode)
  /\ UNCHANGED <<isrVars, textVars, data, current_paddle_swap, EchoModeOn, current_WPM>>

UpdateSwap ==
  /\ main = "update_swap"
  /\ main' = "update_echo"
  /\ current_paddle_swap' = SwapOf(Config.swap)
  /\ UNCHANGED <<isrVars, textVars, Config, data, CurrentKeymode, EchoModeOn, current_WPM>>

UpdateEcho ==
  /\ main = "update_echo"
  /\ main' = "update_wpm"
  /\ EchoModeOn' = Config.echo
  /\ UNCHANGED <<isrVars, textVars, Config, data, CurrentKeymode, current_paddle_swap,
                 current_WPM>>

UpdateWPM ==
  /\ main = "update_wpm"
  /\ main' = "idle"
  /\ current_WPM' = Config.WPM
  /\ UNCHANGED <<isrVars, textVars, Config, data, CurrentKeymode, current_paddle_swap,
                 EchoModeOn>>

\* sende_uart_puffer takes the oldest echoed byte.
SendEcho ==
  /\ main = "idle" /\ EchoBuffer # <<>>
  /\ EchoBuffer' = Tail(EchoBuffer)
  /\ UNCHANGED <<paddleVars, FSM_Mode, manualVars, FSM_State, TXChar, timeVars, Key>>
  /\ UNCHANGED <<textVars, configVars, mainVars>>

\* What the decoder starts on a host command, and what it then goes on with.
Command ==
  \/ \E c \in Chars : insert_keybyte(c)
  \/ AsciiQueue # <<>> /\ Morse_FSM_Empty_Ascii_Buffer
  \/ \E v \in Speeds : SetWPM(v)
  \/ \E e \in Forced : ForceResetAscii(e)
  \/ \E c \in Configs : UpdateKeymode(c)

Continue == \/ InsertPut
            \/ ForceResetFSM \/ ForceCheck \/ ForcePut
            \/ UpdateSwap \/ UpdateEcho \/ UpdateWPM

-----------------------------------------------------------------------------
\* The timer is started after load_configuration has installed the stored
\* configuration, with the key as SetupHardware has left it.
Init ==
  /\ PaddleKeyA = 0 /\ PaddleKeyB = 0
  /\ FSM_Mode = "FSM_Automacit" /\ FSM_State = "IDLE" /\ FSM_ManualState = "IDLE"
  /\ FSM_ParameterA = 0 /\ FSM_ParameterB = 0 /\ SwitchBagLevel = 0
  /\ ManualDataQueue = <<>> /\ FSM_Queue = <<>> /\ AsciiQueue = <<>> /\ EchoBuffer = <<>>
  /\ TXChar = NoChar
  /\ LAMBICB_EXTENSION = 0 /\ ULTIMATIC_EXTENSION = 0
  /\ Key = "HIGH"
  /\ main = "idle" /\ data = NoChar
  /\ Config \in BootConfigs
  /\ CurrentKeymode = KeymodeOf(Config.mode)
  /\ current_paddle_swap = SwapOf(Config.swap)
  /\ EchoModeOn = Config.echo
  /\ current_WPM = Config.WPM

Next == Timer \/ Command \/ Continue \/ SendEcho

Spec == Init /\ [][Next]_vars

\* The timer interrupt goes on for ever, and the main loop finishes what it
\* has begun.  Ticks that change nothing are stuttering steps, so fairness of
\* Timer would make the operator press a paddle whenever nothing else is left
\* to do; what follows from endless ticks once the paddles stay released is
\* fairness of the ticks that find them released.
FairSpec == Spec /\ WF_vars(Tick(0, 0)) /\ WF_vars(Continue)

-----------------------------------------------------------------------------
(* Safety *)

MachineStates == {"IDLE", "DIT_LOW_MACHINE", "DIT_HIGH_MACHINE", "DAH_LOW_MACHINE",
                  "DAH_HIGH_MACHINE", "DO_SPACE_MACHINE", "PAUSE_LETTERS"}
HumanStates == {"IDLE", "DIT_HUMAN", "DIT_LOW_HUMAN", "DIT_HIGH_HUMAN", "DAH_HUMAN",
                "DAH_LOW_HUMAN", "DAH_HIGH_HUMAN", "BUGMODE_DAH_PRESSED"}

PaddleType == PaddleKeyA \in 0 .. Samples + 1 /\ PaddleKeyB \in 0 .. Samples + 1
ManualType == /\ FSM_ManualState \in HumanStates
              /\ SwitchBagLevel \in 0 .. Word - 1
              /\ ManualDataQueue \in Seq({"DIT_HUMAN", "DAH_HUMAN"})
              /\ Len(ManualDataQueue) <= ManualSize
              /\ LAMBICB_EXTENSION \in 0 .. 1 /\ ULTIMATIC_EXTENSION \in 0 .. 1
TextType   == /\ FSM_Queue \in Seq(Elements) /\ Len(FSM_Queue) <= FSMSize
              /\ AsciiQueue \in Seq(Chars) /\ Len(AsciiQueue) <= AsciiSize
SendType   == /\ FSM_State \in MachineStates
              /\ TXChar \in Chars \cup {NoChar}
              /\ EchoBuffer \in Seq(Chars) /\ Len(EchoBuffer) <= EchoSize
TimeType   == FSM_ParameterA \in 0 .. Word - 1 /\ FSM_ParameterB \in 0 .. Word - 1
ConfigType == /\ CurrentKeymode \in {"LAMBICA", "LAMBICB", "ULTIMATIC", "BUGMODE"}
              /\ current_paddle_swap \in {"NORMAL", "SWAP"}
              /\ EchoModeOn \in 0 .. 1 /\ current_WPM \in Nat
MainType   == /\ main \in {"idle", "insert_put", "force_reset", "force_check", "force_put",
                           "flushed", "update_swap", "update_echo", "update_wpm"}
              /\ Config \in ConfigSet
              /\ main = "insert_put" => data \in Chars
              /\ main \in {"force_reset", "force_check", "force_put"} =>
                   data \in {"DIT_MACHINE", "DAH_MACHINE"}

\* Every variable has its type.  BUGMODE_DAH_RELEASED never outlives its tick.
TypeOK ==
  /\ PaddleType /\ ManualType /\ TextType /\ SendType /\ TimeType
  /\ ConfigType /\ MainType
  /\ FSM_Mode \in {"FSM_Automacit", "FSM_Manuall"}
  /\ Key \in {"HIGH", "LOW"}

\* The keyer goes back to the text only when nothing of the operator's is left
\* over: no element under way and no press waiting.
HandedOver == FSM_Mode = "FSM_Automacit" => FSM_ManualState = "IDLE" /\ ManualDataQueue = <<>>

\* While the operator has the keyer and keys nothing, the transmitter is off.
\* The state machine's IDLE does not write the key: whatever state it was
\* entered from, a break-in into a mark of the text included, must have.
NoStuckKey == FSM_Mode = "FSM_Manuall" /\ FSM_ManualState = "IDLE" => Key = "LOW"

\* The pauses between letters and words are silent.  Their states do not write
\* the key either, and a break-in may key in the middle of one.
GapsAreSilent ==
  FSM_Mode = "FSM_Automacit" /\ FSM_State \in {"PAUSE_LETTERS", "DO_SPACE_MACHINE"}
    => Key = "LOW"

\* fifo_put has no protection against a second producer.  When the main loop
\* puts a forced element into FSM_Queue, the interrupt cannot be refilling it:
\* the order of the resets in Morse_FSM_Force_Dit has left it nothing to key.
OneProducer ==
  main \in {"force_check", "force_put"} => AsciiQueue = <<>> /\ FSM_Queue = <<>>

\* No break-in has ended while the main loop was inside a put.
PutsAreWhole == main # "flushed"

\* As long as no break-in ends inside a put, what FSM_Queue holds is the rest of
\* the byte that will be echoed, or a forced element: no letter is mixed with
\* the next one.
RestOfLetter ==
  \/ ~PutsAreWhole
  \/ FSM_Queue = <<>>
  \/ \E e \in Forced : FSM_Queue = <<e>>
  \/ /\ TXChar # NoChar
     /\ \E n \in 1 .. Len(Looked(TXChar)) :
          FSM_Queue = SubSeq(Looked(TXChar), n, Len(Looked(TXChar)))

\* The dah of bug mode is keyed as long as its paddle is held and no longer:
\* the release of a paddle is an event the state machine has to handle.
BugDahIsHeld == FSM_ManualState = "BUGMODE_DAH_PRESSED" => PaddleKeyB >= Samples

-----------------------------------------------------------------------------
(* Liveness *)

Released == PaddleKeyA = 0 /\ PaddleKeyB = 0

\* Once the operator leaves the paddles alone, the keyer goes back to the text,
\* whatever break-in it was in and in whatever mode.
ReturnsToText == <>[]Released => []<>(FSM_Mode = "FSM_Automacit")

\* ... and keys it: the text queue does not stand still while a byte is in it,
\* though the host may never read its echoes.
TextGoesOut ==
  <>[]Released =>
    \A n \in 1 .. AsciiSize : Len(AsciiQueue) = n ~> Len(AsciiQueue) # n

-----------------------------------------------------------------------------
(* What liveness rests on: the ticks that are left of a break-in and of the  *)
(* byte being keyed, counted so that they cover every speed.                 *)

ElementMax == 2 * Word + 2      \* no element, mark and gap, takes more ticks

ManualLeft ==
  CASE FSM_ManualState \in {"DIT_HUMAN", "DAH_HUMAN"} -> ElementMax - 1
    [] FSM_ManualState \in {"DIT_HIGH_HUMAN", "DAH_HIGH_HUMAN"} ->
         FSM_ParameterA + FSM_ParameterB + 2
    [] FSM_ManualState \in {"DIT_LOW_HUMAN", "DAH_LOW_HUMAN"} -> FSM_ParameterB + 1
    [] FSM_ManualState = "BUGMODE_DAH_PRESSED" -> 1
    [] OTHER -> 0

BreakInLeft ==
  IF FSM_ManualState = "IDLE" /\ ManualDataQueue = <<>>
  THEN IF SwitchBagLevel = 0 THEN Word ELSE SwitchBagLevel
  ELSE Word + (Len(ManualDataQueue) + LAMBICB_EXTENSION) * ElementMax + ManualLeft

MachineLeft ==
  CASE FSM_State = "IDLE" -> 0
    [] FSM_State \in {"DIT_HIGH_MACHINE", "DAH_HIGH_MACHINE"} ->
         FSM_ParameterA + FSM_ParameterB + 2
    [] OTHER -> FSM_ParameterB + 1

ByteLeft == Len(FSM_Queue) * ElementMax + MachineLeft

\* The operator has the keyer, or a byte of the text waits for it.
Waiting   == FSM_Mode = "FSM_Manuall" \/ AsciiQueue # <<>>
TicksLeft == IF FSM_Mode = "FSM_Manuall" THEN BreakInLeft ELSE ByteLeft

\* The tick takes the next byte of the text.
TakesByte == FSM_Mode = "FSM_Automacit" /\ AsciiQueue' = Tail(AsciiQueue)

\* No tick without a paddle is lost: it brings the end of the break-in or of the
\* byte nearer, or is that end.  Nothing the main loop does puts it off, whenever
\* it comes: a counter reloaded, a press taken twice or an extension that is never
\* used up would.
EveryTickCounts ==
  [][/\ Waiting /\ Tick(0, 0) => TicksLeft' < TicksLeft \/ TakesByte \/ ~Waiting'
     /\ Waiting /\ ~Timer => TicksLeft' = TicksLeft \/ ~Waiting']_vars
=============================================================================
