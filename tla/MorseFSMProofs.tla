--------------------------- MODULE MorseFSMProofs ---------------------------
(***************************************************************************)
(* Proofs about the keyer, for every value of the constants: its types, the *)
(* invariants that keep the text and the operator from disturbing each      *)
(* other, how long the text waits for the operator, and that the keyer's    *)
(* paddles, table and queues are those of the modules that have them in     *)
(* detail.                                                                  *)
(***************************************************************************)
EXTENDS MorseFSM, SequenceTheorems, TLAPS

Presses == {"DIT_HUMAN", "DAH_HUMAN"}

-----------------------------------------------------------------------------
(* The operators the steps are built from                                   *)

\* An integer quotient is at most the dividend.
LEMMA Quotient ==
  ASSUME NEW x \in Nat, NEW w \in Nat \ {0}
  PROVE  x \div w \in 0 .. x
OBVIOUS

\* Every time the keyer computes fits its counters.
LEMMA TicksType ==
  ASSUME TypeOK
  PROVE  /\ DitTicks \in 0 .. Word - 1 /\ DahTicks \in 0 .. Word - 1
         /\ SpaceTicks \in 0 .. Word - 1 /\ BagTicks \in 0 .. Word - 1
         /\ CalculateDeltaDitDah \in 0 .. Word - 1
<1>1. ASSUME NEW n \in 0 .. 12 PROVE Ticks(n) \in 0 .. Word - 1
  <2>1. current_WPM \in Nat BY DEF TypeOK, ConfigType
  <2>2. n * DitMs \in Nat /\ n * DitMs <= 12 * DitMs BY TimingAssumption
  <2>3. CASE current_WPM = 0 BY <2>3, TimingAssumption DEF Ticks
  <2>4. CASE current_WPM # 0
    <3>1. (n * DitMs) \div current_WPM \in 0 .. (n * DitMs) BY <2>1, <2>2, <2>4, Quotient
    <3> QED BY <2>2, <2>4, <3>1, TimingAssumption DEF Ticks
  <2> QED BY <2>1, <2>3, <2>4
<1>2. Ticks(6) \in Nat BY <1>1, TimingAssumption
<1>3. (Ticks(6) * 2) % Word \in 0 .. Word - 1 BY <1>2, TimingAssumption
<1> QED BY <1>1, <1>3 DEF DitTicks, DahTicks, SpaceTicks, BagTicks, CalculateDeltaDitDah

\* fifo_put keeps a queue a queue, and within its size.
LEMMA EnqueueType ==
  ASSUME NEW S, NEW q \in Seq(S), NEW x \in S, NEW n \in Nat, Len(q) <= n
  PROVE  Enqueue(q, x, n) \in Seq(S) /\ Len(Enqueue(q, x, n)) <= n
BY DEF Enqueue

\* A shift register's run stays in its range, and has grown by one sample.
LEMMA ShiftedType ==
  ASSUME NEW run \in 0 .. Samples + 1, NEW bit \in 0 .. 1
  PROVE  /\ Shifted(run, bit) \in 0 .. Samples + 1
         /\ Shifted(run, bit) > Samples => run >= Samples
BY TimingAssumption DEF Shifted

\* What the lookup puts into an empty FSM_Queue fits, and is not empty.
LEMMA LookedType ==
  ASSUME NEW c \in Chars
  PROVE  Looked(c) \in Seq(Elements) /\ Len(Looked(c)) \in 1 .. FSMSize
<1>1. CASE c = SPACE BY <1>1, QueueAssumption DEF Looked, Elements
<1>2. CASE c # SPACE
  <2>1. Morse[c] \in Seq({"DIT_MACHINE", "DAH_MACHINE"}) BY <1>2, TextAssumption
  <2>2. Len(Morse[c]) < FSMSize BY <1>2, QueueAssumption
  <2>3. Morse[c] \in Seq(Elements) BY <2>1 DEF Elements
  <2>4. Looked(c) = Append(Morse[c], "LETTERPAUSE_MACHINE") BY <1>2 DEF Looked
  <2>5. "LETTERPAUSE_MACHINE" \in Elements BY DEF Elements
  <2> QED BY <2>2, <2>3, <2>4, <2>5, QueueAssumption
<1> QED BY <1>1, <1>2

-----------------------------------------------------------------------------
(* One tick                                                                  *)

\* The paddles: their type, and a paddle that is held now was at least pressed
\* in the tick before, whichever way round the paddles are wired.
LEMMA PaddleStep ==
  ASSUME TypeOK, NEW p \in Paddles, SamplePaddles(p[1], p[2])
  PROVE  /\ PaddleType'
         /\ PaddleKeyA' > Samples => PaddleKeyA >= Samples
         /\ PaddleKeyB' > Samples => PaddleKeyB >= Samples
<1>1. p[1] \in 0 .. 1 /\ p[2] \in 0 .. 1 BY InputAssumption
<1> QED BY <1>1, ShiftedType DEF TypeOK, PaddleType, SamplePaddles

\* The paddle events keep the types; a press is always queued or answered.
LEMMA EventType ==
  ASSUME TypeOK
  PROVE  /\ EventQueue \in Seq(Presses) /\ Len(EventQueue) <= ManualSize
         /\ EventState \in HumanStates \cup {"BUGMODE_DAH_RELEASED"}
         /\ EventParameterA \in 0 .. Word - 1
<1> DEFINE afterA == IF KeyA = "PRESSED"
                     THEN Enqueue(ManualDataQueue, "DIT_HUMAN", ManualSize)
                     ELSE ManualDataQueue
<1>1. ManualDataQueue \in Seq(Presses) /\ Len(ManualDataQueue) <= ManualSize
  BY DEF TypeOK, ManualType, Presses
<1>2. ManualSize \in Nat BY QueueAssumption
<1>3. "DIT_HUMAN" \in Presses /\ "DAH_HUMAN" \in Presses BY DEF Presses
<1>4. afterA \in Seq(Presses) /\ Len(afterA) <= ManualSize
  BY <1>1, <1>2, <1>3, EnqueueType
<1>5. EventQueue \in Seq(Presses) /\ Len(EventQueue) <= ManualSize
  <2> HIDE DEF afterA
  <2>1. /\ Enqueue(afterA, "DAH_HUMAN", ManualSize) \in Seq(Presses)
        /\ Len(Enqueue(afterA, "DAH_HUMAN", ManualSize)) <= ManualSize
    BY <1>2, <1>3, <1>4, EnqueueType
  <2>2. EventQueue \in {<<>>, afterA, Enqueue(afterA, "DAH_HUMAN", ManualSize)}
    BY DEF EventQueue, afterA
  <2>3. <<>> \in Seq(Presses) /\ Len(<<>>) <= ManualSize BY <1>2
  <2> QED BY <1>4, <2>1, <2>2, <2>3
<1>6. EventState \in HumanStates \cup {"BUGMODE_DAH_RELEASED"}
  BY DEF EventState, TypeOK, ManualType, HumanStates
<1>7. EventParameterA \in 0 .. Word - 1
  <2>1. FSM_ParameterA \in 0 .. Word - 1 BY DEF TypeOK, TimeType
  <2>2. CalculateDeltaDitDah \in 0 .. Word - 1 BY TicksType
  <2>3. (FSM_ParameterA + CalculateDeltaDitDah) % Word \in 0 .. Word - 1
    BY <2>1, <2>2, TimingAssumption
  <2> QED BY <2>1, <2>3 DEF EventParameterA
<1> QED BY <1>5, <1>6, <1>7

\* A touched paddle in an idle keyer is a press that waits, a bug's dah, or a
\* paddle that is being held.
LEMMA TouchIsSeen ==
  ASSUME TypeOK, Touched, EventState = "IDLE", EventQueue = <<>>,
         FSM_ManualState = "IDLE", ManualDataQueue = <<>>
  PROVE  KeyA = "STILLPRESSED" \/ KeyB = "STILLPRESSED"
<1>1. ManualSize \in Nat /\ ManualSize > 0 BY QueueAssumption
<1>2. ~BugRelease BY DEF BugRelease
<1>3. ~ExtendsDit BY DEF ExtendsDit
<1>4. KeyA # "PRESSED"
  <2> SUFFICES ASSUME KeyA = "PRESSED" PROVE FALSE OBVIOUS
  <2>1. Enqueue(ManualDataQueue, "DIT_HUMAN", ManualSize) = <<"DIT_HUMAN">>
    BY <1>1 DEF Enqueue
  <2>2. EventQueue = <<"DIT_HUMAN">> \/ EventQueue = Enqueue(<<"DIT_HUMAN">>, "DAH_HUMAN", ManualSize)
    BY <1>2, <2>1 DEF EventQueue
  <2> QED BY <1>1, <2>2 DEF Enqueue
<1>5. KeyB # "PRESSED"
  <2> SUFFICES ASSUME KeyB = "PRESSED" PROVE FALSE OBVIOUS
  <2>1. CASE BugMode BY <2>1 DEF EventState, BugPress
  <2>2. CASE ~BugMode
    <3>1. EventQueue = Enqueue(<<>>, "DAH_HUMAN", ManualSize)
      BY <1>2, <1>3, <1>4, <2>2 DEF EventQueue
    <3> QED BY <1>1, <3>1 DEF Enqueue
  <2> QED BY <2>1, <2>2
<1> QED BY <1>4, <1>5 DEF Touched, KeyState, KeyA, KeyB

\* Every action of the manual state machine keeps the types.
LEMMA ManualTypes ==
  ASSUME TypeOK, ManualTick
  PROVE  /\ ManualType' /\ TimeType' /\ TextType' /\ SendType'
         /\ FSM_Mode' \in {"FSM_Automacit", "FSM_Manuall"} /\ Key' \in {"HIGH", "LOW"}
<1> DEFINE Goal == /\ ManualType' /\ TimeType' /\ TextType' /\ SendType'
                   /\ FSM_Mode' \in {"FSM_Automacit", "FSM_Manuall"} /\ Key' \in {"HIGH", "LOW"}
<1>1. ManualType /\ TimeType /\ TextType /\ SendType /\ Key \in {"HIGH", "LOW"}
  BY DEF TypeOK
<1>2. /\ EventQueue \in Seq(Presses) /\ Len(EventQueue) <= ManualSize
      /\ EventParameterA \in 0 .. Word - 1
  BY EventType
<1>3. /\ DitTicks \in 0 .. Word - 1 /\ DahTicks \in 0 .. Word - 1
      /\ BagTicks \in 0 .. Word - 1 /\ Word \in Nat \ {0, 1}
      /\ AsciiSize \in Nat /\ FSMSize \in Nat /\ ManualSize \in Nat
  BY TicksType, TimingAssumption, QueueAssumption
<1> USE DEF StaysManual, ExtensionsKept, EventsQueued, textVars, sendVars, timeVars
<1>4. ASSUME TakePress PROVE Goal
  <2>1. Head(EventQueue) \in Presses /\ Tail(EventQueue) \in Seq(Presses)
        /\ Len(Tail(EventQueue)) <= ManualSize
    BY <1>2, <1>3, <1>4 DEF TakePress
  <2> QED BY <1>1, <1>3, <1>4, <2>1
     DEF TakePress, ManualType, TimeType, TextType, SendType, Presses, HumanStates
<1>5. ASSUME PostWait PROVE Goal
  BY <1>1, <1>2, <1>3, <1>5
  DEF PostWait, ManualType, TimeType, TextType, SendType, Presses, HumanStates
<1>6. ASSUME EndBreakIn PROVE Goal
  BY <1>1, <1>2, <1>3, <1>6
  DEF EndBreakIn, FlushIsSeen, ManualType, TimeType, TextType, SendType, Presses, HumanStates
<1>7. ASSUME BugDah PROVE Goal
  BY <1>1, <1>2, <1>7
  DEF BugDah, ManualType, TimeType, TextType, SendType, Presses, HumanStates
<1>8. ASSUME BugDahEnds PROVE Goal
  BY <1>1, <1>2, <1>8
  DEF BugDahEnds, ManualType, TimeType, TextType, SendType, Presses, HumanStates
<1>9. ASSUME NEW state, NEW high \in HumanStates, NEW low \in HumanStates,
             NEW ticks \in 0 .. Word - 1, StartMark(state, high, low, ticks)
      PROVE  Goal
  BY <1>1, <1>2, <1>3, <1>9
  DEF StartMark, ManualType, TimeType, TextType, SendType, Presses
<1>10. ASSUME NEW high \in HumanStates, NEW low \in HumanStates, Mark(high, low)
       PROVE  Goal
  BY <1>1, <1>2, <1>3, <1>10 DEF Mark, ManualType, TimeType, TextType, SendType, Presses
<1>11. ASSUME NEW low \in HumanStates, Gap(low) PROVE Goal
  BY <1>1, <1>2, <1>3, <1>11 DEF Gap, ManualType, TimeType, TextType, SendType, Presses
<1>12. ASSUME NEW low, GapEnds(low), FSM_ManualState' \in HumanStates,
              LAMBICB_EXTENSION' \in 0 .. 1, ULTIMATIC_EXTENSION' \in 0 .. 1
       PROVE  Goal
  BY <1>1, <1>2, <1>12 DEF GapEnds, ManualType, TimeType, TextType, SendType, Presses
<1>13. ASSUME AfterDit PROVE Goal
  <2>1. GapEnds("DIT_LOW_HUMAN") BY <1>13 DEF AfterDit
  <2>2. /\ FSM_ManualState' \in HumanStates
        /\ LAMBICB_EXTENSION' \in 0 .. 1 /\ ULTIMATIC_EXTENSION' \in 0 .. 1
    BY <1>1, <1>13 DEF AfterDit, SqueezeTo, ManualType, HumanStates
  <2> QED BY <1>12, <2>1, <2>2
<1>14. ASSUME AfterDah PROVE Goal
  <2>1. GapEnds("DAH_LOW_HUMAN") BY <1>14 DEF AfterDah
  <2>2. /\ FSM_ManualState' \in HumanStates
        /\ LAMBICB_EXTENSION' \in 0 .. 1 /\ ULTIMATIC_EXTENSION' \in 0 .. 1
    BY <1>1, <1>14 DEF AfterDah, SqueezeTo, ExtensionTo, ManualType, HumanStates
  <2> QED BY <1>12, <2>1, <2>2
<1>15. {"DIT_HIGH_HUMAN", "DIT_LOW_HUMAN", "DAH_HIGH_HUMAN", "DAH_LOW_HUMAN"} \subseteq HumanStates
  BY DEF HumanStates
<1> HIDE DEF Goal
<1> QED BY <1>3, <1>4, <1>5, <1>6, <1>7, <1>8, <1>9, <1>10, <1>11, <1>13, <1>14, <1>15
  DEF ManualTick, Goal

\* What the automatic machine's IDLE takes its element from fits FSM_Queue.
LEMMA ToKeyType ==
  ASSUME TypeOK
  PROVE  ToKey \in Seq(Elements) /\ Len(ToKey) <= FSMSize
<1>1. CASE Refills
  <2>1. Head(AsciiQueue) \in Chars BY <1>1 DEF Refills, TypeOK, TextType
  <2> QED BY <1>1, <2>1, LookedType, QueueAssumption DEF ToKey
<1>2. CASE ~Refills BY <1>2 DEF ToKey, TypeOK, TextType
<1> QED BY <1>1, <1>2

\* Every action of the automatic state machine keeps the types.
LEMMA AutomaticTypes ==
  ASSUME TypeOK, AutomaticTick
  PROVE  /\ ManualType' /\ TimeType' /\ TextType' /\ SendType'
         /\ FSM_Mode' = FSM_Mode /\ Key' \in {"HIGH", "LOW"}
<1>1. /\ ManualType /\ TimeType /\ TextType /\ SendType /\ Key \in {"HIGH", "LOW"}
  BY DEF TypeOK
<1>2. /\ DitTicks \in 0 .. Word - 1 /\ DahTicks \in 0 .. Word - 1
      /\ SpaceTicks \in 0 .. Word - 1
      /\ AsciiSize \in Nat /\ FSMSize \in Nat /\ EchoSize \in Nat
      /\ Word \in Nat \ {0, 1}
  BY TicksType, QueueAssumption, TimingAssumption
<1>3. ManualType' /\ FSM_Mode' = FSM_Mode
  BY <1>1 DEF AutomaticTick, manualVars, ManualType
<1>4. ASSUME NEW e \in Elements, StartElement(e)
      PROVE  TimeType' /\ FSM_State' \in MachineStates /\ Key' \in {"HIGH", "LOW"}
  <2>1. CASE e = "DIT_MACHINE"
    BY <1>2, <1>4, <2>1 DEF StartElement, TimeType, MachineStates
  <2>2. CASE e = "DAH_MACHINE"
    BY <1>2, <1>4, <2>2 DEF StartElement, TimeType, MachineStates
  <2>3. CASE e = "SPACE_MACHINE"
    BY <1>2, <1>4, <2>3 DEF StartElement, TimeType, MachineStates
  <2>4. CASE e = "LETTERPAUSE_MACHINE"
    BY <1>2, <1>4, <2>4 DEF StartElement, TimeType, MachineStates
  <2> QED BY <2>1, <2>2, <2>3, <2>4 DEF Elements
<1>5. CASE AutomaticIdle
  <2>1. AsciiQueue' \in Seq(Chars) /\ Len(AsciiQueue') <= AsciiSize
    BY <1>1, <1>2, <1>5 DEF AutomaticIdle, Refills, TextType
  <2>2. TXChar' \in Chars \cup {NoChar}
    BY <1>1, <1>5 DEF AutomaticIdle, Refills, TextType, SendType
  <2>3. EchoBuffer' \in Seq(Chars) /\ Len(EchoBuffer') <= EchoSize
    <3>1. CASE Echoes
      <4>1. TXChar \in Chars BY <1>1, <3>1 DEF Echoes, SendType
      <4>2. EchoBuffer' = Enqueue(EchoBuffer, TXChar, EchoSize)
        BY <1>5, <3>1 DEF AutomaticIdle
      <4> QED BY <1>1, <1>2, <4>1, <4>2, EnqueueType DEF SendType
    <3>2. CASE ~Echoes BY <1>1, <1>5, <3>2 DEF AutomaticIdle, SendType
    <3> QED BY <3>1, <3>2
  <2>4. CASE ToKey # <<>>
    <3>1. Head(ToKey) \in Elements /\ Tail(ToKey) \in Seq(Elements) /\ Len(Tail(ToKey)) <= FSMSize
      BY <1>2, <2>4, ToKeyType
    <3>2. StartElement(Head(ToKey)) /\ FSM_Queue' = Tail(ToKey)
      BY <1>5, <2>4 DEF AutomaticIdle
    <3> QED BY <1>3, <1>4, <2>1, <2>2, <2>3, <3>1, <3>2 DEF TextType, SendType
  <2>5. CASE ToKey = <<>>
    BY <1>1, <1>3, <1>5, <2>1, <2>2, <2>3, <2>5
    DEF AutomaticIdle, TextType, SendType, TimeType, timeVars
  <2> QED BY <2>4, <2>5
<1>6. ASSUME NEW high, NEW low \in MachineStates, MachineMark(high, low)
      PROVE  TimeType' /\ TextType' /\ SendType' /\ Key' \in {"HIGH", "LOW"}
  BY <1>1, <1>2, <1>6 DEF MachineMark, TextType, SendType, TimeType, textVars
<1>7. ASSUME NEW low, MachineGap(low)
      PROVE  TimeType' /\ TextType' /\ SendType' /\ Key' \in {"HIGH", "LOW"}
  BY <1>1, <1>2, <1>7 DEF MachineGap, TextType, SendType, TimeType, textVars, MachineStates
<1>8. CASE MachineMark("DIT_HIGH_MACHINE", "DIT_LOW_MACHINE")
  BY <1>3, <1>6, <1>8 DEF MachineStates
<1>9. CASE MachineMark("DAH_HIGH_MACHINE", "DAH_LOW_MACHINE")
  BY <1>3, <1>6, <1>9 DEF MachineStates
<1>10. CASE \E low \in {"DIT_LOW_MACHINE", "DAH_LOW_MACHINE",
                        "PAUSE_LETTERS", "DO_SPACE_MACHINE"} : MachineGap(low)
  BY <1>3, <1>7, <1>10
<1> QED BY <1>5, <1>8, <1>9, <1>10 DEF AutomaticTick

-----------------------------------------------------------------------------
(* The main loop                                                             *)

\* A tick leaves the main loop where it is, unless it flushes the queue under a put.
LEMMA TickFrame ==
  ASSUME ManualTick \/ AutomaticTick
  PROVE  \/ UNCHANGED putVars
         \/ EndBreakIn /\ InsidePut /\ main' = "flushed" /\ data' = NoChar
<1>1. CASE EndBreakIn BY <1>1 DEF EndBreakIn, FlushIsSeen
<1>2. CASE ~EndBreakIn
  BY <1>2 DEF ManualTick, TakePress, PostWait, BugDah, BugDahEnds, StartMark, Mark, Gap,
              AfterDit, AfterDah, GapEnds, StaysManual, AutomaticTick
<1> QED BY <1>1, <1>2

MainStep == Command \/ Continue \/ SendEcho

\* What the main loop may do to what the interrupt works on: it takes echoes.
LEMMA MainFrame ==
  ASSUME MainStep
  PROVE  /\ UNCHANGED <<paddleVars, FSM_Mode, manualVars, FSM_State, TXChar, timeVars, Key>>
         /\ EchoBuffer' = EchoBuffer \/ (EchoBuffer # <<>> /\ EchoBuffer' = Tail(EchoBuffer))
<1>1. UNCHANGED isrVars \/ SendEcho
  BY DEF MainStep, Command, Continue, insert_keybyte, Morse_FSM_Empty_Ascii_Buffer, SetWPM,
         ForceResetAscii, UpdateKeymode, InsertPut, ForceResetFSM, ForceCheck, ForcePut,
         UpdateSwap, UpdateEcho, UpdateWPM
<1>2. CASE UNCHANGED isrVars BY <1>2 DEF isrVars, sendVars, paddleVars, manualVars, timeVars
<1>3. CASE SendEcho BY <1>3 DEF SendEcho
<1> QED BY <1>1, <1>2, <1>3

-----------------------------------------------------------------------------
(* The inductive invariant                                                   *)

\* A held paddle while the text has the keyer has just ended a break-in, so the
\* key is up: the next tick breaks in again without writing the key.
HeldIsSilent ==
  FSM_Mode = "FSM_Automacit" /\ (PaddleKeyA >= Samples \/ PaddleKeyB >= Samples)
    => Key = "LOW"

\* A forced element is one of those the host may force, and from the first of
\* the two resets on there is no text that could come before it.
ForcedFirst ==
  main \in {"force_reset", "force_check", "force_put"} => AsciiQueue = <<>> /\ data \in Forced

\* The room that a put has found is still there when its byte is counted.
RoomIsLeft == main = "insert_put" => Len(AsciiQueue) < AsciiSize

KeyInv  == HandedOver /\ NoStuckKey /\ HeldIsSilent /\ GapsAreSilent
TextInv == OneProducer /\ ForcedFirst /\ RoomIsLeft /\ RestOfLetter
IInv    == TypeOK /\ KeyInv /\ TextInv

LEMMA InitIInv == Init => IInv
<1> SUFFICES ASSUME Init PROVE IInv OBVIOUS
<1>1. Config \in ConfigSet BY InputAssumption DEF Init
<1>2. CurrentKeymode \in {"LAMBICA", "LAMBICB", "ULTIMATIC", "BUGMODE"}
  BY <1>1 DEF Init, KeymodeOf, ConfigSet
<1>3. ConfigType /\ MainType BY <1>1, <1>2 DEF Init, ConfigType, MainType, ConfigSet, SwapOf
<1>4. PaddleType /\ ManualType /\ TimeType
  BY TimingAssumption, QueueAssumption
  DEF Init, PaddleType, ManualType, TimeType, HumanStates
<1>5. TextType /\ SendType BY QueueAssumption DEF Init, TextType, SendType, MachineStates
<1>6. KeyInv
  BY TimingAssumption DEF Init, KeyInv, HandedOver, NoStuckKey, HeldIsSilent, GapsAreSilent
<1>7. TextInv BY DEF Init, TextInv, OneProducer, ForcedFirst, RoomIsLeft, RestOfLetter
<1> QED BY <1>3, <1>4, <1>5, <1>6, <1>7 DEF IInv, TypeOK, Init

\* Every step of the main loop keeps the types.
LEMMA MainTypes ==
  ASSUME IInv, MainStep
  PROVE  TypeOK'
<1>0. TypeOK /\ OneProducer /\ RoomIsLeft BY DEF IInv, TextInv
<1>1. PaddleType' /\ ManualType' /\ TimeType' /\ SendType'
      /\ FSM_Mode' \in {"FSM_Automacit", "FSM_Manuall"} /\ Key' \in {"HIGH", "LOW"}
  <2>1. EchoBuffer' \in Seq(Chars) /\ Len(EchoBuffer') <= EchoSize
    BY <1>0, MainFrame, QueueAssumption DEF TypeOK, SendType
  <2> QED BY <1>0, <2>1, MainFrame
      DEF TypeOK, PaddleType, ManualType, TimeType, SendType, paddleVars, manualVars, timeVars
<1>2. AsciiSize \in Nat /\ FSMSize \in Nat \ {0} BY QueueAssumption
<1> DEFINE Rest == TextType' /\ ConfigType' /\ MainType'
<1> USE <1>0, <1>2 DEF TypeOK, TextType, ConfigType, MainType, configVars, mainVars, putVars,
                        textVars
<1>3. ASSUME NEW c \in Chars, insert_keybyte(c) PROVE Rest BY <1>3 DEF insert_keybyte
<1>4. ASSUME Morse_FSM_Empty_Ascii_Buffer PROVE Rest BY <1>4 DEF Morse_FSM_Empty_Ascii_Buffer
<1>5. ASSUME NEW v \in Speeds, SetWPM(v) PROVE Rest
  <2>1. v \in Nat BY InputAssumption
  <2>2. current_WPM' \in Nat BY <1>5, <2>1 DEF SetWPM
  <2> QED BY <1>5, <2>2 DEF SetWPM
<1>6. ASSUME NEW e \in Forced, ForceResetAscii(e) PROVE Rest
  <2>1. e \in {"DIT_MACHINE", "DAH_MACHINE"} BY InputAssumption
  <2> QED BY <1>6, <2>1 DEF ForceResetAscii
<1>7. ASSUME NEW c \in Configs, UpdateKeymode(c) PROVE Rest
  <2>1. c \in ConfigSet BY InputAssumption
  <2>2. CurrentKeymode' \in {"LAMBICA", "LAMBICB", "ULTIMATIC", "BUGMODE"}
    BY <1>7, <2>1 DEF UpdateKeymode, KeymodeOf, ConfigSet
  <2> QED BY <1>7, <2>1, <2>2 DEF UpdateKeymode
<1>8. ASSUME InsertPut PROVE Rest
  <2>1. AsciiQueue' = Append(AsciiQueue, data) /\ data \in Chars /\ Len(AsciiQueue) < AsciiSize
    BY <1>8 DEF InsertPut, RoomIsLeft
  <2>2. AsciiQueue' \in Seq(Chars) /\ Len(AsciiQueue') <= AsciiSize
    BY <2>1
  <2> QED BY <1>8, <2>2 DEF InsertPut
<1>9. ASSUME ForceResetFSM \/ ForceCheck PROVE Rest
  <2>1. CASE ForceResetFSM
    <3>1. FSM_Queue' \in Seq(Elements) /\ Len(FSM_Queue') <= FSMSize BY <2>1 DEF ForceResetFSM
    <3> QED BY <2>1, <3>1 DEF ForceResetFSM
  <2>2. CASE ForceCheck BY <2>2 DEF ForceCheck
  <2> QED BY <1>9, <2>1, <2>2
<1>10. ASSUME ForcePut PROVE Rest
  <2>1. FSM_Queue' = <<data>> /\ data \in Elements
    BY <1>10 DEF ForcePut, OneProducer, Elements
  <2>2. FSM_Queue' \in Seq(Elements) /\ Len(FSM_Queue') <= FSMSize
    BY <2>1
  <2> QED BY <1>10, <2>2 DEF ForcePut
<1>11. ASSUME UpdateSwap PROVE Rest BY <1>11 DEF UpdateSwap, SwapOf
<1>12. ASSUME UpdateEcho PROVE Rest BY <1>12 DEF UpdateEcho, ConfigSet
<1>13. ASSUME UpdateWPM PROVE Rest BY <1>13 DEF UpdateWPM, ConfigSet
<1>14. ASSUME SendEcho PROVE Rest BY <1>14 DEF SendEcho
<1>15. Rest
  <2> HIDE DEF Rest, TypeOK, TextType, ConfigType, MainType
  <2> QED BY <1>3, <1>4, <1>5, <1>6, <1>7, <1>8, <1>9, <1>10, <1>11, <1>12,
         <1>13, <1>14
      DEF MainStep, Command, Continue
<1> QED BY <1>1, <1>15

\* A manual tick: the state machine's IDLE is entered with the key up, and left
\* for the text with nothing of the operator's left over.
LEMMA ManualKeeps ==
  ASSUME IInv, NEW p \in Paddles, SamplePaddles(p[1], p[2]), ManualTick,
         Touched \/ FSM_Mode = "FSM_Manuall"
  PROVE  KeyInv'
<1>1. /\ TypeOK /\ HandedOver /\ NoStuckKey /\ HeldIsSilent /\ GapsAreSilent
      /\ FSM_Mode \in {"FSM_Automacit", "FSM_Manuall"}
  BY DEF IInv, KeyInv, TypeOK
<1>2. CASE EndBreakIn \/ PostWait
  <2>1. EventState = "IDLE" /\ EventQueue = <<>> /\ Key' = Key
        /\ FSM_ManualState' = "IDLE" /\ ManualDataQueue' = <<>>
    BY <1>2 DEF EndBreakIn, PostWait, EventsQueued
  <2>2. FSM_ManualState = "IDLE" BY <2>1 DEF EventState
  <2>3. CASE FSM_Mode = "FSM_Manuall"
    BY <1>1, <2>1, <2>2, <2>3
    DEF KeyInv, HandedOver, NoStuckKey, HeldIsSilent, GapsAreSilent
  <2>4. CASE FSM_Mode = "FSM_Automacit"
    <3>1. Touched /\ ManualDataQueue = <<>> BY <1>1, <2>4 DEF HandedOver
    <3>2. KeyA = "STILLPRESSED" \/ KeyB = "STILLPRESSED"
      BY <1>1, <2>1, <2>2, <3>1, TouchIsSeen
    <3>3. PaddleKeyA' > Samples \/ PaddleKeyB' > Samples
      BY <3>2 DEF KeyA, KeyB, KeyState
    <3>4. PaddleKeyA >= Samples \/ PaddleKeyB >= Samples BY <1>1, <3>3, PaddleStep
    <3>5. Key = "LOW" BY <1>1, <2>4, <3>4 DEF HeldIsSilent
    <3> QED BY <2>1, <3>5
        DEF KeyInv, HandedOver, NoStuckKey, HeldIsSilent, GapsAreSilent
  <2> QED BY <1>1, <2>3, <2>4
<1>3. CASE ~(EndBreakIn \/ PostWait)
  <2>1. FSM_Mode' = "FSM_Manuall"
    BY <1>3 DEF ManualTick, TakePress, BugDah, BugDahEnds, StartMark, Mark, Gap, AfterDit,
                AfterDah, GapEnds, StaysManual
  <2>2. FSM_ManualState' # "IDLE" \/ Key' = "LOW"
    <3>1. CASE TakePress
      <4>1. Head(EventQueue) \in Presses BY <1>1, <3>1, EventType DEF TakePress
      <4> QED BY <3>1, <4>1 DEF TakePress, Presses
    <3>2. CASE ~TakePress
      BY <1>3, <3>2 DEF ManualTick, BugDah, BugDahEnds, StartMark, Mark, Gap, AfterDit,
                        AfterDah, GapEnds
    <3> QED BY <3>1, <3>2
  <2> QED BY <2>1, <2>2 DEF KeyInv, HandedOver, NoStuckKey, HeldIsSilent, GapsAreSilent
<1> QED BY <1>2, <1>3

\* An automatic tick runs only while no paddle is seen; a pause is entered with
\* the key up.
LEMMA AutomaticKeeps ==
  ASSUME IInv, NEW p \in Paddles, SamplePaddles(p[1], p[2]), AutomaticTick,
         ~Touched, FSM_Mode # "FSM_Manuall"
  PROVE  KeyInv'
<1>1. TypeOK /\ HandedOver /\ GapsAreSilent /\ FSM_Mode = "FSM_Automacit"
  BY DEF IInv, KeyInv, TypeOK
<1>2. FSM_Mode' = FSM_Mode /\ FSM_ManualState' = FSM_ManualState
      /\ ManualDataQueue' = ManualDataQueue
  BY DEF AutomaticTick, manualVars
<1>3. HandedOver' /\ NoStuckKey' BY <1>1, <1>2 DEF HandedOver, NoStuckKey
<1>4. HeldIsSilent'
  <2>1. ~(PaddleKeyA' = Samples) /\ ~(PaddleKeyA' > Samples)
        /\ ~(PaddleKeyB' = Samples) /\ ~(PaddleKeyB' > Samples)
    BY DEF Touched, KeyA, KeyB, KeyState
  <2>2. PaddleType' BY <1>1, PaddleStep
  <2> QED BY <2>1, <2>2, TimingAssumption DEF HeldIsSilent, PaddleType
<1>5. GapsAreSilent'
  <2>1. CASE AutomaticIdle
    <3>1. CASE ToKey = <<>> BY <1>1, <2>1, <3>1 DEF AutomaticIdle, GapsAreSilent
    <3>2. CASE ToKey # <<>>
      <4>1. Head(ToKey) \in Elements BY <1>1, <3>2, ToKeyType
      <4>2. StartElement(Head(ToKey)) BY <2>1, <3>2 DEF AutomaticIdle
      <4>3. ASSUME NEW e \in Elements, StartElement(e)
            PROVE  FSM_State' \in {"PAUSE_LETTERS", "DO_SPACE_MACHINE"} => Key' = "LOW"
        BY <4>3 DEF StartElement, Elements
      <4> QED BY <4>1, <4>2, <4>3 DEF GapsAreSilent
    <3> QED BY <3>1, <3>2
  <2>2. CASE ~AutomaticIdle
    BY <1>1, <2>2 DEF AutomaticTick, MachineMark, MachineGap, GapsAreSilent
  <2> QED BY <2>1, <2>2
<1> QED BY <1>3, <1>4, <1>5 DEF KeyInv

\* Taking the first element of the rest of a letter leaves the rest of it.
LEMMA RestTail ==
  ASSUME NEW S, NEW L \in Seq(S), NEW n \in 1 .. Len(L)
  PROVE  \/ Tail(SubSeq(L, n, Len(L))) = <<>>
         \/ \E k \in 1 .. Len(L) : Tail(SubSeq(L, n, Len(L))) = SubSeq(L, k, Len(L))
<1>1. Tail(SubSeq(L, n, Len(L))) = SubSeq(L, n + 1, Len(L))
  <2>1. Len(L) \in n .. Len(L) OBVIOUS
  <2> QED BY <2>1, HeadTailOfSubSeq
<1>2. CASE n = Len(L)
  <2>1. n + 1 \in Int /\ Len(L) \in Int /\ Len(L) < n + 1 BY <1>2
  <2>2. SubSeq(L, n + 1, Len(L)) = <<>> BY <2>1, SubSeqEmpty
  <2> QED BY <1>1, <2>2
<1>3. CASE n # Len(L)
  <2>1. n + 1 \in 1 .. Len(L) BY <1>3
  <2> QED BY <1>1, <2>1
<1> QED BY <1>2, <1>3

LEMMA TickText ==
  ASSUME IInv, ManualTick \/ AutomaticTick
  PROVE  TextInv'
<1>1. TypeOK /\ OneProducer /\ ForcedFirst /\ RoomIsLeft /\ RestOfLetter BY DEF IInv, TextInv
<1>2. (main' = main /\ data' = data) \/ (EndBreakIn /\ main' = "flushed")
  <2>1. UNCHANGED putVars \/ (EndBreakIn /\ main' = "flushed") BY TickFrame
  <2> QED BY <2>1 DEF putVars
<1>3. ASSUME UNCHANGED <<textVars, TXChar>>, ~EndBreakIn PROVE TextInv'
  BY <1>1, <1>2, <1>3 DEF textVars, TextInv, OneProducer, ForcedFirst, RoomIsLeft, RestOfLetter,
                          PutsAreWhole, Looked
<1>4. ASSUME ManualTick, ~EndBreakIn PROVE UNCHANGED <<textVars, TXChar>>
  BY <1>4 DEF ManualTick, TakePress, PostWait, BugDah, BugDahEnds, StartMark, Mark, Gap,
              AfterDit, AfterDah, GapEnds, StaysManual, sendVars
<1>5. CASE EndBreakIn
  <2>1. AsciiQueue' = <<>> /\ FSM_Queue' = <<>> BY <1>5 DEF EndBreakIn
  <2>2. Len(<<>>) < AsciiSize BY QueueAssumption
  <2> QED BY <1>1, <1>2, <2>1, <2>2
      DEF TextInv, OneProducer, ForcedFirst, RoomIsLeft, RestOfLetter
<1>6. CASE AutomaticTick /\ ~AutomaticIdle /\ ~EndBreakIn
  BY <1>3, <1>6 DEF AutomaticTick, MachineMark, MachineGap
<1>7. CASE AutomaticIdle /\ Refills /\ ~EndBreakIn
  <2> DEFINE c == Head(AsciiQueue)
             L == Looked(c)
  <2>1. c \in Chars BY <1>1, <1>7 DEF Refills, TypeOK, TextType
  <2>2. L \in Seq(Elements) /\ Len(L) >= 1 /\ L # <<>> BY <2>1, LookedType
  <2>3. FSM_Queue' = Tail(L) /\ TXChar' = c
    BY <1>7, <2>2 DEF AutomaticIdle, ToKey
  <2>4. SubSeq(L, 1, Len(L)) = L BY <2>2, SubSeqFull
  <2>5. \/ Tail(L) = <<>>
        \/ \E k \in 1 .. Len(L) : Tail(L) = SubSeq(L, k, Len(L))
    <3>1. 1 \in 1 .. Len(L) BY <2>2
    <3> HIDE DEF L
    <3> QED BY <2>2, <2>4, <3>1, RestTail
  <2>6. c # NoChar BY <2>1, TextAssumption
  <2>7. L = Looked(TXChar)' BY <2>3 DEF Looked
  <2>8. RestOfLetter'
    <3> HIDE DEF L, c
    <3> QED BY <2>3, <2>5, <2>6, <2>7 DEF RestOfLetter
  <2>9. main \notin {"force_reset", "force_check", "force_put"}
    BY <1>1, <1>7 DEF OneProducer, ForcedFirst, Refills
  <2>10. RoomIsLeft'
    <3>1. AsciiQueue' = Tail(AsciiQueue) /\ AsciiQueue # <<>> /\ AsciiQueue \in Seq(Chars)
      BY <1>1, <1>7 DEF AutomaticIdle, Refills, TypeOK, TextType
    <3>2. Len(AsciiQueue') < Len(AsciiQueue) /\ Len(AsciiQueue') \in Nat
          /\ Len(AsciiQueue) \in Nat
      BY <3>1
    <3> QED BY <1>1, <1>2, <1>7, <3>2, QueueAssumption DEF RoomIsLeft
  <2> QED BY <1>2, <1>7, <2>8, <2>9, <2>10 DEF TextInv, OneProducer, ForcedFirst
<1>8. CASE AutomaticIdle /\ ~Refills /\ FSM_Queue = <<>> /\ ~EndBreakIn
  <2>1. FSM_Queue' = <<>> /\ AsciiQueue' = AsciiQueue BY <1>8 DEF AutomaticIdle, ToKey
  <2> QED BY <1>1, <1>2, <1>8, <2>1
      DEF TextInv, OneProducer, ForcedFirst, RoomIsLeft, RestOfLetter
<1>9. CASE AutomaticIdle /\ ~Refills /\ FSM_Queue # <<>> /\ ~EndBreakIn
  <2>1. FSM_Queue' = Tail(FSM_Queue) /\ TXChar' = TXChar /\ AsciiQueue' = AsciiQueue
    BY <1>9 DEF AutomaticIdle, ToKey, Echoes
  <2>2. CASE \E e \in Forced : FSM_Queue = <<e>>
    <3>1. FSM_Queue' = <<>> BY <2>1, <2>2
    <3> QED BY <1>1, <1>2, <1>9, <2>1, <3>1
        DEF TextInv, OneProducer, ForcedFirst, RoomIsLeft, RestOfLetter
  <2>3. CASE TXChar # NoChar /\ \E n \in 1 .. Len(Looked(TXChar)) :
               FSM_Queue = SubSeq(Looked(TXChar), n, Len(Looked(TXChar)))
    <3>1. Looked(TXChar) \in Seq(Elements)
      BY <1>1, <2>3, LookedType DEF TypeOK, SendType
    <3>2. PICK n \in 1 .. Len(Looked(TXChar)) :
            FSM_Queue = SubSeq(Looked(TXChar), n, Len(Looked(TXChar)))
      BY <2>3
    <3>3. \/ Tail(FSM_Queue) = <<>>
          \/ \E k \in 1 .. Len(Looked(TXChar)) :
               Tail(FSM_Queue) = SubSeq(Looked(TXChar), k, Len(Looked(TXChar)))
      BY <3>1, <3>2, RestTail
    <3>4. Looked(TXChar)' = Looked(TXChar) BY <2>1 DEF Looked
    <3>5. RestOfLetter' BY <2>1, <2>3, <3>3, <3>4 DEF RestOfLetter
    <3>6. main \notin {"force_check", "force_put"} BY <1>1, <1>9 DEF OneProducer
    <3> QED BY <1>1, <1>2, <1>9, <2>1, <3>5, <3>6
        DEF TextInv, OneProducer, ForcedFirst, RoomIsLeft
  <2>4. CASE ~PutsAreWhole
    <3>1. ~PutsAreWhole' BY <1>2, <1>9, <2>4 DEF PutsAreWhole
    <3> QED BY <1>1, <1>2, <1>9, <2>1, <2>4, <3>1
        DEF TextInv, OneProducer, ForcedFirst, RoomIsLeft, RestOfLetter, PutsAreWhole
  <2> QED BY <1>1, <1>9, <2>2, <2>3, <2>4 DEF RestOfLetter
<1> QED BY <1>3, <1>4, <1>5, <1>6, <1>7, <1>8, <1>9

LEMMA MainKeeps ==
  ASSUME IInv, MainStep
  PROVE  KeyInv' /\ TextInv'
<1>1. TypeOK /\ OneProducer /\ ForcedFirst /\ RoomIsLeft /\ RestOfLetter BY DEF IInv, TextInv
<1>2. KeyInv'
  BY MainFrame DEF IInv, KeyInv, HandedOver, NoStuckKey, HeldIsSilent, GapsAreSilent,
                   paddleVars, manualVars
<1>3. TXChar' = TXChar BY MainFrame
<1>4. PutsAreWhole /\ RestOfLetter => (FSM_Queue' = FSM_Queue => RestOfLetter')
  BY <1>3 DEF RestOfLetter, Looked
<1> USE DEF TextInv, OneProducer, ForcedFirst, RoomIsLeft, PutsAreWhole, configVars, mainVars,
            putVars
<1>5. ASSUME NEW c \in Chars, insert_keybyte(c) PROVE TextInv'
  BY <1>1, <1>4, <1>5 DEF insert_keybyte, textVars
<1>6. ASSUME InsertPut PROVE TextInv'
  BY <1>1, <1>4, <1>6 DEF InsertPut
<1>7. ASSUME Morse_FSM_Empty_Ascii_Buffer PROVE TextInv'
  BY <1>1, <1>4, <1>7 DEF Morse_FSM_Empty_Ascii_Buffer
<1>8. ASSUME NEW v \in Speeds, SetWPM(v) PROVE TextInv'
  BY <1>1, <1>4, <1>8 DEF SetWPM, textVars
<1>9. ASSUME NEW e \in Forced, ForceResetAscii(e) PROVE TextInv'
  BY <1>1, <1>4, <1>9 DEF ForceResetAscii
<1>10. ASSUME NEW c \in Configs, UpdateKeymode(c) PROVE TextInv'
  BY <1>1, <1>4, <1>10 DEF UpdateKeymode, textVars
<1>11. ASSUME ForceResetFSM PROVE TextInv'
  BY <1>1, <1>11 DEF ForceResetFSM, RestOfLetter
<1>12. ASSUME ForceCheck PROVE TextInv'
  BY <1>1, <1>4, <1>12 DEF ForceCheck, textVars
<1>13. ASSUME ForcePut PROVE TextInv'
  <2>1. FSM_Queue = <<>> /\ data \in Forced BY <1>1, <1>13 DEF ForcePut
  <2>2. FSM_Queue' = <<data>> BY <1>13, <2>1 DEF ForcePut
  <2> QED BY <1>13, <2>1, <2>2 DEF ForcePut, RestOfLetter
<1>14. ASSUME UpdateSwap \/ UpdateEcho \/ UpdateWPM \/ SendEcho PROVE TextInv'
  BY <1>1, <1>4, <1>14 DEF UpdateSwap, UpdateEcho, UpdateWPM, SendEcho, textVars
<1>15. TextInv'
  <2> HIDE DEF TextInv
  <2> QED BY <1>5, <1>6, <1>7, <1>8, <1>9, <1>10, <1>11, <1>12, <1>13, <1>14
      DEF MainStep, Command, Continue
<1> QED BY <1>2, <1>15

\* A step of the whole keyer.
LEMMA NextIInv == IInv /\ [Next]_vars => IInv'
<1> SUFFICES ASSUME IInv, [Next]_vars PROVE IInv' OBVIOUS
<1>1. ASSUME NEW p \in Paddles, Tick(p[1], p[2]) PROVE IInv'
  <2>1. TypeOK /\ SamplePaddles(p[1], p[2]) /\ UNCHANGED <<configVars, Config>>
        /\ (ManualTick \/ AutomaticTick)
    BY <1>1 DEF IInv, Tick
  <2>2. PaddleType' BY <2>1, PaddleStep
  <2>3. ConfigType' /\ MainType'
    <3>1. ConfigType' BY <2>1 DEF TypeOK, ConfigType, configVars
    <3>2. MainType' BY <2>1, TickFrame DEF TypeOK, MainType, putVars
    <3> QED BY <3>1, <3>2
  <2>4. CASE Touched \/ FSM_Mode = "FSM_Manuall"
    <3>1. ManualTick BY <1>1, <2>4 DEF Tick
    <3> QED BY <2>1, <2>2, <2>3, <2>4, <3>1, ManualTypes, ManualKeeps, TickText DEF IInv, TypeOK
  <2>5. CASE ~(Touched \/ FSM_Mode = "FSM_Manuall")
    <3>1. AutomaticTick BY <1>1, <2>5 DEF Tick
    <3> QED BY <2>1, <2>2, <2>3, <2>5, <3>1, AutomaticTypes, AutomaticKeeps, TickText
        DEF IInv, TypeOK
  <2> QED BY <2>4, <2>5
<1>2. ASSUME MainStep PROVE IInv' BY <1>2, MainTypes, MainKeeps DEF IInv
<1>3. CASE UNCHANGED vars
  <2> USE <1>3 DEF vars, isrVars, paddleVars, manualVars, sendVars, timeVars, textVars,
                   configVars, mainVars, putVars
  <2>1. TypeOK'
    BY DEF IInv, TypeOK, PaddleType, ManualType, TextType, SendType, TimeType, ConfigType,
           MainType
  <2>2. KeyInv'
    BY DEF IInv, KeyInv, HandedOver, NoStuckKey, HeldIsSilent, GapsAreSilent
  <2>3. TextInv'
    BY DEF IInv, TextInv, OneProducer, ForcedFirst, RoomIsLeft, RestOfLetter, PutsAreWhole,
           Looked
  <2> QED BY <2>1, <2>2, <2>3 DEF IInv
<1> QED BY <1>1, <1>2, <1>3 DEF Next, Timer, MainStep

THEOREM Invariant == Spec => []IInv
<1> QED BY InitIInv, NextIInv, PTL DEF Spec

-----------------------------------------------------------------------------
(* What it gives                                                             *)

\* Every variable keeps its type: no queue outgrows its buffer, no counter its
\* sixteen bits, and no state is reached that the switches do not handle.
THEOREM TypeCorrect == Spec => []TypeOK
<1>1. IInv => TypeOK BY DEF IInv
<1> QED BY <1>1, Invariant, PTL

\* The keyer goes back to the text with nothing of the operator's left over.
THEOREM HandOverCorrect == Spec => []HandedOver
<1>1. IInv => HandedOver BY DEF IInv, KeyInv
<1> QED BY <1>1, Invariant, PTL

\* While the operator has the keyer and keys nothing, the transmitter is off,
\* whatever break-ins, configurations and commands came before.
THEOREM KeyReleased == Spec => []NoStuckKey
<1>1. IInv => NoStuckKey BY DEF IInv, KeyInv
<1> QED BY <1>1, Invariant, PTL

\* The pauses of the text are silent.
THEOREM GapsSilent == Spec => []GapsAreSilent
<1>1. IInv => GapsAreSilent BY DEF IInv, KeyInv
<1> QED BY <1>1, Invariant, PTL

\* The interrupt never refills FSM_Queue while the main loop is inside its put.
THEOREM SingleProducer == Spec => []OneProducer
<1>1. IInv => OneProducer BY DEF IInv, TextInv
<1> QED BY <1>1, Invariant, PTL

\* As long as no break-in ends inside a put, FSM_Queue never mixes two letters,
\* or a letter with a forced element: neither the interrupt's refills nor its
\* flush at any other moment can.
THEOREM LettersUnmixed == Spec => []RestOfLetter
<1>1. IInv => RestOfLetter BY DEF IInv, TextInv
<1> QED BY <1>1, Invariant, PTL

-----------------------------------------------------------------------------
(* The dah of bug mode                                                       *)

\* The mode stays what it is while a dah of bug mode is keyed.
ModeKept == FSM_ManualState = "BUGMODE_DAH_PRESSED" => UNCHANGED CurrentKeymode

\* The dah is keyed in bug mode only, and only while its paddle is seen.
BugDahInv == FSM_ManualState = "BUGMODE_DAH_PRESSED" => BugMode /\ PaddleKeyB >= Samples

\* The switch reaches the dah only over the event that finds its paddle.
LEMMA BugDahTick ==
  ASSUME IInv, BugDahInv, NEW p \in Paddles, Tick(p[1], p[2])
  PROVE  BugDahInv'
<1>1. TypeOK /\ SamplePaddles(p[1], p[2]) /\ CurrentKeymode' = CurrentKeymode
  BY DEF IInv, Tick, configVars
<1>2. PaddleType' BY <1>1, PaddleStep
<1>3. BugMode' = BugMode BY <1>1 DEF BugMode
<1>4. ASSUME ManualTick, FSM_ManualState' = "BUGMODE_DAH_PRESSED" PROVE BugDahInv'
  <2>1. EventState = "BUGMODE_DAH_PRESSED"
    <3>1. CASE TakePress
      <4>1. Head(EventQueue) \in Presses BY <1>1, <3>1, EventType DEF TakePress
      <4> QED BY <1>4, <3>1, <4>1 DEF TakePress, Presses
    <3>2. CASE BugDah BY <3>2 DEF BugDah
    <3>3. CASE ~TakePress /\ ~BugDah
      BY <1>4, <3>3 DEF ManualTick, PostWait, EndBreakIn, BugDahEnds, StartMark, Mark, Gap,
                        AfterDit, AfterDah, SqueezeTo, ExtensionTo
    <3> QED BY <3>1, <3>2, <3>3
  <2>2. BugMode /\ KeyB # "RELEASED"
    <3>1. CASE BugPress BY <3>1 DEF BugPress, Squeezed
    <3>2. CASE ~BugPress
      <4>1. FSM_ManualState = "BUGMODE_DAH_PRESSED" /\ ~BugRelease
        BY <2>1, <3>2 DEF EventState
      <4> QED BY <4>1 DEF BugRelease, BugDahInv
    <3> QED BY <3>1, <3>2
  <2>3. PaddleKeyB' = Samples \/ PaddleKeyB' > Samples BY <2>2 DEF KeyB, KeyState
  <2>4. PaddleKeyB' >= Samples BY <1>2, <2>3, TimingAssumption DEF PaddleType
  <2> QED BY <1>3, <2>2, <2>4 DEF BugDahInv
<1>5. ASSUME AutomaticTick, FSM_Mode # "FSM_Manuall" PROVE BugDahInv'
  <2>1. FSM_ManualState = "IDLE" BY <1>5 DEF IInv, KeyInv, HandedOver, TypeOK
  <2>2. FSM_ManualState' = FSM_ManualState BY <1>5 DEF AutomaticTick, manualVars
  <2> QED BY <2>1, <2>2 DEF BugDahInv
<1>6. CASE FSM_ManualState' = "BUGMODE_DAH_PRESSED"
  BY <1>4, <1>5, <1>6 DEF Tick
<1> QED BY <1>6 DEF BugDahInv

LEMMA BugDahStep == IInv /\ BugDahInv /\ [Next]_vars /\ [ModeKept]_vars => BugDahInv'
<1> SUFFICES ASSUME IInv, BugDahInv, [Next]_vars, [ModeKept]_vars PROVE BugDahInv' OBVIOUS
<1>1. ASSUME UNCHANGED <<FSM_ManualState, paddleVars>>,
             FSM_ManualState = "BUGMODE_DAH_PRESSED" => UNCHANGED CurrentKeymode
      PROVE  BugDahInv'
  BY <1>1 DEF BugDahInv, BugMode, paddleVars
<1>2. UNCHANGED vars => UNCHANGED <<FSM_ManualState, paddleVars, CurrentKeymode>>
  BY DEF vars, isrVars, manualVars, configVars
<1>3. FSM_ManualState = "BUGMODE_DAH_PRESSED" => UNCHANGED CurrentKeymode
  BY <1>2 DEF ModeKept
<1>4. CASE MainStep BY <1>1, <1>3, <1>4, MainFrame DEF manualVars
<1>5. CASE UNCHANGED vars BY <1>1, <1>2, <1>5
<1>6. CASE Timer BY <1>6, BugDahTick DEF Timer
<1> QED BY <1>4, <1>5, <1>6 DEF Next, MainStep

\* As long as the host leaves the keying mode alone while a dah of bug mode is
\* keyed, the dah ends with the release of its paddle, whatever else happens.
\* The run MCModeChange shows that it may not without that.
THEOREM BugDahHeld == Spec /\ [][ModeKept]_vars => []BugDahIsHeld
<1>1. Init => BugDahInv BY DEF Init, BugDahInv
<1>2. BugDahInv => BugDahIsHeld BY DEF BugDahInv, BugDahIsHeld
<1> QED BY <1>1, <1>2, BugDahStep, Invariant, PTL DEF Spec

\* In particular while the host sends no configuration at all.
THEOREM BugDahHeldUnconfigured == Configs = {} /\ Spec => []BugDahIsHeld
<1> SUFFICES ASSUME Configs = {} PROVE Spec => []BugDahIsHeld OBVIOUS
<1>1. [Next]_vars => [ModeKept]_vars
  BY DEF Next, Timer, Tick, Command, Continue, ModeKept, configVars, insert_keybyte,
         Morse_FSM_Empty_Ascii_Buffer, SetWPM, ForceResetAscii, InsertPut, ForceResetFSM, ForceCheck,
         ForcePut, UpdateSwap, UpdateEcho, UpdateWPM, SendEcho
<1> QED BY <1>1, BugDahHeld, PTL DEF Spec

-----------------------------------------------------------------------------
(* How long the text waits                                                   *)

\* More ticks than the keyer can spend on what its queues hold.
MaxTicks == (ManualSize + FSMSize + 3) * ElementMax

\* Adding an element to n others, and n elements beside m.
LEMMA OneMore ==
  ASSUME NEW n \in Nat, NEW e \in Nat
  PROVE  (n + 1) * e = n * e + e /\ n * e \in Nat
OBVIOUS

LEMMA ManyMore ==
  ASSUME NEW n \in Nat, NEW m \in Nat, NEW e \in Nat, n <= m
  PROVE  n * e <= m * e /\ m * e \in Nat
<1>1. PICK d \in Nat : m = n + d
  <2>1. m - n \in Nat /\ m = n + (m - n) OBVIOUS
  <2> QED BY <2>1
<1>2. m * e = n * e + d * e BY <1>1
<1>3. n * e \in Nat /\ d * e \in Nat BY <1>1
<1> QED BY <1>2, <1>3

LEMMA LessIsLess ==
  ASSUME NEW p \in Nat, NEW m \in Nat, NEW n \in Nat, n < m
  PROVE  p + n < p + m
OBVIOUS

\* The ticks left are a number, and bounded.
LEMMA TicksLeftType ==
  ASSUME TypeOK
  PROVE  TicksLeft \in Nat /\ TicksLeft <= MaxTicks
<1> DEFINE pending == Len(ManualDataQueue) + LAMBICB_EXTENSION
           letter == Len(FSM_Queue)
<1>1. /\ FSM_ParameterA \in 0 .. Word - 1 /\ FSM_ParameterB \in 0 .. Word - 1
      /\ SwitchBagLevel \in 0 .. Word - 1 /\ Word \in Nat
      /\ ManualSize \in Nat /\ FSMSize \in Nat
      /\ pending \in Nat /\ pending <= ManualSize + 1
      /\ letter \in Nat /\ letter <= FSMSize
  BY TimingAssumption, QueueAssumption DEF TypeOK, TimeType, ManualType, TextType
<1>2. ElementMax = 2 * Word + 2 /\ ElementMax \in Nat BY <1>1 DEF ElementMax
<1>3. ManualLeft \in Nat /\ ManualLeft <= ElementMax
  <2>1. ManualLeft \in {ElementMax - 1, FSM_ParameterA + FSM_ParameterB + 2,
                        FSM_ParameterB + 1, 1, 0}
    BY DEF ManualLeft
  <2> QED BY ONLY <1>1, <1>2, <2>1
<1>4. /\ pending * ElementMax \in Nat /\ letter * ElementMax \in Nat
      /\ pending * ElementMax <= (ManualSize + 1) * ElementMax
      /\ letter * ElementMax <= FSMSize * ElementMax
      /\ FSMSize * ElementMax \in Nat /\ ManualSize * ElementMax \in Nat
      /\ (ManualSize + 1) * ElementMax \in Nat
  <2> HIDE DEF pending, letter
  <2>1. ManualSize + 1 \in Nat BY <1>1
  <2>2. pending * ElementMax \in Nat /\ letter * ElementMax \in Nat
        /\ FSMSize * ElementMax \in Nat /\ ManualSize * ElementMax \in Nat
        /\ (ManualSize + 1) * ElementMax \in Nat
    BY ONLY <1>1, <1>2, <2>1, OneMore
  <2>3. pending * ElementMax <= (ManualSize + 1) * ElementMax
    BY ONLY <1>1, <1>2, <2>1, ManyMore
  <2>4. letter * ElementMax <= FSMSize * ElementMax BY ONLY <1>1, <1>2, ManyMore
  <2> QED BY <2>2, <2>3, <2>4
<1>5. MaxTicks = ManualSize * ElementMax + FSMSize * ElementMax + 3 * ElementMax
  BY <1>1, <1>2 DEF MaxTicks
<1>6. (ManualSize + 1) * ElementMax = ManualSize * ElementMax + ElementMax
  BY <1>1, <1>2, OneMore
<1> HIDE DEF pending, letter
<1>7. BreakInLeft \in Nat /\ BreakInLeft <= MaxTicks
  <2>1. BreakInLeft \in {Word, SwitchBagLevel, Word + pending * ElementMax + ManualLeft}
    BY DEF BreakInLeft, pending
  <2>2. ASSUME NEW P \in Nat, NEW Q \in Nat, NEW R \in Nat,
               P = pending * ElementMax, Q = ManualSize * ElementMax, R = FSMSize * ElementMax
        PROVE  BreakInLeft \in Nat /\ BreakInLeft <= MaxTicks
    <3>1. P <= Q + ElementMax /\ MaxTicks = Q + R + 3 * ElementMax
      BY <1>4, <1>5, <1>6, <2>2
    <3>2. BreakInLeft \in {Word, SwitchBagLevel, Word + P + ManualLeft} BY <2>1, <2>2
    <3> QED BY ONLY <1>1, <1>2, <1>3, <3>1, <3>2, P \in Nat, Q \in Nat, R \in Nat
  <2> QED BY <1>4, <2>2
<1>8. ByteLeft \in Nat /\ ByteLeft <= MaxTicks
  <2>1. MachineLeft \in Nat /\ MachineLeft <= ElementMax
    <3>1. MachineLeft \in {0, FSM_ParameterA + FSM_ParameterB + 2, FSM_ParameterB + 1}
      BY DEF MachineLeft
    <3> QED BY ONLY <1>1, <1>2, <3>1
  <2>2. ByteLeft = letter * ElementMax + MachineLeft BY DEF ByteLeft, letter
  <2>3. ASSUME NEW P \in Nat, NEW Q \in Nat, NEW R \in Nat,
               P = letter * ElementMax, Q = ManualSize * ElementMax, R = FSMSize * ElementMax
        PROVE  ByteLeft \in Nat /\ ByteLeft <= MaxTicks
    <3>1. P <= R /\ MaxTicks = Q + R + 3 * ElementMax /\ ByteLeft = P + MachineLeft
      BY <1>4, <1>5, <2>2, <2>3
    <3> QED BY ONLY <1>2, <2>1, <3>1, P \in Nat, Q \in Nat, R \in Nat
  <2> QED BY <1>4, <2>3
<1> QED BY <1>7, <1>8 DEF TicksLeft

\* In a tick that finds no paddle the state machines have no event to handle but
\* the release of the dah of bug mode.
LEMMA QuietTick ==
  ASSUME Tick(0, 0)
  PROVE  /\ KeyA = "RELEASED" /\ KeyB = "RELEASED" /\ ~Touched
         /\ EventState = IF BugRelease THEN "BUGMODE_DAH_RELEASED" ELSE FSM_ManualState
         /\ EventQueue = IF BugRelease THEN <<>> ELSE ManualDataQueue
         /\ EventParameterA = FSM_ParameterA
<1>1. PaddleKeyA' = 0 /\ PaddleKeyB' = 0 BY DEF Tick, SamplePaddles, Shifted
<1>2. KeyA = "RELEASED" /\ KeyB = "RELEASED"
  BY <1>1, TimingAssumption DEF KeyA, KeyB, KeyState
<1>3. ~BugPress /\ ~ExtendsDit BY <1>2 DEF BugPress, Squeezed, ExtendsDit
<1> QED BY <1>2, <1>3 DEF Touched, EventState, EventQueue, EventParameterA

\* Such a tick of the operator's machine, as long as a dah of bug mode is keyed in
\* bug mode only: an element is one tick shorter, a press is taken, the post-wait
\* is one tick shorter, or the break-in is over and the text dropped.
LEMMA BreakInTick ==
  ASSUME TypeOK, BugDahInv, ManualTick, Tick(0, 0)
  PROVE  \/ FSM_Mode' = "FSM_Manuall" /\ BreakInLeft' < BreakInLeft
         \/ FSM_Mode' = "FSM_Automacit" /\ AsciiQueue' = <<>>
<1> DEFINE pending == Len(ManualDataQueue) + LAMBICB_EXTENSION
           Goal == FSM_Mode' = "FSM_Manuall" /\ BreakInLeft' < BreakInLeft
<1>1. /\ FSM_ParameterA \in 0 .. Word - 1 /\ FSM_ParameterB \in 0 .. Word - 1
      /\ SwitchBagLevel \in 0 .. Word - 1 /\ Word \in Nat \ {0, 1}
      /\ DitTicks \in 0 .. Word - 1 /\ DahTicks \in 0 .. Word - 1
      /\ FSM_ManualState \in HumanStates
      /\ ManualDataQueue \in Seq(Presses) /\ LAMBICB_EXTENSION \in 0 .. 1
      /\ ElementMax = 2 * Word + 2 /\ ElementMax \in Nat
  BY TicksType, TimingAssumption DEF TypeOK, TimeType, ManualType, Presses, ElementMax
<1>2. /\ KeyA = "RELEASED" /\ KeyB = "RELEASED"
      /\ EventState = IF BugRelease THEN "BUGMODE_DAH_RELEASED" ELSE FSM_ManualState
      /\ EventQueue = IF BugRelease THEN <<>> ELSE ManualDataQueue
      /\ EventParameterA = FSM_ParameterA
  BY QuietTick
<1>3. BugRelease <=> FSM_ManualState = "BUGMODE_DAH_PRESSED"
  BY <1>2 DEF BugRelease, BugDahInv
<1>4. pending \in Nat /\ pending * ElementMax \in Nat BY <1>1, OneMore
<1>5. ASSUME NEW left \in Nat, NEW left2 \in Nat,
             FSM_Mode' = "FSM_Manuall",
             BreakInLeft = Word + pending * ElementMax + left,
             BreakInLeft' = Word + pending * ElementMax + left2 \/ BreakInLeft' = left2,
             left2 < left
      PROVE  Goal
  <2> DEFINE P == pending * ElementMax
  <2>1. P \in Nat /\ BreakInLeft = Word + P + left
        /\ (BreakInLeft' = Word + P + left2 \/ BreakInLeft' = left2)
    BY <1>4, <1>5
  <2> HIDE DEF P
  <2> QED BY <1>1, <1>5, <2>1
<1> USE DEF StaysManual, ExtensionsKept, EventsQueued, timeVars
<1>6. ASSUME TakePress PROVE Goal
  <2>1. EventState = "IDLE" /\ ~BugRelease /\ FSM_ManualState = "IDLE"
        /\ ManualDataQueue # <<>>
    BY <1>2, <1>6 DEF TakePress
  <2>2. /\ FSM_ManualState' \in Presses /\ Len(ManualDataQueue') + 1 = Len(ManualDataQueue)
        /\ LAMBICB_EXTENSION' = LAMBICB_EXTENSION /\ FSM_Mode' = "FSM_Manuall"
        /\ Len(ManualDataQueue') \in Nat
    BY <1>1, <1>2, <1>6, <2>1 DEF TakePress
  <2>3. BreakInLeft = Word + pending * ElementMax BY <1>1, <1>4, <2>1 DEF BreakInLeft, ManualLeft
  <2> DEFINE pending2 == Len(ManualDataQueue') + LAMBICB_EXTENSION
  <2>4. pending2 \in Nat /\ pending = pending2 + 1 BY <1>1, <2>2
  <2>5. ManualLeft' = ElementMax - 1 /\ FSM_ManualState' # "IDLE"
    BY <2>2 DEF ManualLeft, Presses, ElementMax
  <2>6. BreakInLeft' = Word + pending2 * ElementMax + (ElementMax - 1)
    BY <2>2, <2>5 DEF BreakInLeft, ElementMax
  <2> HIDE DEF pending, pending2
  <2>7. pending * ElementMax = pending2 * ElementMax + ElementMax /\ pending2 * ElementMax \in Nat
    BY <1>1, <2>4, OneMore
  <2> DEFINE P == pending2 * ElementMax
  <2>8. P \in Nat /\ BreakInLeft = Word + (P + ElementMax)
        /\ BreakInLeft' = Word + P + (ElementMax - 1)
    BY <2>3, <2>6, <2>7
  <2> HIDE DEF P
  <2> QED BY <1>1, <2>2, <2>8
<1>7. ASSUME PostWait PROVE Goal
  <2>1. FSM_ManualState = "IDLE" /\ ManualDataQueue = <<>> /\ FSM_ManualState' = "IDLE"
        /\ ManualDataQueue' = <<>> /\ FSM_Mode' = "FSM_Manuall"
    BY <1>2, <1>7 DEF PostWait
  <2>2. BreakInLeft = (IF SwitchBagLevel = 0 THEN Word ELSE SwitchBagLevel)
    BY <2>1 DEF BreakInLeft
  <2>3. BreakInLeft' = (IF SwitchBagLevel' = 0 THEN Word ELSE SwitchBagLevel')
    BY <2>1 DEF BreakInLeft
  <2> QED BY <1>1, <1>7, <2>1, <2>2, <2>3 DEF PostWait
<1>8. ASSUME EndBreakIn PROVE FSM_Mode' = "FSM_Automacit" /\ AsciiQueue' = <<>>
  BY <1>8 DEF EndBreakIn
<1>9. ASSUME BugDah PROVE Goal BY <1>2, <1>3, <1>9 DEF BugDah
<1>10. ASSUME BugDahEnds PROVE Goal
  <2>1. FSM_ManualState = "BUGMODE_DAH_PRESSED" /\ FSM_ManualState' = "IDLE"
        /\ ManualDataQueue' = <<>> /\ FSM_Mode' = "FSM_Manuall"
        /\ SwitchBagLevel' = SwitchBagLevel
    BY <1>1, <1>2, <1>3, <1>10 DEF BugDahEnds, HumanStates
  <2>2. BreakInLeft = Word + pending * ElementMax + 1 BY <2>1 DEF BreakInLeft, ManualLeft
  <2>3. BreakInLeft' = (IF SwitchBagLevel = 0 THEN Word ELSE SwitchBagLevel)
    BY <2>1 DEF BreakInLeft
  <2> HIDE DEF pending
  <2> DEFINE P == pending * ElementMax
  <2>4. P \in Nat /\ BreakInLeft = Word + P + 1 BY <1>4, <2>2
  <2> HIDE DEF P
  <2> QED BY <1>1, <2>1, <2>3, <2>4
\* what the other actions leave alone, and what is left before them
<1>11. ASSUME ManualDataQueue' = EventQueue, LAMBICB_EXTENSION' = LAMBICB_EXTENSION,
              EventState \in HumanStates \ {"IDLE", "BUGMODE_DAH_PRESSED"},
              EventState = FSM_ManualState, FSM_ManualState' # "IDLE"
       PROVE  /\ BreakInLeft = Word + pending * ElementMax + ManualLeft
              /\ BreakInLeft' = Word + pending * ElementMax + ManualLeft'
  BY <1>2, <1>3, <1>11 DEF BreakInLeft, ElementMax
<1>12. ASSUME EventState \in HumanStates \ {"IDLE", "BUGMODE_DAH_PRESSED"}
       PROVE  /\ EventState = FSM_ManualState /\ EventQueue = ManualDataQueue
              /\ BreakInLeft = Word + pending * ElementMax + ManualLeft
  <2>1. ~BugRelease BY <1>2, <1>12 DEF HumanStates
  <2> QED BY <1>2, <1>12, <2>1 DEF BreakInLeft
<1>13. ASSUME NEW state \in Presses, NEW high \in {"DIT_HIGH_HUMAN", "DAH_HIGH_HUMAN"},
              NEW low \in {"DIT_LOW_HUMAN", "DAH_LOW_HUMAN"}, NEW ticks \in 0 .. Word - 1,
              StartMark(state, high, low, ticks)
       PROVE  Goal
  <2>1. state \in HumanStates \ {"IDLE", "BUGMODE_DAH_PRESSED"} /\ FSM_ManualState' # "IDLE"
    BY <1>13 DEF StartMark, Presses, HumanStates
  <2>2. FSM_ManualState \in Presses BY <1>12, <1>13, <2>1 DEF StartMark
  <2>3. ManualLeft = 2 * Word + 1
    <3>1. ManualLeft = ElementMax - 1 BY <2>2 DEF ManualLeft, Presses, ElementMax
    <3> QED BY ONLY <1>1, <3>1
  <2>4. ManualLeft' \in Nat /\ ManualLeft' <= 2 * Word
    <3>1. CASE ticks = 0
      <4>1. FSM_ManualState' = low /\ FSM_ParameterB' = DitTicks BY <1>13, <3>1 DEF StartMark
      <4>2. ManualLeft' = DitTicks + 1 BY <4>1 DEF ManualLeft
      <4> QED BY <1>1, <4>2
    <3>2. CASE ticks # 0
      <4>1. FSM_ManualState' = high /\ FSM_ParameterA' = ticks - 1 /\ FSM_ParameterB' = DitTicks
        BY <1>13, <3>2 DEF StartMark
      <4>2. ManualLeft' = ticks - 1 + DitTicks + 2 BY <4>1 DEF ManualLeft
      <4> QED BY <1>1, <3>2, <4>2
    <3> QED BY <3>1, <3>2
  <2>5. /\ BreakInLeft = Word + pending * ElementMax + ManualLeft
        /\ BreakInLeft' = Word + pending * ElementMax + ManualLeft'
        /\ FSM_Mode' = "FSM_Manuall"
    BY <1>11, <1>12, <1>13, <2>1 DEF StartMark
  <2>6. ManualLeft \in Nat /\ ManualLeft' < ManualLeft BY <1>1, <2>3, <2>4
  <2> HIDE DEF pending, Goal
  <2> QED BY <1>5, <2>4, <2>5, <2>6
<1>14. ASSUME NEW high \in {"DIT_HIGH_HUMAN", "DAH_HIGH_HUMAN"},
              NEW low \in {"DIT_LOW_HUMAN", "DAH_LOW_HUMAN"}, Mark(high, low)
       PROVE  Goal
  <2>1. high \in HumanStates \ {"IDLE", "BUGMODE_DAH_PRESSED"} /\ FSM_ManualState' # "IDLE"
    BY <1>14 DEF Mark, HumanStates
  <2>2. FSM_ManualState = high BY <1>12, <1>14, <2>1 DEF Mark
  <2>3. ManualLeft = FSM_ParameterA + FSM_ParameterB + 2 BY <2>2 DEF ManualLeft
  <2>4. ManualLeft' \in Nat /\ ManualLeft' < ManualLeft
    <3>1. CASE FSM_ParameterA > 0
      <4>1. FSM_ManualState' = high /\ FSM_ParameterA' = FSM_ParameterA - 1
            /\ FSM_ParameterB' = FSM_ParameterB
        BY <1>2, <1>14, <3>1 DEF Mark
      <4>2. ManualLeft' = (FSM_ParameterA - 1) + FSM_ParameterB + 2 BY <4>1 DEF ManualLeft
      <4> QED BY <1>1, <2>3, <3>1, <4>2
    <3>2. CASE ~(FSM_ParameterA > 0)
      <4>1. FSM_ManualState' = low /\ FSM_ParameterB' = FSM_ParameterB
        BY <1>2, <1>14, <3>2 DEF Mark
      <4>2. ManualLeft' = FSM_ParameterB + 1 BY <4>1 DEF ManualLeft
      <4> QED BY <1>1, <2>3, <4>2
    <3> QED BY <3>1, <3>2
  <2>5. /\ BreakInLeft = Word + pending * ElementMax + ManualLeft
        /\ BreakInLeft' = Word + pending * ElementMax + ManualLeft'
        /\ FSM_Mode' = "FSM_Manuall"
    BY <1>11, <1>12, <1>14, <2>1 DEF Mark
  <2>6. ManualLeft \in Nat BY <1>1, <2>3
  <2> HIDE DEF pending, Goal
  <2> QED BY <1>5, <2>4, <2>5, <2>6
<1>15. ASSUME NEW low \in {"DIT_LOW_HUMAN", "DAH_LOW_HUMAN"}, Gap(low) PROVE Goal
  <2>1. low \in HumanStates \ {"IDLE", "BUGMODE_DAH_PRESSED"} /\ FSM_ManualState' = low
    BY <1>15 DEF Gap, HumanStates
  <2>2. FSM_ManualState = low BY <1>12, <1>15, <2>1 DEF Gap
  <2>3. ManualLeft = FSM_ParameterB + 1 BY <2>2 DEF ManualLeft
  <2>4. ManualLeft' = (FSM_ParameterB - 1) + 1 BY <1>15, <2>1 DEF Gap, ManualLeft
  <2>5. /\ BreakInLeft = Word + pending * ElementMax + ManualLeft
        /\ BreakInLeft' = Word + pending * ElementMax + ManualLeft'
        /\ FSM_Mode' = "FSM_Manuall" /\ FSM_ParameterB > 0
    BY <1>11, <1>12, <1>15, <2>1 DEF Gap
  <2>6. ManualLeft \in Nat /\ ManualLeft' \in Nat /\ ManualLeft' < ManualLeft
    BY <1>1, <2>3, <2>4, <2>5
  <2> HIDE DEF pending, Goal
  <2> QED BY <1>5, <2>5, <2>6
\* the end of a gap: nothing comes next, or the pending extension does
<1>16. ASSUME NEW low \in {"DIT_LOW_HUMAN", "DAH_LOW_HUMAN"}, GapEnds(low),
              \/ FSM_ManualState' = "IDLE" /\ LAMBICB_EXTENSION' \in {0, LAMBICB_EXTENSION}
              \/ /\ FSM_ManualState' = "DIT_HUMAN"
                 /\ LAMBICB_EXTENSION = 1 /\ LAMBICB_EXTENSION' = 0
       PROVE  Goal
  <2>1. low \in HumanStates \ {"IDLE", "BUGMODE_DAH_PRESSED"} BY DEF HumanStates
  <2>2. FSM_ManualState = low /\ ManualDataQueue' = ManualDataQueue
        /\ SwitchBagLevel' = SwitchBagLevel /\ FSM_Mode' = "FSM_Manuall"
    BY <1>12, <1>16, <2>1 DEF GapEnds
  <2>3. ManualLeft = 1
    BY <1>1, <1>16, <2>2 DEF ManualLeft, GapEnds
  <2>4. BreakInLeft = Word + pending * ElementMax + 1
    BY <1>12, <1>16, <2>1, <2>3 DEF GapEnds
  <2>5. CASE FSM_ManualState' = "IDLE" /\ ManualDataQueue = <<>>
    <3>1. BreakInLeft' = (IF SwitchBagLevel = 0 THEN Word ELSE SwitchBagLevel)
      BY <2>2, <2>5 DEF BreakInLeft
    <3>2. BreakInLeft' <= Word /\ BreakInLeft' \in Nat BY <1>1, <3>1
    <3> HIDE DEF pending
    <3> DEFINE P == pending * ElementMax
    <3>3. P \in Nat /\ BreakInLeft = Word + P + 1 BY <1>4, <2>4
    <3> HIDE DEF P
    <3> QED BY <1>1, <2>2, <3>2, <3>3
  <2> DEFINE pending2 == Len(ManualDataQueue) + LAMBICB_EXTENSION'
  <2>6. CASE FSM_ManualState' = "IDLE" /\ ManualDataQueue # <<>>
    <3>1. ManualLeft' = 0 BY <2>6 DEF ManualLeft
    <3>2. BreakInLeft' = Word + pending2 * ElementMax + 0
      BY <2>2, <2>6, <3>1 DEF BreakInLeft, ElementMax
    <3>3. pending2 \in Nat /\ pending2 <= pending BY <1>1, <1>16, <2>6
    <3> HIDE DEF pending, pending2
    <3>4. /\ pending2 * ElementMax \in Nat /\ pending * ElementMax \in Nat
          /\ pending2 * ElementMax <= pending * ElementMax
      BY <1>1, <1>4, <3>3, ManyMore, OneMore
    <3> DEFINE P == pending * ElementMax
               P2 == pending2 * ElementMax
    <3>5. /\ P \in Nat /\ P2 \in Nat /\ P2 <= P
          /\ BreakInLeft = Word + P + 1 /\ BreakInLeft' = Word + P2 + 0
      BY <2>4, <3>2, <3>4
    <3> HIDE DEF P, P2
    <3> QED BY <1>1, <2>2, <3>5
  <2>7. CASE FSM_ManualState' = "DIT_HUMAN"
    <3>1. ManualLeft' = ElementMax - 1 BY <2>7 DEF ManualLeft, ElementMax
    <3>2. BreakInLeft' = Word + pending2 * ElementMax + (ElementMax - 1)
      BY <2>2, <2>7, <3>1 DEF BreakInLeft, ElementMax
    <3>3. pending2 \in Nat /\ pending = pending2 + 1 BY <1>1, <1>16, <2>7
    <3> HIDE DEF pending, pending2
    <3>4. pending * ElementMax = pending2 * ElementMax + ElementMax /\ pending2 * ElementMax \in Nat
      BY <1>1, <3>3, OneMore
    <3> DEFINE P2 == pending2 * ElementMax
    <3>5. /\ P2 \in Nat /\ BreakInLeft = Word + (P2 + ElementMax) + 1
          /\ BreakInLeft' = Word + P2 + (ElementMax - 1)
      BY <2>4, <3>2, <3>4
    <3> HIDE DEF P2
    <3> QED BY <1>1, <2>2, <3>5
  <2> QED BY <1>16, <2>5, <2>6, <2>7
<1>17. ASSUME AfterDit PROVE Goal
  <2>1. GapEnds("DIT_LOW_HUMAN") /\ FSM_ManualState' = "IDLE"
        /\ LAMBICB_EXTENSION' = LAMBICB_EXTENSION
    BY <1>2, <1>17 DEF AfterDit, Squeezed
  <2> HIDE DEF Goal
  <2> QED BY <1>16, <2>1
<1>18. ASSUME AfterDah PROVE Goal
  <2>1. GapEnds("DAH_LOW_HUMAN") /\ ExtensionTo("DIT_HUMAN")
    BY <1>2, <1>18 DEF AfterDah, Squeezed
  <2>2. \/ FSM_ManualState' = "IDLE" /\ LAMBICB_EXTENSION' \in {0, LAMBICB_EXTENSION}
        \/ FSM_ManualState' = "DIT_HUMAN" /\ LAMBICB_EXTENSION = 1 /\ LAMBICB_EXTENSION' = 0
    BY <1>1, <2>1 DEF ExtensionTo
  <2> HIDE DEF Goal
  <2> QED BY <1>16, <2>1, <2>2
<1>19. Goal \/ EndBreakIn
  <2> HIDE DEF Goal
  <2> QED BY <1>1, <1>6, <1>7, <1>9, <1>10, <1>13, <1>14, <1>15, <1>17, <1>18
      DEF ManualTick, Presses
<1> QED BY <1>8, <1>19 DEF Goal

\* A tick of the text's machine while a byte waits: the byte is taken, or the
\* element under way is one tick shorter, or the next one of its letter starts.
LEMMA ByteTick ==
  ASSUME TypeOK, AutomaticTick, AsciiQueue # <<>>
  PROVE  AsciiQueue' = Tail(AsciiQueue) \/ ByteLeft' < ByteLeft
<1> DEFINE letter == Len(FSM_Queue)
<1>1. /\ FSM_ParameterA \in 0 .. Word - 1 /\ FSM_ParameterB \in 0 .. Word - 1
      /\ DitTicks \in 0 .. Word - 1 /\ DahTicks \in 0 .. Word - 1
      /\ SpaceTicks \in 0 .. Word - 1 /\ Word \in Nat \ {0, 1}
      /\ FSM_State \in MachineStates /\ FSM_Queue \in Seq(Elements)
      /\ ElementMax = 2 * Word + 2 /\ ElementMax \in Nat
  BY TicksType, TimingAssumption DEF TypeOK, TimeType, TextType, SendType, ElementMax
<1>2. letter \in Nat /\ letter * ElementMax \in Nat BY <1>1, OneMore
<1>3. ByteLeft = letter * ElementMax + MachineLeft BY DEF ByteLeft
<1>4. ASSUME FSM_Queue' = FSM_Queue,
             MachineLeft \in Nat, MachineLeft' \in Nat, MachineLeft' < MachineLeft
      PROVE  ByteLeft' < ByteLeft
  <2> DEFINE P == letter * ElementMax
  <2>1. ByteLeft' = letter * ElementMax + MachineLeft' BY <1>4 DEF ByteLeft, ElementMax
  <2>2. P \in Nat /\ ByteLeft = P + MachineLeft /\ ByteLeft' = P + MachineLeft'
    BY <1>2, <1>3, <2>1
  <2> HIDE DEF P
  <2>3. P + MachineLeft' < P + MachineLeft BY ONLY <1>4, <2>2, LessIsLess
  <2> QED BY <2>2, <2>3
<1>5. ASSUME NEW high \in {"DIT_HIGH_MACHINE", "DAH_HIGH_MACHINE"},
             NEW low \in {"DIT_LOW_MACHINE", "DAH_LOW_MACHINE"}, MachineMark(high, low)
      PROVE  ByteLeft' < ByteLeft
  <2>1. MachineLeft = FSM_ParameterA + FSM_ParameterB + 2 BY <1>5 DEF MachineMark, MachineLeft
  <2>2. FSM_Queue' = FSM_Queue /\ FSM_ParameterB' = FSM_ParameterB
    BY <1>5 DEF MachineMark, textVars
  <2>3. MachineLeft' \in Nat /\ MachineLeft' < MachineLeft
    <3>1. CASE FSM_ParameterA > 0
      <4>1. FSM_State' = high /\ FSM_ParameterA' = FSM_ParameterA - 1
        BY <1>5, <3>1 DEF MachineMark
      <4>2. MachineLeft' = (FSM_ParameterA - 1) + FSM_ParameterB + 2 BY <2>2, <4>1 DEF MachineLeft
      <4> QED BY <1>1, <2>1, <3>1, <4>2
    <3>2. CASE ~(FSM_ParameterA > 0)
      <4>1. FSM_State' = low BY <1>5, <3>2 DEF MachineMark
      <4>2. MachineLeft' = FSM_ParameterB + 1 BY <2>2, <4>1 DEF MachineLeft
      <4> QED BY <1>1, <2>1, <4>2
    <3> QED BY <3>1, <3>2
  <2>4. MachineLeft \in Nat BY <1>1, <2>1
  <2> QED BY <1>4, <2>2, <2>3, <2>4
<1>6. ASSUME NEW low \in {"DIT_LOW_MACHINE", "DAH_LOW_MACHINE",
                          "PAUSE_LETTERS", "DO_SPACE_MACHINE"}, MachineGap(low)
      PROVE  ByteLeft' < ByteLeft
  <2>1. MachineLeft = FSM_ParameterB + 1 BY <1>6 DEF MachineGap, MachineLeft
  <2>2. FSM_Queue' = FSM_Queue BY <1>6 DEF MachineGap, textVars
  <2>3. MachineLeft' \in Nat /\ MachineLeft' < MachineLeft
    <3>1. CASE FSM_ParameterB > 0
      <4>1. FSM_State' = low /\ FSM_ParameterB' = FSM_ParameterB - 1
        BY <1>6, <3>1 DEF MachineGap
      <4>2. MachineLeft' = (FSM_ParameterB - 1) + 1 BY <4>1 DEF MachineLeft
      <4> QED BY <1>1, <2>1, <3>1, <4>2
    <3>2. CASE ~(FSM_ParameterB > 0)
      <4>1. FSM_State' = "IDLE" BY <1>6, <3>2 DEF MachineGap
      <4>2. MachineLeft' = 0 BY <4>1 DEF MachineLeft
      <4> QED BY <1>1, <2>1, <4>2
    <3> QED BY <3>1, <3>2
  <2>4. MachineLeft \in Nat BY <1>1, <2>1
  <2> QED BY <1>4, <2>2, <2>3, <2>4
<1>7. ASSUME NEW e \in Elements, StartElement(e)
      PROVE  MachineLeft' \in Nat /\ MachineLeft' < ElementMax
  <2>1. CASE e = "DIT_MACHINE"
    <3>1. CASE DitTicks = 0
      <4>1. FSM_State' = "DIT_LOW_MACHINE" /\ FSM_ParameterB' = 0
        BY <1>7, <2>1, <3>1 DEF StartElement
      <4>2. MachineLeft' = 0 + 1 BY <4>1 DEF MachineLeft
      <4> QED BY ONLY <1>1, <4>2
    <3>2. CASE DitTicks # 0
      <4>1. FSM_State' = "DIT_HIGH_MACHINE" /\ FSM_ParameterA' = DitTicks - 1
            /\ FSM_ParameterB' = DitTicks
        BY <1>7, <2>1, <3>2 DEF StartElement
      <4>2. MachineLeft' = (DitTicks - 1) + DitTicks + 2 BY <4>1 DEF MachineLeft
      <4> QED BY ONLY <1>1, <3>2, <4>2
    <3> QED BY <3>1, <3>2
  <2>2. CASE e = "DAH_MACHINE"
    <3>1. CASE DitTicks = 0
      <4>1. FSM_State' = "DAH_LOW_MACHINE" /\ FSM_ParameterB' = 0
        BY <1>7, <2>2, <3>1 DEF StartElement
      <4>2. MachineLeft' = 0 + 1 BY <4>1 DEF MachineLeft
      <4> QED BY ONLY <1>1, <4>2
    <3>2. CASE DitTicks # 0
      <4>1. FSM_State' = "DAH_HIGH_MACHINE" /\ FSM_ParameterA' = DahTicks
            /\ FSM_ParameterB' = DitTicks - 1
        BY <1>7, <2>2, <3>2 DEF StartElement
      <4>2. MachineLeft' = DahTicks + (DitTicks - 1) + 2 BY <4>1 DEF MachineLeft
      <4> QED BY ONLY <1>1, <3>2, <4>2
    <3> QED BY <3>1, <3>2
  <2>3. CASE e = "SPACE_MACHINE"
    <3>1. FSM_State' = "DO_SPACE_MACHINE" /\ FSM_ParameterB' = SpaceTicks
      BY <1>7, <2>3 DEF StartElement
    <3>2. MachineLeft' = SpaceTicks + 1 BY <3>1 DEF MachineLeft
    <3> QED BY ONLY <1>1, <3>2
  <2>4. CASE e = "LETTERPAUSE_MACHINE"
    <3>1. FSM_State' = "PAUSE_LETTERS" /\ FSM_ParameterB' = DitTicks
      BY <1>7, <2>4 DEF StartElement
    <3>2. MachineLeft' = DitTicks + 1 BY <3>1 DEF MachineLeft
    <3> QED BY ONLY <1>1, <3>2
  <2> QED BY <2>1, <2>2, <2>3, <2>4 DEF Elements
<1>8. CASE AutomaticIdle /\ FSM_Queue = <<>>
  BY <1>8 DEF AutomaticIdle, Refills
<1>9. CASE AutomaticIdle /\ FSM_Queue # <<>>
  <2>1. ToKey = FSM_Queue BY <1>9 DEF ToKey, Refills
  <2>2. /\ Head(FSM_Queue) \in Elements /\ StartElement(Head(FSM_Queue))
        /\ FSM_State = "IDLE" /\ FSM_Queue' = Tail(FSM_Queue)
    BY <1>1, <1>9, <2>1 DEF AutomaticIdle
  <2>3. Len(FSM_Queue') \in Nat /\ letter = Len(FSM_Queue') + 1 BY <1>1, <1>9, <2>2
  <2>4. MachineLeft = 0 /\ MachineLeft' \in Nat /\ MachineLeft' < ElementMax
    <3>1. MachineLeft = 0 BY <2>2 DEF MachineLeft
    <3> QED BY <1>7, <2>2, <3>1
  <2>5. ByteLeft' = Len(FSM_Queue') * ElementMax + MachineLeft' BY DEF ByteLeft, ElementMax
  <2> HIDE DEF letter
  <2>6. /\ letter * ElementMax = Len(FSM_Queue') * ElementMax + ElementMax
        /\ Len(FSM_Queue') * ElementMax \in Nat
    BY <1>1, <2>3, OneMore
  <2> DEFINE P == Len(FSM_Queue') * ElementMax
  <2>7. P \in Nat /\ ByteLeft = P + ElementMax /\ ByteLeft' = P + MachineLeft'
    <3>1. ElementMax \in Nat BY <1>1
    <3>2. P \in Nat /\ ByteLeft = (P + ElementMax) + 0 /\ ByteLeft' = P + MachineLeft'
      BY <1>3, <2>4, <2>5, <2>6
    <3> HIDE DEF P
    <3> QED BY <3>1, <3>2
  <2> HIDE DEF P
  <2>8. P + MachineLeft' < P + ElementMax BY ONLY <1>1, <2>4, <2>7, LessIsLess
  <2> QED BY <2>7, <2>8
<1> QED BY <1>5, <1>6, <1>8, <1>9 DEF AutomaticTick

\* The main loop does not make the wait longer.
LEMMA MainWaits ==
  ASSUME IInv, MainStep, Waiting
  PROVE  TicksLeft' = TicksLeft \/ ~Waiting'
<1>1. UNCHANGED <<FSM_Mode, FSM_State, manualVars, timeVars>> BY MainFrame
<1>2. CASE FSM_Mode = "FSM_Manuall"
  BY <1>1, <1>2 DEF TicksLeft, BreakInLeft, ManualLeft, ElementMax, manualVars, timeVars
<1>3. CASE FSM_Mode # "FSM_Manuall"
  <2>1. AsciiQueue # <<>> BY <1>3 DEF Waiting
  <2>2. main \notin {"force_reset", "force_check", "force_put"}
    BY <2>1 DEF IInv, TextInv, OneProducer, ForcedFirst
  <2>3. FSM_Queue' = FSM_Queue
    BY <2>2 DEF MainStep, Command, Continue, SendEcho, insert_keybyte, SetWPM, ForceResetAscii,
                Morse_FSM_Empty_Ascii_Buffer, UpdateKeymode, InsertPut, ForceResetFSM,
                ForceCheck, ForcePut, UpdateSwap, UpdateEcho, UpdateWPM, textVars
  <2> QED BY <1>1, <1>3, <2>3 DEF TicksLeft, ByteLeft, MachineLeft, ElementMax, timeVars
<1> QED BY <1>2, <1>3

\* A tick without a paddle shortens it, or is what was waited for.
LEMMA QuietTickCounts ==
  ASSUME IInv, BugDahInv, Tick(0, 0), Waiting
  PROVE  TicksLeft' < TicksLeft \/ TakesByte \/ ~Waiting'
<1>1. TypeOK BY DEF IInv
<1>2. CASE FSM_Mode = "FSM_Manuall"
  <2>1. ManualTick BY <1>2 DEF Tick
  <2> QED BY <1>1, <1>2, <2>1, BreakInTick DEF TicksLeft, Waiting
<1>3. CASE FSM_Mode # "FSM_Manuall"
  <2>1. AutomaticTick /\ FSM_Mode' = FSM_Mode /\ FSM_Mode = "FSM_Automacit"
    BY <1>1, <1>3, QuietTick DEF Tick, AutomaticTick, TypeOK
  <2>2. AsciiQueue # <<>> BY <1>3 DEF Waiting
  <2> QED BY <1>1, <1>3, <2>1, <2>2, ByteTick DEF TicksLeft, TakesByte
<1> QED BY <1>2, <1>3

\* Together, for every step of the keyer.
LEMMA CountsStep ==
  IInv /\ BugDahInv /\ [Next]_vars =>
    [/\ Waiting /\ Tick(0, 0) => TicksLeft' < TicksLeft \/ TakesByte \/ ~Waiting'
     /\ Waiting /\ ~Timer => TicksLeft' = TicksLeft \/ ~Waiting']_vars
BY QuietTickCounts, MainWaits DEF Next, MainStep

\* Every tick that finds no paddle brings the text nearer: it shortens the break-in
\* or the byte that is keyed, takes the next byte, or finds nothing left to wait
\* for; and nothing the host does in between makes the wait longer.  As before, it
\* must not change the keying mode while a dah of bug mode is keyed.
THEOREM TicksCount == Spec /\ [][ModeKept]_vars => EveryTickCounts
<1>1. Init => BugDahInv BY DEF Init, BugDahInv
<1> QED BY <1>1, BugDahStep, CountsStep, Invariant, PTL DEF Spec, EveryTickCounts

-----------------------------------------------------------------------------
(* A clock: the ticks without a paddle since the text waits, since a paddle  *)
(* was last seen and since a byte was last taken.                            *)

VARIABLE waited

Clock ==
  waited' = IF ~Waiting \/ ~Waiting' \/ TakesByte \/ (Timer /\ ~Tick(0, 0)) THEN 0
            ELSE IF Tick(0, 0) THEN waited + 1 ELSE waited

ClockSpec == Init /\ waited = 0 /\ [][Next /\ Clock]_<<vars, waited>>

ClockInv == /\ waited \in Nat
           /\ IF Waiting THEN waited + TicksLeft <= MaxTicks ELSE waited = 0

TicksBounded == TicksLeft \in Nat /\ TicksLeft <= MaxTicks

\* A tick more, and a tick less to go.
LEMMA OneLess ==
  ASSUME NEW w \in Nat, NEW t \in Nat, NEW u \in Nat, NEW m \in Nat, u < t, w + t <= m
  PROVE  (w + 1) + u <= m
OBVIOUS

LEMMA ClockStep ==
  IInv /\ BugDahInv /\ ClockInv /\ TicksBounded /\ TicksBounded' /\ [Next /\ Clock]_<<vars, waited>>
    => ClockInv'
<1> SUFFICES ASSUME IInv, BugDahInv, ClockInv, TicksBounded, TicksBounded',
                    [Next /\ Clock]_<<vars, waited>>
             PROVE  ClockInv'
  OBVIOUS
<1>1. /\ TicksLeft \in Nat /\ TicksLeft <= MaxTicks
      /\ TicksLeft' \in Nat /\ TicksLeft' <= MaxTicks
      /\ MaxTicks \in Nat /\ waited \in Nat
  <2>1. MaxTicks \in Nat
    BY TimingAssumption, QueueAssumption DEF MaxTicks, ElementMax
  <2> QED BY <2>1 DEF ClockInv, TicksBounded, MaxTicks, ElementMax
<1>2. CASE UNCHANGED <<vars, waited>>
  BY <1>2 DEF ClockInv, Waiting, TicksLeft, BreakInLeft, ManualLeft, ByteLeft, MachineLeft,
              ElementMax, MaxTicks, vars, isrVars, textVars, manualVars, sendVars, timeVars
<1>3. ASSUME Next, Clock PROVE ClockInv'
  <2>1. CASE waited' = 0
    BY <1>1, <2>1 DEF ClockInv, MaxTicks, ElementMax
  <2>2. CASE waited' # 0
    <3>1. Waiting /\ Waiting' /\ ~TakesByte BY <1>3, <2>2 DEF Clock
    <3>2. CASE Tick(0, 0)
      <4>1. waited' = waited + 1 BY <1>3, <3>1, <3>2 DEF Clock
      <4>2. TicksLeft' < TicksLeft BY <3>1, <3>2, QuietTickCounts
      <4>3. waited + TicksLeft <= MaxTicks BY <3>1 DEF ClockInv
      <4>4. (waited + 1) + TicksLeft' <= MaxTicks
        BY ONLY <1>1, <4>2, <4>3, OneLess
      <4>5. waited' \in Nat BY ONLY <1>1, <4>1
      <4> QED BY <3>1, <4>1, <4>4, <4>5 DEF ClockInv, MaxTicks, ElementMax
    <3>3. CASE ~Tick(0, 0)
      <4>1. ~Timer /\ waited' = waited BY <1>3, <2>2, <3>1, <3>3 DEF Clock
      <4>2. MainStep BY <1>3, <4>1 DEF Next, MainStep
      <4>3. TicksLeft' = TicksLeft BY <3>1, <4>2, MainWaits
      <4>4. waited + TicksLeft <= MaxTicks BY <3>1 DEF ClockInv
      <4> QED BY <1>1, <3>1, <4>1, <4>3, <4>4 DEF ClockInv, MaxTicks, ElementMax
    <3> QED BY <3>2, <3>3
  <2> QED BY <2>1, <2>2
<1> QED BY <1>2, <1>3

\* The operator who leaves the paddles alone gives the keyer back, and the text goes
\* on byte by byte, within a bound that depends on the sizes of the queues and on
\* the width of the counters only: not on the speed, nor on what the host does as
\* long as it leaves the keying mode alone during a dah of bug mode and no break-in
\* ends inside a put.
THEOREM WaitIsBounded ==
  ClockSpec /\ [][ModeKept]_vars => [](PutsAreWhole /\ Waiting => waited <= MaxTicks)
<1>1. Init /\ waited = 0 => ClockInv
  <2>1. Init => ~Waiting BY DEF Init, Waiting
  <2> QED BY <2>1 DEF ClockInv
<1>2. [Next /\ Clock]_<<vars, waited>> => [Next]_vars OBVIOUS
<1>3. IInv /\ ClockInv => (PutsAreWhole /\ Waiting => waited <= MaxTicks)
  <2> SUFFICES ASSUME IInv, ClockInv, Waiting PROVE waited <= MaxTicks OBVIOUS
  <2>1. TicksLeft \in Nat BY TicksLeftType DEF IInv
  <2>2. MaxTicks \in Nat BY TimingAssumption, QueueAssumption DEF MaxTicks, ElementMax
  <2> QED BY <2>1, <2>2 DEF ClockInv
<1>4. Init => IInv /\ BugDahInv BY InitIInv DEF Init, BugDahInv
<1>5. IInv => TicksBounded BY TicksLeftType DEF IInv, TicksBounded
<1> QED BY <1>1, <1>2, <1>3, <1>4, <1>5, NextIInv, BugDahStep, ClockStep, PTL DEF ClockSpec

-----------------------------------------------------------------------------
(* The registers.  PaddleKeyA and PaddleKeyB of the code are shift registers  *)
(* of eight samples; MorseFSM keeps the newest run of ones of each.  Here the *)
(* keyer has both.                                                            *)

VARIABLES RegisterA, RegisterB

A == INSTANCE Paddle WITH PaddleKey <- RegisterA, run <- PaddleKeyA
B == INSTANCE Paddle WITH PaddleKey <- RegisterB, run <- PaddleKeyB

Shift(register, bit) == (2 * register + bit) % 256

ShiftBoth(p1, p2) ==
  IF current_paddle_swap = "NORMAL"
  THEN RegisterA' = Shift(RegisterA, p1) /\ RegisterB' = Shift(RegisterB, p2)
  ELSE RegisterA' = Shift(RegisterA, p2) /\ RegisterB' = Shift(RegisterB, p1)

RegisterNext ==
  \/ \E p \in Paddles : Tick(p[1], p[2]) /\ ShiftBoth(p[1], p[2])
  \/ (Command \/ Continue \/ SendEcho) /\ UNCHANGED <<RegisterA, RegisterB>>

RegisterSpec ==
  Init /\ RegisterA = 0 /\ RegisterB = 0 /\ [][RegisterNext]_<<vars, RegisterA, RegisterB>>

\* A run of ones, and the zero before it, fill the register's newest bits.
Shows(register, run) ==
  /\ register \in 0 .. 255 /\ run \in 0 .. 8
  /\ run = 0 => register % 2 = 0
  /\ run = 1 => register % 4 = 1
  /\ run = 2 => register % 8 = 3
  /\ run = 3 => register % 16 = 7
  /\ run = 4 => register % 32 = 15
  /\ run = 5 => register % 64 = 31
  /\ run = 6 => register % 128 = 63
  /\ run = 7 => register = 127
  /\ run = 8 => register = 255

\* A shifted register loses its oldest bit at most.
LEMMA OneBitOut ==
  ASSUME NEW r \in 0 .. 255
  PROVE  (2 * r + 1) % 256 = 2 * r + 1 \/ (2 * r + 1) % 256 = 2 * r + 1 - 256
<1>1. CASE r < 128 BY <1>1
<1>2. CASE r >= 128 BY <1>2
<1> QED BY <1>1, <1>2

\* One more sample makes the run one longer, in the register as in MorseFSM.
LEMMA ShiftShows ==
  ASSUME Samples = 7, NEW register, NEW run, Shows(register, run), NEW bit \in 0 .. 1
  PROVE  Shows(Shift(register, bit), Shifted(run, bit))
<1> SUFFICES ASSUME NEW next, next = Shift(register, bit)
             PROVE  Shows(next, Shifted(run, bit))
  OBVIOUS
<1>1. register \in 0 .. 255 /\ run \in 0 .. 8 BY DEF Shows
<1>2. next \in 0 .. 255 /\ next = (2 * register + bit) % 256 BY <1>1 DEF Shift
<1>3. CASE bit = 0
  <2>1. Shifted(run, bit) = 0 BY <1>3 DEF Shifted
  <2>2. next % 2 = 0 BY <1>1, <1>2, <1>3
  <2> QED BY ONLY <1>2, <2>1, <2>2 DEF Shows
<1>4. CASE bit = 1
  <2>1. Shifted(run, bit) = IF run = 8 THEN 8 ELSE run + 1 BY <1>1, <1>4 DEF Shifted
  <2>0. next = 2 * register + 1 \/ next = 2 * register + 1 - 256
    BY <1>1, <1>2, <1>4, OneBitOut
  <2>2. CASE run = 0
    <3>1. register % 2 = 0 BY <2>2 DEF Shows
    <3>2. next % 4 = 1 BY ONLY <1>1, <1>2, <2>0, <3>1
    <3>3. Shifted(run, bit) = 1 BY ONLY <2>1, <2>2
    <3> QED BY ONLY <1>2, <3>2, <3>3 DEF Shows
  <2>3. CASE run = 1
    <3>1. register % 4 = 1 BY <2>3 DEF Shows
    <3>2. next % 8 = 3 BY ONLY <1>1, <1>2, <2>0, <3>1
    <3>3. Shifted(run, bit) = 2 BY ONLY <2>1, <2>3
    <3> QED BY ONLY <1>2, <3>2, <3>3 DEF Shows
  <2>4. CASE run = 2
    <3>1. register % 8 = 3 BY <2>4 DEF Shows
    <3>2. next % 16 = 7 BY ONLY <1>1, <1>2, <2>0, <3>1
    <3>3. Shifted(run, bit) = 3 BY ONLY <2>1, <2>4
    <3> QED BY ONLY <1>2, <3>2, <3>3 DEF Shows
  <2>5. CASE run = 3
    <3>1. register % 16 = 7 BY <2>5 DEF Shows
    <3>2. next % 32 = 15 BY ONLY <1>1, <1>2, <2>0, <3>1
    <3>3. Shifted(run, bit) = 4 BY ONLY <2>1, <2>5
    <3> QED BY ONLY <1>2, <3>2, <3>3 DEF Shows
  <2>6. CASE run = 4
    <3>1. register % 32 = 15 BY <2>6 DEF Shows
    <3>2. next % 64 = 31 BY ONLY <1>1, <1>2, <2>0, <3>1
    <3>3. Shifted(run, bit) = 5 BY ONLY <2>1, <2>6
    <3> QED BY ONLY <1>2, <3>2, <3>3 DEF Shows
  <2>7. CASE run = 5
    <3>1. register % 64 = 31 BY <2>7 DEF Shows
    <3>2. next % 128 = 63 BY ONLY <1>1, <1>2, <2>0, <3>1
    <3>3. Shifted(run, bit) = 6 BY ONLY <2>1, <2>7
    <3> QED BY ONLY <1>2, <3>2, <3>3 DEF Shows
  <2>8. CASE run = 6
    <3>1. register % 128 = 63 BY <2>8 DEF Shows
    <3>2. next = 127 BY ONLY <1>1, <1>2, <2>0, <3>1
    <3>3. Shifted(run, bit) = 7 BY ONLY <2>1, <2>8
    <3> QED BY ONLY <1>2, <3>2, <3>3 DEF Shows
  <2>9. CASE run \in {7, 8}
    <3>1. register \in {127, 255} BY <2>9 DEF Shows
    <3>2. next = 255 BY ONLY <1>2, <2>0, <3>1
    <3>3. Shifted(run, bit) = 8 BY ONLY <2>1, <2>9
    <3> QED BY ONLY <1>2, <3>2, <3>3 DEF Shows
  <2>10. run \in 0 .. 6 \/ run \in {7, 8} BY ONLY <1>1
  <2> QED BY ONLY <2>10, <2>2, <2>3, <2>4, <2>5, <2>6, <2>7, <2>8, <2>9
<1> QED BY <1>3, <1>4

\* What the code reads off a register is what MorseFSM reads off its run.
LEMMA ShowsState ==
  ASSUME Samples = 7, NEW register, NEW run, Shows(register, run)
  PROVE  /\ (register = 127) <=> (run = 7)
         /\ (register = 255) <=> (run = 8)
<1>1. register \in 0 .. 255 /\ run \in 0 .. 8 BY DEF Shows
<1>2. ASSUME register = 127 PROVE run = 7 BY <1>1, <1>2 DEF Shows
<1>3. ASSUME register = 255 PROVE run = 8 BY <1>1, <1>3 DEF Shows
<1> QED BY <1>2, <1>3 DEF Shows

RegistersShow == Shows(RegisterA, PaddleKeyA) /\ Shows(RegisterB, PaddleKeyB)

\* One step of the keyer is, for either register, a sample or a stutter.
LEMMA RegisterStep ==
  ASSUME Samples = 7, RegistersShow, [RegisterNext]_<<vars, RegisterA, RegisterB>>
  PROVE  /\ RegistersShow'
         /\ [A!PaddleNext]_A!paddleVars
         /\ [B!PaddleNext]_B!paddleVars
<1>1. CASE UNCHANGED <<RegisterA, RegisterB, PaddleKeyA, PaddleKeyB>>
  BY <1>1 DEF RegistersShow, A!paddleVars, B!paddleVars
<1>2. ASSUME NEW p \in Paddles, Tick(p[1], p[2]), ShiftBoth(p[1], p[2])
      PROVE  \E a, b \in 0 .. 1 :
               /\ PaddleKeyA' = Shifted(PaddleKeyA, a) /\ RegisterA' = Shift(RegisterA, a)
               /\ PaddleKeyB' = Shifted(PaddleKeyB, b) /\ RegisterB' = Shift(RegisterB, b)
  <2>1. p[1] \in 0 .. 1 /\ p[2] \in 0 .. 1 BY InputAssumption
  <2> QED BY <1>2, <2>1 DEF Tick, SamplePaddles, ShiftBoth
<1>3. ASSUME NEW a \in 0 .. 1, NEW b \in 0 .. 1,
             PaddleKeyA' = Shifted(PaddleKeyA, a), RegisterA' = Shift(RegisterA, a),
             PaddleKeyB' = Shifted(PaddleKeyB, b), RegisterB' = Shift(RegisterB, b)
      PROVE  RegistersShow' /\ A!PaddleNext /\ B!PaddleNext
  <2>1. RegistersShow' BY <1>3, ShiftShows DEF RegistersShow
  <2>2. A!Sample(a) BY <1>3 DEF A!Sample, Shift, Shifted
  <2>3. B!Sample(b) BY <1>3 DEF B!Sample, Shift, Shifted
  <2> QED BY <2>1, <2>2, <2>3 DEF A!PaddleNext, B!PaddleNext
<1>4. CASE (Command \/ Continue \/ SendEcho) /\ UNCHANGED <<RegisterA, RegisterB>>
  <2>1. UNCHANGED <<PaddleKeyA, PaddleKeyB>>
    BY <1>4, MainFrame DEF MainStep, paddleVars
  <2> QED BY <1>1, <1>4, <2>1
<1>5. CASE UNCHANGED <<vars, RegisterA, RegisterB>>
  BY <1>1, <1>5 DEF vars, isrVars, paddleVars
<1> QED BY <1>2, <1>3, <1>4, <1>5 DEF RegisterNext

\* Both paddles of the keyer are the paddle of module Paddle, with the seven samples
\* of the code: its runs of ones are those of the registers, wired either way round.
THEOREM RegistersRefine == Samples = 7 /\ RegisterSpec => A!PaddleSpec /\ B!PaddleSpec
<1> SUFFICES ASSUME Samples = 7 PROVE RegisterSpec => A!PaddleSpec /\ B!PaddleSpec
  OBVIOUS
<1>1. Init /\ RegisterA = 0 /\ RegisterB = 0 =>
        RegistersShow /\ A!PaddleInit /\ B!PaddleInit
  BY DEF Init, RegistersShow, Shows, A!PaddleInit, B!PaddleInit
<1>2. RegistersShow /\ [RegisterNext]_<<vars, RegisterA, RegisterB>> =>
        RegistersShow' /\ [A!PaddleNext]_A!paddleVars /\ [B!PaddleNext]_B!paddleVars
  BY RegisterStep
<1> QED BY <1>1, <1>2, PTL DEF RegisterSpec, A!PaddleSpec, B!PaddleSpec

\* So the run is enough: the code, which compares the whole register, sees a press
\* and a held paddle exactly when the keyer modelled here does.
THEOREM RunSuffices == Samples = 7 /\ RegisterSpec => [](A!RunIsEnough /\ B!RunIsEnough)
<1> SUFFICES ASSUME Samples = 7 PROVE RegisterSpec => [](A!RunIsEnough /\ B!RunIsEnough)
  OBVIOUS
<1>1. Init /\ RegisterA = 0 /\ RegisterB = 0 => RegistersShow
  BY DEF Init, RegistersShow, Shows
<1>2. RegistersShow /\ [RegisterNext]_<<vars, RegisterA, RegisterB>> => RegistersShow'
  BY RegisterStep
<1>3. RegistersShow => A!RunIsEnough /\ B!RunIsEnough
  <2> SUFFICES ASSUME RegistersShow PROVE A!RunIsEnough /\ B!RunIsEnough OBVIOUS
  <2>1. /\ PaddleKeyA \in 0 .. 8 /\ PaddleKeyB \in 0 .. 8
        /\ ((RegisterA = 127) <=> (PaddleKeyA = 7)) /\ ((RegisterA = 255) <=> (PaddleKeyA = 8))
        /\ ((RegisterB = 127) <=> (PaddleKeyB = 7)) /\ ((RegisterB = 255) <=> (PaddleKeyB = 8))
    BY ShowsState DEF RegistersShow, Shows
  <2> QED BY <2>1 DEF A!RunIsEnough, A!KeyState, B!RunIsEnough, B!KeyState
<1> QED BY <1>1, <1>2, <1>3, PTL DEF RegisterSpec

-----------------------------------------------------------------------------
(* The table.  MorseFSM takes it as the constant Morse; what is assumed of   *)
(* Morse holds of the table of the code.                                     *)

Table == INSTANCE MorseTable

LEMMA Entries ==
  \A i \in 1 .. 64 : Table!morsetable[i][1] \in Nat /\ Table!morsetable[i][2] \in 0 .. 7
BY DEF Table!morsetable

\* Whatever the byte, the lookup stays in the table and finds at most seven marks.
LEMMA LookupType ==
  ASSUME NEW c \in Table!Bytes
  PROVE  /\ Table!Listed(c) => Table!Offset(c) \in 0 .. 63
         /\ Table!CharToMorse(c).lenght \in 0 .. 7
<1>1. Table!Listed(c) => Table!Offset(c) \in 0 .. 63
  BY DEF Table!Listed, Table!Offset, Table!ToUpper, Table!FIRSTLUTCHAR, Table!Bytes
<1>2. CASE Table!Listed(c)
  <2>1. Table!Offset(c) + 1 \in 1 .. 64 BY <1>1, <1>2
  <2> QED BY <1>1, <1>2, <2>1, Entries DEF Table!CharToMorse
<1>3. CASE ~Table!Listed(c) BY <1>1, <1>3 DEF Table!CharToMorse
<1> QED BY <1>2, <1>3

LEMMA MaskedType ==
  ASSUME NEW c \in Table!Bytes
  PROVE  /\ Table!Masked(Table!CharToMorse(c)) \in Seq({"DIT_MACHINE", "DAH_MACHINE"})
         /\ Len(Table!Masked(Table!CharToMorse(c))) \in 0 .. 7
<1> DEFINE n == Table!CharToMorse(c).lenght
<1>1. n \in Nat /\ n \in 0 .. 7 BY LookupType
<1> HIDE DEF n
<1>2. ASSUME NEW f \in [1 .. n -> {"DIT_MACHINE", "DAH_MACHINE"}]
      PROVE  f \in Seq({"DIT_MACHINE", "DAH_MACHINE"}) /\ Len(f) = n
  BY <1>1
<1>3. Table!Masked(Table!CharToMorse(c)) \in [1 .. n -> {"DIT_MACHINE", "DAH_MACHINE"}]
  BY DEF Table!Masked, Table!DIT, Table!DAH, n
<1> QED BY <1>1, <1>2, <1>3

LEMMA SevenFit ==
  ASSUME NEW n \in 0 .. 7
  PROVE  n + 1 <= 16 /\ n < 16 /\ n <= 8
OBVIOUS

\* The table of the code is one MorseFSM may be given: every byte has its marks, and
\* with the pause behind them they fit into FSM_Queue.
THEOREM TableFits ==
  \A c \in Table!Bytes :
    LET marks == Table!Masked(Table!CharToMorse(c))
    IN  /\ marks \in Seq({"DIT_MACHINE", "DAH_MACHINE"})
        /\ Len(Append(marks, "LETTERPAUSE_MACHINE")) <= Table!QueueSize
<1> SUFFICES ASSUME NEW c \in Table!Bytes
             PROVE  /\ Table!Masked(Table!CharToMorse(c)) \in Seq({"DIT_MACHINE", "DAH_MACHINE"})
                    /\ Len(Append(Table!Masked(Table!CharToMorse(c)), "LETTERPAUSE_MACHINE"))
                         <= Table!QueueSize
  OBVIOUS
<1> DEFINE marks == Table!Masked(Table!CharToMorse(c))
<1>1. marks \in Seq({"DIT_MACHINE", "DAH_MACHINE"}) /\ Len(marks) \in 0 .. 7 BY MaskedType
<1> HIDE DEF marks
<1>2. Len(Append(marks, "LETTERPAUSE_MACHINE")) = Len(marks) + 1 BY <1>1
<1>3. Len(Append(marks, "LETTERPAUSE_MACHINE")) <= 16 BY <1>1, <1>2, SevenFit
<1> QED BY <1>1, <1>3 DEF marks, Table!QueueSize

\* No byte the keyer ever comes to key makes the lookup read past the table.
THEOREM LookupsSafe ==
  Chars \subseteq Table!Bytes /\ Spec => [](TXChar # NoChar => Table!LookupIsSafe)
<1> SUFFICES ASSUME Chars \subseteq Table!Bytes
             PROVE  Spec => [](TXChar # NoChar => Table!LookupIsSafe)
  OBVIOUS
<1>1. TypeOK => (TXChar # NoChar => Table!LookupIsSafe)
  <2> SUFFICES ASSUME TypeOK, TXChar # NoChar PROVE Table!LookupIsSafe OBVIOUS
  <2>1. TXChar \in Table!Bytes BY DEF TypeOK, SendType
  <2>2. /\ Table!Listed(TXChar) => Table!Offset(TXChar) \in 0 .. 63
        /\ Len(Table!Marks) \in 0 .. 7
    BY <2>1, LookupType, MaskedType DEF Table!Marks
  <2>3. Len(Table!Marks) < 16 /\ Len(Table!Marks) <= 8 BY <2>2, SevenFit
  <2> QED BY <2>2, <2>3 DEF Table!LookupIsSafe, Table!TableSize, Table!QueueSize
<1> QED BY <1>1, TypeCorrect, PTL

-----------------------------------------------------------------------------
(* The queues.  EchoQueue and AsciiQueue show that the code's ring buffers   *)
(* are bounded queues; here the keyer is shown to ask no more of them.  What *)
(* left each queue last is observed.                                         *)

VARIABLES fetched,  \* the byte the interrupt has fetched last
          sent      \* the echo the main loop has sent last

Text == INSTANCE BoundedQueue
          WITH Size <- AsciiSize, Data <- Chars, NoByte <- NoChar, q <- AsciiQueue, out <- fetched
Echo == INSTANCE BoundedQueue
          WITH Size <- EchoSize, Data <- Chars, NoByte <- NoChar, q <- EchoBuffer, out <- sent

\* The interrupt's tick is one that keys the text, and wants its next byte.
Fetches == Timer /\ ~Touched /\ FSM_Mode # "FSM_Manuall" /\ FSM_State = "IDLE" /\ Refills

Observed == /\ fetched' = IF Fetches THEN Head(AsciiQueue) ELSE fetched
            /\ sent' = IF SendEcho THEN Head(EchoBuffer) ELSE sent

QueueSpec == /\ Init /\ fetched = NoChar /\ sent = NoChar
             /\ [][Next /\ Observed]_<<vars, fetched, sent>>

\* A tick fetches one byte of the text, drops all of it or leaves it alone.
LEMMA TickTakes ==
  ASSUME Timer, fetched' = IF Fetches THEN Head(AsciiQueue) ELSE fetched
  PROVE  Text!Get \/ Text!Reset \/ UNCHANGED <<AsciiQueue, fetched>>
<1>1. CASE Touched \/ FSM_Mode = "FSM_Manuall"
  <2>1. ManualTick /\ fetched' = fetched BY <1>1 DEF Timer, Tick, Fetches
  <2>2. AsciiQueue' = <<>> \/ AsciiQueue' = AsciiQueue
    BY <2>1 DEF ManualTick, TakePress, PostWait, EndBreakIn, BugDah, BugDahEnds, StartMark, Mark,
                Gap, AfterDit, AfterDah, GapEnds, StaysManual, textVars
  <2> QED BY <2>1, <2>2 DEF Text!Reset
<1>2. CASE ~(Touched \/ FSM_Mode = "FSM_Manuall")
  <2>1. AutomaticTick BY <1>2 DEF Timer, Tick
  <2>2. CASE FSM_State = "IDLE" /\ Refills
    <3>1. AsciiQueue # <<>> /\ AsciiQueue' = Tail(AsciiQueue) /\ fetched' = Head(AsciiQueue)
      BY <1>2, <2>1, <2>2
      DEF AutomaticTick, AutomaticIdle, MachineMark, MachineGap, Refills, Fetches
    <3> QED BY <3>1 DEF Text!Get
  <2>3. CASE ~(FSM_State = "IDLE" /\ Refills)
    BY <2>1, <2>3
    DEF AutomaticTick, AutomaticIdle, MachineMark, MachineGap, Fetches, textVars
  <2> QED BY <2>2, <2>3
<1> QED BY <1>1, <1>2

\* The main loop puts one byte into it, drops all of it or leaves it alone.
LEMMA MainPuts ==
  ASSUME IInv, MainStep, ~Timer,
         fetched' = IF Fetches THEN Head(AsciiQueue) ELSE fetched
  PROVE  (\E x \in Chars : Text!Put(x)) \/ Text!Reset \/ UNCHANGED <<AsciiQueue, fetched>>
<1>1. fetched' = fetched BY DEF Fetches
<1>2. CASE InsertPut
  <2>1. data \in Chars /\ Len(AsciiQueue) < AsciiSize
    BY <1>2 DEF InsertPut, IInv, TypeOK, MainType, TextInv, RoomIsLeft
  <2> QED BY <1>1, <1>2, <2>1 DEF InsertPut, Text!Put
<1>3. CASE ~InsertPut
  <2>1. AsciiQueue' = <<>> \/ AsciiQueue' = AsciiQueue
    BY <1>3 DEF MainStep, Command, Continue, SendEcho, SetWPM, ForceResetAscii,
                insert_keybyte, Morse_FSM_Empty_Ascii_Buffer, UpdateKeymode,
                ForceResetFSM, ForceCheck, ForcePut, UpdateSwap, UpdateEcho, UpdateWPM, textVars
  <2> QED BY <1>1, <2>1 DEF Text!Reset
<1> QED BY <1>2, <1>3

\* A tick echoes one byte or none, and the main loop takes one or none.
LEMMA StepEchoes ==
  ASSUME TypeOK, Next, sent' = IF SendEcho THEN Head(EchoBuffer) ELSE sent
  PROVE  (\E x \in Chars : Echo!Put(x)) \/ Echo!Get \/ UNCHANGED <<EchoBuffer, sent>>
<1>1. CASE SendEcho BY <1>1 DEF SendEcho, Echo!Get
<1>2. CASE ~SendEcho /\ Timer
  <2>1. sent' = sent BY <1>2
  <2>2. CASE EchoBuffer' = EchoBuffer BY <2>1, <2>2
  <2>3. CASE EchoBuffer' # EchoBuffer
    <3>1. AutomaticTick
      BY <1>2, <2>3 DEF Timer, Tick, ManualTick, TakePress, PostWait, EndBreakIn, BugDah,
                BugDahEnds, StartMark, Mark, Gap, AfterDit, AfterDah, GapEnds, StaysManual, sendVars
    <3>2. Echoes /\ EchoBuffer' = Enqueue(EchoBuffer, TXChar, EchoSize)
      BY <2>3, <3>1 DEF AutomaticTick, AutomaticIdle, MachineMark, MachineGap
    <3>3. TXChar \in Chars BY <3>2 DEF Echoes, TypeOK, SendType
    <3>4. Len(EchoBuffer) < EchoSize /\ EchoBuffer' = Append(EchoBuffer, TXChar)
      BY <2>3, <3>2 DEF Enqueue
    <3> QED BY <2>1, <3>3, <3>4 DEF Echo!Put
  <2> QED BY <2>2, <2>3
<1>3. CASE ~SendEcho /\ ~Timer
  <2>1. Command \/ Continue BY <1>3 DEF Next
  <2>2. UNCHANGED isrVars
    BY <2>1 DEF Command, Continue, insert_keybyte, Morse_FSM_Empty_Ascii_Buffer, SetWPM,
         ForceResetAscii, UpdateKeymode, InsertPut, ForceResetFSM, ForceCheck, ForcePut,
         UpdateSwap, UpdateEcho, UpdateWPM
  <2> QED BY <1>3, <2>2 DEF isrVars, sendVars
<1> QED BY <1>1, <1>2, <1>3

\* The text queue and the echo queue of the keyer are the bounded queues that
\* SharedQueue and EchoQueue implement, the former as long as no flush falls inside
\* a put: each step of the interrupt or of the main loop puts one byte, takes one,
\* resets the queue or leaves it alone.
THEOREM QueuesRefine == QueueSpec /\ []PutsAreWhole => Text!Spec /\ Echo!Spec
<1>1. Init /\ fetched = NoChar /\ sent = NoChar => Text!Init /\ Echo!Init
  BY DEF Init, Text!Init, Echo!Init
<1>2. IInv /\ [Next /\ Observed]_<<vars, fetched, sent>> =>
        [Text!Next]_<<AsciiQueue, fetched>> /\ [Echo!Next]_<<EchoBuffer, sent>>
  <2> SUFFICES ASSUME IInv, [Next /\ Observed]_<<vars, fetched, sent>>
               PROVE  /\ [Text!Next]_<<AsciiQueue, fetched>>
                      /\ [Echo!Next]_<<EchoBuffer, sent>>
    OBVIOUS
  <2>1. CASE UNCHANGED <<vars, fetched, sent>>
    BY <2>1 DEF vars, isrVars, textVars, sendVars
  <2>2. CASE Next /\ Observed
    <3>1. Timer \/ (MainStep /\ ~Timer) BY <2>2 DEF Next, MainStep
    <3>2. [Text!Next]_<<AsciiQueue, fetched>>
      BY <2>2, <3>1, TickTakes, MainPuts DEF Observed, Text!Next
    <3>3. [Echo!Next]_<<EchoBuffer, sent>> BY <2>2, StepEchoes DEF Observed, Echo!Next, IInv
    <3> QED BY <3>2, <3>3
  <2> QED BY <2>1, <2>2
<1>3. [Next /\ Observed]_<<vars, fetched, sent>> => [Next]_vars OBVIOUS
<1>4. Init /\ [][Next]_vars => []IInv BY Invariant DEF Spec
<1> QED BY <1>1, <1>2, <1>3, <1>4, PTL DEF QueueSpec, Text!Spec, Echo!Spec
=============================================================================
