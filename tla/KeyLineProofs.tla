---------------------------- MODULE KeyLineProofs ----------------------------
(***************************************************************************)
(* Proofs about what the transmitter sees, for every value of the constants: *)
(* the operator's marks and the pauses around them, and the text.            *)
(***************************************************************************)
EXTENDS KeyLine, MorseFSMProofs, WellFoundedInduction, NaturalsInduction

-----------------------------------------------------------------------------
(* The observer                                                              *)

\* The observer's counters keep their ranges; the main loop only puts the text, and
\* so the configuration is the stored one, for which the observer counts far enough.
LineType ==
  /\ high \in 0 .. MaxRun /\ low \in 0 .. MaxRun
  /\ current_WPM = 0 => 3 * Word <= MaxRun

\* The keyer's times are within the observer's reach.
LEMMA TimesCounted ==
  ASSUME TypeOK, LineType
  PROVE  /\ DitTicks \in Nat /\ DahTicks \in Nat /\ SpaceTicks \in Nat /\ BagTicks \in Nat
         /\ DitTicks < MaxRun /\ DahTicks < MaxRun /\ BagTicks <= MaxRun
         /\ 2 * DitTicks + SpaceTicks < MaxRun
<1>1. /\ MaxRun \in Nat \ {0} /\ DitMs \in Nat /\ Word \in Nat \ {0, 1}
      /\ 12 * DitMs <= MaxRun /\ 12 * DitMs < Word
  BY ObserverAssumption, TimingAssumption
<1>2. /\ DitTicks \in 0 .. Word - 1 /\ DahTicks \in 0 .. Word - 1
      /\ SpaceTicks \in 0 .. Word - 1 /\ BagTicks \in 0 .. Word - 1
  BY TicksType
<1>3. CASE current_WPM = 0
  <2>1. 3 * Word <= MaxRun BY <1>3 DEF LineType
  <2> QED BY <1>1, <1>2, <2>1
<1>4. CASE current_WPM # 0
  <2>1. current_WPM \in Nat \ {0} BY <1>4 DEF TypeOK, ConfigType
  <2>2. ASSUME NEW n \in 0 .. 12 PROVE Ticks(n) \in Nat /\ Ticks(n) <= n * DitMs
    <3>1. n * DitMs \in Nat BY <1>1
    <3>2. (n * DitMs) \div current_WPM \in 0 .. (n * DitMs) BY <2>1, <3>1, Quotient
    <3> QED BY <1>4, <3>1, <3>2 DEF Ticks
  <2>3. DitTicks <= DitMs /\ DahTicks <= 3 * DitMs /\ SpaceTicks <= 7 * DitMs
    BY <1>1, <2>2 DEF DitTicks, DahTicks, SpaceTicks
  <2>4. Ticks(6) \in Nat /\ Ticks(6) * 2 <= 12 * DitMs BY <1>1, <2>2
  <2>5. BagTicks = Ticks(6) * 2 BY <1>1, <2>4 DEF BagTicks
  <2> QED BY <1>1, <1>2, <2>3, <2>4, <2>5
<1> QED BY <1>3, <1>4

\* A counter goes up by one, as far as it counts.
LEMMA CountUp ==
  ASSUME NEW run \in 0 .. MaxRun
  PROVE  /\ Count(run) \in 1 .. MaxRun
         /\ Count(run) = run + 1 \/ (run = MaxRun /\ Count(run) = MaxRun)
BY ObserverAssumption DEF Count

\* What a step that is no tick leaves alone.
LineRest == ObserveText \/ ObserveRest \/ UNCHANGED allVars

LEMMA RestFrame ==
  ASSUME LineRest
  PROVE  UNCHANGED <<paddleVars, FSM_Mode, manualVars, FSM_State, FSM_Queue, TXChar,
                     timeVars, Key, configVars, high, low, byHand>>
<1>1. CASE ObserveText
  BY <1>1 DEF ObserveText, InsertPut, isrVars, sendVars
<1>2. CASE ObserveRest
  BY <1>2 DEF ObserveRest, insert_keybyte, SendEcho, lineVars, textVars, isrVars, sendVars
<1>3. CASE UNCHANGED allVars
  BY <1>3 DEF allVars, vars, lineVars, isrVars, sendVars, textVars
<1> QED BY <1>1, <1>2, <1>3 DEF LineRest

\* The keyer below the observer is the keyer of MorseFSM.
LEMMA LineIsKeyer == [LineNext]_allVars => [Next]_vars
BY DEF LineNext, ObserveTick, ObserveText, ObserveRest, allVars, Next, Command, Continue

\* Every step keeps the observer's types, ...
LEMMA LineTypeStep == LineType /\ [LineNext]_allVars => LineType'
<1> SUFFICES ASSUME LineType, [LineNext]_allVars PROVE LineType' OBVIOUS
<1>1. CASE ObserveTick
  <2>1. PICK p \in Paddles : Tick(p[1], p[2]) BY <1>1 DEF ObserveTick, Timer
  <2>2. current_WPM' = current_WPM BY <2>1 DEF Tick, configVars
  <2>3. Count(high) \in 0 .. MaxRun /\ Count(low) \in 0 .. MaxRun /\ 0 \in 0 .. MaxRun
    BY CountUp, ObserverAssumption DEF LineType
  <2> QED BY <1>1, <2>2, <2>3 DEF LineType, ObserveTick
<1>2. CASE LineRest BY <1>2, RestFrame DEF LineType, configVars
<1> QED BY <1>1, <1>2 DEF LineNext, LineRest

\* ... and the first state has them.
LEMMA LineTypeInit == LineInit => LineType
<1> SUFFICES ASSUME LineInit PROVE LineType OBVIOUS
<1>1. Config \in BootConfigs /\ current_WPM = Config.WPM
  BY DEF LineInit, Init
<1>2. current_WPM = 0 => 3 * Word <= MaxRun BY <1>1, ObserverAssumption
<1> QED BY <1>1, <1>2, ObserverAssumption DEF LineInit, LineType

\* The keyer's own invariants, of the keyer that is observed.
LineInv == IInv /\ BugDahInv /\ LineType

\* They hold in the first state ...
LEMMA LineInvInit == LineInit => LineInv
BY LineTypeInit, InitIInv DEF LineInv, LineInit, Init, BugDahInv

\* ... and after every step.
LEMMA LineInvStep == LineInv /\ [LineNext]_allVars => LineInv'
<1> SUFFICES ASSUME LineInv, [LineNext]_allVars PROVE LineInv' OBVIOUS
<1>1. [Next]_vars BY LineIsKeyer
<1>2. CurrentKeymode' = CurrentKeymode
  <2>1. CASE ObserveTick BY <2>1 DEF ObserveTick, Timer, Tick, configVars
  <2>2. CASE LineRest BY <2>2, RestFrame DEF LineInv, configVars
  <2> QED BY <2>1, <2>2 DEF LineNext, LineRest
<1> QED BY <1>1, <1>2, NextIInv, BugDahStep, LineTypeStep DEF LineInv, ModeKept

-----------------------------------------------------------------------------
(* The operator's marks and waits: the inductive invariant                   *)

HumanMarks == {"DIT_HIGH_HUMAN", "DAH_HIGH_HUMAN"}
HumanGaps  == {"DIT_LOW_HUMAN", "DAH_LOW_HUMAN"}
Between    == {"IDLE", "DIT_HUMAN", "DAH_HUMAN"}

\* The observer agrees with the key; the key the hardware was set up with is
\* down without being counted, until the first tick.
KeyCounted ==
  /\ Key = "LOW" => high = 0
  /\ Key = "HIGH" => \/ high > 0
                     \/ high = 0 /\ FSM_Mode = "FSM_Automacit" /\ ~byHand

\* The post-wait stands at its full length all the while an element of the
\* operator is keyed, and at 0 while the text is.
BagInv ==
  /\ FSM_Mode = "FSM_Automacit" => SwitchBagLevel = 0
  /\ FSM_ManualState \notin {"IDLE", "BUGMODE_DAH_PRESSED"} => SwitchBagLevel = BagTicks

\* What has been waited and what is still to be waited add up to the post-wait.
WaitInv ==
  FSM_Mode = "FSM_Manuall" /\ FSM_ManualState = "IDLE" /\ ~BugMode
    => low + SwitchBagLevel > BagTicks \/ low = MaxRun

\* What has passed of the gap after a mark and what is still to come add up to
\* a dit; once the gap is over, it has been a dit.
ApartInv ==
  /\ FSM_ManualState \in HumanMarks => high > 0 /\ FSM_ParameterB = DitTicks
  /\ FSM_ManualState \in HumanGaps =>
       \/ high > 0 /\ FSM_ParameterB = DitTicks
       \/ high = 0 /\ (low + FSM_ParameterB >= DitTicks \/ low = MaxRun)
  /\ FSM_ManualState \in Between /\ byHand /\ high = 0 /\ ~BugMode => low > DitTicks

HandInv == KeyCounted /\ BagInv /\ WaitInv /\ ApartInv

\* What a tick makes of the observer and leaves of the configuration.
LEMMA TickCounts ==
  ASSUME LineInv, ObserveTick
  PROVE  /\ Key' = "LOW" => /\ high' = 0 /\ low' \in 1 .. MaxRun
                            /\ low' = low + 1 \/ (low' = MaxRun /\ low = MaxRun)
         /\ Key' = "HIGH" => /\ low' = 0 /\ high' \in 1 .. MaxRun
                             /\ high' = high + 1 \/ (high' = MaxRun /\ high = MaxRun)
         /\ high = 0 \/ Key' = "HIGH" => byHand' = byHand
         /\ high > 0 /\ Key' = "LOW" => (byHand' <=> FSM_Mode' = "FSM_Manuall")
         /\ DitTicks' = DitTicks /\ DahTicks' = DahTicks /\ SpaceTicks' = SpaceTicks
         /\ BagTicks' = BagTicks /\ BugMode' = BugMode
<1>1. high \in 0 .. MaxRun /\ low \in 0 .. MaxRun BY DEF LineInv, LineType
<1>2. /\ Count(high) \in 1 .. MaxRun
      /\ Count(high) = high + 1 \/ (high = MaxRun /\ Count(high) = MaxRun)
      /\ Count(low) \in 1 .. MaxRun
      /\ Count(low) = low + 1 \/ (low = MaxRun /\ Count(low) = MaxRun)
  BY <1>1, CountUp
<1>3. UNCHANGED configVars BY DEF ObserveTick, Timer, Tick
<1>4. /\ DitTicks' = DitTicks /\ DahTicks' = DahTicks /\ SpaceTicks' = SpaceTicks
      /\ BagTicks' = BagTicks /\ BugMode' = BugMode
  BY <1>3 DEF configVars, DitTicks, DahTicks, SpaceTicks, BagTicks, Ticks, BugMode
<1>5. high = 0 \/ Key' = "HIGH" => byHand' = byHand
  BY <1>1, <1>2 DEF ObserveTick, KeyUp
<1>6. high > 0 /\ Key' = "LOW" => (byHand' <=> FSM_Mode' = "FSM_Manuall")
  BY <1>1, <1>2 DEF ObserveTick, KeyUp
<1> QED BY <1>1, <1>2, <1>4, <1>5, <1>6 DEF ObserveTick

\* Outside bug mode the paddle events leave the state alone, and in it they
\* lead nowhere but to the dah and out of it.
LEMMA EventStates ==
  ASSUME LineInv
  PROVE  /\ EventState \notin {"BUGMODE_DAH_PRESSED", "BUGMODE_DAH_RELEASED"}
              => EventState = FSM_ManualState
         /\ EventState \in {"BUGMODE_DAH_PRESSED", "BUGMODE_DAH_RELEASED"} => BugMode
<1>1. FSM_ManualState # "BUGMODE_DAH_RELEASED"
  BY DEF LineInv, IInv, TypeOK, ManualType, HumanStates
<1> QED BY <1>1 DEF EventState, BugPress, BugRelease, LineInv, BugDahInv

\* Which of the two machines a tick advances.
LEMMA TickMachine ==
  ASSUME LineInv, ObserveTick
  PROVE  \/ ManualTick
         \/ AutomaticTick /\ FSM_Mode = "FSM_Automacit" /\ FSM_ManualState = "IDLE"
<1>1. PICK p \in Paddles : Tick(p[1], p[2]) BY DEF ObserveTick, Timer
<1>2. FSM_Mode \in {"FSM_Automacit", "FSM_Manuall"} /\ HandedOver
  BY DEF LineInv, IInv, TypeOK, KeyInv
<1> QED BY <1>1, <1>2 DEF Tick, HandedOver

\* A tick of the operator's machine.
LEMMA HandTick ==
  ASSUME LineInv, HandInv, ObserveTick, ManualTick, NoStuckKey'
  PROVE  BagInv' /\ WaitInv' /\ ApartInv'
<1> DEFINE Goal == BagInv' /\ WaitInv' /\ ApartInv'
<1>1. /\ TypeOK /\ LineType /\ KeyCounted /\ BagInv /\ WaitInv /\ ApartInv
      /\ Key \in {"HIGH", "LOW"} /\ FSM_Mode \in {"FSM_Automacit", "FSM_Manuall"}
      /\ FSM_ParameterB \in Nat /\ SwitchBagLevel \in 0 .. Word - 1
      /\ high \in 0 .. MaxRun /\ low \in 0 .. MaxRun
  BY DEF LineInv, IInv, TypeOK, TimeType, ManualType, LineType, HandInv
<1>2. /\ DitTicks \in Nat /\ BagTicks \in 0 .. Word - 1 /\ DitTicks < MaxRun
      /\ MaxRun \in Nat /\ Word \in Nat
  BY <1>1, TimesCounted, TicksType, ObserverAssumption, TimingAssumption
<1>3. /\ Key' = "LOW" => /\ high' = 0 /\ low' \in 1 .. MaxRun
                         /\ low' = low + 1 \/ (low' = MaxRun /\ low = MaxRun)
      /\ Key' = "HIGH" => low' = 0 /\ high' \in 1 .. MaxRun
      /\ high = 0 \/ Key' = "HIGH" => byHand' = byHand
      /\ DitTicks' = DitTicks /\ BagTicks' = BagTicks /\ BugMode' = BugMode
  BY TickCounts
<1>4. /\ EventState \notin {"BUGMODE_DAH_PRESSED", "BUGMODE_DAH_RELEASED"}
           => EventState = FSM_ManualState
      /\ EventState \in {"BUGMODE_DAH_PRESSED", "BUGMODE_DAH_RELEASED"} => BugMode
  BY EventStates
<1> USE DEF StaysManual
\* In the machine's IDLE the key, and with it the gap, goes on as it is.
<1>5. ASSUME EventState = "IDLE", Key' = Key, FSM_ManualState' \notin HumanMarks \cup HumanGaps
      PROVE  ApartInv'
  <2>1. FSM_ManualState = "IDLE" BY <1>4, <1>5
  <2>2. CASE high' = 0
    <3>1. Key = "LOW" /\ high = 0 /\ byHand' = byHand BY <1>1, <1>3, <1>5, <2>2 DEF KeyCounted
    <3>2. byHand /\ ~BugMode => low > DitTicks BY <1>1, <2>1, <3>1 DEF ApartInv, Between
    <3>3. byHand' /\ ~BugMode' => low' > DitTicks' BY <1>1, <1>2, <1>3, <1>5, <3>1, <3>2
    <3> QED BY <1>5, <3>3 DEF ApartInv
  <2>3. CASE high' # 0 BY <1>5, <2>3 DEF ApartInv
  <2> QED BY <2>2, <2>3
<1>6. ASSUME TakePress PROVE Goal
  <2>1. FSM_ManualState' \in Presses BY <1>1, <1>6, EventType DEF TakePress
  <2>2. SwitchBagLevel' = BagTicks' /\ FSM_Mode' = "FSM_Manuall" BY <1>3, <1>6 DEF TakePress
  <2>3. ApartInv' BY <1>5, <1>6, <2>1 DEF TakePress, Presses, HumanMarks, HumanGaps
  <2> QED BY <2>1, <2>2, <2>3 DEF BagInv, WaitInv, Presses
<1>7. ASSUME PostWait PROVE Goal
  <2>1. /\ FSM_ManualState = "IDLE" /\ FSM_ManualState' = "IDLE"
        /\ FSM_Mode' = "FSM_Manuall" /\ Key' = Key
    BY <1>4, <1>7 DEF PostWait
  <2>2. Key' = "LOW" BY <2>1 DEF NoStuckKey
  <2>3. ~BugMode => low' + SwitchBagLevel' > BagTicks \/ low' = MaxRun
    <3>1. CASE SwitchBagLevel = 0
      <4>1. SwitchBagLevel' = Word - 1 BY <1>7, <3>1 DEF PostWait
      <4> QED BY <1>2, <1>3, <2>2, <4>1
    <3>2. CASE SwitchBagLevel # 0
      <4>1. SwitchBagLevel' = SwitchBagLevel - 1 BY <1>7, <3>2 DEF PostWait
      <4>2. FSM_Mode = "FSM_Manuall" BY <1>1, <3>2 DEF BagInv
      <4>3. ~BugMode => low + SwitchBagLevel > BagTicks \/ low = MaxRun
        BY <1>1, <2>1, <4>2 DEF WaitInv
      <4> QED BY <1>1, <1>2, <1>3, <2>2, <4>1, <4>3
    <3> QED BY <3>1, <3>2
  <2>4. WaitInv' BY <1>3, <2>3, ObserverAssumption DEF WaitInv
  <2>5. ApartInv' BY <1>5, <1>7, <2>1 DEF PostWait, HumanMarks, HumanGaps
  <2> QED BY <2>1, <2>4, <2>5 DEF BagInv
<1>8. ASSUME EndBreakIn PROVE Goal
  <2>1. ApartInv' BY <1>5, <1>8 DEF EndBreakIn, HumanMarks, HumanGaps, timeVars
  <2> QED BY <1>8, <2>1 DEF EndBreakIn, BagInv, WaitInv
<1>9. ASSUME BugDah \/ BugDahEnds PROVE Goal
  <2>1. BugMode' BY <1>3, <1>4, <1>9 DEF BugDah, BugDahEnds
  <2>2. FSM_Mode' = "FSM_Manuall" /\ FSM_ManualState' \in {"IDLE", "BUGMODE_DAH_PRESSED"}
    BY <1>9 DEF BugDah, BugDahEnds
  <2> QED BY <2>1, <2>2 DEF BagInv, WaitInv, ApartInv, HumanMarks, HumanGaps
\* Every other action is of an element under way, and leaves the post-wait alone.
<1>10. ASSUME NEW state \in HumanStates \ {"IDLE", "BUGMODE_DAH_PRESSED"}, EventState = state,
              FSM_Mode' = "FSM_Manuall", SwitchBagLevel' = SwitchBagLevel
       PROVE  FSM_ManualState = state /\ BagInv' /\ SwitchBagLevel' = BagTicks'
  <2>1. FSM_ManualState = state BY <1>4, <1>10 DEF HumanStates
  <2>2. SwitchBagLevel = BagTicks BY <1>1, <1>10, <2>1 DEF BagInv
  <2> QED BY <1>3, <1>10, <2>1, <2>2 DEF BagInv
<1>11. ASSUME NEW state \in {"DIT_HUMAN", "DAH_HUMAN"}, NEW mark \in HumanMarks,
              NEW gap \in HumanGaps, NEW ticks, StartMark(state, mark, gap, ticks)
       PROVE  Goal
  <2>1. BagInv' BY <1>10, <1>11 DEF StartMark, HumanStates
  <2>2. /\ FSM_ManualState' \in HumanMarks \cup HumanGaps /\ Key' = "HIGH"
        /\ FSM_ParameterB' = DitTicks
    BY <1>11 DEF StartMark
  <2>3. high' > 0 BY <1>2, <1>3, <2>2
  <2>4. FSM_ManualState' \notin Between BY <2>2 DEF HumanMarks, HumanGaps, Between
  <2> QED BY <1>3, <2>1, <2>2, <2>3, <2>4 DEF WaitInv, ApartInv, Between
<1>12. ASSUME NEW mark \in HumanMarks, NEW gap \in HumanGaps, Mark(mark, gap)
       PROVE  Goal
  <2>1. BagInv' /\ FSM_ManualState = mark BY <1>10, <1>12 DEF Mark, HumanStates, HumanMarks
  <2>2. /\ FSM_ManualState' \in HumanMarks \cup HumanGaps /\ Key' = "HIGH"
        /\ FSM_ParameterB' = FSM_ParameterB
    BY <1>12 DEF Mark
  <2>3. FSM_ParameterB = DitTicks BY <1>1, <2>1 DEF ApartInv
  <2>4. high' > 0 BY <1>2, <1>3, <2>2
  <2>5. FSM_ManualState' \notin Between BY <2>2 DEF HumanMarks, HumanGaps, Between
  <2> QED BY <1>3, <2>1, <2>2, <2>3, <2>4, <2>5 DEF WaitInv, ApartInv, Between
<1>13. ASSUME NEW gap \in HumanGaps, Gap(gap) PROVE Goal
  <2>1. BagInv' /\ FSM_ManualState = gap BY <1>10, <1>13 DEF Gap, HumanStates, HumanGaps
  <2>2. /\ FSM_ManualState' = gap /\ Key' = "LOW"
        /\ FSM_ParameterB > 0 /\ FSM_ParameterB' = FSM_ParameterB - 1
    BY <1>13 DEF Gap
  <2>3. high' = 0 /\ (low' + FSM_ParameterB' >= DitTicks \/ low' = MaxRun)
    BY <1>1, <1>2, <1>3, <2>1, <2>2 DEF ApartInv
  <2>4. FSM_ManualState' \notin HumanMarks \cup Between
    BY <2>2 DEF HumanMarks, HumanGaps, Between
  <2>5. WaitInv' BY <2>4 DEF WaitInv, Between
  <2>6. ApartInv' BY <1>3, <2>3, <2>4 DEF ApartInv
  <2> QED BY <2>1, <2>5, <2>6
<1>14. ASSUME NEW gap \in HumanGaps, GapEnds(gap), FSM_ManualState' \in Between PROVE Goal
  <2>1. BagInv' /\ FSM_ManualState = gap /\ SwitchBagLevel' = BagTicks'
    BY <1>10, <1>14 DEF GapEnds, timeVars, HumanStates, HumanGaps
  <2>2. Key' = "LOW" /\ FSM_ParameterB = 0 BY <1>14 DEF GapEnds
  <2>3. high' = 0 /\ low' > DitTicks
    BY <1>1, <1>2, <1>3, <2>1, <2>2 DEF ApartInv
  <2>4. low' + SwitchBagLevel' > BagTicks' BY <1>2, <1>3, <2>1, <2>2
  <2>5. FSM_ManualState' \notin HumanMarks \cup HumanGaps
    BY <1>14 DEF HumanMarks, HumanGaps, Between
  <2> QED BY <1>3, <2>1, <2>3, <2>4, <2>5 DEF WaitInv, ApartInv
<1>15. ASSUME AfterDit \/ AfterDah PROVE Goal
  <2>1. FSM_ManualState' \in Between
    BY <1>15 DEF AfterDit, AfterDah, SqueezeTo, ExtensionTo, Between
  <2>2. GapEnds("DIT_LOW_HUMAN") \/ GapEnds("DAH_LOW_HUMAN") BY <1>15 DEF AfterDit, AfterDah
  <2> HIDE DEF Goal
  <2> QED BY <1>14, <2>1, <2>2 DEF HumanGaps
<1> HIDE DEF Goal
<1>16. CASE \/ StartMark("DIT_HUMAN", "DIT_HIGH_HUMAN", "DIT_LOW_HUMAN", DitTicks)
            \/ StartMark("DAH_HUMAN", "DAH_HIGH_HUMAN", "DAH_LOW_HUMAN", DahTicks)
  BY <1>11, <1>16 DEF HumanMarks, HumanGaps, Goal
<1>17. CASE \/ Mark("DIT_HIGH_HUMAN", "DIT_LOW_HUMAN") \/ Mark("DAH_HIGH_HUMAN", "DAH_LOW_HUMAN")
  BY <1>12, <1>17 DEF HumanMarks, HumanGaps, Goal
<1>18. CASE Gap("DIT_LOW_HUMAN") \/ Gap("DAH_LOW_HUMAN")
  BY <1>13, <1>18 DEF HumanGaps, Goal
<1> QED BY <1>6, <1>7, <1>8, <1>9, <1>15, <1>16, <1>17, <1>18 DEF ManualTick, Goal

\* A step of the keyer and its observer.
LEMMA HandStep == LineInv /\ HandInv /\ [LineNext]_allVars => HandInv'
<1> SUFFICES ASSUME LineInv, HandInv, [LineNext]_allVars PROVE HandInv' OBVIOUS
<1>1. LineInv' BY LineInvStep
<1>2. CASE ObserveTick
  <2>1. /\ Key' = "LOW" => high' = 0
        /\ Key' = "HIGH" => high' \in 1 .. MaxRun
    BY <1>2, TickCounts
  <2>2. KeyCounted' BY <2>1, ObserverAssumption DEF KeyCounted
  <2>3. CASE ManualTick
    <3>1. NoStuckKey' BY <1>1 DEF LineInv, IInv, KeyInv
    <3> QED BY <1>2, <2>2, <2>3, <3>1, HandTick DEF HandInv
  <2>4. CASE AutomaticTick /\ FSM_Mode = "FSM_Automacit" /\ FSM_ManualState = "IDLE"
    <3>1. /\ FSM_Mode' = "FSM_Automacit" /\ FSM_ManualState' = "IDLE"
          /\ SwitchBagLevel' = SwitchBagLevel
      BY <2>4 DEF AutomaticTick, manualVars
    <3>2. BagInv' /\ WaitInv' BY <2>4, <3>1 DEF HandInv, BagInv, WaitInv
    <3>3. /\ Key' = "LOW" => /\ low' \in 1 .. MaxRun
                             /\ low' = low + 1 \/ (low' = MaxRun /\ low = MaxRun)
          /\ high = 0 => byHand' = byHand
          /\ high > 0 /\ Key' = "LOW" => ~byHand'
          /\ DitTicks' = DitTicks /\ BugMode' = BugMode
      BY <1>2, <3>1, TickCounts
    <3>4. Key' \in {"HIGH", "LOW"} BY <1>1 DEF LineInv, IInv, TypeOK
    <3>5. high \in 0 .. MaxRun /\ low \in 0 .. MaxRun /\ DitTicks \in Nat /\ MaxRun \in Nat
      BY TimesCounted, ObserverAssumption DEF LineInv, IInv, LineType
    <3>6. byHand' /\ high' = 0 /\ ~BugMode' => low' > DitTicks'
      <4> SUFFICES ASSUME byHand', high' = 0, ~BugMode' PROVE low' > DitTicks' OBVIOUS
      <4>1. Key' = "LOW" BY <2>1, <3>4
      <4>2. high = 0 BY <3>3, <3>5, <4>1
      <4>3. byHand BY <3>3, <4>2
      <4>4. low > DitTicks BY <2>4, <3>3, <4>2, <4>3 DEF HandInv, ApartInv, Between
      <4> QED BY <3>3, <3>5, <4>1, <4>4
    <3>7. ApartInv' BY <3>1, <3>6 DEF ApartInv, HumanMarks, HumanGaps
    <3> QED BY <2>2, <3>2, <3>7 DEF HandInv
  <2> QED BY <1>2, <2>3, <2>4, TickMachine
<1>3. CASE LineRest
  <2>1. UNCHANGED <<FSM_Mode, manualVars, timeVars, Key, configVars, high, low, byHand>>
    BY <1>3, RestFrame DEF LineInv
  <2>2. DitTicks' = DitTicks /\ BagTicks' = BagTicks /\ BugMode' = BugMode
    BY <2>1 DEF configVars, DitTicks, BagTicks, Ticks, BugMode
  <2> QED BY <2>1, <2>2
      DEF manualVars, timeVars, HandInv, KeyCounted, BagInv, WaitInv, ApartInv
<1> QED BY <1>2, <1>3 DEF LineNext, LineRest

\* ... from the first state on.
LEMMA HandInit == LineInit => HandInv
<1> SUFFICES ASSUME LineInit PROVE HandInv OBVIOUS
<1>1. /\ Key = "HIGH" /\ high = 0 /\ FSM_Mode = "FSM_Automacit" /\ ~byHand
      /\ SwitchBagLevel = 0 /\ FSM_ManualState = "IDLE"
  BY DEF LineInit, Init
<1> QED BY <1>1
    DEF HandInv, KeyCounted, BagInv, WaitInv, ApartInv, HumanMarks, HumanGaps, Between

\* What the operator's keying leaves on the line agrees with the keyer's state:
\* the invariant the properties of marks and waits are read off.
THEOREM LineInvariant == LineSpec => [](LineInv /\ HandInv)
<1>1. LineInit => LineInv /\ HandInv BY LineInvInit, HandInit
<1>2. LineInv /\ HandInv /\ [LineNext]_allVars => LineInv' /\ HandInv'
  BY LineInvStep, HandStep
<1> QED BY <1>1, <1>2, PTL DEF LineSpec

\* The observer is one: the keyer it watches behaves as the keyer does, so that
\* what is proved about the keyer holds of what is observed.
THEOREM LineRefines == LineSpec => Spec
<1>1. LineInit => Init BY DEF LineInit
<1> QED BY <1>1, LineIsKeyer, PTL DEF LineSpec, Spec

-----------------------------------------------------------------------------
(* The operator's marks and waits: what it gives                             *)

\* Outside bug mode the keyer waits the whole of its post-wait after the
\* operator's last mark before it goes back to the text, whatever the paddles
\* do, at every speed.
THEOREM WaitIsWhole == LineSpec => WaitsItOut
<1>1. LineInv /\ HandInv /\ [LineNext]_allVars
        => [ModeBack /\ CurrentKeymode # "BUGMODE" => low >= BagTicks]_allVars
  <2> SUFFICES ASSUME LineInv, HandInv, LineNext, ModeBack, ~BugMode PROVE low >= BagTicks
    BY DEF BugMode
  <2>1. ObserveTick
    <3>1. ~LineRest BY RestFrame DEF ModeBack, LineInv
    <3> QED BY <3>1 DEF LineNext, LineRest
  <2>2. ManualTick BY <2>1, TickMachine DEF ModeBack
  <2>3. EndBreakIn
    BY <2>2 DEF ModeBack, ManualTick, TakePress, PostWait, BugDah, BugDahEnds, StartMark, Mark,
                Gap, AfterDit, AfterDah, GapEnds, StaysManual
  <2>4. FSM_ManualState = "IDLE" /\ SwitchBagLevel = 1 BY <2>3, EventStates DEF EndBreakIn
  <2>5. low + SwitchBagLevel > BagTicks \/ low = MaxRun
    BY <2>4 DEF HandInv, WaitInv, ModeBack
  <2>6. low \in Nat /\ BagTicks \in Nat /\ BagTicks <= MaxRun
    BY TimesCounted, ObserverAssumption DEF LineInv, IInv, LineType
  <2> QED BY <2>4, <2>5, <2>6
<1> QED BY <1>1, LineInvariant, PTL DEF LineSpec, WaitsItOut

\* Two marks of the operator are never less than a dit apart outside bug mode,
\* the text and the break-ins between them whatever they may.
THEOREM MarksApart == LineSpec => MarksAreApart
<1>1. LineInv /\ HandInv /\ [LineNext]_allVars
        => [FSM_Mode = "FSM_Manuall" /\ KeyDown /\ byHand /\ CurrentKeymode # "BUGMODE"
              => low > DitTicks]_allVars
  <2> SUFFICES ASSUME LineInv, HandInv, LineNext, FSM_Mode = "FSM_Manuall", KeyDown, byHand,
                      ~BugMode
               PROVE  low > DitTicks
    BY DEF BugMode
  <2>1. ObserveTick
    <3>1. LineRest => high' = high BY RestFrame DEF LineInv
    <3>2. high' # high BY DEF KeyDown
    <3> QED BY <3>1, <3>2 DEF LineNext, LineRest
  <2>2. high = 0 /\ Key = "LOW"
    BY DEF KeyDown, HandInv, KeyCounted, LineInv, IInv, TypeOK
  <2>3. Key' = "HIGH"
    <3>1. LineInv' BY LineInvStep
    <3>2. Key' \in {"HIGH", "LOW"} BY <3>1 DEF LineInv, IInv, TypeOK
    <3> QED BY <2>1, <3>2, TickCounts DEF KeyDown
  <2>4. ManualTick BY <2>1, TickMachine
  <2>5. EventState = FSM_ManualState BY EventStates
  <2>6. FSM_ManualState \notin HumanMarks BY <2>2 DEF HandInv, ApartInv
  <2>7. FSM_ManualState \in {"DIT_HUMAN", "DAH_HUMAN"}
    BY <2>2, <2>3, <2>4, <2>5, <2>6, EventStates
    DEF ManualTick, TakePress, PostWait, EndBreakIn, BugDah, BugDahEnds, StartMark, Mark,
        Gap, AfterDit, AfterDah, GapEnds, HumanMarks
  <2> QED BY <2>2, <2>7 DEF HandInv, ApartInv, Between
<1> QED BY <1>1, LineInvariant, PTL DEF LineSpec, MarksAreApart

-----------------------------------------------------------------------------
(* The length of the operator's marks                                        *)

\* Within a dit's own time, prolonging it does not carry its counter over sixteen
\* bits.
DitFits ==
  Timer /\ ExtendsDit /\ high < DitTicks => FSM_ParameterA + CalculateDeltaDitDah < Word

\* What has been keyed of a mark and what is still to be keyed of it add up to
\* its element at least; in the gap it has been keyed, tick of the start included.
WholeInv ==
  /\ FSM_ManualState = "DIT_HIGH_HUMAN" => high + FSM_ParameterA >= DitTicks \/ high = MaxRun
  /\ FSM_ManualState = "DAH_HIGH_HUMAN" => high + FSM_ParameterA >= DahTicks \/ high = MaxRun
  /\ FSM_ManualState = "DIT_LOW_HUMAN" /\ high > 0 => high > DitTicks
  /\ FSM_ManualState = "DAH_LOW_HUMAN" /\ high > 0 => high > DahTicks

\* A tick of either machine, ...
LEMMA WholeTick ==
  ASSUME LineInv, HandInv, WholeInv, ObserveTick, DitFits
  PROVE  WholeInv'
<1>1. /\ TypeOK /\ LineType /\ FSM_ParameterA \in Nat /\ high \in 0 .. MaxRun
  BY DEF LineInv, IInv, TypeOK, TimeType, LineType
<1>2. /\ DitTicks \in Nat /\ DahTicks \in Nat /\ DitTicks < MaxRun /\ DahTicks < MaxRun
      /\ MaxRun \in Nat /\ Word \in Nat /\ CalculateDeltaDitDah \in Nat
  BY <1>1, TimesCounted, TicksType, ObserverAssumption, TimingAssumption
<1>3. /\ Key' = "LOW" => high' = 0
      /\ Key' = "HIGH" => /\ high' \in 1 .. MaxRun
                          /\ high' = high + 1 \/ (high' = MaxRun /\ high = MaxRun)
      /\ DitTicks' = DitTicks /\ DahTicks' = DahTicks
  BY TickCounts
<1>4. /\ EventState \notin {"BUGMODE_DAH_PRESSED", "BUGMODE_DAH_RELEASED"}
           => EventState = FSM_ManualState
  BY EventStates
<1>5. /\ EventParameterA \in Nat
      /\ EventParameterA >= FSM_ParameterA \/ (ExtendsDit /\ high >= DitTicks)
  <2>1. CASE ExtendsDit /\ high < DitTicks
    <3>1. FSM_ParameterA + CalculateDeltaDitDah < Word BY <2>1 DEF DitFits, ObserveTick
    <3>2. (FSM_ParameterA + CalculateDeltaDitDah) % Word = FSM_ParameterA + CalculateDeltaDitDah
      BY <1>1, <1>2, <3>1
    <3> QED BY <1>1, <1>2, <2>1, <3>2 DEF EventParameterA
  <2>2. CASE ExtendsDit /\ ~(high < DitTicks)
    <3>1. Word \in Nat \ {0} BY TimingAssumption
    <3>2. (FSM_ParameterA + CalculateDeltaDitDah) % Word \in Nat BY <1>1, <1>2, <3>1
    <3>3. high >= DitTicks BY <1>1, <1>2, <2>2
    <3> QED BY <2>2, <3>2, <3>3 DEF EventParameterA
  <2>3. CASE ~ExtendsDit BY <1>1, <2>3 DEF EventParameterA
  <2> QED BY <2>1, <2>2, <2>3
<1>6. ASSUME FSM_ManualState' \notin HumanMarks \cup HumanGaps PROVE WholeInv'
  BY <1>6 DEF WholeInv, HumanMarks, HumanGaps
<1>7. CASE TakePress
  <2>1. FSM_ManualState' \in Presses BY <1>1, <1>7, EventType DEF TakePress
  <2> QED BY <1>6, <2>1 DEF Presses, HumanMarks, HumanGaps
<1>8. CASE PostWait \/ EndBreakIn \/ BugDah \/ BugDahEnds \/ AfterDit \/ AfterDah
  BY <1>6, <1>8 DEF PostWait, EndBreakIn, BugDah, BugDahEnds, AfterDit, AfterDah, SqueezeTo,
                    ExtensionTo, HumanMarks, HumanGaps
<1>9. CASE StartMark("DIT_HUMAN", "DIT_HIGH_HUMAN", "DIT_LOW_HUMAN", DitTicks)
  <2>1. high' >= 1 BY <1>2, <1>3, <1>9 DEF StartMark
  <2>2. CASE DitTicks = 0 BY <1>2, <1>3, <1>9, <2>1, <2>2 DEF StartMark, WholeInv
  <2>3. CASE DitTicks # 0
    <3>1. FSM_ParameterA' = DitTicks - 1 /\ FSM_ManualState' = "DIT_HIGH_HUMAN"
      BY <1>9, <2>3 DEF StartMark
    <3>2. high' + FSM_ParameterA' >= DitTicks' BY <1>2, <1>3, <1>9, <2>1, <3>1 DEF StartMark
    <3> QED BY <3>1, <3>2 DEF WholeInv
  <2> QED BY <2>2, <2>3
<1>10. CASE StartMark("DAH_HUMAN", "DAH_HIGH_HUMAN", "DAH_LOW_HUMAN", DahTicks)
  <2>1. high' >= 1 BY <1>2, <1>3, <1>10 DEF StartMark
  <2>2. CASE DahTicks = 0 BY <1>2, <1>3, <1>10, <2>1, <2>2 DEF StartMark, WholeInv
  <2>3. CASE DahTicks # 0
    <3>1. FSM_ParameterA' = DahTicks - 1 /\ FSM_ManualState' = "DAH_HIGH_HUMAN"
      BY <1>10, <2>3 DEF StartMark
    <3>2. high' + FSM_ParameterA' >= DahTicks' BY <1>2, <1>3, <1>10, <2>1, <3>1 DEF StartMark
    <3> QED BY <3>1, <3>2 DEF WholeInv
  <2> QED BY <2>2, <2>3
<1>11. CASE Mark("DIT_HIGH_HUMAN", "DIT_LOW_HUMAN")
  <2>1. FSM_ManualState = "DIT_HIGH_HUMAN" BY <1>4, <1>11 DEF Mark
  <2>2. high + FSM_ParameterA >= DitTicks \/ high = MaxRun BY <2>1 DEF WholeInv
  <2>3. CASE EventParameterA > 0
    <3>1. FSM_ParameterA' = EventParameterA - 1 /\ FSM_ManualState' = "DIT_HIGH_HUMAN"
      BY <1>11, <2>3 DEF Mark
    <3>2. high' + FSM_ParameterA' >= DitTicks' \/ high' = MaxRun
      BY <1>1, <1>2, <1>3, <1>5, <1>11, <2>2, <3>1 DEF Mark
    <3> QED BY <3>1, <3>2, ObserverAssumption DEF WholeInv
  <2>4. CASE ~(EventParameterA > 0)
    <3>1. FSM_ManualState' = "DIT_LOW_HUMAN" BY <1>11, <2>4 DEF Mark
    <3>2. high' > DitTicks' BY <1>1, <1>2, <1>3, <1>5, <1>11, <2>2, <2>4 DEF Mark
    <3> QED BY <3>1, <3>2 DEF WholeInv
  <2> QED BY <2>3, <2>4
<1>12. CASE Mark("DAH_HIGH_HUMAN", "DAH_LOW_HUMAN")
  <2>1. FSM_ManualState = "DAH_HIGH_HUMAN" BY <1>4, <1>12 DEF Mark
  <2>2. high + FSM_ParameterA >= DahTicks \/ high = MaxRun BY <2>1 DEF WholeInv
  <2>3. EventParameterA >= FSM_ParameterA BY <1>5, <2>1 DEF ExtendsDit
  <2>4. CASE EventParameterA > 0
    <3>1. FSM_ParameterA' = EventParameterA - 1 /\ FSM_ManualState' = "DAH_HIGH_HUMAN"
      BY <1>12, <2>4 DEF Mark
    <3>2. high' + FSM_ParameterA' >= DahTicks' \/ high' = MaxRun
      BY <1>1, <1>2, <1>3, <1>5, <1>12, <2>2, <2>3, <3>1 DEF Mark
    <3> QED BY <3>1, <3>2, ObserverAssumption DEF WholeInv
  <2>5. CASE ~(EventParameterA > 0)
    <3>1. FSM_ManualState' = "DAH_LOW_HUMAN" BY <1>12, <2>5 DEF Mark
    <3>2. high' > DahTicks' BY <1>1, <1>2, <1>3, <1>5, <1>12, <2>2, <2>3, <2>5 DEF Mark
    <3> QED BY <3>1, <3>2 DEF WholeInv
  <2> QED BY <2>4, <2>5
<1>13. CASE Gap("DIT_LOW_HUMAN") \/ Gap("DAH_LOW_HUMAN")
  BY <1>3, <1>13 DEF Gap, WholeInv
<1>14. CASE AutomaticTick /\ FSM_ManualState = "IDLE"
  BY <1>6, <1>14 DEF AutomaticTick, manualVars, HumanMarks, HumanGaps
<1> QED BY <1>7, <1>8, <1>9, <1>10, <1>11, <1>12, <1>13, <1>14, TickMachine DEF ManualTick

\* ... and every other step.
LEMMA WholeStep ==
  LineInv /\ HandInv /\ WholeInv /\ [LineNext]_allVars /\ [DitFits]_allVars => WholeInv'
<1> SUFFICES ASSUME LineInv, HandInv, WholeInv, [LineNext]_allVars, [DitFits]_allVars
             PROVE  WholeInv'
  OBVIOUS
<1>1. CASE LineRest
  <2>1. UNCHANGED <<manualVars, timeVars, configVars, high>> BY <1>1, RestFrame DEF LineInv
  <2>2. DitTicks' = DitTicks /\ DahTicks' = DahTicks
    BY <2>1 DEF configVars, DitTicks, DahTicks, Ticks
  <2> QED BY <2>1, <2>2 DEF manualVars, timeVars, WholeInv
<1>2. CASE ObserveTick /\ DitFits BY <1>2, WholeTick
<1>3. CASE UNCHANGED allVars BY <1>1, <1>3 DEF LineRest
<1> QED BY <1>1, <1>2, <1>3 DEF LineNext, LineRest

\* No mark of the operator is clipped, whatever the paddles do and wherever the
\* break-in came, as long as the presses of the dah paddle within a dit's own
\* time do not add up to more than its sixteen-bit counter holds.
THEOREM MarksWhole == LineSpec /\ [][DitFits]_allVars => MarksAreWhole
<1>1. LineInit => WholeInv BY DEF LineInit, Init, WholeInv
<1>2. WholeInv => [KeyUp => /\ FSM_ManualState = "DIT_LOW_HUMAN" => high > DitTicks
                            /\ FSM_ManualState = "DAH_LOW_HUMAN" => high > DahTicks]_allVars
  BY DEF WholeInv, KeyUp
<1> QED BY <1>1, <1>2, WholeStep, LineInvariant, PTL DEF LineSpec, MarksAreWhole

-----------------------------------------------------------------------------
(* How often a dit can be prolonged within its own time                      *)

\* The ticks that pass at least until a paddle can be found pressed once more.
ToPress(run) == IF run < Samples THEN Samples - run ELSE Samples + 1

\* A sample brings the next press one tick nearer at most; a press puts the one
\* after it a whole debouncing time off.
LEMMA PressApart ==
  ASSUME NEW run \in 0 .. Samples + 1, NEW bit \in 0 .. 1
  PROVE  /\ ToPress(run) \in 1 .. Samples + 1 /\ ToPress(Shifted(run, bit)) \in 1 .. Samples + 1
         /\ ToPress(run) <= ToPress(Shifted(run, bit)) + 1
         /\ Shifted(run, bit) = Samples =>
              ToPress(run) = 1 /\ ToPress(Shifted(run, bit)) = Samples + 1
BY TimingAssumption DEF ToPress, Shifted

\* In the e ticks that have been keyed of a dit it has been prolonged k times, and
\* the presses have been a debouncing time apart.
DitBounded ==
  FSM_ManualState = "DIT_HIGH_HUMAN" =>
    \E k \in Nat, e \in Nat \ {0} :
      /\ e <= high \/ high = MaxRun
      /\ FSM_ParameterA + e <= DitTicks + k * CalculateDeltaDitDah
      /\ k * (Samples + 1) + 2 <= e + ToPress(PaddleKeyB)

\* A remainder is at most the number.
LEMMA Remainder ==
  ASSUME NEW x \in Nat, NEW w \in Nat \ {0}
  PROVE  x % w \in 0 .. x
OBVIOUS

\* A tick of either machine, ...
LEMMA DitTick ==
  ASSUME LineInv, HandInv, DitBounded, ObserveTick
  PROVE  DitBounded'
<1>1. /\ TypeOK /\ LineType /\ FSM_ParameterA \in Nat /\ high \in 0 .. MaxRun
      /\ PaddleKeyB \in 0 .. Samples + 1
  BY DEF LineInv, IInv, TypeOK, TimeType, LineType, PaddleType
<1>2. /\ DitTicks \in Nat /\ CalculateDeltaDitDah \in Nat /\ DitTicks < MaxRun
      /\ MaxRun \in Nat /\ Word \in Nat \ {0} /\ Samples \in Nat \ {0}
  BY <1>1, TimesCounted, TicksType, ObserverAssumption, TimingAssumption
<1>3. /\ Key' = "HIGH" => /\ high' \in 1 .. MaxRun
                          /\ high' = high + 1 \/ (high' = MaxRun /\ high = MaxRun)
      /\ DitTicks' = DitTicks /\ CalculateDeltaDitDah' = CalculateDeltaDitDah
  <2>1. UNCHANGED configVars BY DEF ObserveTick, Timer, Tick
  <2> QED BY <2>1, TickCounts DEF configVars, CalculateDeltaDitDah, Ticks
<1>4. PICK bit \in 0 .. 1 : PaddleKeyB' = Shifted(PaddleKeyB, bit)
  <2>1. PICK p \in Paddles : Tick(p[1], p[2]) BY DEF ObserveTick, Timer
  <2>2. p[1] \in 0 .. 1 /\ p[2] \in 0 .. 1 BY InputAssumption
  <2> QED BY <2>1, <2>2 DEF Tick, SamplePaddles
<1>5. /\ ToPress(PaddleKeyB) \in 1 .. Samples + 1 /\ ToPress(PaddleKeyB') \in 1 .. Samples + 1
      /\ ToPress(PaddleKeyB) <= ToPress(PaddleKeyB') + 1
      /\ PaddleKeyB' = Samples =>
           ToPress(PaddleKeyB) = 1 /\ ToPress(PaddleKeyB') = Samples + 1
  BY <1>1, <1>4, PressApart
<1>6. CASE StartMark("DIT_HUMAN", "DIT_HIGH_HUMAN", "DIT_LOW_HUMAN", DitTicks) /\ DitTicks # 0
  <2>1. FSM_ParameterA' = DitTicks - 1 /\ Key' = "HIGH" BY <1>6 DEF StartMark
  <2>2. 1 <= high' BY <1>3, <2>1
  <2>3. FSM_ParameterA' + 1 <= DitTicks' + 0 * CalculateDeltaDitDah'
    BY <1>2, <1>3, <2>1
  <2>4. 0 * (Samples + 1) + 2 <= 1 + ToPress(PaddleKeyB') BY <1>2, <1>5
  <2> QED BY <2>2, <2>3, <2>4 DEF DitBounded, ToPress
<1>7. CASE Mark("DIT_HIGH_HUMAN", "DIT_LOW_HUMAN") /\ EventParameterA > 0
  <2>1. FSM_ManualState = "DIT_HIGH_HUMAN" BY <1>7, EventStates DEF Mark
  <2>2. PICK k \in Nat, e \in Nat \ {0} :
          /\ e <= high \/ high = MaxRun
          /\ FSM_ParameterA + e <= DitTicks + k * CalculateDeltaDitDah
          /\ k * (Samples + 1) + 2 <= e + ToPress(PaddleKeyB)
    BY <2>1 DEF DitBounded
  <2>3. FSM_ParameterA' = EventParameterA - 1 /\ Key' = "HIGH" BY <1>7 DEF Mark
  <2>4. e + 1 <= high' \/ high' = MaxRun BY <1>1, <1>2, <1>3, <2>2, <2>3
  <2>5. CASE ExtendsDit
    <3>1. EventParameterA \in 0 .. FSM_ParameterA + CalculateDeltaDitDah
      BY <1>1, <1>2, <2>5, Remainder DEF EventParameterA
    <3>2. (k + 1) * CalculateDeltaDitDah = k * CalculateDeltaDitDah + CalculateDeltaDitDah
          /\ k * CalculateDeltaDitDah \in Nat
      BY <1>2, OneMore
    <3>3. (k + 1) * (Samples + 1) = k * (Samples + 1) + (Samples + 1)
          /\ k * (Samples + 1) \in Nat
      BY <1>2, OneMore
    <3>4. PaddleKeyB' = Samples BY <2>5 DEF ExtendsDit, KeyB, KeyState
    <3>5. FSM_ParameterA' + (e + 1) <= DitTicks' + (k + 1) * CalculateDeltaDitDah'
      BY <1>1, <1>2, <1>3, <2>2, <2>3, <3>1, <3>2
    <3>6. (k + 1) * (Samples + 1) + 2 <= (e + 1) + ToPress(PaddleKeyB')
      BY <1>2, <1>5, <2>2, <3>3, <3>4
    <3> QED BY <2>4, <3>5, <3>6 DEF DitBounded, ToPress
  <2>6. CASE ~ExtendsDit
    <3>1. EventParameterA = FSM_ParameterA BY <2>6 DEF EventParameterA
    <3>2. k * CalculateDeltaDitDah \in Nat /\ k * (Samples + 1) \in Nat BY <1>2, OneMore
    <3>3. FSM_ParameterA' + (e + 1) <= DitTicks' + k * CalculateDeltaDitDah'
      BY <1>1, <1>2, <1>3, <2>2, <2>3, <3>1, <3>2
    <3>4. k * (Samples + 1) + 2 <= (e + 1) + ToPress(PaddleKeyB')
      BY <1>2, <1>5, <2>2, <3>2
    <3> QED BY <2>4, <3>3, <3>4 DEF DitBounded, ToPress
  <2> QED BY <2>5, <2>6
<1>8. CASE FSM_ManualState' # "DIT_HIGH_HUMAN" BY <1>8 DEF DitBounded
<1>9. \/ FSM_ManualState' # "DIT_HIGH_HUMAN"
      \/ StartMark("DIT_HUMAN", "DIT_HIGH_HUMAN", "DIT_LOW_HUMAN", DitTicks) /\ DitTicks # 0
      \/ Mark("DIT_HIGH_HUMAN", "DIT_LOW_HUMAN") /\ EventParameterA > 0
  <2>1. CASE ManualTick
    <3>1. CASE TakePress
      <4>1. FSM_ManualState' \in Presses BY <1>1, <3>1, EventType DEF TakePress
      <4> QED BY <4>1 DEF Presses
    <3> QED BY <2>1, <3>1
        DEF ManualTick, PostWait, EndBreakIn, BugDah, BugDahEnds, StartMark, Mark, Gap,
            AfterDit, AfterDah, SqueezeTo, ExtensionTo
  <2>2. CASE AutomaticTick /\ FSM_ManualState = "IDLE"
    BY <2>2 DEF AutomaticTick, manualVars
  <2> QED BY <2>1, <2>2, TickMachine
<1> QED BY <1>6, <1>7, <1>8, <1>9

\* ... and every other step.
LEMMA DitStep == LineInv /\ HandInv /\ DitBounded /\ [LineNext]_allVars => DitBounded'
<1> SUFFICES ASSUME LineInv, HandInv, DitBounded, [LineNext]_allVars PROVE DitBounded' OBVIOUS
<1>1. CASE LineRest
  <2>1. UNCHANGED <<paddleVars, manualVars, timeVars, configVars, high>>
    BY <1>1, RestFrame DEF LineInv
  <2>2. DitTicks' = DitTicks /\ CalculateDeltaDitDah' = CalculateDeltaDitDah
    BY <2>1 DEF configVars, DitTicks, CalculateDeltaDitDah, Ticks
  <2> QED BY <2>1, <2>2 DEF paddleVars, manualVars, timeVars, DitBounded, ToPress
<1>2. CASE ObserveTick BY <1>2, DitTick
<1>3. CASE UNCHANGED allVars BY <1>1, <1>3 DEF LineRest
<1> QED BY <1>1, <1>2, <1>3 DEF LineNext, LineRest

\* The speed leaves room for every press that fits into a dit.
SpeedFits ==
  DitTicks + (DitTicks \div (Samples + 1) + 1) * CalculateDeltaDitDah < Word

\* What fits into a number is at most the quotient.
LEMMA AtMostQuotient ==
  ASSUME NEW k \in Nat, NEW m \in Nat \ {0}, NEW d \in Nat, k * m <= d
  PROVE  k <= d \div m /\ d \div m \in Nat
OBVIOUS

\* Then no press of the dah paddle overflows the counter of the dit.
LEMMA DitFitsAtSpeed ==
  ASSUME LineInv, DitBounded, SpeedFits, ObserveTick
  PROVE  DitFits
<1> SUFFICES ASSUME ExtendsDit, high < DitTicks
             PROVE  FSM_ParameterA + CalculateDeltaDitDah < Word
  BY DEF DitFits
<1>1. /\ TypeOK /\ LineType /\ FSM_ParameterA \in Nat /\ high \in 0 .. MaxRun
      /\ PaddleKeyB \in 0 .. Samples + 1
  BY DEF LineInv, IInv, TypeOK, TimeType, LineType, PaddleType
<1>2. /\ DitTicks \in Nat /\ CalculateDeltaDitDah \in Nat /\ DitTicks < MaxRun
      /\ MaxRun \in Nat /\ Word \in Nat \ {0} /\ Samples \in Nat \ {0}
  BY <1>1, TimesCounted, TicksType, ObserverAssumption, TimingAssumption
<1>3. ToPress(PaddleKeyB) = 1
  <2>1. PICK p \in Paddles : Tick(p[1], p[2]) BY DEF ObserveTick, Timer
  <2>2. p[1] \in 0 .. 1 /\ p[2] \in 0 .. 1 BY InputAssumption
  <2>3. PICK bit \in 0 .. 1 : PaddleKeyB' = Shifted(PaddleKeyB, bit)
    BY <2>1, <2>2 DEF Tick, SamplePaddles
  <2>4. PaddleKeyB' = Samples BY DEF ExtendsDit, KeyB, KeyState
  <2> QED BY <1>1, <2>3, <2>4, PressApart
<1>4. PICK k \in Nat, e \in Nat \ {0} :
        /\ e <= high \/ high = MaxRun
        /\ FSM_ParameterA + e <= DitTicks + k * CalculateDeltaDitDah
        /\ k * (Samples + 1) + 2 <= e + 1
  BY <1>3 DEF DitBounded, ExtendsDit
<1> DEFINE q == DitTicks \div (Samples + 1)
<1>5. k * (Samples + 1) <= DitTicks
  <2>1. k * (Samples + 1) \in Nat BY <1>2, OneMore
  <2> QED BY <1>1, <1>2, <1>4, <2>1
<1>6. k <= q /\ q \in Nat
  <2>1. Samples + 1 \in Nat \ {0} BY <1>2
  <2> QED BY <1>2, <1>5, <2>1, AtMostQuotient
<1> HIDE DEF q
<1>7. /\ (k + 1) * CalculateDeltaDitDah <= (q + 1) * CalculateDeltaDitDah
      /\ (q + 1) * CalculateDeltaDitDah \in Nat
  <2>1. k + 1 \in Nat /\ q + 1 \in Nat /\ k + 1 <= q + 1 BY <1>6
  <2> QED BY <1>2, <2>1, ManyMore
<1>8. /\ (k + 1) * CalculateDeltaDitDah = k * CalculateDeltaDitDah + CalculateDeltaDitDah
      /\ k * CalculateDeltaDitDah \in Nat
  BY <1>2, OneMore
<1>9. DitTicks + (q + 1) * CalculateDeltaDitDah < Word BY DEF SpeedFits, q
<1> QED BY <1>1, <1>2, <1>4, <1>7, <1>8, <1>9

\* No mark of the operator is clipped at a speed that leaves room in the counter of
\* a dit, however often and whenever the dah paddle is pressed: the debouncing of
\* the paddle keeps the presses few enough.
THEOREM MarksWholeAtSpeed == LineSpec /\ SpeedFits => MarksAreWhole
<1>1. LineInit => DitBounded BY DEF LineInit, Init, DitBounded
<1>2. LineInv /\ SpeedFits /\ [LineNext]_allVars => SpeedFits'
  <2> SUFFICES ASSUME LineInv, SpeedFits, [LineNext]_allVars PROVE SpeedFits' OBVIOUS
  <2>1. UNCHANGED configVars
    <3>1. CASE ObserveTick BY <3>1 DEF ObserveTick, Timer, Tick
    <3>2. CASE LineRest BY <3>2, RestFrame DEF LineInv
    <3> QED BY <3>1, <3>2 DEF LineNext, LineRest
  <2> QED BY <2>1 DEF configVars, SpeedFits, DitTicks, CalculateDeltaDitDah, Ticks
<1>3. LineInv /\ DitBounded /\ SpeedFits /\ [LineNext]_allVars => [DitFits]_allVars
  <2> SUFFICES ASSUME LineInv, DitBounded, SpeedFits, LineNext PROVE DitFits OBVIOUS
  <2>1. CASE ObserveTick BY <2>1, DitFitsAtSpeed
  <2>2. CASE LineRest
    <3> SUFFICES ASSUME Timer, ExtendsDit PROVE FALSE BY DEF DitFits
    <3>1. PaddleKeyB' = PaddleKeyB BY <2>2, RestFrame DEF LineInv, paddleVars
    <3>2. PaddleKeyB' = Samples BY DEF ExtendsDit, KeyB, KeyState
    <3>3. PICK p \in Paddles : SamplePaddles(p[1], p[2]) BY DEF Timer, Tick
    <3>4. p[1] \in 0 .. 1 /\ p[2] \in 0 .. 1 BY InputAssumption
    <3> QED BY <3>1, <3>2, <3>3, <3>4, TimingAssumption DEF SamplePaddles, Shifted
  <2> QED BY <2>1, <2>2 DEF LineNext, LineRest
<1> QED BY <1>1, <1>2, <1>3, DitStep, MarksWhole, LineInvariant, PTL DEF LineSpec

\* A quotient by 3 or more is at most a third.
LEMMA SlowerQuotient ==
  ASSUME NEW x \in Nat, NEW w \in Nat, w >= 3
  PROVE  x \div w \in 0 .. (x \div 3)
<1> DEFINE q == x \div w
<1>1. q \in Nat /\ q * w <= x OBVIOUS
<1>2. q * 3 <= q * w BY <1>1
<1>3. q * 3 <= x BY <1>1, <1>2
<1> HIDE DEF q
<1>4. q <= x \div 3 BY <1>1, <1>3
<1> QED BY <1>1, <1>4 DEF q

\* Presses a debouncing time of eight ticks apart leave room in sixteen bits.
LEMMA BuildFits ==
  ASSUME NEW dit \in 0 .. 400, NEW delta \in 0 .. 800
  PROVE  dit + (dit \div (7 + 1) + 1) * delta < 65536
<1> DEFINE n == dit \div (7 + 1) + 1
<1>1. n \in Nat /\ n <= 51 OBVIOUS
<1> HIDE DEF n
<1>2. n * delta <= 51 * delta /\ n * delta \in Nat BY <1>1, ManyMore, OneMore
<1>3. 51 * delta <= 40800 OBVIOUS
<1>4. dit + n * delta < 65536 BY <1>2, <1>3
<1> QED BY <1>4 DEF n

\* In the build, with a dit of 1200 ms at 1 WPM, counters of sixteen bits and seven
\* samples for a press, that is every stored speed from 3 WPM on.
THEOREM MarksWholeInBuild ==
  DitMs = 1200 /\ Word = 65536 /\ Samples = 7 /\ (\A c \in BootConfigs : c.WPM >= 3) /\ LineSpec
    => MarksAreWhole
<1> SUFFICES ASSUME DitMs = 1200, Word = 65536, Samples = 7,
                    \A c \in BootConfigs : c.WPM >= 3
             PROVE  LineSpec => MarksAreWhole
  OBVIOUS
<1>1. LineInit => SpeedFits
  <2> SUFFICES ASSUME LineInit PROVE SpeedFits OBVIOUS
  <2>1. current_WPM \in Nat /\ current_WPM >= 3
    <3>1. Config \in BootConfigs /\ current_WPM = Config.WPM BY DEF LineInit, Init
    <3> QED BY <3>1, InputAssumption DEF ConfigSet
  <2>2. DitTicks = 1200 \div current_WPM /\ CalculateDeltaDitDah = 2400 \div current_WPM
    BY <2>1 DEF DitTicks, CalculateDeltaDitDah, Ticks
  <2>3. DitTicks \in 0 .. 400 /\ CalculateDeltaDitDah \in 0 .. 800
    BY <2>1, <2>2, SlowerQuotient
  <2> QED BY <2>3, BuildFits DEF SpeedFits
<1> QED BY <1>1, MarksWholeAtSpeed, PTL DEF LineSpec

-----------------------------------------------------------------------------
(* Sequences: a sequence cut into others is their concatenation              *)

\* A set of naturals has a least member: what an induction over them rests on.
LEMMA LeastNatural ==
  ASSUME NEW T, T \subseteq Nat, T # {}
  PROVE  \E m \in T : \A k \in 0 .. m - 1 : k \notin T
<1>1. PICK m \in T : \A k \in T : ~(<<k, m>> \in OpToRel(<, Nat))
  BY NatLessThanWellFounded, WFMin
<1>2. ASSUME NEW k \in T, k < m PROVE FALSE
  BY <1>1, <1>2 DEF OpToRel
<1> QED BY <1>2

\* f gives the concatenation of the first i sequences of s, for each i up to n.
FlattensBy(f, s, n) == f = [i \in 1 .. n |-> IF i = 1 THEN s[i] ELSE f[i - 1] \o s[i]]

\* There is such a function, ...
LEMMA FlattenExists ==
  ASSUME NEW s, NEW n \in Nat \ {0}
  PROVE  \E f : FlattensBy(f, s, n)
<1> DEFINE Bad == {k \in Nat \ {0} : ~ \E f : FlattensBy(f, s, k)}
<1> SUFFICES ASSUME Bad # {} PROVE FALSE OBVIOUS
<1>1. PICK m \in Bad : \A k \in 0 .. m - 1 : k \notin Bad BY LeastNatural
<1>2. CASE m = 1
  <2> DEFINE g == [i \in 1 .. 1 |-> s[i]]
  <2>1. g = [i \in 1 .. 1 |-> IF i = 1 THEN s[i] ELSE g[i - 1] \o s[i]] OBVIOUS
  <2> QED BY <1>2, <2>1 DEF FlattensBy
<1>3. CASE m # 1
  <2>1. PICK f : FlattensBy(f, s, m - 1) BY <1>1, <1>3
  <2> DEFINE g == [i \in 1 .. m |-> IF i < m THEN f[i] ELSE f[m - 1] \o s[m]]
             h == [i \in 1 .. m |-> IF i = 1 THEN s[i] ELSE g[i - 1] \o s[i]]
  <2>2. ASSUME NEW i \in 1 .. m PROVE g[i] = h[i]
    <3>1. CASE i = m
      <4>1. m - 1 \in 1 .. m /\ m \in 1 .. m /\ m - 1 < m /\ ~(m < m) BY <1>3
      <4>2. g[m - 1] = f[m - 1] BY <4>1
      <4>3. g[m] = f[m - 1] \o s[m] BY <4>1
      <4>4. h[m] = g[m - 1] \o s[m] BY <1>3, <4>1
      <4> QED BY <3>1, <4>2, <4>3, <4>4
    <3>2. CASE i # m
      <4>1. f[i] = IF i = 1 THEN s[i] ELSE f[i - 1] \o s[i]
        <5>1. i \in 1 .. m - 1 BY <3>2
        <5> QED BY <2>1, <5>1 DEF FlattensBy
      <4> QED BY <3>2, <4>1
    <3> QED BY <3>1, <3>2
  <2>3. g = h BY <2>2
  <2>4. FlattensBy(g, s, m) BY <2>3 DEF FlattensBy
  <2> HIDE DEF g
  <2> QED BY <2>4
<1> QED BY <1>2, <1>3

\* ... and FlattenSeq is the last value of one.
LEMMA FlattenIs ==
  ASSUME NEW s, Len(s) \in Nat \ {0}
  PROVE  \E f : FlattensBy(f, s, Len(s)) /\ SeqExt!FlattenSeq(s) = f[Len(s)]
<1> DEFINE F == CHOOSE f : FlattensBy(f, s, Len(s))
<1>1. FlattensBy(F, s, Len(s)) BY FlattenExists
<1>2. SeqExt!FlattenSeq(s) = F[Len(s)] BY DEF SeqExt!FlattenSeq, FlattensBy
<1> HIDE DEF F
<1> QED BY <1>1, <1>2

\* A sequence that is cut into the members of s, one after the other, is s
\* flattened: the first i of them are its prefix up to the i-th cut.
LEMMA FlattenByCuts ==
  ASSUME NEW S, NEW s, Len(s) \in Nat, s \in Seq(Seq(S)), NEW e \in Seq(S),
         NEW cut \in [0 .. Len(s) -> 0 .. Len(e)],
         cut[0] = 0, cut[Len(s)] = Len(e),
         \A i \in 1 .. Len(s) :
           /\ cut[i] = cut[i - 1] + Len(s[i])
           /\ \A j \in 1 .. Len(s[i]) : e[cut[i - 1] + j] = s[i][j]
  PROVE  SeqExt!FlattenSeq(s) = e
<1>1. CASE Len(s) = 0
  <2>1. e = <<>> BY <1>1
  <2>2. s = <<>> BY <1>1
  <2> QED BY <1>1, <2>1, <2>2 DEF SeqExt!FlattenSeq
<1>2. CASE Len(s) # 0
  <2>1. PICK f : FlattensBy(f, s, Len(s)) /\ SeqExt!FlattenSeq(s) = f[Len(s)]
    BY <1>2, FlattenIs
  <2>2. ASSUME NEW i \in 1 .. Len(s)
        PROVE  f[i] = IF i = 1 THEN s[i] ELSE f[i - 1] \o s[i]
    BY <2>1 DEF FlattensBy
  <2> DEFINE Done(i) == /\ f[i] \in Seq(S) /\ Len(f[i]) = cut[i]
                        /\ \A j \in 1 .. cut[i] : f[i][j] = e[j]
             Bad == {i \in 1 .. Len(s) : ~Done(i)}
  <2>3. Bad = {}
    <3> SUFFICES ASSUME Bad # {} PROVE FALSE OBVIOUS
    <3>1. PICK i \in Bad : \A k \in 0 .. i - 1 : k \notin Bad
      <4>1. Bad \subseteq Nat OBVIOUS
      <4> HIDE DEF Bad
      <4> QED BY <4>1, LeastNatural
    <3>2. i \in 1 .. Len(s) /\ ~Done(i) OBVIOUS
    <3>3. s[i] \in Seq(S) BY <3>2
    <3>4. /\ cut[i] = cut[i - 1] + Len(s[i]) /\ cut[i - 1] \in Nat /\ cut[i] \in Nat
          /\ \A j \in 1 .. Len(s[i]) : e[cut[i - 1] + j] = s[i][j]
      <4>1. i - 1 \in 0 .. Len(s) /\ i \in 0 .. Len(s) BY <3>2
      <4>2. cut[i - 1] \in Nat /\ cut[i] \in Nat
        <5>1. cut[i - 1] \in 0 .. Len(e) /\ cut[i] \in 0 .. Len(e) BY <4>1
        <5> HIDE DEF Done, Bad
        <5> QED BY <5>1
      <4> HIDE DEF Done, Bad
      <4> QED BY <3>2, <4>2
    <3>5. CASE i = 1
      <4>1. f[i] = s[i] BY <2>2, <3>2, <3>5
      <4>2. cut[i - 1] = 0 BY <3>5
      <4>3. f[i] \in Seq(S) /\ Len(f[i]) = cut[i] BY <3>3, <3>4, <4>1, <4>2
      <4>4. ASSUME NEW j \in 1 .. cut[i] PROVE f[i][j] = e[j]
        <5>1. j \in 1 .. Len(s[i]) /\ cut[i - 1] + j = j BY <4>1, <4>2, <4>3
        <5>2. e[cut[i - 1] + j] = s[i][j] BY <3>4, <5>1
        <5> QED BY <4>1, <5>1, <5>2
      <4> QED BY <3>2, <4>3, <4>4
    <3>6. CASE i # 1
      <4>1. f[i] = f[i - 1] \o s[i] BY <2>2, <3>2, <3>6
      <4>2. Done(i - 1)
        <5>1. i - 1 \in 0 .. i - 1 /\ i - 1 \in 1 .. Len(s)
          <6> HIDE DEF Done, Bad
          <6> QED BY <3>2, <3>6
        <5> QED BY <3>1, <5>1
      <4>3. /\ f[i] \in Seq(S) /\ Len(f[i]) = cut[i - 1] + Len(s[i])
            /\ \A j \in 1 .. cut[i - 1] + Len(s[i]) :
                 f[i][j] = IF j <= cut[i - 1] THEN f[i - 1][j] ELSE s[i][j - cut[i - 1]]
        <5>1. f[i - 1] \in Seq(S) /\ Len(f[i - 1]) = cut[i - 1] BY <4>2
        <5> DEFINE a == f[i - 1]
                   b == s[i]
        <5>2. a \in Seq(S) /\ b \in Seq(S) /\ Len(a) = cut[i - 1] /\ f[i] = a \o b
          BY <3>3, <4>1, <5>1
        <5> HIDE DEF Done, Bad, a, b
        <5>3. /\ a \o b \in Seq(S) /\ Len(a \o b) = Len(a) + Len(b)
              /\ \A j \in 1 .. Len(a) + Len(b) :
                   (a \o b)[j] = IF j <= Len(a) THEN a[j] ELSE b[j - Len(a)]
          <6>1. a \in Seq(S) /\ b \in Seq(S) BY <5>2
          <6> QED BY <6>1, ConcatProperties
        <5> QED BY <5>2, <5>3 DEF a, b
      <4>4. ASSUME NEW j \in 1 .. cut[i] PROVE f[i][j] = e[j]
        <5>1. CASE j <= cut[i - 1]
          <6>1. j \in 1 .. cut[i - 1] BY <3>4, <5>1
          <6> QED BY <3>4, <4>2, <4>3, <5>1, <6>1
        <5>2. CASE ~(j <= cut[i - 1])
          <6>1. j - cut[i - 1] \in 1 .. Len(s[i]) /\ cut[i - 1] + (j - cut[i - 1]) = j
            <7>1. Len(s[i]) \in Nat BY <3>3
            <7>2. cut[i - 1] \in Nat /\ cut[i] = cut[i - 1] + Len(s[i]) BY <3>4
            <7>3. j \in Int /\ j <= cut[i - 1] + Len(s[i]) /\ j > cut[i - 1]
              BY <5>2, <7>1, <7>2
            <7>4. ASSUME NEW c \in Nat, NEW l \in Nat, NEW k \in Int, k <= c + l, k > c
                  PROVE  k - c \in 1 .. l /\ c + (k - c) = k
              BY <7>4
            <7> HIDE DEF Done, Bad
            <7> QED BY <7>1, <7>2, <7>3, <7>4
          <6>2. e[j] = s[i][j - cut[i - 1]] BY <3>4, <6>1
          <6> QED BY <3>4, <4>3, <5>2, <6>2
        <5> QED BY <5>1, <5>2
      <4>5. f[i] \in Seq(S) /\ Len(f[i]) = cut[i] BY <3>4, <4>3
      <4> QED BY <3>2, <4>4, <4>5
    <3> QED BY <3>5, <3>6
  <2>4. Done(Len(s))
    <3>1. Len(s) \in 1 .. Len(s) BY <1>2
    <3>2. ASSUME ~Done(Len(s)) PROVE Len(s) \in Bad BY <3>1, <3>2
    <3> QED BY <2>3, <3>2
  <2>5. f[Len(s)] = e
    <3>1. /\ f[Len(s)] \in Seq(S) /\ Len(f[Len(s)]) = Len(e)
          /\ \A j \in 1 .. Len(e) : f[Len(s)][j] = e[j]
      BY <2>4
    <3> HIDE DEF Done, Bad
    <3> QED BY <3>1, SeqEqual
  <2> QED BY <2>1, <2>5
<1> QED BY <1>1, <1>2

-----------------------------------------------------------------------------
(* The text: the plan of what is still to be keyed                           *)

Pauses == {"start", "letter", "word"}
Marks  == {"DIT_MACHINE", "DAH_MACHINE"}
Entry  == [mark : Marks \cup {"any"}, before : Pauses \cup {"none", "any"}]

\* The pause that is due after byte c, if pause is due before it.
PauseAfter(c, before) ==
  IF MarksOf(c) # <<>> THEN "letter"
  ELSE IF c = SPACE /\ before # "start" THEN "word" ELSE before

\* From the entry after number from on, the plan e is the marks of the bytes of
\* q, each byte's ending at its cut, and due[i] the pause due after i bytes.
Planned(q, e, last, from, cut, due) ==
  /\ cut \in [0 .. Len(q) -> Nat] /\ due \in [0 .. Len(q) -> Pauses]
  /\ cut[0] = from /\ cut[Len(q)] = Len(e) /\ due[Len(q)] = last
  /\ \A i, k \in 0 .. Len(q) : i <= k => cut[i] <= cut[k]
  /\ \A i \in 1 .. Len(q) :
       /\ cut[i] = cut[i - 1] + Len(MarksOf(q[i]))
       /\ due[i] = PauseAfter(q[i], due[i - 1])
       /\ \A j \in 1 .. Len(MarksOf(q[i])) :
            /\ e[cut[i - 1] + j].mark = MarksOf(q[i])[j]
            /\ e[cut[i - 1] + j].before = IF j = 1 THEN due[i - 1] ELSE "none"

\* What a byte is keyed as, and the pause due after it.
LEMMA MarksType ==
  ASSUME NEW c \in Chars
  PROVE  MarksOf(c) \in Seq(Marks) /\ Len(MarksOf(c)) \in Nat
BY TextAssumption DEF MarksOf, Marks

LEMMA PauseType ==
  ASSUME NEW c, NEW p \in Pauses
  PROVE  PauseAfter(c, p) \in Pauses
BY DEF PauseAfter, Pauses

\* The members of two sequences, one after the other.
LEMMA Joined ==
  ASSUME NEW S, NEW a \in Seq(S), NEW b \in Seq(S)
  PROVE  /\ a \o b \in Seq(S) /\ Len(a \o b) = Len(a) + Len(b)
         /\ \A i \in 1 .. Len(a) + Len(b) :
              (a \o b)[i] = IF i <= Len(a) THEN a[i] ELSE b[i - Len(a)]
BY ConcatProperties

\* Byte c is accepted, pause last being due before it: queue and plan after it.
Accepted(c, last, q, e, q2, e2) ==
  /\ Len(q2) = Len(q) + 1 /\ q2[Len(q) + 1] = c /\ \A i \in 1 .. Len(q) : q2[i] = q[i]
  /\ Len(e2) = Len(e) + Len(MarksOf(c)) /\ \A i \in 1 .. Len(e) : e2[i] = e[i]
  /\ \A j \in 1 .. Len(MarksOf(c)) :
       /\ e2[Len(e) + j].mark = MarksOf(c)[j]
       /\ e2[Len(e) + j].before = IF j = 1 THEN last ELSE "none"

\* The plan grows with the queue, and what is due first stays so.
LEMMA PlanGrows ==
  ASSUME NEW q \in Seq(Chars), NEW e, Len(e) \in Nat, NEW last, NEW from, NEW cut, NEW due,
         Planned(q, e, last, from, cut, due),
         NEW c \in Chars, NEW q2, NEW e2, Accepted(c, last, q, e, q2, e2)
  PROVE  \E cut2, due2 : /\ Planned(q2, e2, PauseAfter(c, last), from, cut2, due2)
                         /\ due2[0] = due[0]
<1> DEFINE n == Len(q)
           l == Len(MarksOf(c))
           cut2 == [i \in 0 .. n + 1 |-> IF i <= n THEN cut[i] ELSE Len(e2)]
           due2 == [i \in 0 .. n + 1 |-> IF i <= n THEN due[i] ELSE PauseAfter(c, last)]
<1>1. n \in Nat /\ l \in Nat /\ Len(e2) = Len(e) + l BY MarksType DEF Accepted
<1>2. /\ cut \in [0 .. n -> Nat] /\ due \in [0 .. n -> Pauses]
      /\ cut[0] = from /\ cut[n] = Len(e) /\ due[n] = last
      /\ \A i, k \in 0 .. n : i <= k => cut[i] <= cut[k]
      /\ \A i \in 1 .. n :
           /\ cut[i] = cut[i - 1] + Len(MarksOf(q[i]))
           /\ due[i] = PauseAfter(q[i], due[i - 1])
           /\ \A j \in 1 .. Len(MarksOf(q[i])) :
                /\ e[cut[i - 1] + j].mark = MarksOf(q[i])[j]
                /\ e[cut[i - 1] + j].before = IF j = 1 THEN due[i - 1] ELSE "none"
  BY DEF Planned
<1>3. /\ cut2[n + 1] = Len(e2) /\ \A i \in 0 .. n : cut2[i] = cut[i] /\ due2[i] = due[i]
      /\ due2[n + 1] = PauseAfter(c, last)
  BY <1>1
<1>4. cut2 \in [0 .. n + 1 -> Nat] /\ due2 \in [0 .. n + 1 -> Pauses]
  <2>1. last \in Pauses
    <3>1. n \in 0 .. n BY <1>1
    <3> QED BY <1>2, <3>1
  <2> QED BY <1>1, <1>2, <2>1, PauseType
<1> HIDE DEF n, l, cut2, due2
<1>5. ASSUME NEW i \in 0 .. n + 1, NEW k \in 0 .. n + 1, i <= k PROVE cut2[i] <= cut2[k]
  <2>1. CASE k <= n
    <3>1. i \in 0 .. n /\ k \in 0 .. n BY <1>1, <1>5, <2>1
    <3> QED BY <1>2, <1>3, <1>5, <3>1
  <2>2. CASE i <= n /\ k = n + 1
    <3>1. i \in 0 .. n /\ n \in 0 .. n /\ i <= n BY <1>1, <2>2
    <3>2. cut[i] <= cut[n] /\ cut[i] \in Nat BY <1>2, <3>1
    <3> QED BY <1>1, <1>2, <1>3, <2>2, <3>1, <3>2
  <2>3. CASE i = n + 1 /\ k = n + 1 BY <1>1, <1>3, <2>3
  <2> QED BY <1>1, <1>5, <2>1, <2>2, <2>3
<1>6. ASSUME NEW i \in 1 .. n
      PROVE  /\ cut2[i] = cut2[i - 1] + Len(MarksOf(q2[i]))
             /\ due2[i] = PauseAfter(q2[i], due2[i - 1])
             /\ \A j \in 1 .. Len(MarksOf(q2[i])) :
                  /\ e2[cut2[i - 1] + j].mark = MarksOf(q2[i])[j]
                  /\ e2[cut2[i - 1] + j].before = IF j = 1 THEN due2[i - 1] ELSE "none"
  <2>1. /\ i - 1 \in 0 .. n /\ i \in 0 .. n /\ n \in 0 .. n /\ i <= n BY <1>1
  <2>2. q2[i] = q[i] /\ q[i] \in Chars BY DEF n, Accepted
  <2>3. /\ cut2[i] = cut[i] /\ cut2[i - 1] = cut[i - 1]
        /\ due2[i] = due[i] /\ due2[i - 1] = due[i - 1]
    BY <1>3, <2>1
  <2>4. cut[i] = cut[i - 1] + Len(MarksOf(q[i])) /\ due[i] = PauseAfter(q[i], due[i - 1])
    BY <1>2
  <2>5. ASSUME NEW j \in 1 .. Len(MarksOf(q[i]))
        PROVE  /\ e2[cut[i - 1] + j].mark = MarksOf(q[i])[j]
               /\ e2[cut[i - 1] + j].before = IF j = 1 THEN due[i - 1] ELSE "none"
    <3>1. Len(MarksOf(q[i])) \in Nat BY <2>2, MarksType
    <3>2. cut[i - 1] \in Nat /\ cut[i] \in Nat /\ cut[i] <= Len(e) BY <1>2, <2>1
    <3>3. cut[i - 1] + j \in 1 .. Len(e) BY <2>4, <3>1, <3>2
    <3>4. e2[cut[i - 1] + j] = e[cut[i - 1] + j] BY <3>3 DEF Accepted
    <3>5. /\ e[cut[i - 1] + j].mark = MarksOf(q[i])[j]
          /\ e[cut[i - 1] + j].before = IF j = 1 THEN due[i - 1] ELSE "none"
      BY <1>2
    <3> QED BY <3>4, <3>5
  <2> QED BY <2>2, <2>3, <2>4, <2>5
<1>7. ASSUME NEW i \in 1 .. n + 1, i = n + 1
      PROVE  /\ cut2[i] = cut2[i - 1] + Len(MarksOf(q2[i]))
             /\ due2[i] = PauseAfter(q2[i], due2[i - 1])
             /\ \A j \in 1 .. Len(MarksOf(q2[i])) :
                  /\ e2[cut2[i - 1] + j].mark = MarksOf(q2[i])[j]
                  /\ e2[cut2[i - 1] + j].before = IF j = 1 THEN due2[i - 1] ELSE "none"
  <2>1. i - 1 = n /\ n \in 0 .. n BY <1>1, <1>7
  <2>2. q2[i] = c BY <1>7 DEF n, Accepted
  <2>3. /\ cut2[i - 1] = Len(e) /\ due2[i - 1] = last
        /\ cut2[i] = Len(e2) /\ due2[i] = PauseAfter(c, last)
    BY <1>2, <1>3, <1>7, <2>1
  <2>4. \A j \in 1 .. Len(MarksOf(c)) :
          /\ e2[Len(e) + j].mark = MarksOf(c)[j]
          /\ e2[Len(e) + j].before = IF j = 1 THEN last ELSE "none"
    BY DEF Accepted
  <2>5. Len(e2) = Len(e) + Len(MarksOf(c)) BY DEF Accepted
  <2> QED BY <2>2, <2>3, <2>4, <2>5
<1>8. Planned(q2, e2, PauseAfter(c, last), from, cut2, due2)
  <2>1. cut2[0] = from
    <3>1. 0 \in 0 .. n BY <1>1
    <3> QED BY <1>2, <1>3, <3>1
  <2>2. Len(q2) = n + 1 BY DEF n, Accepted
  <2>3. \A i \in 1 .. n + 1 : i \in 1 .. n \/ i = n + 1 BY <1>1
  <2>4. ASSUME NEW i \in 1 .. n + 1
        PROVE  /\ cut2[i] = cut2[i - 1] + Len(MarksOf(q2[i]))
               /\ due2[i] = PauseAfter(q2[i], due2[i - 1])
               /\ \A j \in 1 .. Len(MarksOf(q2[i])) :
                    /\ e2[cut2[i - 1] + j].mark = MarksOf(q2[i])[j]
                    /\ e2[cut2[i - 1] + j].before = IF j = 1 THEN due2[i - 1] ELSE "none"
    BY <1>6, <1>7, <2>3
  <2> QED BY <1>3, <1>4, <1>5, <2>1, <2>2, <2>4 DEF Planned
<1>9. due2[0] = due[0]
  <2>1. 0 \in 0 .. n BY <1>1
  <2> QED BY <1>3, <2>1
<1> QED BY <1>8, <1>9

\* A byte is fetched.
LEMMA PlanTail ==
  ASSUME NEW q \in Seq(Chars), q # <<>>, NEW e \in Seq(Entry), NEW last, NEW from \in Nat,
         NEW cut, NEW due, Planned(q, e, last, from, cut, due)
  PROVE  Planned(Tail(q), e, last, cut[1], [i \in 0 .. Len(q) - 1 |-> cut[i + 1]],
                                           [i \in 0 .. Len(q) - 1 |-> due[i + 1]])
<1> DEFINE n == Len(q) - 1
           t == Tail(q)
           cut2 == [i \in 0 .. n |-> cut[i + 1]]
           due2 == [i \in 0 .. n |-> due[i + 1]]
<1>1. /\ n \in Nat /\ Len(q) = n + 1 /\ Len(t) = n
      /\ \A i \in 1 .. n : t[i] = q[i + 1]
  <2>1. Len(q) \in Nat /\ Len(q) # 0 BY EmptySeq
  <2>2. Len(q) - 1 \in Nat BY <2>1
  <2> QED BY <2>1, <2>2, HeadTailProperties
<1>2. /\ cut \in [0 .. n + 1 -> Nat] /\ due \in [0 .. n + 1 -> Pauses]
      /\ cut[n + 1] = Len(e) /\ due[n + 1] = last
      /\ \A i, k \in 0 .. n + 1 : i <= k => cut[i] <= cut[k]
      /\ \A i \in 1 .. n + 1 :
           /\ cut[i] = cut[i - 1] + Len(MarksOf(q[i]))
           /\ due[i] = PauseAfter(q[i], due[i - 1])
           /\ \A j \in 1 .. Len(MarksOf(q[i])) :
                /\ e[cut[i - 1] + j].mark = MarksOf(q[i])[j]
                /\ e[cut[i - 1] + j].before = IF j = 1 THEN due[i - 1] ELSE "none"
  BY <1>1 DEF Planned
<1>3. \A i \in 0 .. n : i + 1 \in 0 .. n + 1 /\ cut2[i] = cut[i + 1] /\ due2[i] = due[i + 1]
  BY <1>1
<1>4. cut2 \in [0 .. n -> Nat] /\ due2 \in [0 .. n -> Pauses]
  <2>1. \A i \in 0 .. n : cut[i + 1] \in Nat /\ due[i + 1] \in Pauses BY ONLY <1>2, <1>3
  <2> QED BY ONLY <2>1
<1>5. 0 \in 0 .. n /\ n \in 0 .. n /\ 0 + 1 = 1 BY <1>1
<1> HIDE DEF n, t, cut2, due2
<1>6. ASSUME NEW i \in 0 .. n, NEW k \in 0 .. n, i <= k PROVE cut2[i] <= cut2[k]
  <2>1. i + 1 \in 0 .. n + 1 /\ k + 1 \in 0 .. n + 1 /\ i + 1 <= k + 1 BY <1>1, <1>6
  <2> QED BY <1>2, <1>3, <2>1
<1>7. ASSUME NEW i \in 1 .. n
      PROVE  /\ cut2[i] = cut2[i - 1] + Len(MarksOf(t[i]))
             /\ due2[i] = PauseAfter(t[i], due2[i - 1])
             /\ \A j \in 1 .. Len(MarksOf(t[i])) :
                  /\ e[cut2[i - 1] + j].mark = MarksOf(t[i])[j]
                  /\ e[cut2[i - 1] + j].before = IF j = 1 THEN due2[i - 1] ELSE "none"
  <2>1. /\ i - 1 \in 0 .. n /\ i \in 0 .. n /\ i + 1 \in 1 .. n + 1
        /\ (i - 1) + 1 = i /\ (i + 1) - 1 = i
    BY <1>1
  <2>2. /\ cut2[i] = cut[i + 1] /\ cut2[i - 1] = cut[i]
        /\ due2[i] = due[i + 1] /\ due2[i - 1] = due[i] /\ t[i] = q[i + 1]
    BY <1>1, <1>3, <2>1
  <2>3. /\ cut[i + 1] = cut[i] + Len(MarksOf(q[i + 1]))
        /\ due[i + 1] = PauseAfter(q[i + 1], due[i])
        /\ \A j \in 1 .. Len(MarksOf(q[i + 1])) :
             /\ e[cut[i] + j].mark = MarksOf(q[i + 1])[j]
             /\ e[cut[i] + j].before = IF j = 1 THEN due[i] ELSE "none"
    <3> DEFINE k == i + 1
    <3>1. k \in 1 .. n + 1 /\ k - 1 = i BY <2>1
    <3> HIDE DEF k
    <3>2. /\ cut[k] = cut[i] + Len(MarksOf(q[k]))
          /\ due[k] = PauseAfter(q[k], due[i])
          /\ \A j \in 1 .. Len(MarksOf(q[k])) :
               /\ e[cut[i] + j].mark = MarksOf(q[k])[j]
               /\ e[cut[i] + j].before = IF j = 1 THEN due[i] ELSE "none"
      BY <1>2, <3>1
    <3> QED BY <3>2 DEF k
  <2> QED BY <2>2, <2>3
<1>8. cut2[0] = cut[1] /\ cut2[n] = Len(e) /\ due2[n] = last BY <1>2, <1>3, <1>5
<1>9. Planned(t, e, last, cut[1], cut2, due2) BY <1>1, <1>4, <1>6, <1>7, <1>8 DEF Planned
<1> QED BY <1>9 DEF n, t, cut2, due2

\* The first entry, in front of the bytes' ones, is keyed.
LEMMA PlanDrop ==
  ASSUME NEW q \in Seq(Chars), NEW e \in Seq(Entry), e # <<>>, NEW last, NEW from \in Nat \ {0},
         NEW cut, NEW due, Planned(q, e, last, from, cut, due)
  PROVE  Planned(q, Tail(e), last, from - 1, [i \in 0 .. Len(q) |-> cut[i] - 1], due)
<1> DEFINE n == Len(q)
           t == Tail(e)
           cut2 == [i \in 0 .. n |-> cut[i] - 1]
<1>1. n \in Nat /\ 0 \in 0 .. n /\ n \in 0 .. n OBVIOUS
<1>2. /\ Len(t) = Len(e) - 1 /\ Len(e) \in Nat \ {0}
      /\ \A i \in 1 .. Len(e) - 1 : t[i] = e[i + 1]
  <2>1. Len(e) \in Nat /\ Len(e) # 0 BY EmptySeq
  <2> QED BY <2>1, HeadTailProperties
<1>3. /\ cut \in [0 .. n -> Nat] /\ due \in [0 .. n -> Pauses]
      /\ cut[0] = from /\ cut[n] = Len(e) /\ due[n] = last
      /\ \A i, k \in 0 .. n : i <= k => cut[i] <= cut[k]
      /\ \A i \in 1 .. n :
           /\ cut[i] = cut[i - 1] + Len(MarksOf(q[i]))
           /\ due[i] = PauseAfter(q[i], due[i - 1])
           /\ \A j \in 1 .. Len(MarksOf(q[i])) :
                /\ e[cut[i - 1] + j].mark = MarksOf(q[i])[j]
                /\ e[cut[i - 1] + j].before = IF j = 1 THEN due[i - 1] ELSE "none"
  BY DEF Planned
<1>4. \A i \in 0 .. n : cut2[i] = cut[i] - 1 OBVIOUS
<1> HIDE DEF cut2, t, n
<1>5. ASSUME NEW i \in 0 .. n PROVE cut[i] \in 1 .. Len(e) /\ cut2[i] \in Nat
  <2>1. 0 <= i /\ i <= n BY <1>1
  <2>2. cut[0] <= cut[i] /\ cut[i] <= cut[n] /\ cut[i] \in Nat BY <1>1, <1>3, <2>1
  <2>3. cut[i] \in 1 .. Len(e) BY <1>2, <1>3, <2>2
  <2> QED BY <1>4, <2>3
<1>6. cut2 \in [0 .. n -> Nat] BY <1>5 DEF cut2
<1>7. ASSUME NEW i \in 0 .. n, NEW k \in 0 .. n, i <= k PROVE cut2[i] <= cut2[k]
  <2>1. cut[i] <= cut[k] /\ cut[i] \in Nat /\ cut[k] \in Nat BY <1>3, <1>7
  <2> QED BY <1>4, <2>1
<1>8. ASSUME NEW i \in 1 .. n
      PROVE  /\ cut2[i] = cut2[i - 1] + Len(MarksOf(q[i]))
             /\ \A j \in 1 .. Len(MarksOf(q[i])) : t[cut2[i - 1] + j] = e[cut[i - 1] + j]
  <2>1. i - 1 \in 0 .. n /\ i \in 0 .. n BY <1>1
  <2>2. cut2[i] = cut[i] - 1 /\ cut2[i - 1] = cut[i - 1] - 1 BY <1>4, <2>1
  <2>3. cut[i] \in 1 .. Len(e) /\ cut[i - 1] \in 1 .. Len(e) BY <1>5, <2>1
  <2>4. cut[i] = cut[i - 1] + Len(MarksOf(q[i])) BY <1>3
  <2>5. Len(MarksOf(q[i])) \in Nat
    <3>1. q[i] \in Chars BY DEF n
    <3> QED BY <3>1, MarksType
  <2>6. cut2[i] = cut2[i - 1] + Len(MarksOf(q[i])) BY <1>2, <2>2, <2>3, <2>4, <2>5
  <2>7. ASSUME NEW j \in 1 .. Len(MarksOf(q[i])) PROVE t[cut2[i - 1] + j] = e[cut[i - 1] + j]
    <3>1. /\ cut2[i - 1] + j \in 1 .. Len(e) - 1
          /\ cut2[i - 1] + j + 1 = cut[i - 1] + j
      <4>1. ASSUME NEW l \in Nat, NEW m \in Nat, NEW c \in 1 .. m, c + l <= m, NEW k \in 1 .. l
            PROVE  c - 1 + k \in 1 .. m - 1 /\ c - 1 + k + 1 = c + k
        BY <4>1
      <4>2. cut[i - 1] + Len(MarksOf(q[i])) <= Len(e) BY <1>2, <2>3, <2>4
      <4>3. /\ cut[i - 1] - 1 + j \in 1 .. Len(e) - 1
            /\ cut[i - 1] - 1 + j + 1 = cut[i - 1] + j
        <5>1. Len(e) \in Nat /\ cut[i - 1] \in 1 .. Len(e) BY <1>2, <2>3
        <5> QED BY ONLY <2>5, <4>1, <4>2, <5>1
      <4> QED BY <2>2, <4>3
    <3> QED BY <1>2, <3>1
  <2> QED BY <2>6, <2>7
<1>9. cut2[0] = from - 1 /\ cut2[n] = Len(t) BY <1>1, <1>2, <1>3, <1>4
<1>10. ASSUME NEW i \in 1 .. n
       PROVE  /\ cut2[i] = cut2[i - 1] + Len(MarksOf(q[i]))
              /\ due[i] = PauseAfter(q[i], due[i - 1])
              /\ \A j \in 1 .. Len(MarksOf(q[i])) :
                   /\ t[cut2[i - 1] + j].mark = MarksOf(q[i])[j]
                   /\ t[cut2[i - 1] + j].before = IF j = 1 THEN due[i - 1] ELSE "none"
  <2>1. cut2[i] = cut2[i - 1] + Len(MarksOf(q[i])) /\ due[i] = PauseAfter(q[i], due[i - 1])
    BY <1>3, <1>8
  <2>2. ASSUME NEW j \in 1 .. Len(MarksOf(q[i]))
        PROVE  /\ t[cut2[i - 1] + j].mark = MarksOf(q[i])[j]
               /\ t[cut2[i - 1] + j].before = IF j = 1 THEN due[i - 1] ELSE "none"
    <3>1. t[cut2[i - 1] + j] = e[cut[i - 1] + j] BY <1>8
    <3>2. /\ e[cut[i - 1] + j].mark = MarksOf(q[i])[j]
          /\ e[cut[i - 1] + j].before = IF j = 1 THEN due[i - 1] ELSE "none"
      BY <1>3
    <3> QED BY <3>1, <3>2
  <2> QED BY <2>1, <2>2
<1>11. Planned(q, t, last, from - 1, cut2, due)
  BY <1>1, <1>3, <1>6, <1>7, <1>9, <1>10 DEF Planned, n
<1> QED BY <1>11 DEF n, t, cut2

\* Between two letters the plan is the marks of the bytes one after the other.
LEMMA PlanFlat ==
  ASSUME NEW q \in Seq(Chars), NEW e \in Seq(Entry), NEW last, NEW cut, NEW due,
         Planned(q, e, last, 0, cut, due)
  PROVE  [i \in 1 .. Len(e) |-> e[i].mark]
           = SeqExt!FlattenSeq([i \in 1 .. Len(q) |-> MarksOf(q[i])])
<1> DEFINE S == Marks \cup {"any"}
           m == [i \in 1 .. Len(e) |-> e[i].mark]
           s == [i \in 1 .. Len(q) |-> MarksOf(q[i])]
           n == Len(q)
<1>1. n \in Nat /\ Len(e) \in Nat /\ 0 \in 0 .. n /\ n \in 0 .. n OBVIOUS
<1>2. m \in Seq(S) /\ Len(m) = Len(e)
  <2>1. \A i \in 1 .. Len(e) : e[i] \in Entry OBVIOUS
  <2>2. \A i \in 1 .. Len(e) : e[i].mark \in S BY <2>1 DEF Entry
  <2> QED BY <1>1, <2>2
<1>3. s \in Seq(Seq(S)) /\ Len(s) = n /\ \A i \in 1 .. n : s[i] = MarksOf(q[i])
  <2>1. ASSUME NEW i \in 1 .. n PROVE MarksOf(q[i]) \in Seq(S)
    <3>1. q[i] \in Chars OBVIOUS
    <3>2. MarksOf(q[i]) \in Seq(Marks) BY <3>1, MarksType
    <3> QED BY <3>2
  <2> HIDE DEF S
  <2> QED BY <1>1, <2>1
<1>4. /\ cut \in [0 .. n -> Nat] /\ cut[0] = 0 /\ cut[n] = Len(e)
      /\ \A i, k \in 0 .. n : i <= k => cut[i] <= cut[k]
      /\ \A i \in 1 .. n :
           /\ cut[i] = cut[i - 1] + Len(MarksOf(q[i]))
           /\ \A j \in 1 .. Len(MarksOf(q[i])) : e[cut[i - 1] + j].mark = MarksOf(q[i])[j]
  BY DEF Planned
<1>5. \A i \in 1 .. Len(e) : m[i] = e[i].mark OBVIOUS
<1> HIDE DEF S, m, s, n
<1>6. ASSUME NEW i \in 0 .. n PROVE cut[i] \in 0 .. Len(e)
  <2>1. cut[i] <= cut[n] /\ cut[i] \in Nat BY <1>1, <1>4
  <2> QED BY <1>1, <1>4, <2>1
<1>7. cut \in [0 .. n -> 0 .. Len(e)] BY <1>4, <1>6
<1>8. ASSUME NEW i \in 1 .. n
      PROVE  /\ cut[i] = cut[i - 1] + Len(s[i])
             /\ \A j \in 1 .. Len(s[i]) : m[cut[i - 1] + j] = s[i][j]
  <2>1. s[i] = MarksOf(q[i]) /\ i - 1 \in 0 .. n /\ i \in 0 .. n BY <1>1, <1>3
  <2>2. cut[i] = cut[i - 1] + Len(s[i]) BY <1>4, <2>1
  <2>3. Len(s[i]) \in Nat
    <3>1. q[i] \in Chars BY DEF n
    <3> QED BY <2>1, <3>1, MarksType
  <2>4. ASSUME NEW j \in 1 .. Len(s[i]) PROVE m[cut[i - 1] + j] = s[i][j]
    <3>1. cut[i] \in 0 .. Len(e) /\ cut[i - 1] \in 0 .. Len(e) BY <1>6, <2>1
    <3>2. cut[i - 1] + j \in 1 .. Len(e) BY <1>1, <2>2, <2>3, <3>1
    <3>3. e[cut[i - 1] + j].mark = MarksOf(q[i])[j] BY <1>4, <2>1
    <3> QED BY <1>5, <2>1, <3>2, <3>3
  <2> QED BY <2>2, <2>4
<1>9. /\ Len(s) \in Nat /\ cut \in [0 .. Len(s) -> 0 .. Len(m)]
      /\ cut[0] = 0 /\ cut[Len(s)] = Len(m) /\ s \in Seq(Seq(S)) /\ m \in Seq(S)
      /\ \A i \in 1 .. Len(s) :
           /\ cut[i] = cut[i - 1] + Len(s[i])
           /\ \A j \in 1 .. Len(s[i]) : m[cut[i - 1] + j] = s[i][j]
  BY <1>1, <1>2, <1>3, <1>4, <1>7, <1>8
<1>10. SeqExt!FlattenSeq(s) = m BY <1>9, FlattenByCuts
<1> QED BY <1>10 DEF m, s

\* The bytes' entries are within the plan.
LEMMA PlanFits ==
  ASSUME NEW q \in Seq(Chars), NEW e, NEW last, NEW from, NEW cut, NEW due,
         Planned(q, e, last, from, cut, due)
  PROVE  from <= Len(e)
<1>1. 0 \in 0 .. Len(q) /\ Len(q) \in 0 .. Len(q) /\ 0 <= Len(q) OBVIOUS
<1> QED BY <1>1 DEF Planned

-----------------------------------------------------------------------------
(* The text: the inductive invariant                                         *)

\* The states of a mark and of the gap after it.
Marking == {"DIT_HIGH_MACHINE", "DAH_HIGH_MACHINE"}
Closing == {"DIT_LOW_MACHINE", "DAH_LOW_MACHINE"}

\* A mark of the text is being keyed, and which; a mark that a break-in has
\* interrupted is resumed with the key up.
Sounding == FSM_State \in Marking \/ (FSM_State \in Closing /\ high > 0)
Ours == IF FSM_State \in {"DIT_HIGH_MACHINE", "DIT_LOW_MACHINE"} THEN "DIT_MACHINE"
                                                                 ELSE "DAH_MACHINE"

\* The marks of the letter in FSM_Queue that have begun and that are left.
Begun     == IF Sounding THEN 1 ELSE 0
MarksLeft == IF FSM_Queue = <<>> THEN 0 ELSE Len(FSM_Queue) - 1

\* The plan has its type, and the key is not up and down at once.
PlanType == /\ expected \in Seq(Entry) /\ pause \in Pauses
            /\ high > 0 => low = 0

\* The key is down in the text's mark only, and that one is the next of the plan.
SoundInv ==
  /\ high > 0 => Sounding
  /\ Sounding => /\ expected # <<>>
                 /\ \/ Head(expected).mark = "any" /\ Head(expected).before = "any"
                    \/ Head(expected).mark = Ours /\ high > 0

\* The rest of the letter in the queue is next in the plan.
LetterInv ==
  FSM_Queue # <<>> =>
    /\ FSM_Queue[Len(FSM_Queue)] = "LETTERPAUSE_MACHINE"
    /\ \A j \in 1 .. MarksLeft : /\ FSM_Queue[j] \in Marks
                                 /\ expected[Begun + j].mark = FSM_Queue[j]
                                 /\ expected[Begun + j].before = "none"
    /\ FSM_State \notin {"PAUSE_LETTERS", "DO_SPACE_MACHINE"}

\* What has passed of the pause due and what is certain to come of it.
Quiet(due) ==
  /\ due = "letter" =>
       /\ Sounding => FSM_Queue # <<>> /\ FSM_ParameterB + 1 >= DitTicks
       /\ FSM_State \in Closing /\ high = 0 =>
            FSM_Queue # <<>> /\ (low + FSM_ParameterB + 1 >= DitTicks \/ low = MaxRun)
       /\ FSM_State = "IDLE" =>
            low >= DitTicks /\ (FSM_Queue = <<>> => low > 2 * DitTicks)
       /\ FSM_State = "PAUSE_LETTERS" =>
            FSM_Queue = <<>> /\ (low + FSM_ParameterB > 2 * DitTicks \/ low = MaxRun)
       /\ FSM_State # "DO_SPACE_MACHINE"
  /\ due = "word" =>
       /\ FSM_State \in {"IDLE", "PAUSE_LETTERS", "DO_SPACE_MACHINE"} /\ FSM_Queue = <<>>
       /\ IF FSM_State = "DO_SPACE_MACHINE"
          THEN low + FSM_ParameterB > 2 * DitTicks + SpaceTicks \/ low = MaxRun
          ELSE low > 2 * DitTicks + SpaceTicks

\* Behind the letter in the queue, the plan is the bytes in AsciiQueue.
LayoutInv ==
  \E cut, due : /\ Planned(AsciiQueue, expected, pause, Begun + MarksLeft, cut, due)
                /\ Quiet(due[0])

\* Inside a letter the gap is no longer than a dit and a tick.
CloseInv ==
  FSM_Queue # <<>> =>
    /\ FSM_State \in Marking => FSM_ParameterB <= DitTicks
    /\ FSM_State \in Closing => low + FSM_ParameterB <= DitTicks
    /\ FSM_State = "IDLE" => low <= DitTicks + 1

\* How long the mark has been keyed and how long it still will be.
LenInv ==
  DitTicks > 0 /\ Sounding /\ Head(expected).mark # "any" =>
    /\ FSM_State = "DIT_HIGH_MACHINE" => high + FSM_ParameterA <= DitTicks
    /\ FSM_State = "DIT_LOW_MACHINE"  => high <= DitTicks + 1
    /\ FSM_State = "DAH_HIGH_MACHINE" => high + FSM_ParameterA > DahTicks \/ high = MaxRun
    /\ FSM_State = "DAH_LOW_MACHINE"  => high > DahTicks + 1 \/ high = MaxRun

\* Together: the invariant of the text, which the operator's mode suspends.
PlanInv ==
  /\ PlanType
  /\ FSM_Mode = "FSM_Automacit" =>
       SoundInv /\ LetterInv /\ LayoutInv /\ CloseInv /\ LenInv

\* A tick in which the text is keyed.
TextTicks == LineInv /\ HandInv /\ PlanInv /\ ObserveTick /\ AutomaticTick
             /\ FSM_Mode = "FSM_Automacit"

\* What each of the text's steps starts from, and what every tick of it does.
LEMMA TextTickFacts ==
  ASSUME TextTicks
  PROVE  /\ PlanType /\ SoundInv /\ LetterInv /\ LayoutInv /\ CloseInv /\ LenInv
         /\ FSM_State \in MachineStates /\ FSM_Queue \in Seq(Elements)
         /\ AsciiQueue \in Seq(Chars)
         /\ FSM_ParameterA \in Nat /\ FSM_ParameterB \in Nat
         /\ high \in 0 .. MaxRun /\ low \in 0 .. MaxRun /\ MaxRun \in Nat
         /\ DitTicks \in Nat /\ DahTicks \in Nat /\ SpaceTicks \in Nat
         /\ DitTicks < MaxRun /\ DahTicks < MaxRun /\ 2 * DitTicks + SpaceTicks < MaxRun
         /\ DitTicks' = DitTicks /\ DahTicks' = DahTicks /\ SpaceTicks' = SpaceTicks
         /\ Key' = "LOW" => /\ high' = 0 /\ low' \in 1 .. MaxRun
                            /\ low' = low + 1 \/ (low' = MaxRun /\ low = MaxRun)
         /\ Key' = "HIGH" => /\ low' = 0 /\ high' \in 1 .. MaxRun
                             /\ high' = high + 1 \/ (high' = MaxRun /\ high = MaxRun)
         /\ Key' \in {"HIGH", "LOW"}
         /\ pause' = pause /\ FSM_Mode' = "FSM_Automacit"
         /\ expected' = IF high > 0 /\ Key' = "LOW" THEN Tail(expected) ELSE expected
<1>1. /\ PlanType /\ SoundInv /\ LetterInv /\ LayoutInv /\ CloseInv /\ LenInv
  BY DEF TextTicks, PlanInv
<1>2. /\ TypeOK /\ LineType BY DEF TextTicks, LineInv, IInv
<1>3. /\ FSM_State \in MachineStates /\ FSM_Queue \in Seq(Elements) /\ AsciiQueue \in Seq(Chars)
      /\ FSM_ParameterA \in Nat /\ FSM_ParameterB \in Nat
      /\ high \in 0 .. MaxRun /\ low \in 0 .. MaxRun /\ MaxRun \in Nat
  BY <1>2, ObserverAssumption DEF TypeOK, SendType, TextType, TimeType, LineType
<1>4. /\ DitTicks \in Nat /\ DahTicks \in Nat /\ SpaceTicks \in Nat
      /\ DitTicks < MaxRun /\ DahTicks < MaxRun /\ 2 * DitTicks + SpaceTicks < MaxRun
  BY <1>2, TimesCounted
<1>5. LineInv /\ ObserveTick BY DEF TextTicks
<1>6. /\ DitTicks' = DitTicks /\ DahTicks' = DahTicks /\ SpaceTicks' = SpaceTicks
      /\ Key' = "LOW" => /\ high' = 0 /\ low' \in 1 .. MaxRun
                         /\ low' = low + 1 \/ (low' = MaxRun /\ low = MaxRun)
      /\ Key' = "HIGH" => /\ low' = 0 /\ high' \in 1 .. MaxRun
                          /\ high' = high + 1 \/ (high' = MaxRun /\ high = MaxRun)
  BY <1>5, TickCounts
<1>7. Key' \in {"HIGH", "LOW"}
  <2>1. LineInv' BY <1>5, LineInvStep DEF LineNext
  <2> QED BY <2>1 DEF LineInv, IInv, TypeOK
<1>8. FSM_Mode' = "FSM_Automacit" BY DEF TextTicks, AutomaticTick
<1>9. ~ModeBack /\ TextTick BY <1>8 DEF TextTicks, ModeBack, TextTick
<1>10. pause' = pause BY <1>9 DEF TextTicks, ObserveTick
<1>11. expected' = IF high > 0 /\ Key' = "LOW" THEN Tail(expected) ELSE expected
  <2>1. KeyUp <=> high > 0 /\ Key' = "LOW" BY <1>3, <1>6, <1>7 DEF KeyUp
  <2>2. KeyUp => expected # <<>> BY <1>1 DEF KeyUp, SoundInv
  <2>3. /\ TextTick /\ KeyUp /\ expected # <<>> => expected' = Tail(expected)
        /\ ~(TextTick /\ KeyUp /\ expected # <<>>) => expected' = expected
    BY <1>9 DEF TextTicks, ObserveTick
  <2> QED BY <1>9, <2>1, <2>2, <2>3
<1> QED BY <1>1, <1>3, <1>4, <1>6, <1>7, <1>8, <1>10, <1>11

\* Nothing is left to key.
LEMMA TextRests ==
  ASSUME TextTicks, AutomaticIdle, ToKey = <<>>
  PROVE  SoundInv' /\ LetterInv' /\ LayoutInv' /\ CloseInv' /\ LenInv'
<1> USE TextTickFacts
<1>1. FSM_State = "IDLE" /\ ~Sounding /\ high = 0
  <2>1. FSM_State = "IDLE" /\ ~Sounding BY DEF AutomaticIdle, Sounding, Marking, Closing
  <2> QED BY <2>1 DEF SoundInv
<1>2. Refills => Looked(Head(AsciiQueue)) # <<>>
  <2> SUFFICES ASSUME Refills PROVE Looked(Head(AsciiQueue)) # <<>> OBVIOUS
  <2>1. Head(AsciiQueue) \in Chars BY DEF Refills
  <2> QED BY <2>1, LookedType
<1>3. FSM_Queue = <<>> /\ ~Refills BY <1>2 DEF ToKey
<1>4. /\ AsciiQueue' = AsciiQueue /\ FSM_Queue' = <<>> /\ Key' = "LOW" /\ FSM_State' = "IDLE"
      /\ FSM_ParameterB' = FSM_ParameterB
  BY <1>1, <1>3 DEF AutomaticIdle, timeVars
<1>5. expected' = expected /\ high' = 0 BY <1>1, <1>4
<1>6. ~Sounding' /\ Begun' = Begun /\ MarksLeft' = MarksLeft
  BY <1>1, <1>3, <1>4 DEF Sounding, Begun, MarksLeft, Marking, Closing
<1>7. PICK cut, due : /\ Planned(AsciiQueue, expected, pause, Begun + MarksLeft, cut, due)
                      /\ Quiet(due[0])
  BY DEF LayoutInv
<1>8. Quiet(due[0])'
  BY <1>1, <1>3, <1>4, <1>6, <1>7 DEF Quiet, Closing
<1>9. LayoutInv' BY <1>4, <1>5, <1>6, <1>7, <1>8 DEF LayoutInv
<1> QED BY <1>4, <1>5, <1>6, <1>9 DEF SoundInv, LetterInv, CloseInv, LenInv

\* What holds once a mark that is next in the plan has started.
LEMMA MarkStarts ==
  ASSUME TextTicks, FSM_State = "IDLE", NEW mark \in Marks, StartElement(mark),
         expected # <<>>, Head(expected).mark = mark
  PROVE  /\ Sounding' /\ SoundInv' /\ LenInv' /\ expected' = expected
         /\ FSM_State' \in Marking \cup Closing /\ high' > 0 /\ low' = 0
         /\ FSM_ParameterB' \in Nat
         /\ FSM_ParameterB' + 1 >= DitTicks /\ FSM_ParameterB' <= DitTicks
<1> USE TextTickFacts
<1>1. high = 0 BY DEF SoundInv, Sounding, Marking, Closing
<1>2. CASE mark = "DIT_MACHINE"
  <2>1. /\ Key' = "HIGH" /\ FSM_ParameterB' = DitTicks
        /\ IF DitTicks = 0 THEN FSM_State' = "DIT_LOW_MACHINE" /\ FSM_ParameterA' = 0
           ELSE FSM_State' = "DIT_HIGH_MACHINE" /\ FSM_ParameterA' = DitTicks - 1
    BY <1>2 DEF StartElement
  <2>2. high' = 1 /\ low' = 0 /\ expected' = expected BY <1>1, <2>1
  <2>3. Sounding' /\ Ours' = mark
    <3>1. FSM_State' \in {"DIT_LOW_MACHINE", "DIT_HIGH_MACHINE"} BY <2>1
    <3> QED BY <1>2, <2>2, <3>1 DEF Sounding, Marking, Closing, Ours
  <2>4. SoundInv' BY <2>2, <2>3 DEF SoundInv
  <2>5. LenInv'
    <3> SUFFICES ASSUME DitTicks > 0 PROVE LenInv' BY DEF LenInv
    <3>1. FSM_State' = "DIT_HIGH_MACHINE" /\ FSM_ParameterA' = DitTicks - 1 BY <2>1
    <3>2. high' + FSM_ParameterA' = DitTicks BY <2>2, <3>1
    <3> QED BY <3>1, <3>2 DEF LenInv
  <2> QED BY <2>1, <2>2, <2>3, <2>4, <2>5 DEF Marking, Closing
<1>3. CASE mark = "DAH_MACHINE"
  <2>1. /\ Key' = "HIGH" /\ FSM_ParameterA' = DahTicks
        /\ IF DitTicks = 0 THEN FSM_State' = "DAH_LOW_MACHINE" /\ FSM_ParameterB' = 0
           ELSE FSM_State' = "DAH_HIGH_MACHINE" /\ FSM_ParameterB' = DitTicks - 1
    BY <1>3 DEF StartElement
  <2>2. high' = 1 /\ low' = 0 /\ expected' = expected BY <1>1, <2>1
  <2>3. Sounding' /\ Ours' = mark
    <3>1. FSM_State' \in {"DAH_LOW_MACHINE", "DAH_HIGH_MACHINE"} BY <2>1
    <3>2. high' > 0 BY <2>2
    <3>3. FSM_State' \in Marking \cup Closing BY <3>1 DEF Marking, Closing
    <3>4. Ours' = mark BY ONLY <1>3, <3>1 DEF Ours
    <3> QED BY ONLY <3>1, <3>2, <3>3, <3>4 DEF Sounding, Marking, Closing
  <2>4. SoundInv' BY <2>2, <2>3 DEF SoundInv
  <2>5. LenInv'
    <3> SUFFICES ASSUME DitTicks > 0 PROVE LenInv' BY DEF LenInv
    <3>1. FSM_State' = "DAH_HIGH_MACHINE" /\ FSM_ParameterA' = DahTicks BY <2>1
    <3>2. high' + FSM_ParameterA' = DahTicks + 1 BY <2>2, <3>1
    <3> QED BY <3>1, <3>2 DEF LenInv
  <2>6. FSM_State' \in Marking \cup Closing BY <2>1 DEF Marking, Closing
  <2>7. FSM_ParameterB' \in Nat /\ FSM_ParameterB' + 1 >= DitTicks
        /\ FSM_ParameterB' <= DitTicks
    <3>1. DitTicks \in Nat OBVIOUS
    <3>2. FSM_ParameterB' = IF DitTicks = 0 THEN 0 ELSE DitTicks - 1 BY <2>1
    <3> QED BY ONLY <3>1, <3>2
  <2> QED BY <2>2, <2>3, <2>4, <2>5, <2>6, <2>7
<1> QED BY <1>2, <1>3 DEF Marks

\* The numbers that the text's steps compute with.
Numbers ==
  /\ FSM_ParameterA \in Nat /\ FSM_ParameterB \in Nat
  /\ high \in 0 .. MaxRun /\ low \in 0 .. MaxRun /\ MaxRun \in Nat
  /\ DitTicks \in Nat /\ DahTicks \in Nat /\ SpaceTicks \in Nat
  /\ DitTicks < MaxRun /\ DahTicks < MaxRun /\ 2 * DitTicks + SpaceTicks < MaxRun
  /\ DitTicks' = DitTicks /\ DahTicks' = DahTicks /\ SpaceTicks' = SpaceTicks

\* A pause that is over stays over; a dit's pause after a dit's is two.
LEMMA Waited ==
  ASSUME NEW run \in Nat, NEW left \in Nat, NEW bound \in Nat
  PROVE  /\ run > bound => run + left > bound
         /\ run >= left => run + 1 + left > 2 * left
OBVIOUS

\* A letter goes on with its next mark or ends.
LEMMA TextLetter ==
  ASSUME TextTicks, AutomaticIdle, FSM_Queue # <<>>
  PROVE  SoundInv' /\ LetterInv' /\ LayoutInv' /\ CloseInv' /\ LenInv'
<1> USE TextTickFacts
<1>n. Numbers BY DEF Numbers
<1>1. FSM_State = "IDLE" /\ ~Sounding /\ high = 0 /\ Begun = 0
  <2>1. FSM_State = "IDLE" /\ ~Sounding BY DEF AutomaticIdle, Sounding, Marking, Closing
  <2> QED BY <2>1 DEF SoundInv, Begun
<1> DEFINE k == Len(FSM_Queue)
<1>2. k \in Nat \ {0} /\ MarksLeft = k - 1
  <2>1. Len(FSM_Queue) \in Nat /\ Len(FSM_Queue) # 0 BY EmptySeq
  <2> QED BY <2>1 DEF MarksLeft
<1>3. /\ AsciiQueue' = AsciiQueue /\ FSM_Queue' = Tail(FSM_Queue)
      /\ StartElement(Head(FSM_Queue))
  BY DEF AutomaticIdle, ToKey, Refills
<1>4. Head(FSM_Queue) = FSM_Queue[1] OBVIOUS
<1>5. Len(FSM_Queue') = k - 1 /\ \A i \in 1 .. k - 1 : FSM_Queue'[i] = FSM_Queue[i + 1]
  BY <1>2, <1>3, HeadTailProperties
<1>6. /\ FSM_Queue[k] = "LETTERPAUSE_MACHINE"
      /\ \A j \in 1 .. k - 1 : /\ FSM_Queue[j] \in Marks
                               /\ expected[0 + j].mark = FSM_Queue[j]
                               /\ expected[0 + j].before = "none"
  BY <1>1, <1>2 DEF LetterInv
<1>7. PICK cut, due : /\ Planned(AsciiQueue, expected, pause, k - 1, cut, due)
                      /\ Quiet(due[0])
  BY <1>1, <1>2 DEF LayoutInv
<1> HIDE DEF k
<1>8. due[0] # "word" BY <1>7 DEF Quiet
<1>9. CASE k = 1
  <2>1. Head(FSM_Queue) = "LETTERPAUSE_MACHINE" BY <1>4, <1>6, <1>9
  <2>2. /\ Key' = "LOW" /\ FSM_State' = "PAUSE_LETTERS" /\ FSM_ParameterB' = DitTicks
    BY <1>3, <2>1 DEF StartElement
  <2>3. FSM_Queue' = <<>>
    <3>1. FSM_Queue' \in Seq(Elements) /\ Len(FSM_Queue') = 0 BY <1>3, <1>5, <1>9
    <3> QED BY <3>1, EmptySeq
  <2>4. /\ expected' = expected /\ high' = 0 /\ low' \in 1 .. MaxRun
        /\ low' = low + 1 \/ low' = MaxRun
    BY <1>1, <2>2
  <2>5. ~Sounding' /\ Begun' + MarksLeft' = k - 1
    BY <1>9, <2>2, <2>3 DEF Sounding, Begun, MarksLeft, Marking, Closing
  <2>6. Quiet(due[0])'
    <3>1. due[0] = "letter" => low >= DitTicks BY <1>1, <1>7 DEF Quiet
    <3>2. due[0] = "letter" => low' + FSM_ParameterB' > 2 * DitTicks' \/ low' = MaxRun
      <4>1. due[0] = "letter" => low' + FSM_ParameterB' > 2 * DitTicks \/ low' = MaxRun
        <5>1. low \in Nat /\ DitTicks \in Nat BY ONLY <1>n DEF Numbers
        <5>2. low >= DitTicks => low + 1 + DitTicks > 2 * DitTicks BY ONLY <5>1, Waited
        <5> QED BY ONLY <2>2, <2>4, <3>1, <5>2
      <4>2. DitTicks' = DitTicks BY ONLY <1>n DEF Numbers
      <4> QED BY ONLY <4>1, <4>2
    <3>3. FSM_State' \notin Closing BY ONLY <2>2 DEF Closing
    <3> QED BY ONLY <1>8, <2>2, <2>3, <2>5, <3>2, <3>3 DEF Quiet
  <2>7. LayoutInv' BY <1>3, <1>7, <2>4, <2>5, <2>6 DEF LayoutInv
  <2> QED BY <2>3, <2>4, <2>5, <2>7 DEF SoundInv, LetterInv, CloseInv, LenInv
<1>10. CASE k # 1
  <2>1. k - 2 \in Nat /\ 1 \in 1 .. k - 1 /\ 0 + 1 = 1 BY <1>2, <1>10
  <2>2. Head(FSM_Queue) \in Marks /\ expected[1].mark = Head(FSM_Queue)
    BY <1>4, <1>6, <2>1
  <2>3. expected # <<>> /\ Head(expected) = expected[1]
    <3>1. k - 1 <= Len(expected)
      <4>1. AsciiQueue \in Seq(Chars) OBVIOUS
      <4> QED BY <1>7, <4>1, PlanFits
    <3>2. expected \in Seq(Entry) BY DEF PlanType
    <3>3. k \in Nat /\ Len(expected) \in Nat BY <1>2, <3>2
    <3>4. Len(expected) # 0 BY <2>1, <3>1, <3>3
    <3> QED BY <3>2, <3>4
  <2>4. /\ Sounding' /\ SoundInv' /\ LenInv' /\ expected' = expected
        /\ FSM_State' \in Marking \cup Closing /\ high' > 0 /\ low' = 0
        /\ FSM_ParameterB' \in Nat
        /\ FSM_ParameterB' + 1 >= DitTicks /\ FSM_ParameterB' <= DitTicks
    BY <1>1, <1>3, <2>2, <2>3, MarkStarts
  <2>5. FSM_Queue' # <<>> /\ Len(FSM_Queue') \in Nat BY <1>2, <1>5, <1>10
  <2>6. Begun' = 1 /\ MarksLeft' = k - 2 BY <1>2, <1>5, <2>1, <2>4, <2>5 DEF Begun, MarksLeft
  <2>7. FSM_State' \notin {"IDLE", "PAUSE_LETTERS", "DO_SPACE_MACHINE"}
    BY <2>4 DEF Marking, Closing
  <2>8. Quiet(due[0])'
    <3>1. DitTicks' = DitTicks OBVIOUS
    <3>2. Sounding' => FSM_Queue' # <<>> /\ FSM_ParameterB' + 1 >= DitTicks'
      BY <2>4, <2>5, <3>1
    <3>3. ~(high' = 0) BY <2>4
    <3> QED BY ONLY <1>8, <2>7, <3>2, <3>3 DEF Quiet
  <2>9. Begun' + MarksLeft' = k - 1 BY <1>2, <2>6
  <2>10. LayoutInv' BY <1>3, <1>7, <2>4, <2>8, <2>9 DEF LayoutInv
  <2>11. FSM_Queue'[Len(FSM_Queue')] = "LETTERPAUSE_MACHINE"
    <3>1. k - 1 \in 1 .. k - 1 /\ k - 1 + 1 = k BY <1>2, <2>1
    <3> QED BY <1>5, <1>6, <3>1
  <2>12. ASSUME NEW j \in 1 .. k - 2
         PROVE  /\ FSM_Queue'[j] \in Marks /\ expected'[1 + j].mark = FSM_Queue'[j]
                /\ expected'[1 + j].before = "none"
    <3>1. j \in 1 .. k - 1 /\ j + 1 \in 1 .. k - 1 /\ 0 + (j + 1) = 1 + j BY <1>2, <2>1
    <3>2. FSM_Queue'[j] = FSM_Queue[j + 1] BY <1>5, <3>1
    <3>3. /\ FSM_Queue[j + 1] \in Marks /\ expected[0 + (j + 1)].mark = FSM_Queue[j + 1]
          /\ expected[0 + (j + 1)].before = "none"
      BY <1>6, <3>1
    <3> QED BY <2>4, <3>1, <3>2, <3>3
  <2>13. LetterInv' BY <2>6, <2>7, <2>11, <2>12 DEF LetterInv
  <2>14. CloseInv' BY <2>4, <2>7 DEF CloseInv
  <2> QED BY <2>4, <2>10, <2>13, <2>14
<1> QED BY <1>9, <1>10

\* A byte without marks is keyed as its pause alone.
LEMMA LookedUnmarked ==
  ASSUME NEW c, MarksOf(c) = <<>>
  PROVE  Looked(c) = <<IF c = SPACE THEN "SPACE_MACHINE" ELSE "LETTERPAUSE_MACHINE">>
<1>1. c # SPACE => Looked(c) = Append(<<>>, "LETTERPAUSE_MACHINE") BY DEF Looked, MarksOf
<1> QED BY <1>1 DEF Looked

\* The next byte is fetched.
LEMMA TextRefills ==
  ASSUME TextTicks, AutomaticIdle, Refills
  PROVE  SoundInv' /\ LetterInv' /\ LayoutInv' /\ CloseInv' /\ LenInv'
<1> USE TextTickFacts
<1>n. Numbers BY DEF Numbers
<1>1. FSM_State = "IDLE" /\ ~Sounding /\ high = 0 /\ Begun = 0
  <2>1. FSM_State = "IDLE" /\ ~Sounding BY DEF AutomaticIdle, Sounding, Marking, Closing
  <2> QED BY <2>1 DEF SoundInv, Begun
<1>0. PICK c : c = Head(AsciiQueue) OBVIOUS
<1>2. /\ FSM_Queue = <<>> /\ AsciiQueue # <<>> /\ MarksLeft = 0
      /\ c \in Chars /\ c = AsciiQueue[1] /\ 1 \in 1 .. Len(AsciiQueue)
  <2>1. AsciiQueue # <<>> /\ AsciiQueue \in Seq(Chars) BY DEF Refills
  <2>2. Len(AsciiQueue) \in Nat /\ Len(AsciiQueue) # 0 BY <2>1, EmptySeq
  <2>3. 1 \in 1 .. Len(AsciiQueue) BY <2>2
  <2> QED BY <1>0, <2>1, <2>3 DEF Refills, MarksLeft
<1>3. Looked(c) \in Seq(Elements) /\ Looked(c) # <<>>
  <2>1. c \in Chars BY <1>2
  <2> QED BY ONLY <2>1, LookedType
<1>4. /\ AsciiQueue' = Tail(AsciiQueue) /\ FSM_Queue' = Tail(Looked(c))
      /\ StartElement(Head(Looked(c)))
  BY <1>0, <1>1, <1>3 DEF AutomaticIdle, ToKey
<1>5. PICK cut, due : /\ Planned(AsciiQueue, expected, pause, 0, cut, due)
                      /\ Quiet(due[0])
  BY <1>1, <1>2 DEF LayoutInv
<1> DEFINE l == Len(MarksOf(c))
<1>6. l \in Nat /\ MarksOf(c) \in Seq(Marks) BY <1>2, MarksType
<1>7. /\ cut[0] = 0 /\ cut[1] = l /\ due[1] = PauseAfter(c, due[0])
      /\ \A j \in 1 .. l : /\ expected[0 + j].mark = MarksOf(c)[j]
                           /\ expected[0 + j].before = IF j = 1 THEN due[0] ELSE "none"
      /\ due[0] \in Pauses
  <2>1. ASSUME NEW i \in 1 .. Len(AsciiQueue), i = 1
        PROVE  /\ cut[i] = cut[0] + l /\ due[i] = PauseAfter(c, due[0])
               /\ \A j \in 1 .. l : /\ expected[cut[0] + j].mark = MarksOf(c)[j]
                                    /\ expected[cut[0] + j].before
                                         = IF j = 1 THEN due[0] ELSE "none"
    <3>1. i - 1 = 0 /\ AsciiQueue[i] = c BY <1>2, <2>1
    <3>2. /\ cut[i] = cut[i - 1] + Len(MarksOf(AsciiQueue[i]))
          /\ due[i] = PauseAfter(AsciiQueue[i], due[i - 1])
          /\ \A j \in 1 .. Len(MarksOf(AsciiQueue[i])) :
               /\ expected[cut[i - 1] + j].mark = MarksOf(AsciiQueue[i])[j]
               /\ expected[cut[i - 1] + j].before = IF j = 1 THEN due[i - 1] ELSE "none"
      BY <1>5 DEF Planned
    <3> QED BY <3>1, <3>2
  <2>2. cut[0] = 0 /\ due[0] \in Pauses
    <3>1. 0 \in 0 .. Len(AsciiQueue) BY <1>2
    <3> QED BY <1>5, <3>1 DEF Planned
  <2>3. /\ cut[1] = cut[0] + l /\ due[1] = PauseAfter(c, due[0])
        /\ \A j \in 1 .. l : /\ expected[cut[0] + j].mark = MarksOf(c)[j]
                             /\ expected[cut[0] + j].before
                                  = IF j = 1 THEN due[0] ELSE "none"
    BY <1>2, <2>1
  <2> HIDE DEF l
  <2> QED BY <1>6, <2>2, <2>3
<1> DEFINE cut2 == [i \in 0 .. Len(AsciiQueue) - 1 |-> cut[i + 1]]
           due2 == [i \in 0 .. Len(AsciiQueue) - 1 |-> due[i + 1]]
<1>8. /\ Planned(AsciiQueue', expected, pause, l, cut2, due2)
      /\ due2[0] = PauseAfter(c, due[0])
  <2>1. expected \in Seq(Entry) BY DEF PlanType
  <2>2. Planned(AsciiQueue', expected, pause, cut[1], cut2, due2)
    <3>1. AsciiQueue \in Seq(Chars) /\ AsciiQueue # <<>> /\ 0 \in Nat BY <1>2
    <3>2. Planned(Tail(AsciiQueue), expected, pause, cut[1], cut2, due2)
      BY <1>5, <2>1, <3>1, PlanTail
    <3> HIDE DEF cut2, due2, l
    <3> QED BY <1>4, <3>2
  <2>3. 0 \in 0 .. Len(AsciiQueue) - 1 BY <1>2
  <2> QED BY <1>7, <2>2, <2>3
<1> HIDE DEF l, cut2, due2
<1>9. ASSUME expected' = expected, Begun' + MarksLeft' = l, Quiet(PauseAfter(c, due[0]))'
      PROVE  LayoutInv'
  BY <1>8, <1>9 DEF LayoutInv
<1>10. CASE MarksOf(c) = <<>>
  <2>1. l = 0 BY <1>10 DEF l
  <2>2. \/ c = SPACE /\ Looked(c) = <<"SPACE_MACHINE">>
        \/ c # SPACE /\ Looked(c) = <<"LETTERPAUSE_MACHINE">>
    BY <1>10, LookedUnmarked
  <2>3. FSM_Queue' = <<>> /\ Key' = "LOW"
    <3>1. CASE Looked(c) = <<"SPACE_MACHINE">>
      <4>1. Head(Looked(c)) = "SPACE_MACHINE" /\ Tail(Looked(c)) = <<>> BY <3>1
      <4> QED BY <1>4, <4>1 DEF StartElement
    <3>2. CASE Looked(c) = <<"LETTERPAUSE_MACHINE">>
      <4>1. Head(Looked(c)) = "LETTERPAUSE_MACHINE" /\ Tail(Looked(c)) = <<>> BY <3>2
      <4> QED BY <1>4, <4>1 DEF StartElement
    <3> QED BY <2>2, <3>1, <3>2
  <2>4. \/ /\ c = SPACE /\ FSM_State' = "DO_SPACE_MACHINE" /\ FSM_ParameterB' = SpaceTicks
        \/ /\ c # SPACE /\ FSM_State' = "PAUSE_LETTERS" /\ FSM_ParameterB' = DitTicks
    <3>1. CASE c = SPACE /\ Looked(c) = <<"SPACE_MACHINE">>
      <4>1. Head(Looked(c)) = "SPACE_MACHINE" BY <3>1
      <4> QED BY <1>4, <3>1, <4>1 DEF StartElement
    <3>2. CASE c # SPACE /\ Looked(c) = <<"LETTERPAUSE_MACHINE">>
      <4>1. Head(Looked(c)) = "LETTERPAUSE_MACHINE" BY <3>2
      <4> QED BY <1>4, <3>2, <4>1 DEF StartElement
    <3> QED BY <2>2, <3>1, <3>2
  <2>5. /\ expected' = expected /\ high' = 0 /\ low' \in 1 .. MaxRun
        /\ low' = low + 1 \/ low' = MaxRun
    BY <1>1, <2>3
  <2>6. ~Sounding' /\ Begun' + MarksLeft' = l
    <3>1. ~Sounding' BY ONLY <2>4 DEF Sounding, Marking, Closing
    <3> QED BY ONLY <2>1, <2>3, <3>1 DEF Begun, MarksLeft
  <2>7. Quiet(PauseAfter(c, due[0]))'
    <3>1. /\ due[0] = "letter" => low > 2 * DitTicks
          /\ due[0] = "word" => low > 2 * DitTicks + SpaceTicks
      BY <1>1, <1>2, <1>5 DEF Quiet
    <3>2. CASE c = SPACE /\ FSM_State' = "DO_SPACE_MACHINE" /\ FSM_ParameterB' = SpaceTicks
      <4>1. PauseAfter(c, due[0]) = IF due[0] # "start" THEN "word" ELSE "start"
        BY <1>10, <3>2 DEF PauseAfter
      <4>2. due[0] # "start" => low > 2 * DitTicks BY <1>7, <3>1 DEF Pauses
      <4>3. due[0] # "start" => \/ low' + FSM_ParameterB' > 2 * DitTicks' + SpaceTicks'
                                \/ low' = MaxRun
        <5>1. low + 1 + SpaceTicks > 2 * DitTicks + SpaceTicks \/ due[0] = "start"
          BY ONLY <1>n, <4>2 DEF Numbers
        <5>2. DitTicks' = DitTicks /\ SpaceTicks' = SpaceTicks BY ONLY <1>n DEF Numbers
        <5> QED BY ONLY <2>5, <3>2, <5>1, <5>2
      <4> QED BY ONLY <2>3, <3>2, <4>1, <4>3 DEF Quiet
    <3>3. CASE c # SPACE /\ FSM_State' = "PAUSE_LETTERS" /\ FSM_ParameterB' = DitTicks
      <4>1. PauseAfter(c, due[0]) = due[0] BY <1>10, <3>3 DEF PauseAfter
      <4>2. /\ due[0] = "letter" => low' + FSM_ParameterB' > 2 * DitTicks'
            /\ due[0] = "word" => low' > 2 * DitTicks' + SpaceTicks'
        <5>1. /\ due[0] = "letter" => low' > 2 * DitTicks
              /\ due[0] = "word" => low' > 2 * DitTicks + SpaceTicks
          BY ONLY <1>n, <2>5, <3>1 DEF Numbers
        <5>2. due[0] = "letter" => low' + FSM_ParameterB' > 2 * DitTicks
          <6>1. low' \in Nat /\ DitTicks \in Nat /\ 2 * DitTicks \in Nat
            BY ONLY <1>n, <2>5 DEF Numbers
          <6>2. low' > 2 * DitTicks => low' + DitTicks > 2 * DitTicks BY ONLY <6>1, Waited
          <6> QED BY ONLY <3>3, <5>1, <6>2
        <5>3. DitTicks' = DitTicks /\ SpaceTicks' = SpaceTicks BY ONLY <1>n DEF Numbers
        <5> QED BY ONLY <5>1, <5>2, <5>3
      <4>3. PauseAfter(c, due[0]) = "letter" => ~Sounding' /\ FSM_State' \notin Closing
        BY ONLY <2>6, <3>3 DEF Closing
      <4> QED BY ONLY <2>3, <3>3, <4>1, <4>2, <4>3 DEF Quiet
    <3> QED BY <2>4, <3>2, <3>3
  <2>8. LayoutInv' BY <1>9, <2>5, <2>6, <2>7
  <2> QED BY <2>3, <2>5, <2>6, <2>8 DEF SoundInv, LetterInv, CloseInv, LenInv
<1>11. CASE MarksOf(c) # <<>>
  <2>1. c # SPACE /\ MarksOf(c) = Morse[c] BY <1>11 DEF MarksOf
  <2>2. l \in Nat \ {0} BY <1>6, <1>11, EmptySeq DEF l
  <2>3. /\ Len(Looked(c)) = l + 1 /\ Looked(c)[l + 1] = "LETTERPAUSE_MACHINE"
        /\ \A i \in 1 .. l : Looked(c)[i] = MarksOf(c)[i]
    <3>1. Looked(c) = Append(MarksOf(c), "LETTERPAUSE_MACHINE") BY <2>1 DEF Looked
    <3> QED BY <1>6, <3>1, AppendProperties DEF l
  <2>4. /\ Head(Looked(c)) = Looked(c)[1] /\ Len(FSM_Queue') = l
        /\ \A i \in 1 .. l : FSM_Queue'[i] = Looked(c)[i + 1]
    <3>1. Len(Tail(Looked(c))) = Len(Looked(c)) - 1
          /\ \A i \in 1 .. Len(Looked(c)) - 1 : Tail(Looked(c))[i] = Looked(c)[i + 1]
      BY <1>3, HeadTailProperties
    <3> QED BY <1>4, <2>2, <2>3, <3>1
  <2>5. Head(Looked(c)) = MarksOf(c)[1] /\ MarksOf(c)[1] \in Marks
    <3>1. 1 \in 1 .. l BY <2>2
    <3> QED BY <1>6, <2>3, <2>4, <3>1 DEF l
  <2>6. expected # <<>> /\ Head(expected).mark = MarksOf(c)[1]
    <3>1. expected \in Seq(Entry) BY DEF PlanType
    <3>2. AsciiQueue' \in Seq(Chars) BY <1>2, <1>4
    <3>3. l <= Len(expected) BY <1>8, <3>2, PlanFits
    <3>4. Len(expected) # 0 BY <2>2, <3>1, <3>3
    <3>5. expected # <<>> /\ Head(expected) = expected[1] BY <3>1, <3>4
    <3>6. 1 \in 1 .. l /\ 0 + 1 = 1 BY <2>2
    <3>7. expected[1].mark = MarksOf(c)[1] BY <1>7, <3>6
    <3> QED BY <3>5, <3>7
  <2>7. /\ Sounding' /\ SoundInv' /\ LenInv' /\ expected' = expected
        /\ FSM_State' \in Marking \cup Closing /\ high' > 0 /\ low' = 0
        /\ FSM_ParameterB' \in Nat
        /\ FSM_ParameterB' + 1 >= DitTicks /\ FSM_ParameterB' <= DitTicks
    BY <1>1, <1>4, <2>5, <2>6, MarkStarts
  <2>8. FSM_Queue' # <<>> BY <2>2, <2>4
  <2>9. Begun' = 1 /\ MarksLeft' = l - 1 /\ Begun' + MarksLeft' = l
    BY <2>2, <2>4, <2>7, <2>8 DEF Begun, MarksLeft
  <2>10. FSM_State' \notin {"IDLE", "PAUSE_LETTERS", "DO_SPACE_MACHINE"}
    BY <2>7 DEF Marking, Closing
  <2>11. PauseAfter(c, due[0]) = "letter" BY <1>11 DEF PauseAfter
  <2>12. Quiet(PauseAfter(c, due[0]))' BY <2>7, <2>8, <2>10, <2>11 DEF Quiet
  <2>13. LayoutInv' BY <1>9, <2>7, <2>9, <2>12
  <2>14. FSM_Queue'[Len(FSM_Queue')] = "LETTERPAUSE_MACHINE"
    <3>1. l \in 1 .. l BY <2>2
    <3> QED BY <2>3, <2>4, <3>1
  <2>15. ASSUME NEW j \in 1 .. l - 1
         PROVE  /\ FSM_Queue'[j] \in Marks /\ expected'[1 + j].mark = FSM_Queue'[j]
                /\ expected'[1 + j].before = "none"
    <3>1. /\ j \in 1 .. l /\ j + 1 \in 1 .. l /\ 0 + (j + 1) = 1 + j /\ j + 1 # 1
      BY <2>2
    <3>2. FSM_Queue'[j] = MarksOf(c)[j + 1] BY <2>3, <2>4, <3>1
    <3>3. MarksOf(c)[j + 1] \in Marks BY ONLY <1>6, <3>1 DEF l
    <3>4. /\ expected[0 + (j + 1)].mark = MarksOf(c)[j + 1]
          /\ expected[0 + (j + 1)].before = "none"
      BY <1>7, <3>1
    <3> QED BY <2>7, <3>1, <3>2, <3>3, <3>4
  <2>16. LetterInv' BY <2>9, <2>10, <2>14, <2>15 DEF LetterInv
  <2>17. CloseInv' BY <2>7, <2>10 DEF CloseInv
  <2> QED BY <2>7, <2>13, <2>16, <2>17
<1> QED BY <1>10, <1>11

\* What is counted and what is still to be counted keep their sum.
LEMMA StillCounts ==
  ASSUME NEW run \in 0 .. MaxRun, NEW run2 \in 0 .. MaxRun, NEW left \in Nat, left > 0,
         NEW bound \in Nat,
         run2 = run + 1 \/ (run2 = MaxRun /\ run = MaxRun),
         run + left > bound \/ run = MaxRun
  PROVE  run2 + (left - 1) > bound \/ run2 = MaxRun
BY ObserverAssumption

\* The mark goes on.
LEMMA TextMarks ==
  ASSUME TextTicks, NEW mark \in Marking, NEW gap \in Closing, MachineMark(mark, gap),
         mark = "DIT_HIGH_MACHINE" <=> gap = "DIT_LOW_MACHINE"
  PROVE  SoundInv' /\ LetterInv' /\ LayoutInv' /\ CloseInv' /\ LenInv'
<1> USE TextTickFacts
<1>n. Numbers BY DEF Numbers
<1>1. /\ FSM_State = mark /\ Key' = "HIGH" /\ FSM_ParameterB' = FSM_ParameterB
      /\ AsciiQueue' = AsciiQueue /\ FSM_Queue' = FSM_Queue
      /\ IF FSM_ParameterA > 0
         THEN FSM_ParameterA' = FSM_ParameterA - 1 /\ FSM_State' = mark
         ELSE FSM_State' = gap /\ FSM_ParameterA' = FSM_ParameterA
  BY DEF MachineMark, textVars
<1>2. /\ expected' = expected /\ high' \in 1 .. MaxRun /\ low' = 0
      /\ high' = high + 1 \/ (high' = MaxRun /\ high = MaxRun)
  BY <1>1
<1>3. FSM_State' \in {mark, gap} BY <1>1
<1>4. Sounding /\ Sounding' /\ Begun' = Begun /\ MarksLeft' = MarksLeft
  BY <1>1, <1>2, <1>3 DEF Sounding, Begun, MarksLeft
<1>5. Ours' = Ours BY <1>1, <1>3 DEF Ours, Marking, Closing
<1>6. SoundInv' BY <1>2, <1>4, <1>5 DEF SoundInv
<1>7. FSM_State' \notin {"IDLE", "PAUSE_LETTERS", "DO_SPACE_MACHINE"}
  BY <1>3 DEF Marking, Closing
<1>8. LetterInv' BY <1>1, <1>2, <1>4, <1>7 DEF LetterInv
<1>9. LayoutInv'
  <2>1. PICK cut, due : /\ Planned(AsciiQueue, expected, pause, Begun + MarksLeft, cut, due)
                        /\ Quiet(due[0])
    BY DEF LayoutInv
  <2>2. due[0] # "word" BY <1>1, <2>1 DEF Quiet, Marking
  <2>3. due[0] = "letter" => FSM_Queue # <<>> /\ FSM_ParameterB + 1 >= DitTicks
    BY <1>4, <2>1 DEF Quiet
  <2>4. Quiet(due[0])'
    <3>1. due[0] = "letter" => FSM_Queue' # <<>> /\ FSM_ParameterB' + 1 >= DitTicks'
      BY ONLY <1>n, <1>1, <2>3 DEF Numbers
    <3>2. ~(high' = 0) BY ONLY <1>2
    <3> QED BY ONLY <1>7, <2>2, <3>1, <3>2 DEF Quiet
  <2> QED BY <1>1, <1>2, <1>4, <2>1, <2>4 DEF LayoutInv
<1>10. CloseInv'
  <2>1. FSM_Queue' # <<>> => FSM_ParameterB' <= DitTicks' BY <1>1 DEF CloseInv
  <2> QED BY <1>1, <1>2, <1>7, <2>1 DEF CloseInv
<1>11. LenInv'
  <2> SUFFICES ASSUME DitTicks > 0, Head(expected).mark # "any" PROVE LenInv'
    BY <1>2 DEF LenInv
  <2>1. /\ mark = "DIT_HIGH_MACHINE" => high + FSM_ParameterA <= DitTicks
        /\ mark = "DAH_HIGH_MACHINE" => high + FSM_ParameterA > DahTicks \/ high = MaxRun
    BY <1>1, <1>4 DEF LenInv
  <2>2. CASE FSM_ParameterA > 0
    <3>1. FSM_ParameterA' = FSM_ParameterA - 1 /\ FSM_State' = mark BY <1>1, <2>2
    <3>2. mark = "DIT_HIGH_MACHINE" => high' + FSM_ParameterA' <= DitTicks'
      <4> SUFFICES ASSUME mark = "DIT_HIGH_MACHINE"
                   PROVE  high' + FSM_ParameterA' <= DitTicks'
        OBVIOUS
      <4>1. high + FSM_ParameterA <= DitTicks /\ DitTicks' = DitTicks BY <2>1
      <4>2. high # MaxRun BY <4>1
      <4>3. high' = high + 1 BY <1>2, <4>2
      <4> QED BY ONLY <1>n, <3>1, <4>1, <4>3 DEF Numbers
    <3>3. mark = "DAH_HIGH_MACHINE" => high' + FSM_ParameterA' > DahTicks' \/ high' = MaxRun
      <4> SUFFICES ASSUME mark = "DAH_HIGH_MACHINE"
                   PROVE  high' + FSM_ParameterA' > DahTicks' \/ high' = MaxRun
        OBVIOUS
      <4>1. high' \in 0 .. MaxRun BY <1>2
      <4>2. high' + (FSM_ParameterA - 1) > DahTicks \/ high' = MaxRun
        BY <1>2, <2>1, <2>2, <4>1, StillCounts
      <4> QED BY <3>1, <4>2
    <3> QED BY <3>1, <3>2, <3>3, ObserverAssumption DEF LenInv, Marking
  <2>3. CASE ~(FSM_ParameterA > 0)
    <3>1. FSM_State' = gap /\ FSM_ParameterA = 0 BY <1>1, <2>3
    <3>2. mark = "DIT_HIGH_MACHINE" => high' <= DitTicks' + 1 BY <1>2, <2>1, <3>1
    <3>3. mark = "DAH_HIGH_MACHINE" => high' > DahTicks' + 1 \/ high' = MaxRun
      <4> SUFFICES ASSUME mark = "DAH_HIGH_MACHINE", high' # MaxRun
                   PROVE  high' > DahTicks' + 1
        OBVIOUS
      <4>1. high' = high + 1 /\ high # MaxRun BY <1>2
      <4>2. high + 0 > DahTicks BY <2>1, <3>1, <4>1
      <4> QED BY ONLY <1>n, <4>1, <4>2 DEF Numbers
    <3> QED BY <3>1, <3>2, <3>3, ObserverAssumption DEF LenInv, Marking, Closing
  <2> QED BY <2>2, <2>3
<1> QED BY <1>6, <1>8, <1>9, <1>10, <1>11

\* The gap after a mark: its first tick takes the mark off the plan.
LEMMA TextGaps ==
  ASSUME TextTicks, NEW gap \in Closing, MachineGap(gap)
  PROVE  SoundInv' /\ LetterInv' /\ LayoutInv' /\ CloseInv' /\ LenInv'
<1> USE TextTickFacts
<1>n. Numbers BY DEF Numbers
<1>1. /\ FSM_State = gap /\ Key' = "LOW"
      /\ AsciiQueue' = AsciiQueue /\ FSM_Queue' = FSM_Queue
      /\ IF FSM_ParameterB > 0
         THEN FSM_ParameterB' = FSM_ParameterB - 1 /\ FSM_State' = gap
         ELSE FSM_State' = "IDLE" /\ FSM_ParameterB' = FSM_ParameterB
  BY DEF MachineGap, textVars, Closing
<1>2. /\ high' = 0 /\ low' \in 1 .. MaxRun
      /\ low' = low + 1 \/ (low' = MaxRun /\ low = MaxRun)
      /\ high > 0 => low = 0
  BY <1>1 DEF PlanType
<1>3. FSM_State' \in {gap, "IDLE"} BY <1>1
<1>4. FSM_State' \notin Marking \cup {"PAUSE_LETTERS", "DO_SPACE_MACHINE"}
  BY <1>3 DEF Marking, Closing
<1>5. ~Sounding' /\ Begun' = 0 /\ MarksLeft' = MarksLeft
  BY <1>1, <1>2, <1>4 DEF Sounding, Begun, MarksLeft
<1>6. Sounding <=> high > 0 BY <1>1 DEF Sounding, Marking, Closing
<1>7. SoundInv' /\ LenInv' BY <1>2, <1>5 DEF SoundInv, LenInv
<1>8. CloseInv'
  <2> SUFFICES ASSUME FSM_Queue # <<>> PROVE CloseInv' BY <1>1 DEF CloseInv
  <2>1. low + FSM_ParameterB <= DitTicks BY <1>1 DEF CloseInv
  <2>2. low < MaxRun /\ low' = low + 1 BY ONLY <1>n, <1>2, <2>1 DEF Numbers
  <2>3. FSM_ParameterB > 0 => low' + FSM_ParameterB' <= DitTicks'
    BY ONLY <1>n, <1>1, <2>1, <2>2 DEF Numbers
  <2>4. low' <= DitTicks' + 1 BY ONLY <1>n, <2>1, <2>2 DEF Numbers
  <2>5. FSM_State' = gap => FSM_ParameterB > 0 BY <1>1 DEF Closing
  <2> QED BY <1>1, <1>3, <1>4, <2>3, <2>4, <2>5 DEF CloseInv, Closing
<1>9. PICK cut, due : /\ Planned(AsciiQueue, expected, pause, Begun + MarksLeft, cut, due)
                      /\ Quiet(due[0])
  BY DEF LayoutInv
<1>10. due[0] # "word" BY <1>1, <1>9 DEF Quiet, Closing
<1>11. Quiet(due[0])'
  <2> SUFFICES ASSUME due[0] = "letter" PROVE Quiet(due[0])' BY <1>10 DEF Quiet
  <2>1. FSM_Queue # <<>> /\ (low + FSM_ParameterB + 1 >= DitTicks \/ low = MaxRun)
    <3>1. CASE high > 0 BY <1>2, <1>6, <1>9, <3>1 DEF Quiet
    <3>2. CASE high = 0 BY <1>1, <1>9, <3>2 DEF Quiet
    <3> QED BY <3>1, <3>2
  <2>2. /\ FSM_State' = gap => low' + FSM_ParameterB' + 1 >= DitTicks' \/ low' = MaxRun
        /\ FSM_State' = "IDLE" => low' >= DitTicks'
    <3>1. gap # "IDLE" BY ONLY gap \in Closing DEF Closing
    <3> QED BY ONLY <1>n, <1>1, <1>2, <2>1, <3>1 DEF Numbers
  <2>3. FSM_Queue' # <<>> BY <1>1, <2>1
  <2>4. FSM_State' \in Closing => FSM_State' = gap BY ONLY <1>3 DEF Closing
  <2> QED BY ONLY <1>4, <1>5, <1>10, <2>2, <2>3, <2>4 DEF Quiet
<1>12. CASE high = 0
  <2>1. expected' = expected /\ Begun = 0 BY <1>6, <1>12 DEF Begun
  <2>2. LayoutInv' BY <1>1, <1>5, <1>9, <1>11, <2>1 DEF LayoutInv
  <2>3. LetterInv' BY <1>1, <1>4, <1>5, <2>1 DEF LetterInv
  <2> QED BY <1>7, <1>8, <2>2, <2>3
<1>13. CASE high > 0
  <2>1. /\ expected' = Tail(expected) /\ Begun = 1 /\ expected # <<>>
        /\ expected \in Seq(Entry)
    BY <1>1, <1>6, <1>13 DEF Begun, SoundInv, PlanType
  <2>2. MarksLeft \in Nat
    <3>1. FSM_Queue # <<>> => Len(FSM_Queue) \in Nat /\ Len(FSM_Queue) # 0 BY EmptySeq
    <3> QED BY <3>1 DEF MarksLeft
  <2>3. LayoutInv'
    <3>1. PICK from \in Nat \ {0} : from = 1 + MarksLeft /\ from - 1 = MarksLeft BY <2>2
    <3> DEFINE cut2 == [i \in 0 .. Len(AsciiQueue) |-> cut[i] - 1]
    <3>2. Planned(AsciiQueue, Tail(expected), pause, from - 1, cut2, due)
      <4>1. Planned(AsciiQueue, expected, pause, from, cut, due) BY <1>9, <2>1, <3>1
      <4>2. AsciiQueue \in Seq(Chars) OBVIOUS
      <4> QED BY <2>1, <3>1, <4>1, <4>2, PlanDrop
    <3> HIDE DEF cut2
    <3>3. Planned(AsciiQueue, Tail(expected), pause, MarksLeft, cut2, due) BY <3>1, <3>2
    <3>4. Begun' + MarksLeft' = MarksLeft BY <1>5, <2>2
    <3> QED BY <1>1, <1>11, <2>1, <3>3, <3>4 DEF LayoutInv
  <2>4. LetterInv'
    <3> SUFFICES ASSUME FSM_Queue # <<>> PROVE LetterInv' BY <1>1 DEF LetterInv
    <3>1. \A i \in 1 .. Len(expected) - 1 : Tail(expected)[i] = expected[i + 1]
      BY <2>1, HeadTailProperties
    <3>2. Len(expected) \in Nat /\ 1 + MarksLeft <= Len(expected)
      <4>1. AsciiQueue \in Seq(Chars) OBVIOUS
      <4> QED BY <1>9, <2>1, <4>1, PlanFits
    <3>3. ASSUME NEW j \in 1 .. MarksLeft
          PROVE  /\ FSM_Queue[j] \in Marks /\ expected'[0 + j].mark = FSM_Queue[j]
                 /\ expected'[0 + j].before = "none"
      <4>1. j \in 1 .. Len(expected) - 1 /\ 0 + j = j /\ j + 1 = 1 + j BY <2>2, <3>2
      <4>2. expected'[j] = expected[1 + j] BY <2>1, <3>1, <4>1
      <4> QED BY <2>1, <4>1, <4>2 DEF LetterInv
    <3> QED BY <1>1, <1>4, <1>5, <3>3 DEF LetterInv
  <2> QED BY <1>7, <1>8, <2>3, <2>4
<1> QED BY <1>12, <1>13

\* The pause after a letter and between two words.
LEMMA TextPauses ==
  ASSUME TextTicks, NEW gap \in {"PAUSE_LETTERS", "DO_SPACE_MACHINE"}, MachineGap(gap)
  PROVE  SoundInv' /\ LetterInv' /\ LayoutInv' /\ CloseInv' /\ LenInv'
<1> USE TextTickFacts
<1>n. Numbers BY DEF Numbers
<1>1. Key = "LOW" BY DEF TextTicks, LineInv, IInv, KeyInv, GapsAreSilent, MachineGap
<1>2. /\ FSM_State = gap /\ Key' = "LOW"
      /\ AsciiQueue' = AsciiQueue /\ FSM_Queue' = FSM_Queue
      /\ IF FSM_ParameterB > 0
         THEN FSM_ParameterB' = FSM_ParameterB - 1 /\ FSM_State' = gap
         ELSE FSM_State' = "IDLE" /\ FSM_ParameterB' = FSM_ParameterB
  BY <1>1 DEF MachineGap, textVars
<1>3. ~Sounding /\ high = 0
  <2>1. ~Sounding BY ONLY <1>2, gap \in {"PAUSE_LETTERS", "DO_SPACE_MACHINE"}
                  DEF Sounding, Marking, Closing
  <2> QED BY <2>1 DEF SoundInv
<1>4. /\ high' = 0 /\ low' \in 1 .. MaxRun /\ expected' = expected
      /\ low' = low + 1 \/ (low' = MaxRun /\ low = MaxRun)
  BY <1>2, <1>3
<1>5. FSM_State' \in {gap, "IDLE"} BY <1>2
<1>6. FSM_State' \notin Marking \cup Closing BY <1>5 DEF Marking, Closing
<1>7. ~Sounding' /\ Begun' = Begun /\ MarksLeft' = MarksLeft
  BY <1>2, <1>3, <1>4, <1>6 DEF Sounding, Begun, MarksLeft
<1>8. FSM_Queue = <<>> BY <1>2 DEF LetterInv
<1>9. SoundInv' /\ LenInv' /\ LetterInv' /\ CloseInv'
  BY <1>2, <1>4, <1>7, <1>8 DEF SoundInv, LenInv, LetterInv, CloseInv
<1>10. PICK cut, due : /\ Planned(AsciiQueue, expected, pause, Begun + MarksLeft, cut, due)
                       /\ Quiet(due[0])
  BY DEF LayoutInv
<1>11. Quiet(due[0])'
  <2>1. CASE gap = "PAUSE_LETTERS"
    <3>1. /\ due[0] = "letter" => low + FSM_ParameterB > 2 * DitTicks \/ low = MaxRun
          /\ due[0] = "word" => low > 2 * DitTicks + SpaceTicks
      BY <1>2, <1>10, <2>1 DEF Quiet
    <3>2. /\ due[0] = "letter" => \/ low' + FSM_ParameterB' > 2 * DitTicks'
                                  \/ low' = MaxRun
          /\ due[0] = "letter" /\ FSM_State' = "IDLE" => low' > 2 * DitTicks'
          /\ due[0] = "word" => low' > 2 * DitTicks' + SpaceTicks'
      <4>1. CASE FSM_ParameterB > 0
        <5>1. FSM_ParameterB' = FSM_ParameterB - 1 /\ FSM_State' # "IDLE"
          BY <1>2, <2>1, <4>1
        <5>2. due[0] = "letter" => low' + FSM_ParameterB' > 2 * DitTicks' \/ low' = MaxRun
          <6> SUFFICES ASSUME due[0] = "letter"
                       PROVE  low' + FSM_ParameterB' > 2 * DitTicks' \/ low' = MaxRun
            OBVIOUS
          <6>1. low' \in 0 .. MaxRun BY <1>4
          <6>2. PICK bound \in Nat : bound = 2 * DitTicks OBVIOUS
          <6>3. low + FSM_ParameterB > bound \/ low = MaxRun BY <3>1, <6>2
          <6>4. low' + (FSM_ParameterB - 1) > bound \/ low' = MaxRun
            BY <1>4, <4>1, <6>1, <6>3, StillCounts
          <6> QED BY <5>1, <6>2, <6>4
        <5>3. due[0] = "word" => low' > 2 * DitTicks' + SpaceTicks' BY <1>4, <3>1
        <5> QED BY <5>1, <5>2, <5>3
      <4>2. CASE ~(FSM_ParameterB > 0)
        <5>1. FSM_ParameterB' = 0 /\ FSM_ParameterB = 0 BY <1>2, <4>2
        <5>2. /\ due[0] = "letter" => low' > 2 * DitTicks
              /\ due[0] = "word" => low' > 2 * DitTicks + SpaceTicks
          BY ONLY <1>n, <1>4, <3>1, <5>1 DEF Numbers
        <5>3. low' \in Nat /\ 0 \in Nat /\ 2 * DitTicks \in Nat
          BY ONLY <1>n, <1>4 DEF Numbers
        <5>4. low' > 2 * DitTicks => low' + 0 > 2 * DitTicks BY ONLY <5>3, Waited
        <5>5. DitTicks' = DitTicks /\ SpaceTicks' = SpaceTicks BY ONLY <1>n DEF Numbers
        <5> QED BY ONLY <5>1, <5>2, <5>4, <5>5
      <4> QED BY <4>1, <4>2
    <3>3. FSM_State' # "DO_SPACE_MACHINE" BY ONLY <1>5, <2>1
    <3>4. FSM_State' = "IDLE" /\ due[0] = "letter" => low' >= DitTicks'
      BY ONLY <1>n, <1>4, <3>2 DEF Numbers
    <3>5. FSM_Queue' = <<>> BY <1>2, <1>8
    <3>6. FSM_State' \in {"IDLE", "PAUSE_LETTERS", "DO_SPACE_MACHINE"} BY ONLY <1>5, <2>1
    <3> QED BY ONLY <1>6, <1>7, <3>2, <3>3, <3>4, <3>5, <3>6 DEF Quiet
  <2>2. CASE gap = "DO_SPACE_MACHINE"
    <3>1. /\ due[0] # "letter"
          /\ due[0] = "word" => low + FSM_ParameterB > 2 * DitTicks + SpaceTicks \/ low = MaxRun
      BY <1>2, <1>10, <2>2 DEF Quiet
    <3>2. /\ due[0] = "word" => \/ low' + FSM_ParameterB' > 2 * DitTicks' + SpaceTicks'
                                \/ low' = MaxRun
          /\ due[0] = "word" /\ FSM_State' = "IDLE" => low' > 2 * DitTicks' + SpaceTicks'
      <4>1. FSM_ParameterB = 0 \/ FSM_State' # "IDLE" BY ONLY <1>n, <1>2, <2>2 DEF Numbers
      <4>2. FSM_ParameterB' = 0 \/ FSM_ParameterB' = FSM_ParameterB - 1
        BY ONLY <1>n, <1>2 DEF Numbers
      <4>3. FSM_ParameterB > 0 => FSM_ParameterB' = FSM_ParameterB - 1 BY ONLY <1>2
      <4> QED BY ONLY <1>n, <1>4, <3>1, <4>1, <4>2, <4>3 DEF Numbers
    <3>3. FSM_Queue' = <<>> /\ FSM_State' \in {"IDLE", "PAUSE_LETTERS", "DO_SPACE_MACHINE"}
      BY <1>2, <1>5, <1>8, <2>2
    <3>4. FSM_State' # "PAUSE_LETTERS" BY ONLY <1>5, <2>2
    <3> QED BY ONLY <3>1, <3>2, <3>3, <3>4 DEF Quiet
  <2> QED BY <2>1, <2>2
<1>12. LayoutInv' BY <1>2, <1>4, <1>7, <1>10, <1>11 DEF LayoutInv
<1> QED BY <1>9, <1>12

\* The plan keeps its type.
LEMMA PlanTypeTick ==
  ASSUME LineInv, HandInv, PlanInv, ObserveTick
  PROVE  PlanType'
<1>1. expected \in Seq(Entry) /\ pause \in Pauses BY DEF PlanInv, PlanType
<1>2. Resumed \in Seq(Entry)
  <2>1. [mark |-> "any", before |-> "any"] \in Entry BY DEF Entry
  <2>2. <<[mark |-> "any", before |-> "any"]>> \in Seq(Entry) /\ <<>> \in Seq(Entry) BY <2>1
  <2> QED BY <2>2 DEF Resumed
<1>3. expected' \in Seq(Entry)
  <2>1. expected # <<>> => Tail(expected) \in Seq(Entry) BY <1>1
  <2>2. CASE ModeBack
    <3>1. ~TextTick BY <2>2 DEF ModeBack, TextTick
    <3> QED BY <1>2, <2>2, <3>1 DEF ObserveTick
  <2>3. CASE ~ModeBack /\ (TextTick /\ KeyUp /\ expected # <<>>)
    BY <2>1, <2>3 DEF ObserveTick
  <2>4. CASE ~ModeBack /\ ~(TextTick /\ KeyUp /\ expected # <<>>)
    BY <1>1, <2>4 DEF ObserveTick
  <2> QED BY <2>2, <2>3, <2>4
<1>4. pause' \in Pauses BY <1>1 DEF ObserveTick, Pauses
<1>5. high' > 0 => low' = 0
  <2>1. LineInv' BY LineInvStep DEF LineNext
  <2>2. Key' \in {"HIGH", "LOW"} BY <2>1 DEF LineInv, IInv, TypeOK
  <2> QED BY <2>2, TickCounts, ObserverAssumption
<1> QED BY <1>3, <1>4, <1>5 DEF PlanType

\* A tick of the text keeps the invariant, whichever state it is in.
LEMMA TextTickKeeps ==
  ASSUME TextTicks
  PROVE  SoundInv' /\ LetterInv' /\ LayoutInv' /\ CloseInv' /\ LenInv'
<1> DEFINE Goal == SoundInv' /\ LetterInv' /\ LayoutInv' /\ CloseInv' /\ LenInv'
<1>1. CASE AutomaticIdle
  <2>1. CASE Refills BY <1>1, <2>1, TextRefills
  <2>2. CASE FSM_Queue # <<>> BY <1>1, <2>2, TextLetter
  <2>3. CASE ~Refills /\ FSM_Queue = <<>>
    <3>1. ToKey = <<>> BY <2>3 DEF ToKey
    <3> QED BY <1>1, <3>1, TextRests
  <2> QED BY <2>1, <2>2, <2>3
<1>2. CASE MachineMark("DIT_HIGH_MACHINE", "DIT_LOW_MACHINE")
  <2>1. "DIT_HIGH_MACHINE" \in Marking /\ "DIT_LOW_MACHINE" \in Closing
    BY DEF Marking, Closing
  <2> QED BY <1>2, <2>1, TextMarks
<1>3. CASE MachineMark("DAH_HIGH_MACHINE", "DAH_LOW_MACHINE")
  <2>1. "DAH_HIGH_MACHINE" \in Marking /\ "DAH_LOW_MACHINE" \in Closing
    BY DEF Marking, Closing
  <2> QED BY <1>3, <2>1, TextMarks
<1>4. CASE \E gap \in {"DIT_LOW_MACHINE", "DAH_LOW_MACHINE",
                       "PAUSE_LETTERS", "DO_SPACE_MACHINE"} : MachineGap(gap)
  <2>1. PICK gap \in {"DIT_LOW_MACHINE", "DAH_LOW_MACHINE",
                      "PAUSE_LETTERS", "DO_SPACE_MACHINE"} : MachineGap(gap)
    BY <1>4
  <2>2. CASE gap \in Closing BY <2>1, <2>2, TextGaps
  <2>3. CASE gap \in {"PAUSE_LETTERS", "DO_SPACE_MACHINE"} BY <2>1, <2>3, TextPauses
  <2> QED BY <2>2, <2>3 DEF Closing
<1> QED BY <1>1, <1>2, <1>3, <1>4 DEF TextTicks, AutomaticTick

\* The keyer goes back to the text: the plan is empty but for the mark that is resumed.
LEMMA TextResumes ==
  ASSUME LineInv, HandInv, PlanInv, ObserveTick, EndBreakIn
  PROVE  SoundInv' /\ LetterInv' /\ LayoutInv' /\ CloseInv' /\ LenInv'
<1>1. FSM_Mode = "FSM_Manuall"
  <2>1. SwitchBagLevel # 0 /\ FSM_Mode \in {"FSM_Automacit", "FSM_Manuall"}
    BY DEF EndBreakIn, LineInv, IInv, TypeOK
  <2> QED BY <2>1 DEF HandInv, BagInv
<1>2. /\ AsciiQueue' = <<>> /\ FSM_Queue' = <<>> /\ FSM_State' = FSM_State /\ Key' = Key
      /\ FSM_Mode' = "FSM_Automacit"
  BY DEF EndBreakIn, sendVars
<1>3. Key = "LOW"
  <2>1. FSM_ManualState = "IDLE" BY EventStates DEF EndBreakIn
  <2> QED BY <1>1, <2>1 DEF LineInv, IInv, KeyInv, NoStuckKey
<1>4. high' = 0 BY <1>2, <1>3, TickCounts
<1>5. expected' = Resumed /\ pause' = "start"
  <2>1. ModeBack /\ ~TextTick BY <1>1, <1>2 DEF ModeBack, TextTick
  <2> QED BY <2>1 DEF ObserveTick
<1>6. Sounding' <=> FSM_State \in Marking BY <1>2, <1>4 DEF Sounding
<1>7. /\ FSM_State \in Marking => /\ expected' # <<>> /\ Len(expected') = 1
                                  /\ Head(expected').mark = "any"
                                  /\ Head(expected').before = "any"
      /\ FSM_State \notin Marking => Len(expected') = 0
  BY <1>5 DEF Resumed, Marking
<1>8. SoundInv' /\ LenInv' BY <1>4, <1>6, <1>7 DEF SoundInv, LenInv
<1>9. LetterInv' /\ CloseInv' BY <1>2 DEF LetterInv, CloseInv
<1>10. LayoutInv'
  <2> DEFINE cut == [i \in 0 .. 0 |-> Len(expected')]
             due == [i \in 0 .. 0 |-> "start"]
  <2>1. Begun' + MarksLeft' = Len(expected') /\ Len(expected') \in Nat
    BY <1>2, <1>6, <1>7 DEF Begun, MarksLeft
  <2>2. cut[0] = Len(expected') /\ due[0] = "start" OBVIOUS
  <2>3. cut \in [0 .. 0 -> Nat] /\ due \in [0 .. 0 -> Pauses] BY <2>1 DEF Pauses
  <2>4. Len(AsciiQueue') = 0 BY <1>2
  <2> HIDE DEF cut, due
  <2>5. Planned(AsciiQueue', expected', pause', Begun' + MarksLeft', cut, due)
    BY <1>5, <2>1, <2>2, <2>3, <2>4 DEF Planned
  <2>6. Quiet(due[0])' BY <2>2 DEF Quiet
  <2> QED BY <2>5, <2>6 DEF LayoutInv
<1> QED BY <1>8, <1>9, <1>10

\* A byte is accepted.
LEMMA TextGrows ==
  ASSUME LineInv, PlanInv, ObserveText
  PROVE  PlanInv'
<1>1. PICK c \in Chars :
        /\ c = data
        /\ expected' = expected \o
             [i \in 1 .. Len(MarksOf(c)) |->
                [mark |-> MarksOf(c)[i], before |-> IF i = 1 THEN pause ELSE "none"]]
        /\ pause' = CASE MarksOf(c) # <<>>               -> "letter"
                      [] c = SPACE /\ pause # "start"    -> "word"
                      [] OTHER                           -> pause
  <2>1. data \in Chars BY DEF ObserveText, InsertPut, LineInv, IInv, TypeOK, MainType
  <2> QED BY <2>1 DEF ObserveText
<1> DEFINE new == [i \in 1 .. Len(MarksOf(c)) |->
                     [mark |-> MarksOf(c)[i], before |-> IF i = 1 THEN pause ELSE "none"]]
<1>2. /\ UNCHANGED <<FSM_Mode, FSM_State, FSM_Queue, timeVars, configVars, high, low>>
  <2>1. LineRest BY DEF LineRest
  <2> QED BY <2>1, RestFrame
<1>3. AsciiQueue' = Append(AsciiQueue, c) BY <1>1 DEF ObserveText, InsertPut
<1>4. PlanType /\ AsciiQueue \in Seq(Chars) /\ expected \in Seq(Entry) /\ pause \in Pauses
  BY DEF PlanInv, PlanType, LineInv, IInv, TypeOK, TextType
<1>5. MarksOf(c) \in Seq(Marks) /\ Len(MarksOf(c)) \in Nat BY MarksType
<1>6. ASSUME NEW i \in 1 .. Len(MarksOf(c))
      PROVE  [mark |-> MarksOf(c)[i], before |-> IF i = 1 THEN pause ELSE "none"] \in Entry
  <2>1. MarksOf(c)[i] \in Marks BY <1>5
  <2> QED BY <1>4, <2>1 DEF Entry
<1>7. /\ new \in Seq(Entry) /\ Len(new) = Len(MarksOf(c))
      /\ \A j \in 1 .. Len(new) : /\ new[j].mark = MarksOf(c)[j]
                                  /\ new[j].before = IF j = 1 THEN pause ELSE "none"
  BY <1>5, <1>6
<1>8. expected' = expected \o new BY <1>1
<1>9. pause' = PauseAfter(c, pause)
  <2>1. CASE MarksOf(c) # <<>>
    <3>1. c # SPACE BY <2>1 DEF MarksOf
    <3> QED BY <1>1, <2>1, <3>1 DEF PauseAfter
  <2>2. CASE MarksOf(c) = <<>> /\ c = SPACE /\ pause # "start"
    BY <1>1, <2>2 DEF PauseAfter
  <2>3. CASE MarksOf(c) = <<>> /\ ~(c = SPACE /\ pause # "start")
    BY <1>1, <2>3 DEF PauseAfter
  <2> QED BY <2>1, <2>2, <2>3
<1> HIDE DEF new
<1>10. /\ expected' \in Seq(Entry) /\ Len(expected) \in Nat
       /\ Len(expected') = Len(expected) + Len(MarksOf(c))
       /\ \A j \in 1 .. Len(MarksOf(c)) : expected'[Len(expected) + j] = new[j]
       /\ \A i \in 1 .. Len(expected) : expected'[i] = expected[i]
       /\ Len(expected') >= Len(expected)
  <2>1. ASSUME NEW a \in Seq(Entry), NEW b \in Seq(Entry)
        PROVE  /\ a \o b \in Seq(Entry) /\ Len(a \o b) = Len(a) + Len(b)
               /\ \A i \in 1 .. Len(a) + Len(b) :
                    (a \o b)[i] = IF i <= Len(a) THEN a[i] ELSE b[i - Len(a)]
    BY Joined
  <2>2. expected \in Seq(Entry) /\ new \in Seq(Entry) /\ Len(new) = Len(MarksOf(c))
    BY <1>4, <1>7
  <2>3. /\ expected' \in Seq(Entry) /\ Len(expected') = Len(expected) + Len(new)
        /\ \A i \in 1 .. Len(expected) + Len(new) :
             expected'[i] = IF i <= Len(expected) THEN expected[i] ELSE new[i - Len(expected)]
    BY <1>8, <2>1, <2>2
  <2>4. Len(expected) \in Nat /\ Len(new) \in Nat BY <2>2
  <2>5. ASSUME NEW j \in 1 .. Len(new) PROVE expected'[Len(expected) + j] = new[j]
    <3>1. /\ Len(expected) + j \in 1 .. Len(expected) + Len(new)
          /\ ~(Len(expected) + j <= Len(expected)) /\ (Len(expected) + j) - Len(expected) = j
      BY <2>4
    <3> QED BY <2>3, <3>1
  <2>6. ASSUME NEW i \in 1 .. Len(expected) PROVE expected'[i] = expected[i]
    <3>1. i \in 1 .. Len(expected) + Len(new) /\ i <= Len(expected) BY <2>4
    <3> QED BY <2>3, <3>1
  <2> QED BY <2>2, <2>3, <2>4, <2>5, <2>6
<1>11. pause' \in Pauses BY <1>4, <1>9, PauseType
<1>12. PlanType' BY <1>2, <1>10, <1>11, <1>4 DEF PlanType
<1> SUFFICES ASSUME FSM_Mode = "FSM_Automacit"
             PROVE  SoundInv' /\ LetterInv' /\ LayoutInv' /\ CloseInv' /\ LenInv'
  BY <1>2, <1>12 DEF PlanInv
<1>13. SoundInv /\ LetterInv /\ LayoutInv /\ CloseInv /\ LenInv BY DEF PlanInv
<1>14. /\ Sounding' = Sounding /\ Begun' = Begun /\ MarksLeft' = MarksLeft /\ Ours' = Ours
       /\ DitTicks' = DitTicks /\ DahTicks' = DahTicks /\ SpaceTicks' = SpaceTicks
       /\ FSM_ParameterA' = FSM_ParameterA /\ FSM_ParameterB' = FSM_ParameterB
  BY <1>2 DEF Sounding, Begun, MarksLeft, Ours, configVars, timeVars,
              DitTicks, DahTicks, SpaceTicks, Ticks
<1>15. PICK cut, due : /\ Planned(AsciiQueue, expected, pause, Begun + MarksLeft, cut, due)
                       /\ Quiet(due[0])
  BY <1>13 DEF LayoutInv
<1>16. Begun \in 0 .. 1 /\ MarksLeft \in Nat
  <2>1. FSM_Queue \in Seq(Elements) BY DEF LineInv, IInv, TypeOK, TextType
  <2>2. FSM_Queue # <<>> => Len(FSM_Queue) \in Nat /\ Len(FSM_Queue) # 0 BY <2>1, EmptySeq
  <2> QED BY <2>2 DEF Begun, MarksLeft
<1>17. PICK from \in Nat : from = Begun + MarksLeft BY <1>16
<1>18. Planned(AsciiQueue, expected, pause, from, cut, due) BY <1>15, <1>17
<1>19. LayoutInv'
  <2>1. PICK cut2, due2 :
          /\ Planned(AsciiQueue', expected', PauseAfter(c, pause), from, cut2, due2)
          /\ due2[0] = due[0]
    <3>1. \A j \in 1 .. Len(MarksOf(c)) :
            /\ expected'[Len(expected) + j].mark = MarksOf(c)[j]
            /\ expected'[Len(expected) + j].before = IF j = 1 THEN pause ELSE "none"
      BY <1>7, <1>10
    <3>2. /\ Len(AsciiQueue') = Len(AsciiQueue) + 1 /\ AsciiQueue'[Len(AsciiQueue) + 1] = c
          /\ \A i \in 1 .. Len(AsciiQueue) : AsciiQueue'[i] = AsciiQueue[i]
      BY <1>3, <1>4
    <3>3. Accepted(c, pause, AsciiQueue, expected, AsciiQueue', expected')
      BY <1>10, <3>1, <3>2 DEF Accepted
    <3> QED BY <1>4, <1>10, <1>18, <3>3, PlanGrows
  <2>2. Quiet(due2[0])' BY <1>2, <1>14, <1>15, <2>1 DEF Quiet
  <2> QED BY <1>3, <1>8, <1>9, <1>14, <1>17, <2>1, <2>2 DEF LayoutInv
<1>20. expected # <<>> => expected' # <<>> /\ Head(expected') = Head(expected)
  <2> SUFFICES ASSUME expected # <<>> PROVE expected' # <<>> /\ Head(expected') = Head(expected)
    OBVIOUS
  <2>1. Len(expected) # 0 BY <1>4, EmptySeq
  <2>2. 1 \in 1 .. Len(expected) /\ Len(expected') # 0 BY <1>10, <2>1
  <2>3. expected' # <<>> BY <1>10, <2>2
  <2> QED BY <1>4, <1>10, <2>2, <2>3
<1>21. SoundInv' BY <1>2, <1>13, <1>14, <1>20 DEF SoundInv
<1>22. LenInv' BY <1>2, <1>13, <1>14, <1>20 DEF LenInv, SoundInv
<1>23. CloseInv' BY <1>2, <1>13, <1>14 DEF CloseInv
<1>24. LetterInv'
  <2> SUFFICES ASSUME FSM_Queue # <<>> PROVE LetterInv' BY <1>2 DEF LetterInv
  <2>1. from <= Len(expected) BY <1>4, <1>18, PlanFits
  <2>2. ASSUME NEW j \in 1 .. MarksLeft PROVE expected'[Begun + j] = expected[Begun + j]
    <3>1. Begun + j \in 1 .. Len(expected) BY <1>10, <1>16, <1>17, <2>1
    <3> QED BY <1>10, <3>1
  <2>3. ASSUME NEW j \in 1 .. MarksLeft
        PROVE  /\ FSM_Queue[j] \in Marks /\ expected'[Begun + j].mark = FSM_Queue[j]
               /\ expected'[Begun + j].before = "none"
    BY <1>13, <2>2 DEF LetterInv
  <2> QED BY <1>2, <1>13, <1>14, <2>3 DEF LetterInv
<1> QED BY <1>19, <1>21, <1>22, <1>23, <1>24

\* A step of the keyer and its observer.
LEMMA PlanStep == LineInv /\ HandInv /\ PlanInv /\ [LineNext]_allVars => PlanInv'
<1> SUFFICES ASSUME LineInv, HandInv, PlanInv, [LineNext]_allVars PROVE PlanInv' OBVIOUS
<1>1. CASE ObserveTick
  <2>1. PlanType' BY <1>1, PlanTypeTick
  <2>2. CASE AutomaticTick /\ FSM_Mode = "FSM_Automacit"
    <3>1. TextTicks BY <1>1, <2>2 DEF TextTicks
    <3> QED BY <2>1, <3>1, TextTickKeeps DEF PlanInv
  <2>3. CASE EndBreakIn BY <1>1, <2>1, <2>3, TextResumes DEF PlanInv
  <2>4. CASE ManualTick /\ ~EndBreakIn
    <3>1. FSM_Mode' = "FSM_Manuall"
      BY <2>4 DEF ManualTick, TakePress, PostWait, BugDah, BugDahEnds, StartMark, Mark,
                  Gap, AfterDit, AfterDah, GapEnds, StaysManual
    <3> QED BY <2>1, <3>1 DEF PlanInv
  <2> QED BY <1>1, <2>2, <2>3, <2>4, TickMachine
<1>2. CASE ObserveText BY <1>2, TextGrows
<1>3. CASE ObserveRest \/ UNCHANGED allVars
  <2>1. UNCHANGED <<FSM_Mode, FSM_State, FSM_Queue, timeVars, configVars, high, low>>
    <3>1. LineRest BY <1>3 DEF LineRest
    <3> QED BY <3>1, RestFrame
  <2>2. UNCHANGED <<AsciiQueue, expected, pause>>
    <3>1. CASE ObserveRest
      BY <3>1 DEF ObserveRest, insert_keybyte, SendEcho, textVars, lineVars
    <3>2. CASE UNCHANGED allVars BY <3>2 DEF allVars, vars, lineVars, textVars
    <3> QED BY <1>3, <3>1, <3>2
  <2>3. /\ Sounding' = Sounding /\ Begun' = Begun /\ MarksLeft' = MarksLeft /\ Ours' = Ours
        /\ DitTicks' = DitTicks /\ DahTicks' = DahTicks /\ SpaceTicks' = SpaceTicks
        /\ FSM_ParameterA' = FSM_ParameterA /\ FSM_ParameterB' = FSM_ParameterB
    BY <2>1 DEF Sounding, Begun, MarksLeft, Ours, configVars, timeVars,
                DitTicks, DahTicks, SpaceTicks, Ticks
  <2>4. PlanType' BY <2>1, <2>2 DEF PlanInv, PlanType
  <2>5. SoundInv => SoundInv' BY <2>1, <2>2, <2>3 DEF SoundInv
  <2>6. LetterInv => LetterInv' BY <2>1, <2>2, <2>3 DEF LetterInv
  <2>7. LayoutInv => LayoutInv' BY <2>1, <2>2, <2>3 DEF LayoutInv, Quiet
  <2>8. CloseInv => CloseInv' BY <2>1, <2>2, <2>3 DEF CloseInv
  <2>9. LenInv => LenInv' BY <2>1, <2>2, <2>3 DEF LenInv
  <2> QED BY <2>1, <2>4, <2>5, <2>6, <2>7, <2>8, <2>9 DEF PlanInv
<1> QED BY <1>1, <1>2, <1>3 DEF LineNext

\* ... from the first state on.
LEMMA PlanInit == LineInit => PlanInv
<1> SUFFICES ASSUME LineInit PROVE PlanInv OBVIOUS
<1>1. /\ FSM_State = "IDLE" /\ FSM_Queue = <<>> /\ AsciiQueue = <<>> /\ high = 0
      /\ expected = <<>> /\ pause = "start"
  BY DEF LineInit, Init
<1>2. ~Sounding /\ Begun + MarksLeft = 0
  BY <1>1 DEF Sounding, Begun, MarksLeft, Marking, Closing
<1>3. PlanType BY <1>1 DEF PlanType, Pauses
<1>4. SoundInv /\ LetterInv /\ CloseInv /\ LenInv
  BY <1>1, <1>2 DEF SoundInv, LetterInv, CloseInv, LenInv
<1>5. LayoutInv
  <2> DEFINE cut == [i \in 0 .. 0 |-> 0]
             due == [i \in 0 .. 0 |-> "start"]
  <2>1. /\ cut[0] = 0 /\ due[0] = "start"
        /\ cut \in [0 .. 0 -> Nat] /\ due \in [0 .. 0 -> Pauses]
    BY DEF Pauses
  <2>2. Len(AsciiQueue) = 0 /\ Len(expected) = 0 BY <1>1
  <2> HIDE DEF cut, due
  <2>3. Planned(AsciiQueue, expected, pause, Begun + MarksLeft, cut, due)
    BY <1>1, <1>2, <2>1, <2>2 DEF Planned
  <2>4. Quiet(due[0]) BY <2>1 DEF Quiet
  <2> QED BY <2>3, <2>4 DEF LayoutInv
<1> QED BY <1>3, <1>4, <1>5 DEF PlanInv

\* Since nothing is put after a flush inside a put, PlanInv holds without a condition.
LEMMA PlanIsKept == LineSpec => [](LineInv /\ HandInv /\ PlanInv)
<1>1. LineInit => PlanInv BY PlanInit
<1>2. LineInv /\ HandInv /\ PlanInv /\ [LineNext]_allVars => PlanInv' BY PlanStep
<1> QED BY <1>1, <1>2, LineInvariant, PTL DEF LineSpec

\* As long as no break-in ends inside a put, the plan and the two queues agree in
\* every state in which the text is keyed, break-ins included.
THEOREM PlanInvariant == LineSpec => [](PutsAreWhole => PlanInv)
<1> QED BY PlanIsKept, PTL

-----------------------------------------------------------------------------
(* The text: what it gives                                                   *)

\* When a byte is about to be echoed and the next to be fetched, the plan is
\* exactly the bytes still in the queue: a byte is echoed after its last mark.  The
\* operator may break in at any tick; the condition is that no break-in has ended
\* inside a put (PutsAreWhole).
THEOREM EchoFollows == LineSpec => []EchoFollowsKeying
<1>1. LineInv /\ HandInv /\ PlanInv => EchoFollowsKeying
  <2> SUFFICES ASSUME LineInv, PlanInv, FSM_Mode = "FSM_Automacit", FSM_State = "IDLE",
                      FSM_Queue = <<>>
               PROVE  [i \in 1 .. Len(expected) |-> expected[i].mark]
                        = SeqExt!FlattenSeq([i \in 1 .. Len(AsciiQueue) |-> MarksOf(AsciiQueue[i])])
    BY DEF EchoFollowsKeying
  <2>1. Begun + MarksLeft = 0 BY DEF Begun, MarksLeft, Sounding, Marking, Closing
  <2>2. \E cut, due : Planned(AsciiQueue, expected, pause, 0, cut, due)
    BY <2>1 DEF PlanInv, LayoutInv
  <2>3. AsciiQueue \in Seq(Chars) /\ expected \in Seq(Entry)
    BY DEF LineInv, IInv, TypeOK, TextType, PlanInv, PlanType
  <2> QED BY <2>2, <2>3, PlanFlat
<1> QED BY <1>1, PlanIsKept, PTL

\* The text's tick that starts or ends a mark.
LEMMA TextTickIs ==
  ASSUME LineInv, HandInv, PlanInv, LineNext, TextTick, KeyDown \/ KeyUp
  PROVE  TextTicks
<1>1. ObserveTick
  <2>1. LineRest => high' = high BY RestFrame DEF LineInv
  <2>2. high' # high BY DEF KeyDown, KeyUp
  <2> QED BY <2>1, <2>2 DEF LineNext, LineRest
<1>2. ~ManualTick
  <2>1. SwitchBagLevel = 0 BY DEF HandInv, BagInv, TextTick
  <2> QED BY <2>1 DEF TextTick, ManualTick, TakePress, PostWait, EndBreakIn, BugDah, BugDahEnds,
                      StartMark, Mark, Gap, AfterDit, AfterDah, GapEnds, StaysManual
<1> QED BY <1>1, <1>2, TickMachine DEF TextTicks

\* A mark that starts is the next of the plan, and the pause before it is over.
LEMMA PauseIsOver ==
  ASSUME TextTicks, AutomaticIdle, Key' = "HIGH"
  PROVE  /\ Head(expected).before = "none" => low <= DitTicks + 1
         /\ Head(expected).before = "letter" => low > 2 * DitTicks
         /\ Head(expected).before = "word" => low > 2 * DitTicks + SpaceTicks
<1> USE TextTickFacts
<1>1. FSM_State = "IDLE" /\ Begun = 0
  BY DEF AutomaticIdle, Begun, Sounding, Marking, Closing
<1>2. PICK cut, due : /\ Planned(AsciiQueue, expected, pause, MarksLeft, cut, due)
                      /\ Quiet(due[0])
  <2>1. MarksLeft \in Nat
    <3>1. FSM_Queue # <<>> => Len(FSM_Queue) \in Nat /\ Len(FSM_Queue) # 0 BY EmptySeq
    <3> QED BY <3>1 DEF MarksLeft
  <2>2. Begun + MarksLeft = MarksLeft BY <1>1, <2>1
  <2> QED BY <2>2 DEF LayoutInv
<1>3. MarksLeft <= Len(expected) /\ expected \in Seq(Entry)
  <2>1. AsciiQueue \in Seq(Chars) OBVIOUS
  <2> QED BY <1>2, <2>1, PlanFits DEF PlanType
<1>4. ToKey # <<>> /\ StartElement(Head(ToKey)) BY DEF AutomaticIdle
<1>5. Head(ToKey) \notin {"SPACE_MACHINE", "LETTERPAUSE_MACHINE"} BY <1>4 DEF StartElement
<1>6. CASE FSM_Queue # <<>>
  <2>1. Head(FSM_Queue) = FSM_Queue[1] /\ Len(FSM_Queue) \in Nat /\ Len(FSM_Queue) # 0
    BY <1>6, EmptySeq
  <2>2. FSM_Queue[1] # "LETTERPAUSE_MACHINE" BY <1>5, <1>6, <2>1 DEF ToKey, Refills
  <2>3. Len(FSM_Queue) # 1 BY <1>6, <2>2 DEF LetterInv
  <2>4. MarksLeft \in Nat /\ 1 \in 1 .. MarksLeft /\ 0 + 1 = 1
    <3>1. MarksLeft = Len(FSM_Queue) - 1 BY <1>6 DEF MarksLeft
    <3>2. ASSUME NEW n \in Nat, n # 0, n # 1 PROVE n - 1 \in Nat /\ 1 \in 1 .. n - 1
      BY <3>2
    <3> QED BY ONLY <2>1, <2>3, <3>1, <3>2
  <2>5. expected[1].before = "none" BY <1>1, <1>6, <2>4 DEF LetterInv
  <2>6. Head(expected) = expected[1]
    <3>1. Len(expected) # 0 BY <1>3, <2>4
    <3> QED BY <1>3, <3>1
  <2>7. low <= DitTicks + 1 BY <1>1, <1>6 DEF CloseInv
  <2> QED BY <2>5, <2>6, <2>7
<1>7. CASE FSM_Queue = <<>>
  <2>1. Refills BY <1>4, <1>7 DEF ToKey
  <2>2. PICK c : c = Head(AsciiQueue) OBVIOUS
  <2>3. c \in Chars /\ c = AsciiQueue[1] /\ 1 \in 1 .. Len(AsciiQueue)
    <3>1. AsciiQueue # <<>> /\ AsciiQueue \in Seq(Chars) BY <2>1 DEF Refills
    <3>2. Len(AsciiQueue) \in Nat /\ Len(AsciiQueue) # 0 BY <3>1, EmptySeq
    <3> QED BY <2>2, <3>1, <3>2
  <2>4. MarksOf(c) # <<>>
    <3>1. Head(ToKey) = Head(Looked(c)) BY <2>1, <2>2 DEF ToKey
    <3>2. MarksOf(c) = <<>> => Head(Looked(c)) \in {"SPACE_MACHINE", "LETTERPAUSE_MACHINE"}
      BY LookedUnmarked
    <3> QED BY <1>5, <3>1, <3>2
  <2>5. Len(MarksOf(c)) \in Nat /\ 1 \in 1 .. Len(MarksOf(c))
    <3>1. MarksOf(c) \in Seq(Marks) /\ Len(MarksOf(c)) \in Nat BY <2>3, MarksType
    <3>2. Len(MarksOf(c)) # 0 BY <2>4, <3>1, EmptySeq
    <3> QED BY <3>1, <3>2
  <2>6. MarksLeft = 0 BY <1>7 DEF MarksLeft
  <2>7. cut[0] = 0 /\ cut[1] = Len(MarksOf(c)) /\ expected[1].before = due[0]
    <3>1. cut[0] = 0 BY <1>2, <2>6 DEF Planned
    <3>2. ASSUME NEW i \in 1 .. Len(AsciiQueue), NEW j \in 1 .. Len(MarksOf(c)), i = 1, j = 1
          PROVE  cut[i] = Len(MarksOf(c)) /\ expected[j].before = due[0]
      <4>1. i - 1 = 0 /\ AsciiQueue[i] = c /\ 0 + j = j BY <2>3, <3>2
      <4>2. /\ cut[i] = cut[i - 1] + Len(MarksOf(AsciiQueue[i]))
            /\ \A k \in 1 .. Len(MarksOf(AsciiQueue[i])) :
                 expected[cut[i - 1] + k].before = IF k = 1 THEN due[i - 1] ELSE "none"
        BY <1>2 DEF Planned
      <4>3. /\ cut[i] = 0 + Len(MarksOf(c))
            /\ expected[0 + j].before = IF j = 1 THEN due[0] ELSE "none"
        BY <3>1, <4>1, <4>2
      <4> QED BY <2>5, <3>2, <4>1, <4>3
    <3> QED BY <2>3, <2>5, <3>1, <3>2
  <2>8. Head(expected) = expected[1]
    <3>1. cut[1] <= cut[Len(AsciiQueue)] /\ cut[Len(AsciiQueue)] = Len(expected)
      <4>1. /\ 1 \in 0 .. Len(AsciiQueue) /\ Len(AsciiQueue) \in 0 .. Len(AsciiQueue)
            /\ 1 <= Len(AsciiQueue)
        BY <2>3
      <4> QED BY <1>2, <4>1 DEF Planned
    <3>2. Len(expected) # 0 BY <1>3, <2>5, <2>7, <3>1
    <3> QED BY <1>3, <3>2
  <2>9. /\ due[0] = "letter" => low > 2 * DitTicks
        /\ due[0] = "word" => low > 2 * DitTicks + SpaceTicks
    BY <1>1, <1>2, <1>7 DEF Quiet
  <2>10. due[0] \in Pauses
    <3>1. 0 \in 0 .. Len(AsciiQueue) BY <2>3
    <3> QED BY <1>2, <3>1 DEF Planned
  <2> QED BY <2>7, <2>8, <2>9, <2>10 DEF Pauses
<1> QED BY <1>6, <1>7

\* As long as no break-in ends inside a put, the pauses inside a letter, between
\* letters and between words are kept, whatever the host's text looks like and
\* however late it comes, at every speed and whatever else the paddles do.
THEOREM PausesKept == LineSpec => PausesAreKept
<1>1. LineInv /\ HandInv /\ PlanInv /\ [LineNext]_allVars
        => [TextTick /\ KeyDown =>
              /\ Head(expected).before = "none"   => low <= DitTicks + 1
              /\ Head(expected).before = "letter" => low > 2 * DitTicks
              /\ Head(expected).before = "word"   => low > 2 * DitTicks + SpaceTicks]_allVars
  <2> SUFFICES ASSUME LineInv, HandInv, PlanInv, LineNext, TextTick, KeyDown
               PROVE  /\ Head(expected).before = "none"   => low <= DitTicks + 1
                      /\ Head(expected).before = "letter" => low > 2 * DitTicks
                      /\ Head(expected).before = "word"   => low > 2 * DitTicks + SpaceTicks
    OBVIOUS
  <2>1. TextTicks BY TextTickIs
  <2>2. Key' = "HIGH" BY <2>1, TextTickFacts DEF KeyDown
  <2>3. CASE AutomaticIdle BY <2>1, <2>2, <2>3, PauseIsOver
  <2>4. CASE FSM_State \in Marking
    <3>1. Sounding /\ ~(high > 0) BY <2>4 DEF Sounding, KeyDown
    <3>2. Head(expected).before = "any" BY <2>1, <3>1, TextTickFacts DEF SoundInv
    <3> QED BY <3>2
  <2>5. ASSUME NEW gap \in {"DIT_LOW_MACHINE", "DAH_LOW_MACHINE",
                            "PAUSE_LETTERS", "DO_SPACE_MACHINE"}, MachineGap(gap)
        PROVE  FALSE
    <3>1. CASE gap \in {"DIT_LOW_MACHINE", "DAH_LOW_MACHINE"} BY <2>2, <2>5, <3>1 DEF MachineGap
    <3>2. CASE gap \in {"PAUSE_LETTERS", "DO_SPACE_MACHINE"}
      <4>1. Key = "LOW"
        BY <2>1, <2>5, <3>2 DEF TextTicks, LineInv, IInv, KeyInv, GapsAreSilent, MachineGap
      <4> QED BY <2>2, <2>5, <3>2, <4>1 DEF MachineGap
    <3> QED BY <3>1, <3>2
  <2> QED BY <2>1, <2>3, <2>4, <2>5 DEF TextTicks, AutomaticTick, MachineMark, Marking
<1> QED BY <1>1, PlanIsKept, PTL DEF LineSpec, PausesAreKept

\* At a stored speed of which a dit is a tick at least, a dah lasts three dits.
Audible == current_WPM \in 1 .. DitMs

\* There a dah is longer than two dits and a tick, and so is heard as one.
LEMMA AudibleTicks ==
  ASSUME Audible
  PROVE  DitTicks \in Nat \ {0} /\ DahTicks >= 3 * DitTicks
         /\ 2 * (DitTicks + 1) < MaxRun
<1>1. DitMs \in Nat /\ MaxRun \in Nat /\ 12 * DitMs <= MaxRun /\ current_WPM \in 1 .. DitMs
  BY TimingAssumption, ObserverAssumption DEF Audible
<1>2. ASSUME NEW w \in 1 .. DitMs
      PROVE  /\ DitMs \div w \in Nat \ {0} /\ DitMs \div w <= DitMs
             /\ (3 * DitMs) \div w >= 3 * (DitMs \div w)
  <2>1. w \in Nat \ {0} /\ DitMs \in Nat /\ w <= DitMs BY <1>1
  <2>2. PICK d \in Nat : d = DitMs \div w /\ w * d <= DitMs /\ DitMs < w * (d + 1)
    BY <2>1, SMTT(60)
  <2>3. d # 0 BY <2>1, <2>2
  <2>4. PICK h \in Nat : h = (3 * DitMs) \div w /\ w * h <= 3 * DitMs /\ 3 * DitMs < w * (h + 1)
    BY <2>1, SMTT(60)
  <2>5. h >= 3 * d
    <3> SUFFICES ASSUME h + 1 <= 3 * d PROVE FALSE BY <2>2, <2>4
    <3>1. w * (h + 1) <= w * (3 * d) BY <2>1, <2>2, <2>4
    <3>2. w * (3 * d) = 3 * (w * d) BY <2>1, <2>2
    <3> QED BY <2>1, <2>2, <2>4, <3>1, <3>2
  <2>6. d <= DitMs BY <2>1, <2>2, <2>3
  <2> QED BY <2>2, <2>3, <2>4, <2>5, <2>6
<1>3. DitTicks = DitMs \div current_WPM /\ DahTicks = (3 * DitMs) \div current_WPM
  BY <1>1 DEF DitTicks, DahTicks, Ticks
<1>4. DitTicks \in Nat \ {0} /\ DitTicks <= DitMs /\ DahTicks >= 3 * DitTicks
  BY <1>1, <1>2, <1>3
<1> QED BY <1>1, <1>4

\* As long as no break-in ends inside a put, the text is keyed as Morse: every mark
\* a listener hears is the next one of the accepted bytes, at every speed that
\* gives a dit a length, whatever text the host sends and however often the
\* operator breaks in.  SharedQueue's run shows what a flush inside a put does.
THEOREM TextKeyed ==
  ASSUME \A c \in BootConfigs : c.WPM \in 1 .. DitMs
  PROVE  LineSpec => TextIsKeyed
<1>1. LineInit => Audible BY DEF LineInit, Init, Audible
<1>2. LineInv /\ Audible /\ [LineNext]_allVars => Audible'
  <2> SUFFICES ASSUME LineInv, Audible, [LineNext]_allVars PROVE Audible' OBVIOUS
  <2>1. current_WPM' = current_WPM
    <3>1. CASE ObserveTick BY <3>1 DEF ObserveTick, Timer, Tick, configVars
    <3>2. CASE LineRest BY <3>2, RestFrame DEF LineInv, configVars
    <3> QED BY <3>1, <3>2 DEF LineNext, LineRest
  <2> QED BY <2>1 DEF Audible
<1>3. LineInv /\ HandInv /\ PlanInv /\ Audible /\ [LineNext]_allVars
        => [TextTick /\ KeyUp => expected # <<>> /\ Head(expected).mark \in {Heard, "any"}]_allVars
  <2> SUFFICES ASSUME LineInv, HandInv, PlanInv, Audible, LineNext, TextTick, KeyUp
               PROVE  expected # <<>> /\ Head(expected).mark \in {Heard, "any"}
    OBVIOUS
  <2>1. TextTicks BY TextTickIs
  <2>2. /\ high > 0 /\ Key' = "LOW" /\ SoundInv /\ LenInv
        /\ high \in 0 .. MaxRun /\ MaxRun \in Nat
        /\ DitTicks \in Nat /\ DahTicks \in Nat
    BY <2>1, TextTickFacts DEF KeyUp
  <2>3. Sounding /\ expected # <<>> /\ Head(expected).mark \in {Ours, "any"}
    BY <2>2 DEF SoundInv
  <2>4. FSM_State \in Closing
    <3>1. FSM_State \notin Marking
      BY <2>1, <2>2 DEF TextTicks, AutomaticTick, AutomaticIdle, MachineMark, MachineGap, Marking
    <3> QED BY <2>3, <3>1 DEF Sounding
  <2>5. ASSUME Head(expected).mark # "any" PROVE Head(expected).mark = Heard
    <3>1. DitTicks > 0 /\ DahTicks >= 3 * DitTicks /\ 2 * (DitTicks + 1) < MaxRun
      BY AudibleTicks
    <3>2. CASE FSM_State = "DIT_LOW_MACHINE"
      <4>1. high <= DitTicks + 1 BY <2>2, <2>3, <2>5, <3>1, <3>2 DEF LenInv
      <4>2. high <= 2 * (DitTicks + 1) BY <2>2, <4>1
      <4> QED BY <2>3, <2>5, <3>2, <4>2 DEF Heard, Ours
    <3>3. CASE FSM_State = "DAH_LOW_MACHINE"
      <4>1. high > DahTicks + 1 \/ high = MaxRun BY <2>2, <2>3, <2>5, <3>1, <3>3 DEF LenInv
      <4>2. ~(high <= 2 * (DitTicks + 1)) BY <2>2, <3>1, <4>1
      <4> QED BY <2>3, <2>5, <3>3, <4>2 DEF Heard, Ours
    <3> QED BY <2>4, <3>2, <3>3 DEF Closing
  <2> QED BY <2>3, <2>5
<1> QED BY <1>1, <1>2, <1>3, PlanIsKept, PTL DEF LineSpec, TextIsKeyed
=============================================================================
