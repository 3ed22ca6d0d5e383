------------------------- MODULE WinKeyDecoderProofs -------------------------
(***************************************************************************)
(* WinKeyDecoder for every size of the queue, of the configuration and of   *)
(* the emulated EEPROM, and for every host.  First the decoder and the host  *)
(* agree on what comes next (Agreement), which is what keeps an operand from *)
(* being put into a place that does not exist; with it every step of the     *)
(* decoder is one of the configuration store or leaves the store alone, so   *)
(* the store's theorems hold of the decoder.  Flow control and the settings  *)
(* that survive a restart then have invariants of their own.                 *)
(***************************************************************************)
EXTENDS WinKeyDecoder, ConfigStoreProofs

\* How many operands the host still owes in every state but the trapped ones.
Agreement ==
  /\ due \in Nat
  /\ expects \in {"command", "admin", "calibration", "operand"}
  /\ expects = "command" <=> due = 0
  /\ ~Trapped =>
       /\ state = "ANFANG" <=> due = 0
       /\ state = "ADMIN_CMD" <=> expects = "admin"
       /\ state = "CALIBRATE" <=> expects = "calibration"
       /\ state \in {"PTT_TIME", "SPEEDPOTI", "LOAD_ALL"} => parameter = due
       /\ state = "LOAD_ALL" => due < ConfigSize
       /\ state = "LOAD_EEPROM" => eeprom_ptr = EepromSize - due
       /\ state \notin {"PTT_TIME", "SPEEDPOTI", "LOAD_ALL", "LOAD_EEPROM"} => due <= 1

Inv == StoreInv /\ RamTypeOK /\ Agreement

StoreStepOK == [StoreNext]_storeVars

Codes == (0 .. 23) \ {7, 8, 10, 19, 21}

\* The commands, by the state that takes their operands.
LEMMA CommandStates ==
  ASSUME NEW c \in Commands
  PROVE  /\ c[1] \in Codes
         /\ c[2] \in States \ {"ANFANG", "CALIBRATE", "ECHO_LOOPBACK", "LOAD_EEPROM"}
         /\ c[2] = "ADMIN_CMD" <=> c[1] = 0
         /\ c[2] = "PTT_TIME" <=> c[1] = 4
         /\ c[2] = "SPEEDPOTI" <=> c[1] = 5
         /\ c[2] = "LOAD_ALL" <=> c[1] = 15
BY DEF Commands, Codes, States, IgnoringStates

LEMMA CommandOperands ==
  ASSUME NEW b \in Codes
  PROVE  /\ OperandsOf(b) \in Nat \ {0}
         /\ b \in {4, 5, 15} => ParameterOf(b) = OperandsOf(b)
         /\ b \notin {4, 5, 15} => ParameterOf(b) = parameter /\ OperandsOf(b) = 1
         /\ b = 15 => OperandsOf(b) = ConfigSize - 1
         /\ b \in {4, 5} => OperandsOf(b) \in 2 .. 3
<1>1. ConfigSize - 1 \in Nat \ {0}
  BY SizeAssumption
<1>2. CASE b \in {4, 5, 15}
  BY <1>1, <1>2 DEF OperandsOf, ParameterOf
<1>3. CASE b \notin {4, 5, 15}
  BY <1>1, <1>3 DEF Codes, OperandsOf, ParameterOf
<1> QED BY <1>2, <1>3

\* What the host counts after it has sent a byte.
LEMMA HostCounts ==
  ASSUME Agreement, NEW b \in Offered, HostSent(b)
  PROVE  /\ due' \in Nat
         /\ expects' \in {"command", "admin", "calibration", "operand"}
         /\ expects' = "command" <=> due' = 0
         /\ due # 0 /\ expects # "admin" => /\ due' = due - 1
                                           /\ expects' \in {"command", "operand"}
         /\ due = 0 => /\ due' = OperandsOf(b)
                       /\ expects' = "admin" <=> due' # 0 /\ b = 0
                       /\ expects' # "calibration"
         /\ expects = "admin" => /\ due' = AdminOperandsOf(b)
                                 /\ expects' # "admin"
                                 /\ expects' = "calibration" <=> due' # 0 /\ b = 0
<1>1. OperandsOf(b) \in Nat /\ AdminOperandsOf(b) \in Nat
  BY SizeAssumption, LayoutAssumption DEF OperandsOf, AdminOperandsOf
<1>2. CASE expects = "command"
  BY <1>1, <1>2 DEF Agreement, HostSent
<1>3. CASE expects = "admin"
  BY <1>1, <1>3 DEF Agreement, HostSent
<1>4. CASE expects \in {"calibration", "operand"}
  BY <1>4 DEF Agreement, HostSent
<1> QED BY <1>2, <1>3, <1>4 DEF Agreement

\* What the host offers in each state.
LEMMA OfferedBytes ==
  ASSUME Inv, ~Trapped, NEW b \in Offered
  PROVE  /\ state = "ANFANG" => b \in 0 .. 255
         /\ state = "ADMIN_CMD" => b \in 0 .. 255
         /\ state = "CALIBRATE" => b = 255
         /\ state \notin {"ANFANG", "ADMIN_CMD", "CALIBRATE"} => b \in Byte
BY HostAssumption DEF Inv, Agreement, Offered

-----------------------------------------------------------------------------
(* One lemma per handler: what it leaves is of its type, decoder and host   *)
(* agree again, and for the store it is a step or none.                      *)

Kept == RamTypeOK' /\ Agreement' /\ StoreStepOK

LEMMA TextKeeps ==
  ASSUME Inv, NEW b \in Offered, Text(b), HostSent(b) PROVE Kept
<1> USE DEF Text
<1>1. due = 0 /\ b \in 0 .. 255 /\ ~Trapped
  BY OfferedBytes DEF Inv, Agreement, Trapped
<1>2. due' = 0 /\ expects' = "command"
  BY <1>1, HostCounts DEF Inv, OperandsOf
<1>3. RamTypeOK'
  BY TextAssumption DEF Inv, RamTypeOK
<1>4. Agreement'
  BY <1>1, <1>2 DEF Inv, Agreement, Trapped
<1> QED BY <1>3, <1>4 DEF Kept, StoreStepOK

LEMMA CommandKeeps ==
  ASSUME Inv, NEW b \in Offered, Command(b), HostSent(b) PROVE Kept
<1> USE DEF Command
<1>1. PICK c \in Commands : c[1] = b /\ state' = c[2]
  OBVIOUS
<1>2. due = 0 /\ ~Trapped
  BY DEF Inv, Agreement, Trapped
<1>3. b \in Codes
  BY <1>1, CommandStates
<1>4. due' = OperandsOf(b) /\ due' \in Nat \ {0} /\ expects' # "command"
      /\ (expects' = "admin" <=> b = 0) /\ expects' # "calibration"
  BY <1>2, <1>3, HostCounts, CommandOperands DEF Inv
<1>5. state' \in States \ {"ANFANG", "CALIBRATE", "ECHO_LOOPBACK", "LOAD_EEPROM"}
      /\ (state' = "ADMIN_CMD" <=> b = 0)
      /\ (state' \in {"PTT_TIME", "SPEEDPOTI", "LOAD_ALL"} <=> b \in {4, 5, 15})
      /\ (state' = "LOAD_ALL" <=> b = 15)
  BY <1>1, CommandStates
<1>6. b \in {4, 5, 15} => parameter' = due'
  BY <1>3, <1>4, CommandOperands
<1>7. b = 15 => due' < ConfigSize
  BY <1>3, <1>4, CommandOperands, SizeAssumption
<1>8. b \notin {4, 5, 15} => due' = 1
  BY <1>3, <1>4, CommandOperands
<1>9. parameter' \in 0 .. ConfigSize + 2
  BY <1>3, SizeAssumption DEF ParameterOf, Inv, RamTypeOK
<1>10. RamTypeOK'
  BY <1>5, <1>9 DEF Inv, RamTypeOK
<1>11. expects' \in {"command", "admin", "calibration", "operand"}
  BY HostCounts DEF Inv
<1>12. Agreement'
  BY <1>4, <1>5, <1>6, <1>7, <1>8, <1>11 DEF Agreement, Trapped
<1> QED BY <1>10, <1>12 DEF Kept, StoreStepOK

LEMMA QueryKeeps ==
  ASSUME Inv, NEW b \in Offered, Query(b), HostSent(b) PROVE Kept
<1> USE DEF Query
<1>1. due = 0 /\ ~Trapped
  BY DEF Inv, Agreement, Trapped
<1>2. due' = 0 /\ expects' = "command"
  BY <1>1, HostCounts DEF Inv, OperandsOf
<1>3. RamTypeOK'
  BY TextAssumption DEF Inv, RamTypeOK
<1>4. Agreement'
  BY <1>1, <1>2 DEF Inv, Agreement, Trapped
<1> QED BY <1>3, <1>4 DEF Kept, StoreStepOK

LEMMA AdminKeeps ==
  ASSUME Inv, NEW b \in Offered, Admin(b), HostSent(b) PROVE Kept
<1> USE DEF Admin
<1>1. expects = "admin" /\ ~Trapped
  BY DEF Inv, Agreement, Trapped
<1>2. due' = AdminOperandsOf(b) /\ expects' # "admin" /\ due' \in Nat
      /\ expects' \in {"command", "admin", "calibration", "operand"}
      /\ (expects' = "command" <=> due' = 0)
      /\ (expects' = "calibration" <=> due' # 0 /\ b = 0)
  BY <1>1, HostCounts DEF Inv
<1>3. RamTypeOK'
  BY LayoutAssumption DEF Inv, RamTypeOK, AdminState, States
<1>4. Agreement'
  BY <1>1, <1>2, LayoutAssumption DEF Agreement, Trapped, AdminState, AdminOperandsOf
<1> QED BY <1>3, <1>4 DEF Kept, StoreStepOK

\* The states that are left after one operand.
LEMMA OperandCounts ==
  ASSUME Inv, NEW b \in Offered, HostSent(b), ~Trapped,
         state \notin {"ANFANG", "ADMIN_CMD"}
  PROVE  /\ due \in Nat \ {0} /\ due' = due - 1 /\ due' \in Nat
         /\ expects' \in {"command", "operand"}
         /\ expects' = "command" <=> due' = 0
         /\ state \notin {"PTT_TIME", "SPEEDPOTI", "LOAD_ALL", "LOAD_EEPROM"} => due' = 0
BY HostCounts DEF Inv, Agreement

LEMMA LastOperandAgrees ==
  ASSUME Inv, NEW b \in Offered, HostSent(b), ~Trapped,
         state \notin {"ANFANG", "ADMIN_CMD", "PTT_TIME", "SPEEDPOTI", "LOAD_ALL", "LOAD_EEPROM"},
         state' = "ANFANG"
  PROVE  Agreement'
BY OperandCounts DEF Agreement, Trapped

LEMMA TrappedAgrees ==
  ASSUME Inv, NEW b \in Offered, HostSent(b), Trapped, state' = state
  PROVE  Agreement'
<1>1. due' \in Nat /\ expects' \in {"command", "admin", "calibration", "operand"}
      /\ (expects' = "command" <=> due' = 0)
  BY HostCounts DEF Inv
<1> QED BY <1>1 DEF Agreement, Trapped

LEMMA IgnoredKeeps ==
  ASSUME Inv, NEW b \in Offered, Ignored, HostSent(b) PROVE Kept
<1> USE DEF Ignored
<1>1. ~Trapped
  BY DEF Trapped, IgnoringStates
<1>2. RamTypeOK'
  BY DEF Inv, RamTypeOK, States
<1>3. Agreement'
  BY <1>1, LastOperandAgrees DEF IgnoringStates
<1> QED BY <1>2, <1>3 DEF Kept, StoreStepOK

LEMMA EchoLoopbackKeeps ==
  ASSUME Inv, NEW b \in Offered, EchoLoopback(b), HostSent(b) PROVE Kept
<1> USE DEF EchoLoopback
<1>1. ~Trapped
  BY DEF Trapped, IgnoringStates
<1>2. RamTypeOK'
  BY DEF Inv, RamTypeOK, States
<1>3. Agreement'
  BY <1>1, LastOperandAgrees DEF IgnoringStates
<1> QED BY <1>2, <1>3 DEF Kept, StoreStepOK

LEMMA CalibrateKeeps ==
  ASSUME Inv, NEW b \in Offered, Calibrate(b), HostSent(b) PROVE Kept
<1> USE DEF Calibrate
<1>1. ~Trapped
  BY DEF Trapped
<1>2. state' = "ANFANG"
  BY <1>1, OfferedBytes
<1>3. RamTypeOK'
  BY <1>2 DEF Inv, RamTypeOK, States
<1>4. Agreement'
  BY <1>1, <1>2, LastOperandAgrees
<1> QED BY <1>3, <1>4 DEF Kept, StoreStepOK

LEMMA SidetoneKeeps ==
  ASSUME Inv, NEW b \in Offered, Sidetone, HostSent(b) PROVE Kept
<1> USE DEF Sidetone
<1>1. RamTypeOK'
  BY DEF Inv, RamTypeOK, ramVars
<1>2. Agreement'
  BY TrappedAgrees DEF Trapped, ramVars
<1> QED BY <1>1, <1>2 DEF Kept, StoreStepOK

LEMMA SoftwarePaddleKeeps ==
  ASSUME Inv, NEW b \in Offered, SoftwarePaddle(b), HostSent(b) PROVE Kept
<1> USE DEF SoftwarePaddle
<1>1. RamTypeOK'
  BY TextAssumption DEF Inv, RamTypeOK
<1>2. Agreement'
  BY TrappedAgrees DEF Trapped
<1> QED BY <1>1, <1>2 DEF Kept, StoreStepOK

LEMMA CountdownKeeps ==
  ASSUME Inv, NEW b \in Offered, Countdown, HostSent(b) PROVE Kept
<1> USE DEF Countdown
<1>1. ~Trapped
  BY DEF Trapped
<1>2. parameter = due /\ due \in Nat \ {0} /\ due' = due - 1
      /\ expects' \in {"command", "operand"} /\ (expects' = "command" <=> due' = 0)
  BY <1>1, OperandCounts DEF Inv, Agreement
<1>3. RamTypeOK'
  BY <1>2, SizeAssumption DEF Inv, RamTypeOK, States
<1>4. Agreement'
  BY <1>2 DEF Agreement, Trapped
<1> QED BY <1>3, <1>4 DEF Kept, StoreStepOK

\* A speed or a mode that is put into the configuration leaves it one.
LEMMA ConfigurationPut ==
  ASSUME NEW c \in Configuration, NEW p \in Place, NEW v \in Byte
  PROVE  [c EXCEPT ![p] = v] \in Configuration
BY DEF Configuration

LEMMA SettingsFit ==
  /\ MODE \in Place /\ WPM \in Place /\ MODE # WPM
  /\ \A v \in Byte : Clamp(v) \in Byte
BY SizeAssumption, SpeedAssumption DEF Place, MODE, WPM, Clamp

LEMMA InstallIsStep ==
  ASSUME NEW c \in Configuration, Install(c) PROVE StoreStepOK
BY DEF StoreStepOK, StoreNext

LEMMA WpmSpeedKeeps ==
  ASSUME Inv, NEW b \in Offered, WpmSpeed(b), HostSent(b) PROVE Kept
<1> USE DEF WpmSpeed
<1>1. ~Trapped
  BY DEF Trapped
<1>2. b \in Byte
  BY <1>1, OfferedBytes
<1>3. DefaultConfiguration' \in Configuration
  BY <1>2, ConfigurationPut, SettingsFit DEF Inv, RamTypeOK
<1>4. RamTypeOK'
  BY <1>3 DEF Inv, RamTypeOK, States
<1>5. Agreement'
  BY <1>1, LastOperandAgrees
<1>6. [active EXCEPT ![WPM] = Clamp(b)] \in Configuration
  BY <1>2, ConfigurationPut, SettingsFit DEF Inv, StoreInv, StoreTypeOK
<1>7. StoreStepOK
  BY <1>6, InstallIsStep
<1> QED BY <1>4, <1>5, <1>7 DEF Kept

LEMMA SetKeymodeKeeps ==
  ASSUME Inv, NEW b \in Offered, SetKeymode(b), HostSent(b) PROVE Kept
<1> USE DEF SetKeymode
<1>1. ~Trapped
  BY DEF Trapped
<1>2. DefaultConfiguration' \in Configuration
  BY <1>1, OfferedBytes, ConfigurationPut, SettingsFit DEF Inv, RamTypeOK
<1>3. RamTypeOK'
  BY <1>2 DEF Inv, RamTypeOK, States
<1>4. Agreement'
  BY <1>1, LastOperandAgrees
<1> QED BY <1>3, <1>4 DEF Kept, StoreStepOK

LEMMA LoadAllKeeps ==
  ASSUME Inv, NEW b \in Offered, LoadAll(b), HostSent(b) PROVE Kept
<1> USE DEF LoadAll
<1>1. ~Trapped
  BY DEF Trapped
<1>2. parameter = due /\ due \in Nat \ {0} /\ due < ConfigSize /\ due' = due - 1
      /\ expects' \in {"command", "operand"} /\ (expects' = "command" <=> due' = 0)
  BY <1>1, OperandCounts DEF Inv, Agreement
<1>3. ConfigSize - parameter \in Place
  BY <1>2, SizeAssumption DEF Place
<1>4. DefaultConfiguration' \in Configuration
  <2>1. b \in Byte
    BY <1>1, OfferedBytes
  <2> QED BY <1>3, <2>1, ConfigurationPut DEF Inv, RamTypeOK
<1>5. parameter' \in 0 .. ConfigSize + 2
  BY <1>2, SizeAssumption
<1>6. RamTypeOK'
  BY <1>4, <1>5 DEF Inv, RamTypeOK, States
<1>7. Agreement'
  BY <1>2, SizeAssumption DEF Agreement, Trapped
<1> QED BY <1>6, <1>7 DEF Kept, StoreStepOK

LEMMA LoadEepromKeeps ==
  ASSUME Inv, NEW b \in Offered, LoadEeprom(b), HostSent(b) PROVE Kept
<1> USE DEF LoadEeprom
<1>1. ~Trapped
  BY DEF Trapped
<1>2. eeprom_ptr = EepromSize - due /\ due \in Nat \ {0} /\ due' = due - 1
      /\ expects' \in {"command", "operand"} /\ (expects' = "command" <=> due' = 0)
  BY <1>1, OperandCounts DEF Inv, Agreement
<1>3. eeprom_ptr' \in 0 .. EepromSize
  BY <1>2, LayoutAssumption DEF Inv, RamTypeOK
<1>4. RamTypeOK'
  BY <1>3 DEF Inv, RamTypeOK, States
<1>5. Agreement'
  BY <1>2, LayoutAssumption DEF Agreement, Trapped
<1> QED BY <1>4, <1>5 DEF Kept, StoreStepOK

LEMMA ReceiveKeeps == ASSUME Inv, Receive PROVE Kept
<1>1. PICK b \in Offered : Decoder(b) /\ HostSent(b)
  BY DEF Receive
<1>2. CASE Text(b) \/ Command(b) \/ Query(b) \/ Admin(b)
  BY <1>1, <1>2, TextKeeps, CommandKeeps, QueryKeeps, AdminKeeps
<1>3. CASE Ignored \/ Sidetone \/ SoftwarePaddle(b) \/ Countdown
  BY <1>1, <1>3, IgnoredKeeps, SidetoneKeeps, SoftwarePaddleKeeps, CountdownKeeps
<1>4. CASE WpmSpeed(b) \/ SetKeymode(b) \/ LoadAll(b)
  BY <1>1, <1>4, WpmSpeedKeeps, SetKeymodeKeeps, LoadAllKeeps
<1>5. CASE LoadEeprom(b) \/ EchoLoopback(b) \/ Calibrate(b)
  BY <1>1, <1>5, LoadEepromKeeps, EchoLoopbackKeeps, CalibrateKeeps
<1> QED BY <1>1, <1>2, <1>3, <1>4, <1>5 DEF Decoder, Operand

-----------------------------------------------------------------------------
(* The other actions                                                        *)

LEMMA StartAgrees == RamCleared => RamTypeOK' /\ Agreement'
BY SizeAssumption, LayoutAssumption, TextAssumption, DefaultsFit
   DEF RamCleared, RamTypeOK, Agreement, Trapped, States

\* A reset by the watchdog is a power failure that spoils nothing.
LEMMA RestartIsStep ==
  Reset \/ PowerLost => PowerFails /\ RamCleared
BY DEF Reset, PowerLost, PowerFails, Torn

\* The actions that leave decoder and host where they are.
LEMMA QuietKeeps ==
  ASSUME Inv, Save \/ UpdateConfig \/ DumpByte \/ SendReply \/ StoreStep \/ KeyerTakes
  PROVE  Kept
<1>1. CASE Save
  <2>1. StoreStepOK
    BY <1>1 DEF Save, Inv, RamTypeOK, StoreStepOK, StoreNext
  <2> QED BY <1>1, <2>1 DEF Save, Kept, Inv, RamTypeOK, Agreement, Trapped, hostVars
<1>2. CASE UpdateConfig
  <2>1. StoreStepOK
    BY <1>2, InstallIsStep DEF UpdateConfig, Inv, RamTypeOK
  <2> QED BY <1>2, <2>1 DEF UpdateConfig, Kept, Inv, RamTypeOK, Agreement, Trapped, hostVars
<1>3. CASE DumpByte
  <2>1. dump' \in 0 .. EepromSize
    BY <1>3, LayoutAssumption DEF DumpByte, Inv, RamTypeOK
  <2> QED BY <1>3, <2>1 DEF DumpByte, Kept, StoreStepOK, Inv, RamTypeOK, Agreement, Trapped,
                            hostVars
<1>4. CASE SendReply
  BY <1>4 DEF SendReply, Kept, StoreStepOK, Inv, RamTypeOK, Agreement, Trapped, hostVars
<1>5. CASE StoreStep
  <2>1. StoreStepOK
    BY <1>5 DEF StoreStep, StoreStepOK, StoreNext
  <2> QED BY <1>5, <2>1 DEF StoreStep, Kept, Inv, RamTypeOK, Agreement, Trapped, decoderVars,
                            ramVars, hostVars
<1>6. CASE KeyerTakes
  <2>1. text' \in 0 .. AsciiSize
    BY <1>6, TextAssumption DEF KeyerTakes, Inv, RamTypeOK
  <2> QED BY <1>6, <2>1 DEF KeyerTakes, Kept, StoreStepOK, Inv, RamTypeOK, Agreement, Trapped,
                            hostVars
<1> QED BY <1>1, <1>2, <1>3, <1>4, <1>5, <1>6

\* Every step of the decoder is a step of the store, or leaves it alone.
LEMMA NextKeeps == ASSUME Inv, [Next]_vars PROVE Kept
<1>1. CASE Receive
  BY <1>1, ReceiveKeeps
<1>2. CASE Save \/ UpdateConfig \/ DumpByte \/ SendReply \/ StoreStep \/ KeyerTakes
  BY <1>2, QuietKeeps
<1>3. CASE Reset \/ PowerLost
  <2>1. PowerFails /\ RamCleared
    BY <1>3, RestartIsStep
  <2>2. RamTypeOK' /\ Agreement'
    BY <2>1, StartAgrees
  <2> QED BY <2>1, <2>2 DEF Kept, StoreStepOK, StoreNext
<1>4. CASE UNCHANGED vars
  BY <1>4 DEF vars, decoderVars, ramVars, hostVars, Kept, StoreStepOK, Inv, RamTypeOK,
              Agreement, Trapped
<1> QED BY <1>1, <1>2, <1>3, <1>4 DEF Next

LEMMA InvInit == Init => Inv
<1> SUFFICES ASSUME Init PROVE Inv
  OBVIOUS
<1>1. StoreInv
  BY InitInv DEF Init
<1>2. RamTypeOK /\ Agreement
  BY SizeAssumption, LayoutAssumption, TextAssumption, DefaultsFit
     DEF Init, RamTypeOK, Agreement, Trapped, States
<1> QED BY <1>1, <1>2 DEF Inv

LEMMA InvStep == Inv /\ [Next]_vars => Inv' /\ StoreStepOK
<1> SUFFICES ASSUME Inv, [Next]_vars PROVE Inv' /\ StoreStepOK
  OBVIOUS
<1>1. Kept
  BY NextKeeps
<1>2. StoreInv'
  BY <1>1, StepInv DEF Kept, StoreStepOK, Inv
<1> QED BY <1>1, <1>2 DEF Kept, Inv

LEMMA AlwaysInv == Spec => []Inv
BY InvInit, InvStep, PTL DEF Spec

\* Whatever the host sends, the variables keep their types: no operand is put
\* beyond the configuration or the emulated EEPROM.
THEOREM DecoderTypeCorrect == Spec => []DecoderTypeOK
<1>1. Inv => DecoderTypeOK
  BY DEF Inv, StoreInv, DecoderTypeOK
<1> QED BY <1>1, AlwaysInv, PTL

\* Decoder and host agree on what comes next.
THEOREM InStepCorrect == Spec => []InStep
<1>1. Inv => InStep
  BY DEF Inv, Agreement, InStep
<1> QED BY <1>1, AlwaysInv, PTL

\* The decoder uses the store as it may be used: what is proved of the store,
\* Refinement above all, holds under every host.
THEOREM DecoderUsesStore == Spec => StoreSpec
<1>1. Init => StoreInit
  BY DEF Init
<1>2. Inv /\ [Next]_vars => [StoreNext]_storeVars
  BY InvStep DEF StoreStepOK
<1> QED BY <1>1, <1>2, AlwaysInv, PTL DEF Spec, StoreSpec

\* The keyer as a whole starts with the configuration that was stored last.
THEOREM DecoderIsAtomic == Spec => IsAtomicStore
BY DecoderUsesStore, Refinement, PTL

\* What was stored last is whole whenever the decoder works, and a start finds
\* it or none.
THEOREM DecoderStoresWhole == Spec => []StoredWhole
BY DecoderUsesStore, StoredWholeCorrect, PTL

-----------------------------------------------------------------------------
(* Flow control                                                              *)

LEMMA FlowStep == Inv /\ FlowControl /\ [Next]_vars => FlowControl'
<1> SUFFICES ASSUME Inv, FlowControl, [Next]_vars PROVE FlowControl'
  OBVIOUS
<1> USE TextAssumption DEF FlowControl, Inv, RamTypeOK
<1>1. ASSUME NEW b \in Offered, Decoder(b) PROVE FlowControl'
  <2>1. CASE Text(b)
    BY <2>1 DEF Text
  <2>2. CASE Query(b)
    <3>1. CASE b = 21
      <4>1. text' = text /\ reply' = Status /\ credit' = IF reply' = XOFF THEN 0 ELSE XoffFree
        BY <2>2, <3>1 DEF Query
      <4>2. credit' # 0 => credit' = XoffFree /\ ~(AsciiSize - text < XoffFree)
        BY <4>1 DEF Status, XOFF
      <4> QED BY <4>1, <4>2
    <3>2. CASE b # 21
      <4>1. credit' = credit /\ (text' = text \/ text' = 0)
        BY <2>2, <3>2 DEF Query
      <4> QED BY <4>1
    <3> QED BY <3>1, <3>2
  <2>3. CASE Command(b) \/ Admin(b)
    BY <2>3 DEF Command, Admin
  <2>4. CASE Ignored \/ Sidetone \/ SoftwarePaddle(b) \/ Countdown
    BY <2>4 DEF Ignored, Sidetone, SoftwarePaddle, Countdown, ramVars
  <2>5. CASE WpmSpeed(b) \/ SetKeymode(b) \/ LoadAll(b)
    BY <2>5 DEF WpmSpeed, SetKeymode, LoadAll
  <2>6. CASE LoadEeprom(b) \/ EchoLoopback(b) \/ Calibrate(b)
    BY <2>6 DEF LoadEeprom, EchoLoopback, Calibrate
  <2> QED BY <1>1, <2>1, <2>2, <2>3, <2>4, <2>5, <2>6 DEF Decoder, Operand
<1>2. CASE Receive
  BY <1>1, <1>2 DEF Receive
<1>3. CASE KeyerTakes
  <2>1. credit' = credit /\ (text' = text - 1 \/ text' = 0)
    BY <1>3 DEF KeyerTakes
  <2> QED BY <2>1
<1>4. CASE Save \/ UpdateConfig \/ DumpByte \/ SendReply \/ StoreStep
  BY <1>4 DEF Save, UpdateConfig, DumpByte, SendReply, StoreStep, decoderVars, ramVars
<1>5. CASE Reset \/ PowerLost
  BY <1>5, RestartIsStep DEF RamCleared
<1>6. CASE UNCHANGED vars
  BY <1>6 DEF vars, decoderVars, ramVars
<1> QED BY <1>2, <1>3, <1>4, <1>5, <1>6 DEF Next

\* As many bytes as a status without XOFF has promised find room.
THEOREM FlowControlCorrect == Spec => []FlowControl
<1>1. Init => FlowControl
  BY TextAssumption DEF Init, FlowControl
<1> QED BY <1>1, AlwaysInv, FlowStep, PTL DEF Spec

-----------------------------------------------------------------------------
(* Settings                                                                  *)

\* The settings the host has made are those of c.
Made(c) == /\ MODE \in given => active[MODE] = c[MODE]
           /\ WPM \in given => active[WPM] \in {c[WPM], Clamp(c[WPM])}

\* A setting reaches the keyer before, while or after it is stored; LOAD_ALL
\* changes the decoder's copy long before either.
Settings ==
  /\ phase \in {"starting", "recovering"} => given = {} /\ then = "nothing"
  /\ then # "nothing" => state = "ANFANG"
  /\ then \in {"save", "save_install"} => phase = "running"
  /\ then = "save" => Made(DefaultConfiguration)
  /\ phase = "saving" => /\ wparam = DefaultConfiguration /\ state = "ANFANG"
                         /\ then = "nothing" => Made(DefaultConfiguration)
  /\ phase = "running" /\ then = "install" => saved = DefaultConfiguration
  /\ phase = "running" /\ then = "nothing" /\ given # {} =>
       Made(saved) /\ (state # "LOAD_ALL" => saved = DefaultConfiguration)

LEMMA SpeedIsMade ==
  ASSUME Inv, Settings, Free, NEW b \in Offered, WpmSpeed(b) PROVE Settings'
<1> USE DEF WpmSpeed, Install, Free
<1>1. MODE \in given => active[MODE] = DefaultConfiguration[MODE]
  BY DEF Settings, Made
<1>2. /\ active'[MODE] = active[MODE] /\ DefaultConfiguration'[MODE] = DefaultConfiguration[MODE]
      /\ active'[WPM] = Clamp(b) /\ DefaultConfiguration'[WPM] = b
  BY SettingsFit DEF Inv, StoreInv, StoreTypeOK, RamTypeOK, Configuration
<1>3. Made(DefaultConfiguration)'
  BY <1>1, <1>2, SettingsFit DEF Made, Clamp
<1> QED BY <1>3 DEF Settings

LEMMA ModeIsMade ==
  ASSUME Settings, Free, NEW b \in Offered, SetKeymode(b) PROVE Settings'
BY DEF Settings, Free, SetKeymode, storeVars

LEMMA AllAreLoaded ==
  ASSUME Settings, Free, NEW b \in Offered, LoadAll(b) PROVE Settings'
<1> USE DEF LoadAll, storeVars, eepromVars, Free
<1>1. CASE parameter = 1
  BY <1>1 DEF Settings, Made
<1>2. CASE parameter # 1
  BY <1>2 DEF Settings, Made
<1> QED BY <1>1, <1>2

\* The other handlers touch neither the settings nor the store.
Untouched == UNCHANGED <<DefaultConfiguration, then, storeVars, given>>

LEMMA OthersTouchNothing ==
  ASSUME NEW b \in Offered,
         Decoder(b), ~(WpmSpeed(b) \/ SetKeymode(b) \/ LoadAll(b))
  PROVE  Untouched
<1>1. CASE Text(b) \/ Command(b) \/ Query(b) \/ Admin(b)
  BY <1>1 DEF Text, Command, Query, Admin, Untouched
<1>2. CASE Ignored \/ Sidetone \/ SoftwarePaddle(b) \/ Countdown
  BY <1>2 DEF Ignored, Sidetone, SoftwarePaddle, Countdown, ramVars, Untouched
<1>3. CASE LoadEeprom(b) \/ EchoLoopback(b) \/ Calibrate(b)
  BY <1>3 DEF LoadEeprom, EchoLoopback, Calibrate, Untouched
<1> QED BY <1>1, <1>2, <1>3 DEF Decoder, Operand

LEMMA OnlyLoadAllLeavesIt ==
  ASSUME NEW b \in Offered, Decoder(b), ~LoadAll(b) PROVE state # "LOAD_ALL"
BY DEF Decoder, Operand, Text, Command, Query, Admin, Ignored, Sidetone, SoftwarePaddle,
       Countdown, WpmSpeed, SetKeymode, LoadEeprom, EchoLoopback, Calibrate, IgnoringStates

LEMMA SettingsReceive == ASSUME Inv, Settings, Receive PROVE Settings'
<1>1. PICK b \in Offered : Decoder(b) /\ HostSent(b)
  BY DEF Receive
<1>2. Free
  BY DEF Receive
<1>3. CASE WpmSpeed(b) \/ SetKeymode(b) \/ LoadAll(b)
  BY <1>2, <1>3, SpeedIsMade, ModeIsMade, AllAreLoaded
<1>4. CASE ~(WpmSpeed(b) \/ SetKeymode(b) \/ LoadAll(b))
  <2>1. Untouched /\ state # "LOAD_ALL"
    BY <1>1, <1>4, OthersTouchNothing, OnlyLoadAllLeavesIt
  <2> QED BY <1>2, <2>1 DEF Untouched, storeVars, Settings, Made, Free
<1> QED BY <1>3, <1>4

LEMMA SettingsStore ==
  ASSUME Inv, Settings, StoreStep PROVE Settings'
<1> USE DEF StoreStep, decoderVars, ramVars
<1>1. CASE WriteByte \/ WriteCrcLo
  BY <1>1 DEF WriteByte, WriteCrcLo, Settings, Made
<1>2. CASE WriteCrcHi
  <2>1. phase = "recovering" => given = {} /\ then = "nothing"
    BY DEF Settings
  <2>2. phase = "saving" => active' = active
    BY <1>2 DEF WriteCrcHi
  <2>3. phase \in {"saving", "recovering"}
    BY <1>2 DEF WriteCrcHi, Writing
  <2> QED BY <1>2, <2>1, <2>2, <2>3 DEF WriteCrcHi, Settings, Made
<1>3. CASE LoadStored
  BY <1>3 DEF LoadStored, Settings, Made
<1>4. CASE LoadDefaults
  BY <1>4 DEF LoadDefaults, Settings, Made
<1> QED BY <1>1, <1>2, <1>3, <1>4 DEF Write

LEMMA SettingsStep == Inv /\ Settings /\ [Next]_vars => Settings'
<1> SUFFICES ASSUME Inv, Settings, [Next]_vars PROVE Settings'
  OBVIOUS
<1>1. CASE Receive
  BY <1>1, SettingsReceive
<1>2. CASE Save
  BY <1>2 DEF Save, save_configuration, StartWriting, Settings, Made
<1>3. CASE UpdateConfig
  <2>1. active' = DefaultConfiguration /\ saved' = DefaultConfiguration
    BY <1>3 DEF UpdateConfig, Install, Settings
  <2> QED BY <1>3, <2>1 DEF UpdateConfig, Install, Settings, Made
<1>4. CASE DumpByte \/ SendReply \/ KeyerTakes
  BY <1>4 DEF DumpByte, SendReply, KeyerTakes, storeVars, eepromVars, Settings, Made
<1>5. CASE StoreStep
  BY <1>5, SettingsStore
<1>6. CASE Reset \/ PowerLost
  BY <1>6, RestartIsStep DEF PowerFails, Restarted, RamCleared, Settings
<1>7. CASE UNCHANGED vars
  BY <1>7 DEF vars, decoderVars, ramVars, storeVars, eepromVars, Settings, Made
<1> QED BY <1>1, <1>2, <1>3, <1>4, <1>5, <1>6, <1>7 DEF Next

\* A host that has made both settings finds both again after a power failure.
THEOREM SettingsSurviveCorrect == Spec => []SettingsSurvive
<1>1. Init => Settings
  BY DEF Init, StoreInit, Settings
<1>2. Settings => SettingsSurvive
  BY DEF Settings, SettingsSurvive, Made
<1> QED BY <1>1, <1>2, AlwaysInv, SettingsStep, PTL DEF Spec
=============================================================================
