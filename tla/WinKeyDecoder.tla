---------------------------- MODULE WinKeyDecoder ----------------------------
(***************************************************************************)
(* Decoder() of WinKeyDecoder/WinKeyDecoder.c: bytes of the host are text,  *)
(* commands, or operands of the command before them.  The main loop hands   *)
(* over one byte at a time and sends the decoder's reply before the next.   *)
(* DefaultConfiguration is the decoder's copy of the configuration in RAM,  *)
(* the store is ConfigStore's, the text queue is kept as its length.        *)
(*                                                                           *)
(* The host is an observer with a count of its own of the operands it still *)
(* has to send, and with the number of text bytes it may send after it has  *)
(* asked for the buffer status.                                              *)
(***************************************************************************)
EXTENDS ConfigStore

CONSTANTS AsciiSize,    \* of the text queue, 128
          XoffFree,     \* free bytes below which XOFF is reported, 42
          EepromSize,   \* of the emulated WinKey EEPROM, 256
          E2END,        \* last address of the EEPROM, 1023
          MAXWPM,       \* SetWPM's limit, 100
          Opening,      \* text and commands the host may send,
          AdminCodes,   \* codes after the admin command,
          Operands      \* and operands

ASSUME TextAssumption  == AsciiSize \in Nat \ {0} /\ XoffFree \in 1 .. AsciiSize
ASSUME SpeedAssumption == MAXWPM \in Byte /\ 1 \in Byte /\ Byte \subseteq Nat
\* The emulated EEPROM lies between the configuration and its CRC.
ASSUME LayoutAssumption == EepromSize \in Nat \ {0} /\ ConfigSize + EepromSize <= E2END - 1
ASSUME HostAssumption  == Opening \subseteq 0 .. 255 /\ AdminCodes \subseteq 0 .. 255
                          /\ Operands \subseteq Byte

VARIABLES
  state, parameter,     \* current_state
  eeprom_ptr,           \* where LOAD_EEPROM writes next
  DefaultConfiguration,
  then,                 \* what the handler still does: "nothing", "save", "save_install", "install"
  text,                 \* bytes in the text queue
  reply,                \* the byte in USARTtoUSB_Buffer, or None
  winkey,               \* the emulated EEPROM
  dump,                 \* byte a dump sends next; EepromSize if there is none
  expects, due,         \* observer: what the host sends next, and how many operands
  credit,               \* observer: text bytes the last status has allowed
  given                 \* observer: settings the host has made since the start

ramVars     == <<state, parameter, eeprom_ptr, DefaultConfiguration, then, text, reply, dump>>
hostVars    == <<expects, due>>
decoderVars == <<ramVars, winkey, hostVars, credit, given>>
vars        == <<storeVars, decoderVars>>

BufferFull == 192       \* 0b11000000, and the status of a buffer that is not full
XOFF       == 193

\* The states that take the operand of a command, first those that ignore it.
IgnoringStates == {"WEIGHT", "PAUSE", "PINCFG", "KEY_IMMEDIATE", "HSCW", "SET_WPM",
                   "EXTENSION", "KEY_COMP", "PADDLE_SP", "POINTER_CMD1", "DD_RATIO"}
States == IgnoringStates \cup
  {"ANFANG", "ADMIN_CMD", "SIDETONE", "WPM_SPEED", "PTT_TIME", "SPEEDPOTI", "SET_KEYMODE",
   "LOAD_ALL", "SW_PADDLE", "CALIBRATE", "ECHO_LOOPBACK", "LOAD_EEPROM"}
Commands ==
  {<<0, "ADMIN_CMD">>,   <<1, "SIDETONE">>,       <<2, "WPM_SPEED">>,   <<3, "WEIGHT">>,
   <<4, "PTT_TIME">>,    <<5, "SPEEDPOTI">>,      <<6, "PAUSE">>,       <<9, "PINCFG">>,
   <<11, "KEY_IMMEDIATE">>, <<12, "HSCW">>,       <<13, "SET_WPM">>,    <<14, "SET_KEYMODE">>,
   <<15, "LOAD_ALL">>,   <<16, "EXTENSION">>,     <<17, "KEY_COMP">>,   <<18, "PADDLE_SP">>,
   <<20, "SW_PADDLE">>,  <<22, "POINTER_CMD1">>,  <<23, "DD_RATIO">>}

\* Mutant of ParameterOf: one operand too few for SPEEDPOTI and LOAD_ALL.
ParameterShort(b) == IF b \in {4, 5} THEN 2
                     ELSE IF b = 15 THEN ConfigSize - 2 ELSE parameter

ParameterOf(b) == IF b = 4 THEN 2 ELSE IF b = 5 THEN 3
                  ELSE IF b = 15 THEN ConfigSize - 1 ELSE parameter

Clamp(v) == IF v < 1 THEN 1 ELSE IF v > MAXWPM THEN MAXWPM ELSE v

-----------------------------------------------------------------------------
(* ANFANG: no command is pending.                                            *)

\* insert_keybyte; a full queue drops the byte and says so.
Text(b) ==
  /\ state = "ANFANG" /\ b > 23
  /\ IF text < AsciiSize THEN text' = text + 1 /\ UNCHANGED reply
                         ELSE reply' = BufferFull /\ UNCHANGED text
  /\ credit' = IF credit = 0 THEN 0 ELSE credit - 1
  /\ UNCHANGED <<state, parameter, eeprom_ptr, DefaultConfiguration, then, dump, winkey,
                 storeVars, given>>

Command(b) ==
  /\ state = "ANFANG"
  /\ \E c \in Commands : c[1] = b /\ state' = c[2]
  /\ parameter' = ParameterOf(b)
  /\ UNCHANGED <<eeprom_ptr, DefaultConfiguration, then, text, reply, dump, winkey,
                 storeVars, credit, given>>

\* Mutant of Status: XOFF comes too late.
StatusLate == IF AsciiSize - text < XoffFree - 1 THEN XOFF ELSE BufferFull

Status == IF AsciiSize - text < XoffFree THEN XOFF ELSE BufferFull

\* The commands without operands: potentiometer, status, clear, and two that
\* do nothing.
Query(b) ==
  /\ state = "ANFANG" /\ b \in {7, 8, 10, 19, 21}
  /\ reply' = IF b = 7 THEN 16 ELSE IF b = 21 THEN Status ELSE reply
  /\ text' = IF b = 10 THEN 0 ELSE text
  /\ credit' = IF b # 21 THEN credit ELSE IF reply' = XOFF THEN 0 ELSE XoffFree
  /\ UNCHANGED <<state, parameter, eeprom_ptr, DefaultConfiguration, then, dump, winkey,
                 storeVars, given>>

-----------------------------------------------------------------------------
(* ADMIN_CMD.  Code 1 is Reset below.                                        *)

AdminState(b) == IF b = 0 THEN "CALIBRATE" ELSE IF b = 4 THEN "ECHO_LOOPBACK"
                 ELSE IF b = 13 THEN "LOAD_EEPROM" ELSE "ANFANG"
AdminReply(b) == IF b = 2 THEN 22 ELSE IF b \in 5 .. 9 THEN 0
                 ELSE IF b = 21 THEN 82 ELSE reply

Admin(b) ==
  /\ state = "ADMIN_CMD" /\ b # 1
  /\ state' = AdminState(b)
  /\ eeprom_ptr' = IF b = 13 THEN 0 ELSE eeprom_ptr
  /\ dump' = IF b = 12 THEN 0 ELSE dump
  /\ reply' = AdminReply(b)
  /\ UNCHANGED <<parameter, DefaultConfiguration, then, text, winkey, storeVars,
                 credit, given>>

-----------------------------------------------------------------------------
(* The states that take operands.                                            *)

Ignored ==
  /\ state \in IgnoringStates
  /\ state' = "ANFANG"
  /\ UNCHANGED <<parameter, eeprom_ptr, DefaultConfiguration, then, text, reply, dump,
                 winkey, storeVars, credit, given>>

\* SIDETONE has an empty case.
Sidetone ==
  /\ state = "SIDETONE"
  /\ UNCHANGED <<ramVars, winkey, storeVars, credit, given>>

\* Morse_FSM_Force_Dit and Morse_FSM_Force_Dah empty the text queue.
SoftwarePaddle(b) ==
  /\ state = "SW_PADDLE"
  /\ text' = IF b \in {1, 2} THEN 0 ELSE text
  /\ UNCHANGED <<state, parameter, eeprom_ptr, DefaultConfiguration, then, reply, dump,
                 winkey, storeVars, credit, given>>

\* PTT_TIME and SPEEDPOTI count their operands.
Countdown ==
  /\ state \in {"PTT_TIME", "SPEEDPOTI"}
  /\ IF parameter > 1 THEN parameter' = parameter - 1 /\ UNCHANGED state
                      ELSE parameter' = 0 /\ state' = "ANFANG"
  /\ UNCHANGED <<eeprom_ptr, DefaultConfiguration, then, text, reply, dump, winkey,
                 storeVars, credit, given>>

\* SetWPM and then save_configuration, of a copy with this speed.
WpmSpeed(b) ==
  /\ state = "WPM_SPEED"
  /\ state' = "ANFANG" /\ then' = "save"
  /\ DefaultConfiguration' = [DefaultConfiguration EXCEPT ![WPM] = b]
  /\ Install([active EXCEPT ![WPM] = Clamp(b)])
  /\ given' = given \cup {WPM}
  /\ UNCHANGED <<parameter, eeprom_ptr, text, reply, dump, winkey, credit>>

\* Mutant of SetKeymode: the new mode is not put into the copy that is stored.
SetKeymodeLate(b) ==
  /\ state = "SET_KEYMODE"
  /\ state' = "ANFANG" /\ then' = "save"
  /\ Install([active EXCEPT ![MODE] = b])
  /\ given' = given \cup {MODE}
  /\ UNCHANGED <<parameter, eeprom_ptr, DefaultConfiguration, text, reply, dump, winkey,
                 credit>>

\* save_configuration and then Morse_FSM_Update_Config.
SetKeymode(b) ==
  /\ state = "SET_KEYMODE"
  /\ state' = "ANFANG" /\ then' = "save_install"
  /\ DefaultConfiguration' = [DefaultConfiguration EXCEPT ![MODE] = b]
  /\ given' = given \cup {MODE}
  /\ UNCHANGED <<parameter, eeprom_ptr, text, reply, dump, winkey, storeVars, credit>>

\* The operands come in the order of the places; the last one is followed by
\* save_configuration.
LoadAll(b) ==
  /\ state = "LOAD_ALL"
  /\ DefaultConfiguration' = [DefaultConfiguration EXCEPT ![ConfigSize - parameter] = b]
  /\ parameter' = parameter - 1
  /\ IF parameter = 1 THEN state' = "ANFANG" /\ then' = "save" /\ given' = {}
                      ELSE UNCHANGED <<state, then, given>>
  /\ UNCHANGED <<eeprom_ptr, text, reply, dump, winkey, storeVars, credit>>

\* Mutant of LoadEeprom: one byte more.
LoadOneMore(b) ==
  /\ state = "LOAD_EEPROM"
  /\ winkey' = [winkey EXCEPT ![eeprom_ptr] = b]
  /\ eeprom_ptr' = eeprom_ptr + 1
  /\ state' = IF eeprom_ptr + 1 > EepromSize THEN "ANFANG" ELSE state
  /\ UNCHANGED <<parameter, DefaultConfiguration, then, text, reply, dump, storeVars,
                 credit, given>>

\* WinkeyEEPROMwrite(eeprom_ptr++, b)
LoadEeprom(b) ==
  /\ state = "LOAD_EEPROM"
  /\ winkey' = [winkey EXCEPT ![eeprom_ptr] = b]
  /\ eeprom_ptr' = eeprom_ptr + 1
  /\ state' = IF eeprom_ptr + 1 > EepromSize - 1 THEN "ANFANG" ELSE state
  /\ UNCHANGED <<parameter, DefaultConfiguration, then, text, reply, dump, storeVars,
                 credit, given>>

EchoLoopback(b) ==
  /\ state = "ECHO_LOOPBACK"
  /\ state' = "ANFANG" /\ reply' = b
  /\ UNCHANGED <<parameter, eeprom_ptr, DefaultConfiguration, then, text, dump, winkey,
                 storeVars, credit, given>>

Calibrate(b) ==
  /\ state = "CALIBRATE"
  /\ state' = IF b = 255 THEN "ANFANG" ELSE state
  /\ UNCHANGED <<parameter, eeprom_ptr, DefaultConfiguration, then, text, reply, dump,
                 winkey, storeVars, credit, given>>

Operand(b) ==
  \/ Ignored \/ Sidetone \/ SoftwarePaddle(b) \/ Countdown
  \/ WpmSpeed(b) \/ SetKeymode(b) \/ LoadAll(b)
  \/ LoadEeprom(b) \/ EchoLoopback(b) \/ Calibrate(b)

-----------------------------------------------------------------------------
(* The host: the operands that a command is said to have.  For the pointer   *)
(* command 0x16 and the admin codes 0x0E, 0x0F, 0x13 and 0x16 the repository *)
(* says it nowhere but in Decoder() itself, so their counts here are the     *)
(* decoder's, and InStep cannot find them wrong.                             *)

OperandsOf(b) == IF b = 4 THEN 2 ELSE IF b = 5 THEN 3 ELSE IF b = 15 THEN ConfigSize - 1
                 ELSE IF b \in {7, 8, 10, 19, 21} \/ b > 23 THEN 0 ELSE 1
AdminOperandsOf(b) == IF b \in {0, 4} THEN 1 ELSE IF b = 13 THEN EepromSize ELSE 0

HostSent(b) ==
  /\ due' = IF expects = "command" THEN OperandsOf(b)
            ELSE IF expects = "admin" THEN AdminOperandsOf(b) ELSE due - 1
  /\ expects' = IF due' = 0 THEN "command"
                ELSE IF expects = "command" /\ b = 0 THEN "admin"
                ELSE IF expects = "admin" /\ b = 0 THEN "calibration" ELSE "operand"

Offered == IF expects = "command" THEN Opening ELSE IF expects = "admin" THEN AdminCodes
           ELSE IF expects = "calibration" THEN {255} ELSE Operands

-----------------------------------------------------------------------------
(* The main loop.                                                            *)

\* It decodes a byte when the last one's reply has gone out.
Free == phase = "running" /\ then = "nothing" /\ reply = None /\ dump = EepromSize

Decoder(b) == Text(b) \/ Command(b) \/ Query(b) \/ Admin(b) \/ Operand(b)

Receive == Free /\ \E b \in Offered : Decoder(b) /\ HostSent(b)

\* What is left of a handler after its assignments.
Save ==
  /\ then \in {"save", "save_install"}
  /\ save_configuration(DefaultConfiguration)
  /\ then' = IF then = "save" THEN "nothing" ELSE "install"
  /\ UNCHANGED <<state, parameter, eeprom_ptr, DefaultConfiguration, text, reply, dump,
                 winkey, hostVars, credit, given>>

UpdateConfig ==
  /\ then = "install"
  /\ Install(DefaultConfiguration)
  /\ then' = "nothing"
  /\ UNCHANGED <<state, parameter, eeprom_ptr, DefaultConfiguration, text, reply, dump,
                 winkey, hostVars, credit, given>>

\* usb_puts, once for each byte of the emulated EEPROM.
DumpByte ==
  /\ dump < EepromSize
  /\ dump' = dump + 1
  /\ UNCHANGED <<state, parameter, eeprom_ptr, DefaultConfiguration, then, text, reply,
                 winkey, storeVars, hostVars, credit, given>>

\* sende_uart_puffer(&USARTtoUSB_Buffer), after a dump if there was one.
SendReply ==
  /\ reply # None /\ dump = EepromSize /\ phase = "running"
  /\ reply' = None
  /\ UNCHANGED <<state, parameter, eeprom_ptr, DefaultConfiguration, then, text, dump,
                 winkey, storeVars, hostVars, credit, given>>

\* save_configuration and load_configuration go on.
StoreStep == (Write \/ LoadStored \/ LoadDefaults) /\ UNCHANGED decoderVars

\* The timer interrupt takes a byte, or drops all at the end of a break-in.
KeyerTakes ==
  /\ text > 0 /\ phase \in {"running", "saving"}
  /\ text' \in {0, text - 1}
  /\ UNCHANGED <<state, parameter, eeprom_ptr, DefaultConfiguration, then, reply, dump,
                 winkey, storeVars, hostVars, credit, given>>

-----------------------------------------------------------------------------
(* Restarts                                                                  *)

RamCleared ==
  /\ state' = "ANFANG" /\ parameter' = 0 /\ eeprom_ptr' = 0
  /\ DefaultConfiguration' = Zeroed /\ then' = "nothing"
  /\ text' = 0 /\ reply' = None /\ dump' = EepromSize
  /\ expects' = "command" /\ due' = 0 /\ credit' = 0 /\ given' = {}
  /\ UNCHANGED winkey

\* Admin code 1: the watchdog resets the processor.
Reset ==
  /\ Free /\ state = "ADMIN_CMD" /\ 1 \in Offered
  /\ Restarted /\ UNCHANGED <<eepromVars, saved>>
  /\ RamCleared

PowerLost == PowerFails /\ RamCleared

-----------------------------------------------------------------------------
Init ==
  /\ StoreInit
  /\ state = "ANFANG" /\ parameter = 0 /\ eeprom_ptr = 0
  /\ DefaultConfiguration = Zeroed /\ then = "nothing"
  /\ text = 0 /\ reply = None /\ dump = EepromSize
  /\ winkey = [i \in 0 .. EepromSize - 1 |-> 0]
  /\ expects = "command" /\ due = 0 /\ credit = 0 /\ given = {}

Next == Receive \/ Save \/ UpdateConfig \/ DumpByte \/ SendReply
        \/ StoreStep \/ KeyerTakes \/ Reset \/ PowerLost

Spec == Init /\ [][Next]_vars

-----------------------------------------------------------------------------
(* Properties *)

Trapped == state \in {"SIDETONE", "SW_PADDLE"}

\* Decoder and host agree on what comes next: the decoder waits for a command
\* exactly when the host has sent all operands of the last one, and a command
\* with several operands puts the next one in its own place.  Only the two
\* states that have no way out are left aside.
InStep ==
  ~Trapped =>
    /\ state = "ANFANG" <=> due = 0
    /\ state = "ADMIN_CMD" <=> expects = "admin"
    /\ state \in {"PTT_TIME", "SPEEDPOTI", "LOAD_ALL"} => parameter = due
    /\ state = "LOAD_EEPROM" => eeprom_ptr = EepromSize - due

\* A status without XOFF is a promise of XoffFree bytes: the next ones of the
\* text, whenever they come, find room.
FlowControl == credit <= AsciiSize - text

\* A host that has made both settings since the start, of the mode and of the
\* speed, finds both again after a power failure.  Either one alone is not
\* enough: the other is still zero in the copy that is stored.
SettingsSurvive ==
  phase = "running" /\ then = "nothing" /\ given = {MODE, WPM} =>
    /\ active[MODE] = saved[MODE]
    /\ active[WPM] \in {saved[WPM], Clamp(saved[WPM])}

RamTypeOK ==
  /\ state \in States
  /\ parameter \in 0 .. ConfigSize + 2 /\ eeprom_ptr \in 0 .. EepromSize
  /\ DefaultConfiguration \in Configuration
  /\ then \in {"nothing", "save", "save_install", "install"}
  /\ text \in 0 .. AsciiSize /\ dump \in 0 .. EepromSize
  /\ credit \in 0 .. XoffFree /\ given \subseteq {MODE, WPM}

DecoderTypeOK == StoreTypeOK /\ RamTypeOK

-----------------------------------------------------------------------------
(* What a comment of the code says *)

\* The operand of SIDETONE is described as one byte: enable bit and frequency.
\* After it the decoder takes commands again.
OperandsEnd == due = 0 => state = "ANFANG"
=============================================================================
