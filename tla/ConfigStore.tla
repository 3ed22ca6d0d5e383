----------------------------- MODULE ConfigStore -----------------------------
(***************************************************************************)
(* The stored configuration of WinKeyDecoder/WinKeyDecoder.c: the bytes of  *)
(* WinKeyConfig_t at the start of the EEPROM and a CRC over them in its last *)
(* word.  save_configuration writes the bytes one after the other and then   *)
(* the two halves of the CRC; load_configuration checks the CRC, and if it   *)
(* does not match sets the mode, the speed and the dit-dah ratio to default  *)
(* values and writes everything back before it installs it.  The power may   *)
(* fail, or the watchdog reset the processor, at any point; a byte that was  *)
(* being written then holds anything.                                        *)
(*                                                                           *)
(* A half of the CRC is kept as the configuration it was computed from, or   *)
(* None if it was computed from none, so the CRC of one configuration never  *)
(* matches another one.  The code's 16 bits do so for every change of up to  *)
(* two neighbouring bytes, and else but for one case in 65536.               *)
(***************************************************************************)
EXTENDS Integers

CONSTANTS Byte,         \* values of a byte
          ConfigSize,   \* sizeof(WinKeyConfig_t), 16
          RATIO,        \* place of DitDahRatio, 13
          DEFWPM, DEFRATIO,     \* the default values: 10 and 50
          Flashed,      \* what the EEPROM may hold at the very first start
          None          \* no configuration

ASSUME ByteAssumption  == 0 \in Byte /\ DEFWPM \in Byte /\ DEFRATIO \in Byte
ASSUME SizeAssumption  == ConfigSize \in Nat /\ RATIO \in 3 .. ConfigSize - 1

\* Places of WinKeyConfig_t: 0 is ConfHeader, which nothing uses.
MODE == 1
WPM  == 2
Place == 0 .. ConfigSize - 1
Configuration == [Place -> Byte]

ASSUME FlashedAssumption == Flashed \subseteq Configuration /\ None \notin Configuration

VARIABLES eeprom,           \* the bytes of the configuration
          crcLo, crcHi,     \* the CRC word
          phase,            \* "starting", "recovering", "running" or "saving"
          next,             \* the byte that is written next; then the CRC's halves
          wparam,           \* the configuration that is written
          active,           \* the configuration the keyer has been given
          saved             \* observer: the configuration that was written last

eepromVars == <<eeprom, crcLo, crcHi>>
storeVars  == <<eepromVars, phase, next, wparam, active, saved>>

Zeroed == [p \in Place |-> 0]       \* RAM after a start

\* crc_calc==stored_crc16
Matches == crcLo = eeprom /\ crcHi = eeprom

\* The configuration a start makes of bytes the CRC does not match.
WithDefaults(c) == [c EXCEPT ![MODE] = 0, ![WPM] = DEFWPM, ![RATIO] = DEFRATIO]

-----------------------------------------------------------------------------
(* Writing: the same loop in save_configuration and load_configuration.      *)

Writing == phase \in {"saving", "recovering"}
StartWriting(c) == wparam' = c /\ next' = 0

\* eeprom_update_byte
WriteByte ==
  /\ Writing /\ next < ConfigSize
  /\ eeprom' = [eeprom EXCEPT ![next] = wparam[next]]
  /\ next' = next + 1
  /\ UNCHANGED <<crcLo, crcHi, phase, wparam, active, saved>>

\* Mutant of WriteCrcLo: the low half is forgotten, as by eeprom_update_byte.
CrcLoSkipped ==
  /\ Writing /\ next = ConfigSize
  /\ next' = next + 1
  /\ UNCHANGED <<eeprom, crcLo, crcHi, phase, wparam, active, saved>>

\* eeprom_update_word, one half ...
WriteCrcLo ==
  /\ Writing /\ next = ConfigSize
  /\ crcLo' = wparam
  /\ next' = next + 1
  /\ UNCHANGED <<eeprom, crcHi, phase, wparam, active, saved>>

\* ... and the other.  load_configuration then gives the keyer what it wrote.
WriteCrcHi ==
  /\ Writing /\ next = ConfigSize + 1
  /\ crcHi' = wparam
  /\ phase' = "running" /\ next' = 0 /\ saved' = wparam
  /\ active' = IF phase = "recovering" THEN wparam ELSE active
  /\ UNCHANGED <<eeprom, crcLo, wparam>>

Write == WriteByte \/ WriteCrcLo \/ WriteCrcHi

-----------------------------------------------------------------------------
\* save_configuration: the writing begins.
save_configuration(c) ==
  /\ phase = "running"
  /\ phase' = "saving" /\ StartWriting(c)
  /\ UNCHANGED <<eepromVars, active, saved>>

\* load_configuration, the CRC matching or not.
LoadStored ==
  /\ phase = "starting" /\ Matches
  /\ phase' = "running" /\ active' = eeprom
  /\ UNCHANGED <<eepromVars, next, wparam, saved>>

\* Mutant of LoadDefaults: the defaults are used but not written back.
DefaultsUnwritten ==
  /\ phase = "starting" /\ ~Matches
  /\ phase' = "running" /\ active' = WithDefaults(eeprom)
  /\ UNCHANGED <<eepromVars, next, wparam, saved>>

LoadDefaults ==
  /\ phase = "starting" /\ ~Matches
  /\ phase' = "recovering" /\ StartWriting(WithDefaults(eeprom))
  /\ UNCHANGED <<eepromVars, active, saved>>

\* Morse_FSM_Update_Config and SetWPM, called by the decoder.
Install(c) ==
  /\ phase = "running"
  /\ active' = c
  /\ UNCHANGED <<eepromVars, phase, next, wparam, saved>>

\* What a power failure may leave of the byte that was being written: a byte
\* that does not change is not written, a half of a CRC is spoilt.
Torn ==
  \/ UNCHANGED eepromVars
  \/ /\ Writing /\ next < ConfigSize /\ eeprom[next] # wparam[next]
     /\ \E b \in Byte : eeprom' = [eeprom EXCEPT ![next] = b]
     /\ UNCHANGED <<crcLo, crcHi>>
  \/ /\ Writing /\ next = ConfigSize /\ crcLo # wparam
     /\ crcLo' = None
     /\ UNCHANGED <<eeprom, crcHi>>
  \/ /\ Writing /\ next = ConfigSize + 1 /\ crcHi # wparam
     /\ crcHi' = None
     /\ UNCHANGED <<eeprom, crcLo>>

\* The start that follows finds RAM zeroed.
Restarted ==
  /\ phase' = "starting" /\ next' = 0
  /\ wparam' = Zeroed /\ active' = Zeroed

PowerFails ==
  /\ Torn
  /\ Restarted
  /\ UNCHANGED saved

-----------------------------------------------------------------------------
\* At the very first start there is anything in the EEPROM.
StoreInit ==
  /\ eeprom \in Flashed /\ saved \in Flashed
  /\ crcHi \in {saved, None} /\ crcLo = crcHi
  /\ phase = "starting" /\ next = 0
  /\ wparam = Zeroed /\ active = Zeroed

StoreNext ==
  \/ LoadStored \/ LoadDefaults \/ Write
  \/ \E c \in Configuration : save_configuration(c) \/ Install(c)
  \/ PowerFails

StoreSpec == StoreInit /\ [][StoreNext]_storeVars

-----------------------------------------------------------------------------
(* Properties *)

StoreTypeOK ==
  /\ eeprom \in Configuration
  /\ crcLo \in Configuration \cup {None} /\ crcHi \in Configuration \cup {None}
  /\ phase \in {"starting", "recovering", "running", "saving"}
  /\ next \in 0 .. ConfigSize + 1
  /\ wparam \in Configuration /\ active \in Configuration /\ saved \in Configuration

\* Whenever the decoder is at work, what it stored last is in the EEPROM as a
\* whole with its CRC: a power failure now costs nothing.  And whatever the last
\* power failure has left, a start that installs what it finds installs what was
\* stored last: bytes of two configurations never pass for a third, and none
\* from before the last one comes back.
StoredWhole == /\ phase = "running" => Matches
               /\ phase \in {"running", "starting"} /\ Matches => eeprom = saved

\* The store is as good as one that is written at a stroke.
Stored == IF Matches THEN eeprom ELSE None
Saving == IF Writing THEN wparam ELSE None
Up     == phase \in {"running", "saving"}
Fallback == {WithDefaults(c) : c \in Configuration}

Atomic == INSTANCE AtomicStore
            WITH Default <- Fallback, stored <- Stored, last <- saved,
                 saving <- Saving, up <- Up
IsAtomicStore == Atomic!Spec
=============================================================================
