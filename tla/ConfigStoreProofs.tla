-------------------------- MODULE ConfigStoreProofs --------------------------
(***************************************************************************)
(* ConfigStore for every size of the configuration and every value of its   *)
(* bytes: what is found after a restart is what was stored last.  The        *)
(* invariant says how far a write has got, and that the CRC's high half,     *)
(* written last of all, is always that of the configuration stored last.     *)
(***************************************************************************)
EXTENDS ConfigStore, TLAPS

Progress ==
  /\ crcHi \in {saved, None}
  /\ phase = "running" => Matches /\ eeprom = saved
  /\ Writing => \A p \in Place : p < next => eeprom[p] = wparam[p]
  /\ Writing /\ next = ConfigSize + 1 => crcLo = wparam
  /\ phase = "recovering" => wparam \in Fallback

StoreInv == StoreTypeOK /\ Progress

\* The default values fit their bytes, and so does the RAM a start clears.
LEMMA DefaultsFit ==
  /\ Zeroed \in Configuration
  /\ \A c \in Configuration : WithDefaults(c) \in Fallback /\ WithDefaults(c) \in Configuration
BY ByteAssumption DEF Zeroed, Configuration, WithDefaults, Fallback

\* A CRC that matches is that of the configuration stored last.
LEMMA MatchIsSaved ==
  ASSUME StoreInv, Matches PROVE eeprom = saved
BY FlashedAssumption DEF StoreInv, StoreTypeOK, Progress, Matches

LEMMA StoredIsSaved ==
  ASSUME StoreInv PROVE Stored \in {saved, None}
BY MatchIsSaved DEF Stored

\* When all bytes are written the EEPROM holds the configuration.
LEMMA AllWritten ==
  ASSUME StoreInv, Writing, next \notin 0 .. ConfigSize - 1 PROVE eeprom = wparam
<1>1. \A p \in Place : p < next
  BY SizeAssumption DEF StoreInv, StoreTypeOK, Place
<1> QED BY <1>1 DEF StoreInv, StoreTypeOK, Progress, Configuration

LEMMA InitInv == StoreInit => StoreInv
BY FlashedAssumption, DefaultsFit, SizeAssumption
   DEF StoreInit, StoreInv, StoreTypeOK, Progress, Writing

-----------------------------------------------------------------------------
(* One lemma per action that writes.                                         *)

LEMMA WriteByteInv == ASSUME StoreInv, WriteByte PROVE StoreInv'
<1> USE DEF StoreInv, WriteByte
<1>1. next \in Place /\ wparam[next] \in Byte
  BY SizeAssumption DEF StoreTypeOK, Place, Configuration
<1>2. StoreTypeOK'
  BY <1>1, SizeAssumption DEF StoreTypeOK, Place, Configuration
<1>3. Writing' /\ phase' # "running"
  BY DEF Writing
<1>4. \A p \in Place : p < next' => eeprom'[p] = wparam'[p]
  <2> SUFFICES ASSUME NEW p \in Place, p < next' PROVE eeprom'[p] = wparam'[p]
    OBVIOUS
  <2>1. p = next \/ p < next
    BY SizeAssumption DEF StoreTypeOK, Place
  <2> QED BY <1>1, <2>1 DEF StoreTypeOK, Configuration, Progress
<1>5. next' # ConfigSize + 1
  BY SizeAssumption DEF StoreTypeOK
<1>6. Progress'
  BY <1>3, <1>4, <1>5 DEF Progress, Fallback
<1> QED BY <1>2, <1>6

LEMMA WriteCrcLoInv == ASSUME StoreInv, WriteCrcLo PROVE StoreInv'
<1> USE DEF StoreInv, WriteCrcLo
<1>1. StoreTypeOK'
  BY SizeAssumption DEF StoreTypeOK
<1>2. eeprom = wparam
  BY AllWritten, SizeAssumption
<1>3. Writing' /\ phase' # "running"
  BY DEF Writing
<1>4. Progress'
  BY <1>2, <1>3 DEF Progress, Fallback
<1> QED BY <1>1, <1>4

LEMMA WriteCrcHiInv == ASSUME StoreInv, WriteCrcHi PROVE StoreInv'
<1> USE DEF StoreInv, WriteCrcHi
<1>1. StoreTypeOK'
  BY SizeAssumption DEF StoreTypeOK
<1>2. eeprom = wparam /\ crcLo = wparam
  BY AllWritten, SizeAssumption DEF Progress
<1>3. ~Writing'
  BY DEF Writing
<1>4. Progress'
  BY <1>2, <1>3 DEF Progress, Matches
<1> QED BY <1>1, <1>4

LEMMA PowerFailsInv == ASSUME StoreInv, PowerFails PROVE StoreInv'
<1> USE DEF StoreInv, PowerFails, Restarted
<1>1. StoreTypeOK'
  BY DefaultsFit, SizeAssumption DEF StoreTypeOK, Torn, eepromVars, Configuration, Place
<1>2. crcHi' \in {saved', None}
  BY DEF Torn, eepromVars, Progress
<1>3. ~Writing' /\ phase' = "starting"
  BY DEF Writing
<1> QED BY <1>1, <1>2, <1>3 DEF Progress

LEMMA StepInv == ASSUME StoreInv, [StoreNext]_storeVars PROVE StoreInv'
<1>1. CASE LoadStored
  <2>1. eeprom = saved
    BY <1>1, MatchIsSaved DEF LoadStored
  <2> QED BY <1>1, <2>1 DEF StoreInv, LoadStored, StoreTypeOK, Progress, Matches, Writing,
                            eepromVars
<1>2. CASE LoadDefaults
  <2>1. WithDefaults(eeprom) \in Fallback /\ WithDefaults(eeprom) \in Configuration
    BY DefaultsFit DEF StoreInv, StoreTypeOK
  <2>2. next' = 0 /\ 0 \in 0 .. ConfigSize + 1 /\ \A p \in Place : ~(p < next')
    BY <1>2, SizeAssumption DEF LoadDefaults, StartWriting, Place
  <2> QED BY <1>2, <2>1, <2>2, SizeAssumption
          DEF StoreInv, LoadDefaults, StartWriting, StoreTypeOK, Progress, Writing, eepromVars,
              Fallback
<1>3. CASE Write
  BY <1>3, WriteByteInv, WriteCrcLoInv, WriteCrcHiInv DEF Write
<1>4. ASSUME NEW c \in Configuration, save_configuration(c) PROVE StoreInv'
  <2>1. next' = 0 /\ 0 \in 0 .. ConfigSize + 1 /\ \A p \in Place : ~(p < next')
    BY <1>4, SizeAssumption DEF save_configuration, StartWriting, Place
  <2> QED BY <1>4, <2>1, SizeAssumption
          DEF StoreInv, save_configuration, StartWriting, StoreTypeOK, Progress, Writing,
              eepromVars
<1>5. ASSUME NEW c \in Configuration, Install(c) PROVE StoreInv'
  BY <1>5 DEF StoreInv, Install, StoreTypeOK, Progress, Matches, Writing, eepromVars
<1>6. CASE PowerFails
  BY <1>6, PowerFailsInv
<1>7. CASE UNCHANGED storeVars
  BY <1>7 DEF StoreInv, storeVars, eepromVars, StoreTypeOK, Progress, Matches, Writing, Fallback
<1> QED
  BY <1>1, <1>2, <1>3, <1>4, <1>5, <1>6, <1>7 DEF StoreNext

\* The invariant holds of every behaviour of the store.
THEOREM StoreInvariant == StoreSpec => []StoreInv
BY InitInv, StepInv, PTL DEF StoreSpec

\* Every variable of the store has its type.
THEOREM StoreTypeCorrect == StoreSpec => []StoreTypeOK
BY StoreInvariant, PTL DEF StoreInv

\* While the decoder works the EEPROM holds what was stored last, with its CRC,
\* and a start finds the configuration stored last or none.
THEOREM StoredWholeCorrect == StoreSpec => []StoredWhole
<1>1. StoreInv => StoredWhole
  BY MatchIsSaved DEF StoreInv, Progress, StoredWhole
<1> QED BY <1>1, StoreInvariant, PTL

-----------------------------------------------------------------------------
(* Refinement                                                                *)

LEMMA InitRefines == StoreInit => Atomic!Init
<1> SUFFICES ASSUME StoreInit PROVE Atomic!Init
  OBVIOUS
<1>1. StoreInv
  BY InitInv
<1>2. Stored \in {saved, None}
  BY <1>1, StoredIsSaved
<1>3. saved \in Configuration /\ active \in Configuration
  BY <1>1 DEF StoreInv, StoreTypeOK
<1>4. Saving = None /\ Up = FALSE
  BY DEF StoreInit, Saving, Up, Writing
<1> QED BY <1>2, <1>3, <1>4 DEF Atomic!Init

LEMMA WriteRefines ==
  ASSUME StoreInv, Write PROVE Atomic!Next
<1>1. StoreInv'
  BY WriteByteInv, WriteCrcLoInv, WriteCrcHiInv DEF Write
<1>2. Writing /\ wparam \in Configuration /\ wparam # None /\ Saving = wparam
  BY FlashedAssumption DEF Write, WriteByte, WriteCrcLo, WriteCrcHi, StoreInv, StoreTypeOK,
                           Saving
<1>3. Stored' \in {saved', None}
  <2>1. ASSUME Matches' PROVE eeprom' = saved'
    BY <1>1, <2>1, FlashedAssumption DEF StoreInv, StoreTypeOK, Progress, Matches
  <2> QED BY <2>1 DEF Stored
<1>4. CASE WriteByte \/ WriteCrcLo
  <2>1. saved' = saved /\ active' = active /\ Up' = Up /\ Saving' = Saving
    BY <1>4 DEF WriteByte, WriteCrcLo, Up, Saving, Writing
  <2> QED BY <1>2, <1>3, <2>1 DEF Atomic!Next, Atomic!Overwrite
<1>5. CASE WriteCrcHi
  <2>1. eeprom = wparam /\ crcLo = wparam
    BY <1>2, <1>5, AllWritten, SizeAssumption DEF WriteCrcHi, StoreInv, Progress
  <2>2. Stored' = wparam /\ saved' = wparam
    BY <1>5, <2>1 DEF WriteCrcHi, Stored, Matches
  <2>3. Saving' = None /\ Up' = TRUE
    BY <1>5 DEF WriteCrcHi, Saving, Up, Writing
  <2>4. active' = IF Up THEN active ELSE wparam
    BY <1>2, <1>5 DEF WriteCrcHi, Up, Writing
  <2> QED BY <1>2, <2>2, <2>3, <2>4 DEF Atomic!Next, Atomic!Saved
<1> QED BY <1>4, <1>5 DEF Write

LEMMA FailureRefines ==
  ASSUME StoreInv, PowerFails PROVE Atomic!Next
<1>1. StoreInv'
  BY PowerFailsInv
<1>2. Stored' \in {saved, None} /\ saved' = saved
  <2>1. ASSUME Matches' PROVE eeprom' = saved'
    BY <1>1, <2>1, FlashedAssumption DEF StoreInv, StoreTypeOK, Progress, Matches
  <2> QED BY <2>1 DEF Stored, PowerFails
<1>3. Up' = FALSE /\ Saving' = None /\ active' \in Configuration
  BY <1>1 DEF PowerFails, Restarted, Up, Saving, Writing, StoreInv, StoreTypeOK
<1>4. CASE Writing
  <2>1. Saving # None
    BY <1>4, FlashedAssumption DEF Saving, StoreInv, StoreTypeOK
  <2> QED BY <1>2, <1>3, <2>1 DEF Atomic!Next, Atomic!Fails
<1>5. CASE ~Writing
  <2>1. Saving = None
    BY <1>5 DEF Saving
  <2>2. Stored' = Stored
    BY <1>5 DEF PowerFails, Torn, eepromVars, Stored, Matches
  <2> QED BY <1>2, <1>3, <2>1, <2>2 DEF Atomic!Next, Atomic!Fails
<1> QED BY <1>4, <1>5

LEMMA StepRefines ==
  ASSUME StoreInv, [StoreNext]_storeVars PROVE [Atomic!Next]_Atomic!vars
<1>1. CASE LoadStored
  <2>1. Stored = eeprom /\ eeprom # None /\ Stored' = Stored
    BY <1>1, FlashedAssumption
       DEF LoadStored, eepromVars, Stored, Matches, StoreInv, StoreTypeOK
  <2>2. ~Up /\ Up' = TRUE /\ Saving = None /\ Saving' = None
    BY <1>1 DEF LoadStored, Up, Saving, Writing
  <2> QED BY <1>1, <2>1, <2>2 DEF LoadStored, Atomic!Next, Atomic!Load
<1>2. CASE LoadDefaults
  <2>1. WithDefaults(eeprom) \in Fallback /\ WithDefaults(eeprom) \in Configuration
    BY DefaultsFit DEF StoreInv, StoreTypeOK
  <2>2. Stored = None /\ Stored' = None
    BY <1>2 DEF LoadDefaults, eepromVars, Stored, Matches
  <2>3. ~Up /\ Up' = Up /\ Saving = None /\ Saving' = WithDefaults(eeprom)
    BY <1>2 DEF LoadDefaults, StartWriting, Up, Saving, Writing
  <2> QED BY <1>2, <2>1, <2>2, <2>3 DEF LoadDefaults, Atomic!Next, Atomic!FallBack
<1>3. CASE Write
  BY <1>3, WriteRefines
<1>4. ASSUME NEW c \in Configuration, save_configuration(c) PROVE Atomic!Next
  <2>1. Stored' = Stored /\ Up /\ Up' = Up /\ Saving = None /\ Saving' = c
    BY <1>4 DEF save_configuration, StartWriting, eepromVars, Stored, Matches, Up, Saving,
                Writing
  <2> QED BY <1>4, <2>1 DEF save_configuration, Atomic!Next, Atomic!Save
<1>5. ASSUME NEW c \in Configuration, Install(c) PROVE Atomic!Next
  <2>1. Stored' = Stored /\ Up /\ Up' = Up /\ Saving = None /\ Saving' = Saving
    BY <1>5 DEF Install, eepromVars, Stored, Matches, Up, Saving, Writing
  <2> QED BY <1>5, <2>1 DEF Install, Atomic!Next, Atomic!Install
<1>6. CASE PowerFails
  BY <1>6, FailureRefines
<1>7. CASE UNCHANGED storeVars
  BY <1>7 DEF storeVars, eepromVars, Atomic!vars, Stored, Matches, Saving, Up, Writing
<1> QED
  BY <1>1, <1>2, <1>3, <1>4, <1>5, <1>6, <1>7 DEF StoreNext

\* The bytes and the CRC together are a store written at a stroke.
THEOREM Refinement == StoreSpec => IsAtomicStore
BY InitRefines, StepRefines, StoreInvariant, PTL DEF StoreSpec, IsAtomicStore, Atomic!Spec
=============================================================================
