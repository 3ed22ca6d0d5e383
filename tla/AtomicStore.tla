----------------------------- MODULE AtomicStore -----------------------------
(***************************************************************************)
(* What the keyer relies on of its stored configuration: a start installs   *)
(* the configuration that was stored last.  If the power fails while one is *)
(* being stored, the start finds the old one, the new one, or that there is *)
(* none, and then stores and installs a configuration with default values;  *)
(* never a mixture.  ConfigStore implements it with bytes and a checksum.   *)
(***************************************************************************)
CONSTANTS Configuration,    \* what can be stored
          Default,          \* those among them that a start falls back to
          None              \* nothing readable is stored

VARIABLES stored,   \* what a start would find now
          last,     \* the configuration stored last
          saving,   \* the one being stored, or None
          up,       \* the keyer runs
          active    \* the configuration a start has installed

vars == <<stored, last, saving, up, active>>

Init == /\ stored \in Configuration \cup {None}
        /\ last \in Configuration
        /\ stored = None \/ stored = last
        /\ saving = None /\ up = FALSE /\ active \in Configuration

Save(c) == /\ up /\ saving = None
           /\ saving' = c
           /\ UNCHANGED <<stored, last, up, active>>

\* While a configuration is being stored the old one may be lost, and be there
\* again if it is the same.
Overwrite == /\ saving # None
             /\ stored' \in {last, None}
             /\ UNCHANGED <<last, saving, up, active>>

\* A start that had to store a default configuration also installs it.
Saved == /\ saving # None
         /\ stored' = saving /\ last' = saving /\ saving' = None
         /\ up' = TRUE
         /\ active' = IF up THEN active ELSE saving

\* The host changes what the running keyer uses.
Install(c) == /\ up /\ saving = None
              /\ active' = c
              /\ UNCHANGED <<stored, last, saving, up>>

Load == /\ ~up /\ saving = None /\ stored # None
        /\ up' = TRUE /\ active' = stored
        /\ UNCHANGED <<stored, last, saving>>

FallBack(c) == /\ ~up /\ saving = None /\ stored = None
               /\ saving' = c
               /\ UNCHANGED <<stored, last, up, active>>

Fails == /\ up' = FALSE /\ saving' = None
         /\ \/ saving = None /\ stored' = stored /\ last' = last
            \/ saving # None /\ stored' \in {last, None} /\ last' = last
            \/ saving # None /\ stored' = saving /\ last' = saving
         /\ active' \in Configuration

Next == \/ \E c \in Configuration : Save(c) \/ Install(c)
        \/ Overwrite \/ Saved \/ Load \/ Fails
        \/ \E c \in Default : FallBack(c)

Spec == Init /\ [][Next]_vars
=============================================================================
