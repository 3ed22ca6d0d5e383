------------------------------- MODULE KeyLine -------------------------------
(***************************************************************************)
(* The keyer as the transmitter sees it: MorseFSM with an observer that      *)
(* counts, tick by tick, how long the key has been down or up, and that      *)
(* remembers what the accepted text says is still to be keyed.  The observer *)
(* only listens; it models no code.                                          *)
(***************************************************************************)
EXTENDS MorseFSM
SeqExt == INSTANCE SequencesExt

CONSTANT MaxRun     \* the observer stops counting here

\* It counts beyond every run the properties measure.
ASSUME ObserverAssumption ==
  /\ MaxRun \in Nat \ {0} /\ 12 * DitMs <= MaxRun
  /\ (\E c \in BootConfigs : c.WPM = 0) => 3 * Word <= MaxRun

VARIABLES high, low,    \* ticks the key has been down, up
          expected,     \* marks of the text not yet keyed, with the pause before each
          pause,        \* the pause before the next mark to be accepted
          byHand        \* the operator has keyed the last mark

lineVars == <<high, low, expected, pause, byHand>>
allVars == <<vars, lineVars>>

Count(run) == IF run < MaxRun THEN run + 1 ELSE run

\* The tick ends a mark, starts a mark.
KeyUp   == high > 0 /\ high' = 0
KeyDown == high = 0 /\ high' > 0

\* The tick is one of the text's; it ends the operator's break-in.
TextTick == FSM_Mode = "FSM_Automacit" /\ FSM_Mode' = "FSM_Automacit"
ModeBack == FSM_Mode = "FSM_Manuall" /\ FSM_Mode' = "FSM_Automacit"

\* The mark a break-in has interrupted is resumed after it.
Resumed == IF FSM_State \in {"DIT_HIGH_MACHINE", "DAH_HIGH_MACHINE"}
           THEN <<[mark |-> "any", before |-> "any"]>> ELSE <<>>

ObserveTick ==
  /\ Timer
  /\ high' = IF Key' = "HIGH" THEN Count(high) ELSE 0
  /\ low'  = IF Key' = "LOW" THEN Count(low) ELSE 0
  /\ expected' = CASE ModeBack -> Resumed
                   [] TextTick /\ KeyUp /\ expected # <<>> -> Tail(expected)
                   [] OTHER -> expected
  /\ pause' = IF ModeBack THEN "start" ELSE pause
  /\ byHand' = IF KeyUp THEN FSM_Mode' = "FSM_Manuall" ELSE byHand

MarksOf(c) == IF c = SPACE THEN <<>> ELSE Morse[c]

\* A byte is accepted when the put counts it.
ObserveText ==
  /\ InsertPut
  /\ expected' = expected \o
       [i \in 1 .. Len(MarksOf(data)) |->
          [mark |-> MarksOf(data)[i], before |-> IF i = 1 THEN pause ELSE "none"]]
  /\ pause' = CASE MarksOf(data) # <<>>              -> "letter"
                [] data = SPACE /\ pause # "start"   -> "word"
                [] OTHER                             -> pause
  /\ UNCHANGED <<high, low, byHand>>

ObserveRest ==
  /\ (\E c \in Chars : insert_keybyte(c)) \/ SendEcho
  /\ UNCHANGED lineVars

LineInit == /\ Init
            /\ high = 0 /\ low = MaxRun /\ expected = <<>> /\ pause = "start"
            /\ byHand = FALSE
LineNext == ObserveTick \/ ObserveText \/ ObserveRest
LineSpec == LineInit /\ [][LineNext]_allVars

-----------------------------------------------------------------------------
(* The text, as long as no break-in ends inside a put (PutsAreWhole) *)

\* What a listener makes of a mark: a dah is longer than two dits.
Heard == IF high <= 2 * (DitTicks + 1) THEN "DIT_MACHINE" ELSE "DAH_MACHINE"

\* The text is keyed as Morse: every mark a listener hears is the next one of
\* the accepted bytes.  The two lengths of a mark, the order of the elements,
\* the refilling of the queue and the order of the bytes all have to be right.
\* A break-in drops the text accepted so far, all but the mark it interrupted.
TextIsKeyed ==
  [][PutsAreWhole /\ TextTick /\ KeyUp =>
       expected # <<>> /\ Head(expected).mark \in {Heard, "any"}]_allVars

\* When the keyer is about to echo a byte and to fetch the next, what is still
\* to be keyed is exactly the bytes in the queue: a byte is echoed after its
\* last mark, and no mark of the text is ever left out.
EchoFollowsKeying ==
  PutsAreWhole /\ FSM_Mode = "FSM_Automacit" /\ FSM_State = "IDLE" /\ FSM_Queue = <<>> =>
    [i \in 1 .. Len(expected) |-> expected[i].mark]
      = SeqExt!FlattenSeq([i \in 1 .. Len(AsciiQueue) |-> MarksOf(AsciiQueue[i])])

\* Inside a letter the key is up for at most a dit and a tick, between letters
\* for more than two dits and between words for more than nine, whatever the
\* host's text looks like and however late it comes.
PausesAreKept ==
  [][PutsAreWhole /\ TextTick /\ KeyDown =>
       /\ Head(expected).before = "none"   => low <= DitTicks + 1
       /\ Head(expected).before = "letter" => low > 2 * DitTicks
       /\ Head(expected).before = "word"   => low > 2 * DitTicks + SpaceTicks]_allVars

-----------------------------------------------------------------------------
(* The operator *)

\* Outside bug mode the keyer waits the whole of its post-wait after the
\* operator's last mark before it goes back to the text, however often a
\* break-in follows another while it waits.
WaitsItOut ==
  [][ModeBack /\ CurrentKeymode # "BUGMODE" => low >= BagTicks]_allVars

\* No mark of the operator is clipped: whatever is pressed or released during
\* it, and though the break-in may have come in a mark of the text, it lasts at
\* least as long as its element.
MarksAreWhole ==
  [][KeyUp => /\ FSM_ManualState = "DIT_LOW_HUMAN" => high > DitTicks
              /\ FSM_ManualState = "DAH_LOW_HUMAN" => high > DahTicks]_allVars

\* Nor do two marks of the operator run together: outside bug mode the key has
\* been up for a dit between them, whatever the paddles do and however often the
\* keyer has gone back to the text in between.
MarksAreApart ==
  [][FSM_Mode = "FSM_Manuall" /\ KeyDown /\ byHand /\ CurrentKeymode # "BUGMODE"
       => low > DitTicks]_allVars
=============================================================================
