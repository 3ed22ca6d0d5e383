-------------------------------- MODULE Paddle --------------------------------
(***************************************************************************)
(* One paddle: the 8-bit shift register that the timer interrupt fills with  *)
(* its samples, and the state read off it.  MorseFSM keeps of the register   *)
(* only the newest run of ones; this module shows that to be all there is to *)
(* see of it.                                                                *)
(***************************************************************************)
EXTENDS Integers

VARIABLES PaddleKey,    \* the register
          run           \* what MorseFSM keeps of it: 0 .. 8

paddleVars == <<PaddleKey, run>>

\* 0b01111111, 0b11111111, and everything else
KeyState == CASE PaddleKey = 127 -> "PRESSED"
              [] PaddleKey = 255 -> "STILLPRESSED"
              [] OTHER           -> "RELEASED"

PaddleInit == PaddleKey = 0 /\ run = 0

\* Mutant of Sample: a register of seven bits.
SampleSeven(bit) ==
  /\ PaddleKey' = (2 * PaddleKey + bit) % 128
  /\ run' = IF bit = 0 THEN 0 ELSE IF run > 7 THEN run ELSE run + 1

\* PaddleKeyA=(PaddleKeyA<<1)|P1, a uint8_t
Sample(bit) ==
  /\ PaddleKey' = (2 * PaddleKey + bit) % 256
  /\ run' = IF bit = 0 THEN 0 ELSE IF run > 7 THEN run ELSE run + 1

PaddleNext == \E bit \in 0 .. 1 : Sample(bit)

PaddleSpec == PaddleInit /\ [][PaddleNext]_paddleVars

-----------------------------------------------------------------------------
\* The state read off the register is the one MorseFSM reads off the run, with
\* seven samples for a clean press: what the register remembers of the samples
\* before the run's first zero never matters.  So a touch of the paddle is one
\* press, however long, until a zero sample ends it.  That the zero is a release and
\* not contact bounce is not said: the code does not tell them apart.
RunIsEnough == KeyState = CASE run = 7 -> "PRESSED"
                            [] run > 7 -> "STILLPRESSED"
                            [] OTHER   -> "RELEASED"
=============================================================================
