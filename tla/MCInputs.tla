------------------------------- MODULE MCInputs -------------------------------
(* What the keyer is given: the samples of a paddle and the bytes of a text.  *)
(* The two have nothing to do with each other, so one rests at 0 while the   *)
(* other goes through all its values.                                        *)
EXTENDS Paddle, MorseTable

Init == PaddleInit /\ TableInit
Next == \/ TXChar = 0 /\ PaddleNext /\ UNCHANGED TXChar
        \/ PaddleKey = 0 /\ TableNext /\ UNCHANGED paddleVars
Spec == Init /\ [][Next]_<<paddleVars, TXChar>>
=============================================================================
