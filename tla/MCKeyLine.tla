------------------------------- MODULE MCKeyLine -------------------------------
(* Small instances of the keyer and its observer.                           *)
EXTENDS KeyLine, TLC

MCMorse == [c \in Chars \ {SPACE} |->
              CASE c = "E" -> <<"DIT_MACHINE">>
                [] c = "T" -> <<"DAH_MACHINE">>
                [] c = "A" -> <<"DIT_MACHINE", "DAH_MACHINE">>
                [] c = "N" -> <<"DAH_MACHINE", "DIT_MACHINE">>
                [] OTHER   -> <<>>]

AllPaddles == (0 .. 1) \X (0 .. 1)
NoPaddles  == {<<0, 0>>}

C(mode, swap, echo, wpm) == [mode |-> mode, swap |-> swap, echo |-> echo, WPM |-> wpm]

\* Without echo, which nothing on the key line depends on.
EachMode   == {C(m, 0, 0, 1) : m \in 0 .. 3}
TwoSpeeds  == {C(0, 0, 1, w) : w \in 1 .. 2}
None       == {}
=============================================================================
