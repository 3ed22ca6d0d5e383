------------------------------ MODULE MCMorseFSM ------------------------------
(* Small instances of the keyer: a dit of two ticks, a clean press of two    *)
(* samples, 5-bit counters, the letters E, T and A.                          *)
EXTENDS MorseFSM, TLC

MCMorse == [c \in Chars \ {SPACE} |->
              CASE c = "E" -> <<"DIT_MACHINE">>
                [] c = "T" -> <<"DAH_MACHINE">>
                [] c = "A" -> <<"DIT_MACHINE", "DAH_MACHINE">>
                [] OTHER   -> <<>>]

AllPaddles == (0 .. 1) \X (0 .. 1)
NoPaddles  == {<<0, 0>>}

C(mode, swap, echo, wpm) == [mode |-> mode, swap |-> swap, echo |-> echo, WPM |-> wpm]

\* Each mode, with echo in every other one.
EachMode  == {C(m, 0, (m + 1) % 2, 1) : m \in 0 .. 3}
Iambic    == {C(0, 0, 1, 1)}
Bug       == {C(3, 0, 1, 1)}
Straight  == Iambic \cup Bug
Swapping  == {C(1, 1, 0, 0)}
None      == {}

OnePaddle == {<<0, 0>>, <<0, 1>>}
BothMarks == {"DIT_MACHINE", "DAH_MACHINE"}
=============================================================================
