----------------------------- MODULE MorseTable -----------------------------
(***************************************************************************)
(* LUT/chartomorse.c and the loop of MorseFSM.c that reads its entries:     *)
(* what MorseFSM takes as its constant Morse.  A byte of the text is looked *)
(* up after another; the elements of each are compared with the code of a   *)
(* Morse chart.                                                             *)
(***************************************************************************)
EXTENDS Integers, Sequences

VARIABLE TXChar     \* the byte being looked up

Bytes == 0 .. 255
DIT == "DIT_MACHINE"
DAH == "DAH_MACHINE"

FIRSTLUTCHAR == 33      \* '!'
TableSize    == 64
QueueSize    == 16      \* FSM_Queue_Buffer

\* .morsecode and .lenght from '!' on; the 64th entry is left to zero.
morsetable == <<
  <<53,6>>, <<18,6>>, <<0,0>>,  <<72,7>>, <<0,0>>,  <<2,5>>,  <<30,6>>, <<13,5>>,
  <<45,6>>, <<0,0>>,  <<10,5>>, <<51,6>>, <<33,6>>, <<42,6>>, <<9,5>>,  <<31,5>>,
  <<30,5>>, <<28,5>>, <<24,5>>, <<16,5>>, <<0,5>>,  <<1,5>>,  <<3,5>>,  <<7,5>>,
  <<15,5>>, <<7,6>>,  <<21,6>>, <<0,0>>,  <<17,5>>, <<0,0>>,  <<12,6>>, <<26,7>>,
  <<2,2>>,  <<1,4>>,  <<5,4>>,  <<1,3>>,  <<0,1>>,  <<4,4>>,  <<3,3>>,  <<0,4>>,
  <<0,2>>,  <<14,4>>, <<5,3>>,  <<2,4>>,  <<3,2>>,  <<1,2>>,  <<7,3>>,  <<6,4>>,
  <<11,4>>, <<2,3>>,  <<0,3>>,  <<1,1>>,  <<4,3>>,  <<8,4>>,  <<6,3>>,  <<9,4>>,
  <<13,4>>, <<3,4>>,  <<0,0>>,  <<0,0>>,  <<0,0>>,  <<0,0>>,  <<13,6>>, <<0,0>> >>

\* Mutant of ToUpper: small letters are looked up as they are.
AsTyped(c) == c

\* Bytes outside '!' .. 'z' have no entry; small letters have that of the capital.
Listed(c)  == c >= FIRSTLUTCHAR /\ c <= 122
ToUpper(c) == IF c >= 97 /\ c <= 122 THEN c - 32 ELSE c
Offset(c)  == ToUpper(c) - FIRSTLUTCHAR

CharToMorse(c) == LET entry == morsetable[Offset(c) + 1]
                  IN  IF Listed(c) THEN [morsecode |-> entry[1], lenght |-> entry[2]]
                                   ELSE [morsecode |-> 0, lenght |-> 0]

Bit(n, i) == (n \div 2 ^ i) % 2

\* Mutant of Masked: from the last bit on.
Backwards(mc) == [i \in 1 .. mc.lenght |->
                    IF Bit(mc.morsecode, mc.lenght - i) = 1 THEN DAH ELSE DIT]

\* The timer interrupt's loop tests (morsecode & (1 << i)), from the first bit on.
Masked(mc) == [i \in 1 .. mc.lenght |-> IF Bit(mc.morsecode, i - 1) = 1 THEN DAH ELSE DIT]

Marks == Masked(CharToMorse(TXChar))

TableInit == TXChar = 0
TableNext == \E c \in Bytes : TXChar' = c
TableSpec == TableInit /\ [][TableNext]_TXChar

-----------------------------------------------------------------------------
(* The chart.  Its letters form a binary tree, here level by level: a dit     *)
(* leads to the left and a dah to the right.  0 stands for the places of      *)
(* letters that are not in ASCII.                                             *)

Tree == <<0,                                                         \* (root)
          69, 84,                                                    \* E T
          73, 65, 78, 77,                                            \* I A N M
          83, 85, 82, 87, 68, 75, 71, 79,                            \* S U R W D K G O
          72, 86, 70, 0, 76, 0, 80, 74, 66, 88, 67, 89, 90, 81, 0, 0>>

\* The way from the root to a place of the tree.
PathTo == LET path[n \in 1 .. Len(Tree)] ==
                IF n = 1 THEN <<>>
                ELSE Append(path[n \div 2], IF n % 2 = 0 THEN DIT ELSE DAH)
          IN  path

\* A digit has five marks: 1 to 5 begin with as many dits, 6 to 9 with a dah
\* for each above 5, and 0 has dahs only.
Digit(d) == [i \in 1 .. 5 |-> CASE d = 0        -> DAH
                                [] d \in 1 .. 5 -> IF i <= d THEN DIT ELSE DAH
                                [] OTHER        -> IF i <= d - 5 THEN DAH ELSE DIT]

\* Letters, small or capital, and digits are keyed as the chart has them, and no
\* two characters sound alike but a letter and its capital: a wrong bit, a wrong
\* length or an entry one place off shows in some character.
AsInTheChart ==
  /\ \A n \in 1 .. Len(Tree) :
       TXChar \in {Tree[n], Tree[n] + 32} /\ Tree[n] # 0 => Marks = PathTo[n]
  /\ \A d \in 0 .. 9 : TXChar = 48 + d => Marks = Digit(d)
  /\ Marks # <<>> =>
       \A c \in Bytes : Masked(CharToMorse(c)) = Marks => ToUpper(c) = ToUpper(TXChar)

\* No byte whatever makes the lookup read past the table, and no entry has more
\* marks than fit into FSM_Queue with the pause behind them, or than its code
\* has bits: the interrupt's fifo_put never drops an element.
LookupIsSafe ==
  /\ Listed(TXChar) => Offset(TXChar) \in 0 .. TableSize - 1
  /\ Len(Marks) < QueueSize /\ Len(Marks) <= 8
=============================================================================
