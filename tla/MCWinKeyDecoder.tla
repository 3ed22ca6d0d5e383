--------------------------- MODULE MCWinKeyDecoder ---------------------------
(* Small instances of the decoder: configurations of four bytes, a WinKey    *)
(* EEPROM of two, a text queue of two.                                       *)
EXTENDS WinKeyDecoder, TLC

\* An erased EEPROM, and one with a mode and a speed of the host.
MCFlashed == {Zeroed, [Zeroed EXCEPT ![MODE] = 2, ![WPM] = 2]}
AllCommands == 0 .. 24
AllCodes == 0 .. 23
=============================================================================
