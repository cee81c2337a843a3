-------------------------- MODULE MCTerminalScreen --------------------------
(* The screen of a program that prints one letter, and one on the line below  *)
(* or above, or a line of three of them.                                      *)
EXTENDS TerminalScreen

\* One letter, and one on the line below or above.
OneLetter == {<<"a">>, <<"nl", "a">>, <<"a", "nl">>}

\* A line of three letters.
ThreeLetters == {<<"a", "b", "c", "nl">>}
=============================================================================
