--------------------------- MODULE MCTerminalHost ---------------------------
(***************************************************************************)
(* Small instances of TerminalHost.  The connections of one daemon are     *)
(* interchangeable, so the safety runs may identify them.                  *)
(***************************************************************************)
EXTENDS TerminalHost, TLC

ConnSymmetry == Permutations(Conn)
=============================================================================
