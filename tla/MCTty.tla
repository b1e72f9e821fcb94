------------------------------- MODULE MCTty -------------------------------
(* A small terminal: three cells, two ordinary characters to tell order,    *)
(* reads of one or two bytes, so that the ring wraps, fills, and keeps part *)
(* of a line for the next call.                                             *)
EXTENDS Tty
CONSTANTS letter, digit

MCPlain    == {letter, digit}
MCFeeds    == {"poll", "irq"}
PolledKeys == {letter, digit, NL, BS}
EnterKeys  == PolledKeys \cup {CR}

(* The interrupt-driven terminal of this instance has no erase key: see     *)
(* IrqErase in the README.                                                  *)
IrqKeys    == {letter, digit, NL}
=============================================================================
