----------------------------- MODULE StoredTime -----------------------------
(***************************************************************************)
(* The order of the times that the SQLite store keeps as RFC3339Nano text. *)
(* Time is counted in half seconds, the coarsest unit in which the order   *)
(* of the texts differs from the order of the times.                       *)
(***************************************************************************)
EXTENDS Naturals

\* Format drops a zero fraction, and '.' sorts before 'Z': within one second
\* the half second sorts before the whole one.
TextLE(a, b) ==
    IF a \div 2 # b \div 2 THEN a < b ELSE a % 2 >= b % 2

TextLT(a, b) == a # b /\ TextLE(a, b)
=============================================================================
