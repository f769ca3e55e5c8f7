------------------------------- MODULE MCSfpu -------------------------------
(* The vector unit with two lanes, two general registers and words of two bits. *)
EXTENDS Sfpu

\* Words 0 and 1 select the general registers, 2 and 3 hardwired ones.
MCRegAt(x) == IF x < 2 THEN x ELSE 9
=============================================================================
