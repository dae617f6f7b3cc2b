----------------------------- MODULE MCArithmetic -----------------------------
(***************************************************************************)
(* Instances of Arithmetic for TLC: words of 6 bits, with the widths of     *)
(* the formats, of float, int and long in the order they have in the       *)
(* program, so that what overflows there overflows here.                   *)
(***************************************************************************)
EXTENDS Arithmetic

Small16 == [e |-> 3, m |-> 2]
SmallB16 == [e |-> 4, m |-> 1]

NoFormat(m, a, b) == 0
=============================================================================
