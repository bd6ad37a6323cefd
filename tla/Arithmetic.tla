----------------------------- MODULE Arithmetic -----------------------------
(* The built-in arithmetic of the runtime the other modules share. *)
EXTENDS Integers

\* min and max of two integers
AtMost(a, b) == IF a <= b THEN a ELSE b
AtLeast(a, b) == IF a >= b THEN a ELSE b

\* math.ceil(a / b)
CeilDiv(a, b) == (a + b - 1) \div b
=============================================================================
