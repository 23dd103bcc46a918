---------------------------- MODULE SerialNumbers ----------------------------
(***************************************************************************)
(* The serial number arithmetic of sctp/globals.c on unsigned integers of  *)
(* a fixed width: a comparison looks at the sign of a difference.          *)
(***************************************************************************)
EXTENDS Integers

CONSTANT Modulus   \* 2^32 in the code

ASSUME ModulusAssumption == Modulus \in Nat /\ Modulus > 3 /\ Modulus % 2 = 0

TSN == 0..(Modulus - 1)

Plus(s, k) == (s + k) % Modulus
Minus(s, t) == (s - t) % Modulus          \* of unsigned integers

Before(s, t) == Minus(s, t) >= Modulus \div 2   \* (int)(s - t) < 0
After(s, t) == Minus(t, s) >= Modulus \div 2
Between(s, t, u) == Minus(u, s) >= Minus(t, s)
=============================================================================
