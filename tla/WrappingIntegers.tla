-------------------------- MODULE WrappingIntegers --------------------------
(***************************************************************************)
(* WrappingInt32 (libsponge/wrapping_integers.hh, wrapping_integers.cc):   *)
(* TCP sequence numbers wrap around at TWOTOTHETHIRTYTWO, here Modulus.    *)
(* An absolute sequence number is a natural number; a WrappingInt32 is a   *)
(* number below Modulus.  The 64-bit absolute numbers never get near their *)
(* own limit and are not wrapped.                                          *)
(***************************************************************************)
EXTENDS Integers

CONSTANT Modulus

ASSUME ModulusAssumption ==
  Modulus \in Nat \ {0} /\ Modulus % 2 = 0

Wrapping == 0 .. Modulus - 1

\* operator+ and operator- with an unsigned step.
plus(a, b) == (a + b) % Modulus

wrap(n, isn) == plus(isn, n % Modulus)

\* abs_seqno: the distance from isn to n, computed from the raw values and
\* truncated to 32 bits.
abs_seqno(n, isn) == IF n >= isn THEN n - isn ELSE (Modulus - isn) + n

\* Mutant: always the lap of the checkpoint.
unwrap_same_lap(n, isn, checkpoint) ==
  (checkpoint \div Modulus) * Modulus + abs_seqno(n, isn)

\* In the lap of the checkpoint, or one up or down if that is closer.
nearby_abs_seqno(abs, checkpoint) ==
  LET high == (checkpoint \div Modulus) * Modulus
      low  == checkpoint % Modulus
      half == Modulus \div 2
  IN  IF low > abs
      THEN IF low - abs >= half THEN high + abs + Modulus ELSE high + abs
      ELSE IF abs - low >= half THEN high + abs - Modulus ELSE high + abs

unwrap(n, isn, checkpoint) ==
  LET abs == abs_seqno(n, isn)
  IN  IF abs >= checkpoint THEN abs ELSE nearby_abs_seqno(abs, checkpoint)
=============================================================================
