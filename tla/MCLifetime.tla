----------------------------- MODULE MCLifetime -----------------------------
(* Instances of Lifetime for TLC.                                          *)
EXTENDS Lifetime, TLC

CONSTANTS p1, p2

TwoPingers == {p1, p2}
=============================================================================
