-------------------------------- MODULE Field --------------------------------
(***************************************************************************)
(* Arithmetic modulo a prime, and the group in which the educational       *)
(* cryptography works: the squares modulo a safe prime P = 2Q + 1, with a  *)
(* generator G (educational/pedersen.py).  The code's P has 2048 bits; the *)
(* algebra is the same for every safe prime.                               *)
(***************************************************************************)
EXTENDS Calls

CONSTANTS P, Q, G, H

RECURSIVE Pow(_, _, _)
\* pow(b, e, n) of Python, for e >= 0
Pow(b, e, n) ==
  IF e = 0 THEN 1 % n
  ELSE LET h == Pow(b, e \div 2, n)
       IN  (((h * h) % n) * (IF e % 2 = 1 THEN b % n ELSE 1)) % n

\* pow(x, n - 2, n): the inverse modulo a prime, and 0 for 0
Inv(x, n) == Pow(x, n - 2, n)

IsPrime(n) == n > 1 /\ \A d \in 2..(n - 1) : d * d <= n => n % d # 0

ASSUME GroupAssumption ==
  /\ IsPrime(P) /\ IsPrime(Q) /\ P = 2 * Q + 1
  /\ G \in 2..(P - 1) /\ Pow(G, Q, P) = 1
  /\ H \in 2..(P - 1) /\ Pow(H, Q, P) = 1

GPow(e) == Pow(G, e, P)
GroupElements == {GPow(e) : e \in 0..(Q - 1)}

\* secrets.randbelow(n - 1) + 1: a random exponent is never zero
NonZero(S) == S \ {0}

SumMod(seq, n) == FoldLeft(LAMBDA a, b : (a + b) % n, 0, seq)
ProductMod(seq, n) == FoldLeft(LAMBDA a, b : (a * b) % n, 1 % n, seq)

\* Horner's rule: coeffs[1] + coeffs[2] x + ...
Horner(coeffs, x, n) == FoldRight(LAMBDA c, acc : (acc * x + c) % n, coeffs, 0)
\* The same value, as a sum of powers.
PolynomialAt(coeffs, x, n) ==
  SumMod([i \in DOMAIN coeffs |-> coeffs[i] * Pow(x, i - 1, n)], n)

\* The sequence with one element per member of a set of numbers, in order.
RECURSIVE InOrder(_)
InOrder(S) ==
  IF S = {} THEN <<>>
  ELSE LET least == CHOOSE x \in S : \A y \in S : x <= y
       IN  <<least>> \o InOrder(S \ {least})
=============================================================================
