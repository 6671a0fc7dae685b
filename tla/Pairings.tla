------------------------------- MODULE Pairings -------------------------------
(***************************************************************************)
(* Schemes over a pairing-friendly curve: BBS+ signatures with selective   *)
(* disclosure and KZG openings with the proof sizes of the tree built on   *)
(* them (crypto/bbs_plus.py, verkle.py).  A point is its logarithm to the  *)
(* group's generator, so that adding points is adding, multiplying by a    *)
(* scalar is multiplying, and the pairing of two points is their product.  *)
(***************************************************************************)
EXTENDS Field

CONSTANTS
  PairingOrder,   \* curve_order: a prime
  Attributes,     \* the message values that are signed
  MaxLeaves       \* the largest tree whose proof size is computed

ASSUME PairingAssumption ==
  IsPrime(PairingOrder) /\ Attributes \subseteq Nat /\ MaxLeaves \in Nat

R == PairingOrder
Pairing(a, b) == (a * b) % R

------------------------------------------------------------------------------
\* BBS+.  Parameters: h0 and h[i], public w = x.

BbsCommitmentSum(h0, h, s, messages) ==
  (1 + h0 * s + SumMod([i \in DOMAIN h |-> h[i] * messages[i]], R)) % R

BbsSign(x, h0, h, e, s, messages) ==
  [a |-> (BbsCommitmentSum(h0, h, s, messages) * Inv((x + e) % R, R)) % R, e |-> e, s |-> s]

BbsVerify(w, h0, h, messages, sig) ==
  /\ Len(messages) = Len(h)
  /\ Pairing(w + sig.e, sig.a) = Pairing(1, BbsCommitmentSum(h0, h, sig.s, messages))

BbsProve(messages, sig, indices) ==
  [sig |-> sig, disclosed |-> [i \in indices |-> messages[i] % R], total |-> Len(messages)]

\* Fault: the disclosed values are not held against the full vector.
BbsVerifyDisclosureUnchecked(w, h0, h, disclosure, full) ==
  /\ disclosure.total = Len(h)
  /\ DOMAIN disclosure.disclosed \subseteq 1..disclosure.total
  /\ Len(full) = disclosure.total
  /\ BbsVerify(w, h0, h, full, disclosure.sig)

\* The binding mode, in which the attestor has the full vector.
BbsVerifyDisclosure(w, h0, h, disclosure, full) ==
  /\ disclosure.total = Len(h)
  /\ DOMAIN disclosure.disclosed \subseteq 1..disclosure.total
  /\ Len(full) = disclosure.total
  /\ \A i \in DOMAIN disclosure.disclosed : full[i] % R = disclosure.disclosed[i] % R
  /\ BbsVerify(w, h0, h, full, disclosure.sig)

CallBbs ==
  /\ Calling("bbs")
  /\ \E x, e, s \in 1..(R - 1), messages \in [1..2 -> Attributes], shown \in SUBSET (1..2) :
       /\ (x + e) % R # 0   \* the secret and the draw do not cancel
       /\ LET sig == BbsSign(x, 3, <<2, 5>>, e, s, messages) IN
          Answer("bbs", [w |-> x, messages |-> messages], BbsProve(messages, sig, shown))

\* A disclosure is accepted with the signed vector; it is refused with a vector that
\* differs at one place, and when one of the values shown is altered.
BbsDisclosureBinds ==
  Answered("bbs") =>
    LET in == call.in
        Ok(disclosure, full) == BbsVerifyDisclosure(in.w, 3, <<2, 5>>, disclosure, full)
    IN  /\ Ok(call.out, in.messages)
        /\ \A i \in DOMAIN in.messages, v \in 0..(R - 1) :
             v # in.messages[i] % R =>
               ~Ok(call.out, [in.messages EXCEPT ![i] = v])
        /\ \A i \in DOMAIN call.out.disclosed :
             ~Ok([call.out EXCEPT !.disclosed[i] = (@ + 1) % R], in.messages)

\* Fault: three slots at least, which is what the indices need.
BbsDemoSlotsThree(asked) == Clamp(asked, 3, 8)

BbsDemoSlots(asked) == Clamp(asked, 2, 8)

\* The demonstration shows the first and the third message; proving an index that is
\* not there raises.
CallBbsDemo ==
  /\ Calling("bbsDemo")
  /\ \E asked \in -1..10 :
       Answer("bbsDemo", asked,
              IF {1, 3} \subseteq 1..BbsDemoSlots(asked) THEN "shown" ELSE "raises")

\* The demonstration answers for every size above two, and for two or fewer slots,
\* which its guard admits, it raises.
BbsDemoOutcome ==
  Answered("bbsDemo") => (call.out = "shown" <=> call.in > 2)

------------------------------------------------------------------------------
\* KZG.  The setup is the powers of a secret s.

KzgCommit(s, coeffs) ==
  SumMod([i \in DOMAIN coeffs |-> ((coeffs[i] % R) * Pow(s, i - 1, R)) % R], R)

\* Fault: the loop ends before the constant term of the quotient.
DivideByLinearShort(coeffs, z) ==
  LET n == Len(coeffs)
      carry[i \in 1..(n + 1)] == IF i > n THEN 0 ELSE (carry[i + 1] * z + coeffs[i]) % R
  IN  [i \in 1..(n - 1) |-> IF i = 1 THEN 0 ELSE carry[i + 1]]

\* Synthetic division by X - z, from the leading coefficient down.
DivideByLinear(coeffs, z) ==
  LET n == Len(coeffs)
      carry[i \in 1..(n + 1)] == IF i > n THEN 0 ELSE (carry[i + 1] * z + coeffs[i]) % R
  IN  [i \in 1..(n - 1) |-> carry[i + 1]]

KzgOpen(s, coeffs, z) ==
  LET y == Horner(coeffs, z, R)
      shifted == [coeffs EXCEPT ![1] = (@ - y) % R]
  IN  [z |-> z % R, y |-> y, pi |-> KzgCommit(s, DivideByLinear(shifted, z))]

KzgVerify(s, commitment, proof) ==
  Pairing(1, (commitment - proof.y) % R) = Pairing((s - proof.z) % R, proof.pi)

CallKzg ==
  /\ Calling("kzg")
  /\ \E s \in 1..(R - 1), z \in 0..(R - 1), coeffs \in SeqsUpTo({0, 1, 5}, 4) \ {<<>>} :
       Answer("kzg", [s |-> s, coeffs |-> coeffs], KzgOpen(s, coeffs, z))

\* An opening shows the polynomial's value at the point, it verifies against the
\* commitment, and the same proof verifies no other value.
KzgOpeningExact ==
  Answered("kzg") =>
    LET c == KzgCommit(call.in.s, call.in.coeffs) IN
    /\ call.out.y = PolynomialAt(call.in.coeffs, call.out.z, R)
    /\ \A y \in 0..(R - 1) :
         KzgVerify(call.in.s, c, [call.out EXCEPT !.y = y]) <=> y = call.out.y

\* Fault: one level too many when the tree is exactly full.
RECURSIVE CeilLogFull(_, _)
CeilLogFull(n, base) == IF n < 1 THEN 0 ELSE 1 + CeilLogFull(n \div base, base)

RECURSIVE CeilLog(_, _)
CeilLog(n, base) == IF n <= 1 THEN 0 ELSE 1 + CeilLog((n + base - 1) \div base, base)

\* (n - 1).bit_length()
BitLength(n) == IF n = 0 THEN 0 ELSE 1 + CHOOSE d \in 0..30 : 2 ^ d <= n /\ n < 2 ^ (d + 1)

MerkleProofBytes(n) == 32 * Larger(1, BitLength(n - 1))
VerkleProofBytes(n, width) == 48 * Larger(1, CeilLog(n, width))

CallProofSize ==
  /\ Calling("proofSize")
  /\ \E n \in 1..MaxLeaves, width \in {2, 3, 4, 16} :
       Answer("proofSize", [n |-> n, width |-> width],
              [merkle |-> MerkleProofBytes(n), verkle |-> VerkleProofBytes(n, width)])

\* A tree of the depth that a proof is sized for has room for the leaves, and one level
\* less has not.
ProofSizeExact ==
  Answered("proofSize") =>
    LET in == call.in
        Least(d, base) == base ^ d >= in.n /\ (d > 1 => base ^ (d - 1) < in.n)
    IN  /\ Least(call.out.merkle \div 32, 2)
        /\ Least(call.out.verkle \div 48, in.width)
=============================================================================
