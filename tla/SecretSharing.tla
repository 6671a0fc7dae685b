---------------------------- MODULE SecretSharing ----------------------------
(***************************************************************************)
(* Secrets split among parties and computations on the shares: Shamir's    *)
(* threshold sharing, Beaver's multiplication, FROST threshold Schnorr     *)
(* signatures and n-of-n ECDSA (crypto/educational/shamir.py, beaver.py,   *)
(* crypto/frost.py, threshold_ecdsa.py).  Random draws and the answers of  *)
(* the hash are arguments of a call, so a property holds for all of them.  *)
(* A curve point of ECDSA is its discrete logarithm; of its coordinates    *)
(* only x matters, and a point and its negation share it.                  *)
(***************************************************************************)
EXTENDS Field

CONSTANTS
  SharePrime,     \* the field of shamir.py and beaver.py
  MaxParties,
  Scalars,        \* the exponents that are tried in FROST
  CurveOrder      \* the order of the ECDSA curve

ASSUME SharingAssumption ==
  /\ IsPrime(SharePrime) /\ MaxParties \in 1..(SharePrime - 1) /\ MaxParties < Q
  /\ Scalars \subseteq 0..(Q - 1)
  /\ IsPrime(CurveOrder) /\ CurveOrder > 3

------------------------------------------------------------------------------
\* Shamir.

\* Fault: the points are numbered from 0, so the first share is the secret.
ShamirSharesFromZero(secret, rest, n) ==
  [x \in 1..n |-> Horner(<<secret>> \o rest, x - 1, SharePrime)]

ShamirShares(secret, rest, n) ==
  [x \in 1..n |-> Horner(<<secret>> \o rest, x, SharePrime)]

\* The Lagrange coefficient at 0 of party i among the parties S.
Lagrange(i, S, n) ==
  LET others == InOrder(S \ {i})
      num == ProductMod(MapSeq(LAMBDA j : (-j) % n, others), n)
      den == ProductMod(MapSeq(LAMBDA j : (i - j) % n, others), n)
  IN  (num * Inv(den, n)) % n

Reconstruct(shares, who) ==
  SumMod(MapSeq(LAMBDA i : shares[i] * Lagrange(i, who, SharePrime), InOrder(who)), SharePrime)

CallShamir ==
  /\ Calling("shamir")
  /\ \E n \in 1..MaxParties : \E t \in 1..Smaller(n, 3) :
     \E secret \in 0..(SharePrime - 1), rest \in [1..(t - 1) -> 0..(SharePrime - 1)] :
     \E who \in (SUBSET (1..n)) \ {{}} :
       LET shares == ShamirShares(secret, rest, n) IN
       Answer("shamir", [n |-> n, t |-> t, secret |-> secret, who |-> who, shares |-> shares],
            Reconstruct(shares, who))

\* Enough shares give the secret; fewer are compatible with every secret,
\* which is why a party below the threshold learns nothing.
ShamirThreshold ==
  Answered("shamir") =>
    LET in == call.in IN
    IF Cardinality(in.who) >= in.t THEN call.out = in.secret
    ELSE \A other \in 0..(SharePrime - 1) :
           \E rest \in [1..(in.t - 1) -> 0..(SharePrime - 1)] :
             \A x \in in.who : ShamirShares(other, rest, in.n)[x] = in.shares[x]

------------------------------------------------------------------------------
\* Beaver triples.  An additive sharing is any sequence with the right sum.

AdditiveSharings(value, n, p) ==
  {s \in [1..n -> 0..(p - 1)] : SumMod(s, p) = value}

\* Fault: every party adds the product of the two opened differences.
BeaverMultiplyEveryoneAdds(x, y, a, b, c, p) ==
  LET n == Len(x)
      d == SumMod([i \in 1..n |-> (x[i] - a[i]) % p], p)
      e == SumMod([i \in 1..n |-> (y[i] - b[i]) % p], p)
  IN  [i \in 1..n |-> (c[i] + d * b[i] + e * a[i] + d * e) % p]

BeaverMultiply(x, y, a, b, c, p) ==
  LET n == Len(x)
      d == SumMod([i \in 1..n |-> (x[i] - a[i]) % p], p)
      e == SumMod([i \in 1..n |-> (y[i] - b[i]) % p], p)
  IN  [i \in 1..n |-> (c[i] + d * b[i] + e * a[i] + (IF i = 1 THEN d * e ELSE 0)) % p]

\* <<parties, prime>>: small fields, with an even and an odd number of parties
CallBeaver ==
  /\ Calling("beaver")
  /\ \E shape \in {<<2, 3>>, <<3, 2>>} : LET n == shape[1]  p == shape[2] IN
     \E x, y, a, b \in [1..n -> 0..(p - 1)] :
     \E c \in AdditiveSharings((SumMod(a, p) * SumMod(b, p)) % p, n, p) :
       Answer("beaver", [x |-> x, y |-> y, p |-> p], BeaverMultiply(x, y, a, b, c, p))

\* The parties' shares of the answer add up to the product of what they hold,
\* whatever the triple and however everything was shared.
BeaverProduct ==
  Answered("beaver") =>
    LET in == call.in IN
    SumMod(call.out, in.p) = (SumMod(in.x, in.p) * SumMod(in.y, in.p)) % in.p

------------------------------------------------------------------------------
\* FROST.  coeffs[1] is the group's secret; rho and c are the hash's answers.

FrostShares(coeffs, n) == [i \in 1..n |-> Horner(coeffs, i, Q)]

\* Fault: a random coefficient may be zero, and with it the degree.
FrostRestWithZero(t) == [1..(t - 1) -> Scalars]

\* The coefficients of the dealer's polynomial: none of the random ones is zero.
FrostRest(t) == [1..(t - 1) -> NonZero(Scalars)]
\* The product over the signers S of D_i * E_i^rho_i.
FrostCommitment(d, e, rho, S) ==
  ProductMod(MapSeq(LAMBDA i : GPow(d[i]) * Pow(GPow(e[i]), rho[i], P), InOrder(S)), P)

FrostSignShare(i, share, d, e, rho, c, S) ==
  (d[i] + e[i] * rho[i] + Lagrange(i, S, Q) * share * c) % Q

FrostAggregate(shares, d, e, rho, c, S) ==
  SumMod(MapSeq(LAMBDA i : FrostSignShare(i, shares[i], d, e, rho, c, S), InOrder(S)), Q)

FrostVerify(y, r, s, c) ==
  /\ r \in 1..(P - 1) /\ s \in 0..(Q - 1)
  /\ GPow(s) = (r * Pow(y, c, P)) % P

\* Nonces and binding factors are drawn per signer; a few patterns stand for all.
CallFrost ==
  /\ Calling("frost")
  /\ \E n \in 2..3 : \E t \in 2..n : \E x \in NonZero(Scalars), rest \in FrostRest(t) :
     \E S \in (SUBSET (1..n)) \ {{}}, k \in NonZero(Scalars), c \in Scalars :
       LET shares == FrostShares(<<x>> \o rest, n)
           d == [i \in 1..n |-> (k * i) % Q]
           e == [i \in 1..n |-> (k + i) % Q]
           rho == [i \in 1..n |-> (c + i) % Q]
       IN  Answer("frost", [t |-> t, S |-> S, c |-> c],
                FrostVerify(GPow(x), FrostCommitment(d, e, rho, S),
                            FrostAggregate(shares, d, e, rho, c, S), c))

\* Any t signers make a signature that verifies under the group's key, and t - 1
\* never do: the dealer's polynomial has exactly the degree that t asks for.
FrostThreshold ==
  Answered("frost") =>
    LET in == call.in IN
    /\ Cardinality(in.S) >= in.t => call.out
    /\ (Cardinality(in.S) = in.t - 1 /\ in.c # 0) => ~call.out

\* Fault: the threshold is clamped as the group's size is, not against it.
FrostDemoSizesApart(nAsked, tAsked) ==
  [n |-> Clamp(nAsked, 2, 9), t |-> Clamp(tAsked, 2, 9)]

FrostDemoSizes(nAsked, tAsked) ==
  LET n == Clamp(nAsked, 2, 9) IN [n |-> n, t |-> Clamp(tAsked, 2, n)]

\* demo: the requested sizes are clamped and the first t participants sign.
FrostDemo(nAsked, tAsked, x, c, cTampered) ==
  LET n == FrostDemoSizes(nAsked, tAsked).n
      t == FrostDemoSizes(nAsked, tAsked).t
      S == 1..Smaller(t, n)   \* shares[:t]
      shares == FrostShares(<<x>> \o [i \in 1..(t - 1) |-> i], n)
      d == [i \in 1..n |-> i]
      e == [i \in 1..n |-> n + 1 - i]
      rho == [i \in 1..n |-> (2 * i + c) % Q]
      r == FrostCommitment(d, e, rho, S)
      s == FrostAggregate(shares, d, e, rho, c, S)
  IN  [honest |-> FrostVerify(GPow(x), r, s, c),
       tampered |-> FrostVerify(GPow(x), r, s, cTampered),
       forged |-> FrostVerify(GPow(x), r, (s + 1) % Q, c)]

CallFrostDemo ==
  /\ Calling("frostDemo")
  /\ \E n, t \in -1..10, x, c \in NonZero(Scalars), other \in Scalars :
       Answer("frostDemo", [c |-> c, other |-> other],
            FrostDemo(n, t, x, c, other))

\* Whatever sizes are asked for, the demonstration's honest signature verifies, the
\* altered one does not, and neither does the honest one for another challenge.
FrostDemoSound ==
  Answered("frostDemo") =>
    /\ call.out.honest /\ ~call.out.forged
    /\ call.in.other # call.in.c => ~call.out.tampered

------------------------------------------------------------------------------
\* ECDSA, every share needed.

\* The x coordinate of the point with logarithm k; the point at infinity has none.
XCoord(k) == Smaller(k % CurveOrder, (-k) % CurveOrder)

LowS(s) == IF s > CurveOrder \div 2 THEN CurveOrder - s ELSE s

\* Fault: the partial signatures are added without their multiplier r.
EcdsaPartialsWithoutR(z, k, kInv, kInvD) ==
  SumMod([i \in DOMAIN kInv |-> (kInv[i] * z + kInvD[i]) % CurveOrder], CurveOrder)

\* The sum of the partial signatures over one nonce k and its two sharings.
EcdsaPartials(z, k, kInv, kInvD) ==
  SumMod([i \in DOMAIN kInv |-> (kInv[i] * z + XCoord(k) * kInvD[i]) % CurveOrder], CurveOrder)

EcdsaSharing(value, head) == <<head, (value - head) % CurveOrder>>

\* Sign: a sum of zero starts over, with the message extended by a mark (whose hash
\* is zNext) and fresh nonces.
EcdsaSign(d, z, k, zNext, kNext, heads) ==
  LET Attempt(zz, kk) ==
        LET kInv == Inv(kk, CurveOrder) IN
        EcdsaPartials(zz, kk, EcdsaSharing(kInv, heads[1]),
                      EcdsaSharing((kInv * d) % CurveOrder, heads[2]))
      first == Attempt(z, k)
  IN  IF first # 0 THEN [r |-> XCoord(k), s |-> LowS(first), z |-> z]
      ELSE [r |-> XCoord(kNext), s |-> LowS(Attempt(zNext, kNext)), z |-> zNext]

EcdsaVerify(d, z, r, s) ==
  /\ r \in 1..(CurveOrder - 1) /\ s \in 1..(CurveOrder - 1)
  /\ LET w == Inv(s, CurveOrder)
         point == (z * w + r * w * d) % CurveOrder
     IN  XCoord(point) = r

CallEcdsa ==
  /\ Calling("ecdsa")
  /\ \E d, k, kNext \in 1..(CurveOrder - 1), z, zNext \in 0..(CurveOrder - 1) :
     \E heads \in {<<0, 0>>, <<1, 3>>, <<2, 1>>} :
       Answer("ecdsa", [d |-> d, z |-> z], EcdsaSign(d, z, k, zNext, kNext, heads))

\* A signature verifies under the joint key for the hash it was made over, its s is
\* the small one of the two, and an s of zero is answered only when both attempts
\* came to zero.
EcdsaSignatureVerifies ==
  Answered("ecdsa") =>
    LET sig == call.out IN
    sig.s # 0 => /\ EcdsaVerify(call.in.d, sig.z, sig.r, sig.s)
                 /\ 2 * sig.s <= CurveOrder
=============================================================================
