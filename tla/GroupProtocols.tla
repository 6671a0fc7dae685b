---------------------------- MODULE GroupProtocols ----------------------------
(***************************************************************************)
(* Protocols in the group of squares modulo P: Pedersen commitments,       *)
(* Schnorr proofs of knowledge, the verifiable random function, Wesolowski *)
(* delay proofs and private set intersection (crypto/educational/          *)
(* pedersen.py, schnorr.py, crypto/vrf.py, vdf.py, psi.py).  A hash is an  *)
(* oracle whose answers are arguments of the call.                         *)
(***************************************************************************)
EXTENDS Field

CONSTANTS
  MaxDelay,     \* the longest delay that is evaluated
  MaxTested,    \* the primality test is tried on every number up to here,
  AlsoTested,   \*   and on these: products of two primes above the trial divisors
  Items         \* what the two parties of an intersection may hold: numbers

ASSUME ProtocolAssumption ==
  /\ MaxDelay \in Nat /\ MaxTested \in Nat /\ AlsoTested \subseteq Nat
  /\ Items \subseteq 1..(Q - 1)

Exponents == 0..(Q - 1)

------------------------------------------------------------------------------
\* Pedersen.

\* Fault: the blinding factor is applied to the generator of the message.
CommitUnblinded(message, blinding) == (GPow(message) * GPow(0 * blinding)) % P

Commit(message, blinding) == (GPow(message) * Pow(H, blinding, P)) % P

CommitmentOpens(commitment, message, blinding) ==
  Commit(message, blinding) = commitment

CallPedersen ==
  /\ Calling("pedersen")
  /\ \E m1, m2, r1, r2 \in Exponents :
       Answer("pedersen", [m1 |-> m1, m2 |-> m2, r1 |-> r1, r2 |-> r2],
              <<Commit(m1, r1), Commit(m2, r2)>>)

\* The exponent that takes G to H: nobody is supposed to know it.
LogOfH == CHOOSE e \in Exponents : GPow(e) = H

\* A commitment is to every message (it hides), two openings of one commitment give
\* away the logarithm of H (it binds), and commitments multiply as messages add.
PedersenHidesAndBinds ==
  Answered("pedersen") =>
    LET in == call.in IN
    /\ \A m \in Exponents : \E r \in Exponents : CommitmentOpens(call.out[1], m, r)
    /\ (call.out[1] = call.out[2] /\ in.m1 # in.m2) =>
         (in.m1 - in.m2) % Q = (LogOfH * (in.r2 - in.r1)) % Q
    /\ CommitmentOpens((call.out[1] * call.out[2]) % P,
                       (in.m1 + in.m2) % Q, (in.r1 + in.r2) % Q)

------------------------------------------------------------------------------
\* Schnorr.  c is the hash of the statement, the commitment and the context.

\* Fault: the response leaves the witness out of the challenge's reach.
SchnorrProveWithoutChallenge(x, r, c) == [t |-> GPow(r), s |-> (r + x) % Q, c |-> c]

SchnorrProve(x, r, c) == [t |-> GPow(r), s |-> (r + c * x) % Q, c |-> c]

SchnorrVerify(y, proof, c) ==
  /\ proof.c = c
  /\ proof.s \in Exponents /\ proof.t \in 1..(P - 1)
  /\ GPow(proof.s) = (proof.t * Pow(y, proof.c, P)) % P

CallSchnorr ==
  /\ Calling("schnorr")
  /\ \E x, r \in NonZero(Exponents), c \in Exponents :
       Answer("schnorr", [x |-> x, r |-> r, c |-> c], SchnorrProve(x, r, c))

\* The honest proof verifies and a proof carried over to another challenge does not;
\* whoever could answer two challenges for one commitment would know the witness.
SchnorrProvesKnowledge ==
  Answered("schnorr") =>
    LET in == call.in  y == GPow(in.x)  first == call.out IN
    /\ SchnorrVerify(y, first, in.c)
    /\ \A c \in Exponents \ {in.c} :
         /\ ~SchnorrVerify(y, first, c)
         /\ \A s \in Exponents :
              SchnorrVerify(y, [t |-> first.t, s |-> s, c |-> c], c) =>
                ((first.s - s) * Inv((in.c - c) % Q, Q)) % Q = in.x

------------------------------------------------------------------------------
\* The verifiable random function.  h is the hash of the input into the group; the
\* output is a hash of gamma, so two outputs differ exactly when their gammas do.

VrfProve(sk, h, k, c) == [gamma |-> Pow(h, sk, P), c |-> c, s |-> (k + c * sk) % Q]

VrfVerifyCommitments(pk, h, proof) ==
  [u |-> (GPow(proof.s) * Pow(pk, Q - proof.c, P)) % P,
   v |-> (Pow(h, proof.s, P) * Pow(proof.gamma, Q - proof.c, P)) % P]

\* Fault: only the commitment in the base g goes into the challenge.
VrfAcceptsOneBase(pk, h, proof, u, v, c) ==
  /\ proof.gamma \in 1..(P - 1) /\ proof.s \in Exponents
  /\ VrfVerifyCommitments(pk, h, proof).u = u
  /\ proof.c = c

\* The verifier recomputes u and v and asks the oracle for their challenge, which is c
\* for the pair the prover committed to.
VrfAccepts(pk, h, proof, u, v, c) ==
  /\ proof.gamma \in 1..(P - 1) /\ proof.s \in Exponents
  /\ VrfVerifyCommitments(pk, h, proof) = [u |-> u, v |-> v]
  /\ proof.c = c

CallVrf ==
  /\ Calling("vrf")
  /\ \E sk \in {1, 3, 10}, e \in {1, 7}, k \in {1, 6}, gamma \in GroupElements, vk \in {1, 6} :
       LET h == GPow(e) IN
       Answer("vrf", [sk |-> sk, h |-> h, k |-> k, gamma |-> gamma, v |-> Pow(h, vk, P)],
              [c \in Exponents |-> VrfProve(sk, h, k, c)])

\* The honest proof is accepted for every challenge; for any other gamma, whatever u
\* and v the prover commits to, at most one challenge can be answered: an input has
\* one output, and the prover's draw of k does not change it.
VrfUnique ==
  Answered("vrf") =>
    LET in == call.in  pk == GPow(in.sk)  u == GPow(in.k) IN
    /\ \A c \in Exponents : VrfAccepts(pk, in.h, call.out[c], u, Pow(in.h, in.k, P), c)
    /\ in.gamma # Pow(in.h, in.sk, P) =>
         Cardinality({c \in Exponents : \E s \in Exponents :
           VrfAccepts(pk, in.h, [gamma |-> in.gamma, c |-> c, s |-> s], u, in.v, c)}) <= 1

------------------------------------------------------------------------------
\* The delay function and the primality test behind its challenge.

\* Fault: one squaring too few.
VdfEvaluateShort(x, delay) == FoldLeft(LAMBDA y, i : (y * y) % P, x, [i \in 2..delay |-> i])

VdfEvaluate(x, delay) == FoldLeft(LAMBDA y, i : (y * y) % P, x, [i \in 1..delay |-> i])

VdfProve(x, delay, prime) ==
  [x |-> x, y |-> VdfEvaluate(x, delay), delay |-> delay,
   proof |-> Pow(x, (2 ^ delay) \div prime, P)]

VdfVerify(evaluation, prime) ==
  /\ evaluation.x \in 1..(P - 1) /\ evaluation.y \in 1..(P - 1)
  /\ evaluation.proof \in 0..(P - 1)
  /\ (Pow(evaluation.proof, prime, P) * Pow(evaluation.x, Pow(2, evaluation.delay, prime), P)) % P
       = evaluation.y

CallVdf ==
  /\ Calling("vdf")
  /\ \E x \in 1..(P - 1), delay \in 0..MaxDelay, prime \in {n \in 1..17 : IsPrime(n)} :
       Answer("vdf", [prime |-> prime], VdfProve(x, delay, prime))

\* The output is x to the power 2^delay, the short proof of it verifies for every
\* prime the hash may name, and it verifies for no other output.
VdfProofExact ==
  Answered("vdf") =>
    /\ call.out.y = Pow(call.out.x, 2 ^ call.out.delay, P)
    /\ \A y \in 1..(P - 1) :
         VdfVerify([call.out EXCEPT !.y = y], call.in.prime) <=> y = call.out.y

SmallPrimes == <<2, 3, 5, 7, 11, 13, 17, 19, 23, 29, 31, 37>>

RECURSIVE OddPart(_)
OddPart(n) == IF n % 2 = 0 THEN OddPart(n \div 2) ELSE n

RECURSIVE Log2(_)
Log2(n) == IF n <= 1 THEN 0 ELSE 1 + Log2(n \div 2)

\* Fault: the squarings between the odd part and n - 1 are not looked at.
WitnessPassesAtOnce(a, n) ==
  LET d == OddPart(n - 1) IN a >= n \/ Pow(a, d, n) \in {1, n - 1}

\* One round of Miller and Rabin: base a finds nothing against n.
WitnessPasses(a, n) ==
  LET d == OddPart(n - 1)
      s == Log2((n - 1) \div d)
  IN  \/ a >= n
      \/ Pow(a, d, n) \in {1, n - 1}
      \/ \E i \in 1..(s - 1) : Pow(a, d * 2 ^ i, n) = n - 1

IsProbablePrime(n) ==
  /\ n >= 2
  /\ \/ n \in ToSet(SmallPrimes)
     \/ /\ \A q \in ToSet(SmallPrimes) : n % q # 0
        /\ \A a \in ToSet(SmallPrimes) : WitnessPasses(a, n)

CallPrimality ==
  /\ Calling("primality")
  /\ \E n \in (0..MaxTested) \cup AlsoTested : Answer("primality", n, IsProbablePrime(n))

\* The probabilistic test is exact here: no prime is refused, and no product of primes
\* too large for the trial division passes.
PrimalityExact ==
  Answered("primality") => (call.out <=> IsPrime(call.in))

------------------------------------------------------------------------------
\* Private set intersection.  An item's hash into the group is G to its number.

\* Fault: the client takes off its blinding by raising to it again.
UnblindAgain(alpha, evaluated) == MapSeq(LAMBDA v : Pow(v, alpha, P), evaluated)

Unblind(alpha, evaluated) == MapSeq(LAMBDA v : Pow(v, Inv(alpha, Q), P), evaluated)

Blind(alpha, items) == MapSeq(LAMBDA x : Pow(GPow(x), alpha, P), items)
ServerEvaluate(beta, blinded) == MapSeq(LAMBDA v : Pow(v, beta, P), blinded)
\* The server's values, shuffled: their set is all that is compared.
Published(beta, items) == {Pow(GPow(y), beta, P) : y \in items}

Intersect(clientItems, unblinded, published) ==
  MapSeq(LAMBDA i : clientItems[i],
         InOrder({i \in DOMAIN clientItems : unblinded[i] \in published}))

CallPsi ==
  /\ Calling("psi")
  /\ \E client \in SeqsUpTo(Items, 3), server \in SUBSET Items,
        alpha, beta \in NonZero({0, 1, 2, 7}) :
       Answer("psi", [client |-> client, server |-> server],
              Intersect(client, Unblind(alpha, ServerEvaluate(beta, Blind(alpha, client))),
                        Published(beta, server)))

\* The client learns which of its items the server has, in its own order, with
\* repetitions, and nothing it did not ask about.
IntersectionExact ==
  Answered("psi") => call.out = SelectSeq(call.in.client, LAMBDA x : x \in call.in.server)
=============================================================================
