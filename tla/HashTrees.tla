------------------------------ MODULE HashTrees ------------------------------
(***************************************************************************)
(* The Merkle tree of block payloads (chain/merkle.py) and the low-degree  *)
(* test built on another one (crypto/stark.py).  A hash is the tuple of    *)
(* what is hashed: it has no collisions, and distinct tags stay distinct.  *)
(***************************************************************************)
EXTENDS Field

CONSTANTS
  Payloads,      \* leaf contents
  MaxTree,       \* the largest number of leaves
  FriPrime,      \* a prime one above a power of two
  FriRoot,       \* a generator of its multiplicative group
  Blowup

ASSUME TreeAssumption ==
  /\ MaxTree \in Nat
  /\ IsPrime(FriPrime) /\ \A k \in 1..(FriPrime - 2) : Pow(FriRoot, k, FriPrime) # 1
  /\ Blowup \in Nat \ {0}

HashLeaf(payload) == <<"leaf", payload>>
HashInternal(left, right, level) == <<"node", level, left, right>>
PaddingNode == <<"pad">>
ZeroLeaf == <<"zero">>

\* Fault: an odd level repeats its last node (CVE-2012-2459).
PaddedTwice(nodes) == IF Len(nodes) % 2 = 1 THEN Append(nodes, Last(nodes)) ELSE nodes

Padded(nodes) == IF Len(nodes) % 2 = 1 THEN Append(nodes, PaddingNode) ELSE nodes

LevelAbove(nodes, level) ==
  LET full == Padded(nodes) IN
  [i \in 1..(Len(full) \div 2) |-> HashInternal(full[2 * i - 1], full[2 * i], level)]

RECURSIVE RootAbove(_, _)
RootAbove(nodes, level) ==
  IF Len(nodes) = 1 THEN nodes[1] ELSE RootAbove(LevelAbove(nodes, level), level + 1)

BuildRoot(leaves) ==
  IF leaves = <<>> THEN ZeroLeaf ELSE RootAbove(MapSeq(HashLeaf, leaves), 1)

\* Fault: the cursor is not halved from one level to the next.
RECURSIVE PathAboveSame(_, _, _)
PathAboveSame(nodes, cursor, level) ==
  IF Len(nodes) = 1 THEN <<>>
  ELSE LET at == Smaller(cursor, Len(nodes) - 1)
           sibling == IF at % 2 = 0 THEN at + 1 ELSE at - 1
       IN  <<[sibling |-> Padded(nodes)[sibling + 1], onLeft |-> at % 2 = 0]>>
             \o PathAboveSame(LevelAbove(nodes, level), cursor, level + 1)

RECURSIVE PathAbove(_, _, _)
\* cursor counts from 0; each step is the sibling and whether our path is on the left
PathAbove(nodes, cursor, level) ==
  IF Len(nodes) = 1 THEN <<>>
  ELSE LET sibling == IF cursor % 2 = 0 THEN cursor + 1 ELSE cursor - 1
       IN  <<[sibling |-> Padded(nodes)[sibling + 1], onLeft |-> cursor % 2 = 0]>>
             \o PathAbove(LevelAbove(nodes, level), cursor \div 2, level + 1)

BuildProof(leaves, index) ==
  [leaf |-> HashLeaf(leaves[index + 1]), path |-> PathAbove(MapSeq(HashLeaf, leaves), index, 1)]

VerifyProof(root, proof) ==
  root = FoldLeftDomain(
           LAMBDA cursor, level :
             LET step == proof.path[level] IN
             IF step.onLeft THEN HashInternal(cursor, step.sibling, level)
                            ELSE HashInternal(step.sibling, cursor, level),
           proof.leaf, proof.path)

LeafLists == SeqsUpTo(Payloads, MaxTree)

CallMerkle ==
  /\ Calling("merkle")
  /\ \E leaves \in LeafLists : Answer("merkle", leaves, BuildRoot(leaves))

\* A root stands for one list of leaves, whatever its length: no shorter or longer list,
\* and no repetition of the last leaf, has the same root.
RootBindsList ==
  Answered("merkle") =>
    \A other \in LeafLists : BuildRoot(other) = call.out => other = call.in

\* The proof of a position verifies for the leaf that is there and for no other.
MembershipExact ==
  Answered("merkle") =>
    \A i \in 0..(Len(call.in) - 1), payload \in Payloads :
      VerifyProof(call.out, [BuildProof(call.in, i) EXCEPT !.leaf = HashLeaf(payload)])
        <=> payload = call.in[i + 1]

------------------------------------------------------------------------------
\* The low-degree test.  Its own Merkle tree numbers no levels and repeats the last
\* node, which is never needed because a domain has a power of two of points.

FriNode(l, r) == <<"node", l, r>>

RECURSIVE FriRoots(_)
FriRoots(nodes) ==
  IF Len(nodes) = 1 THEN nodes[1]
  ELSE LET full == IF Len(nodes) % 2 = 1 THEN Append(nodes, Last(nodes)) ELSE nodes
       IN  FriRoots([i \in 1..(Len(full) \div 2) |-> FriNode(full[2 * i - 1], full[2 * i])])
MerkleRoot(leaves) == FriRoots(MapSeq(LAMBDA x : <<"leaf", x>>, leaves))

RECURSIVE FriPath(_, _)
FriPath(nodes, idx) ==
  IF Len(nodes) = 1 THEN <<>>
  ELSE LET full == IF Len(nodes) % 2 = 1 THEN Append(nodes, Last(nodes)) ELSE nodes
           sibling == IF idx % 2 = 0 THEN idx + 1 ELSE idx - 1
       IN  <<full[sibling + 1]>>
             \o FriPath([i \in 1..(Len(full) \div 2) |-> FriNode(full[2 * i - 1], full[2 * i])],
                        idx \div 2)
MerkleOpen(leaves, idx) ==
  [leaf |-> leaves[idx + 1], index |-> idx,
   path |-> FriPath(MapSeq(LAMBDA x : <<"leaf", x>>, leaves), idx)]

MerkleVerify(root, proof) ==
  root = FoldLeftDomain(
           LAMBDA node, i : IF (proof.index \div 2 ^ (i - 1)) % 2 = 0
                            THEN FriNode(node, proof.path[i]) ELSE FriNode(proof.path[i], node),
           <<"leaf", proof.leaf>>, proof.path)

FriDomain(n) ==
  [i \in 1..n |-> Pow(Pow(FriRoot, (FriPrime - 1) \div n, FriPrime), i - 1, FriPrime)]

\* The two halves of one evaluation: f(x) and f(-x) give the value of the folded polynomial.
FoldPair(left, right, x, beta) ==
  LET half == Inv(2, FriPrime)
      even == ((left + right) * half) % FriPrime
      odd == (((left - right) * half) * Inv(x, FriPrime)) % FriPrime
  IN  (even + beta * odd) % FriPrime

\* Fault: the odd half is not divided by the point it was taken at.
FriFoldOwnPoint(code, domain, beta) ==
  [i \in 1..(Len(code) \div 2) |->
     FoldPair(code[i], code[i + Len(code) \div 2], domain[1], beta)]

FriFold(code, domain, beta) ==
  [i \in 1..(Len(code) \div 2) |->
     FoldPair(code[i], code[i + Len(code) \div 2], domain[i], beta)]
SquaredDomain(domain) ==
  [i \in 1..(Len(domain) \div 2) |-> (domain[i] * domain[i]) % FriPrime]

FriDomainSize(coeffs) ==
  CHOOSE n \in {2 ^ k : k \in 0..10} :
    n >= Len(coeffs) * Blowup /\ (n > 1 => n \div 2 < Len(coeffs) * Blowup)

\* The codewords down to the constant; beta[k] is the hash of the first k commitments.
RECURSIVE FriLayers(_, _, _)
FriLayers(code, domain, beta) ==
  IF Len(code) = 1 THEN <<code>>
  ELSE <<code>> \o FriLayers(FriFold(code, domain, Head(beta)), SquaredDomain(domain), Tail(beta))

FriProve(coeffs, beta, query) ==
  LET n == FriDomainSize(coeffs)
      code == MapSeq(LAMBDA x : Horner(coeffs, x, FriPrime), FriDomain(n))
      layers == FriLayers(code, FriDomain(n), beta)
      rounds == Len(layers) - 1
      idx[k \in 1..rounds] ==
        IF k = 1 THEN query % n ELSE (idx[k - 1] % Len(layers[k - 1])) % Len(layers[k])
      Round(k) ==
        LET m == Len(layers[k])
            l == idx[k] % m
            r == (l + m \div 2) % m
        IN  [commitment |-> MerkleRoot(layers[k]), left |-> layers[k][l + 1],
             right |-> layers[k][r + 1], proofLeft |-> MerkleOpen(layers[k], l),
             proofRight |-> MerkleOpen(layers[k], r)]
  IN  [rounds |-> [k \in 1..rounds |-> Round(k)], final |-> layers[rounds + 1][1],
       query |-> query % n, size |-> n]

\* Fault: the value folded from one round is not compared with the next.
FriVerifyRoundAlone(round, size, idx, expected) ==
  LET l == idx % size
      r == (l + size \div 2) % size
  IN  /\ round.proofLeft.index = l /\ round.proofRight.index = r
      /\ round.proofLeft.leaf = round.left /\ round.proofRight.leaf = round.right
      /\ MerkleVerify(round.commitment, round.proofLeft)
      /\ MerkleVerify(round.commitment, round.proofRight)

FriVerifyRound(round, size, idx, expected) ==
  LET l == idx % size
      r == (l + size \div 2) % size
  IN  /\ round.proofLeft.index = l /\ round.proofRight.index = r
      /\ round.proofLeft.leaf = round.left /\ round.proofRight.leaf = round.right
      /\ MerkleVerify(round.commitment, round.proofLeft)
      /\ MerkleVerify(round.commitment, round.proofRight)
      /\ expected # <<>> => round.left = expected[1]

RECURSIVE FriVerifyFrom(_, _, _, _, _, _)
FriVerifyFrom(proof, k, idx, domain, beta, expected) ==
  IF k > Len(proof.rounds) THEN expected # <<>> /\ expected[1] = proof.final % FriPrime
  ELSE LET round == proof.rounds[k]
           size == Len(domain)
           l == idx % size
       IN  /\ FriVerifyRound(round, size, idx, expected)
           /\ FriVerifyFrom(proof, k + 1, l % (size \div 2), SquaredDomain(domain), beta,
                            <<FoldPair(round.left, round.right, domain[l + 1], beta[k])>>)

FriVerify(proof, beta, query) ==
  /\ proof.rounds # <<>>
  /\ FriVerifyFrom(proof, 1, proof.query % proof.size, FriDomain(proof.size), beta, <<>>)
  /\ query % proof.size = proof.query

CallFri ==
  /\ Calling("fri")
  /\ \E coeffs \in SeqsUpTo({1, 5}, 4) \ {<<>>}, beta \in {<<3, 7, 2, 5>>, <<0, 1, 16, 4>>},
        query \in 0..(FriPrime - 2) :
       Answer("fri", [coeffs |-> coeffs, beta |-> beta, query |-> query],
              FriProve(coeffs, beta, query))

RECURSIVE FoldedCoefficients(_, _)
\* What the folds do to the polynomial itself: even coefficients plus beta times odd ones.
FoldedCoefficients(coeffs, beta) ==
  IF beta = <<>> THEN coeffs
  ELSE LET at(i) == IF i <= Len(coeffs) THEN coeffs[i] ELSE 0
       IN  FoldedCoefficients(
             [i \in 1..((Len(coeffs) + 1) \div 2) |->
                (at(2 * i - 1) + Head(beta) * at(2 * i)) % FriPrime], Tail(beta))

\* The honest proof verifies and its last value is the constant to which the polynomial
\* itself folds.
FriFoldsThePolynomial ==
  Answered("fri") =>
    LET in == call.in IN
    /\ FriVerify(call.out, in.beta, in.query)
    /\ call.out.final =
         FoldedCoefficients(in.coeffs, SubSeq(in.beta, 1, Len(call.out.rounds)))[1]

\* A proof whose claimed evaluation, last value or point of query is altered is refused,
\* and so is one in which a later codeword is replaced by another, properly committed one.
FriRefusesAltered ==
  Answered("fri") =>
    LET in == call.in
        proof == call.out
        Replaced(k, v) ==
          LET size == proof.size \div 2 ^ (k - 1) IN
          [proof EXCEPT !.rounds[k] =
             LET code == [i \in 1..size |-> v] IN
             [commitment |-> MerkleRoot(code), left |-> v, right |-> v,
              proofLeft |-> MerkleOpen(code, @.proofLeft.index),
              proofRight |-> MerkleOpen(code, @.proofRight.index)]]
    IN  /\ \A k \in DOMAIN proof.rounds :
             ~FriVerify([proof EXCEPT !.rounds[k].left = (@ + 1) % FriPrime], in.beta, in.query)
        /\ ~FriVerify([proof EXCEPT !.final = (@ + 1) % FriPrime], in.beta, in.query)
        /\ ~FriVerify([proof EXCEPT !.query = (@ + 1) % proof.size], in.beta, in.query)
        /\ \A k \in 2..Len(proof.rounds), v \in {0, 4} :
             v # proof.rounds[k].left => ~FriVerify(Replaced(k, v), in.beta, in.query)
=============================================================================
