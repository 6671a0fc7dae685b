------------------------------- MODULE Garbling -------------------------------
(***************************************************************************)
(* Two ways to compute on hidden bits: garbled gates with the millionaires'*)
(* comparison (educational/yao.py), and gates on noisy ciphertexts         *)
(* (educational/tfhe_boolean.py).                                          *)
(* A wire label is the wire and which of its two labels it is; encrypting  *)
(* under two labels keeps them beside the plaintext, and only the same two *)
(* open it, which is what the tags of the code are for.                    *)
(***************************************************************************)
EXTENDS Calls

CONSTANTS
  Bits,         \* the width of the numbers compared
  LweModulus,   \* a power of two
  LweNoise,     \* the largest error of a fresh ciphertext
  MaskParts     \* numbers of which the random vectors, of length two, are made

ASSUME GarblingAssumption ==
  /\ Bits \in Nat \ {0}
  /\ LweModulus \in {2 ^ k : k \in 2..10}
  /\ LweNoise \in Nat /\ 3 * LweNoise < LweModulus \div 4
  /\ MaskParts \subseteq 0..(LweModulus - 1)

------------------------------------------------------------------------------
\* Yao.

Wire(name) == [zero |-> <<name, 0>>, one |-> <<name, 1>>]
\* The same wire read through a free negation.
NotWire(w) == [zero |-> w.one, one |-> w.zero]
LabelFor(w, bit) == IF bit = 1 THEN w.one ELSE w.zero

TruthTable(kind, a, b) ==
  CASE kind = "AND" -> a * b
    [] kind = "OR" -> Larger(a, b)
    [] kind = "XOR" -> (a + b) % 2

GarbleGate(kind, inA, inB, out) ==
  [rows |-> [a \in 0..1 |-> [b \in 0..1 |->
      [keyA |-> LabelFor(inA, a), keyB |-> LabelFor(inB, b),
       plain |-> LabelFor(out, TruthTable(kind, a, b))]]],
   out |-> out]

\* Fault: the second key of a row is not checked.
EvaluateGateOneKey(gate, labelA, labelB, hintA, hintB) ==
  LET row == gate.rows[hintA][hintB] IN
  IF row.keyA = labelA THEN row.plain ELSE <<"mismatch", 0>>

\* The tag of the selected row does not match, or the label inside.
EvaluateGate(gate, labelA, labelB, hintA, hintB) ==
  LET row == gate.rows[hintA][hintB] IN
  IF row.keyA = labelA /\ row.keyB = labelB THEN row.plain ELSE <<"mismatch", 0>>

DecodeOutput(out, label) ==
  CASE label = out.zero -> 0 [] label = out.one -> 1 [] OTHER -> -1

GateOn(kind, inA, inB, a, b) ==
  LET gate == GarbleGate(kind, inA, inB, Wire("out")) IN
  DecodeOutput(gate.out, EvaluateGate(gate, LabelFor(inA, a), LabelFor(inB, b), a, b))

\* One bit of the comparison: [eq, a_less] so far, from the three gates of this bit.
CompareStep(state, a, b) ==
  LET wa == Wire("a")  wb == Wire("b")
      eqHere == 1 - GateOn("XOR", wa, wb, a, b)
      aLess == GateOn("AND", NotWire(wa), wb, 1 - a, b)
      bLess == GateOn("AND", wa, NotWire(wb), a, 1 - b)
  IN  CASE state.eq = 0 -> state
        [] state.eq = 1 /\ aLess = 1 -> [eq |-> 0, less |-> 1]
        [] state.eq = 1 /\ aLess = 0 /\ bLess = 1 -> [eq |-> 0, less |-> 0]
        [] OTHER -> [state EXCEPT !.eq = eqHere]

BitAt(n, i) == (n \div 2 ^ i) % 2

\* Fault: the bits are visited from the lowest one up.
BitOrderUp == [k \in 1..Bits |-> k - 1]

BitOrder == [k \in 1..Bits |-> Bits - k]

CompareMillionaires(a, b) ==
  LET end == FoldLeft(LAMBDA s, i : CompareStep(s, BitAt(a, i), BitAt(b, i)),
                      [eq |-> 1, less |-> 0], BitOrder)
  IN  CASE end.eq = 1 -> "equal" [] end.eq = 0 /\ end.less = 1 -> "a_less" [] OTHER -> "b_less"

CallMillionaires ==
  /\ Calling("millionaires")
  /\ \E a, b \in 0..(2 ^ Bits - 1) :
       Answer("millionaires", [a |-> a, b |-> b], CompareMillionaires(a, b))

\* The gates, evaluated bit by bit on labels alone, order the two numbers as they are.
ComparisonRight ==
  Answered("millionaires") =>
    LET a == call.in.a  b == call.in.b IN
    call.out = (IF a < b THEN "a_less" ELSE IF b < a THEN "b_less" ELSE "equal")

CallGate ==
  /\ Calling("gate")
  /\ \E kind \in {"AND", "OR", "XOR"}, held \in [{"a", "b"} -> 0..1], hint \in [{"a", "b"} -> 0..1] :
       LET gate == GarbleGate(kind, Wire("a"), Wire("b"), Wire("out")) IN
       Answer("gate", [kind |-> kind, held |-> held, hint |-> hint],
              DecodeOutput(gate.out, EvaluateGate(gate, LabelFor(Wire("a"), held["a"]),
                                       LabelFor(Wire("b"), held["b"]), hint["a"], hint["b"])))

\* Who holds one label of each input wire learns the gate's output at these bits, and
\* from any other row nothing that decodes.
OneRowOpens ==
  Answered("gate") =>
    LET in == call.in IN
    call.out = (IF in.hint = in.held THEN TruthTable(in.kind, in.held["a"], in.held["b"]) ELSE -1)

------------------------------------------------------------------------------
\* Noisy ciphertexts.  The key is two bits; a ciphertext is a mask and a number.

LweScale == LweModulus \div 2
LweMasks == MaskParts \X MaskParts
Inner(mask, key) == mask[1] * key[1] + mask[2] * key[2]
LweEncrypt(key, bit, mask, noise) ==
  [a |-> mask, b |-> (Inner(mask, key) + bit * LweScale + noise) % LweModulus]
LweDecrypt(key, c) ==
  LET raw == (c.b - Inner(c.a, key)) % LweModulus IN
  IF LweModulus \div 4 <= raw /\ raw < 3 * (LweModulus \div 4) THEN 1 ELSE 0

HomXor(c, d) ==
  [a |-> <<(c.a[1] + d.a[1]) % LweModulus, (c.a[2] + d.a[2]) % LweModulus>>,
   b |-> (c.b + d.b) % LweModulus]
\* Fault: the mask is not negated with the number.
HomNotNumberOnly(c) == [c EXCEPT !.b = (LweScale - @) % LweModulus]
HomNot(c) ==
  [a |-> <<(-c.a[1]) % LweModulus, (-c.a[2]) % LweModulus>>, b |-> (LweScale - c.b) % LweModulus]
\* The evaluator holds the key and encrypts afresh, with the noise of the call.
EvaluatorNand(key, c, d, mask, noise) ==
  LweEncrypt(key, 1 - LweDecrypt(key, c) * LweDecrypt(key, d), mask, noise)
EvaluatorAnd(key, c, d, mask, noise) == HomNot(EvaluatorNand(key, c, d, mask, noise))
EvaluatorOr(key, c, d, mask, noise) ==
  HomNot(EvaluatorAnd(key, HomNot(c), HomNot(d), mask, noise))
FactionOverlap(c, d) == HomNot(HomXor(c, d))

CallLwe ==
  /\ Calling("lwe")
  /\ \E key \in (0..1) \X (0..1), m1, m2 \in LweMasks, x, y \in 0..1,
        e1, e2, e3 \in (-LweNoise)..LweNoise :
       LET c == LweEncrypt(key, x, m1, e1)
           d == LweEncrypt(key, y, m2, e2)
           D(z) == LweDecrypt(key, z)
       IN  Answer("lwe", [x |-> x, y |-> y],
             [xor |-> D(HomXor(c, d)), not |-> D(HomNot(c)),
              nand |-> D(EvaluatorNand(key, c, d, m1, e3)),
              and |-> D(EvaluatorAnd(key, c, d, m1, e3)),
              or |-> D(EvaluatorOr(key, c, d, m1, e3)),
              overlap |-> D(FactionOverlap(c, d)),
              twice |-> D(HomXor(HomXor(c, d), HomNot(LweEncrypt(key, y, m1, e3))))])

\* Each gate decrypts to the gate's value whatever the masks and the errors, also when
\* three errors have added up: they stay within a quarter of the modulus.
HomomorphicGatesRight ==
  Answered("lwe") =>
    LET x == call.in.x  y == call.in.y IN
    call.out = [xor |-> (x + y) % 2, not |-> 1 - x, nand |-> 1 - x * y, and |-> x * y,
                or |-> Larger(x, y), overlap |-> (x + y + 1) % 2, twice |-> 1 - x]
=============================================================================
