------------------------------- MODULE SetSums -------------------------------
(***************************************************************************)
(* Sums of functions over finite sets, and the induction they need.  The   *)
(* functions of this project that add up (what is on order for a city, the *)
(* goods there are) do it with SumFunctionOnSet of the community modules,  *)
(* a recursive function under a CHOOSE: that there is such a function, and *)
(* that the order in which it picks the elements does not matter, is shown *)
(* here once.                                                              *)
(*                                                                         *)
(* The library's induction theorems take the property as an operator, and  *)
(* no backend here can instantiate it.  SetInduction takes the set of the  *)
(* numbers that have it, and comes from the finite sets' pigeonholes.      *)
(***************************************************************************)
EXTENDS Integers, FiniteSets, Functions, FiniteSetTheorems, TLAPS

\* Induction, with a set for the property: a step upwards from 0 that never leaves S would, if
\* it missed some number, map the finite part of S below it one to one into itself without 0.
THEOREM SetInduction ==
    ASSUME NEW S, 0 \in S, \A n \in Nat : n \in S => n + 1 \in S
    PROVE  Nat \subseteq S
<1> SUFFICES ASSUME NEW m \in Nat, m \notin S
             PROVE  FALSE
  OBVIOUS
<1> DEFINE T == {n \in 0 .. m : n \in S}
           next == [n \in T |-> n + 1]
<1>1. IsFiniteSet(T)
  <2>1. 0 \in Int /\ m \in Int
    OBVIOUS
  <2>2. IsFiniteSet(0 .. m)
    BY <2>1, FS_Interval
  <2> QED
    BY <2>2, FS_Subset
<1>2. \A n \in T : n + 1 \in T
  <2> TAKE n \in T
  <2>1. n \in Nat /\ n # m /\ n \in S
    OBVIOUS
  <2> QED
    BY <2>1
<1>3. next \in Injection(T, T)
  <2>1. next \in [T -> T]
    BY <1>2
  <2>2. \A a, b \in T : next[a] = next[b] => a = b
    OBVIOUS
  <2> QED
    BY <2>1, <2>2 DEF Injection, IsInjective
<1>4. next \in Surjection(T, T)
  BY <1>1, <1>3, FS_Injection
<1>5. 0 \in T
  OBVIOUS
<1>6. PICK n \in T : next[n] = 0
  BY <1>4, <1>5 DEF Surjection
<1> QED
  BY <1>6

\* Whatever holds of a set once it holds of the set without any one element holds of all subsets.
THEOREM SubsetInduction ==
    ASSUME NEW S, IsFiniteSet(S), NEW P,
           \A T \in SUBSET S : (\A x \in T : T \ {x} \in P) => T \in P
    PROVE  SUBSET S \subseteq P
<1> DEFINE Q == {n \in Nat : \A T \in SUBSET S : Cardinality(T) = n => T \in P}
<1>1. \A T \in SUBSET S : IsFiniteSet(T) /\ Cardinality(T) \in Nat
  BY FS_Subset, FS_CardinalityType
<1>2. 0 \in Q
  <2>1. \A T \in SUBSET S : Cardinality(T) = 0 => T = {}
    BY <1>1, FS_EmptySet
  <2> QED
    BY <2>1
<1>3. \A n \in Nat : n \in Q => n + 1 \in Q
  <2> SUFFICES ASSUME NEW n \in Nat, n \in Q, NEW T \in SUBSET S, Cardinality(T) = n + 1
               PROVE  T \in P
    OBVIOUS
  <2>1. \A x \in T : T \ {x} \in SUBSET S /\ Cardinality(T \ {x}) = n
    BY <1>1, FS_RemoveElement
  <2> QED
    BY <2>1
<1> HIDE DEF Q
<1>4. Nat \subseteq Q
  BY <1>2, <1>3, SetInduction
<1> QED
  BY <1>1, <1>4 DEF Q

----------------------------------------------------------------------------
(* The function by which SumFunctionOnSet is computed                      *)

Picked(s) == CHOOSE x \in s : TRUE
IsTableOn(g, f, D) == g = [s \in D |-> IF s = {} THEN 0 ELSE f[Picked(s)] + g[s \ {Picked(s)}]]

IsTable(g, f, S) == IsTableOn(g, f, SUBSET S)

\* A set has the element that is picked.
LEMMA PickedIn == \A s : s # {} => Picked(s) \in s
BY DEF Picked

\* There is a table of the sums over all subsets, by induction on their size.
LEMMA TableExists ==
    ASSUME NEW S, IsFiniteSet(S), NEW f
    PROVE  \E g : IsTable(g, f, S)
<1> DEFINE D(n) == {s \in SUBSET S : Cardinality(s) <= n}
           Q == {n \in Nat : \E g : IsTableOn(g, f, D(n))}
<1>1. \A s \in SUBSET S : IsFiniteSet(s) /\ Cardinality(s) \in Nat
  BY FS_Subset, FS_CardinalityType
<1>2. \A s \in SUBSET S, n \in Nat : s # {} /\ Cardinality(s) <= n + 1 => s \ {Picked(s)} \in D(n)
  <2> SUFFICES ASSUME NEW s \in SUBSET S, NEW n \in Nat, s # {}, Cardinality(s) <= n + 1
               PROVE  s \ {Picked(s)} \in D(n)
    OBVIOUS
  <2>1. Cardinality(s \ {Picked(s)}) = Cardinality(s) - 1
    BY <1>1, PickedIn, FS_RemoveElement
  <2> QED
    BY <1>1, <2>1
<1>3. 0 \in Q
  <2> DEFINE g == [s \in D(0) |-> 0]
  <2>1. \A s \in D(0) : s = {}
    BY <1>1, FS_EmptySet
  <2>2. IsTableOn(g, f, D(0))
    BY <2>1 DEF IsTable, IsTableOn
  <2> QED
    BY <2>2
<1>4. \A n \in Nat : n \in Q => n + 1 \in Q
  <2> TAKE n \in Nat
  <2> HAVE n \in Q
  <2>0. PICK g : IsTableOn(g, f, D(n))
    OBVIOUS
  <2> DEFINE h == [s \in D(n + 1) |-> IF s = {} THEN 0 ELSE f[Picked(s)] + g[s \ {Picked(s)}]]
  <2>1. \A s \in D(n) : s \in D(n + 1)
    BY <1>1
  <2>2. \A s \in D(n) : g[s] = IF s = {} THEN 0 ELSE f[Picked(s)] + g[s \ {Picked(s)}]
    BY <2>0 DEF IsTable, IsTableOn
  <2>3. \A s \in D(n) : h[s] = g[s]
    BY <2>1, <2>2
  <2>4. \A s \in D(n + 1) : s # {} => h[s \ {Picked(s)}] = g[s \ {Picked(s)}]
    BY <1>2, <2>3
  <2>5. h = [s \in D(n + 1) |-> IF s = {} THEN 0 ELSE f[Picked(s)] + h[s \ {Picked(s)}]]
    BY <2>4
  <2>6. IsTableOn(h, f, D(n + 1))
    BY <2>5 DEF IsTable, IsTableOn
  <2> HIDE DEF h, D
  <2> QED
    BY <2>6
<1> HIDE DEF Q
<1>5. Nat \subseteq Q
  BY <1>3, <1>4, SetInduction
<1>6. D(Cardinality(S)) = SUBSET S
  BY <1>1, FS_Subset
<1>7. Cardinality(S) \in Q
  BY <1>5, FS_CardinalityType
<1> QED
  <2>1. PICK g : IsTableOn(g, f, D(Cardinality(S)))
    BY <1>7 DEF Q
  <2> HIDE DEF D
  <2> QED
    BY <1>6, <2>1 DEF IsTable

\* Tables of functions that agree on a set agree on its subsets.
LEMMA TablesAgree ==
    ASSUME NEW S, NEW T \in SUBSET S, IsFiniteSet(T), NEW f, NEW e, \A x \in T : f[x] = e[x],
           NEW g, IsTable(g, f, S), NEW h, IsTable(h, e, T)
    PROVE  g[T] = h[T]
<1> DEFINE P == {s \in SUBSET T : g[s] = h[s]}
<1>1. /\ \A s \in SUBSET S : g[s] = IF s = {} THEN 0 ELSE f[Picked(s)] + g[s \ {Picked(s)}]
      /\ \A s \in SUBSET T : h[s] = IF s = {} THEN 0 ELSE e[Picked(s)] + h[s \ {Picked(s)}]
  BY DEF IsTable, IsTableOn
<1>2. ASSUME NEW s \in SUBSET T, \A x \in s : s \ {x} \in P
      PROVE  s \in P
  <2>1. CASE s = {}
    BY <1>1, <2>1
  <2>2. CASE s # {}
    <3>1. Picked(s) \in s
      BY <2>2, PickedIn
    <3>2. g[s \ {Picked(s)}] = h[s \ {Picked(s)}] /\ f[Picked(s)] = e[Picked(s)] /\ s \in SUBSET S
      BY <1>2, <3>1
    <3>3. g[s] = f[Picked(s)] + g[s \ {Picked(s)}] /\ h[s] = e[Picked(s)] + h[s \ {Picked(s)}]
      BY <1>1, <2>2, <3>2
    <3> QED
      BY <3>2, <3>3
  <2> QED
    BY <2>1, <2>2
<1> HIDE DEF P
<1>3. SUBSET T \subseteq P
  BY <1>2, SubsetInduction
<1> QED
  BY <1>3 DEF P

\* Numbers add up to numbers.
LEMMA TableTypes ==
    ASSUME NEW S, IsFiniteSet(S), NEW f, \A x \in S : f[x] \in Int, NEW g, IsTable(g, f, S)
    PROVE  \A s \in SUBSET S : g[s] \in Int
<1> DEFINE P == {s \in SUBSET S : g[s] \in Int}
<1>1. \A s \in SUBSET S : g[s] = IF s = {} THEN 0 ELSE f[Picked(s)] + g[s \ {Picked(s)}]
  BY DEF IsTable, IsTableOn
<1>2. ASSUME NEW s \in SUBSET S, \A x \in s : s \ {x} \in P
      PROVE  s \in P
  <2>1. CASE s = {}
    <3>1. g[s] = 0
      BY <1>1, <2>1
    <3> QED
      BY <3>1
  <2>2. CASE s # {}
    <3>1. Picked(s) \in s
      BY <2>2, PickedIn
    <3>2. g[s \ {Picked(s)}] \in Int /\ f[Picked(s)] \in Int
      BY <1>2, <3>1
    <3>3. g[s] = f[Picked(s)] + g[s \ {Picked(s)}]
      BY <1>1, <2>2
    <3> QED
      BY <3>2, <3>3
  <2> QED
    BY <2>1, <2>2
<1> HIDE DEF P
<1>3. SUBSET S \subseteq P
  BY <1>2, SubsetInduction
<1> QED
  BY <1>3 DEF P

\* Any element may be taken first.
LEMMA TableExchange ==
    ASSUME NEW S, IsFiniteSet(S), NEW f, \A x \in S : f[x] \in Int, NEW g, IsTable(g, f, S)
    PROVE  \A s \in SUBSET S : \A x \in s : g[s] = f[x] + g[s \ {x}]
<1> DEFINE P == {s \in SUBSET S : \A x \in s : g[s] = f[x] + g[s \ {x}]}
<1>1. \A s \in SUBSET S : g[s] = IF s = {} THEN 0 ELSE f[Picked(s)] + g[s \ {Picked(s)}]
  BY DEF IsTable, IsTableOn
<1>2. \A s \in SUBSET S : g[s] \in Int
  BY TableTypes
<1>3. ASSUME NEW s \in SUBSET S, \A x \in s : s \ {x} \in P
      PROVE  s \in P
  <2> DEFINE y == Picked(s)
  <2> SUFFICES ASSUME NEW x \in s
               PROVE  g[s] = f[x] + g[s \ {x}]
    OBVIOUS
  <2>1. y \in s
    BY PickedIn
  <2>2. g[s] = f[y] + g[s \ {y}]
    BY <1>1
  <2> HIDE DEF y
  <2>3. CASE x = y
    BY <2>2, <2>3
  <2>4. CASE x # y
    <3>1. g[s \ {y}] = f[x] + g[(s \ {y}) \ {x}]
      BY <1>3, <2>1, <2>4
    <3>2. g[s \ {x}] = f[y] + g[(s \ {x}) \ {y}]
      BY <1>3, <2>1, <2>4
    <3>3. (s \ {y}) \ {x} = (s \ {x}) \ {y}
      OBVIOUS
    <3> DEFINE rest == g[(s \ {x}) \ {y}]
    <3>4. f[x] \in Int /\ f[y] \in Int /\ rest \in Int
      BY <1>2, <2>1
    <3>5. g[s] = f[y] + (f[x] + rest) /\ g[s \ {x}] = f[y] + rest
      BY <2>2, <3>1, <3>2, <3>3
    <3> HIDE DEF rest
    <3> QED
      BY <3>4, <3>5
  <2> QED
    BY <2>3, <2>4
<1> HIDE DEF P
<1>4. SUBSET S \subseteq P
  BY <1>3, SubsetInduction
<1> QED
  BY <1>4 DEF P

\* The sum of the community modules is the table's entry for the whole set.
LEMMA SumIsTable ==
    ASSUME NEW S, IsFiniteSet(S), NEW f
    PROVE  \E g : IsTable(g, f, S) /\ SumFunctionOnSet(f, S) = g[S]
<1> DEFINE g == CHOOSE g : IsTable(g, f, S)
<1>1. IsTable(g, f, S)
  BY TableExists
<1>2. SumFunctionOnSet(f, S) = g[S]
  BY DEF SumFunctionOnSet, FoldFunctionOnSet, MapThenFoldSet, IsTable, IsTableOn, Picked
<1> QED
  BY <1>1, <1>2

----------------------------------------------------------------------------
(* Sums                                                                    *)

\* Nothing adds up to 0.
THEOREM SumEmpty ==
    ASSUME NEW f
    PROVE  SumFunctionOnSet(f, {}) = 0
<1>1. PICK g : IsTable(g, f, {}) /\ SumFunctionOnSet(f, {}) = g[{}]
  BY FS_EmptySet, SumIsTable
<1> QED
  BY <1>1 DEF IsTable, IsTableOn

\* Sums of numbers are numbers, and natural if these are.
THEOREM SumType ==
    ASSUME NEW S, IsFiniteSet(S), NEW f, \A x \in S : f[x] \in Int
    PROVE  SumFunctionOnSet(f, S) \in Int
<1>1. PICK g : IsTable(g, f, S) /\ SumFunctionOnSet(f, S) = g[S]
  BY SumIsTable
<1> QED
  BY <1>1, TableTypes

\* A sum depends on what the function says of the set.
THEOREM SumAgree ==
    ASSUME NEW S, IsFiniteSet(S), NEW f, NEW e, \A x \in S : f[x] = e[x]
    PROVE  SumFunctionOnSet(f, S) = SumFunctionOnSet(e, S)
<1>1. PICK g : IsTable(g, f, S) /\ SumFunctionOnSet(f, S) = g[S]
  BY SumIsTable
<1>2. PICK h : IsTable(h, e, S) /\ SumFunctionOnSet(e, S) = h[S]
  BY SumIsTable
<1>3. S \in SUBSET S
  OBVIOUS
<1>4. g[S] = h[S]
  BY <1>1, <1>2, <1>3, TablesAgree
<1> QED
  BY <1>1, <1>2, <1>4

\* One element at a time.
THEOREM SumWithout ==
    ASSUME NEW S, IsFiniteSet(S), NEW f, \A x \in S : f[x] \in Int, NEW x \in S
    PROVE  SumFunctionOnSet(f, S) = f[x] + SumFunctionOnSet(f, S \ {x})
<1> DEFINE T == S \ {x}
<1>1. PICK g : IsTable(g, f, S) /\ SumFunctionOnSet(f, S) = g[S]
  BY SumIsTable
<1>2. IsFiniteSet(T) /\ T \in SUBSET S
  BY FS_Subset
<1> HIDE DEF T
<1>3. PICK h : IsTable(h, f, T) /\ SumFunctionOnSet(f, T) = h[T]
  BY <1>2, SumIsTable
<1>4. g[T] = h[T]
  BY <1>1, <1>2, <1>3, TablesAgree
<1>5. g[S] = f[x] + g[T]
  BY <1>1, TableExchange DEF T
<1> QED
  BY <1>1, <1>3, <1>4, <1>5 DEF T

\* An element more.
THEOREM SumWith ==
    ASSUME NEW S, IsFiniteSet(S), NEW x, x \notin S, NEW f, \A y \in S \cup {x} : f[y] \in Int
    PROVE  SumFunctionOnSet(f, S \cup {x}) = f[x] + SumFunctionOnSet(f, S)
<1>1. IsFiniteSet(S \cup {x}) /\ (S \cup {x}) \ {x} = S /\ x \in S \cup {x}
  BY FS_AddElement
<1>2. SumFunctionOnSet(f, S \cup {x}) = f[x] + SumFunctionOnSet(f, (S \cup {x}) \ {x})
  BY <1>1, SumWithout
<1> QED
  BY <1>1, <1>2

\* One summand is changed.
THEOREM SumChanged ==
    ASSUME NEW S, IsFiniteSet(S), NEW f, \A x \in S : f[x] \in Int, NEW x \in S,
           NEW e, e[x] \in Int, \A y \in S \ {x} : e[y] = f[y]
    PROVE  SumFunctionOnSet(e, S) = SumFunctionOnSet(f, S) - f[x] + e[x]
<1> DEFINE T == S \ {x}
<1>1. IsFiniteSet(T) /\ \A y \in T : e[y] = f[y] /\ f[y] \in Int
  BY FS_Subset
<1>2. \A y \in S : e[y] \in Int
  OBVIOUS
<1>3. /\ SumFunctionOnSet(f, S) = f[x] + SumFunctionOnSet(f, T)
      /\ SumFunctionOnSet(e, S) = e[x] + SumFunctionOnSet(e, T)
  BY <1>2, SumWithout
<1> HIDE DEF T
<1>4. SumFunctionOnSet(e, T) = SumFunctionOnSet(f, T) /\ SumFunctionOnSet(f, T) \in Int
  BY <1>1, SumAgree, SumType
<1> QED
  BY <1>3, <1>4

\* Summands that differ by a third function.
THEOREM SumPlus ==
    ASSUME NEW S, IsFiniteSet(S), NEW f, NEW e, NEW d,
           \A x \in S : f[x] \in Int /\ e[x] \in Int /\ d[x] = f[x] + e[x]
    PROVE  SumFunctionOnSet(d, S) = SumFunctionOnSet(f, S) + SumFunctionOnSet(e, S)
<1> DEFINE P == {T \in SUBSET S : SumFunctionOnSet(d, T) = SumFunctionOnSet(f, T) + SumFunctionOnSet(e, T)}
<1>1. ASSUME NEW T \in SUBSET S, \A x \in T : T \ {x} \in P
      PROVE  T \in P
  <2>1. CASE T = {}
    BY <2>1, SumEmpty
  <2>2. CASE T # {}
    <3>1. PICK x \in T : TRUE
      BY <2>2
    <3> DEFINE U == T \ {x}
    <3>2. IsFiniteSet(T) /\ IsFiniteSet(U)
      BY FS_Subset
    <3>3. \A y \in T : f[y] \in Int /\ e[y] \in Int /\ d[y] = f[y] + e[y] /\ d[y] \in Int
      OBVIOUS
    <3>4. /\ SumFunctionOnSet(f, T) = f[x] + SumFunctionOnSet(f, U)
          /\ SumFunctionOnSet(e, T) = e[x] + SumFunctionOnSet(e, U)
          /\ SumFunctionOnSet(d, T) = d[x] + SumFunctionOnSet(d, U)
      BY <3>2, <3>3, SumWithout
    <3>5. SumFunctionOnSet(d, U) = SumFunctionOnSet(f, U) + SumFunctionOnSet(e, U)
      BY <1>1
    <3>6. SumFunctionOnSet(f, U) \in Int /\ SumFunctionOnSet(e, U) \in Int
      BY <3>2, <3>3, SumType
    <3> QED
      BY <3>3, <3>4, <3>5, <3>6
  <2> QED
    BY <2>1, <2>2
<1> HIDE DEF P
<1>2. SUBSET S \subseteq P
  BY <1>1, SubsetInduction
<1> QED
  BY <1>2 DEF P

\* Smaller summands, smaller sum.
THEOREM SumMonotone ==
    ASSUME NEW S, IsFiniteSet(S), NEW f, NEW e,
           \A x \in S : f[x] \in Int /\ e[x] \in Int /\ f[x] <= e[x]
    PROVE  SumFunctionOnSet(f, S) <= SumFunctionOnSet(e, S)
<1> DEFINE P == {T \in SUBSET S : SumFunctionOnSet(f, T) <= SumFunctionOnSet(e, T)}
<1>1. ASSUME NEW T \in SUBSET S, \A x \in T : T \ {x} \in P
      PROVE  T \in P
  <2>1. CASE T = {}
    BY <2>1, SumEmpty
  <2>2. CASE T # {}
    <3>1. PICK x \in T : TRUE
      BY <2>2
    <3> DEFINE U == T \ {x}
    <3>2. IsFiniteSet(T) /\ IsFiniteSet(U)
      BY FS_Subset
    <3>3. \A y \in T : f[y] \in Int /\ e[y] \in Int /\ f[y] <= e[y]
      OBVIOUS
    <3>4. /\ SumFunctionOnSet(f, T) = f[x] + SumFunctionOnSet(f, U)
          /\ SumFunctionOnSet(e, T) = e[x] + SumFunctionOnSet(e, U)
      BY <3>2, <3>3, SumWithout
    <3>5. SumFunctionOnSet(f, U) <= SumFunctionOnSet(e, U)
      BY <1>1
    <3>6. SumFunctionOnSet(f, U) \in Int /\ SumFunctionOnSet(e, U) \in Int
      BY <3>2, <3>3, SumType
    <3> QED
      BY <3>3, <3>4, <3>5, <3>6
  <2> QED
    BY <2>1, <2>2
<1> HIDE DEF P
<1>2. SUBSET S \subseteq P
  BY <1>1, SubsetInduction
<1> QED
  BY <1>2 DEF P

\* Summands that are no less than 0: the sum is neither, and a smaller set has a smaller sum.
THEOREM SumSubset ==
    ASSUME NEW S, IsFiniteSet(S), NEW f, \A x \in S : f[x] \in Nat, NEW T \in SUBSET S
    PROVE  /\ SumFunctionOnSet(f, T) \in Nat
           /\ SumFunctionOnSet(f, T) <= SumFunctionOnSet(f, S)
<1> DEFINE zero == [x \in S |-> 0]
           part == [x \in S |-> IF x \in T THEN f[x] ELSE 0]
           P == {U \in SUBSET S : /\ SumFunctionOnSet(zero, U) = 0
                                  /\ SumFunctionOnSet(part, U) = SumFunctionOnSet(f, U \cap T)}
<1>1. \A U \in SUBSET S : IsFiniteSet(U)
  BY FS_Subset
<1>2. ASSUME NEW U \in SUBSET S, \A x \in U : U \ {x} \in P
      PROVE  U \in P
  <2>1. CASE U = {}
    <3>1. {} \cap T = {}
      OBVIOUS
    <3> QED
      BY <2>1, <3>1, SumEmpty
  <2>2. CASE U # {}
    <3>1. PICK x \in U : TRUE
      BY <2>2
    <3> DEFINE V == U \ {x}
    <3>2. V \in P
      BY <1>2
    <3>3. IsFiniteSet(U) /\ IsFiniteSet(V) /\ IsFiniteSet(U \cap T)
      BY <1>1
    <3>4. SumFunctionOnSet(zero, U) = zero[x] + SumFunctionOnSet(zero, V)
      BY <3>3, SumWithout
    <3>5. SumFunctionOnSet(part, U) = part[x] + SumFunctionOnSet(part, V)
      BY <3>3, SumWithout
    <3>6. CASE x \in T
      <4>1. SumFunctionOnSet(f, U \cap T) = f[x] + SumFunctionOnSet(f, (U \cap T) \ {x})
        BY <3>3, <3>6, SumWithout
      <4>2. (U \cap T) \ {x} = V \cap T
        OBVIOUS
      <4> QED
        <5>1. part[x] = f[x] /\ zero[x] = 0
          BY <3>6
        <5>2. SumFunctionOnSet(f, U \cap T) = f[x] + SumFunctionOnSet(f, V \cap T)
          BY <4>1, <4>2
        <5>3. SumFunctionOnSet(part, U) = SumFunctionOnSet(f, U \cap T)
          BY <3>2, <3>5, <5>1, <5>2
        <5>4. SumFunctionOnSet(zero, U) = 0
          BY <3>2, <3>4, <5>1
        <5> HIDE DEF zero, part
        <5> QED
          BY <5>3, <5>4
    <3>7. CASE x \notin T
      <4>1. U \cap T = V \cap T /\ IsFiniteSet(V \cap T)
        BY <1>1, <3>7
      <4>2. SumFunctionOnSet(f, V \cap T) \in Int
        BY <4>1, SumType
      <4> QED
        BY <3>2, <3>4, <3>5, <3>7, <4>1, <4>2
    <3> QED
      BY <3>6, <3>7
  <2> QED
    BY <2>1, <2>2
<1> HIDE DEF P
<1>3. SUBSET S \subseteq P
  BY <1>2, SubsetInduction
<1>4. S \cap T = T
  OBVIOUS
<1>5. SumFunctionOnSet(zero, S) = 0 /\ SumFunctionOnSet(part, S) = SumFunctionOnSet(f, T)
  BY <1>3, <1>4 DEF P
<1>6. SumFunctionOnSet(zero, S) <= SumFunctionOnSet(part, S)
  <2>1. \A x \in S : zero[x] \in Int /\ part[x] \in Int /\ zero[x] <= part[x]
    OBVIOUS
  <2> HIDE DEF zero, part
  <2> QED
    BY <2>1, SumMonotone
<1>7. SumFunctionOnSet(part, S) <= SumFunctionOnSet(f, S)
  <2>1. \A x \in S : part[x] \in Int /\ f[x] \in Int /\ part[x] <= f[x]
    OBVIOUS
  <2> HIDE DEF part
  <2> QED
    BY <2>1, SumMonotone
<1>8. SumFunctionOnSet(f, T) \in Int
  BY <1>1, SumType
<1> QED
  BY <1>5, <1>6, <1>7, <1>8

\* The sum over two sets that share nothing.
THEOREM SumUnion ==
    ASSUME NEW S, IsFiniteSet(S), NEW T, IsFiniteSet(T), S \cap T = {},
           NEW f, \A x \in S \cup T : f[x] \in Int
    PROVE  SumFunctionOnSet(f, S \cup T) = SumFunctionOnSet(f, S) + SumFunctionOnSet(f, T)
<1> DEFINE P == {U \in SUBSET T : SumFunctionOnSet(f, S \cup U)
                                  = SumFunctionOnSet(f, S) + SumFunctionOnSet(f, U)}
<1>1. SumFunctionOnSet(f, S) \in Int
  BY SumType
<1>2. ASSUME NEW U \in SUBSET T, \A x \in U : U \ {x} \in P
      PROVE  U \in P
  <2>1. CASE U = {}
    <3>1. S \cup U = S
      BY <2>1
    <3> QED
      BY <1>1, <2>1, <3>1, SumEmpty
  <2>2. CASE U # {}
    <3>1. PICK x \in U : TRUE
      BY <2>2
    <3> DEFINE V == U \ {x}
    <3>2. IsFiniteSet(U) /\ IsFiniteSet(V) /\ IsFiniteSet(S \cup U)
      BY FS_Subset, FS_Union
    <3>3. (S \cup U) \ {x} = S \cup V /\ x \in S \cup U
      OBVIOUS
    <3>4. /\ \A y \in S \cup U : f[y] \in Int
          /\ \A y \in U : f[y] \in Int
      OBVIOUS
    <3>5. SumFunctionOnSet(f, S \cup U) = f[x] + SumFunctionOnSet(f, S \cup V)
      BY <3>2, <3>3, <3>4, SumWithout
    <3>6. SumFunctionOnSet(f, U) = f[x] + SumFunctionOnSet(f, V)
      BY <3>2, <3>4, SumWithout
    <3>7. SumFunctionOnSet(f, S \cup V) = SumFunctionOnSet(f, S) + SumFunctionOnSet(f, V)
      BY <1>2
    <3>8. SumFunctionOnSet(f, V) \in Int /\ f[x] \in Int
      BY <3>2, <3>4, SumType
    <3> QED
      BY <1>1, <3>5, <3>6, <3>7, <3>8
  <2> QED
    BY <2>1, <2>2
<1> HIDE DEF P
<1>3. SUBSET T \subseteq P
  BY <1>2, SubsetInduction
<1> QED
  BY <1>3 DEF P

\* A constant adds up to a multiple.
THEOREM SumConstant ==
    ASSUME NEW S, IsFiniteSet(S), NEW c \in Int, NEW f, \A x \in S : f[x] = c
    PROVE  SumFunctionOnSet(f, S) = Cardinality(S) * c
<1> DEFINE P == {T \in SUBSET S : SumFunctionOnSet(f, T) = Cardinality(T) * c}
<1>1. ASSUME NEW T \in SUBSET S, \A x \in T : T \ {x} \in P
      PROVE  T \in P
  <2>1. CASE T = {}
    <3>1. Cardinality(T) = 0
      BY <2>1, FS_EmptySet
    <3> QED
      BY <2>1, <3>1, SumEmpty
  <2>2. CASE T # {}
    <3>1. PICK x \in T : TRUE
      BY <2>2
    <3> DEFINE U == T \ {x}
    <3>2. IsFiniteSet(T) /\ IsFiniteSet(U)
      BY FS_Subset
    <3>3. Cardinality(U) = Cardinality(T) - 1 /\ Cardinality(T) \in Nat
      BY <3>2, FS_RemoveElement, FS_CardinalityType
    <3>4. \A y \in T : f[y] \in Int
      OBVIOUS
    <3>5. SumFunctionOnSet(f, T) = f[x] + SumFunctionOnSet(f, U)
      BY <3>2, <3>4, SumWithout
    <3>6. SumFunctionOnSet(f, U) = Cardinality(U) * c /\ f[x] = c
      BY <1>1
    <3> DEFINE k == Cardinality(T)
    <3>7. k \in Int /\ SumFunctionOnSet(f, T) = c + (k - 1) * c
      BY <3>3, <3>5, <3>6
    <3> HIDE DEF k
    <3>8. c + (k - 1) * c = k * c
      BY <3>7
    <3> QED
      BY <3>7, <3>8 DEF k
  <2> QED
    BY <2>1, <2>2
<1> HIDE DEF P
<1>2. SUBSET S \subseteq P
  BY <1>1, SubsetInduction
<1> QED
  BY <1>2 DEF P

\* What is added up, sorted by a key.
SumsByKey(f, S, key, K) == [k \in K |-> SumFunctionOnSet(f, {x \in S : key[x] = k})]

\* To sort what is added up by a key changes nothing: each key's sum, added up.
THEOREM SumByKey ==
    ASSUME NEW S, IsFiniteSet(S), NEW K, IsFiniteSet(K), NEW key, \A x \in S : key[x] \in K,
           NEW f, \A x \in S : f[x] \in Int
    PROVE  SumFunctionOnSet(SumsByKey(f, S, key, K), K) = SumFunctionOnSet(f, S)
<1> DEFINE With(U, k) == {x \in U : key[x] = k}
           Sums(U) == [k \in K |-> SumFunctionOnSet(f, With(U, k))]
           P == {U \in SUBSET S : SumFunctionOnSet(Sums(U), K) = SumFunctionOnSet(f, U)}
<1>1. ASSUME NEW U \in SUBSET S
      PROVE  /\ IsFiniteSet(U) /\ \A k \in K : IsFiniteSet(With(U, k))
             /\ \A k \in K : Sums(U)[k] = SumFunctionOnSet(f, With(U, k)) /\ Sums(U)[k] \in Int
  <2>1. IsFiniteSet(U) /\ \A k \in K : IsFiniteSet(With(U, k))
    BY FS_Subset
  <2>2. ASSUME NEW k \in K
        PROVE  SumFunctionOnSet(f, With(U, k)) \in Int
    <3>1. \A x \in With(U, k) : f[x] \in Int
      OBVIOUS
    <3> QED
      BY <2>1, <3>1, SumType
  <2> QED
    BY <2>1, <2>2
<1>2. ASSUME NEW U \in SUBSET S, \A x \in U : U \ {x} \in P
      PROVE  U \in P
  <2>1. CASE U = {}
    <3>1. \A k \in K : With(U, k) = {}
      BY <2>1
    <3>2. \A k \in K : Sums(U)[k] = 0
      BY <3>1, SumEmpty
    <3> HIDE DEF Sums
    <3>3. 0 \in Int
      OBVIOUS
    <3>4. SumFunctionOnSet(Sums(U), K) = Cardinality(K) * 0
      BY <3>2, <3>3, SumConstant
    <3>5. Cardinality(K) * 0 = 0
      BY FS_CardinalityType
    <3>6. SumFunctionOnSet(f, U) = 0
      BY <2>1, SumEmpty
    <3> QED
      BY <3>4, <3>5, <3>6 DEF Sums
  <2>2. CASE U # {}
    <3>1. PICK x \in U : TRUE
      BY <2>2
    <3> DEFINE V == U \ {x}
               k == key[x]
    <3>2. k \in K /\ V \in SUBSET S /\ f[x] \in Int
      OBVIOUS
    <3>3. /\ \A j \in K \ {k} : With(U, j) = With(V, j)
          /\ With(U, k) \ {x} = With(V, k) /\ x \in With(U, k)
          /\ \A y \in With(U, k) : f[y] \in Int
      OBVIOUS
    <3>4. SumFunctionOnSet(f, With(U, k)) = f[x] + SumFunctionOnSet(f, With(V, k))
      <4>1. IsFiniteSet(With(U, k))
        BY <1>1, <3>2
      <4> HIDE DEF With, V, k
      <4> QED
        BY <4>1, <3>3, SumWithout
    <3>5. /\ \A j \in K : Sums(U)[j] \in Int /\ Sums(V)[j] \in Int
          /\ \A j \in K \ {k} : Sums(U)[j] = Sums(V)[j]
          /\ Sums(U)[k] = f[x] + Sums(V)[k]
      <4>1. \A j \in K : Sums(U)[j] = SumFunctionOnSet(f, With(U, j)) /\ Sums(U)[j] \in Int
        BY <1>1
      <4>2. \A j \in K : Sums(V)[j] = SumFunctionOnSet(f, With(V, j)) /\ Sums(V)[j] \in Int
        BY <1>1, <3>2
      <4> HIDE DEF With, V, k, Sums
      <4> QED
        BY <4>1, <4>2, <3>2, <3>3, <3>4
    <3>6. SumFunctionOnSet(Sums(V), K) = SumFunctionOnSet(f, V)
      BY <1>2
    <3>7. IsFiniteSet(U) /\ IsFiniteSet(V) /\ \A y \in U : f[y] \in Int
      BY <1>1, <3>2
    <3>8. SumFunctionOnSet(f, U) = f[x] + SumFunctionOnSet(f, V)
      BY <3>7, SumWithout
    <3>9. SumFunctionOnSet(f, V) \in Int
      BY <3>7, SumType
    <3> HIDE DEF Sums, V, k
    <3>10. SumFunctionOnSet(Sums(U), K) = SumFunctionOnSet(Sums(V), K) - Sums(V)[k] + Sums(U)[k]
      BY <3>2, <3>5, SumChanged
    <3>11. SumFunctionOnSet(Sums(U), K) = SumFunctionOnSet(f, U)
      BY <3>2, <3>5, <3>6, <3>8, <3>9, <3>10
    <3> QED
      BY <3>11 DEF Sums
  <2> QED
    BY <2>1, <2>2
<1> HIDE DEF P
<1>3. SUBSET S \subseteq P
  BY <1>2, SubsetInduction
<1>4. S \in P
  BY <1>3
<1> QED
  BY <1>4 DEF P, SumsByKey

----------------------------------------------------------------------------
(* Naturals                                                                *)

\* A set of natural numbers has a least one.
THEOREM LeastNatural ==
    ASSUME NEW S \in SUBSET Nat, S # {}
    PROVE  \E x \in S : \A y \in S : x <= y
<1> SUFFICES ASSUME \A x \in S : \E y \in S : y < x
             PROVE  FALSE
  OBVIOUS
<1> DEFINE Q == {n \in Nat : \A m \in 0 .. n : m \notin S}
<1>1. 0 \in Q
  <2>1. 0 \notin S
    OBVIOUS
  <2> QED
    BY <2>1
<1>2. ASSUME NEW n \in Nat, n \in Q
      PROVE  n + 1 \in Q
  <2>1. n + 1 \notin S
    BY <1>2
  <2>2. \A m \in 0 .. n + 1 : m \in 0 .. n \/ m = n + 1
    OBVIOUS
  <2> QED
    BY <1>2, <2>1, <2>2
<1> HIDE DEF Q
<1>3. Nat \subseteq Q
  BY <1>1, <1>2, SetInduction
<1>4. \A n \in Nat : n \notin S
  BY <1>3 DEF Q
<1> QED
  BY <1>4

\* Of finitely many numbers one is the greatest.
THEOREM GreatestValue ==
    ASSUME NEW S, IsFiniteSet(S), S # {}, NEW v \in [S -> Int]
    PROVE  \E x \in S : \A y \in S : v[y] <= v[x]
<1> DEFINE Great(T) == T = {} \/ \E x \in T : \A y \in T : v[y] <= v[x]
           P == {T \in SUBSET S : Great(T)}
<1>1. ASSUME NEW T \in SUBSET S, \A x \in T : T \ {x} \in P
      PROVE  T \in P
  <2> SUFFICES ASSUME T # {} PROVE \E x \in T : \A y \in T : v[y] <= v[x]
    OBVIOUS
  <2>1. PICK x \in T : TRUE
    OBVIOUS
  <2>2. CASE T = {x}
    <3>1. v[x] <= v[x]
      BY <2>1
    <3> QED
      BY <2>2, <3>1
  <2>3. CASE T # {x}
    <3>1. T \ {x} # {}
      BY <2>1, <2>3
    <3>2. PICK z \in T \ {x} : \A y \in T \ {x} : v[y] <= v[z]
      BY <1>1, <2>1, <3>1
    <3>3. v[x] \in Int /\ v[z] \in Int /\ \A y \in T : v[y] \in Int
      BY <2>1, <3>2
    <3>4. CASE v[x] <= v[z]
      BY <3>2, <3>4
    <3>5. CASE ~(v[x] <= v[z])
      <4>1. \A y \in T : v[y] <= v[x]
        BY <2>1, <3>2, <3>3, <3>5
      <4> QED
        BY <2>1, <4>1
    <3> QED
      BY <3>4, <3>5
  <2> QED
    BY <2>2, <2>3
<1> HIDE DEF P
<1>2. SUBSET S \subseteq P
  BY <1>1, SubsetInduction
<1>3. S \in P
  BY <1>2
<1> QED
  BY <1>3 DEF P

\* f is the recursive function over a .. b that starts with x and goes on with G.
Recursive(f, a, b, x, G) == f = [n \in a .. b |-> IF n = a THEN x ELSE G[<<n, f[n - 1]>>]]

\* There is such a function, whatever the step G.
THEOREM RecursionExists ==
    ASSUME NEW a \in Int, NEW b \in Int, a <= b, NEW x, NEW G
    PROVE  \E f : Recursive(f, a, b, x, G)
<1> DEFINE Good(f, m) == /\ f = [n \in a .. (a + m) |-> f[n]] /\ f[a] = x
                         /\ \A n \in a .. (a + m) : n # a => f[n] = G[<<n, f[n - 1]>>]
           S == {m \in Nat : \E f : Good(f, m)}
<1>1. 0 \in S
  <2> DEFINE f == [n \in a .. (a + 0) |-> x]
  <2>1. a + 0 = a /\ a \in a .. (a + 0) /\ \A n \in a .. (a + 0) : n = a
    OBVIOUS
  <2>2. Good(f, 0)
    BY <2>1
  <2> QED
    BY <2>2
<1>2. ASSUME NEW m \in Nat, m \in S
      PROVE  m + 1 \in S
  <2>1. PICK f : Good(f, m)
    BY <1>2
  <2> DEFINE last == a + (m + 1)
             new == G[<<last, f[last - 1]>>]
             g == [n \in a .. last |-> IF n = last THEN new ELSE f[n]]
  <2>2. /\ last \in Int /\ a # last /\ a \in a .. last /\ last \in a .. last
        /\ last - 1 \in a .. last /\ last - 1 # last
        /\ \A n \in a .. last : n # last => n \in a .. (a + m)
        /\ \A n \in a .. last : n # a => n - 1 \in a .. last /\ n - 1 # last
    OBVIOUS
  <2>3. g[last] = new /\ g = [n \in a .. last |-> g[n]] /\ \A n \in a .. last : n # last => g[n] = f[n]
    BY <2>2
  <2>4. f[a] = x /\ \A n \in a .. (a + m) : n # a => f[n] = G[<<n, f[n - 1]>>]
    BY <2>1
  <2>5. new = G[<<last, f[last - 1]>>]
    OBVIOUS
  <2> HIDE DEF g, new, last
  <2>6. g[a] = x
    BY <2>2, <2>3, <2>4
  <2>7. ASSUME NEW n \in a .. last, n # a
        PROVE  g[n] = G[<<n, g[n - 1]>>]
    <3>1. g[n - 1] = f[n - 1]
      BY <2>2, <2>3, <2>7
    <3>2. CASE n = last
      BY <3>1, <3>2, <2>3, <2>5
    <3>3. CASE n # last
      BY <3>1, <3>3, <2>2, <2>3, <2>4, <2>7
    <3> QED
      BY <3>2, <3>3
  <2>8. Good(g, m + 1)
    BY <2>3, <2>6, <2>7 DEF last
  <2> HIDE DEF Good
  <2> QED
    BY <2>8
<1> HIDE DEF S
<1>3. b - a \in Nat /\ a + (b - a) = b
  OBVIOUS
<1>4. b - a \in S
  BY <1>1, <1>2, <1>3, SetInduction
<1>5. PICK f : Good(f, b - a)
  BY <1>4 DEF S
<1>6. /\ f = [n \in a .. b |-> f[n]] /\ f[a] = x /\ \A n \in a .. b : n # a => f[n] = G[<<n, f[n - 1]>>]
  BY <1>3, <1>5
<1> DEFINE Body(h) == [n \in a .. b |-> IF n = a THEN x ELSE G[<<n, h[n - 1]>>]]
<1>7. \A n \in a .. b : f[n] = Body(f)[n]
  BY <1>6
<1> QED
  BY <1>6, <1>7 DEF Recursive
=============================================================================
