------------------------------ MODULE FiniteSums ------------------------------
(***************************************************************************)
(* Induction over the natural numbers and over the subsets of a finite     *)
(* set, and the sums that the models take over finite sets (SumFunction of *)
(* the community modules), whatever order their elements are chosen in.    *)
(*                                                                         *)
(* The induction is stated for a set of numbers, or of subsets, and not    *)
(* for an operator, so that it can be applied.                             *)
(***************************************************************************)
EXTENDS Integers, Functions, FiniteSetTheorems, NaturalsInduction,
        WellFoundedInduction, TLAPS

(* A set of numbers has a least one. *)
LEMMA Smallest ==
  ASSUME NEW T \in SUBSET Nat, T # {}
  PROVE  \E n \in T : \A m \in T : n <= m
<1> DEFINE R == OpToRel(<, Nat)
<1>1. IsWellFoundedOn(R, Nat)
  BY NatLessThanWellFounded
<1>2. R = {ss \in Nat \X Nat : ss[1] < ss[2]}
  BY DEF OpToRel
<1> HIDE DEF R
<1>3. PICK n \in T : \A m \in T : ~(<<m, n>> \in R)
  BY <1>1, WFMin
<1>4. \A m \in T : ~(m < n)
  <2> SUFFICES ASSUME NEW m \in T, m < n PROVE FALSE
    OBVIOUS
  <2>1. <<m, n>> \in Nat \X Nat /\ <<m, n>>[1] < <<m, n>>[2]
    OBVIOUS
  <2>2. <<m, n>> \in R
    BY <2>1, <1>2
  <2> QED BY <1>3, <2>2
<1> QED BY <1>4

(* The induction over the numbers. *)
LEMMA SetInduction ==
  ASSUME NEW P \in SUBSET Nat, 0 \in P, \A n \in P : n + 1 \in P
  PROVE  P = Nat
<1> SUFFICES ASSUME Nat \ P # {} PROVE FALSE
  OBVIOUS
<1>1. PICK n \in Nat \ P : \A m \in Nat \ P : n <= m
  BY Smallest
<1>2. n # 0 /\ n - 1 \in Nat
  BY <1>1
<1>3. n - 1 \in P
  BY <1>1, <1>2
<1> QED BY <1>1, <1>2, <1>3

(* The induction over the subsets of a finite set. *)
LEMMA SubsetInduction ==
  ASSUME NEW S, IsFiniteSet(S), NEW P \in SUBSET SUBSET S, {} \in P,
         \A s \in SUBSET S : s # {} /\ (\A x \in s : s \ {x} \in P) => s \in P
  PROVE  P = SUBSET S
<1> DEFINE Q == {n \in Nat : \A s \in SUBSET S : Cardinality(s) = n => s \in P}
<1>1. \A s \in SUBSET S : IsFiniteSet(s) /\ Cardinality(s) \in Nat
  BY FS_Subset, FS_CardinalityType
<1>2. 0 \in Q
  BY <1>1, FS_EmptySet
<1>3. ASSUME NEW n \in Q PROVE n + 1 \in Q
  <2> SUFFICES ASSUME NEW s \in SUBSET S, Cardinality(s) = n + 1 PROVE s \in P
    OBVIOUS
  <2>1. s # {}
    <3>1. Cardinality({}) = 0 /\ n + 1 # 0
      BY FS_EmptySet
    <3> QED BY <3>1
  <2>2. ASSUME NEW x \in s PROVE s \ {x} \in P
    <3>1. Cardinality(s \ {x}) = Cardinality(s) - 1
      BY <1>1, FS_RemoveElement
    <3>2. Cardinality(s \ {x}) = n /\ s \ {x} \in SUBSET S
      BY <3>1
    <3> QED BY <3>2
  <2> QED BY <2>1, <2>2
<1>4. Q = Nat
  <2>1. Q \in SUBSET Nat
    OBVIOUS
  <2> HIDE DEF Q
  <2> QED BY <1>2, <1>3, <2>1, SetInduction
<1>5. \A s \in SUBSET S : s \in P
  BY <1>1, <1>4
<1> QED BY <1>5

-----------------------------------------------------------------------------
(* Finite sets and sums over them. *)

LEMMA ValuesFinite ==
  ASSUME NEW S, IsFiniteSet(S), NEW f
  PROVE  IsFiniteSet({f[x] : x \in S})
<1> DEFINE T == {f[x] : x \in S}
           g == [x \in S |-> f[x]]
<1>1. g \in Surjection(S, T)
  BY DEF Surjection
<1> QED BY <1>1, FS_Surjection

LEMMA UnionFinite ==
  ASSUME NEW S, IsFiniteSet(S), NEW f, \A x \in S : IsFiniteSet(f[x])
  PROVE  IsFiniteSet(UNION {f[x] : x \in S})
<1> DEFINE T == {f[x] : x \in S}
<1>1. IsFiniteSet(T) /\ \A t \in T : IsFiniteSet(t)
  BY ValuesFinite
<1> HIDE DEF T
<1>2. IsFiniteSet(UNION T)
  BY <1>1, FS_UNION
<1> QED BY <1>2 DEF T

(* Elements that are told apart are as many as what they are made from. *)
LEMMA SameSize ==
  ASSUME NEW S, IsFiniteSet(S), NEW f, NEW T,
         \A x, y \in S : f[x] = f[y] => x = y,
         \A z : z \in T <=> \E x \in S : z = f[x]
  PROVE  IsFiniteSet(T) /\ Cardinality(T) = Cardinality(S)
<1> DEFINE g == [x \in S |-> f[x]]
<1>1. g \in Bijection(S, T)
  <2>1. g \in [S -> T] /\ \A z \in T : \E x \in S : g[x] = z
    OBVIOUS
  <2>2. \A x, y \in S : g[x] = g[y] => x = y
    OBVIOUS
  <2> HIDE DEF g
  <2>3. g \in Surjection(S, T)
    BY <2>1 DEF Surjection
  <2>4. g \in Injection(S, T)
    BY <2>1, <2>2 DEF Injection, IsInjective
  <2> QED BY <2>3, <2>4 DEF Bijection
<1>2. ExistsBijection(S, T)
  BY <1>1 DEF ExistsBijection
<1> QED BY <1>2, FS_Bijection

(* iter holds the sum of f over each subset of S, made from some element of *)
(* it first and then from the rest.                                         *)
Sums(iter, f, S) ==
  iter = [s \in SUBSET S |->
            IF s = {} THEN 0
            ELSE f[CHOOSE x \in s : TRUE] + iter[s \ {CHOOSE x \in s : TRUE}]]

LEMMA SumsExist ==
  ASSUME NEW S, IsFiniteSet(S), NEW f, \A x \in S : f[x] \in Nat
  PROVE  \E iter \in [SUBSET S -> Nat] : Sums(iter, f, S)
<1> DEFINE Least(s) == CHOOSE x \in s : TRUE
           Small(n) == {s \in SUBSET S : Cardinality(s) <= n}
           Good(g, n) == \A s \in Small(n) :
              g[s] = IF s = {} THEN 0 ELSE f[Least(s)] + g[s \ {Least(s)}]
           P == {n \in Nat : \E g \in [SUBSET S -> Nat] : Good(g, n)}
<1>1. \A s \in SUBSET S : IsFiniteSet(s) /\ Cardinality(s) \in Nat
                          /\ Cardinality(s) <= Cardinality(S) /\ Cardinality(S) \in Nat
  BY FS_Subset, FS_CardinalityType
<1>2. \A s \in SUBSET S : s # {} =>
        /\ Least(s) \in s /\ s \ {Least(s)} \in SUBSET S
        /\ Cardinality(s \ {Least(s)}) = Cardinality(s) - 1
  BY <1>1, FS_RemoveElement
<1>3. 0 \in P
  <2> DEFINE g == [s \in SUBSET S |-> 0]
  <2>1. \A s \in Small(0) : s = {}
    BY <1>1, FS_EmptySet
  <2>2. g \in [SUBSET S -> Nat] /\ Good(g, 0)
    BY <2>1
  <2> HIDE DEF g
  <2> QED BY <2>2
<1>4. ASSUME NEW n \in P PROVE n + 1 \in P
  <2>1. PICK g \in [SUBSET S -> Nat] : Good(g, n)
    OBVIOUS
  <2> DEFINE h == [s \in SUBSET S |-> IF s = {} THEN 0 ELSE f[Least(s)] + g[s \ {Least(s)}]]
  <2>2. h \in [SUBSET S -> Nat]
    BY <1>2
  <2>3. \A s \in Small(n) : h[s] = g[s]
    BY <2>1
  <2>4. ASSUME NEW s \in Small(n + 1)
        PROVE  h[s] = IF s = {} THEN 0 ELSE f[Least(s)] + h[s \ {Least(s)}]
    <3>1. CASE s = {}
      BY <3>1
    <3>2. CASE s # {}
      <4>1. s \ {Least(s)} \in Small(n)
        BY <1>1, <1>2, <3>2
      <4> QED BY <2>3, <3>2, <4>1
    <3> QED BY <3>1, <3>2
  <2> HIDE DEF h
  <2>5. Good(h, n + 1) /\ n + 1 \in Nat
    <3>1. \A s \in Small(n + 1) :
            h[s] = IF s = {} THEN 0 ELSE f[Least(s)] + h[s \ {Least(s)}]
      BY <2>4
    <3> HIDE DEF Least, Small
    <3> QED BY <3>1
  <2> HIDE DEF Good
  <2> QED BY <2>2, <2>5
<1>5. Cardinality(S) \in P
  <2>1. P \in SUBSET Nat
    OBVIOUS
  <2> HIDE DEF P
  <2>2. P = Nat
    BY <1>3, <1>4, <2>1, SetInduction
  <2> QED BY <1>1, <2>2
<1>6. PICK g \in [SUBSET S -> Nat] : Good(g, Cardinality(S))
  BY <1>5
<1>7. \A s \in SUBSET S : s \in Small(Cardinality(S))
  BY <1>1
<1> QED BY <1>6, <1>7 DEF Sums

(* Any other element may come first. *)
AnyFirst(iter, f, S) ==
  /\ iter \in [SUBSET S -> Nat]
  /\ \A s \in SUBSET S : \A x \in s : iter[s] = f[x] + iter[s \ {x}]

LEMMA SumsChoice ==
  ASSUME NEW S, IsFiniteSet(S), NEW f, \A x \in S : f[x] \in Nat,
         NEW iter, Sums(iter, f, S)
  PROVE  AnyFirst(iter, f, S)
<1> DEFINE Made(s) == /\ iter[s] \in Nat
                      /\ \A x \in s : /\ iter[s \ {x}] \in Nat
                                      /\ iter[s] = f[x] + iter[s \ {x}]
           P == {s \in SUBSET S : Made(s)}
<1>1. {} \in P
  BY DEF Sums
<1>2. ASSUME NEW s \in SUBSET S, s # {}, \A x \in s : s \ {x} \in P
      PROVE  s \in P
  <2> DEFINE y == CHOOSE x \in s : TRUE
  <2>1. y \in s /\ s \ {y} \in SUBSET S
    BY <1>2
  <2>2. iter[s] = f[y] + iter[s \ {y}]
    BY <1>2 DEF Sums
  <2> HIDE DEF y
  <2>3. \A x \in s : Made(s \ {x})
    BY <1>2
  <2>4. ASSUME NEW x \in s, x # y PROVE iter[s] = f[x] + iter[s \ {x}]
    <3>1. iter[s \ {y}] = f[x] + iter[(s \ {y}) \ {x}]
      BY <2>1, <2>3, <2>4
    <3>2. iter[s \ {x}] = f[y] + iter[(s \ {x}) \ {y}]
      BY <2>1, <2>3, <2>4
    <3>3. (s \ {y}) \ {x} = (s \ {x}) \ {y}
      OBVIOUS
    <3>4. f[y] \in Nat /\ f[x] \in Nat /\ iter[(s \ {x}) \ {y}] \in Nat
      <4>1. Made(s \ {x}) /\ y \in s \ {x}
        BY <2>1, <2>3, <2>4
      <4> QED BY <2>1, <4>1
    <3> DEFINE rest == iter[(s \ {x}) \ {y}]
    <3>5. iter[s \ {y}] = f[x] + rest /\ iter[s \ {x}] = f[y] + rest
      BY <3>1, <3>2, <3>3
    <3>6. rest \in Nat /\ f[x] \in Nat /\ f[y] \in Nat
      BY <3>4
    <3> HIDE DEF rest
    <3>7. f[y] + (f[x] + rest) = f[x] + (f[y] + rest)
      BY <3>6
    <3> QED BY <2>2, <3>5, <3>7
  <2>5. iter[s] \in Nat
    <3>1. f[y] \in Nat /\ iter[s \ {y}] \in Nat
      BY <2>1, <2>3
    <3> QED BY <2>2, <3>1
  <2>6. \A x \in s : iter[s \ {x}] \in Nat /\ iter[s] = f[x] + iter[s \ {x}]
    BY <2>2, <2>3, <2>4
  <2> QED BY <2>5, <2>6
<1>3. P = SUBSET S
  <2>1. P \in SUBSET SUBSET S
    OBVIOUS
  <2> HIDE DEF P
  <2> QED BY <1>1, <1>2, <2>1, SubsetInduction
<1>4. \A s \in SUBSET S : Made(s)
  BY <1>3
<1> QED BY <1>4 DEF Sums, AnyFirst

LEMMA SumsAgree ==
  ASSUME NEW S, IsFiniteSet(S), NEW T, IsFiniteSet(T), S \subseteq T,
         NEW f, \A x \in S : f[x] \in Nat, NEW g, \A x \in T : g[x] \in Nat,
         \A x \in S : f[x] = g[x],
         NEW i, Sums(i, f, S), NEW j, Sums(j, g, T)
  PROVE  \A s \in SUBSET S : i[s] = j[s]
<1> DEFINE P == {s \in SUBSET S : i[s] = j[s]}
<1>1. {} \in P
  BY DEF Sums
<1>2. ASSUME NEW s \in SUBSET S, s # {}, \A x \in s : s \ {x} \in P
      PROVE  s \in P
  <2>1. PICK x \in s : TRUE
    BY <1>2
  <2>2. i[s] = f[x] + i[s \ {x}]
    <3>1. AnyFirst(i, f, S)
      BY SumsChoice
    <3> QED BY <3>1 DEF AnyFirst
  <2>3. j[s] = g[x] + j[s \ {x}]
    <3>1. AnyFirst(j, g, T) /\ s \in SUBSET T
      BY SumsChoice
    <3> QED BY <3>1 DEF AnyFirst
  <2>4. i[s \ {x}] = j[s \ {x}] /\ f[x] = g[x]
    BY <1>2
  <2> QED BY <2>2, <2>3, <2>4
<1>3. P = SUBSET S
  <2>1. P \in SUBSET SUBSET S
    OBVIOUS
  <2> HIDE DEF P
  <2> QED BY <1>1, <1>2, <2>1, SubsetInduction
<1> QED BY <1>3

LEMMA SumIsMade ==
  ASSUME NEW S, IsFiniteSet(S), NEW f, \A x \in S : f[x] \in Nat
  PROVE  \E iter : Sums(iter, f, S) /\ SumFunctionOnSet(f, S) = iter[S]
<1> DEFINE iter == CHOOSE g : Sums(g, f, S)
<1>1. Sums(iter, f, S)
  BY SumsExist
<1>2. SumFunctionOnSet(f, S) = iter[S]
  BY DEF SumFunctionOnSet, FoldFunctionOnSet, MapThenFoldSet, Sums
<1> HIDE DEF iter
<1> QED BY <1>1, <1>2

(* The sum over a set is a number, and that of the empty set is 0. *)
LEMMA SumNat ==
  ASSUME NEW S, IsFiniteSet(S), NEW f, \A x \in S : f[x] \in Nat
  PROVE  /\ SumFunctionOnSet(f, S) \in Nat
         /\ S = {} => SumFunctionOnSet(f, S) = 0
<1>1. PICK iter : Sums(iter, f, S) /\ SumFunctionOnSet(f, S) = iter[S]
  BY SumIsMade
<1>2. iter \in [SUBSET S -> Nat]
  BY <1>1, SumsChoice DEF AnyFirst
<1> QED BY <1>1, <1>2 DEF Sums

(* A sum with one more element. *)
LEMMA SumAdd ==
  ASSUME NEW S, IsFiniteSet(S), NEW x, x \notin S,
         NEW f, \A y \in S \cup {x} : f[y] \in Nat
  PROVE  SumFunctionOnSet(f, S \cup {x}) = f[x] + SumFunctionOnSet(f, S)
<1> DEFINE T == S \cup {x}
<1>1. IsFiniteSet(T)
  BY FS_AddElement
<1>2. PICK i : Sums(i, f, S) /\ SumFunctionOnSet(f, S) = i[S]
  BY SumIsMade
<1>3. PICK j : Sums(j, f, T) /\ SumFunctionOnSet(f, T) = j[T]
  BY <1>1, SumIsMade
<1>4. j[T] = f[x] + j[T \ {x}]
  <2>1. AnyFirst(j, f, T)
    BY <1>1, <1>3, SumsChoice
  <2> QED BY <2>1 DEF AnyFirst
<1>5. T \ {x} = S /\ S \subseteq T
  OBVIOUS
<1>6. i[S] = j[S]
  BY <1>1, <1>2, <1>3, <1>5, SumsAgree
<1> QED BY <1>2, <1>3, <1>4, <1>5, <1>6

(* A sum depends on the values over its set alone. *)
LEMMA SumAgrees ==
  ASSUME NEW S, IsFiniteSet(S), NEW f, NEW g,
         \A x \in S : f[x] \in Nat /\ f[x] = g[x]
  PROVE  SumFunctionOnSet(f, S) = SumFunctionOnSet(g, S)
<1>1. PICK i : Sums(i, f, S) /\ SumFunctionOnSet(f, S) = i[S]
  BY SumIsMade
<1>2. PICK j : Sums(j, g, S) /\ SumFunctionOnSet(g, S) = j[S]
  BY SumIsMade
<1> QED BY <1>1, <1>2, SumsAgree

LEMMA DisjointUnion ==
  ASSUME NEW S, NEW T, IsFiniteSet(S), IsFiniteSet(T), S \cap T = {}
  PROVE  /\ IsFiniteSet(S \cup T)
         /\ Cardinality(S \cup T) = Cardinality(S) + Cardinality(T)
<1>1. Cardinality(S \cap T) = 0
  BY FS_EmptySet
<1> QED BY <1>1, FS_Union, FS_CardinalityType

(* The sizes of disjoint parts add up to the size of the whole. *)
LEMMA SumOfParts ==
  ASSUME NEW G, IsFiniteSet(G), NEW p, NEW f,
         \A g \in G : IsFiniteSet(p[g]) /\ f[g] = Cardinality(p[g]),
         \A g, h \in G : g # h => p[g] \cap p[h] = {},
         NEW W, \A y : y \in W <=> \E g \in G : y \in p[g]
  PROVE  IsFiniteSet(W) /\ SumFunctionOnSet(f, G) = Cardinality(W)
<1> DEFINE Whole(s) == UNION {p[g] : g \in s}
<1>1. \A g \in G : f[g] \in Nat
  BY FS_CardinalityType
<1>2. PICK iter : Sums(iter, f, G) /\ SumFunctionOnSet(f, G) = iter[G]
  BY <1>1, SumIsMade
<1> DEFINE P == {s \in SUBSET G : /\ IsFiniteSet(Whole(s))
                                  /\ iter[s] = Cardinality(Whole(s))}
<1>3. {} \in P
  <2>1. Whole({}) = {}
    OBVIOUS
  <2>2. iter[{}] = 0
    BY <1>2 DEF Sums
  <2> HIDE DEF Whole
  <2> QED BY <2>1, <2>2, FS_EmptySet
<1>4. ASSUME NEW s \in SUBSET G, s # {}, \A x \in s : s \ {x} \in P
      PROVE  s \in P
  <2>1. PICK x \in s : TRUE
    BY <1>4
  <2> DEFINE rest == Whole(s \ {x})
  <2>2. IsFiniteSet(rest) /\ iter[s \ {x}] = Cardinality(rest)
    BY <1>4
  <2>3. iter[s] = f[x] + iter[s \ {x}]
    <3>1. AnyFirst(iter, f, G)
      BY <1>1, <1>2, SumsChoice
    <3> QED BY <3>1 DEF AnyFirst
  <2>4. Whole(s) = rest \cup p[x] /\ rest \cap p[x] = {}
    OBVIOUS
  <2> DEFINE all == Whole(s)
  <2>5. IsFiniteSet(p[x]) /\ f[x] = Cardinality(p[x])
    OBVIOUS
  <2> HIDE DEF Whole, rest, all
  <2>6. IsFiniteSet(rest \cup p[x])
        /\ Cardinality(rest \cup p[x]) = Cardinality(rest) + Cardinality(p[x])
    <3> DEFINE part == p[x]
    <3>1. IsFiniteSet(rest) /\ IsFiniteSet(part) /\ rest \cap part = {}
      BY <2>2, <2>4, <2>5
    <3> HIDE DEF part
    <3>2. IsFiniteSet(rest \cup part)
          /\ Cardinality(rest \cup part) = Cardinality(rest) + Cardinality(part)
      BY <3>1, DisjointUnion
    <3> QED BY <3>2 DEF part
  <2>7. Cardinality(rest) \in Nat /\ Cardinality(p[x]) \in Nat
    BY <2>2, <2>5, FS_CardinalityType
  <2>8. IsFiniteSet(all) /\ iter[s] = Cardinality(all)
    BY <2>2, <2>3, <2>4, <2>5, <2>6, <2>7 DEF all
  <2> QED BY <2>8 DEF all
<1>5. P = SUBSET G
  <2>1. P \in SUBSET SUBSET G
    OBVIOUS
  <2> HIDE DEF P
  <2> QED BY <1>3, <1>4, <2>1, SubsetInduction
<1>6. W = Whole(G)
  OBVIOUS
<1> HIDE DEF Whole
<1> QED BY <1>2, <1>5, <1>6
=============================================================================
