-------------------------- MODULE CollectionsProofs --------------------------
(***************************************************************************)
(* What the operators on collections compute, for every input: induction   *)
(* over the numbers and over a finite set, sums over finite sets, sets     *)
(* listed in order, sequences with entries taken out, and the largest and  *)
(* the smallest of a set.                                                  *)
(***************************************************************************)
EXTENDS Collections, FiniteSetsExt, FiniteSetTheorems, WellFoundedInduction, TLAPS

\* Induction over the numbers, for the set of the numbers that have a property.
LEMMA NatSetInduction ==
    ASSUME NEW S, 0 \in S, \A n \in Nat : n \in S => n + 1 \in S
    PROVE  Nat \subseteq S
<1> DEFINE R == OpToRel(<, Nat)
           T == Nat \ S
<1>1. IsWellFoundedOn(R, Nat)
    BY NatLessThanWellFounded, Zenon
<1>2. \A y, x \in Nat : y < x => <<y, x>> \in R
    BY DEF OpToRel
<1> HIDE DEF R
<1>3. SUFFICES ASSUME T # {} PROVE FALSE
    OBVIOUS
<1>4. T \subseteq Nat
    OBVIOUS
<1>5. PICK x \in T : \A y \in T : ~(<<y, x>> \in R)
  <2> HIDE DEF T
  <2> QED
      BY <1>1, <1>3, <1>4, WFMin, Zenon
<1>6. x \in Nat /\ x - 1 \in T /\ x - 1 \in Nat /\ x - 1 < x
    BY <1>5
<1> QED
    BY <1>2, <1>5, <1>6, Zenon

\* Induction over the subsets of a finite set.
LEMMA FiniteSetInduction ==
    ASSUME NEW S, IsFiniteSet(S), NEW F, {} \in F,
           \A T \in SUBSET S : \A x \in S \ T : T \in F => T \cup {x} \in F
    PROVE  S \in F
<1> DEFINE N == {n \in Nat : \A T \in SUBSET S : Cardinality(T) = n => T \in F}
<1>1. 0 \in N
    BY FS_Subset, FS_EmptySet
<1>2. ASSUME NEW n \in Nat, n \in N
      PROVE  n + 1 \in N
  <2> SUFFICES ASSUME NEW T \in SUBSET S, Cardinality(T) = n + 1
               PROVE  T \in F
      OBVIOUS
  <2>1. IsFiniteSet(T)
      BY FS_Subset
  <2>2. PICK x \in T : TRUE
      BY <2>1, FS_EmptySet
  <2>3. Cardinality(T \ {x}) = n
    <3>1. Cardinality(T \ {x}) = Cardinality(T) - 1
        BY <2>1, <2>2, FS_RemoveElement, Zenon
    <3> QED
        BY <3>1
  <2>4. T \ {x} \in F
      BY <1>2, <2>3
  <2>5. T = (T \ {x}) \cup {x}
      BY <2>2
  <2> QED
      BY <2>4, <2>5
<1>3. Nat \subseteq N
  <2> HIDE DEF N
  <2> QED
      BY <1>1, <1>2, NatSetInduction
<1> QED
    BY <1>3, FS_CardinalityType

Chosen(s) == CHOOSE x \in s : TRUE

Adds(g, f, D) ==
    \A s \in D : g[s] = IF s = {} THEN 0 ELSE f[Chosen(s)] + g[s \ {Chosen(s)}]

SumEq(g, f, S) ==
    g = [s \in SUBSET S |-> IF s = {} THEN 0 ELSE f[Chosen(s)] + g[s \ {Chosen(s)}]]

\* The recursion that defines a sum over a finite set defines a function.
LEMMA SumExists ==
    ASSUME NEW f, NEW S, IsFiniteSet(S)
    PROVE  \E g : SumEq(g, f, S)
<1> DEFINE D(n) == {s \in SUBSET S : Cardinality(s) <= n}
           N == {n \in Nat : \E g : DOMAIN g = D(n) /\ Adds(g, f, D(n))}
<1>1. 0 \in N
  <2>1. D(0) = {{}}
      BY FS_Subset, FS_EmptySet, FS_CardinalityType
  <2> DEFINE g == [s \in {{}} |-> 0]
  <2>2. DOMAIN g = D(0) /\ Adds(g, f, D(0))
      BY <2>1 DEF Adds
  <2> QED
      BY <2>2, Zenon
<1>2. ASSUME NEW n \in Nat, n \in N
      PROVE  n + 1 \in N
  <2>1. PICK g : DOMAIN g = D(n) /\ Adds(g, f, D(n))
      BY <1>2
  <2> DEFINE h == [s \in D(n + 1) |-> IF s = {} THEN 0 ELSE f[Chosen(s)] + g[s \ {Chosen(s)}]]
  <2>2. \A s \in D(n + 1) : s # {} => Chosen(s) \in s /\ s \ {Chosen(s)} \in D(n)
    <3> SUFFICES ASSUME NEW s \in D(n + 1), s # {}
                 PROVE  Chosen(s) \in s /\ s \ {Chosen(s)} \in D(n)
        OBVIOUS
    <3>1. Chosen(s) \in s
        BY DEF Chosen
    <3>2. IsFiniteSet(s) /\ Cardinality(s) \in Nat
        BY FS_Subset, FS_CardinalityType
    <3>3. Cardinality(s \ {Chosen(s)}) = Cardinality(s) - 1
        BY <3>1, <3>2, FS_RemoveElement, Zenon
    <3> QED
        BY <3>1, <3>2, <3>3
  <2>3. D(n) \subseteq D(n + 1)
      BY FS_Subset, FS_CardinalityType
  <2>4. \A s \in D(n) : h[s] = g[s]
      BY <2>1, <2>3 DEF Adds
  <2>5. Adds(h, f, D(n + 1))
    <3> SUFFICES ASSUME NEW s \in D(n + 1)
                 PROVE  h[s] = IF s = {} THEN 0 ELSE f[Chosen(s)] + h[s \ {Chosen(s)}]
        BY Zenon DEF Adds
    <3>1. CASE s = {}
        BY <3>1
    <3>2. CASE s # {}
      <4>1. h[s \ {Chosen(s)}] = g[s \ {Chosen(s)}]
          BY <2>2, <2>4, <3>2, Zenon
      <4>2. h[s] = f[Chosen(s)] + g[s \ {Chosen(s)}]
          BY <3>2
      <4> QED
          BY <3>2, <4>1, <4>2
    <3> QED
        BY <3>1, <3>2
  <2>6. DOMAIN h = D(n + 1)
      OBVIOUS
  <2>7. \E k : DOMAIN k = D(n + 1) /\ Adds(k, f, D(n + 1))
    <3> HIDE DEF h, D
    <3> QED
        BY <2>5, <2>6
  <2> HIDE DEF h, D
  <2> QED
      BY <2>7
<1>3. Cardinality(S) \in N
  <2> HIDE DEF N
  <2> QED
      BY <1>1, <1>2, NatSetInduction, FS_CardinalityType
<1>4. PICK h : DOMAIN h = D(Cardinality(S)) /\ Adds(h, f, D(Cardinality(S)))
    BY <1>3
<1>5. D(Cardinality(S)) = SUBSET S
    BY FS_Subset
<1> DEFINE g == [s \in SUBSET S |-> h[s]]
<1>6. \A s \in SUBSET S : s \ {Chosen(s)} \in SUBSET S
    OBVIOUS
<1>7. SumEq(g, f, S)
    BY <1>4, <1>5, <1>6 DEF SumEq, Adds
<1> QED
    BY <1>7

\* And only one: on the subsets that two such functions share they agree.
LEMMA SumUnique ==
    ASSUME NEW f, NEW S, IsFiniteSet(S), NEW g, NEW h, SumEq(g, f, S),
           NEW T \in SUBSET S, SumEq(h, f, T)
    PROVE  \A s \in SUBSET T : g[s] = h[s]
<1> DEFINE F == {s \in SUBSET T : g[s] = h[s]}
           N == {n \in Nat : \A s \in SUBSET T : Cardinality(s) = n => g[s] = h[s]}
<1>0. \A s \in SUBSET T : IsFiniteSet(s) /\ Cardinality(s) \in Nat
    BY FS_Subset, FS_CardinalityType
<1>1. 0 \in N
    BY <1>0, FS_EmptySet DEF SumEq
<1>2. ASSUME NEW n \in Nat, n \in N
      PROVE  n + 1 \in N
  <2> SUFFICES ASSUME NEW s \in SUBSET T, Cardinality(s) = n + 1
               PROVE  g[s] = h[s]
      OBVIOUS
  <2>1. s # {} /\ Chosen(s) \in s
      BY <1>0, FS_EmptySet DEF Chosen
  <2>2. Cardinality(s \ {Chosen(s)}) = Cardinality(s) - 1
      BY <1>0, <2>1, FS_RemoveElement
  <2>3. g[s \ {Chosen(s)}] = h[s \ {Chosen(s)}]
      BY <1>2, <2>2
  <2>4. g[s] = f[Chosen(s)] + g[s \ {Chosen(s)}] /\ h[s] = f[Chosen(s)] + h[s \ {Chosen(s)}]
      BY <2>1, Zenon DEF SumEq
  <2> QED
      BY <2>3, <2>4
<1>3. Nat \subseteq N
  <2> HIDE DEF N
  <2> QED
      BY <1>1, <1>2, NatSetInduction
<1> QED
    BY <1>0, <1>3

\* A sum over a set is that function's value at the set.
LEMMA SumIs ==
    ASSUME NEW f, NEW S, IsFiniteSet(S)
    PROVE  \E g : SumEq(g, f, S) /\ SumFunctionOnSet(f, S) = g[S]
<1> DEFINE g == CHOOSE h : SumEq(h, f, S)
<1>1. SumEq(g, f, S)
    BY SumExists
<1>2. SumFunctionOnSet(f, S) = g[S]
    BY Zenon DEF SumFunctionOnSet, FoldFunctionOnSet, MapThenFoldSet, SumEq, Chosen
<1> QED
    BY <1>1, <1>2, Zenon

\* A sum is nothing for the empty set, and otherwise one element's value
\* and the sum over the rest.
LEMMA SumRec ==
    ASSUME NEW f, NEW S, IsFiniteSet(S)
    PROVE  /\ SumFunctionOnSet(f, {}) = 0
           /\ S # {} => /\ Chosen(S) \in S
                        /\ SumFunctionOnSet(f, S)
                             = f[Chosen(S)] + SumFunctionOnSet(f, S \ {Chosen(S)})
<1>1. SumFunctionOnSet(f, {}) = 0
  <2>1. PICK g : SumEq(g, f, {}) /\ SumFunctionOnSet(f, {}) = g[{}]
      BY SumIs, FS_EmptySet
  <2> QED
      BY <2>1 DEF SumEq
<1>2. ASSUME S # {}
      PROVE  /\ Chosen(S) \in S
             /\ SumFunctionOnSet(f, S)
                  = f[Chosen(S)] + SumFunctionOnSet(f, S \ {Chosen(S)})
  <2> DEFINE T == S \ {Chosen(S)}
  <2>1. Chosen(S) \in S
      BY <1>2 DEF Chosen
  <2>2. PICK g : SumEq(g, f, S) /\ SumFunctionOnSet(f, S) = g[S]
      BY SumIs
  <2>3. IsFiniteSet(T)
      BY FS_Subset
  <2>4. PICK h : SumEq(h, f, T) /\ SumFunctionOnSet(f, T) = h[T]
      BY <2>3, SumIs
  <2>5. g[T] = h[T]
      BY <2>2, <2>4, SumUnique
  <2>6. g[S] = f[Chosen(S)] + g[T]
      BY <1>2, <2>2, Zenon DEF SumEq
  <2> QED
      BY <2>1, <2>2, <2>4, <2>5, <2>6
<1> QED
    BY <1>1, <1>2

IntOn(f, S) == \A x \in S : f[x] \in Int

\* A sum of integers is an integer.
LEMMA SumInt ==
    ASSUME NEW f, NEW S, IsFiniteSet(S), IntOn(f, S)
    PROVE  SumFunctionOnSet(f, S) \in Int
<1> DEFINE Sum(s) == SumFunctionOnSet(f, s)
           N == {n \in Nat : \A s \in SUBSET S : Cardinality(s) = n => Sum(s) \in Int}
<1>0. \A s \in SUBSET S : IsFiniteSet(s) /\ Cardinality(s) \in Nat
    BY FS_Subset, FS_CardinalityType
<1>1. 0 \in N
    BY <1>0, FS_EmptySet, SumRec
<1>2. ASSUME NEW n \in Nat, n \in N
      PROVE  n + 1 \in N
  <2> SUFFICES ASSUME NEW s \in SUBSET S, Cardinality(s) = n + 1
               PROVE  Sum(s) \in Int
      OBVIOUS
  <2>1. s # {}
      BY <1>0, FS_EmptySet
  <2>2. Chosen(s) \in s /\ Sum(s) = f[Chosen(s)] + Sum(s \ {Chosen(s)})
      BY <1>0, <2>1, SumRec
  <2>3. Cardinality(s \ {Chosen(s)}) = Cardinality(s) - 1
      BY <1>0, <2>2, FS_RemoveElement
  <2>4. Sum(s \ {Chosen(s)}) \in Int
      BY <1>2, <2>3
  <2>5. f[Chosen(s)] \in Int
      BY <2>2 DEF IntOn
  <2> QED
      BY <2>2, <2>4, <2>5
<1>3. Nat \subseteq N
  <2> HIDE DEF N
  <2> QED
      BY <1>1, <1>2, NatSetInduction
<1> QED
    BY <1>0, <1>3

\* Any element may be the one that is taken out of a sum.
LEMMA SumRemove ==
    ASSUME NEW f, NEW S, IsFiniteSet(S), IntOn(f, S), NEW e \in S
    PROVE  SumFunctionOnSet(f, S) = f[e] + SumFunctionOnSet(f, S \ {e})
<1> DEFINE Sum(s) == SumFunctionOnSet(f, s)
           N == {n \in Nat : \A s \in SUBSET S :
                    Cardinality(s) = n => \A x \in s : Sum(s) = f[x] + Sum(s \ {x})}
<1>0. \A s \in SUBSET S : IsFiniteSet(s) /\ Cardinality(s) \in Nat /\ Sum(s) \in Int
    BY FS_Subset, FS_CardinalityType, SumInt DEF IntOn
<1>1. 0 \in N
    BY <1>0, FS_EmptySet
<1>2. ASSUME NEW n \in Nat, n \in N
      PROVE  n + 1 \in N
  <2> SUFFICES ASSUME NEW s \in SUBSET S, Cardinality(s) = n + 1, NEW x \in s
               PROVE  Sum(s) = f[x] + Sum(s \ {x})
      OBVIOUS
  <2> DEFINE c == Chosen(s)
  <2>2. c \in s /\ Sum(s) = f[c] + Sum(s \ {c})
      BY <1>0, SumRec
  <2>3. CASE c = x
      BY <2>2, <2>3
  <2>4. CASE c # x
    <3>1. Cardinality(s \ {c}) = n /\ Cardinality(s \ {x}) = n
      <4>1. Cardinality(s \ {c}) = Cardinality(s) - 1 /\ Cardinality(s \ {x}) = Cardinality(s) - 1
          BY <1>0, <2>2, FS_RemoveElement
      <4> QED
          BY <4>1
    <3>2. Sum(s \ {c}) = f[x] + Sum((s \ {c}) \ {x})
        BY <1>2, <2>4, <3>1
    <3>3. Sum(s \ {x}) = f[c] + Sum((s \ {x}) \ {c})
        BY <1>2, <2>2, <2>4, <3>1
    <3>4. (s \ {c}) \ {x} = (s \ {x}) \ {c}
        OBVIOUS
    <3>5. f[x] \in Int /\ f[c] \in Int /\ Sum((s \ {c}) \ {x}) \in Int
        BY <1>0, <2>2 DEF IntOn
    <3>6. PICK a \in Int : a = Sum((s \ {c}) \ {x})
        BY <3>5
    <3>7. Sum(s \ {x}) = f[c] + a
        BY <3>3, <3>4, <3>6, Zenon
    <3>8. Sum(s) = f[c] + (f[x] + a)
        BY <2>2, <3>2, <3>6, Zenon
    <3>9. f[c] + (f[x] + a) = f[x] + (f[c] + a)
        BY <3>5, <3>6
    <3> QED
        BY <3>7, <3>8, <3>9, Zenon
  <2> QED
      BY <2>3, <2>4
<1>3. Nat \subseteq N
  <2> HIDE DEF N
  <2> QED
      BY <1>1, <1>2, NatSetInduction
<1> QED
    BY <1>0, <1>3

\* A sum over a set and one more element.
LEMMA SumAdd ==
    ASSUME NEW f, NEW S, IsFiniteSet(S), NEW e, e \notin S, IntOn(f, S \cup {e})
    PROVE  SumFunctionOnSet(f, S \cup {e}) = SumFunctionOnSet(f, S) + f[e]
<1>1. IsFiniteSet(S \cup {e})
    BY FS_AddElement
<1>2. (S \cup {e}) \ {e} = S
    OBVIOUS
<1>3. SumFunctionOnSet(f, S \cup {e}) = f[e] + SumFunctionOnSet(f, S)
    BY <1>1, <1>2, SumRemove
<1>4. SumFunctionOnSet(f, S) \in Int /\ f[e] \in Int
    BY SumInt DEF IntOn
<1> QED
    BY <1>3, <1>4

\* A sum depends on the values at the set's elements only.
LEMMA SumSame ==
    ASSUME NEW f, NEW g, NEW S, IsFiniteSet(S), IntOn(f, S), \A x \in S : f[x] = g[x]
    PROVE  SumFunctionOnSet(f, S) = SumFunctionOnSet(g, S)
<1> DEFINE F == {s \in SUBSET S : SumFunctionOnSet(f, s) = SumFunctionOnSet(g, s)}
<1>1. {} \in F
    BY SumRec, FS_EmptySet, Zenon
<1>2. ASSUME NEW T \in SUBSET S, NEW x \in S \ T, T \in F
      PROVE  T \cup {x} \in F
  <2>1. IsFiniteSet(T)
      BY FS_Subset
  <2>2. IntOn(f, T \cup {x}) /\ IntOn(g, T \cup {x}) /\ f[x] = g[x]
      BY DEF IntOn
  <2>3. /\ SumFunctionOnSet(f, T \cup {x}) = SumFunctionOnSet(f, T) + f[x]
        /\ SumFunctionOnSet(g, T \cup {x}) = SumFunctionOnSet(g, T) + g[x]
      BY <2>1, <2>2, SumAdd
  <2> QED
      BY <1>2, <2>2, <2>3
<1>3. S \in F
  <2> HIDE DEF F
  <2> QED
      BY <1>1, <1>2, FiniteSetInduction, Zenon
<1> QED
    BY <1>3

\* A sum over two sets without a common element.
LEMMA SumUnion ==
    ASSUME NEW f, NEW S, IsFiniteSet(S), NEW T, IsFiniteSet(T), S \cap T = {},
           IntOn(f, S \cup T)
    PROVE  SumFunctionOnSet(f, S \cup T) = SumFunctionOnSet(f, S) + SumFunctionOnSet(f, T)
<1> DEFINE F == {s \in SUBSET T : SumFunctionOnSet(f, S \cup s)
                                   = SumFunctionOnSet(f, S) + SumFunctionOnSet(f, s)}
<1>0. SumFunctionOnSet(f, S) \in Int
    BY SumInt DEF IntOn
<1>1. {} \in F
  <2>1. S \cup {} = S /\ SumFunctionOnSet(f, {}) = 0
      BY SumRec, FS_EmptySet
  <2> QED
      BY <1>0, <2>1
<1>2. ASSUME NEW s \in SUBSET T, NEW x \in T \ s, s \in F
      PROVE  s \cup {x} \in F
  <2>1. IsFiniteSet(s) /\ IsFiniteSet(S \cup s)
      BY FS_Subset, FS_Union, Zenon
  <2>2. /\ IntOn(f, s \cup {x}) /\ IntOn(f, (S \cup s) \cup {x}) /\ IntOn(f, s)
        /\ f[x] \in Int /\ x \notin S \cup s
      BY DEF IntOn
  <2>3. SumFunctionOnSet(f, s \cup {x}) = SumFunctionOnSet(f, s) + f[x]
      BY <2>1, <2>2, SumAdd
  <2>4. SumFunctionOnSet(f, (S \cup s) \cup {x}) = SumFunctionOnSet(f, S \cup s) + f[x]
      BY <2>1, <2>2, SumAdd
  <2>5. S \cup (s \cup {x}) = (S \cup s) \cup {x}
      OBVIOUS
  <2>6. SumFunctionOnSet(f, s) \in Int
      BY <2>1, <2>2, SumInt
  <2>7. SumFunctionOnSet(f, S \cup (s \cup {x}))
          = (SumFunctionOnSet(f, S) + SumFunctionOnSet(f, s)) + f[x]
      BY <1>2, <2>4, <2>5
  <2> QED
      BY <1>0, <2>2, <2>3, <2>6, <2>7
<1>3. T \in F
  <2> HIDE DEF F
  <2> QED
      BY <1>1, <1>2, FiniteSetInduction, Zenon
<1> QED
    BY <1>3

NatOn(f, S) == \A x \in S : f[x] \in Nat

\* A sum of natural numbers is a natural number.
LEMMA SumNat ==
    ASSUME NEW f, NEW S, IsFiniteSet(S), NatOn(f, S)
    PROVE  SumFunctionOnSet(f, S) \in Nat
<1> DEFINE F == {s \in SUBSET S : SumFunctionOnSet(f, s) \in Nat}
<1>1. {} \in F
    BY SumRec, FS_EmptySet
<1>2. ASSUME NEW s \in SUBSET S, NEW x \in S \ s, s \in F
      PROVE  s \cup {x} \in F
  <2>1. IsFiniteSet(s) /\ IntOn(f, s \cup {x}) /\ f[x] \in Nat
      BY FS_Subset DEF IntOn, NatOn
  <2>2. SumFunctionOnSet(f, s \cup {x}) = SumFunctionOnSet(f, s) + f[x]
      BY <2>1, SumAdd
  <2> QED
      BY <1>2, <2>1, <2>2
<1>3. S \in F
  <2> HIDE DEF F
  <2> QED
      BY <1>1, <1>2, FiniteSetInduction, Zenon
<1> QED
    BY <1>3

\* A sum of natural numbers over part of a set is at most the sum over all of it.
LEMMA SumSubset ==
    ASSUME NEW f, NEW S, IsFiniteSet(S), NatOn(f, S), NEW T \in SUBSET S
    PROVE  /\ SumFunctionOnSet(f, T) \in Nat
           /\ SumFunctionOnSet(f, T) <= SumFunctionOnSet(f, S)
<1>1. IsFiniteSet(T) /\ IsFiniteSet(S \ T) /\ T \cup (S \ T) = S /\ T \cap (S \ T) = {}
    BY FS_Subset
<1>2. NatOn(f, T) /\ NatOn(f, S \ T) /\ IntOn(f, T \cup (S \ T))
    BY DEF NatOn, IntOn
<1>3. SumFunctionOnSet(f, T) \in Nat /\ SumFunctionOnSet(f, S \ T) \in Nat
    BY <1>1, <1>2, SumNat
<1>4. SumFunctionOnSet(f, T \cup (S \ T)) = SumFunctionOnSet(f, T) + SumFunctionOnSet(f, S \ T)
    BY <1>1, <1>2, SumUnion
<1>5. SumFunctionOnSet(f, S) = SumFunctionOnSet(f, T) + SumFunctionOnSet(f, S \ T)
    BY <1>1, <1>4, Zenon
<1> QED
    BY <1>3, <1>5

\* A sum over one element.
LEMMA SumSingleton ==
    ASSUME NEW f, NEW e, f[e] \in Int
    PROVE  SumFunctionOnSet(f, {e}) = f[e]
<1>1. IsFiniteSet({}) /\ {} \cup {e} = {e} /\ IntOn(f, {} \cup {e}) /\ e \notin {}
    BY FS_EmptySet DEF IntOn
<1>2. SumFunctionOnSet(f, {} \cup {e}) = SumFunctionOnSet(f, {}) + f[e]
    BY <1>1, SumAdd
<1>3. SumFunctionOnSet(f, {}) = 0
    BY SumRec, FS_EmptySet, Zenon
<1> QED
    BY <1>1, <1>2, <1>3

\* The values of a function on a finite set are finitely many.
LEMMA FiniteImage ==
    ASSUME NEW f, NEW S, IsFiniteSet(S)
    PROVE  IsFiniteSet({f[x] : x \in S})
<1> DEFINE T == {f[x] : x \in S}
           g == [x \in S |-> f[x]]
<1>1. g \in [S -> T] /\ \A y \in T : \E x \in S : g[x] = y
    OBVIOUS
<1>2. g \in Surjection(S, T)
  <2> HIDE DEF g, T
  <2> QED
      BY <1>1 DEF Surjection
<1> HIDE DEF g
<1>3. IsFiniteSet(T)
  <2> HIDE DEF T
  <2> QED
      BY <1>2, FS_Surjection
<1> QED
    BY <1>3

\* Summing along a bijection.
LEMMA SumImage ==
    ASSUME NEW S, IsFiniteSet(S), NEW T, NEW b \in Bijection(S, T), NEW f, NEW g,
           IntOn(f, T), \A i \in S : g[i] = f[b[i]]
    PROVE  SumFunctionOnSet(g, S) = SumFunctionOnSet(f, T)
<1> DEFINE Im(A) == {b[i] : i \in A}
           F == {A \in SUBSET S : SumFunctionOnSet(g, A) = SumFunctionOnSet(f, Im(A))}
<1>0. /\ \A i \in S : b[i] \in T
      /\ \A i, j \in S : b[i] = b[j] => i = j
      /\ \A t \in T : \E i \in S : b[i] = t
    BY DEF Bijection, Injection, Surjection, IsInjective
<1>1. {} \in F
  <2>1. Im({}) = {}
      OBVIOUS
  <2>2. SumFunctionOnSet(g, {}) = 0 /\ SumFunctionOnSet(f, {}) = 0
      BY SumRec, FS_EmptySet, Zenon
  <2> QED
      BY <2>1, <2>2
<1>2. ASSUME NEW A \in SUBSET S, NEW x \in S \ A, A \in F
      PROVE  A \cup {x} \in F
  <2>1. IsFiniteSet(A) /\ IntOn(g, A \cup {x})
      BY <1>0, FS_Subset DEF IntOn
  <2>2. SumFunctionOnSet(g, A \cup {x}) = SumFunctionOnSet(g, A) + g[x]
      BY <2>1, SumAdd
  <2>3. IsFiniteSet(Im(A))
      BY <2>1, FiniteImage
  <2>4. b[x] \notin Im(A) /\ Im(A \cup {x}) = Im(A) \cup {b[x]}
      BY <1>0
  <2>5. IntOn(f, Im(A) \cup {b[x]})
      BY <1>0 DEF IntOn
  <2> HIDE DEF Im
  <2>6. SumFunctionOnSet(f, Im(A) \cup {b[x]}) = SumFunctionOnSet(f, Im(A)) + f[b[x]]
      BY <2>3, <2>4, <2>5, SumAdd
  <2> QED
      BY <1>2, <2>2, <2>4, <2>6
<1>3. S \in F
  <2> HIDE DEF F
  <2> QED
      BY <1>1, <1>2, FiniteSetInduction, Zenon
<1>4. Im(S) = T
    BY <1>0
<1> QED
    BY <1>3, <1>4

-----------------------------------------------------------------------------
IsOrder(before, S) ==
    /\ \A x \in S : <<x, x>> \notin before
    /\ \A x, y \in S : x # y => <<x, y>> \in before \/ <<y, x>> \in before
    /\ \A x, y, z \in S : <<x, y>> \in before /\ <<y, z>> \in before => <<x, z>> \in before

\* Ranked lists every element of a finite set once, in the set's order.
LEMMA RankedLists ==
    ASSUME NEW S, IsFiniteSet(S), NEW before, IsOrder(before, S)
    PROVE  /\ Ranked(S, before) \in Bijection(1..Cardinality(S), S)
           /\ \A i, j \in 1..Cardinality(S) :
                 i < j <=> <<Ranked(S, before)[i], Ranked(S, before)[j]>> \in before
<1> DEFINE C == Cardinality(S)
           Ahead(x) == {y \in S : <<y, x>> \in before}
           pos == [x \in S |-> Cardinality(Ahead(x)) + 1]
<1>1. C \in Nat
    BY FS_CardinalityType
<1>2. \A x \in S : pos[x] \in 1..C
  <2> SUFFICES ASSUME NEW x \in S PROVE pos[x] \in 1..C
      OBVIOUS
  <2>1. Ahead(x) \in SUBSET (S \ {x})
      BY DEF IsOrder
  <2>2. IsFiniteSet(S \ {x}) /\ Cardinality(S \ {x}) = C - 1
      BY FS_RemoveElement
  <2>3. Cardinality(Ahead(x)) <= C - 1 /\ IsFiniteSet(Ahead(x))
    <3>1. ASSUME NEW a \in SUBSET (S \ {x})
          PROVE  IsFiniteSet(a) /\ Cardinality(a) <= Cardinality(S \ {x})
        BY <2>2, FS_Subset, Zenon
    <3> QED
        BY <2>1, <2>2, <3>1, Zenon
  <2>4. Cardinality(Ahead(x)) \in Nat
      BY <2>3, FS_CardinalityType
  <2> QED
      BY <1>1, <2>3, <2>4
<1>3. \A x, y \in S : <<x, y>> \in before => pos[x] < pos[y]
  <2> SUFFICES ASSUME NEW x \in S, NEW y \in S, <<x, y>> \in before
               PROVE  pos[x] < pos[y]
      OBVIOUS
  <2>1. Ahead(x) \cup {x} \in SUBSET Ahead(y) /\ x \notin Ahead(x)
      BY DEF IsOrder
  <2>2. IsFiniteSet(Ahead(x)) /\ IsFiniteSet(Ahead(y))
      BY FS_Subset, Zenon
  <2>3. Cardinality(Ahead(x) \cup {x}) = Cardinality(Ahead(x)) + 1
      BY <2>1, <2>2, FS_AddElement, Zenon
  <2>4. Cardinality(Ahead(x) \cup {x}) <= Cardinality(Ahead(y))
      BY <2>1, <2>2, FS_Subset, Zenon
  <2>5. Cardinality(Ahead(x)) \in Nat /\ Cardinality(Ahead(y)) \in Nat
      BY <2>2, FS_CardinalityType
  <2> QED
      BY <2>3, <2>4, <2>5
<1>4. \A x, y \in S : pos[x] = pos[y] => x = y
  <2> HIDE DEF pos, C
  <2>1. \A x, y \in S : x = y \/ <<x, y>> \in before \/ <<y, x>> \in before
      BY Zenon DEF IsOrder
  <2> SUFFICES ASSUME NEW x \in S, NEW y \in S, pos[x] = pos[y], x # y
               PROVE  FALSE
      OBVIOUS
  <2>2. pos[x] \in Int /\ pos[y] \in Int
      BY <1>1, <1>2
  <2>3. pos[x] < pos[y] \/ pos[y] < pos[x]
      BY <1>3, <2>1, Zenon
  <2> QED
      BY <2>2, <2>3
<1>5. pos \in Injection(S, 1..C)
    BY <1>2, <1>4, Zenon DEF Injection, IsInjective
<1>6. IsFiniteSet(1..C) /\ Cardinality(1..C) = C
    BY <1>1, FS_Interval
<1>7. pos \in Surjection(S, 1..C)
    BY <1>5, <1>6, FS_Injection
<1>8. \A n \in 1..C : /\ Ranked(S, before)[n] \in S
                      /\ pos[Ranked(S, before)[n]] = n
  <2> SUFFICES ASSUME NEW n \in 1..C
               PROVE  Ranked(S, before)[n] \in S /\ pos[Ranked(S, before)[n]] = n
      OBVIOUS
  <2>1. PICK x \in S : pos[x] = n
      BY <1>7, Zenon DEF Surjection
  <2>2. Cardinality(Ahead(x)) = n - 1
    <3>1. Cardinality(Ahead(x)) \in Nat
        BY FS_Subset, FS_CardinalityType, Zenon
    <3> QED
        BY <2>1, <3>1
  <2>3. Ranked(S, before)[n] = CHOOSE y \in S : Cardinality(Ahead(y)) = n - 1
      BY Zenon DEF Ranked, NthOf
  <2>4. /\ Ranked(S, before)[n] \in S
        /\ Cardinality(Ahead(Ranked(S, before)[n])) = n - 1
      BY <2>2, <2>3, Zenon
  <2> QED
      BY <2>4
<1>9. \A x \in S : \E n \in 1..C : Ranked(S, before)[n] = x
    BY <1>2, <1>4, <1>8, ZenonT(60)
<1>10. DOMAIN Ranked(S, before) = 1..C
    BY DEF Ranked
<1>11. Ranked(S, before) \in [1..C -> S]
    BY <1>8, <1>10, Zenon DEF Ranked
<1>12. Ranked(S, before) \in Bijection(1..C, S)
  <2> DEFINE q == Ranked(S, before)
  <2>1. \A i, j \in 1..C : q[i] = q[j] => i = j
      BY <1>8, Zenon
  <2> HIDE DEF q, C, pos
  <2> QED
      BY <2>1, <1>9, <1>11 DEF Bijection, Injection, Surjection, IsInjective, q
<1>13. ASSUME NEW i \in 1..C, NEW j \in 1..C
       PROVE  i < j <=> <<Ranked(S, before)[i], Ranked(S, before)[j]>> \in before
  <2> DEFINE x == Ranked(S, before)[i]
             y == Ranked(S, before)[j]
  <2>1. x \in S /\ y \in S /\ pos[x] = i /\ pos[y] = j
      BY <1>8
  <2>2. <<x, y>> \in before => i < j
      BY <1>3, <2>1, Zenon
  <2>3. <<y, x>> \in before => j < i
      BY <1>3, <2>1, Zenon
  <2>4. x = y => i = j
      BY <2>1
  <2>5. x = y \/ <<x, y>> \in before \/ <<y, x>> \in before
      BY <2>1 DEF IsOrder
  <2>6. i \in Int /\ j \in Int
      BY <1>1
  <2>7. <<x, x>> \notin before
      BY <2>1 DEF IsOrder
  <2> HIDE DEF x, y, pos, C
  <2>8. i < j => <<x, y>> \in before
      BY <2>3, <2>4, <2>5, <2>6
  <2> QED
      BY <2>2, <2>8 DEF x, y
<1> QED
    BY <1>12, <1>13

\* A finite set of numbers, listed in ascending order.
LEMMA AscendingLists ==
    ASSUME NEW S, IsFiniteSet(S), S \subseteq Int
    PROVE  /\ Ascending(S) \in Bijection(1..Cardinality(S), S)
           /\ \A i, j \in 1..Cardinality(S) : i < j <=> Ascending(S)[i] < Ascending(S)[j]
<1> DEFINE before == {p \in S \X S : p[1] < p[2]}
<1>1. IsOrder(before, S)
    BY DEF IsOrder
<1>2. \A x, y \in S : <<x, y>> \in before <=> x < y
    OBVIOUS
<1>3. Ascending(S) = Ranked(S, before)
    BY DEF Ascending
<1> HIDE DEF before
<1>4. /\ Ascending(S) \in Bijection(1..Cardinality(S), S)
      /\ \A i, j \in 1..Cardinality(S) :
            i < j <=> <<Ascending(S)[i], Ascending(S)[j]>> \in before
    BY <1>1, <1>3, RankedLists
<1>5. \A i \in 1..Cardinality(S) : Ascending(S)[i] \in S
    BY <1>4 DEF Bijection, Injection
<1> QED
    BY <1>2, <1>4, <1>5, Zenon

\* KeepAt keeps each chosen entry exactly once, in the order they had.
LEMMA KeepAtKeeps ==
    ASSUME NEW T, NEW s \in Seq(T), NEW K \in SUBSET DOMAIN s
    PROVE  /\ KeepAt(s, K) \in Seq(T)
           /\ Ascending(K) \in Bijection(DOMAIN KeepAt(s, K), K)
           /\ \A i, j \in DOMAIN KeepAt(s, K) : i < j <=> Ascending(K)[i] < Ascending(K)[j]
           /\ \A i \in DOMAIN KeepAt(s, K) : KeepAt(s, K)[i] = s[Ascending(K)[i]]
<1>1. DOMAIN s = 1..Len(s) /\ Len(s) \in Nat
    OBVIOUS
<1>2. IsFiniteSet(K) /\ K \subseteq Int
  <2>1. IsFiniteSet(1..Len(s)) /\ K \in SUBSET (1..Len(s))
      BY <1>1, FS_Interval
  <2> QED
      BY <1>1, <2>1, FS_Subset
<1>3. /\ Ascending(K) \in Bijection(1..Cardinality(K), K)
      /\ \A i, j \in 1..Cardinality(K) : i < j <=> Ascending(K)[i] < Ascending(K)[j]
    BY <1>2, AscendingLists
<1>4. Cardinality(K) \in Nat
    BY <1>2, FS_CardinalityType
<1>5. \A i \in 1..Cardinality(K) : Ascending(K)[i] \in DOMAIN s
    BY <1>3 DEF Bijection, Injection
<1>6. \A i \in 1..Cardinality(K) : s[Ascending(K)[i]] \in T
    BY <1>5
<1>7. /\ DOMAIN KeepAt(s, K) = 1..Cardinality(K)
      /\ \A i \in 1..Cardinality(K) : KeepAt(s, K)[i] = s[Ascending(K)[i]]
    BY DEF KeepAt
<1>8. KeepAt(s, K) \in Seq(T)
    BY <1>4, <1>6 DEF KeepAt
<1> QED
    BY <1>3, <1>7, <1>8

-----------------------------------------------------------------------------
(* Largest and smallest elements.                                          *)

\* A finite set of integers that is not empty has a largest element.
LEMMA MaxIsLargest ==
    ASSUME NEW S, IsFiniteSet(S), S # {}, S \subseteq Int
    PROVE  Max(S) \in S /\ \A x \in S : x <= Max(S)
<1> DEFINE F == {T \in SUBSET S : T # {} => \E m \in T : \A x \in T : m >= x}
<1>1. {} \in F
    OBVIOUS
<1>2. ASSUME NEW T \in SUBSET S, NEW x \in S \ T, T \in F
      PROVE  T \cup {x} \in F
  <2>1. CASE T = {}
      BY <2>1
  <2>2. CASE T # {}
    <3>1. PICK m \in T : \A y \in T : m >= y
        BY <1>2, <2>2
    <3>2. m \in Int /\ x \in Int /\ T \subseteq Int
        OBVIOUS
    <3>3. CASE m >= x
        BY <3>1, <3>3
    <3>4. CASE x >= m
      <4>1. \A y \in T : x >= y
          BY <3>1, <3>2, <3>4
      <4> QED
          BY <3>2, <4>1
    <3> QED
        BY <3>2, <3>3, <3>4
  <2> QED
      BY <2>1, <2>2
<1>3. S \in F
  <2> HIDE DEF F
  <2> QED
      BY <1>1, <1>2, FiniteSetInduction, Zenon
<1>4. \E m \in S : \A x \in S : m >= x
    BY <1>3
<1>5. Max(S) \in S /\ \A x \in S : Max(S) >= x
    BY <1>4, Zenon DEF Max
<1> QED
    BY <1>5

\* The larger and the smaller of two integers.
LEMMA MaxMinOfTwo ==
    ASSUME NEW a \in Int, NEW b \in Int
    PROVE  /\ Max({a, b}) = IF a >= b THEN a ELSE b
           /\ Min({a, b}) = IF a <= b THEN a ELSE b
<1>1. \E x \in {a, b} : \A y \in {a, b} : x >= y
    OBVIOUS
<1>2. Max({a, b}) \in {a, b} /\ \A y \in {a, b} : Max({a, b}) >= y
    BY <1>1 DEF Max
<1>3. \E x \in {a, b} : \A y \in {a, b} : x <= y
    OBVIOUS
<1>4. Min({a, b}) \in {a, b} /\ \A y \in {a, b} : Min({a, b}) <= y
    BY <1>3 DEF Min
<1> QED
    BY <1>2, <1>4


\* A sequence has finitely many entries.
LEMMA FiniteRange ==
    ASSUME NEW T, NEW s \in Seq(T)
    PROVE  IsFiniteSet(DOMAIN s) /\ IsFiniteSet(Range(s))
<1>1. DOMAIN s = 1..Len(s) /\ Len(s) \in Nat
    OBVIOUS
<1>2. IsFiniteSet(DOMAIN s)
  <2>1. IsFiniteSet(1..Len(s))
      BY <1>1, FS_Interval
  <2> QED
      BY <1>1, <2>1
<1>3. IsFiniteSet({s[i] : i \in DOMAIN s})
  <2>1. PICK D : D = DOMAIN s
      OBVIOUS
  <2>2. IsFiniteSet({s[i] : i \in D})
      BY <1>2, <2>1, FiniteImage
  <2> QED
      BY <2>1, <2>2
<1> QED
    BY <1>2, <1>3 DEF Range

\* A finite set of integers that is not empty has a smallest element.
LEMMA MinIsSmallest ==
    ASSUME NEW S, IsFiniteSet(S), S # {}, S \subseteq Int
    PROVE  Min(S) \in S /\ \A x \in S : Min(S) <= x
<1> DEFINE F == {T \in SUBSET S : T # {} => \E m \in T : \A x \in T : m =< x}
<1>1. {} \in F
    OBVIOUS
<1>2. ASSUME NEW T \in SUBSET S, NEW x \in S \ T, T \in F
      PROVE  T \cup {x} \in F
  <2>1. CASE T = {}
      BY <2>1
  <2>2. CASE T # {}
    <3>1. PICK m \in T : \A y \in T : m =< y
        BY <1>2, <2>2
    <3>2. m \in Int /\ x \in Int /\ T \subseteq Int
        OBVIOUS
    <3>3. CASE m =< x
        BY <3>1, <3>3
    <3>4. CASE x =< m
      <4>1. \A y \in T : x =< y
          BY <3>1, <3>2, <3>4
      <4> QED
          BY <3>2, <4>1
    <3> QED
        BY <3>2, <3>3, <3>4
  <2> QED
      BY <2>1, <2>2
<1>3. S \in F
  <2> HIDE DEF F
  <2> QED
      BY <1>1, <1>2, FiniteSetInduction, Zenon
<1>4. \E m \in S : \A x \in S : m =< x
    BY <1>3
<1>5. Min(S) \in S /\ \A x \in S : Min(S) =< x
    BY <1>4, Zenon DEF Min
<1> QED
    BY <1>5

=============================================================================
