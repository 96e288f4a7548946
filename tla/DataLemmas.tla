----------------------------- MODULE DataLemmas -----------------------------
(***************************************************************************)
(* Facts about data that the proofs of several components rest on: the     *)
(* least-number principle, and the counting of the elements of a sequence. *)
(* The library's induction theorems take an operator parameter; the least  *)
(* number, over a set, needs none.                                         *)
(***************************************************************************)
EXTENDS Counting, Functions, FiniteSetsExt, FiniteSetTheorems, FunctionTheorems,
        SequenceTheorems, TLAPS

(* Numbers from 1 without the last. *)
LEMMA WithoutLast ==
  ASSUME NEW m \in Nat \ {0}
  PROVE  (1 .. m) \ {m} = 1 .. m - 1
<1> SUFFICES ASSUME NEW x PROVE x \in (1 .. m) \ {m} <=> x \in 1 .. m - 1
  OBVIOUS
<1> QED OBVIOUS

(* Every non-empty set of naturals has a least element. *)
LEMMA LeastNatural ==
  ASSUME NEW T \in SUBSET Nat, T # {}
  PROVE  \E x \in T : \A y \in T : x <= y
<1> DEFINE Initial == {1 .. k : k \in T}
<1>1. IsWellFoundedOn(StrictSubsetOrdering(Nat), FiniteSubsetsOf(Nat))
  BY FS_StrictSubsetOrderingWellFounded
<1>2. Initial \subseteq FiniteSubsetsOf(Nat) /\ Initial # {}
  <2>1. \A k \in T : IsFiniteSet(1 .. k) /\ 1 .. k \subseteq Nat
    BY FS_Interval
  <2> QED BY <2>1 DEF FiniteSubsetsOf
<1>3. PICK X \in Initial :
        \A Y \in Initial : <<Y, X>> \notin StrictSubsetOrdering(Nat)
  <2> HIDE DEF Initial
  <2> QED BY <1>1, <1>2, WFMin
<1>4. PICK x \in T : X = 1 .. x
  OBVIOUS
<1>5. ASSUME NEW y \in T, y < x PROVE FALSE
  <2>1. x \in X /\ x \notin 1 .. y /\ 1 .. y \subseteq X
    BY <1>4, <1>5
  <2>2. <<1 .. y, X>> \in StrictSubsetOrdering(Nat)
    BY <2>1, <1>4 DEF StrictSubsetOrdering
  <2> QED BY <2>2, <1>3
<1> QED BY <1>5

-----------------------------------------------------------------------------

(* Where the elements of some kinds are, after a concatenation. *)
LEMMA CountConcat ==
  ASSUME NEW S, NEW s \in Seq(S), NEW t \in Seq(S), NEW kinds
  PROVE  /\ Count(s, kinds) \in Nat
         /\ Count(s \o t, kinds) = Count(s, kinds) + Count(t, kinds)
<1> DEFINE
      A == {i \in DOMAIN s : s[i] \in kinds}
      B == {i \in DOMAIN t : t[i] \in kinds}
      C == {i \in Len(s) + 1 .. Len(s) + Len(t) : (s \o t)[i] \in kinds}
      f == [i \in B |-> i + Len(s)]
<1>1. /\ DOMAIN s = 1 .. Len(s) /\ Len(s) \in Nat
      /\ DOMAIN t = 1 .. Len(t) /\ Len(t) \in Nat
  BY LenProperties
<1>2. /\ DOMAIN (s \o t) = 1 .. Len(s) + Len(t)
      /\ \A i \in 1 .. Len(s) + Len(t) :
           (s \o t)[i] = IF i <= Len(s) THEN s[i] ELSE t[i - Len(s)]
  BY ConcatProperties, LenProperties
<1>3. IsFiniteSet(A) /\ IsFiniteSet(B) /\ IsFiniteSet(C)
  <2>1. IsFiniteSet(1 .. Len(s)) /\ IsFiniteSet(1 .. Len(t))
    BY <1>1, FS_Interval
  <2>2. IsFiniteSet(Len(s) + 1 .. Len(s) + Len(t))
    BY <1>1, FS_Interval
  <2>3. A \subseteq 1 .. Len(s) /\ B \subseteq 1 .. Len(t)
    BY <1>1
  <2>4. C \subseteq Len(s) + 1 .. Len(s) + Len(t)
    OBVIOUS
  <2> HIDE DEF A, B, C
  <2> QED BY <2>1, <2>2, <2>3, <2>4, FS_Subset
<1>4. ExistsBijection(B, C)
  <2>1. \A i \in B : i + Len(s) \in C
    BY <1>1, <1>2
  <2>2. \A j \in C : j - Len(s) \in B /\ (j - Len(s)) + Len(s) = j
    BY <1>1, <1>2
  <2>3. \A i, j \in B : i + Len(s) = j + Len(s) => i = j
    BY <1>1
  <2>4. f \in [B -> C]
    BY <2>1
  <2>5. \A j \in C : \E i \in B : f[i] = j
    BY <2>2
  <2>6. \A i, j \in B : f[i] = f[j] => i = j
    BY <2>3
  <2>7. f \in Bijection(B, C)
    <3> HIDE DEF f, B, C
    <3> QED BY <2>4, <2>5, <2>6 DEF Bijection, Injection, Surjection, IsInjective
  <2> QED BY <2>7 DEF ExistsBijection
<1>5. {i \in DOMAIN (s \o t) : (s \o t)[i] \in kinds} = A \cup C
  BY <1>1, <1>2
<1>6. A \cap C = {}
  BY <1>1
<1>7. Cardinality(B) = Cardinality(C)
  <2> HIDE DEF B, C
  <2> QED BY <1>3, <1>4, FS_Bijection
<1>8. Cardinality(A) \in Nat /\ Cardinality(C) \in Nat
  <2> HIDE DEF A, C
  <2> QED BY <1>3, FS_CardinalityType
<1>9. Cardinality(A \cup C) = Cardinality(A) + Cardinality(C)
  <2> HIDE DEF A, C
  <2>1. Cardinality(A \cup C) = Cardinality(A) + Cardinality(C) - Cardinality(A \cap C)
    BY <1>3, FS_Union
  <2>2. Cardinality(A \cap C) = 0
    BY <1>6, FS_EmptySet
  <2> QED BY <1>8, <2>1, <2>2
<1>10. Count(s, kinds) = Cardinality(A) /\ Count(t, kinds) = Cardinality(B)
  BY DEF Count
<1>11. Count(s \o t, kinds) = Cardinality(A \cup C)
  BY <1>5 DEF Count
<1> HIDE DEF A, B, C
<1> QED BY <1>7, <1>8, <1>9, <1>10, <1>11

LEMMA CountEmpty == \A kinds : Count(<<>>, kinds) = 0
<1>1. \A kinds : {i \in DOMAIN <<>> : <<>>[i] \in kinds} = {}
  OBVIOUS
<1> QED BY <1>1, FS_EmptySet DEF Count

LEMMA CountSingle ==
  ASSUME NEW e, NEW kinds
  PROVE  Count(<<e>>, kinds) = IF e \in kinds THEN 1 ELSE 0
<1>1. {i \in DOMAIN <<e>> : <<e>>[i] \in kinds} = IF e \in kinds THEN {1} ELSE {}
  OBVIOUS
<1> QED BY <1>1, FS_EmptySet, FS_Singleton DEF Count

LEMMA CountAppend ==
  ASSUME NEW S, NEW s \in Seq(S), NEW e \in S, NEW kinds
  PROVE  Count(Append(s, e), kinds) = Count(s, kinds) + IF e \in kinds THEN 1 ELSE 0
<1>1. Append(s, e) = s \o <<e>> /\ <<e>> \in Seq(S)
  BY AppendIsConcat
<1>2. Count(s \o <<e>>, kinds) = Count(s, kinds) + Count(<<e>>, kinds)
  BY <1>1, CountConcat
<1> QED BY <1>1, <1>2, CountSingle

LEMMA CountHeadTail ==
  ASSUME NEW S, NEW s \in Seq(S), s # <<>>, NEW kinds
  PROVE  Count(s, kinds) = (IF Head(s) \in kinds THEN 1 ELSE 0) + Count(Tail(s), kinds)
<1>1. Len(s) \in Nat \ {0}
  BY EmptySeq
<1>2. s = <<s[1]>> \o Tail(s) /\ Head(s) = s[1] /\ s[1] \in S /\ Tail(s) \in Seq(S)
  <2>1. s = SubSeq(s, 1, Len(s))
    BY SubSeqFull
  <2>2. SubSeq(s, 1, Len(s)) = <<s[1]>> \o SubSeq(s, 2, Len(s))
    BY <1>1, SubSeqRecursiveFirst
  <2> QED BY <1>1, <2>1, <2>2, TailIsSubSeq, HeadTailProperties, ElementOfSeq
<1>3. <<s[1]>> \in Seq(S)
  BY <1>2
<1>4. Count(<<s[1]>> \o Tail(s), kinds) = Count(<<s[1]>>, kinds) + Count(Tail(s), kinds)
  BY <1>2, <1>3, CountConcat
<1> QED BY <1>2, <1>4, CountSingle

(* An element is in a sequence when its count is not zero, and a sequence  *)
(* that counts nothing twice has no repetition.                            *)
LEMMA CountIsOccurrence ==
  ASSUME NEW S, NEW s \in Seq(S)
  PROVE  /\ \A x : x \in Range(s) <=> Count(s, {x}) # 0
         /\ (\A x \in S : Count(s, {x}) <= 1) => IsInjective(s)
<1> DEFINE At(x) == {i \in DOMAIN s : s[i] \in {x}}
<1>1. Len(s) \in Nat /\ DOMAIN s = 1 .. Len(s)
  BY LenProperties
<1>2. IsFiniteSet(1 .. Len(s))
  BY <1>1, FS_Interval
<1>3. ASSUME NEW x PROVE IsFiniteSet(At(x)) /\ Count(s, {x}) = Cardinality(At(x))
  <2>1. At(x) \in SUBSET (1 .. Len(s))
    BY <1>1
  <2>2. Count(s, {x}) = Cardinality(At(x))
    BY DEF Count
  <2> HIDE DEF At
  <2> QED BY <1>2, <2>1, <2>2, FS_Subset
<1>4. ASSUME NEW x PROVE x \in Range(s) <=> Count(s, {x}) # 0
  <2>1. x \in Range(s) <=> At(x) # {}
    BY <1>1, RangeEquality
  <2> HIDE DEF At
  <2> QED BY <1>3, <2>1, FS_EmptySet
<1>5. ASSUME \A x \in S : Count(s, {x}) <= 1, NEW a \in DOMAIN s, NEW b \in DOMAIN s,
             s[a] = s[b], a # b
      PROVE  FALSE
  <2>1. s[a] \in S
    BY <1>1, ElementOfSeq
  <2>2. {a, b} \in SUBSET At(s[a])
    BY <1>5
  <2>3. IsFiniteSet({a}) /\ Cardinality({a}) = 1 /\ {a, b} = {a} \cup {b} /\ b \notin {a}
    BY <1>5, FS_Singleton
  <2>4. Cardinality({a, b}) = 2
    <3>1. Cardinality({a} \cup {b}) = Cardinality({a}) + 1
      BY <2>3, FS_AddElement
    <3>2. Cardinality({a}) + 1 = 2
      BY <2>3
    <3>3. {a, b} = {a} \cup {b}
      OBVIOUS
    <3> QED BY <3>1, <3>2, <3>3, Zenon
  <2>5. IsFiniteSet(At(s[a])) /\ Count(s, {s[a]}) = Cardinality(At(s[a])) /\ Count(s, {s[a]}) <= 1
    BY <1>3, <1>5, <2>1
  <2> HIDE DEF At
  <2>6. Cardinality({a, b}) <= Cardinality(At(s[a])) /\ Cardinality(At(s[a])) \in Nat
    BY <2>2, <2>5, FS_Subset, FS_CardinalityType
  <2> QED BY <2>4, <2>5, <2>6
<1>6. (\A x \in S : Count(s, {x}) <= 1) => IsInjective(s)
  BY <1>5 DEF IsInjective
<1> QED BY <1>4, <1>6

-----------------------------------------------------------------------------

(* Two elements at the end. *)
LEMMA ConcatTwo ==
  ASSUME NEW S, NEW s \in Seq(S), NEW x \in S, NEW y \in S
  PROVE  s \o <<x, y>> = Append(Append(s, x), y)
OBVIOUS

LEMMA SmallConcats ==
  ASSUME NEW x, NEW y, NEW z
  PROVE  <<x>> \o <<y>> = <<x, y>> /\ <<x, y>> \o <<z>> = <<x, y, z>>
<1> DEFINE S == {x, y, z}
           a == <<x>> \o <<y>>
           b == <<x, y>> \o <<z>>
<1>1. /\ <<x>> \in Seq(S) /\ <<y>> \in Seq(S) /\ <<z>> \in Seq(S)
      /\ <<x, y>> \in Seq(S) /\ <<x, y, z>> \in Seq(S)
  OBVIOUS
<1> HIDE DEF S
<1>2. a = <<x, y>>
  <2>1. /\ a \in Seq(S) /\ Len(a) = Len(<<x, y>>)
        /\ \A i \in 1 .. Len(a) : a[i] = <<x, y>>[i]
    BY <1>1, ConcatProperties
  <2> HIDE DEF a
  <2> QED BY <1>1, <2>1, SeqEqual
<1>3. b = <<x, y, z>>
  <2>1. /\ b \in Seq(S) /\ Len(b) = Len(<<x, y, z>>)
        /\ \A i \in 1 .. Len(b) : b[i] = <<x, y, z>>[i]
    BY <1>1, ConcatProperties
  <2> HIDE DEF b
  <2> QED BY <1>1, <2>1, SeqEqual
<1> QED BY <1>2, <1>3

(* What is in a sequence after its last element came, or its first went.   *)
LEMMA RangeAppend ==
  ASSUME NEW S, NEW s \in Seq(S), NEW e \in S
  PROVE  Range(Append(s, e)) = Range(s) \cup {e}
<1>1. /\ Append(s, e) \in Seq(S) /\ Len(Append(s, e)) = Len(s) + 1 /\ Len(s) \in Nat
      /\ \A i \in 1 .. Len(s) : Append(s, e)[i] = s[i]
      /\ Append(s, e)[Len(s) + 1] = e
  BY AppendProperties, LenProperties
<1>2. Range(Append(s, e)) = {Append(s, e)[i] : i \in 1 .. Len(s) + 1}
  BY <1>1, RangeEquality
<1>3. Range(s) = {s[i] : i \in 1 .. Len(s)}
  BY RangeEquality
<1>4. 1 .. Len(s) + 1 = (1 .. Len(s)) \cup {Len(s) + 1}
  BY <1>1
<1>5. ASSUME NEW x \in Range(Append(s, e)) PROVE x \in Range(s) \cup {e}
  BY <1>1, <1>2, <1>3, <1>4
<1>6. ASSUME NEW x \in Range(s) \cup {e} PROVE x \in Range(Append(s, e))
  BY <1>1, <1>2, <1>3, <1>4
<1> QED BY <1>5, <1>6

LEMMA RangeHeadTail ==
  ASSUME NEW S, NEW s \in Seq(S), s # <<>>
  PROVE  Range(s) = {s[1]} \cup Range(Tail(s))
<1>1. /\ Tail(s) \in Seq(S) /\ Len(Tail(s)) = Len(s) - 1 /\ Len(s) \in Nat \ {0}
      /\ \A i \in 1 .. Len(Tail(s)) : Tail(s)[i] = s[i + 1]
  BY HeadTailProperties, EmptySeq
<1>2. /\ Range(s) = {s[i] : i \in 1 .. Len(s)}
      /\ Range(Tail(s)) = {Tail(s)[i] : i \in 1 .. Len(Tail(s))}
  BY <1>1, RangeEquality
<1>3. ASSUME NEW x \in Range(s) PROVE x \in {s[1]} \cup Range(Tail(s))
  <2>1. PICK i \in 1 .. Len(s) : x = s[i]
    BY <1>2
  <2>2. CASE i # 1
    <3>1. i - 1 \in 1 .. Len(Tail(s)) /\ (i - 1) + 1 = i
      BY <1>1, <2>2
    <3> QED BY <1>1, <1>2, <2>1, <3>1
  <2> QED BY <2>1, <2>2
<1>4. ASSUME NEW x \in {s[1]} \cup Range(Tail(s)) PROVE x \in Range(s)
  <2>1. 1 \in 1 .. Len(s) /\ \A i \in 1 .. Len(Tail(s)) : i + 1 \in 1 .. Len(s)
    BY <1>1
  <2> QED BY <1>1, <1>2, <2>1
<1> QED BY <1>3, <1>4

-----------------------------------------------------------------------------

(* Among sets of subsets of a finite set there is one without a smaller    *)
(* one.                                                                    *)
LEMMA SmallestSubset ==
  ASSUME NEW S, IsFiniteSet(S), NEW B \in SUBSET (SUBSET S), B # {}
  PROVE  \E s \in B : \A t \in B : t \subseteq s => t = s
<1> DEFINE sizes == {Cardinality(t) : t \in B}
<1>1. \A t \in B : IsFiniteSet(t) /\ Cardinality(t) \in Nat
  BY FS_Subset, FS_CardinalityType
<1>2. sizes \in SUBSET Nat /\ sizes # {}
  BY <1>1
<1>3. PICK n \in sizes : \A m \in sizes : n <= m
  <2> HIDE DEF sizes
  <2> QED BY <1>2, LeastNatural
<1>4. PICK s \in B : n = Cardinality(s)
  BY <1>3
<1>5. ASSUME NEW t \in B, t \subseteq s PROVE t = s
  <2>1. Cardinality(t) <= Cardinality(s)
    BY <1>1, <1>5, FS_Subset
  <2>2. Cardinality(s) <= Cardinality(t)
    BY <1>3, <1>4
  <2>3. Cardinality(s) = Cardinality(t)
    BY <1>1, <2>1, <2>2
  <2> QED BY <1>1, <1>5, <2>3, FS_Subset
<1> QED BY <1>5

-----------------------------------------------------------------------------
(* Sums.  SumFunction folds the values of a function over its domain, by a *)
(* recursive function of the subsets of it.                                *)

Chosen(s) == CHOOSE x \in s : TRUE

IsSums(g, f, S) ==
  g = [s \in SUBSET S |-> IF s = {} THEN 0 ELSE f[Chosen(s)] + g[s \ {Chosen(s)}]]

Sums(f, S) == CHOOSE g : IsSums(g, f, S)

LEMMA SumIsOfSums ==
  ASSUME NEW f
  PROVE  SumFunction(f) = Sums(f, DOMAIN f)[DOMAIN f]
BY DEF SumFunction, SumFunctionOnSet, FoldFunctionOnSet, MapThenFoldSet, Sums, IsSums, Chosen

(* The recursion is well-founded on the subsets of a finite set.           *)
LEMMA SumsExist ==
  ASSUME NEW S, IsFiniteSet(S), NEW f
  PROVE  IsSums(Sums(f, S), f, S)
<1> DEFINE Upto(n) == {s \in SUBSET S : Cardinality(s) <= n}
           Eq(g, n) == g = [s \in Upto(n) |-> IF s = {} THEN 0
                                              ELSE f[Chosen(s)] + g[s \ {Chosen(s)}]]
           T == {n \in Nat : ~ \E g : Eq(g, n)}
<1>1. \A s \in SUBSET S : /\ IsFiniteSet(s) /\ Cardinality(s) \in Nat
                          /\ Cardinality(s) <= Cardinality(S)
  BY FS_Subset, FS_CardinalityType
<1>2. \A s \in SUBSET S : s # {} => /\ Chosen(s) \in s /\ s \ {Chosen(s)} \in SUBSET S
                                    /\ Cardinality(s \ {Chosen(s)}) = Cardinality(s) - 1
  BY <1>1, FS_RemoveElement DEF Chosen
<1>3. T = {}
  <2> SUFFICES ASSUME T # {} PROVE FALSE
    OBVIOUS
  <2>1. T \in SUBSET Nat
    OBVIOUS
  <2>2. PICK n \in T : \A m \in T : n <= m
    <3> HIDE DEF T
    <3> QED BY <2>1, LeastNatural
  <2>3. n \in Nat
    BY <2>2
  <2>4. CASE n = 0
    <3> DEFINE g == [s \in Upto(0) |-> 0]
    <3>1. \A s \in Upto(0) : s = {}
      BY <1>1, FS_EmptySet
    <3>2. Eq(g, 0)
      BY <3>1
    <3> QED BY <2>2, <2>4, <3>2
  <2>5. CASE n # 0
    <3>1. n - 1 \in Nat /\ ~ n <= n - 1
      BY <2>3, <2>5
    <3>2. PICK g : Eq(g, n - 1)
      BY <2>2, <3>1
    <3> DEFINE h == [s \in Upto(n) |-> IF s = {} THEN 0 ELSE f[Chosen(s)] + g[s \ {Chosen(s)}]]
    <3>3. \A s \in Upto(n) : s # {} => s \ {Chosen(s)} \in Upto(n - 1)
      BY <1>1, <1>2, <2>3
    <3>4. \A s \in Upto(n - 1) : s \in Upto(n)
      BY <1>1, <2>3
    <3>5. \A s \in Upto(n - 1) : h[s] = g[s]
      <4> SUFFICES ASSUME NEW s \in Upto(n - 1) PROVE h[s] = g[s]
        OBVIOUS
      <4>1. g[s] = IF s = {} THEN 0 ELSE f[Chosen(s)] + g[s \ {Chosen(s)}]
        <5> HIDE DEF Upto
        <5> QED BY <3>2
      <4>2. s \in Upto(n)
        BY <3>4
      <4> HIDE DEF Upto
      <4> QED BY <4>1, <4>2
    <3>6. Eq(h, n)
      <4>1. \A s \in Upto(n) : s # {} => g[s \ {Chosen(s)}] = h[s \ {Chosen(s)}]
        <5> HIDE DEF Upto, h
        <5> QED BY <3>3, <3>5
      <4> HIDE DEF Upto
      <4> QED BY <4>1
    <3> QED BY <2>2, <3>6
  <2> QED BY <2>4, <2>5
<1>4. Cardinality(S) \in Nat
  BY FS_CardinalityType
<1>5. PICK g : Eq(g, Cardinality(S))
  BY <1>3, <1>4
<1>6. Upto(Cardinality(S)) = SUBSET S
  BY <1>1
<1>7. IsSums(g, f, S)
  <2> HIDE DEF Upto
  <2> QED BY <1>5, <1>6 DEF IsSums
<1> QED BY <1>7 DEF Sums

LEMMA SumsDef ==
  ASSUME NEW S, IsFiniteSet(S), NEW f
  PROVE  /\ Sums(f, S)[{}] = 0
         /\ \A s \in SUBSET S : s # {} =>
              /\ Chosen(s) \in s /\ s \ {Chosen(s)} \in SUBSET S
              /\ Sums(f, S)[s] = f[Chosen(s)] + Sums(f, S)[s \ {Chosen(s)}]
<1> DEFINE h == Sums(f, S)
<1>1. h = [s \in SUBSET S |-> IF s = {} THEN 0 ELSE f[Chosen(s)] + h[s \ {Chosen(s)}]]
  BY SumsExist DEF IsSums
<1> HIDE DEF h
<1>2. h[{}] = 0
  BY <1>1
<1>3. \A s \in SUBSET S : s # {} => h[s] = f[Chosen(s)] + h[s \ {Chosen(s)}]
  BY <1>1
<1>4. \A s \in SUBSET S : s # {} => Chosen(s) \in s /\ s \ {Chosen(s)} \in SUBSET S
  BY DEF Chosen
<1> QED BY <1>2, <1>3, <1>4 DEF h

(* The sum over s is the value at x and the sum over the rest. *)
Adds(f, S, s, x) == Sums(f, S)[s] = f[x] + Sums(f, S)[s \ {x}]

LEMMA SumsChosen ==
  ASSUME NEW S, IsFiniteSet(S), NEW f, NEW s \in SUBSET S, s # {}
  PROVE  /\ Chosen(s) \in s /\ s \ {Chosen(s)} \in SUBSET S
         /\ Adds(f, S, s, Chosen(s))
BY SumsDef DEF Adds

LEMMA SumsType ==
  ASSUME NEW S, IsFiniteSet(S), NEW f, \A x \in S : f[x] \in Nat
  PROVE  \A s \in SUBSET S : Sums(f, S)[s] \in Nat
<1> DEFINE h == Sums(f, S)
           B == {s \in SUBSET S : h[s] \notin Nat}
<1>1. SUFFICES ASSUME B # {} PROVE FALSE
  OBVIOUS
<1>2. PICK s \in B : \A t \in B : t \subseteq s => t = s
  <2>1. B \in SUBSET (SUBSET S)
    OBVIOUS
  <2> HIDE DEF B
  <2> QED BY <1>1, <2>1, SmallestSubset
<1>3. h[{}] = 0 /\ s \in SUBSET S /\ h[s] \notin Nat
  BY <1>2, SumsDef
<1>4. /\ Chosen(s) \in s /\ s \ {Chosen(s)} \in SUBSET S
      /\ h[s] = f[Chosen(s)] + h[s \ {Chosen(s)}]
  <2>1. s # {}
    <3> HIDE DEF h
    <3> QED BY <1>3
  <2> QED BY <1>3, <2>1, SumsDef
<1>5. s \ {Chosen(s)} \notin B
  BY <1>2, <1>4
<1>6. h[s \ {Chosen(s)}] \in Nat /\ f[Chosen(s)] \in Nat
  BY <1>3, <1>4, <1>5
<1> HIDE DEF h
<1> QED BY <1>3, <1>4, <1>6

(* Any element may be taken out. *)
LEMMA SumsRemove ==
  ASSUME NEW S, IsFiniteSet(S), NEW f, \A x \in S : f[x] \in Nat,
         NEW s \in SUBSET S, NEW x \in s
  PROVE  Adds(f, S, s, x)
<1> USE DEF Adds
<1> DEFINE h == Sums(f, S)
           B == {t \in SUBSET S : \E y \in t : h[t] # f[y] + h[t \ {y}]}
<1>1. SUFFICES ASSUME B # {} PROVE FALSE
  OBVIOUS
<1>2. PICK t \in B : \A u \in B : u \subseteq t => u = t
  <2>1. B \in SUBSET (SUBSET S)
    OBVIOUS
  <2> HIDE DEF B
  <2> QED BY <1>1, <2>1, SmallestSubset
<1>3. PICK y \in t : h[t] # f[y] + h[t \ {y}]
  BY <1>2
<1> DEFINE c == Chosen(t)
           u == t \ {c, y}
<1>4. c \in t /\ t \ {c} \in SUBSET S /\ h[t] = f[c] + h[t \ {c}]
  BY <1>2, <1>3, SumsDef
<1>5. c # y
  BY <1>3, <1>4
<1>6. t \ {c} \notin B /\ t \ {y} \notin B /\ t \ {y} \in SUBSET S
  BY <1>2, <1>3, <1>4
<1>7. y \in t \ {c} /\ c \in t \ {y} /\ (t \ {c}) \ {y} = u /\ (t \ {y}) \ {c} = u /\ u \in SUBSET S
  BY <1>3, <1>4, <1>5
<1>8. h[t \ {c}] = f[y] + h[u] /\ h[t \ {y}] = f[c] + h[u]
  BY <1>4, <1>6, <1>7
<1>9. h[u] \in Nat /\ f[c] \in Nat /\ f[y] \in Nat
  BY <1>2, <1>3, <1>4, <1>7, SumsType
<1> HIDE DEF h, c, u
<1> QED BY <1>3, <1>4, <1>8, <1>9

(* A sum over U depends on the values on U only. *)
LEMMA SumsAgree ==
  ASSUME NEW S, NEW R, NEW f, NEW g, NEW U, IsFiniteSet(S), IsFiniteSet(R),
         U \in SUBSET S, U \in SUBSET R, \A x \in U : f[x] = g[x]
  PROVE  Sums(f, S)[U] = Sums(g, R)[U]
<1> DEFINE B == {t \in SUBSET U : Sums(f, S)[t] # Sums(g, R)[t]}
<1>1. SUFFICES ASSUME B # {} PROVE FALSE
  OBVIOUS
<1>2. IsFiniteSet(U)
  BY FS_Subset
<1>3. PICK t \in B : \A u \in B : u \subseteq t => u = t
  <2>1. B \in SUBSET (SUBSET U)
    OBVIOUS
  <2> HIDE DEF B
  <2> QED BY <1>1, <1>2, <2>1, SmallestSubset
<1>4. t \in SUBSET S /\ t \in SUBSET R /\ t \in SUBSET U /\ Sums(f, S)[t] # Sums(g, R)[t]
  BY <1>3
<1>5. t # {}
  <2>1. Sums(f, S)[{}] = 0 /\ Sums(g, R)[{}] = 0
    BY SumsDef
  <2> QED BY <1>4, <2>1
<1>6. /\ Chosen(t) \in t
      /\ Sums(f, S)[t] = f[Chosen(t)] + Sums(f, S)[t \ {Chosen(t)}]
      /\ Sums(g, R)[t] = g[Chosen(t)] + Sums(g, R)[t \ {Chosen(t)}]
  <2> HIDE DEF B
  <2>1. /\ Chosen(t) \in t
        /\ Sums(f, S)[t] = f[Chosen(t)] + Sums(f, S)[t \ {Chosen(t)}]
    <3>1. Chosen(t) \in t /\ Adds(f, S, t, Chosen(t))
      BY <1>4, <1>5, SumsChosen
    <3> QED BY <3>1 DEF Adds
  <2>2. Sums(g, R)[t] = g[Chosen(t)] + Sums(g, R)[t \ {Chosen(t)}]
    <3>1. Adds(g, R, t, Chosen(t))
      BY <1>4, <1>5, SumsChosen
    <3> QED BY <3>1 DEF Adds
  <2> QED BY <2>1, <2>2
<1>7. t \ {Chosen(t)} \notin B /\ t \ {Chosen(t)} \in SUBSET U
  BY <1>3, <1>4, <1>6
<1> QED BY <1>4, <1>6, <1>7

-----------------------------------------------------------------------------

LEMMA SumType ==
  ASSUME NEW S, IsFiniteSet(S), NEW f \in [S -> Nat]
  PROVE  SumFunction(f) \in Nat
BY SumsType, SumIsOfSums

(* No value exceeds the sum. *)
LEMMA SumBound ==
  ASSUME NEW S, IsFiniteSet(S), NEW f \in [S -> Nat], NEW a \in S
  PROVE  f[a] <= SumFunction(f)
<1>1. SumFunction(f) = Sums(f, S)[S]
  BY SumIsOfSums
<1>2. Sums(f, S)[S] = f[a] + Sums(f, S)[S \ {a}]
  BY SumsRemove DEF Adds
<1>3. Sums(f, S)[S \ {a}] \in Nat /\ f[a] \in Nat
  BY SumsType
<1> QED BY <1>1, <1>2, <1>3

LEMMA SumZero ==
  ASSUME NEW S, IsFiniteSet(S)
  PROVE  SumFunction([x \in S |-> 0]) = 0
<1> DEFINE f == [x \in S |-> 0]
           B == {s \in SUBSET S : Sums(f, S)[s] # 0}
<1>1. B = {}
  <2> SUFFICES ASSUME B # {} PROVE FALSE
    OBVIOUS
  <2>1. PICK s \in B : \A t \in B : t \subseteq s => t = s
    <3>1. B \in SUBSET (SUBSET S)
      OBVIOUS
    <3> HIDE DEF B
    <3> QED BY <3>1, SmallestSubset
  <2>2. s \in SUBSET S /\ Sums(f, S)[s] # 0 /\ Sums(f, S)[{}] = 0
    BY <2>1, SumsDef
  <2>3. s # {}
    <3> HIDE DEF f
    <3> QED BY <2>2
  <2>4. /\ Chosen(s) \in s /\ s \ {Chosen(s)} \in SUBSET S
        /\ Sums(f, S)[s] = f[Chosen(s)] + Sums(f, S)[s \ {Chosen(s)}]
    BY <2>2, <2>3, SumsDef
  <2>5. Sums(f, S)[s \ {Chosen(s)}] = 0 /\ f[Chosen(s)] = 0
    BY <2>1, <2>2, <2>4
  <2> HIDE DEF f
  <2> QED BY <2>2, <2>4, <2>5
<1>2. DOMAIN f = S
  OBVIOUS
<1>3. SumFunction(f) = Sums(f, S)[S]
  BY <1>2, SumIsOfSums
<1> QED BY <1>1, <1>3

(* One value of the function changes. *)
LEMMA SumChange ==
  ASSUME NEW S, IsFiniteSet(S), NEW f \in [S -> Nat], NEW g \in [S -> Nat],
         NEW a \in S, \A x \in S \ {a} : g[x] = f[x]
  PROVE  SumFunction(g) + f[a] = SumFunction(f) + g[a]
<1>1. /\ SumFunction(f) = Sums(f, S)[S] /\ SumFunction(g) = Sums(g, S)[S]
  BY SumIsOfSums
<1>2. /\ Sums(f, S)[S] = f[a] + Sums(f, S)[S \ {a}]
      /\ Sums(g, S)[S] = g[a] + Sums(g, S)[S \ {a}]
  BY SumsRemove DEF Adds
<1>3. Sums(f, S)[S \ {a}] = Sums(g, S)[S \ {a}]
  BY SumsAgree
<1>4. Sums(f, S)[S \ {a}] \in Nat /\ f[a] \in Nat /\ g[a] \in Nat
  BY SumsType
<1> QED BY <1>1, <1>2, <1>3, <1>4

(* A part of a set sums to what it sums to by itself. *)
LEMMA SumsWithin ==
  ASSUME NEW M, NEW N, NEW f, NEW g, IsFiniteSet(M), N \in SUBSET M, \A x \in N : g[x] = f[x]
  PROVE  Sums(g, M)[N] = Sums(f, N)[N]
<1>1. IsFiniteSet(N) /\ N \in SUBSET N
  BY FS_Subset
<1> QED BY <1>1, SumsAgree

(* The sum of two functions, place by place. *)
LEMMA SumPlus ==
  ASSUME NEW S, IsFiniteSet(S), NEW f \in [S -> Nat], NEW g \in [S -> Nat]
  PROVE  SumFunction([x \in S |-> f[x] + g[x]]) = SumFunction(f) + SumFunction(g)
<1> DEFINE h == [x \in S |-> f[x] + g[x]]
           B == {s \in SUBSET S : Sums(h, S)[s] # Sums(f, S)[s] + Sums(g, S)[s]}
<1>1. h \in [S -> Nat] /\ \A x \in S : h[x] = f[x] + g[x]
  OBVIOUS
<1> HIDE DEF h
<1>2. B = {}
  <2> SUFFICES ASSUME B # {} PROVE FALSE
    OBVIOUS
  <2>1. PICK s \in B : \A t \in B : t \subseteq s => t = s
    <3>1. B \in SUBSET (SUBSET S)
      OBVIOUS
    <3> HIDE DEF B
    <3> QED BY <3>1, SmallestSubset
  <2>2. s # {}
    <3>1. Sums(f, S)[{}] = 0 /\ Sums(g, S)[{}] = 0 /\ Sums(h, S)[{}] = 0
      BY SumsDef
    <3>2. Sums(h, S)[s] # Sums(f, S)[s] + Sums(g, S)[s]
      BY <2>1
    <3> QED BY <3>1, <3>2
  <2>3. PICK x \in s : TRUE
    BY <2>2
  <2>4. /\ Sums(h, S)[s] = h[x] + Sums(h, S)[s \ {x}]
        /\ Sums(f, S)[s] = f[x] + Sums(f, S)[s \ {x}]
        /\ Sums(g, S)[s] = g[x] + Sums(g, S)[s \ {x}]
    BY <1>1, <2>1, <2>3, SumsRemove DEF Adds
  <2>5. /\ s \ {x} \in SUBSET S /\ x \in S
        /\ Sums(f, S)[s \ {x}] \in Nat /\ Sums(g, S)[s \ {x}] \in Nat
    BY <2>1, <2>3, SumsType
  <2>6. Sums(h, S)[s \ {x}] = Sums(f, S)[s \ {x}] + Sums(g, S)[s \ {x}]
    BY <2>1, <2>3, <2>5
  <2>7. f[x] \in Nat /\ g[x] \in Nat /\ h[x] = f[x] + g[x]
    BY <1>1, <2>5
  <2>8. Sums(h, S)[s] = Sums(f, S)[s] + Sums(g, S)[s]
    BY <2>4, <2>5, <2>6, <2>7
  <2> QED BY <2>1, <2>8
<1>3. Sums(h, S)[S] = Sums(f, S)[S] + Sums(g, S)[S]
  BY <1>2
<1> QED BY <1>3, SumIsOfSums DEF h

(* One more value at the end, and one less at the beginning. *)
LEMMA SumLast ==
  ASSUME NEW n \in Nat, NEW f \in [1 .. n -> Nat], NEW g \in [1 .. n + 1 -> Nat],
         \A i \in 1 .. n : g[i] = f[i]
  PROVE  SumFunction(g) = SumFunction(f) + g[n + 1]
<1> DEFINE N == 1 .. n
           M == 1 .. n + 1
<1>1. IsFiniteSet(N) /\ IsFiniteSet(M)
  BY FS_Interval
<1>2. n + 1 \in M /\ M \ {n + 1} = N /\ N \in SUBSET M /\ M \in SUBSET M /\ N \in SUBSET N
  OBVIOUS
<1>3. f \in [N -> Nat] /\ g \in [M -> Nat] /\ \A i \in N : g[i] = f[i]
  OBVIOUS
<1> HIDE DEF N, M
<1>4. SumFunction(f) = Sums(f, N)[N] /\ SumFunction(g) = Sums(g, M)[M]
  BY <1>3, SumIsOfSums
<1>5. Sums(g, M)[M] = g[n + 1] + Sums(g, M)[N]
  <2>1. \A x \in M : g[x] \in Nat
    BY <1>3
  <2> QED BY <1>1, <1>2, <2>1, SumsRemove DEF Adds
<1>6. Sums(g, M)[N] = Sums(f, N)[N]
  <2>1. IsFiniteSet(M) /\ N \in SUBSET M /\ \A x \in N : g[x] = f[x]
    BY <1>1, <1>2, <1>3
  <2> QED BY <2>1, SumsWithin
<1>7. g[n + 1] \in Nat /\ SumFunction(f) \in Nat
  BY <1>1, <1>2, <1>3, SumType
<1> QED BY <1>4, <1>5, <1>6, <1>7

LEMMA SumFirst ==
  ASSUME NEW n \in Nat, NEW f \in [1 .. n + 1 -> Nat], NEW g \in [1 .. n -> Nat],
         \A i \in 1 .. n : g[i] = f[i + 1]
  PROVE  SumFunction(f) = f[1] + SumFunction(g)
<1> DEFINE F == Sums(f, 1 .. n + 1)
           G == Sums(g, 1 .. n)
           T == {k \in 0 .. n : F[1 .. k + 1] # f[1] + G[1 .. k]}
<1>1. IsFiniteSet(1 .. n) /\ IsFiniteSet(1 .. n + 1)
  BY FS_Interval
<1>2. /\ \A s \in SUBSET (1 .. n + 1) : F[s] \in Nat
      /\ \A s \in SUBSET (1 .. n) : G[s] \in Nat
  BY <1>1, SumsType
<1>3. /\ \A s \in SUBSET (1 .. n + 1) : \A x \in s : F[s] = f[x] + F[s \ {x}]
      /\ \A s \in SUBSET (1 .. n) : \A x \in s : G[s] = g[x] + G[s \ {x}]
  <2> DEFINE M == 1 .. n + 1
             N == 1 .. n
  <2>1. (\A i \in M : f[i] \in Nat) /\ (\A i \in N : g[i] \in Nat)
    OBVIOUS
  <2>2. IsFiniteSet(M) /\ IsFiniteSet(N)
    BY <1>1
  <2> HIDE DEF M, N
  <2>3. ASSUME NEW s \in SUBSET M, NEW x \in s
        PROVE  Adds(f, M, s, x)
    BY <2>1, <2>2, SumsRemove
  <2>4. ASSUME NEW s \in SUBSET N, NEW x \in s
        PROVE  Adds(g, N, s, x)
    BY <2>1, <2>2, SumsRemove
  <2> QED BY <2>3, <2>4 DEF M, N, Adds
<1>4. F[{}] = 0 /\ G[{}] = 0
  BY <1>1, SumsDef
<1> HIDE DEF F, G
<1>5. T = {}
  <2> SUFFICES ASSUME T # {} PROVE FALSE
    OBVIOUS
  <2>1. T \in SUBSET Nat
    OBVIOUS
  <2>2. PICK k \in T : \A j \in T : k <= j
    <3> HIDE DEF T
    <3> QED BY <2>1, LeastNatural
  <2>3. k \in 0 .. n
    BY <2>2
  <2>4. CASE k = 0
    <3>1. /\ 1 .. 0 + 1 = {1} /\ {1} \in SUBSET (1 .. n + 1) /\ {1} \ {1} = {} /\ 1 .. 0 = {}
          /\ f[1] \in Nat
      OBVIOUS
    <3>2. F[{1}] = f[1] + F[{}]
      <4>1. 1 \in {1}
        OBVIOUS
      <4>2. F[{1}] = f[1] + F[{1} \ {1}]
        BY <1>3, <3>1, <4>1
      <4> QED BY <3>1, <4>2
    <3>3. F[1 .. k + 1] = f[1] + G[1 .. k]
      BY <1>4, <2>4, <3>1, <3>2
    <3> QED BY <2>2, <3>3
  <2>5. CASE k # 0
    <3>1. /\ k - 1 \in 0 .. n /\ ~ k <= k - 1
          /\ k \in 1 .. k /\ k + 1 \in 1 .. k + 1
          /\ (1 .. k) \ {k} = 1 .. k - 1 /\ (1 .. k + 1) \ {k + 1} = 1 .. k
          /\ 1 .. k \in SUBSET (1 .. n) /\ 1 .. k + 1 \in SUBSET (1 .. n + 1)
          /\ (k - 1) + 1 = k /\ k \in 1 .. n
      <4>1. k \in Nat /\ k <= n /\ k # 0
        BY <2>3, <2>5
      <4>2. k - 1 \in 0 .. n /\ ~ k <= k - 1 /\ (k - 1) + 1 = k /\ k \in 1 .. n
        BY <4>1
      <4>3. k \in 1 .. k /\ k + 1 \in 1 .. k + 1
        BY <4>1
      <4>4. (1 .. k) \ {k} = 1 .. k - 1
        BY <4>1, WithoutLast
      <4>5. (1 .. k + 1) \ {k + 1} = 1 .. k
        <5>1. k + 1 \in Nat \ {0} /\ (k + 1) - 1 = k
          BY <4>1
        <5>2. (1 .. k + 1) \ {k + 1} = 1 .. (k + 1) - 1
          BY <5>1, WithoutLast
        <5> QED BY <5>1, <5>2
      <4>6. 1 .. k \in SUBSET (1 .. n) /\ 1 .. k + 1 \in SUBSET (1 .. n + 1)
        BY <4>1
      <4> QED BY <4>2, <4>3, <4>4, <4>5, <4>6
    <3>2. F[1 .. k] = f[1] + G[1 .. k - 1]
      BY <2>2, <3>1
    <3>3. F[1 .. k + 1] = f[k + 1] + F[1 .. k] /\ G[1 .. k] = g[k] + G[1 .. k - 1]
      <4>1. F[1 .. k + 1] = f[k + 1] + F[(1 .. k + 1) \ {k + 1}]
        BY <1>3, <3>1
      <4>2. G[1 .. k] = g[k] + G[(1 .. k) \ {k}]
        BY <1>3, <3>1
      <4> QED BY <3>1, <4>1, <4>2
    <3>4. g[k] = f[k + 1] /\ g[k] \in Nat
      BY <3>1
    <3>5. 1 .. k - 1 \in SUBSET (1 .. n) /\ f[1] \in Nat
      BY <3>1
    <3>6. G[1 .. k - 1] \in Nat
      BY <1>2, <3>5
    <3>7. F[1 .. k + 1] = f[1] + G[1 .. k]
      BY <3>2, <3>3, <3>4, <3>5, <3>6
    <3> QED BY <2>2, <3>7
  <2> QED BY <2>4, <2>5
<1>6. F[1 .. n + 1] = f[1] + G[1 .. n]
  <2>1. n \in 0 .. n
    OBVIOUS
  <2> QED BY <1>5, <2>1
<1>7. SumFunction(f) = F[1 .. n + 1] /\ SumFunction(g) = G[1 .. n]
  BY SumIsOfSums DEF F, G
<1> QED BY <1>6, <1>7
-----------------------------------------------------------------------------
(* Recursion over 0 .. n: what is reached by taking a step n times.        *)

IsIteration(g, base, step, n) ==
  g = [d \in 0 .. n |-> IF d = 0 THEN base ELSE step[g[d - 1]]]

LEMMA IterateExists ==
  ASSUME NEW S, NEW base \in S, NEW step \in [S -> S], NEW n \in Nat
  PROVE  \E g \in [0 .. n -> S] : IsIteration(g, base, step, n)
<1> DEFINE Eq(g, k) == g = [d \in 0 .. k |-> IF d = 0 THEN base ELSE step[g[d - 1]]]
           T == {k \in Nat : ~ \E g \in [0 .. k -> S] : Eq(g, k)}
<1>1. T = {}
  <2> SUFFICES ASSUME T # {} PROVE FALSE
    OBVIOUS
  <2>1. T \in SUBSET Nat
    OBVIOUS
  <2>2. PICK k \in T : \A m \in T : k <= m
    <3> HIDE DEF T
    <3> QED BY <2>1, LeastNatural
  <2>3. k \in Nat /\ ~ \E g \in [0 .. k -> S] : Eq(g, k)
    BY <2>2
  <2>4. CASE k = 0
    <3> DEFINE g == [d \in 0 .. 0 |-> base]
    <3>1. g \in [0 .. 0 -> S] /\ Eq(g, 0)
      OBVIOUS
    <3> QED BY <2>3, <2>4, <3>1
  <2>5. CASE k # 0
    <3>1. k - 1 \in Nat /\ ~ k <= k - 1
      BY <2>3, <2>5
    <3>2. PICK g \in [0 .. k - 1 -> S] : Eq(g, k - 1)
      BY <2>2, <3>1
    <3> DEFINE h == [d \in 0 .. k |-> IF d = k THEN step[g[k - 1]] ELSE g[d]]
    <3>3. g[k - 1] \in S
      BY <3>1, <3>2
    <3>4. h \in [0 .. k -> S]
      BY <2>3, <3>1, <3>2, <3>3
    <3>5. h[0] = base
      <4>1. g[0] = base /\ 0 \in 0 .. k /\ 0 # k
        BY <2>3, <2>5, <3>1, <3>2
      <4> QED BY <4>1
    <3>6. \A d \in 0 .. k : d # 0 => h[d] = step[h[d - 1]]
      <4> SUFFICES ASSUME NEW d \in 0 .. k, d # 0 PROVE h[d] = step[h[d - 1]]
        OBVIOUS
      <4>1. d - 1 \in 0 .. k /\ d - 1 # k /\ h[d - 1] = g[d - 1]
        BY <2>3
      <4>2. CASE d = k
        BY <4>1, <4>2
      <4>3. CASE d # k
        <5>1. d \in 0 .. k - 1
          BY <2>3, <4>3
        <5>2. g[d] = step[g[d - 1]]
          BY <3>2, <5>1
        <5> QED BY <4>1, <4>3, <5>2
      <4> QED BY <4>2, <4>3
    <3>7. Eq(h, k)
      <4>1. h = [d \in 0 .. k |-> h[d]]
        OBVIOUS
      <4>2. \A d \in 0 .. k : h[d] = IF d = 0 THEN base ELSE step[h[d - 1]]
        BY <3>5, <3>6
      <4> HIDE DEF h
      <4> QED BY <4>1, <4>2
    <3> QED BY <2>3, <3>4, <3>7
  <2> QED BY <2>4, <2>5
<1>2. n \notin T
  BY <1>1
<1> QED BY <1>2 DEF IsIteration

(* With the numbers up to n only: what holds of 0, and of d + 1 when of d, *)
(* holds of all of them.                                                   *)
LEMMA AllUpTo ==
  ASSUME NEW n \in Nat, NEW T, 0 \in T, \A d \in 0 .. n : d # n /\ d \in T => d + 1 \in T
  PROVE  0 .. n \subseteq T
<1> DEFINE F == (0 .. n) \ T
<1> SUFFICES ASSUME F # {} PROVE FALSE
  OBVIOUS
<1>1. F \in SUBSET Nat
  OBVIOUS
<1>2. PICK k \in F : \A m \in F : k <= m
  <2> HIDE DEF F
  <2> QED BY <1>1, LeastNatural
<1>3. k \in 0 .. n /\ k \notin T
  BY <1>2
<1>4. k # 0 /\ k - 1 \in 0 .. n /\ k - 1 # n /\ (k - 1) + 1 = k /\ ~ k <= k - 1
  BY <1>3
<1>5. k - 1 \in T
  BY <1>2, <1>4
<1> QED BY <1>3, <1>4, <1>5

(* More numbers than elements: two of the sets have an element in common.  *)
LEMMA Crowded ==
  ASSUME NEW K, IsFiniteSet(K), NEW layer, \A d \in 0 .. Cardinality(K) : layer[d] \subseteq K /\ layer[d] # {}
  PROVE  \E d, e \in 0 .. Cardinality(K) : d < e /\ layer[d] \cap layer[e] # {}
<1> DEFINE n == Cardinality(K)
           D == 0 .. n
           f == [d \in D |-> CHOOSE x \in layer[d] : TRUE]
<1>1. n \in Nat
  BY FS_CardinalityType
<1>2. \A d \in D : f[d] \in layer[d]
  OBVIOUS
<1>3. f \in [D -> K]
  BY <1>2
<1>4. IsFiniteSet(D) /\ Cardinality(D) = n + 1
  <2> HIDE DEF n
  <2> QED BY <1>1, FS_Interval
<1>5. PICK d \in D, e \in D : d # e /\ f[d] = f[e]
  <2>1. Cardinality(D) > Cardinality(K)
    BY <1>1, <1>4
  <2> HIDE DEF f, D
  <2> QED BY <1>3, <1>4, <2>1, FS_PigeonHole
<1>6. layer[d] \cap layer[e] # {} /\ layer[e] \cap layer[d] # {}
  <2>1. f[d] \in layer[d] /\ f[e] \in layer[e]
    BY <1>2
  <2> HIDE DEF f
  <2> QED BY <1>5, <2>1
<1>7. d < e \/ e < d
  BY <1>1, <1>5
<1> QED BY <1>5, <1>6, <1>7
-----------------------------------------------------------------------------
(* Folds.  A fold of the library is a recursive function of the subsets of *)
(* what is folded; one exists for every step that keeps to a set R.        *)

IsFold(g, base, step, pick, S) ==
  g = [s \in SUBSET S |-> IF s = {} THEN base ELSE step[<<pick[s], g[s \ {pick[s]}]>>]]

LEMMA FoldExists ==
  ASSUME NEW S, IsFiniteSet(S), NEW R, NEW base \in R, NEW step \in [S \X R -> R], NEW pick,
         \A s \in SUBSET S : s # {} => pick[s] \in s
  PROVE  \E g \in [SUBSET S -> R] : IsFold(g, base, step, pick, S)
<1> DEFINE Upto(n) == {s \in SUBSET S : Cardinality(s) <= n}
           Eq(g, n) == g = [s \in Upto(n) |-> IF s = {} THEN base
                                              ELSE step[<<pick[s], g[s \ {pick[s]}]>>]]
           T == {n \in Nat : ~ \E g \in [Upto(n) -> R] : Eq(g, n)}
<1>1. \A s \in SUBSET S : /\ IsFiniteSet(s) /\ Cardinality(s) \in Nat
                          /\ Cardinality(s) <= Cardinality(S)
  BY FS_Subset, FS_CardinalityType
<1>2. \A s \in SUBSET S : s # {} => /\ pick[s] \in S /\ s \ {pick[s]} \in SUBSET S
                                    /\ Cardinality(s \ {pick[s]}) = Cardinality(s) - 1
  BY <1>1, FS_RemoveElement
<1>3. T = {}
  <2> SUFFICES ASSUME T # {} PROVE FALSE
    OBVIOUS
  <2>1. T \in SUBSET Nat
    OBVIOUS
  <2>2. PICK n \in T : \A m \in T : n <= m
    <3> HIDE DEF T
    <3> QED BY <2>1, LeastNatural
  <2>3. n \in Nat /\ ~ \E g \in [Upto(n) -> R] : Eq(g, n)
    BY <2>2
  <2>4. CASE n = 0
    <3> DEFINE g == [s \in Upto(0) |-> base]
    <3>1. \A s \in Upto(0) : s = {}
      BY <1>1, FS_EmptySet
    <3>2. g \in [Upto(0) -> R] /\ Eq(g, 0)
      BY <3>1
    <3> QED BY <2>3, <2>4, <3>2
  <2>5. CASE n # 0
    <3>1. n - 1 \in Nat /\ ~ n <= n - 1
      BY <2>3, <2>5
    <3>2. PICK g \in [Upto(n - 1) -> R] : Eq(g, n - 1)
      BY <2>2, <3>1
    <3> DEFINE h == [s \in Upto(n) |-> IF s = {} THEN base ELSE step[<<pick[s], g[s \ {pick[s]}]>>]]
    <3>3. \A s \in Upto(n) : s # {} => s \ {pick[s]} \in Upto(n - 1) /\ pick[s] \in S
      BY <1>1, <1>2, <2>3
    <3>4. \A s \in Upto(n - 1) : s \in Upto(n)
      BY <1>1, <2>3
    <3>5. \A s \in Upto(n - 1) : h[s] = g[s]
      <4> SUFFICES ASSUME NEW s \in Upto(n - 1) PROVE h[s] = g[s]
        OBVIOUS
      <4>1. g[s] = IF s = {} THEN base ELSE step[<<pick[s], g[s \ {pick[s]}]>>]
        <5> HIDE DEF Upto
        <5> QED BY <3>2
      <4>2. s \in Upto(n)
        BY <3>4
      <4> HIDE DEF Upto
      <4> QED BY <4>1, <4>2
    <3>6. Eq(h, n)
      <4>1. \A s \in Upto(n) : s # {} => g[s \ {pick[s]}] = h[s \ {pick[s]}]
        <5> HIDE DEF Upto, h
        <5> QED BY <3>3, <3>5
      <4> HIDE DEF Upto
      <4> QED BY <4>1
    <3>7. h \in [Upto(n) -> R]
      <4> SUFFICES ASSUME NEW s \in Upto(n), s # {}
                   PROVE  step[<<pick[s], g[s \ {pick[s]}]>>] \in R
        OBVIOUS
      <4>1. g[s \ {pick[s]}] \in R /\ pick[s] \in S
        <5> HIDE DEF Upto
        <5> QED BY <3>2, <3>3
      <4> QED BY <4>1
    <3> HIDE DEF Upto, h
    <3> QED BY <2>3, <3>6, <3>7
  <2> QED BY <2>4, <2>5
<1>4. Cardinality(S) \in Nat
  BY FS_CardinalityType
<1>5. PICK g \in [Upto(Cardinality(S)) -> R] : Eq(g, Cardinality(S))
  BY <1>3, <1>4
<1>6. Upto(Cardinality(S)) = SUBSET S
  BY <1>1
<1>7. g \in [SUBSET S -> R] /\ IsFold(g, base, step, pick, S)
  <2> HIDE DEF Upto
  <2> QED BY <1>5, <1>6 DEF IsFold
<1> QED BY <1>7

(* Among numbers up to n there is a greatest.                              *)
LEMMA Greatest ==
  ASSUME NEW n \in Nat, NEW S \in SUBSET (1 .. n), S # {}
  PROVE  Max(S) \in S /\ \A y \in S : Max(S) >= y
<1> DEFINE T == {n - x : x \in S}
<1>1. T \in SUBSET Nat /\ T # {}
  <2>1. \A x \in S : n - x \in Nat
    OBVIOUS
  <2>2. PICK x \in S : TRUE
    OBVIOUS
  <2> QED BY <2>1, <2>2
<1>2. PICK t \in T : \A u \in T : t <= u
  <2> HIDE DEF T
  <2> QED BY <1>1, LeastNatural
<1>3. PICK x \in S : t = n - x
  BY <1>2
<1>4. \A y \in S : n - x <= n - y
  BY <1>2, <1>3
<1>5. \A y \in S : x >= y
  BY <1>4
<1> QED BY <1>5 DEF Max

(* The greatest of the first places of a sequence is the last of them.     *)
LEMMA LastPlace ==
  ASSUME NEW n \in Nat \ {0}
  PROVE  Max(1 .. n) = n /\ (1 .. n) \ {n} = 1 .. n - 1 /\ 1 .. n # {}
<1>1. n \in 1 .. n /\ \A y \in 1 .. n : n >= y
  OBVIOUS
<1>2. \A x \in 1 .. n : (\A y \in 1 .. n : x >= y) => x = n
  OBVIOUS
<1>3. Max(1 .. n) = n
  BY <1>1, <1>2 DEF Max
<1>4. (1 .. n) \ {n} = 1 .. n - 1
  <2>1. \A i : i \in 1 .. n /\ i # n <=> i \in 1 .. n - 1
    OBVIOUS
  <2> QED BY <2>1
<1> QED BY <1>1, <1>3, <1>4

=============================================================================
