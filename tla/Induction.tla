------------------------------ MODULE Induction ------------------------------
(***************************************************************************)
(* Induction with a set in the place of a predicate, over the numbers, the *)
(* subsets of a finite set and the sequences, and what the folds of the    *)
(* community modules compute.  The theorems of the library that take a     *)
(* predicate cannot be instantiated by the provers; that a smallest        *)
(* counterexample exists is a fact about sets.                             *)
(***************************************************************************)
EXTENDS SequencesExt, FiniteSetTheorems, SequenceTheorems, WellFoundedInduction, TLAPS

\* A set that has zero and is closed under successor has every number.
LEMMA NatSetInduction ==
  ASSUME NEW T \in SUBSET Nat, 0 \in T, \A n \in T : n + 1 \in T
  PROVE  T = Nat
<1> SUFFICES ASSUME Nat \ T # {} PROVE FALSE
  OBVIOUS
<1>1. PICK m \in Nat \ T : \A k \in Nat \ T : ~(<<k, m>> \in OpToRel(<, Nat))
  <2>1. Nat \ T \subseteq Nat
    OBVIOUS
  <2>2. QED
    BY ONLY <2>1, Nat \ T # {}, NatLessThanWellFounded, WFMin
<1>2. \A k \in Nat \ T : ~(k < m)
  BY <1>1 DEF OpToRel
<1>3. m # 0 /\ m - 1 \in Nat /\ m - 1 \in T
  BY <1>2
<1>4. (m - 1) + 1 \in T
  BY <1>3
<1>5. QED
  BY <1>4

\* A family of subsets of a finite set that has a subset whenever it has the
\* smaller ones has all of them.
LEMMA SubsetInduction ==
  ASSUME NEW D, IsFiniteSet(D), NEW T \in SUBSET (SUBSET D),
         \A s \in SUBSET D : (\A t \in SUBSET s : t # s => t \in T) => s \in T
  PROVE  T = SUBSET D
<1> DEFINE Rest == (SUBSET D) \ T
<1> SUFFICES ASSUME Rest # {} PROVE FALSE
  OBVIOUS
<1>1. Rest \subseteq FiniteSubsetsOf(D)
  BY FS_FiniteSubsetsOfFinite
<1>2. IsWellFoundedOn(StrictSubsetOrdering(D), FiniteSubsetsOf(D))
  BY FS_StrictSubsetOrderingWellFounded
<1>3. PICK s \in Rest : \A t \in Rest : ~(<<t, s>> \in StrictSubsetOrdering(D))
  <2> HIDE DEF Rest
  <2>1. QED
    BY ONLY <1>1, <1>2, Rest # {}, WFMin
<1>4. \A t \in SUBSET s : t # s => t \in T
  BY <1>3 DEF StrictSubsetOrdering
<1>5. s \in SUBSET D /\ s \notin T
  OBVIOUS
<1>6. QED
  BY <1>4, <1>5

-----------------------------------------------------------------------------
(* Folds *)

\* g folds each subset of D: from base on, step takes in what pick picks last.
IsFold(g, D, pick, base, step) ==
  \A s \in SUBSET D : g[s] = IF s = {} THEN base ELSE step[<<g[s \ {pick[s]}], pick[s]>>]

\* The recursive function by which the community modules define a fold
\* exists: by induction on the size of the sets it is defined on.
LEMMA FoldExists ==
  ASSUME NEW D, IsFiniteSet(D),
         NEW pick, \A s \in SUBSET D : s # {} => pick[s] \in s,
         NEW A, NEW base \in A, NEW step \in [A \X D -> A]
  PROVE  \E g \in [SUBSET D -> A] : IsFold(g, D, pick, base, step)
<1> DEFINE Upto(n) == {s \in SUBSET D : Cardinality(s) <= n}
           Is(n, g) == \A s \in Upto(n) :
                         g[s] = IF s = {} THEN base ELSE step[<<g[s \ {pick[s]}], pick[s]>>]
           T == {n \in Nat : \E g \in [Upto(n) -> A] : Is(n, g)}
<1>1. \A s \in SUBSET D : IsFiniteSet(s) /\ Cardinality(s) \in Nat
  BY FS_Subset, FS_CardinalityType
<1>2. 0 \in T
  <2>1. Upto(0) = {{}}
    BY <1>1, FS_EmptySet
  <2>2. [s \in {{}} |-> base] \in [Upto(0) -> A] /\ Is(0, [s \in {{}} |-> base])
    BY <2>1
  <2>3. QED
    BY <2>2
<1>3. ASSUME NEW n \in T PROVE n + 1 \in T
  <2>1. PICK g \in [Upto(n) -> A] : Is(n, g)
    OBVIOUS
  <2> DEFINE h == [s \in Upto(n + 1) |->
                     IF s = {} THEN base ELSE step[<<g[s \ {pick[s]}], pick[s]>>]]
  <2>2. ASSUME NEW s \in Upto(n + 1), s # {}
        PROVE  pick[s] \in s /\ s \ {pick[s]} \in Upto(n)
    <3>1. pick[s] \in s /\ IsFiniteSet(s) /\ Cardinality(s) \in Nat
      BY <1>1, <2>2
    <3>2. Cardinality(s \ {pick[s]}) = Cardinality(s) - 1
      BY <3>1, FS_RemoveElement
    <3>3. QED
      BY <3>1, <3>2
  <2>3. ASSUME NEW s \in Upto(n) PROVE s \in Upto(n + 1) /\ h[s] = g[s]
    <3>1. s \in Upto(n + 1)
      BY <1>1
    <3>2. g[s] = IF s = {} THEN base ELSE step[<<g[s \ {pick[s]}], pick[s]>>]
      BY <2>1
    <3>3. QED
      BY <3>1, <3>2
  <2>4. ASSUME NEW s \in Upto(n + 1), s # {}
        PROVE  step[<<g[s \ {pick[s]}], pick[s]>>] \in A
    <3>1. pick[s] \in D /\ g[s \ {pick[s]}] \in A
      BY <2>2, <2>4
    <3>2. QED
      BY <3>1
  <2>5. h \in [Upto(n + 1) -> A]
    BY <2>4
  <2>6. Is(n + 1, h)
    BY <2>2, <2>3
  <2>7. \E f \in [Upto(n + 1) -> A] : Is(n + 1, f)
    <3> HIDE DEF h
    <3>1. QED
      BY <2>5, <2>6
  <2>8. n + 1 \in Nat
    OBVIOUS
  <2> HIDE DEF Is, Upto
  <2>9. QED
    BY <2>7, <2>8
<1>4. T = Nat
  <2>1. T \in SUBSET Nat
    OBVIOUS
  <2> HIDE DEF T
  <2>2. QED
    BY ONLY <1>2, <1>3, <2>1, NatSetInduction
<1>5. \E g \in [Upto(Cardinality(D)) -> A] : Is(Cardinality(D), g)
  BY <1>1, <1>4
<1>6. Upto(Cardinality(D)) = SUBSET D
  BY FS_Subset
<1>7. QED
  BY <1>5, <1>6 DEF IsFold

-----------------------------------------------------------------------------
(* Sequences *)

\* A set that has the empty sequence and is closed under Append has all.
LEMMA SeqInduction ==
  ASSUME NEW X, NEW T \in SUBSET Seq(X), <<>> \in T, \A s \in T, x \in X : Append(s, x) \in T
  PROVE  T = Seq(X)
<1> DEFINE N == {n \in Nat : \A s \in Seq(X) : Len(s) = n => s \in T}
<1>1. 0 \in N
  BY EmptySeq
<1>2. ASSUME NEW n \in N PROVE n + 1 \in N
  <2>1. ASSUME NEW s \in Seq(X), Len(s) = n + 1 PROVE s \in T
    <3>1. s # <<>>
      BY <2>1
    <3>2. PICK t \in Seq(X), x \in X : s = Append(t, x)
      BY <3>1, SequenceEmptyOrAppend
    <3>3. Len(t) = n
      BY <2>1, <3>2, AppendProperties, LenProperties
    <3>4. QED
      BY <3>2, <3>3
  <2>2. QED
    BY <2>1
<1>3. N = Nat
  <2>1. N \in SUBSET Nat
    OBVIOUS
  <2> HIDE DEF N
  <2>2. QED
    BY ONLY <1>1, <1>2, <2>1, NatSetInduction
<1>4. QED
  BY <1>3, LenProperties

LEMMA MaxOfRange == \A i \in Nat \ {0} : Max(1 .. i) = i /\ (1 .. i) \ {i} = 1 .. (i - 1)
<1> TAKE i \in Nat \ {0}
<1>1. Max(1 .. i) \in 1 .. i /\ \A y \in 1 .. i : Max(1 .. i) >= y
  <2>1. i \in 1 .. i /\ \A y \in 1 .. i : i >= y
    OBVIOUS
  <2>2. QED
    BY ONLY <2>1 DEF Max
<1>2. QED
  BY <1>1

LEMMA MaxIsIn ==
  ASSUME NEW m \in Nat, NEW r \in SUBSET (1 .. m), r # {}
  PROVE  Max(r) \in r
<1> DEFINE Has(q) == \E x \in q : \A y \in q : x >= y
           N == {n \in Nat : \A q \in SUBSET (1 .. n) : q # {} => Has(q)}
<1>1. 0 \in N
  <2>1. 1 .. 0 = {}
    OBVIOUS
  <2> HIDE DEF Has
  <2>2. QED
    BY <2>1
<1>2. ASSUME NEW n \in N PROVE n + 1 \in N
  <2>1. ASSUME NEW q \in SUBSET (1 .. (n + 1)), q # {} PROVE Has(q)
    <3>1. CASE n + 1 \in q
      BY <3>1
    <3>2. CASE n + 1 \notin q
      <4>1. q \in SUBSET (1 .. n)
        BY <3>2
      <4>2. QED
        BY <2>1, <4>1
    <3>3. QED
      BY <3>1, <3>2
  <2>2. n + 1 \in Nat
    OBVIOUS
  <2> HIDE DEF Has
  <2>3. QED
    BY <2>1, <2>2
<1>3. N = Nat
  <2>1. N \in SUBSET Nat
    OBVIOUS
  <2> HIDE DEF N
  <2>2. QED
    BY ONLY <1>1, <1>2, <2>1, NatSetInduction
<1>4. Has(r)
  BY <1>3
<1>5. QED
  BY ONLY <1>4 DEF Max

\* g folds the sequence s from its first element on, as FoldLeft does.
FoldsLeft(g, s, A, base, step) ==
  /\ g[{}] = base
  /\ \A r \in SUBSET DOMAIN s :
       r # {} /\ g[r \ {Max(r)}] \in A => g[r] = step[<<g[r \ {Max(r)}], s[Max(r)]>>]

\* The folds of the prefixes of s.
PrefixFolds(g, s, A, base, step) ==
  /\ g[1 .. 0] = base
  /\ \A i \in 0 .. Len(s) : g[1 .. i] \in A
  /\ \A i \in 1 .. Len(s) : g[1 .. i] = step[<<g[1 .. (i - 1)], s[i]>>]

LEMMA FoldPrefix ==
  ASSUME NEW X, NEW A, NEW base \in A, NEW step \in [A \X X -> A],
         NEW s \in Seq(X), NEW g, FoldsLeft(g, s, A, base, step)
  PROVE  PrefixFolds(g, s, A, base, step)
<1>1. 1 .. 0 = {} /\ g[1 .. 0] = base /\ Len(s) \in Nat
  BY LenProperties DEF FoldsLeft
<1>2. ASSUME NEW i \in 1 .. Len(s), g[1 .. (i - 1)] \in A
      PROVE  g[1 .. i] = step[<<g[1 .. (i - 1)], s[i]>>] /\ g[1 .. i] \in A
  <2>1. 1 .. i \in SUBSET DOMAIN s /\ 1 .. i # {} /\ s[i] \in X
    BY <1>1, LenProperties, ElementOfSeq
  <2>2. Max(1 .. i) = i /\ (1 .. i) \ {i} = 1 .. (i - 1)
    BY <1>1, MaxOfRange
  <2>3. g[1 .. i] = step[<<g[1 .. (i - 1)], s[i]>>]
    BY <1>2, <2>1, <2>2 DEF FoldsLeft
  <2>4. QED
    BY <1>2, <2>1, <2>3
<1> DEFINE N == {n \in Nat : n <= Len(s) => g[1 .. n] \in A}
<1>3. 0 \in N
  BY <1>1
<1>4. ASSUME NEW n \in N PROVE n + 1 \in N
  <2>1. ASSUME n + 1 <= Len(s) PROVE g[1 .. (n + 1)] \in A
    <3>1. n + 1 \in 1 .. Len(s) /\ (n + 1) - 1 = n /\ g[1 .. n] \in A
      BY <1>1, <2>1
    <3>2. QED
      BY <1>2, <3>1
  <2>2. QED
    BY <2>1
<1>5. N = Nat
  <2>1. N \in SUBSET Nat
    OBVIOUS
  <2> HIDE DEF N
  <2>2. QED
    BY ONLY <1>3, <1>4, <2>1, NatSetInduction
<1>6. \A i \in 0 .. Len(s) : g[1 .. i] \in A
  BY <1>1, <1>5
<1>7. \A i \in 1 .. Len(s) : i - 1 \in 0 .. Len(s)
  BY <1>1
<1>8. QED
  BY <1>1, <1>2, <1>6, <1>7 DEF PrefixFolds

PrefixesAgree(g, h, n) == \A i \in 0 .. n : h[1 .. i] = g[1 .. i]

\* The fold of a longer sequence begins as that of a shorter one does.
LEMMA FoldsAgree ==
  ASSUME NEW X, NEW A, NEW base \in A, NEW step \in [A \X X -> A],
         NEW s \in Seq(X), NEW x \in X, NEW g, NEW h,
         FoldsLeft(g, s, A, base, step), FoldsLeft(h, Append(s, x), A, base, step)
  PROVE  PrefixesAgree(g, h, Len(s))
<1> DEFINE t == Append(s, x)
<1>1. /\ t \in Seq(X) /\ Len(s) \in Nat /\ Len(t) = Len(s) + 1
      /\ \A i \in 1 .. Len(s) : t[i] = s[i]
  BY AppendProperties, LenProperties
<1>2. PrefixFolds(g, s, A, base, step)
  BY FoldPrefix
<1>3. PrefixFolds(h, t, A, base, step)
  BY <1>1, FoldPrefix
<1> HIDE DEF t
<1> DEFINE N == {n \in Nat : n <= Len(s) => h[1 .. n] = g[1 .. n]}
<1>4. 0 \in N
  BY <1>2, <1>3 DEF PrefixFolds
<1>5. ASSUME NEW n \in N PROVE n + 1 \in N
  <2>1. ASSUME n + 1 <= Len(s) PROVE h[1 .. (n + 1)] = g[1 .. (n + 1)]
    <3>1. n + 1 \in 1 .. Len(s) /\ n + 1 \in 1 .. Len(t) /\ (n + 1) - 1 = n
      BY <1>1, <2>1
    <3>2. t[n + 1] = s[n + 1]
      BY <1>1, <3>1
    <3>3. h[1 .. n] = g[1 .. n]
      BY <1>1, <2>1
    <3>4. h[1 .. (n + 1)] = step[<<h[1 .. n], t[n + 1]>>]
      BY <1>3, <3>1 DEF PrefixFolds
    <3>5. g[1 .. (n + 1)] = step[<<g[1 .. n], s[n + 1]>>]
      BY <1>2, <3>1 DEF PrefixFolds
    <3>6. QED
      BY <3>2, <3>3, <3>4, <3>5
  <2>2. QED
    BY <2>1
<1>6. N = Nat
  <2>1. N \in SUBSET Nat
    OBVIOUS
  <2> HIDE DEF N
  <2>2. QED
    BY ONLY <1>4, <1>5, <2>1, NatSetInduction
<1>7. QED
  BY <1>1, <1>6 DEF PrefixesAgree

\* F[s] is a fold of s.
IsFoldLeft(F, X, A, base, step) ==
  \A s \in Seq(X) : \E g : F[s] = g[DOMAIN s] /\ FoldsLeft(g, s, A, base, step)

\* What a fold of sequences computes, element by element.
ByElement(F, X, A, base, step) ==
  /\ F[<<>>] = base
  /\ \A s \in Seq(X) : F[s] \in A
  /\ \A s \in Seq(X), x \in X : F[Append(s, x)] = step[<<F[s], x>>]

LEMMA FoldOfAppend ==
  ASSUME NEW X, NEW A, NEW base \in A, NEW step \in [A \X X -> A], NEW F,
         IsFoldLeft(F, X, A, base, step)
  PROVE  ByElement(F, X, A, base, step)
<1>0. \A s \in Seq(X) : \E g : F[s] = g[DOMAIN s] /\ FoldsLeft(g, s, A, base, step)
  BY DEF IsFoldLeft
<1>1. ASSUME NEW s \in Seq(X), NEW g, F[s] = g[DOMAIN s], FoldsLeft(g, s, A, base, step)
      PROVE  F[s] = g[1 .. Len(s)] /\ F[s] \in A /\ (Len(s) = 0 => F[s] = base)
  <2>1. PrefixFolds(g, s, A, base, step)
    BY <1>1, FoldPrefix
  <2>2. DOMAIN s = 1 .. Len(s) /\ Len(s) \in 0 .. Len(s)
    BY LenProperties
  <2>3. QED
    BY <1>1, <2>1, <2>2 DEF PrefixFolds
<1>2. \A s \in Seq(X) : F[s] \in A
  BY <1>0, <1>1
<1>3. F[<<>>] = base
  BY <1>0, <1>1, EmptySeq
<1>4. ASSUME NEW s \in Seq(X), NEW x \in X PROVE F[Append(s, x)] = step[<<F[s], x>>]
  <2> DEFINE t == Append(s, x)
  <2>1. /\ t \in Seq(X) /\ Len(s) \in Nat /\ Len(t) = Len(s) + 1 /\ t[Len(t)] = x
    BY AppendProperties, LenProperties
  <2>2. PICK g : F[s] = g[DOMAIN s] /\ FoldsLeft(g, s, A, base, step)
    BY <1>0
  <2>3. PICK h : F[t] = h[DOMAIN t] /\ FoldsLeft(h, t, A, base, step)
    BY <1>0, <2>1
  <2>4. h[1 .. Len(s)] = g[1 .. Len(s)]
    <3>1. PrefixesAgree(g, h, Len(s))
      BY <2>2, <2>3, FoldsAgree
    <3>2. QED
      BY <2>1, <3>1 DEF PrefixesAgree
  <2>5. F[s] = g[1 .. Len(s)] /\ F[t] = h[1 .. Len(t)]
    BY <1>1, <2>1, <2>2, <2>3
  <2>6. h[1 .. Len(t)] = step[<<h[1 .. Len(s)], x>>]
    <3> HIDE DEF t
    <3>1. Len(t) \in 1 .. Len(t) /\ Len(t) - 1 = Len(s)
      BY <2>1
    <3>2. PrefixFolds(h, t, A, base, step)
      BY <2>1, <2>3, FoldPrefix
    <3>3. QED
      BY <2>1, <3>1, <3>2 DEF PrefixFolds
  <2>7. QED
    BY <2>4, <2>5, <2>6
<1>5. QED
  BY <1>2, <1>3, <1>4 DEF ByElement

\* g has the value that the recursion of FoldLeft demands, at every set of indices.
Unfolds(g, s, X, A, base, step) ==
  \A r \in SUBSET DOMAIN s :
    IF r = {} THEN g[r] = base
    ELSE /\ Max(r) \in DOMAIN s /\ s[Max(r)] \in X /\ g[r \ {Max(r)}] \in A
         /\ g[r] = step[<<g[r \ {Max(r)}], s[Max(r)]>>]

\* The function that FoldLeft chooses exists.
LEMMA FoldLeftExists ==
  ASSUME NEW X, NEW A, NEW base \in A, NEW step \in [A \X X -> A], NEW s \in Seq(X)
  PROVE  \E g \in [SUBSET DOMAIN s -> A] : Unfolds(g, s, X, A, base, step)
<1> DEFINE D == DOMAIN s
           pick == [r \in SUBSET D |-> Max(r)]
           next == [z \in A \X D |-> step[<<z[1], s[z[2]]>>]]
<1>1. D = 1 .. Len(s) /\ Len(s) \in Nat /\ IsFiniteSet(D) /\ D \subseteq Int
  BY LenProperties, FS_Interval
<1>2. \A i \in D : s[i] \in X
  BY <1>1, ElementOfSeq
<1>3. next \in [A \X D -> A]
  BY <1>2
<1>4. \A r \in SUBSET D : r # {} => pick[r] \in r
  BY <1>1, MaxIsIn
<1>5. PICK g \in [SUBSET D -> A] : IsFold(g, D, pick, base, next)
  <2> HIDE DEF D, pick, next
  <2>1. QED
    BY <1>1, <1>3, <1>4, FoldExists
<1>6. ASSUME NEW r \in SUBSET D, r # {}
      PROVE  /\ Max(r) \in D /\ s[Max(r)] \in X /\ g[r \ {Max(r)}] \in A
             /\ g[r] = step[<<g[r \ {Max(r)}], s[Max(r)]>>]
  <2>1. pick[r] = Max(r) /\ Max(r) \in D /\ s[Max(r)] \in X
    BY <1>2, <1>4, <1>6
  <2>2. g[r \ {Max(r)}] \in A
    OBVIOUS
  <2>3. g[r] = next[<<g[r \ {pick[r]}], pick[r]>>]
    BY <1>5, <1>6 DEF IsFold
  <2>4. QED
    BY <2>1, <2>2, <2>3
<1>7. g[{}] = base
  BY <1>5 DEF IsFold
<1>8. QED
  BY <1>6, <1>7 DEF Unfolds
=============================================================================
