---------------------------- MODULE OperatorLemmas ----------------------------
(***************************************************************************)
(* What the operators that the models are built from return, for the       *)
(* proofs: queues that are read at the head and written at the tail, a     *)
(* dict of names that keeps the order of insertion, and sums over a set of *)
(* callers.                                                                *)
(***************************************************************************)
EXTENDS Integers, SequencesExt, Functions, FiniteSetTheorems, TLAPS

-----------------------------------------------------------------------------
(* Queues and dicts *)

\* An empty queue holds nothing.
LEMMA NoElements == ToSet(<<>>) = {}
BY DEF ToSet

\* A queue that is not empty is its head and its tail.
LEMMA HeadAndTail ==
  ASSUME NEW C, NEW s \in Seq(C), s # <<>>
  PROVE  /\ Head(s) \in C /\ Tail(s) \in Seq(C) /\ Len(Tail(s)) = Len(s) - 1
         /\ Head(s) = s[1] /\ \A i \in 1 .. Len(s) - 1 : Tail(s)[i] = s[i + 1]
         /\ ToSet(s) = {Head(s)} \cup ToSet(Tail(s))
<1>1. /\ Head(s) \in C /\ Tail(s) \in Seq(C) /\ Len(Tail(s)) = Len(s) - 1
      /\ Head(s) = s[1] /\ \A i \in 1 .. Len(s) - 1 : Tail(s)[i] = s[i + 1]
  OBVIOUS
<1> DEFINE t == Tail(s)
           n == Len(s)
<1>2. DOMAIN s = 1 .. n /\ DOMAIN t = 1 .. n - 1 /\ n \in Nat \ {0}
  OBVIOUS
<1> HIDE DEF t, n
<1>3. \A i \in 1 .. n : i # 1 => i - 1 \in 1 .. n - 1 /\ s[i] = t[i - 1]
  BY <1>1, <1>2 DEF t, n
<1>4. \A i \in 1 .. n - 1 : i + 1 \in 1 .. n /\ t[i] = s[i + 1]
  BY <1>1, <1>2 DEF t, n
<1>5. ToSet(s) = {s[1]} \cup ToSet(t)
  <2>1. 1 \in 1 .. n
    BY <1>2
  <2>2. ToSet(t) \subseteq ToSet(s)
    BY <1>2, <1>4 DEF ToSet
  <2>3. ToSet(s) \subseteq {s[1]} \cup ToSet(t)
    BY <1>2, <1>3 DEF ToSet
  <2> QED
    BY <1>2, <2>1, <2>2, <2>3 DEF ToSet
<1> QED
  BY <1>1, <1>5 DEF t

\* What is appended goes behind what is there.
LEMMA Appended ==
  ASSUME NEW C, NEW s \in Seq(C), NEW e \in C
  PROVE  /\ Append(s, e) \in Seq(C) /\ Append(s, e) # <<>>
         /\ Len(Append(s, e)) = Len(s) + 1
         /\ Append(s, e)[Len(s) + 1] = e
         /\ \A i \in 1 .. Len(s) : Append(s, e)[i] = s[i]
         /\ ToSet(Append(s, e)) = ToSet(s) \cup {e}
<1> DEFINE t == Append(s, e)
           n == Len(s)
<1>1. /\ t \in Seq(C) /\ t # <<>> /\ Len(t) = n + 1 /\ t[n + 1] = e
      /\ \A i \in 1 .. n : t[i] = s[i]
  OBVIOUS
<1>2. DOMAIN s = 1 .. n /\ DOMAIN t = 1 .. n + 1 /\ n \in Nat
  OBVIOUS
<1> HIDE DEF t, n
<1>3. ToSet(t) = ToSet(s) \cup {e}
  <2>1. \A i \in 1 .. n + 1 : i \in 1 .. n \/ i = n + 1
    BY <1>2
  <2>2. n + 1 \in 1 .. n + 1 /\ 1 .. n \subseteq 1 .. n + 1
    BY <1>2
  <2> QED
    BY <1>1, <1>2, <2>1, <2>2 DEF ToSet
<1> QED
  BY <1>1, <1>3 DEF t, n

\* A new name keeps the names of a dict apart.
LEMMA NewAppended ==
  ASSUME NEW C, NEW s \in Seq(C), NEW e \in C, IsInjective(s)
  PROVE  /\ Contains(s, e) <=> e \in ToSet(s)
         /\ ~ Contains(s, e) => IsInjective(Append(s, e))
<1>1. Contains(s, e) <=> e \in ToSet(s)
  BY DEF Contains, ToSet
<1>2. ASSUME ~ Contains(s, e)
      PROVE  IsInjective(Append(s, e))
  <2> DEFINE t == Append(s, e)
             n == Len(s)
  <2>1. /\ t \in Seq(C) /\ Len(t) = n + 1 /\ t[n + 1] = e
        /\ \A i \in 1 .. n : t[i] = s[i]
    BY Appended
  <2>2. DOMAIN s = 1 .. n /\ DOMAIN t = 1 .. n + 1 /\ n \in Nat
    OBVIOUS
  <2>3. \A i \in 1 .. n : s[i] # e
    BY <1>2 DEF Contains
  <2> HIDE DEF t, n
  <2>4. \A i \in 1 .. n + 1 : i \in 1 .. n \/ i = n + 1
    BY <2>2
  <2>5. IsInjective(t)
    BY <2>1, <2>2, <2>3, <2>4 DEF IsInjective
  <2> QED
    BY <2>5 DEF t
<1> QED
  BY <1>1, <1>2

\* RemoveAt leaves out one place and closes up.
LEMMA PlaceRemoved ==
  ASSUME NEW C, NEW s \in Seq(C), NEW k \in 1 .. Len(s)
  PROVE  /\ RemoveAt(s, k) \in Seq(C) /\ Len(RemoveAt(s, k)) = Len(s) - 1
         /\ \A i \in 1 .. Len(s) - 1 :
              RemoveAt(s, k)[i] = IF i < k THEN s[i] ELSE s[i + 1]
<1> DEFINE n == Len(s)
           front == SubSeq(s, 1, k - 1)
           back == SubSeq(s, k + 1, n)
<1>1. front \in Seq(C) /\ Len(front) = k - 1
  OBVIOUS
<1>2. \A i \in 1 .. k - 1 : front[i] = s[i]
  OBVIOUS
<1>3. back \in Seq(C) /\ Len(back) = n - k
  OBVIOUS
<1>4. \A i \in 1 .. n - k : back[i] = s[i + k]
  OBVIOUS
<1> DEFINE r == front \o back
<1> SUFFICES /\ r \in Seq(C) /\ Len(r) = n - 1
             /\ \A i \in 1 .. n - 1 : r[i] = IF i < k THEN s[i] ELSE s[i + 1]
  BY DEF RemoveAt
<1>5. n \in Nat /\ k \in 1 .. n
  OBVIOUS
<1> HIDE DEF front, back, n
<1>6. Len(r) = n - 1 /\ r \in Seq(C)
  BY <1>1, <1>3, <1>5
<1>7. \A i \in 1 .. n - 1 : r[i] = IF i <= k - 1 THEN front[i] ELSE back[i - (k - 1)]
  BY <1>1, <1>3, <1>5
<1> HIDE DEF r
<1>8. ASSUME NEW i \in 1 .. n - 1, i < k
      PROVE  r[i] = s[i]
  BY <1>8, <1>2, <1>5, <1>7
<1>9. ASSUME NEW i \in 1 .. n - 1, ~ (i < k)
      PROVE  r[i] = s[i + 1]
  <2>1. i - (k - 1) \in 1 .. n - k /\ (i - (k - 1)) + k = i + 1
    BY <1>9, <1>5
  <2>2. back[i - (k - 1)] = s[i + 1]
    BY <2>1, <1>4
  <2> QED
    BY <2>2, <1>9, <1>5, <1>7
<1> QED
  BY <1>6, <1>8, <1>9, <1>5

\* RemoveFirst takes a name out of a dict and leaves the others as they are.
LEMMA FirstRemoved ==
  ASSUME NEW C, NEW s \in Seq(C), NEW e, IsInjective(s)
  PROVE  /\ RemoveFirst(s, e) \in Seq(C)
         /\ IsInjective(RemoveFirst(s, e))
         /\ ToSet(RemoveFirst(s, e)) = ToSet(s) \ {e}
<1>1. CASE ~ \E i \in 1 .. Len(s) : s[i] = e
  BY <1>1 DEF RemoveFirst, ToSet
<1>2. CASE \E i \in 1 .. Len(s) : s[i] = e
  <2>1. PICK k \in 1 .. Len(s) : s[k] = e
    BY <1>2
  <2>2. \A i \in 1 .. Len(s) : s[i] = e => i = k
    BY <2>1 DEF IsInjective
  <2>3. SelectInSeq(s, LAMBDA v : v = e) = k
    <3>1. {i \in 1 .. Len(s) : s[i] = e} = {k}
      BY <2>1, <2>2
    <3> QED
      BY <3>1 DEF SelectInSeq, Min
  <2> DEFINE r == RemoveAt(s, k)
             n == Len(s)
  <2>4. RemoveFirst(s, e) = r
    BY <1>2, <2>3 DEF RemoveFirst
  <2>5. /\ r \in Seq(C) /\ Len(r) = n - 1 /\ n \in Nat
        /\ \A i \in 1 .. n - 1 : r[i] = IF i < k THEN s[i] ELSE s[i + 1]
    BY PlaceRemoved
  <2> HIDE DEF r
  <2> DEFINE place(i) == IF i < k THEN i ELSE i + 1
  <2> HIDE DEF n
  <2>8. k \in 1 .. n /\ \A i \in 1 .. n : s[i] = e => i = k
    BY <2>2 DEF n
  <2>6. IsInjective(r)
    <3> SUFFICES ASSUME NEW i \in 1 .. n - 1, NEW j \in 1 .. n - 1, r[i] = r[j]
                 PROVE  i = j
      BY <2>5 DEF IsInjective
    <3>1. s[place(i)] = s[place(j)]
      BY <2>5
    <3>2. place(i) \in DOMAIN s /\ place(j) \in DOMAIN s
      BY <2>5, <2>8 DEF n
    <3>3. place(i) = place(j)
      BY <3>1, <3>2 DEF IsInjective
    <3> QED
      BY <3>3, <2>8
  <2>7. ToSet(r) = ToSet(s) \ {e}
    <3>3. DOMAIN r = 1 .. n - 1 /\ DOMAIN s = 1 .. n
      BY <2>5 DEF n
    <3>1. ASSUME NEW i \in 1 .. n - 1
          PROVE  r[i] \in ToSet(s) /\ r[i] # e
      <4>1. place(i) \in 1 .. n /\ place(i) # k /\ r[i] = s[place(i)]
        BY <2>5, <2>8
      <4> QED
        BY <4>1, <3>3, <2>8 DEF ToSet
    <3>2. ASSUME NEW i \in 1 .. n, s[i] # e
          PROVE  s[i] \in ToSet(r)
      <4>1. i # k
        BY <3>2, <2>1
      <4>2. CASE i < k
        <5>1. i \in 1 .. n - 1 /\ r[i] = s[i]
          BY <4>2, <2>5, <2>8
        <5> QED
          BY <5>1, <3>3 DEF ToSet
      <4>3. CASE i > k
        <5>1. i - 1 \in 1 .. n - 1 /\ r[i - 1] = s[i]
          BY <4>3, <2>5, <2>8
        <5> QED
          BY <5>1, <3>3 DEF ToSet
      <4> QED
        BY <4>1, <4>2, <4>3, <2>8
    <3> QED
      BY <3>3, <3>1, <3>2 DEF ToSet
  <2> QED
    BY <2>4, <2>5, <2>6, <2>7
<1> QED
  BY <1>1, <1>2

-----------------------------------------------------------------------------
(* Sums *)

\* Induction, for a set of numbers: the set and its successors in a finite
\* interval have the size of an interval, and so an element too many.
LEMMA SetInduction ==
  ASSUME NEW S, 0 \in S, \A n \in Nat : n \in S => n + 1 \in S
  PROVE  \A n \in Nat : n \in S
<1> SUFFICES ASSUME NEW n \in Nat, n \notin S PROVE FALSE
  OBVIOUS
<1> DEFINE P == {k \in 0 .. n : \A i \in 0 .. k : i \in S}
           m == Cardinality(P) - 1
<1>1. P \subseteq 0 .. n /\ 0 \in P
  OBVIOUS
<1>2. \A k \in P : 0 .. k \subseteq P
  OBVIOUS
<1>3. IsFiniteSet(P) /\ Cardinality(P) \in Nat
  <2>1. IsFiniteSet(0 .. n)
    BY FS_Interval
  <2> HIDE DEF P
  <2>2. IsFiniteSet(P)
    BY <1>1, <2>1, FS_Subset
  <2> QED
    BY <2>2, FS_CardinalityType
<1>4. \A k \in P : k + 1 \in P
  BY DEF P
<1> HIDE DEF P
<1>5. m \in Nat /\ Cardinality(P) = m + 1
  BY <1>1, <1>3, FS_EmptySet
<1> HIDE DEF m
<1>6. \A k \in P : k <= m
  <2> TAKE k \in P
  <2>1. k \in Nat /\ 0 .. k \subseteq P
    BY <1>1, <1>2
  <2>2. Cardinality(0 .. k) <= Cardinality(P)
    BY <2>1, <1>3, FS_Subset
  <2>3. Cardinality(0 .. k) = k + 1
    BY <2>1, FS_Interval
  <2> QED
    BY <2>1, <2>2, <2>3, <1>5
<1>7. P = 0 .. m
  <2>1. P \subseteq 0 .. m
    BY <1>1, <1>6
  <2>2. IsFiniteSet(0 .. m)
    BY <1>5, FS_Interval
  <2>3. Cardinality(0 .. m) = m + 1
    BY <1>5, FS_Interval
  <2> QED
    BY <2>1, <2>2, <2>3, <1>5, FS_Subset
<1> QED
  BY <1>4, <1>5, <1>6, <1>7

\* Induction over the subsets of a finite set, for a set Q of them: by the
\* number of their elements.
LEMMA SubsetInduction ==
  ASSUME NEW D, IsFiniteSet(D), NEW Q, {} \in Q,
         \A T \in SUBSET D : T # {} /\ (\A x \in T : T \ {x} \in Q) => T \in Q
  PROVE  \A T \in SUBSET D : T \in Q
<1> DEFINE N == {n \in Nat : \A T \in SUBSET D : Cardinality(T) = n => T \in Q}
<1>1. \A T \in SUBSET D : IsFiniteSet(T) /\ Cardinality(T) \in Nat
  BY FS_Subset, FS_CardinalityType
<1>2. 0 \in N
  BY <1>1, FS_EmptySet
<1>3. ASSUME NEW n \in Nat, n \in N
      PROVE  n + 1 \in N
  <2> SUFFICES ASSUME NEW T \in SUBSET D, Cardinality(T) = n + 1
               PROVE  T \in Q
    OBVIOUS
  <2>1. T # {}
    BY FS_EmptySet
  <2>2. ASSUME NEW x \in T
        PROVE  T \ {x} \in Q
    <3>1. Cardinality(T \ {x}) = n
      BY <1>1, FS_RemoveElement
    <3> QED
      BY <1>3, <3>1
  <2> QED
    BY <2>1, <2>2
<1> HIDE DEF N
<1>4. \A n \in Nat : n \in N
  BY <1>2, <1>3, SetInduction
<1> QED
  BY <1>1, <1>4 DEF N

\* Sums of a function over the subsets of D, taken in the order of CHOOSE.
Pick(s) == CHOOSE x \in s : TRUE
Sums(f, D, g) ==
  g = [s \in SUBSET D |-> IF s = {} THEN 0 ELSE f[Pick(s)] + g[s \ {Pick(s)}]]

\* There is such a function: for the subsets of each size there is one.
LEMMA SumsExist ==
  ASSUME NEW D, IsFiniteSet(D), NEW f \in [D -> Nat]
  PROVE  \E g : Sums(f, D, g)
<1> DEFINE Upto(n, g) ==
             \A s \in SUBSET D : Cardinality(s) <= n =>
               g[s] = IF s = {} THEN 0 ELSE f[Pick(s)] + g[s \ {Pick(s)}]
           N == {n \in Nat : \E g : Upto(n, g)}
<1>1. \A T \in SUBSET D : IsFiniteSet(T) /\ Cardinality(T) \in Nat
  BY FS_Subset, FS_CardinalityType
<1>2. 0 \in N
  <2> DEFINE g == [s \in SUBSET D |-> 0]
  <2>1. Upto(0, g)
    BY <1>1, FS_EmptySet
  <2> QED
    BY <2>1
<1>3. ASSUME NEW n \in Nat, n \in N
      PROVE  n + 1 \in N
  <2>1. PICK g : Upto(n, g)
    BY <1>3
  <2> DEFINE h == [s \in SUBSET D |->
                     IF s = {} THEN 0 ELSE f[Pick(s)] + g[s \ {Pick(s)}]]
  <2>2. \A s \in SUBSET D : Cardinality(s) <= n => h[s] = g[s]
    BY <2>1
  <2>3. ASSUME NEW s \in SUBSET D, Cardinality(s) <= n + 1, s # {}
        PROVE  h[s] = f[Pick(s)] + h[s \ {Pick(s)}]
    <3>1. Pick(s) \in s
      BY <2>3 DEF Pick
    <3>2. Cardinality(s \ {Pick(s)}) = Cardinality(s) - 1
      BY <1>1, <3>1, FS_RemoveElement
    <3>3. s \ {Pick(s)} \in SUBSET D /\ Cardinality(s \ {Pick(s)}) <= n
      BY <1>1, <2>3, <3>2
    <3> QED
      BY <2>2, <2>3, <3>3
  <2>4. Upto(n + 1, h)
    BY <2>3
  <2> HIDE DEF h
  <2>5. \E k : Upto(n + 1, k)
    BY <2>4
  <2> HIDE DEF Upto
  <2> QED
    BY <2>5
<1> HIDE DEF N
<1>4. Cardinality(D) \in N
  BY <1>1, <1>2, <1>3, SetInduction
<1>5. PICK g : Upto(Cardinality(D), g)
  BY <1>4 DEF N
<1>6. \A s \in SUBSET D : Cardinality(s) <= Cardinality(D)
  BY FS_Subset
<1> DEFINE h == [s \in SUBSET D |-> g[s]]
<1>7. ASSUME NEW s \in SUBSET D
      PROVE  h[s] = IF s = {} THEN 0 ELSE f[Pick(s)] + h[s \ {Pick(s)}]
  BY <1>5, <1>6
<1>8. Sums(f, D, h)
  BY <1>7 DEF Sums
<1> QED
  BY <1>8

\* What SumFunctionOnSet unfolds to.
LEMMA SumUnfolds ==
  ASSUME NEW f, NEW T
  PROVE  SumFunctionOnSet(f, T) = (CHOOSE g : Sums(f, T, g))[T]
BY DEF SumFunctionOnSet, FoldFunctionOnSet, MapThenFoldSet, Sums, Pick

\* The sums over subsets of T do not depend on the set they are taken in.
LEMMA SumsUnique ==
  ASSUME NEW D, IsFiniteSet(D), NEW f \in [D -> Nat], NEW T \in SUBSET D,
         NEW g, Sums(f, D, g), NEW h, Sums(f, T, h)
  PROVE  \A s \in SUBSET T : g[s] = h[s] /\ g[s] \in Nat
<1> DEFINE Q == {s \in SUBSET T : g[s] = h[s] /\ g[s] \in Nat}
<1>0. IsFiniteSet(T)
  BY FS_Subset
<1>1. {} \in Q
  BY DEF Sums
<1>2. ASSUME NEW s \in SUBSET T, s # {}, \A x \in s : s \ {x} \in Q
      PROVE  s \in Q
  <2>1. Pick(s) \in s
    BY <1>2 DEF Pick
  <2>2. /\ g[s] = f[Pick(s)] + g[s \ {Pick(s)}]
        /\ h[s] = f[Pick(s)] + h[s \ {Pick(s)}]
    BY <1>2 DEF Sums
  <2>3. f[Pick(s)] \in Nat
    BY <2>1
  <2>4. g[s \ {Pick(s)}] = h[s \ {Pick(s)}] /\ g[s \ {Pick(s)}] \in Nat
    BY <1>2, <2>1
  <2> QED
    BY <2>2, <2>3, <2>4
<1> HIDE DEF Q
<1>3. \A s \in SUBSET T : s \in Q
  BY <1>0, <1>1, <1>2, SubsetInduction
<1> QED
  BY <1>3 DEF Q

\* All sums over subsets of D are values of one function.
LEMMA SumIsValue ==
  ASSUME NEW D, IsFiniteSet(D), NEW f \in [D -> Nat], NEW g, Sums(f, D, g)
  PROVE  \A T \in SUBSET D : SumFunctionOnSet(f, T) = g[T] /\ g[T] \in Nat
<1> TAKE T \in SUBSET D
<1> DEFINE e == [x \in T |-> f[x]]
<1>1. IsFiniteSet(T)
  BY FS_Subset
<1>2. PICK k : Sums(e, T, k)
  BY <1>1, SumsExist
<1>3. Sums(f, T, k)
  <2>1. \A s \in SUBSET T : s # {} => e[Pick(s)] = f[Pick(s)]
    BY DEF Pick
  <2> QED
    BY <1>2, <2>1 DEF Sums
<1> DEFINE h == CHOOSE h : Sums(f, T, h)
<1>4. Sums(f, T, h)
  BY <1>3
<1>5. SumFunctionOnSet(f, T) = h[T]
  BY SumUnfolds
<1> HIDE DEF h
<1>6. g[T] = h[T] /\ g[T] \in Nat
  BY <1>4, SumsUnique
<1> QED
  BY <1>5, <1>6

\* The order of summation does not matter.
LEMMA AnyOrder ==
  ASSUME NEW D, IsFiniteSet(D), NEW f \in [D -> Nat], NEW g, Sums(f, D, g),
         NEW S \in SUBSET D, NEW z \in S
  PROVE  g[S] = f[z] + g[S \ {z}]
<1> DEFINE Takes(T) == \A x \in T : g[T] = f[x] + g[T \ {x}]
           Q == {T \in SUBSET D : Takes(T)}
<1>1. {} \in Q
  OBVIOUS
<1>2. ASSUME NEW T \in SUBSET D, T # {}, \A x \in T : T \ {x} \in Q
      PROVE  T \in Q
  <2> SUFFICES ASSUME NEW x \in T PROVE g[T] = f[x] + g[T \ {x}]
    OBVIOUS
  <2>1. PICK y \in T : g[T] = f[y] + g[T \ {y}]
    <3>1. Pick(T) \in T
      BY <1>2 DEF Pick
    <3>2. g[T] = f[Pick(T)] + g[T \ {Pick(T)}]
      BY <1>2 DEF Sums
    <3> QED
      BY <3>1, <3>2
  <2>3. CASE x # y
    <3>1. g[T \ {y}] = f[x] + g[(T \ {y}) \ {x}]
      BY <1>2, <2>1, <2>3
    <3>2. g[T \ {x}] = f[y] + g[(T \ {x}) \ {y}]
      BY <1>2, <2>1, <2>3
    <3>3. (T \ {y}) \ {x} = (T \ {x}) \ {y}
      OBVIOUS
    <3>4. g[(T \ {x}) \ {y}] \in Nat /\ f[x] \in Nat /\ f[y] \in Nat
      <4>1. (T \ {x}) \ {y} \in SUBSET D
        OBVIOUS
      <4> QED
        BY <2>1, <4>1, SumIsValue
    <3> QED
      BY <2>1, <3>1, <3>2, <3>3, <3>4
  <2>4. CASE x = y
    <3>1. T \ {x} = T \ {y}
      BY <2>4
    <3> QED
      BY <2>1, <2>4, <3>1
  <2> QED
    BY <2>3, <2>4
<1> HIDE DEF Takes
<1>3. \A T \in SUBSET D : Takes(T)
  <2> HIDE DEF Q
  <2>1. \A T \in SUBSET D : T \in Q
    BY <1>1, <1>2, SubsetInduction
  <2> QED
    BY <2>1 DEF Q
<1> QED
  BY <1>3, Zenon DEF Takes

\* The sum over a finite set, element by element, in any order.
LEMMA SumOver ==
  ASSUME NEW D, IsFiniteSet(D), NEW f \in [D -> Nat]
  PROVE  /\ SumFunctionOnSet(f, {}) = 0
         /\ \A T \in SUBSET D :
              /\ SumFunctionOnSet(f, T) \in Nat
              /\ \A x \in T :
                   SumFunctionOnSet(f, T) = f[x] + SumFunctionOnSet(f, T \ {x})
<1>1. PICK g : Sums(f, D, g)
  BY SumsExist
<1>2. \A T \in SUBSET D : SumFunctionOnSet(f, T) = g[T] /\ g[T] \in Nat
  BY <1>1, SumIsValue
<1>3. \A T \in SUBSET D : \A x \in T : g[T] = f[x] + g[T \ {x}]
  <2> TAKE T \in SUBSET D
  <2> TAKE x \in T
  <2> QED
    BY <1>1, AnyOrder
<1>4. g[{}] = 0
  BY <1>1 DEF Sums
<1> QED
  BY <1>2, <1>3, <1>4

\* A sum of what is at most as much, element by element, is at most as much.
LEMMA SumAtMost ==
  ASSUME NEW D, IsFiniteSet(D), NEW f \in [D -> Nat], NEW h \in [D -> Nat],
         NEW T \in SUBSET D, \A x \in T : f[x] <= h[x]
  PROVE  SumFunctionOnSet(f, T) <= SumFunctionOnSet(h, T)
<1> DEFINE F(s) == SumFunctionOnSet(f, s)
           H(s) == SumFunctionOnSet(h, s)
           Q == {s \in SUBSET T : F(s) <= H(s)}
<1>0. IsFiniteSet(T)
  BY FS_Subset
<1>1. /\ F({}) = 0
      /\ \A s \in SUBSET D : F(s) \in Nat /\ \A x \in s : F(s) = f[x] + F(s \ {x})
  BY SumOver
<1>2. /\ H({}) = 0
      /\ \A s \in SUBSET D : H(s) \in Nat /\ \A x \in s : H(s) = h[x] + H(s \ {x})
  BY SumOver
<1> SUFFICES F(T) <= H(T)
  OBVIOUS
<1> HIDE DEF F, H
<1>3. {} \in Q
  BY <1>1, <1>2
<1>4. ASSUME NEW s \in SUBSET T, s # {}, \A x \in s : s \ {x} \in Q
      PROVE  s \in Q
  <2>1. PICK x : x \in s
    BY <1>4
  <2>2. F(s) = f[x] + F(s \ {x}) /\ H(s) = h[x] + H(s \ {x})
    BY <1>1, <1>2, <2>1
  <2>3. F(s \ {x}) <= H(s \ {x}) /\ f[x] <= h[x]
    BY <1>4, <2>1
  <2>4. F(s \ {x}) \in Nat /\ H(s \ {x}) \in Nat /\ f[x] \in Nat /\ h[x] \in Nat
    <3>1. s \ {x} \in SUBSET D /\ x \in D
      BY <2>1
    <3> QED
      BY <3>1, <1>1, <1>2
  <2>5. F(s) <= H(s)
    BY <2>2, <2>3, <2>4
  <2> QED
    BY <2>5
<1> HIDE DEF Q
<1>5. \A s \in SUBSET T : s \in Q
  BY <1>0, <1>3, <1>4, SubsetInduction
<1> QED
  BY <1>5 DEF Q

\* Functions that agree on a set have the same sum over it.
LEMMA SumSame ==
  ASSUME NEW D, IsFiniteSet(D), NEW f \in [D -> Nat], NEW h \in [D -> Nat],
         NEW T \in SUBSET D, \A x \in T : f[x] = h[x]
  PROVE  SumFunctionOnSet(f, T) = SumFunctionOnSet(h, T)
<1>1. \A x \in T : f[x] <= h[x] /\ h[x] <= f[x]
  OBVIOUS
<1>2. /\ SumFunctionOnSet(f, T) <= SumFunctionOnSet(h, T)
      /\ SumFunctionOnSet(h, T) <= SumFunctionOnSet(f, T)
  BY <1>1, SumAtMost
<1>3. SumFunctionOnSet(f, T) \in Nat /\ SumFunctionOnSet(h, T) \in Nat
  BY SumOver
<1> QED
  BY <1>2, <1>3

\* What one element does to a sum.
LEMMA SumChanges ==
  ASSUME NEW D, IsFiniteSet(D), NEW f \in [D -> Nat], NEW h \in [D -> Nat],
         NEW T \in SUBSET D, NEW x \in T, \A y \in T \ {x} : f[y] = h[y]
  PROVE  SumFunctionOnSet(h, T) = SumFunctionOnSet(f, T) - f[x] + h[x]
<1>1. SumFunctionOnSet(f, T \ {x}) = SumFunctionOnSet(h, T \ {x})
  BY SumSame
<1>2. /\ SumFunctionOnSet(f, T) = f[x] + SumFunctionOnSet(f, T \ {x})
      /\ SumFunctionOnSet(h, T) = h[x] + SumFunctionOnSet(h, T \ {x})
      /\ SumFunctionOnSet(f, T \ {x}) \in Nat
  BY SumOver
<1> QED
  BY <1>1, <1>2

\* A sum of nothing.
LEMMA SumOfZeros ==
  ASSUME NEW D, IsFiniteSet(D), NEW f \in [D -> Nat], NEW T \in SUBSET D,
         \A x \in T : f[x] = 0
  PROVE  SumFunctionOnSet(f, T) = 0
<1> DEFINE F(s) == SumFunctionOnSet(f, s)
           Q == {s \in SUBSET T : F(s) = 0}
<1>0. IsFiniteSet(T)
  BY FS_Subset
<1>1. /\ F({}) = 0
      /\ \A s \in SUBSET D : \A x \in s : F(s) = f[x] + F(s \ {x})
  BY SumOver
<1> SUFFICES F(T) = 0
  OBVIOUS
<1> HIDE DEF F
<1>2. {} \in Q
  BY <1>1
<1>3. ASSUME NEW s \in SUBSET T, s # {}, \A x \in s : s \ {x} \in Q
      PROVE  s \in Q
  <2>1. PICK x : x \in s
    BY <1>3
  <2>2. F(s) = f[x] + F(s \ {x})
    BY <1>1, <2>1
  <2>3. F(s \ {x}) = 0 /\ f[x] = 0
    BY <1>3, <2>1
  <2> QED
    BY <2>2, <2>3
<1> HIDE DEF Q
<1>4. \A s \in SUBSET T : s \in Q
  BY <1>0, <1>2, <1>3, SubsetInduction
<1> QED
  BY <1>4 DEF Q

\* A sum grows by no more than the number of its terms when each grows by one.
LEMMA SumPlusOnes ==
  ASSUME NEW D, IsFiniteSet(D), NEW f \in [D -> Nat], NEW h \in [D -> Nat],
         NEW T \in SUBSET D, \A x \in T : h[x] <= f[x] + 1
  PROVE  SumFunctionOnSet(h, T) <= SumFunctionOnSet(f, T) + Cardinality(T)
<1> DEFINE F(s) == SumFunctionOnSet(f, s)
           H(s) == SumFunctionOnSet(h, s)
           Q == {s \in SUBSET T : H(s) <= F(s) + Cardinality(s)}
<1>0. IsFiniteSet(T)
  BY FS_Subset
<1>1. /\ F({}) = 0 /\ H({}) = 0
      /\ \A s \in SUBSET D : F(s) \in Nat /\ H(s) \in Nat
      /\ \A s \in SUBSET D : \A x \in s : F(s) = f[x] + F(s \ {x})
                                          /\ H(s) = h[x] + H(s \ {x})
  BY SumOver
<1> SUFFICES H(T) <= F(T) + Cardinality(T)
  OBVIOUS
<1> HIDE DEF F, H
<1>2. {} \in Q
  BY <1>1, FS_EmptySet
<1>3. ASSUME NEW s \in SUBSET T, s # {}, \A x \in s : s \ {x} \in Q
      PROVE  s \in Q
  <2>1. PICK x : x \in s
    BY <1>3
  <2>2. F(s) = f[x] + F(s \ {x}) /\ H(s) = h[x] + H(s \ {x})
    BY <1>1, <2>1
  <2>3. H(s \ {x}) <= F(s \ {x}) + Cardinality(s \ {x})
    BY <1>3, <2>1
  <2>4. Cardinality(s \ {x}) = Cardinality(s) - 1 /\ Cardinality(s) \in Nat
    BY <1>0, <2>1, FS_Subset, FS_RemoveElement, FS_CardinalityType
  <2>5. h[x] <= f[x] + 1 /\ h[x] \in Nat /\ f[x] \in Nat
    BY <2>1
  <2>6. F(s \ {x}) \in Nat /\ H(s \ {x}) \in Nat
    BY <1>1
  <2>7. H(s) <= F(s) + Cardinality(s)
    BY <2>2, <2>3, <2>4, <2>5, <2>6
  <2> QED
    BY <2>7
<1> HIDE DEF Q
<1>4. \A s \in SUBSET T : s \in Q
  BY <1>0, <1>2, <1>3, SubsetInduction
<1> QED
  BY <1>4 DEF Q
=============================================================================
