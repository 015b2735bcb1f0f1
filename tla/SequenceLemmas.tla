--------------------------- MODULE SequenceLemmas ---------------------------
(***************************************************************************)
(* Facts about the operators that the models are built from: what          *)
(* Subsequence selects, what the idempotency cache keeps and evicts, and   *)
(* what SumFunction of the community modules adds up to.  They are proved  *)
(* by induction over the length or the number of elements where they need  *)
(* it.  The induction theorems of the library take an operator as a        *)
(* parameter, which the provers cannot instantiate; here they take a set,  *)
(* and rest on the well-foundedness of the natural numbers.                *)
(***************************************************************************)
EXTENDS LruCache, Subsequence, Functions, FiniteSetTheorems, SequenceTheorems, WellFoundedInduction, TLAPS

-----------------------------------------------------------------------------
(***************************************************************************)
(* A set of natural numbers that is not empty has a least element.         *)
(***************************************************************************)
LEMMA LeastNumber ==
  ASSUME NEW T, T \subseteq Nat, T # {}
  PROVE  \E x \in T : \A y \in T : x <= y
<1> DEFINE R == OpToRel(<, Nat)
<1>1. IsWellFoundedOn(R, Nat)
  BY NatLessThanWellFounded
<1>2. \A x, y \in Nat : <<x, y>> \in R <=> x < y
  BY DEF OpToRel
<1> HIDE DEF R
<1>3. \E x \in T : \A y \in T : ~ (<<y, x>> \in R)
  BY <1>1, WFMin
<1>4. PICK x \in T : \A y \in T : ~ (<<y, x>> \in R)
  BY <1>3
<1>5. \A y \in T : x <= y
  <2> TAKE y \in T
  <2>1. x \in Nat /\ y \in Nat
    OBVIOUS
  <2>2. ~ (<<y, x>> \in R)
    BY <1>4
  <2>3. ~ (y < x)
    BY <1>2, <2>1, <2>2
  <2> QED BY <2>1, <2>3
<1> QED BY <1>5

(***************************************************************************)
(* A set with 0 and the successor of each of its numbers has them all.     *)
(***************************************************************************)
LEMMA SetInduction ==
  ASSUME NEW T, 0 \in T, \A n \in Nat : n \in T => n + 1 \in T
  PROVE  \A n \in Nat : n \in T
<1> DEFINE F == {n \in Nat : n \notin T}
<1> SUFFICES ASSUME F # {} PROVE FALSE
  OBVIOUS
<1>1. PICK x \in F : \A y \in F : x <= y
  <2> HIDE DEF F
  <2>1. F \subseteq Nat
    BY DEF F
  <2> QED BY <2>1, LeastNumber
<1>2. x \in Nat /\ x # 0 /\ x \notin T
  BY <1>1
<1>3. x - 1 \in Nat /\ x - 1 \notin F
  BY <1>1, <1>2
<1>4. x - 1 \in T
  BY <1>3
<1>5. (x - 1) + 1 = x
  BY <1>2
<1> QED BY <1>2, <1>3, <1>4, <1>5

-----------------------------------------------------------------------------
\* How f[n] comes from f[n - 1] in the definition of Subsequence.
Extension(s, T, f, n) ==
  IF n = 0 THEN <<>> ELSE IF s[n] \in T THEN Append(f[n - 1], s[n]) ELSE f[n - 1]

(***************************************************************************)
(* The recursion defines a function, whatever the length.                  *)
(***************************************************************************)
LEMMA PrefixesExist ==
  ASSUME NEW s, NEW T
  PROVE  \A m \in Nat : \E f : f = [n \in 0..m |-> Extension(s, T, f, n)]
<1> DEFINE Good == {m \in Nat : \E f : f = [n \in 0..m |-> Extension(s, T, f, n)]}
<1>1. 0 \in Good
  <2> DEFINE f == [n \in 0..0 |-> <<>>]
  <2>1. f = [n \in 0..0 |-> Extension(s, T, f, n)]
    BY DEF Extension
  <2> QED BY <2>1
<1>2. ASSUME NEW m \in Nat, m \in Good PROVE m + 1 \in Good
  <2>1. PICK f : f = [n \in 0..m |-> Extension(s, T, f, n)]
    BY <1>2
  <2> DEFINE g == [n \in 0..(m + 1) |-> IF n <= m THEN f[n] ELSE Extension(s, T, f, n)]
  <2>2. \A n \in 0..(m + 1) : g[n] = Extension(s, T, g, n)
    <3> TAKE n \in 0..(m + 1)
    <3>1. g[n] = Extension(s, T, f, n)
      BY <2>1
    <3>2. n # 0 => g[n - 1] = f[n - 1]
      OBVIOUS
    <3> HIDE DEF g
    <3> QED BY <3>1, <3>2 DEF Extension
  <2>3. g = [n \in 0..(m + 1) |-> Extension(s, T, g, n)]
    <3> DEFINE h == [n \in 0..(m + 1) |-> Extension(s, T, g, n)]
    <3>1. \A n \in 0..(m + 1) : g[n] = h[n]
      BY <2>2
    <3> QED BY <3>1
  <2> HIDE DEF g
  <2>4. \E h : h = [n \in 0..(m + 1) |-> Extension(s, T, h, n)]
    BY <2>3
  <2> QED BY <2>4
<1> HIDE DEF Good
<1>3. \A m \in Nat : m \in Good
  BY <1>1, <1>2, SetInduction
<1> QED BY <1>3 DEF Good

(***************************************************************************)
(* Subsequence is the last value of a function that obeys the recursion.   *)
(***************************************************************************)
LEMMA SubsequenceDef ==
  ASSUME NEW s, NEW T, Len(s) \in Nat
  PROVE  \E f : /\ f = [n \in 0..Len(s) |-> Extension(s, T, f, n)]
                /\ Subsequence(s, T) = f[Len(s)]
<1> DEFINE f == CHOOSE f : f = [n \in 0..Len(s) |-> Extension(s, T, f, n)]
<1>1. f = [n \in 0..Len(s) |-> Extension(s, T, f, n)]
  BY PrefixesExist
<1>2. Subsequence(s, T) = f[Len(s)]
  BY DEF Subsequence, Extension
<1> QED BY <1>1, <1>2

(***************************************************************************)
(* Two sequences that agree up to m have the same selection up to m.       *)
(***************************************************************************)
LEMMA SamePrefix ==
  ASSUME NEW s, NEW t, NEW T, NEW m \in Nat, \A n \in 1..m : s[n] = t[n],
         NEW f, NEW g, NEW a \in Nat, NEW b \in Nat, m <= a, m <= b,
         f = [n \in 0..a |-> Extension(s, T, f, n)],
         g = [n \in 0..b |-> Extension(t, T, g, n)]
  PROVE  f[m] = g[m]
<1> DEFINE Good == {n \in Nat : n <= m => f[n] = g[n]}
<1>1. 0 \in Good
  BY DEF Extension
<1>2. ASSUME NEW n \in Nat, n \in Good PROVE n + 1 \in Good
  <2> SUFFICES ASSUME n + 1 <= m PROVE f[n + 1] = g[n + 1]
    OBVIOUS
  <2>1. f[n] = g[n] /\ s[n + 1] = t[n + 1]
    BY <1>2
  <2>2. n + 1 \in 0..a /\ n + 1 \in 0..b /\ (n + 1) - 1 = n /\ n + 1 # 0
    OBVIOUS
  <2>3. f[n + 1] = Extension(s, T, f, n + 1) /\ g[n + 1] = Extension(t, T, g, n + 1)
    BY <2>2
  <2> QED BY <2>1, <2>2, <2>3 DEF Extension
<1> HIDE DEF Good
<1>3. \A n \in Nat : n \in Good
  BY <1>1, <1>2, SetInduction
<1> QED BY <1>3 DEF Good

-----------------------------------------------------------------------------
(***************************************************************************)
(* Of nothing, nothing is selected.                                        *)
(***************************************************************************)
LEMMA SubsequenceEmpty == ASSUME NEW T PROVE Subsequence(<<>>, T) = <<>>
<1>1. PICK f : /\ f = [n \in 0..0 |-> Extension(<<>>, T, f, n)]
               /\ Subsequence(<<>>, T) = f[0]
  BY SubsequenceDef
<1> QED BY <1>1 DEF Extension

(***************************************************************************)
(* What is appended is selected last, if it is in the set.                 *)
(***************************************************************************)
LEMMA SubsequenceAppend ==
  ASSUME NEW S, NEW s \in Seq(S), NEW k \in S, NEW T
  PROVE  Subsequence(Append(s, k), T) =
           IF k \in T THEN Append(Subsequence(s, T), k) ELSE Subsequence(s, T)
<1> DEFINE t == Append(s, k)
           m == Len(s)
<1>1. m \in Nat /\ Len(t) = m + 1 /\ t[m + 1] = k /\ \A n \in 1..m : s[n] = t[n]
  OBVIOUS
<1> HIDE DEF t, m
<1>2. PICK f : f = [n \in 0..m |-> Extension(s, T, f, n)] /\ Subsequence(s, T) = f[m]
  BY <1>1, SubsequenceDef DEF m
<1>3. PICK g : g = [n \in 0..(m + 1) |-> Extension(t, T, g, n)] /\ Subsequence(t, T) = g[m + 1]
  BY <1>1, SubsequenceDef
<1>4. f[m] = g[m]
  BY <1>1, <1>2, <1>3, SamePrefix
<1>5. g[m + 1] = Extension(t, T, g, m + 1)
  BY <1>1, <1>3
<1>6. g[m + 1] = IF k \in T THEN Append(g[m], k) ELSE g[m]
  BY <1>1, <1>5 DEF Extension
<1> QED BY <1>2, <1>3, <1>4, <1>6 DEF t

-----------------------------------------------------------------------------
(***************************************************************************)
(* A set with the empty sequence and every sequence that is one element    *)
(* longer than one of its own has all sequences.                           *)
(***************************************************************************)
LEMMA SequenceInduction ==
  ASSUME NEW S, NEW P, <<>> \in P,
         \A s \in Seq(S), k \in S : s \in P => Append(s, k) \in P
  PROVE  Seq(S) \subseteq P
<1> DEFINE Good == {n \in Nat : \A s \in Seq(S) : Len(s) = n => s \in P}
<1>1. 0 \in Good
  <2> SUFFICES ASSUME NEW s \in Seq(S), Len(s) = 0 PROVE s \in P
    OBVIOUS
  <2>1. s = <<>>
    BY EmptySeq
  <2> QED BY <2>1
<1>2. ASSUME NEW n \in Nat, n \in Good PROVE n + 1 \in Good
  <2> SUFFICES ASSUME NEW s \in Seq(S), Len(s) = n + 1 PROVE s \in P
    OBVIOUS
  <2> DEFINE front == SubSeq(s, 1, n)
  <2>1. front \in Seq(S) /\ Len(front) = n /\ s[n + 1] \in S
    OBVIOUS
  <2>2. s = Append(front, s[n + 1])
    OBVIOUS
  <2> HIDE DEF front
  <2>3. front \in P
    BY <1>2, <2>1
  <2>4. Append(front, s[n + 1]) \in P
    BY <2>1, <2>3
  <2> QED BY <2>2, <2>4
<1> HIDE DEF Good
<1>3. \A n \in Nat : n \in Good
  BY <1>1, <1>2, SetInduction
<1> SUFFICES ASSUME NEW s \in Seq(S) PROVE s \in P
  OBVIOUS
<1>4. Len(s) \in Good
  BY <1>3, LenProperties
<1> QED BY <1>4 DEF Good

(***************************************************************************)
(* Exactly the elements that are in the set are selected.                  *)
(***************************************************************************)
LEMMA SubsequenceElements ==
  ASSUME NEW S, NEW s \in Seq(S), NEW T
  PROVE  /\ Subsequence(s, T) \in Seq(S \cap T)
         /\ \A i \in 1..Len(s) : s[i] \in T =>
              \E j \in 1..Len(Subsequence(s, T)) : Subsequence(s, T)[j] = s[i]
         /\ \A j \in 1..Len(Subsequence(s, T)) :
              \E i \in 1..Len(s) : s[i] = Subsequence(s, T)[j]
<1> DEFINE Has(q, x) == \E j \in 1..Len(q) : q[j] = x
           Good == {q \in Seq(S) : /\ Subsequence(q, T) \in Seq(S \cap T)
                                   /\ \A x \in T : Has(q, x) => Has(Subsequence(q, T), x)
                                   /\ \A x : Has(Subsequence(q, T), x) => Has(q, x)}
<1>1. <<>> \in Good
  <2>1. Subsequence(<<>>, T) = <<>>
    BY SubsequenceEmpty
  <2>2. /\ <<>> \in Seq(S) /\ <<>> \in Seq(S \cap T)
        /\ \A x : ~Has(<<>>, x)
    BY EmptySeq
  <2> HIDE DEF Has
  <2> QED BY <2>1, <2>2
<1>2. ASSUME NEW q \in Seq(S), NEW k \in S, q \in Good PROVE Append(q, k) \in Good
  <2> DEFINE sub == Subsequence(q, T)
  <2>1. /\ sub \in Seq(S \cap T)
        /\ \A x \in T : Has(q, x) => Has(sub, x)
        /\ \A x : Has(sub, x) => Has(q, x)
    BY <1>2
  <2>2. Subsequence(Append(q, k), T) = IF k \in T THEN Append(sub, k) ELSE sub
    BY SubsequenceAppend
  <2> HIDE DEF sub
  <2>3. Append(q, k) \in Seq(S) /\ \A x : Has(Append(q, k), x) <=> Has(q, x) \/ x = k
    OBVIOUS
  <2>4. ASSUME k \in T PROVE \A x : Has(Append(sub, k), x) <=> Has(sub, x) \/ x = k
    <3>1. k \in S \cap T
      BY <2>4
    <3>2. /\ Len(sub) \in Nat /\ Len(Append(sub, k)) = Len(sub) + 1
          /\ \A i \in 1..Len(sub) : Append(sub, k)[i] = sub[i]
          /\ Append(sub, k)[Len(sub) + 1] = k
      BY <2>1, <3>1
    <3> DEFINE longer == Append(sub, k)
    <3> HIDE DEF longer
    <3> QED BY <3>2 DEF longer
  <2>5. k \in T => Append(sub, k) \in Seq(S \cap T)
    BY <2>1
  <2> HIDE DEF Has
  <2>6. CASE k \in T
    BY <2>1, <2>2, <2>3, <2>4, <2>5, <2>6
  <2>7. CASE k \notin T
    BY <2>1, <2>2, <2>3, <2>7
  <2> QED BY <2>6, <2>7
<1> HIDE DEF Good
<1>3. s \in Good
  BY <1>1, <1>2, SequenceInduction
<1>4. /\ Subsequence(s, T) \in Seq(S \cap T)
      /\ \A x \in T : Has(s, x) => Has(Subsequence(s, T), x)
      /\ \A x : Has(Subsequence(s, T), x) => Has(s, x)
  BY <1>3 DEF Good
<1> QED BY <1>4

(***************************************************************************)
(* The head is selected first, if it is in the set.                        *)
(***************************************************************************)
LEMMA SubsequenceTail ==
  ASSUME NEW S, NEW s \in Seq(S), s # <<>>, NEW T
  PROVE  Subsequence(s, T) = IF s[1] \in T THEN <<s[1]>> \o Subsequence(Tail(s), T)
                                           ELSE Subsequence(Tail(s), T)
<1> DEFINE Headed(q) == Subsequence(q, T) = IF q[1] \in T
                                            THEN <<q[1]>> \o Subsequence(Tail(q), T)
                                            ELSE Subsequence(Tail(q), T)
           Good == {q \in Seq(S) : q # <<>> => Headed(q)}
<1>1. <<>> \in Good
  BY EmptySeq
<1>2. ASSUME NEW q \in Seq(S), NEW k \in S, q \in Good PROVE Append(q, k) \in Good
  <2> DEFINE longer == Append(q, k)
  <2>0. longer \in Seq(S)
    OBVIOUS
  <2>1. Subsequence(longer, T) = IF k \in T THEN Append(Subsequence(q, T), k) ELSE Subsequence(q, T)
    BY SubsequenceAppend
  <2>2. ASSUME q = <<>> PROVE Headed(longer)
    <3>1. longer[1] = k /\ Tail(longer) = <<>>
      BY <2>2
    <3>2. Subsequence(<<>>, T) = <<>>
      BY SubsequenceEmpty
    <3>3. Append(<<>>, k) = <<k>> /\ <<k>> \o <<>> = <<k>>
      OBVIOUS
    <3> HIDE DEF longer
    <3> QED BY <2>1, <2>2, <3>1, <3>2, <3>3
  <2>3. ASSUME q # <<>> PROVE Headed(longer)
    <3>1. longer[1] = q[1] /\ q[1] \in S /\ Tail(q) \in Seq(S) /\ Tail(longer) = Append(Tail(q), k)
      BY <2>3
    <3>2. Subsequence(Tail(longer), T) = IF k \in T THEN Append(Subsequence(Tail(q), T), k)
                                                    ELSE Subsequence(Tail(q), T)
      BY <3>1, SubsequenceAppend
    <3>3. Headed(q)
      BY <1>2, <2>3
    <3> DEFINE rest == Subsequence(Tail(q), T)
    <3>4. rest \in Seq(S)
      <4>1. rest \in Seq(S \cap T)
        BY <3>1, SubsequenceElements
      <4> HIDE DEF rest
      <4> QED BY <4>1, SeqMonotonic
    <3>5. Append(<<q[1]>> \o rest, k) = <<q[1]>> \o Append(rest, k)
      <4> HIDE DEF rest
      <4> QED BY <3>1, <3>4
    <3> HIDE DEF longer
    <3> QED BY <2>1, <3>1, <3>2, <3>3, <3>5
  <2>4. Headed(longer)
    BY <2>2, <2>3
  <2> HIDE DEF Headed
  <2> QED BY <2>0, <2>4
<1> HIDE DEF Good
<1>3. s \in Good
  BY <1>1, <1>2, SequenceInduction
<1> QED BY <1>3 DEF Good

(***************************************************************************)
(* If no element comes twice, none is selected twice.                      *)
(***************************************************************************)
LEMMA SubsequenceDistinct ==
  ASSUME NEW S, NEW s \in Seq(S), NEW T,
         \A i, j \in 1..Len(s) : s[i] = s[j] => i = j
  PROVE  \A i, j \in 1..Len(Subsequence(s, T)) :
           Subsequence(s, T)[i] = Subsequence(s, T)[j] => i = j
<1> DEFINE Distinct(q) == \A i, j \in 1..Len(q) : q[i] = q[j] => i = j
           Good == {q \in Seq(S) : Distinct(q) => Distinct(Subsequence(q, T))}
<1>1. <<>> \in Good
  <2>1. Subsequence(<<>>, T) = <<>>
    BY SubsequenceEmpty
  <2> QED BY <2>1, EmptySeq
<1>2. ASSUME NEW q \in Seq(S), NEW k \in S, q \in Good PROVE Append(q, k) \in Good
  <2> DEFINE sub == Subsequence(q, T)
  <2>0. Append(q, k) \in Seq(S)
    OBVIOUS
  <2> SUFFICES ASSUME Distinct(Append(q, k)) PROVE Distinct(Subsequence(Append(q, k), T))
    <3> HIDE DEF Distinct
    <3> QED BY <2>0
  <2>1. Distinct(q) /\ \A i \in 1..Len(q) : q[i] # k
    <3>1. Len(Append(q, k)) = Len(q) + 1 /\ Append(q, k)[Len(q) + 1] = k /\ Len(q) \in Nat
      OBVIOUS
    <3>2. \A i \in 1..Len(q) : Append(q, k)[i] = q[i]
      OBVIOUS
    <3> QED BY <3>1, <3>2
  <2>2. Distinct(sub)
    BY <1>2, <2>1
  <2>3. sub \in Seq(S) /\ \A j \in 1..Len(sub) : sub[j] # k
    <3>1. sub \in Seq(S \cap T) /\ \A j \in 1..Len(sub) : \E i \in 1..Len(q) : q[i] = sub[j]
      BY SubsequenceElements
    <3> HIDE DEF sub
    <3> QED BY <2>1, <3>1, SeqMonotonic
  <2>4. Subsequence(Append(q, k), T) = IF k \in T THEN Append(sub, k) ELSE sub
    BY SubsequenceAppend
  <2> HIDE DEF sub
  <2>5. Distinct(Append(sub, k))
    BY <2>2, <2>3
  <2> HIDE DEF Distinct
  <2> QED BY <2>2, <2>4, <2>5
<1> HIDE DEF Good
<1>3. s \in Good
  BY <1>1, <1>2, SequenceInduction
<1> QED BY <1>3 DEF Good

-----------------------------------------------------------------------------
(***************************************************************************)
(* Removing one place of a sequence: what is left, and where.              *)
(***************************************************************************)
LEMMA RemoveAtProps ==
  ASSUME NEW S, NEW s \in Seq(S), NEW i \in 1..Len(s)
  PROVE  /\ RemoveAt(s, i) \in Seq(S)
         /\ Len(RemoveAt(s, i)) = Len(s) - 1
         /\ \A j \in 1..(Len(s) - 1) :
              RemoveAt(s, i)[j] = IF j < i THEN s[j] ELSE s[j + 1]
<1> DEFINE front == SubSeq(s, 1, i - 1)
           back  == SubSeq(s, i + 1, Len(s))
<1>1. /\ front \in Seq(S) /\ Len(front) = i - 1
      /\ \A j \in 1..(i - 1) : front[j] = s[j]
  OBVIOUS
<1>2. /\ back \in Seq(S) /\ Len(back) = Len(s) - i
      /\ \A j \in 1..(Len(s) - i) : back[j] = s[j + i]
  OBVIOUS
<1>3. RemoveAt(s, i) = front \o back
  BY DEF RemoveAt
<1> HIDE DEF front, back
<1>4. /\ front \o back \in Seq(S)
      /\ Len(front \o back) = Len(s) - 1
      /\ \A j \in 1..(Len(s) - 1) :
           (front \o back)[j] = IF j < i THEN front[j] ELSE back[j - (i - 1)]
  <2>1. /\ front \o back \in Seq(S)
        /\ Len(front \o back) = Len(front) + Len(back)
    BY <1>1, <1>2, ConcatProperties
  <2>2. \A j \in 1..(Len(front) + Len(back)) :
          (front \o back)[j] = IF j <= Len(front) THEN front[j] ELSE back[j - Len(front)]
    BY <1>1, <1>2, ConcatProperties
  <2> QED
    BY <1>1, <1>2, <2>1, <2>2
<1> QED
  BY <1>1, <1>2, <1>3, <1>4

(***************************************************************************)
(* Touching a key (IdempotencyCache.seen) keeps the others and makes the   *)
(* key the last one.                                                       *)
(***************************************************************************)
LEMMA TouchProps ==
  ASSUME NEW S, NEW cache \in Seq(S), NEW k \in S
  PROVE  /\ Touch(cache, k) \in Seq(S)
         /\ \A other : Seen(Touch(cache, k), other) => other = k \/ Seen(cache, other)
<1>1. CASE Seen(cache, k)
  <2> DEFINE i == CHOOSE j \in 1..Len(cache) : cache[j] = k
             rest == RemoveAt(cache, i)
  <2>1. i \in 1..Len(cache) /\ cache[i] = k
    BY <1>1 DEF Seen
  <2>2. /\ rest \in Seq(S) /\ Len(rest) = Len(cache) - 1
        /\ \A j \in 1..(Len(cache) - 1) : rest[j] = IF j < i THEN cache[j] ELSE cache[j + 1]
    BY <2>1, RemoveAtProps
  <2>3. Touch(cache, k) = Append(rest, k)
    BY <1>1 DEF Touch
  <2> HIDE DEF i, rest
  <2>4. Append(rest, k) \in Seq(S) /\ Len(Append(rest, k)) = Len(rest) + 1
    BY <2>2
  <2>5. ASSUME NEW other, Seen(Append(rest, k), other), other # k PROVE Seen(cache, other)
    <3>1. PICK j \in 1..(Len(rest) + 1) : Append(rest, k)[j] = other
      BY <2>4, <2>5 DEF Seen
    <3>2. j # Len(rest) + 1
      BY <2>2, <2>5, <3>1
    <3>3. j \in 1..(Len(cache) - 1) /\ rest[j] = other
      BY <2>2, <3>1, <3>2
    <3>4. j \in 1..Len(cache) /\ j + 1 \in 1..Len(cache)
      BY <3>3
    <3>5. cache[j] = other \/ cache[j + 1] = other
      BY <2>2, <3>3
    <3> QED BY <3>4, <3>5 DEF Seen
  <2> QED BY <2>3, <2>4, <2>5
<1>2. CASE ~Seen(cache, k)
  <2>1. Touch(cache, k) = Append(cache, k)
    BY <1>2 DEF Touch
  <2>2. \A other : Seen(Append(cache, k), other) => other = k \/ Seen(cache, other)
    BY DEF Seen
  <2> QED BY <2>1, <2>2
<1> QED
  BY <1>1, <1>2

\* What IdempotencyCache.add leaves of a cache that may be over its size.
Evicted(cache, size) == IF Len(cache) > size THEN Tail(cache) ELSE cache

(***************************************************************************)
(* Adding a key (IdempotencyCache.add) to a cache of some size adds no     *)
(* other, with or without an eviction.                                     *)
(***************************************************************************)
LEMMA AddProps ==
  ASSUME NEW S, NEW cache \in Seq(S), NEW k \in S, NEW size \in Nat \ {0},
         NEW added, added = Evicted(Touch(cache, k), size)
  PROVE  /\ added \in Seq(S)
         /\ \A other : Seen(added, other) => other = k \/ Seen(cache, other)
<1> DEFINE touched == Touch(cache, k)
<1>1. /\ touched \in Seq(S)
      /\ \A other : Seen(touched, other) => other = k \/ Seen(cache, other)
  BY TouchProps
<1>2. added = IF Len(touched) > size THEN Tail(touched) ELSE touched
  BY DEF Evicted
<1>3. /\ added \in Seq(S)
      /\ \A other : Seen(added, other) => Seen(touched, other)
  <2> HIDE DEF touched
  <2>1. CASE Len(touched) > size
    <3>1. touched # <<>>
      BY <1>1, <2>1
    <3> QED BY <1>1, <1>2, <2>1, <3>1 DEF Seen
  <2> QED BY <1>1, <1>2, <2>1
<1> QED
  BY <1>1, <1>3

-----------------------------------------------------------------------------
\* The cache holds a key once; y was used after x.
Distinct(s)    == \A i, j \in 1..Len(s) : s[i] = s[j] => i = j
After(s, x, y) == \E i, j \in 1..Len(s) : i < j /\ s[i] = x /\ s[j] = y

\* Among k and the keys used after x are as many different ones as the size.
FollowedByEnough(s, x, k, S, size) ==
  \E others \in SUBSET S : /\ Cardinality(others) = size
                           /\ \A y \in others : y = k \/ After(s, x, y)

(***************************************************************************)
(* Touching a key makes it the last one and keeps the order of the others. *)
(***************************************************************************)
LEMMA TouchOrder ==
  ASSUME NEW S, NEW cache \in Seq(S), Distinct(cache), NEW k \in S
  PROVE  LET t == Touch(cache, k) IN
         /\ t \in Seq(S) /\ Distinct(t)
         /\ Len(t) \in Nat \ {0} /\ t[Len(t)] = k
         /\ Len(t) = (IF Seen(cache, k) THEN Len(cache) ELSE Len(cache) + 1)
         /\ \A x : x # k => (Seen(t, x) <=> Seen(cache, x))
         /\ \A x, y : x # k /\ After(t, x, y) => y = k \/ After(cache, x, y)
<1> DEFINE n == Len(cache)
           t == Touch(cache, k)
<1>0. n \in Nat
  BY LenProperties
<1>1. CASE Seen(cache, k)
  <2> DEFINE i    == CHOOSE j \in 1..Len(cache) : cache[j] = k
             rest == RemoveAt(cache, i)
  <2>1. i \in 1..n /\ cache[i] = k
    BY <1>1 DEF Seen
  <2>2. /\ rest \in Seq(S) /\ Len(rest) = n - 1
        /\ \A j \in 1..(n - 1) : rest[j] = IF j < i THEN cache[j] ELSE cache[j + 1]
    BY <2>1, RemoveAtProps
  <2>3. t = Append(rest, k)
    BY <1>1 DEF Touch
  <2> HIDE DEF i, rest, t
  <2>4. /\ t \in Seq(S) /\ Len(t) = n /\ t[n] = k
        /\ \A j \in 1..(n - 1) : t[j] = IF j < i THEN cache[j] ELSE cache[j + 1]
    BY <1>0, <2>1, <2>2, <2>3
  <2> DEFINE was(j) == IF j = n THEN i ELSE IF j < i THEN j ELSE j + 1
  <2>5. \A j \in 1..n : was(j) \in 1..n /\ t[j] = cache[was(j)]
    BY <1>0, <2>1, <2>4
  <2>6. \A j, l \in 1..n : was(j) = was(l) => j = l
    BY <1>0, <2>1
  <2>7. \A j, l \in 1..(n - 1) : j < l => was(j) < was(l)
    BY <1>0, <2>1
  <2>8. \A l \in 1..n : \E j \in 1..n : was(j) = l
    <3> TAKE l \in 1..n
    <3>1. CASE l = i
      BY <1>0, <3>1
    <3>2. CASE l < i
      BY <1>0, <2>1, <3>2
    <3>3. CASE l > i
      <4>1. l - 1 \in 1..n /\ was(l - 1) = l
        BY <1>0, <2>1, <3>3
      <4> QED BY <4>1
    <3> QED BY <2>1, <3>1, <3>2, <3>3
  <2>9. was(n) = i
    OBVIOUS
  <2> HIDE DEF was
  <2>10. Distinct(t)
    BY <2>4, <2>5, <2>6 DEF Distinct
  <2>11. \A x : x # k => (Seen(t, x) <=> Seen(cache, x))
    <3>1. ASSUME NEW x, Seen(t, x) PROVE Seen(cache, x)
      <4>1. PICK j \in 1..n : t[j] = x
        BY <2>4, <3>1 DEF Seen
      <4> QED BY <2>5, <4>1 DEF Seen
    <3>2. ASSUME NEW x, Seen(cache, x) PROVE Seen(t, x)
      <4>1. PICK l \in 1..n : cache[l] = x
        BY <3>2 DEF Seen
      <4>2. PICK j \in 1..n : was(j) = l
        BY <2>8
      <4> QED BY <2>4, <2>5, <4>1, <4>2 DEF Seen
    <3> QED BY <3>1, <3>2
  <2>12. ASSUME NEW x, NEW y, x # k, After(t, x, y), y # k PROVE After(cache, x, y)
    <3>1. PICK j, l \in 1..n : j < l /\ t[j] = x /\ t[l] = y
      BY <2>4, <2>12 DEF After
    <3>2. j \in 1..(n - 1) /\ l \in 1..(n - 1)
      BY <1>0, <2>4, <2>12, <3>1
    <3>3. was(j) < was(l) /\ cache[was(j)] = x /\ cache[was(l)] = y
      BY <2>5, <2>7, <3>1, <3>2
    <3> QED BY <2>5, <3>1, <3>3 DEF After
  <2> QED BY <1>0, <1>1, <2>1, <2>4, <2>10, <2>11, <2>12 DEF t
<1>2. CASE ~Seen(cache, k)
  <2>1. t = Append(cache, k)
    BY <1>2 DEF Touch
  <2> HIDE DEF t
  <2>2. /\ t \in Seq(S) /\ Len(t) = n + 1 /\ t[n + 1] = k
        /\ \A j \in 1..n : t[j] = cache[j] /\ cache[j] # k
    BY <1>2, <2>1 DEF Seen
  <2>3. Distinct(t)
    BY <1>0, <2>2 DEF Distinct
  <2>4. \A x : x # k => (Seen(t, x) <=> Seen(cache, x))
    BY <1>0, <2>2 DEF Seen
  <2>5. ASSUME NEW x, NEW y, x # k, After(t, x, y), y # k PROVE After(cache, x, y)
    <3>1. PICK j, l \in 1..(n + 1) : j < l /\ t[j] = x /\ t[l] = y
      BY <2>2, <2>5 DEF After
    <3>2. j \in 1..n /\ l \in 1..n
      BY <1>0, <2>2, <2>5, <3>1
    <3> QED BY <2>2, <3>1, <3>2 DEF After
  <2> QED BY <1>0, <1>2, <2>2, <2>3, <2>4, <2>5 DEF t
<1> QED
  BY <1>1, <1>2

(***************************************************************************)
(* All but the first of n + 1 distinct keys are n.                         *)
(***************************************************************************)
LEMMA TailCardinality ==
  ASSUME NEW S, NEW s \in Seq(S), Distinct(s), NEW n \in Nat, Len(s) = n + 1
  PROVE  /\ {s[j] : j \in 2..(n + 1)} \subseteq S
         /\ Cardinality({s[j] : j \in 2..(n + 1)}) = n
<1> DEFINE T == {s[j] : j \in 2..(n + 1)}
           f == [i \in 1..n |-> s[i + 1]]
<1>1. \A j \in 2..(n + 1) : s[j] \in S
  BY ElementOfSeq
<1>2. IsFiniteSet(1..n) /\ Cardinality(1..n) = n
  BY FS_Interval
<1>3. f \in [1..n -> T]
  OBVIOUS
<1>4. \A a, b \in 1..n : f[a] = f[b] => a = b
  BY DEF Distinct
<1>5. \A t \in T : \E i \in 1..n : f[i] = t
  <2> TAKE t \in T
  <2>1. PICK j \in 2..(n + 1) : t = s[j]
    OBVIOUS
  <2>2. j - 1 \in 1..n /\ f[j - 1] = t
    BY <2>1
  <2> QED BY <2>2
<1>6. f \in Injection(1..n, T) /\ f \in Surjection(1..n, T)
  BY <1>3, <1>4, <1>5 DEF Injection, Surjection, IsInjective
<1>7. Cardinality(T) = n
  BY <1>2, <1>6, FS_Surjection
<1> QED
  BY <1>1, <1>7

(***************************************************************************)
(* Adding a key: the cache stays within its size, and a key it evicts was  *)
(* followed by as many others.                                             *)
(***************************************************************************)
LEMMA AddOrder ==
  ASSUME NEW S, NEW cache \in Seq(S), NEW size \in Nat \ {0},
         Distinct(cache), Len(cache) <= size, NEW k \in S
  PROVE  LET a == Evicted(Touch(cache, k), size) IN
         /\ a \in Seq(S) /\ Distinct(a) /\ Len(a) <= size
         /\ Seen(a, k) /\ \A y : ~After(a, k, y)
         /\ \A x, y : x # k /\ After(a, x, y) => y = k \/ After(cache, x, y)
         /\ \A x : x # k /\ Seen(a, x) => Seen(cache, x)
         /\ \A x : x # k /\ Seen(cache, x) /\ ~Seen(a, x) => FollowedByEnough(cache, x, k, S, size)
<1> DEFINE t == Touch(cache, k)
           a == Evicted(t, size)
           n == Len(t)
<1>0. size \in Nat \ {0} /\ Len(cache) \in Nat
  BY LenProperties
<1>1. /\ t \in Seq(S) /\ Distinct(t)
      /\ n \in Nat \ {0} /\ t[n] = k
      /\ n = (IF Seen(cache, k) THEN Len(cache) ELSE Len(cache) + 1)
      /\ \A x : x # k => (Seen(t, x) <=> Seen(cache, x))
      /\ \A x, y : x # k /\ After(t, x, y) => y = k \/ After(cache, x, y)
  BY TouchOrder
<1>2. a = IF n > size THEN Tail(t) ELSE t
  BY DEF Evicted
<1> HIDE DEF t, a
<1>3. \A y : ~After(t, k, y)
  BY <1>1 DEF After, Distinct
<1>4. Seen(t, k)
  BY <1>1 DEF Seen
<1>5. CASE n <= size
  <2>1. a = t
    BY <1>0, <1>1, <1>2, <1>5
  <2> QED BY <1>1, <1>3, <1>4, <1>5, <2>1 DEF a, t
<1>6. CASE n > size
  <2>1. n = size + 1 /\ n >= 2
    BY <1>0, <1>1, <1>6
  <2>2. a = Tail(t)
    BY <1>2, <1>6
  <2>3. /\ a \in Seq(S) /\ Len(a) = size
        /\ \A j \in 1..size : a[j] = t[j + 1]
    <3>1. t # <<>>
      BY <1>1
    <3> QED BY <1>0, <1>1, <2>1, <2>2, <3>1, HeadTailProperties
  <2>4. Distinct(a)
    <3> SUFFICES ASSUME NEW i \in 1..size, NEW j \in 1..size, a[i] = a[j] PROVE i = j
      BY <2>3 DEF Distinct
    <3>1. i + 1 \in 1..n /\ j + 1 \in 1..n /\ t[i + 1] = t[j + 1]
      BY <1>0, <2>1, <2>3
    <3>2. i + 1 = j + 1
      BY <1>1, <3>1 DEF Distinct
    <3> QED BY <1>0, <3>2
  <2>5. Seen(a, k)
    <3>1. a[size] = k
      BY <1>0, <1>1, <2>1, <2>3
    <3> QED BY <1>0, <2>3, <3>1 DEF Seen
  <2>6. \A x, y : After(a, x, y) => After(t, x, y)
    <3> TAKE x, y
    <3> HAVE After(a, x, y)
    <3>1. PICK i, j \in 1..size : i < j /\ a[i] = x /\ a[j] = y
      BY <2>3 DEF After
    <3>2. i + 1 \in 1..n /\ j + 1 \in 1..n /\ i + 1 < j + 1 /\ t[i + 1] = x /\ t[j + 1] = y
      BY <1>0, <2>1, <2>3, <3>1
    <3> QED BY <3>2 DEF After
  <2>7. \A x : Seen(a, x) => Seen(t, x)
    BY <1>0, <2>1, <2>3 DEF Seen
  <2>8. ASSUME NEW x, x # k, Seen(cache, x), ~Seen(a, x)
        PROVE  FollowedByEnough(cache, x, k, S, size)
    <3> DEFINE others == {t[j] : j \in 2..(size + 1)}
    <3>1. PICK p \in 1..n : t[p] = x
      BY <1>1, <2>8 DEF Seen
    <3>2. p = 1
      <4> SUFFICES ASSUME p # 1 PROVE FALSE
        OBVIOUS
      <4>1. p - 1 \in 1..size /\ a[p - 1] = x
        BY <1>0, <2>1, <2>3, <3>1
      <4> QED BY <2>3, <2>8, <4>1 DEF Seen
    <3>3. others \subseteq S /\ Cardinality(others) = size
      BY <1>0, <1>1, <2>1, TailCardinality
    <3>4. \A j \in 2..(size + 1) : After(t, x, t[j])
      BY <1>0, <1>1, <2>1, <3>1, <3>2 DEF After
    <3>5. \A y \in others : y = k \/ After(cache, x, y)
      BY <1>1, <2>8, <3>4
    <3> QED BY <3>3, <3>5 DEF FollowedByEnough
  <2> QED
    BY <1>0, <1>1, <1>3, <2>3, <2>4, <2>5, <2>6, <2>7, <2>8 DEF a, t
<1> QED
  BY <1>0, <1>1, <1>5, <1>6
-----------------------------------------------------------------------------
\* The element SumFunction takes out of a set first.
Pick(T) == CHOOSE x \in T : TRUE

\* The sums of f over the subsets of S, as SumFunction works them out.
SumStep(f, g, T) == IF T = {} THEN 0 ELSE f[Pick(T)] + g[T \ {Pick(T)}]

IsSumTable(f, S, g) == g = [T \in SUBSET S |-> SumStep(f, g, T)]

\* Taking one out.
LEMMA PickOne ==
  ASSUME NEW S, IsFiniteSet(S), NEW T \in SUBSET S, T # {}
  PROVE  /\ Pick(T) \in T /\ T \ {Pick(T)} \in SUBSET S
         /\ IsFiniteSet(T) /\ IsFiniteSet(T \ {Pick(T)})
         /\ Cardinality(T) \in Nat \ {0}
         /\ Cardinality(T \ {Pick(T)}) = Cardinality(T) - 1
<1>1. Pick(T) \in T
  BY DEF Pick
<1>2. IsFiniteSet(T)
  BY FS_Subset
<1>3. /\ IsFiniteSet(T \ {Pick(T)}) /\ Cardinality(T) \in Nat /\ Cardinality(T) # 0
      /\ Cardinality(T \ {Pick(T)}) = Cardinality(T) - 1
  BY <1>1, <1>2, FS_RemoveElement, FS_CardinalityType, FS_EmptySet
<1> QED
  BY <1>1, <1>2, <1>3

(***************************************************************************)
(* A set with {} and every subset of S that has one element more than one  *)
(* of its own has all subsets of S.                                        *)
(***************************************************************************)
LEMMA SubsetInduction ==
  ASSUME NEW S, IsFiniteSet(S), NEW G, {} \in G,
         \A T \in SUBSET S : T # {} /\ T \ {Pick(T)} \in G => T \in G
  PROVE  S \in G
<1> DEFINE Good == {n \in Nat : \A T \in SUBSET S : Cardinality(T) = n => T \in G}
<1>0. \A T \in SUBSET S : IsFiniteSet(T) /\ Cardinality(T) \in Nat
  BY FS_Subset, FS_CardinalityType
<1>1. 0 \in Good
  <2> SUFFICES ASSUME NEW T \in SUBSET S, Cardinality(T) = 0 PROVE T \in G
    OBVIOUS
  <2>1. T = {}
    BY <1>0, FS_EmptySet
  <2> QED BY <2>1
<1>2. ASSUME NEW n \in Nat, n \in Good PROVE n + 1 \in Good
  <2> SUFFICES ASSUME NEW T \in SUBSET S, Cardinality(T) = n + 1 PROVE T \in G
    OBVIOUS
  <2>1. T # {}
    BY FS_EmptySet
  <2>2. T \ {Pick(T)} \in SUBSET S /\ Cardinality(T \ {Pick(T)}) = n
    <3>1. Cardinality(T \ {Pick(T)}) = Cardinality(T) - 1 /\ T \ {Pick(T)} \in SUBSET S
      BY <2>1, PickOne
    <3> QED BY <3>1
  <2>3. T \ {Pick(T)} \in G
    BY <1>2, <2>2
  <2> QED BY <2>1, <2>3
<1> HIDE DEF Good
<1>3. \A n \in Nat : n \in Good
  BY <1>1, <1>2, SetInduction
<1>4. Cardinality(S) \in Good
  BY <1>0, <1>3
<1> QED BY <1>4 DEF Good

(***************************************************************************)
(* The recursion of the sum defines a function, for every finite set.      *)
(***************************************************************************)
LEMMA SumTableExists ==
  ASSUME NEW f, NEW S, IsFiniteSet(S)
  PROVE  \E g : IsSumTable(f, S, g)
<1> DEFINE Small(n) == {T \in SUBSET S : Cardinality(T) <= n}
           Good == {n \in Nat : \E g : g = [T \in Small(n) |-> SumStep(f, g, T)]}
<1>0. \A T \in SUBSET S : IsFiniteSet(T) /\ Cardinality(T) \in Nat /\ Cardinality(T) <= Cardinality(S)
  BY FS_Subset, FS_CardinalityType
<1>1. 0 \in Good
  <2> DEFINE g == [T \in Small(0) |-> 0]
  <2>1. \A T \in Small(0) : T = {}
    BY <1>0, FS_EmptySet
  <2>2. g = [T \in Small(0) |-> SumStep(f, g, T)]
    BY <2>1 DEF SumStep
  <2> HIDE DEF g
  <2> QED BY <2>2
<1>2. ASSUME NEW n \in Nat, n \in Good PROVE n + 1 \in Good
  <2>1. PICK g : g = [T \in Small(n) |-> SumStep(f, g, T)]
    BY <1>2
  <2> DEFINE h == [T \in Small(n + 1) |-> IF Cardinality(T) <= n THEN g[T] ELSE SumStep(f, g, T)]
  <2>2. \A T \in Small(n + 1) : h[T] = SumStep(f, h, T)
    <3> TAKE T \in Small(n + 1)
    <3>0. T \in SUBSET S
      OBVIOUS
    <3>1. h[T] = SumStep(f, g, T)
      BY <2>1
    <3>2. T # {} => h[T \ {Pick(T)}] = g[T \ {Pick(T)}]
      <4> HAVE T # {}
      <4>1. /\ T \ {Pick(T)} \in SUBSET S /\ Cardinality(T) \in Nat
            /\ Cardinality(T \ {Pick(T)}) = Cardinality(T) - 1
        BY <3>0, PickOne
      <4>2. Cardinality(T) <= n + 1
        OBVIOUS
      <4>3. Cardinality(T \ {Pick(T)}) <= n /\ T \ {Pick(T)} \in Small(n + 1)
        BY <4>1, <4>2
      <4> QED BY <4>3
    <3> HIDE DEF h
    <3> QED BY <3>1, <3>2 DEF SumStep
  <2>3. h = [T \in Small(n + 1) |-> SumStep(f, h, T)]
    <3> DEFINE k == [T \in Small(n + 1) |-> SumStep(f, h, T)]
    <3>1. \A T \in Small(n + 1) : h[T] = k[T]
      BY <2>2
    <3> HIDE DEF Small
    <3> QED BY <3>1
  <2> HIDE DEF h
  <2> QED BY <2>3
<1> HIDE DEF Good
<1>3. \A n \in Nat : n \in Good
  BY <1>1, <1>2, SetInduction
<1>4. Cardinality(S) \in Good
  BY <1>3, FS_CardinalityType
<1>5. Small(Cardinality(S)) = SUBSET S
  BY <1>0
<1> HIDE DEF Small
<1> QED BY <1>4, <1>5 DEF Good, IsSumTable

\* What the entries of such a table have to do with each other.
SumsUp(f, S, g) ==
  /\ g[{}] = 0
  /\ \A T \in SUBSET S : T # {} => g[T] = f[Pick(T)] + g[T \ {Pick(T)}]

(***************************************************************************)
(* The sum of the values of a function is the last entry of such a table.  *)
(***************************************************************************)
LEMMA SumTable ==
  ASSUME NEW S, IsFiniteSet(S), NEW f, DOMAIN f = S
  PROVE  \E g : SumsUp(f, S, g) /\ SumFunction(f) = g[S]
<1> DEFINE g == CHOOSE g : g = [T \in SUBSET S |-> SumStep(f, g, T)]
<1>1. g = [T \in SUBSET S |-> SumStep(f, g, T)]
  BY SumTableExists DEF IsSumTable
<1>2. SumFunction(f) = g[S]
  BY DEF SumFunction, SumFunctionOnSet, FoldFunctionOnSet, MapThenFoldSet, SumStep, Pick
<1> HIDE DEF g
<1>3. \A T \in SUBSET S : g[T] = SumStep(f, g, T)
  BY <1>1
<1>4. {} \in SUBSET S
  OBVIOUS
<1>5. SumsUp(f, S, g)
  BY <1>3, <1>4 DEF SumStep, SumsUp
<1> QED BY <1>2, <1>5

(***************************************************************************)
(* A sum of integers is an integer.                                        *)
(***************************************************************************)
LEMMA SumInt ==
  ASSUME NEW S, IsFiniteSet(S), NEW f \in [S -> Int]
  PROVE  SumFunction(f) \in Int
<1>1. PICK g : SumsUp(f, S, g) /\ SumFunction(f) = g[S]
  BY SumTable
<1> DEFINE G == {T \in SUBSET S : g[T] \in Int}
<1>2. g[{}] = 0 /\ \A T \in SUBSET S : T # {} => g[T] = f[Pick(T)] + g[T \ {Pick(T)}]
  BY <1>1 DEF SumsUp
<1>3. {} \in G
  BY <1>2
<1>4. ASSUME NEW T \in SUBSET S, T # {}, T \ {Pick(T)} \in G PROVE T \in G
  <2>1. Pick(T) \in S
    BY <1>4, PickOne
  <2>2. f[Pick(T)] \in Int /\ g[T \ {Pick(T)}] \in Int
    BY <1>4, <2>1
  <2>3. g[T] = f[Pick(T)] + g[T \ {Pick(T)}]
    BY <1>2, <1>4
  <2>4. g[T] \in Int
    BY <2>2, <2>3
  <2> QED BY <2>4
<1>5. S \in G
  <2> HIDE DEF G
  <2> QED BY <1>3, <1>4, SubsetInduction
<1> QED BY <1>1, <1>5

\* h is a combination of f and g and a constant.
Combined(S, h, a, f, b, g, c) ==
  /\ f \in [S -> Int] /\ g \in [S -> Int] /\ h \in [S -> Int]
  /\ a \in Int /\ b \in Int /\ c \in Int
  /\ \A i \in S : h[i] = a * f[i] + b * g[i] + c

(***************************************************************************)
(* The sum is linear.                                                      *)
(***************************************************************************)
LEMMA SumLinear ==
  ASSUME NEW S, IsFiniteSet(S), NEW f, NEW g, NEW h, NEW a, NEW b, NEW c,
         Combined(S, h, a, f, b, g, c)
  PROVE  SumFunction(h) = a * SumFunction(f) + b * SumFunction(g) + c * Cardinality(S)
<1>0. /\ f \in [S -> Int] /\ g \in [S -> Int] /\ h \in [S -> Int]
      /\ a \in Int /\ b \in Int /\ c \in Int
      /\ \A i \in S : h[i] = a * f[i] + b * g[i] + c
  BY DEF Combined
<1>1. PICK F : SumsUp(f, S, F) /\ SumFunction(f) = F[S]
  BY <1>0, SumTable
<1>2. PICK E : SumsUp(g, S, E) /\ SumFunction(g) = E[S]
  BY <1>0, SumTable
<1>3. PICK H : SumsUp(h, S, H) /\ SumFunction(h) = H[S]
  BY <1>0, SumTable
<1> DEFINE Linear(T) == H[T] = a * F[T] + b * E[T] + c * Cardinality(T)
           G == {T \in SUBSET S : F[T] \in Int /\ E[T] \in Int /\ Linear(T)}
<1>4. /\ F[{}] = 0 /\ \A T \in SUBSET S : T # {} => F[T] = f[Pick(T)] + F[T \ {Pick(T)}]
      /\ E[{}] = 0 /\ \A T \in SUBSET S : T # {} => E[T] = g[Pick(T)] + E[T \ {Pick(T)}]
      /\ H[{}] = 0 /\ \A T \in SUBSET S : T # {} => H[T] = h[Pick(T)] + H[T \ {Pick(T)}]
  <2>1. F[{}] = 0 /\ \A T \in SUBSET S : T # {} => F[T] = f[Pick(T)] + F[T \ {Pick(T)}]
    BY <1>1 DEF SumsUp
  <2>2. E[{}] = 0 /\ \A T \in SUBSET S : T # {} => E[T] = g[Pick(T)] + E[T \ {Pick(T)}]
    BY <1>2 DEF SumsUp
  <2>3. H[{}] = 0 /\ \A T \in SUBSET S : T # {} => H[T] = h[Pick(T)] + H[T \ {Pick(T)}]
    BY <1>3 DEF SumsUp
  <2> QED BY <2>1, <2>2, <2>3
<1>5. {} \in G
  <2>1. Cardinality({}) = 0 /\ F[{}] = 0 /\ E[{}] = 0 /\ H[{}] = 0
    BY <1>4, FS_EmptySet
  <2> QED BY <1>0, <2>1
<1>6. ASSUME NEW T \in SUBSET S, T # {}, T \ {Pick(T)} \in G PROVE T \in G
  <2> DEFINE x == Pick(T)
             R == T \ {x}
  <2>1. x \in S /\ Cardinality(T) \in Nat /\ Cardinality(R) = Cardinality(T) - 1
    BY <1>6, PickOne
  <2>2. F[R] \in Int /\ E[R] \in Int /\ H[R] = a * F[R] + b * E[R] + c * Cardinality(R)
    BY <1>6
  <2>3. F[T] = f[x] + F[R] /\ E[T] = g[x] + E[R] /\ H[T] = h[x] + H[R]
    BY <1>4, <1>6
  <2>4. h[x] = a * f[x] + b * g[x] + c /\ f[x] \in Int /\ g[x] \in Int
    BY <1>0, <2>1
  <2> DEFINE n == Cardinality(T)
  <2> HIDE DEF x, R, n
  <2>5. F[T] \in Int /\ E[T] \in Int
    BY <2>2, <2>3, <2>4
  <2>6. H[T] = (a * f[x] + b * g[x] + c) + (a * F[R] + b * E[R] + c * (n - 1))
    BY <2>1, <2>2, <2>3, <2>4 DEF n
  <2>7. /\ a * F[T] = a * f[x] + a * F[R] /\ b * E[T] = b * g[x] + b * E[R]
        /\ c * (n - 1) = c * n - c /\ n \in Nat
    BY <1>0, <2>1, <2>2, <2>3, <2>4 DEF n
  <2>8. H[T] = a * F[T] + b * E[T] + c * n
    <3> DEFINE p == a * f[x]
               q == a * F[R]
               r == b * g[x]
               s == b * E[R]
               u == c * n
    <3>1. p \in Int /\ q \in Int /\ r \in Int /\ s \in Int /\ u \in Int
      BY <1>0, <2>2, <2>4, <2>7
    <3>2. H[T] = (p + r + c) + (q + s + (u - c)) /\ a * F[T] = p + q /\ b * E[T] = r + s /\ c * n = u
      BY <2>6, <2>7
    <3> HIDE DEF p, q, r, s, u
    <3>3. H[T] = (p + q) + (r + s) + u
      BY <1>0, <3>1, <3>2
    <3> QED BY <3>2, <3>3
  <2> QED BY <2>5, <2>8 DEF n
<1>7. S \in G
  <2> HIDE DEF G
  <2> QED BY <1>5, <1>6, SubsetInduction
<1> QED BY <1>1, <1>2, <1>3, <1>7

\* h is a multiple of f; h is the same everywhere.
Scaled(S, h, a, f) ==
  f \in [S -> Int] /\ h \in [S -> Int] /\ a \in Int /\ \A i \in S : h[i] = a * f[i]

Constant(S, h, c) == h \in [S -> Int] /\ c \in Int /\ \A i \in S : h[i] = c

(***************************************************************************)
(* The sums of a multiple and of a constant.                               *)
(***************************************************************************)
LEMMA SumScaled ==
  ASSUME NEW S, IsFiniteSet(S), NEW f, NEW h, NEW a, Scaled(S, h, a, f)
  PROVE  SumFunction(h) = a * SumFunction(f)
<1>0. f \in [S -> Int] /\ h \in [S -> Int] /\ a \in Int /\ \A i \in S : h[i] = a * f[i]
  BY DEF Scaled
<1> DEFINE z == 0
<1>1. z \in Int /\ SumFunction(f) \in Int /\ Cardinality(S) \in Int
  BY <1>0, SumInt, FS_CardinalityType
<1>2. \A i \in S : h[i] = a * f[i] + z * f[i] + z
  <2>1. \A i \in S : a * f[i] \in Int /\ z * f[i] = 0
    BY <1>0
  <2> QED BY <1>0, <2>1
<1>3. \A x \in Int : z * x = 0
  OBVIOUS
<1> HIDE DEF z
<1>4. SumFunction(h) = a * SumFunction(f) + z * SumFunction(f) + z * Cardinality(S)
  <2>1. Combined(S, h, a, f, z, f, z)
    BY <1>0, <1>1, <1>2 DEF Combined
  <2> QED BY <2>1, SumLinear
<1> DEFINE s == SumFunction(f)
           n == Cardinality(S)
<1>5. z * s = 0 /\ z * n = 0 /\ a * s \in Int
  BY <1>0, <1>1, <1>3
<1> HIDE DEF s, n
<1> QED BY <1>4, <1>5 DEF s, n

LEMMA SumConstant ==
  ASSUME NEW S, IsFiniteSet(S), NEW h, NEW c, Constant(S, h, c)
  PROVE  SumFunction(h) = c * Cardinality(S)
<1>0. h \in [S -> Int] /\ c \in Int /\ \A i \in S : h[i] = c
  BY DEF Constant
<1> DEFINE z == 0
<1>1. z \in Int /\ SumFunction(h) \in Int /\ Cardinality(S) \in Int
  BY <1>0, SumInt, FS_CardinalityType
<1>2. \A i \in S : h[i] = z * h[i] + z * h[i] + c
  BY <1>0
<1>3. \A x \in Int : z * x = 0
  OBVIOUS
<1> HIDE DEF z
<1>4. SumFunction(h) = z * SumFunction(h) + z * SumFunction(h) + c * Cardinality(S)
  <2>1. Combined(S, h, z, h, z, h, c)
    BY <1>0, <1>1, <1>2 DEF Combined
  <2> QED BY <2>1, SumLinear
<1> DEFINE s == SumFunction(h)
           n == Cardinality(S)
<1>5. z * s = 0 /\ c * n \in Int
  BY <1>0, <1>1, <1>3
<1> HIDE DEF s, n
<1> QED BY <1>4, <1>5 DEF s, n

\* No square is negative.
LEMMA SquareOf ==
  ASSUME NEW d \in Int
  PROVE  d * d \in Nat /\ (d * d = 0 => d = 0)
<1>1. d = 0 => d * d = 0
  OBVIOUS
<1>2. d > 0 => d * d > 0
  OBVIOUS
<1>3. d < 0 => d * d > 0
  OBVIOUS
<1> QED BY <1>1, <1>2, <1>3

(***************************************************************************)
(* Any number of integers times the sum of their squares is the square of  *)
(* their sum or more; it is the same only if they are all equal.           *)
(***************************************************************************)
LEMMA SumOfSquares ==
  ASSUME NEW S, IsFiniteSet(S), NEW f \in [S -> Int], NEW h \in [S -> Int],
         \A i \in S : h[i] = f[i] * f[i]
  PROVE  /\ Cardinality(S) * SumFunction(h) >= SumFunction(f) * SumFunction(f)
         /\ Cardinality(S) * SumFunction(h) = SumFunction(f) * SumFunction(f) =>
              \A i, j \in S : f[i] = f[j]
<1>1. PICK F : SumsUp(f, S, F) /\ SumFunction(f) = F[S]
  BY SumTable
<1>2. PICK H : SumsUp(h, S, H) /\ SumFunction(h) = H[S]
  BY SumTable
<1>3. /\ F[{}] = 0 /\ \A T \in SUBSET S : T # {} => F[T] = f[Pick(T)] + F[T \ {Pick(T)}]
      /\ H[{}] = 0 /\ \A T \in SUBSET S : T # {} => H[T] = h[Pick(T)] + H[T \ {Pick(T)}]
  <2>1. F[{}] = 0 /\ \A T \in SUBSET S : T # {} => F[T] = f[Pick(T)] + F[T \ {Pick(T)}]
    BY <1>1 DEF SumsUp
  <2>2. H[{}] = 0 /\ \A T \in SUBSET S : T # {} => H[T] = h[Pick(T)] + H[T \ {Pick(T)}]
    BY <1>2 DEF SumsUp
  <2> QED BY <2>1, <2>2
\* The sum of the squares of the distances from x.
<1> DEFINE Typed(T) == F[T] \in Int /\ H[T] \in Int
           Off(T, x) == (H[T] - (2 * x) * F[T]) + (x * x) * Cardinality(T)
           Near(T) == \A x \in Int : Off(T, x) >= 0 /\ (Off(T, x) = 0 => \A i \in T : f[i] = x)
           D(T) == Cardinality(T) * H[T] - F[T] * F[T]
           Apart(T) == D(T) >= 0 /\ (D(T) = 0 => \A i, j \in T : f[i] = f[j])
           G == {T \in SUBSET S : Typed(T) /\ Near(T) /\ Apart(T)}
<1>4. {} \in G
  <2>1. Cardinality({}) = 0 /\ F[{}] = 0 /\ H[{}] = 0
    BY <1>3, FS_EmptySet
  <2>2. Typed({}) /\ Near({}) /\ Apart({})
    BY <2>1
  <2> QED BY <2>2
<1>5. ASSUME NEW T \in SUBSET S, T # {}, T \ {Pick(T)} \in G PROVE T \in G
  <2> DEFINE y == Pick(T)
             R == T \ {y}
             v == f[y]
             n == Cardinality(R)
  <2>1. y \in T /\ y \in S /\ n \in Nat /\ Cardinality(T) = n + 1 /\ R \subseteq S
    <3>1. /\ y \in T /\ R \in SUBSET S /\ Cardinality(T) \in Nat \ {0}
          /\ n = Cardinality(T) - 1
      BY <1>5, PickOne
    <3> HIDE DEF y, R, n
    <3>2. n \in Nat /\ Cardinality(T) = n + 1
      BY <3>1
    <3> QED BY <3>1, <3>2
  <2>2. Typed(R) /\ Near(R) /\ Apart(R)
    BY <1>5
  <2>3. F[T] = v + F[R] /\ H[T] = v * v + H[R] /\ v \in Int
    BY <1>3, <1>5, <2>1
  <2>4. \A i \in T : i = y \/ i \in R
    OBVIOUS
  <2>5. F[R] \in Int /\ H[R] \in Int
    BY <2>2
  <2> HIDE DEF y, R, v, n
  <2>6. Typed(T)
    BY <2>3, <2>5
  <2>7. Near(T)
    <3> SUFFICES ASSUME NEW x \in Int
                 PROVE  Off(T, x) >= 0 /\ (Off(T, x) = 0 => \A i \in T : f[i] = x)
      OBVIOUS
    <3>1. Off(T, x) = Off(R, x) + (v - x) * (v - x)
      <4>1. \A p, m \in Int, r \in Nat :
              ((v * v + m) - (2 * x) * (v + p)) + (x * x) * (r + 1)
                = ((m - (2 * x) * p) + (x * x) * r) + (v - x) * (v - x)
        BY <2>3
      <4> QED BY <2>1, <2>3, <2>5, <4>1 DEF n
    <3>2. Off(R, x) \in Int /\ Off(R, x) >= 0 /\ (Off(R, x) = 0 => \A i \in R : f[i] = x)
      <4>1. Off(R, x) \in Int
        BY <2>1, <2>5 DEF n
      <4> HIDE DEF Off
      <4> QED BY <2>2, <4>1
    <3>3. (v - x) * (v - x) \in Nat /\ ((v - x) * (v - x) = 0 => v = x)
      <4> DEFINE d == v - x
      <4>1. d \in Int /\ (d = 0 => v = x)
        BY <2>3
      <4>2. d * d \in Nat /\ (d * d = 0 => d = 0)
        BY <4>1, SquareOf
      <4> QED BY <4>1, <4>2
    <3> HIDE DEF Off
    <3> QED BY <2>4, <3>1, <3>2, <3>3 DEF v
  <2>8. Apart(T)
    <3>1. D(T) = D(R) + Off(R, v)
      <4>1. \A p, m \in Int, r \in Nat :
              (r + 1) * (v * v + m) - (v + p) * (v + p)
                = (r * m - p * p) + ((m - (2 * v) * p) + (v * v) * r)
        BY <2>3
      <4>2. D(T) = (n + 1) * (v * v + H[R]) - (v + F[R]) * (v + F[R])
        BY <2>1, <2>3
      <4>3. D(R) = n * H[R] - F[R] * F[R] /\ Off(R, v) = (H[R] - (2 * v) * F[R]) + (v * v) * n
        BY DEF n
      <4> HIDE DEF D, Off
      <4> QED BY <2>1, <2>5, <4>1, <4>2, <4>3
    <3>2. /\ D(R) \in Int /\ D(R) >= 0
          /\ Off(R, v) \in Int /\ Off(R, v) >= 0 /\ (Off(R, v) = 0 => \A i \in R : f[i] = v)
      <4>1. D(R) \in Int /\ Off(R, v) \in Int
        BY <2>1, <2>3, <2>5 DEF n
      <4> HIDE DEF Off, D
      <4> QED BY <2>2, <2>3, <4>1
    <3> HIDE DEF Off, D
    <3>3. D(T) >= 0 /\ (D(T) = 0 => Off(R, v) = 0)
      BY <3>1, <3>2
    <3>4. D(T) = 0 => \A i \in T : f[i] = v
      BY <2>4, <3>2, <3>3 DEF v
    <3> QED BY <3>3, <3>4
  <2> QED BY <2>6, <2>7, <2>8
<1>6. S \in G
  <2> HIDE DEF G
  <2> QED BY <1>4, <1>5, SubsetInduction
<1>7. F[S] * F[S] \in Int /\ Cardinality(S) * H[S] \in Int
  <2>1. F[S] \in Int /\ H[S] \in Int
    BY <1>6
  <2>2. Cardinality(S) \in Int
    BY FS_CardinalityType
  <2> QED BY <2>1, <2>2
<1>8. D(S) >= 0 /\ (D(S) = 0 => \A i, j \in S : f[i] = f[j])
  BY <1>6
<1> QED BY <1>1, <1>2, <1>7, <1>8
=============================================================================
