----------------------------- MODULE TNListProofs -----------------------------
(* Lemmas the proofs share: what list operations do to a sequence without  *)
(* repetitions, the smallest element of a set of numbers, and sets of one  *)
(* element.                                                                *)
EXTENDS Integers, Sequences, SequencesExt, FiniteSets, SequenceTheorems,
        WellFoundedInduction, FiniteSetTheorems, TLAPS

(* A set of numbers that is not empty has a smallest one.                  *)
LEMMA SmallestNat ==
    ASSUME NEW S \in SUBSET Nat, S # {}
    PROVE  \E m \in S : \A y \in S : m <= y
<1> DEFINE L == OpToRel(<, Nat)
<1>1. \A x, y \in Nat : y < x => <<y, x>> \in L
  BY DEF OpToRel
<1>2. IsWellFoundedOn(L, Nat)
  BY NatLessThanWellFounded
<1> HIDE DEF L
<1>3. PICK m \in S : \A y \in S : <<y, m>> \notin L
  BY <1>2, WFMin
<1>4. ASSUME NEW y \in S PROVE m <= y
  <2>1. m \in Nat /\ y \in Nat
    OBVIOUS
  <2>2. ~(y < m)
    BY <2>1, <1>1, <1>3
  <2> QED BY <2>1, <2>2
<1> QED
  BY <1>4

(* A set with one element, and one with none                               *)
LEMMA OneElement ==
    ASSUME NEW S, NEW x \in S, \A y \in S : y = x
    PROVE  Cardinality(S) = 1
<1>1. S = {x}
  OBVIOUS
<1> QED
  BY <1>1, FS_Singleton

LEMMA NoElement ==
    ASSUME NEW S, \A y \in S : FALSE
    PROVE  Cardinality(S) = 0
<1>1. S = {}
  OBVIOUS
<1> QED
  BY <1>1, FS_EmptySet

(* The sequence lists every element of S once, and nothing else.           *)
Lists(seq, S) == IsInjective(seq) /\ ToSet(seq) = S

(* An element at a position, and a position for an element *)
LEMMA ListsElements ==
    ASSUME NEW U, NEW seq \in Seq(U), NEW S, Lists(seq, S)
    PROVE  /\ \A i \in 1 .. Len(seq) : seq[i] \in S
           /\ \A x \in S : \E i \in 1 .. Len(seq) : seq[i] = x
           /\ \A i, j \in 1 .. Len(seq) : seq[i] = seq[j] => i = j
BY LenProperties DEF Lists, ToSet, IsInjective

(* A sequence without repetition of exactly the elements of S lists S.     *)
LEMMA ListsIntro ==
    ASSUME NEW U, NEW seq \in Seq(U), NEW S,
           \A i \in 1 .. Len(seq) : seq[i] \in S,
           \A x \in S : \E i \in 1 .. Len(seq) : seq[i] = x,
           \A i, j \in 1 .. Len(seq) : seq[i] = seq[j] => i = j
    PROVE  Lists(seq, S)
BY LenProperties DEF Lists, ToSet, IsInjective

(* A list is empty iff it lists nothing; its first element is listed.      *)
LEMMA ListsEmpty ==
    ASSUME NEW U, NEW seq \in Seq(U), NEW S, Lists(seq, S)
    PROVE  /\ seq = <<>> <=> S = {}
           /\ seq # <<>> => seq[1] \in S /\ Head(seq) = seq[1]
<1>1. seq = <<>> => S = {}
  BY DEF Lists, ToSet
<1>2. seq # <<>> => seq[1] \in S /\ Head(seq) = seq[1]
  BY EmptySeq, ListsElements
<1> QED
  BY <1>1, <1>2

(* A list without its first element                                        *)
LEMMA ListsTail ==
    ASSUME NEW U, NEW seq \in Seq(U), NEW S, Lists(seq, S), seq # <<>>
    PROVE  /\ Head(seq) \in S
           /\ Tail(seq) \in Seq(U)
           /\ Lists(Tail(seq), S \ {Head(seq)})
<1>1. /\ Head(seq) = seq[1] /\ Tail(seq) \in Seq(U) /\ Len(seq) \in Nat /\ Len(seq) # 0
      /\ Len(Tail(seq)) = Len(seq) - 1
      /\ \A i \in 1 .. Len(Tail(seq)) : Tail(seq)[i] = seq[i + 1]
  BY EmptySeq, LenProperties, HeadTailProperties
<1>2. /\ \A i \in 1 .. Len(seq) : seq[i] \in S
      /\ \A x \in S : \E i \in 1 .. Len(seq) : seq[i] = x
      /\ \A i, j \in 1 .. Len(seq) : seq[i] = seq[j] => i = j
  BY ListsElements
<1>3. \A i \in 1 .. Len(Tail(seq)) : Tail(seq)[i] \in S \ {Head(seq)}
  BY <1>1, <1>2
<1>4. ASSUME NEW x \in S \ {Head(seq)}
      PROVE  \E i \in 1 .. Len(Tail(seq)) : Tail(seq)[i] = x
  <2>1. PICK i \in 1 .. Len(seq) : seq[i] = x
    BY <1>2
  <2>2. i # 1 /\ i - 1 \in 1 .. Len(Tail(seq)) /\ (i - 1) + 1 = i
    BY <1>1, <2>1
  <2> QED BY <1>1, <2>1, <2>2
<1>5. \A i, j \in 1 .. Len(Tail(seq)) : Tail(seq)[i] = Tail(seq)[j] => i = j
  BY <1>1, <1>2
<1>6. Head(seq) \in S
  BY <1>1, <1>2
<1> DEFINE T == S \ {Head(seq)}
           t == Tail(seq)
<1> HIDE DEF T, t
<1>7. Lists(t, T)
  BY <1>1, <1>3, <1>4, <1>5, ListsIntro DEF t, T
<1> QED
  BY <1>1, <1>6, <1>7 DEF t, T

(* A list to which an element it does not hold is appended; its head       *)
(* stays.                                                                  *)
LEMMA ListsAppend ==
    ASSUME NEW U, NEW seq \in Seq(U), NEW S, Lists(seq, S),
           NEW e \in U, e \notin S
    PROVE  /\ Append(seq, e) \in Seq(U)
           /\ Append(seq, e) # <<>>
           /\ Lists(Append(seq, e), S \cup {e})
           /\ Append(seq, e)[1] = IF seq = <<>> THEN e ELSE seq[1]
<1> DEFINE r == Append(seq, e)
<1>1. /\ r \in Seq(U) /\ r # <<>> /\ Len(r) = Len(seq) + 1
      /\ \A i \in 1 .. Len(seq) : r[i] = seq[i]
      /\ r[Len(seq) + 1] = e
  BY AppendProperties
<1>2. Len(seq) \in Nat
  BY LenProperties
<1>3. Lists(r, S \cup {e})
  <2> HIDE DEF r
  <2>1. \A i \in 1 .. Len(r) : r[i] \in S \cup {e}
    BY <1>1, <1>2, ListsElements
  <2>2. \A x \in S \cup {e} : \E i \in 1 .. Len(r) : r[i] = x
    <3>1. ASSUME NEW x \in S PROVE \E i \in 1 .. Len(r) : r[i] = x
      <4>1. PICK i \in 1 .. Len(seq) : seq[i] = x
        BY ListsElements
      <4> QED BY <4>1, <1>1, <1>2
    <3> QED BY <3>1, <1>1, <1>2
  <2>3. \A i, j \in 1 .. Len(r) : r[i] = r[j] => i = j
    BY <1>1, <1>2, ListsElements
  <2> QED
    BY <1>1, <2>1, <2>2, <2>3, ListsIntro
<1>4. r[1] = IF seq = <<>> THEN e ELSE seq[1]
  BY <1>1, <1>2, EmptySeq
<1> QED
  BY <1>1, <1>3, <1>4

(* RemoveFirst closes the gap the element leaves.                          *)
LEMMA ListsGap ==
    ASSUME NEW U, NEW seq \in Seq(U), NEW S, Lists(seq, S),
           NEW k \in 1 .. Len(seq), NEW e, seq[k] = e
    PROVE  LET r == RemoveFirst(seq, e)
           IN  /\ r \in Seq(U) /\ Len(r) = Len(seq) - 1
               /\ \A i \in 1 .. Len(seq) - 1 :
                     r[i] = IF i < k THEN seq[i] ELSE seq[i + 1]
<1> DEFINE r == RemoveFirst(seq, e)
           I == {i \in 1 .. Len(seq) : seq[i] = e}
<1>0. Len(seq) \in Nat
  BY LenProperties
<1>2. I = {k}
  BY ListsElements
<1>3. SelectInSeq(seq, LAMBDA v : v = e) = k
  <2>1. Min({k}) = k
    BY DEF Min
  <2> QED BY <1>2, <2>1 DEF SelectInSeq
<1>4. r = SubSeq(seq, 1, k - 1) \o SubSeq(seq, k + 1, Len(seq))
  BY <1>3 DEF RemoveFirst, RemoveAt
<1> DEFINE a == SubSeq(seq, 1, k - 1)
           b == SubSeq(seq, k + 1, Len(seq))
<1>5. /\ a \in Seq(U) /\ Len(a) = k - 1
      /\ \A i \in 1 .. k - 1 : a[i] = seq[i]
  <2>1. \A i \in 1 .. k - 1 : seq[i] \in U
    BY ElementOfSeq, <1>0
  <2> QED BY <2>1, <1>0, SubSeqProperties
<1>6. /\ b \in Seq(U) /\ Len(b) = Len(seq) - k
      /\ \A i \in 1 .. Len(seq) - k : b[i] = seq[k + i]
  <2>1. \A i \in k + 1 .. Len(seq) : seq[i] \in U
    BY ElementOfSeq, <1>0
  <2>2. k + 1 \in Int /\ Len(seq) \in Int
    BY <1>0
  <2>3. /\ b \in Seq(U)
        /\ Len(b) = IF k + 1 <= Len(seq) THEN Len(seq) - (k + 1) + 1 ELSE 0
        /\ \A i \in 1 .. Len(seq) - (k + 1) + 1 : b[i] = seq[k + 1 + i - 1]
    BY <2>1, <2>2, SubSeqProperties
  <2> QED BY <2>3, <1>0
<1> HIDE DEF a, b, I
<1>7. r = a \o b
  BY <1>4 DEF a, b
<1>8. /\ a \o b \in Seq(U) /\ Len(a \o b) = Len(a) + Len(b)
      /\ \A i \in 1 .. Len(a) + Len(b) :
            (a \o b)[i] = IF i <= Len(a) THEN a[i] ELSE b[i - Len(a)]
  BY <1>5, <1>6, ConcatProperties
<1> HIDE DEF r
<1>9. /\ r \in Seq(U) /\ Len(r) = Len(seq) - 1
      /\ \A i \in 1 .. Len(seq) - 1 : r[i] = IF i < k THEN seq[i] ELSE seq[i + 1]
  BY <1>5, <1>6, <1>7, <1>8, <1>0
<1> QED
  BY <1>9 DEF r

(* RemoveFirst takes one element from a list; another head stays.          *)
LEMMA ListsRemove ==
    ASSUME NEW U, NEW seq \in Seq(U), NEW S, Lists(seq, S), NEW e
    PROVE  /\ RemoveFirst(seq, e) \in Seq(U)
           /\ Lists(RemoveFirst(seq, e), S \ {e})
           /\ e \notin S => RemoveFirst(seq, e) = seq
           /\ seq # <<>> /\ seq[1] # e =>
                RemoveFirst(seq, e) # <<>> /\ RemoveFirst(seq, e)[1] = seq[1]
<1> DEFINE r == RemoveFirst(seq, e)
<1>0. Len(seq) \in Nat
  BY LenProperties
<1>e. /\ \A i \in 1 .. Len(seq) : seq[i] \in S
      /\ \A x \in S : \E i \in 1 .. Len(seq) : seq[i] = x
      /\ \A i, j \in 1 .. Len(seq) : seq[i] = seq[j] => i = j
  BY ListsElements
<1>1. CASE ~ \E i \in 1 .. Len(seq) : seq[i] = e
  <2>1. r = seq
    BY <1>1 DEF RemoveFirst
  <2>2. e \notin S
    BY <1>1, ListsElements
  <2>3. S \ {e} = S
    BY <2>2
  <2> QED
    BY <2>1, <2>3
<1>2. CASE \E i \in 1 .. Len(seq) : seq[i] = e
  <2>1. PICK k \in 1 .. Len(seq) : seq[k] = e
    BY <1>2
  <2>7. /\ r \in Seq(U) /\ Len(r) = Len(seq) - 1
        /\ \A i \in 1 .. Len(seq) - 1 : r[i] = IF i < k THEN seq[i] ELSE seq[i + 1]
    BY <2>1, ListsGap
  <2> HIDE DEF r
  <2>8. Lists(r, S \ {e})
    <3>1. \A i \in 1 .. Len(r) : r[i] \in S \ {e}
      <4> SUFFICES ASSUME NEW i \in 1 .. Len(r) PROVE r[i] \in S /\ r[i] # e
        OBVIOUS
      <4>1. CASE i < k
        BY <4>1, <2>7, <2>1, <1>0, <1>e
      <4>2. CASE ~(i < k)
        <5>1. r[i] = seq[i + 1] /\ i + 1 \in 1 .. Len(seq) /\ i + 1 # k
          BY <4>2, <2>7, <1>0
        <5> QED BY <5>1, <2>1, <1>e
      <4> QED BY <4>1, <4>2
    <3>2. \A x \in S \ {e} : \E i \in 1 .. Len(r) : r[i] = x
      <4> SUFFICES ASSUME NEW x \in S \ {e} PROVE \E i \in 1 .. Len(r) : r[i] = x
        OBVIOUS
      <4>1. PICK i \in 1 .. Len(seq) : seq[i] = x
        BY ListsElements
      <4>2. CASE i < k
        BY <4>1, <4>2, <2>7, <1>0
      <4>3. CASE i > k
        <5>1. i - 1 \in 1 .. Len(r) /\ r[i - 1] = seq[i]
          BY <4>3, <2>7, <1>0
        <5> QED BY <5>1, <4>1
      <4> QED BY <4>1, <4>2, <4>3, <2>1
    <3>3. \A i, j \in 1 .. Len(r) : r[i] = r[j] => i = j
      <4> SUFFICES ASSUME NEW i \in 1 .. Len(r), NEW j \in 1 .. Len(r), r[i] = r[j]
                   PROVE  i = j
        OBVIOUS
      <4> DEFINE f(m) == IF m < k THEN m ELSE m + 1
      <4>1. /\ f(i) \in 1 .. Len(seq) /\ r[i] = seq[f(i)]
            /\ f(j) \in 1 .. Len(seq) /\ r[j] = seq[f(j)]
        BY <2>7, <1>0
      <4>2. f(i) = f(j)
        <5> HIDE DEF f
        <5> QED BY <4>1, <1>e
      <4> QED BY <4>2, <2>7, <1>0
    <3> QED BY <3>1, <3>2, <3>3, <2>7, ListsIntro
  <2>9. seq # <<>> /\ seq[1] # e => r # <<>> /\ r[1] = seq[1]
    <3> SUFFICES ASSUME seq[1] # e PROVE r # <<>> /\ r[1] = seq[1]
      OBVIOUS
    <3>1. k > 1
      BY <2>1
    <3>2. Len(r) >= 1 /\ r[1] = seq[1]
      BY <3>1, <2>7, <1>0
    <3> QED BY <3>2, EmptySeq
  <2>10. e \in S
    BY <2>1, ListsElements
  <2> QED
    BY <2>7, <2>8, <2>9, <2>10 DEF r
<1> QED
  BY <1>1, <1>2

(* The tail of a list becomes its head.                                    *)
LEMMA ListsRotate ==
    ASSUME NEW U, NEW seq \in Seq(U), NEW S, Lists(seq, S), seq # <<>>
    PROVE  /\ <<Last(seq)>> \o Front(seq) \in Seq(U)
           /\ Lists(<<Last(seq)>> \o Front(seq), S)
<1> DEFINE n == Len(seq)
           a == <<Last(seq)>>
           b == Front(seq)
           r == a \o b
<1>0. n \in Nat /\ n >= 1
  BY EmptySeq, LenProperties
<1>e. /\ \A i \in 1 .. Len(seq) : seq[i] \in S
      /\ \A x \in S : \E i \in 1 .. Len(seq) : seq[i] = x
      /\ \A i, j \in 1 .. Len(seq) : seq[i] = seq[j] => i = j
  BY ListsElements
<1>1. a \in Seq(U) /\ Len(a) = 1 /\ a[1] = seq[n]
  BY <1>0, ElementOfSeq DEF Last
<1>2. /\ b \in Seq(U) /\ Len(b) = n - 1
      /\ \A i \in 1 .. n - 1 : b[i] = seq[i]
  <2>1. \A i \in 1 .. n - 1 : seq[i] \in U
    BY ElementOfSeq, <1>0
  <2>2. n - 1 \in Int
    BY <1>0
  <2>3. /\ b \in Seq(U)
        /\ Len(b) = IF 1 <= n - 1 THEN n - 1 - 1 + 1 ELSE 0
        /\ \A i \in 1 .. n - 1 - 1 + 1 : b[i] = seq[1 + i - 1]
    BY <2>1, <2>2, SubSeqProperties DEF Front
  <2> HIDE DEF b, r, n
  <2>4. Len(b) = n - 1
    BY <2>3, <1>0
  <2>5. ASSUME NEW i \in 1 .. n - 1 PROVE b[i] = seq[i]
    <3>1. i \in 1 .. n - 1 - 1 + 1 /\ 1 + i - 1 = i
      BY <1>0
    <3> QED BY <3>1, <2>3
  <2> QED BY <2>3, <2>4, <2>5
<1>3. /\ r \in Seq(U) /\ Len(r) = n
      /\ \A i \in 1 .. n : r[i] = IF i = 1 THEN seq[n] ELSE seq[i - 1]
  <2> HIDE DEF a, b
  <2>1. /\ a \o b \in Seq(U) /\ Len(a \o b) = Len(a) + Len(b)
        /\ \A i \in 1 .. Len(a) + Len(b) :
              (a \o b)[i] = IF i <= Len(a) THEN a[i] ELSE b[i - Len(a)]
    BY <1>1, <1>2, ConcatProperties
  <2>2. Len(a) + Len(b) = n
    BY <1>0, <1>1, <1>2
  <2>3. ASSUME NEW i \in 1 .. n
        PROVE  (a \o b)[i] = IF i = 1 THEN seq[n] ELSE seq[i - 1]
    <3> HIDE DEF n
    <3>1. (a \o b)[i] = IF i <= 1 THEN a[i] ELSE b[i - 1]
      BY <2>1, <2>2, <1>1
    <3>2. CASE i = 1
      BY <3>1, <3>2, <1>1
    <3>3. CASE i # 1
      <4>1. i - 1 \in 1 .. n - 1
        BY <3>3, <1>0
      <4> QED BY <3>1, <3>3, <4>1, <1>2, <1>0
    <3> QED BY <3>2, <3>3
  <2> QED BY <2>1, <2>2, <2>3
<1>4. Lists(r, S)
  <2> HIDE DEF r
  <2>1. \A i \in 1 .. Len(r) : r[i] \in S
    BY <1>3, <1>0, ListsElements
  <2>2. \A x \in S : \E i \in 1 .. Len(r) : r[i] = x
    <3> SUFFICES ASSUME NEW x \in S PROVE \E i \in 1 .. Len(r) : r[i] = x
      OBVIOUS
    <3>1. PICK i \in 1 .. n : seq[i] = x
      BY ListsElements
    <3>2. CASE i = n
      BY <3>1, <3>2, <1>3, <1>0
    <3>3. CASE i < n
      <4>1. i + 1 \in 1 .. Len(r) /\ r[i + 1] = seq[i]
        BY <3>3, <1>3, <1>0
      <4> QED BY <4>1, <3>1
    <3> QED BY <3>2, <3>3, <1>0
  <2>3. \A i, j \in 1 .. Len(r) : r[i] = r[j] => i = j
    <3> SUFFICES ASSUME NEW i \in 1 .. Len(r), NEW j \in 1 .. Len(r), r[i] = r[j]
                 PROVE  i = j
      OBVIOUS
    <3> DEFINE f(m) == IF m = 1 THEN n ELSE m - 1
    <3>1. /\ f(i) \in 1 .. n /\ r[i] = seq[f(i)]
          /\ f(j) \in 1 .. n /\ r[j] = seq[f(j)]
      BY <1>3, <1>0
    <3>2. f(i) = f(j)
      <4> HIDE DEF f
      <4> QED BY <3>1, <1>e
    <3> QED BY <3>2, <1>3, <1>0
  <2> QED BY <1>3, <2>1, <2>2, <2>3, ListsIntro
<1> QED
  BY <1>3, <1>4

(* A suffix, by its elements                                               *)
LEMMA SuffixElements ==
    ASSUME NEW U, NEW c \in Seq(U), NEW seq \in Seq(U)
    PROVE  IsSuffix(c, seq) <=>
              /\ Len(c) <= Len(seq)
              /\ \A i \in 1 .. Len(c) : c[i] = seq[Len(seq) - Len(c) + i]
<1> DEFINE m == Len(c)
           n == Len(seq)
           a == Reverse(c)
           b == Reverse(seq)
<1>0. m \in Nat /\ n \in Nat
  BY LenProperties
<1>1. /\ a \in Seq(U) /\ Len(a) = m
      /\ \A i \in 1 .. m : a[i] = c[m - i + 1]
  <2>1. \A i \in 1 .. m : m - i + 1 \in 1 .. m
    BY <1>0
  <2>2. a = [i \in 1 .. m |-> c[m - i + 1]] /\ \A i \in 1 .. m : c[m - i + 1] \in U
    BY <2>1, ElementOfSeq DEF Reverse
  <2>3. a \in [1 .. m -> U]
    BY <2>2
  <2>4. a \in Seq(U)
    BY <2>3, <1>0
  <2>5. DOMAIN a = 1 .. m
    BY <2>2
  <2> QED BY <2>2, <2>4, <2>5, <1>0, LenProperties
<1>2. /\ b \in Seq(U) /\ Len(b) = n
      /\ \A i \in 1 .. n : b[i] = seq[n - i + 1]
  <2>1. \A i \in 1 .. n : n - i + 1 \in 1 .. n
    BY <1>0
  <2>2. b = [i \in 1 .. n |-> seq[n - i + 1]] /\ \A i \in 1 .. n : seq[n - i + 1] \in U
    BY <2>1, ElementOfSeq DEF Reverse
  <2>3. b \in [1 .. n -> U]
    BY <2>2
  <2>4. b \in Seq(U)
    BY <2>3, <1>0
  <2>5. DOMAIN b = 1 .. n
    BY <2>2
  <2> QED BY <2>2, <2>4, <2>5, <1>0, LenProperties
<1> HIDE DEF a, b, m, n
<1>3. IsSuffix(c, seq) <=> m <= n /\ SubSeq(a, 1, m) = SubSeq(b, 1, m)
  BY <1>1, <1>2 DEF IsSuffix, IsPrefix, a, b
<1>4. ASSUME m <= n
      PROVE  SubSeq(a, 1, m) = SubSeq(b, 1, m) <=> \A i \in 1 .. m : a[i] = b[i]
  <2> DEFINE x == SubSeq(a, 1, m)
             y == SubSeq(b, 1, m)
  <2>1. /\ x \in Seq(U) /\ Len(x) = m /\ \A i \in 1 .. m : x[i] = a[i]
    <3>1. \A i \in 1 .. m : a[i] \in U
      BY <1>0, <1>1, ElementOfSeq
    <3> QED BY <3>1, <1>0, <1>1, SubSeqProperties
  <2>2. /\ y \in Seq(U) /\ Len(y) = m /\ \A i \in 1 .. m : y[i] = b[i]
    <3>1. \A i \in 1 .. m : b[i] \in U
      BY <1>0, <1>2, <1>4, ElementOfSeq
    <3> QED BY <3>1, <1>0, <1>2, <1>4, SubSeqProperties
  <2> HIDE DEF x, y
  <2>3. x = y <=> \A i \in 1 .. m : x[i] = y[i]
    BY <2>1, <2>2, SeqEqual
  <2>4. x = y <=> \A i \in 1 .. m : a[i] = b[i]
    BY <2>1, <2>2, <2>3
  <2> QED BY <2>4 DEF x, y
<1>5. ASSUME m <= n
      PROVE  (\A i \in 1 .. m : a[i] = b[i]) <=> (\A i \in 1 .. m : c[i] = seq[n - m + i])
  <2>1. ASSUME \A i \in 1 .. m : a[i] = b[i], NEW i \in 1 .. m PROVE c[i] = seq[n - m + i]
    <3>1. m - i + 1 \in 1 .. m /\ m - i + 1 \in 1 .. n
      BY <1>0, <1>5
    <3>2. m - (m - i + 1) + 1 = i /\ n - (m - i + 1) + 1 = n - m + i
      BY <1>0
    <3>3. a[m - i + 1] = c[i] /\ b[m - i + 1] = seq[n - m + i]
      BY <3>1, <3>2, <1>1, <1>2
    <3> QED BY <3>1, <3>3, <2>1
  <2>2. ASSUME \A i \in 1 .. m : c[i] = seq[n - m + i], NEW i \in 1 .. m PROVE a[i] = b[i]
    <3>1. i \in 1 .. n /\ m - i + 1 \in 1 .. m /\ n - m + (m - i + 1) = n - i + 1
      BY <1>0, <1>5
    <3>2. a[i] = c[m - i + 1] /\ b[i] = seq[n - i + 1]
      BY <3>1, <1>1, <1>2
    <3>3. c[m - i + 1] = seq[n - m + (m - i + 1)]
      BY <3>1, <2>2
    <3> QED BY <3>1, <3>2, <3>3
  <2> QED BY <2>1, <2>2
<1>6. IsSuffix(c, seq) <=> m <= n /\ \A i \in 1 .. m : c[i] = seq[n - m + i]
  BY <1>3, <1>4, <1>5
<1> QED
  BY <1>6 DEF m, n

(* A list walked from its head: the rest stays a suffix when the element   *)
(* just visited is removed, and when it is not.                            *)
LEMMA SuffixStep ==
    ASSUME NEW U, NEW c \in Seq(U), NEW seq \in Seq(U), NEW S, Lists(seq, S),
           IsSuffix(c, seq), c # <<>>
    PROVE  /\ IsSuffix(Tail(c), seq)
           /\ IsSuffix(Tail(c), RemoveFirst(seq, Head(c)))
<1> DEFINE m == Len(c)
           n == Len(seq)
           d == Tail(c)
           k == n - m + 1
           r == RemoveFirst(seq, Head(c))
<1>0. m \in Nat /\ n \in Nat /\ m # 0
  BY LenProperties, EmptySeq
<1>1. m <= n /\ \A i \in 1 .. m : c[i] = seq[n - m + i]
  BY SuffixElements
<1>2. Head(c) = c[1] /\ d \in Seq(U) /\ Len(d) = m - 1 /\ \A i \in 1 .. m - 1 : d[i] = c[i + 1]
  BY HeadTailProperties, <1>0
<1>3. k \in 1 .. n /\ seq[k] = Head(c)
  BY <1>0, <1>1, <1>2
<1>4. r \in Seq(U) /\ Len(r) = n - 1
      /\ \A i \in 1 .. n - 1 : r[i] = IF i < k THEN seq[i] ELSE seq[i + 1]
  <2> HIDE DEF k
  <2> QED BY <1>3, ListsGap
<1> HIDE DEF d, r
<1>5. ASSUME NEW i \in 1 .. m - 1
      PROVE  d[i] = seq[n - (m - 1) + i] /\ d[i] = r[(n - 1) - (m - 1) + i]
  <2>1. i \in 1 .. m - 1 /\ i + 1 \in 1 .. m /\ n - m + (i + 1) = n - (m - 1) + i
    BY <1>0
  <2>2. d[i] = seq[n - (m - 1) + i]
    BY <2>1, <1>1, <1>2
  <2>3. /\ (n - 1) - (m - 1) + i \in 1 .. n - 1 /\ ~((n - 1) - (m - 1) + i < k)
        /\ (n - 1) - (m - 1) + i + 1 = n - (m - 1) + i
    BY <1>0, <1>1
  <2>4. r[(n - 1) - (m - 1) + i] = seq[n - (m - 1) + i]
    BY <2>3, <1>4
  <2> QED BY <2>2, <2>4
<1>6. m - 1 <= n /\ m - 1 <= n - 1
  BY <1>0, <1>1
<1>7. IsSuffix(d, seq)
  BY <1>2, <1>5, <1>6, SuffixElements
<1>8. IsSuffix(d, r)
  BY <1>2, <1>4, <1>5, <1>6, SuffixElements
<1> QED
  BY <1>7, <1>8 DEF d, r

=============================================================================
