----------------------- MODULE MemcachedServer_proofs -----------------------
(***************************************************************************)
(* Theorems about MemcachedServer: for every size of the pool, the rings   *)
(* and the bursts, and every number of packets, as long as no allocation   *)
(* has failed; and that one only fails while the tx ring holds so many     *)
(* mbufs that two bursts do not fit beside them.                           *)
(***************************************************************************)
EXTENDS MemcachedServer, TLAPS, SequenceTheorems, FiniteSetTheorems

-----------------------------------------------------------------------------
(* Sequences as places: what is in them, and how much. *)

\* What is in s \o t.
LEMMA ConcatIn ==
  ASSUME NEW S, NEW s \in Seq(S), NEW t \in Seq(S)
  PROVE  /\ s \o t \in Seq(S) /\ Len(s \o t) = Len(s) + Len(t)
         /\ ToSet(s \o t) = ToSet(s) \cup ToSet(t)
<1>1. /\ s \o t \in Seq(S) /\ Len(s \o t) = Len(s) + Len(t)
      /\ \A i \in 1 .. Len(s) + Len(t) :
           (s \o t)[i] = IF i <= Len(s) THEN s[i] ELSE t[i - Len(s)]
  BY ConcatProperties
<1>2. /\ Len(s) \in Nat /\ Len(t) \in Nat
      /\ DOMAIN s = 1 .. Len(s) /\ DOMAIN t = 1 .. Len(t)
      /\ DOMAIN (s \o t) = 1 .. Len(s) + Len(t)
  BY <1>1, LenProperties
<1>3. ASSUME NEW i \in 1 .. Len(s) PROVE s[i] \in ToSet(s \o t)
  BY <1>1, <1>2 DEF ToSet
<1>4. ASSUME NEW i \in 1 .. Len(t) PROVE t[i] \in ToSet(s \o t)
  <2>1. Len(s) + i \in 1 .. Len(s) + Len(t) /\ (s \o t)[Len(s) + i] = t[i]
    BY <1>1, <1>2
  <2> QED BY <1>2, <2>1 DEF ToSet
<1>5. ASSUME NEW i \in 1 .. Len(s) + Len(t)
      PROVE  (s \o t)[i] \in ToSet(s) \cup ToSet(t)
  BY <1>1, <1>2 DEF ToSet
<1>6. ToSet(s) \cup ToSet(t) \subseteq ToSet(s \o t)
  BY <1>2, <1>3, <1>4 DEF ToSet
<1>7. ToSet(s \o t) \subseteq ToSet(s) \cup ToSet(t)
  BY <1>2, <1>5 DEF ToSet
<1> QED BY <1>1, <1>6, <1>7

\* s is its first n elements and the rest.
LEMMA SplitIn ==
  ASSUME NEW S, NEW s \in Seq(S), NEW n \in 0 .. Len(s)
  PROVE  /\ Prefix(s, n) \in Seq(S) /\ Len(Prefix(s, n)) = n
         /\ Rest(s, n) \in Seq(S) /\ Len(Rest(s, n)) = Len(s) - n
         /\ \A i \in 1 .. n : Prefix(s, n)[i] = s[i]
         /\ \A i \in 1 .. Len(s) - n : Rest(s, n)[i] = s[n + i]
         /\ ToSet(s) = ToSet(Prefix(s, n)) \cup ToSet(Rest(s, n))
         /\ s = Prefix(s, n) \o Rest(s, n)
<1>1. Len(s) \in Nat /\ DOMAIN s = 1 .. Len(s) /\ \A i \in 1 .. Len(s) : s[i] \in S
  BY LenProperties, ElementOfSeq
<1>2. /\ Prefix(s, n) \in Seq(S) /\ Len(Prefix(s, n)) = n
      /\ \A i \in 1 .. n : Prefix(s, n)[i] = s[i]
  <2>1. \A i \in 1 .. n : s[i] \in S BY <1>1
  <2>2. /\ SubSeq(s, 1, n) \in Seq(S)
        /\ Len(SubSeq(s, 1, n)) = IF 1 <= n THEN n - 1 + 1 ELSE 0
        /\ \A i \in 1 .. n - 1 + 1 : SubSeq(s, 1, n)[i] = s[1 + i - 1]
    BY <1>1, <2>1, SubSeqProperties
  <2> QED BY <1>1, <2>2 DEF Prefix
<1>3. /\ Rest(s, n) \in Seq(S) /\ Len(Rest(s, n)) = Len(s) - n
      /\ \A i \in 1 .. Len(s) - n : Rest(s, n)[i] = s[n + i]
  <2>1. \A i \in n + 1 .. Len(s) : s[i] \in S BY <1>1
  <2>2. /\ SubSeq(s, n + 1, Len(s)) \in Seq(S)
        /\ Len(SubSeq(s, n + 1, Len(s))) =
             IF n + 1 <= Len(s) THEN Len(s) - (n + 1) + 1 ELSE 0
        /\ \A i \in 1 .. Len(s) - (n + 1) + 1 :
             SubSeq(s, n + 1, Len(s))[i] = s[(n + 1) + i - 1]
    BY <1>1, <2>1, SubSeqProperties
  <2>3. \A l, k \in Int : /\ l - (k + 1) + 1 = l - k
                          /\ k <= l /\ ~(k + 1 <= l) => l - k = 0
                          /\ \A i \in Int : (k + 1) + i - 1 = k + i
    OBVIOUS
  <2>4. n \in Int /\ Len(s) \in Int /\ n <= Len(s) BY <1>1
  <2>5. /\ Len(s) - (n + 1) + 1 = Len(s) - n
        /\ ~(n + 1 <= Len(s)) => Len(s) - n = 0
        /\ \A i \in Int : (n + 1) + i - 1 = n + i
    BY <2>3, <2>4
  <2>6. ASSUME NEW i \in 1 .. Len(s) - n PROVE Rest(s, n)[i] = s[n + i]
    <3>1. i \in 1 .. Len(s) - (n + 1) + 1 BY <2>5
    <3>2. i \in Int OBVIOUS
    <3>3. (n + 1) + i - 1 = n + i BY <2>5, <3>2
    <3> QED BY <2>2, <3>1, <3>3 DEF Rest
  <2> QED BY <2>2, <2>5, <2>6 DEF Rest
<1>4. s = Prefix(s, n) \o Rest(s, n)
  <2>0. /\ Prefix(s, n) \o Rest(s, n) \in Seq(S)
        /\ Len(Prefix(s, n) \o Rest(s, n)) = Len(Prefix(s, n)) + Len(Rest(s, n))
        /\ \A i \in 1 .. Len(Prefix(s, n)) + Len(Rest(s, n)) :
             (Prefix(s, n) \o Rest(s, n))[i] =
             IF i <= Len(Prefix(s, n)) THEN Prefix(s, n)[i]
                                       ELSE Rest(s, n)[i - Len(Prefix(s, n))]
    BY <1>2, <1>3, ConcatProperties
  <2>1. /\ Prefix(s, n) \o Rest(s, n) \in Seq(S)
        /\ Len(Prefix(s, n) \o Rest(s, n)) = Len(s)
        /\ \A i \in 1 .. Len(s) : (Prefix(s, n) \o Rest(s, n))[i] =
             IF i <= n THEN Prefix(s, n)[i] ELSE Rest(s, n)[i - n]
    BY <1>1, <1>2, <1>3, <2>0
  <2>2. ASSUME NEW i \in 1 .. Len(s) PROVE s[i] = (Prefix(s, n) \o Rest(s, n))[i]
    <3>1. CASE i <= n
      <4>1. i \in 1 .. n BY <1>1, <3>1
      <4> QED BY <1>2, <2>1, <3>1, <4>1
    <3>2. CASE ~(i <= n)
      <4>1. i - n \in 1 .. Len(s) - n /\ n + (i - n) = i BY <1>1, <3>2
      <4> QED BY <1>3, <2>1, <3>2, <4>1
    <3> QED BY <3>1, <3>2
  <2> QED BY <2>1, <2>2, SeqEqual
<1>5. ToSet(s) = ToSet(Prefix(s, n)) \cup ToSet(Rest(s, n))
  BY <1>2, <1>3, <1>4, ConcatIn
<1> QED BY <1>2, <1>3, <1>4, <1>5

LEMMA AppendIn ==
  ASSUME NEW S, NEW s \in Seq(S), NEW e \in S
  PROVE  /\ Append(s, e) \in Seq(S) /\ Len(Append(s, e)) = Len(s) + 1
         /\ ToSet(Append(s, e)) = ToSet(s) \cup {e}
<1>1. <<e>> \in Seq(S) /\ Len(<<e>>) = 1 /\ ToSet(<<e>>) = {e} BY DEF ToSet
<1>2. Append(s, e) = s \o <<e>> BY AppendIsConcat
<1>3. /\ s \o <<e>> \in Seq(S) /\ Len(s \o <<e>>) = Len(s) + Len(<<e>>)
      /\ ToSet(s \o <<e>>) = ToSet(s) \cup ToSet(<<e>>)
  BY <1>1, ConcatIn
<1> QED BY <1>1, <1>2, <1>3

LEMMA HeadIn ==
  ASSUME NEW S, NEW s \in Seq(S), s # << >>
  PROVE  /\ Head(s) \in S /\ Tail(s) \in Seq(S) /\ Len(Tail(s)) = Len(s) - 1
         /\ ToSet(s) = {Head(s)} \cup ToSet(Tail(s))
         /\ s = <<Head(s)>> \o Tail(s)
<1>1. /\ Head(s) \in S /\ Tail(s) \in Seq(S) /\ Len(Tail(s)) = Len(s) - 1
  BY HeadTailProperties
<1>2. <<Head(s)>> \in Seq(S) /\ Len(<<Head(s)>>) = 1 /\ ToSet(<<Head(s)>>) = {Head(s)}
  BY <1>1 DEF ToSet
<1>3. s = <<Head(s)>> \o Tail(s)
  <2>1. Len(s) \in Nat /\ Len(s) >= 1 BY EmptySeq, LenProperties
  <2>2. /\ <<Head(s)>> \o Tail(s) \in Seq(S)
        /\ Len(<<Head(s)>> \o Tail(s)) = Len(s)
        /\ \A i \in 1 .. Len(s) : (<<Head(s)>> \o Tail(s))[i] =
             IF i <= 1 THEN <<Head(s)>>[i] ELSE Tail(s)[i - 1]
    BY <1>1, <1>2, <2>1, ConcatProperties
  <2>3. Head(s) = s[1] /\ \A i \in 1 .. Len(s) - 1 : Tail(s)[i] = s[i + 1]
    BY <1>1, <2>1, HeadTailProperties
  <2>4. \A i \in 1 .. Len(s) : s[i] = (<<Head(s)>> \o Tail(s))[i]
    BY <2>1, <2>2, <2>3
  <2> QED BY <2>2, <2>4, SeqEqual
<1>4. ToSet(<<Head(s)>> \o Tail(s)) = ToSet(<<Head(s)>>) \cup ToSet(Tail(s))
  <2>1. <<Head(s)>> \in Seq(S) /\ Tail(s) \in Seq(S) BY <1>1, <1>2
  <2> QED BY <2>1, ConcatIn, Zenon
<1> QED BY <1>1, <1>2, <1>3, <1>4

\* The k-th element is between the first k - 1 and the rest.
LEMMA OneMore ==
  ASSUME NEW S, NEW s \in Seq(S), NEW k \in 1 .. Len(s)
  PROVE  /\ Rest(s, k - 1) = <<s[k]>> \o Rest(s, k)
         /\ Prefix(s, k) = Prefix(s, k - 1) \o <<s[k]>>
         /\ s[k] \in S
<1>1. Len(s) \in Nat /\ k \in Nat /\ k - 1 \in 0 .. Len(s) /\ k \in 0 .. Len(s)
  BY LenProperties
<1>2. s[k] \in S BY ElementOfSeq
<1>3. <<s[k]>> \in Seq(S) /\ Len(<<s[k]>>) = 1 /\ <<s[k]>>[1] = s[k] BY <1>2
<1> DEFINE a == Prefix(s, k - 1)
           b == Rest(s, k)
           c == Rest(s, k - 1)
           d == Prefix(s, k)
           e == <<s[k]>>
<1>4. /\ a \in Seq(S) /\ Len(a) = k - 1 /\ \A i \in 1 .. k - 1 : a[i] = s[i]
      /\ c \in Seq(S) /\ Len(c) = Len(s) - (k - 1)
      /\ \A i \in 1 .. Len(s) - (k - 1) : c[i] = s[(k - 1) + i]
  <2> DEFINE j == k - 1
  <2>1. j \in 0 .. Len(s) BY <1>1
  <2> HIDE DEF j
  <2>2. /\ Prefix(s, j) \in Seq(S) /\ Len(Prefix(s, j)) = j
        /\ \A i \in 1 .. j : Prefix(s, j)[i] = s[i]
        /\ Rest(s, j) \in Seq(S) /\ Len(Rest(s, j)) = Len(s) - j
        /\ \A i \in 1 .. Len(s) - j : Rest(s, j)[i] = s[j + i]
    BY <2>1, SplitIn
  <2> QED BY <2>2 DEF j
<1>5. /\ d \in Seq(S) /\ Len(d) = k /\ \A i \in 1 .. k : d[i] = s[i]
      /\ b \in Seq(S) /\ Len(b) = Len(s) - k
      /\ \A i \in 1 .. Len(s) - k : b[i] = s[k + i]
  BY <1>1, SplitIn
<1>6. a \in Seq(S) /\ b \in Seq(S) /\ e \in Seq(S) /\ Len(e) = 1 /\ e[1] = s[k]
  BY <1>3, <1>4, <1>5
<1> HIDE DEF a, b, c, d, e
<1>7. /\ e \o b \in Seq(S) /\ Len(e \o b) = Len(e) + Len(b)
      /\ \A i \in 1 .. Len(e) + Len(b) :
           (e \o b)[i] = IF i <= Len(e) THEN e[i] ELSE b[i - Len(e)]
  BY <1>6, ConcatProperties
<1>8. /\ a \o e \in Seq(S) /\ Len(a \o e) = Len(a) + Len(e)
      /\ \A i \in 1 .. Len(a) + Len(e) :
           (a \o e)[i] = IF i <= Len(a) THEN a[i] ELSE e[i - Len(a)]
  BY <1>6, ConcatProperties
<1>9. c = e \o b
  <2>1. Len(e \o b) = Len(c) /\ Len(c) = Len(s) - k + 1 BY <1>1, <1>4, <1>5, <1>6, <1>7
  <2>2. ASSUME NEW i \in 1 .. Len(c) PROVE c[i] = (e \o b)[i]
    <3>1. CASE i = 1
      <4>1. (k - 1) + 1 = k /\ 1 \in 1 .. Len(s) - (k - 1) BY <1>1
      <4>2. c[1] = s[k] BY <1>4, <4>1
      <4>3. 1 \in 1 .. Len(e) + Len(b) /\ 1 <= Len(e) BY <1>1, <1>5, <1>6
      <4>4. (e \o b)[1] = s[k] BY <1>6, <1>7, <4>3
      <4> QED BY <3>1, <4>2, <4>4
    <3>2. CASE i # 1
      <4>1. (k - 1) + i = k + (i - 1) /\ i - 1 \in 1 .. Len(s) - k
            /\ i \in 1 .. Len(s) - (k - 1) /\ ~(i <= 1) /\ i \in 1 .. 1 + (Len(s) - k)
        BY <1>1, <2>1, <3>2
      <4>2. c[i] = s[(k - 1) + i] BY <1>4, <4>1
      <4>3. (e \o b)[i] = b[i - 1] BY <1>5, <1>6, <1>7, <4>1
      <4>4. b[i - 1] = s[k + (i - 1)] BY <1>5, <4>1
      <4> QED BY <4>1, <4>2, <4>3, <4>4
    <3> QED BY <3>1, <3>2
  <2> QED BY <1>4, <1>7, <2>1, <2>2, SeqEqual
<1>10. d = a \o e
  <2>1. Len(a \o e) = k BY <1>1, <1>4, <1>6, <1>8
  <2>2. ASSUME NEW i \in 1 .. k PROVE d[i] = (a \o e)[i]
    <3>1. CASE i = k
      <4>1. i \in 1 .. (k - 1) + 1 /\ ~(i <= k - 1) /\ i - (k - 1) = 1 BY <1>1, <3>1
      <4> QED BY <1>4, <1>5, <1>6, <1>8, <3>1, <4>1
    <3>2. CASE i # k
      <4>1. i \in 1 .. (k - 1) + 1 /\ i <= k - 1 /\ i \in 1 .. k - 1 BY <1>1, <3>2
      <4>2. (a \o e)[i] = a[i] BY <1>4, <1>6, <1>8, <4>1
      <4> QED BY <1>4, <1>5, <4>1, <4>2
    <3> QED BY <3>1, <3>2
  <2> QED BY <1>5, <1>8, <2>1, <2>2, SeqEqual
<1> QED BY <1>2, <1>9, <1>10 DEF a, b, c, d, e

-----------------------------------------------------------------------------
(* Picked: the elements at the positions in I, in their order. *)

\* The ranks of the positions in I count them, from 1 on.
LEMMA RankCounts ==
  ASSUME NEW n \in Nat, NEW I \in SUBSET (1 .. n)
  PROVE  /\ IsFiniteSet(I) /\ Cardinality(I) \in Nat
         /\ \A i \in I : Rank(I, i) \in 1 .. Cardinality(I)
         /\ \A i, j \in I : i < j => Rank(I, i) < Rank(I, j)
         /\ \A k \in 1 .. Cardinality(I) : \E i \in I : Rank(I, i) = k
<1>1. IsFiniteSet(I) /\ Cardinality(I) \in Nat
  <2>1. IsFiniteSet(1 .. n) BY FS_Interval
  <2>2. IsFiniteSet(I) BY <2>1, FS_Subset
  <2> QED BY <2>2, FS_CardinalityType
<1>2. ASSUME NEW i \in I
      PROVE  /\ IsFiniteSet(I \cap 1 .. i) /\ Rank(I, i) \in Nat
             /\ Rank(I, i) <= Cardinality(I) /\ Rank(I, i) # 0
  <2>1. I \cap 1 .. i \in SUBSET I /\ i \in I \cap 1 .. i OBVIOUS
  <2>2. IsFiniteSet(I \cap 1 .. i) /\ Cardinality(I \cap 1 .. i) <= Cardinality(I)
    BY <1>1, <2>1, FS_Subset
  <2>3. Cardinality(I \cap 1 .. i) \in Nat BY <2>2, FS_CardinalityType
  <2>4. Cardinality(I \cap 1 .. i) # 0 BY <2>1, <2>2, FS_EmptySet
  <2> QED BY <2>2, <2>3, <2>4 DEF Rank
<1>3. ASSUME NEW i \in I, NEW j \in I, i < j PROVE Rank(I, i) < Rank(I, j)
  <2>1. I \cap 1 .. i \in SUBSET (I \cap 1 .. j) BY <1>3
  <2>2. I \cap 1 .. i # I \cap 1 .. j
    <3>1. j \in I \cap 1 .. j /\ j \notin 1 .. i BY <1>3
    <3> QED BY <3>1
  <2>3. IsFiniteSet(I \cap 1 .. j) BY <1>2
  <2>4. /\ Cardinality(I \cap 1 .. i) <= Cardinality(I \cap 1 .. j)
        /\ Cardinality(I \cap 1 .. i) # Cardinality(I \cap 1 .. j)
    BY <2>1, <2>2, <2>3, FS_Subset
  <2>5. Rank(I, i) \in Nat /\ Rank(I, j) \in Nat BY <1>2
  <2> QED BY <2>4, <2>5 DEF Rank
<1>4. ASSUME NEW i \in I PROVE Rank(I, i) \in 1 .. Cardinality(I)
  <2>1. \A a, b \in Nat : a # 0 /\ a <= b => a \in 1 .. b OBVIOUS
  <2>2. /\ Rank(I, i) \in Nat /\ Cardinality(I) \in Nat
        /\ Rank(I, i) # 0 /\ Rank(I, i) <= Cardinality(I)
    BY <1>1, <1>2
  <2> QED BY <2>1, <2>2
<1>5. ASSUME NEW k \in 1 .. Cardinality(I) PROVE \E i \in I : Rank(I, i) = k
  <2> DEFINE f == [i \in I |-> Rank(I, i)]
             T == 1 .. Cardinality(I)
  <2>1. f \in [I -> T] BY <1>4
  <2>2. \A i, j \in I : f[i] = f[j] => i = j
    <3> SUFFICES ASSUME NEW i \in I, NEW j \in I, Rank(I, i) = Rank(I, j) PROVE i = j
      OBVIOUS
    <3>1. i \in Nat /\ j \in Nat
      <4>1. i \in 1 .. n /\ j \in 1 .. n OBVIOUS
      <4> QED BY <4>1
    <3>2. Rank(I, i) \in Nat BY <1>2
    <3>3. ~(i < j) /\ ~(j < i) BY <1>3, <3>1, <3>2
    <3> QED BY <3>1, <3>3
  <2>3. f \in Injection(I, T) BY <2>1, <2>2 DEF Injection, IsInjective
  <2>4. IsFiniteSet(T) /\ Cardinality(T) = Cardinality(I)
    <3>1. 1 \in Int /\ Cardinality(I) \in Int BY <1>1
    <3>2. IsFiniteSet(T) /\ Cardinality(T) =
            IF 1 > Cardinality(I) THEN 0 ELSE Cardinality(I) - 1 + 1
      BY <3>1, FS_Interval
    <3> QED BY <1>1, <3>2
  <2>5. f \in Surjection(I, T)
    <3> HIDE DEF f, T
    <3> QED BY <1>1, <2>3, <2>4, FS_Injection
  <2>6. \E i \in I : f[i] = k BY <2>5 DEF Surjection
  <2> QED BY <2>6
<1> QED BY <1>1, <1>3, <1>4, <1>5

\* Picked has what s has at I, as often, and in the order of s.
LEMMA PickedIn ==
  ASSUME NEW S, NEW s \in Seq(S), NEW I \in SUBSET (1 .. Len(s))
  PROVE  /\ Picked(s, I) \in Seq(S) /\ Len(Picked(s, I)) = Cardinality(I)
         /\ ToSet(Picked(s, I)) = {s[i] : i \in I}
         /\ \E p \in [1 .. Cardinality(I) -> I] :
              /\ \A k \in 1 .. Cardinality(I) : Picked(s, I)[k] = s[p[k]]
              /\ \A k, l \in 1 .. Cardinality(I) : k < l => p[k] < p[l]
<1>1. Len(s) \in Nat /\ \A i \in 1 .. Len(s) : s[i] \in S BY LenProperties, ElementOfSeq
<1>2. /\ Cardinality(I) \in Nat
      /\ \A i \in I : Rank(I, i) \in 1 .. Cardinality(I)
      /\ \A i, j \in I : i < j => Rank(I, i) < Rank(I, j)
      /\ \A k \in 1 .. Cardinality(I) : \E i \in I : Rank(I, i) = k
  BY <1>1, RankCounts
<1> DEFINE c == Cardinality(I)
           P(k) == CHOOSE i \in I : Rank(I, i) = k
           p == [k \in 1 .. c |-> P(k)]
<1>3. ASSUME NEW k \in 1 .. c PROVE P(k) \in I /\ Rank(I, P(k)) = k
  BY <1>2, Zenon
<1>4. ASSUME NEW i \in I PROVE P(Rank(I, i)) = i
  <2>1. P(Rank(I, i)) \in I /\ Rank(I, P(Rank(I, i))) = Rank(I, i) BY <1>2, <1>3
  <2>2. \A j \in I : Rank(I, j) = Rank(I, i) => j = i
    <3> SUFFICES ASSUME NEW j \in I, Rank(I, j) = Rank(I, i) PROVE j = i
      OBVIOUS
    <3>1. i \in Nat /\ j \in Nat /\ Rank(I, i) \in Nat BY <1>1, <1>2
    <3>2. ~(i < j) /\ ~(j < i) BY <1>2, <3>1
    <3> QED BY <3>1, <3>2
  <2> QED BY <2>1, <2>2, Zenon
<1>5. Picked(s, I) = [k \in 1 .. c |-> s[P(k)]] BY DEF Picked
<1> HIDE DEF P
<1>6. p \in [1 .. c -> I] BY <1>3
<1>7. \A k \in 1 .. c : p[k] = P(k) /\ Picked(s, I)[k] = s[p[k]] BY <1>5
<1>8. ASSUME NEW k \in 1 .. c, NEW l \in 1 .. c, k < l PROVE p[k] < p[l]
  <2>1. p[k] \in I /\ p[l] \in I /\ Rank(I, p[k]) = k /\ Rank(I, p[l]) = l
    BY <1>3, <1>7
  <2>2. p[k] \in Nat /\ p[l] \in Nat
    <3>1. p[k] \in 1 .. Len(s) /\ p[l] \in 1 .. Len(s) BY <2>1
    <3> QED BY <1>1, <3>1
  <2>3. k \in Nat /\ l \in Nat /\ ~(l < k) /\ k # l BY <1>2, <1>8
  <2>4. ~(p[l] < p[k]) /\ p[l] # p[k] BY <1>2, <2>1, <2>3
  <2> QED BY <2>2, <2>4
<1>9. \A k \in 1 .. c : s[P(k)] \in S BY <1>1, <1>3
<1>10. Picked(s, I) \in Seq(S) /\ Len(Picked(s, I)) = c /\ DOMAIN Picked(s, I) = 1 .. c
  BY <1>2, <1>5, <1>9
<1>11. ToSet(Picked(s, I)) = {s[i] : i \in I}
  <2>1. ASSUME NEW x \in ToSet(Picked(s, I)) PROVE x \in {s[i] : i \in I}
    <3>1. PICK k \in 1 .. c : x = s[P(k)] BY <1>5, <1>10, <2>1 DEF ToSet
    <3> QED BY <1>3, <3>1
  <2>2. ASSUME NEW i \in I PROVE s[i] \in ToSet(Picked(s, I))
    <3>1. Rank(I, i) \in 1 .. c BY <1>2
    <3>2. Picked(s, I)[Rank(I, i)] = s[i] BY <1>4, <1>5, <3>1
    <3> QED BY <1>10, <3>1, <3>2 DEF ToSet
  <2> QED BY <2>1, <2>2
<1>12. /\ \A k \in 1 .. c : Picked(s, I)[k] = s[p[k]]
       /\ \A k, l \in 1 .. c : k < l => p[k] < p[l]
  BY <1>7, <1>8
<1> HIDE DEF p
<1> QED BY <1>6, <1>10, <1>11, <1>12

\* A sequence falls apart into what is picked and what is left.
LEMMA PickedParts ==
  ASSUME NEW S, NEW s \in Seq(S), NEW I \in SUBSET (1 .. Len(s))
  PROVE  /\ Len(Picked(s, (1 .. Len(s)) \ I)) + Len(Picked(s, I)) = Len(s)
         /\ ToSet(Picked(s, (1 .. Len(s)) \ I)) \cup ToSet(Picked(s, I)) = ToSet(s)
<1> DEFINE D == 1 .. Len(s)
           J == D \ I
<1>1. Len(s) \in Nat /\ DOMAIN s = D BY LenProperties
<1>2. J \in SUBSET D /\ I \in SUBSET D OBVIOUS
<1>3. /\ Len(Picked(s, J)) = Cardinality(J) /\ ToSet(Picked(s, J)) = {s[i] : i \in J}
      /\ Len(Picked(s, I)) = Cardinality(I) /\ ToSet(Picked(s, I)) = {s[i] : i \in I}
  BY <1>2, PickedIn
<1>4. Cardinality(J) + Cardinality(I) = Len(s)
  <2>1. IsFiniteSet(D) /\ Cardinality(D) = Len(s)
    <3>1. 1 \in Int /\ Len(s) \in Int BY <1>1
    <3>2. IsFiniteSet(D) /\ Cardinality(D) = IF 1 > Len(s) THEN 0 ELSE Len(s) - 1 + 1
      BY <3>1, FS_Interval
    <3> QED BY <1>1, <3>2
  <2>2. IsFiniteSet(I) /\ Cardinality(I) \in Nat BY <1>1, RankCounts
  <2>3. Cardinality(D \ I) = Cardinality(D) - Cardinality(D \cap I)
    BY <2>1, <2>2, FS_Difference
  <2>4. D \cap I = I OBVIOUS
  <2>5. \A a, b, d \in Nat : a = d - b => a + b = d OBVIOUS
  <2>6. IsFiniteSet(J) BY <2>1, FS_Difference
  <2>7. Cardinality(J) \in Nat BY <2>6, FS_CardinalityType
  <2> HIDE DEF J, D
  <2>8. Cardinality(J) = Len(s) - Cardinality(I) BY <2>1, <2>3, <2>4 DEF J
  <2> QED BY <1>1, <2>2, <2>5, <2>7, <2>8
<1>5. {s[i] : i \in J} \cup {s[i] : i \in I} = ToSet(s) BY <1>1 DEF ToSet
<1> QED BY <1>3, <1>4, <1>5

-----------------------------------------------------------------------------
(* The invariants. *)

\* The tx ring has room for two bursts beside what it holds: at most 768 of the
\* code's 1024 descriptors are in use (dpdk.h: kRingDescN, kMaxBurstSize).
TxReclaimed == Len(tx_ring) + Len(tx_done) <= kRingDescN - 2 * kMaxBurstSize

\* The main loop is at a request.
Busy == pc \in {"post", "wait", "reply"}

\* Types, with the mbufs the loop and the thread use, for any pool.
TypeInv ==
  /\ TypeOK
  /\ wire \in Seq(Contents)
  /\ Busy => rx \in Mbufs /\ tx \in Mbufs
  /\ pc = "reply" => ~work_ready
  /\ work_ready => pc = "wait" /\ rx_buff_ptr \in Mbufs /\ tx_buff_ptr \in Mbufs

\* The k-th request of a burst has the k-th response buffer.
Bursts ==
  /\ pc # "aborted" /\ ~failed
  /\ pc = "alloc" => rx_burst_ptr = 0
  /\ pc = "next" \/ Busy =>
       Len(tx_mbufs) = Len(rx_mbufs) /\ tx_burst_ptr = rx_burst_ptr
  /\ Busy => /\ rx_burst_ptr >= 1
             /\ rx = rx_mbufs[rx_burst_ptr] /\ tx = tx_mbufs[rx_burst_ptr]
  /\ pc = "wait" => rx_buff_ptr = rx /\ tx_buff_ptr = tx

\* A ring holds no more mbufs than it has descriptors.
RingsFit == /\ Len(rx_ring) <= kRingDescN
            /\ Len(tx_ring) + Len(tx_done) <= kRingDescN

\* The response buffers of the burst that have their header.
Replied == IF pc = "next" THEN tx_burst_ptr
           ELSE IF Busy THEN tx_burst_ptr - 1 ELSE 0
RepliedTx == Prefix(tx_mbufs, Replied)

\* A response that says something says what it should.
Right(c) == c.size # 0 => c = Response(c.to)

\* What the thread left of the request the loop is at.
Answered ==
  (pc \in {"wait", "reply"} /\ ~work_ready) /\ rsp_pckt_size # 0 =>
    mem[tx] = [kind |-> "response", pkt |-> mem[rx].pkt, size |-> 0, to |-> 0]
    /\ rsp_pckt_size = mem[rx].pkt

\* Packets in the order received: those answered on the wire, in the ring and in
\* the burst, then those still to answer.
Tos(M, s) == [k \in DOMAIN s |-> M[s[k]].to]
Packets(M, s) == [k \in DOMAIN s |-> M[s[k]].pkt]
SentBy(w) == [k \in DOMAIN w |-> w[k].to]
Sent == SentBy(wire)
Line == Sent \o Tos(mem, tx_ring) \o Tos(mem, RepliedTx) \o Packets(mem, HeldRx)

Rising(s, n) == /\ \A k \in DOMAIN s : s[k] \in 1 .. n
                /\ \A j, k \in DOMAIN s : j < k => s[j] < s[k]

AnswersRight ==
  /\ \A k \in DOMAIN wire : Right(wire[k])
  /\ \A k \in DOMAIN tx_ring : Right(mem[tx_ring[k]])
  /\ \A k \in DOMAIN RepliedTx : Right(mem[RepliedTx[k]])

\* The inductive invariant, as long as no allocation has failed.
LineRises == Rising(Line, rcvd)
FlowInv == /\ TypeInv /\ Bursts /\ RingsFit /\ MbufsAccounted
           /\ Answered /\ AnswersRight /\ LineRises

-----------------------------------------------------------------------------
(* Types. *)

\* The types, one by one.
LEMMA Types ==
  ASSUME TypeInv
  PROVE  /\ pool \in Seq(Mbufs) /\ rx_ring \in Seq(Mbufs) /\ tx_ring \in Seq(Mbufs)
         /\ tx_done \in Seq(Mbufs) /\ rx_mbufs \in Seq(Mbufs) /\ tx_mbufs \in Seq(Mbufs)
         /\ wire \in Seq(Contents)
         /\ Len(pool) \in Nat /\ Len(rx_ring) \in Nat /\ Len(tx_ring) \in Nat
         /\ Len(tx_done) \in Nat /\ Len(rx_mbufs) \in Nat /\ Len(tx_mbufs) \in Nat
         /\ rx_burst_ptr \in Nat /\ rx_burst_ptr <= Len(rx_mbufs)
         /\ tx_burst_ptr \in Nat /\ tx_burst_ptr <= tx_burst_size
         /\ tx_burst_size = Len(tx_mbufs) /\ rcvd \in Nat /\ rcvd <= MaxPkts
         /\ kRingDescN \in Nat /\ kMaxBurstSize \in Nat /\ MaxPkts \in Nat
         /\ PoolSize \in Nat /\ PoolSize >= 2 * kRingDescN
<1>1. /\ pool \in Seq(Mbufs) /\ rx_ring \in Seq(Mbufs) /\ tx_ring \in Seq(Mbufs)
      /\ tx_done \in Seq(Mbufs) /\ rx_mbufs \in Seq(Mbufs) /\ tx_mbufs \in Seq(Mbufs)
      /\ wire \in Seq(Contents)
  BY DEF TypeInv, TypeOK
<1>2. /\ Len(pool) \in Nat /\ Len(rx_ring) \in Nat /\ Len(tx_ring) \in Nat
      /\ Len(tx_done) \in Nat /\ Len(rx_mbufs) \in Nat /\ Len(tx_mbufs) \in Nat
  BY <1>1, LenProperties
<1>3. /\ kRingDescN \in Nat /\ kMaxBurstSize \in Nat /\ MaxPkts \in Nat
      /\ PoolSize \in Nat /\ PoolSize >= 2 * kRingDescN
  BY ServerAssumption
<1>4. /\ rx_burst_ptr \in 0 .. Len(rx_mbufs) /\ tx_burst_ptr \in 0 .. tx_burst_size
      /\ tx_burst_size = Len(tx_mbufs) /\ rcvd \in 0 .. MaxPkts
  BY DEF TypeInv, TypeOK
<1> QED BY <1>1, <1>2, <1>3, <1>4

LEMMA MemTypes ==
  ASSUME TypeInv, NEW m \in Mbufs
  PROVE  /\ mem[m] \in Contents /\ DOMAIN mem = Mbufs
         /\ mem[m].pkt \in 0 .. MaxPkts
BY DEF TypeInv, TypeOK, Contents

LEMMA InitTypes == ASSUME Init PROVE TypeInv
<1>1. /\ kRingDescN \in Nat /\ PoolSize \in Nat /\ PoolSize - kRingDescN \in Nat
      /\ MaxPkts \in Nat /\ kMaxBurstSize \in Nat
  BY ServerAssumption
<1>2. rx_ring \in Seq(Mbufs) /\ pool \in Seq(Mbufs)
  <2>1. \A k \in 1 .. kRingDescN : k \in Mbufs BY ServerAssumption DEF Mbufs
  <2>2. \A k \in 1 .. PoolSize - kRingDescN : kRingDescN + k \in Mbufs
    BY ServerAssumption DEF Mbufs
  <2> QED BY <1>1, <2>1, <2>2 DEF Init
<1>3. << >> \in Seq(Mbufs) /\ << >> \in Seq(Contents) /\ Len(<< >>) = 0 BY EmptySeq
<1>4. mem \in [Mbufs -> Contents] BY <1>1 DEF Init, Junk, Contents
<1>5. {pool, rx_ring, tx_ring, tx_done, rx_mbufs, tx_mbufs} \subseteq Seq(Mbufs)
      /\ wire \in Seq(Contents)
  BY <1>2, <1>3 DEF Init
<1>6. /\ rx_burst_ptr \in 0 .. Len(rx_mbufs) /\ Len(rx_mbufs) <= kMaxBurstSize
      /\ tx_burst_ptr \in 0 .. tx_burst_size /\ tx_burst_size = Len(tx_mbufs)
      /\ rsp_pckt_size \in 0 .. MaxPkts /\ rcvd \in 0 .. MaxPkts
  BY <1>1, <1>3 DEF Init
<1>7. {work_ready, failed} \subseteq BOOLEAN BY Zenon DEF Init
<1>8. /\ {rx, tx, rx_buff_ptr, tx_buff_ptr} \subseteq Mbufs \cup {NULL}
      /\ waiting \subseteq Threads /\ pc = "recv" /\ ~work_ready
  BY DEF Init
<1>9. TypeOK BY <1>4, <1>5, <1>6, <1>7, <1>8 DEF TypeOK
<1> QED BY <1>5, <1>8, <1>9 DEF TypeInv, Busy

\* A reception takes got from the ring and keeps what got has at I.
Received(n, I, got, kept) ==
  /\ got \in Seq(Mbufs) /\ Len(got) = n /\ \A k \in 1 .. n : got[k] = rx_ring[k]
  /\ kept \in Seq(Mbufs) /\ kept = Picked(got, I)
  /\ Len(kept) <= n /\ ToSet(kept) \subseteq ToSet(got)
  /\ ToSet(got) \subseteq ToSet(rx_ring)
  /\ rx_ring' \in Seq(Mbufs) /\ pool' \in Seq(Mbufs)
  /\ Len(rx_ring') + Len(pool') + Len(kept) = Len(rx_ring) + Len(pool)
  /\ ToSet(rx_ring') \cup ToSet(pool') \cup ToSet(kept) = ToSet(rx_ring) \cup ToSet(pool)
  /\ Len(rx_ring') <= kRingDescN
  /\ IF n = 0 THEN kept = << >> /\ UNCHANGED <<rx_mbufs, rx_burst_ptr>>
              ELSE rx_mbufs' = kept /\ rx_burst_ptr' = 0
  /\ pc' = IF kept = << >> THEN "recv" ELSE "alloc"
  /\ n <= Len(rx_ring)
  /\ rcvd' = rcvd + n /\ rcvd + n <= MaxPkts
  /\ mem' = [m \in Mbufs |-> IF \E k \in 1 .. n : got[k] = m
               THEN Request(rcvd + CHOOSE k \in 1 .. n : got[k] = m) ELSE mem[m]]

\* Where the mbufs of the ring and of the pool are after a reception.
LEMMA ReceiveParts ==
  ASSUME TypeInv, NEW n \in 0 .. kMaxBurstSize, NEW foreign \in SUBSET (1 .. n),
         NEW refill \in 0 .. Len(pool), Receive(n, foreign, refill),
         NEW got, got = Prefix(rx_ring, n),
         NEW kept, kept = Picked(got, (1 .. n) \ foreign)
  PROVE  Received(n, (1 .. n) \ foreign, got, kept)
<1> DEFINE freed == Picked(got, foreign)
<1>1. n \in Nat /\ n <= kMaxBurstSize /\ refill \in Nat /\ refill <= Len(pool) BY Types
<1>2. /\ n <= Len(rx_ring) /\ rcvd + n <= MaxPkts
      /\ Len(rx_ring) - n + refill <= kRingDescN
      /\ rx_ring' = Rest(rx_ring, n) \o Prefix(pool, refill)
      /\ pool' = Rest(pool, refill) \o freed
      /\ rcvd' = rcvd + n
      /\ IF n = 0 THEN UNCHANGED rxburst ELSE rx_mbufs' = kept /\ rx_burst_ptr' = 0
      /\ pc' = IF kept = << >> THEN "recv" ELSE "alloc"
  BY DEF Receive
<1>3. n \in 0 .. Len(rx_ring) BY <1>1, <1>2, Types
<1>t. rx_ring \in Seq(Mbufs) /\ pool \in Seq(Mbufs) BY Types
<1>4. /\ got \in Seq(Mbufs) /\ Len(got) = n /\ \A k \in 1 .. n : got[k] = rx_ring[k]
      /\ Rest(rx_ring, n) \in Seq(Mbufs) /\ Len(Rest(rx_ring, n)) = Len(rx_ring) - n
      /\ ToSet(rx_ring) = ToSet(got) \cup ToSet(Rest(rx_ring, n))
  <2>1. /\ Prefix(rx_ring, n) \in Seq(Mbufs) /\ Len(Prefix(rx_ring, n)) = n
        /\ \A k \in 1 .. n : Prefix(rx_ring, n)[k] = rx_ring[k]
        /\ Rest(rx_ring, n) \in Seq(Mbufs) /\ Len(Rest(rx_ring, n)) = Len(rx_ring) - n
        /\ ToSet(rx_ring) = ToSet(Prefix(rx_ring, n)) \cup ToSet(Rest(rx_ring, n))
    BY <1>3, <1>t, SplitIn
  <2> QED BY <2>1
<1>5. /\ Prefix(pool, refill) \in Seq(Mbufs) /\ Len(Prefix(pool, refill)) = refill
      /\ Rest(pool, refill) \in Seq(Mbufs) /\ Len(Rest(pool, refill)) = Len(pool) - refill
      /\ ToSet(pool) = ToSet(Prefix(pool, refill)) \cup ToSet(Rest(pool, refill))
  BY <1>t, SplitIn
<1>6. /\ kept \in Seq(Mbufs) /\ freed \in Seq(Mbufs)
      /\ Len(kept) + Len(freed) = n /\ ToSet(kept) \cup ToSet(freed) = ToSet(got)
  <2> DEFINE I == foreign
             D == 1 .. Len(got)
  <2>1. I \in SUBSET D /\ D \ I \in SUBSET D /\ kept = Picked(got, D \ I) BY <1>4
  <2>2. Picked(got, D \ I) \in Seq(Mbufs) /\ freed \in Seq(Mbufs)
    BY <1>4, <2>1, PickedIn
  <2>3. /\ Len(Picked(got, D \ I)) + Len(Picked(got, I)) = Len(got)
        /\ ToSet(Picked(got, D \ I)) \cup ToSet(Picked(got, I)) = ToSet(got)
    BY <1>4, <2>1, PickedParts
  <2> QED BY <1>4, <2>1, <2>2, <2>3
<1>7. Len(kept) \in Nat /\ Len(freed) \in Nat BY <1>6, LenProperties
<1> HIDE DEF freed
<1>8. /\ rx_ring' \in Seq(Mbufs) /\ Len(rx_ring') = (Len(rx_ring) - n) + refill
      /\ ToSet(rx_ring') = ToSet(Rest(rx_ring, n)) \cup ToSet(Prefix(pool, refill))
  <2> DEFINE a == Rest(rx_ring, n)
             b == Prefix(pool, refill)
  <2>1. a \in Seq(Mbufs) /\ b \in Seq(Mbufs) BY <1>4, <1>5
  <2>2. /\ a \o b \in Seq(Mbufs) /\ Len(a \o b) = Len(a) + Len(b)
        /\ ToSet(a \o b) = ToSet(a) \cup ToSet(b)
    <3> HIDE DEF a, b
    <3> QED BY <2>1, ConcatIn
  <2> QED BY <1>2, <1>4, <1>5, <2>2
<1>9. /\ pool' \in Seq(Mbufs) /\ Len(pool') = (Len(pool) - refill) + Len(freed)
      /\ ToSet(pool') = ToSet(Rest(pool, refill)) \cup ToSet(freed)
  <2> DEFINE a == Rest(pool, refill)
  <2>1. a \in Seq(Mbufs) BY <1>5
  <2>2. /\ a \o freed \in Seq(Mbufs) /\ Len(a \o freed) = Len(a) + Len(freed)
        /\ ToSet(a \o freed) = ToSet(a) \cup ToSet(freed)
    <3> HIDE DEF a
    <3> QED BY <1>6, <2>1, ConcatIn
  <2> QED BY <1>2, <1>5, <2>2
<1>10. /\ Len(rx_ring') + Len(pool') + Len(kept) = Len(rx_ring) + Len(pool)
       /\ Len(kept) <= n
  <2>1. /\ Len(rx_ring') = (Len(rx_ring) - n) + refill
        /\ Len(pool') = (Len(pool) - refill) + Len(freed) /\ Len(kept) + Len(freed) = n
    BY <1>6, <1>8, <1>9
  <2>2. Len(rx_ring) \in Int /\ Len(pool) \in Int BY Types
  <2>3. \A r, p, f, k, m, q \in Int : k + f = m =>
          ((r - m) + q) + ((p - q) + f) + k = r + p
    OBVIOUS
  <2>4. \A f, k \in Nat : k + f = n => k <= n BY <1>1
  <2>5. n \in Int /\ refill \in Int /\ Len(freed) \in Int /\ Len(kept) \in Int BY <1>1, <1>7
  <2>6. Len(rx_ring') + Len(pool') + Len(kept)
          = ((Len(rx_ring) - n) + refill) + ((Len(pool) - refill) + Len(freed)) + Len(kept)
    BY <2>1
  <2>7. ((Len(rx_ring) - n) + refill) + ((Len(pool) - refill) + Len(freed)) + Len(kept)
          = Len(rx_ring) + Len(pool)
    BY <2>1, <2>2, <2>3, <2>5
  <2>8. Len(kept) <= n BY <1>7, <2>1, <2>4
  <2> QED BY <2>6, <2>7, <2>8
<1>11. ToSet(rx_ring') \cup ToSet(pool') \cup ToSet(kept)
         = ToSet(rx_ring) \cup ToSet(pool)
  BY <1>4, <1>5, <1>6, <1>8, <1>9
<1>12. ToSet(kept) \subseteq ToSet(got) BY <1>6
<1>13. n = 0 => kept = << >>
  <2>1. n = 0 => Len(kept) = 0 BY <1>6, <1>7
  <2> QED BY <1>6, <2>1, EmptySeq
<1>14. /\ Len(rx_ring') <= kRingDescN BY <1>2, <1>8
<1>15. mem' = [m \in Mbufs |-> IF \E k \in 1 .. n : got[k] = m
                THEN Request(rcvd + CHOOSE k \in 1 .. n : got[k] = m) ELSE mem[m]]
  BY DEF Receive
<1>16. IF n = 0 THEN kept = << >> /\ UNCHANGED <<rx_mbufs, rx_burst_ptr>>
                ELSE rx_mbufs' = kept /\ rx_burst_ptr' = 0
  BY <1>2, <1>13 DEF rxburst
<1>17. ToSet(got) \subseteq ToSet(rx_ring) BY <1>4
<1> QED BY <1>2, <1>4, <1>6, <1>8, <1>9, <1>10, <1>11, <1>12, <1>14, <1>15, <1>16,
           <1>17, Zenon DEF Received

LEMMA ReceiveSteps ==
  ASSUME TypeInv, MRecv
  PROVE  \E n \in 0 .. kMaxBurstSize : \E I \in SUBSET (1 .. n) : \E got, kept :
           Received(n, I, got, kept)
<1>1. PICK n \in 0 .. kMaxBurstSize : \E foreign \in SUBSET (1 .. n) :
        \E refill \in 0 .. Len(pool) : Receive(n, foreign, refill)
  BY DEF MRecv
<1>2. PICK foreign \in SUBSET (1 .. n) :
        \E refill \in 0 .. Len(pool) : Receive(n, foreign, refill)
  BY <1>1
<1>3. PICK refill \in 0 .. Len(pool) : Receive(n, foreign, refill) BY <1>2
<1> DEFINE got == Prefix(rx_ring, n)
           kept == Picked(got, (1 .. n) \ foreign)
<1>4. Received(n, (1 .. n) \ foreign, got, kept) BY <1>3, ReceiveParts, Zenon
<1>5. (1 .. n) \ foreign \in SUBSET (1 .. n) OBVIOUS
<1> QED BY <1>4, <1>5, Zenon

LEMMA ReceiveTypes == ASSUME TypeInv, MRecv PROVE TypeInv'
<1>0. PICK n \in 0 .. kMaxBurstSize : \E I \in SUBSET (1 .. n) : \E got, kept :
        Received(n, I, got, kept)
  BY ReceiveSteps, Zenon
<1>p. PICK I \in SUBSET (1 .. n) : \E got, kept : Received(n, I, got, kept)
  BY <1>0, Zenon
<1>1. PICK got, kept : Received(n, I, got, kept)
  BY <1>p, Zenon
<1>6. /\ kept \in Seq(Mbufs) /\ Len(kept) <= n
      /\ rx_ring' \in Seq(Mbufs) /\ pool' \in Seq(Mbufs)
      /\ IF n = 0 THEN kept = << >> /\ UNCHANGED <<rx_mbufs, rx_burst_ptr>>
                  ELSE rx_mbufs' = kept /\ rx_burst_ptr' = 0
      /\ pc' = IF kept = << >> THEN "recv" ELSE "alloc"
      /\ rcvd' = rcvd + n /\ rcvd + n <= MaxPkts
  BY <1>1 DEF Received
<1>7. n \in Nat /\ n <= kMaxBurstSize BY Types
<1>n. rcvd \in Nat /\ rcvd + n <= MaxPkts /\ MaxPkts \in Nat BY <1>6, Types
<1>8. mem' \in [Mbufs -> Contents]
  <2>1. mem' = [m \in Mbufs |-> IF \E k \in 1 .. n : got[k] = m
                 THEN Request(rcvd + CHOOSE k \in 1 .. n : got[k] = m) ELSE mem[m]]
    BY <1>1 DEF Received
  <2> DEFINE c(m) == CHOOSE k \in 1 .. n : got[k] = m
  <2>2. ASSUME NEW m \in Mbufs, \E k \in 1 .. n : got[k] = m
        PROVE  Request(rcvd + c(m)) \in Contents
    <3>1. c(m) \in 1 .. n BY <2>2, Zenon
    <3> HIDE DEF c
    <3>2. rcvd + c(m) \in 0 .. MaxPkts BY <1>7, <1>n, <3>1
    <3> QED BY <3>2, Types DEF Request, Contents
  <2>3. \A m \in Mbufs : mem[m] \in Contents BY MemTypes
  <2> QED BY <2>1, <2>2, <2>3, Zenon
<1>9. /\ rx_mbufs' \in Seq(Mbufs) /\ rx_burst_ptr' \in 0 .. Len(rx_mbufs')
      /\ Len(rx_mbufs') <= kMaxBurstSize
  <2>1. CASE n = 0 BY <1>6, <2>1 DEF TypeInv, TypeOK
  <2>2. CASE n # 0
    <3>1. Len(kept) \in Nat BY <1>6, LenProperties
    <3>2. Len(kept) <= n /\ rx_mbufs' = kept /\ rx_burst_ptr' = 0 BY <1>6, <2>2
    <3>3. kMaxBurstSize \in Nat BY ServerAssumption
    <3> QED BY <1>6, <1>7, <3>1, <3>2, <3>3
  <2> QED BY <2>1, <2>2
<1>10. rcvd' \in 0 .. MaxPkts BY <1>6, <1>7, <1>n
<1>11. pc = "recv" /\ pc' \in {"recv", "alloc"}
       /\ UNCHANGED <<tx_ring, tx_done, tx_mbufs, tx_burst_size, tx_burst_ptr, rx, tx>>
       /\ UNCHANGED <<work_ready, rx_buff_ptr, tx_buff_ptr, rsp_pckt_size>>
       /\ UNCHANGED <<waiting, failed, wire>>
  BY <1>6 DEF MRecv, txburst, params
<1>12. TypeOK' BY <1>6, <1>8, <1>9, <1>10, <1>11 DEF TypeInv, TypeOK
<1> QED BY <1>11, <1>12 DEF TypeInv, Busy

\* SendBatch gives n mbufs of the burst to the ring and frees the others, and the
\* oldest done that the NIC has sent.
SentBurst(n, done) ==
  /\ tx_ring' \in Seq(Mbufs) /\ tx_done' \in Seq(Mbufs) /\ pool' \in Seq(Mbufs)
  /\ tx_ring' = tx_ring \o Prefix(tx_mbufs, n)
  /\ Len(tx_ring') + Len(tx_done') <= kRingDescN
  /\ Len(tx_ring') + Len(tx_done') + Len(pool')
       = Len(tx_ring) + Len(tx_done) + Len(pool) + Len(tx_mbufs)
  /\ ToSet(tx_ring') \cup ToSet(tx_done') \cup ToSet(pool')
       = ToSet(tx_ring) \cup ToSet(tx_done) \cup ToSet(pool) \cup ToSet(tx_mbufs)
  /\ tx_burst_ptr' \in 0 .. tx_burst_size

LEMMA SendParts ==
  ASSUME TypeInv, MSend
  PROVE  \E n \in 0 .. tx_burst_size, done \in 0 .. Len(tx_done) : SentBurst(n, done)
<1>1. PICK n \in 0 .. tx_burst_size, done \in 0 .. Len(tx_done) :
        /\ Len(tx_ring) + Len(tx_done) - done + n <= kRingDescN
        /\ tx_ring' = tx_ring \o Prefix(tx_mbufs, n)
        /\ tx_done' = Rest(tx_done, done)
        /\ pool' = pool \o Prefix(tx_done, done) \o SubSeq(tx_mbufs, n + 1, tx_burst_size)
        /\ tx_burst_ptr' = IF n = tx_burst_size THEN 0 ELSE tx_burst_ptr
  BY DEF MSend
<1> DEFINE a == Prefix(tx_mbufs, n)
           b == Rest(tx_mbufs, n)
           c == Prefix(tx_done, done)
           d == Rest(tx_done, done)
<1>2. /\ pool \in Seq(Mbufs) /\ tx_ring \in Seq(Mbufs)
      /\ n \in 0 .. Len(tx_mbufs) /\ SubSeq(tx_mbufs, n + 1, tx_burst_size) = b
  BY Types DEF Rest
<1>3. /\ a \in Seq(Mbufs) /\ Len(a) = n /\ b \in Seq(Mbufs) /\ Len(b) = Len(tx_mbufs) - n
      /\ ToSet(tx_mbufs) = ToSet(a) \cup ToSet(b)
  <2>1. tx_mbufs \in Seq(Mbufs) /\ n \in 0 .. Len(tx_mbufs) BY <1>2, Types
  <2> QED BY <2>1, SplitIn, SMTT(30)
<1>4. /\ c \in Seq(Mbufs) /\ Len(c) = done /\ d \in Seq(Mbufs)
      /\ Len(d) = Len(tx_done) - done /\ ToSet(tx_done) = ToSet(c) \cup ToSet(d)
  <2>1. tx_done \in Seq(Mbufs) /\ done \in 0 .. Len(tx_done) BY Types
  <2> QED BY <2>1, SplitIn, SMTT(30)
<1>5. /\ tx_ring' = tx_ring \o a /\ tx_done' = d /\ pool' = (pool \o c) \o b
  BY <1>1, <1>2
<1>m. /\ a \in Seq(Mbufs) /\ b \in Seq(Mbufs) /\ c \in Seq(Mbufs)
      /\ pool \in Seq(Mbufs) /\ tx_ring \in Seq(Mbufs)
  BY <1>2, <1>3, <1>4
<1> HIDE DEF a, b, c, d
<1>6. /\ tx_ring \o a \in Seq(Mbufs) /\ Len(tx_ring \o a) = Len(tx_ring) + Len(a)
      /\ ToSet(tx_ring \o a) = ToSet(tx_ring) \cup ToSet(a)
  BY <1>m, ConcatIn
<1>7. /\ pool \o c \in Seq(Mbufs) /\ Len(pool \o c) = Len(pool) + Len(c)
      /\ ToSet(pool \o c) = ToSet(pool) \cup ToSet(c)
  BY <1>m, ConcatIn
<1>8. /\ (pool \o c) \o b \in Seq(Mbufs) /\ Len((pool \o c) \o b) = Len(pool \o c) + Len(b)
      /\ ToSet((pool \o c) \o b) = ToSet(pool \o c) \cup ToSet(b)
  <2>1. pool \o c \in Seq(Mbufs) BY <1>7
  <2> DEFINE z == pool \o c
  <2>2. z \in Seq(Mbufs) /\ b \in Seq(Mbufs) BY <1>m, <2>1
  <2> HIDE DEF z
  <2>3. /\ z \o b \in Seq(Mbufs) /\ Len(z \o b) = Len(z) + Len(b)
        /\ ToSet(z \o b) = ToSet(z) \cup ToSet(b)
    BY <2>2, ConcatIn
  <2> QED BY <2>3 DEF z
<1>9. /\ n \in Int /\ done \in Int /\ Len(pool) \in Int /\ Len(tx_ring) \in Int
      /\ Len(tx_done) \in Int /\ Len(tx_mbufs) \in Int
  BY Types
<1>10. /\ Len(tx_ring') = Len(tx_ring) + n /\ Len(tx_done') = Len(tx_done) - done
       /\ Len(pool') = Len(pool) + done + (Len(tx_mbufs) - n)
  BY <1>3, <1>4, <1>5, <1>6, <1>7, <1>8
<1>11. /\ Len(tx_ring') + Len(tx_done') + Len(pool')
            = Len(tx_ring) + Len(tx_done) + Len(pool) + Len(tx_mbufs)
       /\ Len(tx_ring') + Len(tx_done') = Len(tx_ring) + Len(tx_done) - done + n
  <2>1. \A r, t, p, m, k, f \in Int :
          /\ (r + k) + (t - f) + (p + f + (m - k)) = r + t + p + m
          /\ (r + k) + (t - f) = r + t - f + k
    OBVIOUS
  <2> QED BY <1>9, <1>10, <2>1
<1>12. ToSet(tx_ring') \cup ToSet(tx_done') \cup ToSet(pool')
         = ToSet(tx_ring) \cup ToSet(tx_done) \cup ToSet(pool) \cup ToSet(tx_mbufs)
  BY <1>3, <1>4, <1>5, <1>6, <1>7, <1>8
<1>13. tx_burst_ptr' \in 0 .. tx_burst_size BY <1>1, Types
<1>14. /\ tx_ring' \in Seq(Mbufs) /\ tx_done' \in Seq(Mbufs) /\ pool' \in Seq(Mbufs)
  BY <1>4, <1>5, <1>6, <1>8
<1>15. Len(tx_ring') + Len(tx_done') <= kRingDescN BY <1>1, <1>11
<1>16. tx_ring' = tx_ring \o Prefix(tx_mbufs, n) BY <1>1
<1>17. SentBurst(n, done) BY <1>11, <1>12, <1>13, <1>14, <1>15, <1>16 DEF SentBurst
<1> QED BY <1>17

LEMMA AllocTypes == ASSUME TypeInv, MAlloc PROVE TypeInv'
<1> DEFINE n == Len(rx_mbufs)
<1>1. failed' \in BOOLEAN
  <2>1. failed' = (Len(pool) < n) BY Zenon DEF MAlloc
  <2>2. failed' = TRUE \/ failed' = FALSE BY <2>1
  <2> QED BY <2>2, Zenon
<1>2. /\ {pool', rx_ring', tx_ring', tx_done', rx_mbufs', tx_mbufs'} \subseteq Seq(Mbufs)
      /\ tx_burst_ptr' \in 0 .. tx_burst_size' /\ tx_burst_size' = Len(tx_mbufs')
  <2>1. CASE Len(pool) < n
    <3>1. UNCHANGED <<pool, nic, rx_mbufs, txburst>> BY <2>1 DEF MAlloc, rxburst
    <3> QED BY <3>1 DEF nic, txburst, TypeInv, TypeOK
  <2>2. CASE ~(Len(pool) < n)
    <3>1. /\ tx_mbufs' = Prefix(pool, n) /\ pool' = Rest(pool, n)
          /\ tx_burst_size' = n /\ tx_burst_ptr' = 0 /\ UNCHANGED <<nic, rx_mbufs>>
      BY <2>2, Zenon DEF MAlloc, rxburst
    <3>2. n \in 0 .. Len(pool) /\ n \in Nat BY <2>2, Types
    <3>3. Prefix(pool, n) \in Seq(Mbufs) /\ Len(Prefix(pool, n)) = n
          /\ Rest(pool, n) \in Seq(Mbufs)
      BY <3>2, Types, SplitIn
    <3>4. {pool', tx_mbufs'} \subseteq Seq(Mbufs) /\ Len(tx_mbufs') = n BY <3>1, <3>3
    <3>5. {rx_ring', tx_ring', tx_done', rx_mbufs'} \subseteq Seq(Mbufs)
      BY <3>1 DEF nic, TypeInv, TypeOK
    <3> HIDE DEF n
    <3> QED BY <3>1, <3>2, <3>4, <3>5
  <2> QED BY <2>1, <2>2
<1>3. pc = "alloc" /\ pc' = "next"
      /\ UNCHANGED <<mem, rx_mbufs, rx_burst_ptr, rx, tx, work_ready, rx_buff_ptr,
                     tx_buff_ptr, rsp_pckt_size, waiting, rcvd, wire>>
  BY DEF MAlloc, rxburst, params
<1>4. TypeOK' BY <1>1, <1>2, <1>3 DEF TypeInv, TypeOK
<1> QED BY <1>3, <1>4 DEF TypeInv, Busy

LEMMA NextTypes == ASSUME TypeInv, MNext PROVE TypeInv'
<1>1. /\ pc = "next" /\ rx_burst_ptr < Len(rx_mbufs)
      /\ rx' = rx_mbufs[rx_burst_ptr + 1] /\ rx_burst_ptr' = rx_burst_ptr + 1
      /\ IF tx_burst_ptr >= tx_burst_size
         THEN tx' = NULL /\ UNCHANGED tx_burst_ptr /\ pc' = "aborted"
         ELSE /\ tx' = tx_mbufs[tx_burst_ptr + 1]
              /\ tx_burst_ptr' = tx_burst_ptr + 1 /\ pc' = "post"
      /\ UNCHANGED <<pool, nic, mem, rx_mbufs, tx_mbufs, tx_burst_size, work_ready,
                     rx_buff_ptr, tx_buff_ptr, rsp_pckt_size, waiting, failed, rcvd, wire>>
  BY DEF MNext, params
<1>2. rx' \in Mbufs /\ rx_burst_ptr' \in 0 .. Len(rx_mbufs')
  <2>0. rx_burst_ptr \in Nat /\ Len(rx_mbufs) \in Nat /\ rx_burst_ptr < Len(rx_mbufs)
    BY <1>1, Types
  <2>1. rx_burst_ptr + 1 \in 1 .. Len(rx_mbufs) BY <2>0
  <2>2. rx_mbufs[rx_burst_ptr + 1] \in Mbufs BY <2>1, Types, ElementOfSeq
  <2> QED BY <1>1, <2>1, <2>2
<1>3. /\ tx' \in Mbufs \cup {NULL} /\ tx_burst_ptr' \in 0 .. tx_burst_size'
      /\ pc' \in {"post", "aborted"} /\ (pc' = "post" => tx' \in Mbufs)
  <2>1. CASE tx_burst_ptr >= tx_burst_size BY <1>1, <2>1, Types
  <2>2. CASE ~(tx_burst_ptr >= tx_burst_size)
    <3>0. /\ tx_burst_ptr \in Nat /\ tx_burst_size = Len(tx_mbufs)
          /\ Len(tx_mbufs) \in Nat
      BY Types
    <3>1. tx_burst_ptr + 1 \in 1 .. Len(tx_mbufs) BY <2>2, <3>0
    <3>2. tx_mbufs[tx_burst_ptr + 1] \in Mbufs BY <3>1, Types, ElementOfSeq
    <3>3. tx_burst_size' = Len(tx_mbufs) BY <1>1, Types
    <3>4. tx_burst_ptr' = tx_burst_ptr + 1 /\ tx' = tx_mbufs[tx_burst_ptr + 1]
          /\ pc' = "post"
      BY <1>1, <2>2
    <3>5. tx_burst_ptr' \in 0 .. tx_burst_size' BY <3>1, <3>3, <3>4, Types
    <3> QED BY <3>2, <3>4, <3>5
  <2> QED BY <2>1, <2>2
<1>4. TypeOK' BY <1>1, <1>2, <1>3 DEF TypeInv, TypeOK, nic
<1> QED BY <1>1, <1>2, <1>3, <1>4 DEF TypeInv, Busy

LEMMA PostTypes == ASSUME TypeInv, MPost PROVE TypeInv'
<1>1. /\ pc = "post" /\ pc' = "wait" /\ rx \in Mbufs /\ tx \in Mbufs
      /\ rx_buff_ptr' = rx /\ tx_buff_ptr' = tx /\ work_ready' = TRUE
      /\ UNCHANGED <<pool, nic, mem, rxburst, txburst, rx, tx, rsp_pckt_size, failed,
                     rcvd, wire>>
  BY DEF MPost, TypeInv, Busy
<1>2. waiting' \subseteq Threads
  BY DEF MPost, Woken, Threads, TypeInv, TypeOK
<1>3. work_ready' \in BOOLEAN BY <1>1, Zenon
<1>4. TypeOK'
  BY <1>1, <1>2, <1>3 DEF TypeInv, TypeOK, nic, rxburst, txburst
<1> QED BY <1>1, <1>4 DEF TypeInv, Busy

LEMMA WakeTypes == ASSUME TypeInv, MWake PROVE TypeInv'
<1>1. /\ pc = "wait" /\ pc' \in {"wait", "reply"} /\ (pc' = "reply" => ~work_ready)
      /\ UNCHANGED <<pool, nic, mem, rxburst, txburst, rx, tx, params, failed, rcvd,
                     wire>>
  BY DEF MWake
<1>2. waiting' \subseteq Threads BY DEF MWake, Threads, TypeInv, TypeOK
<1>3. TypeOK' BY <1>1, <1>2 DEF TypeInv, TypeOK, nic, rxburst, txburst, params
<1>4. work_ready => pc' = "wait" BY <1>1
<1> QED BY <1>1, <1>3, <1>4 DEF TypeInv, Busy, params

\* A write of one mbuf keeps the types of all.
LEMMA WriteTypes ==
  ASSUME TypeInv, NEW m \in Mbufs, NEW c \in Contents
  PROVE  [mem EXCEPT ![m] = c] \in [Mbufs -> Contents]
BY DEF TypeInv, TypeOK

LEMMA ReplyTypes == ASSUME TypeInv, MReply PROVE TypeInv'
<1>1. /\ pc = "reply" /\ pc' = "next" /\ rx \in Mbufs /\ tx \in Mbufs /\ ~work_ready
      /\ pool' = Append(pool, rx)
      /\ UNCHANGED <<nic, rxburst, txburst, rx, tx, params, waiting, failed, rcvd, wire>>
  BY DEF MReply, TypeInv, Busy
<1>2. mem' \in [Mbufs -> Contents]
  <2> DEFINE c == [mem[tx] EXCEPT !.size = rsp_pckt_size, !.to = mem[rx].pkt]
  <2>1. rsp_pckt_size \in 0 .. MaxPkts /\ mem \in [Mbufs -> Contents]
    BY DEF TypeInv, TypeOK
  <2>2. mem[tx] \in Contents /\ mem[rx].pkt \in 0 .. MaxPkts BY <1>1, MemTypes
  <2>3. c \in Contents BY <2>1, <2>2 DEF Contents
  <2>4. mem' = [mem EXCEPT ![tx] = c] BY <1>1, <2>1 DEF MReply
  <2> QED BY <1>1, <2>3, <2>4, WriteTypes
<1>3. pool' \in Seq(Mbufs) BY <1>1, Types, AppendIn
<1>4. TypeOK' BY <1>1, <1>2, <1>3 DEF TypeInv, TypeOK, nic, rxburst, txburst, params
<1> QED BY <1>1, <1>4 DEF TypeInv, Busy, params

LEMMA SendTypes == ASSUME TypeInv, MSend PROVE TypeInv'
<1>1. /\ pc = "next" /\ pc' = "recv"
      /\ UNCHANGED <<rx_ring, mem, rxburst, tx_mbufs, tx_burst_size, rx, tx, params,
                     waiting, failed, rcvd, wire>>
  BY DEF MSend
<1>2. PICK n \in 0 .. tx_burst_size, done \in 0 .. Len(tx_done) : SentBurst(n, done)
  BY SendParts, Zenon
<1>3. /\ tx_ring' \in Seq(Mbufs) /\ tx_done' \in Seq(Mbufs) /\ pool' \in Seq(Mbufs)
      /\ tx_burst_ptr' \in 0 .. tx_burst_size
  BY <1>2 DEF SentBurst
<1>4. TypeOK' BY <1>1, <1>3 DEF TypeInv, TypeOK, rxburst, params
<1> QED BY <1>1, <1>4 DEF TypeInv, Busy, params

LEMMA WorkTypes == ASSUME TypeInv, Work PROVE TypeInv'
<1>1. UNCHANGED <<pool, nic, rxburst, txburst, rx, tx, pc, rx_buff_ptr, tx_buff_ptr,
                  failed, rcvd, wire>>
  BY DEF Work
<1>2. CASE ~work_ready
  <2>1. waiting' = waiting \cup {"worker"} /\ UNCHANGED <<mem, work_ready, rsp_pckt_size>>
    BY <1>2 DEF Work
  <2>2. waiting' \subseteq Threads BY <2>1 DEF Threads, TypeInv, TypeOK
  <2>3. TypeOK' BY <1>1, <2>1, <2>2 DEF TypeInv, TypeOK, nic, rxburst, txburst
  <2> QED BY <1>1, <2>1, <2>3 DEF TypeInv, Busy
<1>3. CASE work_ready
  <2>1. rx_buff_ptr \in Mbufs /\ tx_buff_ptr \in Mbufs /\ pc = "wait"
    BY <1>3 DEF TypeInv
  <2>2. PICK rsp \in Processed(mem[rx_buff_ptr].pkt, mem[tx_buff_ptr]) :
          /\ work_ready' = FALSE /\ mem' = [mem EXCEPT ![tx_buff_ptr] = rsp.body]
          /\ rsp_pckt_size' = rsp.size /\ waiting' \in Woken(waiting)
    BY <1>3 DEF Work
  <2>3. mem[tx_buff_ptr] \in Contents /\ mem[rx_buff_ptr].pkt \in 0 .. MaxPkts
    BY <2>1, MemTypes
  <2>4. rsp.body \in Contents /\ rsp.size \in 0 .. MaxPkts
    <3>1. MaxPkts \in Nat BY ServerAssumption
    <3> QED BY <2>2, <2>3, <3>1 DEF Processed, Contents
  <2>5. mem' \in [Mbufs -> Contents] BY <2>1, <2>2, <2>4, WriteTypes
  <2>6. waiting' \subseteq Threads BY <2>2 DEF Woken, TypeInv, TypeOK
  <2>7. work_ready' \in BOOLEAN BY <2>2, Zenon
  <2>8. TypeOK'
    BY <1>1, <2>2, <2>4, <2>5, <2>6, <2>7 DEF TypeInv, TypeOK, nic, rxburst, txburst
  <2> QED BY <1>1, <2>2, <2>8 DEF TypeInv, Busy
<1> QED BY <1>2, <1>3

LEMMA NicTypes == ASSUME TypeInv, NicSend PROVE TypeInv'
<1>1. /\ tx_ring # << >> /\ wire' = Append(wire, mem[Head(tx_ring)])
      /\ tx_ring' = Tail(tx_ring) /\ tx_done' = Append(tx_done, Head(tx_ring))
      /\ UNCHANGED <<pool, rx_ring, mem, rxburst, txburst, rx, tx, pc, params, waiting,
                     failed, rcvd>>
  BY DEF NicSend
<1>2. Head(tx_ring) \in Mbufs /\ tx_ring' \in Seq(Mbufs) BY <1>1, Types, HeadIn
<1>3. tx_done' \in Seq(Mbufs) BY <1>1, <1>2, Types, AppendIn
<1>4. wire' \in Seq(Contents) BY <1>1, <1>2, MemTypes, Types, AppendIn
<1>5. TypeOK' BY <1>1, <1>2, <1>3 DEF TypeInv, TypeOK, rxburst, txburst, params
<1> QED BY <1>1, <1>4, <1>5 DEF TypeInv, Busy, params

LEMMA SpuriousTypes ==
  ASSUME TypeInv, NEW p \in Threads, SpuriousWake(p) PROVE TypeInv'
<1>1. UNCHANGED <<pool, nic, mem, rxburst, txburst, rx, tx, pc, params, failed, rcvd,
                  wire>>
  BY DEF SpuriousWake
<1>2. waiting' \subseteq Threads BY DEF SpuriousWake, TypeInv, TypeOK
<1>3. TypeOK' BY <1>1, <1>2 DEF TypeInv, TypeOK, nic, rxburst, txburst, params
<1> QED BY <1>1, <1>3 DEF TypeInv, Busy, params

LEMMA TypeStep == ASSUME TypeInv, [Next]_vars PROVE TypeInv'
<1>1. CASE MRecv BY <1>1, ReceiveTypes
<1>2. CASE MAlloc BY <1>2, AllocTypes
<1>3. CASE MNext BY <1>3, NextTypes
<1>4. CASE MPost BY <1>4, PostTypes
<1>5. CASE MWake BY <1>5, WakeTypes
<1>6. CASE MReply BY <1>6, ReplyTypes
<1>7. CASE MSend BY <1>7, SendTypes
<1>8. CASE Work BY <1>8, WorkTypes
<1>9. CASE NicSend BY <1>9, NicTypes
<1>10. ASSUME NEW p \in Threads, SpuriousWake(p) PROVE TypeInv' BY <1>10, SpuriousTypes
<1>11. CASE UNCHANGED vars
  BY <1>11 DEF vars, nic, rxburst, txburst, params, TypeInv, TypeOK, Busy
<1> QED BY <1>1, <1>2, <1>3, <1>4, <1>5, <1>6, <1>7, <1>8, <1>9, <1>10, <1>11, Zenon
        DEF Next, Main

\* Type correctness, for every pool: also the one that runs out of mbufs.
THEOREM ServerTypes == Spec => []TypeOK
<1>1. Init => TypeInv BY InitTypes
<1>2. TypeInv /\ [Next]_vars => TypeInv' BY TypeStep
<1>3. TypeInv => TypeOK BY DEF TypeInv
<1> QED BY <1>1, <1>2, <1>3, PTL DEF Spec

-----------------------------------------------------------------------------
(* Every mbuf in one place. *)

\* No element of s occurs twice.
Once(s) == \A i, j \in DOMAIN s : s[i] = s[j] => i = j

\* As many elements as there are values: each once.
LEMMA OnceByLength ==
  ASSUME NEW S, NEW s \in Seq(S), ToSet(s) = S, IsFiniteSet(S), Cardinality(S) = Len(s)
  PROVE  Once(s)
<1> DEFINE D == 1 .. Len(s)
<1>1. Len(s) \in Nat /\ DOMAIN s = D /\ s \in [D -> S] BY LenProperties
<1>2. IsFiniteSet(D) /\ Cardinality(D) = Cardinality(S)
  <2>1. 1 \in Int /\ Len(s) \in Int BY <1>1
  <2>2. IsFiniteSet(D) /\ Cardinality(D) = IF 1 > Len(s) THEN 0 ELSE Len(s) - 1 + 1
    BY <2>1, FS_Interval
  <2> QED BY <1>1, <2>2
<1>3. \A x \in S : \E k \in D : s[k] = x BY <1>1 DEF ToSet
<1> HIDE DEF D
<1>4. s \in Surjection(D, S) BY <1>1, <1>3 DEF Surjection
<1>5. s \in Injection(D, S) BY <1>2, <1>4, FS_SurjSameCardinalityImpliesInj
<1> QED BY <1>1, <1>5 DEF Injection, IsInjective, Once

\* Of two parts that have each element once, both have, and they share none.
LEMMA OnceParts ==
  ASSUME NEW S, NEW s \in Seq(S), NEW t \in Seq(S), Once(s \o t)
  PROVE  Once(s) /\ Once(t) /\ ToSet(s) \cap ToSet(t) = {}
<1>1. /\ Len(s) \in Nat /\ Len(t) \in Nat
      /\ DOMAIN s = 1 .. Len(s) /\ DOMAIN t = 1 .. Len(t)
  BY LenProperties
<1>2. /\ s \o t \in Seq(S) /\ Len(s \o t) = Len(s) + Len(t)
      /\ \A i \in 1 .. Len(s) + Len(t) :
           (s \o t)[i] = IF i <= Len(s) THEN s[i] ELSE t[i - Len(s)]
  BY ConcatProperties
<1>3. DOMAIN (s \o t) = 1 .. Len(s) + Len(t) BY <1>2, LenProperties
<1>4. \A i \in 1 .. Len(s) : i \in DOMAIN (s \o t) /\ (s \o t)[i] = s[i]
  BY <1>1, <1>2, <1>3
<1>5. \A i \in 1 .. Len(t) :
        Len(s) + i \in DOMAIN (s \o t) /\ (s \o t)[Len(s) + i] = t[i]
  BY <1>1, <1>2, <1>3
<1>6. Once(s) BY <1>1, <1>4 DEF Once
<1>7. Once(t)
  <2> SUFFICES ASSUME NEW i \in 1 .. Len(t), NEW j \in 1 .. Len(t), t[i] = t[j]
               PROVE  i = j
    BY <1>1 DEF Once
  <2>1. Len(s) + i = Len(s) + j BY <1>5 DEF Once
  <2> QED BY <1>1, <2>1
<1>8. ASSUME NEW i \in 1 .. Len(s), NEW j \in 1 .. Len(t), s[i] = t[j] PROVE FALSE
  <2>1. i = Len(s) + j BY <1>4, <1>5, <1>8 DEF Once
  <2> QED BY <1>1, <2>1
<1>9. ToSet(s) \cap ToSet(t) = {} BY <1>1, <1>8 DEF ToSet
<1> QED BY <1>6, <1>7, <1>9

\* What the six parts of the mbufs hold together.
LEMMA SixParts ==
  ASSUME NEW S, NEW a \in Seq(S), NEW b \in Seq(S), NEW c \in Seq(S), NEW d \in Seq(S),
         NEW e \in Seq(S), NEW f \in Seq(S)
  PROVE  /\ a \o b \in Seq(S) /\ (a \o b) \o c \in Seq(S)
         /\ ((a \o b) \o c) \o d \in Seq(S) /\ (((a \o b) \o c) \o d) \o e \in Seq(S)
         /\ a \o b \o c \o d \o e \o f \in Seq(S)
         /\ Len(a \o b \o c \o d \o e \o f)
              = Len(a) + Len(b) + Len(c) + Len(d) + Len(e) + Len(f)
         /\ ToSet(a \o b \o c) = ToSet(a) \cup ToSet(b) \cup ToSet(c)
         /\ ToSet(a \o b \o c \o d \o e)
              = ToSet(a) \cup ToSet(b) \cup ToSet(c) \cup ToSet(d) \cup ToSet(e)
         /\ ToSet(a \o b \o c \o d \o e \o f)
              = ToSet(a) \cup ToSet(b) \cup ToSet(c) \cup ToSet(d) \cup ToSet(e) \cup ToSet(f)
<1> DEFINE s2 == a \o b
           s3 == s2 \o c
           s4 == s3 \o d
           s5 == s4 \o e
           s6 == s5 \o f
<1>1. s2 \in Seq(S) /\ Len(s2) = Len(a) + Len(b) /\ ToSet(s2) = ToSet(a) \cup ToSet(b)
  BY ConcatIn
<1> HIDE DEF s2
<1>2. s3 \in Seq(S) /\ Len(s3) = Len(s2) + Len(c) /\ ToSet(s3) = ToSet(s2) \cup ToSet(c)
  <2>1. s2 \in Seq(S) BY <1>1
  <2> QED BY <2>1, ConcatIn
<1> HIDE DEF s3
<1>3. s4 \in Seq(S) /\ Len(s4) = Len(s3) + Len(d) /\ ToSet(s4) = ToSet(s3) \cup ToSet(d)
  <2>1. s3 \in Seq(S) BY <1>2
  <2> QED BY <2>1, ConcatIn
<1> HIDE DEF s4
<1>4. s5 \in Seq(S) /\ Len(s5) = Len(s4) + Len(e) /\ ToSet(s5) = ToSet(s4) \cup ToSet(e)
  <2>1. s4 \in Seq(S) BY <1>3
  <2> QED BY <2>1, ConcatIn
<1> HIDE DEF s5
<1>5. s6 \in Seq(S) /\ Len(s6) = Len(s5) + Len(f) /\ ToSet(s6) = ToSet(s5) \cup ToSet(f)
  <2>1. s5 \in Seq(S) BY <1>4
  <2> QED BY <2>1, ConcatIn
<1> HIDE DEF s6
<1>6. Len(s6) = Len(a) + Len(b) + Len(c) + Len(d) + Len(e) + Len(f)
  BY <1>1, <1>2, <1>3, <1>4, <1>5
<1>7. /\ ToSet(s3) = ToSet(a) \cup ToSet(b) \cup ToSet(c)
      /\ ToSet(s5) = ToSet(a) \cup ToSet(b) \cup ToSet(c) \cup ToSet(d) \cup ToSet(e)
      /\ ToSet(s6) = ToSet(a) \cup ToSet(b) \cup ToSet(c) \cup ToSet(d) \cup ToSet(e)
                       \cup ToSet(f)
  BY <1>1, <1>2, <1>3, <1>4, <1>5
<1> QED BY <1>1, <1>2, <1>3, <1>4, <1>5, <1>6, <1>7, Zenon DEF s2, s3, s4, s5, s6

\* The mbufs of the burst that the main loop holds, by where it is.
HeldParts ==
  /\ HeldRx \in Seq(Mbufs) /\ HeldTx \in Seq(Mbufs)
  /\ pc = "recv" => HeldRx = << >> /\ HeldTx = << >>
  /\ pc = "alloc" => HeldRx = rx_mbufs /\ HeldTx = << >>
  /\ pc = "next" => HeldRx = Rest(rx_mbufs, rx_burst_ptr)
  /\ Busy => HeldRx = Rest(rx_mbufs, rx_burst_ptr - 1)
  /\ pc = "next" \/ Busy => HeldTx = tx_mbufs
  /\ RepliedTx \in Seq(Mbufs)
  /\ pc \in {"recv", "alloc"} => RepliedTx = << >>
  /\ pc = "next" => RepliedTx = Prefix(tx_mbufs, rx_burst_ptr)
  /\ Busy => RepliedTx = Prefix(tx_mbufs, rx_burst_ptr - 1)

LEMMA RestOfNothing ==
  ASSUME NEW S, NEW s \in Seq(S)
  PROVE  /\ Prefix(s, 0) = << >> /\ Rest(s, Len(s)) = << >> /\ SubSeq(s, 1, Len(s)) = s
         /\ Rest(s, 0) = s /\ Prefix(s, Len(s)) = s
<1>1. Len(s) \in Nat /\ 0 \in 0 .. Len(s) /\ Len(s) \in 0 .. Len(s) BY LenProperties
<1>2. Prefix(s, 0) \in Seq(S) /\ Len(Prefix(s, 0)) = 0 BY <1>1, SplitIn
<1>3. Rest(s, Len(s)) \in Seq(S) /\ Len(Rest(s, Len(s))) = Len(s) - Len(s) BY <1>1, SplitIn
<1>4. Len(Rest(s, Len(s))) = 0 BY <1>1, <1>3
<1>5. /\ Prefix(s, Len(s)) \in Seq(S) /\ Len(Prefix(s, Len(s))) = Len(s)
      /\ \A k \in 1 .. Len(s) : Prefix(s, Len(s))[k] = s[k]
  BY <1>1, SplitIn
<1>6. Prefix(s, Len(s)) = s BY <1>5, SeqEqual
<1>7. Prefix(s, 0) = << >> BY <1>2, EmptySeq
<1>8. Rest(s, Len(s)) = << >> BY <1>3, <1>4, EmptySeq
<1>9. Rest(s, 0) = SubSeq(s, 1, Len(s)) BY DEF Rest
<1> QED BY <1>6, <1>7, <1>8, <1>9 DEF Prefix

LEMMA Held == TypeInv /\ Bursts => HeldParts
<1> SUFFICES ASSUME TypeInv, Bursts PROVE HeldParts OBVIOUS
<1>1. /\ rx_mbufs \in Seq(Mbufs) /\ tx_mbufs \in Seq(Mbufs)
      /\ Len(rx_mbufs) \in Nat /\ Len(tx_mbufs) \in Nat
      /\ rx_burst_ptr \in Nat /\ rx_burst_ptr <= Len(rx_mbufs)
  BY Types
<1>2. pc \in {"recv", "alloc", "next"} \/ Busy
  BY DEF TypeInv, TypeOK, Bursts, Busy
<1>3. << >> \in Seq(Mbufs) BY EmptySeq
<1>4. CASE pc = "recv"
  <2>1. HeldRx = << >> /\ HeldTx = << >> BY <1>4 DEF HeldRx, HeldTx
  <2>2. Replied = 0 BY <1>4 DEF Replied, Busy
  <2>3. RepliedTx = << >> BY <1>1, <2>2, RestOfNothing DEF RepliedTx
  <2> QED BY <1>3, <1>4, <2>1, <2>3 DEF HeldParts, Busy
<1>5. CASE pc = "alloc"
  <2>1. rx_burst_ptr + 1 = 1 BY <1>5 DEF Bursts
  <2>2. HeldRx = SubSeq(rx_mbufs, 1, Len(rx_mbufs)) BY <1>5, <2>1 DEF HeldRx
  <2>3. HeldRx = rx_mbufs BY <1>1, <2>2, RestOfNothing
  <2>4. HeldTx = << >> BY <1>5 DEF HeldTx
  <2>5. Replied = 0 BY <1>5 DEF Replied, Busy
  <2>6. RepliedTx = << >> BY <1>1, <2>5, RestOfNothing DEF RepliedTx
  <2> QED BY <1>1, <1>3, <1>5, <2>3, <2>4, <2>6 DEF HeldParts, Busy
<1>6. CASE pc = "next"
  <2>1. Len(tx_mbufs) = Len(rx_mbufs) /\ tx_burst_ptr = rx_burst_ptr BY <1>6 DEF Bursts
  <2>2. HeldRx = Rest(rx_mbufs, rx_burst_ptr) BY <1>6 DEF HeldRx, Rest
  <2>3. HeldTx = tx_mbufs BY <1>6 DEF HeldTx
  <2>4. RepliedTx = Prefix(tx_mbufs, rx_burst_ptr)
    BY <1>6, <2>1 DEF RepliedTx, Replied
  <2>5. rx_burst_ptr \in 0 .. Len(rx_mbufs) /\ rx_burst_ptr \in 0 .. Len(tx_mbufs)
    BY <1>1, <2>1
  <2>6. Rest(rx_mbufs, rx_burst_ptr) \in Seq(Mbufs) BY <1>1, <2>5, SplitIn
  <2>7. Prefix(tx_mbufs, rx_burst_ptr) \in Seq(Mbufs) BY <1>1, <2>5, SplitIn
  <2> QED BY <1>1, <1>6, <2>2, <2>3, <2>4, <2>6, <2>7 DEF HeldParts, Busy
<1>7. CASE Busy
  <2>1. /\ Len(tx_mbufs) = Len(rx_mbufs) /\ tx_burst_ptr = rx_burst_ptr
        /\ rx_burst_ptr >= 1
    BY <1>7 DEF Bursts
  <2>2. HeldRx = SubSeq(rx_mbufs, rx_burst_ptr, Len(rx_mbufs))
    BY <1>7 DEF HeldRx, Busy
  <2>3. (rx_burst_ptr - 1) + 1 = rx_burst_ptr BY <1>1
  <2>4. HeldRx = Rest(rx_mbufs, rx_burst_ptr - 1) BY <2>2, <2>3 DEF Rest
  <2>5. HeldTx = tx_mbufs BY <1>7 DEF HeldTx, Busy
  <2>6. RepliedTx = Prefix(tx_mbufs, rx_burst_ptr - 1)
    BY <1>7, <2>1 DEF RepliedTx, Replied, Busy
  <2>7. rx_burst_ptr - 1 \in 0 .. Len(rx_mbufs) /\ rx_burst_ptr - 1 \in 0 .. Len(tx_mbufs)
    BY <1>1, <2>1
  <2>8. Rest(rx_mbufs, rx_burst_ptr - 1) \in Seq(Mbufs) BY <1>1, <2>7, SplitIn
  <2>9. Prefix(tx_mbufs, rx_burst_ptr - 1) \in Seq(Mbufs) BY <1>1, <2>7, SplitIn
  <2> QED BY <1>1, <1>7, <2>4, <2>5, <2>6, <2>8, <2>9 DEF HeldParts, Busy
<1> QED BY <1>2, <1>4, <1>5, <1>6, <1>7

\* MbufsAccounted, part by part.
Spread ==
  /\ Len(pool) + Len(rx_ring) + Len(tx_ring) + Len(tx_done) + Len(HeldRx) + Len(HeldTx)
       = PoolSize
  /\ ToSet(pool) \cup ToSet(rx_ring) \cup ToSet(tx_ring) \cup ToSet(tx_done)
       \cup ToSet(HeldRx) \cup ToSet(HeldTx) = Mbufs

LEMMA SpreadParts == TypeInv /\ HeldParts => (MbufsAccounted <=> Spread)
<1> SUFFICES ASSUME TypeInv, HeldParts PROVE MbufsAccounted <=> Spread OBVIOUS
<1>1. /\ pool \in Seq(Mbufs) /\ rx_ring \in Seq(Mbufs) /\ tx_ring \in Seq(Mbufs)
      /\ tx_done \in Seq(Mbufs) /\ HeldRx \in Seq(Mbufs) /\ HeldTx \in Seq(Mbufs)
  BY Types DEF HeldParts
<1>2. /\ Len(pool \o rx_ring \o tx_ring \o tx_done \o HeldRx \o HeldTx)
           = Len(pool) + Len(rx_ring) + Len(tx_ring) + Len(tx_done) + Len(HeldRx)
             + Len(HeldTx)
      /\ ToSet(pool \o rx_ring \o tx_ring \o tx_done \o HeldRx \o HeldTx)
           = ToSet(pool) \cup ToSet(rx_ring) \cup ToSet(tx_ring) \cup ToSet(tx_done)
             \cup ToSet(HeldRx) \cup ToSet(HeldTx)
  BY <1>1, SixParts, SMTT(30)
<1> QED BY <1>2, Zenon DEF MbufsAccounted, Spread

\* No mbuf is in two of the places the proofs compare.
Apart ==
  /\ Once(rx_ring) /\ Once(HeldTx)
  /\ ToSet(rx_ring) \cap ToSet(tx_ring) = {}
  /\ ToSet(HeldTx) \cap (ToSet(tx_ring) \cup ToSet(HeldRx)) = {}

LEMMA PlacesApart == TypeInv /\ HeldParts /\ MbufsAccounted => Apart
<1> SUFFICES ASSUME TypeInv, HeldParts, MbufsAccounted PROVE Apart OBVIOUS
<1>1. /\ pool \in Seq(Mbufs) /\ rx_ring \in Seq(Mbufs) /\ tx_ring \in Seq(Mbufs)
      /\ tx_done \in Seq(Mbufs) /\ HeldRx \in Seq(Mbufs) /\ HeldTx \in Seq(Mbufs)
  BY Types DEF HeldParts
<1> DEFINE s2 == pool \o rx_ring
           s3 == s2 \o tx_ring
           s4 == s3 \o tx_done
           s5 == s4 \o HeldRx
           s6 == s5 \o HeldTx
<1>2. /\ s2 \in Seq(Mbufs) /\ s3 \in Seq(Mbufs) /\ s4 \in Seq(Mbufs)
      /\ s5 \in Seq(Mbufs) /\ s6 \in Seq(Mbufs)
      /\ ToSet(s5) = ToSet(pool) \cup ToSet(rx_ring) \cup ToSet(tx_ring)
                       \cup ToSet(tx_done) \cup ToSet(HeldRx)
  BY <1>1, SixParts, SMTT(30)
<1>3. ToSet(s2) = ToSet(pool) \cup ToSet(rx_ring) BY <1>1, ConcatIn
<1>4. Len(s6) = PoolSize /\ ToSet(s6) = Mbufs BY Zenon DEF MbufsAccounted
<1>5. IsFiniteSet(Mbufs) /\ Cardinality(Mbufs) = PoolSize
  <2>1. PoolSize \in Nat /\ 1 \in Int /\ PoolSize \in Int BY ServerAssumption
  <2>2. IsFiniteSet(1 .. PoolSize)
        /\ Cardinality(1 .. PoolSize) = IF 1 > PoolSize THEN 0 ELSE PoolSize - 1 + 1
    BY <2>1, FS_Interval
  <2> QED BY <2>1, <2>2 DEF Mbufs
<1>6. Once(s6)
  <2> HIDE DEF s6
  <2> QED BY <1>2, <1>4, <1>5, OnceByLength
<1> HIDE DEF s5
<1>7. Once(s5) /\ Once(HeldTx) /\ ToSet(s5) \cap ToSet(HeldTx) = {}
  <2>1. s5 \in Seq(Mbufs) /\ HeldTx \in Seq(Mbufs) BY <1>1, <1>2
  <2> QED BY <1>6, <2>1, OnceParts
<1> USE DEF s5
<1> HIDE DEF s4
<1>8. Once(s4)
  <2>1. s4 \in Seq(Mbufs) /\ HeldRx \in Seq(Mbufs) /\ Once(s4 \o HeldRx) BY <1>1, <1>2, <1>7
  <2> QED BY <2>1, OnceParts
<1> USE DEF s4
<1> HIDE DEF s3
<1>9. Once(s3)
  <2>1. s3 \in Seq(Mbufs) /\ tx_done \in Seq(Mbufs) /\ Once(s3 \o tx_done)
    BY <1>1, <1>2, <1>8
  <2> QED BY <2>1, OnceParts
<1> USE DEF s3
<1> HIDE DEF s2
<1>10. Once(s2) /\ ToSet(s2) \cap ToSet(tx_ring) = {}
  <2>1. s2 \in Seq(Mbufs) /\ tx_ring \in Seq(Mbufs) /\ Once(s2 \o tx_ring)
    BY <1>1, <1>2, <1>9
  <2> QED BY <2>1, OnceParts
<1>11. Once(rx_ring)
  <2>1. Once(pool \o rx_ring) BY <1>10 DEF s2
  <2> QED BY <1>1, <2>1, OnceParts
<1>12. ToSet(rx_ring) \cap ToSet(tx_ring) = {} BY <1>3, <1>10
<1>13. ToSet(HeldTx) \cap (ToSet(tx_ring) \cup ToSet(HeldRx)) = {}
  <2>1. ToSet(tx_ring) \subseteq ToSet(s5) /\ ToSet(HeldRx) \subseteq ToSet(s5) BY <1>2
  <2> QED BY <1>7, <2>1
<1> QED BY <1>7, <1>11, <1>12, <1>13 DEF Apart

-----------------------------------------------------------------------------
(* The packets of a sequence of mbufs. *)

\* f, element by element, of two sequences one after the other.
Through(f, s) == [k \in DOMAIN s |-> f[s[k]]]
LEMMA ThroughConcat ==
  ASSUME NEW f \in [Mbufs -> Nat], NEW s \in Seq(Mbufs), NEW t \in Seq(Mbufs)
  PROVE  Through(f, s \o t) = Through(f, s) \o Through(f, t)
<1> DEFINE F(u) == Through(f, u)
<1>1. /\ Len(s) \in Nat /\ Len(t) \in Nat
      /\ DOMAIN s = 1 .. Len(s) /\ DOMAIN t = 1 .. Len(t)
  BY LenProperties
<1>2. /\ s \o t \in Seq(Mbufs) /\ Len(s \o t) = Len(s) + Len(t)
      /\ \A k \in 1 .. Len(s) + Len(t) :
           (s \o t)[k] = IF k <= Len(s) THEN s[k] ELSE t[k - Len(s)]
  BY ConcatProperties
<1>3. DOMAIN (s \o t) = 1 .. Len(s) + Len(t) BY <1>2, LenProperties
<1>4. ASSUME NEW u \in Seq(Mbufs)
      PROVE  /\ F(u) \in Seq(Nat) /\ Len(F(u)) = Len(u)
             /\ \A k \in 1 .. Len(u) : F(u)[k] = f[u[k]]
  <2>1. DOMAIN u = 1 .. Len(u) /\ Len(u) \in Nat BY LenProperties
  <2>2. \A k \in 1 .. Len(u) : u[k] \in Mbufs BY ElementOfSeq
  <2> QED BY <2>1, <2>2 DEF Through
<1>5. /\ F(s) \in Seq(Nat) /\ F(t) \in Seq(Nat) /\ F(s \o t) \in Seq(Nat)
      /\ Len(F(s)) = Len(s) /\ Len(F(t)) = Len(t) /\ Len(F(s \o t)) = Len(s) + Len(t)
  BY <1>2, <1>4
<1>6. /\ \A k \in 1 .. Len(s) : F(s)[k] = f[s[k]]
      /\ \A k \in 1 .. Len(t) : F(t)[k] = f[t[k]]
      /\ \A k \in 1 .. Len(s) + Len(t) : F(s \o t)[k] = f[(s \o t)[k]]
  BY <1>2, <1>4
<1> HIDE DEF F
<1>7. /\ F(s) \o F(t) \in Seq(Nat) /\ Len(F(s) \o F(t)) = Len(F(s)) + Len(F(t))
      /\ \A k \in 1 .. Len(F(s)) + Len(F(t)) : (F(s) \o F(t))[k] =
           IF k <= Len(F(s)) THEN F(s)[k] ELSE F(t)[k - Len(F(s))]
  <2>1. F(s) \in Seq(Nat) /\ F(t) \in Seq(Nat) BY <1>5
  <2> QED BY <2>1, ConcatProperties
<1>8. ASSUME NEW k \in 1 .. Len(s) + Len(t) PROVE F(s \o t)[k] = (F(s) \o F(t))[k]
  <2>1. CASE k <= Len(s)
    <3>1. k \in 1 .. Len(s) BY <1>1, <2>1
    <3>2. (s \o t)[k] = s[k] /\ (F(s) \o F(t))[k] = F(s)[k] BY <1>2, <1>5, <1>7, <2>1
    <3> QED BY <1>6, <3>1, <3>2
  <2>2. CASE ~(k <= Len(s))
    <3>1. k - Len(s) \in 1 .. Len(t) BY <1>1, <2>2
    <3>2. (s \o t)[k] = t[k - Len(s)] /\ (F(s) \o F(t))[k] = F(t)[k - Len(s)]
      BY <1>2, <1>5, <1>7, <2>2
    <3> QED BY <1>6, <3>1, <3>2
  <2> QED BY <2>1, <2>2
<1>9. F(s \o t) \in Seq(Nat) /\ F(s) \o F(t) \in Seq(Nat) /\ Len(F(s \o t)) = Len(F(s) \o F(t))
      /\ Len(F(s \o t)) = Len(s) + Len(t)
  BY <1>5, <1>7
<1>10. F(s \o t) = F(s) \o F(t) BY <1>8, <1>9, SeqEqual
<1> QED BY <1>10 DEF F

\* The clients and the packets of s \o t are those of s, then those of t.
LEMMA FieldsConcat ==
  ASSUME NEW M \in [Mbufs -> Contents], NEW s \in Seq(Mbufs), NEW t \in Seq(Mbufs)
  PROVE  /\ Tos(M, s \o t) = Tos(M, s) \o Tos(M, t)
         /\ Packets(M, s \o t) = Packets(M, s) \o Packets(M, t)
<1> DEFINE to == [m \in Mbufs |-> M[m].to]
           pkt == [m \in Mbufs |-> M[m].pkt]
<1>1. s \o t \in Seq(Mbufs) BY ConcatProperties
<1>2. ASSUME NEW u \in Seq(Mbufs)
      PROVE  Tos(M, u) = Through(to, u) /\ Packets(M, u) = Through(pkt, u)
  <2>1. \A k \in DOMAIN u : u[k] \in Mbufs BY LenProperties, ElementOfSeq
  <2> QED BY <2>1 DEF Tos, Packets, Through
<1>3. to \in [Mbufs -> Nat] /\ pkt \in [Mbufs -> Nat]
  <2>1. MaxPkts \in Nat BY ServerAssumption
  <2>2. \A m \in Mbufs : M[m].to \in Nat /\ M[m].pkt \in Nat BY <2>1 DEF Contents
  <2> QED BY <2>2
<1> HIDE DEF to, pkt
<1>4. Through(to, s \o t) = Through(to, s) \o Through(to, t) BY <1>3, ThroughConcat
<1>5. Through(pkt, s \o t) = Through(pkt, s) \o Through(pkt, t) BY <1>3, ThroughConcat
<1> QED BY <1>1, <1>2, <1>4, <1>5

\* Numbers of packets; only those of the mbufs in s count.
LEMMA FieldsOf ==
  ASSUME NEW M \in [Mbufs -> Contents], NEW s \in Seq(Mbufs)
  PROVE  /\ Tos(M, s) \in Seq(Nat) /\ Packets(M, s) \in Seq(Nat)
         /\ Len(Tos(M, s)) = Len(s) /\ Len(Packets(M, s)) = Len(s)
         /\ \A k \in 1 .. Len(s) :
              Tos(M, s)[k] = M[s[k]].to /\ Packets(M, s)[k] = M[s[k]].pkt
         /\ \A N \in [Mbufs -> Contents] : (\A m \in ToSet(s) : N[m] = M[m]) =>
              Tos(N, s) = Tos(M, s) /\ Packets(N, s) = Packets(M, s)
<1>1. Len(s) \in Nat /\ DOMAIN s = 1 .. Len(s) BY LenProperties
<1>2. \A k \in 1 .. Len(s) : s[k] \in Mbufs /\ s[k] \in ToSet(s)
  BY <1>1, ElementOfSeq DEF ToSet
<1>3. \A m \in Mbufs : M[m].to \in Nat /\ M[m].pkt \in Nat
  <2>1. MaxPkts \in Nat BY ServerAssumption
  <2> QED BY <2>1 DEF Contents
<1>4. Tos(M, s) \in Seq(Nat) /\ Len(Tos(M, s)) = Len(s) BY <1>1, <1>2, <1>3 DEF Tos
<1>5. Packets(M, s) \in Seq(Nat) /\ Len(Packets(M, s)) = Len(s)
  BY <1>1, <1>2, <1>3 DEF Packets
<1>6. \A k \in 1 .. Len(s) : Tos(M, s)[k] = M[s[k]].to /\ Packets(M, s)[k] = M[s[k]].pkt
  BY <1>1 DEF Tos, Packets
<1>7. ASSUME NEW N \in [Mbufs -> Contents], \A m \in ToSet(s) : N[m] = M[m]
      PROVE  Tos(N, s) = Tos(M, s) /\ Packets(N, s) = Packets(M, s)
  BY <1>1, <1>2, <1>7 DEF Tos, Packets
<1> QED BY <1>4, <1>5, <1>6, <1>7

\* The numbers still rise when some at the end are dropped.
LEMMA RisingPrefix ==
  ASSUME NEW s \in Seq(Nat), NEW t \in Seq(Nat), NEW n \in Nat, Rising(s \o t, n)
  PROVE  Rising(s, n)
<1>1. Len(s) \in Nat /\ Len(t) \in Nat /\ DOMAIN s = 1 .. Len(s) BY LenProperties
<1>2. /\ s \o t \in Seq(Nat) /\ Len(s \o t) = Len(s) + Len(t)
      /\ \A k \in 1 .. Len(s) + Len(t) :
           (s \o t)[k] = IF k <= Len(s) THEN s[k] ELSE t[k - Len(s)]
  BY ConcatProperties
<1>3. DOMAIN (s \o t) = 1 .. Len(s) + Len(t) BY <1>2, LenProperties
<1>4. \A k \in 1 .. Len(s) : k \in DOMAIN (s \o t) /\ (s \o t)[k] = s[k]
  BY <1>1, <1>2, <1>3
<1> QED BY <1>1, <1>4 DEF Rising

\* The numbers rise when greater ones come at the end.
LEMMA RisingMore ==
  ASSUME NEW s \in Seq(Nat), NEW t \in Seq(Nat), NEW n \in Nat, NEW l \in Nat,
         Rising(s, n), n <= l,
         \A k \in 1 .. Len(t) : t[k] > n /\ t[k] <= l,
         \A j, k \in 1 .. Len(t) : j < k => t[j] < t[k]
  PROVE  Rising(s \o t, l)
<1>1. Len(s) \in Nat /\ Len(t) \in Nat /\ DOMAIN s = 1 .. Len(s) BY LenProperties
<1>2. /\ s \o t \in Seq(Nat) /\ Len(s \o t) = Len(s) + Len(t)
      /\ \A k \in 1 .. Len(s) + Len(t) :
           (s \o t)[k] = IF k <= Len(s) THEN s[k] ELSE t[k - Len(s)]
  BY ConcatProperties
<1>3. DOMAIN (s \o t) = 1 .. Len(s) + Len(t) BY <1>2, LenProperties
<1>s. \A k \in 1 .. Len(s) : s[k] \in 1 .. n BY <1>1 DEF Rising
<1>t. \A k \in 1 .. Len(t) : t[k] \in Nat BY ElementOfSeq
<1>4. ASSUME NEW k \in 1 .. Len(s) + Len(t) PROVE (s \o t)[k] \in 1 .. l
  <2>1. CASE k <= Len(s)
    <3>1. k \in 1 .. Len(s) BY <1>1, <2>1
    <3>2. (s \o t)[k] = s[k] BY <1>2, <2>1
    <3> QED BY <1>s, <3>1, <3>2
  <2>2. CASE ~(k <= Len(s))
    <3>1. k - Len(s) \in 1 .. Len(t) BY <1>1, <2>2
    <3>2. (s \o t)[k] = t[k - Len(s)] BY <1>2, <2>2
    <3> QED BY <1>t, <3>1, <3>2
  <2> QED BY <2>1, <2>2
<1>5. ASSUME NEW j \in 1 .. Len(s) + Len(t), NEW k \in 1 .. Len(s) + Len(t), j < k
      PROVE  (s \o t)[j] < (s \o t)[k]
  <2>1. CASE k <= Len(s)
    <3>1. k \in 1 .. Len(s) /\ j \in 1 .. Len(s) BY <1>1, <1>5, <2>1
    <3>2. (s \o t)[k] = s[k] /\ (s \o t)[j] = s[j] BY <1>2, <3>1
    <3> QED BY <1>1, <1>5, <3>1, <3>2 DEF Rising
  <2>2. CASE ~(k <= Len(s)) /\ j <= Len(s)
    <3>1. k - Len(s) \in 1 .. Len(t) /\ j \in 1 .. Len(s) BY <1>1, <2>2
    <3>2. (s \o t)[k] = t[k - Len(s)] /\ (s \o t)[j] = s[j] BY <1>2, <2>2
    <3>3. s[j] \in 1 .. n /\ t[k - Len(s)] > n /\ t[k - Len(s)] \in Nat
      BY <1>s, <1>t, <3>1
    <3> QED BY <3>2, <3>3
  <2>3. CASE ~(j <= Len(s))
    <3>1. k - Len(s) \in 1 .. Len(t) /\ j - Len(s) \in 1 .. Len(t)
          /\ j - Len(s) < k - Len(s) /\ ~(k <= Len(s))
      BY <1>1, <1>5, <2>3
    <3>2. (s \o t)[k] = t[k - Len(s)] /\ (s \o t)[j] = t[j - Len(s)] BY <1>2, <2>3, <3>1
    <3> QED BY <3>1, <3>2
  <2> QED BY <2>1, <2>2, <2>3
<1> QED BY <1>3, <1>4, <1>5 DEF Rising

-----------------------------------------------------------------------------
(* Every step keeps the flow. *)

LEMMA FlowFacts == FlowInv => HeldParts /\ Spread /\ Apart
<1>1. FlowInv => TypeInv /\ Bursts /\ MbufsAccounted BY DEF FlowInv
<1> QED BY <1>1, Held, SpreadParts, PlacesApart

LEMMA FlowFrom ==
  TypeInv /\ Bursts /\ RingsFit /\ Spread /\ Answered /\ AnswersRight /\ LineRises => FlowInv
BY Held, SpreadParts, Zenon DEF FlowInv

\* What is sent, in the ring, and held, as it was.
LEMMA LineSame ==
  ASSUME LineRises, AnswersRight,
         UNCHANGED <<mem, wire, tx_ring, rcvd>>, RepliedTx' = RepliedTx, HeldRx' = HeldRx
  PROVE  LineRises' /\ AnswersRight'
<1>1. Line' = Line BY DEF Line, Sent
<1> QED BY <1>1 DEF LineRises, AnswersRight

LEMMA AllocFlows == ASSUME FlowInv, TypeInv', MAlloc, ~failed' PROVE FlowInv'
<1>1. /\ TypeInv /\ Bursts /\ RingsFit /\ Spread /\ LineRises /\ AnswersRight /\ HeldParts
  BY FlowFacts DEF FlowInv
<1> DEFINE n == Len(rx_mbufs)
<1>2. /\ pc = "alloc" /\ pc' = "next" /\ failed' = (Len(pool) < n)
      /\ tx_mbufs' = Prefix(pool, n) /\ pool' = Rest(pool, n) /\ tx_burst_ptr' = 0
      /\ UNCHANGED <<rx_ring, tx_ring, tx_done, mem, rx_mbufs, rx_burst_ptr, rcvd, wire>>
  <2>1. failed' = (Len(pool) < n) BY Zenon DEF MAlloc
  <2>2. ~(Len(pool) < n) BY <2>1
  <2> QED BY <2>1, <2>2, Zenon DEF MAlloc, nic, rxburst
<1>3. rx_burst_ptr = 0 /\ HeldRx = rx_mbufs /\ HeldTx = << >> /\ RepliedTx = << >>
  BY <1>1, <1>2 DEF Bursts, HeldParts
<1>4. n \in 0 .. Len(pool) /\ n \in Nat
  <2>1. ~(Len(pool) < n) BY <1>2
  <2> QED BY <1>1, <2>1, Types
<1>5. /\ Prefix(pool, n) \in Seq(Mbufs) /\ Len(Prefix(pool, n)) = n
      /\ Len(Rest(pool, n)) = Len(pool) - n
      /\ ToSet(pool) = ToSet(Prefix(pool, n)) \cup ToSet(Rest(pool, n))
  <2>1. pool \in Seq(Mbufs) /\ n \in 0 .. Len(pool) BY <1>1, <1>4, Types
  <2> HIDE DEF n
  <2> QED BY <2>1, SplitIn
<1>6. Bursts'
  <2>1. Len(tx_mbufs') = Len(rx_mbufs') /\ tx_burst_ptr' = rx_burst_ptr'
    BY <1>2, <1>3, <1>5
  <2> QED BY <1>2, <2>1 DEF Bursts, Busy
<1>7. HeldParts' BY <1>6, Held, PTL
<1>8. HeldRx' = rx_mbufs /\ HeldTx' = tx_mbufs' /\ RepliedTx' = << >>
  <2>1. /\ HeldRx' = Rest(rx_mbufs, 0) /\ HeldTx' = tx_mbufs'
        /\ RepliedTx' = Prefix(tx_mbufs', 0)
    BY <1>2, <1>3, <1>7 DEF HeldParts
  <2>2. rx_mbufs \in Seq(Mbufs) /\ tx_mbufs' \in Seq(Mbufs) BY <1>1, <1>2, <1>5, Types
  <2>3. Rest(rx_mbufs, 0) = rx_mbufs BY <2>2, RestOfNothing
  <2>4. Prefix(tx_mbufs', 0) = << >> BY <2>2, RestOfNothing
  <2> QED BY <2>1, <2>3, <2>4
<1>9. Spread'
  <2>1. /\ Len(pool') + Len(HeldTx') = Len(pool) + Len(HeldTx)
        /\ ToSet(pool') \cup ToSet(HeldTx') = ToSet(pool) \cup ToSet(HeldTx)
    <3>1. Len(HeldTx) = 0 /\ ToSet(HeldTx) = {} BY <1>3 DEF ToSet
    <3>2. Len(pool') + Len(HeldTx') = (Len(pool) - n) + n BY <1>2, <1>5, <1>8
    <3>3. Len(pool) \in Nat BY <1>1, Types
    <3>4. Len(pool') + Len(HeldTx') = Len(pool) + 0 BY <1>4, <3>2, <3>3
    <3> QED BY <1>2, <1>5, <1>8, <3>1, <3>4
  <2>2. Len(HeldTx) \in Nat /\ Len(HeldTx') \in Nat /\ Len(pool') \in Nat
    BY <1>1, <1>7, LenProperties DEF HeldParts, TypeInv, TypeOK
  <2>3. UNCHANGED <<rx_ring, tx_ring, tx_done>> /\ HeldRx' = HeldRx BY <1>2, <1>3, <1>8
  <2>4. Len(HeldRx) \in Nat BY <1>1, LenProperties DEF HeldParts
  <2>5. Len(pool) \in Nat /\ Len(rx_ring) \in Nat /\ Len(tx_ring) \in Nat
        /\ Len(tx_done) \in Nat
    BY <1>1, Types
  <2>6. \A p, r, t, d, h, x, q, y \in Nat :
          q + y = p + x => q + r + t + d + h + y = p + r + t + d + h + x
    OBVIOUS
  <2>7. Len(pool') + Len(rx_ring) + Len(tx_ring) + Len(tx_done) + Len(HeldRx) + Len(HeldTx')
          = PoolSize
    BY <1>1, <2>1, <2>2, <2>4, <2>5, <2>6 DEF Spread
  <2> QED BY <1>1, <2>1, <2>3, <2>7 DEF Spread
<1>10. RingsFit' BY <1>1, <1>2 DEF RingsFit
<1>11. LineRises' /\ AnswersRight' BY <1>1, <1>2, <1>3, <1>8, LineSame
<1>12. Answered' BY <1>2 DEF Answered
<1> QED BY <1>6, <1>9, <1>10, <1>11, <1>12, FlowFrom, PTL

LEMMA NextFlows == ASSUME FlowInv, TypeInv', MNext PROVE FlowInv'
<1>1. /\ TypeInv /\ Bursts /\ RingsFit /\ Spread /\ LineRises /\ AnswersRight /\ HeldParts
  BY FlowFacts DEF FlowInv
<1>2. /\ pc = "next" /\ rx_burst_ptr < Len(rx_mbufs)
      /\ Len(tx_mbufs) = Len(rx_mbufs) /\ tx_burst_ptr = rx_burst_ptr
      /\ tx_burst_size = Len(tx_mbufs)
      /\ rx_burst_ptr \in Nat /\ Len(rx_mbufs) \in Nat /\ ~failed
  BY <1>1, Types DEF MNext, Bursts
<1>3. ~(tx_burst_ptr >= tx_burst_size) BY <1>2
<1>4. /\ pc' = "post"
      /\ rx' = rx_mbufs[rx_burst_ptr + 1] /\ rx_burst_ptr' = rx_burst_ptr + 1
      /\ tx' = tx_mbufs[rx_burst_ptr + 1] /\ tx_burst_ptr' = rx_burst_ptr + 1
      /\ UNCHANGED <<pool, rx_ring, tx_ring, tx_done, mem, rx_mbufs, tx_mbufs, failed,
                     rcvd, wire>>
  BY <1>2, <1>3 DEF MNext, nic
<1>5. Bursts'
  <2>1. rx_burst_ptr + 1 >= 1 BY <1>2
  <2> QED BY <1>2, <1>4, <2>1 DEF Bursts, Busy
<1>6. HeldParts' BY <1>5, Held, PTL
<1>7. HeldRx' = HeldRx /\ HeldTx' = HeldTx /\ RepliedTx' = RepliedTx
  <2>1. rx_burst_ptr' - 1 = rx_burst_ptr BY <1>2, <1>4
  <2>2. Busy' BY <1>4 DEF Busy
  <2>3. /\ HeldRx' = Rest(rx_mbufs', rx_burst_ptr' - 1) /\ HeldTx' = tx_mbufs'
        /\ RepliedTx' = Prefix(tx_mbufs', rx_burst_ptr' - 1)
    BY <1>6, <2>2 DEF HeldParts
  <2>4. /\ HeldRx = Rest(rx_mbufs, rx_burst_ptr) /\ HeldTx = tx_mbufs
        /\ RepliedTx = Prefix(tx_mbufs, rx_burst_ptr)
    BY <1>1, <1>2 DEF HeldParts
  <2> QED BY <1>4, <2>1, <2>3, <2>4
<1>8. Spread' BY <1>1, <1>4, <1>7 DEF Spread
<1>9. RingsFit' BY <1>1, <1>4 DEF RingsFit
<1>10. LineRises' /\ AnswersRight' BY <1>1, <1>4, <1>7, LineSame
<1>11. Answered' BY <1>4 DEF Answered
<1> QED BY <1>5, <1>8, <1>9, <1>10, <1>11, FlowFrom, PTL

\* A step of the handshake moves no mbuf.
LEMMA HandshakeFlows ==
  ASSUME FlowInv, TypeInv', Bursts', Answered', Busy, Busy',
         UNCHANGED <<pool, nic, mem, rxburst, txburst, failed, rcvd, wire>>
  PROVE  FlowInv'
<1>1. /\ TypeInv /\ Bursts /\ RingsFit /\ Spread /\ LineRises /\ AnswersRight /\ HeldParts
  BY FlowFacts DEF FlowInv
<1>2. UNCHANGED <<pool, rx_ring, tx_ring, tx_done, mem, rx_mbufs, rx_burst_ptr,
                  tx_mbufs, rcvd, wire>>
  BY DEF nic, rxburst, txburst
<1>3. HeldParts' BY Held, PTL
<1>4. HeldRx' = HeldRx /\ HeldTx' = HeldTx /\ RepliedTx' = RepliedTx
  <2>1. /\ HeldRx' = Rest(rx_mbufs', rx_burst_ptr' - 1) /\ HeldTx' = tx_mbufs'
        /\ RepliedTx' = Prefix(tx_mbufs', rx_burst_ptr' - 1)
    BY <1>3 DEF HeldParts
  <2>2. /\ HeldRx = Rest(rx_mbufs, rx_burst_ptr - 1) /\ HeldTx = tx_mbufs
        /\ RepliedTx = Prefix(tx_mbufs, rx_burst_ptr - 1)
    BY <1>1 DEF HeldParts
  <2> QED BY <1>2, <2>1, <2>2
<1>5. Spread' BY <1>1, <1>2, <1>4 DEF Spread
<1>6. RingsFit' BY <1>1, <1>2 DEF RingsFit
<1>7. LineRises' /\ AnswersRight' BY <1>1, <1>2, <1>4, LineSame
<1> QED BY <1>5, <1>6, <1>7, FlowFrom, PTL

LEMMA PostFlows == ASSUME FlowInv, TypeInv', MPost PROVE FlowInv'
<1>1. Bursts /\ pc = "post" /\ pc' = "wait" BY DEF MPost, FlowInv
<1>2. /\ rx_buff_ptr' = rx /\ tx_buff_ptr' = tx /\ work_ready' = TRUE
      /\ UNCHANGED <<pool, nic, mem, rxburst, txburst, rx, tx, failed, rcvd, wire>>
  BY DEF MPost
<1>3. Busy /\ Busy' BY <1>1 DEF Busy
<1>4. Bursts' BY <1>1, <1>2, <1>3 DEF Bursts, rxburst, txburst
<1>5. Answered' BY <1>2 DEF Answered
<1> QED BY <1>2, <1>3, <1>4, <1>5, HandshakeFlows

LEMMA WakeFlows == ASSUME FlowInv, TypeInv', MWake PROVE FlowInv'
<1>1. /\ Bursts /\ Answered /\ pc = "wait" /\ pc' \in {"wait", "reply"}
      /\ (pc' = "reply" => ~work_ready)
      /\ UNCHANGED <<pool, nic, mem, rxburst, txburst, rx, tx, params, failed, rcvd,
                     wire>>
  BY DEF MWake, FlowInv
<1>2. Busy /\ Busy' BY <1>1 DEF Busy
<1>3. Bursts' BY <1>1, <1>2 DEF Bursts, rxburst, txburst, params
<1>4. Answered' BY <1>1 DEF Answered, params
<1> QED BY <1>1, <1>2, <1>3, <1>4, HandshakeFlows

\* A step of neither the mbufs nor the handshake.
LEMMA StillFlows ==
  ASSUME FlowInv, TypeInv',
         UNCHANGED <<pool, nic, mem, rxburst, txburst, rx, tx, pc, params, failed, rcvd,
                     wire>>
  PROVE  FlowInv'
<1>1. UNCHANGED <<HeldRx, HeldTx, RepliedTx>>
  BY DEF HeldRx, HeldTx, RepliedTx, Replied, Busy, rxburst, txburst
<1>2. /\ Bursts /\ RingsFit /\ MbufsAccounted /\ Answered /\ AnswersRight /\ LineRises
  BY DEF FlowInv
<1>3. Bursts' BY <1>2 DEF Bursts, Busy, rxburst, txburst, params
<1>4. RingsFit' /\ MbufsAccounted' BY <1>1, <1>2 DEF RingsFit, MbufsAccounted, nic
<1>5. Answered' BY <1>2 DEF Answered, params
<1>6. LineRises' /\ AnswersRight' BY <1>1, <1>2, LineSame DEF nic
<1> QED BY <1>3, <1>4, <1>5, <1>6 DEF FlowInv

LEMMA SentIn ==
  ASSUME NEW w \in Seq(Contents)
  PROVE  /\ SentBy(w) \in Seq(Nat) /\ Len(SentBy(w)) = Len(w)
         /\ DOMAIN w = 1 .. Len(w) /\ Len(w) \in Nat
         /\ \A k \in 1 .. Len(w) : SentBy(w)[k] = w[k].to
<1>1. MaxPkts \in Nat BY ServerAssumption
<1>2. DOMAIN w = 1 .. Len(w) /\ Len(w) \in Nat BY LenProperties
<1>3. \A k \in 1 .. Len(w) : w[k].to \in Nat
  <2>1. \A k \in 1 .. Len(w) : w[k] \in Contents BY ElementOfSeq
  <2> QED BY <1>1, <2>1 DEF Contents
<1>4. SentBy(w) \in Seq(Nat) /\ Len(SentBy(w)) = Len(w) BY <1>2, <1>3 DEF SentBy
<1>5. \A k \in 1 .. Len(w) : SentBy(w)[k] = w[k].to BY <1>2 DEF SentBy
<1> QED BY <1>2, <1>4, <1>5

LEMMA SentAppend ==
  ASSUME NEW w \in Seq(Contents), NEW c \in Contents
  PROVE  SentBy(Append(w, c)) = SentBy(w) \o <<c.to>>
<1>1. c.to \in Nat
  <2>1. MaxPkts \in Nat BY ServerAssumption
  <2> QED BY <2>1 DEF Contents
<1>2. /\ Append(w, c) \in Seq(Contents) /\ Len(Append(w, c)) = Len(w) + 1
      /\ \A k \in 1 .. Len(w) : Append(w, c)[k] = w[k]
      /\ Append(w, c)[Len(w) + 1] = c
  BY AppendProperties
<1>3. /\ SentBy(w) \in Seq(Nat) /\ Len(SentBy(w)) = Len(w) /\ Len(w) \in Nat
      /\ \A k \in 1 .. Len(w) : SentBy(w)[k] = w[k].to
  BY SentIn
<1> DEFINE v == Append(w, c)
           t == SentBy(w)
           x == c.to
<1>4. /\ SentBy(v) \in Seq(Nat) /\ Len(SentBy(v)) = Len(v)
      /\ \A k \in 1 .. Len(v) : SentBy(v)[k] = v[k].to
  <2>1. v \in Seq(Contents) BY <1>2
  <2> HIDE DEF v
  <2> QED BY <2>1, SentIn
<1>5. x \in Nat /\ t \in Seq(Nat) BY <1>1, <1>3
<1> HIDE DEF t, x
<1>6. /\ Append(t, x) \in Seq(Nat) /\ Len(Append(t, x)) = Len(t) + 1
      /\ \A k \in 1 .. Len(t) : Append(t, x)[k] = t[k]
      /\ Append(t, x)[Len(t) + 1] = x
  BY <1>5, AppendProperties
<1>7. Append(t, x) = t \o <<x>> BY <1>5, AppendIsConcat
<1>8. ASSUME NEW k \in 1 .. Len(w) + 1 PROVE SentBy(v)[k] = Append(t, x)[k]
  <2>1. CASE k = Len(w) + 1 BY <1>2, <1>3, <1>4, <1>6, <2>1 DEF t, x
  <2>2. CASE k # Len(w) + 1
    <3>1. k \in 1 .. Len(w) BY <1>3, <2>2
    <3>0. k \in 1 .. Len(v) /\ v[k] = w[k] BY <1>2, <3>1
    <3>2. SentBy(v)[k] = w[k].to
      <4> HIDE DEF v
      <4> QED BY <1>4, <3>0
    <3>3. Append(t, x)[k] = w[k].to BY <1>3, <1>6, <3>1 DEF t
    <3> QED BY <3>2, <3>3
  <2> QED BY <2>1, <2>2
<1>9. Len(SentBy(v)) = Len(w) + 1 /\ Len(Append(t, x)) = Len(w) + 1
  BY <1>2, <1>3, <1>4, <1>6 DEF t
<1> HIDE DEF v
<1>10. SentBy(v) = Append(t, x) BY <1>4, <1>6, <1>8, <1>9, SeqEqual
<1> QED BY <1>7, <1>10 DEF t, x, v

LEMMA NicFlows == ASSUME FlowInv, TypeInv', NicSend PROVE FlowInv'
<1>1. /\ TypeInv /\ Bursts /\ RingsFit /\ Spread /\ LineRises /\ AnswersRight
      /\ Answered /\ HeldParts
  BY FlowFacts DEF FlowInv
<1> DEFINE h == Head(tx_ring)
<1>2. /\ tx_ring # << >> /\ wire' = Append(wire, mem[h])
      /\ tx_ring' = Tail(tx_ring) /\ tx_done' = Append(tx_done, h)
      /\ UNCHANGED <<pool, rx_ring, mem, rxburst, txburst, rx, tx, pc, params, waiting,
                     failed, rcvd>>
  BY DEF NicSend
<1>3. tx_ring \in Seq(Mbufs) /\ tx_done \in Seq(Mbufs) /\ wire \in Seq(Contents)
  BY <1>1, Types
<1>4. /\ h \in Mbufs /\ Tail(tx_ring) \in Seq(Mbufs)
      /\ Len(Tail(tx_ring)) = Len(tx_ring) - 1
      /\ ToSet(tx_ring) = {h} \cup ToSet(Tail(tx_ring))
      /\ tx_ring = <<h>> \o Tail(tx_ring)
  BY <1>2, <1>3, HeadIn
<1> HIDE DEF h
<1>5. /\ Len(Append(tx_done, h)) = Len(tx_done) + 1
      /\ ToSet(Append(tx_done, h)) = ToSet(tx_done) \cup {h}
  BY <1>3, <1>4, AppendIn
<1>6. UNCHANGED <<HeldRx, HeldTx, RepliedTx>>
  BY <1>2 DEF HeldRx, HeldTx, RepliedTx, Replied, Busy, rxburst, txburst
<1>7. Bursts' BY <1>1, <1>2 DEF Bursts, Busy, rxburst, txburst, params
<1>8. Len(tx_ring') + Len(tx_done') = Len(tx_ring) + Len(tx_done)
  <2>1. Len(tx_ring) \in Nat /\ Len(tx_done) \in Nat BY <1>1, Types
  <2>2. Len(tx_ring') = Len(tx_ring) - 1 /\ Len(tx_done') = Len(tx_done) + 1
    BY <1>2, <1>4, <1>5
  <2> QED BY <2>1, <2>2
<1>9. Spread'
  <2>1. Len(pool) \in Nat /\ Len(rx_ring) \in Nat /\ Len(tx_ring) \in Nat
        /\ Len(tx_done) \in Nat
    BY <1>1, Types
  <2>2. Len(tx_ring') \in Nat /\ Len(tx_done') \in Nat
    BY LenProperties DEF TypeInv, TypeOK
  <2>3. Len(HeldRx) \in Nat /\ Len(HeldTx) \in Nat BY <1>1, LenProperties DEF HeldParts
  <2>4. \A p, r, t, d, a, b, x, y \in Nat :
          a + b = t + d => p + r + a + b + x + y = p + r + t + d + x + y
    OBVIOUS
  <2>5. Len(pool) + Len(rx_ring) + Len(tx_ring') + Len(tx_done') + Len(HeldRx)
          + Len(HeldTx) = PoolSize
    BY <1>1, <1>8, <2>1, <2>2, <2>3, <2>4 DEF Spread
  <2>6. ToSet(tx_ring') \cup ToSet(tx_done') = ToSet(tx_ring) \cup ToSet(tx_done)
    BY <1>2, <1>4, <1>5
  <2> QED BY <1>1, <1>2, <1>6, <2>5, <2>6 DEF Spread
<1>10. RingsFit' BY <1>1, <1>2, <1>8 DEF RingsFit
<1>11. Answered' BY <1>1, <1>2 DEF Answered, params
<1>12. AnswersRight'
  <2>1. Len(wire) \in Nat /\ DOMAIN wire = 1 .. Len(wire)
        /\ Len(tx_ring) \in Nat /\ DOMAIN tx_ring = 1 .. Len(tx_ring)
    BY <1>3, LenProperties
  <2>2. Right(mem[h])
    <3>1. Len(tx_ring) # 0 BY <1>2, <1>3, EmptySeq
    <3>2. 1 \in DOMAIN tx_ring /\ h = tx_ring[1] BY <2>1, <3>1, <1>3, HeadTailProperties DEF h
    <3> QED BY <1>1, <3>2 DEF AnswersRight
  <2>3. \A k \in DOMAIN wire' : Right(wire'[k])
    <3>1. mem[h] \in Contents BY <1>1, <1>4, MemTypes
    <3>2. /\ Append(wire, mem[h]) \in Seq(Contents)
          /\ Len(Append(wire, mem[h])) = Len(wire) + 1
          /\ \A k \in 1 .. Len(wire) : Append(wire, mem[h])[k] = wire[k]
          /\ Append(wire, mem[h])[Len(wire) + 1] = mem[h]
      BY <1>3, <3>1, AppendProperties
    <3>3. DOMAIN wire' = 1 .. Len(wire) + 1 BY <1>2, <3>2, LenProperties
    <3> SUFFICES ASSUME NEW k \in 1 .. Len(wire) + 1 PROVE Right(wire'[k])
      BY <3>3
    <3>4. CASE k = Len(wire) + 1 BY <1>2, <2>2, <3>2, <3>4
    <3>5. CASE k # Len(wire) + 1
      <4>1. k \in 1 .. Len(wire) BY <2>1, <3>5
      <4>2. wire'[k] = wire[k] BY <1>2, <3>2, <4>1
      <4> QED BY <1>1, <2>1, <4>1, <4>2 DEF AnswersRight
    <3> QED BY <3>4, <3>5
  <2>4. \A k \in DOMAIN tx_ring' : Right(mem[tx_ring'[k]])
    <3> SUFFICES ASSUME NEW k \in DOMAIN tx_ring' PROVE Right(mem[tx_ring'[k]])
      OBVIOUS
    <3>1. DOMAIN tx_ring' = 1 .. Len(tx_ring) - 1 BY <1>2, <1>4, LenProperties
    <3>2. tx_ring'[k] = tx_ring[k + 1] BY <1>2, <1>3, <3>1, HeadTailProperties
    <3>3. k + 1 \in DOMAIN tx_ring BY <2>1, <3>1
    <3> QED BY <1>1, <3>2, <3>3 DEF AnswersRight
  <2> QED BY <1>1, <1>2, <1>6, <2>3, <2>4 DEF AnswersRight
<1>13. LineRises'
  <2> DEFINE x == <<mem[h].to>>
             t == Tos(mem, Tail(tx_ring))
  <2>1. mem \in [Mbufs -> Contents] /\ mem[h] \in Contents /\ MaxPkts \in Nat
    BY <1>1, <1>4, MemTypes, Types DEF TypeInv, TypeOK
  <2>2. Sent' = Sent \o x
    <3>1. SentBy(Append(wire, mem[h])) = SentBy(wire) \o <<mem[h].to>>
      BY <1>3, <2>1, SentAppend
    <3> QED BY <1>2, <3>1 DEF Sent
  <2>3. Tos(mem, tx_ring) = x \o t
    <3>1. <<h>> \in Seq(Mbufs) BY <1>4
    <3>2. Tos(mem, <<h>> \o Tail(tx_ring)) = Tos(mem, <<h>>) \o Tos(mem, Tail(tx_ring))
      BY <1>4, <2>1, <3>1, FieldsConcat
    <3>3. Tos(mem, <<h>>) = <<mem[h].to>> BY DEF Tos
    <3> QED BY <1>4, <3>2, <3>3
  <2>4. Tos(mem', tx_ring') = t BY <1>2
  <2>5. x \in Seq(Nat) BY <2>1 DEF Contents
  <2>6. t \in Seq(Nat) BY <1>4, <2>1, FieldsOf
  <2>7. Sent \in Seq(Nat) BY <1>3, SentIn DEF Sent
  <2> HIDE DEF x, t
  <2>8. (Sent \o x) \o t = Sent \o (x \o t) BY <2>5, <2>6, <2>7, ConcatAssociative, SMTT(30)
  <2>9. Sent' \o Tos(mem', tx_ring') = Sent \o Tos(mem, tx_ring)
    BY <2>2, <2>3, <2>4, <2>8
  <2>10. Line' = Line BY <1>2, <1>6, <2>9, Zenon DEF Line
  <2> QED BY <1>1, <1>2, <2>10 DEF LineRises
<1> QED BY <1>7, <1>9, <1>10, <1>11, <1>12, <1>13, FlowFrom, PTL

\* A write to the buffer the loop holds changes nothing that is in the line or was
\* answered.
LEMMA WriteAside ==
  ASSUME FlowInv, Busy, NEW c \in Contents, mem' = [mem EXCEPT ![tx] = c]
  PROVE  /\ mem' \in [Mbufs -> Contents] /\ mem'[tx] = c
         /\ \A m \in Mbufs : m # tx => mem'[m] = mem[m]
         /\ tx \in Mbufs /\ rx \in Mbufs
         /\ tx \notin ToSet(tx_ring) /\ tx \notin ToSet(HeldRx) /\ tx \notin ToSet(RepliedTx)
         /\ tx = tx_mbufs[rx_burst_ptr] /\ rx = rx_mbufs[rx_burst_ptr]
         /\ rx_burst_ptr \in 1 .. Len(tx_mbufs) /\ Len(tx_mbufs) = Len(rx_mbufs)
         /\ Tos(mem', tx_ring) = Tos(mem, tx_ring)
         /\ Tos(mem', RepliedTx) = Tos(mem, RepliedTx)
         /\ \A s \in Seq(Mbufs) : ToSet(s) \subseteq ToSet(HeldRx) =>
              Packets(mem', s) = Packets(mem, s)
<1>1. TypeInv /\ Bursts /\ HeldParts /\ Apart BY FlowFacts DEF FlowInv
<1>2. mem \in [Mbufs -> Contents] /\ tx \in Mbufs /\ rx \in Mbufs
  BY <1>1 DEF TypeInv, TypeOK
<1>3. /\ mem' \in [Mbufs -> Contents] /\ mem'[tx] = c
      /\ \A m \in Mbufs : m # tx => mem'[m] = mem[m]
  BY <1>2
<1>4. /\ tx = tx_mbufs[rx_burst_ptr] /\ rx = rx_mbufs[rx_burst_ptr]
      /\ Len(tx_mbufs) = Len(rx_mbufs) /\ rx_burst_ptr >= 1
  BY <1>1 DEF Bursts
<1>5. rx_burst_ptr \in 1 .. Len(tx_mbufs) /\ rx_burst_ptr - 1 \in 0 .. Len(tx_mbufs)
  <2>1. rx_burst_ptr \in Nat /\ Len(rx_mbufs) \in Nat /\ rx_burst_ptr <= Len(rx_mbufs)
    BY <1>1, Types
  <2> QED BY <1>4, <2>1
<1>6. tx_mbufs \in Seq(Mbufs) /\ tx_ring \in Seq(Mbufs) /\ HeldRx \in Seq(Mbufs)
      /\ RepliedTx \in Seq(Mbufs)
  BY <1>1, Types DEF HeldParts
<1>7. DOMAIN tx_mbufs = 1 .. Len(tx_mbufs) /\ HeldTx = tx_mbufs
  BY <1>1, <1>6, LenProperties DEF HeldParts
<1>8. tx \notin ToSet(tx_ring) /\ tx \notin ToSet(HeldRx)
  <2>1. tx \in ToSet(HeldTx) BY <1>4, <1>5, <1>7 DEF ToSet
  <2> QED BY <1>1, <2>1 DEF Apart
<1>9. tx \notin ToSet(RepliedTx)
  <2>1. RepliedTx = Prefix(tx_mbufs, rx_burst_ptr - 1) BY <1>1 DEF HeldParts
  <2>2. /\ Len(Prefix(tx_mbufs, rx_burst_ptr - 1)) = rx_burst_ptr - 1
        /\ \A k \in 1 .. rx_burst_ptr - 1 :
             Prefix(tx_mbufs, rx_burst_ptr - 1)[k] = tx_mbufs[k]
    <3> DEFINE j == rx_burst_ptr - 1
    <3>1. tx_mbufs \in Seq(Mbufs) /\ j \in 0 .. Len(tx_mbufs) BY <1>5, <1>6
    <3> HIDE DEF j
    <3>2. /\ Len(Prefix(tx_mbufs, j)) = j
          /\ \A k \in 1 .. j : Prefix(tx_mbufs, j)[k] = tx_mbufs[k]
      BY <3>1, SplitIn
    <3> QED BY <3>2 DEF j
  <2>3. DOMAIN RepliedTx = 1 .. rx_burst_ptr - 1 BY <1>6, <2>1, <2>2, LenProperties
  <2>4. ASSUME NEW k \in 1 .. rx_burst_ptr - 1 PROVE RepliedTx[k] # tx
    <3>1. k \in DOMAIN tx_mbufs /\ rx_burst_ptr \in DOMAIN tx_mbufs /\ k # rx_burst_ptr
      BY <1>5, <1>7
    <3>2. tx_mbufs[k] # tx_mbufs[rx_burst_ptr] BY <1>1, <1>7, <3>1 DEF Apart, Once
    <3> QED BY <1>4, <2>1, <2>2, <3>2
  <2> QED BY <2>3, <2>4 DEF ToSet
<1>10. ASSUME NEW s \in Seq(Mbufs), tx \notin ToSet(s)
       PROVE  Tos(mem', s) = Tos(mem, s) /\ Packets(mem', s) = Packets(mem, s)
  <2>1. \A m \in ToSet(s) : m \in Mbufs
    <3>1. \A k \in DOMAIN s : s[k] \in Mbufs BY LenProperties, ElementOfSeq
    <3> QED BY <3>1 DEF ToSet
  <2>2. \A m \in ToSet(s) : mem'[m] = mem[m] BY <1>3, <1>10, <2>1
  <2>3. \A N \in [Mbufs -> Contents] : (\A m \in ToSet(s) : N[m] = mem[m]) =>
          Tos(N, s) = Tos(mem, s) /\ Packets(N, s) = Packets(mem, s)
    BY <1>2, FieldsOf
  <2> QED BY <1>3, <2>2, <2>3
<1>11. Tos(mem', tx_ring) = Tos(mem, tx_ring) BY <1>6, <1>8, <1>10
<1>12. Tos(mem', RepliedTx) = Tos(mem, RepliedTx) BY <1>6, <1>9, <1>10
<1>13. \A s \in Seq(Mbufs) : ToSet(s) \subseteq ToSet(HeldRx) =>
         Packets(mem', s) = Packets(mem, s)
  BY <1>8, <1>10
<1> QED BY <1>2, <1>3, <1>4, <1>5, <1>8, <1>9, <1>11, <1>12, <1>13

LEMMA WorkFlows == ASSUME FlowInv, TypeInv', Work PROVE FlowInv'
<1>1. UNCHANGED <<pool, nic, rxburst, txburst, rx, tx, pc, rx_buff_ptr, tx_buff_ptr,
                  failed, rcvd, wire>>
  BY DEF Work
<1>2. CASE ~work_ready
  <2>1. UNCHANGED <<mem, work_ready, rsp_pckt_size>> BY <1>2 DEF Work
  <2> QED BY <1>1, <2>1, StillFlows DEF params
<1>3. CASE work_ready
  <2>1. /\ TypeInv /\ Bursts /\ RingsFit /\ Spread /\ LineRises /\ AnswersRight
        /\ HeldParts
    BY FlowFacts DEF FlowInv
  <2>2. /\ pc = "wait" /\ Busy /\ rx_buff_ptr = rx /\ tx_buff_ptr = tx
        /\ rx \in Mbufs /\ tx \in Mbufs
    BY <1>3, <2>1 DEF TypeInv, Bursts, Busy
  <2>3. PICK rsp \in Processed(mem[rx].pkt, mem[tx]) :
          /\ work_ready' = FALSE /\ mem' = [mem EXCEPT ![tx] = rsp.body]
          /\ rsp_pckt_size' = rsp.size
    BY <1>3, <2>2 DEF Work
  <2>4. /\ rsp.body \in Contents
        /\ rsp.size # 0 => /\ rsp.size = mem[rx].pkt
                           /\ rsp.body = [kind |-> "response", pkt |-> mem[rx].pkt,
                                          size |-> 0, to |-> 0]
    <3>1. MaxPkts \in Nat BY ServerAssumption
    <3>2. mem[tx] \in Contents /\ mem[rx].pkt \in 0 .. MaxPkts BY <2>1, <2>2, MemTypes
    <3> QED BY <2>3, <3>1, <3>2 DEF Processed, Contents
  <2>5. /\ mem' \in [Mbufs -> Contents] /\ mem'[tx] = rsp.body
        /\ \A m \in Mbufs : m # tx => mem'[m] = mem[m]
        /\ tx \notin ToSet(tx_ring) /\ tx \notin ToSet(HeldRx) /\ tx \notin ToSet(RepliedTx)
        /\ Tos(mem', tx_ring) = Tos(mem, tx_ring)
        /\ Tos(mem', RepliedTx) = Tos(mem, RepliedTx)
        /\ rx = rx_mbufs[rx_burst_ptr]
        /\ rx_burst_ptr \in 1 .. Len(tx_mbufs) /\ Len(tx_mbufs) = Len(rx_mbufs)
        /\ \A s \in Seq(Mbufs) : ToSet(s) \subseteq ToSet(HeldRx) =>
              Packets(mem', s) = Packets(mem, s)
    BY <2>2, <2>3, <2>4, WriteAside
  <2>6. UNCHANGED <<HeldRx, HeldTx, RepliedTx>>
    BY <1>1 DEF HeldRx, HeldTx, RepliedTx, Replied, Busy, rxburst, txburst
  <2>7. Bursts' BY <1>1, <2>1 DEF Bursts, Busy, rxburst, txburst
  <2>8. RingsFit' /\ Spread' BY <1>1, <2>1, <2>6 DEF RingsFit, Spread, nic
  <2>9. rx # tx
    <3>1. rx_mbufs \in Seq(Mbufs) /\ rx_burst_ptr \in 1 .. Len(rx_mbufs)
      BY <2>1, <2>5, Types
    <3>2. HeldRx = <<rx>> \o Rest(rx_mbufs, rx_burst_ptr)
      <4>1. Rest(rx_mbufs, rx_burst_ptr - 1)
              = <<rx_mbufs[rx_burst_ptr]>> \o Rest(rx_mbufs, rx_burst_ptr)
        BY <3>1, OneMore
      <4> QED BY <2>1, <2>2, <2>5, <4>1 DEF HeldParts
    <3>3. rx \in ToSet(HeldRx)
      <4>1. <<rx>> \in Seq(Mbufs) /\ ToSet(<<rx>>) = {rx} BY <2>2 DEF ToSet
      <4>2. Rest(rx_mbufs, rx_burst_ptr) \in Seq(Mbufs)
        <5>1. rx_burst_ptr \in 0 .. Len(rx_mbufs) BY <2>1, Types
        <5> QED BY <3>1, <5>1, SplitIn
      <4>3. ToSet(<<rx>> \o Rest(rx_mbufs, rx_burst_ptr))
              = ToSet(<<rx>>) \cup ToSet(Rest(rx_mbufs, rx_burst_ptr))
        <5>1. <<rx>> \in Seq(Mbufs) BY <4>1
        <5> QED BY <4>2, <5>1, ConcatIn, Zenon
      <4> QED BY <3>2, <4>1, <4>3
    <3> QED BY <2>5, <3>3
  <2>10. Answered' BY <1>1, <2>2, <2>3, <2>4, <2>5, <2>9 DEF Answered
  <2>11. AnswersRight'
    <3>1. \A k \in DOMAIN tx_ring : mem'[tx_ring[k]] = mem[tx_ring[k]]
      <4>1. \A k \in DOMAIN tx_ring : tx_ring[k] \in Mbufs /\ tx_ring[k] \in ToSet(tx_ring)
        BY <2>1, Types, LenProperties, ElementOfSeq DEF ToSet
      <4> QED BY <2>5, <4>1
    <3>2. \A k \in DOMAIN RepliedTx : mem'[RepliedTx[k]] = mem[RepliedTx[k]]
      <4>1. RepliedTx \in Seq(Mbufs) BY <2>1 DEF HeldParts
      <4>2. \A k \in DOMAIN RepliedTx :
              RepliedTx[k] \in Mbufs /\ RepliedTx[k] \in ToSet(RepliedTx)
        BY <4>1, LenProperties, ElementOfSeq DEF ToSet
      <4> QED BY <2>5, <4>2
    <3> QED BY <1>1, <2>1, <2>6, <3>1, <3>2 DEF AnswersRight, nic
  <2>12. LineRises'
    <3>1. Packets(mem', HeldRx) = Packets(mem, HeldRx) BY <2>1, <2>5 DEF HeldParts
    <3>2. Line' = Line BY <1>1, <2>5, <2>6, <3>1 DEF Line, Sent, nic
    <3> QED BY <1>1, <2>1, <3>2 DEF LineRises
  <2> QED BY <2>7, <2>8, <2>10, <2>11, <2>12, FlowFrom, PTL
<1> QED BY <1>2, <1>3

LEMMA ReplyFlows == ASSUME FlowInv, TypeInv', MReply PROVE FlowInv'
<1>1. /\ TypeInv /\ Bursts /\ RingsFit /\ Spread /\ LineRises /\ AnswersRight
      /\ HeldParts /\ Answered
  BY FlowFacts DEF FlowInv
<1>2. /\ pc = "reply" /\ pc' = "next" /\ Busy /\ ~work_ready
      /\ pool' = Append(pool, rx)
      /\ UNCHANGED <<nic, rxburst, txburst, rx, tx, params, waiting, failed, rcvd, wire>>
      /\ UNCHANGED <<rx_ring, tx_ring, tx_done, rx_mbufs, rx_burst_ptr, tx_mbufs,
                     tx_burst_ptr>>
  BY <1>1 DEF MReply, Busy, TypeInv, nic, rxburst, txburst
<1> DEFINE c == [mem[tx] EXCEPT !.size = rsp_pckt_size, !.to = mem[rx].pkt]
           P == Rest(rx_mbufs, rx_burst_ptr)
           R == Prefix(tx_mbufs, rx_burst_ptr - 1)
<1>3. tx \in Mbufs /\ rx \in Mbufs /\ mem \in [Mbufs -> Contents]
      /\ rsp_pckt_size \in 0 .. MaxPkts /\ MaxPkts \in Nat
  BY <1>1, <1>2, Types DEF TypeInv, TypeOK
<1>4. mem[tx] \in Contents /\ mem[rx].pkt \in 0 .. MaxPkts BY <1>1, <1>3, MemTypes
<1>5. c \in Contents /\ c.to = mem[rx].pkt /\ c.size = rsp_pckt_size
      /\ c.kind = mem[tx].kind /\ c.pkt = mem[tx].pkt
  BY <1>3, <1>4 DEF Contents
<1>6. mem' = [mem EXCEPT ![tx] = c] BY <1>3 DEF MReply
<1>7. /\ mem' \in [Mbufs -> Contents] /\ mem'[tx] = c
      /\ \A m \in Mbufs : m # tx => mem'[m] = mem[m]
      /\ tx \notin ToSet(tx_ring) /\ tx \notin ToSet(RepliedTx)
      /\ tx = tx_mbufs[rx_burst_ptr] /\ rx = rx_mbufs[rx_burst_ptr]
      /\ rx_burst_ptr \in 1 .. Len(tx_mbufs) /\ Len(tx_mbufs) = Len(rx_mbufs)
      /\ Tos(mem', tx_ring) = Tos(mem, tx_ring)
      /\ Tos(mem', RepliedTx) = Tos(mem, RepliedTx)
      /\ \A s \in Seq(Mbufs) : ToSet(s) \subseteq ToSet(HeldRx) =>
           Packets(mem', s) = Packets(mem, s)
  <2> HIDE DEF c
  <2> QED BY <1>2, <1>5, <1>6, WriteAside
<1>8. rx_mbufs \in Seq(Mbufs) /\ tx_mbufs \in Seq(Mbufs) /\ pool \in Seq(Mbufs)
      /\ tx_ring \in Seq(Mbufs) /\ wire \in Seq(Contents)
  BY <1>1, Types
<1>9. Bursts' BY <1>1, <1>2 DEF Bursts, Busy, txburst, rxburst
<1>10. HeldParts' BY <1>9, Held, PTL
<1>11. /\ HeldRx' = P /\ HeldTx' = tx_mbufs /\ HeldTx = tx_mbufs
       /\ RepliedTx' = Prefix(tx_mbufs, rx_burst_ptr) /\ RepliedTx = R
       /\ HeldRx = Rest(rx_mbufs, rx_burst_ptr - 1)
  <2>1. /\ HeldRx' = Rest(rx_mbufs', rx_burst_ptr') /\ HeldTx' = tx_mbufs'
        /\ RepliedTx' = Prefix(tx_mbufs', rx_burst_ptr')
    BY <1>2, <1>10 DEF HeldParts
  <2>2. /\ HeldRx = Rest(rx_mbufs, rx_burst_ptr - 1) /\ HeldTx = tx_mbufs
        /\ RepliedTx = Prefix(tx_mbufs, rx_burst_ptr - 1)
    BY <1>1, <1>2 DEF HeldParts
  <2> QED BY <1>2, <2>1, <2>2
<1>12. HeldRx = <<rx>> \o P
  <2>1. rx_burst_ptr \in 1 .. Len(rx_mbufs) BY <1>7
  <2>2. Rest(rx_mbufs, rx_burst_ptr - 1) = <<rx_mbufs[rx_burst_ptr]>> \o P
    BY <1>8, <2>1, OneMore
  <2> QED BY <1>7, <1>11, <2>2
<1>13. RepliedTx' = R \o <<tx>>
  <2>1. Prefix(tx_mbufs, rx_burst_ptr) = R \o <<tx_mbufs[rx_burst_ptr]>>
    BY <1>7, <1>8, OneMore
  <2> QED BY <1>7, <1>11, <2>1
<1>14. P \in Seq(Mbufs) /\ R \in Seq(Mbufs) /\ <<rx>> \in Seq(Mbufs) /\ <<tx>> \in Seq(Mbufs)
  <2>1. HeldRx' \in Seq(Mbufs) /\ RepliedTx \in Seq(Mbufs) BY <1>1, <1>10 DEF HeldParts
  <2> QED BY <1>3, <1>11, <2>1
<1> HIDE DEF P, R, c
<1>15. /\ Len(<<rx>> \o P) = Len(<<rx>>) + Len(P)
       /\ ToSet(<<rx>> \o P) = ToSet(<<rx>>) \cup ToSet(P)
  BY <1>14, ConcatIn
<1>16. /\ Len(HeldRx) = 1 + Len(P) /\ ToSet(HeldRx) = {rx} \cup ToSet(P)
  <2>1. Len(<<rx>>) = 1 /\ ToSet(<<rx>>) = {rx} BY DEF ToSet
  <2> QED BY <1>12, <1>15, <2>1
<1>17. Spread'
  <2>1. Len(Append(pool, rx)) = Len(pool) + 1 /\ ToSet(Append(pool, rx)) = ToSet(pool) \cup {rx}
    BY <1>3, <1>8, AppendIn
  <2>2. Len(pool) \in Nat /\ Len(rx_ring) \in Nat /\ Len(tx_ring) \in Nat
        /\ Len(tx_done) \in Nat /\ Len(tx_mbufs) \in Nat
    BY <1>1, Types
  <2>3. Len(P) \in Nat BY <1>14, LenProperties
  <2>4. \A p, r, t, d, h, x \in Nat :
          (p + 1) + r + t + d + h + x = p + r + t + d + (1 + h) + x
    OBVIOUS
  <2>5. Len(pool') + Len(rx_ring) + Len(tx_ring) + Len(tx_done) + Len(P) + Len(tx_mbufs)
          = PoolSize
    BY <1>1, <1>2, <1>11, <1>16, <2>1, <2>2, <2>3, <2>4 DEF Spread
  <2>6. ToSet(pool') \cup ToSet(P) = ToSet(pool) \cup ToSet(HeldRx) BY <1>2, <1>16, <2>1
  <2> QED BY <1>1, <1>2, <1>11, <2>5, <2>6 DEF Spread
<1>18. RingsFit' BY <1>1, <1>2 DEF RingsFit
<1>19. Answered' BY <1>2 DEF Answered
<1>20. Right(c)
  <2> SUFFICES ASSUME rsp_pckt_size # 0 PROVE c = Response(c.to)
    BY <1>5 DEF Right
  <2>1. /\ mem[tx] = [kind |-> "response", pkt |-> mem[rx].pkt, size |-> 0, to |-> 0]
        /\ rsp_pckt_size = mem[rx].pkt
    BY <1>1, <1>2 DEF Answered
  <2>2. c = [kind |-> "response", pkt |-> mem[rx].pkt, size |-> mem[rx].pkt,
             to |-> mem[rx].pkt]
    <3>1. c = [kind |-> c.kind, pkt |-> c.pkt, size |-> c.size, to |-> c.to]
      BY <1>5 DEF Contents
    <3>2. c.kind = "response" /\ c.pkt = mem[rx].pkt BY <1>5, <2>1
    <3>3. c.size = mem[rx].pkt /\ c.to = mem[rx].pkt BY <1>5, <2>1
    <3> QED BY <3>1, <3>2, <3>3
  <2> QED BY <1>5, <2>2 DEF Response
<1>21. AnswersRight'
  <2>1. \A k \in DOMAIN tx_ring : Right(mem'[tx_ring[k]])
    <3>1. \A k \in DOMAIN tx_ring : tx_ring[k] \in Mbufs /\ tx_ring[k] \in ToSet(tx_ring)
      BY <1>8, LenProperties, ElementOfSeq DEF ToSet
    <3> QED BY <1>1, <1>7, <3>1 DEF AnswersRight
  <2>2. \A m \in ToSet(RepliedTx) : Right(mem'[m])
    <3>1. \A k \in DOMAIN RepliedTx :
            RepliedTx[k] \in Mbufs /\ RepliedTx[k] \in ToSet(RepliedTx)
      BY <1>11, <1>14, LenProperties, ElementOfSeq DEF ToSet
    <3>2. \A k \in DOMAIN RepliedTx : Right(mem'[RepliedTx[k]])
      BY <1>1, <1>7, <3>1 DEF AnswersRight
    <3> QED BY <3>2 DEF ToSet
  <2>3. ToSet(RepliedTx') = ToSet(RepliedTx) \cup {tx}
    <3>1. ToSet(R \o <<tx>>) = ToSet(R) \cup ToSet(<<tx>>) BY <1>14, ConcatIn
    <3>2. ToSet(<<tx>>) = {tx} BY DEF ToSet
    <3> QED BY <1>11, <1>13, <3>1, <3>2
  <2>4. \A m \in ToSet(RepliedTx') : Right(mem'[m]) BY <1>7, <1>20, <2>2, <2>3
  <2>5. \A k \in DOMAIN RepliedTx' : Right(mem'[RepliedTx'[k]]) BY <2>4 DEF ToSet
  <2> QED BY <1>1, <1>2, <2>1, <2>5 DEF AnswersRight
<1>22. LineRises'
  <2> DEFINE y == <<mem[rx].pkt>>
             B == Sent \o Tos(mem, tx_ring)
             r == Tos(mem, R)
             q == Packets(mem, P)
  <2>1. Packets(mem, HeldRx) = y \o q
    <3>1. Packets(mem, <<rx>> \o P) = Packets(mem, <<rx>>) \o Packets(mem, P)
      BY <1>3, <1>14, FieldsConcat
    <3>2. Packets(mem, <<rx>>) = <<mem[rx].pkt>> BY DEF Packets
    <3> QED BY <1>12, <3>1, <3>2
  <2>2. Tos(mem', RepliedTx') = r \o y
    <3>1. Tos(mem', R \o <<tx>>) = Tos(mem', R) \o Tos(mem', <<tx>>)
      BY <1>7, <1>14, FieldsConcat
    <3>2. Tos(mem', <<tx>>) = <<mem'[tx].to>> BY DEF Tos
    <3> QED BY <1>5, <1>7, <1>11, <1>13, <3>1, <3>2
  <2>3. Packets(mem', HeldRx') = q
    <3>1. ToSet(P) \subseteq ToSet(HeldRx) BY <1>16
    <3> QED BY <1>7, <1>11, <1>14, <3>1
  <2>4. Sent' = Sent /\ Tos(mem', tx_ring') = Tos(mem, tx_ring) BY <1>2, <1>7 DEF Sent
  <2>5. Line = (B \o r) \o (y \o q) BY <1>11, <2>1, Zenon DEF Line
  <2>6. Line' = (B \o (r \o y)) \o q BY <2>2, <2>3, <2>4, Zenon DEF Line
  <2>7. y \in Seq(Nat) BY <1>3, <1>4
  <2>8. r \in Seq(Nat) BY <1>3, <1>14, FieldsOf
  <2>9. q \in Seq(Nat) BY <1>3, <1>14, FieldsOf
  <2>10. B \in Seq(Nat)
    <3>1. Sent \in Seq(Nat) BY <1>8, SentIn DEF Sent
    <3>2. Tos(mem, tx_ring) \in Seq(Nat) BY <1>3, <1>8, FieldsOf
    <3> QED BY <3>1, <3>2, ConcatProperties
  <2> HIDE DEF y, B, r, q
  <2>11. B \o r \in Seq(Nat) BY <2>8, <2>10, ConcatProperties
  <2>12. (B \o r) \o y = B \o (r \o y)
    BY <2>7, <2>8, <2>10, ConcatAssociative, SMTT(30)
  <2>13. ((B \o r) \o y) \o q = (B \o r) \o (y \o q)
    <3> DEFINE z == B \o r
    <3>1. z \in Seq(Nat) BY <2>11
    <3> HIDE DEF z
    <3>2. (z \o y) \o q = z \o (y \o q) BY <2>7, <2>9, <3>1, ConcatAssociative
    <3> QED BY <3>2 DEF z
  <2> QED BY <1>1, <1>2, <2>5, <2>6, <2>12, <2>13 DEF LineRises
<1> QED BY <1>9, <1>17, <1>18, <1>19, <1>21, <1>22, FlowFrom, PTL

LEMMA SendFlows == ASSUME FlowInv, TypeInv', MSend PROVE FlowInv'
<1>1. /\ TypeInv /\ Bursts /\ RingsFit /\ Spread /\ LineRises /\ AnswersRight
      /\ HeldParts
  BY FlowFacts DEF FlowInv
<1>2. /\ pc = "next" /\ pc' = "recv" /\ rx_burst_ptr = Len(rx_mbufs)
      /\ UNCHANGED <<rx_ring, mem, failed, rcvd, wire>>
  BY DEF MSend
<1>3. PICK n \in 0 .. tx_burst_size, done \in 0 .. Len(tx_done) : SentBurst(n, done)
  BY <1>1, SendParts, Zenon
<1>4. /\ tx_ring' = tx_ring \o Prefix(tx_mbufs, n)
      /\ Len(tx_ring') + Len(tx_done') <= kRingDescN
      /\ Len(tx_ring') + Len(tx_done') + Len(pool')
           = Len(tx_ring) + Len(tx_done) + Len(pool) + Len(tx_mbufs)
      /\ ToSet(tx_ring') \cup ToSet(tx_done') \cup ToSet(pool')
           = ToSet(tx_ring) \cup ToSet(tx_done) \cup ToSet(pool) \cup ToSet(tx_mbufs)
  BY <1>3 DEF SentBurst
<1>5. rx_mbufs \in Seq(Mbufs) /\ tx_mbufs \in Seq(Mbufs) /\ tx_ring \in Seq(Mbufs)
      /\ wire \in Seq(Contents) /\ n \in 0 .. Len(tx_mbufs)
      /\ mem \in [Mbufs -> Contents]
  BY <1>1, Types DEF TypeInv, TypeOK
<1>6. HeldRx = << >> /\ HeldTx = tx_mbufs /\ RepliedTx = tx_mbufs
  <2>1. /\ HeldRx = Rest(rx_mbufs, Len(rx_mbufs)) /\ HeldTx = tx_mbufs
        /\ RepliedTx = Prefix(tx_mbufs, Len(tx_mbufs))
    BY <1>1, <1>2 DEF HeldParts, Bursts
  <2>2. Rest(rx_mbufs, Len(rx_mbufs)) = << >> BY <1>5, RestOfNothing
  <2>3. Prefix(tx_mbufs, Len(tx_mbufs)) = tx_mbufs BY <1>5, RestOfNothing
  <2> QED BY <2>1, <2>2, <2>3
<1>7. Bursts' BY <1>1, <1>2 DEF Bursts, Busy
<1>8. HeldParts' BY <1>7, Held, PTL
<1>9. HeldRx' = << >> /\ HeldTx' = << >> /\ RepliedTx' = << >>
  BY <1>2, <1>8 DEF HeldParts
<1> DEFINE a == Prefix(tx_mbufs, n)
           b == Rest(tx_mbufs, n)
<1>10. /\ a \in Seq(Mbufs) /\ Len(a) = n /\ \A k \in 1 .. n : a[k] = tx_mbufs[k]
       /\ b \in Seq(Mbufs) /\ tx_mbufs = a \o b
       /\ ToSet(tx_mbufs) = ToSet(a) \cup ToSet(b)
  BY <1>5, SplitIn
<1>11. tx_ring' = tx_ring \o a BY <1>4
<1> HIDE DEF a, b
<1>12. Spread'
  <2>1. Len(pool) \in Nat /\ Len(rx_ring) \in Nat /\ Len(tx_ring) \in Nat
        /\ Len(tx_done) \in Nat /\ Len(tx_mbufs) \in Nat
    BY <1>1, Types
  <2>2. Len(pool') \in Nat /\ Len(tx_ring') \in Nat /\ Len(tx_done') \in Nat
    BY LenProperties DEF TypeInv, TypeOK
  <2>3. \A p, r, t, d, m, q, u, e \in Nat :
          u + e + q = t + d + p + m => q + r + u + e + 0 + 0 = p + r + t + d + 0 + m
    OBVIOUS
  <2>4. Len(pool') + Len(rx_ring) + Len(tx_ring') + Len(tx_done') + 0 + 0 = PoolSize
    <3>1. Len(pool) + Len(rx_ring) + Len(tx_ring) + Len(tx_done) + Len(HeldRx)
            + Len(HeldTx) = PoolSize
      BY <1>1 DEF Spread
    <3>2. Len(HeldRx) = 0 /\ Len(HeldTx) = Len(tx_mbufs) BY <1>6
    <3>3. Len(pool) + Len(rx_ring) + Len(tx_ring) + Len(tx_done) + 0 + Len(tx_mbufs)
            = PoolSize
      BY <3>1, <3>2
    <3>4. Len(tx_ring') + Len(tx_done') + Len(pool')
            = Len(tx_ring) + Len(tx_done) + Len(pool) + Len(tx_mbufs)
      BY <1>4
    <3> QED BY <2>1, <2>2, <2>3, <3>3, <3>4
  <2>5. ToSet(<< >>) = {} BY DEF ToSet
  <2>6. /\ Len(HeldRx') = 0 /\ Len(HeldTx') = 0
        /\ ToSet(HeldRx') = {} /\ ToSet(HeldTx') = {} /\ ToSet(HeldRx) = {}
    BY <1>6, <1>9, <2>5
  <2>7. ToSet(pool') \cup ToSet(rx_ring) \cup ToSet(tx_ring') \cup ToSet(tx_done')
          \cup ToSet(HeldRx') \cup ToSet(HeldTx') = Mbufs
    BY <1>1, <1>4, <1>6, <2>6 DEF Spread
  <2> QED BY <1>2, <2>4, <2>6, <2>7 DEF Spread
<1>13. RingsFit' BY <1>1, <1>2, <1>4 DEF RingsFit
<1>14. Answered' BY <1>2 DEF Answered
<1>15. AnswersRight'
  <2>1. ToSet(tx_ring') = ToSet(tx_ring) \cup ToSet(a)
    BY <1>5, <1>10, <1>11, ConcatIn
  <2>2. \A m \in ToSet(tx_ring) \cup ToSet(tx_mbufs) : Right(mem[m])
    BY <1>1, <1>6 DEF AnswersRight, ToSet
  <2>3. \A m \in ToSet(tx_ring') : Right(mem[m]) BY <1>10, <2>1, <2>2
  <2>4. \A k \in DOMAIN tx_ring' : Right(mem[tx_ring'[k]]) BY <2>3 DEF ToSet
  <2>5. \A k \in DOMAIN RepliedTx' : Right(mem[RepliedTx'[k]])
    <3>1. DOMAIN RepliedTx' = {} BY <1>9
    <3> QED BY <3>1
  <2> QED BY <1>1, <1>2, <2>4, <2>5 DEF AnswersRight
<1>16. LineRises'
  <2> DEFINE t == Tos(mem, tx_ring)
             u == Tos(mem, a)
             v == Tos(mem, b)
  <2>0. << >> \in Seq(Mbufs) /\ Tos(mem, << >>) = << >> /\ Packets(mem, << >>) = << >>
    BY EmptySeq DEF Tos, Packets
  <2>1. Sent \in Seq(Nat) BY <1>5, SentIn DEF Sent
  <2>2. t \in Seq(Nat) BY <1>5, FieldsOf
  <2>3. u \in Seq(Nat) BY <1>5, <1>10, FieldsOf
  <2>4. v \in Seq(Nat) BY <1>5, <1>10, FieldsOf
  <2>5. Tos(mem, tx_mbufs) = u \o v
    <3>1. Tos(mem, a \o b) = Tos(mem, a) \o Tos(mem, b) BY <1>5, <1>10, FieldsConcat
    <3> QED BY <1>10, <3>1
  <2>6. Tos(mem', tx_ring') = t \o u
    <3>1. Tos(mem, tx_ring \o a) = Tos(mem, tx_ring) \o Tos(mem, a)
      BY <1>5, <1>10, FieldsConcat
    <3> QED BY <1>2, <1>11, <3>1
  <2>7. Line = ((Sent \o t) \o (u \o v)) \o << >> BY <1>6, <2>0, <2>5 DEF Line
  <2>8. Line' = ((Sent \o (t \o u)) \o << >>) \o << >>
    BY <1>2, <1>9, <2>0, <2>6 DEF Line, Sent
  <2> HIDE DEF t, u, v
  <2>9. /\ Sent \o t \in Seq(Nat) /\ t \o u \in Seq(Nat) /\ u \o v \in Seq(Nat)
    BY <2>1, <2>2, <2>3, <2>4, ConcatProperties
  <2> DEFINE w == Sent \o t
             x == t \o u
             y == u \o v
  <2>10. w \in Seq(Nat) /\ x \in Seq(Nat) /\ y \in Seq(Nat) BY <2>9
  <2>11. (Sent \o t) \o u = Sent \o (t \o u)
    BY <2>1, <2>2, <2>3, ConcatAssociative, SMTT(30)
  <2> HIDE DEF w, x, y
  <2>12. w \o y \in Seq(Nat) /\ Sent \o x \in Seq(Nat) /\ w \o u \in Seq(Nat)
    BY <2>1, <2>3, <2>10, ConcatProperties
  <2>13. (w \o u) \o v = w \o (u \o v)
    <3>1. w \in Seq(Nat) BY <2>10
    <3> QED BY <2>3, <2>4, <3>1, ConcatAssociative, SMTT(30)
  <2>14. Line = w \o y
    <3>1. (w \o y) \o << >> = w \o y BY <2>12, ConcatEmptySeq
    <3> QED BY <2>7, <3>1 DEF w, y
  <2>15. Line' = Sent \o x
    <3>1. (Sent \o x) \o << >> = Sent \o x BY <2>12, ConcatEmptySeq
    <3> QED BY <2>8, <3>1 DEF x
  <2>16. Line = Line' \o v
    BY <2>11, <2>13, <2>14, <2>15 DEF w, x, y
  <2>17. Line' \in Seq(Nat) BY <2>12, <2>15
  <2>18. Rising(Line' \o v, rcvd) BY <1>1, <2>16 DEF LineRises
  <2>19. rcvd \in Nat BY <1>1, Types
  <2>20. Rising(Line', rcvd)
    <3> DEFINE l == Line'
    <3>1. l \in Seq(Nat) /\ Rising(l \o v, rcvd) BY <2>17, <2>18
    <3> HIDE DEF l
    <3>2. Rising(l, rcvd) BY <2>4, <2>19, <3>1, RisingPrefix
    <3> QED BY <3>2 DEF l
  <2> QED BY <1>2, <2>20 DEF LineRises
<1> QED BY <1>7, <1>12, <1>13, <1>14, <1>15, <1>16, FlowFrom, PTL

\* The packets of a reception, as they are in their mbufs: those kept, in their order.
LEMMA ReceivedPackets ==
  ASSUME TypeInv, Once(rx_ring), NEW n \in 0 .. kMaxBurstSize, NEW I \in SUBSET (1 .. n),
         NEW got, NEW kept, Received(n, I, got, kept), mem' \in [Mbufs -> Contents]
  PROVE  LET v == Packets(mem', kept)
         IN  /\ v \in Seq(Nat)
             /\ \A k \in 1 .. Len(v) : v[k] > rcvd /\ v[k] <= rcvd'
             /\ \A j, k \in 1 .. Len(v) : j < k => v[j] < v[k]
<1>1. /\ got \in Seq(Mbufs) /\ Len(got) = n /\ \A k \in 1 .. n : got[k] = rx_ring[k]
      /\ kept \in Seq(Mbufs) /\ kept = Picked(got, I)
      /\ n <= Len(rx_ring) /\ rcvd' = rcvd + n
      /\ mem' = [m \in Mbufs |-> IF \E k \in 1 .. n : got[k] = m
                   THEN Request(rcvd + CHOOSE k \in 1 .. n : got[k] = m) ELSE mem[m]]
  BY DEF Received
<1>2. n \in Nat /\ rcvd \in Nat BY Types
<1>3. \A j, k \in 1 .. n : got[j] = got[k] => j = k
  <2>1. rx_ring \in Seq(Mbufs) /\ Len(rx_ring) \in Nat BY Types
  <2>2. DOMAIN rx_ring = 1 .. Len(rx_ring) BY <2>1, LenProperties
  <2>3. \A k \in 1 .. n : k \in DOMAIN rx_ring BY <1>1, <1>2, <2>1, <2>2
  <2> QED BY <1>1, <2>3 DEF Once
<1>4. ASSUME NEW i \in 1 .. n PROVE mem'[got[i]].pkt = rcvd + i
  <2> DEFINE m == got[i]
             c == CHOOSE k \in 1 .. n : got[k] = m
  <2>1. m \in Mbufs BY <1>1, ElementOfSeq
  <2>2. c \in 1 .. n /\ got[c] = m BY Zenon
  <2>3. c = i BY <1>3, <2>2
  <2>4. mem'[m] = Request(rcvd + c) BY <1>1, <2>1, Zenon
  <2>5. mem'[m] = Request(rcvd + i) BY <2>3, <2>4, Zenon
  <2> QED BY <2>5 DEF Request
<1> DEFINE v == Packets(mem', kept)
           d == Cardinality(I)
<1>5. PICK p \in [1 .. d -> I] :
        /\ \A k \in 1 .. d : Picked(got, I)[k] = got[p[k]]
        /\ \A k, l \in 1 .. d : k < l => p[k] < p[l]
  <2>1. got \in Seq(Mbufs) /\ I \in SUBSET (1 .. Len(got)) BY <1>1
  <2> QED BY <2>1, PickedIn, SMTT(30)
<1>6. Len(kept) = d
  <2>1. I \in SUBSET (1 .. Len(got)) BY <1>1
  <2>2. Len(Picked(got, I)) = Cardinality(I) BY <1>1, <2>1, PickedIn
  <2> QED BY <1>1, <2>2
<1>7. /\ v \in Seq(Nat) /\ Len(v) = Len(kept)
      /\ \A k \in 1 .. Len(kept) : v[k] = mem'[kept[k]].pkt
  <2> DEFINE M == mem'
  <2>1. M \in [Mbufs -> Contents] /\ kept \in Seq(Mbufs) BY <1>1
  <2> HIDE DEF M
  <2>2. /\ Packets(M, kept) \in Seq(Nat) /\ Len(Packets(M, kept)) = Len(kept)
        /\ \A k \in 1 .. Len(kept) : Packets(M, kept)[k] = M[kept[k]].pkt
    BY <2>1, FieldsOf
  <2> QED BY <2>2 DEF M
<1>8. ASSUME NEW k \in 1 .. d
      PROVE  p[k] \in 1 .. n /\ p[k] \in Nat /\ v[k] = rcvd + p[k]
  <2>1. p[k] \in I BY <1>5
  <2>2. p[k] \in 1 .. n BY <2>1
  <2>3. kept[k] = got[p[k]] BY <1>1, <1>5
  <2>4. v[k] = mem'[got[p[k]]].pkt BY <1>6, <1>7, <2>3
  <2> QED BY <1>4, <2>2, <2>4
<1> HIDE DEF v
<1>9. ASSUME NEW k \in 1 .. d PROVE v[k] > rcvd /\ v[k] <= rcvd'
  BY <1>1, <1>2, <1>8
<1>10. ASSUME NEW j \in 1 .. d, NEW k \in 1 .. d, j < k PROVE v[j] < v[k]
  <2>1. p[j] < p[k] BY <1>5, <1>10
  <2>2. p[j] \in Nat /\ p[k] \in Nat /\ v[j] = rcvd + p[j] /\ v[k] = rcvd + p[k]
    BY <1>8
  <2> QED BY <1>2, <2>1, <2>2
<1>11. Len(v) = d BY <1>6, <1>7
<1>12. v \in Seq(Nat) BY <1>7
<1> HIDE DEF d
<1> QED BY <1>9, <1>10, <1>11, <1>12 DEF v

LEMMA ReceiveFlows == ASSUME FlowInv, TypeInv', MRecv PROVE FlowInv'
<1>1. /\ TypeInv /\ Bursts /\ RingsFit /\ Spread /\ LineRises /\ AnswersRight
      /\ HeldParts /\ Apart
  BY FlowFacts DEF FlowInv
<1>2. PICK n \in 0 .. kMaxBurstSize : \E I \in SUBSET (1 .. n) : \E got, kept :
        Received(n, I, got, kept)
  BY <1>1, ReceiveSteps, Zenon
<1>p. PICK I \in SUBSET (1 .. n) : \E got, kept : Received(n, I, got, kept)
  BY <1>2, Zenon
<1>3. PICK got, kept : Received(n, I, got, kept)
  BY <1>p, Zenon
<1>4. /\ kept \in Seq(Mbufs) /\ ToSet(got) \subseteq ToSet(rx_ring)
      /\ got \in Seq(Mbufs) /\ Len(got) = n
      /\ Len(rx_ring') + Len(pool') + Len(kept) = Len(rx_ring) + Len(pool)
      /\ ToSet(rx_ring') \cup ToSet(pool') \cup ToSet(kept) = ToSet(rx_ring) \cup ToSet(pool)
      /\ Len(rx_ring') <= kRingDescN
      /\ IF n = 0 THEN kept = << >> /\ UNCHANGED <<rx_mbufs, rx_burst_ptr>>
                  ELSE rx_mbufs' = kept /\ rx_burst_ptr' = 0
      /\ pc' = IF kept = << >> THEN "recv" ELSE "alloc"
      /\ rcvd' = rcvd + n
      /\ mem' = [m \in Mbufs |-> IF \E k \in 1 .. n : got[k] = m
                   THEN Request(rcvd + CHOOSE k \in 1 .. n : got[k] = m) ELSE mem[m]]
  BY <1>3 DEF Received
<1>5. pc = "recv" /\ UNCHANGED <<tx_ring, tx_done, txburst, failed, wire>> BY DEF MRecv
<1>6. HeldRx = << >> /\ HeldTx = << >> /\ RepliedTx = << >>
  BY <1>1, <1>5 DEF HeldParts
<1>7. pc' \in {"recv", "alloc"} /\ (pc' = "alloc" => rx_mbufs' = kept /\ rx_burst_ptr' = 0)
      /\ (pc' = "recv" => kept = << >>)
  BY <1>4
<1>8. Bursts' BY <1>1, <1>5, <1>7 DEF Bursts, Busy
<1>9. HeldParts' BY <1>8, Held, PTL
<1>10. HeldRx' = kept /\ HeldTx' = << >> /\ RepliedTx' = << >>
  BY <1>7, <1>9 DEF HeldParts
<1>11. tx_ring \in Seq(Mbufs) /\ wire \in Seq(Contents) /\ mem \in [Mbufs -> Contents]
       /\ mem' \in [Mbufs -> Contents]
  BY <1>1, Types DEF TypeInv, TypeOK
<1>12. \A m \in ToSet(tx_ring) : m \in Mbufs /\ mem'[m] = mem[m]
  <2> SUFFICES ASSUME NEW m \in ToSet(tx_ring) PROVE m \in Mbufs /\ mem'[m] = mem[m]
    OBVIOUS
  <2>1. m \in Mbufs
    <3>1. \A k \in DOMAIN tx_ring : tx_ring[k] \in Mbufs
      BY <1>11, LenProperties, ElementOfSeq
    <3> QED BY <3>1 DEF ToSet
  <2>2. m \notin ToSet(got) BY <1>1, <1>4 DEF Apart
  <2>3. DOMAIN got = 1 .. n BY <1>4, LenProperties
  <2>4. ~ \E k \in 1 .. n : got[k] = m BY <2>2, <2>3 DEF ToSet
  <2> QED BY <1>4, <2>1, <2>4, Zenon
<1>13. Spread'
  <2>1. Len(pool) \in Nat /\ Len(rx_ring) \in Nat /\ Len(tx_ring) \in Nat
        /\ Len(tx_done) \in Nat
    BY <1>1, Types
  <2>2. Len(pool') \in Nat /\ Len(rx_ring') \in Nat
    BY LenProperties DEF TypeInv, TypeOK
  <2>3. Len(kept) \in Nat BY <1>4, LenProperties
  <2>4. \A p, r, t, d, q, e, k \in Nat :
          e + q + k = r + p => q + e + t + d + k + 0 = p + r + t + d + 0 + 0
    OBVIOUS
  <2>5. Len(rx_ring') + Len(pool') + Len(kept) = Len(rx_ring) + Len(pool) BY <1>4
  <2>6. Len(HeldRx) = 0 /\ Len(HeldTx) = 0 /\ Len(HeldTx') = 0
        /\ ToSet(HeldRx) = {} /\ ToSet(HeldTx) = {} /\ ToSet(HeldTx') = {}
    BY <1>6, <1>10 DEF ToSet
  <2>7. Len(pool) + Len(rx_ring) + Len(tx_ring) + Len(tx_done) + 0 + 0 = PoolSize
    BY <1>1, <2>6 DEF Spread
  <2>8. Len(pool') + Len(rx_ring') + Len(tx_ring) + Len(tx_done) + Len(kept) + 0 = PoolSize
    BY <2>1, <2>2, <2>3, <2>4, <2>5, <2>7
  <2>9. ToSet(pool') \cup ToSet(rx_ring') \cup ToSet(tx_ring) \cup ToSet(tx_done)
          \cup ToSet(kept) = Mbufs
    BY <1>1, <1>4, <2>6 DEF Spread
  <2> QED BY <1>5, <1>10, <2>6, <2>8, <2>9 DEF Spread
<1>14. RingsFit' BY <1>1, <1>4, <1>5 DEF RingsFit
<1>15. Answered' BY <1>7 DEF Answered
<1>16. AnswersRight'
  <2>1. \A k \in DOMAIN tx_ring : Right(mem'[tx_ring[k]])
    BY <1>1, <1>12 DEF AnswersRight, ToSet
  <2>2. \A k \in DOMAIN RepliedTx' : Right(mem'[RepliedTx'[k]])
    <3>1. DOMAIN RepliedTx' = {} BY <1>10
    <3> QED BY <3>1
  <2> QED BY <1>1, <1>5, <2>1, <2>2 DEF AnswersRight
<1>17. LineRises'
  <2> DEFINE t == Tos(mem, tx_ring)
             v == Packets(mem', kept)
             B == Sent \o t
  <2>1. Sent \in Seq(Nat) BY <1>11, SentIn DEF Sent
  <2>2. t \in Seq(Nat) BY <1>11, FieldsOf
  <2>3. Tos(mem', tx_ring) = t
    <3>1. \A N \in [Mbufs -> Contents] : (\A m \in ToSet(tx_ring) : N[m] = mem[m]) =>
            Tos(N, tx_ring) = Tos(mem, tx_ring) /\ Packets(N, tx_ring) = Packets(mem, tx_ring)
      BY <1>11, FieldsOf
    <3> QED BY <1>11, <1>12, <3>1
  <2>4. \A M : Tos(M, << >>) = << >> /\ Packets(M, << >>) = << >>
    BY DEF Tos, Packets
  <2>5. Line = (B \o << >>) \o << >> BY <1>6, <2>4, Zenon DEF Line
  <2>6. Line' = (B \o << >>) \o v BY <1>5, <1>10, <2>3, <2>4, Zenon DEF Line, Sent
  <2>7. /\ v \in Seq(Nat)
        /\ \A k \in 1 .. Len(v) : v[k] > rcvd /\ v[k] <= rcvd'
        /\ \A j, k \in 1 .. Len(v) : j < k => v[j] < v[k]
    BY <1>1, <1>3, <1>11, ReceivedPackets, Zenon DEF Apart
  <2> HIDE DEF v
  <2>8. B \in Seq(Nat)
    <3> HIDE DEF t
    <3> QED BY <2>1, <2>2, ConcatProperties
  <2> HIDE DEF t, B
  <2>9. B \o << >> = B BY <2>8, ConcatEmptySeq
  <2>10. Rising(B, rcvd) BY <1>1, <2>5, <2>9 DEF LineRises
  <2>11. rcvd \in Nat /\ rcvd' \in Nat /\ rcvd <= rcvd'
    <3>1. n \in Nat /\ rcvd \in Nat BY <1>1, Types
    <3> QED BY <1>4, <3>1
  <2> DEFINE l == rcvd'
  <2>12. /\ l \in Nat /\ rcvd <= l /\ \A k \in 1 .. Len(v) : v[k] > rcvd /\ v[k] <= l
         /\ \A j, k \in 1 .. Len(v) : j < k => v[j] < v[k]
    BY <2>7, <2>11
  <2> HIDE DEF l
  <2>13. Rising(B \o v, l) BY <2>7, <2>8, <2>10, <2>11, <2>12, RisingMore
  <2> QED BY <2>6, <2>9, <2>13 DEF LineRises, l
<1> QED BY <1>8, <1>13, <1>14, <1>15, <1>16, <1>17, FlowFrom, PTL

LEMMA FlowStep == ASSUME FlowInv, [Next]_vars, ~failed' PROVE FlowInv'
<1>1. TypeInv' BY TypeStep DEF FlowInv
<1>2. CASE MRecv BY <1>1, <1>2, ReceiveFlows
<1>3. CASE MAlloc BY <1>1, <1>3, AllocFlows
<1>4. CASE MNext BY <1>1, <1>4, NextFlows
<1>5. CASE MPost BY <1>1, <1>5, PostFlows
<1>6. CASE MWake BY <1>1, <1>6, WakeFlows
<1>7. CASE MReply BY <1>1, <1>7, ReplyFlows
<1>8. CASE MSend BY <1>1, <1>8, SendFlows
<1>9. CASE Work BY <1>1, <1>9, WorkFlows
<1>10. CASE NicSend BY <1>1, <1>10, NicFlows
<1>11. ASSUME NEW p \in Threads, SpuriousWake(p) PROVE FlowInv'
  BY <1>1, <1>11, StillFlows DEF SpuriousWake
<1>12. CASE UNCHANGED vars BY <1>1, <1>12, StillFlows DEF vars
<1> QED BY <1>2, <1>3, <1>4, <1>5, <1>6, <1>7, <1>8, <1>9, <1>10, <1>11, <1>12, Zenon
        DEF Next, Main

LEMMA InitFlows == ASSUME Init PROVE FlowInv
<1>1. TypeInv BY InitTypes
<1>2. /\ kRingDescN \in Nat /\ PoolSize \in Nat /\ PoolSize - kRingDescN \in Nat
  BY ServerAssumption
<1>3. /\ pc = "recv" /\ ~failed /\ tx_ring = << >> /\ tx_done = << >> /\ wire = << >>
      /\ tx_mbufs = << >> /\ rsp_pckt_size = 0 /\ rcvd = 0
      /\ rx_ring = [k \in 1 .. kRingDescN |-> k]
      /\ pool = [k \in 1 .. PoolSize - kRingDescN |-> kRingDescN + k]
  BY DEF Init
<1>4. Bursts BY <1>3 DEF Bursts, Busy
<1>5. HeldParts BY <1>1, <1>4, Held
<1>6. HeldRx = << >> /\ HeldTx = << >> /\ RepliedTx = << >> BY <1>3, <1>5 DEF HeldParts
<1>7. Len(rx_ring) = kRingDescN /\ Len(pool) = PoolSize - kRingDescN
      /\ Len(tx_ring) = 0 /\ Len(tx_done) = 0
  BY <1>2, <1>3
<1>8. RingsFit BY <1>2, <1>7 DEF RingsFit
<1>9. Spread
  <2>1. ToSet(rx_ring) = 1 .. kRingDescN BY <1>3 DEF ToSet
  <2>2. ToSet(pool) = {kRingDescN + k : k \in 1 .. PoolSize - kRingDescN}
    BY <1>3 DEF ToSet
  <2>3. (1 .. kRingDescN) \cup {kRingDescN + k : k \in 1 .. PoolSize - kRingDescN}
          = 1 .. PoolSize
    <3>1. ASSUME NEW m \in 1 .. PoolSize, m \notin 1 .. kRingDescN
          PROVE  \E k \in 1 .. PoolSize - kRingDescN : m = kRingDescN + k
      <4>1. m - kRingDescN \in 1 .. PoolSize - kRingDescN
            /\ m = kRingDescN + (m - kRingDescN)
        BY <1>2, <3>1
      <4> QED BY <4>1
    <3>2. \A k \in 1 .. PoolSize - kRingDescN : kRingDescN + k \in 1 .. PoolSize
      BY <1>2
    <3>3. \A m \in 1 .. kRingDescN : m \in 1 .. PoolSize BY <1>2
    <3> QED BY <3>1, <3>2, <3>3
  <2>4. /\ Len(HeldRx) = 0 /\ Len(HeldTx) = 0 /\ ToSet(tx_ring) = {} /\ ToSet(tx_done) = {}
        /\ ToSet(HeldRx) = {} /\ ToSet(HeldTx) = {}
    BY <1>3, <1>6 DEF ToSet
  <2>5. (PoolSize - kRingDescN) + kRingDescN + 0 + 0 + 0 + 0 = PoolSize BY <1>2
  <2> QED BY <1>7, <2>1, <2>2, <2>3, <2>4, <2>5 DEF Spread, Mbufs
<1>10. Answered BY <1>3 DEF Answered
<1>11. DOMAIN << >> = {} OBVIOUS
<1>12. AnswersRight BY <1>3, <1>6, <1>11 DEF AnswersRight
<1>13. LineRises
  <2>1. /\ Sent = << >> /\ Tos(mem, tx_ring) = << >> /\ Tos(mem, RepliedTx) = << >>
        /\ Packets(mem, HeldRx) = << >>
    BY <1>3, <1>6 DEF Sent, SentBy, Tos, Packets
  <2>2. << >> \in Seq(Nat) /\ << >> \o << >> = << >> BY EmptySeq, ConcatEmptySeq
  <2>3. Line = << >> BY <2>1, <2>2 DEF Line
  <2> QED BY <1>11, <2>3 DEF LineRises, Rising
<1> QED BY <1>1, <1>4, <1>8, <1>9, <1>10, <1>12, <1>13, FlowFrom

\* As long as the pool gives a burst of response buffers whenever it is asked.
LEMMA Flow == Spec /\ []AllocSucceeds => []FlowInv
<1>1. Init => FlowInv BY InitFlows
<1>2. FlowInv /\ [Next]_vars /\ AllocSucceeds' => FlowInv' BY FlowStep DEF AllocSucceeds
<1> QED BY <1>1, <1>2, PTL DEF Spec

\* What rises in the line rises on the wire.
SentRises ==
  /\ wire \in Seq(Contents) /\ rcvd \in 0 .. MaxPkts
  /\ Len(Sent) = Len(wire) /\ DOMAIN Sent = 1 .. Len(wire)
  /\ \A k \in 1 .. Len(wire) : Sent[k] = wire[k].to /\ Right(wire[k])
  /\ Rising(Sent, rcvd)

LEMMA FlowSent == FlowInv => SentRises
<1> SUFFICES ASSUME FlowInv PROVE SentRises OBVIOUS
<1>1. /\ TypeInv /\ LineRises /\ AnswersRight /\ HeldParts BY FlowFacts DEF FlowInv
<1>2. /\ wire \in Seq(Contents) /\ rcvd \in 0 .. MaxPkts /\ tx_ring \in Seq(Mbufs) /\ rcvd \in Nat
      /\ mem \in [Mbufs -> Contents] /\ RepliedTx \in Seq(Mbufs) /\ HeldRx \in Seq(Mbufs)
  BY <1>1, Types DEF TypeInv, TypeOK, HeldParts
<1> DEFINE t == Tos(mem, tx_ring)
           r == Tos(mem, RepliedTx)
           q == Packets(mem, HeldRx)
<1>3. /\ Sent \in Seq(Nat) /\ Len(Sent) = Len(wire) /\ Len(wire) \in Nat
      /\ DOMAIN wire = 1 .. Len(wire)
      /\ \A k \in 1 .. Len(wire) : Sent[k] = wire[k].to
  BY <1>2, SentIn DEF Sent
<1>4. t \in Seq(Nat) BY <1>2, FieldsOf
<1>5. r \in Seq(Nat) BY <1>2, FieldsOf
<1>6. q \in Seq(Nat) BY <1>2, FieldsOf
<1>7. Rising(((Sent \o t) \o r) \o q, rcvd) BY <1>1, Zenon DEF LineRises, Line
<1> HIDE DEF t, r, q
<1> DEFINE a == Sent \o t
           b == a \o r
<1>8. a \in Seq(Nat) BY <1>3, <1>4, ConcatProperties
<1>9. b \in Seq(Nat)
  <2> HIDE DEF a
  <2> QED BY <1>5, <1>8, ConcatProperties
<1>10. Rising(b \o q, rcvd) BY <1>7
<1>11. Rising(b, rcvd)
  <2> HIDE DEF b
  <2> QED BY <1>2, <1>6, <1>9, <1>10, RisingPrefix
<1>12. Rising(a, rcvd)
  <2>1. Rising(a \o r, rcvd) BY <1>11
  <2> HIDE DEF a
  <2> QED BY <1>2, <1>5, <1>8, <2>1, RisingPrefix
<1>13. Rising(Sent, rcvd)
  <2>1. Rising(Sent \o t, rcvd) BY <1>12
  <2> QED BY <1>2, <1>3, <1>4, <2>1, RisingPrefix
<1>14. DOMAIN Sent = 1 .. Len(wire) BY <1>3, LenProperties
<1>15. \A k \in 1 .. Len(wire) : Right(wire[k]) BY <1>1, <1>3 DEF AnswersRight
<1> QED BY <1>2, <1>3, <1>13, <1>14, <1>15 DEF SentRises

LEMMA NextSent == FlowInv' => SentRises'
BY FlowSent, PTL

LEMMA FlowWire == FlowInv => WireCorrect
<1> SUFFICES ASSUME FlowInv PROVE WireCorrect OBVIOUS
<1>1. /\ wire \in Seq(Contents) /\ rcvd \in 0 .. MaxPkts
      /\ Len(Sent) = Len(wire) /\ DOMAIN Sent = 1 .. Len(wire)
      /\ \A k \in 1 .. Len(wire) : Sent[k] = wire[k].to /\ Right(wire[k])
      /\ Rising(Sent, rcvd)
  BY FlowSent DEF SentRises
<1>2. Len(wire) \in Nat /\ DOMAIN wire = 1 .. Len(wire) BY <1>1, LenProperties
<1>3. \A k \in DOMAIN wire : wire[k].size # 0 => wire[k] = Response(wire[k].to)
  BY <1>1, <1>2 DEF Right
<1>4. ASSUME NEW k \in 1 .. Len(wire)
      PROVE  wire[k].to > IF k = 1 THEN 0 ELSE wire[k - 1].to
  <2>1. Sent[k] \in 1 .. rcvd /\ Sent[k] = wire[k].to BY <1>1 DEF Rising
  <2>2. CASE k = 1 BY <2>1, <2>2
  <2>3. CASE k # 1
    <3>1. k - 1 \in 1 .. Len(wire) /\ k - 1 < k BY <1>2, <2>3
    <3>2. Sent[k - 1] < Sent[k] BY <1>1, <3>1 DEF Rising
    <3>3. Sent[k - 1] = wire[k - 1].to /\ Sent[k - 1] \in 1 .. rcvd
      BY <1>1, <3>1 DEF Rising
    <3> QED BY <2>1, <2>3, <3>2, <3>3
  <2> QED BY <2>2, <2>3
<1> QED BY <1>3, <1>4 DEF WireCorrect

\* What is not in the tx ring is in the pool, in the rx ring, which has room for as
\* many as the pool has beside the tx ring's share, or in the burst.
LEMMA FlowShort == FlowInv => ShortOnlyIfTxHolds
<1> SUFFICES ASSUME FlowInv, pc = "alloc", Len(pool) < Len(rx_mbufs)
             PROVE  kRingDescN - (Len(tx_ring) + Len(tx_done)) < 2 * Len(rx_mbufs)
  BY DEF ShortOnlyIfTxHolds
<1>1. /\ TypeInv /\ RingsFit /\ Spread /\ HeldParts BY FlowFacts DEF FlowInv
<1>2. HeldRx = rx_mbufs /\ HeldTx = << >> BY <1>1 DEF HeldParts
<1>3. /\ Len(pool) \in Nat /\ Len(rx_ring) \in Nat /\ Len(tx_ring) \in Nat
      /\ Len(tx_done) \in Nat /\ Len(rx_mbufs) \in Nat
      /\ PoolSize \in Nat /\ kRingDescN \in Nat
  BY <1>1, Types
<1>4. Len(pool) + Len(rx_ring) + Len(tx_ring) + Len(tx_done) + Len(rx_mbufs) + 0 = PoolSize
  BY <1>1, <1>2 DEF Spread
<1>5. Len(rx_ring) <= kRingDescN BY <1>1 DEF RingsFit
<1>6. PoolSize >= 2 * kRingDescN BY ServerAssumption
<1> QED BY <1>3, <1>4, <1>5, <1>6

\* So a burst finds its buffers if the tx ring has room for two bursts.
LEMMA ReclaimedStep == ASSUME FlowInv, TxReclaimed, [Next]_vars PROVE ~failed'
<1>1. TypeInv /\ ~failed BY DEF FlowInv, Bursts
<1>2. CASE MAlloc
  <2>1. failed' = (Len(pool) < Len(rx_mbufs)) /\ pc = "alloc" BY <1>2, Zenon DEF MAlloc
  <2>2. /\ Len(tx_ring) \in Nat /\ Len(tx_done) \in Nat /\ Len(rx_mbufs) \in Nat
        /\ kRingDescN \in Nat /\ kMaxBurstSize \in Nat
    BY <1>1, Types
  <2>3. Len(rx_mbufs) <= kMaxBurstSize BY <1>1 DEF TypeInv, TypeOK
  <2>4. ~(kRingDescN - (Len(tx_ring) + Len(tx_done)) < 2 * Len(rx_mbufs))
    BY <2>2, <2>3 DEF TxReclaimed
  <2>5. ~(Len(pool) < Len(rx_mbufs)) BY <2>1, <2>4, FlowShort DEF ShortOnlyIfTxHolds
  <2> QED BY <2>1, <2>5
<1>3. CASE ~MAlloc
  <2>1. UNCHANGED failed
    BY <1>3, Zenon DEF Next, Main, MRecv, MNext, MPost, MWake, MReply, MSend, Work,
                       SpuriousWake, NicSend, vars
  <2> QED BY <1>1, <2>1
<1> QED BY <1>2, <1>3

LEMMA ReclaimedFlow == Spec /\ []TxReclaimed => []FlowInv
<1>1. Init => FlowInv BY InitFlows
<1>2. FlowInv /\ TxReclaimed /\ [Next]_vars => FlowInv'
  BY ReclaimedStep, FlowStep
<1> QED BY <1>1, <1>2, PTL DEF Spec

-----------------------------------------------------------------------------
(* The server as a request-response server. *)

\* An mbuf that the NIC sends is the answer to a packet received after those
\* that were answered before.
LEMMA NicAnswers == ASSUME FlowInv, FlowInv', NicSend PROVE Promise!Answer
<1> DEFINE c == mem[Head(tx_ring)]
           n == Len(wire)
<1>1. /\ wire' = Append(wire, c) /\ rcvd' = rcvd BY DEF NicSend
<1>2. /\ wire \in Seq(Contents) /\ rcvd \in 0 .. MaxPkts
      /\ \A k \in 1 .. Len(wire) : Sent[k] = wire[k].to
  BY FlowSent DEF SentRises
<1>3. /\ wire' \in Seq(Contents) /\ DOMAIN Sent' = 1 .. Len(wire')
      /\ \A k \in 1 .. Len(wire') : Sent'[k] = wire'[k].to /\ Right(wire'[k])
      /\ Rising(Sent', rcvd')
  BY NextSent DEF SentRises
<1>4. n \in Nat /\ Len(wire') = n + 1 /\ wire'[n + 1] = c
      /\ \A k \in 1 .. n : wire'[k] = wire[k]
  <2>1. n \in Nat BY <1>2, LenProperties
  <2>2. DOMAIN wire' = 1 .. Len(wire') /\ Len(wire') \in Nat BY <1>3, LenProperties
  <2> QED BY <1>1, <1>2, <1>3, <2>1, <2>2
<1>5. c \in Contents
  <2>1. n + 1 \in 1 .. Len(wire') BY <1>4
  <2>2. wire'[n + 1] \in Contents BY <1>3, <2>1, ElementOfSeq
  <2> QED BY <1>4, <2>2
<1>6. Right(c) /\ c.to \in 1 .. rcvd /\ Sent'[n + 1] = c.to
  <2>1. n + 1 \in 1 .. Len(wire') BY <1>4
  <2>2. Sent'[n + 1] = c.to /\ Sent'[n + 1] \in 1 .. rcvd' /\ Right(wire'[n + 1])
    BY <1>3, <1>4, <2>1 DEF Rising
  <2>3. rcvd' = rcvd BY <1>1
  <2> QED BY <1>4, <2>2, <2>3
<1>7. Promise!LastAnswered < c.to /\ Promise!LastAnswered \in Nat
  <2>1. CASE wire = << >>
    <3>1. Promise!LastAnswered = 0 BY <2>1 DEF Promise!LastAnswered
    <3>2. rcvd \in Nat BY <1>2, ServerAssumption
    <3> QED BY <1>6, <3>1, <3>2
  <2>2. CASE wire # << >>
    <3>1. n # 0 BY <1>2, <2>2, EmptySeq
    <3>2. n \in 1 .. Len(wire') /\ n + 1 \in 1 .. Len(wire') /\ n < n + 1
          /\ n \in 1 .. Len(wire)
      BY <1>4, <3>1
    <3>3. Sent'[n] < Sent'[n + 1] BY <1>3, <3>2 DEF Rising
    <3>4. Sent'[n] = wire'[n].to /\ wire'[n] = wire[n] BY <1>3, <1>4, <3>2
    <3>5. Promise!LastAnswered = wire[n].to BY <2>2 DEF Promise!LastAnswered
    <3>6. Sent'[n] \in 1 .. rcvd' /\ rcvd' \in Nat
      BY <1>1, <1>2, <1>3, <3>2, ServerAssumption DEF Rising
    <3> QED BY <1>6, <3>3, <3>4, <3>5, <3>6
  <2> QED BY <2>1, <2>2
<1>8. c.to \in Promise!LastAnswered + 1 .. rcvd
  <2>1. rcvd \in Nat BY <1>2, ServerAssumption
  <2> HIDE DEF c
  <2> QED BY <1>6, <1>7, <2>1
<1>9. c \in Promise!Empty(c.to) \cup {Promise!Response(c.to)}
  <2>1. CASE c.size = 0
    <3>1. c.kind \in {"junk", "request", "response"} /\ c.pkt \in 0 .. MaxPkts
          /\ c.size \in {0} /\ c.to \in {c.to}
          /\ c = [kind |-> c.kind, pkt |-> c.pkt, size |-> c.size, to |-> c.to]
      BY <1>5, <2>1 DEF Contents
    <3> QED BY <3>1 DEF Promise!Empty
  <2>2. CASE c.size # 0
    <3>1. c = Response(c.to) BY <1>6, <2>2 DEF Right
    <3> QED BY <3>1 DEF Response, Promise!Response
  <2> QED BY <2>1, <2>2
<1> QED BY <1>1, <1>8, <1>9 DEF Promise!Answer

LEMMA ServerPromise ==
  ASSUME FlowInv, FlowInv', [Next]_vars
  PROVE  Promise!Next \/ (rcvd' = rcvd /\ wire' = wire)
<1>1. CASE NicSend BY <1>1, NicAnswers DEF Promise!Next
<1>2. CASE MRecv
  <2>1. wire' = wire BY <1>2 DEF MRecv
  <2>2. PICK n \in 0 .. kMaxBurstSize : rcvd' = rcvd + n BY <1>2 DEF MRecv, Receive
  <2>3. rcvd \in Nat /\ rcvd' \in 0 .. MaxPkts /\ MaxPkts \in Nat /\ kMaxBurstSize \in Nat
    BY FlowSent, NextSent, ServerAssumption DEF SentRises
  <2>4. rcvd' = rcvd \/ rcvd' \in rcvd + 1 .. MaxPkts BY <2>2, <2>3
  <2> QED BY <2>1, <2>4 DEF Promise!Next, Promise!Receive
<1>3. CASE ~NicSend /\ ~MRecv
  <2>1. UNCHANGED <<rcvd, wire>>
    BY <1>3, Zenon DEF Next, Main, MAlloc, MNext, MPost, MWake, MReply, MSend, Work,
                       SpuriousWake, vars
  <2> QED BY <2>1
<1> QED BY <1>1, <1>2, <1>3

LEMMA InitPromises == Init => Promise!Init
BY DEF Init, Promise!Init

LEMMA StepPromises == FlowInv /\ FlowInv' /\ [Next]_vars => [Promise!Next]_(Promise!vars)
BY ServerPromise DEF Promise!vars

-----------------------------------------------------------------------------
(* The theorems. *)

\* The behaviours that are model-checked are those of these theorems.
LEMMA AllocatingRuns == AllocatingSpec => Spec /\ []AllocSucceeds
<1>1. Init => AllocSucceeds BY DEF Init, AllocSucceeds
<1>2. AllocSucceeds /\ [Next /\ AllocSucceeds']_vars => AllocSucceeds'
  BY DEF AllocSucceeds, vars
<1>3. [Next /\ AllocSucceeds']_vars => [Next]_vars OBVIOUS
<1> QED BY <1>1, <1>2, <1>3, PTL DEF AllocatingSpec, Spec

\* As long as no allocation has failed, the pool is short of a burst of response
\* buffers only while the tx ring holds so many mbufs that two bursts do not fit
\* beside them, whatever the size of the rings, the bursts and the pool.
THEOREM ShortagesExplained == Spec /\ []AllocSucceeds => []ShortOnlyIfTxHolds
BY Flow, FlowShort, PTL

\* So AllocateDPDKTxBuffers never fails with a NIC and a driver that give the sent
\* mbufs back early enough.
THEOREM AllocationsSucceed == Spec /\ []TxReclaimed => []AllocSucceeds
<1>1. FlowInv => AllocSucceeds BY DEF FlowInv, Bursts, AllocSucceeds
<1> QED BY <1>1, ReclaimedFlow, PTL

\* No mbuf is leaked, freed twice or used in two places, as long as the pool gives
\* the bursts it is asked for: whatever the NIC takes, frees or fills, and whatever
\* it refuses.
THEOREM MbufsStayAccounted == Spec /\ []AllocSucceeds => []MbufsAccounted
<1>1. FlowInv => MbufsAccounted BY DEF FlowInv
<1> QED BY <1>1, Flow, PTL

\* Under the same condition what the server sends are the answers to the packets it
\* received, each once and in their order, with the sizes of their responses.
THEOREM WireStaysCorrect == Spec /\ []AllocSucceeds => []WireCorrect
BY Flow, FlowWire, PTL

\* And it never aborts.
THEOREM AssertionsHold == Spec /\ []AllocSucceeds => []AssertsHold
<1>1. FlowInv => AssertsHold BY DEF FlowInv, Bursts, AssertsHold
<1> QED BY <1>1, Flow, PTL

\* What the clients see is a request-response server: an answer only to a packet
\* that was received, each once, in their order, with the right size, and no
\* answer is taken back, as long as the pool gives the bursts it is asked for.
THEOREM ServerKeepsPromise == Spec /\ []AllocSucceeds => PromiseSpec
BY InitPromises, StepPromises, Flow, PTL DEF Spec, PromiseSpec, Promise!Spec

=============================================================================
