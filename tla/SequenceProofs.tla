--------------------------- MODULE SequenceProofs ---------------------------
(***************************************************************************)
(* Lemmas about sequences that the proofs share: induction, flattened      *)
(* sequences and selections, sequences that list a set, and lists as an    *)
(* API returns them.                                                       *)
(***************************************************************************)
EXTENDS SequencesExt, FiniteSetTheorems, SequenceTheorems, WellFoundedInduction, TLAPS

-----------------------------------------------------------------------------
(* Induction over the natural numbers, from the order on them.             *)

\* A nonempty set of natural numbers has a least element.
LEMMA LeastNat ==
  ASSUME NEW T \in SUBSET Nat, T # {}
  PROVE  \E n \in T : \A m \in T : n <= m
<1> DEFINE R == {p \in Nat \X Nat : p[1] < p[2]}
<1>1. OpToRel(<, Nat) = R
  BY Zenon DEF OpToRel
<1>2. IsWellFoundedOn(R, Nat)
  BY <1>1, NatLessThanWellFounded, Zenon
<1>3. PICK n \in T : \A m \in T : <<m, n>> \notin R
  <2> HIDE DEF R
  <2> QED
    BY <1>2, WFMin
<1>4. ASSUME NEW m \in T PROVE n <= m
  <2>1. n \in Nat /\ m \in Nat
    OBVIOUS
  <2>2. ~(m < n)
    BY <1>3, <2>1
  <2> QED
    BY <2>1, <2>2
<1> QED
  BY <1>4

\* A set with 0 that is closed under successor holds every natural number.
LEMMA Induction ==
  ASSUME NEW S, 0 \in S, \A n \in Nat : n \in S => n + 1 \in S
  PROVE  Nat \subseteq S
<1> SUFFICES ASSUME Nat \ S # {} PROVE FALSE
  OBVIOUS
<1>1. PICK n \in Nat \ S : \A m \in Nat \ S : n <= m
  BY LeastNat
<1>2. n # 0 /\ n - 1 \in Nat /\ n - 1 \in S
  BY <1>1
<1>3. n - 1 + 1 \in S
  BY <1>2
<1> QED
  BY <1>1, <1>2, <1>3

-----------------------------------------------------------------------------
(* Flattened sequences: FlattenSeq is a recursive function, whose values    *)
(* up to n exist by induction.                                              *)

\* f holds the concatenations of the first sequences of ss.
Joins(ss, n, f) == f = [i \in 1..n |-> IF i = 1 THEN ss[i] ELSE f[i - 1] \o ss[i]]

\* The concatenations exist for every length.
LEMMA JoinsExist ==
  ASSUME NEW ss, NEW n \in Nat
  PROVE  \E f : Joins(ss, n, f)
<1> DEFINE N == {m \in Nat : \E f : Joins(ss, m, f)}
<1>1. 0 \in N
  <2>1. Joins(ss, 0, [i \in 1..0 |-> 0])
    BY DEF Joins
  <2> QED
    BY <2>1
<1>2. ASSUME NEW m \in Nat, m \in N PROVE m + 1 \in N
  <2>1. PICK f : Joins(ss, m, f)
    BY <1>2
  <2> DEFINE g == [i \in 1..(m+1) |-> IF i = 1 THEN ss[i] ELSE f[i - 1] \o ss[i]]
  <2>2. ASSUME NEW i \in 1..m PROVE g[i] = f[i]
    <3>1. i \in 1..(m+1)
      OBVIOUS
    <3>2. f[i] = IF i = 1 THEN ss[i] ELSE f[i - 1] \o ss[i]
      BY <2>1, Zenon DEF Joins
    <3> QED
      BY <3>1, <3>2, Zenon
  <2>3. ASSUME NEW i \in 1..(m+1)
        PROVE  g[i] = IF i = 1 THEN ss[i] ELSE g[i - 1] \o ss[i]
    <3>1. i # 1 => i - 1 \in 1..m
      OBVIOUS
    <3> QED
      BY <2>2, <3>1
  <2>4. Joins(ss, m + 1, g)
    <3>1. g = [i \in 1..(m+1) |-> g[i]]
      OBVIOUS
    <3> QED
      BY <2>3, <3>1, Zenon DEF Joins
  <2> QED
    BY <2>4
<1> QED
  <2> HIDE DEF N
  <2>1. n \in N
    BY <1>1, <1>2, Induction
  <2> QED
    BY <2>1 DEF N

\* A flattened sequence is the last of the concatenations.
LEMMA FlattenJoins ==
  ASSUME NEW ss, Len(ss) \in Nat \ {0}
  PROVE  \E f : Joins(ss, Len(ss), f) /\ FlattenSeq(ss) = f[Len(ss)]
<1>1. \E f : Joins(ss, Len(ss), f)
  BY JoinsExist
<1>2. FlattenSeq(ss) = (CHOOSE f : Joins(ss, Len(ss), f))[Len(ss)]
  BY DEF FlattenSeq, Joins
<1> QED
  BY <1>1, <1>2

\* The first n elements are the same.
Agree(s, t, n) == \A i \in 1..n : s[i] = t[i]

\* Concatenations of sequences that agree up to m agree up to m.
LEMMA JoinsAgree ==
  ASSUME NEW ss, NEW tt, NEW m \in Nat, NEW n \in Nat, m <= n, Agree(ss, tt, m),
         NEW f, NEW g, Joins(ss, m, f), Joins(tt, n, g)
  PROVE  Agree(f, g, m)
<1> DEFINE N == {k \in Nat : k + 1 <= m => f[k + 1] = g[k + 1]}
<1>1. 0 \in N
  <2>1. ASSUME 1 <= m PROVE f[1] = g[1]
    <3>1. 1 \in 1..m /\ 1 \in 1..n
      BY <2>1
    <3>2. f[1] = ss[1] /\ g[1] = tt[1]
      BY <3>1, Zenon DEF Joins
    <3> QED
      BY <3>1, <3>2 DEF Agree
  <2> QED
    BY <2>1
<1>2. ASSUME NEW k \in Nat, k \in N PROVE k + 1 \in N
  <2>1. ASSUME k + 2 <= m PROVE f[k + 2] = g[k + 2]
    <3>1. k + 2 \in 1..m /\ k + 2 \in 1..n /\ k + 2 # 1 /\ (k + 2) - 1 = k + 1
      BY <2>1
    <3>2. f[k + 2] = f[k + 1] \o ss[k + 2] /\ g[k + 2] = g[k + 1] \o tt[k + 2]
      BY <3>1 DEF Joins
    <3>3. f[k + 1] = g[k + 1]
      BY <1>2, <2>1
    <3> QED
      BY <3>1, <3>2, <3>3 DEF Agree
  <2> QED
    BY <2>1
<1>3. Nat \subseteq N
  <2> HIDE DEF N
  <2> QED
    BY <1>1, <1>2, Induction
<1> QED
  <2> SUFFICES ASSUME NEW i \in 1..m PROVE f[i] = g[i]
    BY DEF Agree
  <2>1. i - 1 \in Nat /\ (i - 1) + 1 = i /\ i <= m
    OBVIOUS
  <2>2. i - 1 \in N
    BY <1>3, <2>1
  <2> QED
    BY <2>1, <2>2

\* Flattening one sequence more concatenates it.
LEMMA FlattenGrow ==
  ASSUME NEW S, NEW n \in Nat, NEW ss, NEW tt, Len(ss) = n, n = 0 => ss = <<>>,
         Len(tt) = n + 1, Agree(ss, tt, n), tt[n + 1] \in Seq(S)
  PROVE  FlattenSeq(tt) = FlattenSeq(ss) \o tt[n + 1]
<1>1. PICK g : Joins(tt, n + 1, g) /\ FlattenSeq(tt) = g[n + 1]
  <2>1. n + 1 \in Nat \ {0}
    OBVIOUS
  <2> QED
    BY <2>1, FlattenJoins
<1>2. CASE n = 0
  <2>1. g[1] = tt[1]
    BY <1>1, <1>2, 1 \in 1..1 DEF Joins
  <2>2. FlattenSeq(ss) = <<>>
    BY <1>2 DEF FlattenSeq
  <2>3. <<>> \o tt[1] = tt[1]
    BY <1>2
  <2> QED
    BY <1>1, <1>2, <2>1, <2>2, <2>3
<1>3. CASE n # 0
  <2>1. PICK f : Joins(ss, n, f) /\ FlattenSeq(ss) = f[n]
    BY <1>3, FlattenJoins
  <2>2. n + 1 \in 1..(n + 1) /\ n + 1 # 1 /\ (n + 1) - 1 = n /\ n \in 1..n
    BY <1>3
  <2>3. g[n + 1] = g[n] \o tt[n + 1]
    BY <1>1, <2>2 DEF Joins
  <2>4. f[n] = g[n]
    <3>1. n + 1 \in Nat /\ n <= n + 1
      OBVIOUS
    <3>2. Agree(f, g, n)
      BY <1>1, <2>1, <3>1, JoinsAgree
    <3> QED
      BY <2>2, <3>2 DEF Agree
  <2> QED
    BY <1>1, <2>1, <2>3, <2>4
<1> QED
  BY <1>2, <1>3

-----------------------------------------------------------------------------
(* Sequences that list a set, each element once.                           *)

\* s lists the elements of R, each of them once.
Enumerates(s, R) ==
  /\ s \in Seq(R)
  /\ \A x \in R : \E i \in 1..Len(s) : s[i] = x
  /\ \A i, j \in 1..Len(s) : s[i] = s[j] => i = j

\* The empty sequence lists the empty set.
LEMMA EnumEmpty == Enumerates(<<>>, {})
  BY DEF Enumerates

\* One element lists its singleton.
LEMMA EnumOne ==
  ASSUME NEW x
  PROVE  Enumerates(<<x>>, {x})
  BY DEF Enumerates

\* A concatenation lists the union of disjoint sets.
LEMMA EnumConcat ==
  ASSUME NEW R, NEW Q, NEW s, NEW t, Enumerates(s, R), Enumerates(t, Q),
         R \cap Q = {}
  PROVE  Enumerates(s \o t, R \cup Q)
<1>0. s \in Seq(R \cup Q) /\ t \in Seq(R \cup Q)
  BY DEF Enumerates
<1>1. s \o t \in Seq(R \cup Q) /\ Len(s \o t) = Len(s) + Len(t)
  BY <1>0
<1>2. ASSUME NEW x \in R \cup Q PROVE \E i \in 1..Len(s \o t) : (s \o t)[i] = x
  <2>1. CASE x \in R
    <3>1. PICK i \in 1..Len(s) : s[i] = x
      BY <2>1 DEF Enumerates
    <3>2. (s \o t)[i] = x /\ i \in 1..Len(s \o t)
      BY <1>0, <1>1, <3>1
    <3> QED
      BY <3>2
  <2>2. CASE x \in Q
    <3>1. PICK i \in 1..Len(t) : t[i] = x
      BY <2>2 DEF Enumerates
    <3>2. (s \o t)[i + Len(s)] = x /\ i + Len(s) \in 1..Len(s \o t)
      BY <1>0, <1>1, <3>1
    <3> QED
      BY <3>2
  <2> QED
    BY <2>1, <2>2
<1>3. ASSUME NEW i \in 1..Len(s \o t), NEW j \in 1..Len(s \o t),
             (s \o t)[i] = (s \o t)[j]
      PROVE  i = j
  <2>1. \A k \in 1..Len(s \o t) :
          \/ k \in 1..Len(s) /\ (s \o t)[k] = s[k] /\ s[k] \in R
          \/ /\ k - Len(s) \in 1..Len(t) /\ (s \o t)[k] = t[k - Len(s)]
             /\ t[k - Len(s)] \in Q
    BY <1>0, <1>1, SMTT(30) DEF Enumerates
  <2>2. Len(s) \in Nat /\ Len(t) \in Nat /\ i \in Nat /\ j \in Nat
    BY <1>0, <1>1
  <2>3. CASE i \in 1..Len(s) /\ j \in 1..Len(s)
    <3>1. (s \o t)[i] = s[i] /\ (s \o t)[j] = s[j]
      BY <1>0, <2>3
    <3> QED
      BY <1>3, <2>3, <3>1, ZenonT(30) DEF Enumerates
  <2>4. CASE i \notin 1..Len(s) /\ j \notin 1..Len(s)
    <3>1. /\ i - Len(s) \in 1..Len(t) /\ j - Len(s) \in 1..Len(t)
          /\ t[i - Len(s)] = t[j - Len(s)]
      BY <1>3, <2>1, <2>4
    <3>2. i - Len(s) = j - Len(s)
      BY <3>1 DEF Enumerates
    <3> QED
      BY <2>2, <3>2
  <2> QED
    BY <1>3, <2>1, <2>3, <2>4, SMTT(30)
<1> QED
  BY <1>1, <1>2, <1>3 DEF Enumerates

\* A flattened sequence lists the union of pairwise disjoint sets.
LEMMA EnumFlatten ==
  ASSUME NEW ss, NEW n \in Nat, Len(ss) = n, n = 0 => ss = <<>>, NEW R,
         \A i \in 1..n : Enumerates(ss[i], R[i]),
         \A i, j \in 1..n : i # j => R[i] \cap R[j] = {}
  PROVE  Enumerates(FlattenSeq(ss), UNION {R[i] : i \in 1..n})
<1>1. CASE n = 0
  <2>1. FlattenSeq(ss) = <<>>
    BY <1>1 DEF FlattenSeq
  <2>2. UNION {R[i] : i \in 1..n} = {}
    BY <1>1
  <2> QED
    BY <2>1, <2>2, EnumEmpty
<1>2. CASE n # 0
  <2>1. PICK f : Joins(ss, n, f) /\ FlattenSeq(ss) = f[n]
    BY <1>2, FlattenJoins
  <2> DEFINE U(m) == UNION {R[i] : i \in 1..m}
             N == {m \in Nat : m + 1 <= n => Enumerates(f[m + 1], U(m + 1))}
  <2>2. 0 \in N
    <3>1. f[1] = ss[1] /\ 1 \in 1..n
      BY <1>2, <2>1, 1 \in 1..n DEF Joins
    <3>2. U(1) = R[1]
      OBVIOUS
    <3>3. Enumerates(f[1], U(1))
      <4>1. Enumerates(ss[1], R[1])
        BY <3>1
      <4> HIDE DEF U
      <4> QED
        BY <3>1, <3>2, <4>1
    <3> QED
      BY <3>3
  <2>3. ASSUME NEW m \in Nat, m \in N PROVE m + 1 \in N
    <3>1. SUFFICES ASSUME m + 2 <= n PROVE Enumerates(f[m + 2], U(m + 2))
      OBVIOUS
    <3>2. m + 2 \in 1..n /\ m + 2 # 1 /\ (m + 2) - 1 = m + 1
      BY <3>1
    <3>3. f[m + 2] = f[m + 1] \o ss[m + 2]
      BY <2>1, <3>2 DEF Joins
    <3>4. Enumerates(f[m + 1], U(m + 1))
      BY <2>3, <3>1
    <3>5. Enumerates(ss[m + 2], R[m + 2])
      BY <3>2
    <3>6. U(m + 1) \cap R[m + 2] = {}
      BY <3>2
    <3>7. U(m + 2) = U(m + 1) \cup R[m + 2]
      <4>1. 1..(m + 2) = 1..(m + 1) \cup {m + 2}
        OBVIOUS
      <4> QED
        BY <4>1
    <3> HIDE DEF U
    <3> QED
      BY <3>3, <3>4, <3>5, <3>6, <3>7, EnumConcat
  <2>4. n - 1 \in N
    <3>1. n - 1 \in Nat
      BY <1>2
    <3> HIDE DEF N
    <3>2. Nat \subseteq N
      BY <2>2, <2>3, Induction
    <3> QED
      BY <3>1, <3>2, Zenon
  <2> QED
    <3>1. (n - 1) + 1 = n
      OBVIOUS
    <3> QED
      BY <2>1, <2>4, <3>1
<1> QED
  BY <1>1, <1>2

-----------------------------------------------------------------------------
(* Forms that are cited often.                                             *)

\* The length of a function on 1..n.
LEMMA LenOfFcn ==
  ASSUME NEW n \in Nat, NEW s, DOMAIN s = 1..n
  PROVE  Len(s) = n
  OBVIOUS

\* A finite set in some order.
LEMMA SetToSeqEnum ==
  ASSUME NEW S, IsFiniteSet(S)
  PROVE  Enumerates(SetToSeq(S), S)
<1> DEFINE n == Cardinality(S)
           s == SetToSeq(S)
<1>1. n \in Nat /\ ExistsBijection(1..n, S)
  BY FS_CardinalityType
<1>2. \E f \in [1..n -> S] : IsInjective(f)
  BY <1>1 DEF ExistsBijection, Bijection, Injection
<1>3. s \in [1..n -> S] /\ IsInjective(s)
  BY <1>2 DEF SetToSeq
<1>4. s \in Injection(1..n, S)
  BY <1>3 DEF Injection
<1>5. IsFiniteSet(1..n) /\ Cardinality(1..n) = n
  BY <1>1, FS_Interval
<1>6. s \in Surjection(1..n, S)
  BY <1>4, <1>5, FS_Injection
<1> HIDE DEF n, s
<1>7. s \in Seq(S) /\ Len(s) = n
  BY <1>1, <1>3
<1> QED
  BY <1>3, <1>6, <1>7 DEF Enumerates, Surjection, IsInjective, s

\* Flattening sequences over a set gives one over the set.
LEMMA FlattenType ==
  ASSUME NEW S, NEW ss, NEW n \in Nat, Len(ss) = n, n = 0 => ss = <<>>,
         \A i \in 1..n : ss[i] \in Seq(S)
  PROVE  FlattenSeq(ss) \in Seq(S)
<1>1. CASE n = 0
  BY <1>1 DEF FlattenSeq
<1>2. CASE n # 0
  <2>1. PICK f : Joins(ss, n, f) /\ FlattenSeq(ss) = f[n]
    BY <1>2, FlattenJoins
  <2> DEFINE N == {m \in Nat : m + 1 <= n => f[m + 1] \in Seq(S)}
  <2>2. 0 \in N
    <3>1. f[1] = ss[1] /\ 1 \in 1..n
      BY <1>2, <2>1, 1 \in 1..n DEF Joins
    <3> QED
      BY <3>1
  <2>3. ASSUME NEW m \in Nat, m \in N PROVE m + 1 \in N
    <3>1. SUFFICES ASSUME m + 2 <= n PROVE f[m + 2] \in Seq(S)
      OBVIOUS
    <3>2. m + 2 \in 1..n /\ m + 2 # 1 /\ (m + 2) - 1 = m + 1
      BY <3>1
    <3>3. f[m + 2] = f[m + 1] \o ss[m + 2]
      BY <2>1, <3>2 DEF Joins
    <3>4. f[m + 1] \in Seq(S) /\ ss[m + 2] \in Seq(S)
      BY <2>3, <3>1, <3>2
    <3> QED
      BY <3>3, <3>4
  <2>4. n - 1 \in N
    <3>1. n - 1 \in Nat
      BY <1>2
    <3> HIDE DEF N
    <3>2. Nat \subseteq N
      BY <2>2, <2>3, Induction
    <3> QED
      BY <3>1, <3>2, Zenon
  <2> QED
    <3>1. (n - 1) + 1 = n
      OBVIOUS
    <3> QED
      BY <2>1, <2>4, <3>1
<1> QED
  BY <1>1, <1>2

\* Concatenation is associative.
LEMMA ConcatAssoc ==
  ASSUME NEW S
  PROVE  \A a, b, c \in Seq(S) : (a \o b) \o c = a \o (b \o c)
<1> TAKE a, b, c \in Seq(S)
<1> DEFINE l == (a \o b) \o c
           r == a \o (b \o c)
<1>1. Len(a) \in Nat /\ Len(b) \in Nat /\ Len(c) \in Nat
  OBVIOUS
<1>2. a \o b \in Seq(S) /\ Len(a \o b) = Len(a) + Len(b)
  OBVIOUS
<1>3. b \o c \in Seq(S) /\ Len(b \o c) = Len(b) + Len(c)
  OBVIOUS
<1>4. l \in Seq(S) /\ Len(l) = Len(a) + Len(b) + Len(c)
  BY <1>1, <1>2
<1>5. r \in Seq(S) /\ Len(r) = Len(a) + Len(b) + Len(c)
  BY <1>1, <1>3
<1>6. ASSUME NEW i \in 1..Len(l) PROVE l[i] = r[i]
  <2>1. i \in Nat /\ i > 0 /\ i <= Len(a) + Len(b) + Len(c)
    BY <1>1, <1>4
  <2>2. CASE i <= Len(a)
    <3>1. l[i] = (a \o b)[i] /\ (a \o b)[i] = a[i] /\ r[i] = a[i]
      BY <1>1, <1>2, <1>3, <2>1, <2>2
    <3> QED
      BY <3>1
  <2>3. CASE i > Len(a) /\ i <= Len(a) + Len(b)
    <3>1. l[i] = (a \o b)[i] /\ (a \o b)[i] = b[i - Len(a)]
      BY <1>1, <1>2, <2>1, <2>3
    <3>2. r[i] = (b \o c)[i - Len(a)]
      BY <1>1, <1>3, <2>1, <2>3
    <3>3. (b \o c)[i - Len(a)] = b[i - Len(a)]
      BY <1>1, <2>1, <2>3
    <3> QED
      BY <3>1, <3>2, <3>3
  <2>4. CASE i > Len(a) + Len(b)
    <3>1. l[i] = c[i - (Len(a) + Len(b))]
      BY <1>1, <1>2, <2>1, <2>4
    <3>2. r[i] = (b \o c)[i - Len(a)]
      BY <1>1, <1>3, <2>1, <2>4
    <3>3. (b \o c)[i - Len(a)] = c[(i - Len(a)) - Len(b)]
      BY <1>1, <2>1, <2>4
    <3>4. (i - Len(a)) - Len(b) = i - (Len(a) + Len(b))
      BY <1>1, <2>1
    <3> QED
      BY <3>1, <3>2, <3>3, <3>4
  <2> QED
    BY <1>1, <2>1, <2>2, <2>3, <2>4
<1> HIDE DEF l, r
<1>7. l = r
  BY <1>4, <1>5, <1>6
<1> QED
  BY <1>7 DEF l, r

\* A sequence over a set is one over a larger set.
LEMMA SeqMonotone ==
  ASSUME NEW S, NEW T, S \subseteq T, NEW s \in Seq(S)
  PROVE  s \in Seq(T)
OBVIOUS

-----------------------------------------------------------------------------
(* Selected elements: a recursive function too.                            *)

\* What one step of a selection does: it keeps an element or leaves it out.
Selected(s, I, g, i) ==
  IF i = 0 THEN <<>> ELSE IF i \in I THEN Append(g[i - 1], s[i]) ELSE g[i - 1]

\* f holds the selections from the first elements of s, by their places.
Selects(s, I, n, f) == f = [i \in 0..n |-> Selected(s, I, f, i)]

\* The selections exist for every length.
LEMMA SelectsExist ==
  ASSUME NEW s, NEW I, NEW n \in Nat
  PROVE  \E f : Selects(s, I, n, f)
<1> DEFINE N == {m \in Nat : \E f : Selects(s, I, m, f)}
<1>1. 0 \in N
  <2> DEFINE g == [i \in 0..0 |-> <<>>]
  <2>1. ASSUME NEW i \in 0..0 PROVE <<>> = Selected(s, I, g, i)
    BY DEF Selected
  <2>2. Selects(s, I, 0, g)
    BY <2>1, Zenon DEF Selects
  <2> QED
    BY <2>2
<1>2. ASSUME NEW m \in Nat, m \in N PROVE m + 1 \in N
  <2>1. PICK f : Selects(s, I, m, f)
    BY <1>2
  <2> DEFINE g == [i \in 0..(m+1) |-> Selected(s, I, f, i)]
  <2>2. ASSUME NEW i \in 0..m PROVE g[i] = f[i]
    <3>1. i \in 0..(m+1)
      OBVIOUS
    <3>2. f[i] = Selected(s, I, f, i)
      BY <2>1, Zenon DEF Selects
    <3> QED
      BY <3>1, <3>2, Zenon
  <2>3. ASSUME NEW i \in 0..(m+1) PROVE g[i] = Selected(s, I, g, i)
    <3>1. i # 0 => i - 1 \in 0..m
      OBVIOUS
    <3>2. i # 0 => g[i - 1] = f[i - 1]
      BY <2>2, <3>1
    <3>3. g[i] = Selected(s, I, f, i)
      BY Zenon
    <3> HIDE DEF g
    <3> QED
      BY <3>2, <3>3, Zenon DEF Selected
  <2>4. Selects(s, I, m + 1, g)
    <3>1. g = [i \in 0..(m+1) |-> g[i]]
      OBVIOUS
    <3> QED
      BY <2>3, <3>1, Zenon DEF Selects
  <2> QED
    BY <2>4
<1> QED
  <2> HIDE DEF N
  <2>1. n \in N
    BY <1>1, <1>2, Induction
  <2> QED
    BY <2>1 DEF N

-----------------------------------------------------------------------------
(* Sequences that list a set, some of its elements perhaps several times.  *)

Covers(s, R) == s \in Seq(R) /\ \A x \in R : \E i \in 1..Len(s) : s[i] = x

\* The empty sequence covers the empty set.
LEMMA CoversEmpty == Covers(<<>>, {})
  BY DEF Covers

\* One element covers its singleton.
LEMMA CoversOne ==
  ASSUME NEW x
  PROVE  Covers(<<x>>, {x})
  BY DEF Covers

\* A sequence that lists each element once covers the set.
LEMMA EnumCovers ==
  ASSUME NEW s, NEW R, Enumerates(s, R)
  PROVE  Covers(s, R)
  BY DEF Enumerates, Covers

\* A concatenation covers the union.
LEMMA CoversConcat ==
  ASSUME NEW R, NEW Q, NEW s, NEW t, Covers(s, R), Covers(t, Q)
  PROVE  Covers(s \o t, R \cup Q)
<1>0. s \in Seq(R \cup Q) /\ t \in Seq(R \cup Q)
  BY DEF Covers
<1>1. s \o t \in Seq(R \cup Q) /\ Len(s \o t) = Len(s) + Len(t)
  BY <1>0
<1>2. ASSUME NEW x \in R \cup Q PROVE \E i \in 1..Len(s \o t) : (s \o t)[i] = x
  <2>1. CASE x \in R
    <3>1. PICK i \in 1..Len(s) : s[i] = x
      BY <2>1 DEF Covers
    <3>2. (s \o t)[i] = x /\ i \in 1..Len(s \o t)
      BY <1>0, <1>1, <3>1
    <3> QED
      BY <3>2
  <2>2. CASE x \in Q
    <3>1. PICK i \in 1..Len(t) : t[i] = x
      BY <2>2 DEF Covers
    <3>2. (s \o t)[i + Len(s)] = x /\ i + Len(s) \in 1..Len(s \o t)
      BY <1>0, <1>1, <3>1
    <3> QED
      BY <3>2
  <2> QED
    BY <2>1, <2>2
<1> QED
  BY <1>1, <1>2 DEF Covers

\* A selection covers the elements that it keeps.
LEMMA CoversSelection ==
  ASSUME NEW S, NEW s \in Seq(S), NEW I, NEW f, Selects(s, I, Len(s), f)
  PROVE  Covers(f[Len(s)], {s[i] : i \in I \cap DOMAIN s})
<1> DEFINE n == Len(s)
           On(m) == {s[i] : i \in I \cap 1..m}
           N == {m \in Nat : m <= n => Covers(f[m], On(m))}
<1>1. n \in Nat /\ DOMAIN s = 1..n
  OBVIOUS
<1>2. \A i \in 0..n : f[i] = Selected(s, I, f, i)
  BY Zenon DEF Selects
<1>3. 0 \in N
  <2>1. f[0] = <<>>
    BY <1>1, <1>2, 0 \in 0..n DEF Selected
  <2>2. On(0) = {}
    OBVIOUS
  <2> HIDE DEF On
  <2> QED
    BY <2>1, <2>2, CoversEmpty
<1>4. ASSUME NEW m \in Nat, m \in N PROVE m + 1 \in N
  <2>1. SUFFICES ASSUME m + 1 <= n PROVE Covers(f[m + 1], On(m + 1))
    OBVIOUS
  <2>2. Covers(f[m], On(m)) /\ m + 1 \in 0..n /\ m + 1 \in 1..n
    BY <1>1, <1>4, <2>1
  <2>3. f[m + 1] = IF m + 1 \in I THEN Append(f[m], s[m + 1]) ELSE f[m]
    <3>1. f[m + 1] = Selected(s, I, f, m + 1) /\ m + 1 # 0 /\ (m + 1) - 1 = m
      BY <1>2, <2>2
    <3> QED
      BY <3>1 DEF Selected
  <2>4. 1..(m + 1) = 1..m \cup {m + 1}
    OBVIOUS
  <2>5. CASE m + 1 \in I
    <3>1. On(m + 1) = On(m) \cup {s[m + 1]}
      BY <2>4, <2>5
    <3>2. On(m) \subseteq S /\ s[m + 1] \in S
      BY <1>1, <2>1, <2>2
    <3> HIDE DEF On
    <3>3. f[m] \in Seq(S)
      BY <2>2, <3>2, SeqMonotone DEF Covers
    <3>4. f[m + 1] = f[m] \o <<s[m + 1]>>
      <4>1. \A q \in Seq(S), x \in S : Append(q, x) = q \o <<x>>
        OBVIOUS
      <4>2. Append(f[m], s[m + 1]) = f[m] \o <<s[m + 1]>>
        BY <3>2, <3>3, <4>1, Zenon
      <4> QED
        BY <2>3, <2>5, <4>2, Zenon
    <3>5. Covers(f[m] \o <<s[m + 1]>>, On(m) \cup {s[m + 1]})
      BY <2>2, CoversOne, CoversConcat
    <3> QED
      BY <3>1, <3>4, <3>5
  <2>6. CASE m + 1 \notin I
    <3>1. On(m + 1) = On(m)
      BY <2>4, <2>6
    <3> HIDE DEF On
    <3> QED
      BY <2>2, <2>3, <2>6, <3>1
  <2> QED
    BY <2>5, <2>6
<1>5. n \in N
  <2> HIDE DEF N
  <2> QED
    BY <1>1, <1>3, <1>4, Induction
<1>6. Covers(f[n], On(n))
  <2> HIDE DEF On
  <2> QED
    BY <1>1, <1>5
<1> QED
  BY <1>1, <1>6

\* A flattened sequence covers the union.
LEMMA CoversFlatten ==
  ASSUME NEW ss, NEW n \in Nat, Len(ss) = n, n = 0 => ss = <<>>, NEW R,
         \A i \in 1..n : Covers(ss[i], R[i])
  PROVE  Covers(FlattenSeq(ss), UNION {R[i] : i \in 1..n})
<1>1. CASE n = 0
  <2>1. FlattenSeq(ss) = <<>>
    BY <1>1 DEF FlattenSeq
  <2>2. UNION {R[i] : i \in 1..n} = {}
    BY <1>1
  <2> QED
    BY <2>1, <2>2, CoversEmpty
<1>2. CASE n # 0
  <2>1. PICK f : Joins(ss, n, f) /\ FlattenSeq(ss) = f[n]
    BY <1>2, FlattenJoins
  <2> DEFINE U(m) == UNION {R[i] : i \in 1..m}
             N == {m \in Nat : m + 1 <= n => Covers(f[m + 1], U(m + 1))}
  <2>2. 0 \in N
    <3>1. f[1] = ss[1] /\ 1 \in 1..n
      BY <1>2, <2>1, 1 \in 1..n DEF Joins
    <3>2. U(1) = R[1]
      OBVIOUS
    <3>3. Covers(f[1], U(1))
      <4>1. Covers(ss[1], R[1])
        BY <3>1
      <4> HIDE DEF U
      <4> QED
        BY <3>1, <3>2, <4>1
    <3> QED
      BY <3>3
  <2>3. ASSUME NEW m \in Nat, m \in N PROVE m + 1 \in N
    <3>1. SUFFICES ASSUME m + 2 <= n PROVE Covers(f[m + 2], U(m + 2))
      OBVIOUS
    <3>2. m + 2 \in 1..n /\ m + 2 # 1 /\ (m + 2) - 1 = m + 1
      BY <3>1
    <3>3. f[m + 2] = f[m + 1] \o ss[m + 2]
      BY <2>1, <3>2 DEF Joins
    <3>4. Covers(f[m + 1], U(m + 1))
      BY <2>3, <3>1
    <3>5. Covers(ss[m + 2], R[m + 2])
      BY <3>2
    <3>6. U(m + 2) = U(m + 1) \cup R[m + 2]
      <4>1. 1..(m + 2) = 1..(m + 1) \cup {m + 2}
        OBVIOUS
      <4> QED
        BY <4>1
    <3> HIDE DEF U
    <3> QED
      BY <3>3, <3>4, <3>5, <3>6, CoversConcat
  <2>4. n - 1 \in N
    <3>1. n - 1 \in Nat
      BY <1>2
    <3> HIDE DEF N
    <3>2. Nat \subseteq N
      BY <2>2, <2>3, Induction
    <3> QED
      BY <3>1, <3>2, Zenon
  <2> QED
    <3>1. (n - 1) + 1 = n
      OBVIOUS
    <3> QED
      BY <2>1, <2>4, <3>1
<1> QED
  BY <1>1, <1>2

-----------------------------------------------------------------------------
(* Lists as an API returns them: in any order, perhaps with one element    *)
(* twice or one missing.                                                   *)

\* The tail of a nonempty sequence lists nothing new.
LEMMA TailOfSeq ==
  ASSUME NEW S, NEW s \in Seq(S), s # <<>>
  PROVE  Head(s) \in S /\ Tail(s) \in Seq(S)
OBVIOUS

\* Every order of a finite set is a sequence over it.
LEMMA OrdersType ==
  ASSUME NEW S, IsFiniteSet(S), NEW s \in SetToSeqs(S)
  PROVE  s \in Seq(S)
<1>1. Cardinality(S) \in Nat
  BY FS_CardinalityType
<1>2. s \in [1..Cardinality(S) -> S]
  BY DEF SetToSeqs
<1> QED
  BY <1>1, <1>2

\* Reading an element twice, or one not at all, adds no other element.
LEMMA InsertAndRemoveType ==
  ASSUME NEW S, NEW s \in Seq(S), NEW n \in DOMAIN s
  PROVE  InsertAt(s, n, s[n]) \in Seq(S) /\ RemoveAt(s, n) \in Seq(S)
<1>1. n \in 1..Len(s) /\ s[n] \in S /\ Len(s) \in Nat
  OBVIOUS
<1>2. SubSeq(s, 1, n - 1) \in Seq(S)
  <2>1. \A i \in 1..n-1 : s[i] \in S
    BY <1>1
  <2> QED
    BY <1>1, <2>1
<1>3. ASSUME NEW m \in {n, n + 1} PROVE SubSeq(s, m, Len(s)) \in Seq(S)
  <2>1. \A i \in m..Len(s) : s[i] \in S
    BY <1>1
  <2>2. m \in 1..Len(s) + 1
    BY <1>1
  <2> QED
    BY <1>1, <2>1, <2>2
<1>4. <<s[n]>> \in Seq(S)
  BY <1>1
<1>5. SubSeq(s, n, Len(s)) \in Seq(S) /\ SubSeq(s, n + 1, Len(s)) \in Seq(S)
  BY <1>3
<1>6. SubSeq(s, 1, n - 1) \o <<s[n]>> \o SubSeq(s, n, Len(s)) \in Seq(S)
  BY <1>2, <1>4, <1>5
<1>7. SubSeq(s, 1, n - 1) \o SubSeq(s, n + 1, Len(s)) \in Seq(S)
  BY <1>2, <1>5
<1> QED
  BY <1>6, <1>7 DEF InsertAt, RemoveAt

\* A nonempty set of positions has a last one.
LEMMA LastPosition ==
  ASSUME NEW n \in Nat, NEW T \in SUBSET (1..n), T # {}
  PROVE  Max(T) \in T /\ \A m \in T : Max(T) >= m
<1> DEFINE U == {n - m : m \in T}
<1>0. \A m \in T : m \in Nat /\ n - m \in Nat
  OBVIOUS
<1>1. U \in SUBSET Nat /\ U # {}
  BY <1>0
<1>2. PICK u \in U : \A v \in U : u <= v
  BY <1>1, LeastNat
<1>3. PICK x \in T : u = n - x
  BY <1>2
<1>4. ASSUME NEW m \in T PROVE x >= m
  <2>1. u <= n - m
    BY <1>2
  <2> QED
    BY <1>0, <1>3, <2>1
<1> QED
  BY <1>3, <1>4 DEF Max

=============================================================================
