-------------------------- MODULE RecordDataProofs --------------------------
(***************************************************************************)
(* Proofs about RecordData, for all targets that satisfy SourceAssumption: *)
(* TXT values of any length over any set of characters, any addresses and  *)
(* any host names.                                                         *)
(***************************************************************************)
EXTENDS RecordData, SequenceProofs

-----------------------------------------------------------------------------
(* Escaping and its inverse, one character at a time.                      *)

Escape(c) == IF c = Quote THEN <<Backslash, Quote>> ELSE <<c>>
Escapes(s) == [i \in DOMAIN s |-> Escape(s[i])]

\* The backslash of an escaped quote goes.
Unescape(s, i) ==
  IF i < Len(s) /\ s[i] = Backslash /\ s[i + 1] = Quote THEN <<>> ELSE <<s[i]>>
Unescapes(s) == [i \in DOMAIN s |-> Unescape(s, i)]

\* What is longer by one character.
LEMMA Appended ==
  ASSUME NEW s \in Seq(Char), NEW c \in Char
  PROVE  /\ Append(s, c) \in Seq(Char) /\ Len(Append(s, c)) = Len(s) + 1
         /\ DOMAIN Append(s, c) = 1..(Len(s) + 1)
         /\ Append(s, c)[Len(s) + 1] = c
         /\ Agree(s, Append(s, c), Len(s))
         /\ DOMAIN s = 1..Len(s) /\ Len(s) \in Nat
BY DEF Agree

\* A value is empty or a character longer than another one.
LEMMA EmptyOrAppended ==
  ASSUME NEW s \in Seq(Char), s # <<>>
  PROVE  \E r \in Seq(Char), c \in Char : s = Append(r, c) /\ Len(s) = Len(r) + 1
BY SequenceEmptyOrAppend

\* What holds of the empty value, and of a value when it holds of all shorter
\* ones, holds of every value.
LEMMA ByLength ==
  ASSUME NEW V, <<>> \in V,
         \A s \in Seq(Char), c \in Char :
           (\A r \in Seq(Char) : Len(r) <= Len(s) => r \in V) => Append(s, c) \in V
  PROVE  Seq(Char) \subseteq V
<1> DEFINE N == {n \in Nat : \A r \in Seq(Char) : Len(r) <= n => r \in V}
<1>1. 0 \in N
  <2>1. ASSUME NEW r \in Seq(Char), Len(r) <= 0 PROVE r \in V
    <3>1. r = <<>>
      BY <2>1
    <3> QED
      BY <3>1
  <2> QED
    BY <2>1
<1>2. ASSUME NEW n \in Nat, n \in N PROVE n + 1 \in N
  <2>1. ASSUME NEW r \in Seq(Char), Len(r) <= n + 1 PROVE r \in V
    <3>1. CASE r = <<>>
      BY <3>1
    <3>2. CASE r # <<>>
      <4>1. PICK q \in Seq(Char), c \in Char : r = Append(q, c) /\ Len(r) = Len(q) + 1
        BY <3>2, EmptyOrAppended
      <4>2. \A p \in Seq(Char) : Len(p) <= Len(q) => Len(p) <= n
        <5>1. Len(q) <= n /\ Len(q) \in Nat
          BY <2>1, <4>1
        <5> QED
          BY <5>1
      <4>3. \A p \in Seq(Char) : Len(p) <= Len(q) => p \in V
        BY <1>2, <4>2
      <4> QED
        BY <4>1, <4>3
    <3> QED
      BY <3>1, <3>2
  <2> QED
    BY <2>1
<1>3. Nat \subseteq N
  <2> HIDE DEF N
  <2> QED
    BY <1>1, <1>2, Induction
<1> QED
  <2> SUFFICES ASSUME NEW s \in Seq(Char) PROVE s \in V
    OBVIOUS
  <2>1. Len(s) \in Nat
    OBVIOUS
  <2>2. Len(s) \in N
    BY <1>3, <2>1
  <2> QED
    BY <2>2

\* Escaping the empty value, and a value with one more character.
LEMMA EscapedSteps ==
  /\ Escaped(<<>>) = <<>>
  /\ \A s \in Seq(Char), c \in Char : Escaped(Append(s, c)) = Escaped(s) \o Escape(c)
<1>1. \A s : Escaped(s) = FlattenSeq(Escapes(s))
  BY DEF Escaped, Escapes, Escape
<1>2. Escaped(<<>>) = <<>>
  <2>1. Escapes(<<>>) = <<>>
    BY DEF Escapes
  <2> QED
    BY <1>1, <2>1 DEF FlattenSeq
<1>3. ASSUME NEW s \in Seq(Char), NEW c \in Char
      PROVE  Escaped(Append(s, c)) = Escaped(s) \o Escape(c)
  <2> DEFINE n == Len(s)
             ss == Escapes(s)
             tt == Escapes(Append(s, c))
  <2>1. n \in Nat /\ DOMAIN ss = 1..n /\ DOMAIN tt = 1..(n + 1)
    BY Appended DEF Escapes
  <2>2. Len(ss) = n /\ Len(tt) = n + 1
    BY <2>1, LenOfFcn, n + 1 \in Nat
  <2>3. n = 0 => ss = <<>>
    BY <2>1
  <2>4. Agree(ss, tt, n)
    <3>1. ASSUME NEW i \in 1..n PROVE ss[i] = tt[i]
      <4>1. Append(s, c)[i] = s[i] /\ i \in 1..(n + 1)
        BY Appended DEF Agree
      <4> QED
        BY <4>1, Appended DEF Escapes
    <3> QED
      BY <3>1 DEF Agree
  <2>5. tt[n + 1] = Escape(c)
    BY <2>1, n + 1 \in 1..(n + 1), Appended DEF Escapes
  <2>6. Escape(c) \in Seq(Char)
    BY CharAssumption DEF Escape
  <2> HIDE DEF n, ss, tt
  <2>7. FlattenSeq(tt) = FlattenSeq(ss) \o tt[n + 1]
    BY <2>1, <2>2, <2>3, <2>4, <2>5, <2>6, FlattenGrow
  <2> QED
    BY <1>1, <2>5, <2>7 DEF n, ss, tt
<1> QED
  BY <1>2, <1>3

\* An escaped value is a value.
LEMMA EscapedType == \A s \in Seq(Char) : Escaped(s) \in Seq(Char)
<1> DEFINE V == {s \in Seq(Char) : Escaped(s) \in Seq(Char)}
<1>1. <<>> \in V
  <2>1. Escaped(<<>>) = <<>> /\ <<>> \in Seq(Char)
    BY EscapedSteps
  <2> QED
    BY <2>1
<1>2. ASSUME NEW s \in Seq(Char), NEW c \in Char, s \in V PROVE Append(s, c) \in V
  <2>1. Escape(c) \in Seq(Char)
    BY CharAssumption DEF Escape
  <2>2. Escaped(s) \o Escape(c) \in Seq(Char)
    BY <1>2, <2>1
  <2>3. Escaped(Append(s, c)) \in Seq(Char)
    BY <2>2, EscapedSteps
  <2> QED
    BY <2>3
<1> HIDE DEF V
<1>3. Seq(Char) \subseteq V
  <2>1. \A s \in Seq(Char) : Len(s) <= Len(s)
    OBVIOUS
  <2> QED
    BY <1>1, <1>2, <2>1, ByLength
<1> QED
  BY <1>3 DEF V

\* What is left of a value without the backslashes is a value.
LEMMA UnescapedType == \A s \in Seq(Char) : Unescaped(s) \in Seq(Char)
<1> TAKE s \in Seq(Char)
<1> DEFINE n == Len(s)
           ss == Unescapes(s)
<1>1. Unescaped(s) = FlattenSeq(ss)
  BY DEF Unescaped, Unescapes, Unescape
<1>2. n \in Nat /\ DOMAIN s = 1..n /\ DOMAIN ss = 1..n
  BY DEF Unescapes
<1>3. Len(ss) = n /\ (n = 0 => ss = <<>>)
  BY <1>2
<1>4. ASSUME NEW i \in 1..n PROVE ss[i] \in Seq(Char)
  <2>1. s[i] \in Char /\ ss[i] = Unescape(s, i)
    BY <1>2 DEF Unescapes
  <2> QED
    BY <2>1 DEF Unescape
<1> HIDE DEF n, ss
<1> QED
  BY <1>1, <1>2, <1>3, <1>4, FlattenType

EndsInBackslash(s) == s # <<>> /\ s[Len(s)] = Backslash

\* A value with one more character ends in a backslash if that is one.
LEMMA EndsSteps ==
  ASSUME NEW s \in Seq(Char), NEW c \in Char
  PROVE  EndsInBackslash(Append(s, c)) <=> c = Backslash
BY DEF EndsInBackslash

\* Unescaping the empty value, a value with one more character that is no
\* escaped quote, and one with one more escaped quote.
LEMMA UnescapedSteps ==
  /\ Unescaped(<<>>) = <<>>
  /\ \A s \in Seq(Char), c \in Char :
       ~(c = Quote /\ EndsInBackslash(s)) => Unescaped(Append(s, c)) = Unescaped(s) \o <<c>>
  /\ \A s \in Seq(Char) :
       Unescaped(Append(Append(s, Backslash), Quote)) = Unescaped(s) \o <<Quote>>
<1>1. \A s : Unescaped(s) = FlattenSeq(Unescapes(s))
  BY DEF Unescaped, Unescapes, Unescape
<1>2. Unescaped(<<>>) = <<>>
  <2>1. Unescapes(<<>>) = <<>>
    BY DEF Unescapes
  <2> QED
    BY <1>1, <2>1 DEF FlattenSeq
<1>3. ASSUME NEW s \in Seq(Char), NEW c \in Char, ~(c = Quote /\ EndsInBackslash(s))
      PROVE  Unescaped(Append(s, c)) = Unescaped(s) \o <<c>>
  <2> DEFINE n == Len(s)
             ss == Unescapes(s)
             t == Append(s, c)
             tt == Unescapes(t)
  <2>1. /\ n \in Nat /\ DOMAIN ss = 1..n /\ DOMAIN tt = 1..(n + 1)
        /\ Len(t) = n + 1 /\ t[n + 1] = c /\ \A i \in 1..n : t[i] = s[i]
    BY Appended DEF Unescapes, Agree
  <2>2. Len(ss) = n /\ Len(tt) = n + 1 /\ (n = 0 => ss = <<>>)
    BY <2>1, LenOfFcn, n + 1 \in Nat
  <2>3. ASSUME NEW i \in 1..n PROVE ss[i] = tt[i]
    <3>1. ss[i] = Unescape(s, i) /\ tt[i] = Unescape(t, i)
      <4>1. i \in 1..(n + 1) /\ i \in DOMAIN s /\ DOMAIN t = 1..(n + 1)
        BY Appended
      <4> QED
        BY <4>1 DEF Unescapes
    <3>2. CASE i < n
      <4>1. t[i] = s[i] /\ t[i + 1] = s[i + 1] /\ i < n + 1
        BY <2>1, <3>2
      <4> HIDE DEF t, ss, tt
      <4> QED
        BY <2>1, <3>1, <3>2, <4>1 DEF Unescape
    <3>3. CASE i = n
      <4>1. s # <<>> /\ t[i] = s[n] /\ t[i + 1] = c /\ ~(n < n)
        BY <2>1, <3>3
      <4>2. ~(t[i] = Backslash /\ t[i + 1] = Quote)
        BY <1>3, <4>1 DEF EndsInBackslash
      <4> HIDE DEF t, ss, tt
      <4> QED
        BY <2>1, <3>1, <3>3, <4>1, <4>2 DEF Unescape
    <3> QED
      BY <2>1, <3>2, <3>3
  <2>4. tt[n + 1] = <<c>>
    <3>1. tt[n + 1] = Unescape(t, n + 1)
      <4>1. n + 1 \in DOMAIN t
        BY <2>1, Appended
      <4> QED
        BY <4>1 DEF Unescapes
    <3>2. ~(n + 1 < n + 1)
      BY <2>1
    <3> HIDE DEF t, ss, tt
    <3> QED
      BY <2>1, <3>1, <3>2 DEF Unescape
  <2>5. Agree(ss, tt, n)
    BY <2>3 DEF Agree
  <2>6. <<c>> \in Seq(Char)
    OBVIOUS
  <2> HIDE DEF n, ss, tt
  <2>7. FlattenSeq(tt) = FlattenSeq(ss) \o tt[n + 1]
    <3>1. n \in Nat
      BY <2>1
    <3>2. tt[n + 1] \in Seq(Char)
      BY <2>4, <2>6
    <3> QED
      BY <2>2, <2>5, <3>1, <3>2, FlattenGrow
  <2> QED
    BY <1>1, <2>4, <2>7 DEF n, ss, tt
<1>4. ASSUME NEW s \in Seq(Char)
      PROVE  Unescaped(Append(Append(s, Backslash), Quote)) = Unescaped(s) \o <<Quote>>
  <2> DEFINE n == Len(s)
             ss == Unescapes(s)
             r == Append(s, Backslash)
             t == Append(r, Quote)
             tt == Unescapes(t)
             uu == [i \in 1..(n + 1) |-> tt[i]]
  <2>0. Backslash \in Char /\ Quote \in Char /\ Backslash # Quote
    BY CharAssumption
  <2>1. /\ n \in Nat /\ DOMAIN ss = 1..n /\ DOMAIN s = 1..n
        /\ r \in Seq(Char) /\ Len(r) = n + 1 /\ r[n + 1] = Backslash
        /\ \A i \in 1..n : r[i] = s[i]
    BY <2>0, Appended DEF Unescapes, Agree
  <2>2. /\ DOMAIN t = 1..(n + 2) /\ DOMAIN tt = 1..(n + 2) /\ Len(t) = n + 2
        /\ t[n + 2] = Quote /\ t[n + 1] = Backslash /\ \A i \in 1..n : t[i] = s[i]
    <3> HIDE DEF r
    <3>1. /\ (n + 1) + 1 = n + 2 /\ n + 1 \in 1..(n + 1)
          /\ \A i \in 1..n : i \in 1..(n + 1)
      BY <2>1
    <3>2. /\ DOMAIN t = 1..(n + 2) /\ Len(t) = n + 2 /\ t[n + 2] = Quote
          /\ Agree(r, t, n + 1)
      BY <2>0, <2>1, <3>1, Appended
    <3> QED
      BY <2>1, <3>1, <3>2 DEF Unescapes, Agree
  <2>3. \A i \in 1..(n + 2) : tt[i] = Unescape(t, i)
    BY <2>2 DEF Unescapes
  <2>4. \A i \in 1..n : ss[i] = Unescape(s, i)
    BY DEF Unescapes
  <2> HIDE DEF n, ss, r, t, tt
  <2>5. ASSUME NEW i \in 1..n PROVE ss[i] = tt[i]
    <3>1. ss[i] = Unescape(s, i) /\ tt[i] = Unescape(t, i)
      <4>1. i \in 1..(n + 2)
        BY <2>1
      <4> QED
        BY <2>3, <2>4, <4>1
    <3>2. CASE i < n
      <4>1. t[i] = s[i] /\ t[i + 1] = s[i + 1] /\ i < n + 2
        BY <2>1, <2>2, <3>2
      <4> QED
        BY <2>2, <3>1, <3>2, <4>1 DEF Unescape, n
    <3>3. CASE i = n
      <4>1. t[i] = s[n] /\ t[i + 1] = Backslash /\ ~(n < n) /\ Len(s) = n
        BY <2>1, <2>2, <3>3 DEF n
      <4> QED
        BY <2>0, <3>1, <3>3, <4>1 DEF Unescape
    <3> QED
      BY <2>1, <3>2, <3>3
  <2>6. tt[n + 1] = <<>>
    <3>1. n + 1 \in 1..(n + 2) /\ n + 1 < n + 2 /\ (n + 1) + 1 = n + 2
      BY <2>1
    <3> QED
      BY <2>2, <2>3, <3>1 DEF Unescape
  <2>7. tt[n + 2] = <<Quote>>
    <3>1. n + 2 \in 1..(n + 2) /\ ~(n + 2 < n + 2)
      BY <2>1
    <3> QED
      BY <2>2, <2>3, <3>1 DEF Unescape
  <2>8. FlattenSeq(uu) = FlattenSeq(ss) \o <<>>
    <3>1. Len(ss) = n /\ Len(uu) = n + 1 /\ (n = 0 => ss = <<>>)
      BY <2>1, LenOfFcn, n + 1 \in Nat
    <3>2. Agree(ss, uu, n)
      BY <2>1, <2>5 DEF Agree
    <3>3. n \in Nat /\ n + 1 \in 1..(n + 1)
      BY <2>1
    <3>4. uu[n + 1] = <<>>
      BY <2>6, <3>3
    <3> HIDE DEF uu
    <3>5. uu[n + 1] \in Seq(Char)
      BY <3>4
    <3>6. FlattenSeq(uu) = FlattenSeq(ss) \o uu[n + 1]
      BY <3>1, <3>2, <3>3, <3>5, FlattenGrow
    <3> QED
      BY <3>4, <3>6
  <2>9. FlattenSeq(tt) = FlattenSeq(uu) \o <<Quote>>
    <3> DEFINE m == n + 1
    <3>1. m \in Nat /\ m # 0 /\ m + 1 = n + 2 /\ n + 2 \in Nat
      BY <2>1
    <3>2. Len(uu) = m /\ Len(tt) = m + 1 /\ (m = 0 => uu = <<>>)
      BY <2>2, <3>1, LenOfFcn
    <3>3. Agree(uu, tt, m)
      BY DEF Agree
    <3>4. tt[m + 1] = <<Quote>>
      BY <2>7, <3>1
    <3>5. tt[m + 1] \in Seq(Char)
      BY <2>0, <3>4
    <3> HIDE DEF uu, m
    <3>6. FlattenSeq(tt) = FlattenSeq(uu) \o tt[m + 1]
      BY <3>1, <3>2, <3>3, <3>5, FlattenGrow
    <3> QED
      BY <3>4, <3>6
  <2>10. FlattenSeq(ss) \o <<>> = FlattenSeq(ss)
    <3>1. FlattenSeq(ss) \in Seq(Char)
      <4>1. Unescaped(s) = FlattenSeq(ss)
        BY <1>1 DEF ss
      <4>2. Unescaped(s) \in Seq(Char)
        BY UnescapedType
      <4> QED
        BY <4>1, <4>2
    <3> QED
      BY <3>1
  <2> QED
    BY <1>1, <2>8, <2>9, <2>10 DEF ss, tt, t, r
<1> QED
  BY <1>2, <1>3, <1>4

\* Appending an escaped quote is appending two characters.
LEMMA EscapeAppends ==
  ASSUME NEW s \in Seq(Char), NEW c \in Char
  PROVE  s \o Escape(c) = IF c = Quote THEN Append(Append(s, Backslash), Quote)
                          ELSE Append(s, c)
<1>1. CASE c = Quote
  <2>1. Backslash \in Char /\ Quote \in Char
    BY CharAssumption
  <2>2. s \o <<Backslash, Quote>> = Append(Append(s, Backslash), Quote)
    BY <2>1
  <2> QED
    BY <1>1, <2>2 DEF Escape
<1>2. CASE c # Quote
  <2>1. s \o <<c>> = Append(s, c)
    OBVIOUS
  <2> QED
    BY <1>2, <2>1 DEF Escape
<1> QED
  BY <1>1, <1>2

\* A value with one more character has a bare quote if it had one, or if that
\* is one.
LEMMA BareSteps ==
  ASSUME NEW s \in Seq(Char), NEW c \in Char
  PROVE  HasBareQuote(Append(s, c)) <=>
           HasBareQuote(s) \/ (c = Quote /\ ~EndsInBackslash(s))
<1> DEFINE t == Append(s, c)
           n == Len(s)
           Bare(x, i) == x[i] = Quote /\ (i = 1 \/ x[i - 1] # Backslash)
<1>1. /\ n \in Nat /\ DOMAIN s = 1..n /\ DOMAIN t = 1..(n + 1) /\ t[n + 1] = c
      /\ \A i \in 1..n : t[i] = s[i]
  BY Appended DEF Agree
<1> HIDE DEF t
<1>2. ASSUME NEW i \in 1..n PROVE Bare(t, i) <=> Bare(s, i)
  <2>1. t[i] = s[i] /\ (i = 1 \/ i - 1 \in 1..n)
    BY <1>1
  <2>2. i = 1 \/ t[i - 1] = s[i - 1]
    BY <1>1, <2>1
  <2> QED
    BY <2>1, <2>2
<1>3. Bare(t, n + 1) <=> c = Quote /\ ~EndsInBackslash(s)
  <2>1. CASE n = 0
    <3>1. s = <<>>
      BY <2>1
    <3> QED
      BY <1>1, <2>1, <3>1 DEF EndsInBackslash
  <2>2. CASE n # 0
    <3>1. n + 1 # 1 /\ (n + 1) - 1 = n /\ n \in 1..n /\ s # <<>>
      BY <1>1, <2>2
    <3>2. t[n] = s[n]
      BY <1>1, <3>1
    <3> QED
      BY <1>1, <3>1, <3>2 DEF EndsInBackslash
  <2> QED
    BY <2>1, <2>2
<1>4. 1..(n + 1) = 1..n \cup {n + 1}
  BY <1>1
<1>5. HasBareQuote(s) <=> \E i \in 1..n : Bare(s, i)
  BY <1>1 DEF HasBareQuote
<1>6. HasBareQuote(t) <=> \E i \in 1..n \cup {n + 1} : Bare(t, i)
  BY <1>1, <1>4 DEF HasBareQuote
<1> HIDE DEF Bare
<1> QED
  BY <1>2, <1>3, <1>5, <1>6 DEF t

\* Unescaping undoes escaping, an escaped value has no bare quote, and ends in
\* a backslash only if the value does.
LEMMA EscapedWhole ==
  \A s \in Seq(Char) :
    /\ Unescaped(Escaped(s)) = s
    /\ ~HasBareQuote(Escaped(s))
    /\ EndsInBackslash(Escaped(s)) <=> EndsInBackslash(s)
<1> DEFINE Whole(s) == /\ Unescaped(Escaped(s)) = s
                       /\ ~HasBareQuote(Escaped(s))
                       /\ EndsInBackslash(Escaped(s)) <=> EndsInBackslash(s)
           V == {s \in Seq(Char) : Whole(s)}
<1>1. <<>> \in V
  <2>1. Escaped(<<>>) = <<>> /\ Unescaped(<<>>) = <<>>
    BY EscapedSteps, UnescapedSteps
  <2>2. <<>> \in Seq(Char) /\ ~HasBareQuote(<<>>)
    BY DEF HasBareQuote
  <2> QED
    BY <2>1, <2>2
<1>2. ASSUME NEW s \in Seq(Char), NEW c \in Char, Whole(s) PROVE Whole(Append(s, c))
  <2> DEFINE e == Escaped(s)
  <2>0. Backslash \in Char /\ Quote \in Char /\ Backslash # Quote
    BY CharAssumption
  <2>1. e \in Seq(Char) /\ Escaped(Append(s, c)) = e \o Escape(c)
    BY EscapedType, EscapedSteps
  <2>2. Unescaped(e) = s /\ ~HasBareQuote(e)
    BY <1>2
  <2>3. EndsInBackslash(Append(s, c)) <=> c = Backslash
    BY EndsSteps
  <2>4. Append(s, c) = s \o <<c>>
    OBVIOUS
  <2> HIDE DEF e
  <2>5. CASE c = Quote
    <3>1. Escaped(Append(s, c)) = Append(Append(e, Backslash), Quote)
      BY <2>1, <2>5, EscapeAppends
    <3>2. Unescaped(Append(Append(e, Backslash), Quote)) = s \o <<Quote>>
      BY <2>1, <2>2, UnescapedSteps
    <3>3. Append(e, Backslash) \in Seq(Char)
      BY <2>0, <2>1
    <3>4. ~HasBareQuote(Append(e, Backslash)) /\ EndsInBackslash(Append(e, Backslash))
      BY <2>0, <2>1, <2>2, BareSteps, EndsSteps
    <3>5. ~HasBareQuote(Append(Append(e, Backslash), Quote))
      BY <2>0, <3>3, <3>4, BareSteps
    <3>6. ~EndsInBackslash(Append(Append(e, Backslash), Quote))
      BY <2>0, <3>3, EndsSteps
    <3> QED
      BY <2>0, <2>3, <2>4, <2>5, <3>1, <3>2, <3>5, <3>6
  <2>6. CASE c # Quote
    <3>1. Escaped(Append(s, c)) = Append(e, c)
      BY <2>1, <2>6, EscapeAppends
    <3>2. Unescaped(Append(e, c)) = s \o <<c>>
      BY <2>1, <2>2, <2>6, UnescapedSteps
    <3>3. ~HasBareQuote(Append(e, c))
      BY <2>1, <2>2, <2>6, BareSteps
    <3>4. EndsInBackslash(Append(e, c)) <=> c = Backslash
      BY <2>1, EndsSteps
    <3> QED
      BY <2>3, <2>4, <3>1, <3>2, <3>3, <3>4
  <2> QED
    BY <2>5, <2>6
<1>3. ASSUME NEW s \in Seq(Char), NEW c \in Char,
             \A r \in Seq(Char) : Len(r) <= Len(s) => r \in V
      PROVE  Append(s, c) \in V
  <2>1. Len(s) <= Len(s)
    OBVIOUS
  <2>2. Whole(s)
    BY <1>3, <2>1
  <2>3. Append(s, c) \in Seq(Char) /\ Whole(Append(s, c))
    BY <1>2, <2>2, Appended
  <2> HIDE DEF Whole
  <2> QED
    BY <2>3
<1>4. Seq(Char) \subseteq V
  <2> HIDE DEF V
  <2> QED
    BY <1>1, <1>3, ByLength
<1> QED
  BY <1>4

\* Escaping undoes unescaping where no quote is bare.
LEMMA UnescapedWhole ==
  \A s \in Seq(Char) : ~HasBareQuote(s) => Escaped(Unescaped(s)) = s
<1> DEFINE Whole(s) == ~HasBareQuote(s) => Escaped(Unescaped(s)) = s
           V == {s \in Seq(Char) : Whole(s)}
<1>1. <<>> \in V
  <2>1. Escaped(<<>>) = <<>> /\ Unescaped(<<>>) = <<>>
    BY EscapedSteps, UnescapedSteps
  <2>2. <<>> \in Seq(Char)
    OBVIOUS
  <2> QED
    BY <2>1, <2>2
<1>2. ASSUME NEW s \in Seq(Char), NEW c \in Char,
             \A r \in Seq(Char) : Len(r) <= Len(s) => r \in V
      PROVE  Append(s, c) \in V
  <2>0. Backslash \in Char /\ Quote \in Char /\ Backslash # Quote
    BY CharAssumption
  <2>1. SUFFICES ASSUME ~HasBareQuote(Append(s, c))
                 PROVE  Escaped(Unescaped(Append(s, c))) = Append(s, c)
    BY Appended
  <2>2. ~HasBareQuote(s) /\ ~(c = Quote /\ ~EndsInBackslash(s))
    BY <2>1, BareSteps
  <2>3. CASE c = Quote
    <3>1. s # <<>> /\ s[Len(s)] = Backslash
      BY <2>2, <2>3 DEF EndsInBackslash
    <3>2. PICK q \in Seq(Char), b \in Char : s = Append(q, b) /\ Len(s) = Len(q) + 1
      BY <3>1, EmptyOrAppended
    <3>3. b = Backslash /\ Len(q) <= Len(s)
      BY <3>1, <3>2
    <3>4. ~HasBareQuote(q)
      BY <2>2, <3>2, BareSteps
    <3>5. Escaped(Unescaped(q)) = q
      BY <1>2, <3>3, <3>4
    <3>6. Unescaped(q) \in Seq(Char)
      BY UnescapedType
    <3>7. Unescaped(Append(s, c)) = Unescaped(q) \o <<Quote>>
      BY <2>3, <3>2, <3>3, UnescapedSteps
    <3>8. Unescaped(q) \o <<Quote>> = Append(Unescaped(q), Quote)
      BY <2>0, <3>6
    <3>9. Escaped(Append(Unescaped(q), Quote)) = q \o Escape(Quote)
      BY <2>0, <3>5, <3>6, EscapedSteps
    <3>10. q \o Escape(Quote) = Append(Append(q, Backslash), Quote)
      BY <2>0, EscapeAppends
    <3> QED
      BY <2>3, <3>2, <3>3, <3>7, <3>8, <3>9, <3>10
  <2>4. CASE c # Quote
    <3>1. Len(s) <= Len(s)
      OBVIOUS
    <3>2. Escaped(Unescaped(s)) = s
      BY <1>2, <2>2, <3>1
    <3>3. Unescaped(s) \in Seq(Char)
      BY UnescapedType
    <3>4. Unescaped(Append(s, c)) = Unescaped(s) \o <<c>>
      BY <2>4, UnescapedSteps
    <3>5. Unescaped(s) \o <<c>> = Append(Unescaped(s), c)
      BY <3>3
    <3>6. Escaped(Append(Unescaped(s), c)) = s \o Escape(c)
      BY <3>2, <3>3, EscapedSteps
    <3>7. s \o Escape(c) = Append(s, c)
      BY <2>4, EscapeAppends
    <3> QED
      BY <3>4, <3>5, <3>6, <3>7
  <2> QED
    BY <2>3, <2>4
<1>3. Seq(Char) \subseteq V
  <2> HIDE DEF V
  <2> QED
    BY <1>1, <1>2, ByLength
<1> QED
  BY <1>3

-----------------------------------------------------------------------------
(* TXT values with and without their quotes.                               *)

\* Quotes around a value that does not end in a backslash are seen, and it is
\* what is between them.
LEMMA Wrapped ==
  ASSUME NEW e \in Seq(Char), ~EndsInBackslash(e)
  PROVE  LET t == <<Quote>> \o e \o <<Quote>>
         IN  t \in Seq(Char) /\ LooksQuoted(t) /\ Inner(t) = e
<1> DEFINE n == Len(e)
           h == <<Quote>> \o e
           t == h \o <<Quote>>
<1>0. Quote \in Char /\ Backslash # Quote
  BY CharAssumption
<1>1. n \in Nat /\ <<Quote>> \in Seq(Char) /\ Len(<<Quote>>) = 1
  BY <1>0
<1>2. h \in Seq(Char) /\ Len(h) = n + 1
  BY <1>1
<1>3. h[1] = Quote /\ \A i \in 1..n : h[i + 1] = e[i]
  BY <1>1
<1> HIDE DEF h
<1>4. t \in Seq(Char) /\ Len(t) = n + 2
  BY <1>1, <1>2
<1>5. t[n + 2] = Quote /\ \A i \in 1..(n + 1) : t[i] = h[i]
  BY <1>1, <1>2
<1> HIDE DEF t
<1>6. t[1] = Quote /\ \A i \in 1..n : t[i + 1] = e[i]
  <2>1. 1 \in 1..(n + 1) /\ \A i \in 1..n : i + 1 \in 1..(n + 1)
    BY <1>1
  <2> QED
    BY <1>3, <1>5, <2>1
<1>7. LooksQuoted(t)
  <2>1. ~EndsEscaped(t)
    <3>1. CASE n = 0
      <4>1. Len(t) - 1 = 1
        BY <1>4, <3>1
      <4> QED
        BY <1>0, <1>6, <4>1 DEF EndsEscaped
    <3>2. CASE n # 0
      <4>1. n \in 1..n /\ Len(t) - 1 = n + 1 /\ e # <<>>
        BY <1>1, <1>4, <3>2
      <4>2. e[n] # Backslash
        BY <4>1 DEF EndsInBackslash
      <4> QED
        BY <1>6, <4>1, <4>2 DEF EndsEscaped
    <3> QED
      BY <3>1, <3>2
  <2>2. Len(t) >= 2
    BY <1>1, <1>4
  <2> QED
    BY <1>4, <1>5, <1>6, <2>1, <2>2 DEF LooksQuoted
<1>8. Inner(t) = e
  <2>1. Inner(t) = SubSeq(t, 2, n + 1)
    BY <1>1, <1>4 DEF Inner
  <2>2. SubSeq(t, 2, n + 1) \in Seq(Char) /\ Len(SubSeq(t, 2, n + 1)) = n
    BY <1>1, <1>4
  <2>3. ASSUME NEW i \in 1..n PROVE SubSeq(t, 2, n + 1)[i] = e[i]
    <3>1. SubSeq(t, 2, n + 1)[i] = t[i + 1]
      BY <1>1, <1>4
    <3> QED
      BY <1>6, <3>1
  <2> DEFINE u == SubSeq(t, 2, n + 1)
  <2>4. u \in Seq(Char) /\ Len(u) = n /\ \A i \in 1..n : u[i] = e[i]
    BY <2>2, <2>3
  <2> HIDE DEF u
  <2>5. u = e
    BY <2>4
  <2> QED
    BY <2>1, <2>5 DEF u
<1> QED
  BY <1>4, <1>7, <1>8 DEF t, h

\* Quotes around what is between the quotes give the value back.
LEMMA Unwrapped ==
  ASSUME NEW w \in Seq(Char), LooksQuoted(w)
  PROVE  Inner(w) \in Seq(Char) /\ <<Quote>> \o Inner(w) \o <<Quote>> = w
<1> DEFINE n == Len(w)
           e == Inner(w)
           h == <<Quote>> \o e
           t == h \o <<Quote>>
<1>1. n \in Nat /\ n >= 2 /\ w[1] = Quote /\ w[n] = Quote
  BY DEF LooksQuoted
<1>2. e \in Seq(Char) /\ Len(e) = n - 2 /\ \A i \in 1..(n - 2) : e[i] = w[i + 1]
  <2>1. e = SubSeq(w, 2, n - 1)
    BY DEF Inner
  <2> HIDE DEF e, n
  <2>2. n - 1 <= n /\ n - 1 \in Nat /\ 2 \in 1..(n - 1 + 1) /\ n - 1 - 2 + 1 = n - 2
    BY <1>1
  <2>3. e \in Seq(Char)
    BY <1>1, <2>1, <2>2 DEF n
  <2>4. Len(e) = n - 2
    BY <1>1, <2>1, <2>2 DEF n
  <2>5. ASSUME NEW i \in 1..(n - 2) PROVE e[i] = w[i + 1]
    <3>1. i \in 1..(n - 1 - 2 + 1) /\ 2 + i - 1 = i + 1
      BY <1>1
    <3> QED
      BY <1>1, <2>1, <2>2, <3>1 DEF n
  <2> QED
    BY <2>3, <2>4, <2>5
<1> HIDE DEF e
<1>3. h \in Seq(Char) /\ Len(h) = n - 1 /\ h[1] = Quote
      /\ \A i \in 2..(n - 1) : h[i] = e[i - 1]
  BY <1>1, <1>2, CharAssumption
<1> HIDE DEF h
<1>4. t \in Seq(Char) /\ Len(t) = n /\ t[n] = Quote /\ \A i \in 1..(n - 1) : t[i] = h[i]
  BY <1>1, <1>3, CharAssumption
<1> HIDE DEF t
<1>5. ASSUME NEW i \in 1..n PROVE t[i] = w[i]
  <2>1. CASE i = 1
    <3>1. 1 \in 1..(n - 1)
      BY <1>1
    <3> QED
      BY <1>1, <1>3, <1>4, <2>1, <3>1
  <2>2. CASE i = n
    BY <1>1, <1>4, <2>2
  <2>3. CASE i # 1 /\ i # n
    <3>1. i \in 2..(n - 1) /\ i \in 1..(n - 1) /\ i - 1 \in 1..(n - 2) /\ (i - 1) + 1 = i
      BY <1>1, <2>3
    <3>2. e[i - 1] = w[i]
      BY <1>2, <3>1
    <3> QED
      BY <1>3, <1>4, <3>1, <3>2
  <2> QED
    BY <2>1, <2>2, <2>3
<1>6. t = w
  BY <1>4, <1>5
<1> QED
  BY <1>2, <1>6 DEF t, h, e

\* Quotes around a value that ends in a backslash are not seen.
LEMMA WrappedOpen ==
  ASSUME NEW e \in Seq(Char), EndsInBackslash(e)
  PROVE  LET t == <<Quote>> \o e \o <<Quote>>
         IN  t \in Seq(Char) /\ EndsEscaped(t) /\ ~EndsInBackslash(t)
<1> DEFINE n == Len(e)
           h == <<Quote>> \o e
           t == h \o <<Quote>>
<1>0. Quote \in Char /\ Backslash # Quote
  BY CharAssumption
<1>1. n \in Nat /\ n >= 1 /\ e[n] = Backslash
  BY DEF EndsInBackslash
<1>2. h \in Seq(Char) /\ Len(h) = n + 1 /\ h[n + 1] = e[n]
  BY <1>0, <1>1
<1> HIDE DEF h
<1>3. t \in Seq(Char) /\ Len(t) = n + 2 /\ t[n + 2] = Quote /\ t[n + 1] = h[n + 1]
  BY <1>0, <1>1, <1>2
<1> HIDE DEF t
<1>4. Len(t) - 1 = n + 1 /\ Len(t) >= 2
  BY <1>1, <1>3
<1>5. EndsEscaped(t)
  BY <1>1, <1>2, <1>3, <1>4 DEF EndsEscaped
<1>6. ~EndsInBackslash(t)
  BY <1>0, <1>3 DEF EndsInBackslash
<1> QED
  BY <1>3, <1>5, <1>6 DEF t, h

\* The Portal and the provider agree on which values are one character-string,
\* and on its text.
LEMMA PortalAgrees ==
  ASSUME NEW s \in Seq(Char)
  PROVE  PortalText(s) = unquoteTXT(s)
<1> DEFINE n == Len(s)
           e == Inner(s)
<1>0. n \in Nat /\ Quote # Backslash
  BY CharAssumption
<1>1. CASE n < 2
  BY <1>0, <1>1 DEF PortalText, OneString, unquoteTXT, LooksQuoted
<1>2. CASE n >= 2
  <2>1. e = SubSeq(s, 2, n - 1)
    BY DEF Inner
  <2>2. Len(e) = n - 2 /\ \A i \in 1 .. (n - 2) : e[i] = s[i + 1]
    <3>1. n - 1 \in Nat /\ n - 1 <= n /\ n - 1 - 2 + 1 = n - 2
      BY <1>0, <1>2
    <3>2. Len(SubSeq(s, 2, n - 1)) = n - 2
      BY <1>0, <1>2, <3>1
    <3>3. ASSUME NEW i \in 1 .. (n - 2) PROVE SubSeq(s, 2, n - 1)[i] = s[i + 1]
      <4>1. i \in 1 .. (n - 1 - 2 + 1) /\ 2 + i - 1 = i + 1
        BY <1>0, <1>2
      <4> QED
        BY <1>0, <1>2, <4>1
    <3> QED
      BY <2>1, <3>2, <3>3
  <2>3. DOMAIN e = 1 .. (n - 2)
    <3>1. e \in Seq(Char)
      BY <1>0, <1>2, <2>1
    <3> QED
      BY <2>2, <3>1
  <2> HIDE DEF e
  <2>4. ASSUME s[1] = Quote, s[n] = Quote
        PROVE  OneString(s) <=> s[n - 1] # Backslash /\ ~HasBareQuote(e)
    <3>1. OneString(s) <=>
            \A i \in 2 .. n : s[i] = Quote => (s[i - 1] # Backslash <=> i = n)
      BY <1>2, <2>4 DEF OneString
    <3>2. HasBareQuote(e) <=>
            \E i \in 1 .. (n - 2) : e[i] = Quote /\ (i = 1 \/ e[i - 1] # Backslash)
      BY <2>3 DEF HasBareQuote
    <3>3. ASSUME NEW i \in 1 .. (n - 2)
          PROVE  (i = 1 \/ e[i - 1] # Backslash) <=> s[i] # Backslash
      <4>1. CASE i = 1
        BY <1>0, <2>4, <4>1
      <4>2. CASE i # 1
        <5>1. i - 1 \in 1 .. (n - 2) /\ (i - 1) + 1 = i
          BY <1>0, <4>2
        <5>2. e[i - 1] = s[i]
          BY <2>2, <5>1
        <5> QED
          BY <4>2, <5>2
      <4> QED
        BY <4>1, <4>2
    <3>4. HasBareQuote(e) <=> \E i \in 1 .. (n - 2) : s[i + 1] = Quote /\ s[i] # Backslash
      BY <2>2, <3>2, <3>3
    <3>5. HasBareQuote(e) <=> \E i \in 2 .. (n - 1) : s[i] = Quote /\ s[i - 1] # Backslash
      <4>1. \A i \in 1 .. (n - 2) : i + 1 \in 2 .. (n - 1) /\ (i + 1) - 1 = i
        BY <1>0
      <4>2. \A i \in 2 .. (n - 1) : i - 1 \in 1 .. (n - 2) /\ (i - 1) + 1 = i
        BY <1>0
      <4> QED
        BY <3>4, <4>1, <4>2
    <3>6. \A i \in 2 .. n : i = n \/ (i \in 2 .. (n - 1) /\ i # n)
      BY <1>0
    <3>7. n \in 2 .. n /\ \A i \in 2 .. (n - 1) : i \in 2 .. n /\ i # n
      BY <1>0, <1>2
    <3> QED
      BY <2>4, <3>1, <3>5, <3>6, <3>7
  <2>5. LooksQuoted(s) <=> s[1] = Quote /\ s[n] = Quote /\ s[n - 1] # Backslash
    BY <1>2 DEF LooksQuoted, EndsEscaped
  <2>6. OneString(s) <=> LooksQuoted(s) /\ ~HasBareQuote(e)
    <3>1. OneString(s) => s[1] = Quote /\ s[n] = Quote
      BY DEF OneString
    <3> QED
      BY <2>4, <2>5, <3>1
  <2> QED
    BY <2>1, <2>6 DEF PortalText, unquoteTXT, e
<1> QED
  BY <1>0, <1>1, <1>2

\* What quoting and unquoting make of a value: quoted again, the text unquotes to
\* the same text, and unless a backslash escapes the closing quote the quotes
\* come back as they were.
LEMMA TextReturns ==
  ASSUME NEW w \in Seq(Char), QuotedOnce(w)
  PROVE  LET t == quoteTXT(w)
             u == unquoteTXT(t)
         IN  /\ t \in Seq(Char) /\ quoteTXT(u) \in Seq(Char)
             /\ unquoteTXT(u) = u /\ unquoteTXT(quoteTXT(u)) = u
             /\ ~EndsEscaped(t) => quoteTXT(u) = t
<1> DEFINE t == quoteTXT(w)
           e == Escaped(w)
<1>0. Quote \in Char /\ <<Quote>> \in Seq(Char) /\ Quote # Backslash
  BY CharAssumption
<1>e. e \in Seq(Char) /\ Unescaped(e) = w /\ ~HasBareQuote(e)
      /\ (EndsInBackslash(e) <=> EndsInBackslash(w))
  BY EscapedType, EscapedWhole
<1> HIDE DEF e
<1>1. CASE ~LooksQuoted(w) /\ ~EndsInBackslash(w)
  <2>2. t = <<Quote>> \o e \o <<Quote>>
    BY <1>1 DEF quoteTXT, e
  <2>3. t \in Seq(Char) /\ LooksQuoted(t) /\ Inner(t) = e
    BY <1>1, <1>e, <2>2, Wrapped
  <2>6. t = quoteTXT(w)
    OBVIOUS
  <2> HIDE DEF t
  <2>4. unquoteTXT(t) = w
    BY <1>e, <2>3 DEF unquoteTXT
  <2>5. unquoteTXT(w) = w
    BY <1>1 DEF unquoteTXT
  <2> QED
    BY <2>3, <2>4, <2>5, <2>6
<1>2. CASE ~LooksQuoted(w) /\ EndsInBackslash(w)
  <2> DEFINE f == Escaped(t)
  <2>1. t = <<Quote>> \o e \o <<Quote>>
    BY <1>2 DEF quoteTXT, e
  <2>2. t \in Seq(Char) /\ EndsEscaped(t) /\ ~EndsInBackslash(t)
    BY <1>2, <1>e, <2>1, WrappedOpen
  <2>8. t = quoteTXT(w)
    OBVIOUS
  <2> HIDE DEF t
  <2>3. unquoteTXT(t) = t /\ ~LooksQuoted(t)
    BY <2>2 DEF unquoteTXT, LooksQuoted
  <2>4. f \in Seq(Char) /\ Unescaped(f) = t /\ ~HasBareQuote(f) /\ ~EndsInBackslash(f)
    BY <2>2, EscapedType, EscapedWhole
  <2>5. quoteTXT(t) = <<Quote>> \o f \o <<Quote>>
    BY <2>3 DEF quoteTXT
  <2> HIDE DEF f
  <2>6. quoteTXT(t) \in Seq(Char) /\ LooksQuoted(quoteTXT(t)) /\ Inner(quoteTXT(t)) = f
    BY <2>4, <2>5, Wrapped
  <2>7. unquoteTXT(quoteTXT(t)) = t
    BY <2>4, <2>6 DEF unquoteTXT
  <2> QED
    BY <2>2, <2>3, <2>6, <2>7, <2>8
<1>3. CASE LooksQuoted(w)
  <2>1. t = w
    BY <1>3 DEF quoteTXT
  <2> DEFINE u == unquoteTXT(w)
  <2>2. CASE u = w
    BY <2>1, <2>2
  <2>3. CASE u # w
    <3>1. ~LooksQuoted(u)
      BY <2>3, PortalAgrees DEF QuotedOnce
    <3>2. ~HasBareQuote(Inner(w)) /\ u = Unescaped(Inner(w))
      BY <2>3 DEF unquoteTXT
    <3>3. Inner(w) \in Seq(Char) /\ <<Quote>> \o Inner(w) \o <<Quote>> = w
      BY <1>3, Unwrapped
    <3>4. Escaped(u) = Inner(w)
      BY <3>2, <3>3, UnescapedWhole
    <3> HIDE DEF u
    <3>5. quoteTXT(u) = w
      BY <3>1, <3>3, <3>4 DEF quoteTXT
    <3>6. unquoteTXT(u) = u
      BY <3>1 DEF unquoteTXT
    <3> QED
      BY <2>1, <3>5, <3>6 DEF u
  <2> QED
    BY <2>2, <2>3
<1> QED
  BY <1>1, <1>2, <1>3

-----------------------------------------------------------------------------
(* Targets of every type.                                                  *)

\* The record of a target, and the form in which Records reports the target.
Record(t) == Kept(toRdata(t))
Reported(t) == requoted(fromRdata(Record(t)))

\* No text of a wish is in quotes twice.
Once(T) == type = "TXT" => \A t \in T : QuotedOnce(t)

\* What a source may ask for at a time, and at the start.
Wishes == {T \in Source[type] : Once(T)} \cup {{}}

\* The targets it may ask for, as AdjustEndpoints leaves them.
Targets == AdjustedOf(UNION Wishes)

\* The record types of the model.
LEMMA Types ==
  ASSUME type \in DOMAIN Source
  PROVE  type \in {"TXT"} \cup {"A", "AAAA"} \cup {"CNAME", "NS", "MX", "SRV"}
BY SourceAssumption DEF AddressFamily, NumberCount

\* What becomes of a TXT target.
LEMMA OfText ==
  ASSUME type = "TXT", NEW t
  PROVE  /\ Record(t) = PortalText(t) /\ Kept(t) = PortalText(t)
         /\ Reported(t) = quoteTXT(PortalText(t))
         /\ fromRdata(t) = t /\ requoted(t) = quoteTXT(t)
         /\ keyTarget(t) = unquoteTXT(t)
         /\ PlannerValue(t) = t /\ IsValid(t)
BY DEF Record, Reported, Kept, toRdata, fromRdata, requoted, keyTarget, PlannerValue, IsValid

\* What becomes of an address.
LEMMA OfAddress ==
  ASSUME type \in {"A", "AAAA"}, NEW t
  PROVE  /\ Record(t) = [t EXCEPT !.host = Canonical[t.host]]
         /\ Reported(t) = Record(t)
         /\ fromRdata(t) = t /\ requoted(t) = t /\ keyTarget(t) = t
         /\ PlannerValue(t) = IF Family[t.host] # 0 THEN Record(t) ELSE t
         /\ IsValid(t) <=> Family[t.host] = AddressFamily[type]
         /\ AddressFamily[type] # 0
<1>1. type # "TXT" /\ AddressFamily[type] # 0
  BY DEF AddressFamily
<1>2. toRdata(t) = [t EXCEPT !.host = Canonical[t.host]]
  BY <1>1 DEF toRdata
<1>3. Record(t) = toRdata(t)
  BY <1>1 DEF Record, Kept
<1>4. fromRdata(t) = t /\ requoted(t) = t /\ keyTarget(t) = t
  BY <1>1 DEF fromRdata, requoted, keyTarget
<1>5. Reported(t) = Record(t)
  BY <1>1 DEF Reported, fromRdata, requoted
<1>6. IsValid(t) <=> Family[t.host] = AddressFamily[type]
  BY <1>1 DEF IsValid
<1>7. PlannerValue(t) = IF Family[t.host] # 0 THEN Record(t) ELSE t
  BY <1>2, <1>3 DEF PlannerValue
<1> QED
  BY <1>1, <1>2, <1>3, <1>4, <1>5, <1>6, <1>7

\* What becomes of a target with a host name.
LEMMA OfHost ==
  ASSUME type \in {"CNAME", "NS", "MX", "SRV"}, NEW t
  PROVE  /\ Record(t) = [t EXCEPT !.dotted = TRUE]
         /\ Reported(t) = [Record(t) EXCEPT !.dotted = FALSE]
         /\ fromRdata(Record(t)) = Reported(t)
         /\ requoted(t) = t /\ keyTarget(t) = t /\ PlannerValue(t) = t
<1>1. type \notin {"TXT", "A", "AAAA"}
  OBVIOUS
<1>2. Record(t) = [t EXCEPT !.dotted = TRUE]
  BY <1>1 DEF Record, Kept, toRdata
<1>3. fromRdata(Record(t)) = [Record(t) EXCEPT !.dotted = FALSE]
  BY <1>1 DEF fromRdata
<1>4. Reported(t) = fromRdata(Record(t))
  BY <1>1 DEF Reported, requoted
<1>5. requoted(t) = t /\ keyTarget(t) = t /\ PlannerValue(t) = t
  BY <1>1 DEF requoted, keyTarget, PlannerValue
<1> QED
  BY <1>2, <1>3, <1>4, <1>5

\* A wish asks for targets of the source.
LEMMA WishedFor == UNION Wishes \subseteq UNION Source[type]
BY DEF Wishes

\* A TXT target is reported in a form that stands for the same text, is found
\* under it, and is the target itself unless its closing quote is escaped.
LEMMA TextTargets ==
  ASSUME type = "TXT", type \in DOMAIN Source, NEW t \in Targets
  PROVE  /\ Record(Reported(t)) = Record(t)
         /\ keyTarget(Reported(t)) = Record(t)
         /\ keyTarget(fromRdata(Record(t))) = Record(t)
         /\ ~Unclosed(t) => Reported(t) = t
<1>1. PICK w \in UNION Wishes : t = quoteTXT(w)
  BY OfText DEF Targets, AdjustedOf
<1>2. w \in Seq(Char) /\ QuotedOnce(w)
  <2>1. w \in Seq(Char)
    BY <1>1, WishedFor, SourceAssumption
  <2> QED
    BY <1>1, <2>1 DEF Wishes, Once
<1> DEFINE u == unquoteTXT(t)
<1>3. /\ t \in Seq(Char) /\ quoteTXT(u) \in Seq(Char)
      /\ unquoteTXT(u) = u /\ unquoteTXT(quoteTXT(u)) = u
      /\ ~EndsEscaped(t) => quoteTXT(u) = t
  BY <1>1, <1>2, TextReturns
<1> HIDE DEF u
<1>4. Record(t) = u /\ Reported(t) = quoteTXT(u)
  BY <1>3, OfText, PortalAgrees DEF u
<1>5. Record(quoteTXT(u)) = u
  BY <1>3, OfText, PortalAgrees
<1>6. keyTarget(quoteTXT(u)) = u /\ keyTarget(fromRdata(u)) = u
  BY <1>3, OfText
<1> QED
  BY <1>3, <1>4, <1>5, <1>6 DEF Unclosed

\* The targets of the other types are the records the source asks for.
LEMMA OtherTargets ==
  ASSUME type # "TXT", type \in DOMAIN Source, NEW t \in Targets
  PROVE  t \in UNION Source[type] /\ t = [nums |-> t.nums, host |-> t.host, dotted |-> FALSE]
<1>1. PICK w \in UNION Wishes : t = w
  BY DEF Targets, AdjustedOf, requoted
<1> QED
  BY <1>1, WishedFor, SourceAssumption

\* The addresses among the targets are known.
LEMMA AddressTargets ==
  ASSUME type \in {"A", "AAAA"}, type \in DOMAIN Source, NEW t \in Targets
  PROVE  t.host \in DOMAIN Family /\ t.nums = <<>>
<1>1. t \in UNION Source[type]
  BY OtherTargets
<1>2. type \in DOMAIN AddressFamily
  BY DEF AddressFamily
<1> QED
  BY <1>1, <1>2, SourceAssumption

\* Another host in a target.
LEMMA HostReplaced ==
  ASSUME NEW n, NEW a, NEW d, NEW t, t = [nums |-> n, host |-> a, dotted |-> d],
         NEW h, NEW u, u = [t EXCEPT !.host = h]
  PROVE  u = [nums |-> n, host |-> h, dotted |-> d]
<1>1. DOMAIN u = {"nums", "host", "dotted"}
  OBVIOUS
<1>2. u.nums = n
  OBVIOUS
<1>3. u.host = h
  OBVIOUS
<1>4. u.dotted = d
  OBVIOUS
<1> QED
  BY <1>1, <1>2, <1>3, <1>4

\* A printed address is a valid one, and is printed as it is.
LEMMA PrintedAddress ==
  ASSUME type \in {"A", "AAAA"}, type \in DOMAIN Source, NEW t \in Targets, IsValid(t)
  PROVE  /\ Record(Record(t)) = Record(t) /\ IsValid(Record(t))
         /\ PlannerValue(Record(t)) = Record(t) /\ PlannerValue(t) = Record(t)
         /\ Record(t).host = Canonical[t.host]
         /\ Canonical[t.host] = t.host => Record(t) = t
<1> DEFINE h == Canonical[t.host]
           r == Record(t)
<1>1. Family[t.host] = AddressFamily[type] /\ AddressFamily[type] # 0
  BY OfAddress
<1>2. t.host \in DOMAIN Family
  BY AddressTargets
<1>3. Canonical[h] = h /\ Family[h] = Family[t.host]
  BY <1>1, <1>2, AddressAssumption
<1>4. t = [nums |-> t.nums, host |-> t.host, dotted |-> FALSE]
  BY OtherTargets
<1>5. r = [t EXCEPT !.host = h]
  BY OfAddress
<1> HIDE DEF h, r
<1>6. r = [nums |-> t.nums, host |-> h, dotted |-> FALSE]
  <2> DEFINE n == t.nums
             a == t.host
  <2>1. t = [nums |-> n, host |-> a, dotted |-> FALSE]
    BY <1>4
  <2> HIDE DEF n, a
  <2>2. r = [nums |-> n, host |-> h, dotted |-> FALSE]
    BY <1>5, <2>1, HostReplaced
  <2> QED
    BY <2>2 DEF n
<1>7. r.host = h
  BY <1>6
<1>8. [r EXCEPT !.host = h] = r
  <2> DEFINE n == t.nums
             u == [r EXCEPT !.host = h]
  <2>1. r = [nums |-> n, host |-> h, dotted |-> FALSE]
    BY <1>6
  <2> HIDE DEF n
  <2>2. u = [nums |-> n, host |-> h, dotted |-> FALSE]
    <3>1. u = [r EXCEPT !.host = h]
      OBVIOUS
    <3> HIDE DEF u
    <3> QED
      BY <2>1, <3>1, HostReplaced
  <2> QED
    BY <2>1, <2>2
<1>9. Record(r) = r
  BY <1>3, <1>7, <1>8, OfAddress
<1>10. IsValid(r)
  BY <1>1, <1>3, <1>7, OfAddress
<1>11. PlannerValue(r) = r
  BY <1>9, OfAddress
<1>12. PlannerValue(t) = r
  BY <1>1, OfAddress DEF r
<1>13. h = t.host => r = t
  BY <1>4, <1>6
<1> QED
  BY <1>7, <1>9, <1>10, <1>11, <1>12, <1>13 DEF h, r

\* But for an address and for text that ends in a backslash, a target is reported
\* as the source writes it.
LEMMA ReportedBack ==
  ASSUME type \in DOMAIN Source, NEW t \in Targets, IsValid(t), AsPrinted(t), ~Unclosed(t)
  PROVE  Reported(t) = t
<1>1. CASE type = "TXT"
  BY <1>1, TextTargets
<1>2. CASE type \in {"A", "AAAA"}
  BY <1>2, OfAddress, PrintedAddress DEF AsPrinted
<1>3. CASE type \in {"CNAME", "NS", "MX", "SRV"}
  <2>1. t = [nums |-> t.nums, host |-> t.host, dotted |-> FALSE]
    BY <1>3, OtherTargets
  <2>2. Reported(t) = [[t EXCEPT !.dotted = TRUE] EXCEPT !.dotted = FALSE]
    BY <1>3, OfHost
  <2> QED
    BY <2>1, <2>2
<1> QED
  BY <1>1, <1>2, <1>3, Types

\* The reported form of a target is valid and stands for the same record.
LEMMA ReportedRecord ==
  ASSUME type \in DOMAIN Source, NEW t \in Targets, IsValid(t)
  PROVE  Record(Reported(t)) = Record(t) /\ IsValid(Reported(t))
<1>1. CASE type \in {"A", "AAAA"}
  BY <1>1, OfAddress, PrintedAddress
<1>2. CASE type = "TXT"
  BY <1>2, TextTargets, OfText
<1>3. CASE type \notin {"TXT", "A", "AAAA"}
  BY <1>3, ReportedBack DEF AsPrinted, Unclosed
<1> QED
  BY <1>1, <1>2, <1>3

\* The record is indexed under the key of the reported form.
LEMMA IndexedKey ==
  ASSUME type \in DOMAIN Source, NEW t \in Targets, IsValid(t)
  PROVE  keyTarget(fromRdata(Record(t))) = keyTarget(Reported(t))
<1>1. CASE type = "TXT"
  BY <1>1, TextTargets
<1>2. CASE type \in {"A", "AAAA"}
  BY <1>2, OfAddress
<1>3. CASE type \in {"CNAME", "NS", "MX", "SRV"}
  BY <1>3, OfHost
<1> QED
  BY <1>1, <1>2, <1>3, Types

\* Targets reported under the same key have the same record.
LEMMA KeyOfOneRecord ==
  ASSUME type \in DOMAIN Source, NEW t \in Targets, NEW u \in Targets,
         IsValid(t), IsValid(u), keyTarget(Reported(t)) = keyTarget(Reported(u))
  PROVE  Record(t) = Record(u)
<1>1. CASE type = "TXT"
  BY <1>1, TextTargets
<1>2. CASE type # "TXT"
  <2>1. Reported(t) = Reported(u)
    BY <1>2, OfAddress, OfHost, Types
  <2>2. Record(Reported(t)) = Record(Reported(u))
    BY <2>1
  <2> QED
    BY <2>2, ReportedRecord
<1> QED
  BY <1>1, <1>2

\* A target the planner takes for a reported one has its record.
LEMMA PlannedAlike ==
  ASSUME type \in DOMAIN Source, NEW t \in Targets, NEW u \in Targets, IsValid(t),
         PlannerValue(Reported(t)) = PlannerValue(u)
  PROVE  IsValid(u) /\ Record(u) = Record(t)
<1>1. CASE type \in {"A", "AAAA"}
  <2>1. PlannerValue(Reported(t)) = Record(t) /\ Record(t).host = Canonical[t.host]
    BY <1>1, OfAddress, PrintedAddress
  <2>2. IsValid(Record(t)) /\ Record(Record(t)) = Record(t)
    BY <1>1, PrintedAddress
  <2>3. Family[Record(t).host] = AddressFamily[type] /\ AddressFamily[type] # 0
    BY <1>1, <2>2, OfAddress
  <2>4. CASE Family[u.host] = 0
    <3>1. Record(t) = u
      BY <1>1, <2>1, <2>4, OfAddress
    <3> QED
      BY <2>3, <2>4, <3>1
  <2>5. CASE Family[u.host] # 0
    <3>1. Record(u) = Record(t)
      BY <1>1, <2>1, <2>5, OfAddress
    <3>2. Record(u).host = Canonical[u.host]
      <4>1. u = [nums |-> u.nums, host |-> u.host, dotted |-> FALSE]
        BY <1>1, OtherTargets
      <4>2. Record(u) = [u EXCEPT !.host = Canonical[u.host]]
        BY <1>1, OfAddress
      <4> QED
        BY <4>1, <4>2
    <3>3. Family[Canonical[u.host]] = Family[u.host]
      BY <1>1, <2>5, AddressTargets, AddressAssumption
    <3>4. Family[u.host] = AddressFamily[type]
      BY <2>3, <3>1, <3>2, <3>3
    <3> QED
      BY <1>1, <3>1, <3>4, OfAddress
  <2> QED
    BY <2>4, <2>5
<1>2. CASE type \notin {"A", "AAAA"}
  <2>1. Reported(t) = u
    BY <1>2, OfText, OfHost, Types
  <2> QED
    BY <2>1, ReportedRecord
<1> QED
  BY <1>1, <1>2

-----------------------------------------------------------------------------
(* One round.                                                              *)

\* The valid targets out of a wish.
ValidOf(T) == {w \in AdjustedOf(T) : IsValid(w)}

\* The records of a wish are the records of its valid targets.
LEMMA RecordsOfValid ==
  ASSUME NEW T
  PROVE  RecordsOf(T) = {Record(t) : t \in ValidOf(T)}
BY DEF RecordsOf, ValidOf, Record

\* A wish is made of targets.
LEMMA WishTargets ==
  ASSUME NEW T \in Wishes
  PROVE  AdjustedOf(T) \subseteq Targets /\ ValidOf(T) \subseteq Targets
BY DEF Wishes, Targets, AdjustedOf, ValidOf

\* Records reports the targets whose records are stored.
LEMMA ListedTargets ==
  ASSUME NEW T, stored = RecordsOf(T)
  PROVE  Listed = {Reported(t) : t \in ValidOf(T)}
BY RecordsOfValid DEF Listed, Reported

\* A round removes the records of the targets it deletes, and no other.
LEMMA RemovesDeleted ==
  ASSUME type \in DOMAIN Source, NEW T \in Wishes, stored = RecordsOf(T), NEW R \in Removals
  PROVE  R = {Record(t) : t \in {v \in ValidOf(T) : Reported(v) \in Deletes}}
<1> DEFINE At(k) == {r \in stored : keyTarget(fromRdata(r)) = k}
           DeletedAt(k) == {t \in Deletes : keyTarget(t) = k}
           Less(m, n) == IF m < n THEN m ELSE n
           K == {keyTarget(t) : t \in Deletes}
<1>1. /\ R \subseteq UNION {At(k) : k \in K}
      /\ \A k \in K : Cardinality(R \cap At(k))
                        = Less(Cardinality(At(k)), Cardinality(DeletedAt(k)))
  BY DEF Removals
<1>2. /\ ValidOf(T) \subseteq Targets /\ \A t \in ValidOf(T) : IsValid(t)
      /\ stored = {Record(t) : t \in ValidOf(T)}
      /\ Deletes \subseteq {Reported(t) : t \in ValidOf(T)}
  <2>1. Deletes \subseteq Listed
    BY DEF Deletes
  <2> QED
    BY <2>1, RecordsOfValid, WishTargets, ListedTargets DEF ValidOf
<1>3. ASSUME NEW t \in ValidOf(T), Reported(t) \in Deletes
      PROVE  LET k == keyTarget(Reported(t))
             IN  /\ k \in K /\ At(k) = {Record(t)} /\ DeletedAt(k) = {Reported(t)}
                 /\ Record(t) \in R
  <2> DEFINE k == keyTarget(Reported(t))
  <2>1. k \in K
    BY <1>3
  <2>2. ASSUME NEW u \in ValidOf(T), keyTarget(Reported(u)) = k PROVE Record(u) = Record(t)
    BY <1>2, <2>2, KeyOfOneRecord
  <2>3. \A u \in ValidOf(T) : keyTarget(fromRdata(Record(u))) = keyTarget(Reported(u))
    BY <1>2, IndexedKey
  <2>4. At(k) = {Record(t)}
    BY <1>2, <2>2, <2>3
  <2>5. DeletedAt(k) = {Reported(t)}
    <3>1. ASSUME NEW u \in ValidOf(T), keyTarget(Reported(u)) = k
          PROVE  Reported(u) = Reported(t)
      BY <2>2, <3>1 DEF Reported
    <3> QED
      BY <1>2, <1>3, <3>1
  <2>6. Record(t) \in R
    <3>1. Cardinality(At(k)) = 1 /\ Cardinality(DeletedAt(k)) = 1
      BY <2>4, <2>5, FS_Singleton
    <3>2. Cardinality(R \cap At(k)) = 1
      <4> HIDE DEF k, K, At, DeletedAt
      <4>1. Cardinality(R \cap At(k)) = Less(1, 1)
        BY <1>1, <2>1, <3>1
      <4> QED
        BY <4>1
    <3>3. R \cap At(k) # {}
      <4> HIDE DEF k, At
      <4>1. ASSUME R \cap At(k) = {} PROVE FALSE
        <5>1. Cardinality({}) = 1
          BY <3>2, <4>1
        <5> QED
          BY <5>1, FS_EmptySet
      <4> QED
        BY <4>1
    <3> QED
      BY <2>4, <3>3
  <2> QED
    BY <2>1, <2>4, <2>5, <2>6
<1>4. ASSUME NEW r \in R
      PROVE  \E t \in ValidOf(T) : Reported(t) \in Deletes /\ r = Record(t)
  <2>1. PICK d \in Deletes : r \in At(keyTarget(d))
    BY <1>1
  <2>2. PICK t \in ValidOf(T) : d = Reported(t)
    BY <1>2
  <2>3. At(keyTarget(d)) = {Record(t)}
    BY <1>3, <2>2
  <2> QED
    BY <2>1, <2>2, <2>3
<1> QED
  BY <1>3, <1>4

\* When the planner finds nothing to do, the records are those of the wish.
LEMMA NothingMissing ==
  ASSUME type \in DOMAIN Source, NEW T \in Wishes, stored = RecordsOf(T),
         wanted \in Wishes, NothingToDo
  PROVE  stored = RecordsOf(wanted)
<1>1. /\ ValidOf(T) \subseteq Targets /\ \A t \in ValidOf(T) : IsValid(t)
      /\ AdjustedOf(wanted) \subseteq Targets
      /\ stored = {Record(t) : t \in ValidOf(T)}
      /\ RecordsOf(wanted) = {Record(t) : t \in ValidOf(wanted)}
  BY RecordsOfValid, WishTargets DEF ValidOf
<1>2. {PlannerValue(t) : t \in Listed} = {PlannerValue(u) : u \in AdjustedOf(wanted)}
  BY DEF NothingToDo, Adjusted
<1>3. Listed = {Reported(t) : t \in ValidOf(T)}
  BY ListedTargets
<1>4. ASSUME NEW t \in ValidOf(T), NEW u \in AdjustedOf(wanted),
             PlannerValue(Reported(t)) = PlannerValue(u)
      PROVE  u \in ValidOf(wanted) /\ Record(u) = Record(t)
  BY <1>1, <1>4, PlannedAlike DEF ValidOf
<1>5. ASSUME NEW t \in ValidOf(T) PROVE \E u \in ValidOf(wanted) : Record(u) = Record(t)
  <2>1. \E u \in AdjustedOf(wanted) : PlannerValue(Reported(t)) = PlannerValue(u)
    BY <1>2, <1>3
  <2> QED
    BY <1>4, <2>1
<1>6. ASSUME NEW u \in ValidOf(wanted) PROVE \E t \in ValidOf(T) : Record(t) = Record(u)
  <2>1. u \in AdjustedOf(wanted)
    BY DEF ValidOf
  <2>2. \E l \in Listed : PlannerValue(l) = PlannerValue(u)
    BY <1>2, <2>1
  <2>3. \E t \in ValidOf(T) : PlannerValue(Reported(t)) = PlannerValue(u)
    BY <1>3, <2>2
  <2>4. PICK t \in ValidOf(T) : PlannerValue(Reported(t)) = PlannerValue(u)
    BY <2>3
  <2>5. Record(u) = Record(t)
    BY <1>4, <2>1, <2>4
  <2> QED
    BY <2>5
<1> QED
  BY <1>1, <1>5, <1>6

\* A round leaves the records of the wish, whatever it found.
LEMMA RoundFaithful ==
  ASSUME type \in DOMAIN Source, NEW T \in Wishes, stored = RecordsOf(T),
         wanted \in Wishes, NEW R \in Removals
  PROVE  (stored \ R) \cup {Record(t) : t \in {c \in Creates : IsValid(c)}}
           = RecordsOf(wanted)
<1>0. R = {Record(t) : t \in {v \in ValidOf(T) : Reported(v) \in Deletes}}
  BY RemovesDeleted
<1>1. CASE NothingToDo
  <2>1. Deletes = {} /\ Creates = {}
    BY <1>1 DEF Deletes, Creates
  <2>2. R = {}
    BY <1>0, <2>1
  <2>3. stored = RecordsOf(wanted)
    BY <1>1, NothingMissing
  <2> QED
    BY <2>1, <2>2, <2>3
<1>2. CASE ~NothingToDo
  <2>1. /\ ValidOf(T) \subseteq Targets /\ \A t \in ValidOf(T) : IsValid(t)
        /\ stored = {Record(t) : t \in ValidOf(T)}
        /\ RecordsOf(wanted) = {Record(t) : t \in ValidOf(wanted)}
        /\ Listed = {Reported(t) : t \in ValidOf(T)}
    BY RecordsOfValid, WishTargets, ListedTargets DEF ValidOf
  <2>2. /\ Deletes = Listed \ AdjustedOf(wanted)
        /\ Creates = AdjustedOf(wanted) \ Listed
    BY <1>2 DEF Deletes, Creates, Adjusted
  <2>3. ASSUME NEW t \in ValidOf(T)
        PROVE  Record(Reported(t)) = Record(t) /\ IsValid(Reported(t))
    BY <2>1, ReportedRecord
  <2>4. ASSUME NEW t \in ValidOf(T), NEW u \in ValidOf(T), Record(t) = Record(u)
        PROVE  Reported(t) = Reported(u)
    BY <2>4 DEF Reported
  <2>5. ASSUME NEW t \in ValidOf(T), Record(t) \notin R
        PROVE  Record(t) \in RecordsOf(wanted)
    <3>1. Reported(t) \notin Deletes
      BY <1>0, <2>5
    <3>2. Reported(t) \in AdjustedOf(wanted)
      BY <2>1, <2>2, <3>1
    <3>3. Reported(t) \in ValidOf(wanted)
      BY <2>3, <3>2 DEF ValidOf
    <3>4. Record(Reported(t)) \in RecordsOf(wanted)
      BY <2>1, <3>3
    <3> QED
      BY <2>3, <3>4
  <2>6. ASSUME NEW c \in Creates, IsValid(c) PROVE Record(c) \in RecordsOf(wanted)
    <3>1. c \in ValidOf(wanted)
      BY <2>2, <2>6 DEF ValidOf
    <3> QED
      BY <2>1, <3>1
  <2>7. ASSUME NEW u \in ValidOf(wanted)
        PROVE  Record(u) \in (stored \ R) \cup {Record(t) : t \in {c \in Creates : IsValid(c)}}
    <3>1. u \in AdjustedOf(wanted) /\ IsValid(u)
      BY DEF ValidOf
    <3>2. CASE u \notin Listed
      BY <2>2, <3>1, <3>2
    <3>3. CASE u \in Listed
      <4>1. PICK t \in ValidOf(T) : u = Reported(t)
        BY <2>1, <3>3
      <4>2. Record(u) = Record(t)
        BY <2>3, <4>1
      <4>3. u \notin Deletes
        BY <2>2, <3>1
      <4>4. Record(t) \notin R
        <5> SUFFICES ASSUME NEW v \in ValidOf(T), Reported(v) \in Deletes, Record(t) = Record(v)
                     PROVE  FALSE
          BY <1>0
        <5>1. Reported(v) = u
          BY <2>4, <4>1
        <5> QED
          BY <4>3, <5>1
      <4> QED
        BY <2>1, <4>2, <4>4
    <3> QED
      BY <3>2, <3>3
  <2> QED
    BY <2>1, <2>5, <2>6, <2>7
<1> QED
  BY <1>1, <1>2

-----------------------------------------------------------------------------
(* The invariants.                                                         *)

\* The Portal holds the records of one wish, in full: of the present one after
\* a round, else of the one of the last round.
HoldsWish ==
  /\ wanted \in Wishes
  /\ \E T \in Wishes : stored = RecordsOf(T)
  /\ synced => stored = RecordsOf(wanted)

RInv == type \in DOMAIN Source /\ (~nested => HoldsWish)

\* The records of a wish are what they were as long as the type is.
LEMMA RecordsKept ==
  ASSUME type' = type, NEW T
  PROVE  RecordsOf(T)' = RecordsOf(T)
BY DEF RecordsOf, AdjustedOf, requoted, IsValid, Kept, toRdata

\* At the start nothing is stored, and nothing wanted.
LEMMA RInit == Init => RInv
<1> SUFFICES ASSUME Init PROVE RInv
  OBVIOUS
<1>1. RecordsOf({}) = {}
  BY DEF RecordsOf, AdjustedOf
<1> QED
  BY <1>1 DEF Init, RInv, HoldsWish, Wishes

\* Every step keeps the invariant.
LEMMA RNext == RInv /\ [Next]_vars => RInv'
<1> SUFFICES ASSUME RInv, [Next]_vars PROVE RInv'
  OBVIOUS
<1>0. type' = type
  BY DEF Next, Sync, Want, vars
<1>1. Wishes' = Wishes /\ \A T : RecordsOf(T)' = RecordsOf(T)
  BY <1>0, RecordsKept DEF Wishes, Once
<1>2. CASE Sync
  <2> SUFFICES ASSUME ~nested PROVE HoldsWish'
    BY <1>0, <1>2 DEF RInv, Sync
  <2>1. PICK R \in Removals :
          stored' = (stored \ R) \cup {Kept(toRdata(t)) : t \in {c \in Creates : IsValid(c)}}
    BY <1>2 DEF Sync
  <2>2. PICK T \in Wishes : stored = RecordsOf(T)
    BY DEF RInv, HoldsWish
  <2>3. stored' = RecordsOf(wanted)
    BY <2>1, <2>2, RoundFaithful DEF RInv, HoldsWish, Record
  <2>4. wanted' = wanted /\ wanted \in Wishes
    BY <1>2 DEF Sync, RInv, HoldsWish
  <2> QED
    BY <1>1, <2>3, <2>4 DEF HoldsWish
<1>3. ASSUME NEW T \in Source[type], Want(T) PROVE RInv'
  <2> SUFFICES ASSUME ~nested' PROVE HoldsWish'
    BY <1>0 DEF RInv
  <2>1. wanted' = T /\ synced' = FALSE /\ stored' = stored
    BY <1>3 DEF Want
  <2>2. ~nested /\ Once(T)
    BY <1>3 DEF Want, Once
  <2>3. T \in Wishes
    BY <2>2 DEF Wishes
  <2> QED
    BY <1>1, <2>1, <2>2, <2>3 DEF RInv, HoldsWish
<1>4. CASE UNCHANGED vars
  <2>1. wanted' = wanted /\ stored' = stored /\ synced' = synced /\ nested' = nested
    BY <1>4 DEF vars
  <2> QED
    BY <1>0, <1>1, <2>1 DEF RInv, HoldsWish
<1> QED
  BY <1>2, <1>3, <1>4 DEF Next

\* The invariant holds throughout.
LEMMA RInvariant == Spec => []RInv
<1> QED
  BY RInit, RNext, PTL DEF Spec

\* After a round the Portal has the records of the wanted targets, however they
\* are written, and nothing of what was wanted before, as long as no text was
\* asked for in quotes twice.
THEOREM RoundIsFaithful == Spec => []Faithful
<1>1. RInv => Faithful
  BY DEF RInv, HoldsWish, Faithful
<1> QED
  BY <1>1, RInvariant, PTL

\* A second round over the same targets deletes and creates nothing but what is
\* rejected again, text that ends in a backslash, and next to a rejected target an
\* address in an unusual spelling: other TXT values in or without their quotes and
\* host names keep their form through Records, and addresses are compared by value.
THEOREM SecondRoundIdle == Spec => []PlanIsStable
<1>1. ASSUME RInv PROVE PlanIsStable
  <2> SUFFICES ASSUME synced, ~nested, ~NothingToDo
               PROVE  /\ \A t \in Creates : ~IsValid(t) \/ Rewritten(t)
                      /\ \A d \in Deletes : \E t \in Adjusted : Rewritten(t) /\ d = Reported(t)
    BY DEF PlanIsStable, Deletes, Creates, Reported, Record
  <2>1. type \in DOMAIN Source /\ wanted \in Wishes /\ stored = RecordsOf(wanted)
    BY <1>1 DEF RInv, HoldsWish
  <2>2. Listed = {Reported(t) : t \in ValidOf(wanted)}
    BY <2>1, ListedTargets
  <2>3. AdjustedOf(wanted) \subseteq Targets /\ ValidOf(wanted) \subseteq Targets
    BY <2>1, WishTargets
  <2>4. ValidOf(wanted) = {w \in Adjusted : IsValid(w)}
    BY DEF ValidOf, Adjusted
  <2>5. CASE \/ \A t \in ValidOf(wanted) : AsPrinted(t)
             \/ \E u \in Adjusted : ~IsValid(u)
    <3>1. ASSUME NEW t \in ValidOf(wanted) PROVE Rewritten(t) \/ Reported(t) = t
      <4>1. t \in Targets /\ IsValid(t)
        BY <2>3, <2>4
      <4>2. CASE Unclosed(t)
        BY <4>1, <4>2 DEF Rewritten
      <4>3. CASE ~AsPrinted(t)
        BY <2>5, <4>1, <4>3 DEF Rewritten
      <4>4. CASE ~Unclosed(t) /\ AsPrinted(t)
        BY <2>1, <4>1, <4>4, ReportedBack
      <4> QED
        BY <4>2, <4>3, <4>4
    <3>2. ASSUME NEW c \in Creates PROVE ~IsValid(c) \/ Rewritten(c)
      <4>1. c \in Adjusted /\ c \notin Listed
        BY DEF Creates
      <4> QED
        BY <2>2, <2>4, <3>1, <4>1
    <3>3. ASSUME NEW d \in Deletes
          PROVE  \E t \in Adjusted : Rewritten(t) /\ d = Reported(t)
      <4>1. d \in Listed /\ d \notin Adjusted
        BY DEF Deletes
      <4>2. PICK t \in ValidOf(wanted) : d = Reported(t)
        BY <2>2, <4>1
      <4> QED
        BY <2>4, <3>1, <4>1, <4>2
    <3> QED
      BY <3>2, <3>3
  <2>6. CASE /\ ~\A t \in ValidOf(wanted) : AsPrinted(t)
             /\ \A u \in Adjusted : IsValid(u)
    <3>1. type \in {"A", "AAAA"}
      BY <2>6 DEF AsPrinted
    <3>2. ValidOf(wanted) = Adjusted /\ Adjusted \subseteq Targets
      BY <2>3, <2>4, <2>6 DEF Adjusted
    <3>3. ASSUME NEW t \in Adjusted PROVE PlannerValue(Reported(t)) = PlannerValue(t)
      <4>1. t \in Targets /\ IsValid(t)
        BY <2>6, <3>2
      <4> QED
        BY <2>1, <3>1, <4>1, OfAddress, PrintedAddress
    <3>4. {PlannerValue(l) : l \in Listed} = {PlannerValue(t) : t \in Adjusted}
      BY <2>2, <3>2, <3>3
    <3> QED
      BY <3>4 DEF NothingToDo
  <2> QED
    BY <2>5, <2>6
<1> QED
  BY <1>1, RInvariant, PTL

\* A round deletes no record of a wanted target, although the delete is looked
\* up by a key that leaves out how the target is written. An address in an
\* unusual spelling and text that ends in a backslash are excepted.
THEOREM WantedRecordsStay == Spec => []WantedStays
<1>1. ASSUME RInv PROVE WantedStays
  <2> SUFFICES ASSUME ~nested, NEW d \in Deletes, NEW t \in Adjusted,
                      IsValid(t), AsPrinted(t), ~Unclosed(t), Record(t) = Record(d)
               PROVE  FALSE
    BY DEF WantedStays, Record
  <2>1. PICK T \in Wishes : stored = RecordsOf(T)
    BY <1>1 DEF RInv, HoldsWish
  <2>2. type \in DOMAIN Source /\ wanted \in Wishes
    BY <1>1 DEF RInv, HoldsWish
  <2>3. d \in Listed /\ d \notin Adjusted
    BY DEF Deletes
  <2>4. PICK s \in ValidOf(T) : d = Reported(s)
    BY <2>1, <2>3, ListedTargets
  <2>5. s \in Targets /\ IsValid(s) /\ t \in Targets
    BY <2>1, <2>2, WishTargets DEF ValidOf, Adjusted
  <2>6. Record(d) = Record(s)
    BY <2>2, <2>4, <2>5, ReportedRecord
  <2>7. Reported(t) = d
    BY <2>4, <2>6 DEF Reported
  <2>8. Reported(t) = t
    BY <2>2, <2>5, ReportedBack
  <2> QED
    BY <2>3, <2>7, <2>8
<1> QED
  BY <1>1, RInvariant, PTL

=============================================================================
