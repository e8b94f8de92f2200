--------------------------- MODULE FlattenLemmas ---------------------------
(***************************************************************************)
(* Lemmas about FlattenSeq, which the models use for the parts of a stream *)
(* of messages or bytes: what it is for one sequence more.  FlattenSeq is  *)
(* a recursive function, so that the lemmas are proved by induction on the *)
(* number of sequences, as the least number for which they fail.           *)
(***************************************************************************)
EXTENDS Integers, Sequences, SequencesExt, SequenceTheorems, WellFoundedInduction, TLAPS

---------------------------------------------------------------------------
(* Induction *)

\* A set of naturals has a least member.
LEMMA MinNat ==
  ASSUME NEW T, T \subseteq Nat, T # {}
  PROVE  \E n \in T : \A m \in T : n <= m
<1> DEFINE R == {ss \in Nat \X Nat : ss[1] < ss[2]}
<1>1. IsWellFoundedOn(R, Nat)
  BY NatLessThanWellFounded DEF OpToRel
<1> HIDE DEF R
<1>2. \E x \in T : \A y \in T : ~ (<<y, x>> \in R)
  BY <1>1, WFMin
<1>3. PICK x \in T : \A y \in T : ~ (<<y, x>> \in R)
  BY <1>2
<1>4. \A y \in T : x <= y
  <2> TAKE y \in T
  <2>1. <<y, x>> \in Nat \X Nat
    OBVIOUS
  <2>2. ~(y < x)
    BY <1>3, <2>1 DEF R
  <2> QED BY <2>2
<1> QED
  BY <1>4

\* A set that has 0 and every successor is that of all naturals
LEMMA Induction ==
  ASSUME NEW P, 0 \in P, \A n \in Nat : n \in P => n + 1 \in P
  PROVE  Nat \subseteq P
<1> SUFFICES ASSUME Nat \ P # {} PROVE FALSE
  OBVIOUS
<1> DEFINE T == Nat \ P
<1>1. PICK n \in T : \A m \in T : n <= m
  BY MinNat
<1>2. n # 0 /\ n - 1 \in Nat
  BY <1>1
<1>3. n - 1 \in P
  BY <1>1, <1>2
<1> QED
  BY <1>1, <1>2, <1>3

---------------------------------------------------------------------------
(* FlattenSeq *)

\* The concatenations of the first members of ss; FlattenSeq takes the last.
Joined(s, t) == s \o t
Flattening(ss, n, f) == f = [i \in 1 .. n |-> IF i = 1 THEN ss[i] ELSE Joined(f[i - 1], ss[i])]

LEMMA FlattenIs ==
  ASSUME NEW ss, Len(ss) # 0, NEW f, Flattening(ss, Len(ss), f)
  PROVE  \E g : Flattening(ss, Len(ss), g) /\ FlattenSeq(ss) = g[Len(ss)]
<1> DEFINE g == CHOOSE g : g = [i \in 1 .. Len(ss) |-> IF i = 1 THEN ss[i] ELSE g[i - 1] \o ss[i]]
<1>1. g = [i \in 1 .. Len(ss) |-> IF i = 1 THEN ss[i] ELSE g[i - 1] \o ss[i]]
  BY DEF Flattening, Joined
<1>2. FlattenSeq(ss) = g[Len(ss)]
  BY DEF FlattenSeq
<1> QED
  BY <1>1, <1>2 DEF Flattening, Joined

LEMMA FlattenHas ==
  ASSUME NEW ss, NEW n \in Nat \ {0}, Len(ss) = n, \E f : Flattening(ss, n, f)
  PROVE  \E g : Flattening(ss, n, g) /\ FlattenSeq(ss) = g[n]
BY FlattenIs

LEMMA FlatteningValues ==
  ASSUME NEW ss, NEW n \in Nat, NEW f, Flattening(ss, n, f)
  PROVE  /\ n > 0 => f[1] = ss[1]
         /\ \A i \in 2 .. n : i - 1 \in 1 .. n /\ f[i] = Joined(f[i - 1], ss[i])
<1> DEFINE e(i) == IF i = 1 THEN ss[i] ELSE Joined(f[i - 1], ss[i])
<1>1. f = [i \in 1 .. n |-> e(i)]
  BY DEF Flattening
<1>2. \A i \in 1 .. n : f[i] = e(i)
  <2> HIDE DEF e
  <2> QED BY <1>1
<1> QED
  BY <1>2

LEMMA FlatteningFirst ==
  ASSUME NEW ss, NEW n \in Nat, NEW f, Flattening(ss, n, f)
  PROVE  n > 0 => f[1] = ss[1]
BY FlatteningValues

LEMMA FlatteningType ==
  ASSUME NEW S, NEW ss \in Seq(Seq(S)), NEW n \in 0 .. Len(ss), NEW f, Flattening(ss, n, f)
  PROVE  \A i \in 1 .. n : f[i] \in Seq(S)
<1> DEFINE P == {i \in Nat : i + 1 \in 1 .. n => f[i + 1] \in Seq(S)}
<1>1. \A i \in 1 .. n : ss[i] \in Seq(S)
  OBVIOUS
<1>2. 0 \in P
  <2>1. n \in Nat /\ n <= Len(ss)
    OBVIOUS
  <2>2. n > 0 => f[1] = ss[1]
    BY <2>1, FlatteningFirst
  <2>3. n > 0 => f[1] \in Seq(S)
    BY <1>1, <2>1, <2>2
  <2> QED
    BY <2>1, <2>3
<1>3. \A i \in Nat : i \in P => i + 1 \in P
  <2> SUFFICES ASSUME NEW i \in Nat, i \in P, i + 2 \in 1 .. n
               PROVE  f[i + 2] \in Seq(S)
    OBVIOUS
  <2>1. f[i + 1] \in Seq(S) /\ ss[i + 2] \in Seq(S)
    BY <1>1
  <2>2. i + 2 \in 2 .. n /\ (i + 2) - 1 = i + 1
    OBVIOUS
  <2>3. f[i + 2] = Joined(f[i + 1], ss[i + 2])
    <3>1. n \in Nat
      OBVIOUS
    <3> QED
      BY <2>2, <3>1, FlatteningValues
  <2> QED
    BY <2>1, <2>3, ConcatProperties DEF Joined
<1>4. Nat \subseteq P
  BY <1>2, <1>3, Induction
<1>5. \A i \in 1 .. n : i - 1 \in Nat /\ (i - 1) + 1 = i
  OBVIOUS
<1> QED
  BY <1>4, <1>5

LEMMA FlatteningExists ==
  ASSUME NEW ss, NEW n \in Nat
  PROVE  \E f : Flattening(ss, n, f)
<1> DEFINE P == {m \in Nat : \E f : Flattening(ss, m, f)}
<1>1. 0 \in P
  <2> DEFINE f == [i \in 1 .. 0 |-> <<>>]
  <2>1. Flattening(ss, 0, f)
    BY DEF Flattening
  <2> QED
    BY <2>1
<1>2. \A m \in Nat : m \in P => m + 1 \in P
  <2> SUFFICES ASSUME NEW m \in Nat, NEW f, Flattening(ss, m, f)
               PROVE  \E g : Flattening(ss, m + 1, g)
    OBVIOUS
  <2> DEFINE e(i) == IF i = 1 THEN ss[i] ELSE Joined(f[i - 1], ss[i])
             g == [i \in 1 .. m + 1 |-> e(i)]
  <2>1. f = [i \in 1 .. m |-> e(i)]
    BY DEF Flattening
  <2>2. \A i \in 1 .. m : f[i] = g[i]
    <3> HIDE DEF e
    <3> QED BY <2>1
  <2>3. \A i \in 1 .. m + 1 : e(i) = IF i = 1 THEN ss[i] ELSE Joined(g[i - 1], ss[i])
    <3> SUFFICES ASSUME NEW i \in 1 .. m + 1, i # 1
                 PROVE  f[i - 1] = g[i - 1]
      OBVIOUS
    <3>1. i - 1 \in 1 .. m
      OBVIOUS
    <3> HIDE DEF g
    <3> QED
      BY <2>2, <3>1
  <2>4. g = [i \in 1 .. m + 1 |-> e(i)]
    OBVIOUS
  <2>5. Flattening(ss, m + 1, g)
    <3> HIDE DEF g, e
    <3> QED BY <2>3, <2>4 DEF Flattening
  <2> QED
    BY <2>5
<1>3. Nat \subseteq P
  <2> HIDE DEF P
  <2> QED
    BY <1>1, <1>2, Induction
<1> QED
  BY <1>3

\* Two functions agree on the first n numbers.
Agree(s, t, n) == \A i \in 1 .. n : s[i] = t[i]

LEMMA FlatteningUnique ==
  ASSUME NEW ss, NEW tt, NEW m \in Nat, NEW n \in Nat, m <= n, Agree(ss, tt, m),
         NEW f, NEW g, Flattening(ss, m, f), Flattening(tt, n, g)
  PROVE  Agree(f, g, m)
<1>0. \A i \in 1 .. m : ss[i] = tt[i]
  BY DEF Agree
<1> DEFINE P == {i \in Nat : i + 1 \in 1 .. m => f[i + 1] = g[i + 1]}
<1>1. 0 \in P
  BY <1>0, FlatteningValues
<1>2. \A i \in Nat : i \in P => i + 1 \in P
  <2> SUFFICES ASSUME NEW i \in Nat, i \in P, i + 2 \in 1 .. m
               PROVE  f[i + 2] = g[i + 2]
    OBVIOUS
  <2>1. f[i + 1] = g[i + 1] /\ ss[i + 2] = tt[i + 2]
    BY <1>0
  <2>2. i + 2 \in 2 .. m /\ i + 2 \in 2 .. n /\ (i + 2) - 1 = i + 1
    OBVIOUS
  <2>3. f[i + 2] = Joined(f[i + 1], ss[i + 2]) /\ g[i + 2] = Joined(g[i + 1], tt[i + 2])
    BY <2>2, FlatteningValues
  <2> QED
    BY <2>1, <2>3
<1>3. Nat \subseteq P
  BY <1>1, <1>2, Induction
<1>4. \A i \in 1 .. m : i - 1 \in Nat /\ (i - 1) + 1 = i
  OBVIOUS
<1> QED
  BY <1>3, <1>4 DEF Agree

\* FlattenSeq of a sequence of sequences, and of one more.
LEMMA FlattenType ==
  ASSUME NEW S, NEW ss \in Seq(Seq(S))
  PROVE  FlattenSeq(ss) \in Seq(S)
<1>1. CASE Len(ss) = 0
  BY <1>1, EmptySeq DEF FlattenSeq
<1>2. CASE Len(ss) # 0
  <2> PICK n \in Nat \ {0} : n = Len(ss)
    BY <1>2
  <2>1. \E f : Flattening(ss, n, f)
    BY FlatteningExists
  <2>2. PICK f : Flattening(ss, n, f) /\ FlattenSeq(ss) = f[n]
    BY <2>1, FlattenHas
  <2>3. n \in 1 .. n /\ n \in 0 .. Len(ss)
    OBVIOUS
  <2>4. f[n] \in Seq(S)
    BY <2>2, <2>3, FlatteningType
  <2> QED
    BY <2>2, <2>4
<1> QED
  BY <1>1, <1>2

LEMMA FlattenAppend ==
  ASSUME NEW S, NEW ss \in Seq(Seq(S)), NEW s \in Seq(S)
  PROVE  FlattenSeq(Append(ss, s)) = FlattenSeq(ss) \o s
<1> DEFINE tt == Append(ss, s)
<1>1. /\ tt \in Seq(Seq(S)) /\ Len(tt) = Len(ss) + 1 /\ tt[Len(ss) + 1] = s
      /\ \A i \in 1 .. Len(ss) : ss[i] = tt[i]
  BY AppendProperties
<1> HIDE DEF tt
<1> PICK n \in Nat : n = Len(ss)
  OBVIOUS
<1> PICK m \in Nat \ {0} : m = n + 1
  OBVIOUS
<1>2. PICK g : Flattening(tt, m, g) /\ FlattenSeq(tt) = g[m]
  <2>1. \E f : Flattening(tt, m, f)
    BY FlatteningExists
  <2>2. Len(tt) = m
    BY <1>1
  <2> QED
    BY <2>1, <2>2, FlattenHas
<1>3. CASE n = 0
  <2>1. FlattenSeq(tt) = s
    <3>1. m = 1 /\ tt[1] = s
      BY <1>1, <1>3
    <3>2. g[1] = tt[1]
      BY <1>2, <3>1, FlatteningValues
    <3> QED
      BY <1>2, <3>1, <3>2
  <2>2. FlattenSeq(ss) = <<>>
    <3>1. Len(ss) = 0
      BY <1>3
    <3>2. ss = <<>>
      BY <3>1, EmptySeq
    <3> QED
      BY <3>1, <3>2 DEF FlattenSeq
  <2>3. <<>> \o s = s
    BY ConcatEmptySeq
  <2> QED
    BY <2>1, <2>2, <2>3 DEF tt
<1>4. CASE n # 0
  <2>1. PICK f : Flattening(ss, n, f) /\ FlattenSeq(ss) = f[n]
    <3>1. \E f : Flattening(ss, n, f)
      BY FlatteningExists
    <3> QED
      BY <3>1, <1>4, FlattenHas
  <2>2. f[n] = g[n]
    <3>1. n <= m /\ n \in 1 .. n
      BY <1>4
    <3>2. Agree(ss, tt, n)
      BY <1>1 DEF Agree
    <3>3. Agree(f, g, n)
      <4>1. n \in Nat /\ m \in Nat
        OBVIOUS
      <4>2. Flattening(ss, n, f) /\ Flattening(tt, m, g)
        BY <1>2, <2>1
      <4> HIDE DEF Flattening
      <4> QED
        BY <3>1, <3>2, <4>1, <4>2, FlatteningUnique
    <3> QED
      BY <3>1, <3>3 DEF Agree
  <2>3. m \in 2 .. m /\ m - 1 = n /\ tt[m] = s
    BY <1>1, <1>4
  <2>4. g[m] = Joined(g[n], s)
    <3>1. g[m] = Joined(g[m - 1], tt[m])
      BY <1>2, <2>3, FlatteningValues
    <3> QED
      BY <2>3, <3>1
  <2> QED
    BY <1>2, <2>1, <2>2, <2>4 DEF tt, Joined
<1> QED
  BY <1>3, <1>4

---------------------------------------------------------------------------
(* Sequences of sequences *)

\* A set that has the empty sequence and every longer one is that of all.
LEMMA SeqInduction ==
  ASSUME NEW S, NEW P, <<>> \in P, \A s \in Seq(S), e \in S : s \in P => Append(s, e) \in P
  PROVE  Seq(S) \subseteq P
<1> DEFINE N == {n \in Nat : \A s \in Seq(S) : Len(s) = n => s \in P}
<1>1. 0 \in N
  BY EmptySeq
<1>2. \A n \in Nat : n \in N => n + 1 \in N
  <2> SUFFICES ASSUME NEW n \in Nat, n \in N, NEW s \in Seq(S), Len(s) = n + 1
               PROVE  s \in P
    OBVIOUS
  <2> DEFINE t == SubSeq(s, 1, n)
  <2>1. s[n + 1] \in S
    OBVIOUS
  <2>2. t \in Seq(S) /\ Len(t) = n /\ \A i \in 1 .. n : t[i] = s[i]
    BY SubSeqProperties
  <2> HIDE DEF t
  <2>3. Append(t, s[n + 1]) \in Seq(S) /\ Len(Append(t, s[n + 1])) = n + 1
    BY <2>1, <2>2
  <2>4. \A i \in 1 .. n + 1 : Append(t, s[n + 1])[i] = s[i]
    BY <2>1, <2>2, AppendProperties
  <2>5. Append(t, s[n + 1]) = s
    BY <2>3, <2>4, SeqEqual
  <2>6. t \in P
    BY <2>2
  <2> QED
    BY <2>1, <2>2, <2>5, <2>6
<1>3. Nat \subseteq N
  <2> HIDE DEF N
  <2> QED BY <1>1, <1>2, Induction
<1> QED
  BY <1>3

LEMMA ConcatThree ==
  ASSUME NEW S, NEW a \in Seq(S), NEW b \in Seq(S), NEW c \in Seq(S)
  PROVE  (a \o b) \o c = a \o (b \o c)
BY ConcatAssociative

Regrouped(x, y, z) == (x \o y) \o z = x \o (y \o z)

LEMMA Regroup ==
  ASSUME NEW S, NEW x \in Seq(S), NEW y \in Seq(S), NEW z \in Seq(S)
  PROVE  Regrouped(x, y, z)
BY ConcatThree DEF Regrouped

\* The concatenation of two sequences of sequences
LEMMA FlattenConcat ==
  ASSUME NEW S, NEW a \in Seq(Seq(S)), NEW b \in Seq(Seq(S))
  PROVE  FlattenSeq(a \o b) = FlattenSeq(a) \o FlattenSeq(b)
<1>0. \A x, y, z \in Seq(S) : (x \o y) \o z = x \o (y \o z)
  <2>1. \A x, y, z \in Seq(S) : Regrouped(x, y, z)
    BY Regroup, Zenon
  <2> QED
    BY <2>1 DEF Regrouped
<1> DEFINE P == {s \in Seq(Seq(S)) : FlattenSeq(Joined(a, s)) = Joined(FlattenSeq(a), FlattenSeq(s))}
<1>1. <<>> \in P
  <2>1. FlattenSeq(<<>>) = <<>> /\ FlattenSeq(a) \in Seq(S)
    BY FlattenType, EmptySeq DEF FlattenSeq
  <2>2. <<>> \in Seq(Seq(S)) /\ a \o <<>> = a /\ FlattenSeq(a) \o <<>> = FlattenSeq(a)
    BY <2>1, ConcatEmptySeq, EmptySeq
  <2> QED
    BY <2>1, <2>2 DEF Joined
<1>2. \A s \in Seq(Seq(S)), e \in Seq(S) : s \in P => Append(s, e) \in P
  <2> SUFFICES ASSUME NEW s \in Seq(Seq(S)), NEW e \in Seq(S), s \in P
               PROVE  FlattenSeq(a \o Append(s, e)) = FlattenSeq(a) \o FlattenSeq(Append(s, e))
    BY AppendProperties DEF Joined
  <2>1. a \o Append(s, e) = Append(a \o s, e) /\ a \o s \in Seq(Seq(S))
    <3>1. a \o (s \o <<e>>) = (a \o s) \o <<e>> /\ a \o s \in Seq(Seq(S))
      BY ConcatAssociative, ConcatProperties
    <3> QED
      BY <3>1, AppendIsConcat
  <2>2. PICK fa \in Seq(S) : fa = FlattenSeq(a)
    BY FlattenType
  <2>3. PICK fs \in Seq(S) : fs = FlattenSeq(s)
    BY FlattenType
  <2>4. FlattenSeq(a \o s) = fa \o fs
    BY <2>2, <2>3 DEF Joined
  <2>5. FlattenSeq(Append(a \o s, e)) = (fa \o fs) \o e
    BY <2>1, <2>4, FlattenAppend
  <2>6. FlattenSeq(Append(s, e)) = fs \o e
    BY <2>3, FlattenAppend
  <2>7. (fa \o fs) \o e = fa \o (fs \o e)
    BY <1>0
  <2> QED
    BY <2>1, <2>2, <2>5, <2>6, <2>7
<1>3. Seq(Seq(S)) \subseteq P
  <2> HIDE DEF P
  <2> QED BY <1>1, <1>2, SeqInduction
<1> QED
  BY <1>3 DEF Joined

LEMMA FlattenOne ==
  ASSUME NEW S, NEW s \in Seq(S)
  PROVE  FlattenSeq(<<s>>) = s /\ FlattenSeq(<<>>) = <<>>
<1>1. FlattenSeq(<<>>) = <<>>
  BY DEF FlattenSeq
<1>2. Append(<<>>, s) = <<s>> /\ <<>> \in Seq(Seq(S)) /\ <<>> \o s = s
  BY ConcatEmptySeq, EmptySeq
<1>3. FlattenSeq(Append(<<>>, s)) = FlattenSeq(<<>>) \o s
  BY <1>2, FlattenAppend
<1> QED
  BY <1>1, <1>2, <1>3

---------------------------------------------------------------------------
(* A member moves from one part of a sequence to the other, or leaves it.  *)

LEMMA MoveHead ==
  ASSUME NEW S, NEW s \in Seq(S), NEW t \in Seq(S), t # <<>>
  PROVE  Append(s, Head(t)) \o Tail(t) = s \o t
<1> PICK m \in Nat : m = Len(s)
  OBVIOUS
<1> PICK n \in Nat : n = Len(t) /\ n >= 1
  BY EmptySeq
<1> PICK a \in Seq(S) : a = Append(s, Head(t))
  BY HeadTailProperties, AppendProperties
<1> PICK b \in Seq(S) : b = Tail(t)
  BY HeadTailProperties
<1>1. Len(a) = m + 1 /\ a[m + 1] = t[1] /\ \A k \in 1 .. m : a[k] = s[k]
  BY HeadTailProperties, AppendProperties
<1>2. Len(b) = n - 1 /\ \A k \in 1 .. n - 1 : b[k] = t[k + 1]
  BY HeadTailProperties
<1> PICK c \in Seq(S) : c = a \o b
  BY ConcatProperties
<1> PICK d \in Seq(S) : d = s \o t
  BY ConcatProperties
<1>3. /\ Len(c) = Len(a) + Len(b)
      /\ \A k \in 1 .. Len(a) + Len(b) : c[k] = IF k <= Len(a) THEN a[k] ELSE b[k - Len(a)]
  BY ConcatProperties
<1>4. Len(d) = m + n /\ \A k \in 1 .. m + n : d[k] = IF k <= m THEN s[k] ELSE t[k - m]
  BY ConcatProperties
<1>5. Len(c) = m + n
  BY <1>1, <1>2, <1>3
<1>6. \A k \in 1 .. m + n : c[k] = IF k <= m + 1 THEN a[k] ELSE b[k - (m + 1)]
  BY <1>1, <1>2, <1>3, <1>5
<1>7. ASSUME NEW k \in 1 .. m + n
      PROVE  c[k] = d[k]
  <2>1. CASE k <= m
    <3>1. k \in 1 .. m /\ k <= m + 1
      BY <2>1
    <3> QED
      BY <1>1, <1>4, <1>6, <2>1, <3>1
  <2>2. CASE k = m + 1
    <3>1. ~(k <= m) /\ k - m = 1 /\ k <= m + 1
      BY <2>2
    <3> QED
      BY <1>1, <1>4, <1>6, <2>2, <3>1
  <2>3. CASE k > m + 1
    <3>1. ~(k <= m) /\ ~(k <= m + 1) /\ k - (m + 1) \in 1 .. n - 1 /\ (k - (m + 1)) + 1 = k - m
      BY <2>3
    <3>2. c[k] = b[k - (m + 1)] /\ d[k] = t[k - m]
      BY <1>4, <1>6, <3>1
    <3>3. b[k - (m + 1)] = t[(k - (m + 1)) + 1]
      BY <1>2, <3>1
    <3> QED
      BY <3>1, <3>2, <3>3
  <2> QED
    BY <2>1, <2>2, <2>3
<1>8. c = d
  BY <1>4, <1>5, <1>7, SeqEqual
<1> QED
  BY <1>8

LEMMA OneMember ==
  ASSUME NEW S, NEW e \in S
  PROVE  <<e>> \in Seq(S) /\ Len(<<e>>) = 1 /\ <<e>>[1] = e
OBVIOUS

LEMMA TailOfConcat ==
  ASSUME NEW S, NEW s \in Seq(S), NEW t \in Seq(S), s # <<>>
  PROVE  Tail(s) \o t = Tail(s \o t) /\ Head(s \o t) = Head(s) /\ s \o t # <<>>
<1> PICK h \in S : h = Head(s)
  BY HeadTailProperties
<1> PICK r \in Seq(S) : r = Tail(s)
  BY HeadTailProperties
<1>0. \A x, y, z \in Seq(S) : (x \o y) \o z = x \o (y \o z)
  BY ConcatThree, SMTT(30)
<1> PICK e \in Seq(S) : e = <<h>>
  BY OneMember
<1>1. s = e \o r
  <2>1. \A u \in Seq(S) : u # <<>> => u = <<Head(u)>> \o Tail(u)
    OBVIOUS
  <2> QED
    BY <2>1
<1> PICK u \in Seq(S) : u = r \o t
  BY ConcatProperties
<1>2. s \o t = e \o u
  BY <1>0, <1>1
<1>3. \A x \in S, v \in Seq(S) : <<x>> \o v # <<>> /\ Head(<<x>> \o v) = x /\ Tail(<<x>> \o v) = v
  OBVIOUS
<1>4. e \o u # <<>> /\ Head(e \o u) = h /\ Tail(e \o u) = u
  BY <1>3
<1> QED
  BY <1>2, <1>4

LEMMA FlattenFirst ==
  ASSUME NEW S, NEW ss \in Seq(Seq(S)), ss # <<>>
  PROVE  FlattenSeq(ss) = Head(ss) \o FlattenSeq(Tail(ss))
<1> PICK h \in Seq(S) : h = Head(ss)
  BY HeadTailProperties
<1> PICK t \in Seq(Seq(S)) : t = Tail(ss)
  BY HeadTailProperties
<1> PICK z \in Seq(Seq(S)) : z = <<>>
  BY EmptySeq
<1> PICK o \in Seq(Seq(S)) : o = <<h>>
  BY OneMember
<1>1. Append(z, h) = o
  <2>1. Append(z, h) = z \o o
    BY AppendIsConcat
  <2> QED
    BY <2>1, ConcatEmptySeq
<1>2. o \o t = ss
  <2>1. Append(z, Head(ss)) \o Tail(ss) = z \o ss
    BY MoveHead
  <2> QED
    BY <1>1, <2>1, ConcatEmptySeq
<1>3. FlattenSeq(o \o t) = FlattenSeq(o) \o FlattenSeq(t)
  BY FlattenConcat
<1> QED
  BY <1>2, <1>3, FlattenOne

\* Sequences that agree as a whole agree in parts of the same length.
Parts(x, a, b) ==
  /\ Len(x) = Len(a) + Len(b)
  /\ \A k \in 1 .. Len(a) : x[k] = a[k]
  /\ \A k \in 1 .. Len(b) : x[Len(a) + k] = b[k]

LEMMA ConcatAt ==
  ASSUME NEW S, NEW a \in Seq(S), NEW b \in Seq(S), NEW x, x = a \o b
  PROVE  x \in Seq(S) /\ Parts(x, a, b)
<1>1. /\ x \in Seq(S) /\ Len(x) = Len(a) + Len(b)
      /\ \A k \in 1 .. Len(a) + Len(b) : x[k] = IF k <= Len(a) THEN a[k] ELSE b[k - Len(a)]
  BY ConcatProperties
<1> PICK n \in Nat : n = Len(a)
  OBVIOUS
<1> PICK i \in Nat : i = Len(b)
  OBVIOUS
<1>2. \A k \in 1 .. n + i : x[k] = IF k <= n THEN a[k] ELSE b[k - n]
  BY <1>1
<1>3. \A k \in 1 .. n : k \in 1 .. n + i /\ k <= n
  OBVIOUS
<1>4. \A k \in 1 .. i : n + k \in 1 .. n + i /\ ~(n + k <= n) /\ (n + k) - n = k
  OBVIOUS
<1>5. \A k \in 1 .. n : x[k] = a[k]
  BY <1>2, <1>3
<1>6. \A k \in 1 .. i : x[n + k] = b[k]
  BY <1>2, <1>4
<1> QED
  BY <1>1, <1>5, <1>6 DEF Parts

\* Sequences that agree as a whole agree in parts of the same length.
LEMMA Cancel ==
  ASSUME NEW S, NEW a \in Seq(S), NEW b \in Seq(S), NEW c \in Seq(S), NEW d \in Seq(S),
         Len(a) = Len(c), a \o b = c \o d
  PROVE  a = c /\ b = d
<1> PICK x : x = a \o b /\ x = c \o d
  OBVIOUS
<1>a. Parts(x, a, b)
  BY ConcatAt, Zenon
<1>b. Parts(x, c, d)
  BY ConcatAt, Zenon
<1>1. /\ Len(x) = Len(a) + Len(b)
      /\ \A k \in 1 .. Len(a) : x[k] = a[k]
      /\ \A k \in 1 .. Len(b) : x[Len(a) + k] = b[k]
  BY <1>a DEF Parts
<1>2. /\ Len(x) = Len(c) + Len(d)
      /\ \A k \in 1 .. Len(c) : x[k] = c[k]
      /\ \A k \in 1 .. Len(d) : x[Len(c) + k] = d[k]
  BY <1>b DEF Parts
<1>3. Len(a) \in Nat /\ Len(b) \in Nat /\ Len(d) \in Nat
  OBVIOUS
<1>4. Len(b) = Len(d)
  BY <1>1, <1>2, <1>3
<1>5. \A k \in 1 .. Len(a) : a[k] = c[k]
  BY <1>1, <1>2
<1>6. \A k \in 1 .. Len(b) : b[k] = d[k]
  BY <1>1, <1>2, <1>4
<1> QED
  BY <1>4, <1>5, <1>6, SeqEqual
=============================================================================
