------------------------- MODULE EventMessageProofs -------------------------
(***************************************************************************)
(* The parameter pump of mpiSpecTcl loses no event, gives each one to the  *)
(* event sink pipeline as the worker unpacked it and keeps the order of a  *)
(* worker's events and of the state changes: proofs for any workers, any   *)
(* events, any batch size and any number of vectors.                       *)
(***************************************************************************)
EXTENDS EventMessage, FlattenLemmas, FiniteSetTheorems

---------------------------------------------------------------------------
(* Total *)

\* The sums of the first members of s; Total takes the last one.
Summing(s, n, f) == f = [k \in 0 .. n |-> IF k = 0 THEN 0 ELSE f[k - 1] + s[k]]

LEMMA TotalIs ==
  ASSUME NEW s, NEW n, Len(s) = n, \E f : Summing(s, n, f)
  PROVE  \E g : Summing(s, n, g) /\ Total(s) = g[n]
<1> DEFINE g == CHOOSE g : g = [k \in 0 .. Len(s) |-> IF k = 0 THEN 0 ELSE g[k - 1] + s[k]]
<1>1. g = [k \in 0 .. Len(s) |-> IF k = 0 THEN 0 ELSE g[k - 1] + s[k]]
  BY DEF Summing
<1>2. Total(s) = g[Len(s)]
  BY DEF Total
<1> QED
  BY <1>1, <1>2 DEF Summing

LEMMA SummingValues ==
  ASSUME NEW s, NEW n \in Nat, NEW f, Summing(s, n, f)
  PROVE  f[0] = 0 /\ \A k \in 1 .. n : f[k] = f[k - 1] + s[k]
<1> DEFINE e(k) == IF k = 0 THEN 0 ELSE f[k - 1] + s[k]
<1>1. f = [k \in 0 .. n |-> e(k)]
  BY DEF Summing
<1>2. \A k \in 0 .. n : f[k] = e(k)
  <2> HIDE DEF e
  <2> QED BY <1>1
<1> QED
  BY <1>2

LEMMA SummingExists ==
  ASSUME NEW s, NEW n \in Nat
  PROVE  \E f : Summing(s, n, f)
<1> DEFINE P == {m \in Nat : \E f : Summing(s, m, f)}
<1>1. 0 \in P
  <2> DEFINE f == [k \in 0 .. 0 |-> 0]
  <2>1. Summing(s, 0, f)
    BY DEF Summing
  <2> QED
    BY <2>1
<1>2. \A m \in Nat : m \in P => m + 1 \in P
  <2> SUFFICES ASSUME NEW m \in Nat, NEW f, Summing(s, m, f)
               PROVE  \E g : Summing(s, m + 1, g)
    OBVIOUS
  <2> DEFINE e(k) == IF k = 0 THEN 0 ELSE f[k - 1] + s[k]
             g == [k \in 0 .. m + 1 |-> e(k)]
  <2>1. f = [k \in 0 .. m |-> e(k)]
    BY DEF Summing
  <2>2. \A k \in 0 .. m : f[k] = g[k]
    <3> HIDE DEF e
    <3> QED BY <2>1
  <2>3. \A k \in 0 .. m + 1 : e(k) = IF k = 0 THEN 0 ELSE g[k - 1] + s[k]
    <3> SUFFICES ASSUME NEW k \in 0 .. m + 1, k # 0
                 PROVE  f[k - 1] = g[k - 1]
      OBVIOUS
    <3>1. k - 1 \in 0 .. m
      OBVIOUS
    <3> HIDE DEF g
    <3> QED
      BY <2>2, <3>1
  <2>4. g = [k \in 0 .. m + 1 |-> e(k)]
    OBVIOUS
  <2>5. Summing(s, m + 1, g)
    <3> HIDE DEF g, e
    <3> QED BY <2>3, <2>4 DEF Summing
  <2> QED
    BY <2>5
<1>3. Nat \subseteq P
  <2> HIDE DEF P
  <2> QED
    BY <1>1, <1>2, Induction
<1> QED
  BY <1>3

\* Sums of the same numbers are the same.
LEMMA SummingUnique ==
  ASSUME NEW s, NEW t, NEW m \in Nat, NEW n \in Nat, m <= n, Agree(s, t, m),
         NEW f, NEW g, Summing(s, m, f), Summing(t, n, g)
  PROVE  f[m] = g[m]
<1>0. \A i \in 1 .. m : s[i] = t[i]
  BY DEF Agree
<1>f. f[0] = 0 /\ \A k \in 1 .. m : f[k] = f[k - 1] + s[k]
  BY SummingValues
<1>g. g[0] = 0 /\ \A k \in 1 .. n : g[k] = g[k - 1] + t[k]
  BY SummingValues
<1> DEFINE P == {i \in Nat : i <= m => f[i] = g[i]}
<1>1. 0 \in P
  BY <1>f, <1>g
<1>2. \A i \in Nat : i \in P => i + 1 \in P
  <2> SUFFICES ASSUME NEW i \in Nat, i \in P, i + 1 <= m
               PROVE  f[i + 1] = g[i + 1]
    OBVIOUS
  <2>1. i + 1 \in 1 .. m /\ i + 1 \in 1 .. n /\ (i + 1) - 1 = i
    OBVIOUS
  <2>2. f[i + 1] = f[i] + s[i + 1] /\ g[i + 1] = g[i] + t[i + 1]
    BY <1>f, <1>g, <2>1
  <2>3. f[i] = g[i] /\ s[i + 1] = t[i + 1]
    BY <1>0, <2>1
  <2> QED
    BY <2>2, <2>3
<1>3. Nat \subseteq P
  BY <1>1, <1>2, Induction
<1> QED
  BY <1>3

LEMMA TotalAppend ==
  ASSUME NEW s \in Seq(Nat), NEW x \in Nat
  PROVE  Total(Append(s, x)) = Total(s) + x /\ Total(<<>>) = 0
<1> PICK n \in Nat : n = Len(s)
  OBVIOUS
<1> DEFINE t == Append(s, x)
<1>1. Len(t) = n + 1 /\ t[n + 1] = x /\ Agree(s, t, n)
  BY AppendProperties DEF Agree
<1> HIDE DEF t
<1>2. PICK f : Summing(s, n, f) /\ Total(s) = f[n]
  BY SummingExists, TotalIs
<1>3. PICK g : Summing(t, n + 1, g) /\ Total(t) = g[n + 1]
  <2> PICK m \in Nat : m = n + 1
    OBVIOUS
  <2>1. \E g : Summing(t, m, g)
    BY SummingExists
  <2> QED
    BY <1>1, <2>1, TotalIs
<1>4. f[n] = g[n]
  <2>1. n <= n + 1 /\ n + 1 \in Nat
    OBVIOUS
  <2> QED
    BY <1>1, <1>2, <1>3, <2>1, SummingUnique
<1>5. g[n + 1] = g[n] + x
  <2>1. n + 1 \in 1 .. n + 1 /\ (n + 1) - 1 = n /\ n + 1 \in Nat
    OBVIOUS
  <2>2. g[n + 1] = g[(n + 1) - 1] + t[n + 1]
    BY <1>3, <2>1, SummingValues
  <2> QED
    BY <1>1, <2>1, <2>2
<1>6. Total(<<>>) = 0
  <2>1. PICK h : Summing(<<>>, 0, h) /\ Total(<<>>) = h[0]
    <3>1. \E h : Summing(<<>>, 0, h)
      BY SummingExists
    <3>2. Len(<<>>) = 0
      OBVIOUS
    <3> QED
      BY <3>1, <3>2, TotalIs
  <2> QED
    BY <2>1, SummingValues
<1> QED
  BY <1>2, <1>3, <1>4, <1>5, <1>6 DEF t

---------------------------------------------------------------------------
(* Pieces of a flattened sequence *)

Lens(ss) == [k \in DOMAIN ss |-> Len(ss[k])]

LEMMA LensType ==
  ASSUME NEW S, NEW ss \in Seq(Seq(S))
  PROVE  Lens(ss) \in Seq(Nat) /\ Len(Lens(ss)) = Len(ss) /\ \A k \in 1 .. Len(ss) : Lens(ss)[k] = Len(ss[k])
<1>1. \A k \in 1 .. Len(ss) : ss[k] \in Seq(S)
  OBVIOUS
<1>2. \A k \in 1 .. Len(ss) : Len(ss[k]) \in Nat
  BY <1>1
<1>3. DOMAIN ss = 1 .. Len(ss) /\ Len(ss) \in Nat
  OBVIOUS
<1> QED
  BY <1>2, <1>3 DEF Lens

LEMMA LensAppend ==
  ASSUME NEW S, NEW ss \in Seq(Seq(S)), NEW s \in Seq(S)
  PROVE  Lens(Append(ss, s)) = Append(Lens(ss), Len(s))
<1> PICK tt \in Seq(Seq(S)) : tt = Append(ss, s)
  BY AppendProperties
<1>1. /\ Len(tt) = Len(ss) + 1 /\ tt[Len(ss) + 1] = s
      /\ \A k \in 1 .. Len(ss) : tt[k] = ss[k]
  BY AppendProperties
<1>2. /\ Lens(ss) \in Seq(Nat) /\ Len(Lens(ss)) = Len(ss)
      /\ \A k \in 1 .. Len(ss) : Lens(ss)[k] = Len(ss[k])
  BY LensType
<1>3. /\ Lens(tt) \in Seq(Nat) /\ Len(Lens(tt)) = Len(tt)
      /\ \A k \in 1 .. Len(tt) : Lens(tt)[k] = Len(tt[k])
  BY LensType
<1> PICK ls \in Seq(Nat) : ls = Lens(ss)
  BY <1>2
<1> PICK l \in Nat : l = Len(s)
  OBVIOUS
<1> PICK u \in Seq(Nat) : u = Append(ls, l)
  BY AppendProperties
<1>4. /\ Len(u) = Len(ss) + 1 /\ u[Len(ss) + 1] = Len(s)
      /\ \A k \in 1 .. Len(ss) : u[k] = Len(ss[k])
  <2>1. Len(u) = Len(ls) + 1 /\ u[Len(ls) + 1] = l /\ \A k \in 1 .. Len(ls) : u[k] = ls[k]
    BY AppendProperties
  <2> QED
    BY <1>2, <2>1
<1>5. \A k \in 1 .. Len(ss) + 1 : Lens(tt)[k] = u[k]
  <2> TAKE k \in 1 .. Len(ss) + 1
  <2>1. CASE k = Len(ss) + 1
    BY <1>1, <1>3, <1>4, <2>1
  <2>2. CASE k # Len(ss) + 1
    <3>1. k \in 1 .. Len(ss) /\ k \in 1 .. Len(tt)
      BY <1>1, <2>2
    <3> QED
      BY <1>1, <1>3, <1>4, <3>1
  <2> QED
    BY <2>1, <2>2
<1>6. Lens(tt) = u
  BY <1>1, <1>3, <1>4, <1>5, SeqEqual
<1> QED
  BY <1>6

\* The length of a flattened sequence is the total of the lengths of its parts.
LEMMA LenFlatten ==
  ASSUME NEW S, NEW ss \in Seq(Seq(S))
  PROVE  Len(FlattenSeq(ss)) = Total(Lens(ss))
<1> DEFINE P == {tt \in Seq(Seq(S)) : Len(FlattenSeq(tt)) = Total(Lens(tt))}
<1>1. <<>> \in P
  <2>1. FlattenSeq(<<>>) = <<>> /\ Lens(<<>>) = <<>>
    BY DEF FlattenSeq, Lens
  <2>2. Total(<<>>) = 0
    <3>1. <<>> \in Seq(Nat) /\ 0 \in Nat
      BY EmptySeq
    <3> QED
      BY <3>1, TotalAppend
  <2>3. <<>> \in Seq(Seq(S))
    BY EmptySeq
  <2> QED
    BY <2>1, <2>2, <2>3
<1>2. \A tt \in Seq(Seq(S)), s \in Seq(S) : tt \in P => Append(tt, s) \in P
  <2> SUFFICES ASSUME NEW tt \in Seq(Seq(S)), NEW s \in Seq(S), tt \in P
               PROVE  Len(FlattenSeq(Append(tt, s))) = Total(Lens(Append(tt, s)))
    BY AppendProperties
  <2>1. PICK f \in Seq(S) : f = FlattenSeq(tt)
    BY FlattenType
  <2>2. FlattenSeq(Append(tt, s)) = f \o s
    BY <2>1, FlattenAppend
  <2>3. Len(f \o s) = Len(f) + Len(s)
    BY ConcatProperties
  <2>4. Lens(tt) \in Seq(Nat) /\ Len(s) \in Nat
    BY LensType
  <2>5. Total(Append(Lens(tt), Len(s))) = Total(Lens(tt)) + Len(s)
    BY <2>4, TotalAppend
  <2>6. Len(f) = Total(Lens(tt))
    BY <2>1
  <2> QED
    BY <2>2, <2>3, <2>5, <2>6, LensAppend
<1>3. Seq(Seq(S)) \subseteq P
  <2> HIDE DEF P
  <2> QED BY <1>1, <1>2, SeqInduction
<1> QED
  BY <1>3

LEMMA Middle ==
  ASSUME NEW S, NEW a \in Seq(S), NEW b \in Seq(S), NEW c \in Seq(S)
  PROVE  SubSeq((a \o b) \o c, Len(a) + 1, Len(a) + Len(b)) = b
<1> PICK d \in Seq(S) : d = (a \o b) \o c
  BY ConcatProperties
<1>1. Len(d) = Len(a) + Len(b) + Len(c)
  BY ConcatProperties
<1>2. \A k \in 1 .. Len(b) : d[Len(a) + k] = b[k]
  <2> PICK ab \in Seq(S) : ab = a \o b
    BY ConcatProperties
  <2>1. Len(ab) = Len(a) + Len(b) /\ \A k \in 1 .. Len(b) : ab[Len(a) + k] = b[k]
    BY ConcatProperties
  <2>2. \A k \in 1 .. Len(ab) : d[k] = ab[k]
    BY ConcatProperties
  <2> QED
    BY <2>1, <2>2
<1>3. Len(a) \in Nat /\ Len(b) \in Nat /\ Len(c) \in Nat
  OBVIOUS
<1> PICK p \in Nat : p = Len(a)
  BY <1>3
<1> PICK q \in Nat : q = Len(b)
  BY <1>3
<1> DEFINE e == SubSeq(d, p + 1, p + q)
<1>4. e \in Seq(S) /\ Len(e) = q /\ \A k \in 1 .. q : e[k] = d[p + k]
  <2>1. p + 1 >= 1 /\ p + q <= Len(d)
    BY <1>1, <1>3
  <2>2. \A i \in p + 1 .. p + q : d[i] \in S
    BY <2>1
  <2> QED
    BY <2>1, <2>2, SubSeqProperties
<1> HIDE DEF e
<1>5. \A k \in 1 .. q : e[k] = b[k]
  BY <1>2, <1>4
<1>6. e = b
  BY <1>4, <1>5, SeqEqual
<1> QED
  BY <1>6 DEF e

\* Piece gives back the parts a flattened sequence was made of.
LEMMA PieceOf ==
  ASSUME NEW S, NEW ss \in Seq(Seq(S)), NEW n \in 1 .. Len(ss)
  PROVE  Piece(FlattenSeq(ss), Lens(ss), n) = ss[n]
<1> PICK m \in Nat : m = n - 1
  OBVIOUS
<1> PICK x \in Seq(S) : x = ss[n]
  OBVIOUS
<1>1. PICK a \in Seq(Seq(S)) : Len(a) = m /\ \A k \in 1 .. m : a[k] = ss[k]
  <2> DEFINE a == SubSeq(ss, 1, m)
  <2>1. a \in Seq(Seq(S)) /\ Len(a) = m /\ \A k \in 1 .. m : a[k] = ss[k]
    BY SubSeqProperties
  <2> HIDE DEF a
  <2> QED BY <2>1
<1>2. PICK b \in Seq(Seq(S)) : Len(b) = Len(ss) - n /\ \A k \in 1 .. Len(ss) - n : b[k] = ss[n + k]
  <2> DEFINE b == SubSeq(ss, n + 1, Len(ss))
  <2>1. b \in Seq(Seq(S)) /\ Len(b) = Len(ss) - n /\ \A k \in 1 .. Len(ss) - n : b[k] = ss[n + k]
    BY SubSeqProperties
  <2> HIDE DEF b
  <2> QED BY <2>1
<1>3. ss = Append(a, x) \o b
  <2> PICK c \in Seq(Seq(S)) : c = Append(a, x)
    BY <1>1, AppendProperties
  <2>1. Len(c) = n /\ c[n] = x /\ \A k \in 1 .. m : c[k] = ss[k]
    BY <1>1, AppendProperties
  <2> PICK d \in Seq(Seq(S)) : d = c \o b
    BY <1>2, ConcatProperties
  <2>0. /\ Len(d) = Len(c) + Len(b)
        /\ \A k \in 1 .. Len(c) + Len(b) : d[k] = IF k <= Len(c) THEN c[k] ELSE b[k - Len(c)]
    BY ConcatProperties
  <2>2. Len(d) = Len(ss) /\ n <= Len(ss) /\ Len(c) + Len(b) = Len(ss)
    BY <1>2, <2>0, <2>1
  <2>3. \A k \in 1 .. n : d[k] = ss[k]
    <3>1. \A k \in 1 .. n : d[k] = c[k]
      BY <2>0, <2>1, <2>2
    <3>2. \A k \in 1 .. n : k = n \/ k \in 1 .. m
      OBVIOUS
    <3> QED
      BY <2>1, <3>1, <3>2
  <2>4. \A k \in n + 1 .. Len(ss) : d[k] = ss[k]
    <3>1. \A k \in n + 1 .. Len(ss) : d[k] = b[k - n]
      BY <2>0, <2>1, <2>2, SMTT(30)
    <3>2. \A k \in n + 1 .. Len(ss) : k - n \in 1 .. Len(ss) - n /\ n + (k - n) = k
      OBVIOUS
    <3> QED
      BY <1>2, <3>1, <3>2
  <2>5. \A k \in 1 .. Len(ss) : k \in 1 .. n \/ k \in n + 1 .. Len(ss)
    OBVIOUS
  <2>6. \A k \in 1 .. Len(ss) : d[k] = ss[k]
    BY <2>3, <2>4, <2>5, Zenon
  <2>7. d = ss
    BY <2>2, <2>6, SeqEqual, Zenon
  <2> QED
    BY <2>7
<1>4. PICK fa \in Seq(S) : fa = FlattenSeq(a)
  BY <1>1, FlattenType
<1>5. PICK fb \in Seq(S) : fb = FlattenSeq(b)
  BY <1>2, FlattenType
<1>6. FlattenSeq(ss) = (fa \o x) \o fb
  <2>1. Append(a, x) \in Seq(Seq(S))
    BY <1>1, AppendProperties
  <2>2. FlattenSeq(Append(a, x) \o b) = FlattenSeq(Append(a, x)) \o fb
    BY <1>2, <1>5, <2>1, FlattenConcat
  <2>3. FlattenSeq(Append(a, x)) = fa \o x
    BY <1>1, <1>4, FlattenAppend
  <2> QED
    BY <1>3, <2>2, <2>3
<1>7. SubSeq(Lens(ss), 1, n - 1) = Lens(a)
  <2>1. /\ Lens(ss) \in Seq(Nat) /\ Len(Lens(ss)) = Len(ss)
        /\ \A k \in 1 .. Len(ss) : Lens(ss)[k] = Len(ss[k])
    BY LensType
  <2>2. /\ Lens(a) \in Seq(Nat) /\ Len(Lens(a)) = m
        /\ \A k \in 1 .. m : Lens(a)[k] = Len(ss[k])
    <3>1. /\ Lens(a) \in Seq(Nat) /\ Len(Lens(a)) = Len(a)
          /\ \A k \in 1 .. Len(a) : Lens(a)[k] = Len(a[k])
      BY LensType
    <3> QED
      BY <1>1, <3>1
  <2> DEFINE u == SubSeq(Lens(ss), 1, m)
  <2>3. u \in Seq(Nat) /\ Len(u) = m /\ \A k \in 1 .. m : u[k] = Len(ss[k])
    <3> PICK L \in Seq(Nat) : L = Lens(ss)
      BY <2>1
    <3>1. Len(L) = Len(ss) /\ 1 <= m + 1 /\ m <= Len(L)
      BY <2>1
    <3>2. u = SubSeq(L, 1, m)
      OBVIOUS
    <3>3. u \in Seq(Nat) /\ Len(u) = m /\ \A k \in 1 .. m : u[k] = L[k]
      BY <3>1, <3>2
    <3> QED
      BY <2>1, <3>1, <3>3
  <2> HIDE DEF u
  <2>4. u = Lens(a)
    BY <2>2, <2>3, SeqEqual
  <2> QED
    BY <2>4 DEF u
<1>8. Total(SubSeq(Lens(ss), 1, n - 1)) = Len(fa)
  BY <1>1, <1>4, <1>7, LenFlatten
<1>9. Lens(ss)[n] = Len(x)
  BY LensType
<1>10. SubSeq((fa \o x) \o fb, Len(fa) + 1, Len(fa) + Len(x)) = x
  BY Middle
<1> QED
  BY <1>6, <1>8, <1>9, <1>10 DEF Piece

---------------------------------------------------------------------------
(* The vectors of a batch *)

\* A function of the members of a sequence
Mapped(s, f) == [k \in DOMAIN s |-> f[s[k]]]
Maps(f, S, T) == f \in [S -> T]

LEMMA MappedAppend ==
  ASSUME NEW S, NEW T, NEW f, Maps(f, S, T), NEW s \in Seq(S), NEW e \in S
  PROVE  /\ Mapped(s, f) \in Seq(T) /\ Len(Mapped(s, f)) = Len(s)
         /\ Mapped(Append(s, e), f) = Append(Mapped(s, f), f[e])
<1>0. f \in [S -> T]
  BY DEF Maps
<1>1. ASSUME NEW t \in Seq(S)
      PROVE  /\ Mapped(t, f) \in Seq(T) /\ Len(Mapped(t, f)) = Len(t)
             /\ \A k \in 1 .. Len(t) : Mapped(t, f)[k] = f[t[k]]
  <2>1. \A k \in 1 .. Len(t) : f[t[k]] \in T
    BY <1>0
  <2>2. DOMAIN t = 1 .. Len(t) /\ Len(t) \in Nat
    OBVIOUS
  <2> QED
    BY <2>1, <2>2 DEF Mapped
<1> PICK t \in Seq(S) : t = Append(s, e)
  BY AppendProperties
<1>2. Len(t) = Len(s) + 1 /\ t[Len(s) + 1] = e /\ \A k \in 1 .. Len(s) : t[k] = s[k]
  BY AppendProperties
<1> PICK m \in Seq(T) : m = Mapped(s, f)
  BY <1>1
<1> PICK u \in Seq(T) : u = Append(m, f[e])
  BY <1>0, AppendProperties
<1>3. Len(m) = Len(s) /\ \A k \in 1 .. Len(s) : m[k] = f[s[k]]
  BY <1>1
<1>4. Len(u) = Len(m) + 1 /\ u[Len(m) + 1] = f[e] /\ \A k \in 1 .. Len(m) : u[k] = m[k]
  BY <1>0, AppendProperties
<1> PICK v \in Seq(T) : v = Mapped(t, f)
  BY <1>1
<1>5. Len(v) = Len(t) /\ \A k \in 1 .. Len(t) : v[k] = f[t[k]]
  BY <1>1
<1>6. \A k \in 1 .. Len(s) + 1 : k = Len(s) + 1 \/ k \in 1 .. Len(s)
  OBVIOUS
<1>7. \A k \in 1 .. Len(s) + 1 : v[k] = u[k]
  BY <1>2, <1>3, <1>4, <1>5, <1>6
<1>8. v = u
  BY <1>2, <1>3, <1>4, <1>5, <1>7, SeqEqual
<1> QED
  BY <1>1, <1>8

LEMMA LensConcat ==
  ASSUME NEW S, NEW a \in Seq(Seq(S)), NEW b \in Seq(Seq(S))
  PROVE  Lens(a \o b) = Lens(a) \o Lens(b)
<1> PICK c \in Seq(Seq(S)) : c = a \o b
  BY ConcatProperties
<1>1. /\ Len(c) = Len(a) + Len(b)
      /\ \A k \in 1 .. Len(a) + Len(b) : c[k] = IF k <= Len(a) THEN a[k] ELSE b[k - Len(a)]
  BY ConcatProperties
<1> PICK la \in Seq(Nat) : la = Lens(a)
  BY LensType
<1> PICK lb \in Seq(Nat) : lb = Lens(b)
  BY LensType
<1> PICK lc \in Seq(Nat) : lc = Lens(c)
  BY LensType
<1>2. Len(la) = Len(a) /\ \A k \in 1 .. Len(a) : la[k] = Len(a[k])
  BY LensType
<1>3. Len(lb) = Len(b) /\ \A k \in 1 .. Len(b) : lb[k] = Len(b[k])
  BY LensType
<1>4. Len(lc) = Len(c) /\ \A k \in 1 .. Len(c) : lc[k] = Len(c[k])
  BY LensType
<1> PICK d \in Seq(Nat) : d = la \o lb
  BY ConcatProperties
<1>5. /\ Len(d) = Len(la) + Len(lb)
      /\ \A k \in 1 .. Len(la) + Len(lb) : d[k] = IF k <= Len(la) THEN la[k] ELSE lb[k - Len(la)]
  BY ConcatProperties
<1>6. \A k \in 1 .. Len(a) + Len(b) : lc[k] = d[k]
  <2> SUFFICES ASSUME NEW k \in 1 .. Len(a) + Len(b)
               PROVE  lc[k] = d[k]
    OBVIOUS
  <2>1. lc[k] = Len(c[k])
    BY <1>1, <1>4
  <2>2. CASE k <= Len(a)
    <3>1. k \in 1 .. Len(a)
      BY <2>2
    <3> QED
      BY <1>1, <1>2, <1>3, <1>5, <2>1, <2>2, <3>1
  <2>3. CASE ~(k <= Len(a))
    <3>1. k - Len(a) \in 1 .. Len(b)
      BY <2>3
    <3> QED
      <4>1. c[k] = b[k - Len(a)] /\ d[k] = lb[k - Len(a)]
        BY <1>1, <1>2, <1>3, <1>5, <2>3
      <4> QED
        BY <1>3, <2>1, <3>1, <4>1
  <2> QED
    BY <2>2, <2>3
<1>7. Len(lc) = Len(a) + Len(b) /\ Len(d) = Len(a) + Len(b)
  BY <1>1, <1>2, <1>3, <1>4, <1>5
<1>8. \A k \in 1 .. Len(lc) : lc[k] = d[k]
  BY <1>6, <1>7
<1>9. lc = d
  BY <1>7, <1>8, SeqEqual
<1> QED
  BY <1>9

\* The vectors of an event, and those of a sequence of events one after the other
Vectors == {vs \in Seq(Seq(Nat)) : Len(vs) = NumVectors}
LensEach(r) == [k \in DOMAIN r |-> Lens(r[k])]
FlatEach(r) == [k \in DOMAIN r |-> FlattenSeq(r[k])]

LEMMA EachAppend ==
  ASSUME NEW r \in Seq(Vectors), NEW vs \in Vectors
  PROVE  /\ LensEach(r) \in Seq(Seq(Nat)) /\ FlatEach(r) \in Seq(Seq(Nat))
         /\ LensEach(Append(r, vs)) = Append(LensEach(r), Lens(vs))
         /\ FlatEach(Append(r, vs)) = Append(FlatEach(r), FlattenSeq(vs))
<1>0. PICK f \in [Vectors -> Seq(Nat)] : \A v \in Vectors : f[v] = Lens(v)
  <2>1. \A v \in Vectors : Lens(v) \in Seq(Nat)
    BY LensType DEF Vectors
  <2>2. [v \in Vectors |-> Lens(v)] \in [Vectors -> Seq(Nat)]
    BY <2>1
  <2> QED
    BY <2>2
<1>1. PICK g \in [Vectors -> Seq(Nat)] : \A v \in Vectors : g[v] = FlattenSeq(v)
  <2>1. \A v \in Vectors : FlattenSeq(v) \in Seq(Nat)
    BY FlattenType DEF Vectors
  <2>2. [v \in Vectors |-> FlattenSeq(v)] \in [Vectors -> Seq(Nat)]
    BY <2>1
  <2> QED
    BY <2>2
<1>2. \A v \in Vectors : f[v] = Lens(v) /\ g[v] = FlattenSeq(v)
  BY <1>0, <1>1
<1>3. ASSUME NEW t \in Seq(Vectors)
      PROVE  LensEach(t) = Mapped(t, f) /\ FlatEach(t) = Mapped(t, g)
  <2>1. \A k \in DOMAIN t : t[k] \in Vectors
    OBVIOUS
  <2> QED
    BY <1>2, <2>1 DEF LensEach, FlatEach, Mapped
<1>4. /\ Mapped(r, f) \in Seq(Seq(Nat)) /\ Mapped(r, g) \in Seq(Seq(Nat))
      /\ Mapped(Append(r, vs), f) = Append(Mapped(r, f), f[vs])
      /\ Mapped(Append(r, vs), g) = Append(Mapped(r, g), g[vs])
  <2>1. Maps(f, Vectors, Seq(Nat)) /\ Maps(g, Vectors, Seq(Nat))
    BY DEF Maps
  <2> QED
    BY <2>1, MappedAppend
<1>5. Append(r, vs) \in Seq(Vectors)
  BY AppendProperties
<1> QED
  BY <1>2, <1>3, <1>4, <1>5

\* The lengths of all vectors are those the message "names" carries, and the vectors
\* joined are the message "maps".
LEMMA VectorsFlat ==
  ASSUME NEW r \in Seq(Vectors)
  PROVE  /\ FlattenSeq(r) \in Seq(Seq(Nat))
         /\ Lens(FlattenSeq(r)) = FlattenSeq(LensEach(r))
         /\ FlattenSeq(FlattenSeq(r)) = FlattenSeq(FlatEach(r))
<1>0. Vectors \subseteq Seq(Seq(Nat)) /\ Seq(Vectors) \subseteq Seq(Seq(Seq(Nat)))
  BY DEF Vectors
<1> DEFINE P == {t \in Seq(Vectors) :
                   /\ Lens(FlattenSeq(t)) = FlattenSeq(LensEach(t))
                   /\ FlattenSeq(FlattenSeq(t)) = FlattenSeq(FlatEach(t))}
<1>1. <<>> \in P
  <2>1. LensEach(<<>>) = <<>> /\ FlatEach(<<>>) = <<>> /\ FlattenSeq(<<>>) = <<>>
        /\ Lens(<<>>) = <<>>
    BY DEF LensEach, FlatEach, FlattenSeq, Lens
  <2> QED
    BY <2>1, EmptySeq
<1>2. \A t \in Seq(Vectors), vs \in Vectors : t \in P => Append(t, vs) \in P
  <2> SUFFICES ASSUME NEW t \in Seq(Vectors), NEW vs \in Vectors, t \in P
               PROVE  /\ Lens(FlattenSeq(Append(t, vs))) = FlattenSeq(LensEach(Append(t, vs)))
                      /\ FlattenSeq(FlattenSeq(Append(t, vs))) = FlattenSeq(FlatEach(Append(t, vs)))
    BY AppendProperties
  <2>1. vs \in Seq(Seq(Nat)) /\ t \in Seq(Seq(Seq(Nat)))
    BY <1>0
  <2>2. PICK f \in Seq(Seq(Nat)) : f = FlattenSeq(t)
    BY <2>1, FlattenType
  <2>3. FlattenSeq(Append(t, vs)) = f \o vs
    BY <2>1, <2>2, FlattenAppend
  <2>4. Lens(f \o vs) = Lens(f) \o Lens(vs)
    BY <2>1, LensConcat
  <2>5. FlattenSeq(LensEach(Append(t, vs))) = FlattenSeq(LensEach(t)) \o Lens(vs)
    <3>1. Lens(vs) \in Seq(Nat)
      BY <2>1, LensType
    <3> QED
      BY <3>1, EachAppend, FlattenAppend
  <2>6. FlattenSeq(f \o vs) = FlattenSeq(f) \o FlattenSeq(vs)
    BY <2>1, FlattenConcat
  <2>7. FlattenSeq(FlatEach(Append(t, vs))) = FlattenSeq(FlatEach(t)) \o FlattenSeq(vs)
    <3>1. FlattenSeq(vs) \in Seq(Nat)
      BY <2>1, FlattenType
    <3> QED
      BY <3>1, EachAppend, FlattenAppend
  <2> QED
    BY <2>2, <2>3, <2>4, <2>5, <2>6, <2>7
<1>3. Seq(Vectors) \subseteq P
  <2> HIDE DEF P
  <2> QED BY <1>1, <1>2, SeqInduction
<1> QED
  BY <1>0, <1>3, FlattenType

\* The vectors of the first n events
Behind(n) == n * NumVectors

LEMMA BehindIs ==
  /\ Behind(0) = 0
  /\ \A n \in Nat : Behind(n) \in Nat /\ Behind(n + 1) = Behind(n) + NumVectors
  /\ \A m, n \in Nat : m < n => Behind(m) + NumVectors <= Behind(n)
<1>1. NumVectors \in Nat
  BY DataAssumption
<1>2. Behind(0) = 0 /\ \A n \in Nat : Behind(n) \in Nat /\ Behind(n + 1) = Behind(n) + NumVectors
  BY <1>1 DEF Behind
<1>3. ASSUME NEW m \in Nat, NEW n \in Nat, m < n
      PROVE  Behind(m) + NumVectors <= Behind(n)
  <2>1. PICK d \in Nat : n = m + 1 + d
    <3>1. n - (m + 1) \in Nat /\ n = m + 1 + (n - (m + 1))
      BY <1>3
    <3> QED
      BY <3>1
  <2>2. (m + 1 + d) * NumVectors = m * NumVectors + NumVectors + d * NumVectors
    BY <1>1
  <2>3. d * NumVectors \in Nat /\ m * NumVectors \in Nat
    BY <1>1
  <2> QED
    BY <1>1, <2>1, <2>2, <2>3 DEF Behind
<1> QED
  BY <1>2, <1>3

\* The v-th vector of the n-th event among all of them
VectorsAt(t, f) ==
  \A n \in 1 .. Len(t), v \in 1 .. NumVectors :
    Behind(n - 1) + v \in 1 .. Len(f) /\ f[Behind(n - 1) + v] = t[n][v]

LEMMA VectorAt ==
  ASSUME NEW r \in Seq(Vectors)
  PROVE  Len(FlattenSeq(r)) = Behind(Len(r)) /\ VectorsAt(r, FlattenSeq(r))
<1>0. Vectors \subseteq Seq(Seq(Nat)) /\ Seq(Vectors) \subseteq Seq(Seq(Seq(Nat))) /\ NumVectors \in Nat
  BY DataAssumption DEF Vectors
<1> DEFINE P == {t \in Seq(Vectors) :
                   Len(FlattenSeq(t)) = Behind(Len(t)) /\ VectorsAt(t, FlattenSeq(t))}
<1>1. <<>> \in P
  <2>1. FlattenSeq(<<>>) = <<>> /\ Len(<<>>) = 0 /\ <<>> \in Seq(Vectors)
    BY EmptySeq DEF FlattenSeq
  <2>2. VectorsAt(<<>>, <<>>)
    <3>1. 1 .. Len(<<>>) = {}
      OBVIOUS
    <3> QED
      BY <3>1 DEF VectorsAt
  <2> QED
    BY <2>1, <2>2, BehindIs
<1>2. \A t \in Seq(Vectors), vs \in Vectors : t \in P => Append(t, vs) \in P
  <2> SUFFICES ASSUME NEW t \in Seq(Vectors), NEW vs \in Vectors, t \in P
               PROVE  Append(t, vs) \in P
    OBVIOUS
  <2>1. vs \in Seq(Seq(Nat)) /\ t \in Seq(Seq(Seq(Nat))) /\ Len(vs) = NumVectors
    BY <1>0 DEF Vectors
  <2>2. PICK f \in Seq(Seq(Nat)) : f = FlattenSeq(t)
    BY <2>1, FlattenType
  <2> PICK u \in Seq(Vectors) : u = Append(t, vs)
    BY AppendProperties
  <2>3. Len(u) = Len(t) + 1 /\ u[Len(t) + 1] = vs /\ \A k \in 1 .. Len(t) : u[k] = t[k]
    BY AppendProperties
  <2> PICK g \in Seq(Seq(Nat)) : g = f \o vs
    BY <2>1, ConcatProperties
  <2>4. FlattenSeq(u) = g
    BY <2>1, <2>2, FlattenAppend
  <2> PICK m \in Nat : m = Len(t)
    OBVIOUS
  <2>5. Len(f) = Behind(m) /\ Behind(m) \in Nat /\ Behind(m + 1) = Behind(m) + NumVectors
    BY <2>2, BehindIs
  <2>6. /\ Len(g) = Behind(m) + NumVectors
        /\ \A k \in 1 .. Behind(m) : g[k] = f[k]
        /\ \A k \in 1 .. NumVectors : g[Behind(m) + k] = vs[k]
    <3>1. /\ Len(g) = Len(f) + Len(vs)
          /\ \A k \in 1 .. Len(f) + Len(vs) : g[k] = IF k <= Len(f) THEN f[k] ELSE vs[k - Len(f)]
      BY <2>1, ConcatProperties
    <3> PICK b \in Nat : b = Behind(m)
      BY <2>5
    <3>2. \A k \in 1 .. b : g[k] = f[k]
      BY <1>0, <2>1, <2>5, <3>1
    <3>3. \A k \in 1 .. NumVectors : b + k \in 1 .. b + NumVectors /\ ~(b + k <= b) /\ (b + k) - b = k
      BY <1>0
    <3>4. \A k \in 1 .. b + NumVectors : g[k] = IF k <= b THEN f[k] ELSE vs[k - b]
      BY <2>1, <2>5, <3>1
    <3>5. \A k \in 1 .. NumVectors : g[b + k] = vs[k]
      BY <3>3, <3>4
    <3> QED
      BY <2>1, <2>5, <3>1, <3>2, <3>5
  <2>7. \A n \in 1 .. m, v \in 1 .. NumVectors :
          Behind(n - 1) + v \in 1 .. Behind(m) /\ g[Behind(n - 1) + v] = u[n][v]
    <3> TAKE n \in 1 .. m, v \in 1 .. NumVectors
    <3>1. Behind(n - 1) + v \in 1 .. Len(f) /\ f[Behind(n - 1) + v] = t[n][v]
      BY <2>2 DEF VectorsAt
    <3> QED
      BY <2>3, <2>5, <2>6, <3>1
  <2>8. \A v \in 1 .. NumVectors : Behind(m) + v \in 1 .. Len(g) /\ g[Behind(m) + v] = u[m + 1][v]
    BY <1>0, <2>3, <2>5, <2>6, SMTT(30)
  <2>9. VectorsAt(u, g)
    <3>0. \A n \in 1 .. m + 1 : n = m + 1 \/ n \in 1 .. m
      OBVIOUS
    <3> SUFFICES ASSUME NEW n \in 1 .. m + 1, NEW v \in 1 .. NumVectors
                 PROVE  Behind(n - 1) + v \in 1 .. Len(g) /\ g[Behind(n - 1) + v] = u[n][v]
      BY <2>3 DEF VectorsAt
    <3>1. CASE n = m + 1
      <4>1. n - 1 = m
        BY <3>1
      <4> QED
        BY <2>8, <3>1, <4>1
    <3>2. CASE n # m + 1
      <4>1. n \in 1 .. m
        BY <3>0, <3>2
      <4>2. Behind(n - 1) + v \in 1 .. Behind(m) /\ g[Behind(n - 1) + v] = u[n][v]
        BY <2>7, <4>1
      <4> QED
        BY <1>0, <2>5, <2>6, <4>2
    <3> QED
      BY <3>1, <3>2
  <2>10. Len(g) = Behind(Len(u))
    BY <2>3, <2>5, <2>6
  <2> QED
    BY <2>4, <2>9, <2>10
<1>3. Seq(Vectors) \subseteq P
  <2> HIDE DEF P
  <2> QED BY <1>1, <1>2, SeqInduction
<1> QED
  BY <1>3

---------------------------------------------------------------------------
(* Batches *)

Event == [id : Nat, run : Nat, worker : Processes, params : Seq(Nat), vectors : Vectors]
Pair == [number : Nat, value : Nat]
PairsOf(b) == [k \in DOMAIN b |-> Pairs(b[k])]
VectorsOf(b) == [k \in DOMAIN b |-> b[k].vectors]

LEMMA BatchParts ==
  ASSUME NEW b \in Seq(Event)
  PROVE  /\ PairsOf(b) \in Seq(Seq(Pair)) /\ Len(PairsOf(b)) = Len(b)
         /\ \A k \in 1 .. Len(b) : PairsOf(b)[k] = Pairs(b[k])
         /\ VectorsOf(b) \in Seq(Vectors) /\ Len(VectorsOf(b)) = Len(b)
         /\ \A k \in 1 .. Len(b) : VectorsOf(b)[k] = b[k].vectors
<1>1. DOMAIN b = 1 .. Len(b) /\ Len(b) \in Nat
  OBVIOUS
<1>2. \A k \in 1 .. Len(b) : b[k] \in Event
  OBVIOUS
<1>3. ASSUME NEW e \in Event
      PROVE  Pairs(e) \in Seq(Pair) /\ Len(Pairs(e)) = Len(e.params)
  <2>1. e.params \in Seq(Nat) /\ e.id \in Nat
    BY DEF Event
  <2>2. DOMAIN e.params = 1 .. Len(e.params) /\ Len(e.params) \in Nat
    BY <2>1
  <2>3. \A k \in 1 .. Len(e.params) : [number |-> e.params[k], value |-> e.id] \in Pair
    BY <2>1 DEF Pair
  <2> QED
    BY <2>2, <2>3 DEF Pairs
<1>4. \A k \in 1 .. Len(b) : Pairs(b[k]) \in Seq(Pair) /\ b[k].vectors \in Vectors
  BY <1>2, <1>3 DEF Event
<1> QED
  BY <1>1, <1>4 DEF PairsOf, VectorsOf

LEMMA PairsLength ==
  ASSUME NEW e \in Event
  PROVE  Pairs(e) \in Seq(Pair) /\ Len(Pairs(e)) = Len(e.params)
<1>1. e.params \in Seq(Nat) /\ e.id \in Nat
  BY DEF Event
<1>2. DOMAIN e.params = 1 .. Len(e.params) /\ Len(e.params) \in Nat
  BY <1>1
<1>3. \A k \in 1 .. Len(e.params) : [number |-> e.params[k], value |-> e.id] \in Pair
  BY <1>1 DEF Pair
<1> QED
  BY <1>2, <1>3 DEF Pairs

\* What the five messages of a batch carry
MessagesOf(m, b) ==
  /\ m[1] = [kind |-> "count", data |-> <<Len(b)>>]
  /\ m[2] = [kind |-> "sizes", data |-> Lens(PairsOf(b))]
  /\ m[3] = [kind |-> "params", data |-> FlattenSeq(PairsOf(b))]
  /\ m[4] = [kind |-> "names", data |-> Lens(FlattenSeq(VectorsOf(b)))]
  /\ m[5] = [kind |-> "maps", data |-> FlattenSeq(FlattenSeq(VectorsOf(b)))]

LEMMA MessagesAre ==
  ASSUME NEW b \in Seq(Event)
  PROVE  MessagesOf(BatchMessages(b), b)
<1>1. DOMAIN b = 1 .. Len(b) /\ \A k \in DOMAIN b : b[k] \in Event
  OBVIOUS
<1>2. [k \in DOMAIN b |-> Len(b[k].params)] = Lens(PairsOf(b))
  <2>1. DOMAIN PairsOf(b) = DOMAIN b
    BY DEF PairsOf
  <2>2. \A k \in DOMAIN b : Len(b[k].params) = Len(PairsOf(b)[k])
    BY <1>1, BatchParts, PairsLength
  <2> QED
    BY <2>1, <2>2 DEF Lens
<1>3. [k \in DOMAIN b |-> Pairs(b[k])] = PairsOf(b)
  BY DEF PairsOf
<1>4. [k \in DOMAIN b |-> [v \in 1 .. NumVectors |-> Len(b[k].vectors[v])]] = LensEach(VectorsOf(b))
  <2>1. ASSUME NEW vs \in Vectors
        PROVE  [v \in 1 .. NumVectors |-> Len(vs[v])] = Lens(vs)
    <3>1. DOMAIN vs = 1 .. NumVectors
      BY DEF Vectors
    <3> QED
      BY <3>1 DEF Lens
  <2>2. DOMAIN VectorsOf(b) = DOMAIN b
    BY DEF VectorsOf
  <2>3. \A k \in DOMAIN b : VectorsOf(b)[k] = b[k].vectors /\ b[k].vectors \in Vectors
    BY <1>1, BatchParts DEF Event
  <2>4. \A k \in DOMAIN b : [v \in 1 .. NumVectors |-> Len(b[k].vectors[v])] = Lens(VectorsOf(b)[k])
    BY <2>1, <2>3
  <2> QED
    BY <2>2, <2>4 DEF LensEach
<1>5. [k \in DOMAIN b |-> FlattenSeq(b[k].vectors)] = FlatEach(VectorsOf(b))
  <2>1. DOMAIN VectorsOf(b) = DOMAIN b
    BY DEF VectorsOf
  <2>2. \A k \in DOMAIN b : VectorsOf(b)[k] = b[k].vectors
    BY <1>1, BatchParts
  <2> QED
    BY <2>1, <2>2 DEF FlatEach
<1>6. /\ FlattenSeq(LensEach(VectorsOf(b))) = Lens(FlattenSeq(VectorsOf(b)))
      /\ FlattenSeq(FlatEach(VectorsOf(b))) = FlattenSeq(FlattenSeq(VectorsOf(b)))
  BY BatchParts, VectorsFlat
<1>7. BatchMessages(b) =
          << [kind |-> "count", data |-> <<Len(b)>>],
             [kind |-> "sizes", data |-> Lens(PairsOf(b))],
             [kind |-> "params", data |-> FlattenSeq(PairsOf(b))],
             [kind |-> "names", data |-> Lens(FlattenSeq(VectorsOf(b)))],
             [kind |-> "maps", data |-> FlattenSeq(FlattenSeq(VectorsOf(b)))] >>
  BY <1>2, <1>3, <1>4, <1>5, <1>6, Zenon DEF BatchMessages
<1> QED
  BY <1>7 DEF MessagesOf

\* Messages
Kinds == {"count", "sizes", "params", "names", "maps", "state", "exit"}
Message == [kind : Kinds, data : Seq(Int) \cup Seq(Pair)]

LEMMA MessagesType ==
  ASSUME NEW b \in Seq(Event)
  PROVE  BatchMessages(b) \in Seq(Message) /\ Len(BatchMessages(b)) = NumMessages
<1> PICK m : m = BatchMessages(b)
  OBVIOUS
<1>1. Len(m) = 5 /\ m = [k \in 1 .. 5 |-> m[k]]
  BY DEF BatchMessages
<1>0. MessagesOf(m, b)
  BY MessagesAre
<1>2. Seq(Nat) \subseteq Seq(Int) /\ <<Len(b)>> \in Seq(Int)
  <2>1. Len(b) \in Int
    OBVIOUS
  <2> QED
    BY <2>1
<1>3. Lens(PairsOf(b)) \in Seq(Nat) /\ FlattenSeq(PairsOf(b)) \in Seq(Pair)
  BY BatchParts, LensType, FlattenType
<1>4. FlattenSeq(VectorsOf(b)) \in Seq(Seq(Nat))
  BY BatchParts, VectorsFlat
<1>5. Lens(FlattenSeq(VectorsOf(b))) \in Seq(Nat) /\ FlattenSeq(FlattenSeq(VectorsOf(b))) \in Seq(Nat)
  BY <1>4, LensType, FlattenType
<1>6. m[1] \in Message
  BY <1>2, <1>0 DEF MessagesOf, Message, Kinds
<1>7. m[2] \in Message
  BY <1>2, <1>3, <1>0 DEF MessagesOf, Message, Kinds
<1>8. m[3] \in Message
  BY <1>3, <1>0 DEF MessagesOf, Message, Kinds
<1>9. m[4] \in Message
  BY <1>2, <1>5, <1>0 DEF MessagesOf, Message, Kinds
<1>10. m[5] \in Message
  BY <1>2, <1>5, <1>0 DEF MessagesOf, Message, Kinds
<1>11. \A k \in 1 .. 5 : m[k] \in Message
  BY <1>6, <1>7, <1>8, <1>9, <1>10
<1>12. m \in Seq(Message) /\ Len(m) = 5
  BY <1>1, <1>11
<1> QED
  BY <1>12 DEF NumMessages

\* The messages before the k-th one
FirstOf(got, m, k) == Len(got) = k - 1 /\ \A j \in 1 .. k - 1 : got[j] = m[j]

\* Each message is as long as the MPI_Recv that is posted after the ones before it.
LEMMA MessagesFit ==
  ASSUME NEW b \in Seq(Event), NEW m, m = BatchMessages(b), NEW k \in 1 .. NumMessages,
         NEW got, FirstOf(got, m, k)
  PROVE  m[k].kind = BatchKinds[k] /\ Len(m[k].data) = RoomFor(got)
<1>g. Len(got) = k - 1 /\ \A j \in 1 .. k - 1 : got[j] = m[j]
  BY DEF FirstOf
<1>0. k \in 1 .. 5 /\ (k = 1 \/ k = 2 \/ k = 3 \/ k = 4 \/ k = 5)
  BY DEF NumMessages
<1> PICK f \in Seq(Seq(Nat)) : f = FlattenSeq(VectorsOf(b))
  BY BatchParts, VectorsFlat
<1>a. MessagesOf(m, b)
  BY MessagesAre
<1>b. m[1].kind = "count" /\ m[1].data = <<Len(b)>>
  BY <1>a DEF MessagesOf
<1>c. m[2].kind = "sizes" /\ m[2].data = Lens(PairsOf(b))
  BY <1>a DEF MessagesOf
<1>d. m[3].kind = "params" /\ m[3].data = FlattenSeq(PairsOf(b))
  BY <1>a DEF MessagesOf
<1>e. m[4].kind = "names" /\ m[4].data = Lens(f)
  BY <1>a DEF MessagesOf
<1>f. m[5].kind = "maps" /\ m[5].data = FlattenSeq(f)
  BY <1>a DEF MessagesOf
<1>1. m[k].kind = BatchKinds[k]
  BY <1>0, <1>b, <1>c, <1>d, <1>e, <1>f DEF BatchKinds
<1>2. /\ Len(m[1].data) = 1 /\ m[1].data[1] = Len(b)
      /\ Len(m[2].data) = Len(b)
      /\ Len(m[3].data) = Total(m[2].data)
      /\ Len(m[4].data) = Behind(Len(b))
      /\ Len(m[5].data) = Total(m[4].data)
  <2>1. Len(m[1].data) = 1 /\ m[1].data[1] = Len(b)
    BY <1>b
  <2>2. Len(m[2].data) = Len(b)
    BY <1>c, BatchParts, LensType
  <2>3. Len(m[3].data) = Total(m[2].data)
    BY <1>c, <1>d, BatchParts, LenFlatten
  <2>4. Len(m[4].data) = Behind(Len(b))
    <3>1. Len(f) = Behind(Len(b))
      BY BatchParts, VectorAt
    <3> QED
      BY <3>1, <1>e, LensType
  <2>5. Len(m[5].data) = Total(m[4].data)
    BY <1>e, <1>f, LenFlatten
  <2> QED
    BY <2>1, <2>2, <2>3, <2>4, <2>5
<1>3. Len(m[k].data) = RoomFor(got)
  <2>1. CASE k = 1
    BY <1>2, <1>g, <2>1 DEF RoomFor
  <2>2. CASE k = 2
    BY <1>2, <1>g, <2>2 DEF RoomFor
  <2>3. CASE k = 3
    BY <1>2, <1>g, <2>3 DEF RoomFor
  <2>4. CASE k = 4
    BY <1>2, <1>g, <2>4 DEF RoomFor, Behind
  <2>5. CASE k = 5
    BY <1>2, <1>g, <2>5 DEF RoomFor
  <2> QED
    BY <1>0, <2>1, <2>2, <2>3, <2>4, <2>5
<1> QED
  BY <1>1, <1>3

\* What the sink makes of an event
Rebuilt(e) == [params |-> Pairs(e), vectors |-> e.vectors]

\* MPIReceiveEvent and reconstructVectors undo SendEventToHistogramer.
LEMMA Reconstructs ==
  ASSUME NEW b \in Seq(Event)
  PROVE  Reconstruct(BatchMessages(b)) = [n \in 1 .. Len(b) |-> Rebuilt(b[n])]
<1> PICK m : m = BatchMessages(b)
  OBVIOUS
<1> PICK f \in Seq(Seq(Nat)) : f = FlattenSeq(VectorsOf(b))
  BY BatchParts, VectorsFlat
<1>1. /\ m[1].data[1] = Len(b)
      /\ m[2].data = Lens(PairsOf(b)) /\ m[3].data = FlattenSeq(PairsOf(b))
      /\ m[4].data = Lens(f) /\ m[5].data = FlattenSeq(f)
  <2>1. MessagesOf(m, b)
    BY MessagesAre
  <2> QED
    BY <2>1 DEF MessagesOf
<1>2. ASSUME NEW n \in 1 .. Len(b)
      PROVE  Piece(m[3].data, m[2].data, n) = Pairs(b[n])
  BY <1>1, BatchParts, PieceOf
<1>3. ASSUME NEW n \in 1 .. Len(b), NEW v \in 1 .. NumVectors
      PROVE  Piece(m[5].data, m[4].data, (n - 1) * NumVectors + v) = b[n].vectors[v]
  <2>1. Behind(n - 1) + v \in 1 .. Len(f) /\ f[Behind(n - 1) + v] = VectorsOf(b)[n][v]
    <3>1. n \in 1 .. Len(VectorsOf(b)) /\ VectorsAt(VectorsOf(b), f)
      BY BatchParts, VectorAt
    <3> QED
      BY <3>1 DEF VectorsAt
  <2>2. VectorsOf(b)[n] = b[n].vectors
    BY BatchParts
  <2> PICK j \in 1 .. Len(f) : j = Behind(n - 1) + v
    BY <2>1
  <2>3. Piece(FlattenSeq(f), Lens(f), j) = f[j]
    BY PieceOf
  <2> QED
    BY <1>1, <2>1, <2>2, <2>3 DEF Behind
<1>4. ASSUME NEW n \in 1 .. Len(b)
      PROVE  b[n].vectors = [v \in 1 .. NumVectors |-> b[n].vectors[v]]
  <2>0. b[n] \in Event
    OBVIOUS
  <2>1. b[n].vectors \in Vectors
    BY <2>0 DEF Event
  <2> QED
    BY <2>1 DEF Vectors
<1>5. ASSUME NEW n \in 1 .. Len(b)
      PROVE  [params |-> Piece(m[3].data, m[2].data, n),
              vectors |-> [v \in 1 .. NumVectors |->
                             Piece(m[5].data, m[4].data, (n - 1) * NumVectors + v)]]
             = Rebuilt(b[n])
  <2>1. [v \in 1 .. NumVectors |-> Piece(m[5].data, m[4].data, (n - 1) * NumVectors + v)]
        = [v \in 1 .. NumVectors |-> b[n].vectors[v]]
    BY <1>3, Zenon
  <2> QED
    BY <1>2, <1>4, <2>1 DEF Rebuilt
<1>6. Reconstruct(m) = [n \in 1 .. Len(b) |-> Rebuilt(b[n])]
  BY <1>1, <1>5, Zenon DEF Reconstruct
<1> QED
  BY <1>6

---------------------------------------------------------------------------
(* Types.  The event messages of a process come first in what its main     *)
(* thread has to send: only the last message may be a state change.        *)

StateMessage == [kind : {"state"}, data : Seq(Int)]
Queued == [kind : {"events"}, data : Seq(Message)] \cup StateMessage \cup [kind : {"exit"}, data : {<<>>}]
Given == [params : Seq(Pair), vectors : Vectors]
Shape == [params : Seq(Nat) \ {<<>>}, vectors : Seq(Seq(Nat))]

\* The event at place i of the deal
Dealt(e, i) == e.id = i /\ e.worker \in Workers /\ e.params # <<>>

EventPart(o) == IF o # <<>> /\ o[Len(o)].kind = "state" THEN SubSeq(o, 1, Len(o) - 1) ELSE o
ChangeLast(o) == \A k \in DOMAIN o : o[k].kind = "state" => k = Len(o) /\ o[k] \in StateMessage

Typed ==
  /\ unpacked \in Seq(Event) /\ \A i \in DOMAIN unpacked : Dealt(unpacked[i], i)
  /\ run \in [number : 0 .. MaxRuns, ended : BOOLEAN]
  /\ todo \in [Workers -> Seq(Event)] /\ \A w \in Workers : Len(todo[w]) <= 1
  /\ changes \in [Workers -> Seq(StateMessage)]
  /\ batch \in [Processes -> Seq(Event)] /\ batch[Root] = <<>> /\ batch[Sink] = <<>>
  /\ \A p \in Processes : Len(batch[p]) < BatchSize
  /\ outbox \in [Processes -> Seq(Message)]
  /\ \A p \in Processes : Len(outbox[p]) <= NumMessages + 1 /\ ChangeLast(outbox[p])
  /\ command[Sink] # "done" => outbox[Sink] = <<>>
  /\ events \in [Processes -> Seq(Message)]
  /\ states \in [Processes -> Seq(StateMessage)]
  /\ pumping \in BOOLEAN
  /\ pump \in [pc : Pc, from : Processes, got : Seq(Message)]
  /\ statePump \in {"running", "done"}
  /\ sinkq \in Seq(Queued)
  /\ command \in [Processes -> {"none", "sent", "queued", "done"}]
  /\ notified \in Seq(StateMessage)

LEMMA TypedIsTypeOK == Typed => TypeOK
<1> SUFFICES ASSUME Typed PROVE TypeOK
  OBVIOUS
<1>1. Root \in Processes /\ Sink \in Processes /\ Workers \subseteq Processes
  BY DEF Processes
<1>2. run.number \in 0 .. MaxRuns /\ run.ended \in BOOLEAN
  BY DEF Typed
<1>3. pump.pc \in Pc /\ pump.from \in Processes
  BY DEF Typed
<1> QED
  BY <1>1, <1>2, <1>3 DEF Typed, TypeOK

LEMMA InitTyped == Init => Typed
<1> SUFFICES ASSUME Init PROVE Typed
  OBVIOUS
<1>1. Root \in Processes /\ Sink \in Processes /\ Workers \subseteq Processes
  BY DEF Processes
<1>2. run \in [number : 0 .. MaxRuns, ended : BOOLEAN]
  BY BoundsAssumption DEF Init
<1>3. \A p \in Processes : outbox[p] = <<>> /\ batch[p] = <<>>
  BY DEF Init
<1>4. ChangeLast(<<>>) /\ Len(<<>>) <= NumMessages + 1
  BY DEF ChangeLast, NumMessages
<1>5. pump \in [pc : Pc, from : Processes, got : Seq(Message)]
  BY <1>1, EmptySeq DEF Init, Pc
<1>6. unpacked \in Seq(Event) /\ \A i \in DOMAIN unpacked : Dealt(unpacked[i], i)
  BY EmptySeq DEF Init
<1>7. sinkq \in Seq(Queued) /\ notified \in Seq(StateMessage)
  BY EmptySeq DEF Init
<1>8. todo \in [Workers -> Seq(Event)] /\ \A w \in Workers : Len(todo[w]) <= 1
  BY EmptySeq DEF Init
<1>9. /\ changes \in [Workers -> Seq(StateMessage)] /\ batch \in [Processes -> Seq(Event)]
      /\ outbox \in [Processes -> Seq(Message)] /\ events \in [Processes -> Seq(Message)]
      /\ states \in [Processes -> Seq(StateMessage)]
  BY EmptySeq DEF Init
<1>10. \A p \in Processes : Len(batch[p]) < BatchSize
  BY <1>3, BoundsAssumption
<1>11. command \in [Processes -> {"none", "sent", "queued", "done"}]
  BY DEF Init
<1>12. pumping \in BOOLEAN /\ statePump \in {"running", "done"}
  BY DEF Init
<1> QED
  BY <1>1, <1>2, <1>3, <1>4, <1>5, <1>6, <1>7, <1>8, <1>9, <1>10, <1>11, <1>12 DEF Typed

\* What SendEvent and SendStateChange leave in the outbox
LEMMA FlushTyped ==
  ASSUME NEW b \in Seq(Event), NEW c \in StateMessage
  PROVE  /\ FlushMessages(b) \in Seq(Message) /\ Len(FlushMessages(b)) <= NumMessages
         /\ ChangeLast(FlushMessages(b)) /\ EventPart(FlushMessages(b)) = FlushMessages(b)
         /\ FlushMessages(b) \o <<c>> \in Seq(Message)
         /\ Len(FlushMessages(b) \o <<c>>) <= NumMessages + 1
         /\ ChangeLast(FlushMessages(b) \o <<c>>)
         /\ EventPart(FlushMessages(b) \o <<c>>) = FlushMessages(b)
<1>1. c \in Message /\ c.kind = "state"
  BY DEF StateMessage, Message, Kinds
<1>2. PICK f \in Seq(Message) : /\ f = FlushMessages(b) /\ Len(f) <= NumMessages
                                /\ \A k \in DOMAIN f : f[k].kind # "state"
  <2>1. CASE b = <<>>
    <3> PICK f \in Seq(Message) : f = <<>>
      BY EmptySeq
    <3>1. Len(f) <= 5 /\ \A k \in DOMAIN f : f[k].kind # "state"
      OBVIOUS
    <3>2. f = FlushMessages(b)
      BY <2>1 DEF FlushMessages
    <3> QED
      BY <3>1, <3>2 DEF NumMessages
  <2>2. CASE b # <<>>
    <3> PICK f \in Seq(Message) : f = BatchMessages(b)
      BY MessagesType
    <3>1. Len(f) = 5 /\ f = FlushMessages(b) /\ DOMAIN f = 1 .. 5
      BY <2>2, MessagesType DEF FlushMessages, NumMessages
    <3>2. MessagesOf(f, b)
      BY MessagesAre
    <3>3. /\ f[1].kind # "state" /\ f[2].kind # "state" /\ f[3].kind # "state"
          /\ f[4].kind # "state" /\ f[5].kind # "state"
      BY <3>2 DEF MessagesOf
    <3>4. \A k \in 1 .. 5 : k = 1 \/ k = 2 \/ k = 3 \/ k = 4 \/ k = 5
      OBVIOUS
    <3>5. \A k \in 1 .. 5 : f[k].kind # "state"
      BY <3>3, <3>4
    <3>6. Len(f) <= NumMessages /\ \A k \in DOMAIN f : f[k].kind # "state"
      BY <3>1, <3>5 DEF NumMessages
    <3> QED
      BY <3>1, <3>6
  <2> QED
    BY <2>1, <2>2
<1> PICK n \in Nat : n = Len(f)
  OBVIOUS
<1>3. ChangeLast(f)
  BY <1>2 DEF ChangeLast
<1>4. EventPart(f) = f
  <2>1. f # <<>> => Len(f) \in DOMAIN f
    OBVIOUS
  <2> QED
    BY <1>2, <2>1 DEF EventPart
<1> PICK d \in Seq(Message) : d = <<c>>
  BY <1>1, OneMember
<1> PICK g \in Seq(Message) : g = f \o d
  BY ConcatProperties
<1>5. Len(g) = n + 1 /\ g[n + 1] = c /\ \A k \in 1 .. n : g[k] = f[k]
  <2>1. Len(d) = 1 /\ d[1] = c
    OBVIOUS
  <2>2. /\ Len(g) = Len(f) + Len(d)
        /\ \A k \in 1 .. Len(f) + Len(d) : g[k] = IF k <= Len(f) THEN f[k] ELSE d[k - Len(f)]
    BY ConcatProperties
  <2>3. \A k \in 1 .. n + 1 : g[k] = IF k <= n THEN f[k] ELSE d[k - n]
    BY <2>1, <2>2
  <2>4. (n + 1) - n = 1 /\ n + 1 \in 1 .. n + 1 /\ ~(n + 1 <= n) /\ \A k \in 1 .. n : k \in 1 .. n + 1 /\ k <= n
    OBVIOUS
  <2> QED
    BY <2>1, <2>2, <2>3, <2>4
<1>6. \A k \in 1 .. n + 1 : k = n + 1 \/ k \in 1 .. n
  OBVIOUS
<1>7. ChangeLast(g)
  <2>1. DOMAIN g = 1 .. n + 1 /\ DOMAIN f = 1 .. n
    BY <1>5
  <2> QED
    BY <1>2, <1>5, <1>6, <2>1 DEF ChangeLast
<1>8. EventPart(g) = f
  <2>1. g # <<>> /\ g[Len(g)].kind = "state"
    BY <1>1, <1>5
  <2>2. EventPart(g) = SubSeq(g, 1, n)
    BY <1>5, <2>1 DEF EventPart
  <2> PICK h : h = SubSeq(g, 1, n)
    OBVIOUS
  <2>3. h \in Seq(Message) /\ Len(h) = n /\ \A k \in 1 .. n : h[k] = g[k]
    BY <1>5, SubSeqProperties
  <2>4. h = f
    BY <1>5, <2>3, SeqEqual
  <2> QED
    BY <2>2, <2>4
<1>9. n + 1 <= NumMessages + 1
  BY <1>2 DEF NumMessages
<1> QED
  BY <1>2, <1>3, <1>4, <1>5, <1>7, <1>8, <1>9

\* What a main thread holds of events
BatchTyped(b, p) == b \in Seq(Event) /\ Len(b) < BatchSize /\ (p \in {Root, Sink} => b = <<>>)
OutboxTyped(o) == o \in Seq(Message) /\ Len(o) <= NumMessages + 1 /\ ChangeLast(o)

LEMMA TypedAt ==
  ASSUME Typed, NEW p \in Processes
  PROVE  BatchTyped(batch[p], p) /\ OutboxTyped(outbox[p])
<1>1. batch[p] \in Seq(Event) /\ outbox[p] \in Seq(Message)
  BY DEF Typed
<1> QED
  BY <1>1 DEF Typed, BatchTyped, OutboxTyped

LEMMA EmptyTyped ==
  ASSUME NEW p
  PROVE  BatchTyped(<<>>, p) /\ OutboxTyped(<<>>)
<1>1. Len(<<>>) < BatchSize /\ Len(<<>>) <= NumMessages + 1
  BY BoundsAssumption DEF NumMessages
<1>2. ChangeLast(<<>>)
  BY DEF ChangeLast
<1> QED
  BY <1>1, <1>2, EmptySeq DEF BatchTyped, OutboxTyped

LEMMA SendEventTyped ==
  ASSUME Typed, NEW w \in Workers, NEW e \in Event, SendEvent(w, e)
  PROVE  \E b, o :
           /\ batch' = [batch EXCEPT ![w] = b] /\ outbox' = [outbox EXCEPT ![w] = o]
           /\ BatchTyped(b, w) /\ OutboxTyped(o)
<1>0. w \in Processes /\ w \notin {Root, Sink} /\ BatchSize \in Nat
  BY ProcessesAssumption, BoundsAssumption DEF Processes
<1> PICK s \in Seq(Event) : s = batch[w] /\ Len(s) < BatchSize
  BY <1>0 DEF Typed
<1> PICK b \in Seq(Event) : b = Append(s, e)
  BY AppendProperties
<1>1. Len(b) = Len(s) + 1 /\ Len(b) <= BatchSize
  BY <1>0, AppendProperties
<1>2. CASE BatchFull(b)
  <2>1. batch' = [batch EXCEPT ![w] = <<>>] /\ outbox' = [outbox EXCEPT ![w] = FlushMessages(b)]
    BY <1>2 DEF SendEvent, Clear
  <2>2. OutboxTyped(FlushMessages(b))
    <3>1. PICK c : c \in StateMessage
      <4>1. [kind |-> "state", data |-> <<>>] \in StateMessage
        BY EmptySeq DEF StateMessage
      <4> QED
        BY <4>1
    <3>2. FlushMessages(b) \in Seq(Message) /\ Len(FlushMessages(b)) <= NumMessages /\ ChangeLast(FlushMessages(b))
      BY <3>1, FlushTyped
    <3>3. Len(FlushMessages(b)) \in Nat
      BY <3>2
    <3> QED
      BY <3>2, <3>3 DEF OutboxTyped, NumMessages
  <2>3. BatchTyped(<<>>, w)
    BY EmptyTyped
  <2> QED
    BY <2>1, <2>2, <2>3
<1>3. CASE ~BatchFull(b)
  <2>1. batch' = [batch EXCEPT ![w] = b] /\ outbox' = outbox
    BY <1>3 DEF SendEvent
  <2>2. outbox = [outbox EXCEPT ![w] = outbox[w]]
    BY <1>0 DEF Typed
  <2>3. BatchTyped(b, w)
    BY <1>0, <1>1, <1>3 DEF BatchFull, BatchTyped
  <2>4. OutboxTyped(outbox[w])
    BY <1>0, TypedAt
  <2> QED
    BY <2>1, <2>2, <2>3, <2>4
<1> QED
  BY <1>2, <1>3

LEMMA SendStateChangeTyped ==
  ASSUME Typed, NEW p \in Processes, NEW c \in StateMessage, SendStateChange(p, c)
  PROVE  \E b, o :
           /\ batch' = [batch EXCEPT ![p] = b] /\ outbox' = [outbox EXCEPT ![p] = o]
           /\ BatchTyped(b, p) /\ OutboxTyped(o)
<1>1. batch[p] \in Seq(Event)
  BY DEF Typed
<1>2. OutboxTyped(FlushMessages(batch[p]) \o <<c>>)
  BY <1>1, FlushTyped DEF OutboxTyped
<1> QED
  BY <1>2, EmptyTyped DEF SendStateChange, Clear

\* The batches and the messages to send of one process change.
LEMMA OutStep ==
  ASSUME Typed, NEW p \in Processes, NEW b, NEW o, BatchTyped(b, p), OutboxTyped(o),
         batch' = [batch EXCEPT ![p] = b], outbox' = [outbox EXCEPT ![p] = o]
  PROVE  /\ batch' \in [Processes -> Seq(Event)] /\ batch'[Root] = <<>> /\ batch'[Sink] = <<>>
         /\ \A q \in Processes : Len(batch'[q]) < BatchSize
         /\ outbox' \in [Processes -> Seq(Message)]
         /\ \A q \in Processes : Len(outbox'[q]) <= NumMessages + 1 /\ ChangeLast(outbox'[q])
<1>1. b \in Seq(Event) /\ Len(b) < BatchSize /\ (p \in {Root, Sink} => b = <<>>)
  BY DEF BatchTyped
<1>2. o \in Seq(Message) /\ Len(o) <= NumMessages + 1 /\ ChangeLast(o)
  BY DEF OutboxTyped
<1>3. Root \in Processes /\ Sink \in Processes
  BY DEF Processes
<1>4. batch' \in [Processes -> Seq(Event)] /\ outbox' \in [Processes -> Seq(Message)]
  BY <1>1, <1>2 DEF Typed
<1>5. \A q \in Processes : batch'[q] = IF q = p THEN b ELSE batch[q]
  BY DEF Typed
<1>6. \A q \in Processes : outbox'[q] = IF q = p THEN o ELSE outbox[q]
  BY DEF Typed
<1>7. batch'[Root] = <<>> /\ batch'[Sink] = <<>>
  BY <1>1, <1>3, <1>5 DEF Typed
<1>8. \A q \in Processes : Len(batch'[q]) < BatchSize
  BY <1>1, <1>5 DEF Typed
<1>9. \A q \in Processes : Len(outbox'[q]) <= NumMessages + 1 /\ ChangeLast(outbox'[q])
  BY <1>2, <1>6 DEF Typed
<1> QED
  BY <1>4, <1>7, <1>8, <1>9

\* The root and the workers
LEMMA RootStateChangeTyped ==
  ASSUME Typed, RootStateChange
  PROVE  Typed'
<1>0. Root \in Processes /\ Root # Sink
  BY ProcessesAssumption DEF Processes
<1> PICK n \in Nat : n = IF run.ended THEN run.number + 1 ELSE run.number
  BY DEF Typed
<1>1. n \in 0 .. MaxRuns /\ run' = [number |-> n, ended |-> ~run.ended]
  <2>1. run.number \in 0 .. MaxRuns /\ run.ended \in BOOLEAN /\ MaxRuns \in Nat
    BY BoundsAssumption DEF Typed
  <2> QED
    BY <2>1 DEF RootStateChange
<1> PICK c : c = Change(n, run.ended)
  OBVIOUS
<1>2. c \in StateMessage
  <2>1. run.ended \in BOOLEAN
    BY DEF Typed
  <2>2. <<n, IF run.ended THEN 1 ELSE 0>> \in Seq(Int)
    BY <2>1
  <2> QED
    BY <2>2 DEF Change, StateMessage
<1>3. changes' = [w \in Workers |-> Append(changes[w], c)] /\ SendStateChange(Root, c)
  BY DEF RootStateChange
<1>4. changes' \in [Workers -> Seq(StateMessage)]
  <2>1. \A w \in Workers : changes[w] \in Seq(StateMessage)
    BY DEF Typed
  <2>2. \A w \in Workers : Append(changes[w], c) \in Seq(StateMessage)
    BY <1>2, <2>1, AppendProperties
  <2> QED
    BY <1>3, <2>2
<1>5. PICK b, o : /\ batch' = [batch EXCEPT ![Root] = b] /\ outbox' = [outbox EXCEPT ![Root] = o]
                  /\ BatchTyped(b, Root) /\ OutboxTyped(o)
  BY <1>0, <1>2, <1>3, SendStateChangeTyped
<1>6. run' \in [number : 0 .. MaxRuns, ended : BOOLEAN]
  BY <1>1 DEF Typed
<1>7. command[Sink] # "done" => outbox'[Sink] = <<>>
  BY <1>0, <1>5 DEF Typed, Processes
<1>8. UNCHANGED <<unpacked, todo, events, states, command, sinkVars>>
  BY DEF RootStateChange
<1> QED
  BY <1>0, <1>4, <1>5, <1>6, <1>7, <1>8, OutStep DEF Typed, sinkVars

LEMMA DealTyped ==
  ASSUME Typed, NEW w \in Workers, Deal(w)
  PROVE  Typed'
<1> PICK n \in Nat : n = Len(unpacked)
  BY DEF Typed
<1>0. unpacked \in Seq(Event) /\ DOMAIN unpacked = 1 .. n /\ \A i \in 1 .. n : Dealt(unpacked[i], i)
  <2>1. unpacked \in Seq(Event) /\ \A i \in DOMAIN unpacked : Dealt(unpacked[i], i)
    BY DEF Typed
  <2> QED
    BY <2>1
<1> DEFINE s == Shapes[(n % Len(Shapes)) + 1]
<1>1. (n % Len(Shapes)) + 1 \in DOMAIN Shapes
  <2> PICK l \in Nat \ {0} : l = Len(Shapes)
    BY DataAssumption, EmptySeq
  <2>1. n % l \in 0 .. l - 1
    OBVIOUS
  <2>2. DOMAIN Shapes = 1 .. l
    BY DataAssumption
  <2> QED
    BY <2>1, <2>2
<1>2. s.params \in Seq(Nat) /\ s.params # <<>> /\ s.vectors \in Vectors
  <2>1. s \in [params : Seq(Nat) \ {<<>>}, vectors : Seq(Seq(Nat))] /\ Len(s.vectors) = NumVectors
    <3> PICK k \in DOMAIN Shapes : k = (n % Len(Shapes)) + 1
      BY <1>1
    <3>1. Shapes \in Seq(Shape)
      BY DataAssumption DEF Shape
    <3>2. Shapes[k] \in Shape
      BY <3>1
    <3>3. Len(Shapes[k].vectors) = NumVectors
      BY DataAssumption
    <3> QED
      BY <3>2, <3>3 DEF Shape
  <2> QED
    BY <2>1 DEF Vectors
<1> HIDE DEF s
<1> PICK e : e = [id |-> n + 1, run |-> run.number, worker |-> w,
                  params |-> s.params, vectors |-> s.vectors]
  OBVIOUS
<1>3. e \in Event
  <2>1. run.number \in Nat /\ w \in Processes
    BY BoundsAssumption DEF Typed, Processes
  <2> QED
    BY <1>2, <2>1 DEF Event
<1>4. Dealt(e, n + 1)
  BY <1>2 DEF Dealt
<1>5. unpacked' = Append(unpacked, e) /\ todo' = [todo EXCEPT ![w] = <<e>>]
  BY DEF Deal, s
<1>6. unpacked' \in Seq(Event) /\ \A i \in DOMAIN unpacked' : Dealt(unpacked'[i], i)
  <2> PICK u \in Seq(Event) : u = Append(unpacked, e)
    BY <1>0, <1>3, AppendProperties
  <2>1. Len(u) = n + 1 /\ u[n + 1] = e /\ \A i \in 1 .. n : u[i] = unpacked[i]
    BY <1>0, <1>3, AppendProperties
  <2>2. \A i \in 1 .. n + 1 : i = n + 1 \/ i \in 1 .. n
    OBVIOUS
  <2>3. \A i \in 1 .. n : Dealt(unpacked[i], i)
    BY <1>0
  <2>4. \A i \in 1 .. n + 1 : Dealt(u[i], i)
    BY <1>4, <2>1, <2>2, <2>3
  <2> QED
    BY <1>5, <2>1, <2>4
<1>7. todo' \in [Workers -> Seq(Event)] /\ \A v \in Workers : Len(todo'[v]) <= 1
  <2>1. <<e>> \in Seq(Event) /\ Len(<<e>>) = 1
    BY <1>3, OneMember
  <2> PICK t : t = <<e>>
    OBVIOUS
  <2>2. \A v \in Workers : todo'[v] = IF v = w THEN t ELSE todo[v]
    BY <1>5 DEF Typed
  <2>3. todo' \in [Workers -> Seq(Event)]
    BY <1>5, <2>1 DEF Typed
  <2>4. Len(t) <= 1 /\ \A v \in Workers : Len(todo[v]) <= 1
    BY <2>1 DEF Typed
  <2> QED
    BY <2>2, <2>3, <2>4
<1>8. UNCHANGED <<run, changes, batch, outbox, events, states, command, sinkVars>>
  BY DEF Deal
<1> QED
  BY <1>6, <1>7, <1>8 DEF Typed, sinkVars

LEMMA HistogramEventsTyped ==
  ASSUME Typed, NEW w \in Workers, HistogramEvents(w)
  PROVE  Typed'
<1>0. w \in Processes /\ w # Sink /\ Sink \in Processes
  BY ProcessesAssumption DEF Processes
<1>1. todo[w] \in Seq(Event) /\ todo[w] # <<>> /\ Len(todo[w]) <= 1
  BY DEF Typed, HistogramEvents
<1> PICK t \in Seq(Event) : t = todo[w]
  BY <1>1
<1>2. Head(t) \in Event /\ Tail(t) \in Seq(Event) /\ Len(Tail(t)) = Len(t) - 1
  BY <1>1, HeadTailProperties
<1>3. PICK b, o : /\ batch' = [batch EXCEPT ![w] = b] /\ outbox' = [outbox EXCEPT ![w] = o]
                  /\ BatchTyped(b, w) /\ OutboxTyped(o)
  BY <1>2, SendEventTyped DEF HistogramEvents
<1>4. todo' = [todo EXCEPT ![w] = Tail(t)]
  BY DEF HistogramEvents
<1>5. todo' \in [Workers -> Seq(Event)] /\ \A v \in Workers : Len(todo'[v]) <= 1
  <2>1. \A v \in Workers : todo'[v] = IF v = w THEN Tail(t) ELSE todo[v]
    BY <1>4 DEF Typed
  <2>2. todo' \in [Workers -> Seq(Event)]
    BY <1>2, <1>4 DEF Typed
  <2>3. Len(Tail(t)) <= 1
    BY <1>1, <1>2
  <2> QED
    BY <2>1, <2>2, <2>3 DEF Typed
<1>6. command[Sink] # "done" => outbox'[Sink] = <<>>
  BY <1>0, <1>3 DEF Typed
<1>7. UNCHANGED <<unpacked, run, changes, events, states, command, sinkVars>>
  BY DEF HistogramEvents
<1> QED
  BY <1>0, <1>3, <1>5, <1>6, <1>7, OutStep DEF Typed, sinkVars

LEMMA WorkerStateChangeTyped ==
  ASSUME Typed, NEW w \in Workers, WorkerStateChange(w)
  PROVE  Typed'
<1>0. w \in Processes /\ w # Sink /\ Sink \in Processes
  BY ProcessesAssumption DEF Processes
<1> PICK t \in Seq(StateMessage) : t = changes[w] /\ t # <<>>
  BY DEF Typed, WorkerStateChange
<1>1. Head(t) \in StateMessage /\ Tail(t) \in Seq(StateMessage)
  BY HeadTailProperties
<1>2. PICK b, o : /\ batch' = [batch EXCEPT ![w] = b] /\ outbox' = [outbox EXCEPT ![w] = o]
                  /\ BatchTyped(b, w) /\ OutboxTyped(o)
  BY <1>0, <1>1, SendStateChangeTyped DEF WorkerStateChange
<1>3. changes' \in [Workers -> Seq(StateMessage)]
  BY <1>1 DEF Typed, WorkerStateChange
<1>4. command[Sink] # "done" => outbox'[Sink] = <<>>
  BY <1>0, <1>2 DEF Typed
<1>5. UNCHANGED <<unpacked, run, todo, events, states, command, sinkVars>>
  BY DEF WorkerStateChange
<1> QED
  BY <1>0, <1>2, <1>3, <1>4, <1>5, OutStep DEF Typed, sinkVars

\* A message leaves the outbox.
LEMMA TailTyped ==
  ASSUME NEW o, OutboxTyped(o), o # <<>>
  PROVE  /\ OutboxTyped(Tail(o)) /\ Head(o) \in Message /\ Head(o) = o[1] /\ Tail(o) \in Seq(Message)
         /\ Head(o).kind = "state" => Head(o) \in StateMessage /\ Tail(o) = <<>>
<1>1. o \in Seq(Message) /\ Len(o) <= NumMessages + 1 /\ ChangeLast(o)
  BY DEF OutboxTyped
<1> PICK n \in Nat : n = Len(o) /\ n >= 1
  BY <1>1, EmptySeq
<1>2. /\ Head(o) \in Message /\ Head(o) = o[1]
      /\ Tail(o) \in Seq(Message) /\ Len(Tail(o)) = n - 1
      /\ \A k \in 1 .. n - 1 : Tail(o)[k] = o[k + 1]
  BY <1>1, HeadTailProperties
<1>3. \A k \in 1 .. n : o[k].kind = "state" => k = n /\ o[k] \in StateMessage
  BY <1>1 DEF ChangeLast
<1> PICK t \in Seq(Message) : t = Tail(o)
  BY <1>2
<1>4. ChangeLast(t)
  <2>1. DOMAIN t = 1 .. n - 1
    BY <1>2
  <2>2. ASSUME NEW k \in 1 .. n - 1, t[k].kind = "state"
        PROVE  k = n - 1 /\ t[k] \in StateMessage
    <3>1. k + 1 \in 1 .. n /\ t[k] = o[k + 1]
      BY <1>2
    <3>2. k + 1 = n /\ o[k + 1] \in StateMessage
      BY <1>3, <2>2, <3>1
    <3> QED
      BY <3>1, <3>2
  <2> QED
    BY <1>2, <2>1, <2>2 DEF ChangeLast
<1>5. Len(t) <= NumMessages + 1
  BY <1>1, <1>2 DEF NumMessages
<1>6. ASSUME Head(o).kind = "state"
      PROVE  Head(o) \in StateMessage /\ t = <<>>
  <2>1. 1 = n /\ o[1] \in StateMessage
    BY <1>2, <1>3, <1>6
  <2>2. Len(t) = 0
    BY <1>2, <2>1
  <2> QED
    BY <1>2, <2>1, <2>2, EmptySeq
<1> QED
  BY <1>2, <1>4, <1>5, <1>6 DEF OutboxTyped

LEMMA SendMessageTyped ==
  ASSUME Typed, NEW p \in Processes, SendMessage(p)
  PROVE  Typed'
<1> PICK o : o = outbox[p] /\ OutboxTyped(o) /\ o # <<>>
  BY TypedAt DEF SendMessage
<1>1. /\ OutboxTyped(Tail(o)) /\ Head(o) \in Message /\ Tail(o) \in Seq(Message)
      /\ Head(o).kind = "state" => Head(o) \in StateMessage /\ Tail(o) = <<>>
  BY TailTyped
<1> PICK t : t = Tail(o)
  OBVIOUS
<1>2. outbox' = [outbox EXCEPT ![p] = t] /\ batch' = batch
  BY DEF SendMessage
<1>3. batch = [batch EXCEPT ![p] = batch[p]] /\ BatchTyped(batch[p], p)
  BY TypedAt DEF Typed
<1> PICK m : m = Head(o)
  OBVIOUS
<1>4. \/ m.kind = "state" /\ states' = [states EXCEPT ![p] = Append(@, m)] /\ UNCHANGED events
      \/ m.kind # "state" /\ events' = [events EXCEPT ![p] = Append(@, m)] /\ UNCHANGED states
  BY DEF SendMessage
<1>5. events' \in [Processes -> Seq(Message)] /\ states' \in [Processes -> Seq(StateMessage)]
  <2>1. CASE m.kind = "state"
    <3>1. states[p] \in Seq(StateMessage) /\ m \in StateMessage
      BY <1>1, <2>1 DEF Typed
    <3>2. PICK e \in Seq(StateMessage) : e = Append(states[p], m)
      BY <3>1, AppendProperties
    <3>3. states' = [states EXCEPT ![p] = e] /\ events' = events
      BY <1>4, <2>1, <3>2
    <3>4. events \in [Processes -> Seq(Message)] /\ states \in [Processes -> Seq(StateMessage)]
      BY DEF Typed
    <3> QED
      BY <3>2, <3>3, <3>4
  <2>2. CASE m.kind # "state"
    <3>1. events[p] \in Seq(Message) /\ m \in Message
      BY <1>1 DEF Typed
    <3>2. PICK e \in Seq(Message) : e = Append(events[p], m)
      BY <3>1, AppendProperties
    <3>3. events' = [events EXCEPT ![p] = e] /\ states' = states
      BY <1>4, <2>2, <3>2
    <3>4. events \in [Processes -> Seq(Message)] /\ states \in [Processes -> Seq(StateMessage)]
      BY DEF Typed
    <3> QED
      BY <3>3, <3>4
  <2> QED
    BY <2>1, <2>2
<1>6. command[Sink] # "done" => outbox'[Sink] = <<>>
  <2>1. p = Sink => command[Sink] = "done"
    BY DEF Typed
  <2> QED
    BY <1>2, <2>1 DEF Typed, Processes
<1>7. UNCHANGED <<dataVars, command, sinkVars>>
  BY DEF SendMessage
<1>8. OutboxTyped(t)
  BY <1>1
<1> QED
  BY <1>2, <1>3, <1>5, <1>6, <1>7, <1>8, OutStep DEF Typed, dataVars, sinkVars

LEMMA PumpTestTyped ==
  ASSUME Typed, PumpTest
  PROVE  Typed'
<1>1. pump' \in [pc : Pc, from : Processes, got : Seq(Message)]
  <2>1. pump \in [pc : Pc, from : Processes, got : Seq(Message)] /\ {"receive", "done"} \subseteq Pc
    BY DEF Typed, Pc
  <2> QED
    BY <2>1 DEF PumpTest
<1>2. UNCHANGED <<dataVars, batch, outbox, events, states, command, pumping,
                  statePump, sinkq, hist, notified>>
  BY DEF PumpTest
<1> QED
  BY <1>1, <1>2 DEF Typed, dataVars

\* A receive of the pump, whose outcome is decided by what was received before
Received(p) ==
  /\ pump.pc = "receive" /\ p \in Processes /\ (pump.got # <<>> => p = pump.from)
  /\ events[p] # <<>> /\ events' = [events EXCEPT ![p] = Tail(@)]
  /\ UNCHANGED <<dataVars, batch, outbox, states, command, pumping, statePump, hist, notified>>
Aborts(p) ==
  /\ Len(Head(events[p]).data) > RoomFor(pump.got)
  /\ pump' = [pump EXCEPT !.pc = "fatal"] /\ UNCHANGED sinkq
Continues(p) ==
  /\ ~(Len(Head(events[p]).data) > RoomFor(pump.got))
  /\ Len(Append(pump.got, Head(events[p]))) < NumMessages
  /\ pump' = [pc |-> "receive", from |-> p, got |-> Append(pump.got, Head(events[p]))]
  /\ UNCHANGED sinkq
Completes(p) ==
  /\ ~(Len(Head(events[p]).data) > RoomFor(pump.got))
  /\ ~(Len(Append(pump.got, Head(events[p]))) < NumMessages)
  /\ pump' = [pc |-> "test", from |-> Sink, got |-> <<>>]
  /\ sinkq' = Append(sinkq, [kind |-> "events", data |-> Append(pump.got, Head(events[p]))])

LEMMA ReceiveCases ==
  ASSUME Typed, PumpReceive
  PROVE  \E p \in Processes : Received(p) /\ (Aborts(p) \/ Continues(p) \/ Completes(p))
<1>1. PICK p \in Sources(pump.got) :
        /\ events[p] # <<>>
        /\ LET m == Head(events[p])
               got == Append(pump.got, m)
           IN  IF Len(m.data) > RoomFor(pump.got)
               THEN /\ pump' = [pump EXCEPT !.pc = "fatal"]
                    /\ UNCHANGED sinkq
               ELSE IF Len(got) < NumMessages
               THEN /\ pump' = [pc |-> "receive", from |-> p, got |-> got]
                    /\ UNCHANGED sinkq
               ELSE /\ pump' = [pc |-> "test", from |-> Sink, got |-> <<>>]
                    /\ sinkq' = QueueEvent([kind |-> "events", data |-> got])
        /\ events' = [events EXCEPT ![p] = Tail(@)]
  BY DEF PumpReceive
<1>2. p \in Processes /\ (pump.got # <<>> => p = pump.from)
  <2>1. pump.from \in Processes
    BY DEF Typed
  <2> QED
    BY <2>1 DEF Sources
<1>3. Received(p)
  BY <1>1, <1>2 DEF PumpReceive, Received
<1>4. Aborts(p) \/ Continues(p) \/ Completes(p)
  BY <1>1 DEF Aborts, Continues, Completes, QueueEvent
<1> QED
  BY <1>2, <1>3, <1>4

LEMMA PumpReceiveTyped ==
  ASSUME Typed, PumpReceive
  PROVE  Typed'
<1> PICK p \in Processes : Received(p) /\ (Aborts(p) \/ Continues(p) \/ Completes(p))
  BY ReceiveCases
<1> PICK s \in Seq(Message) : s = events[p] /\ s # <<>>
  BY DEF Received, Typed
<1>1. Head(s) \in Message /\ Tail(s) \in Seq(Message)
  BY HeadTailProperties
<1>2. events' \in [Processes -> Seq(Message)]
  <2>1. events' = [events EXCEPT ![p] = Tail(s)]
    BY DEF Received
  <2> QED
    BY <1>1, <2>1 DEF Typed
<1>3. pump.got \in Seq(Message)
  BY DEF Typed
<1> PICK g \in Seq(Message) : g = Append(pump.got, Head(s))
  BY <1>1, <1>3, AppendProperties
<1>4. pump' \in [pc : Pc, from : Processes, got : Seq(Message)] /\ sinkq' \in Seq(Queued)
  <2>1. pump \in [pc : Pc, from : Processes, got : Seq(Message)] /\ sinkq \in Seq(Queued)
        /\ {"fatal", "receive", "test"} \subseteq Pc /\ Sink \in Processes
    BY DEF Typed, Pc, Processes
  <2>2. CASE Aborts(p)
    BY <2>1, <2>2 DEF Aborts
  <2>3. CASE Continues(p)
    BY <2>1, <2>3 DEF Continues
  <2>4. CASE Completes(p)
    <3>1. pump' = [pc |-> "test", from |-> Sink, got |-> <<>>]
      BY <2>4 DEF Completes
    <3>2. [kind |-> "events", data |-> g] \in Queued
      BY DEF Queued
    <3>3. Append(sinkq, [kind |-> "events", data |-> g]) \in Seq(Queued)
      BY <2>1, <3>2, AppendProperties
    <3> QED
      BY <2>1, <2>4, <3>1, <3>3, EmptySeq DEF Completes
  <2> QED
    BY <2>2, <2>3, <2>4
<1>5. UNCHANGED <<dataVars, batch, outbox, states, command, pumping, statePump, hist, notified>>
  BY DEF Received
<1> QED
  BY <1>2, <1>4, <1>5 DEF Typed, dataVars

LEMMA StatePumpReceiveTyped ==
  ASSUME Typed, StatePumpReceive
  PROVE  Typed'
<1>0. Root \in Processes
  BY DEF Processes
<1> PICK s \in Seq(StateMessage) : s = states[Root] /\ s # <<>>
  BY <1>0 DEF StatePumpReceive, Typed
<1>1. Head(s) \in StateMessage /\ Tail(s) \in Seq(StateMessage)
  BY HeadTailProperties
<1>2. states' \in [Processes -> Seq(StateMessage)]
  BY <1>1 DEF StatePumpReceive, Typed
<1>3. statePump' \in {"running", "done"} /\ sinkq' \in Seq(Queued)
  <2>1. Head(s) \in Queued /\ sinkq \in Seq(Queued)
    BY <1>1 DEF Queued, Typed
  <2>2. Append(sinkq, Head(s)) \in Seq(Queued)
    BY <2>1, AppendProperties
  <2>3. \/ statePump' = "done" /\ sinkq' = sinkq
        \/ statePump' = statePump /\ sinkq' = Append(sinkq, Head(s))
    BY DEF StatePumpReceive, QueueEvent
  <2> QED
    BY <2>1, <2>2, <2>3 DEF Typed
<1>4. UNCHANGED <<dataVars, batch, outbox, events, command, pumping, pump, hist, notified>>
  BY DEF StatePumpReceive
<1> QED
  BY <1>2, <1>3, <1>4 DEF Typed, dataVars

LEMMA ReceiveExitTyped ==
  ASSUME Typed, ReceiveExit
  PROVE  Typed'
<1>1. command' \in [Processes -> {"none", "sent", "queued", "done"}]
  BY DEF ReceiveExit, Typed
<1>2. sinkq' \in Seq(Queued)
  <2>1. [kind |-> "exit", data |-> <<>>] \in Queued /\ sinkq \in Seq(Queued)
    BY DEF Queued, Typed
  <2> QED
    BY <2>1, AppendProperties DEF ReceiveExit, QueueEvent
<1>3. command'[Sink] # "done" => outbox[Sink] = <<>>
  <2>1. command[Sink] # "done"
    BY DEF ReceiveExit
  <2> QED
    BY <2>1 DEF Typed
<1>4. UNCHANGED <<dataVars, batch, outbox, events, states, pumping, pump, statePump, hist, notified>>
  BY DEF ReceiveExit
<1> QED
  BY <1>1, <1>2, <1>3, <1>4 DEF Typed, dataVars

\* What the main thread of the sink may find at the head of its queue
Handles(e) ==
  /\ command[Sink] # "done" /\ sinkq # <<>> /\ e = Head(sinkq) /\ e \in Queued
  /\ sinkq' = Tail(sinkq) /\ sinkq' \in Seq(Queued)
  /\ UNCHANGED <<dataVars, batch, events, states, pump, statePump>>
HandlesEvents(e) ==
  /\ e.kind = "events" /\ e.data \in Seq(Message) /\ hist' = hist \o Reconstruct(e.data)
  /\ UNCHANGED <<notified, pumping, outbox, command>>
HandlesState(e) ==
  /\ e.kind = "state" /\ e \in StateMessage /\ notified' = Append(notified, e)
  /\ UNCHANGED <<hist, pumping, outbox, command>>
HandlesExit(e) ==
  /\ e.kind = "exit" /\ pumping' = FALSE
  /\ outbox' = [outbox EXCEPT ![Sink] = StopMessages]
  /\ command' = [command EXCEPT ![Sink] = "done"]
  /\ UNCHANGED <<hist, notified>>

LEMMA HandleCases ==
  ASSUME Typed, HandleEvent
  PROVE  \E e : Handles(e) /\ (HandlesEvents(e) \/ HandlesState(e) \/ HandlesExit(e))
<1> PICK e : e = Head(sinkq)
  OBVIOUS
<1>1. sinkq \in Seq(Queued) /\ sinkq # <<>>
  BY DEF HandleEvent, Typed
<1>2. e \in Queued /\ Tail(sinkq) \in Seq(Queued)
  BY <1>1, HeadTailProperties
<1>3. Handles(e)
  BY <1>1, <1>2 DEF HandleEvent, Handles
<1>4. CASE e \in [kind : {"events"}, data : Seq(Message)]
  <2>1. e.kind = "events" /\ e.data \in Seq(Message)
    BY <1>4
  <2>2. hist' = hist \o Reconstruct(e.data) /\ UNCHANGED <<notified, pumping, outbox, command>>
    BY <2>1 DEF HandleEvent
  <2> QED
    BY <1>3, <2>1, <2>2 DEF HandlesEvents
<1>5. CASE e \in StateMessage
  <2>1. e.kind = "state"
    BY <1>5 DEF StateMessage
  <2>2. notified' = Append(notified, e) /\ UNCHANGED <<hist, pumping, outbox, command>>
    BY <2>1 DEF HandleEvent
  <2> QED
    BY <1>3, <1>5, <2>1, <2>2 DEF HandlesState
<1>6. CASE e \in [kind : {"exit"}, data : {<<>>}]
  <2>1. e.kind = "exit"
    BY <1>6
  <2>2. /\ pumping' = FALSE /\ outbox' = [outbox EXCEPT ![Sink] = StopMessages]
        /\ command' = [command EXCEPT ![Sink] = "done"] /\ UNCHANGED <<hist, notified>>
    BY <2>1 DEF HandleEvent
  <2> QED
    BY <1>3, <2>1, <2>2 DEF HandlesExit
<1> QED
  BY <1>2, <1>4, <1>5, <1>6 DEF Queued

LEMMA FakeEventTyped == FakeEvent \in Event /\ <<FakeEvent>> \in Seq(Event)
<1>1. NumVectors \in Nat /\ Sink \in Processes
  BY DataAssumption DEF Processes
<1>2. [v \in 1 .. NumVectors |-> <<>>] \in Vectors
  <2> PICK z \in Seq(Nat) : z = <<>>
    BY EmptySeq
  <2>1. [v \in 1 .. NumVectors |-> z] \in Seq(Seq(Nat)) /\ Len([v \in 1 .. NumVectors |-> z]) = NumVectors
    BY <1>1
  <2> QED
    BY <2>1 DEF Vectors
<1>3. FakeEvent \in Event
  BY <1>1, <1>2, EmptySeq DEF FakeEvent, Event
<1> QED
  BY <1>3, OneMember

LEMMA HandleEventTyped ==
  ASSUME Typed, HandleEvent
  PROVE  Typed'
<1> PICK e : Handles(e) /\ (HandlesEvents(e) \/ HandlesState(e) \/ HandlesExit(e))
  BY HandleCases
<1>0. Sink \in Processes /\ batch[Sink] = <<>> /\ command[Sink] # "done" /\ outbox[Sink] = <<>>
  BY DEF Handles, Typed, Processes
<1>1. /\ UNCHANGED <<unpacked, run, todo, changes, batch, events, states, pump, statePump>>
      /\ sinkq' \in Seq(Queued)
  BY DEF Handles, dataVars
<1>2. CASE HandlesEvents(e)
  BY <1>1, <1>2 DEF HandlesEvents, Typed
<1>3. CASE HandlesState(e)
  <2>1. notified' \in Seq(StateMessage)
    BY <1>3, AppendProperties DEF HandlesState, Typed
  <2> QED
    BY <1>1, <1>3, <2>1 DEF HandlesState, Typed
<1>4. CASE HandlesExit(e)
  <2>1. OutboxTyped(StopMessages)
    <3>1. PICK c : c \in StateMessage
      <4>1. [kind |-> "state", data |-> <<>>] \in StateMessage
        BY EmptySeq DEF StateMessage
      <4> QED
        BY <4>1
    <3>2. /\ FlushMessages(<<FakeEvent>>) \in Seq(Message)
          /\ Len(FlushMessages(<<FakeEvent>>)) <= NumMessages
          /\ ChangeLast(FlushMessages(<<FakeEvent>>))
      BY <3>1, FakeEventTyped, FlushTyped
    <3>3. FlushMessages(<<FakeEvent>>) = StopMessages
      BY DEF FlushMessages, StopMessages
    <3>4. Len(StopMessages) \in Nat
      BY <3>2, <3>3
    <3> QED
      BY <3>2, <3>3, <3>4 DEF OutboxTyped, NumMessages
  <2>2. outbox' = [outbox EXCEPT ![Sink] = StopMessages] /\ batch' = [batch EXCEPT ![Sink] = batch[Sink]]
    BY <1>1, <1>4 DEF HandlesExit, Typed
  <2>3. BatchTyped(batch[Sink], Sink)
    BY <1>0, TypedAt
  <2>4. command' \in [Processes -> {"none", "sent", "queued", "done"}] /\ command'[Sink] = "done"
    BY <1>0, <1>4 DEF HandlesExit, Typed
  <2>5. pumping' = FALSE /\ notified' = notified
    BY <1>4 DEF HandlesExit
  <2> QED
    BY <1>0, <1>1, <2>1, <2>2, <2>3, <2>4, <2>5, OutStep DEF Typed
<1> QED
  BY <1>2, <1>3, <1>4

\* There is no exit command before the root has sent it.
NoExit(q) == \A k \in DOMAIN q : q[k].kind # "exit"
ExitInv ==
  command[Root] # "done" => NoExit(sinkq) /\ \A p \in Processes : command[p] = "none"

LEMMA RootExitTyped ==
  ASSUME Typed, ExitInv, RootExit
  PROVE  Typed'
<1>0. Root \in Processes /\ Sink \in Processes /\ Root # Sink
  BY ProcessesAssumption DEF Processes
<1> PICK c : c = Change(StopRun, TRUE)
  OBVIOUS
<1>1. c \in StateMessage
  <2>1. <<StopRun, 1>> \in Seq(Int)
    BY DEF StopRun
  <2> QED
    BY <2>1 DEF Change, StateMessage
<1>2. PICK b, o : /\ batch' = [batch EXCEPT ![Root] = b] /\ outbox' = [outbox EXCEPT ![Root] = o]
                  /\ BatchTyped(b, Root) /\ OutboxTyped(o)
  BY <1>0, <1>1, SendStateChangeTyped DEF RootExit
<1>3. command' \in [Processes -> {"none", "sent", "queued", "done"}]
  BY DEF RootExit
<1>4. command'[Sink] # "done" => outbox'[Sink] = <<>>
  <2>1. command[Sink] # "done"
    <3>1. Ready(Root)
      BY DEF RootExit
    <3> QED
      BY <1>0, <3>1 DEF Ready, ExitInv
  <2> QED
    BY <1>0, <1>2, <2>1 DEF Typed
<1>5. UNCHANGED <<dataVars, events, states, sinkVars>>
  BY DEF RootExit
<1> QED
  BY <1>0, <1>2, <1>3, <1>4, <1>5, OutStep DEF Typed, dataVars, sinkVars

LEMMA WorkerExitTyped ==
  ASSUME Typed, NEW w \in Workers, WorkerExit(w)
  PROVE  Typed'
<1>0. w # Sink /\ Sink \in Processes
  BY ProcessesAssumption DEF Processes
<1>1. command' \in [Processes -> {"none", "sent", "queued", "done"}]
  BY DEF WorkerExit, Typed
<1>2. command'[Sink] # "done" => outbox[Sink] = <<>>
  BY <1>0 DEF WorkerExit, Typed
<1>3. UNCHANGED <<dataVars, batch, outbox, events, states, sinkVars>>
  BY DEF WorkerExit
<1> QED
  BY <1>1, <1>2, <1>3 DEF Typed, dataVars, sinkVars

LEMMA NoExitSteps ==
  ASSUME NEW q \in Seq(Queued), NoExit(q)
  PROVE  /\ \A e \in Queued : e.kind # "exit" => NoExit(Append(q, e))
         /\ q # <<>> => Head(q).kind # "exit" /\ NoExit(Tail(q))
<1> PICK n \in Nat : n = Len(q)
  OBVIOUS
<1>0. \A k \in 1 .. n : q[k].kind # "exit"
  BY DEF NoExit
<1>1. ASSUME NEW e \in Queued, e.kind # "exit"
      PROVE  NoExit(Append(q, e))
  <2> PICK r \in Seq(Queued) : r = Append(q, e)
    BY AppendProperties
  <2>1. Len(r) = n + 1 /\ r[n + 1] = e /\ \A k \in 1 .. n : r[k] = q[k]
    BY AppendProperties
  <2>2. \A k \in 1 .. n + 1 : k = n + 1 \/ k \in 1 .. n
    OBVIOUS
  <2>3. \A k \in 1 .. n + 1 : r[k].kind # "exit"
    BY <1>0, <1>1, <2>1, <2>2
  <2> QED
    BY <2>1, <2>3 DEF NoExit
<1>2. ASSUME q # <<>>
      PROVE  Head(q).kind # "exit" /\ NoExit(Tail(q))
  <2> PICK r \in Seq(Queued) : r = Tail(q)
    BY <1>2, HeadTailProperties
  <2>1. Head(q) = q[1] /\ n >= 1 /\ Len(r) = n - 1 /\ \A k \in 1 .. n - 1 : r[k] = q[k + 1]
    BY <1>2, HeadTailProperties
  <2>2. \A k \in 1 .. n - 1 : k + 1 \in 1 .. n
    OBVIOUS
  <2>3. \A k \in 1 .. n - 1 : r[k].kind # "exit"
    BY <1>0, <2>1, <2>2
  <2>4. 1 \in 1 .. n
    BY <2>1
  <2> QED
    BY <1>0, <2>1, <2>3, <2>4 DEF NoExit
<1> QED
  BY <1>1, <1>2

LEMMA ExitStep ==
  ASSUME Typed, ExitInv, [Next]_vars
  PROVE  ExitInv'
<1>0. /\ Root \in Processes /\ Sink \in Processes /\ Workers \subseteq Processes /\ Root # Sink
      /\ Root \notin Workers
  BY ProcessesAssumption DEF Processes
<1>1. CASE UNCHANGED <<sinkq, command>>
  BY <1>1 DEF ExitInv
<1>2. CASE RootExit
  BY <1>0, <1>2 DEF RootExit, ExitInv
<1>3. ASSUME NEW w \in Workers, WorkerExit(w)
      PROVE  ExitInv'
  <2>1. command[w] = "sent" /\ command' = [command EXCEPT ![w] = "done"]
    BY <1>3 DEF WorkerExit
  <2>2. command[Root] = "done"
    BY <1>0, <2>1 DEF ExitInv
  <2>3. command'[Root] = "done"
    BY <1>0, <2>1, <2>2 DEF Typed
  <2> QED
    BY <2>3 DEF ExitInv
<1>4. CASE PumpReceive
  <2> PICK p \in Processes : Received(p) /\ (Aborts(p) \/ Continues(p) \/ Completes(p))
    BY <1>4, ReceiveCases
  <2>1. command' = command
    BY DEF Received
  <2>2. CASE sinkq' = sinkq
    BY <1>1, <2>1, <2>2
  <2>3. CASE Completes(p)
    <3>1. events[p] \in Seq(Message) /\ events[p] # <<>> /\ pump.got \in Seq(Message)
      BY DEF Typed, Received
    <3>2. Append(pump.got, Head(events[p])) \in Seq(Message)
      BY <3>1, HeadTailProperties, AppendProperties
    <3> PICK e : e = [kind |-> "events", data |-> Append(pump.got, Head(events[p]))]
      OBVIOUS
    <3>3. e \in Queued /\ e.kind # "exit"
      BY <3>2 DEF Queued
    <3>4. sinkq' = Append(sinkq, e) /\ sinkq \in Seq(Queued)
      BY <2>3 DEF Completes, Typed
    <3> QED
      BY <2>1, <3>3, <3>4, NoExitSteps DEF ExitInv
  <2> QED
    BY <2>2, <2>3 DEF Aborts, Continues
<1>5. CASE StatePumpReceive
  <2>1. states[Root] \in Seq(StateMessage) /\ states[Root] # <<>> /\ sinkq \in Seq(Queued)
    BY <1>0, <1>5 DEF StatePumpReceive, Typed
  <2>2. Head(states[Root]) \in StateMessage
    BY <2>1, HeadTailProperties
  <2>3. Head(states[Root]) \in Queued /\ Head(states[Root]).kind # "exit"
    BY <2>2 DEF Queued, StateMessage
  <2>4. command' = command /\ (sinkq' = sinkq \/ sinkq' = Append(sinkq, Head(states[Root])))
    BY <1>5 DEF StatePumpReceive, QueueEvent
  <2> QED
    BY <2>1, <2>3, <2>4, NoExitSteps DEF ExitInv
<1>6. CASE ReceiveExit
  <2>1. command[Sink] = "sent" /\ command' = [command EXCEPT ![Sink] = "queued"]
    BY <1>6 DEF ReceiveExit
  <2>2. command'[Root] = "done"
    BY <1>0, <2>1 DEF ExitInv, Typed
  <2> QED
    BY <2>2 DEF ExitInv
<1>7. CASE HandleEvent
  <2> PICK e : Handles(e) /\ (HandlesEvents(e) \/ HandlesState(e) \/ HandlesExit(e))
    BY <1>7, HandleCases
  <2>1. sinkq \in Seq(Queued) /\ sinkq # <<>> /\ e = Head(sinkq) /\ sinkq' = Tail(sinkq)
    BY DEF Handles, Typed
  <2>2. CASE command' = command
    BY <2>1, <2>2, NoExitSteps DEF ExitInv
  <2>3. CASE HandlesExit(e)
    <3>1. command[Root] = "done"
      BY <2>1, <2>3, NoExitSteps DEF ExitInv, HandlesExit
    <3>2. command'[Root] = "done"
      BY <1>0, <2>3, <3>1 DEF HandlesExit, Typed
    <3> QED
      BY <3>2 DEF ExitInv
  <2> QED
    BY <2>2, <2>3 DEF HandlesEvents, HandlesState
<1>8. CASE RootStateChange
  BY <1>1, <1>8 DEF RootStateChange, sinkVars
<1>9. ASSUME NEW w \in Workers, Deal(w) \/ HistogramEvents(w) \/ WorkerStateChange(w)
      PROVE  ExitInv'
  <2>1. UNCHANGED <<sinkq, command>>
    BY <1>9 DEF Deal, HistogramEvents, WorkerStateChange, sinkVars
  <2> QED
    BY <1>1, <2>1
<1>10. ASSUME NEW p \in Processes, SendMessage(p)
       PROVE  ExitInv'
  <2>1. UNCHANGED <<sinkq, command>>
    BY <1>10 DEF SendMessage, sinkVars
  <2> QED
    BY <1>1, <2>1
<1>11. CASE PumpTest
  BY <1>1, <1>11 DEF PumpTest
<1>12. CASE UNCHANGED vars
  BY <1>1, <1>12 DEF vars, sinkVars
<1> QED
  BY <1>2, <1>3, <1>4, <1>5, <1>6, <1>7, <1>8, <1>9, <1>10, <1>11, <1>12
     DEF Next, WorkerMain, Pump

LEMMA TypedStep ==
  ASSUME Typed, ExitInv, [Next]_vars
  PROVE  Typed'
<1>1. CASE UNCHANGED vars
  BY <1>1 DEF vars, dataVars, sinkVars, Typed
<1>2. CASE Next
  BY <1>2, RootStateChangeTyped, RootExitTyped, DealTyped, HistogramEventsTyped,
     WorkerStateChangeTyped, WorkerExitTyped, SendMessageTyped, PumpTestTyped,
     PumpReceiveTyped, StatePumpReceiveTyped, ReceiveExitTyped, HandleEventTyped
     DEF Next, WorkerMain, Pump
<1> QED
  BY <1>1, <1>2

TypedInv == Typed /\ ExitInv

LEMMA TypedInvariant == Spec => []TypedInv
<1>1. Init => TypedInv
  <2>1. Init => ExitInv
    BY DEF Init, ExitInv, NoExit
  <2> QED
    BY <2>1, InitTyped DEF TypedInv
<1>2. TypedInv /\ [Next]_vars => TypedInv'
  BY TypedStep, ExitStep DEF TypedInv
<1> QED
  BY <1>1, <1>2, PTL DEF Spec

\* The type invariant: batches stay shorter than BATCH_SIZE, a main thread never has more
\* to send than one batch and one state change, and only the workers hold events.
THEOREM SinkTypesCorrect == Spec => []TypeOK
BY TypedInvariant, TypedIsTypeOK, PTL DEF TypedInv

---------------------------------------------------------------------------
(* State changes.  The n-th state change of the program begins a run if n  *)
(* is odd and ends it if n is even.                                        *)

ChangeOf(n) == Change((n + 1) \div 2, n % 2 = 1)
StopMessage == Change(StopRun, TRUE)
NumberOf(m) == 2 * m.data[1] - m.data[2]
IsChange(m) == m.kind = "state"

\* The state changes the root has made
Made == 2 * run.number - (IF run.ended THEN 0 ELSE 1)

\* What the root has still to send and the state pump to receive: the changes behind
\* the r-th one, and the message that stops the pump.
Line(s, o) == s \o o
Awaited(l, r, n, stop) ==
  /\ Len(l) = (n - r) + (IF stop THEN 1 ELSE 0)
  /\ \A k \in 1 .. n - r : l[k] = ChangeOf(r + k)
  /\ stop => l[(n - r) + 1] = StopMessage

\* The queue holds the changes behind the a-th one up to the r-th one, in order.
Arrived(q, a, r) ==
  /\ \A k \in DOMAIN q : IsChange(q[k]) => NumberOf(q[k]) \in a + 1 .. r /\ q[k] = ChangeOf(NumberOf(q[k]))
  /\ \A j, k \in DOMAIN q :
       (j < k /\ IsChange(q[j]) /\ IsChange(q[k])) => NumberOf(q[j]) < NumberOf(q[k])
  /\ \A i \in a + 1 .. r : \E k \in DOMAIN q : IsChange(q[k]) /\ NumberOf(q[k]) = i

ReceivedChanges(r, n, l, stop, pumpState, q, heard) ==
  /\ r <= n
  /\ IF pumpState = "done" THEN stop /\ l = <<>> ELSE Awaited(l, r, n, stop)
  /\ Len(heard) <= r /\ Arrived(q, Len(heard), r)
  /\ \A k \in DOMAIN heard : heard[k] = ChangeOf(k)

ChangesInv ==
  \E r \in Nat :
    ReceivedChanges(r, Made, Line(states[Root], outbox[Root]), command[Root] = "done",
                    statePump, sinkq, notified)

LEMMA ChangeFacts ==
  ASSUME NEW n \in Nat
  PROVE  /\ ChangeOf(n) \in StateMessage /\ NumberOf(ChangeOf(n)) = n /\ IsChange(ChangeOf(n))
         /\ n > 0 => ~IsStop(ChangeOf(n))
<1>1. (n + 1) \div 2 \in Nat /\ (n % 2 = 1 \/ n % 2 = 0) /\ (n > 0 => (n + 1) \div 2 >= 1)
      /\ 2 * ((n + 1) \div 2) - (IF n % 2 = 1 THEN 1 ELSE 0) = n
  OBVIOUS
<1> PICK h \in Nat : h = (n + 1) \div 2
  BY <1>1
<1> PICK b \in {0, 1} : b = IF n % 2 = 1 THEN 1 ELSE 0
  OBVIOUS
<1>2. ChangeOf(n) = [kind |-> "state", data |-> <<h, b>>]
  BY DEF ChangeOf, Change
<1>3. <<h, b>> \in Seq(Int)
  OBVIOUS
<1>4. 2 * h - b = n /\ (n > 0 => h >= 1)
  BY <1>1
<1>5. n > 0 => h # -1
  BY <1>4
<1> QED
  BY <1>2, <1>3, <1>4, <1>5 DEF StateMessage, NumberOf, IsChange, IsStop, StopRun

LEMMA StopFacts == StopMessage \in StateMessage /\ IsChange(StopMessage) /\ IsStop(StopMessage)
<1>1. <<StopRun, 1>> \in Seq(Int)
  BY DEF StopRun
<1> QED
  BY <1>1 DEF StopMessage, Change, StateMessage, IsChange, IsStop

LEMMA ChangesOfRuns ==
  ASSUME NEW m \in Nat
  PROVE  ChangeOf(2 * m + 1) = Change(m + 1, TRUE) /\ ChangeOf(2 * m) = Change(m, FALSE)
<1>1. ((2 * m + 1) + 1) \div 2 = m + 1 /\ (2 * m + 1) % 2 = 1
  OBVIOUS
<1>2. (2 * m + 1) \div 2 = m /\ (2 * m) % 2 = 0
  OBVIOUS
<1> QED
  BY <1>1, <1>2 DEF ChangeOf, Change

LEMMA ChangesInOrderHolds ==
  ASSUME Typed, ChangesInv
  PROVE  ChangesInOrder
<1> PICK r \in Nat :
      ReceivedChanges(r, Made, Line(states[Root], outbox[Root]), command[Root] = "done",
                      statePump, sinkq, notified)
  BY DEF ChangesInv
<1>1. /\ \A k \in DOMAIN notified : notified[k] = ChangeOf(k)
      /\ Len(notified) <= r /\ r <= Made
  BY DEF ReceivedChanges
<1>2. run.number \in Nat /\ run.ended \in BOOLEAN
  BY BoundsAssumption DEF Typed
<1>3. Made <= 2 * run.number /\ Made \in Int
  BY <1>2 DEF Made
<1>4. DOMAIN notified = 1 .. Len(notified) /\ Len(notified) \in Nat
  BY DEF Typed
<1>5. \A k \in DOMAIN notified : k <= 2 * run.number
  BY <1>1, <1>2, <1>3, <1>4
<1> QED
  BY <1>1, <1>5 DEF ChangesInOrder, ChangeOf

\* Something else is queued.
LEMMA ArrivedOther ==
  ASSUME NEW q \in Seq(Queued), NEW a \in Nat, NEW r \in Nat, Arrived(q, a, r)
  PROVE  /\ \A e \in Queued : ~IsChange(e) => Arrived(Append(q, e), a, r)
         /\ \A e \in Queued : e = ChangeOf(r + 1) /\ a <= r => Arrived(Append(q, e), a, r + 1)
<1> PICK n \in Nat : n = Len(q)
  OBVIOUS
<1>0. /\ \A k \in 1 .. n : IsChange(q[k]) =>
           NumberOf(q[k]) \in a + 1 .. r /\ q[k] = ChangeOf(NumberOf(q[k]))
      /\ \A j, k \in 1 .. n :
           (j < k /\ IsChange(q[j]) /\ IsChange(q[k])) => NumberOf(q[j]) < NumberOf(q[k])
      /\ \A i \in a + 1 .. r : \E k \in 1 .. n : IsChange(q[k]) /\ NumberOf(q[k]) = i
  <2>1. DOMAIN q = 1 .. n
    OBVIOUS
  <2> QED
    BY <2>1 DEF Arrived
<1>1. ASSUME NEW e \in Queued, NEW s \in {r, r + 1}, a <= r + 1,
             s = r => ~IsChange(e),
             s = r + 1 => e = ChangeOf(s) /\ a <= r
      PROVE  Arrived(Append(q, e), a, s)
  <2> PICK t \in Seq(Queued) : t = Append(q, e)
    BY AppendProperties
  <2>1. Len(t) = n + 1 /\ t[n + 1] = e /\ \A k \in 1 .. n : t[k] = q[k]
    BY AppendProperties
  <2>2. \A k \in 1 .. n + 1 : k = n + 1 \/ k \in 1 .. n
    OBVIOUS
  <2>3. IsChange(e) => s = r + 1 /\ NumberOf(e) = s /\ e = ChangeOf(NumberOf(e)) /\ s \in a + 1 .. s
    <3>1. ASSUME IsChange(e)
          PROVE  s = r + 1 /\ e = ChangeOf(s) /\ a <= r
      BY <1>1, <3>1
    <3>2. NumberOf(ChangeOf(s)) = s
      BY ChangeFacts
    <3> QED
      BY <3>1, <3>2
  <2>4. \A k \in 1 .. n + 1 : IsChange(t[k]) => NumberOf(t[k]) \in a + 1 .. s /\ t[k] = ChangeOf(NumberOf(t[k]))
    <3> TAKE k \in 1 .. n + 1
    <3>1. CASE k = n + 1
      BY <2>1, <2>3, <3>1
    <3>2. CASE k \in 1 .. n
      <4>1. IsChange(q[k]) => NumberOf(q[k]) \in a + 1 .. r /\ q[k] = ChangeOf(NumberOf(q[k]))
        BY <1>0, <3>2
      <4>2. a + 1 .. r \subseteq a + 1 .. s
        OBVIOUS
      <4> QED
        BY <2>1, <3>2, <4>1, <4>2
    <3> QED
      BY <2>2, <3>1, <3>2
  <2>5. \A j, k \in 1 .. n + 1 :
          (j < k /\ IsChange(t[j]) /\ IsChange(t[k])) => NumberOf(t[j]) < NumberOf(t[k])
    <3> SUFFICES ASSUME NEW j \in 1 .. n + 1, NEW k \in 1 .. n + 1,
                        j < k, IsChange(t[j]), IsChange(t[k])
                 PROVE  NumberOf(t[j]) < NumberOf(t[k])
      OBVIOUS
    <3>1. j \in 1 .. n /\ t[j] = q[j]
      BY <2>1
    <3>2. CASE k = n + 1
      <4>1. NumberOf(q[j]) \in a + 1 .. r
        BY <1>0, <3>1
      <4>2. NumberOf(t[k]) = r + 1
        BY <2>1, <2>3, <3>2
      <4> QED
        BY <3>1, <4>1, <4>2
    <3>3. CASE k \in 1 .. n
      <4>1. t[k] = q[k]
        BY <2>1, <3>3
      <4> QED
        BY <1>0, <3>1, <3>3, <4>1
    <3> QED
      BY <2>2, <3>2, <3>3
  <2>6. \A i \in a + 1 .. s : \E k \in 1 .. n + 1 : IsChange(t[k]) /\ NumberOf(t[k]) = i
    <3> SUFFICES ASSUME NEW i \in a + 1 .. s
                 PROVE  \E k \in 1 .. n + 1 : IsChange(t[k]) /\ NumberOf(t[k]) = i
      OBVIOUS
    <3>1. CASE i \in a + 1 .. r
      <4>1. PICK k \in 1 .. n : IsChange(q[k]) /\ NumberOf(q[k]) = i
        BY <1>0, <3>1
      <4>2. k \in 1 .. n + 1 /\ t[k] = q[k]
        BY <2>1
      <4> QED
        BY <4>1, <4>2
    <3>2. CASE i \notin a + 1 .. r
      <4>1. s = r + 1 /\ i = s
        BY <3>2
      <4>2. IsChange(e)
        BY <1>1, <4>1, ChangeFacts
      <4>3. t[n + 1] = e /\ NumberOf(e) = i /\ n + 1 \in 1 .. n + 1
        BY <2>1, <2>3, <4>1, <4>2
      <4> QED
        BY <4>2, <4>3
    <3> QED
      BY <3>1, <3>2
  <2>7. DOMAIN t = 1 .. n + 1
    BY <2>1
  <2> QED
    BY <2>4, <2>5, <2>6, <2>7 DEF Arrived
<1>2. ASSUME NEW e \in Queued, ~IsChange(e)
      PROVE  Arrived(Append(q, e), a, r)
  <2>1. CASE a <= r + 1
    BY <1>1, <1>2, <2>1
  <2>2. CASE a > r + 1
    <3> PICK t \in Seq(Queued) : t = Append(q, e)
      BY AppendProperties
    <3>1. Len(t) = n + 1 /\ t[n + 1] = e /\ \A k \in 1 .. n : t[k] = q[k]
      BY AppendProperties
    <3>2. a + 1 .. r = {}
      BY <2>2
    <3>3. \A k \in 1 .. n : ~IsChange(q[k])
      BY <1>0, <3>2
    <3>4. \A k \in 1 .. n + 1 : k = n + 1 \/ k \in 1 .. n
      OBVIOUS
    <3>5. DOMAIN t = 1 .. n + 1 /\ \A k \in 1 .. n + 1 : ~IsChange(t[k])
      BY <1>2, <3>1, <3>3, <3>4
    <3> QED
      BY <3>2, <3>5 DEF Arrived
  <2> QED
    BY <2>1, <2>2
<1>3. ASSUME NEW e \in Queued, e = ChangeOf(r + 1), a <= r
      PROVE  Arrived(Append(q, e), a, r + 1)
  <2>1. r + 1 # r /\ a <= r + 1
    BY <1>3
  <2> QED
    BY <1>1, <1>3, <2>1
<1> QED
  BY <1>2, <1>3

\* The head of the queue is handled: a change is the one behind those handled before.
LEMMA ArrivedTail ==
  ASSUME NEW q \in Seq(Queued), NEW a \in Nat, NEW r \in Nat, Arrived(q, a, r), q # <<>>
  PROVE  /\ ~IsChange(Head(q)) => Arrived(Tail(q), a, r)
         /\ IsChange(Head(q)) => Head(q) = ChangeOf(a + 1) /\ a + 1 <= r /\ Arrived(Tail(q), a + 1, r)
<1> PICK n \in Nat : n = Len(q) /\ n >= 1
  BY EmptySeq
<1>0. /\ \A k \in 1 .. n : IsChange(q[k]) =>
           NumberOf(q[k]) \in a + 1 .. r /\ q[k] = ChangeOf(NumberOf(q[k]))
      /\ \A j, k \in 1 .. n :
           (j < k /\ IsChange(q[j]) /\ IsChange(q[k])) => NumberOf(q[j]) < NumberOf(q[k])
      /\ \A i \in a + 1 .. r : \E k \in 1 .. n : IsChange(q[k]) /\ NumberOf(q[k]) = i
  <2>1. DOMAIN q = 1 .. n
    OBVIOUS
  <2> QED
    BY <2>1 DEF Arrived
<1> PICK t \in Seq(Queued) : t = Tail(q)
  BY HeadTailProperties
<1>1. Head(q) = q[1] /\ Len(t) = n - 1 /\ \A k \in 1 .. n - 1 : t[k] = q[k + 1]
  BY HeadTailProperties
<1>2. DOMAIN t = 1 .. n - 1 /\ 1 \in 1 .. n /\ \A k \in 1 .. n - 1 : k + 1 \in 1 .. n
  BY <1>1
<1>3. \A k \in 1 .. n : k = 1 \/ (k - 1 \in 1 .. n - 1 /\ (k - 1) + 1 = k)
  OBVIOUS
<1>4. \A k \in 1 .. n - 1 : IsChange(t[k]) =>
        NumberOf(t[k]) \in a + 1 .. r /\ t[k] = ChangeOf(NumberOf(t[k]))
  BY <1>0, <1>1, <1>2
<1>5. \A j, k \in 1 .. n - 1 :
        (j < k /\ IsChange(t[j]) /\ IsChange(t[k])) => NumberOf(t[j]) < NumberOf(t[k])
  <2> SUFFICES ASSUME NEW j \in 1 .. n - 1, NEW k \in 1 .. n - 1,
                      j < k, IsChange(t[j]), IsChange(t[k])
               PROVE  NumberOf(t[j]) < NumberOf(t[k])
    OBVIOUS
  <2>1. j + 1 \in 1 .. n /\ k + 1 \in 1 .. n /\ j + 1 < k + 1
    OBVIOUS
  <2>2. t[j] = q[j + 1] /\ t[k] = q[k + 1]
    BY <1>1
  <2> QED
    BY <1>0, <2>1, <2>2
<1>6. ASSUME ~IsChange(q[1])
      PROVE  Arrived(t, a, r)
  <2>1. ASSUME NEW i \in a + 1 .. r
        PROVE  \E k \in 1 .. n - 1 : IsChange(t[k]) /\ NumberOf(t[k]) = i
    <3>1. PICK k \in 1 .. n : IsChange(q[k]) /\ NumberOf(q[k]) = i
      BY <1>0
    <3>2. k # 1
      BY <1>6, <3>1
    <3>3. k - 1 \in 1 .. n - 1 /\ t[k - 1] = q[k]
      BY <1>1, <1>3, <3>2
    <3> QED
      BY <3>1, <3>3
  <2> QED
    BY <1>2, <1>4, <1>5, <2>1 DEF Arrived
<1>7. ASSUME IsChange(q[1])
      PROVE  q[1] = ChangeOf(a + 1) /\ a + 1 <= r /\ Arrived(t, a + 1, r)
  <2>1. NumberOf(q[1]) \in a + 1 .. r /\ q[1] = ChangeOf(NumberOf(q[1]))
    BY <1>0, <1>2, <1>7
  <2>2. a + 1 \in a + 1 .. r
    BY <2>1
  <2>3. PICK k \in 1 .. n : IsChange(q[k]) /\ NumberOf(q[k]) = a + 1
    BY <1>0, <2>2
  <2>4. k = 1
    <3>1. CASE 1 < k
      <4>1. NumberOf(q[1]) < NumberOf(q[k])
        BY <1>0, <1>2, <1>7, <2>3, <3>1
      <4> QED
        BY <2>1, <2>3, <4>1
    <3> QED
      BY <3>1
  <2>5. NumberOf(q[1]) = a + 1
    BY <2>3, <2>4
  <2>6. \A j \in 1 .. n - 1 : IsChange(t[j]) =>
          NumberOf(t[j]) \in (a + 1) + 1 .. r /\ t[j] = ChangeOf(NumberOf(t[j]))
    <3> SUFFICES ASSUME NEW j \in 1 .. n - 1, IsChange(t[j])
                 PROVE  NumberOf(t[j]) \in (a + 1) + 1 .. r /\ t[j] = ChangeOf(NumberOf(t[j]))
      OBVIOUS
    <3>1. j + 1 \in 1 .. n /\ 1 < j + 1 /\ t[j] = q[j + 1]
      BY <1>1
    <3>2. NumberOf(q[1]) < NumberOf(q[j + 1])
      BY <1>0, <1>2, <1>7, <3>1
    <3>3. NumberOf(t[j]) \in a + 1 .. r /\ t[j] = ChangeOf(NumberOf(t[j]))
      BY <1>4
    <3> QED
      BY <2>5, <3>1, <3>2, <3>3
  <2>7. ASSUME NEW i \in (a + 1) + 1 .. r
        PROVE  \E j \in 1 .. n - 1 : IsChange(t[j]) /\ NumberOf(t[j]) = i
    <3>0. i \in a + 1 .. r /\ i # a + 1
      OBVIOUS
    <3>1. PICK j \in 1 .. n : IsChange(q[j]) /\ NumberOf(q[j]) = i
      BY <1>0, <3>0
    <3>2. j # 1
      BY <2>5, <3>0, <3>1
    <3>3. j - 1 \in 1 .. n - 1 /\ t[j - 1] = q[j]
      BY <1>1, <1>3, <3>2
    <3> QED
      BY <3>1, <3>3
  <2>8. Arrived(t, a + 1, r)
    BY <1>2, <1>5, <2>6, <2>7 DEF Arrived
  <2> QED
    BY <2>1, <2>2, <2>5, <2>8
<1> QED
  BY <1>1, <1>6, <1>7

\* The root makes one more change, or sends the message that stops the pump.
LEMMA AwaitedMore ==
  ASSUME NEW r \in Nat, NEW n \in Nat, r <= n, NEW l \in Seq(Message), Awaited(l, r, n, FALSE)
  PROVE  /\ Awaited(Append(l, ChangeOf(n + 1)), r, n + 1, FALSE)
         /\ Awaited(Append(l, StopMessage), r, n, TRUE)
<1> PICK d \in Nat : d = n - r
  OBVIOUS
<1>1. Len(l) = d /\ \A k \in 1 .. d : l[k] = ChangeOf(r + k)
  BY DEF Awaited
<1>2. \A m : Len(Append(l, m)) = d + 1 /\ Append(l, m)[d + 1] = m /\ \A k \in 1 .. d : Append(l, m)[k] = l[k]
  BY <1>1, AppendProperties
<1>3. (n + 1) - r = d + 1 /\ r + (d + 1) = n + 1 /\ \A k \in 1 .. d + 1 : k = d + 1 \/ k \in 1 .. d
  OBVIOUS
<1> PICK c : c = ChangeOf(n + 1)
  OBVIOUS
<1> PICK s : s = Append(l, c)
  OBVIOUS
<1>4. Len(s) = d + 1 /\ s[d + 1] = c /\ \A k \in 1 .. d : s[k] = l[k]
  BY <1>2
<1>5. \A k \in 1 .. d + 1 : s[k] = ChangeOf(r + k)
  BY <1>1, <1>3, <1>4
<1>6. Awaited(s, r, n + 1, FALSE)
  <2>1. Len(s) = ((n + 1) - r) + 0
    BY <1>3, <1>4
  <2> QED
    BY <1>3, <1>5, <2>1 DEF Awaited
<1> PICK t : t = Append(l, StopMessage)
  OBVIOUS
<1>7. Len(t) = d + 1 /\ t[d + 1] = StopMessage /\ \A k \in 1 .. d : t[k] = ChangeOf(r + k)
  BY <1>1, <1>2
<1>8. Awaited(t, r, n, TRUE)
  BY <1>7 DEF Awaited
<1> QED
  BY <1>6, <1>8

\* Only state changes are awaited; the next one is the change behind those received, or
\* when all are received the message that stops the pump.
LEMMA AwaitedNext ==
  ASSUME NEW r \in Nat, NEW n \in Nat, r <= n, NEW l \in Seq(Message), NEW stop \in BOOLEAN,
         Awaited(l, r, n, stop), l # <<>>
  PROVE  /\ \A k \in 1 .. Len(l) : IsChange(l[k])
         /\ \/ /\ r < n /\ Head(l) = ChangeOf(r + 1) /\ Awaited(Tail(l), r + 1, n, stop)
            \/ /\ r = n /\ stop /\ Head(l) = StopMessage /\ Tail(l) = <<>>
<1> PICK d \in Nat : d = n - r
  OBVIOUS
<1>1. /\ Len(l) = d + (IF stop THEN 1 ELSE 0) /\ Len(l) >= 1
      /\ \A k \in 1 .. d : l[k] = ChangeOf(r + k)
      /\ stop => l[d + 1] = StopMessage
  BY EmptySeq DEF Awaited
<1>2. \A k \in 1 .. Len(l) : IsChange(l[k])
  <2> TAKE k \in 1 .. Len(l)
  <2>1. CASE k \in 1 .. d
    <3>1. r + k \in Nat
      OBVIOUS
    <3> QED
      BY <1>1, <2>1, <3>1, ChangeFacts
  <2>2. CASE k \notin 1 .. d
    <3>1. stop /\ k = d + 1
      BY <1>1, <2>2
    <3> QED
      BY <1>1, <3>1, StopFacts
  <2> QED
    BY <2>1, <2>2
<1> PICK t \in Seq(Message) : t = Tail(l)
  BY HeadTailProperties
<1>3. Head(l) = l[1] /\ Len(t) = Len(l) - 1 /\ \A k \in 1 .. Len(l) - 1 : t[k] = l[k + 1]
  BY HeadTailProperties
<1>4. CASE d > 0
  <2> PICK c \in Nat : c = d - 1 /\ n - (r + 1) = c
    BY <1>4
  <2>1. Head(l) = ChangeOf(r + 1) /\ r < n
    BY <1>1, <1>3, <1>4
  <2>2. Len(t) = c + (IF stop THEN 1 ELSE 0)
    BY <1>1, <1>3
  <2>3. \A k \in 1 .. c : t[k] = ChangeOf((r + 1) + k)
    <3> TAKE k \in 1 .. c
    <3>1. k \in 1 .. Len(l) - 1 /\ k + 1 \in 1 .. d /\ r + (k + 1) = (r + 1) + k
      BY <1>1
    <3>2. t[k] = l[k + 1] /\ l[k + 1] = ChangeOf(r + (k + 1))
      BY <1>1, <1>3, <3>1
    <3> QED
      BY <3>1, <3>2
  <2>4. stop => t[c + 1] = StopMessage
    <3>1. stop => c + 1 \in 1 .. Len(l) - 1 /\ (c + 1) + 1 = d + 1
      BY <1>1
    <3> QED
      BY <1>1, <1>3, <3>1
  <2>5. Awaited(t, r + 1, n, stop)
    BY <2>2, <2>3, <2>4 DEF Awaited
  <2> QED
    BY <1>2, <2>1, <2>5
<1>5. CASE d = 0
  <2>1. r = n /\ stop /\ Len(l) = 1 /\ l[1] = StopMessage
    BY <1>1, <1>5
  <2>2. t = <<>>
    BY <1>3, <2>1, EmptySeq
  <2> QED
    BY <1>2, <1>3, <2>1, <2>2
<1> QED
  BY <1>4, <1>5

\* The changes on their way to the sink, the ones that have arrived and the ones handled
RootLine == Line(states[Root], outbox[Root])
Progress(r, n, l, stop) == ReceivedChanges(r, n, l, stop, statePump, sinkq, notified)
RootExited == command[Root] = "done"

LEMMA LineTyped ==
  ASSUME Typed
  PROVE  /\ states[Root] \in Seq(Message) /\ outbox[Root] \in Seq(Message) /\ RootLine \in Seq(Message)
         /\ Made \in Int /\ sinkq \in Seq(Queued) /\ notified \in Seq(StateMessage) /\ Root \in Processes
<1>1. Root \in Processes /\ StateMessage \subseteq Message
  BY DEF Processes, StateMessage, Message, Kinds
<1>2. states[Root] \in Seq(StateMessage) /\ outbox[Root] \in Seq(Message)
  BY <1>1 DEF Typed
<1>3. states[Root] \in Seq(Message)
  BY <1>1, <1>2
<1>4. RootLine \in Seq(Message)
  BY <1>2, <1>3, ConcatProperties DEF RootLine, Line
<1>5. Made \in Int
  <2>1. run.number \in Nat
    BY BoundsAssumption DEF Typed
  <2> QED
    BY <2>1 DEF Made
<1> QED
  BY <1>1, <1>2, <1>3, <1>4, <1>5 DEF Typed

LEMMA ChangesUnfold ==
  ASSUME Typed, ChangesInv
  PROVE  \E r \in Nat : Made \in Nat /\ r <= Made /\ Progress(r, Made, RootLine, RootExited)
<1> PICK r \in Nat : ReceivedChanges(r, Made, Line(states[Root], outbox[Root]), command[Root] = "done",
                                     statePump, sinkq, notified)
  BY DEF ChangesInv
<1>1. r <= Made /\ Made \in Int
  BY LineTyped DEF ReceivedChanges
<1>2. Made \in Nat
  BY <1>1
<1> QED
  BY <1>1, <1>2 DEF Progress, RootLine, RootExited

\* Steps that leave the state changes where they are
LEMMA ChangesStay ==
  ASSUME Typed, ChangesInv, run' = run, RootLine' = RootLine, RootExited' = RootExited,
         statePump' = statePump, sinkq' = sinkq, notified' = notified
  PROVE  ChangesInv'
<1> PICK r \in Nat : Progress(r, Made, RootLine, RootExited)
  BY ChangesUnfold
<1>1. Made' = Made
  BY DEF Made
<1>2. Progress(r, Made, RootLine, RootExited)'
  BY <1>1 DEF Progress
<1> QED
  BY <1>2 DEF ChangesInv, Progress, RootLine, RootExited

LEMMA RootStateChangeChanges ==
  ASSUME Typed, ChangesInv, RootStateChange
  PROVE  ChangesInv'
<1> PICK r \in Nat : Made \in Nat /\ r <= Made /\ Progress(r, Made, RootLine, RootExited)
  BY ChangesUnfold
<1> PICK m \in Nat : m = Made
  OBVIOUS
<1>0. /\ states[Root] \in Seq(Message) /\ outbox[Root] = <<>> /\ batch[Root] = <<>>
      /\ Root \in Processes /\ ~RootExited
  BY LineTyped DEF RootStateChange, Ready, RootExited, Typed
<1> PICK k \in Nat : k = run.number
  BY BoundsAssumption DEF Typed
<1>1. run.ended \in BOOLEAN
  BY DEF Typed
<1> PICK c \in StateMessage : c = ChangeOf(m + 1)
  BY ChangeFacts
<1>2. /\ Made' = m + 1
      /\ c = Change(IF run.ended THEN run.number + 1 ELSE run.number, run.ended)
  <2>1. CASE run.ended
    <3>1. run'.number = k + 1 /\ run'.ended = FALSE
      BY <2>1 DEF RootStateChange
    <3>2. m = 2 * k
      BY <2>1 DEF Made
    <3>3. Made' = 2 * (k + 1) - 1
      BY <3>1 DEF Made
    <3>4. Made' = m + 1
      BY <3>2, <3>3
    <3>5. c = Change(k + 1, TRUE)
      BY <3>2, ChangesOfRuns
    <3>6. run.ended = TRUE
      BY <1>1, <2>1
    <3> QED
      BY <3>4, <3>5, <3>6
  <2>2. CASE ~run.ended
    <3>1. run'.number = k /\ run'.ended = TRUE
      BY <2>2 DEF RootStateChange
    <3>2. m = 2 * k - 1
      BY <2>2 DEF Made
    <3>3. Made' = 2 * k - 0
      BY <3>1 DEF Made
    <3>4. Made' = m + 1 /\ m + 1 = 2 * k
      BY <3>2, <3>3
    <3>5. c = Change(k, FALSE)
      BY <3>4, ChangesOfRuns
    <3>6. run.ended = FALSE
      BY <1>1, <2>2
    <3> QED
      BY <3>4, <3>5, <3>6
  <2> QED
    BY <1>1, <2>1, <2>2
<1>3. outbox' = [outbox EXCEPT ![Root] = FlushMessages(<<>>) \o <<c>>]
  BY <1>0, <1>2 DEF RootStateChange, SendStateChange
<1>4. c \in Message /\ <<c>> \in Seq(Message)
  BY OneMember DEF StateMessage, Message, Kinds
<1>5. outbox'[Root] = <<c>>
  BY <1>0, <1>3, <1>4, ConcatEmptySeq DEF FlushMessages, Typed
<1>6. /\ states' = states /\ command' = command /\ statePump' = statePump
      /\ sinkq' = sinkq /\ notified' = notified
  BY DEF RootStateChange, sinkVars
<1>7. RootLine = states[Root] /\ RootLine' = Append(states[Root], c)
  <2>1. states[Root] \o <<>> = states[Root]
    BY <1>0, ConcatEmptySeq
  <2>2. states[Root] \o <<c>> = Append(states[Root], c)
    BY <1>0, <1>4, AppendIsConcat
  <2> QED
    BY <1>0, <1>5, <1>6, <2>1, <2>2 DEF RootLine, Line
<1>8. statePump # "done" /\ Awaited(RootLine, r, m, FALSE)
  <2>1. RootExited = FALSE
    BY <1>0 DEF RootExited
  <2>2. Progress(r, m, RootLine, FALSE)
    BY <2>1
  <2> QED
    BY <2>2 DEF Progress, ReceivedChanges
<1>9. Awaited(RootLine', r, m + 1, FALSE)
  BY <1>0, <1>7, <1>8, AwaitedMore
<1>10. RootExited' = FALSE /\ r <= m + 1
  BY <1>0, <1>6 DEF RootExited
<1>11. Progress(r, Made, RootLine, RootExited)'
  BY <1>2, <1>6, <1>8, <1>9, <1>10 DEF Progress, ReceivedChanges
<1> QED
  BY <1>11 DEF ChangesInv, Progress, RootLine, RootExited

LEMMA RootExitChanges ==
  ASSUME Typed, ChangesInv, RootExit
  PROVE  ChangesInv'
<1> PICK r \in Nat : Made \in Nat /\ r <= Made /\ Progress(r, Made, RootLine, RootExited)
  BY ChangesUnfold
<1>0. /\ states[Root] \in Seq(Message) /\ outbox[Root] = <<>> /\ batch[Root] = <<>>
      /\ Root \in Processes /\ ~RootExited
  BY LineTyped DEF RootExit, Ready, RootExited, Typed
<1>1. outbox' = [outbox EXCEPT ![Root] = FlushMessages(<<>>) \o <<StopMessage>>]
  BY <1>0 DEF RootExit, SendStateChange, StopMessage
<1>2. StopMessage \in Message /\ <<StopMessage>> \in Seq(Message)
  BY OneMember, StopFacts DEF StateMessage, Message, Kinds
<1>3. outbox'[Root] = <<StopMessage>>
  BY <1>0, <1>1, <1>2, ConcatEmptySeq DEF FlushMessages, Typed
<1>4. /\ states' = states /\ run' = run /\ statePump' = statePump
      /\ sinkq' = sinkq /\ notified' = notified
  BY DEF RootExit, sinkVars, dataVars
<1>5. RootLine = states[Root] /\ RootLine' = Append(states[Root], StopMessage)
  <2>1. states[Root] \o <<>> = states[Root]
    BY <1>0, ConcatEmptySeq
  <2>2. states[Root] \o <<StopMessage>> = Append(states[Root], StopMessage)
    BY <1>0, <1>2, AppendIsConcat
  <2> QED
    BY <1>0, <1>3, <1>4, <2>1, <2>2 DEF RootLine, Line
<1>6. statePump # "done" /\ Awaited(RootLine, r, Made, FALSE)
  <2>1. RootExited = FALSE
    BY <1>0 DEF RootExited
  <2>2. Progress(r, Made, RootLine, FALSE)
    BY <2>1
  <2> QED
    BY <2>2 DEF Progress, ReceivedChanges
<1>7. Awaited(RootLine', r, Made, TRUE)
  BY <1>0, <1>5, <1>6, AwaitedMore
<1>8. RootExited' = TRUE /\ Made' = Made
  BY <1>0, <1>4 DEF RootExited, RootExit, Made
<1>9. Progress(r, Made, RootLine, RootExited)'
  BY <1>4, <1>6, <1>7, <1>8 DEF Progress, ReceivedChanges
<1> QED
  BY <1>9 DEF ChangesInv, Progress, RootLine, RootExited

LEMMA SendMessageChanges ==
  ASSUME Typed, ChangesInv, NEW p \in Processes, SendMessage(p)
  PROVE  ChangesInv'
<1>0. /\ states[Root] \in Seq(Message) /\ outbox[Root] \in Seq(Message) /\ Root \in Processes
      /\ RootLine \in Seq(Message)
  BY LineTyped
<1>1. /\ run' = run /\ statePump' = statePump /\ sinkq' = sinkq /\ notified' = notified
      /\ RootExited' = RootExited
  BY DEF SendMessage, dataVars, sinkVars, RootExited
<1>2. outbox' = [outbox EXCEPT ![p] = Tail(@)]
  BY DEF SendMessage
<1> PICK m : m = Head(outbox[p])
  OBVIOUS
<1>3. \/ m.kind = "state" /\ states' = [states EXCEPT ![p] = Append(@, m)]
      \/ m.kind # "state" /\ states' = states
  BY DEF SendMessage
<1>4. CASE p # Root
  <2>1. outbox'[Root] = outbox[Root] /\ states'[Root] = states[Root]
    BY <1>0, <1>2, <1>3, <1>4 DEF Typed
  <2>2. RootLine' = RootLine
    BY <2>1 DEF RootLine, Line
  <2> QED
    BY <1>1, <2>2, ChangesStay
<1>5. CASE p = Root
  <2> PICK s \in Seq(Message) : s = states[Root]
    BY <1>0
  <2> PICK o \in Seq(Message) : o = outbox[Root]
    BY <1>0
  <2>1. o # <<>> /\ m = Head(o)
    BY <1>5 DEF SendMessage
  <2>2. m.kind = "state"
    <3> PICK r \in Nat : Made \in Nat /\ r <= Made /\ Progress(r, Made, RootLine, RootExited)
      BY ChangesUnfold
    <3> PICK i \in Nat : i = Len(s)
      OBVIOUS
    <3> PICK l \in Seq(Message) : l = RootLine
      BY <1>0
    <3>1. Len(l) = i + Len(o) /\ \A k \in 1 .. i + Len(o) : l[k] = IF k <= i THEN s[k] ELSE o[k - i]
      <4>1. l = s \o o
        BY DEF RootLine, Line
      <4>2. /\ Len(s \o o) = Len(s) + Len(o)
            /\ \A k \in 1 .. Len(s) + Len(o) : (s \o o)[k] = IF k <= Len(s) THEN s[k] ELSE o[k - Len(s)]
        BY ConcatProperties
      <4> QED
        BY <4>1, <4>2
    <3>2. Len(o) \in Nat /\ Len(o) >= 1 /\ o[1] = m
      BY <2>1, EmptySeq, HeadTailProperties
    <3> PICK j \in Nat : j = Len(o) /\ j >= 1
      BY <3>2
    <3>3. i + 1 \in 1 .. i + j /\ ~(i + 1 <= i) /\ (i + 1) - i = 1 /\ i + j # 0
      <4>1. \A a, b \in Nat : b >= 1 => a + 1 \in 1 .. a + b /\ ~(a + 1 <= a) /\ (a + 1) - a = 1 /\ a + b # 0
        OBVIOUS
      <4> QED
        BY <4>1
    <3>4. l[i + 1] = m /\ l # <<>> /\ i + 1 \in 1 .. Len(l)
      BY <3>1, <3>2, <3>3, EmptySeq
    <3>5. RootExited \in BOOLEAN
      BY DEF RootExited
    <3>6. Awaited(l, r, Made, RootExited)
      BY <3>4 DEF Progress, ReceivedChanges
    <3>7. IsChange(l[i + 1])
      BY <3>4, <3>5, <3>6, AwaitedNext
    <3> QED
      BY <3>4, <3>7 DEF IsChange
  <2>3. outbox'[Root] = Tail(o) /\ states'[Root] = Append(s, Head(o))
    <3>1. outbox \in [Processes -> Seq(Message)] /\ states \in [Processes -> Seq(StateMessage)]
      BY DEF Typed
    <3>2. states' = [states EXCEPT ![Root] = Append(@, m)]
      BY <1>3, <1>5, <2>2
    <3>3. outbox'[Root] = Tail(o)
      BY <1>0, <1>2, <1>5, <3>1
    <3> QED
      BY <1>0, <2>1, <3>1, <3>2, <3>3
  <2>4. Append(s, Head(o)) \o Tail(o) = s \o o
    BY <2>1, MoveHead
  <2>5. RootLine' = RootLine
    BY <2>3, <2>4 DEF RootLine, Line
  <2> QED
    BY <1>1, <2>5, ChangesStay
<1> QED
  BY <1>4, <1>5

LEMMA StatePumpReceiveChanges ==
  ASSUME Typed, ChangesInv, StatePumpReceive
  PROVE  ChangesInv'
<1> PICK r \in Nat : Made \in Nat /\ r <= Made /\ Progress(r, Made, RootLine, RootExited)
  BY ChangesUnfold
<1>0. /\ states[Root] \in Seq(Message) /\ outbox[Root] \in Seq(Message) /\ Root \in Processes
      /\ RootLine \in Seq(Message) /\ states[Root] # <<>> /\ sinkq \in Seq(Queued)
      /\ notified \in Seq(StateMessage)
  BY LineTyped DEF StatePumpReceive
<1> PICK l \in Seq(Message) : l = RootLine
  BY <1>0
<1>1. /\ Made' = Made /\ notified' = notified /\ RootExited' = RootExited
      /\ outbox' = outbox /\ states'[Root] = Tail(states[Root])
  BY <1>0 DEF StatePumpReceive, dataVars, Made, RootExited, Typed
<1>2. RootLine' = Tail(l) /\ l # <<>> /\ Head(l) = Head(states[Root])
  BY <1>0, <1>1, TailOfConcat DEF RootLine, Line
<1>3. RootExited \in BOOLEAN
  BY DEF RootExited
<1>4. statePump = "running" /\ Awaited(l, r, Made, RootExited)
  BY DEF StatePumpReceive, Progress, ReceivedChanges
<1>5. /\ Len(notified) <= r /\ Arrived(sinkq, Len(notified), r)
      /\ \A k \in DOMAIN notified : notified[k] = ChangeOf(k)
  BY DEF Progress, ReceivedChanges
<1> PICK a \in Nat : a = Len(notified)
  BY <1>0
<1>6. \/ IsStop(Head(l)) /\ statePump' = "done" /\ sinkq' = sinkq
      \/ ~IsStop(Head(l)) /\ statePump' = statePump /\ sinkq' = Append(sinkq, Head(l))
  BY <1>2 DEF StatePumpReceive, QueueEvent
<1>7. CASE r < Made /\ Head(l) = ChangeOf(r + 1) /\ Awaited(Tail(l), r + 1, Made, RootExited)
  <2>1. Head(l) \in Queued /\ ~IsStop(Head(l))
    BY <1>7, ChangeFacts DEF Queued
  <2>2. Arrived(Append(sinkq, Head(l)), a, r + 1)
    BY <1>0, <1>5, <1>7, <2>1, ArrivedOther
  <2>3. r + 1 <= Made /\ a <= r + 1
    BY <1>5, <1>7
  <2>4. Progress(r + 1, Made, RootLine, RootExited)'
    BY <1>1, <1>2, <1>4, <1>5, <1>6, <1>7, <2>1, <2>2, <2>3 DEF Progress, ReceivedChanges
  <2> QED
    BY <2>4 DEF ChangesInv, Progress, RootLine, RootExited
<1>8. CASE r = Made /\ RootExited /\ Head(l) = StopMessage /\ Tail(l) = <<>>
  <2>1. statePump' = "done" /\ sinkq' = sinkq
    BY <1>6, <1>8, StopFacts
  <2>2. Progress(r, Made, RootLine, RootExited)'
    BY <1>1, <1>2, <1>5, <1>8, <2>1 DEF Progress, ReceivedChanges
  <2> QED
    BY <2>2 DEF ChangesInv, Progress, RootLine, RootExited
<1> QED
  BY <1>2, <1>3, <1>4, <1>7, <1>8, AwaitedNext

\* Something that is no state change is queued to the main thread of the sink.
LEMMA QueuedOtherChanges ==
  ASSUME Typed, ChangesInv, run' = run, RootLine' = RootLine, RootExited' = RootExited,
         statePump' = statePump, notified' = notified,
         NEW e \in Queued, ~IsChange(e), sinkq' = Append(sinkq, e)
  PROVE  ChangesInv'
<1> PICK r \in Nat : Made \in Nat /\ r <= Made /\ Progress(r, Made, RootLine, RootExited)
  BY ChangesUnfold
<1>1. Made' = Made /\ sinkq \in Seq(Queued) /\ notified \in Seq(StateMessage)
  BY LineTyped DEF Made
<1>2. Arrived(sinkq, Len(notified), r)
  BY DEF Progress, ReceivedChanges
<1>3. Arrived(sinkq', Len(notified), r)
  BY <1>1, <1>2, ArrivedOther
<1>4. Progress(r, Made, RootLine, RootExited)'
  BY <1>1, <1>3 DEF Progress, ReceivedChanges
<1> QED
  BY <1>4 DEF ChangesInv, Progress, RootLine, RootExited

LEMMA PumpReceiveChanges ==
  ASSUME Typed, ChangesInv, PumpReceive
  PROVE  ChangesInv'
<1> PICK p \in Processes : Received(p) /\ (Aborts(p) \/ Continues(p) \/ Completes(p))
  BY ReceiveCases
<1>1. /\ run' = run /\ RootLine' = RootLine /\ RootExited' = RootExited
      /\ statePump' = statePump /\ notified' = notified
  BY DEF Received, dataVars, RootLine, RootExited
<1>2. CASE Completes(p)
  <2> PICK g \in Seq(Message) : g = Append(pump.got, Head(events[p]))
    <3>1. pump.got \in Seq(Message) /\ events[p] \in Seq(Message) /\ events[p] # <<>>
      BY DEF Typed, Received
    <3> QED
      BY <3>1, HeadTailProperties, AppendProperties
  <2> PICK e : e = [kind |-> "events", data |-> g]
    OBVIOUS
  <2>1. e \in Queued /\ ~IsChange(e)
    BY DEF Queued, IsChange
  <2>2. sinkq' = Append(sinkq, e)
    BY <1>2 DEF Completes
  <2> QED
    BY <1>1, <2>1, <2>2, QueuedOtherChanges
<1>3. CASE Aborts(p) \/ Continues(p)
  <2>1. sinkq' = sinkq
    BY <1>3 DEF Aborts, Continues
  <2> QED
    BY <1>1, <2>1, ChangesStay
<1> QED
  BY <1>2, <1>3

LEMMA ReceiveExitChanges ==
  ASSUME Typed, ChangesInv, ReceiveExit
  PROVE  ChangesInv'
<1>0. Root \in Processes /\ Root # Sink
  BY ProcessesAssumption DEF Processes
<1>1. /\ run' = run /\ RootLine' = RootLine /\ statePump' = statePump /\ notified' = notified
  BY DEF ReceiveExit, dataVars, RootLine
<1>2. RootExited' = RootExited
  BY <1>0 DEF ReceiveExit, RootExited, Typed
<1> PICK e : e = [kind |-> "exit", data |-> <<>>]
  OBVIOUS
<1>3. e \in Queued /\ ~IsChange(e)
  BY DEF Queued, IsChange
<1>4. sinkq' = Append(sinkq, e)
  BY DEF ReceiveExit, QueueEvent
<1> QED
  BY <1>1, <1>2, <1>3, <1>4, QueuedOtherChanges

LEMMA HandleEventChanges ==
  ASSUME Typed, ChangesInv, HandleEvent
  PROVE  ChangesInv'
<1> PICK e : Handles(e) /\ (HandlesEvents(e) \/ HandlesState(e) \/ HandlesExit(e))
  BY HandleCases
<1>0. Root \in Processes /\ Root # Sink
  BY ProcessesAssumption DEF Processes
<1> PICK r \in Nat : Made \in Nat /\ r <= Made /\ Progress(r, Made, RootLine, RootExited)
  BY ChangesUnfold
<1>1. Made' = Made /\ sinkq \in Seq(Queued) /\ notified \in Seq(StateMessage)
  BY LineTyped DEF Handles, dataVars, Made
<1> PICK a \in Nat : a = Len(notified)
  BY <1>1
<1>2. /\ a <= r /\ Arrived(sinkq, a, r)
      /\ \A k \in DOMAIN notified : notified[k] = ChangeOf(k)
  BY DEF Progress, ReceivedChanges
<1>3. /\ e.kind # "state" => Arrived(sinkq', a, r)
      /\ e.kind = "state" => e = ChangeOf(a + 1) /\ a + 1 <= r /\ Arrived(sinkq', a + 1, r)
  BY <1>1, <1>2, ArrivedTail DEF Handles, IsChange
<1>4. RootLine' = RootLine /\ RootExited' = RootExited /\ statePump' = statePump
  <2>1. outbox'[Root] = outbox[Root] /\ command'[Root] = command[Root]
    BY <1>0 DEF HandlesEvents, HandlesState, HandlesExit, Typed
  <2> QED
    BY <2>1 DEF Handles, RootLine, RootExited
<1>5. CASE e.kind # "state"
  <2>1. notified' = notified
    BY <1>5 DEF HandlesEvents, HandlesState, HandlesExit
  <2>2. Progress(r, Made, RootLine, RootExited)'
    BY <1>1, <1>3, <1>4, <1>5, <2>1 DEF Progress, ReceivedChanges
  <2> QED
    BY <2>2 DEF ChangesInv, Progress, RootLine, RootExited
<1>6. CASE e.kind = "state"
  <2>1. notified' = Append(notified, e) /\ e \in StateMessage
    BY <1>6 DEF HandlesEvents, HandlesState, HandlesExit
  <2> PICK h \in Seq(StateMessage) : h = Append(notified, e)
    BY <1>1, <2>1, AppendProperties
  <2>2. Len(h) = a + 1 /\ h[a + 1] = e /\ \A k \in 1 .. a : h[k] = notified[k]
    BY <1>1, <2>1, AppendProperties
  <2>3. DOMAIN h = 1 .. a + 1 /\ DOMAIN notified = 1 .. a /\ \A k \in 1 .. a + 1 : k = a + 1 \/ k \in 1 .. a
    BY <1>1, <2>2
  <2>4. \A k \in DOMAIN h : h[k] = ChangeOf(k)
    BY <1>2, <1>3, <1>6, <2>2, <2>3
  <2>5. Progress(r, Made, RootLine, RootExited)'
    BY <1>1, <1>3, <1>4, <1>6, <2>1, <2>2, <2>4 DEF Progress, ReceivedChanges
  <2> QED
    BY <2>5 DEF ChangesInv, Progress, RootLine, RootExited
<1> QED
  BY <1>5, <1>6

LEMMA ChangesStep ==
  ASSUME Typed, ChangesInv, [Next]_vars
  PROVE  ChangesInv'
<1>0. Root \in Processes /\ Root \notin Workers /\ Workers \subseteq Processes
  BY ProcessesAssumption DEF Processes
<1>1. ASSUME NEW w \in Workers, Deal(w) \/ WorkerMain(w)
      PROVE  ChangesInv'
  <2>0. w # Root /\ w \in Processes
    BY <1>0
  <2>1. run' = run /\ states' = states /\ statePump' = statePump /\ sinkq' = sinkq /\ notified' = notified
    BY <1>1 DEF Deal, WorkerMain, HistogramEvents, WorkerStateChange, WorkerExit, sinkVars, dataVars
  <2>2. command'[Root] = command[Root]
    BY <1>0, <1>1, <2>0 DEF Deal, WorkerMain, HistogramEvents, WorkerStateChange, WorkerExit, Typed
  <2>3. outbox'[Root] = outbox[Root]
    <3>1. CASE Deal(w) \/ WorkerExit(w)
      BY <3>1 DEF Deal, WorkerExit
    <3>2. CASE HistogramEvents(w)
      BY <1>0, <2>0, <3>2 DEF HistogramEvents, SendEvent, Typed
    <3>3. CASE WorkerStateChange(w)
      BY <1>0, <2>0, <3>3 DEF WorkerStateChange, SendStateChange, Typed
    <3> QED
      BY <1>1, <3>1, <3>2, <3>3 DEF WorkerMain
  <2> QED
    BY <2>1, <2>2, <2>3, ChangesStay DEF RootLine, RootExited
<1>2. CASE PumpTest \/ UNCHANGED vars
  <2>1. /\ run' = run /\ states' = states /\ statePump' = statePump /\ sinkq' = sinkq
        /\ notified' = notified /\ command' = command /\ outbox' = outbox
    BY <1>2 DEF PumpTest, vars, sinkVars, dataVars
  <2> QED
    BY <2>1, ChangesStay DEF RootLine, RootExited
<1> QED
  BY <1>1, <1>2, RootStateChangeChanges, RootExitChanges, SendMessageChanges,
     StatePumpReceiveChanges, PumpReceiveChanges, ReceiveExitChanges, HandleEventChanges
     DEF Next, Pump

\* The sink's pipeline hears of the runs the root begins and ends, each once and in order,
\* and never of the message that stops the pump.
THEOREM StateChangesInOrder == Spec => []ChangesInOrder
<1>1. Init => ChangesInv
  <2> SUFFICES ASSUME Init PROVE ChangesInv
    OBVIOUS
  <2>0. Root \in Processes
    BY DEF Processes
  <2>1. Made = 0
    <3>1. run.number = 0 /\ run.ended = TRUE
      BY DEF Init
    <3>2. Made = 2 * 0 - 0
      BY <3>1 DEF Made
    <3> QED
      BY <3>2
  <2>2. Line(states[Root], outbox[Root]) = <<>>
    BY <2>0, ConcatEmptySeq, EmptySeq DEF Init, Line
  <2>3. Awaited(<<>>, 0, 0, FALSE)
    BY DEF Awaited
  <2>4. Arrived(<<>>, 0, 0)
    BY DEF Arrived
  <2>5. sinkq = <<>> /\ notified = <<>> /\ statePump = "running" /\ (command[Root] = "done") = FALSE
    BY <2>0 DEF Init
  <2>6. ReceivedChanges(0, 0, <<>>, FALSE, "running", <<>>, <<>>)
    <3>1. "running" # "done" /\ Len(<<>>) = 0 /\ 0 <= 0 /\ DOMAIN <<>> = {}
      OBVIOUS
    <3>2. Arrived(<<>>, Len(<<>>), 0)
      BY <2>4, <3>1
    <3> QED
      BY <2>3, <3>1, <3>2 DEF ReceivedChanges
  <2> QED
    BY <2>1, <2>2, <2>5, <2>6 DEF ChangesInv
<1>2. TypedInv /\ ChangesInv /\ [Next]_vars => ChangesInv'
  BY ChangesStep DEF TypedInv
<1>3. TypedInv /\ ChangesInv => ChangesInOrder
  BY ChangesInOrderHolds DEF TypedInv
<1> QED
  BY <1>1, <1>2, <1>3, TypedInvariant, PTL DEF Spec


---------------------------------------------------------------------------
(* The way of an event.  All a process has sent and not yet been heard of, *)
(* from what the pump holds of a batch to what is still to be sent, is the *)
(* messages of a sequence of batches.                                      *)

Coded(bs) == [k \in DOMAIN bs |-> BatchMessages(bs[k])]
Sent(bs) == FlattenSeq(Coded(bs))

LEMMA CodedParts ==
  ASSUME NEW bs \in Seq(Seq(Event))
  PROVE  /\ Coded(bs) \in Seq(Seq(Message)) /\ Len(Coded(bs)) = Len(bs)
         /\ \A k \in 1 .. Len(bs) : Coded(bs)[k] = BatchMessages(bs[k])
         /\ Sent(bs) \in Seq(Message)
<1>1. DOMAIN bs = 1 .. Len(bs) /\ Len(bs) \in Nat /\ \A k \in 1 .. Len(bs) : bs[k] \in Seq(Event)
  OBVIOUS
<1>2. \A k \in 1 .. Len(bs) : BatchMessages(bs[k]) \in Seq(Message)
  BY <1>1, MessagesType
<1>3. /\ Coded(bs) \in Seq(Seq(Message)) /\ Len(Coded(bs)) = Len(bs)
      /\ \A k \in 1 .. Len(bs) : Coded(bs)[k] = BatchMessages(bs[k])
  BY <1>1, <1>2 DEF Coded
<1> QED
  BY <1>3, FlattenType DEF Sent

LEMMA SentNone == Sent(<<>>) = <<>>
<1>1. Coded(<<>>) = <<>>
  BY DEF Coded
<1>2. FlattenSeq(<<>>) = <<>>
  <2> PICK S : S = {}
    OBVIOUS
  <2>1. <<>> \in Seq(S)
    BY EmptySeq
  <2> QED
    BY <2>1, FlattenOne
<1> QED
  BY <1>1, <1>2 DEF Sent

LEMMA SentAppend ==
  ASSUME NEW bs \in Seq(Seq(Event)), NEW b \in Seq(Event)
  PROVE  Sent(Append(bs, b)) = Sent(bs) \o BatchMessages(b)
<1> PICK c \in Seq(Seq(Event)) : c = Append(bs, b)
  BY AppendProperties
<1> PICK n \in Nat : n = Len(bs)
  OBVIOUS
<1>1. Len(c) = n + 1 /\ c[n + 1] = b /\ \A k \in 1 .. n : c[k] = bs[k]
  BY AppendProperties
<1> PICK m \in Seq(Message) : m = BatchMessages(b)
  BY MessagesType
<1> PICK d \in Seq(Seq(Message)) : d = Append(Coded(bs), m)
  BY CodedParts, AppendProperties
<1>2. Len(d) = n + 1 /\ d[n + 1] = m /\ \A k \in 1 .. n : d[k] = Coded(bs)[k]
  <2>1. Coded(bs) \in Seq(Seq(Message)) /\ Len(Coded(bs)) = n
    BY CodedParts
  <2>q. PICK q \in Seq(Seq(Message)) : q = Coded(bs)
    BY <2>1
  <2>2. Len(q) = n /\ d = Append(q, m)
    BY <2>1, <2>q
  <2>3. Len(d) = n + 1 /\ d[n + 1] = m /\ \A k \in 1 .. n : d[k] = q[k]
    BY <2>2
  <2> QED
    BY <2>3, <2>q
<1>3. \A k \in 1 .. n + 1 : k = n + 1 \/ k \in 1 .. n
  OBVIOUS
<1>4. \A k \in 1 .. n : Coded(bs)[k] = BatchMessages(bs[k])
  BY CodedParts
<1>5. Coded(c) \in Seq(Seq(Message)) /\ Len(Coded(c)) = n + 1 /\ \A k \in 1 .. n + 1 : Coded(c)[k] = BatchMessages(c[k])
  BY <1>1, CodedParts
<1>6. \A k \in 1 .. n + 1 : Coded(c)[k] = d[k]
  BY <1>1, <1>2, <1>3, <1>4, <1>5
<1>7. Coded(c) = d
  BY <1>2, <1>5, <1>6, SeqEqual
<1>8. FlattenSeq(d) = FlattenSeq(Coded(bs)) \o m
  BY CodedParts, FlattenAppend
<1> QED
  BY <1>7, <1>8 DEF Sent

LEMMA SentFirst ==
  ASSUME NEW bs \in Seq(Seq(Event)), bs # <<>>
  PROVE  /\ Head(bs) \in Seq(Event) /\ Tail(bs) \in Seq(Seq(Event))
         /\ Sent(bs) = BatchMessages(Head(bs)) \o Sent(Tail(bs))
<1> PICK n \in Nat : n = Len(bs) /\ n >= 1
  BY EmptySeq
<1> PICK t \in Seq(Seq(Event)) : t = Tail(bs)
  BY HeadTailProperties
<1>1. /\ Head(bs) = bs[1] /\ Head(bs) \in Seq(Event)
      /\ Len(t) = n - 1 /\ \A k \in 1 .. n - 1 : t[k] = bs[k + 1]
  BY HeadTailProperties
<1> PICK c \in Seq(Seq(Message)) : c = Coded(bs) /\ Len(c) = n
  BY CodedParts
<1>2. \A k \in 1 .. n : c[k] = BatchMessages(bs[k])
  BY CodedParts
<1>3. c # <<>> /\ Head(c) = c[1] /\ Tail(c) \in Seq(Seq(Message)) /\ Len(Tail(c)) = n - 1
      /\ \A k \in 1 .. n - 1 : Tail(c)[k] = c[k + 1]
  BY EmptySeq, HeadTailProperties
<1>4. Coded(t) \in Seq(Seq(Message)) /\ Len(Coded(t)) = n - 1 /\ \A k \in 1 .. n - 1 : Coded(t)[k] = BatchMessages(t[k])
  BY <1>1, CodedParts
<1>5. \A k \in 1 .. n - 1 : k + 1 \in 1 .. n
  OBVIOUS
<1>6. \A k \in 1 .. n - 1 : Tail(c)[k] = Coded(t)[k]
  BY <1>1, <1>2, <1>3, <1>4, <1>5
<1>7. Tail(c) = Coded(t)
  BY <1>3, <1>4, <1>6, SeqEqual
<1>8. Head(c) = BatchMessages(Head(bs))
  BY <1>1, <1>2, <1>3
<1>9. FlattenSeq(c) = Head(c) \o FlattenSeq(Tail(c))
  BY <1>3, FlattenFirst
<1> QED
  BY <1>1, <1>7, <1>8, <1>9 DEF Sent

\* What the pump holds of a batch are the first of its messages.
LEMMA GotIs ==
  ASSUME NEW bs \in Seq(Seq(Event)), NEW g \in Seq(Message), NEW s \in Seq(Message),
         Len(g) <= NumMessages, g \o s = Sent(bs), g # <<>> \/ s # <<>>
  PROVE  /\ bs # <<>>
         /\ \A k \in 1 .. Len(g) : g[k] = BatchMessages(Head(bs))[k]
         /\ s # <<>> /\ Len(g) < NumMessages => Head(s) = BatchMessages(Head(bs))[Len(g) + 1]
<1>0. \A i \in Nat : i < 5 => i + 1 \in 1 .. 5
  OBVIOUS
<1> PICK n \in Nat : n = Len(g) /\ n <= 5
  BY DEF NumMessages
<1> PICK j \in Nat : j = Len(s)
  OBVIOUS
<1> PICK x : x = g \o s /\ x = Sent(bs)
  OBVIOUS
<1>1. Parts(x, g, s)
  BY ConcatAt, Zenon
<1>2. Len(x) = n + j /\ (\A k \in 1 .. n : x[k] = g[k]) /\ \A k \in 1 .. j : x[n + k] = s[k]
  BY <1>1 DEF Parts
<1>3. n + j # 0
  <2>1. n # 0 \/ j # 0
    BY EmptySeq
  <2> QED
    BY <2>1
<1>4. bs # <<>>
  <2>1. CASE bs = <<>>
    BY <1>2, <1>3, <2>1, SentNone
  <2> QED
    BY <2>1
<1> PICK m \in Seq(Message) : m = BatchMessages(Head(bs)) /\ Len(m) = 5
  BY <1>4, SentFirst, MessagesType DEF NumMessages
<1> PICK r \in Seq(Message) : r = Sent(Tail(bs))
  BY <1>4, SentFirst, CodedParts
<1>5. x = m \o r
  BY <1>4, SentFirst
<1>6. Parts(x, m, r)
  BY <1>5, ConcatAt, Zenon
<1>7. \A k \in 1 .. 5 : x[k] = m[k]
  BY <1>6 DEF Parts
<1>8. \A k \in 1 .. n : k \in 1 .. 5
  OBVIOUS
<1>9. \A k \in 1 .. n : g[k] = m[k]
  BY <1>2, <1>7, <1>8
<1>10. ASSUME s # <<>>, n < 5
       PROVE  Head(s) = m[n + 1]
  <2>1. Head(s) = s[1] /\ 1 \in 1 .. j
    BY <1>10, EmptySeq, HeadTailProperties
  <2>2. n + 1 \in 1 .. 5
    BY <1>0, <1>10
  <2> QED
    BY <1>2, <1>7, <2>1, <2>2
<1> QED
  BY <1>4, <1>9, <1>10 DEF NumMessages

\* The next message of a batch: it fits in the MPI_Recv posted for it.
FitsNext(bs, g, e, o) ==
  /\ bs # <<>> /\ Head(e).kind = BatchKinds[Len(g) + 1] /\ Len(Head(e).data) = RoomFor(g)
  /\ Append(g, Head(e)) \o (Tail(e) \o o) = Sent(bs)
  /\ ~(Len(Append(g, Head(e))) < NumMessages) =>
       Append(g, Head(e)) = BatchMessages(Head(bs)) /\ Tail(e) \o o = Sent(Tail(bs))

LEMMA NextOfBatch ==
  ASSUME NEW bs \in Seq(Seq(Event)), NEW g \in Seq(Message), NEW e \in Seq(Message), NEW o \in Seq(Message),
         Len(g) < NumMessages, g \o (e \o o) = Sent(bs), e # <<>>
  PROVE  FitsNext(bs, g, e, o)
<1>0. \A i \in Nat : i < 5 => /\ i + 1 \in 1 .. 5 /\ i <= 5 /\ i = (i + 1) - 1
                              /\ (~(i + 1 < 5) => i + 1 = 5)
                              /\ \A k \in 1 .. (i + 1) - 1 : k \in 1 .. i
  OBVIOUS
<1>n. PICK n \in Nat : n = Len(g) /\ n < 5
  BY DEF NumMessages
<1>h. PICK h \in Message : h = Head(e)
  BY HeadTailProperties
<1>t. PICK t \in Seq(Message) : t = Tail(e)
  BY HeadTailProperties
<1>s. PICK s \in Seq(Message) : s = e \o o
  BY ConcatProperties
<1>1. s # <<>> /\ Head(s) = h /\ Tail(s) = t \o o
  BY <1>h, <1>t, <1>s, TailOfConcat
<1>2. g \o s = Sent(bs)
  BY <1>s
<1>3. /\ bs # <<>> /\ \A k \in 1 .. n : g[k] = BatchMessages(Head(bs))[k]
      /\ h = BatchMessages(Head(bs))[n + 1]
  <2>1. Len(g) <= NumMessages /\ Len(g) < NumMessages
    BY <1>0, <1>n DEF NumMessages
  <2>2. /\ bs # <<>>
        /\ \A k \in 1 .. Len(g) : g[k] = BatchMessages(Head(bs))[k]
        /\ Head(s) = BatchMessages(Head(bs))[Len(g) + 1]
    BY <1>1, <1>2, <2>1, GotIs, Zenon
  <2> QED
    BY <1>1, <1>n, <2>2
<1>b. PICK b \in Seq(Event) : b = Head(bs)
  BY <1>3, SentFirst
<1>m. PICK m \in Seq(Message) : m = BatchMessages(b) /\ Len(m) = 5
  BY MessagesType DEF NumMessages
<1>4. h.kind = BatchKinds[n + 1] /\ Len(h.data) = RoomFor(g)
  <2> PICK k \in 1 .. NumMessages : k = n + 1
    BY <1>0, <1>n DEF NumMessages
  <2>1. FirstOf(g, m, k)
    BY <1>0, <1>3, <1>b, <1>m, <1>n DEF FirstOf
  <2>2. m[k].kind = BatchKinds[k] /\ Len(m[k].data) = RoomFor(g)
    <3>1. m = BatchMessages(b)
      BY <1>m
    <3>2. \A c \in Seq(Event), i \in 1 .. NumMessages :
            FirstOf(g, BatchMessages(c), i) =>
              /\ BatchMessages(c)[i].kind = BatchKinds[i]
              /\ Len(BatchMessages(c)[i].data) = RoomFor(g)
      BY MessagesFit
    <3>3. b \in Seq(Event) /\ k \in 1 .. NumMessages
      OBVIOUS
    <3> QED
      BY <2>1, <3>1, <3>2, <3>3, Zenon
  <2> QED
    BY <1>3, <1>b, <1>m, <2>2
<1>a. PICK a \in Seq(Message) : a = Append(g, h)
  BY AppendProperties
<1>5. Len(a) = n + 1
  BY <1>a, <1>n, AppendProperties
<1>6. a \o (t \o o) = Sent(bs)
  <2>1. Append(g, Head(s)) \o Tail(s) = g \o s
    BY <1>1, MoveHead, Zenon
  <2> QED
    BY <1>1, <1>2, <1>a, <2>1
<1>7. ASSUME ~(Len(a) < NumMessages)
      PROVE  a = m /\ t \o o = Sent(Tail(bs))
  <2>1. n + 1 = 5
    BY <1>0, <1>5, <1>7, <1>n DEF NumMessages
  <2>r. PICK r \in Seq(Message) : r = Sent(Tail(bs))
    BY <1>3, SentFirst, CodedParts
  <2>2. Sent(bs) = m \o r
    BY <1>3, <1>b, <1>m, <2>r, SentFirst
  <2>q. PICK q \in Seq(Message) : q = t \o o
    BY ConcatProperties
  <2>3. Len(a) = Len(m)
    BY <1>5, <1>m, <2>1
  <2>4. a \o q = m \o r
    BY <1>6, <2>2, <2>q
  <2>5. a = m /\ q = r
    BY <2>3, <2>4, Cancel, Zenon
  <2> QED
    BY <2>5, <2>q, <2>r
<1> QED
  BY <1>3, <1>4, <1>6, <1>7, <1>a, <1>b, <1>h, <1>m, <1>n, <1>t DEF FitsNext

\* The order of the events of one worker.  The event stopHistogramPump makes up is of no worker.
Before(x, y) == (x.worker = y.worker /\ x.worker \in Workers) => x.id < y.id
Rising(s) == \A j, k \in DOMAIN s : j < k => Before(s[j], s[k])
Precede(s, t) == \A x \in Range(s), y \in Range(t) : Before(x, y)

LEMMA RangeOf ==
  ASSUME NEW S, NEW s \in Seq(S)
  PROVE  /\ \A k \in 1 .. Len(s) : s[k] \in Range(s)
         /\ \A x \in Range(s) : x \in S /\ \E k \in 1 .. Len(s) : s[k] = x
         /\ (s = <<>> => Range(s) = {})
<1>1. DOMAIN s = 1 .. Len(s)
  OBVIOUS
<1> QED
  BY <1>1 DEF Range

LEMMA RangeConcat ==
  ASSUME NEW S, NEW s \in Seq(S), NEW t \in Seq(S)
  PROVE  Range(s \o t) = Range(s) \cup Range(t)
<1>x. PICK x \in Seq(S) : x = s \o t
  BY ConcatProperties
<1>1. Parts(x, s, t)
  BY <1>x, ConcatAt, Zenon
<1>i. PICK i \in Nat : i = Len(s)
  OBVIOUS
<1>j. PICK j \in Nat : j = Len(t)
  OBVIOUS
<1>2. Len(x) = i + j /\ (\A k \in 1 .. i : x[k] = s[k]) /\ \A k \in 1 .. j : x[i + k] = t[k]
  BY <1>1, <1>i, <1>j DEF Parts
<1>3. \A k \in 1 .. i : k \in 1 .. i + j
  OBVIOUS
<1>4. \A k \in 1 .. j : i + k \in 1 .. i + j
  OBVIOUS
<1>5. \A k \in 1 .. i + j : k \in 1 .. i \/ (k - i \in 1 .. j /\ i + (k - i) = k)
  OBVIOUS
<1>6. ASSUME NEW y \in Range(x)
      PROVE  y \in Range(s) \cup Range(t)
  <2>1. PICK k \in 1 .. i + j : x[k] = y
    BY <1>2, RangeOf
  <2>2. CASE k \in 1 .. i
    BY <1>2, <1>i, <2>1, <2>2, RangeOf
  <2>3. CASE k - i \in 1 .. j /\ i + (k - i) = k
    <3>1. t[k - i] = y
      BY <1>2, <2>1, <2>3
    <3> QED
      BY <1>j, <2>3, <3>1, RangeOf
  <2> QED
    BY <1>5, <2>2, <2>3
<1>7. ASSUME NEW y \in Range(s)
      PROVE  y \in Range(x)
  <2>1. PICK k \in 1 .. i : s[k] = y
    BY <1>i, RangeOf
  <2>2. x[k] = y /\ k \in 1 .. Len(x)
    BY <1>2, <1>3, <2>1
  <2> QED
    BY <2>2, RangeOf
<1>8. ASSUME NEW y \in Range(t)
      PROVE  y \in Range(x)
  <2>1. PICK k \in 1 .. j : t[k] = y
    BY <1>j, RangeOf
  <2>2. x[i + k] = y /\ i + k \in 1 .. Len(x)
    BY <1>2, <1>4, <2>1
  <2> QED
    BY <2>2, RangeOf
<1> QED
  BY <1>6, <1>7, <1>8, <1>x

LEMMA EventsConcat == \A x, y, z \in Seq(Event) : (x \o y) \o z = x \o (y \o z)
BY ConcatThree


LEMMA RangeOne ==
  ASSUME NEW S, NEW e \in S
  PROVE  Range(<<e>>) = {e}
BY DEF Range

LEMMA RisingConcat ==
  ASSUME NEW s \in Seq(Event), NEW t \in Seq(Event)
  PROVE  Rising(s \o t) <=> Rising(s) /\ Rising(t) /\ Precede(s, t)
<1>x. PICK x \in Seq(Event) : x = s \o t
  BY ConcatProperties
<1>1. Parts(x, s, t)
  BY <1>x, ConcatAt, Zenon
<1>i. PICK i \in Nat : i = Len(s)
  OBVIOUS
<1>j. PICK j \in Nat : j = Len(t)
  OBVIOUS
<1>2. Len(x) = i + j /\ (\A k \in 1 .. i : x[k] = s[k]) /\ \A k \in 1 .. j : x[i + k] = t[k]
  BY <1>1, <1>i, <1>j DEF Parts
<1>d. DOMAIN x = 1 .. i + j /\ DOMAIN s = 1 .. i /\ DOMAIN t = 1 .. j
  BY <1>2, <1>i, <1>j
<1>3. \A k \in 1 .. i : k \in 1 .. i + j
  OBVIOUS
<1>4. \A k \in 1 .. j : i + k \in 1 .. i + j
  OBVIOUS
<1>5. \A k \in 1 .. i + j : k \in 1 .. i \/ (k - i \in 1 .. j /\ i + (k - i) = k)
  OBVIOUS
<1>6. ASSUME Rising(x)
      PROVE  Rising(s) /\ Rising(t) /\ Precede(s, t)
  <2>0. \A a, b \in 1 .. i + j : a < b => Before(x[a], x[b])
    BY <1>6, <1>d DEF Rising
  <2>1. Rising(s)
    <3>1. \A a, b \in 1 .. i : a < b => Before(s[a], s[b])
      BY <1>2, <1>3, <2>0
    <3> QED
      BY <1>d, <3>1 DEF Rising
  <2>2. Rising(t)
    <3>0. \A a, b \in 1 .. j : a < b => i + a < i + b
      OBVIOUS
    <3>1. \A a, b \in 1 .. j : a < b => Before(t[a], t[b])
      BY <1>2, <1>4, <2>0, <3>0
    <3> QED
      BY <1>d, <3>1 DEF Rising
  <2>3. Precede(s, t)
    <3> SUFFICES ASSUME NEW y \in Range(s), NEW z \in Range(t)
                 PROVE  Before(y, z)
      BY DEF Precede
    <3>1. PICK a \in 1 .. i : s[a] = y
      BY <1>i, RangeOf
    <3>2. PICK b \in 1 .. j : t[b] = z
      BY <1>j, RangeOf
    <3>3. a < i + b
      OBVIOUS
    <3>4. Before(x[a], x[i + b])
      BY <1>3, <1>4, <2>0, <3>3
    <3> QED
      BY <1>2, <3>1, <3>2, <3>4
  <2> QED
    BY <2>1, <2>2, <2>3
<1>7. ASSUME Rising(s), Rising(t), Precede(s, t)
      PROVE  Rising(x)
  <2> SUFFICES ASSUME NEW a \in 1 .. i + j, NEW b \in 1 .. i + j, a < b
               PROVE  Before(x[a], x[b])
    BY <1>d DEF Rising
  <2>1. CASE a \in 1 .. i /\ b \in 1 .. i
    <3>1. Before(s[a], s[b])
      BY <1>7, <1>d, <2>1 DEF Rising
    <3> QED
      BY <1>2, <2>1, <3>1
  <2>2. CASE a \in 1 .. i /\ b - i \in 1 .. j /\ i + (b - i) = b
    <3>1. s[a] \in Range(s) /\ t[b - i] \in Range(t)
      BY <1>i, <1>j, <2>2, RangeOf
    <3>2. Before(s[a], t[b - i])
      BY <1>7, <3>1 DEF Precede
    <3>3. x[a] = s[a] /\ x[b] = t[b - i]
      BY <1>2, <2>2
    <3> QED
      BY <3>2, <3>3
  <2>3. CASE a - i \in 1 .. j /\ i + (a - i) = a /\ b - i \in 1 .. j /\ i + (b - i) = b
    <3>0. a - i < b - i
      OBVIOUS
    <3>1. Before(t[a - i], t[b - i])
      BY <1>7, <1>d, <2>3, <3>0 DEF Rising
    <3>3. x[a] = t[a - i] /\ x[b] = t[b - i]
      BY <1>2, <2>3
    <3> QED
      BY <3>1, <3>3
  <2>4. a - i \in 1 .. j => b \notin 1 .. i
    OBVIOUS
  <2> QED
    BY <1>5, <2>1, <2>2, <2>3, <2>4
<1> QED
  BY <1>6, <1>7, <1>x

\* An event as it was dealt, or the one stopHistogramPump makes up
Known(e, u) == e = FakeEvent \/ (e.id \in DOMAIN u /\ e = u[e.id])

\* The events given to the pipeline or queued to the sink's main thread, s, and those of
\* process p that are on their way, e
Orderly(p, s, e, u) ==
  /\ \A x \in Range(e) : x.worker = p
  /\ \A x \in Range(s) \cup Range(e) : Known(x, u)
  /\ Rising(s \o e)
  /\ \A i \in DOMAIN u : u[i].worker = p => \E x \in Range(s) \cup Range(e) : x.id = i

\* A batch has arrived.
LEMMA OrderlyArrives ==
  ASSUME NEW p, NEW u, NEW s \in Seq(Event), NEW b \in Seq(Event), NEW e \in Seq(Event),
         Orderly(p, s, b \o e, u)
  PROVE  Orderly(p, s \o b, e, u)
<1>1. s \o (b \o e) = (s \o b) \o e
  BY EventsConcat
<1>2. b \o e \in Seq(Event) /\ s \o b \in Seq(Event)
  BY ConcatProperties
<1>3. Range(b \o e) = Range(b) \cup Range(e) /\ Range(s \o b) = Range(s) \cup Range(b)
  BY RangeConcat
<1>4. Range(s) \cup Range(b \o e) = Range(s \o b) \cup Range(e) /\ Range(e) \subseteq Range(b \o e)
  BY <1>3
<1> QED
  BY <1>1, <1>4 DEF Orderly

LEMMA OrderlyOther ==
  ASSUME NEW p, NEW q, p # q, NEW u, NEW s \in Seq(Event), NEW b \in Seq(Event), NEW e \in Seq(Event),
         NEW f \in Seq(Event), Orderly(p, s, b \o e, u), Orderly(q, s, f, u)
  PROVE  Orderly(q, s \o b, f, u)
<1>a. s \o b \in Seq(Event)
  BY ConcatProperties
<1>1. Orderly(p, s \o b, e, u)
  BY OrderlyArrives
<1>2. Range(s \o b) = Range(s) \cup Range(b) /\ Range(b \o e) = Range(b) \cup Range(e)
  BY RangeConcat
<1>3. Rising((s \o b) \o f)
  <2>1. Rising(s \o b)
    <3>1. Rising((s \o b) \o e)
      BY <1>1 DEF Orderly
    <3> QED
      BY <1>a, <3>1, RisingConcat
  <2>2. Rising(f) /\ Precede(s, f)
    <3>1. Rising(s \o f)
      BY DEF Orderly
    <3> QED
      BY <3>1, RisingConcat
  <2>3. Precede(b, f)
    <3>1. (\A x \in Range(b) : x.worker = p) /\ \A y \in Range(f) : y.worker = q
      BY <1>2 DEF Orderly
    <3> QED
      BY <3>1 DEF Precede, Before
  <2>4. Precede(s \o b, f)
    BY <1>2, <2>2, <2>3 DEF Precede
  <2> QED
    BY <1>a, <2>1, <2>2, <2>4, RisingConcat
<1>4. \A x \in Range(s \o b) : Known(x, u)
  BY <1>1 DEF Orderly
<1>5. /\ \A x \in Range(f) : x.worker = q /\ Known(x, u)
      /\ \A i \in DOMAIN u : u[i].worker = q => \E x \in Range(s) \cup Range(f) : x.id = i
  BY DEF Orderly
<1> QED
  BY <1>2, <1>3, <1>4, <1>5 DEF Orderly

\* An event is dealt to process p.
LEMMA OrderlyDeal ==
  ASSUME NEW u \in Seq(Event), NEW x \in Event, x.id = Len(u) + 1, x.worker \in Workers, NEW q,
         NEW s \in Seq(Event), NEW e \in Seq(Event), Orderly(q, s, e, u)
  PROVE  Orderly(q, s, IF q = x.worker THEN e \o <<x>> ELSE e, Append(u, x))
<1>n. PICK n \in Nat : n = Len(u)
  OBVIOUS
<1>v. PICK v \in Seq(Event) : v = Append(u, x)
  BY AppendProperties
<1>1. Len(v) = n + 1 /\ v[n + 1] = x /\ \A k \in 1 .. n : v[k] = u[k]
  BY <1>n, <1>v, AppendProperties
<1>d. DOMAIN u = 1 .. n /\ DOMAIN v = 1 .. n + 1
  BY <1>1, <1>n
<1>a. \A k \in 1 .. n : k \in 1 .. n + 1 /\ k < n + 1
  OBVIOUS
<1>b. \A k \in 1 .. n + 1 : k = n + 1 \/ k \in 1 .. n
  OBVIOUS
<1>2. \A y : Known(y, u) => Known(y, v)
  BY <1>1, <1>a, <1>d DEF Known
<1>3. Known(x, v)
  <2>1. x.id = n + 1 /\ n + 1 \in 1 .. n + 1
    BY <1>n
  <2> QED
    BY <1>1, <1>d, <2>1 DEF Known
<1>4. \A y : Known(y, u) => Before(y, x)
  <2> SUFFICES ASSUME NEW y, Known(y, u), y.worker \in Workers
               PROVE  y.id < x.id
    BY DEF Before
  <2>1. y # FakeEvent
    BY ProcessesAssumption DEF FakeEvent
  <2>2. y.id \in 1 .. n
    BY <1>d, <2>1 DEF Known
  <2>3. x.id = n + 1
    BY <1>n
  <2> QED
    BY <1>a, <2>2, <2>3
<1>5. CASE q # x.worker
  <2>1. \A i \in 1 .. n + 1 : v[i].worker = q => \E y \in Range(s) \cup Range(e) : y.id = i
    BY <1>1, <1>5, <1>b, <1>d DEF Orderly
  <2>2. Orderly(q, s, e, v)
    BY <1>2, <1>d, <2>1 DEF Orderly
  <2> QED
    BY <1>5, <1>v, <2>2
<1>6. CASE q = x.worker
  <2>o. PICK o \in Seq(Event) : o = <<x>>
    BY OneMember
  <2>f. PICK f \in Seq(Event) : f = e \o o
    BY ConcatProperties
  <2>1. Range(o) = {x} /\ Range(f) = Range(e) \cup {x}
    <3>1. Range(o) = {x}
      BY <2>o, RangeOne
    <3>2. Range(f) = Range(e) \cup Range(o)
      BY <2>f, RangeConcat
    <3> QED
      BY <3>1, <3>2
  <2>2. \A y \in Range(f) : y.worker = q
    BY <1>6, <2>1 DEF Orderly
  <2>3. \A y \in Range(s) \cup Range(f) : Known(y, v)
    BY <1>2, <1>3, <2>1 DEF Orderly
  <2>4. Rising(s \o f)
    <3>g. PICK g \in Seq(Event) : g = s \o e
      BY ConcatProperties
    <3>1. Rising(g) /\ Range(g) = Range(s) \cup Range(e)
      BY <3>g, RangeConcat DEF Orderly
    <3>2. Rising(o)
      BY <2>o DEF Rising
    <3>3. Precede(g, o)
      BY <1>4, <2>1, <3>1 DEF Precede, Orderly
    <3>4. Rising(g \o o)
      BY <3>1, <3>2, <3>3, RisingConcat
    <3>5. g \o o = s \o f
      <4>1. Regrouped(s, e, o)
        BY Regroup, Zenon
      <4> QED
        BY <2>f, <3>g, <4>1 DEF Regrouped
    <3> QED
      BY <3>4, <3>5
  <2>5. \A i \in 1 .. n + 1 : v[i].worker = q => \E y \in Range(s) \cup Range(f) : y.id = i
    <3> SUFFICES ASSUME NEW i \in 1 .. n + 1, v[i].worker = q
                 PROVE  \E y \in Range(s) \cup Range(f) : y.id = i
      OBVIOUS
    <3>1. CASE i = n + 1
      BY <1>n, <2>1, <3>1
    <3>2. CASE i \in 1 .. n
      BY <1>1, <1>d, <2>1, <3>2 DEF Orderly
    <3> QED
      BY <1>b, <3>1, <3>2
  <2>6. Orderly(q, s, f, v)
    BY <1>d, <2>2, <2>3, <2>4, <2>5 DEF Orderly
  <2> QED
    BY <1>6, <1>v, <2>6, <2>f, <2>o
<1> QED
  BY <1>5, <1>6

\* The event that wakes the pump is on its way.
LEMMA OrderlyFake ==
  ASSUME NEW u, NEW s \in Seq(Event), NEW e \in Seq(Event), Orderly(Sink, s, e, u)
  PROVE  Orderly(Sink, s, e \o <<FakeEvent>>, u)
<1>o. PICK o \in Seq(Event) : o = <<FakeEvent>>
  BY FakeEventTyped
<1>f. PICK f \in Seq(Event) : f = e \o o
  BY ConcatProperties
<1>1. Range(o) = {FakeEvent} /\ Range(f) = Range(e) \cup {FakeEvent}
  <2>1. Range(o) = {FakeEvent}
    BY <1>o, FakeEventTyped, RangeOne
  <2>2. Range(f) = Range(e) \cup Range(o)
    BY <1>f, RangeConcat
  <2> QED
    BY <2>1, <2>2
<1>2. FakeEvent.worker = Sink /\ Known(FakeEvent, u) /\ Sink \notin Workers
  BY ProcessesAssumption DEF FakeEvent, Known
<1>3. Rising(s \o f)
  <2>g. PICK g \in Seq(Event) : g = s \o e
    BY ConcatProperties
  <2>1. Rising(g)
    BY <2>g DEF Orderly
  <2>2. Rising(o)
    BY <1>o DEF Rising
  <2>3. Precede(g, o)
    BY <1>1, <1>2 DEF Precede, Before
  <2>4. Rising(g \o o)
    BY <2>1, <2>2, <2>3, RisingConcat
  <2>5. g \o o = s \o f
    BY <1>f, <2>g, EventsConcat
  <2> QED
    BY <2>4, <2>5
<1>4. Orderly(Sink, s, f, u)
  BY <1>1, <1>2, <1>3 DEF Orderly
<1> QED
  BY <1>4, <1>f, <1>o

\* What the pipeline is given
RebuiltAll(s) == [k \in DOMAIN s |-> Rebuilt(s[k])]

LEMMA RebuiltOf ==
  ASSUME NEW s \in Seq(Event)
  PROVE  /\ RebuiltAll(s) \in Seq(Given) /\ Len(RebuiltAll(s)) = Len(s)
         /\ \A k \in 1 .. Len(s) : RebuiltAll(s)[k] = Rebuilt(s[k])
<1>1. DOMAIN s = 1 .. Len(s) /\ Len(s) \in Nat /\ \A k \in 1 .. Len(s) : s[k] \in Event
  OBVIOUS
<1>2. \A e \in Event : Rebuilt(e) \in Given
  <2> TAKE e \in Event
  <2>1. Pairs(e) \in Seq(Pair) /\ e.vectors \in Vectors
    BY PairsLength DEF Event
  <2> QED
    BY <2>1 DEF Rebuilt, Given
<1> QED
  BY <1>1, <1>2 DEF RebuiltAll

LEMMA RebuiltConcat ==
  ASSUME NEW s \in Seq(Event), NEW t \in Seq(Event)
  PROVE  RebuiltAll(s \o t) = RebuiltAll(s) \o RebuiltAll(t)
<1>x. PICK x \in Seq(Event) : x = s \o t
  BY ConcatProperties
<1>a. PICK a \in Seq(Given) : a = RebuiltAll(s)
  BY RebuiltOf
<1>b. PICK b \in Seq(Given) : b = RebuiltAll(t)
  BY RebuiltOf
<1>c. PICK c \in Seq(Given) : c = a \o b
  BY ConcatProperties
<1>r. PICK r \in Seq(Given) : r = RebuiltAll(x)
  BY RebuiltOf
<1>i. PICK i \in Nat : i = Len(s)
  OBVIOUS
<1>j. PICK j \in Nat : j = Len(t)
  OBVIOUS
<1>1. Parts(x, s, t)
  BY <1>x, ConcatAt, Zenon
<1>2. Parts(c, a, b)
  BY <1>c, ConcatAt, Zenon
<1>3. Len(x) = i + j /\ (\A k \in 1 .. i : x[k] = s[k]) /\ \A k \in 1 .. j : x[i + k] = t[k]
  BY <1>1, <1>i, <1>j DEF Parts
<1>4. /\ Len(a) = i /\ \A k \in 1 .. i : a[k] = Rebuilt(s[k])
      /\ Len(b) = j /\ \A k \in 1 .. j : b[k] = Rebuilt(t[k])
      /\ Len(r) = Len(x) /\ \A k \in 1 .. Len(x) : r[k] = Rebuilt(x[k])
  BY <1>a, <1>b, <1>i, <1>j, <1>r, RebuiltOf
<1>5. Len(c) = i + j /\ (\A k \in 1 .. i : c[k] = a[k]) /\ \A k \in 1 .. j : c[i + k] = b[k]
  BY <1>2, <1>4 DEF Parts
<1>6. \A k \in 1 .. i + j : k \in 1 .. i \/ (k - i \in 1 .. j /\ i + (k - i) = k)
  OBVIOUS
<1>7. ASSUME NEW k \in 1 .. i + j
      PROVE  r[k] = c[k]
  <2>0. r[k] = Rebuilt(x[k])
    BY <1>3, <1>4
  <2>1. CASE k \in 1 .. i
    BY <1>3, <1>4, <1>5, <2>0, <2>1
  <2>2. CASE k - i \in 1 .. j /\ i + (k - i) = k
    <3>1. x[k] = t[k - i] /\ c[k] = b[k - i] /\ b[k - i] = Rebuilt(t[k - i])
      BY <1>3, <1>4, <1>5, <2>2
    <3> QED
      BY <2>0, <3>1
  <2> QED
    BY <1>6, <2>1, <2>2
<1>8. Len(r) = Len(c) /\ \A k \in 1 .. Len(r) : r[k] = c[k]
  BY <1>3, <1>4, <1>5, <1>7
<1>9. r = c
  BY <1>8, SeqEqual
<1> QED
  BY <1>9, <1>a, <1>b, <1>c, <1>r, <1>x

LEMMA EventPartType ==
  ASSUME NEW o \in Seq(Message)
  PROVE  EventPart(o) \in Seq(Message)
<1>1. CASE o # <<>> /\ o[Len(o)].kind = "state"
  <2>n. PICK n \in Nat : n = Len(o) /\ n >= 1
    BY <1>1, EmptySeq
  <2>1. SubSeq(o, 1, n - 1) \in Seq(Message)
    BY <2>n, SubSeqProperties
  <2> QED
    BY <1>1, <2>1, <2>n DEF EventPart
<1>2. CASE ~(o # <<>> /\ o[Len(o)].kind = "state")
  BY <1>2 DEF EventPart
<1> QED
  BY <1>1, <1>2

LEMMA EventPartMove ==
  ASSUME NEW o, OutboxTyped(o), o # <<>>
  PROVE  /\ Head(o).kind = "state" => EventPart(o) = <<>> /\ EventPart(Tail(o)) = <<>>
         /\ Head(o).kind # "state" =>
              /\ EventPart(o) # <<>> /\ Head(EventPart(o)) = Head(o)
              /\ EventPart(Tail(o)) = Tail(EventPart(o))
<1>0. o \in Seq(Message)
  BY DEF OutboxTyped
<1>n. PICK n \in Nat : n = Len(o) /\ n >= 1
  BY <1>0, EmptySeq
<1>t. PICK t \in Seq(Message) : t = Tail(o)
  BY <1>0, HeadTailProperties
<1>1. /\ Head(o) \in Message /\ Head(o) = o[1]
      /\ Len(t) = n - 1 /\ \A k \in 1 .. n - 1 : t[k] = o[k + 1]
  BY <1>0, <1>n, <1>t, HeadTailProperties
<1>2. \A k \in 1 .. n : o[k].kind = "state" => k = n
  BY <1>0, <1>n DEF OutboxTyped, ChangeLast
<1>3. ASSUME o[1].kind = "state"
      PROVE  EventPart(o) = <<>> /\ EventPart(t) = <<>>
  <2>1. n = 1
    BY <1>2, <1>3, <1>n
  <2>2. t = <<>>
    BY <1>1, <2>1, EmptySeq
  <2>3. EventPart(o) = SubSeq(o, 1, 0)
    BY <1>3, <1>n, <2>1 DEF EventPart
  <2>4. SubSeq(o, 1, 0) = <<>>
    <3>1. SubSeq(o, 1, 0) \in Seq(Message) /\ Len(SubSeq(o, 1, 0)) = 0
      BY <1>0, SubSeqProperties
    <3> QED
      BY <3>1, EmptySeq
  <2> QED
    BY <2>2, <2>3, <2>4 DEF EventPart
<1>4. ASSUME o[1].kind # "state"
      PROVE  EventPart(o) # <<>> /\ Head(EventPart(o)) = o[1] /\ EventPart(t) = Tail(EventPart(o))
  <2>1. CASE o[n].kind = "state"
    <3>0. n >= 2
      <4>1. n # 1
        BY <1>4, <2>1
      <4> QED
        BY <4>1, <1>n
    <3>a. SubSeq(o, 1, n - 1) \in Seq(Message)
      BY <1>0, <1>n, SubSeqProperties
    <3>p. PICK p \in Seq(Message) : p = SubSeq(o, 1, n - 1)
      BY <3>a
    <3>1. EventPart(o) = p
      BY <1>n, <2>1, <3>p DEF EventPart
    <3>2. Len(p) = n - 1 /\ \A k \in 1 .. n - 1 : p[k] = o[k]
      BY <1>0, <1>n, <3>p, SubSeqProperties
    <3>3. p # <<>> /\ Head(p) = o[1]
      BY <3>0, <3>2, EmptySeq, HeadTailProperties
    <3>4. t # <<>> /\ t[Len(t)].kind = "state"
      <4>1. n - 1 \in 1 .. n - 1 /\ (n - 1) + 1 = n /\ n - 1 # 0
        BY <3>0
      <4> QED
        BY <1>1, <2>1, <4>1, EmptySeq
    <3>b. SubSeq(t, 1, (n - 1) - 1) \in Seq(Message)
      BY <1>1, <3>0, SubSeqProperties
    <3>q. PICK q \in Seq(Message) : q = SubSeq(t, 1, (n - 1) - 1)
      BY <3>b
    <3>5. EventPart(t) = q
      BY <1>1, <3>4, <3>q DEF EventPart
    <3>6. Len(q) = n - 2 /\ \A k \in 1 .. n - 2 : q[k] = t[k]
      BY <1>1, <3>0, <3>q, SubSeqProperties
    <3>s. PICK s \in Seq(Message) : s = Tail(p)
      BY <3>3, HeadTailProperties
    <3>7. Len(s) = n - 2 /\ \A k \in 1 .. n - 2 : s[k] = p[k + 1]
      BY <3>0, <3>2, <3>3, <3>s, HeadTailProperties
    <3>8. \A k \in 1 .. n - 2 : k \in 1 .. n - 1 /\ k + 1 \in 1 .. n - 1
      OBVIOUS
    <3>9. \A k \in 1 .. n - 2 : q[k] = s[k]
      BY <1>1, <3>2, <3>6, <3>7, <3>8
    <3>10. q = s
      BY <3>6, <3>7, <3>9, SeqEqual
    <3> QED
      BY <3>1, <3>3, <3>5, <3>10, <3>s
  <2>2. CASE o[n].kind # "state"
    <3>1. EventPart(o) = o
      BY <1>n, <2>2 DEF EventPart
    <3>2. t # <<>> => t[Len(t)].kind # "state"
      <4>1. ASSUME t # <<>>
            PROVE  n - 1 \in 1 .. n - 1 /\ (n - 1) + 1 = n
        <5>1. n - 1 # 0
          BY <1>1, <4>1, EmptySeq
        <5> QED
          BY <1>n, <5>1
      <4> QED
        BY <1>1, <2>2, <4>1
    <3>3. EventPart(t) = t
      BY <3>2 DEF EventPart
    <3> QED
      BY <1>1, <1>t, <3>1, <3>3
  <2> QED
    BY <2>1, <2>2
<1> QED
  BY <1>1, <1>3, <1>4, <1>t

---------------------------------------------------------------------------
InFlight(bs, g, e, o) == g \o (e \o EventPart(o)) = Sent(bs)

\* A batch is on its way, if there are events in it.
More(bs, f) == IF f = <<>> THEN bs ELSE Append(bs, f)

LEMMA MessagesConcat == \A x, y, z \in Seq(Message) : (x \o y) \o z = x \o (y \o z)
BY ConcatThree

LEMMA InFlightMore ==
  ASSUME NEW bs \in Seq(Seq(Event)), NEW f \in Seq(Event), NEW g \in Seq(Message), NEW e \in Seq(Message),
         NEW o, NEW n, InFlight(bs, g, e, o), EventPart(o) = <<>>, EventPart(n) = FlushMessages(f)
  PROVE  /\ InFlight(More(bs, f), g, e, n) /\ More(bs, f) \in Seq(Seq(Event))
         /\ FlattenSeq(More(bs, f)) = FlattenSeq(bs) \o f
<1>1. CASE f = <<>>
  <2>1. More(bs, f) = bs /\ FlushMessages(f) = <<>>
    BY <1>1 DEF More, FlushMessages
  <2>2. FlattenSeq(bs) \o <<>> = FlattenSeq(bs)
    BY FlattenType, ConcatEmptySeq
  <2> QED
    BY <1>1, <2>1, <2>2 DEF InFlight
<1>2. CASE f # <<>>
  <2>m. PICK m \in Seq(Message) : m = BatchMessages(f)
    BY MessagesType
  <2>1. More(bs, f) = Append(bs, f) /\ EventPart(n) = m
    BY <1>2, <2>m DEF More, FlushMessages
  <2>2. Append(bs, f) \in Seq(Seq(Event))
    BY AppendProperties
  <2>3. FlattenSeq(Append(bs, f)) = FlattenSeq(bs) \o f
    BY FlattenAppend
  <2>4. g \o e = Sent(bs)
    <3>1. e \o <<>> = e
      BY ConcatEmptySeq
    <3> QED
      BY <3>1 DEF InFlight
  <2>5. g \o (e \o m) = (g \o e) \o m
    BY MessagesConcat
  <2>6. Sent(Append(bs, f)) = Sent(bs) \o m
    BY <2>m, SentAppend
  <2> QED
    BY <2>1, <2>2, <2>3, <2>4, <2>5, <2>6 DEF InFlight
<1> QED
  BY <1>1, <1>2

\* The queue of the sink's main thread holds the batches of qs, in the places of its events.
QueueHolds(qs, q) ==
  /\ Len(qs) = Len(q)
  /\ \A k \in DOMAIN q : IF q[k].kind = "events" THEN q[k].data = BatchMessages(qs[k]) ELSE qs[k] = <<>>

LEMMA QueueAppend ==
  ASSUME NEW qs \in Seq(Seq(Event)), NEW q \in Seq(Queued), QueueHolds(qs, q), NEW b \in Seq(Event), NEW e \in Queued,
         IF e.kind = "events" THEN e.data = BatchMessages(b) ELSE b = <<>>
  PROVE  QueueHolds(Append(qs, b), Append(q, e))
<1>n. PICK n \in Nat : n = Len(q)
  OBVIOUS
<1>1. Len(qs) = n /\ \A k \in 1 .. n : IF q[k].kind = "events" THEN q[k].data = BatchMessages(qs[k]) ELSE qs[k] = <<>>
  BY <1>n DEF QueueHolds
<1>c. PICK c \in Seq(Seq(Event)) : c = Append(qs, b)
  BY AppendProperties
<1>d. PICK d \in Seq(Queued) : d = Append(q, e)
  BY AppendProperties
<1>2. Len(c) = n + 1 /\ c[n + 1] = b /\ \A k \in 1 .. n : c[k] = qs[k]
  BY <1>1, <1>c, AppendProperties
<1>3. Len(d) = n + 1 /\ d[n + 1] = e /\ \A k \in 1 .. n : d[k] = q[k]
  BY <1>d, <1>n, AppendProperties
<1>4. \A k \in 1 .. n + 1 : k = n + 1 \/ k \in 1 .. n
  OBVIOUS
<1>5. ASSUME NEW k \in 1 .. n + 1
      PROVE  IF d[k].kind = "events" THEN d[k].data = BatchMessages(c[k]) ELSE c[k] = <<>>
  <2>1. CASE k = n + 1
    BY <1>2, <1>3, <2>1
  <2>2. CASE k \in 1 .. n
    <3>1. d[k] = q[k] /\ c[k] = qs[k]
      BY <1>2, <1>3, <2>2
    <3> QED
      BY <1>1, <2>2, <3>1
  <2> QED
    BY <1>4, <2>1, <2>2
<1>6. DOMAIN d = 1 .. n + 1
  BY <1>3
<1> QED
  BY <1>2, <1>3, <1>5, <1>6, <1>c, <1>d DEF QueueHolds

LEMMA QueueTail ==
  ASSUME NEW qs \in Seq(Seq(Event)), NEW q \in Seq(Queued), QueueHolds(qs, q), q # <<>>
  PROVE  /\ qs # <<>> /\ Head(qs) \in Seq(Event) /\ Tail(qs) \in Seq(Seq(Event))
         /\ IF Head(q).kind = "events" THEN Head(q).data = BatchMessages(Head(qs)) ELSE Head(qs) = <<>>
         /\ QueueHolds(Tail(qs), Tail(q))
<1>n. PICK n \in Nat : n = Len(q) /\ n >= 1
  BY EmptySeq
<1>1. Len(qs) = n /\ \A k \in 1 .. n : IF q[k].kind = "events" THEN q[k].data = BatchMessages(qs[k]) ELSE qs[k] = <<>>
  BY <1>n DEF QueueHolds
<1>2. qs # <<>>
  BY <1>1, <1>n, EmptySeq
<1>c. PICK c \in Seq(Seq(Event)) : c = Tail(qs)
  BY <1>2, HeadTailProperties
<1>d. PICK d \in Seq(Queued) : d = Tail(q)
  BY HeadTailProperties
<1>3. Head(qs) \in Seq(Event) /\ Head(qs) = qs[1] /\ Len(c) = n - 1 /\ \A k \in 1 .. n - 1 : c[k] = qs[k + 1]
  BY <1>1, <1>2, <1>c, HeadTailProperties
<1>4. Head(q) = q[1] /\ Len(d) = n - 1 /\ \A k \in 1 .. n - 1 : d[k] = q[k + 1]
  BY <1>d, <1>n, HeadTailProperties
<1>5. 1 \in 1 .. n /\ \A k \in 1 .. n - 1 : k + 1 \in 1 .. n
  BY <1>n
<1>6. IF q[1].kind = "events" THEN q[1].data = BatchMessages(qs[1]) ELSE qs[1] = <<>>
  BY <1>1, <1>5
<1>7. ASSUME NEW k \in 1 .. n - 1
      PROVE  IF d[k].kind = "events" THEN d[k].data = BatchMessages(c[k]) ELSE c[k] = <<>>
  <2>1. d[k] = q[k + 1] /\ c[k] = qs[k + 1] /\ k + 1 \in 1 .. n
    BY <1>3, <1>4, <1>5
  <2>2. IF q[k + 1].kind = "events" THEN q[k + 1].data = BatchMessages(qs[k + 1]) ELSE qs[k + 1] = <<>>
    BY <1>1, <2>1
  <2> QED
    BY <2>1, <2>2
<1>8. DOMAIN d = 1 .. n - 1
  BY <1>4
<1>9. QueueHolds(c, d)
  BY <1>3, <1>4, <1>7, <1>8 DEF QueueHolds
<1> QED
  BY <1>2, <1>3, <1>4, <1>6, <1>9, <1>c, <1>d

---------------------------------------------------------------------------
(* The invariant: the batches on their way from each process, those queued *)
(* to the sink's main thread and the events already given to the pipeline  *)
(* are the events dealt to the workers, in the order of each worker.       *)

Taken(p) == IF pump.from = p THEN pump.got ELSE <<>>
Todo(p) == IF p \in Workers THEN todo[p] ELSE <<>>
Pending(bs, p) == FlattenSeq(bs) \o (batch[p] \o Todo(p))

FlowOf(B, H, Q) ==
  /\ \A p \in Processes : InFlight(B[p], Taken(p), events[p], outbox[p])
  /\ QueueHolds(Q, sinkq)
  /\ hist = RebuiltAll(H)
  /\ \A p \in Processes : Orderly(p, H \o FlattenSeq(Q), Pending(B[p], p), unpacked)
Flow ==
  /\ pump.pc # "fatal" /\ Len(pump.got) < NumMessages
  /\ \E B \in [Processes -> Seq(Seq(Event))], H \in Seq(Event), Q \in Seq(Seq(Event)) : FlowOf(B, H, Q)

LEMMA FlowTypes ==
  ASSUME Typed, NEW p \in Processes
  PROVE  /\ Taken(p) \in Seq(Message) /\ Todo(p) \in Seq(Event) /\ batch[p] \in Seq(Event)
         /\ events[p] \in Seq(Message) /\ outbox[p] \in Seq(Message) /\ EventPart(outbox[p]) \in Seq(Message)
         /\ batch[p] \o Todo(p) \in Seq(Event) /\ OutboxTyped(outbox[p])
         /\ \A bs \in Seq(Seq(Event)) : Pending(bs, p) \in Seq(Event)
<1>1. pump.got \in Seq(Message) /\ outbox[p] \in Seq(Message) /\ events[p] \in Seq(Message)
  BY DEF Typed
<1>2. batch[p] \in Seq(Event) /\ (p \in Workers => todo[p] \in Seq(Event))
  BY DEF Typed
<1>3. Taken(p) \in Seq(Message)
  BY <1>1, EmptySeq DEF Taken
<1>4. Todo(p) \in Seq(Event)
  BY <1>2, EmptySeq DEF Todo
<1>5. batch[p] \o Todo(p) \in Seq(Event)
  BY <1>2, <1>4, ConcatProperties
<1>6. \A bs \in Seq(Seq(Event)) : Pending(bs, p) \in Seq(Event)
  BY <1>5, FlattenType, ConcatProperties DEF Pending
<1>7. OutboxTyped(outbox[p])
  BY TypedAt
<1> QED
  BY <1>1, <1>2, <1>3, <1>4, <1>5, <1>6, <1>7, EventPartType

LEMMA FlowInit == Init => Flow
<1> SUFFICES ASSUME Init PROVE Flow
  OBVIOUS
<1>0. Sent(<<>>) = <<>> /\ RebuiltAll(<<>>) = <<>> /\ FlattenSeq(<<>>) = <<>> /\ <<>> \o <<>> = <<>>
      /\ EventPart(<<>>) = <<>>
  <2>1. RebuiltAll(<<>>) = <<>>
    BY DEF RebuiltAll
  <2>2. <<>> \in Seq(Seq(Event)) /\ <<>> \in Seq(Event)
    BY EmptySeq
  <2>3. FlattenSeq(<<>>) = <<>>
    <3> PICK e \in Seq(Event) : e = <<>>
      BY <2>2
    <3> QED
      BY FlattenOne
  <2>4. <<>> \o <<>> = <<>>
    BY <2>2, ConcatEmptySeq
  <2> QED
    BY <2>1, <2>3, <2>4, SentNone DEF EventPart
<1>b. PICK B \in [Processes -> Seq(Seq(Event))] : \A p \in Processes : B[p] = <<>>
  <2>1. [p \in Processes |-> <<>>] \in [Processes -> Seq(Seq(Event))]
    BY EmptySeq
  <2> QED
    BY <2>1
<1>1. \A p \in Processes : InFlight(B[p], Taken(p), events[p], outbox[p])
  <2> TAKE p \in Processes
  <2>1. B[p] = <<>> /\ Taken(p) = <<>> /\ events[p] = <<>> /\ outbox[p] = <<>>
    BY <1>b DEF Init, Taken
  <2> QED
    BY <1>0, <2>1 DEF InFlight
<1>2. QueueHolds(<<>>, sinkq)
  BY DEF Init, QueueHolds
<1>3. \A p \in Processes : Orderly(p, <<>> \o FlattenSeq(<<>>), Pending(B[p], p), unpacked)
  <2> TAKE p \in Processes
  <2>1. batch[p] = <<>> /\ Todo(p) = <<>> /\ B[p] = <<>>
    BY <1>b DEF Init, Todo
  <2>2. Pending(B[p], p) = <<>>
    BY <1>0, <2>1 DEF Pending
  <2>3. Range(<<>>) = {} /\ Rising(<<>>) /\ unpacked = <<>>
    BY DEF Range, Rising, Init
  <2>4. Orderly(p, <<>>, <<>>, <<>>)
    BY <1>0, <2>3 DEF Orderly
  <2> QED
    BY <1>0, <2>2, <2>3, <2>4
<1>4. hist = RebuiltAll(<<>>)
  BY <1>0 DEF Init
<1>5. FlowOf(B, <<>>, <<>>)
  BY <1>1, <1>2, <1>3, <1>4 DEF FlowOf
<1>6. pump.pc # "fatal" /\ Len(pump.got) < NumMessages
  BY DEF Init, NumMessages
<1>7. <<>> \in Seq(Event) /\ <<>> \in Seq(Seq(Event))
  BY EmptySeq
<1> QED
  BY <1>5, <1>6, <1>7 DEF Flow

\* The main thread of p handles something and may flush the batch f.
Alone(p) ==
  \A q \in Processes : q # p => outbox'[q] = outbox[q] /\ batch'[q] = batch[q] /\ Todo(q)' = Todo(q)

LEMMA FlowOut ==
  ASSUME Typed, Flow, NEW p \in Processes, NEW f \in Seq(Event), Alone(p),
         EventPart(outbox[p]) = <<>>, EventPart(outbox'[p]) = FlushMessages(f),
         f \o (batch'[p] \o Todo(p)') = batch[p] \o Todo(p),
         batch'[p] \o Todo(p)' \in Seq(Event),
         UNCHANGED <<unpacked, events, pump, sinkq, hist>>
  PROVE  Flow'
<1>f. PICK B \in [Processes -> Seq(Seq(Event))], H \in Seq(Event), Q \in Seq(Seq(Event)) : FlowOf(B, H, Q)
  BY DEF Flow
<1>g. B[p] \in Seq(Seq(Event)) /\ Taken(p) \in Seq(Message) /\ events[p] \in Seq(Message)
  BY FlowTypes
<1>1. /\ InFlight(More(B[p], f), Taken(p), events[p], outbox'[p]) /\ More(B[p], f) \in Seq(Seq(Event))
      /\ FlattenSeq(More(B[p], f)) = FlattenSeq(B[p]) \o f
  <2>1. InFlight(B[p], Taken(p), events[p], outbox[p])
    BY <1>f DEF FlowOf
  <2> QED
    BY <1>g, <2>1, InFlightMore
<1>c. PICK C \in [Processes -> Seq(Seq(Event))] : C = [B EXCEPT ![p] = More(B[p], f)]
  BY <1>1
<1>d. C[p] = More(B[p], f) /\ \A q \in Processes : q # p => C[q] = B[q]
  BY <1>c
<1>2. pump' = pump /\ events' = events /\ sinkq' = sinkq /\ hist' = hist /\ unpacked' = unpacked
  OBVIOUS
<1>3. \A q \in Processes : Taken(q)' = Taken(q)
  BY <1>2 DEF Taken
<1>4. \A q \in Processes : InFlight(C[q], Taken(q)', events'[q], outbox'[q])
  <2> TAKE q \in Processes
  <2>1. CASE q = p
    BY <1>1, <1>2, <1>3, <1>d, <2>1
  <2>2. CASE q # p
    <3>1. InFlight(B[q], Taken(q), events[q], outbox[q])
      BY <1>f DEF FlowOf
    <3>2. outbox'[q] = outbox[q] /\ C[q] = B[q]
      BY <1>d, <2>2 DEF Alone
    <3> QED
      BY <1>2, <1>3, <3>1, <3>2
  <2> QED
    BY <2>1, <2>2
<1>5. \A q \in Processes : Pending(C[q], q)' = Pending(B[q], q)
  <2> TAKE q \in Processes
  <2>1. CASE q = p
    <3>a. PICK a \in Seq(Event) : a = FlattenSeq(B[p])
      BY <1>g, FlattenType
    <3>b. PICK b \in Seq(Event) : b = batch'[p] \o Todo(p)'
      OBVIOUS
    <3>1. (a \o f) \o b = a \o (f \o b)
      BY EventsConcat
    <3>2. Pending(C[p], p)' = (a \o f) \o b
      BY <1>1, <1>d, <3>a, <3>b DEF Pending
    <3>3. Pending(B[p], p) = a \o (f \o b)
      BY <3>a, <3>b DEF Pending
    <3> QED
      BY <2>1, <3>1, <3>2, <3>3
  <2>2. CASE q # p
    <3>1. batch'[q] = batch[q] /\ Todo(q)' = Todo(q) /\ C[q] = B[q]
      BY <1>d, <2>2 DEF Alone
    <3> QED
      BY <3>1 DEF Pending
  <2> QED
    BY <2>1, <2>2
<1>6. FlowOf(C, H, Q)'
  <2>1. \A q \in Processes : Orderly(q, H \o FlattenSeq(Q), Pending(C[q], q)', unpacked')
    BY <1>2, <1>5, <1>f DEF FlowOf
  <2>2. QueueHolds(Q, sinkq') /\ hist' = RebuiltAll(H)
    BY <1>2, <1>f DEF FlowOf
  <2> QED
    BY <1>4, <2>1, <2>2 DEF FlowOf
<1>7. pump'.pc # "fatal" /\ Len(pump'.got) < NumMessages
  BY <1>2 DEF Flow
<1> QED
  BY <1>6, <1>7 DEF Flow

\* Nothing of the way of an event changes.
LEMMA FlowStays ==
  ASSUME Flow, UNCHANGED <<unpacked, todo, batch, outbox, events, sinkq, hist>>,
         pump'.got = pump.got, pump'.from = pump.from, pump'.pc # "fatal"
  PROVE  Flow'
<1>f. PICK B \in [Processes -> Seq(Seq(Event))], H \in Seq(Event), Q \in Seq(Seq(Event)) : FlowOf(B, H, Q)
  BY DEF Flow
<1>1. \A q \in Processes : Taken(q)' = Taken(q) /\ Pending(B[q], q)' = Pending(B[q], q)
  BY DEF Taken, Pending, Todo
<1>2. FlowOf(B, H, Q)'
  BY <1>1, <1>f DEF FlowOf
<1> QED
  BY <1>2 DEF Flow

LEMMA EmptyParts == EventPart(<<>>) = <<>> /\ FlushMessages(<<>>) = <<>>
BY DEF EventPart, FlushMessages

LEMMA SendStateChangeFlow ==
  ASSUME Typed, Flow, NEW p \in Processes, NEW c \in StateMessage, outbox[p] = <<>>,
         SendStateChange(p, c), Todo(p)' = Todo(p), \A q \in Processes : q # p => Todo(q)' = Todo(q),
         UNCHANGED <<unpacked, events, pump, sinkq, hist>>
  PROVE  Flow'
<1>b. PICK b \in Seq(Event) : b = batch[p]
  BY DEF Typed
<1>1. outbox' = [outbox EXCEPT ![p] = FlushMessages(b) \o <<c>>] /\ batch' = [batch EXCEPT ![p] = <<>>]
  BY <1>b DEF SendStateChange, Clear
<1>2. outbox'[p] = FlushMessages(b) \o <<c>> /\ batch'[p] = <<>>
  BY <1>1 DEF Typed
<1>3. \A q \in Processes : q # p => outbox'[q] = outbox[q] /\ batch'[q] = batch[q]
  BY <1>1 DEF Typed
<1>4. Alone(p)
  BY <1>3 DEF Alone
<1>5. EventPart(outbox'[p]) = FlushMessages(b)
  BY <1>2, FlushTyped
<1>6. EventPart(outbox[p]) = <<>>
  BY EmptyParts
<1>7. b \o (batch'[p] \o Todo(p)') = batch[p] \o Todo(p) /\ batch'[p] \o Todo(p)' \in Seq(Event)
  <2>t. PICK t \in Seq(Event) : t = Todo(p)
    BY FlowTypes
  <2>1. <<>> \o t = t
    BY ConcatEmptySeq
  <2> QED
    BY <1>2, <1>b, <2>1, <2>t
<1> QED
  BY <1>4, <1>5, <1>6, <1>7, FlowOut

LEMMA RootStateChangeFlow ==
  ASSUME Typed, Flow, RootStateChange
  PROVE  Flow'
<1>0. Root \in Processes /\ outbox[Root] = <<>>
  BY DEF Processes, RootStateChange, Ready
<1>1. PICK c : c = Change(IF run.ended THEN run.number + 1 ELSE run.number, run.ended)
  OBVIOUS
<1>2. c \in StateMessage
  <2>1. run.number \in Nat /\ run.ended \in BOOLEAN
    BY BoundsAssumption DEF Typed
  <2>n. PICK n \in Int : n = IF run.ended THEN run.number + 1 ELSE run.number
    BY <2>1
  <2>2. <<n, IF run.ended THEN 1 ELSE 0>> \in Seq(Int)
    OBVIOUS
  <2> QED
    BY <1>1, <2>2, <2>n DEF Change, StateMessage
<1>3. SendStateChange(Root, c) /\ UNCHANGED <<unpacked, todo, events, pump, sinkq, hist>>
  BY <1>1 DEF RootStateChange, sinkVars
<1>4. \A q \in Processes : Todo(q)' = Todo(q)
  BY <1>3 DEF Todo
<1> QED
  BY <1>0, <1>2, <1>3, <1>4, SendStateChangeFlow

LEMMA RootExitFlow ==
  ASSUME Typed, Flow, RootExit
  PROVE  Flow'
<1>0. Root \in Processes /\ outbox[Root] = <<>>
  BY DEF Processes, RootExit, Ready
<1>1. SendStateChange(Root, StopMessage) /\ UNCHANGED <<unpacked, todo, events, pump, sinkq, hist>>
  BY DEF RootExit, StopMessage, sinkVars, dataVars
<1>2. \A q \in Processes : Todo(q)' = Todo(q)
  BY <1>1 DEF Todo
<1> QED
  BY <1>0, <1>1, <1>2, StopFacts, SendStateChangeFlow

LEMMA WorkerStateChangeFlow ==
  ASSUME Typed, Flow, NEW w \in Workers, WorkerStateChange(w)
  PROVE  Flow'
<1>0. w \in Processes /\ outbox[w] = <<>>
  BY DEF Processes, WorkerStateChange, Ready
<1>c. PICK c \in StateMessage : c = Head(changes[w])
  <2>1. changes[w] \in Seq(StateMessage) /\ changes[w] # <<>>
    BY DEF Typed, WorkerStateChange
  <2> QED
    BY <2>1, HeadTailProperties
<1>1. SendStateChange(w, c) /\ UNCHANGED <<unpacked, todo, events, pump, sinkq, hist>>
  BY <1>c DEF WorkerStateChange, sinkVars
<1>2. \A q \in Processes : Todo(q)' = Todo(q)
  BY <1>1 DEF Todo
<1> QED
  BY <1>0, <1>1, <1>2, SendStateChangeFlow

LEMMA HistogramEventsFlow ==
  ASSUME Typed, Flow, NEW w \in Workers, HistogramEvents(w)
  PROVE  Flow'
<1>0. w \in Processes /\ outbox[w] = <<>> /\ todo[w] # <<>>
  BY DEF Processes, HistogramEvents, Ready
<1>s. PICK s \in Seq(Event) : s = batch[w]
  BY <1>0 DEF Typed
<1>t. PICK t \in Seq(Event) : t = todo[w] /\ t # <<>>
  BY <1>0 DEF Typed
<1>e. PICK e \in Event : e = Head(t)
  BY <1>t, HeadTailProperties
<1>r. PICK r \in Seq(Event) : r = Tail(t)
  BY <1>t, HeadTailProperties
<1>b. PICK b \in Seq(Event) : b = Append(s, e)
  BY AppendProperties
<1>1. b \o r = s \o t
  <2>1. Append(s, Head(t)) \o Tail(t) = s \o t
    BY <1>t, MoveHead
  <2> QED
    BY <1>b, <1>e, <1>r, <2>1
<1>2. SendEvent(w, e) /\ todo' = [todo EXCEPT ![w] = r] /\ UNCHANGED <<unpacked, events, pump, sinkq, hist>>
  BY <1>e, <1>r, <1>t DEF HistogramEvents, sinkVars
<1>3. Todo(w) = t /\ Todo(w)' = r /\ \A q \in Processes : q # w => Todo(q)' = Todo(q)
  BY <1>2, <1>t DEF Todo, Typed
<1>4. r \in Seq(Event) /\ <<>> \o r = r
  BY ConcatEmptySeq
<1>5. CASE BatchFull(b)
  <2>1. batch' = [batch EXCEPT ![w] = <<>>] /\ outbox' = [outbox EXCEPT ![w] = FlushMessages(b)]
    BY <1>2, <1>5, <1>b, <1>s DEF SendEvent, Clear
  <2>2. batch'[w] = <<>> /\ outbox'[w] = FlushMessages(b)
    BY <1>0, <2>1 DEF Typed
  <2>3. Alone(w)
    BY <1>3, <2>1 DEF Alone, Typed
  <2>4. EventPart(outbox'[w]) = FlushMessages(b)
    BY <2>2, StopFacts, FlushTyped
  <2>5. b \o (batch'[w] \o Todo(w)') = batch[w] \o Todo(w) /\ batch'[w] \o Todo(w)' \in Seq(Event)
    BY <1>1, <1>3, <1>4, <1>s, <2>2
  <2> QED
    BY <1>0, <1>2, <2>3, <2>4, <2>5, EmptyParts, FlowOut
<1>6. CASE ~BatchFull(b)
  <2>1. batch' = [batch EXCEPT ![w] = b] /\ outbox' = outbox
    BY <1>2, <1>6, <1>b, <1>s DEF SendEvent
  <2>2. batch'[w] = b /\ outbox'[w] = <<>>
    BY <1>0, <2>1 DEF Typed
  <2>3. Alone(w)
    BY <1>3, <2>1 DEF Alone, Typed
  <2>z. PICK z \in Seq(Event) : z = <<>>
    BY EmptySeq
  <2>c. PICK c \in Seq(Event) : c = b \o r
    BY ConcatProperties
  <2>4. z \o c = c
    BY <2>z, ConcatEmptySeq
  <2>5. z \o (batch'[w] \o Todo(w)') = batch[w] \o Todo(w) /\ batch'[w] \o Todo(w)' \in Seq(Event)
    BY <1>1, <1>3, <1>s, <2>2, <2>4, <2>c
  <2>6. EventPart(outbox[w]) = <<>> /\ EventPart(outbox'[w]) = FlushMessages(z)
    BY <1>0, <2>2, <2>z, EmptyParts
  <2> QED
    BY <1>0, <1>2, <2>3, <2>5, <2>6, FlowOut
<1> QED
  BY <1>5, <1>6

LEMMA DealFlow ==
  ASSUME Typed, Flow, NEW w \in Workers, Deal(w)
  PROVE  Flow'
<1>0. w \in Processes
  BY DEF Processes
<1>f. PICK B \in [Processes -> Seq(Seq(Event))], H \in Seq(Event), Q \in Seq(Seq(Event)) : FlowOf(B, H, Q)
  BY DEF Flow
<1>e. PICK x \in Event : /\ x.id = Len(unpacked) + 1 /\ x.worker = w
                         /\ unpacked' = Append(unpacked, x) /\ todo' = [todo EXCEPT ![w] = <<x>>]
  <2>1. PICK x : /\ x.id = Len(unpacked) + 1 /\ x.worker = w
                 /\ unpacked' = Append(unpacked, x) /\ todo' = [todo EXCEPT ![w] = <<x>>]
    BY DEF Deal
  <2>2. unpacked' \in Seq(Event)
    BY DealTyped DEF Typed
  <2>3. x \in Event
    <3>n. PICK n \in Nat : n = Len(unpacked)
      BY DEF Typed
    <3>1. Append(unpacked, x)[n + 1] = x /\ Len(Append(unpacked, x)) = n + 1
      BY <3>n DEF Typed
    <3>2. n + 1 \in 1 .. n + 1
      OBVIOUS
    <3>v. PICK v \in Seq(Event) : v = Append(unpacked, x)
      BY <2>1, <2>2
    <3>3. v[n + 1] \in Event
      BY <3>1, <3>2, <3>v
    <3> QED
      BY <3>1, <3>3, <3>v
  <2> QED
    BY <2>1, <2>3
<1>1. /\ UNCHANGED <<batch, outbox, events, pump, sinkq, hist>>
      /\ unpacked \in Seq(Event) /\ todo[w] = <<>>
  BY DEF Deal, sinkVars, Typed
<1>2. \A q \in Processes : Taken(q)' = Taken(q)
  BY <1>1 DEF Taken
<1>s. PICK s \in Seq(Event) : s = H \o FlattenSeq(Q)
  BY FlattenType, ConcatProperties
<1>3. \A q \in Processes : Pending(B[q], q)' = IF q = w THEN Pending(B[q], q) \o <<x>> ELSE Pending(B[q], q)
  <2> TAKE q \in Processes
  <2>1. CASE q = w
    <3>a. PICK a \in Seq(Event) : a = FlattenSeq(B[q])
      BY FlattenType
    <3>b. PICK b \in Seq(Event) : b = batch[q]
      BY DEF Typed
    <3>o. PICK o \in Seq(Event) : o = <<x>>
      BY OneMember
    <3>1. Todo(q) = <<>> /\ Todo(q)' = o
      BY <1>0, <1>1, <1>e, <2>1, <3>o DEF Todo, Typed
    <3>2. b \o <<>> = b
      BY ConcatEmptySeq
    <3>3. Pending(B[q], q) = a \o b /\ Pending(B[q], q)' = a \o (b \o o)
      BY <1>1, <3>1, <3>2, <3>a, <3>b DEF Pending
    <3>4. (a \o b) \o o = a \o (b \o o)
      BY EventsConcat
    <3> QED
      BY <2>1, <3>3, <3>4, <3>o
  <2>2. CASE q # w
    <3>1. Todo(q)' = Todo(q)
      BY <1>e, <2>2 DEF Todo, Typed
    <3> QED
      BY <1>1, <2>2, <3>1 DEF Pending
  <2> QED
    BY <2>1, <2>2
<1>4. \A q \in Processes : Orderly(q, s, Pending(B[q], q)', unpacked')
  <2> TAKE q \in Processes
  <2>p. PICK e \in Seq(Event) : e = Pending(B[q], q)
    BY FlowTypes
  <2>1. Orderly(q, s, e, unpacked)
    BY <1>f, <1>s, <2>p DEF FlowOf
  <2>2. Orderly(q, s, IF q = x.worker THEN e \o <<x>> ELSE e, Append(unpacked, x))
    BY <1>1, <1>e, <2>1, OrderlyDeal
  <2> QED
    BY <1>3, <1>e, <2>2, <2>p
<1>5. FlowOf(B, H, Q)'
  BY <1>1, <1>2, <1>4, <1>f, <1>s DEF FlowOf
<1>6. pump'.pc # "fatal" /\ Len(pump'.got) < NumMessages
  BY <1>1 DEF Flow
<1> QED
  BY <1>5, <1>6 DEF Flow

LEMMA SendMessageFlow ==
  ASSUME Typed, Flow, NEW p \in Processes, SendMessage(p)
  PROVE  Flow'
<1>f. PICK B \in [Processes -> Seq(Seq(Event))], H \in Seq(Event), Q \in Seq(Seq(Event)) : FlowOf(B, H, Q)
  BY DEF Flow
<1>o. PICK o : o = outbox[p] /\ OutboxTyped(o) /\ o # <<>>
  BY FlowTypes DEF SendMessage
<1>1. /\ UNCHANGED <<unpacked, todo, batch, pump, sinkq, hist>>
      /\ outbox' = [outbox EXCEPT ![p] = Tail(o)]
  BY <1>o DEF SendMessage, dataVars, sinkVars
<1>2. \/ Head(o).kind = "state" /\ events' = events
      \/ Head(o).kind # "state" /\ events' = [events EXCEPT ![p] = Append(@, Head(o))]
  BY <1>o DEF SendMessage
<1>3. \A q \in Processes : Taken(q)' = Taken(q) /\ Pending(B[q], q)' = Pending(B[q], q)
  BY <1>1 DEF Taken, Pending, Todo
<1>4. events'[p] \o EventPart(outbox'[p]) = events[p] \o EventPart(outbox[p])
  <2>0. outbox'[p] = Tail(o)
    BY <1>1 DEF Typed
  <2>1. CASE Head(o).kind = "state"
    <3>1. EventPart(o) = <<>> /\ EventPart(Tail(o)) = <<>>
      BY <1>o, <2>1, EventPartMove
    <3> QED
      BY <1>2, <1>o, <2>0, <2>1, <3>1
  <2>2. CASE Head(o).kind # "state"
    <3>1. EventPart(o) # <<>> /\ Head(EventPart(o)) = Head(o) /\ EventPart(Tail(o)) = Tail(EventPart(o))
      BY <1>o, <2>2, EventPartMove
    <3>e. PICK e \in Seq(Message) : e = events[p]
      BY FlowTypes
    <3>r. PICK r \in Seq(Message) : r = EventPart(o)
      BY <1>o, FlowTypes
    <3>2. Append(e, Head(r)) \o Tail(r) = e \o r
      BY <3>1, <3>r, MoveHead
    <3>3. events'[p] = Append(e, Head(r))
      <4>1. events' = [events EXCEPT ![p] = Append(e, Head(r))]
        BY <1>2, <2>2, <3>1, <3>e, <3>r, Zenon
      <4>2. events \in [Processes -> Seq(Message)]
        BY DEF Typed
      <4> QED
        BY <4>1, <4>2
    <3> QED
      BY <1>o, <2>0, <3>1, <3>2, <3>3, <3>e, <3>r
  <2> QED
    BY <2>1, <2>2
<1>5. \A q \in Processes : q # p => events'[q] = events[q] /\ outbox'[q] = outbox[q]
  BY <1>1, <1>2 DEF Typed
<1>6. \A q \in Processes : InFlight(B[q], Taken(q)', events'[q], outbox'[q])
  <2> TAKE q \in Processes
  <2>1. InFlight(B[q], Taken(q), events[q], outbox[q])
    BY <1>f DEF FlowOf
  <2>2. CASE q = p
    BY <1>3, <1>4, <2>1, <2>2 DEF InFlight
  <2>3. CASE q # p
    BY <1>3, <1>5, <2>1, <2>3
  <2> QED
    BY <2>2, <2>3
<1>7. FlowOf(B, H, Q)'
  BY <1>1, <1>3, <1>6, <1>f DEF FlowOf
<1>8. pump'.pc # "fatal" /\ Len(pump'.got) < NumMessages
  BY <1>1 DEF Flow
<1> QED
  BY <1>7, <1>8 DEF Flow

\* The pump has received a message of p's next batch.
LEMMA ReceivedFacts ==
  ASSUME Typed, NEW p \in Processes, Received(p), Len(pump.got) < NumMessages,
         NEW bs \in Seq(Seq(Event)), InFlight(bs, Taken(p), events[p], outbox[p])
  PROVE  /\ Taken(p) = pump.got /\ \A q \in Processes : q # p => Taken(q) = <<>>
         /\ ~Aborts(p) /\ bs # <<>>
         /\ InFlight(bs, Append(pump.got, Head(events[p])), Tail(events[p]), outbox[p])
         /\ Completes(p) => /\ InFlight(Tail(bs), <<>>, Tail(events[p]), outbox[p])
                            /\ Append(pump.got, Head(events[p])) = BatchMessages(Head(bs))
<1>1. Taken(p) = pump.got /\ \A q \in Processes : q # p => Taken(q) = <<>>
  BY DEF Received, Taken
<1>g. PICK g \in Seq(Message) : g = pump.got
  BY DEF Typed
<1>e. PICK e \in Seq(Message) : e = events[p] /\ e # <<>>
  BY FlowTypes DEF Received
<1>o. PICK o \in Seq(Message) : o = EventPart(outbox[p])
  BY FlowTypes
<1>2. Len(g) < NumMessages /\ g \o (e \o o) = Sent(bs)
  BY <1>1, <1>e, <1>g, <1>o DEF InFlight
<1>3. /\ bs # <<>> /\ Len(Head(e).data) = RoomFor(g)
      /\ Append(g, Head(e)) \o (Tail(e) \o o) = Sent(bs)
      /\ ~(Len(Append(g, Head(e))) < NumMessages) =>
           Append(g, Head(e)) = BatchMessages(Head(bs)) /\ Tail(e) \o o = Sent(Tail(bs))
  <2>1. e # <<>> /\ o \in Seq(Message) /\ g \o (e \o o) = Sent(bs) /\ Len(g) < NumMessages
    BY <1>2, <1>e
  <2>2. FitsNext(bs, g, e, o)
    BY <2>1, NextOfBatch, Zenon
  <2> QED
    BY <2>2 DEF FitsNext
<1>4. ~Aborts(p)
  <2>1. Head(e) \in Message
    BY <1>e, HeadTailProperties
  <2>2. Len(Head(e).data) \in Nat
    BY <2>1 DEF Message
  <2>3. ~(Len(Head(e).data) > RoomFor(g))
    BY <1>3, <2>2
  <2> QED
    BY <1>e, <1>g, <2>3 DEF Aborts
<1>5. InFlight(bs, Append(g, Head(e)), Tail(e), outbox[p])
  BY <1>3, <1>o DEF InFlight
<1>6. ASSUME Completes(p)
      PROVE  /\ InFlight(Tail(bs), <<>>, Tail(e), outbox[p])
             /\ Append(g, Head(e)) = BatchMessages(Head(bs))
  <2>1. Append(g, Head(e)) = BatchMessages(Head(bs)) /\ Tail(e) \o o = Sent(Tail(bs))
    BY <1>3, <1>6, <1>e, <1>g DEF Completes
  <2>2. <<>> \o (Tail(e) \o o) = Tail(e) \o o
    <3>1. Tail(e) \o o \in Seq(Message)
      BY <1>e, HeadTailProperties, ConcatProperties
    <3> QED
      BY <3>1, ConcatEmptySeq
  <2> QED
    BY <1>o, <2>1, <2>2 DEF InFlight
<1> QED
  BY <1>1, <1>3, <1>4, <1>5, <1>6, <1>e, <1>g

\* What is pending begins with the first batch on its way.
LEMMA PendingFirst ==
  ASSUME Typed, NEW p \in Processes, NEW bs \in Seq(Seq(Event)), bs # <<>>
  PROVE  Pending(bs, p) = Head(bs) \o Pending(Tail(bs), p)
<1>d. PICK d \in Seq(Event) : d = Head(bs)
  BY SentFirst
<1>t. PICK t \in Seq(Seq(Event)) : t = Tail(bs)
  BY SentFirst
<1>a. PICK a \in Seq(Event) : a = FlattenSeq(t)
  BY FlattenType
<1>y. PICK y \in Seq(Event) : y = batch[p] \o Todo(p)
  BY FlowTypes
<1>1. FlattenSeq(bs) = d \o a
  BY <1>d, <1>t, <1>a, FlattenFirst
<1>2. (d \o a) \o y = d \o (a \o y)
  BY EventsConcat
<1> QED
  BY <1>1, <1>2, <1>a, <1>d, <1>t, <1>y DEF Pending

LEMMA PumpReceiveFlow ==
  ASSUME Typed, Flow, PumpReceive
  PROVE  Flow'
<1>p. PICK p \in Processes : Received(p) /\ (Aborts(p) \/ Continues(p) \/ Completes(p))
  BY ReceiveCases
<1>f. PICK B \in [Processes -> Seq(Seq(Event))], H \in Seq(Event), Q \in Seq(Seq(Event)) : FlowOf(B, H, Q)
  BY DEF Flow
<1>b. PICK bs \in Seq(Seq(Event)) : bs = B[p]
  OBVIOUS
<1>1. InFlight(bs, Taken(p), events[p], outbox[p]) /\ Len(pump.got) < NumMessages
  BY <1>b, <1>f DEF Flow, FlowOf
<1>2. /\ Taken(p) = pump.got /\ \A q \in Processes : q # p => Taken(q) = <<>>
      /\ ~Aborts(p) /\ bs # <<>>
      /\ InFlight(bs, Append(pump.got, Head(events[p])), Tail(events[p]), outbox[p])
      /\ Completes(p) => /\ InFlight(Tail(bs), <<>>, Tail(events[p]), outbox[p])
                         /\ Append(pump.got, Head(events[p])) = BatchMessages(Head(bs))
  BY <1>1, <1>p, ReceivedFacts
<1>3. UNCHANGED <<unpacked, todo, batch, outbox, hist>>
  BY <1>p DEF Received, dataVars
<1>4. events'[p] = Tail(events[p]) /\ \A q \in Processes : q # p => events'[q] = events[q]
  BY <1>p DEF Received, Typed
<1>5. CASE Continues(p)
  <2>1. pump'.pc = "receive" /\ pump'.from = p /\ pump'.got = Append(pump.got, Head(events[p]))
        /\ sinkq' = sinkq /\ Len(pump'.got) < NumMessages
    BY <1>5 DEF Continues
  <2>2. Taken(p)' = Append(pump.got, Head(events[p])) /\ \A q \in Processes : q # p => Taken(q)' = <<>>
    BY <2>1 DEF Taken
  <2>3. \A q \in Processes : InFlight(B[q], Taken(q)', events'[q], outbox'[q])
    <3> TAKE q \in Processes
    <3>1. CASE q = p
      BY <1>2, <1>3, <1>4, <1>b, <2>2, <3>1
    <3>2. CASE q # p
      <4>1. InFlight(B[q], Taken(q), events[q], outbox[q])
        BY <1>f DEF FlowOf
      <4>2. Taken(q)' = Taken(q) /\ events'[q] = events[q] /\ outbox'[q] = outbox[q]
        BY <1>2, <1>3, <1>4, <2>2, <3>2
      <4> QED
        BY <4>1, <4>2
    <3> QED
      BY <3>1, <3>2
  <2>4. \A q \in Processes : Pending(B[q], q)' = Pending(B[q], q)
    BY <1>3 DEF Pending, Todo
  <2>5. FlowOf(B, H, Q)'
    BY <1>3, <1>f, <2>1, <2>3, <2>4 DEF FlowOf
  <2> QED
    BY <2>1, <2>5 DEF Flow
<1>6. CASE Completes(p)
  <2>0. pump' = [pc |-> "test", from |-> Sink, got |-> <<>>]
        /\ sinkq' = Append(sinkq, [kind |-> "events", data |-> Append(pump.got, Head(events[p]))])
    BY <1>6 DEF Completes
  <2>1. pump'.pc = "test" /\ pump'.got = <<>> /\ Len(pump'.got) < NumMessages
    BY <2>0 DEF NumMessages
  <2>2. \A q \in Processes : Taken(q)' = <<>>
    BY <2>1 DEF Taken
  <2>d. PICK d \in Seq(Event) : d = Head(bs)
    BY <1>2, SentFirst
  <2>t. PICK t \in Seq(Seq(Event)) : t = Tail(bs)
    BY <1>2, SentFirst
  <2>c. PICK C \in [Processes -> Seq(Seq(Event))] : C = [B EXCEPT ![p] = t]
    OBVIOUS
  <2>e. C[p] = t /\ \A q \in Processes : q # p => C[q] = B[q]
    BY <2>c
  <2>3. \A q \in Processes : InFlight(C[q], Taken(q)', events'[q], outbox'[q])
    <3> TAKE q \in Processes
    <3>1. CASE q = p
      BY <1>2, <1>3, <1>4, <1>6, <2>2, <2>e, <2>t, <3>1
    <3>2. CASE q # p
      <4>1. InFlight(B[q], Taken(q), events[q], outbox[q])
        BY <1>f DEF FlowOf
      <4>2. Taken(q)' = Taken(q) /\ events'[q] = events[q] /\ outbox'[q] = outbox[q]
        BY <1>2, <1>3, <1>4, <2>2, <3>2
      <4> QED
        BY <2>e, <3>2, <4>1, <4>2
    <3> QED
      BY <3>1, <3>2
  <2>m. PICK m \in Seq(Message) : m = BatchMessages(d)
    BY MessagesType
  <2>n. PICK n \in Queued : n = [kind |-> "events", data |-> m]
    <3>1. [kind |-> "events", data |-> m] \in Queued
      BY DEF Queued
    <3> QED
      BY <3>1
  <2>4. sinkq' = Append(sinkq, n)
    BY <1>2, <1>6, <2>0, <2>d, <2>m, <2>n
  <2>r. PICK R \in Seq(Seq(Event)) : R = Append(Q, d)
    BY AppendProperties
  <2>5. QueueHolds(R, sinkq')
    <3>1. QueueHolds(Q, sinkq) /\ sinkq \in Seq(Queued)
      BY <1>f DEF FlowOf, Typed
    <3>2. n.kind = "events" /\ n.data = BatchMessages(d)
      BY <2>m, <2>n
    <3>3. QueueHolds(Append(Q, d), Append(sinkq, n))
      BY <3>1, <3>2, QueueAppend
    <3> QED
      BY <2>4, <2>r, <3>3
  <2>f. PICK f \in Seq(Event) : f = FlattenSeq(Q)
    BY FlattenType
  <2>s. PICK s \in Seq(Event) : s = H \o f
    BY ConcatProperties
  <2>6. H \o FlattenSeq(R) = s \o d
    <3>1. FlattenSeq(R) = f \o d
      BY <2>f, <2>r, FlattenAppend
    <3>2. (H \o f) \o d = H \o (f \o d)
      <4>1. \A u, v, w \in Seq(Event) : (u \o v) \o w = u \o (v \o w)
        BY EventsConcat
      <4>2. H \in Seq(Event) /\ f \in Seq(Event) /\ d \in Seq(Event)
        OBVIOUS
      <4> QED
        BY <4>1, <4>2, Zenon
    <3> QED
      BY <2>s, <3>1, <3>2
  <2>x. PICK x \in Seq(Event) : x = Pending(t, p)
    BY FlowTypes
  <2>7. Pending(bs, p) = d \o x
    BY <1>2, <2>d, <2>t, <2>x, PendingFirst
  <2>8. Orderly(p, s, d \o x, unpacked)
    <3>1. Orderly(p, H \o FlattenSeq(Q), Pending(B[p], p), unpacked)
      BY <1>f DEF FlowOf
    <3> QED
      BY <1>b, <2>7, <2>f, <2>s, <3>1
  <2>9. \A q \in Processes : Orderly(q, s \o d, Pending(C[q], q), unpacked)
    <3> TAKE q \in Processes
    <3>1. CASE q = p
      BY <2>8, <2>e, <2>x, <3>1, OrderlyArrives
    <3>2. CASE q # p
      <4>y. PICK y \in Seq(Event) : y = Pending(B[q], q)
        BY FlowTypes
      <4>1. Orderly(q, s, y, unpacked)
        BY <1>f, <2>f, <2>s, <4>y DEF FlowOf
      <4> QED
        BY <2>8, <2>e, <3>2, <4>1, <4>y, OrderlyOther
    <3> QED
      BY <3>1, <3>2
  <2>10. \A q \in Processes : Pending(C[q], q)' = Pending(C[q], q)
    BY <1>3 DEF Pending, Todo
  <2>11. FlowOf(C, H, R)'
    BY <1>3, <1>f, <2>3, <2>5, <2>6, <2>9, <2>10 DEF FlowOf
  <2> QED
    BY <2>1, <2>11 DEF Flow
<1> QED
  BY <1>2, <1>5, <1>6, <1>p

\* Something without events is queued to the main thread of the sink.
LEMMA FlowQueued ==
  ASSUME Typed, Flow, UNCHANGED <<unpacked, todo, batch, outbox, events, pump, hist>>,
         NEW n \in Queued, n.kind # "events", sinkq' = Append(sinkq, n)
  PROVE  Flow'
<1>f. PICK B \in [Processes -> Seq(Seq(Event))], H \in Seq(Event), Q \in Seq(Seq(Event)) : FlowOf(B, H, Q)
  BY DEF Flow
<1>1. \A q \in Processes : Taken(q)' = Taken(q) /\ Pending(B[q], q)' = Pending(B[q], q)
  BY DEF Taken, Pending, Todo
<1>z. PICK z \in Seq(Event) : z = <<>>
  BY EmptySeq
<1>r. PICK R \in Seq(Seq(Event)) : R = Append(Q, z)
  BY AppendProperties
<1>2. QueueHolds(R, sinkq')
  <2>1. QueueHolds(Q, sinkq) /\ sinkq \in Seq(Queued)
    BY <1>f DEF FlowOf, Typed
  <2>2. QueueHolds(Append(Q, z), Append(sinkq, n))
    BY <1>z, <2>1, QueueAppend
  <2> QED
    BY <1>r, <2>2
<1>3. FlattenSeq(R) = FlattenSeq(Q)
  <2>1. FlattenSeq(R) = FlattenSeq(Q) \o z
    BY <1>r, FlattenAppend
  <2> QED
    BY <1>z, <2>1, FlattenType, ConcatEmptySeq
<1>4. FlowOf(B, H, R)'
  BY <1>1, <1>2, <1>3, <1>f DEF FlowOf
<1>5. pump'.pc # "fatal" /\ Len(pump'.got) < NumMessages
  BY DEF Flow
<1> QED
  BY <1>4, <1>5 DEF Flow

LEMMA StatePumpReceiveFlow ==
  ASSUME Typed, Flow, StatePumpReceive
  PROVE  Flow'
<1>0. Root \in Processes
  BY DEF Processes
<1>1. UNCHANGED <<unpacked, todo, batch, outbox, events, pump, hist>>
  BY DEF StatePumpReceive, dataVars
<1>2. Head(states[Root]) \in StateMessage
  <2>1. states[Root] \in Seq(StateMessage) /\ states[Root] # <<>>
    BY <1>0 DEF Typed, StatePumpReceive
  <2> QED
    BY <2>1, HeadTailProperties
<1>3. sinkq' = sinkq \/ sinkq' = Append(sinkq, Head(states[Root]))
  BY DEF StatePumpReceive, QueueEvent
<1>4. CASE sinkq' = sinkq
  <2>1. pump' = pump /\ pump'.pc # "fatal"
    BY <1>1 DEF Flow
  <2> QED
    BY <1>1, <1>4, <2>1, FlowStays
<1>5. CASE sinkq' = Append(sinkq, Head(states[Root]))
  <2>1. Head(states[Root]) \in Queued /\ Head(states[Root]).kind # "events"
    BY <1>2 DEF Queued, StateMessage
  <2> QED
    BY <1>1, <1>5, <2>1, FlowQueued
<1> QED
  BY <1>3, <1>4, <1>5

LEMMA ReceiveExitFlow ==
  ASSUME Typed, Flow, ReceiveExit
  PROVE  Flow'
<1>1. UNCHANGED <<unpacked, todo, batch, outbox, events, pump, hist>>
  BY DEF ReceiveExit, dataVars
<1>n. PICK n : n = [kind |-> "exit", data |-> <<>>]
  OBVIOUS
<1>2. n \in Queued /\ n.kind # "events"
  BY <1>n DEF Queued
<1>3. sinkq' = Append(sinkq, n)
  BY <1>n DEF ReceiveExit, QueueEvent
<1> QED
  BY <1>1, <1>2, <1>3, FlowQueued

LEMMA HandleEventFlow ==
  ASSUME Typed, Flow, HandleEvent
  PROVE  Flow'
<1>e. PICK e : Handles(e) /\ (HandlesEvents(e) \/ HandlesState(e) \/ HandlesExit(e))
  BY HandleCases
<1>f. PICK B \in [Processes -> Seq(Seq(Event))], H \in Seq(Event), Q \in Seq(Seq(Event)) : FlowOf(B, H, Q)
  BY DEF Flow
<1>0. Sink \in Processes
  BY DEF Processes
<1>1. /\ UNCHANGED <<unpacked, todo, batch, events, pump>>
      /\ sinkq # <<>> /\ e = Head(sinkq) /\ sinkq' = Tail(sinkq) /\ sinkq \in Seq(Queued)
  BY <1>e DEF Handles, dataVars, Typed
<1>2. /\ Q # <<>> /\ Head(Q) \in Seq(Event) /\ Tail(Q) \in Seq(Seq(Event))
      /\ IF e.kind = "events" THEN e.data = BatchMessages(Head(Q)) ELSE Head(Q) = <<>>
      /\ QueueHolds(Tail(Q), sinkq')
  <2>1. QueueHolds(Q, sinkq)
    BY <1>f DEF FlowOf
  <2> QED
    BY <1>1, <2>1, QueueTail
<1>b. PICK b \in Seq(Event) : b = Head(Q)
  BY <1>2
<1>r. PICK R \in Seq(Seq(Event)) : R = Tail(Q)
  BY <1>2
<1>g. PICK g \in Seq(Event) : g = FlattenSeq(R)
  BY FlattenType
<1>k. PICK K \in Seq(Event) : K = H \o b
  BY ConcatProperties
<1>3. H \o FlattenSeq(Q) = K \o FlattenSeq(R)
  <2>1. FlattenSeq(Q) = b \o g
    BY <1>2, <1>b, <1>g, <1>r, FlattenFirst
  <2> QED
    <3>1. (H \o b) \o g = H \o (b \o g)
      BY EventsConcat
    <3> QED
      BY <1>g, <1>k, <2>1, <3>1
<1>4. \A q \in Processes : Taken(q)' = Taken(q)
  BY <1>1 DEF Taken
<1>5. \A q \in Processes : \A bs : Pending(bs, q)' = Pending(bs, q)
  BY <1>1 DEF Pending, Todo
<1>6. \A q \in Processes : Orderly(q, K \o FlattenSeq(R), Pending(B[q], q), unpacked)
  BY <1>3, <1>f DEF FlowOf
<1>7. hist' = RebuiltAll(K)
  <2>h. hist = RebuiltAll(H)
    BY <1>f DEF FlowOf
  <2>1. CASE HandlesEvents(e)
    <3>1. e.kind = "events" /\ hist' = hist \o Reconstruct(e.data)
      BY <2>1 DEF HandlesEvents
    <3>2. e.data = BatchMessages(b)
      BY <1>2, <1>b, <3>1
    <3>3. Reconstruct(e.data) = RebuiltAll(b)
      <4>1. DOMAIN b = 1 .. Len(b)
        OBVIOUS
      <4>2. Reconstruct(BatchMessages(b)) = [n \in 1 .. Len(b) |-> Rebuilt(b[n])]
        BY Reconstructs
      <4> QED
        BY <3>2, <4>1, <4>2 DEF RebuiltAll
    <3>4. RebuiltAll(H \o b) = RebuiltAll(H) \o RebuiltAll(b)
      BY RebuiltConcat
    <3> QED
      BY <1>k, <2>h, <3>1, <3>3, <3>4
  <2>2. CASE HandlesState(e) \/ HandlesExit(e)
    <3>1. e.kind # "events" /\ hist' = hist
      BY <2>2 DEF HandlesState, HandlesExit
    <3>2. b = <<>>
      BY <1>2, <1>b, <3>1
    <3>3. K = H
      BY <1>k, <3>2, ConcatEmptySeq
    <3> QED
      BY <2>h, <3>1, <3>3
  <2> QED
    BY <1>e, <2>1, <2>2
<1>8. pump'.pc # "fatal" /\ Len(pump'.got) < NumMessages
  BY <1>1 DEF Flow
<1>9. CASE outbox' = outbox
  <2>1. \A q \in Processes : InFlight(B[q], Taken(q)', events'[q], outbox'[q])
    BY <1>1, <1>4, <1>9, <1>f DEF FlowOf
  <2>2. FlowOf(B, K, R)'
    BY <1>1, <1>2, <1>5, <1>6, <1>7, <1>r, <2>1 DEF FlowOf
  <2> QED
    BY <1>8, <2>2 DEF Flow
<1>10. CASE HandlesExit(e)
  <2>x. PICK x \in Seq(Event) : x = <<FakeEvent>>
    BY FakeEventTyped
  <2>1. /\ outbox[Sink] = <<>> /\ batch[Sink] = <<>> /\ Todo(Sink) = <<>>
        /\ outbox' = [outbox EXCEPT ![Sink] = BatchMessages(x)]
    <3>1. command[Sink] # "done"
      BY <1>e DEF Handles
    <3>2. Sink \notin Workers
      BY ProcessesAssumption
    <3> QED
      BY <1>10, <2>x, <3>1, <3>2 DEF HandlesExit, StopMessages, Typed, Todo
  <2>s. PICK bs \in Seq(Seq(Event)) : bs = B[Sink]
    BY <1>0
  <2>2. outbox'[Sink] = BatchMessages(x) /\ \A q \in Processes : q # Sink => outbox'[q] = outbox[q]
    BY <1>0, <2>1 DEF Typed
  <2>3. x # <<>>
    BY <2>x
  <2>4. EventPart(outbox'[Sink]) = FlushMessages(x)
    <3>1. outbox'[Sink] = FlushMessages(x)
      BY <2>2, <2>3 DEF FlushMessages
    <3> QED
      BY <3>1, StopFacts, FlushTyped
  <2>5. /\ InFlight(More(bs, x), Taken(Sink), events[Sink], outbox'[Sink])
        /\ More(bs, x) \in Seq(Seq(Event))
        /\ FlattenSeq(More(bs, x)) = FlattenSeq(bs) \o x
    <3>1. InFlight(bs, Taken(Sink), events[Sink], outbox[Sink])
      BY <1>0, <1>f, <2>s DEF FlowOf
    <3>2. Taken(Sink) \in Seq(Message) /\ events[Sink] \in Seq(Message)
      BY <1>0, FlowTypes
    <3>3. EventPart(outbox[Sink]) = <<>>
      BY <2>1, EmptyParts
    <3> QED
      BY <2>4, <3>1, <3>2, <3>3, InFlightMore
  <2>c. PICK C \in [Processes -> Seq(Seq(Event))] : C = [B EXCEPT ![Sink] = More(bs, x)]
    BY <2>5
  <2>d. C[Sink] = More(bs, x) /\ \A q \in Processes : q # Sink => C[q] = B[q]
    BY <1>0, <2>c
  <2>6. \A q \in Processes : InFlight(C[q], Taken(q)', events'[q], outbox'[q])
    <3> TAKE q \in Processes
    <3>1. CASE q = Sink
      BY <1>1, <1>4, <2>5, <2>d, <3>1
    <3>2. CASE q # Sink
      <4>1. InFlight(B[q], Taken(q), events[q], outbox[q])
        BY <1>f DEF FlowOf
      <4> QED
        BY <1>1, <1>4, <2>2, <2>d, <3>2, <4>1
    <3> QED
      BY <3>1, <3>2
  <2>7. Pending(C[Sink], Sink) = Pending(bs, Sink) \o x
    <3>a. PICK a \in Seq(Event) : a = FlattenSeq(bs)
      BY FlattenType
    <3>1. <<>> \o <<>> = <<>>
      BY EmptySeq, ConcatEmptySeq
    <3>2. a \o <<>> = a /\ (a \o x) \o <<>> = a \o x
      <4>1. a \o x \in Seq(Event)
        BY ConcatProperties
      <4> QED
        BY <4>1, ConcatEmptySeq
    <3> QED
      BY <2>1, <2>5, <2>d, <3>1, <3>2, <3>a DEF Pending
  <2>8. \A q \in Processes : Orderly(q, K \o FlattenSeq(R), Pending(C[q], q), unpacked)
    <3> TAKE q \in Processes
    <3>1. CASE q = Sink
      <4>s. PICK s \in Seq(Event) : s = K \o FlattenSeq(R)
        BY FlattenType, ConcatProperties
      <4>p. PICK p \in Seq(Event) : p = Pending(bs, Sink)
        BY <1>0, FlowTypes
      <4>1. Orderly(Sink, s, p, unpacked)
        BY <1>0, <1>6, <2>s, <4>p, <4>s
      <4>2. Orderly(Sink, s, p \o <<FakeEvent>>, unpacked)
        BY <4>1, OrderlyFake
      <4> QED
        BY <2>7, <2>x, <3>1, <4>2, <4>p, <4>s
    <3>2. CASE q # Sink
      BY <1>6, <2>d, <3>2
    <3> QED
      BY <3>1, <3>2
  <2>9. FlowOf(C, K, R)'
    BY <1>1, <1>2, <1>5, <1>7, <1>r, <2>6, <2>8 DEF FlowOf
  <2> QED
    BY <1>8, <2>9 DEF Flow
<1> QED
  BY <1>10, <1>9, <1>e DEF HandlesEvents, HandlesState

LEMMA FlowStep ==
  ASSUME Typed, Flow, [Next]_vars
  PROVE  Flow'
<1>1. CASE PumpTest
  <2>1. UNCHANGED <<unpacked, todo, batch, outbox, events, sinkq, hist>>
    BY <1>1 DEF PumpTest, dataVars
  <2>2. pump'.got = pump.got /\ pump'.from = pump.from /\ pump'.pc # "fatal"
    BY <1>1 DEF PumpTest, Typed
  <2> QED
    BY <2>1, <2>2, FlowStays
<1>2. ASSUME NEW w \in Workers, WorkerExit(w)
      PROVE  Flow'
  <2>1. UNCHANGED <<unpacked, todo, batch, outbox, events, sinkq, hist, pump>>
    BY <1>2 DEF WorkerExit, dataVars, sinkVars
  <2>2. pump'.pc # "fatal"
    BY <2>1 DEF Flow
  <2> QED
    BY <2>1, <2>2, FlowStays
<1>3. CASE UNCHANGED vars
  <2>1. UNCHANGED <<unpacked, todo, batch, outbox, events, sinkq, hist, pump>>
    BY <1>3 DEF vars, dataVars, sinkVars
  <2>2. pump'.pc # "fatal"
    BY <2>1 DEF Flow
  <2> QED
    BY <2>1, <2>2, FlowStays
<1> QED
  BY <1>1, <1>2, <1>3, RootStateChangeFlow, RootExitFlow, DealFlow, HistogramEventsFlow,
     WorkerStateChangeFlow, SendMessageFlow, PumpReceiveFlow, StatePumpReceiveFlow,
     ReceiveExitFlow, HandleEventFlow
     DEF Next, WorkerMain, Pump

LEMMA FlowInvariant == Spec => []Flow
<1>1. TypedInv /\ Flow /\ [Next]_vars => Flow'
  BY FlowStep DEF TypedInv
<1> QED
  BY <1>1, FlowInit, TypedInvariant, PTL DEF Spec


---------------------------------------------------------------------------
(* What follows for the batches and for the events given to the pipeline   *)

\* What EventPumpThread holds of a batch
LEMMA GotFits ==
  ASSUME NEW bs \in Seq(Seq(Event)), NEW g \in Seq(Message), NEW s \in Seq(Message),
         Len(g) < NumMessages, g \o s = Sent(bs), g # <<>>, NEW k \in 1 .. Len(g)
  PROVE  g[k].kind = BatchKinds[k] /\ Len(g[k].data) = RoomFor(SubSeq(g, 1, k - 1))
<1>n. PICK n \in Nat : n = Len(g) /\ n < 5
  BY DEF NumMessages
<1>0. /\ k \in Nat /\ k - 1 \in Nat /\ k - 1 <= n /\ k \in 1 .. 5 /\ k \in 1 .. n
      /\ \A j \in 1 .. k - 1 : j \in 1 .. n
  BY <1>n
<1>1. bs # <<>> /\ \A j \in 1 .. n : g[j] = BatchMessages(Head(bs))[j]
  <2>1. Len(g) <= NumMessages
    BY <1>n DEF NumMessages
  <2> QED
    BY <1>n, <2>1, GotIs, Zenon
<1>b. PICK b \in Seq(Event) : b = Head(bs)
  BY <1>1, SentFirst
<1>f. PICK f \in Seq(Message) : f = SubSeq(g, 1, k - 1)
  <2>1. SubSeq(g, 1, k - 1) \in Seq(Message)
    BY <1>0, <1>n, SubSeqProperties
  <2> QED
    BY <2>1
<1>2. Len(f) = k - 1 /\ \A j \in 1 .. k - 1 : f[j] = g[j]
  BY <1>0, <1>f, <1>n, SubSeqProperties
<1>3. FirstOf(f, BatchMessages(b), k)
  BY <1>0, <1>1, <1>2, <1>b DEF FirstOf
<1>4. k \in 1 .. NumMessages
  BY <1>0 DEF NumMessages
<1>5. BatchMessages(b)[k].kind = BatchKinds[k] /\ Len(BatchMessages(b)[k].data) = RoomFor(f)
  <2>1. \A c \in Seq(Event), i \in 1 .. NumMessages :
          FirstOf(f, BatchMessages(c), i) =>
            BatchMessages(c)[i].kind = BatchKinds[i] /\ Len(BatchMessages(c)[i].data) = RoomFor(f)
    BY MessagesFit
  <2> QED
    BY <1>3, <1>4, <2>1, Zenon
<1>6. g[k] = BatchMessages(b)[k]
  BY <1>0, <1>1, <1>b
<1> QED
  BY <1>5, <1>6, <1>f

LEMMA FlowIsWhole ==
  ASSUME Typed, Flow
  PROVE  BatchesWhole
<1>f. PICK B \in [Processes -> Seq(Seq(Event))], H \in Seq(Event), Q \in Seq(Seq(Event)) : FlowOf(B, H, Q)
  BY DEF Flow
<1>p. PICK p \in Processes : p = pump.from
  BY DEF Typed
<1>b. PICK bs \in Seq(Seq(Event)) : bs = B[p]
  OBVIOUS
<1>g. PICK g \in Seq(Message) : g = pump.got
  BY DEF Typed
<1>e. PICK e \in Seq(Message) : e = events[p]
  BY FlowTypes
<1>o. PICK o \in Seq(Message) : o = EventPart(outbox[p])
  BY FlowTypes
<1>s. PICK s \in Seq(Message) : s = e \o o
  BY ConcatProperties
<1>1. g \o s = Sent(bs) /\ Len(g) < NumMessages /\ pump.pc \in Pc \ {"fatal"}
  <2>1. InFlight(B[p], Taken(p), events[p], outbox[p])
    BY <1>f DEF FlowOf
  <2>2. Taken(p) = g
    BY <1>g, <1>p DEF Taken
  <2> QED
    BY <1>b, <1>e, <1>g, <1>o, <1>s, <2>1, <2>2 DEF InFlight, Flow, Typed
<1>2. ASSUME NEW k \in DOMAIN g
      PROVE  g[k].kind = BatchKinds[k] /\ Len(g[k].data) = RoomFor(SubSeq(g, 1, k - 1))
  <2>1. k \in 1 .. Len(g) /\ g # <<>>
    OBVIOUS
  <2> QED
    BY <1>1, <2>1, GotFits, Zenon
<1>3. ASSUME e # <<>>
      PROVE  Head(e).kind = BatchKinds[Len(g) + 1]
  <2>1. g \o (e \o o) = Sent(bs)
    BY <1>1, <1>s
  <2>2. FitsNext(bs, g, e, o)
    BY <1>1, <1>3, <2>1, NextOfBatch, Zenon
  <2> QED
    BY <2>2 DEF FitsNext
<1> QED
  BY <1>1, <1>2, <1>3, <1>e, <1>g, <1>p DEF BatchesWhole

\* Five messages of one batch of one rank make a batch in EventPumpThread, and none is longer
\* than the MPI_Recv posted for it.  Nothing in the program marks where a batch ends: this rests
\* on the order in which MPI delivers the messages of a rank and on what each main thread
\* sends in one go, which is what Flow says of all that is on its way.
THEOREM BatchesReceivedWhole == Spec => []BatchesWhole
BY TypedInvariant, FlowInvariant, FlowIsWhole, PTL DEF TypedInv

\* The id of an event, from what the pipeline is given of it
IdOf(g) == IF g.params = <<>> THEN 0 ELSE g.params[1].value

LEMMA IdOfRebuilt ==
  ASSUME Typed, NEW x \in Event, Known(x, unpacked)
  PROVE  /\ IdOf(Rebuilt(x)) = x.id
         /\ x.id # 0 => x.id \in DOMAIN unpacked /\ x = unpacked[x.id] /\ x.worker \in Workers
<1>1. x.params \in Seq(Nat) /\ Rebuilt(x).params = Pairs(x)
  BY DEF Event, Rebuilt
<1>2. CASE x = FakeEvent
  <2>1. x.params = <<>> /\ x.id = 0
    BY <1>2 DEF FakeEvent
  <2>2. Pairs(x) = <<>>
    BY <2>1 DEF Pairs
  <2> QED
    BY <1>1, <2>1, <2>2 DEF IdOf
<1>3. CASE x.id \in DOMAIN unpacked /\ x = unpacked[x.id]
  <2>1. x.params # <<>> /\ x.worker \in Workers
    BY <1>3 DEF Typed, Dealt
  <2>2. 1 \in DOMAIN x.params
    BY <1>1, <2>1, EmptySeq
  <2>3. Pairs(x) # <<>> /\ Pairs(x)[1].value = x.id
    BY <2>2 DEF Pairs
  <2> QED
    BY <1>1, <1>3, <2>1, <2>3 DEF IdOf
<1> QED
  BY <1>2, <1>3 DEF Known

LEMMA GivenAre ==
  ASSUME Typed, NEW B \in [Processes -> Seq(Seq(Event))], NEW H \in Seq(Event), NEW Q \in Seq(Seq(Event)),
         FlowOf(B, H, Q)
  PROVE  /\ DOMAIN hist = 1 .. Len(H) /\ Rising(H)
         /\ \A k \in 1 .. Len(H) :
              /\ hist[k] = Rebuilt(H[k]) /\ HistIds[k] = H[k].id
              /\ H[k].id # 0 =>
                   H[k].id \in DOMAIN unpacked /\ H[k] = unpacked[H[k].id] /\ H[k].worker \in Workers
<1>f. PICK f \in Seq(Event) : f = FlattenSeq(Q)
  BY FlattenType
<1>s. PICK s \in Seq(Event) : s = H \o f
  BY ConcatProperties
<1>e. PICK e \in Seq(Event) : e = Pending(B[Sink], Sink)
  BY FlowTypes DEF Processes
<1>1. Orderly(Sink, s, e, unpacked) /\ hist = RebuiltAll(H)
  BY <1>e, <1>f, <1>s DEF FlowOf, Processes
<1>2. Rising(H)
  <2>1. Rising(s)
    BY <1>1, RisingConcat DEF Orderly
  <2> QED
    BY <1>s, <2>1, RisingConcat
<1>3. \A k \in 1 .. Len(H) : H[k] \in Event /\ Known(H[k], unpacked)
  <2>1. Range(s) = Range(H) \cup Range(f)
    BY <1>s, RangeConcat
  <2>2. \A k \in 1 .. Len(H) : H[k] \in Range(H) /\ H[k] \in Event
    BY RangeOf
  <2> QED
    BY <1>1, <2>1, <2>2 DEF Orderly
<1>4. DOMAIN hist = 1 .. Len(H) /\ \A k \in 1 .. Len(H) : hist[k] = Rebuilt(H[k])
  BY <1>1, RebuiltOf DEF RebuiltAll
<1>5. \A k \in 1 .. Len(H) : HistIds[k] = IdOf(hist[k])
  BY <1>4 DEF HistIds, IdOf
<1> QED
  BY <1>2, <1>3, <1>4, <1>5, IdOfRebuilt

LEMMA FlowIsRebuilt ==
  ASSUME Typed, Flow
  PROVE  EventsRebuilt /\ WorkerOrder
<1>f. PICK B \in [Processes -> Seq(Seq(Event))], H \in Seq(Event), Q \in Seq(Seq(Event)) : FlowOf(B, H, Q)
  BY DEF Flow
<1>g. /\ DOMAIN hist = 1 .. Len(H) /\ Rising(H)
      /\ \A k \in 1 .. Len(H) :
           /\ hist[k] = Rebuilt(H[k]) /\ HistIds[k] = H[k].id
           /\ H[k].id # 0 =>
                H[k].id \in DOMAIN unpacked /\ H[k] = unpacked[H[k].id] /\ H[k].worker \in Workers
  BY <1>f, GivenAre
<1>1. EventsRebuilt
  BY <1>g DEF EventsRebuilt, Rebuilt
<1>2. WorkerOrder
  <2> SUFFICES ASSUME NEW j \in DOMAIN hist, NEW k \in DOMAIN hist, j < k, HistIds[j] # 0, HistIds[k] # 0,
                      unpacked[HistIds[j]].worker = unpacked[HistIds[k]].worker
               PROVE  HistIds[j] < HistIds[k]
    BY DEF WorkerOrder
  <2>1. H[j].worker = H[k].worker /\ H[j].worker \in Workers
    BY <1>g
  <2>2. Before(H[j], H[k])
    BY <1>g DEF Rising
  <2> QED
    BY <1>g, <2>1, <2>2 DEF Before
<1> QED
  BY <1>1, <1>2

\* MPIReceiveEvent and reconstructVectors give the pipeline every event as its worker unpacked it:
\* all its parameters, all its vectors and nothing of another event, for any shapes of the
\* events of a batch and any mix of batches in the pump.
THEOREM EventsGivenAsUnpacked == Spec => []EventsRebuilt
BY TypedInvariant, FlowInvariant, FlowIsRebuilt, PTL DEF TypedInv

\* The events of one worker are given to the pipeline in the order in which it unpacked them, from
\* its batch through its messages, the pump and the Tcl event queue.
THEOREM WorkersKeepOrder == Spec => []WorkerOrder
BY TypedInvariant, FlowInvariant, FlowIsRebuilt, PTL DEF TypedInv


---------------------------------------------------------------------------
(* Where an event is.  Its parameters are in one message, and one entry of *)
(* the Tcl event queue, for each time it is in a batch.                    *)

Hits(s, M) == {k \in DOMAIN s : s[k] \in M}
Never(s, M) == Hits(s, M) = {}
Once(s, M) == \E k \in DOMAIN s : Hits(s, M) = {k}

\* t has members in C when s has members in M, and one when s has one.
Follows(s, M, t, C) == (Never(s, M) <=> Never(t, C)) /\ (Once(s, M) => Once(t, C))

LEMMA HitsConcat ==
  ASSUME NEW S, NEW s \in Seq(S), NEW t \in Seq(S), NEW M
  PROVE  /\ Never(s \o t, M) <=> Never(s, M) /\ Never(t, M)
         /\ Once(s \o t, M) <=> (Once(s, M) /\ Never(t, M)) \/ (Never(s, M) /\ Once(t, M))
<1>x. PICK x \in Seq(S) : x = s \o t
  BY ConcatProperties
<1>1. Parts(x, s, t)
  BY <1>x, ConcatAt, Zenon
<1>i. PICK i \in Nat : i = Len(s)
  OBVIOUS
<1>j. PICK j \in Nat : j = Len(t)
  OBVIOUS
<1>2. Len(x) = i + j /\ (\A k \in 1 .. i : x[k] = s[k]) /\ \A k \in 1 .. j : x[i + k] = t[k]
  BY <1>1, <1>i, <1>j DEF Parts
<1>d. DOMAIN x = 1 .. i + j /\ DOMAIN s = 1 .. i /\ DOMAIN t = 1 .. j
  BY <1>2, <1>i, <1>j
<1>3. \A k \in 1 .. i : k \in 1 .. i + j
  OBVIOUS
<1>4. \A k \in 1 .. j : i + k \in 1 .. i + j /\ i + k \notin 1 .. i
  OBVIOUS
<1>5. \A k \in 1 .. i + j : k \in 1 .. i \/ (k - i \in 1 .. j /\ i + (k - i) = k)
  OBVIOUS
<1>6. \A k \in 1 .. i : k \in Hits(x, M) <=> k \in Hits(s, M)
  BY <1>2, <1>3, <1>d DEF Hits
<1>7. \A k \in 1 .. j : i + k \in Hits(x, M) <=> k \in Hits(t, M)
  BY <1>2, <1>4, <1>d DEF Hits
<1>8. Hits(x, M) \subseteq 1 .. i + j /\ Hits(s, M) \subseteq 1 .. i /\ Hits(t, M) \subseteq 1 .. j
  BY <1>d DEF Hits
<1>9. Never(x, M) <=> Never(s, M) /\ Never(t, M)
  <2>1. ASSUME Never(x, M) PROVE Never(s, M) /\ Never(t, M)
    BY <1>6, <1>7, <1>8, <2>1 DEF Never
  <2>2. ASSUME Never(s, M), Never(t, M) PROVE Never(x, M)
    BY <1>5, <1>6, <1>7, <1>8, <2>2 DEF Never
  <2> QED
    BY <2>1, <2>2
<1>10. ASSUME Once(x, M)
       PROVE  (Once(s, M) /\ Never(t, M)) \/ (Never(s, M) /\ Once(t, M))
  <2>1. PICK k \in 1 .. i + j : Hits(x, M) = {k}
    BY <1>10, <1>d DEF Once
  <2>2. CASE k \in 1 .. i
    <3>1. Hits(s, M) = {k}
      BY <1>3, <1>6, <1>8, <2>1, <2>2
    <3>2. Hits(t, M) = {}
      BY <1>4, <1>7, <1>8, <2>1, <2>2
    <3> QED
      BY <1>d, <2>2, <3>1, <3>2 DEF Once, Never
  <2>3. CASE k - i \in 1 .. j /\ i + (k - i) = k
    <3>1. Hits(t, M) = {k - i}
      <4>1. k - i \in Hits(t, M)
        BY <1>7, <2>1, <2>3
      <4>2. \A l \in Hits(t, M) : l \in 1 .. j /\ i + l = k
        BY <1>7, <1>8, <2>1
      <4>3. \A l \in 1 .. j : i + l = k => l = k - i
        OBVIOUS
      <4> QED
        BY <4>1, <4>2, <4>3
    <3>2. Hits(s, M) = {}
      <4>1. \A l \in Hits(s, M) : l \in 1 .. i /\ l = k
        BY <1>6, <1>8, <2>1
      <4>2. k \notin 1 .. i
        BY <2>3
      <4> QED
        BY <4>1, <4>2
    <3> QED
      BY <1>d, <2>3, <3>1, <3>2 DEF Once, Never
  <2> QED
    BY <1>5, <2>2, <2>3
<1>11. ASSUME Once(s, M), Never(t, M)
       PROVE  Once(x, M)
  <2>1. PICK k \in 1 .. i : Hits(s, M) = {k}
    BY <1>11, <1>d DEF Once
  <2>2. Hits(x, M) = {k}
    <3>1. \A l \in Hits(x, M) : l \in 1 .. i => l = k
      BY <1>6, <2>1
    <3>2. \A l \in Hits(x, M) : ~(l - i \in 1 .. j /\ i + (l - i) = l)
      BY <1>7, <1>11 DEF Never
    <3>3. k \in Hits(x, M)
      BY <1>6, <2>1
    <3> QED
      BY <1>5, <1>8, <3>1, <3>2, <3>3
  <2> QED
    BY <1>3, <1>d, <2>2 DEF Once
<1>12. ASSUME Never(s, M), Once(t, M)
       PROVE  Once(x, M)
  <2>1. PICK k \in 1 .. j : Hits(t, M) = {k}
    BY <1>12, <1>d DEF Once
  <2>2. Hits(x, M) = {i + k}
    <3>1. \A l \in Hits(x, M) : l \notin 1 .. i
      BY <1>6, <1>12 DEF Never
    <3>2. \A l \in Hits(x, M) : (l - i \in 1 .. j /\ i + (l - i) = l) => l = i + k
      BY <1>7, <2>1
    <3>3. i + k \in Hits(x, M)
      BY <1>7, <2>1
    <3> QED
      BY <1>5, <1>8, <3>1, <3>2, <3>3
  <2> QED
    BY <1>4, <1>d, <2>2 DEF Once
<1> QED
  BY <1>9, <1>10, <1>11, <1>12, <1>x

LEMMA OnceIsHit ==
  ASSUME NEW s, NEW M, Once(s, M)
  PROVE  ~Never(s, M)
BY DEF Once, Never

LEMMA HitsOne ==
  ASSUME NEW S, NEW e \in S, NEW M
  PROVE  IF e \in M THEN Once(<<e>>, M) ELSE Never(<<e>>, M)
<1>1. DOMAIN <<e>> = {1} /\ <<e>>[1] = e
  OBVIOUS
<1>2. Hits(<<e>>, M) = IF e \in M THEN {1} ELSE {}
  BY <1>1 DEF Hits
<1> QED
  BY <1>1, <1>2 DEF Once, Never

LEMMA FollowsConcat ==
  ASSUME NEW S, NEW T, NEW s \in Seq(S), NEW x \in Seq(S), NEW t \in Seq(T), NEW y \in Seq(T), NEW M, NEW C,
         Follows(s, M, t, C), Follows(x, M, y, C)
  PROVE  Follows(s \o x, M, t \o y, C)
<1>1. /\ Never(s \o x, M) <=> Never(s, M) /\ Never(x, M)
      /\ Once(s \o x, M) <=> (Once(s, M) /\ Never(x, M)) \/ (Never(s, M) /\ Once(x, M))
  BY HitsConcat
<1>2. /\ Never(t \o y, C) <=> Never(t, C) /\ Never(y, C)
      /\ Once(t \o y, C) <=> (Once(t, C) /\ Never(y, C)) \/ (Never(t, C) /\ Once(y, C))
  BY HitsConcat
<1> QED
  BY <1>1, <1>2, Zenon DEF Follows


LEMMA HitsNone ==
  ASSUME NEW M
  PROVE  Never(<<>>, M) /\ ~Once(<<>>, M)
BY DEF Never, Once, Hits

\* The parts of a sequence that have a member in M
Holding(S, M) == {s \in Seq(S) : ~Never(s, M)}

LEMMA FlattenFollows ==
  ASSUME NEW S, NEW ss \in Seq(Seq(S)), NEW M
  PROVE  Follows(FlattenSeq(ss), M, ss, Holding(S, M))
<1> DEFINE P == {tt \in Seq(Seq(S)) : Follows(FlattenSeq(tt), M, tt, Holding(S, M))}
<1>1. <<>> \in P
  <2>1. FlattenSeq(<<>>) = <<>>
    BY DEF FlattenSeq
  <2>2. <<>> \in Seq(Seq(S))
    BY EmptySeq
  <2>3. Follows(<<>>, M, <<>>, Holding(S, M))
    BY HitsNone DEF Follows
  <2> QED
    BY <2>1, <2>2, <2>3
<1>2. \A tt \in Seq(Seq(S)), s \in Seq(S) : tt \in P => Append(tt, s) \in P
  <2> SUFFICES ASSUME NEW tt \in Seq(Seq(S)), NEW s \in Seq(S), tt \in P
               PROVE  Append(tt, s) \in P
    OBVIOUS
  <2>f. PICK f \in Seq(S) : f = FlattenSeq(tt)
    BY FlattenType
  <2>o. PICK o \in Seq(Seq(S)) : o = <<s>>
    <3>1. <<s>> \in Seq(Seq(S))
      BY OneMember
    <3> QED
      BY <3>1
  <2>1. Follows(f, M, tt, Holding(S, M))
    BY <2>f
  <2>2. Follows(s, M, o, Holding(S, M))
    <3>1. IF s \in Holding(S, M) THEN Once(o, Holding(S, M)) ELSE Never(o, Holding(S, M))
      BY <2>o, HitsOne
    <3>2. s \in Holding(S, M) <=> ~Never(s, M)
      BY DEF Holding
    <3>3. Once(s, M) => ~Never(s, M)
      BY OnceIsHit
    <3>4. Once(o, Holding(S, M)) => ~Never(o, Holding(S, M))
      BY OnceIsHit
    <3> QED
      BY <3>1, <3>2, <3>3, <3>4 DEF Follows
  <2>3. Follows(f \o s, M, tt \o o, Holding(S, M))
    BY <2>1, <2>2, FollowsConcat
  <2>4. FlattenSeq(Append(tt, s)) = f \o s
    BY <2>f, FlattenAppend
  <2>5. Append(tt, s) = tt \o o /\ Append(tt, s) \in Seq(Seq(S))
    BY <2>o, AppendIsConcat, AppendProperties
  <2> QED
    BY <2>3, <2>4, <2>5
<1>3. Seq(Seq(S)) \subseteq P
  <2> HIDE DEF P
  <2> QED BY <1>1, <1>2, SeqInduction
<1> QED
  BY <1>3

\* The events with parameters that are event i, the messages that carry parameters of event i
\* and the entries of the Tcl event queue whose batch has it
WithId(i) == {x \in Event : x.id = i /\ x.params # <<>>}
Carriers(i) == {m \in Message : m.kind = "params" /\ \E j \in DOMAIN m.data : m.data[j].value = i}
Batches(i) == {e \in Queued : e.kind = "events" /\ i \in Carried(e.data)}
Valued(i) == {x \in Pair : x.value = i}

LEMMA CarriedHits ==
  ASSUME NEW ms \in Seq(Message), NEW i
  PROVE  i \in Carried(ms) <=> ~Never(ms, Carriers(i))
<1>1. \A k \in DOMAIN ms : ms[k] \in Message
  OBVIOUS
<1>2. i \in Carried(ms) <=> \E k \in DOMAIN ms : ms[k].kind = "params" /\ \E j \in DOMAIN ms[k].data : ms[k].data[j].value = i
  BY DEF Carried
<1>3. ~Never(ms, Carriers(i)) <=> \E k \in DOMAIN ms : ms[k] \in Carriers(i)
  BY DEF Never, Hits
<1> QED
  BY <1>1, <1>2, <1>3 DEF Carriers

LEMMA PairsHold ==
  ASSUME NEW x \in Event, NEW i
  PROVE  Pairs(x) \in Holding(Pair, Valued(i)) <=> x \in WithId(i)
<1>1. Pairs(x) \in Seq(Pair) /\ x.params \in Seq(Nat)
  BY PairsLength DEF Event
<1>2. DOMAIN Pairs(x) = DOMAIN x.params /\ \A k \in DOMAIN x.params : Pairs(x)[k].value = x.id /\ Pairs(x)[k] \in Pair
  BY <1>1 DEF Pairs
<1>3. Pairs(x) \in Holding(Pair, Valued(i)) <=> \E k \in DOMAIN x.params : x.id = i
  BY <1>1, <1>2 DEF Holding, Never, Hits, Valued
<1>4. DOMAIN x.params = {} <=> x.params = <<>>
  <2>p. PICK p \in Seq(Nat) : p = x.params
    BY <1>1
  <2>n. PICK n \in Nat : n = Len(p)
    OBVIOUS
  <2>0. 1 .. n = {} <=> n = 0
    OBVIOUS
  <2>1. DOMAIN p = 1 .. n /\ (p = <<>> <=> n = 0)
    BY <2>n, EmptySeq
  <2> QED
    BY <2>0, <2>1, <2>p
<1> QED
  BY <1>3, <1>4 DEF WithId

\* The parameters of an event are in one message of its batch.
LEMMA BatchFollows ==
  ASSUME NEW b \in Seq(Event), NEW i
  PROVE  Follows(b, WithId(i), BatchMessages(b), Carriers(i))
<1>m. PICK m \in Seq(Message) : m = BatchMessages(b) /\ DOMAIN m = 1 .. 5
  BY MessagesType DEF NumMessages
<1>d. PICK d \in Seq(Pair) : d = FlattenSeq(PairsOf(b))
  BY BatchParts, FlattenType
<1>1. /\ m[1].kind = "count" /\ m[2].kind = "sizes" /\ m[3].kind = "params" /\ m[4].kind = "names" /\ m[5].kind = "maps"
      /\ m[3].data = d
  <2>1. MessagesOf(m, b)
    BY <1>m, MessagesAre
  <2> QED
    BY <1>d, <2>1 DEF MessagesOf
<1>2. m[3] \in Carriers(i) <=> ~Never(b, WithId(i))
  <2>1. m[3] \in Carriers(i) <=> ~Never(d, Valued(i))
    <3>1. \A j \in DOMAIN d : d[j] \in Pair
      OBVIOUS
    <3>2. ~Never(d, Valued(i)) <=> \E j \in DOMAIN d : d[j].value = i
      BY <3>1 DEF Never, Hits, Valued
    <3>3. m[3] \in Message
      <4>1. \A k \in DOMAIN m : m[k] \in Message
        OBVIOUS
      <4>2. 3 \in DOMAIN m
        BY <1>m
      <4> QED
        BY <4>1, <4>2
    <3> QED
      BY <1>1, <3>2, <3>3 DEF Carriers
  <2>2. Never(d, Valued(i)) <=> Never(PairsOf(b), Holding(Pair, Valued(i)))
    BY <1>d, BatchParts, FlattenFollows DEF Follows
  <2>3. Hits(PairsOf(b), Holding(Pair, Valued(i))) = Hits(b, WithId(i))
    <3>1. DOMAIN PairsOf(b) = DOMAIN b /\ \A k \in DOMAIN b : b[k] \in Event /\ PairsOf(b)[k] = Pairs(b[k])
      BY BatchParts DEF PairsOf
    <3> QED
      BY <3>1, PairsHold DEF Hits
  <2> QED
    BY <2>1, <2>2, <2>3 DEF Never
<1>3. Hits(m, Carriers(i)) = IF Never(b, WithId(i)) THEN {} ELSE {3}
  <2>1. \A k \in 1 .. 5 : k # 3 => m[k].kind # "params"
    BY <1>1
  <2>2. \A k \in Hits(m, Carriers(i)) : k = 3
    BY <1>m, <2>1 DEF Hits, Carriers
  <2>3. 3 \in Hits(m, Carriers(i)) <=> m[3] \in Carriers(i)
    BY <1>m DEF Hits
  <2> QED
    BY <1>2, <2>2, <2>3
<1>4. Never(b, WithId(i)) <=> Never(m, Carriers(i))
  BY <1>3 DEF Never
<1>5. ~Never(b, WithId(i)) => Once(m, Carriers(i))
  BY <1>3, <1>m DEF Once
<1> QED
  BY <1>4, <1>5, <1>m, OnceIsHit DEF Follows

LEMMA SentFollows ==
  ASSUME NEW bs \in Seq(Seq(Event)), NEW i
  PROVE  Follows(FlattenSeq(bs), WithId(i), Sent(bs), Carriers(i))
<1> DEFINE P == {cs \in Seq(Seq(Event)) : Follows(FlattenSeq(cs), WithId(i), Sent(cs), Carriers(i))}
<1>1. <<>> \in P
  <2>1. FlattenSeq(<<>>) = <<>> /\ Sent(<<>>) = <<>>
    BY SentNone DEF FlattenSeq
  <2>2. <<>> \in Seq(Seq(Event))
    BY EmptySeq
  <2>3. Follows(<<>>, WithId(i), <<>>, Carriers(i))
    BY HitsNone DEF Follows
  <2> QED
    BY <2>1, <2>2, <2>3
<1>2. \A cs \in Seq(Seq(Event)), b \in Seq(Event) : cs \in P => Append(cs, b) \in P
  <2> SUFFICES ASSUME NEW cs \in Seq(Seq(Event)), NEW b \in Seq(Event), cs \in P
               PROVE  Append(cs, b) \in P
    OBVIOUS
  <2>f. PICK f \in Seq(Event) : f = FlattenSeq(cs)
    BY FlattenType
  <2>s. PICK s \in Seq(Message) : s = Sent(cs)
    BY CodedParts
  <2>m. PICK m \in Seq(Message) : m = BatchMessages(b)
    BY MessagesType
  <2>1. Follows(f, WithId(i), s, Carriers(i)) /\ Follows(b, WithId(i), m, Carriers(i))
    BY <2>f, <2>s, <2>m, BatchFollows
  <2>2. Follows(f \o b, WithId(i), s \o m, Carriers(i))
    BY <2>1, FollowsConcat
  <2>3. FlattenSeq(Append(cs, b)) = f \o b /\ Sent(Append(cs, b)) = s \o m
    BY <2>f, <2>m, <2>s, FlattenAppend, SentAppend
  <2>4. Append(cs, b) \in Seq(Seq(Event))
    BY AppendProperties
  <2> QED
    BY <2>2, <2>3, <2>4
<1>3. Seq(Seq(Event)) \subseteq P
  <2> HIDE DEF P
  <2> QED BY <1>1, <1>2, SeqInduction
<1> QED
  BY <1>3

LEMMA QueueFollows ==
  ASSUME NEW qs \in Seq(Seq(Event)), NEW q \in Seq(Queued), QueueHolds(qs, q), NEW i
  PROVE  Follows(FlattenSeq(qs), WithId(i), q, Batches(i))
<1>1. Follows(FlattenSeq(qs), WithId(i), qs, Holding(Event, WithId(i)))
  BY FlattenFollows
<1>2. ASSUME NEW k \in DOMAIN q
      PROVE  q[k] \in Batches(i) <=> qs[k] \in Holding(Event, WithId(i))
  <2>0. k \in DOMAIN qs
    BY DEF QueueHolds
  <2>b. PICK b \in Seq(Event) : b = qs[k]
    BY <2>0
  <2>q. PICK e \in Queued : e = q[k]
    OBVIOUS
  <2>1. IF e.kind = "events" THEN e.data = BatchMessages(b) ELSE b = <<>>
    BY <2>b, <2>q DEF QueueHolds
  <2>2. CASE e.kind = "events"
    <3>1. BatchMessages(b) \in Seq(Message)
      BY MessagesType
    <3>2. i \in Carried(e.data) <=> ~Never(b, WithId(i))
      BY <2>1, <2>2, <3>1, BatchFollows, CarriedHits DEF Follows
    <3> QED
      BY <2>2, <2>b, <2>q, <3>2 DEF Batches, Holding
  <2>3. CASE e.kind # "events"
    <3>1. b = <<>>
      BY <2>1, <2>3
    <3> QED
      BY <2>3, <2>b, <2>q, <3>1, HitsNone DEF Batches, Holding
  <2> QED
    BY <2>2, <2>3
<1>3. DOMAIN q = DOMAIN qs
  BY DEF QueueHolds
<1>4. Hits(q, Batches(i)) = Hits(qs, Holding(Event, WithId(i)))
  BY <1>2, <1>3 DEF Hits
<1> QED
  BY <1>1, <1>3, <1>4 DEF Follows, Once, Never


\* Event i is once among the events given, queued and on their way from its worker.
LEMMA OnceInOrder ==
  ASSUME Typed, NEW i \in DOMAIN unpacked, NEW s \in Seq(Event), NEW e \in Seq(Event),
         Orderly(unpacked[i].worker, s, e, unpacked)
  PROVE  Once(s \o e, WithId(i))
<1>z. PICK z \in Seq(Event) : z = s \o e
  BY ConcatProperties
<1>1. Range(z) = Range(s) \cup Range(e)
  BY <1>z, RangeConcat
<1>d. DOMAIN z = 1 .. Len(z)
  OBVIOUS
<1>2. i # 0 /\ i \in Nat /\ unpacked[i].id = i /\ unpacked[i].worker \in Workers /\ unpacked[i].params # <<>>
      /\ unpacked[i] \in Event
  <2>1. unpacked \in Seq(Event) /\ Dealt(unpacked[i], i)
    BY DEF Typed
  <2>2. i \in 1 .. Len(unpacked)
    BY <2>1
  <2> QED
    BY <2>1, <2>2 DEF Dealt
<1>3. \A x \in Range(z) : Known(x, unpacked) /\ (x.id = i => x = unpacked[i])
  BY <1>1, <1>2 DEF Orderly, Known, FakeEvent
<1>4. PICK k \in 1 .. Len(z) : z[k].id = i
  <2>1. PICK x \in Range(z) : x.id = i
    BY <1>1 DEF Orderly
  <2> QED
    BY <2>1, RangeOf
<1>5. \A j \in 1 .. Len(z) : z[j] \in WithId(i) <=> z[j] = unpacked[i]
  <2> TAKE j \in 1 .. Len(z)
  <2>1. z[j] \in Range(z)
    BY RangeOf
  <2> QED
    BY <1>2, <1>3, <2>1 DEF WithId
<1>6. \A j \in 1 .. Len(z) : z[j] = unpacked[i] => j = k
  <2> SUFFICES ASSUME NEW j \in 1 .. Len(z), z[j] = unpacked[i], j # k
               PROVE  FALSE
    OBVIOUS
  <2>0. z[k] = unpacked[i]
    BY <1>3, <1>4, RangeOf
  <2>1. Before(z[j], z[k]) \/ Before(z[k], z[j])
    <3>1. Rising(z)
      BY <1>z DEF Orderly
    <3>2. j < k \/ k < j
      OBVIOUS
    <3> QED
      BY <1>d, <3>1, <3>2 DEF Rising
  <2>2. Before(unpacked[i], unpacked[i])
    BY <2>0, <2>1
  <2> QED
    BY <1>2, <2>2 DEF Before
<1>7. z[k] = unpacked[i]
  BY <1>3, <1>4, RangeOf
<1>8. Hits(z, WithId(i)) = {k}
  BY <1>5, <1>6, <1>7, <1>d DEF Hits
<1> QED
  BY <1>8, <1>d, <1>z DEF Once

\* It is not on its way from another process.
LEMMA NeverOfOther ==
  ASSUME Typed, NEW i \in DOMAIN unpacked, NEW q, q # unpacked[i].worker, NEW s \in Seq(Event), NEW e \in Seq(Event),
         Orderly(q, s, e, unpacked)
  PROVE  Never(e, WithId(i))
<1>1. i # 0
  BY DEF Typed
<1> SUFFICES ASSUME NEW k \in DOMAIN e, e[k].id = i
             PROVE  FALSE
  BY DEF Never, Hits, WithId
<1>2. e[k] \in Range(e)
  BY DEF Range
<1>3. e[k].worker = q /\ Known(e[k], unpacked)
  BY <1>2 DEF Orderly
<1>4. e[k] # FakeEvent
  BY <1>1 DEF FakeEvent
<1> QED
  BY <1>3, <1>4 DEF Known

\* What is sent of an outbox besides event messages carries no parameters.
LEMMA EventPartHits ==
  ASSUME NEW o \in Seq(Message), NEW i
  PROVE  Never(EventPart(o), Carriers(i)) <=> Never(o, Carriers(i))
<1>1. CASE o # <<>> /\ o[Len(o)].kind = "state"
  <2>n. PICK n \in Nat : n = Len(o) /\ n >= 1
    BY <1>1, EmptySeq
  <2>1. SubSeq(o, 1, n - 1) \in Seq(Message)
    BY <2>n, SubSeqProperties
  <2>e. PICK e \in Seq(Message) : e = SubSeq(o, 1, n - 1)
    BY <2>1
  <2>2. Len(e) = n - 1 /\ \A k \in 1 .. n - 1 : e[k] = o[k]
    BY <2>e, <2>n, SubSeqProperties
  <2>3. DOMAIN o = 1 .. n /\ DOMAIN e = 1 .. n - 1
    BY <2>2, <2>n
  <2>4. \A k \in 1 .. n : k = n \/ k \in 1 .. n - 1
    OBVIOUS
  <2>5. \A k \in 1 .. n - 1 : k \in 1 .. n
    OBVIOUS
  <2>6. o[n] \notin Carriers(i)
    BY <1>1, <2>n DEF Carriers
  <2>7. Hits(o, Carriers(i)) = Hits(e, Carriers(i))
    BY <2>2, <2>3, <2>4, <2>5, <2>6 DEF Hits
  <2> QED
    BY <1>1, <2>7, <2>e, <2>n DEF EventPart, Never
<1>2. CASE ~(o # <<>> /\ o[Len(o)].kind = "state")
  BY <1>2 DEF EventPart
<1> QED
  BY <1>1, <1>2

\* An event among known ones
LEMMA IdsHit ==
  ASSUME Typed, NEW i \in DOMAIN unpacked, NEW s \in Seq(Event), \A x \in Range(s) : Known(x, unpacked)
  PROVE  i \in Ids(s) <=> ~Never(s, WithId(i))
<1>1. i # 0 /\ unpacked[i].params # <<>>
  BY DEF Typed, Dealt
<1>2. ASSUME NEW k \in DOMAIN s
      PROVE  s[k].id = i <=> s[k] \in WithId(i)
  <2>1. s[k] \in Range(s) /\ s[k] \in Event
    BY DEF Range
  <2>2. Known(s[k], unpacked)
    BY <2>1
  <2>3. FakeEvent.id = 0
    BY DEF FakeEvent
  <2> QED
    BY <1>1, <2>1, <2>2, <2>3 DEF Known, WithId
<1> QED
  BY <1>2 DEF Ids, Never, Hits


\* The places of a worker that hold event i
PlaceNames == {"todo", "batch", "outbox", "events", "pump"}
HeldAt(w, i) == {x \in PlaceNames : i \in Places(w)[x]}

LEMMA PlacesAre ==
  ASSUME Typed, NEW B \in [Processes -> Seq(Seq(Event))], NEW H \in Seq(Event), NEW Q \in Seq(Seq(Event)),
         FlowOf(B, H, Q), NEW i \in DOMAIN unpacked, NEW w \in Workers
  PROVE  /\ "todo" \in HeldAt(w, i) <=> ~Never(todo[w], WithId(i))
         /\ "batch" \in HeldAt(w, i) <=> ~Never(batch[w], WithId(i))
         /\ "outbox" \in HeldAt(w, i) <=> ~Never(EventPart(outbox[w]), Carriers(i))
         /\ "events" \in HeldAt(w, i) <=> ~Never(events[w], Carriers(i))
         /\ "pump" \in HeldAt(w, i) <=> ~Never(Taken(w), Carriers(i))
<1>0. w \in Processes
  BY DEF Processes
<1>t. PICK t \in Seq(Event) : t = todo[w] /\ t = Todo(w)
  BY DEF Typed, Todo
<1>b. PICK b \in Seq(Event) : b = batch[w]
  BY <1>0 DEF Typed
<1>f. PICK f \in Seq(Event) : f = FlattenSeq(B[w])
  BY <1>0, FlattenType
<1>y. PICK y \in Seq(Event) : y = b \o t
  BY ConcatProperties
<1>x. PICK x \in Seq(Event) : x = f \o y
  BY ConcatProperties
<1>1. \A e \in Range(b) \cup Range(t) : Known(e, unpacked)
  <2>1. x = Pending(B[w], w)
    BY <1>b, <1>f, <1>t, <1>x, <1>y DEF Pending
  <2>2. Orderly(w, H \o FlattenSeq(Q), x, unpacked)
    BY <1>0, <2>1 DEF FlowOf
  <2>3. Range(y) = Range(b) \cup Range(t)
    BY <1>y, RangeConcat
  <2>4. Range(x) = Range(f) \cup Range(y)
    BY <1>x, RangeConcat
  <2> QED
    BY <2>2, <2>3, <2>4 DEF Orderly
<1>2. i \in Ids(todo[w]) <=> ~Never(todo[w], WithId(i))
  BY <1>1, <1>t, IdsHit
<1>3. i \in Ids(batch[w]) <=> ~Never(batch[w], WithId(i))
  BY <1>1, <1>b, IdsHit
<1>4. i \in Carried(outbox[w]) <=> ~Never(EventPart(outbox[w]), Carriers(i))
  <2>1. outbox[w] \in Seq(Message)
    BY <1>0, FlowTypes
  <2> QED
    BY <2>1, CarriedHits, EventPartHits
<1>5. i \in Carried(events[w]) <=> ~Never(events[w], Carriers(i))
  <2>1. events[w] \in Seq(Message)
    BY <1>0, FlowTypes
  <2> QED
    BY <2>1, CarriedHits
<1>6. i \in (IF pump.from = w THEN Carried(pump.got) ELSE {}) <=> ~Never(Taken(w), Carriers(i))
  <2>1. Taken(w) \in Seq(Message)
    BY <1>0, FlowTypes
  <2>2. CASE pump.from = w
    BY <2>1, <2>2, CarriedHits DEF Taken
  <2>3. CASE pump.from # w
    BY <2>3, HitsNone DEF Taken
  <2> QED
    BY <2>2, <2>3
<1>7. /\ Places(w)["todo"] = Ids(todo[w]) /\ Places(w)["batch"] = Ids(batch[w])
      /\ Places(w)["outbox"] = Carried(outbox[w]) /\ Places(w)["events"] = Carried(events[w])
      /\ Places(w)["pump"] = IF pump.from = w THEN Carried(pump.got) ELSE {}
  BY DEF Places
<1>8. \A n \in PlaceNames : n \in HeldAt(w, i) <=> i \in Places(w)[n]
  BY DEF HeldAt
<1>9. "todo" \in PlaceNames /\ "batch" \in PlaceNames /\ "outbox" \in PlaceNames /\ "events" \in PlaceNames
      /\ "pump" \in PlaceNames
  BY DEF PlaceNames
<1> QED
  BY <1>2, <1>3, <1>4, <1>5, <1>6, <1>7, <1>8, <1>9

LEMMA HeldIs ==
  ASSUME NEW w, NEW i, NEW x \in PlaceNames, x \in HeldAt(w, i), \A y \in PlaceNames : y # x => y \notin HeldAt(w, i)
  PROVE  \E y \in PlaceNames : HeldAt(w, i) = {y}
BY DEF HeldAt

\* What a worker holds of an event is what is on its way from it.
LEMMA HeldFollows ==
  ASSUME Typed, NEW B \in [Processes -> Seq(Seq(Event))], NEW H \in Seq(Event), NEW Q \in Seq(Seq(Event)),
         FlowOf(B, H, Q), NEW i \in DOMAIN unpacked, NEW w \in Workers
  PROVE  /\ Never(Pending(B[w], w), WithId(i)) => HeldAt(w, i) = {}
         /\ Once(Pending(B[w], w), WithId(i)) => \E x \in PlaceNames : HeldAt(w, i) = {x}
<1>0. w \in Processes
  BY DEF Processes
<1>t. PICK t \in Seq(Event) : t = todo[w] /\ t = Todo(w)
  BY DEF Typed, Todo
<1>b. PICK b \in Seq(Event) : b = batch[w]
  BY <1>0 DEF Typed
<1>c. PICK c \in Seq(Seq(Event)) : c = B[w]
  BY <1>0
<1>f. PICK f \in Seq(Event) : f = FlattenSeq(c)
  BY FlattenType
<1>y. PICK y \in Seq(Event) : y = b \o t
  BY ConcatProperties
<1>x. PICK x \in Seq(Event) : x = f \o y
  BY ConcatProperties
<1>g. PICK g \in Seq(Message) : g = Taken(w)
  BY <1>0, FlowTypes
<1>e. PICK e \in Seq(Message) : e = events[w]
  BY <1>0, FlowTypes
<1>o. PICK o \in Seq(Message) : o = EventPart(outbox[w])
  BY <1>0, FlowTypes
<1>z. PICK z \in Seq(Message) : z = e \o o
  BY ConcatProperties
<1>s. PICK s \in Seq(Message) : s = Sent(c) /\ s = g \o z
  <2>1. InFlight(B[w], Taken(w), events[w], outbox[w])
    BY <1>0 DEF FlowOf
  <2>2. g \o z = Sent(c)
    BY <1>c, <1>e, <1>g, <1>o, <1>z, <2>1 DEF InFlight
  <2>3. Sent(c) \in Seq(Message)
    BY CodedParts
  <2> QED
    BY <2>2, <2>3
<1> DEFINE M == WithId(i)
           C == Carriers(i)
<1>1. x = Pending(B[w], w)
  BY <1>b, <1>c, <1>f, <1>t, <1>x, <1>y DEF Pending
<1>2. Follows(f, M, s, C)
  BY <1>f, <1>s, SentFollows
<1>3. /\ "todo" \in HeldAt(w, i) <=> ~Never(t, M)
      /\ "batch" \in HeldAt(w, i) <=> ~Never(b, M)
      /\ "outbox" \in HeldAt(w, i) <=> ~Never(o, C)
      /\ "events" \in HeldAt(w, i) <=> ~Never(e, C)
      /\ "pump" \in HeldAt(w, i) <=> ~Never(g, C)
  BY <1>b, <1>e, <1>g, <1>o, <1>t, PlacesAre
<1> HIDE DEF M, C
<1>4. /\ Never(x, M) <=> Never(f, M) /\ Never(y, M)
      /\ Once(x, M) <=> (Once(f, M) /\ Never(y, M)) \/ (Never(f, M) /\ Once(y, M))
  BY <1>x, HitsConcat
<1>5. /\ Never(y, M) <=> Never(b, M) /\ Never(t, M)
      /\ Once(y, M) <=> (Once(b, M) /\ Never(t, M)) \/ (Never(b, M) /\ Once(t, M))
  BY <1>y, HitsConcat
<1>6. /\ Never(s, C) <=> Never(g, C) /\ Never(z, C)
      /\ Once(s, C) <=> (Once(g, C) /\ Never(z, C)) \/ (Never(g, C) /\ Once(z, C))
  BY <1>s, HitsConcat
<1>7. /\ Never(z, C) <=> Never(e, C) /\ Never(o, C)
      /\ Once(z, C) <=> (Once(e, C) /\ Never(o, C)) \/ (Never(e, C) /\ Once(o, C))
  BY <1>z, HitsConcat
<1>8. /\ Once(b, M) => ~Never(b, M)
      /\ Once(t, M) => ~Never(t, M)
      /\ Once(g, C) => ~Never(g, C)
      /\ Once(e, C) => ~Never(e, C)
      /\ Once(o, C) => ~Never(o, C)
  BY OnceIsHit
<1>9. \A n \in PlaceNames : n = "todo" \/ n = "batch" \/ n = "outbox" \/ n = "events" \/ n = "pump"
  BY DEF PlaceNames
<1>10. ASSUME Never(x, M)
       PROVE  HeldAt(w, i) = {}
  <2>1. Never(t, M) /\ Never(b, M) /\ Never(g, C) /\ Never(e, C) /\ Never(o, C)
    BY <1>2, <1>4, <1>5, <1>6, <1>7, <1>10, Zenon DEF Follows
  <2>2. \A n \in PlaceNames : n \notin HeldAt(w, i)
    BY <1>3, <1>9, <2>1
  <2> QED
    BY <2>2 DEF HeldAt
<1>11. ASSUME Once(x, M)
       PROVE  \E n \in PlaceNames : HeldAt(w, i) = {n}
  <2>1. \/ Once(f, M) /\ Never(b, M) /\ Never(t, M)
        \/ Never(f, M) /\ Once(b, M) /\ Never(t, M)
        \/ Never(f, M) /\ Never(b, M) /\ Once(t, M)
    BY <1>4, <1>5, <1>11, Zenon
  <2>2. Never(f, M) => Never(g, C) /\ Never(e, C) /\ Never(o, C)
    BY <1>2, <1>6, <1>7, Zenon DEF Follows
  <2>3. Once(f, M) => \/ Once(g, C) /\ Never(e, C) /\ Never(o, C)
                      \/ Never(g, C) /\ Once(e, C) /\ Never(o, C)
                      \/ Never(g, C) /\ Never(e, C) /\ Once(o, C)
    BY <1>2, <1>6, <1>7, Zenon DEF Follows
  <2>n. "todo" \in PlaceNames /\ "batch" \in PlaceNames /\ "outbox" \in PlaceNames /\ "events" \in PlaceNames
        /\ "pump" \in PlaceNames
    BY DEF PlaceNames
  <2>4. CASE Once(g, C) /\ Never(e, C) /\ Never(o, C) /\ Never(b, M) /\ Never(t, M)
    <3>1. "pump" \in HeldAt(w, i) /\ \A n \in PlaceNames : n # "pump" => n \notin HeldAt(w, i)
      BY <1>3, <1>8, <1>9, <2>4
    <3> QED
      BY <2>n, <3>1, HeldIs
  <2>5. CASE Never(g, C) /\ Once(e, C) /\ Never(o, C) /\ Never(b, M) /\ Never(t, M)
    <3>1. "events" \in HeldAt(w, i) /\ \A n \in PlaceNames : n # "events" => n \notin HeldAt(w, i)
      BY <1>3, <1>8, <1>9, <2>5
    <3> QED
      BY <2>n, <3>1, HeldIs
  <2>6. CASE Never(g, C) /\ Never(e, C) /\ Once(o, C) /\ Never(b, M) /\ Never(t, M)
    <3>1. "outbox" \in HeldAt(w, i) /\ \A n \in PlaceNames : n # "outbox" => n \notin HeldAt(w, i)
      BY <1>3, <1>8, <1>9, <2>6
    <3> QED
      BY <2>n, <3>1, HeldIs
  <2>7. CASE Never(g, C) /\ Never(e, C) /\ Never(o, C) /\ Once(b, M) /\ Never(t, M)
    <3>1. "batch" \in HeldAt(w, i) /\ \A n \in PlaceNames : n # "batch" => n \notin HeldAt(w, i)
      BY <1>3, <1>8, <1>9, <2>7
    <3> QED
      BY <2>n, <3>1, HeldIs
  <2>8. CASE Never(g, C) /\ Never(e, C) /\ Never(o, C) /\ Never(b, M) /\ Once(t, M)
    <3>1. "todo" \in HeldAt(w, i) /\ \A n \in PlaceNames : n # "todo" => n \notin HeldAt(w, i)
      BY <1>3, <1>8, <1>9, <2>8
    <3> QED
      BY <2>n, <3>1, HeldIs
  <2> QED
    BY <2>1, <2>2, <2>3, <2>4, <2>5, <2>6, <2>7, <2>8
<1> QED
  BY <1>1, <1>10, <1>11 DEF M


LEMMA FlowKeeps ==
  ASSUME Typed, Flow
  PROVE  EventsKept
<1>f. PICK B \in [Processes -> Seq(Seq(Event))], H \in Seq(Event), Q \in Seq(Seq(Event)) : FlowOf(B, H, Q)
  BY DEF Flow
<1> DEFINE where(i) == {p \in Workers \X {"todo", "batch", "outbox", "events", "pump"} : i \in Places(p[1])[p[2]]}
           queued(i) == {k \in DOMAIN sinkq : sinkq[k].kind = "events" /\ i \in Carried(sinkq[k].data)}
           given(i) == {k \in DOMAIN hist : HistIds[k] = i}
<1> SUFFICES ASSUME NEW i \in DOMAIN unpacked
             PROVE  /\ Cardinality(where(i)) + Cardinality(queued(i)) + Cardinality(given(i)) = 1
                    /\ \A p \in where(i) : p[1] = unpacked[i].worker
  BY DEF EventsKept
<1>w. PICK w \in Workers : w = unpacked[i].worker
  BY DEF Typed, Dealt
<1>0. w \in Processes
  BY DEF Processes
<1>h. PICK d \in Seq(Event) : d = FlattenSeq(Q)
  BY FlattenType
<1>s. PICK s \in Seq(Event) : s = H \o d
  BY ConcatProperties
<1>x. PICK x \in Seq(Event) : x = Pending(B[w], w)
  BY <1>0, FlowTypes
<1>1. Once(s \o x, WithId(i))
  <2>1. Orderly(w, s, x, unpacked)
    BY <1>0, <1>f, <1>h, <1>s, <1>x DEF FlowOf
  <2> QED
    BY <1>w, <2>1, OnceInOrder
<1>2. \A q \in Workers : q # w => HeldAt(q, i) = {}
  <2> SUFFICES ASSUME NEW q \in Workers, q # w
               PROVE  HeldAt(q, i) = {}
    OBVIOUS
  <2>0. q \in Processes
    BY DEF Processes
  <2>y. PICK y \in Seq(Event) : y = Pending(B[q], q)
    BY <2>0, FlowTypes
  <2>1. Orderly(q, s, y, unpacked)
    BY <1>f, <1>h, <1>s, <2>0, <2>y DEF FlowOf
  <2>2. Never(y, WithId(i))
    BY <1>w, <2>1, NeverOfOther
  <2> QED
    BY <1>f, <2>2, <2>y, HeldFollows
<1>3. \A p \in Workers \X {"todo", "batch", "outbox", "events", "pump"} : p \in where(i) <=> p[2] \in HeldAt(p[1], i)
  BY DEF HeldAt, PlaceNames
<1>4. \A p \in where(i) : p[1] = w /\ p[2] \in HeldAt(w, i)
  BY <1>2, <1>3
<1>5. HeldAt(w, i) = {} => where(i) = {}
  BY <1>4
<1>6. \A n \in PlaceNames : HeldAt(w, i) = {n} => where(i) = {<<w, n>>}
  <2> SUFFICES ASSUME NEW n \in PlaceNames, HeldAt(w, i) = {n}
               PROVE  where(i) = {<<w, n>>}
    OBVIOUS
  <2>1. <<w, n>> \in where(i)
    BY <1>3 DEF PlaceNames
  <2>2. \A p \in where(i) : p = <<w, n>>
    BY <1>4
  <2> QED
    BY <2>1, <2>2
<1>7. queued(i) = Hits(sinkq, Batches(i))
  <2>1. \A k \in DOMAIN sinkq : sinkq[k] \in Queued
    BY DEF Typed
  <2> QED
    BY <2>1 DEF Hits, Batches
<1>8. given(i) = Hits(H, WithId(i))
  <2>1. /\ DOMAIN hist = 1 .. Len(H)
        /\ \A k \in 1 .. Len(H) :
             /\ HistIds[k] = H[k].id
             /\ H[k].id # 0 => H[k].id \in DOMAIN unpacked /\ H[k] = unpacked[H[k].id]
    BY <1>f, GivenAre
  <2>2. DOMAIN H = 1 .. Len(H) /\ \A k \in 1 .. Len(H) : H[k] \in Event
    OBVIOUS
  <2>3. i # 0 /\ unpacked[i].params # <<>>
    BY DEF Typed, Dealt
  <2>4. \A k \in 1 .. Len(H) : HistIds[k] = i <=> H[k] \in WithId(i)
    BY <2>1, <2>2, <2>3 DEF WithId
  <2> QED
    BY <2>1, <2>2, <2>4 DEF Hits
<1>9. /\ Never(d, WithId(i)) => queued(i) = {}
      /\ Once(d, WithId(i)) => \E k : queued(i) = {k}
      /\ Never(H, WithId(i)) => given(i) = {}
      /\ Once(H, WithId(i)) => \E k : given(i) = {k}
      /\ Never(x, WithId(i)) => where(i) = {}
      /\ Once(x, WithId(i)) => \E p : where(i) = {p}
  <2>1. Follows(d, WithId(i), sinkq, Batches(i))
    BY <1>f, <1>h, QueueFollows DEF FlowOf, Typed
  <2>2. /\ Never(d, WithId(i)) => queued(i) = {}
        /\ Once(d, WithId(i)) => \E k : queued(i) = {k}
    BY <1>7, <2>1 DEF Follows, Never, Once
  <2>3. /\ Never(H, WithId(i)) => given(i) = {}
        /\ Once(H, WithId(i)) => \E k : given(i) = {k}
    BY <1>8 DEF Never, Once
  <2>4. /\ Never(x, WithId(i)) => HeldAt(w, i) = {}
        /\ Once(x, WithId(i)) => \E n \in PlaceNames : HeldAt(w, i) = {n}
    BY <1>f, <1>x, HeldFollows
  <2> QED
    BY <1>5, <1>6, <2>2, <2>3, <2>4
<1> HIDE DEF where, queued, given
<1>10. \/ Once(H, WithId(i)) /\ Never(d, WithId(i)) /\ Never(x, WithId(i))
       \/ Never(H, WithId(i)) /\ Once(d, WithId(i)) /\ Never(x, WithId(i))
       \/ Never(H, WithId(i)) /\ Never(d, WithId(i)) /\ Once(x, WithId(i))
  <2>1. (Once(s, WithId(i)) /\ Never(x, WithId(i))) \/ (Never(s, WithId(i)) /\ Once(x, WithId(i)))
    BY <1>1, HitsConcat
  <2>2. /\ Never(s, WithId(i)) <=> Never(H, WithId(i)) /\ Never(d, WithId(i))
        /\ Once(s, WithId(i)) <=> (Once(H, WithId(i)) /\ Never(d, WithId(i))) \/ (Never(H, WithId(i)) /\ Once(d, WithId(i)))
    BY <1>s, HitsConcat
  <2> QED
    BY <2>1, <2>2
<1>11. Cardinality({}) = 0 /\ \A k : Cardinality({k}) = 1
  BY FS_EmptySet, FS_Singleton
<1>12. Cardinality(where(i)) + Cardinality(queued(i)) + Cardinality(given(i)) = 1
  <2>1. CASE Once(H, WithId(i)) /\ Never(d, WithId(i)) /\ Never(x, WithId(i))
    <3>1. Cardinality(where(i)) = 0 /\ Cardinality(queued(i)) = 0 /\ Cardinality(given(i)) = 1
      BY <1>9, <1>11, <2>1
    <3> QED
      BY <3>1
  <2>2. CASE Never(H, WithId(i)) /\ Once(d, WithId(i)) /\ Never(x, WithId(i))
    <3>1. Cardinality(where(i)) = 0 /\ Cardinality(queued(i)) = 1 /\ Cardinality(given(i)) = 0
      BY <1>9, <1>11, <2>2
    <3> QED
      BY <3>1
  <2>3. CASE Never(H, WithId(i)) /\ Never(d, WithId(i)) /\ Once(x, WithId(i))
    <3>1. Cardinality(where(i)) = 1 /\ Cardinality(queued(i)) = 0 /\ Cardinality(given(i)) = 0
      BY <1>9, <1>11, <2>3
    <3> QED
      BY <3>1
  <2> QED
    BY <1>10, <2>1, <2>2, <2>3
<1> QED
  BY <1>4, <1>12, <1>w

\* No event is lost and none is histogrammed twice, whatever batches meet in the pump, however far
\* each of their five messages is and whether the user exits or not: each event is in exactly one
\* place of the worker it was dealt to, in one queued batch or once among the events given.
THEOREM EventsAreKept == Spec => []EventsKept
BY TypedInvariant, FlowInvariant, FlowKeeps, PTL DEF TypedInv
=============================================================================
