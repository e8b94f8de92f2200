----------------------- MODULE RingBufferDecoderProofs ----------------------
(***************************************************************************)
(* The ring buffer decoder dispatches the items of its sources, for every  *)
(* size of items, headers and buffers.                                     *)
(*                                                                         *)
(* The argument follows the bytes the decoder has still to handle: what it *)
(* holds and, behind it, what the source has not delivered.  They are      *)
(* whole items, which is said byte by byte: each byte is followed by the   *)
(* next one of its item, or by the first one of an item.                   *)
(***************************************************************************)
EXTENDS RingBufferDecoder, FlattenLemmas

---------------------------------------------------------------------------
(* Parts of sequences *)

LEMMA CutProperties ==
  ASSUME NEW S, NEW s \in Seq(S), NEW n \in 0 .. Len(s)
  PROVE  /\ SubSeq(s, 1, n) \in Seq(S) /\ Len(SubSeq(s, 1, n)) = n
         /\ \A i \in 1 .. n : SubSeq(s, 1, n)[i] = s[i]
         /\ Drop(s, n) \in Seq(S) /\ Len(Drop(s, n)) = Len(s) - n
         /\ \A i \in 1 .. Len(s) - n : Drop(s, n)[i] = s[n + i]
         /\ SubSeq(s, 1, n) \o Drop(s, n) = s
<1>1. \A i \in 1 .. Len(s) : s[i] \in S
  OBVIOUS
<1>2. /\ SubSeq(s, 1, n) \in Seq(S) /\ Len(SubSeq(s, 1, n)) = n
      /\ \A i \in 1 .. n : SubSeq(s, 1, n)[i] = s[i]
  BY <1>1, SubSeqProperties
<1>3. /\ Drop(s, n) \in Seq(S) /\ Len(Drop(s, n)) = Len(s) - n
      /\ \A i \in 1 .. Len(s) - n : Drop(s, n)[i] = s[n + i]
  BY <1>1, SubSeqProperties DEF Drop
<1> DEFINE u == SubSeq(s, 1, n)
           v == Drop(s, n)
<1> HIDE DEF u, v
<1>4. u \o v \in Seq(S) /\ Len(u \o v) = Len(s)
  BY <1>2, <1>3, ConcatProperties DEF u, v
<1>5. \A i \in 1 .. Len(s) : (u \o v)[i] = s[i]
  BY <1>2, <1>3, ConcatProperties DEF u, v
<1>6. u \o v = s
  BY <1>4, <1>5, SeqEqual
<1> QED
  BY <1>2, <1>3, <1>6 DEF u, v


LEMMA ConcatMiddle ==
  ASSUME NEW S, NEW a \in Seq(S), NEW b \in Seq(S), NEW c \in Seq(S), NEW d \in Seq(S)
  PROVE  Joined(Joined(a, b), Joined(c, d)) = Joined(Joined(a, Joined(b, c)), d)
<1> PICK ab \in Seq(S) : ab = a \o b
  BY ConcatProperties
<1>1. ab \o (c \o d) = (ab \o c) \o d
  <2>1. Regrouped(ab, c, d)
    BY Regroup, Zenon
  <2> QED
    BY <2>1 DEF Regrouped
<1>2. (a \o b) \o c = a \o (b \o c)
  <2>1. Regrouped(a, b, c)
    BY Regroup, Zenon
  <2> QED
    BY <2>1 DEF Regrouped
<1> QED
  BY <1>1, <1>2 DEF Joined

LEMMA DropOfConcat ==
  ASSUME NEW S, NEW s \in Seq(S), NEW t \in Seq(S), NEW n \in 0 .. Len(s)
  PROVE  /\ Drop(s \o t, n) = Drop(s, n) \o t
         /\ SubSeq(s \o t, 1, n) = SubSeq(s, 1, n)
<1> DEFINE w == s \o t
           u == Drop(s, n)
<1>1. /\ w \in Seq(S) /\ Len(w) = Len(s) + Len(t)
      /\ \A i \in 1 .. Len(s) : w[i] = s[i]
      /\ \A i \in 1 .. Len(t) : w[Len(s) + i] = t[i]
  BY ConcatProperties
<1>2. u \in Seq(S) /\ Len(u) = Len(s) - n /\ \A i \in 1 .. Len(s) - n : u[i] = s[n + i]
  BY CutProperties
<1> HIDE DEF w, u
<1>3. n \in 0 .. Len(w)
  BY <1>1
<1>4. /\ Drop(w, n) \in Seq(S) /\ Len(Drop(w, n)) = Len(w) - n
      /\ \A i \in 1 .. Len(w) - n : Drop(w, n)[i] = w[n + i]
  BY <1>1, <1>3, CutProperties
<1>5. /\ u \o t \in Seq(S) /\ Len(u \o t) = Len(w) - n
      /\ \A i \in 1 .. Len(w) - n : (u \o t)[i] = w[n + i]
  <2>1. /\ u \o t \in Seq(S) /\ Len(u \o t) = Len(u) + Len(t)
        /\ \A i \in 1 .. Len(u) + Len(t) :
             (u \o t)[i] = IF i <= Len(u) THEN u[i] ELSE t[i - Len(u)]
    BY <1>2, ConcatProperties
  <2>2. ASSUME NEW i \in 1 .. Len(w) - n
        PROVE  (u \o t)[i] = w[n + i]
    <3>1. CASE i <= Len(u)
      <4>1. n + i \in 1 .. Len(s) /\ i \in 1 .. Len(s) - n /\ i \in 1 .. Len(u) + Len(t)
        BY <1>1, <1>2, <3>1
      <4> QED
        BY <1>1, <1>2, <2>1, <3>1, <4>1
    <3>2. CASE ~(i <= Len(u))
      <4>1. PICK j \in 1 .. Len(t) : j = i - Len(u)
        <5>1. i - Len(u) \in 1 .. Len(t)
          BY <1>1, <1>2, <3>2
        <5> QED
          BY <5>1
      <4>2. n + i = Len(s) + j /\ i \in 1 .. Len(u) + Len(t)
        BY <1>1, <1>2, <4>1
      <4>3. (u \o t)[i] = t[j]
        BY <2>1, <3>2, <4>1, <4>2
      <4> QED
        BY <1>1, <4>2, <4>3
    <3> QED
      BY <3>1, <3>2
  <2> QED
    BY <1>1, <1>2, <2>1, <2>2
<1>6. Drop(w, n) = u \o t
  BY <1>4, <1>5, SeqEqual
<1>7. SubSeq(w, 1, n) = SubSeq(s, 1, n)
  <2>1. /\ SubSeq(w, 1, n) \in Seq(S) /\ Len(SubSeq(w, 1, n)) = n
        /\ \A i \in 1 .. n : SubSeq(w, 1, n)[i] = w[i]
    BY <1>1, <1>3, CutProperties
  <2>2. /\ SubSeq(s, 1, n) \in Seq(S) /\ Len(SubSeq(s, 1, n)) = n
        /\ \A i \in 1 .. n : SubSeq(s, 1, n)[i] = s[i]
    BY CutProperties
  <2>3. \A i \in 1 .. n : w[i] = s[i]
    BY <1>1
  <2> QED
    BY <2>1, <2>2, <2>3, SeqEqual
<1> QED
  BY <1>6, <1>7 DEF w, u

LEMMA DropBehind ==
  ASSUME NEW S, NEW s \in Seq(S), NEW t \in Seq(S), NEW n \in 0 .. Len(t)
  PROVE  Drop(s \o t, Len(s) + n) = Drop(t, n)
<1> DEFINE w == s \o t
<1>1. /\ w \in Seq(S) /\ Len(w) = Len(s) + Len(t)
      /\ \A i \in 1 .. Len(t) : w[Len(s) + i] = t[i]
  BY ConcatProperties
<1> HIDE DEF w
<1> PICK m \in Nat : m = Len(s) + n
  OBVIOUS
<1>2. m \in 0 .. Len(w) /\ Len(w) - m = Len(t) - n
  BY <1>1
<1>3. /\ Drop(w, m) \in Seq(S) /\ Len(Drop(w, m)) = Len(t) - n
      /\ \A i \in 1 .. Len(t) - n : Drop(w, m)[i] = w[m + i]
  <2>1. /\ Drop(w, m) \in Seq(S) /\ Len(Drop(w, m)) = Len(w) - m
        /\ \A i \in 1 .. Len(w) - m : Drop(w, m)[i] = w[m + i]
    BY <1>1, <1>2, CutProperties
  <2> QED
    BY <1>2, <2>1
<1>4. /\ Drop(t, n) \in Seq(S) /\ Len(Drop(t, n)) = Len(t) - n
      /\ \A i \in 1 .. Len(t) - n : Drop(t, n)[i] = t[n + i]
  BY CutProperties
<1>5. \A i \in 1 .. Len(t) - n : w[m + i] = t[n + i]
  <2> TAKE i \in 1 .. Len(t) - n
  <2>1. n + i \in 1 .. Len(t) /\ m + i = Len(s) + (n + i)
    OBVIOUS
  <2> QED
    BY <1>1, <2>1
<1>6. Drop(w, m) = Drop(t, n)
  <2>p. PICK p \in Seq(S) : p = Drop(w, m)
    BY <1>3
  <2>q. PICK q \in Seq(S) : q = Drop(t, n)
    BY <1>4
  <2>1. Len(p) = Len(q)
    BY <1>3, <1>4, <2>p, <2>q
  <2>2. \A i \in 1 .. Len(p) : p[i] = q[i]
    <3> TAKE i \in 1 .. Len(p)
    <3>1. i \in 1 .. Len(t) - n
      BY <1>3, <2>p
    <3>2. p[i] = w[m + i] /\ q[i] = t[n + i]
      BY <1>3, <1>4, <2>p, <2>q, <3>1
    <3> QED
      BY <1>5, <3>1, <3>2
  <2>3. p = q
    BY <2>1, <2>2, SeqEqual
  <2> QED
    BY <2>3, <2>p, <2>q
<1> QED
  BY <1>6 DEF w

---------------------------------------------------------------------------
(* Whole items *)

Item == [src : Nat, n : Nat, size : ItemSizes, order : Orders, format : BOOLEAN]
Byte == [item : Item, at : Nat]

\* What follows a byte: the next one of its item, or the first one of an item
Follows(b, c) ==
  IF b.at < b.item.size THEN c = [item |-> b.item, at |-> b.at + 1] ELSE c.at = 1
Chained(s) ==
  \A i \in 1 .. Len(s) : /\ s[i].at \in 1 .. s[i].item.size
                         /\ i < Len(s) => Follows(s[i], s[i + 1])
WholeItems(s) ==
  /\ Chained(s)
  /\ s # <<>> => s[1].at = 1 /\ s[Len(s)].at = s[Len(s)].item.size

USE HeaderAssumption

LEMMA ItemBytes ==
  ASSUME NEW S, NEW item \in Item, \A i \in 1 .. item.size : [item |-> item, at |-> i] \in S
  PROVE  /\ item.size \in Nat /\ item.size >= HeaderSize /\ item.size > 1
         /\ Bytes(item) \in Seq(S) /\ Len(Bytes(item)) = item.size
         /\ \A i \in 1 .. item.size : Bytes(item)[i] = [item |-> item, at |-> i]
         /\ Bytes(item) # <<>> /\ Bytes(item)[1] = [item |-> item, at |-> 1]
         /\ WholeItems(Bytes(item))
<1>1. item.size \in Nat /\ item.size >= HeaderSize /\ item.size > 1
  <2>1. item.size \in ItemSizes
    BY DEF Item
  <2>2. item.size \in Nat
    BY <2>1
  <2>3. item.size >= HeaderSize
    BY <2>1
  <2>4. HeaderSize \in Nat /\ HeaderSize > 1
    BY DEF HeaderAssumption
  <2> QED
    BY <2>2, <2>3, <2>4
<1>2. /\ Bytes(item) \in Seq(S) /\ Len(Bytes(item)) = item.size
      /\ \A i \in 1 .. item.size : Bytes(item)[i] = [item |-> item, at |-> i]
  BY <1>1 DEF Bytes
<1> DEFINE s == Bytes(item)
<1> HIDE DEF s
<1>3. s # <<>> /\ s[1] = [item |-> item, at |-> 1]
  BY <1>1, <1>2 DEF s
<1>4. s[Len(s)] = [item |-> item, at |-> item.size]
  BY <1>1, <1>2 DEF s
<1>5. Chained(s)
  <2> SUFFICES ASSUME NEW i \in 1 .. Len(s)
               PROVE  /\ s[i].at \in 1 .. s[i].item.size
                      /\ i < Len(s) => Follows(s[i], s[i + 1])
    BY DEF Chained
  <2>1. i \in 1 .. item.size /\ s[i] = [item |-> item, at |-> i]
    BY <1>2 DEF s
  <2>2. ASSUME i < Len(s)
        PROVE  s[i + 1] = [item |-> item, at |-> i + 1] /\ i < item.size
    BY <1>1, <1>2, <2>1, <2>2 DEF s
  <2> QED
    BY <2>1, <2>2 DEF Follows
<1> QED
  BY <1>1, <1>2, <1>3, <1>4, <1>5 DEF s, WholeItems


LEMMA WholeConcat ==
  ASSUME NEW s \in Seq(Byte), NEW t \in Seq(Byte), WholeItems(s), WholeItems(t)
  PROVE  WholeItems(s \o t)
<1>1. CASE s = <<>>
  BY <1>1, ConcatEmptySeq
<1>2. CASE t = <<>>
  BY <1>2, ConcatEmptySeq
<1>3. CASE s # <<>> /\ t # <<>>
  <2> DEFINE w == s \o t
  <2>1. /\ w \in Seq(Byte) /\ Len(w) = Len(s) + Len(t)
        /\ \A i \in 1 .. Len(s) : w[i] = s[i]
        /\ \A i \in 1 .. Len(t) : w[Len(s) + i] = t[i]
    BY ConcatProperties
  <2> HIDE DEF w
  <2> PICK m \in Nat \ {0} : m = Len(s)
    BY <1>3, EmptySeq
  <2> PICK n \in Nat \ {0} : n = Len(t)
    BY <1>3, EmptySeq
  <2>2. w[1] = s[1] /\ w[m] = s[m] /\ w[m + 1] = t[1] /\ w[m + n] = t[n]
    BY <2>1
  <2>3. /\ s[1].at = 1 /\ s[m].at = s[m].item.size
        /\ t[1].at = 1 /\ t[n].at = t[n].item.size
    BY <1>3 DEF WholeItems
  <2>4. ASSUME NEW i \in 1 .. m + n
        PROVE  /\ w[i].at \in 1 .. w[i].item.size
               /\ i < m + n => Follows(w[i], w[i + 1])
    <3>1. CASE i < m
      <4>1. i \in 1 .. m /\ i + 1 \in 1 .. m /\ i < Len(s) /\ w[i] = s[i] /\ w[i + 1] = s[i + 1]
        BY <2>1, <3>1
      <4> QED
        BY <4>1 DEF WholeItems, Chained
    <3>2. CASE i = m
      <4>1. s[m].at \in 1 .. s[m].item.size
        BY DEF WholeItems, Chained
      <4>2. s[m].at \in Nat /\ s[m].item.size \in Nat
        <5>1. s[m] \in Byte
          BY ElementOfSeq
        <5>2. s[m].item.size \in ItemSizes
          BY <5>1 DEF Byte, Item
        <5> QED
          BY <5>1, <5>2 DEF Byte
      <4>3. Follows(s[m], t[1])
        BY <2>3, <4>2 DEF Follows
      <4> QED
        BY <2>2, <3>2, <4>1, <4>3
    <3>3. CASE i > m
      <4>1. PICK j \in 1 .. n : i = m + j
        <5>1. i - m \in 1 .. n /\ i = m + (i - m)
          BY <3>3
        <5> QED
          BY <5>1
      <4>2. w[i] = t[j]
        BY <2>1, <4>1
      <4>3. i < m + n => j < n /\ w[i + 1] = t[j + 1]
        <5>1. i < m + n => j < n /\ i + 1 = m + (j + 1) /\ j + 1 \in 1 .. n
          BY <4>1
        <5> QED
          BY <2>1, <5>1
      <4>4. /\ t[j].at \in 1 .. t[j].item.size
            /\ j < n => Follows(t[j], t[j + 1])
        BY DEF WholeItems, Chained
      <4> QED
        BY <4>2, <4>3, <4>4
    <3> QED
      BY <3>1, <3>2, <3>3
  <2>5. Chained(w)
    BY <2>1, <2>4 DEF Chained
  <2>6. Len(w) = m + n
    BY <2>1
  <2>7. WholeItems(w)
    BY <2>2, <2>3, <2>5, <2>6 DEF WholeItems
  <2> QED
    BY <2>7 DEF w
<1> QED
  BY <1>1, <1>2, <1>3

\* The bytes of the first item come first.
LEMMA FirstItem ==
  ASSUME NEW s \in Seq(Byte), WholeItems(s), s # <<>>
  PROVE  /\ s[1].item \in Item /\ s[1].item.size \in Nat \ {0}
         /\ \A i \in 1 .. Len(s) : (i <= s[1].item.size) => s[i] = [item |-> s[1].item, at |-> i]
         /\ s[1].item.size <= Len(s)
<1> DEFINE item == s[1].item
<1> PICK n \in Nat \ {0} : n = Len(s)
  BY EmptySeq
<1>1. s[1] \in Byte /\ s[n] \in Byte
  BY ElementOfSeq
<1>2. item \in Item
  BY <1>1 DEF Byte
<1>3. item.size \in Nat
  <2>1. item.size \in ItemSizes
    BY <1>2 DEF Item
  <2> QED
    BY <2>1
<1> HIDE DEF item
<1>4. s[1] = [item |-> item, at |-> 1]
  <2>1. s[1] = [item |-> s[1].item, at |-> s[1].at]
    BY <1>1 DEF Byte
  <2> QED
    BY <2>1 DEF WholeItems, item
<1> DEFINE P == {i \in Nat : i + 1 \in 1 .. n /\ i + 1 <= item.size =>
                               s[i + 1] = [item |-> item, at |-> i + 1]}
<1>5. 0 \in P
  BY <1>4
<1>6. \A i \in Nat : i \in P => i + 1 \in P
  <2> SUFFICES ASSUME NEW i \in Nat, i \in P, i + 2 \in 1 .. n, i + 2 <= item.size
               PROVE  s[i + 2] = [item |-> item, at |-> i + 2]
    OBVIOUS
  <2>1. i + 1 \in 1 .. n /\ i + 1 < n /\ i + 1 < item.size /\ (i + 1) + 1 = i + 2
    BY <1>3
  <2>2. s[i + 1] = [item |-> item, at |-> i + 1]
    BY <2>1, <1>3
  <2> HIDE DEF P
  <2>3. Follows(s[i + 1], s[(i + 1) + 1])
    BY <2>1 DEF WholeItems, Chained
  <2>4. s[(i + 1) + 1] = [item |-> item, at |-> (i + 1) + 1]
    BY <2>1, <2>2, <2>3 DEF Follows
  <2> QED
    BY <2>1, <2>4
<1>7. Nat \subseteq P
  <2> HIDE DEF P
  <2> QED
    BY <1>5, <1>6, Induction
<1>8. \A i \in 1 .. n : (i <= item.size) => s[i] = [item |-> item, at |-> i]
  <2> TAKE i \in 1 .. n
  <2>1. i - 1 \in Nat /\ (i - 1) + 1 = i
    OBVIOUS
  <2> QED
    BY <1>7, <2>1
<1>9. item.size <= n
  <2> SUFFICES ASSUME n < item.size
               PROVE  FALSE
    BY <1>3
  <2>1. s[n] = [item |-> item, at |-> n]
    <3>1. n \in 1 .. n /\ n <= item.size
      BY <1>3
    <3> HIDE DEF P
    <3> QED
      BY <1>8, <3>1
  <2>2. s[n].at = s[n].item.size
    BY DEF WholeItems
  <2> QED
    BY <2>1, <2>2, <1>3
<1>10. item.size # 0
  <2>1. s[1].at \in 1 .. s[1].item.size
    BY DEF WholeItems, Chained
  <2> QED
    BY <2>1, <1>3 DEF item
<1> QED
  BY <1>2, <1>3, <1>8, <1>9, <1>10 DEF item


\* The first item, and the items behind it
LEMMA WholeCut ==
  ASSUME NEW s \in Seq(Byte), WholeItems(s), s # <<>>
  PROVE  /\ SubSeq(s, 1, s[1].item.size) = Bytes(s[1].item)
         /\ WholeItems(Drop(s, s[1].item.size))
<1> DEFINE item == s[1].item
<1> PICK n \in Nat \ {0} : n = Len(s)
  BY EmptySeq
<1>1. /\ item \in Item /\ item.size \in Nat \ {0} /\ item.size <= n
      /\ \A i \in 1 .. n : (i <= item.size) => s[i] = [item |-> item, at |-> i]
  BY FirstItem
<1> HIDE DEF item
<1> PICK k \in Nat \ {0} : k = item.size
  BY <1>1
<1>2. k \in 0 .. n
  BY <1>1
<1>3. /\ SubSeq(s, 1, k) \in Seq(Byte) /\ Len(SubSeq(s, 1, k)) = k
      /\ \A i \in 1 .. k : SubSeq(s, 1, k)[i] = s[i]
      /\ Drop(s, k) \in Seq(Byte) /\ Len(Drop(s, k)) = n - k
      /\ \A i \in 1 .. n - k : Drop(s, k)[i] = s[k + i]
  BY <1>2, CutProperties, SMTT(30)
<1>4. SubSeq(s, 1, k) = Bytes(item)
  <2>1. \A i \in 1 .. item.size : [item |-> item, at |-> i] \in Byte
    BY <1>1 DEF Byte
  <2>2. /\ Bytes(item) \in Seq(Byte) /\ Len(Bytes(item)) = k
        /\ \A i \in 1 .. k : Bytes(item)[i] = [item |-> item, at |-> i]
    BY <1>1, <2>1, ItemBytes
  <2>3. \A i \in 1 .. k : SubSeq(s, 1, k)[i] = Bytes(item)[i]
    <3>1. \A i \in 1 .. k : i \in 1 .. n /\ i <= item.size
      BY <1>2
    <3> QED
      BY <1>1, <1>3, <2>2, <3>1
  <2> QED
    BY <1>3, <2>2, <2>3, SeqEqual
<1> DEFINE u == Drop(s, k)
<1>5. u \in Seq(Byte) /\ Len(u) = n - k /\ \A i \in 1 .. n - k : u[i] = s[k + i]
  BY <1>3
<1> HIDE DEF u
<1>6. Chained(u)
  <2> SUFFICES ASSUME NEW i \in 1 .. n - k
               PROVE  /\ u[i].at \in 1 .. u[i].item.size
                      /\ i < n - k => Follows(u[i], u[i + 1])
    BY <1>5 DEF Chained
  <2>1. k + i \in 1 .. n /\ u[i] = s[k + i]
    BY <1>5
  <2>2. i < n - k => k + i < n /\ u[i + 1] = s[(k + i) + 1]
    <3>1. i < n - k => k + i < n /\ i + 1 \in 1 .. n - k /\ k + (i + 1) = (k + i) + 1
      OBVIOUS
    <3> QED
      BY <1>5, <3>1
  <2>3. /\ s[k + i].at \in 1 .. s[k + i].item.size
        /\ k + i < n => Follows(s[k + i], s[(k + i) + 1])
    BY <2>1 DEF WholeItems, Chained
  <2> QED
    BY <2>1, <2>2, <2>3
<1>7. ASSUME u # <<>>
      PROVE  u[1].at = 1 /\ u[Len(u)].at = u[Len(u)].item.size
  <2>1. Len(u) \in Nat \ {0}
    BY <1>5, <1>7, EmptySeq
  <2>2. /\ k \in 1 .. n /\ k + 1 \in 1 .. n /\ k < n
        /\ u[1] = s[k + 1] /\ u[Len(u)] = s[n]
    <3>1. Len(u) \in 1 .. n - k /\ 1 \in 1 .. n - k /\ k + Len(u) = n
      BY <1>5, <2>1
    <3>2. u[1] = s[k + 1] /\ u[Len(u)] = s[k + Len(u)]
      BY <1>5, <3>1
    <3>3. k \in 1 .. n /\ k + 1 \in 1 .. n /\ k < n
      BY <1>5, <2>1
    <3>4. u[Len(u)] = s[n]
      BY <3>1, <3>2
    <3> QED
      BY <3>2, <3>3, <3>4
  <2>3. Follows(s[k], s[k + 1])
    BY <2>2 DEF WholeItems, Chained
  <2>4. s[k] = [item |-> item, at |-> k]
    BY <1>1, <2>2
  <2>5. s[k + 1].at = 1
    BY <2>3, <2>4 DEF Follows
  <2> QED
    BY <2>2, <2>5 DEF WholeItems
<1> QED
  BY <1>4, <1>6, <1>7 DEF WholeItems, u, item

\* What a source delivers
BytesOf(src, order) == {b \in Byte : b.item.src = src /\ b.item.order = order}

LEMMA SourceBytes ==
  ASSUME NEW src \in Nat, NEW order \in Orders, NEW formatted \in BOOLEAN,
         NEW n \in Nat, NEW sizes \in [1 .. n -> ItemSizes]
  PROVE  LET items == Items(src, order, sizes, formatted)
             s == FlattenSeq([i \in 1 .. n |-> Bytes(items[i])])
         IN  s \in Seq(BytesOf(src, order)) /\ WholeItems(s)
<1> DEFINE items == Items(src, order, sizes, formatted)
           S == BytesOf(src, order)
           b(i) == Bytes(items[i])
<1>1. \A i \in 1 .. n : /\ items[i] \in Item
                        /\ items[i].src = src /\ items[i].order = order
  BY DEF Items, Item
<1> HIDE DEF items
<1>2. \A i \in 1 .. n : b(i) \in Seq(S) /\ b(i) \in Seq(Byte) /\ WholeItems(b(i))
  <2> TAKE i \in 1 .. n
  <2>1. items[i].size \in Nat
    <3>1. items[i].size \in ItemSizes
      BY <1>1 DEF Item
    <3> QED
      BY <3>1
  <2>2. \A k \in 1 .. items[i].size :
          [item |-> items[i], at |-> k] \in S /\ [item |-> items[i], at |-> k] \in Byte
    BY <1>1, <2>1 DEF BytesOf, Byte
  <2> HIDE DEF S
  <2> QED
    BY <1>1, <2>2, ItemBytes
<1> HIDE DEF b, S
<1> DEFINE f(m) == [i \in 1 .. m |-> b(i)]
           P == {m \in Nat : m <= n => WholeItems(FlattenSeq(f(m)))}
<1>3. \A m \in 0 .. n : f(m) \in Seq(Seq(S)) /\ f(m) \in Seq(Seq(Byte))
  <2> TAKE m \in 0 .. n
  <2>1. \A i \in 1 .. m : b(i) \in Seq(S) /\ b(i) \in Seq(Byte)
    BY <1>2
  <2> QED
    BY <2>1
<1>4. 0 \in P
  <2>1. f(0) = <<>>
    OBVIOUS
  <2>2. FlattenSeq(<<>>) = <<>>
    BY DEF FlattenSeq
  <2>3. WholeItems(<<>>)
    BY DEF WholeItems, Chained
  <2> HIDE DEF f
  <2> QED
    BY <2>1, <2>2, <2>3
<1>5. \A m \in Nat : m \in P => m + 1 \in P
  <2> SUFFICES ASSUME NEW m \in Nat, m + 1 <= n, WholeItems(FlattenSeq(f(m)))
               PROVE  WholeItems(FlattenSeq(f(m + 1)))
    OBVIOUS
  <2>1. m \in 0 .. n /\ m + 1 \in 1 .. n /\ m + 1 \in 0 .. n
    OBVIOUS
  <2>2. f(m + 1) = Append(f(m), b(m + 1))
    <3>1. f(m) \in Seq(Seq(Byte)) /\ Len(f(m)) = m /\ \A i \in 1 .. m : f(m)[i] = b(i)
      BY <1>3, <2>1
    <3>2. /\ f(m + 1) \in Seq(Seq(Byte)) /\ Len(f(m + 1)) = m + 1
          /\ \A i \in 1 .. m + 1 : f(m + 1)[i] = b(i)
      BY <1>3, <2>1
    <3>3. b(m + 1) \in Seq(Byte)
      BY <1>2, <2>1
    <3> PICK x \in Seq(Byte) : x = b(m + 1)
      BY <3>3
    <3> DEFINE v == f(m)
    <3> HIDE DEF f, v
    <3>4. v \in Seq(Seq(Byte)) /\ Len(v) = m /\ \A i \in 1 .. m : v[i] = b(i)
      BY <3>1 DEF v
    <3>5. /\ Append(v, x) \in Seq(Seq(Byte)) /\ Len(Append(v, x)) = m + 1
          /\ \A i \in 1 .. m + 1 : Append(v, x)[i] = b(i)
      <4>1. /\ Append(v, x) \in Seq(Seq(Byte)) /\ Len(Append(v, x)) = m + 1
            /\ \A i \in 1 .. m : Append(v, x)[i] = v[i]
            /\ Append(v, x)[m + 1] = x
        BY <3>4, AppendProperties
      <4>2. \A i \in 1 .. m + 1 : i \in 1 .. m \/ i = m + 1
        OBVIOUS
      <4> QED
        BY <3>4, <4>1, <4>2
    <3>6. f(m + 1) = Append(v, x)
      BY <3>2, <3>5, SeqEqual
    <3> QED
      BY <3>6 DEF v
  <2>3. f(m) \in Seq(Seq(Byte)) /\ b(m + 1) \in Seq(Byte) /\ WholeItems(b(m + 1))
    BY <1>2, <1>3, <2>1
  <2> HIDE DEF f
  <2>4. FlattenSeq(f(m + 1)) = FlattenSeq(f(m)) \o b(m + 1)
    BY <2>2, <2>3, FlattenAppend
  <2>5. FlattenSeq(f(m)) \in Seq(Byte)
    BY <2>3, FlattenType
  <2> QED
    BY <2>3, <2>4, <2>5, WholeConcat
<1>6. Nat \subseteq P
  <2> HIDE DEF P
  <2> QED
    BY <1>4, <1>5, Induction
<1>7. WholeItems(FlattenSeq(f(n)))
  BY <1>6
<1>8. FlattenSeq(f(n)) \in Seq(S)
  <2>1. f(n) \in Seq(Seq(S))
    BY <1>3
  <2> HIDE DEF f
  <2> QED
    BY <2>1, FlattenType
<1> QED
  BY <1>7, <1>8 DEF items, b, S


---------------------------------------------------------------------------
(* Types *)

\* The bytes of the first a sources
ByteTo(a) == {b \in Byte : b.item.src \in 1 .. a}
Dispatched(a) == [bytes : Seq(ByteTo(a)), helper : 0 .. a]

Typed ==
  /\ attached \in 0 .. MaxSources
  /\ unread \in Seq(ByteTo(attached)) /\ rest \in Seq(ByteTo(attached))
  /\ partial \in Seq(ByteTo(attached)) /\ glue \in Seq(ByteTo(attached))
  /\ partialSize \in Nat
  /\ translator \in Orders \union {NoTranslator}
  /\ helper \in 0 .. attached
  /\ exited \in BOOLEAN
  /\ input \in Seq(Byte)
  /\ dispatched \in Seq(Dispatched(attached))
  /\ damage \subseteq {"wrong order", "cut item"}

\* Nothing is left of a buffer that is appended to the partial event but does not
\* complete it.
Shape ==
  /\ partial # <<>> => HeaderSize < Len(partial) /\ Len(partial) < partialSize
  /\ partial = <<>> \/ glue = <<>>
  /\ rest # <<>> => partial = <<>>
  /\ rest = <<>> => Len(glue) <= HeaderSize
  /\ rest # <<>> /\ glue # <<>> => Len(rest) <= Len(glue)

\* A buffer that begins with an item, or with the rest of the glued buffer
BufferAlone(buf) ==
  /\ partial = <<>> /\ partial' = <<>>
  /\ rest' = glue \o buf
  /\ glue' = IF glue = <<>> THEN <<>> ELSE glue \o buf
  /\ UNCHANGED <<helper, dispatched>>
\* A buffer that ends in the middle of the partial event
PartialGrows(buf) ==
  /\ partial # <<>> /\ glue = <<>>
  /\ Len(partial) + Len(buf) < partialSize
  /\ partial' = partial \o buf /\ rest' = <<>> /\ glue' = <<>>
  /\ UNCHANGED <<helper, dispatched>>
\* A buffer that completes the partial event with its first n bytes
PartialEnds(buf, n) ==
  /\ partial # <<>> /\ glue = <<>>
  /\ Len(partial) + n = partialSize
  /\ DispatchEvent(partial \o SubSeq(buf, 1, n))
  /\ partial' = <<>> /\ rest' = Drop(buf, n) /\ glue' = <<>>

LEMMA ByteToBytes ==
  ASSUME NEW a \in Nat
  PROVE  ByteTo(a) \subseteq Byte /\ ByteTo(a) \subseteq ByteTo(a + 1)
BY DEF ByteTo

LEMMA OnBufferCases ==
  ASSUME Typed, Shape, OnBuffer
  PROVE  \E buf \in Seq(ByteTo(attached)) :
           /\ buf # <<>>
           /\ unread' \in Seq(ByteTo(attached)) /\ unread = buf \o unread'
           /\ input' = input \o buf
           /\ IF Held = <<>> THEN CreateTranslator(buf) ELSE UNCHANGED <<translator, damage>>
           /\ rest = <<>> /\ ~exited
           /\ UNCHANGED <<attached, exited, partialSize>>
           /\ \/ BufferAlone(buf) \/ PartialGrows(buf)
              \/ \E n \in 1 .. Len(buf) : PartialEnds(buf, n)
<1> DEFINE S == ByteTo(attached)
<1>1. /\ unread \in Seq(S) /\ partial \in Seq(S) /\ glue \in Seq(S) /\ partialSize \in Nat
      /\ partial # <<>> => Len(partial) < partialSize
      /\ partial = <<>> \/ glue = <<>>
  BY DEF Typed, Shape
<1>2. PICK n \in 1 .. Minimum(BufferSize, Len(unread)) :
        LET buf == SubSeq(unread, 1, n)
        IN  /\ unread' = Drop(unread, n)
            /\ input' = input \o buf
            /\ IF Held = <<>> THEN CreateTranslator(buf) ELSE UNCHANGED <<translator, damage>>
            /\ AppendBuffer(buf)
  BY DEF OnBuffer
<1>3. n \in 1 .. Len(unread) /\ n \in 0 .. Len(unread)
  <2>1. Minimum(BufferSize, Len(unread)) <= Len(unread) /\ Minimum(BufferSize, Len(unread)) \in Int
    BY <1>1 DEF Minimum
  <2> HIDE DEF S
  <2> QED
    BY <1>1, <2>1
<1> DEFINE buf == SubSeq(unread, 1, n)
<1>4. /\ buf \in Seq(S) /\ Len(buf) = n
      /\ Drop(unread, n) \in Seq(S) /\ buf \o Drop(unread, n) = unread
  BY <1>1, <1>3, CutProperties
<1>5. /\ unread' = Drop(unread, n)
      /\ input' = input \o buf
      /\ IF Held = <<>> THEN CreateTranslator(buf) ELSE UNCHANGED <<translator, damage>>
      /\ AppendBuffer(buf)
  BY <1>2
<1> HIDE DEF buf, S
<1>6. buf # <<>>
  BY <1>3, <1>4
<1>7. /\ rest = <<>> /\ ~exited /\ UNCHANGED <<attached, exited, partialSize>>
  BY <1>5 DEF OnBuffer, AppendBuffer
<1>8. CASE partial = <<>>
  <2>1. /\ SubSeq(buf, 1, 0) = <<>> /\ Drop(buf, 0) = buf /\ <<>> \o <<>> = <<>>
        /\ <<>> \o buf = buf
    <3>1. SubSeq(buf, 1, 0) = <<>>
      BY SubSeqEmpty
    <3>2. Drop(buf, 0) = buf
      BY <1>4, SubSeqFull DEF Drop
    <3>3. <<>> \o buf = buf /\ <<>> \o <<>> = <<>>
      BY <1>4, ConcatEmptySeq, EmptySeq
    <3> QED
      BY <3>1, <3>2, <3>3
  <2>2. BufferAlone(buf)
    BY <1>5, <1>8, <2>1 DEF AppendBuffer, BufferAlone
  <2> QED
    BY <1>4, <1>5, <1>6, <1>7, <2>2 DEF S
<1>9. CASE partial # <<>>
  <2> DEFINE append == AppendSize(buf)
  <2> PICK m \in Nat : m = Len(partial)
    BY <1>1
  <2>1. glue = <<>> /\ m < partialSize
    BY <1>1, <1>9
  <2>2. append \in 1 .. n /\ (append = n \/ m + append = partialSize) /\ m + append <= partialSize
    BY <1>1, <1>3, <1>4, <2>1 DEF AppendSize, Minimum
  <2> HIDE DEF append
  <2> DEFINE start == SubSeq(buf, 1, append)
             full == partial \o start
  <2>3. start \in Seq(S) /\ Len(start) = append
    <3>1. append \in 0 .. Len(buf)
      BY <1>3, <1>4, <2>2
    <3> QED
      BY <1>4, <3>1, CutProperties
  <2>4. Len(full) = m + append
    BY <1>1, <2>3, ConcatProperties
  <2> HIDE DEF start
  <2>5. /\ IF partialSize <= Len(full) THEN DispatchEvent(full) ELSE UNCHANGED <<helper, dispatched>>
        /\ partial' = IF partialSize <= Len(full) THEN <<>> ELSE full
        /\ rest' = Drop(buf, append) /\ glue' = <<>>
    BY <1>5, <1>9, <2>1 DEF AppendBuffer, append, start
  <2>6. CASE partialSize <= m + append
    <3>1. PartialEnds(buf, append)
      <4>1. m + append = partialSize
        BY <2>2, <2>6, <1>1
      <4>2. DispatchEvent(full) /\ partial' = <<>> /\ rest' = Drop(buf, append) /\ glue' = <<>>
        BY <2>4, <2>5, <2>6
      <4> QED
        BY <1>9, <2>1, <4>1, <4>2 DEF PartialEnds, start
    <3>2. append \in 1 .. Len(buf)
      BY <1>4, <2>2
    <3> QED
      BY <1>4, <1>5, <1>6, <1>7, <3>1, <3>2 DEF S
  <2>7. CASE ~(partialSize <= m + append)
    <3>1. append = n /\ m + n < partialSize
      BY <1>1, <1>3, <2>2, <2>7
    <3>2. start = buf /\ Drop(buf, append) = <<>>
      <4>1. start = buf
        BY <1>4, <3>1, SubSeqFull DEF start
      <4>2. Drop(buf, append) = <<>>
        BY <1>3, <1>4, <3>1, SubSeqEmpty DEF Drop
      <4> QED
        BY <4>1, <4>2
    <3>3. PartialGrows(buf)
      <4>1. /\ UNCHANGED <<helper, dispatched>> /\ partial' = partial \o buf
            /\ rest' = <<>> /\ glue' = <<>>
        BY <2>4, <2>5, <2>7, <3>2
      <4>2. Len(partial) + Len(buf) < partialSize
        BY <1>4, <3>1
      <4> QED
        BY <1>9, <2>1, <4>1, <4>2 DEF PartialGrows
    <3> QED
      BY <1>4, <1>5, <1>6, <1>7, <3>3 DEF S
  <2> QED
    BY <2>6, <2>7
<1> QED
  BY <1>8, <1>9


---------------------------------------------------------------------------
(* Dispatching *)

\* The bytes of dispatched items
BytesIn(ds) == [d \in DOMAIN ds |-> ds[d].bytes]

LEMMA BytesInType ==
  ASSUME NEW a \in Nat, NEW ds \in Seq(Dispatched(a))
  PROVE  BytesIn(ds) \in Seq(Seq(Byte)) /\ FlattenSeq(BytesIn(ds)) \in Seq(Byte)
<1> PICK n \in Nat : n = Len(ds)
  OBVIOUS
<1>1. \A d \in 1 .. n : ds[d].bytes \in Seq(Byte)
  <2> TAKE d \in 1 .. n
  <2>1. ds[d] \in Dispatched(a)
    BY ElementOfSeq
  <2>2. ds[d].bytes \in Seq(ByteTo(a))
    BY <2>1 DEF Dispatched
  <2> QED
    BY <2>2, ByteToBytes, SeqMonotonic
<1>2. DOMAIN ds = 1 .. n
  BY LenProperties
<1>3. BytesIn(ds) = [d \in 1 .. n |-> ds[d].bytes]
  BY <1>2 DEF BytesIn
<1> DEFINE b(d) == ds[d].bytes
<1>4. \A d \in 1 .. n : b(d) \in Seq(Byte)
  BY <1>1
<1> HIDE DEF b
<1>5. [d \in 1 .. n |-> b(d)] \in Seq(Seq(Byte))
  BY <1>4
<1>6. BytesIn(ds) \in Seq(Seq(Byte))
  BY <1>3, <1>5 DEF b
<1> QED
  BY <1>6, FlattenType

LEMMA BytesInAppend ==
  ASSUME NEW a \in Nat, NEW ds \in Seq(Dispatched(a)), NEW e \in Dispatched(a)
  PROVE  FlattenSeq(BytesIn(Append(ds, e))) = FlattenSeq(BytesIn(ds)) \o e.bytes
<1> PICK n \in Nat : n = Len(ds)
  OBVIOUS
<1> DEFINE es == Append(ds, e)
           v == BytesIn(ds)
           w == BytesIn(es)
<1>1. /\ es \in Seq(Dispatched(a)) /\ Len(es) = n + 1
      /\ \A d \in 1 .. n : es[d] = ds[d]
      /\ es[n + 1] = e
  BY AppendProperties
<1> HIDE DEF es
<1>2. v \in Seq(Seq(Byte)) /\ w \in Seq(Seq(Byte))
  BY <1>1, BytesInType
<1>3. e.bytes \in Seq(Byte)
  <2>1. e.bytes \in Seq(ByteTo(a))
    BY DEF Dispatched
  <2> QED
    BY <2>1, ByteToBytes, SeqMonotonic
<1>4. Len(v) = n /\ \A d \in 1 .. n : v[d] = ds[d].bytes
  <2>1. DOMAIN ds = 1 .. n
    BY LenProperties
  <2> QED
    BY <2>1 DEF BytesIn
<1>5. Len(w) = n + 1 /\ \A d \in 1 .. n + 1 : w[d] = es[d].bytes
  <2>1. DOMAIN es = 1 .. n + 1
    BY <1>1, LenProperties
  <2> QED
    BY <2>1 DEF BytesIn
<1> PICK x \in Seq(Byte) : x = e.bytes
  BY <1>3
<1> HIDE DEF v, w
<1>6. w = Append(v, x)
  <2>1. /\ Append(v, x) \in Seq(Seq(Byte)) /\ Len(Append(v, x)) = n + 1
        /\ \A d \in 1 .. n : Append(v, x)[d] = v[d]
        /\ Append(v, x)[n + 1] = x
    BY <1>2, <1>4, AppendProperties
  <2>2. \A d \in 1 .. n + 1 : w[d] = Append(v, x)[d]
    <3>1. \A d \in 1 .. n + 1 : d \in 1 .. n \/ d = n + 1
      OBVIOUS
    <3> TAKE d \in 1 .. n + 1
    <3>2. CASE d \in 1 .. n
      BY <1>1, <1>4, <1>5, <2>1, <3>2
    <3>3. CASE d = n + 1
      BY <1>1, <1>4, <1>5, <2>1, <3>3
    <3> QED
      BY <3>1, <3>2, <3>3
  <2> QED
    BY <1>2, <1>5, <2>1, <2>2, SeqEqual, SMTT(30)
<1>7. FlattenSeq(w) = FlattenSeq(v) \o x
  BY <1>2, <1>6, FlattenAppend
<1> QED
  BY <1>7 DEF v, w, es

LEMMA SourcesCounted ==
  ASSUME Typed
  PROVE  attached \in Nat
<1>1. attached \in 0 .. MaxSources
  BY DEF Typed
<1>2. MaxSources \in Nat
  BY DEF HeaderAssumption
<1> QED
  BY <1>1, <1>2

LEMMA DispatchTyped ==
  ASSUME Typed, NEW bytes \in Seq(ByteTo(attached)), DispatchEvent(bytes)
  PROVE  /\ helper' \in 0 .. attached
         /\ dispatched' \in Seq(Dispatched(attached))
         /\ FlattenSeq(BytesIn(dispatched')) = FlattenSeq(BytesIn(dispatched)) \o bytes
<1>1. attached \in Nat /\ helper \in 0 .. attached /\ dispatched \in Seq(Dispatched(attached))
  <2>1. attached \in Nat
    BY SourcesCounted
  <2>2. helper \in 0 .. attached /\ dispatched \in Seq(Dispatched(attached))
    BY DEF Typed
  <2> QED
    BY <2>1, <2>2
<1>2. helper' \in 0 .. attached
  <2>1. CASE ~IsFormat(bytes)
    BY <1>1, <2>1 DEF DispatchEvent
  <2>2. CASE IsFormat(bytes)
    <3>1. Len(bytes) >= HeaderSize /\ HeaderSize \in Nat /\ HeaderSize > 1
      BY <2>2 DEF IsFormat, StartsItem, HeaderAssumption
    <3>2. bytes[1] \in ByteTo(attached)
      BY <3>1, ElementOfSeq
    <3>3. bytes[1].item.src \in 1 .. attached
      BY <3>2 DEF ByteTo
    <3>4. helper' = bytes[1].item.src
      BY <2>2 DEF DispatchEvent
    <3> QED
      BY <1>1, <3>3, <3>4
  <2> QED
    BY <2>1, <2>2
<1> DEFINE e == [bytes |-> bytes, helper |-> helper']
<1>3. e \in Dispatched(attached) /\ e.bytes = bytes
  BY <1>2 DEF Dispatched
<1>4. dispatched' = Append(dispatched, e)
  BY DEF DispatchEvent
<1> HIDE DEF e
<1> QED
  BY <1>1, <1>2, <1>3, <1>4, AppendProperties, BytesInAppend

---------------------------------------------------------------------------
(* The bytes of the source *)

\* What the decoder still has, from its variables
Kept(r, p, g) == IF r = <<>> THEN p \o g ELSE p \o r

TypedInv ==
  /\ Typed /\ Shape
  /\ input = FlattenSeq(BytesIn(dispatched)) \o Kept(rest, partial, glue)

LEMMA KeptType ==
  ASSUME NEW S, NEW r \in Seq(S), NEW p \in Seq(S), NEW g \in Seq(S)
  PROVE  Kept(r, p, g) \in Seq(S)
BY ConcatProperties DEF Kept

LEMMA KeptOne ==
  ASSUME NEW S, NEW s \in Seq(S)
  PROVE  /\ Kept(s, <<>>, <<>>) = s
         /\ Kept(<<>>, s, <<>>) = s
         /\ Kept(<<>>, <<>>, s) = s
         /\ \A g : s # <<>> => Kept(s, <<>>, g) = s
<1>1. s \o <<>> = s /\ <<>> \o s = s
  BY ConcatEmptySeq
<1>2. Kept(<<>>, s, <<>>) = s \o <<>> /\ Kept(<<>>, <<>>, s) = <<>> \o s
  BY DEF Kept
<1>3. \A g : s # <<>> => Kept(s, <<>>, g) = <<>> \o s
  BY DEF Kept
<1> QED
  BY <1>1, <1>2, <1>3

LEMMA TypedStarts ==
  Init => TypedInv
<1> SUFFICES ASSUME Init PROVE TypedInv
  OBVIOUS
<1>1. Typed
  <2>1. \A S : <<>> \in Seq(S)
    BY EmptySeq
  <2>2. MaxSources \in Nat
    BY DEF HeaderAssumption
  <2>3. attached \in 0 .. MaxSources /\ helper \in 0 .. attached /\ partialSize \in Nat
    BY <2>2 DEF Init
  <2>4. /\ unread \in Seq(ByteTo(attached)) /\ rest \in Seq(ByteTo(attached))
        /\ partial \in Seq(ByteTo(attached)) /\ glue \in Seq(ByteTo(attached))
        /\ input \in Seq(Byte) /\ dispatched \in Seq(Dispatched(attached))
    BY <2>1 DEF Init
  <2>5. /\ translator \in Orders \union {NoTranslator} /\ exited \in BOOLEAN
        /\ damage \subseteq {"wrong order", "cut item"}
    BY DEF Init
  <2> QED
    BY <2>3, <2>4, <2>5 DEF Typed
<1>2. Shape
  BY EmptySeq DEF Init, Shape, HeaderAssumption
<1>3. input = FlattenSeq(BytesIn(dispatched)) \o Kept(rest, partial, glue)
  <2>1. BytesIn(<<>>) = <<>>
    BY DEF BytesIn
  <2>2. FlattenSeq(<<>>) = <<>>
    BY DEF FlattenSeq
  <2>3. <<>> \o <<>> = <<>>
    BY EmptySeq, ConcatEmptySeq
  <2> QED
    BY <2>1, <2>2, <2>3 DEF Init, Kept
<1> QED
  BY <1>1, <1>2, <1>3 DEF TypedInv


LEMMA TranslatorTyped ==
  ASSUME Typed, NEW buf \in Seq(ByteTo(attached)), buf # <<>>,
         IF Held = <<>> THEN CreateTranslator(buf) ELSE UNCHANGED <<translator, damage>>
  PROVE  /\ translator' \in Orders \union {NoTranslator}
         /\ damage' \subseteq {"wrong order", "cut item"}
<1>1. translator \in Orders \union {NoTranslator} /\ damage \subseteq {"wrong order", "cut item"}
  BY DEF Typed
<1>2. CASE Held # <<>>
  BY <1>1, <1>2
<1>3. CASE Held = <<>>
  <2>1. buf[1].item.order \in Orders
    <3>1. 1 \in 1 .. Len(buf)
      BY EmptySeq
    <3>2. buf[1] \in ByteTo(attached)
      BY <3>1, ElementOfSeq
    <3> QED
      BY <3>2 DEF ByteTo, Byte, Item
  <2>2. TypeOrders(buf) \subseteq Orders
    BY <2>1 DEF TypeOrders
  <2> QED
    BY <1>1, <1>3, <2>2 DEF CreateTranslator
<1> QED
  BY <1>2, <1>3

LEMMA OnBufferTyped ==
  ASSUME TypedInv, OnBuffer
  PROVE  TypedInv'
<1> DEFINE S == ByteTo(attached)
<1>1. Typed /\ Shape /\ attached \in Nat
  BY SourcesCounted DEF TypedInv
<1>2. PICK buf \in Seq(S) :
           /\ buf # <<>>
           /\ unread' \in Seq(S) /\ unread = buf \o unread'
           /\ input' = input \o buf
           /\ IF Held = <<>> THEN CreateTranslator(buf) ELSE UNCHANGED <<translator, damage>>
           /\ rest = <<>> /\ ~exited
           /\ UNCHANGED <<attached, exited, partialSize>>
           /\ \/ BufferAlone(buf) \/ PartialGrows(buf)
              \/ \E n \in 1 .. Len(buf) : PartialEnds(buf, n)
  BY <1>1, OnBufferCases
<1>3. /\ translator' \in Orders \union {NoTranslator}
      /\ damage' \subseteq {"wrong order", "cut item"}
  BY <1>1, <1>2, TranslatorTyped
<1>4. /\ partial \in Seq(S) /\ glue \in Seq(S) /\ partialSize \in Nat
      /\ helper \in 0 .. attached /\ dispatched \in Seq(Dispatched(attached))
      /\ attached \in 0 .. MaxSources /\ exited \in BOOLEAN /\ input \in Seq(Byte)
  BY <1>1 DEF Typed
<1>5. partial \in Seq(Byte) /\ glue \in Seq(Byte) /\ buf \in Seq(Byte)
  BY <1>1, <1>4, ByteToBytes, SeqMonotonic
<1>6. /\ Shape /\ input = FlattenSeq(BytesIn(dispatched)) \o Kept(<<>>, partial, glue)
      /\ FlattenSeq(BytesIn(dispatched)) \in Seq(Byte)
  BY <1>1, <1>2, <1>4, BytesInType DEF TypedInv
<1> DEFINE F == FlattenSeq(BytesIn(dispatched))
<1> HIDE DEF S, F
<1> SUFFICES /\ rest' \in Seq(S) /\ partial' \in Seq(S) /\ glue' \in Seq(S)
             /\ helper' \in 0 .. attached /\ dispatched' \in Seq(Dispatched(attached))
             /\ Shape'
             /\ F \o Kept(<<>>, partial, glue) \o buf
                  = FlattenSeq(BytesIn(dispatched')) \o Kept(rest', partial', glue')
  <2>1. input' \in Seq(Byte)
    BY <1>2, <1>4, <1>5, ConcatProperties
  <2> QED
    BY <1>2, <1>3, <1>4, <1>6, <2>1 DEF TypedInv, Typed, S, F
<1>7. CASE BufferAlone(buf)
  <2>1. glue \o buf \in Seq(S) /\ Len(glue \o buf) = Len(glue) + Len(buf)
    BY <1>2, <1>4, ConcatProperties
  <2>2. Len(buf) \in Nat \ {0} /\ Len(glue) \in Nat
    BY <1>2, <1>4, EmptySeq
  <2> PICK v \in Seq(S) : v = glue \o buf
    BY <2>1
  <2>3. v # <<>>
    BY <2>1, <2>2, EmptySeq
  <2>4. /\ rest' = v /\ partial' = <<>> /\ glue' \in {<<>>, v} /\ partial = <<>>
        /\ helper' = helper /\ dispatched' = dispatched
    BY <1>7 DEF BufferAlone
  <2>5. <<>> \in Seq(S)
    BY EmptySeq
  <2>6. Shape'
    <3>1. Len(v) <= Len(v)
      BY <2>1, <2>2
    <3> QED
      BY <2>3, <2>4, <3>1 DEF Shape
  <2>7. Kept(<<>>, partial, glue) = glue /\ Kept(rest', partial', glue') = v
    <3>1. Kept(<<>>, partial, glue) = glue
      BY <1>4, <2>4, KeptOne
    <3>2. \A g : Kept(v, <<>>, g) = v
      BY <2>3, KeptOne
    <3> QED
      BY <2>4, <3>1, <3>2
  <2>8. (F \o glue) \o buf = F \o (glue \o buf)
    BY <1>5, <1>6, ConcatAssociative DEF F
  <2> QED
    BY <1>4, <2>4, <2>5, <2>6, <2>7, <2>8 DEF F
<1>8. CASE PartialGrows(buf)
  <2>1. partial \o buf \in Seq(S) /\ Len(partial \o buf) = Len(partial) + Len(buf)
    BY <1>2, <1>4, ConcatProperties
  <2>2. /\ partial # <<>> /\ glue = <<>> /\ Len(partial) + Len(buf) < partialSize
        /\ partial' = partial \o buf /\ rest' = <<>> /\ glue' = <<>>
        /\ helper' = helper /\ dispatched' = dispatched
    BY <1>8 DEF PartialGrows
  <2>3. <<>> \in Seq(S) /\ Len(<<>>) = 0
    BY EmptySeq
  <2>4. HeaderSize < Len(partial \o buf) /\ Len(partial \o buf) < partialSize
    <3>1. Len(partial) \in Nat /\ Len(buf) \in Nat /\ HeaderSize \in Nat
      BY <1>4 DEF HeaderAssumption
    <3>2. HeaderSize < Len(partial)
      BY <1>6, <2>2 DEF Shape
    <3> QED
      BY <2>1, <2>2, <3>1, <3>2
  <2>5. Shape'
    <3>1. 0 <= HeaderSize
      BY DEF HeaderAssumption
    <3> QED
      BY <1>2, <2>2, <2>3, <2>4, <3>1 DEF Shape
  <2>6. Kept(<<>>, partial, glue) = partial /\ Kept(rest', partial', glue') = partial \o buf
    BY <1>4, <2>1, <2>2, KeptOne
  <2>7. (F \o partial) \o buf = F \o (partial \o buf)
    BY <1>5, <1>6, ConcatAssociative DEF F
  <2> QED
    BY <1>4, <2>1, <2>2, <2>3, <2>5, <2>6, <2>7 DEF F
<1>9. ASSUME NEW n \in 1 .. Len(buf), PartialEnds(buf, n)
      PROVE  /\ rest' \in Seq(S) /\ partial' \in Seq(S) /\ glue' \in Seq(S)
             /\ helper' \in 0 .. attached /\ dispatched' \in Seq(Dispatched(attached))
             /\ Shape'
             /\ F \o Kept(<<>>, partial, glue) \o buf
                  = FlattenSeq(BytesIn(dispatched')) \o Kept(rest', partial', glue')
  <2> DEFINE start == SubSeq(buf, 1, n)
             left == Drop(buf, n)
  <2>1. start \in Seq(S) /\ left \in Seq(S) /\ start \o left = buf
    BY <1>2, <1>9, CutProperties
  <2>2. start \in Seq(Byte) /\ left \in Seq(Byte)
    BY <1>5, <1>9, CutProperties
  <2>3. /\ DispatchEvent(partial \o start) /\ glue = <<>>
        /\ partial' = <<>> /\ rest' = left /\ glue' = <<>>
    BY <1>9 DEF PartialEnds
  <2> HIDE DEF start, left
  <2>4. partial \o start \in Seq(S)
    BY <1>4, <2>1, ConcatProperties
  <2>5. /\ helper' \in 0 .. attached /\ dispatched' \in Seq(Dispatched(attached))
        /\ FlattenSeq(BytesIn(dispatched')) = F \o (partial \o start)
    BY <1>1, <2>3, <2>4, DispatchTyped DEF S, F
  <2>6. <<>> \in Seq(S) /\ Len(<<>>) = 0 /\ 0 <= HeaderSize
    BY EmptySeq DEF HeaderAssumption
  <2>7. Shape'
    BY <2>3, <2>6 DEF Shape
  <2>8. Kept(<<>>, partial, glue) = partial /\ Kept(rest', partial', glue') = left
    <3>1. Kept(<<>>, partial, glue) = partial
      BY <1>4, <2>3, KeptOne
    <3>2. Kept(left, <<>>, <<>>) = left
      BY <2>1, KeptOne
    <3> QED
      BY <2>3, <3>1, <3>2
  <2>9. (F \o partial) \o buf = (F \o (partial \o start)) \o left
    <3>1. F \in Seq(Byte)
      BY <1>6 DEF F
    <3>2. (F \o partial) \o (start \o left) = (F \o (partial \o start)) \o left
      <4>1. Joined(Joined(F, partial), Joined(start, left))
              = Joined(Joined(F, Joined(partial, start)), left)
        BY <1>5, <2>2, <3>1, ConcatMiddle
      <4> QED
        BY <4>1 DEF Joined
    <3> QED
      BY <2>1, <3>2
  <2> QED
    BY <2>1, <2>3, <2>5, <2>6, <2>7, <2>8, <2>9
<1> QED
  BY <1>2, <1>7, <1>8, <1>9


LEMMA SizesType ==
  ASSUME NEW a \in Nat, rest \in Seq(ByteTo(a)), HasHeader
  PROVE  Sizes(rest) \subseteq Nat /\ Len(rest) \in Nat /\ Len(rest) > 1 /\ rest # <<>>
<1>1. HeaderSize \in Nat /\ HeaderSize > 1 /\ SwappedSize \in Nat /\ GarbageSizes \subseteq Nat
  BY DEF HeaderAssumption
<1>2. Len(rest) \in Nat /\ Len(rest) > 1
  BY <1>1 DEF HasHeader
<1>3. rest # <<>>
  BY <1>2, EmptySeq
<1>4. rest[1].item.size \in Nat
  <2>1. rest[1] \in ByteTo(a)
    BY <1>2, ElementOfSeq
  <2>2. rest[1].item.size \in ItemSizes
    BY <2>1 DEF ByteTo, Byte, Item
  <2> QED
    BY <2>2
<1> QED
  BY <1>1, <1>2, <1>3, <1>4 DEF Sizes

LEMMA DispatchFromBufferTyped ==
  ASSUME TypedInv, DispatchFromBuffer
  PROVE  TypedInv'
<1> DEFINE S == ByteTo(attached)
           F == FlattenSeq(BytesIn(dispatched))
<1>1. Typed /\ Shape /\ attached \in Nat
  BY SourcesCounted DEF TypedInv
<1>2. /\ rest \in Seq(S) /\ glue \in Seq(S) /\ dispatched \in Seq(Dispatched(attached))
  BY <1>1 DEF Typed
<1>3. Sizes(rest) \subseteq Nat /\ Len(rest) \in Nat /\ rest # <<>>
  <2>1. HasHeader
    BY DEF DispatchFromBuffer
  <2> QED
    BY <1>1, <1>2, <2>1, SizesType
<1>4. PICK size \in Sizes(rest) \ {0} :
           /\ Fits(size) /\ DispatchEvent(SubSeq(rest, 1, size)) /\ rest' = Drop(rest, size)
  BY DEF DispatchFromBuffer
<1>5. size \in 0 .. Len(rest) /\ size > 0
  BY <1>3, <1>4 DEF Fits
<1> DEFINE first == SubSeq(rest, 1, size)
           left == Drop(rest, size)
<1>6. first \in Seq(S) /\ left \in Seq(S) /\ first \o left = rest /\ Len(left) < Len(rest)
  BY <1>2, <1>5, CutProperties
<1>7. /\ DispatchEvent(first) /\ rest' = left /\ partial = <<>>
      /\ glue' = IF left = <<>> THEN <<>> ELSE glue
      /\ UNCHANGED <<attached, unread, partial, partialSize, translator, exited, input, damage>>
  BY <1>1, <1>3, <1>4 DEF DispatchFromBuffer, GlueLeft, Shape
<1> HIDE DEF first, left, S
<1>8. /\ helper' \in 0 .. attached /\ dispatched' \in Seq(Dispatched(attached))
      /\ FlattenSeq(BytesIn(dispatched')) = F \o first
  BY <1>1, <1>6, <1>7, DispatchTyped DEF S
<1>9. <<>> \in Seq(S) /\ Len(<<>>) = 0
  BY EmptySeq
<1>10. Typed'
  <2>1. rest' \in Seq(S) /\ glue' \in Seq(S)
    BY <1>2, <1>6, <1>7, <1>9
  <2> QED
    BY <1>1, <1>7, <1>8, <2>1 DEF Typed, S
<1>11. Shape'
  <2>1. Len(left) \in Nat /\ Len(glue) \in Nat
    BY <1>2, <1>6
  <2>2. glue # <<>> => Len(left) <= Len(glue)
    BY <1>1, <1>3, <1>6, <2>1 DEF Shape
  <2>3. 0 <= HeaderSize
    BY DEF HeaderAssumption
  <2> QED
    BY <1>7, <1>9, <2>2, <2>3 DEF Shape
<1>12. input' = FlattenSeq(BytesIn(dispatched')) \o Kept(rest', partial', glue')
  <2>1. Kept(rest, partial, glue) = rest
    BY <1>2, <1>3, <1>7, KeptOne
  <2>2. Kept(left, partial', glue') = left
    BY <1>6, <1>7, KeptOne
  <2>3. F \o rest = (F \o first) \o left
    <3>1. F \in Seq(Byte)
      BY <1>1, <1>2, BytesInType
    <3>2. first \in Seq(Byte) /\ left \in Seq(Byte)
      BY <1>1, <1>6, ByteToBytes, SeqMonotonic DEF S
    <3> HIDE DEF F
    <3>3. F \o (first \o left) = (F \o first) \o left
      <4>1. Regrouped(F, first, left)
        BY <3>1, <3>2, Regroup, Zenon
      <4> QED
        BY <4>1 DEF Regrouped
    <3> QED
      BY <1>6, <3>3
  <2>4. input = F \o rest /\ input' = input
    BY <1>7, <2>1 DEF TypedInv
  <2> QED
    BY <1>7, <1>8, <2>2, <2>3, <2>4
<1> QED
  BY <1>10, <1>11, <1>12 DEF TypedInv

LEMMA HoldTyped ==
  ASSUME TypedInv, CreatePartialEvent \/ ZeroSize \/ NewGluedBuffer
  PROVE  TypedInv'
<1> DEFINE S == ByteTo(attached)
<1>1. Typed /\ Shape /\ attached \in Nat
  BY SourcesCounted DEF TypedInv
<1>2. /\ rest \in Seq(S) /\ glue \in Seq(S)
  BY <1>1 DEF Typed
<1>3. <<>> \in Seq(S) /\ Len(<<>>) = 0
  BY EmptySeq
<1>4. HeaderSize \in Nat
  BY DEF HeaderAssumption
<1>5. CASE ZeroSize
  BY <1>5 DEF ZeroSize, TypedInv, Typed, Shape, bufferVars, history
<1>6. CASE CreatePartialEvent
  <2>1. Sizes(rest) \subseteq Nat /\ Len(rest) \in Nat /\ rest # <<>> /\ HeaderSize < Len(rest)
    BY <1>1, <1>2, <1>6, SizesType DEF CreatePartialEvent, HasHeader
  <2>2. PICK size \in Sizes(rest) \ {0} : ~Fits(size) /\ partialSize' = size
    BY <1>6 DEF CreatePartialEvent
  <2>3. /\ partial' = rest /\ rest' = <<>> /\ glue' = <<>> /\ partial = <<>>
        /\ UNCHANGED <<attached, unread, translator, helper, exited, input, dispatched, damage>>
    BY <1>1, <1>6, <2>1 DEF CreatePartialEvent, history, Shape
  <2>4. partialSize' \in Nat /\ Len(rest) < partialSize'
    BY <2>1, <2>2 DEF Fits
  <2> HIDE DEF S
  <2>5. Typed'
    BY <1>1, <1>2, <1>3, <2>3, <2>4 DEF Typed, S
  <2>6. Shape'
    BY <1>3, <1>4, <2>1, <2>3, <2>4 DEF Shape
  <2>7. Kept(rest, partial, glue) = rest /\ Kept(rest', partial', glue') = rest
    BY <1>2, <2>1, <2>3, KeptOne
  <2> QED
    BY <2>3, <2>5, <2>6, <2>7 DEF TypedInv
<1>7. CASE NewGluedBuffer
  <2>1. /\ rest # <<>> /\ glue' = rest /\ rest' = <<>> /\ partial = <<>>
        /\ UNCHANGED <<attached, unread, partial, partialSize, translator, helper, exited,
                       input, dispatched, damage>>
    BY <1>1, <1>7 DEF NewGluedBuffer, history, Shape
  <2>2. Len(rest) <= HeaderSize
    BY <1>2, <1>4, <1>7 DEF NewGluedBuffer, HasHeader
  <2> HIDE DEF S
  <2>3. Typed'
    BY <1>1, <1>2, <1>3, <2>1 DEF Typed, S
  <2>4. Shape'
    BY <2>1, <2>2 DEF Shape
  <2>5. Kept(rest, partial, glue) = rest /\ Kept(rest', partial', glue') = rest
    BY <1>2, <2>1, KeptOne
  <2> QED
    BY <2>1, <2>3, <2>4, <2>5 DEF TypedInv
<1> QED
  BY <1>5, <1>6, <1>7

LEMMA AttachCases ==
  ASSUME TypedInv, Attach
  PROVE  /\ attached' = attached + 1 /\ attached < MaxSources
         /\ \E order \in Orders :
              unread' \in Seq(BytesOf(attached', order)) /\ WholeItems(unread')
<1>1. attached' = attached + 1 /\ attached < MaxSources /\ attached \in Nat
  BY SourcesCounted DEF Attach, TypedInv
<1>2. PICK order \in Orders, formatted \in BOOLEAN, n \in 1 .. MaxItems :
           \E sizes \in [1 .. n -> ItemSizes] :
             unread' = FlattenSeq([i \in 1 .. n |->
                                     Bytes(Items(attached', order, sizes, formatted)[i])])
  BY DEF Attach
<1> PICK sizes \in [1 .. n -> ItemSizes] :
           unread' = FlattenSeq([i \in 1 .. n |->
                                   Bytes(Items(attached', order, sizes, formatted)[i])])
  BY <1>2
<1>3. n \in Nat /\ attached' \in Nat
  <2>1. MaxItems \in Nat
    BY DEF HeaderAssumption
  <2> QED
    BY <1>1, <2>1
<1>4. unread' \in Seq(BytesOf(attached', order)) /\ WholeItems(unread')
  BY <1>3, SourceBytes
<1> QED
  BY <1>1, <1>4

LEMMA AttachTyped ==
  ASSUME TypedInv, Attach
  PROVE  TypedInv'
<1>1. Typed /\ Shape /\ attached \in Nat /\ MaxSources \in Nat
  BY SourcesCounted DEF TypedInv, HeaderAssumption
<1>2. attached' = attached + 1 /\ attached < MaxSources /\ attached \in 0 .. MaxSources
  BY <1>1, AttachCases DEF Typed
<1>3. PICK order \in Orders : unread' \in Seq(BytesOf(attached', order))
  BY AttachCases
<1> DEFINE S == ByteTo(attached)
           T == ByteTo(attached + 1)
<1>4. unread' \in Seq(T)
  <2>1. BytesOf(attached + 1, order) \subseteq T
    BY <1>1 DEF BytesOf, ByteTo
  <2> HIDE DEF T
  <2> QED
    BY <1>2, <1>3, <2>1, SeqMonotonic
<1>5. S \subseteq T
  BY <1>1, ByteToBytes
<1>6. Dispatched(attached) \subseteq Dispatched(attached + 1)
  <2>1. Seq(S) \subseteq Seq(T)
    BY <1>5, SeqMonotonic
  <2>2. 0 .. attached \subseteq 0 .. attached + 1
    BY <1>1
  <2> HIDE DEF S, T
  <2> QED
    BY <2>1, <2>2 DEF Dispatched, S, T
<1>7. /\ rest = <<>> /\ rest' = <<>> /\ UNCHANGED exited /\ helper' = 0
      /\ \/ /\ UNCHANGED <<partial, partialSize, glue, translator, input, dispatched>>
            /\ damage' \subseteq damage \union {"cut item"}
         \/ /\ partial' = <<>> /\ partialSize' = 0 /\ glue' = <<>> /\ translator' = NoTranslator
            /\ input' = <<>> /\ dispatched' = <<>> /\ damage' = {}
  BY DEF Attach, KeepDecoder, NewDecoder, bufferVars, InvalidateCurrentHelper
<1>8. /\ partial \in Seq(S) /\ glue \in Seq(S) /\ partialSize \in Nat
      /\ translator \in Orders \union {NoTranslator} /\ exited \in BOOLEAN
      /\ input \in Seq(Byte) /\ dispatched \in Seq(Dispatched(attached))
      /\ damage \subseteq {"wrong order", "cut item"}
  BY <1>1 DEF Typed
<1>9. \A X : <<>> \in Seq(X)
  BY EmptySeq
<1>10. /\ partial \in Seq(T) /\ glue \in Seq(T)
       /\ dispatched \in Seq(Dispatched(attached + 1))
  BY <1>5, <1>6, <1>8, SeqMonotonic
<1> HIDE DEF T, S
<1>11. Typed'
  <2>1. attached' \in 0 .. MaxSources /\ helper' \in 0 .. attached'
    <3>1. attached + 1 \in 0 .. MaxSources /\ 0 \in 0 .. attached + 1
      BY <1>1, <1>2
    <3>2. helper' = 0
      BY <1>7
    <3> QED
      BY <1>2, <3>1, <3>2
  <2>2. /\ unread' \in Seq(ByteTo(attached')) /\ rest' \in Seq(ByteTo(attached'))
    BY <1>2, <1>4, <1>7, <1>9 DEF T
  <2>3. /\ partial' \in Seq(ByteTo(attached')) /\ glue' \in Seq(ByteTo(attached'))
        /\ dispatched' \in Seq(Dispatched(attached')) /\ input' \in Seq(Byte)
    BY <1>2, <1>7, <1>8, <1>9, <1>10 DEF T
  <2>4. /\ partialSize' \in Nat /\ translator' \in Orders \union {NoTranslator}
        /\ exited' \in BOOLEAN /\ damage' \subseteq {"wrong order", "cut item"}
    <3>1. CASE /\ UNCHANGED <<partial, partialSize, glue, translator, input, dispatched>>
               /\ damage' \subseteq damage \union {"cut item"}
      <4>1. partialSize' = partialSize /\ translator' = translator
        BY <3>1
      <4>2. damage' \subseteq {"wrong order", "cut item"}
        BY <1>8, <3>1
      <4> QED
        BY <1>7, <1>8, <4>1, <4>2
    <3>2. CASE partialSize' = 0 /\ translator' = NoTranslator /\ damage' = {}
      BY <1>7, <1>8, <3>2
    <3> QED
      BY <1>7, <3>1, <3>2
  <2> QED
    BY <2>1, <2>2, <2>3, <2>4 DEF Typed
<1>12. Shape'
  <2>1. Len(<<>>) = 0 /\ 0 <= HeaderSize
    BY EmptySeq DEF HeaderAssumption
  <2> QED
    BY <1>1, <1>7, <2>1 DEF Shape
<1>13. input' = FlattenSeq(BytesIn(dispatched')) \o Kept(rest', partial', glue')
  <2>1. CASE UNCHANGED <<partial, partialSize, glue, translator, input, dispatched>>
    BY <1>7, <2>1 DEF TypedInv
  <2>2. CASE /\ partial' = <<>> /\ partialSize' = 0 /\ glue' = <<>> /\ translator' = NoTranslator
             /\ input' = <<>> /\ dispatched' = <<>> /\ damage' = {}
    <3>1. BytesIn(<<>>) = <<>>
      BY DEF BytesIn
    <3>2. FlattenSeq(<<>>) = <<>>
      BY DEF FlattenSeq
    <3>3. <<>> \o <<>> = <<>>
      BY EmptySeq, ConcatEmptySeq
    <3> QED
      BY <1>7, <2>2, <3>1, <3>2, <3>3 DEF Kept
  <2> QED
    BY <1>7, <2>1, <2>2
<1> QED
  BY <1>11, <1>12, <1>13 DEF TypedInv


LEMMA TypedInvariant ==
  Spec => []TypedInv
<1>1. ASSUME TypedInv, [Next]_vars
      PROVE  TypedInv'
  <2>1. CASE UNCHANGED vars
    BY <1>1, <2>1 DEF vars, bufferVars, history, TypedInv, Typed, Shape
  <2>2. CASE OnBuffer
    BY <1>1, <2>2, OnBufferTyped
  <2>3. CASE ProcessBuffer
    BY <1>1, <2>3, DispatchFromBufferTyped, HoldTyped DEF ProcessBuffer
  <2>4. CASE Attach
    BY <1>1, <2>4, AttachTyped
  <2> QED
    BY <1>1, <2>1, <2>2, <2>3, <2>4 DEF Next
<1> QED
  BY TypedStarts, <1>1, PTL DEF Spec

\* An event waits only for bytes that are missing, never beside a glued buffer, and
\* between buffers the glued buffer is no longer than a header (processBuffer,
\* createPartialEvent).
THEOREM DecoderTypesCorrect ==
  Spec => []TypeOK
<1>1. TypedInv => TypeOK
  BY DEF TypedInv, Typed, Shape, TypeOK
<1> QED
  BY TypedInvariant, <1>1, PTL

\* The decoder drops, doubles and reorders no byte, whatever the bytes are taken to
\* mean: what it dispatched and what it still has is what it was given (processBuffer,
\* dispatchEvent).
THEOREM DecoderKeepsBytes ==
  Spec => []BytesKept
<1>1. TypedInv => BytesKept
  BY DEF TypedInv, BytesKept, BytesIn, Kept, Held
<1> QED
  BY TypedInvariant, <1>1, PTL

---------------------------------------------------------------------------
(* Whole items *)

\* Dispatched items are whole and were parsed with the format of their source.
Parsed(ds) ==
  \A d \in 1 .. Len(ds) :
    /\ ds[d].bytes # <<>>
    /\ ds[d].bytes[1].item \in Item
    /\ ds[d].bytes = Bytes(ds[d].bytes[1].item)
Declares(e, src) == e.bytes[1].item.src = src /\ e.bytes[1].item.format
Helped(ds) ==
  \A d \in 1 .. Len(ds) :
    ds[d].helper = IF \E f \in 1 .. d : Declares(ds[f], ds[d].bytes[1].item.src)
                   THEN ds[d].bytes[1].item.src ELSE 0
HelperIs(ds, h, a) ==
  h = IF \E f \in 1 .. Len(ds) : Declares(ds[f], a) THEN a ELSE 0

Pending(r, p, g, u) == Kept(r, p, g) \o u

\* While nothing has put the decoder out of step: what it has still to handle is
\* whole items of the attached source, in a byte order it knows once it has a
\* byte of them.
InStep ==
  /\ ~exited
  /\ WholeItems(Pending(rest, partial, glue, unread))
  /\ \E order \in Orders \union {NoTranslator} :
       /\ Pending(rest, partial, glue, unread) \in Seq(BytesOf(attached, order))
       /\ Kept(rest, partial, glue) # <<>> => translator = order
  /\ partial # <<>> => partialSize = partial[1].item.size
  /\ Parsed(dispatched) /\ Helped(dispatched)
  /\ HelperIs(dispatched, helper, attached)
DecoderInv == TypedInv /\ (damage = {} => InStep)

LEMMA DispatchItem ==
  ASSUME Typed, Parsed(dispatched), Helped(dispatched), HelperIs(dispatched, helper, attached),
         NEW item \in Item, item.src = attached, item.order = translator,
         DispatchEvent(Bytes(item))
  PROVE  /\ Parsed(dispatched') /\ Helped(dispatched')
         /\ HelperIs(dispatched', helper', attached)
<1>1. attached \in Nat /\ dispatched \in Seq(Dispatched(attached)) /\ helper \in 0 .. attached
  <2>1. attached \in Nat
    BY SourcesCounted
  <2> QED
    BY <2>1 DEF Typed
<1> DEFINE bytes == Bytes(item)
           e == [bytes |-> bytes, helper |-> helper']
<1>2. /\ bytes # <<>> /\ bytes[1] = [item |-> item, at |-> 1] /\ bytes \in Seq(Byte)
      /\ Len(bytes) = item.size /\ item.size >= HeaderSize /\ item.size \in Nat
      /\ \A i \in 1 .. item.size : bytes[i] = [item |-> item, at |-> i]
  <2>1. item.size \in Nat
    <3>1. item.size \in ItemSizes
      BY DEF Item
    <3> QED
      BY <3>1
  <2>2. \A i \in 1 .. item.size : [item |-> item, at |-> i] \in Byte
    BY <2>1 DEF Byte
  <2> QED
    BY <2>2, ItemBytes
<1> HIDE DEF bytes
<1>3. bytes[1].item = item
  BY <1>2
<1>4. IsFormat(bytes) <=> item.format
  <2>1. StartsItem(bytes, HeaderSize)
    <3>1. HeaderSize \in Nat
      BY DEF HeaderAssumption
    <3>2. \A i \in 1 .. HeaderSize : i \in 1 .. item.size
      BY <1>2, <3>1
    <3> QED
      BY <1>2, <1>3, <3>2 DEF StartsItem
  <2> QED
    BY <1>3, <2>1 DEF IsFormat
<1>5. helper' = IF item.format THEN attached ELSE helper
  BY <1>3, <1>4 DEF DispatchEvent, bytes
<1>6. helper' \in 0 .. attached
  BY <1>1, <1>5
<1>7. dispatched' = Append(dispatched, e)
  BY DEF DispatchEvent, bytes
<1>8. e.bytes = bytes /\ e.helper = helper'
  OBVIOUS
<1> HIDE DEF e
<1> PICK n \in Nat : n = Len(dispatched)
  BY <1>1
<1> DEFINE ds == dispatched
           es == dispatched'
<1>9. Len(es) = n + 1 /\ es[n + 1] = e /\ \A d \in 1 .. n : es[d] = ds[d]
  BY <1>7
<1>10. \A d \in 1 .. n + 1 : d \in 1 .. n \/ d = n + 1
  OBVIOUS
<1> HIDE DEF ds, es
<1>11. Declares(e, attached) <=> item.format
  BY <1>3, <1>8 DEF Declares
<1>12. Parsed(es)
  <2>1. \A d \in 1 .. n : /\ es[d].bytes # <<>> /\ es[d].bytes[1].item \in Item
                          /\ es[d].bytes = Bytes(es[d].bytes[1].item)
    BY <1>9 DEF Parsed, ds
  <2>2. /\ e.bytes # <<>> /\ e.bytes[1].item \in Item
        /\ e.bytes = Bytes(e.bytes[1].item)
    BY <1>2, <1>3, <1>8 DEF bytes
  <2> QED
    BY <1>9, <1>10, <2>1, <2>2 DEF Parsed
<1>13. HelperIs(es, helper', attached)
  <2>1. (\E f \in 1 .. n + 1 : Declares(es[f], attached))
          <=> (item.format \/ \E f \in 1 .. n : Declares(ds[f], attached))
    <3>1. n + 1 \in 1 .. n + 1 /\ 1 .. n \subseteq 1 .. n + 1
      OBVIOUS
    <3> QED
      BY <1>9, <1>10, <1>11, <3>1
  <2>2. helper = IF \E f \in 1 .. n : Declares(ds[f], attached) THEN attached ELSE 0
    BY DEF HelperIs, ds
  <2> QED
    BY <1>5, <1>9, <2>1, <2>2 DEF HelperIs
<1>14. Helped(es)
  <2>1. ASSUME NEW d \in 1 .. n
        PROVE  es[d].helper = IF \E f \in 1 .. d : Declares(es[f], es[d].bytes[1].item.src)
                              THEN es[d].bytes[1].item.src ELSE 0
    <3>1. ds[d].helper = IF \E f \in 1 .. d : Declares(ds[f], ds[d].bytes[1].item.src)
                         THEN ds[d].bytes[1].item.src ELSE 0
      BY DEF Helped, ds
    <3>2. \A f \in 1 .. d : es[f] = ds[f]
      BY <1>9
    <3>3. es[d] = ds[d]
      BY <1>9
    <3> QED
      BY <3>1, <3>2, <3>3
  <2>2. e.helper = IF \E f \in 1 .. n + 1 : Declares(es[f], e.bytes[1].item.src)
                   THEN e.bytes[1].item.src ELSE 0
    <3>1. e.bytes[1].item.src = attached
      BY <1>3, <1>8
    <3> QED
      BY <1>8, <1>9, <1>13, <3>1 DEF HelperIs
  <2> QED
    BY <1>9, <1>10, <2>1, <2>2 DEF Helped
<1> QED
  BY <1>12, <1>13, <1>14 DEF es


\* The order of the bytes the decoder has still to handle
LEMMA PendingBytes ==
  ASSUME NEW a, NEW order
  PROVE  BytesOf(a, order) \subseteq Byte
BY DEF BytesOf

Take(s, n) == SubSeq(s, 1, n)

LEMMA CutBehind ==
  ASSUME NEW S, NEW s \in Seq(S), NEW t \in Seq(S), NEW n \in 0 .. Len(t)
  PROVE  Take(Joined(s, t), Len(s) + n) = Joined(s, Take(t, n))
<1> DEFINE w == s \o t
           u == SubSeq(t, 1, n)
<1>1. /\ w \in Seq(S) /\ Len(w) = Len(s) + Len(t)
      /\ \A i \in 1 .. Len(s) : w[i] = s[i]
      /\ \A i \in 1 .. Len(t) : w[Len(s) + i] = t[i]
  BY ConcatProperties
<1>2. u \in Seq(S) /\ Len(u) = n /\ \A i \in 1 .. n : u[i] = t[i]
  BY CutProperties
<1>3. /\ s \o u \in Seq(S) /\ Len(s \o u) = Len(s) + n
      /\ \A i \in 1 .. Len(s) : (s \o u)[i] = s[i]
      /\ \A i \in 1 .. n : (s \o u)[Len(s) + i] = u[i]
  BY <1>2, ConcatProperties
<1> HIDE DEF w, u
<1> PICK k \in Nat : k = Len(s)
  OBVIOUS
<1> PICK v \in Seq(S) : v = s \o u
  BY <1>3
<1>4. /\ SubSeq(w, 1, k + n) \in Seq(S) /\ Len(SubSeq(w, 1, k + n)) = k + n
      /\ \A i \in 1 .. k + n : SubSeq(w, 1, k + n)[i] = w[i]
  <2>1. k + n \in 0 .. Len(w)
    BY <1>1
  <2> QED
    BY <1>1, <2>1, CutProperties
<1>5. \A i \in 1 .. k + n : w[i] = v[i]
  <2> TAKE i \in 1 .. k + n
  <2>1. CASE i \in 1 .. k
    BY <1>1, <1>3, <2>1
  <2>2. CASE i \notin 1 .. k
    <3>1. i - k \in 1 .. n /\ i - k \in 1 .. Len(t) /\ k + (i - k) = i
      BY <2>2
    <3>2. w[k + (i - k)] = t[i - k] /\ v[k + (i - k)] = u[i - k] /\ u[i - k] = t[i - k]
      BY <1>1, <1>2, <1>3, <3>1
    <3> QED
      BY <3>1, <3>2
  <2> QED
    BY <2>1, <2>2
<1>6. SubSeq(w, 1, k + n) = v
  BY <1>3, <1>4, <1>5, SeqEqual
<1> QED
  BY <1>6 DEF w, u, Take, Joined

\* The first item of what has still to be handled
LEMMA PendingFirst ==
  ASSUME NEW a, NEW order \in Orders \union {NoTranslator},
         NEW s \in Seq(BytesOf(a, order)), s # <<>>, WholeItems(s)
  PROVE  /\ s \in Seq(Byte)
         /\ s[1].item \in Item /\ s[1].item.src = a /\ s[1].item.order = order
         /\ s[1].item.size \in 1 .. Len(s)
         /\ \A i \in 1 .. Len(s) : (i <= s[1].item.size) => s[i] = [item |-> s[1].item, at |-> i]
         /\ SubSeq(s, 1, s[1].item.size) = Bytes(s[1].item)
         /\ Drop(s, s[1].item.size) \in Seq(BytesOf(a, order))
         /\ WholeItems(Drop(s, s[1].item.size))
<1>1. s \in Seq(Byte)
  BY PendingBytes, SeqMonotonic
<1>2. s[1] \in BytesOf(a, order)
  <2>1. 1 \in 1 .. Len(s)
    BY EmptySeq
  <2> QED
    BY <2>1, ElementOfSeq
<1>3. s[1].item.src = a /\ s[1].item.order = order
  BY <1>2 DEF BytesOf
<1>4. /\ s[1].item \in Item /\ s[1].item.size \in Nat \ {0}
      /\ \A i \in 1 .. Len(s) : (i <= s[1].item.size) => s[i] = [item |-> s[1].item, at |-> i]
      /\ s[1].item.size <= Len(s)
  BY <1>1, FirstItem
<1> PICK n \in Nat \ {0} : n = s[1].item.size
  BY <1>4
<1>5. n \in 1 .. Len(s) /\ n \in 0 .. Len(s)
  BY <1>4
<1>6. Drop(s, n) \in Seq(BytesOf(a, order))
  BY <1>5, CutProperties
<1>7. SubSeq(s, 1, n) = Bytes(s[1].item) /\ WholeItems(Drop(s, n))
  BY <1>1, WholeCut
<1> QED
  BY <1>1, <1>3, <1>4, <1>5, <1>6, <1>7

\* The head of the rest of a buffer is read as the item says, and SizeBytes and
\* IsFormat look at bytes of one item.
LEMMA SizeRead ==
  ASSUME DecoderInv, damage = {}, HasHeader
  PROVE  /\ rest # <<>> /\ partial = <<>>
         /\ rest[1].item \in Item /\ rest[1].item.src = attached
         /\ rest[1].item.order = translator
         /\ rest[1].item.size \in Nat \ {0}
         /\ Sizes(rest) = {rest[1].item.size}
<1> DEFINE S == ByteTo(attached)
<1>1. /\ Typed /\ Shape /\ attached \in Nat /\ rest \in Seq(S) /\ unread \in Seq(S)
  BY SourcesCounted DEF DecoderInv, TypedInv, Typed
<1>2. rest # <<>> /\ partial = <<>>
  <2>1. rest # <<>>
    BY <1>1, SizesType
  <2> QED
    BY <1>1, <2>1 DEF Shape
<1>3. Kept(rest, partial, glue) = rest
  BY <1>1, <1>2, KeptOne
<1> DEFINE s == rest \o unread
<1>4. PICK order \in Orders \union {NoTranslator} :
        /\ s \in Seq(BytesOf(attached, order)) /\ translator = order
  BY <1>2, <1>3 DEF DecoderInv, InStep, Pending
<1>5. WholeItems(s)
  BY <1>3 DEF DecoderInv, InStep, Pending
<1>6. /\ s \in Seq(S) /\ Len(s) = Len(rest) + Len(unread) /\ \A i \in 1 .. Len(rest) : s[i] = rest[i]
  BY <1>1, ConcatProperties
<1>7. Len(rest) \in Nat /\ Len(unread) \in Nat /\ Len(rest) > HeaderSize /\ HeaderSize \in Nat
      /\ SizeBytes \in Nat \ {0} /\ SizeBytes < HeaderSize
  BY <1>1 DEF HasHeader, HeaderAssumption
<1> HIDE DEF s
<1>8. s # <<>> /\ s[1] = rest[1]
  <2>1. 1 \in 1 .. Len(rest) /\ Len(s) # 0
    BY <1>6, <1>7
  <2> QED
    BY <1>6, <2>1, EmptySeq
<1>9. /\ s[1].item \in Item /\ s[1].item.src = attached /\ s[1].item.order = order
      /\ s[1].item.size \in 1 .. Len(s)
      /\ \A i \in 1 .. Len(s) : (i <= s[1].item.size) => s[i] = [item |-> s[1].item, at |-> i]
  BY <1>4, <1>5, <1>8, PendingFirst
<1> PICK item \in Item : item = s[1].item
  BY <1>9
<1>10. item.size \in Nat \ {0} /\ item.size >= HeaderSize
  <2>1. item.size \in ItemSizes
    BY DEF Item
  <2>2. item.size >= HeaderSize
    BY <2>1
  <2>3. item.size \in Nat
    BY <2>1
  <2> QED
    BY <1>7, <2>2, <2>3
<1>11. StartsItem(rest, SizeBytes)
  <2>1. \A i \in 1 .. SizeBytes : i \in 1 .. Len(rest) /\ i \in 1 .. Len(s) /\ i <= item.size
    BY <1>6, <1>7, <1>10
  <2>2. \A i \in 1 .. SizeBytes : rest[i] = [item |-> rest[1].item, at |-> i]
    BY <1>6, <1>8, <1>9, <2>1
  <2>3. Len(rest) >= SizeBytes
    BY <1>7
  <2> QED
    BY <2>2, <2>3 DEF StartsItem
<1>12. Sizes(rest) = {rest[1].item.size}
  BY <1>4, <1>8, <1>9, <1>11 DEF Sizes
<1> QED
  BY <1>2, <1>4, <1>8, <1>9, <1>10, <1>12


LEMMA DispatchFromBufferInStep ==
  ASSUME DecoderInv, damage = {}, DispatchFromBuffer
  PROVE  InStep'
<1> DEFINE S == ByteTo(attached)
           s == rest \o unread
<1>1. HasHeader /\ Typed /\ rest \in Seq(S) /\ unread \in Seq(S)
  BY DEF DispatchFromBuffer, DecoderInv, TypedInv, Typed
<1>2. /\ rest # <<>> /\ partial = <<>>
      /\ rest[1].item \in Item /\ rest[1].item.src = attached
      /\ rest[1].item.order = translator
      /\ rest[1].item.size \in Nat \ {0} /\ Sizes(rest) = {rest[1].item.size}
  BY <1>1, SizeRead
<1> PICK item \in Item : item = rest[1].item
  BY <1>2
<1> PICK size \in Nat \ {0} : size = item.size
  BY <1>2
<1>3. /\ Fits(size) /\ DispatchEvent(SubSeq(rest, 1, size)) /\ rest' = Drop(rest, size)
  BY <1>2 DEF DispatchFromBuffer
<1>4. size \in 0 .. Len(rest)
  BY <1>1, <1>3 DEF Fits
<1>5. Kept(rest, partial, glue) = rest
  BY <1>1, <1>2, KeptOne
<1>6. PICK order \in Orders \union {NoTranslator} :
        s \in Seq(BytesOf(attached, order)) /\ translator = order
  BY <1>2, <1>5 DEF DecoderInv, InStep, Pending
<1>7. WholeItems(s)
  BY <1>5 DEF DecoderInv, InStep, Pending
<1>8. s # <<>> /\ s[1] = rest[1]
  <2>1. /\ s \in Seq(S) /\ Len(s) = Len(rest) + Len(unread)
        /\ \A i \in 1 .. Len(rest) : s[i] = rest[i]
    BY <1>1, ConcatProperties
  <2>2. Len(rest) \in Nat \ {0} /\ Len(unread) \in Nat
    BY <1>1, <1>2, EmptySeq
  <2> HIDE DEF s
  <2>3. 1 \in 1 .. Len(rest) /\ Len(s) # 0
    BY <2>1, <2>2
  <2> QED
    BY <2>1, <2>3, EmptySeq
<1>9. /\ SubSeq(s, 1, size) = Bytes(item)
      /\ Drop(s, size) \in Seq(BytesOf(attached, order))
      /\ WholeItems(Drop(s, size))
  <2> HIDE DEF s
  <2>1. /\ SubSeq(s, 1, s[1].item.size) = Bytes(s[1].item)
        /\ Drop(s, s[1].item.size) \in Seq(BytesOf(attached, order))
        /\ WholeItems(Drop(s, s[1].item.size))
    BY <1>6, <1>7, <1>8, PendingFirst
  <2>2. s[1].item = item /\ s[1].item.size = size
    BY <1>8
  <2> QED
    BY <2>1, <2>2
<1>10. SubSeq(rest, 1, size) = Bytes(item) /\ Drop(s, size) = Drop(rest, size) \o unread
  BY <1>1, <1>4, <1>9, DropOfConcat
<1> PICK left \in Seq(S) : left = Drop(rest, size)
  BY <1>1, <1>4, CutProperties
<1>11. /\ rest' = left /\ partial' = <<>>
       /\ glue' = IF left = <<>> THEN <<>> ELSE glue
       /\ UNCHANGED <<attached, unread, translator, exited>>
  BY <1>2, <1>3 DEF DispatchFromBuffer, GlueLeft
<1>12. Kept(rest', partial', glue') = left
  <2>1. Kept(left, <<>>, IF left = <<>> THEN <<>> ELSE glue) = left
    BY KeptOne
  <2> QED
    BY <1>11, <2>1
<1>13. /\ Parsed(dispatched') /\ Helped(dispatched') /\ HelperIs(dispatched', helper', attached)
  <2>1. DispatchEvent(Bytes(item))
    BY <1>3, <1>10
  <2>2. item.src = attached /\ item.order = translator
    BY <1>2
  <2>3. Parsed(dispatched) /\ Helped(dispatched) /\ HelperIs(dispatched, helper, attached)
    BY DEF DecoderInv, InStep
  <2> QED
    BY <1>1, <2>1, <2>2, <2>3, DispatchItem
<1>14. Pending(rest', partial', glue', unread') = Drop(s, size)
  BY <1>10, <1>11, <1>12 DEF Pending
<1>15. ~exited /\ ~exited'
  BY <1>11 DEF DecoderInv, InStep
<1> HIDE DEF s
<1>16. \E o \in Orders \union {NoTranslator} :
         /\ Pending(rest', partial', glue', unread') \in Seq(BytesOf(attached', o))
         /\ Kept(rest', partial', glue') # <<>> => translator' = o
  BY <1>6, <1>9, <1>11, <1>14
<1> QED
  BY <1>9, <1>11, <1>13, <1>14, <1>15, <1>16 DEF InStep

\* Nothing is dispatched, and what has to be handled stays.
LEMMA HoldInStep ==
  ASSUME DecoderInv, damage = {}, CreatePartialEvent \/ ZeroSize \/ NewGluedBuffer
  PROVE  InStep'
<1> DEFINE S == ByteTo(attached)
<1>1. Typed /\ Shape /\ rest \in Seq(S)
  BY DEF DecoderInv, TypedInv, Typed
<1>2. InStep
  BY DEF DecoderInv
<1>3. CASE ZeroSize
  <2>1. HasHeader /\ 0 \in Sizes(rest)
    BY <1>3 DEF ZeroSize
  <2> QED
    BY <2>1, SizeRead
<1>4. CASE CreatePartialEvent
  <2>1. /\ HasHeader /\ partial' = rest /\ rest' = <<>> /\ glue' = <<>>
        /\ UNCHANGED <<attached, unread, translator, helper, exited, dispatched>>
    BY <1>4 DEF CreatePartialEvent, history
  <2>2. rest # <<>> /\ partial = <<>> /\ partialSize' = rest[1].item.size
    BY <1>4, <2>1, SizeRead DEF CreatePartialEvent
  <2>3. Kept(rest, partial, glue) = rest /\ Kept(rest', partial', glue') = rest
    BY <1>1, <2>1, <2>2, KeptOne
  <2> QED
    BY <1>2, <2>1, <2>2, <2>3 DEF InStep, Pending
<1>5. CASE NewGluedBuffer
  <2>1. /\ rest # <<>> /\ partial = <<>>
        /\ glue' = rest /\ rest' = <<>>
        /\ UNCHANGED <<attached, unread, partial, partialSize, translator, helper, exited,
                       dispatched>>
    BY <1>1, <1>5 DEF NewGluedBuffer, history, Shape
  <2>2. Kept(rest, partial, glue) = rest /\ Kept(rest', partial', glue') = rest
    BY <1>1, <2>1, KeptOne
  <2> QED
    BY <1>2, <2>1, <2>2 DEF InStep, Pending
<1> QED
  BY <1>3, <1>4, <1>5

LEMMA AttachInStep ==
  ASSUME DecoderInv, damage' = {}, Attach
  PROVE  InStep'
<1> DEFINE a == attached + 1
<1>1. TypedInv /\ Typed /\ attached \in Nat
  BY SourcesCounted DEF DecoderInv, TypedInv
<1>2. attached' = a
  BY <1>1, AttachCases
<1>3. PICK order \in Orders : unread' \in Seq(BytesOf(a, order)) /\ WholeItems(unread')
  BY <1>1, <1>2, AttachCases
<1>4. rest' = <<>> /\ ~exited' /\ helper' = 0
  BY DEF Attach, KeepDecoder, NewDecoder, bufferVars, InvalidateCurrentHelper
<1>5. /\ partial' = <<>> /\ glue' = <<>>
      /\ \/ dispatched' = <<>>
         \/ dispatched' = dispatched /\ damage = {}
  <2>1. CASE NewDecoder
    BY <2>1 DEF NewDecoder
  <2>2. CASE KeepDecoder
    <3>1. /\ UNCHANGED <<partial, glue, dispatched>> /\ damage = {} /\ Held = <<>>
      BY <2>2 DEF KeepDecoder, bufferVars
    <3>2. partial = <<>> /\ glue = <<>>
      <4>1. partial \in Seq(ByteTo(attached)) /\ glue \in Seq(ByteTo(attached))
        BY <1>1 DEF Typed
      <4> QED
        BY <3>1, <4>1, ConcatEqualIffEmpty DEF Held
    <3> QED
      BY <3>1, <3>2
  <2> QED
    BY <2>1, <2>2 DEF Attach
<1>6. Kept(rest', partial', glue') = <<>> /\ Pending(rest', partial', glue', unread') = unread'
  <2>1. Kept(<<>>, <<>>, <<>>) = <<>>
    BY EmptySeq, KeptOne
  <2>2. <<>> \o unread' = unread'
    BY <1>3, ConcatEmptySeq
  <2> QED
    BY <1>4, <1>5, <2>1, <2>2 DEF Pending
<1>7. /\ Parsed(dispatched') /\ Helped(dispatched')
      /\ HelperIs(dispatched', helper', a)
  <2>1. CASE dispatched' = <<>>
    BY <1>4, <2>1 DEF Parsed, Helped, HelperIs
  <2>2. CASE dispatched' = dispatched /\ damage = {}
    <3>1. Parsed(dispatched) /\ Helped(dispatched)
      BY <2>2 DEF DecoderInv, InStep
    <3>2. \A f \in 1 .. Len(dispatched) : dispatched[f].bytes[1].item.src # a
      <4> TAKE f \in 1 .. Len(dispatched)
      <4>1. dispatched[f] \in Dispatched(attached)
        BY <1>1, ElementOfSeq DEF Typed
      <4>2. dispatched[f].bytes \in Seq(ByteTo(attached)) /\ dispatched[f].bytes # <<>>
        BY <3>1, <4>1 DEF Dispatched, Parsed
      <4>3. 1 \in 1 .. Len(dispatched[f].bytes)
        BY <4>2, EmptySeq
      <4>4. dispatched[f].bytes[1] \in ByteTo(attached)
        BY <4>2, <4>3, ElementOfSeq
      <4>5. dispatched[f].bytes[1].item.src \in 1 .. attached
        BY <4>4 DEF ByteTo
      <4> QED
        BY <1>1, <4>5
    <3>3. HelperIs(dispatched, 0, a)
      BY <3>2 DEF HelperIs, Declares
    <3> QED
      BY <1>4, <2>2, <3>1, <3>3
  <2> QED
    BY <1>5, <2>1, <2>2
<1> HIDE DEF a
<1> QED
  BY <1>2, <1>3, <1>4, <1>5, <1>6, <1>7 DEF InStep


\* A buffer that begins with an item, or with the rest of the glued buffer: it is
\* the head of what the source has still to deliver.
LEMMA BufferAloneInStep ==
  ASSUME NEW S, NEW buf \in Seq(S), buf # <<>>, NEW g \in Seq(S), NEW u \in Seq(S), NEW h
  PROVE  /\ Kept(g \o buf, <<>>, h) = g \o buf
         /\ Pending(g \o buf, <<>>, h, u) = Pending(<<>>, <<>>, g, buf \o u)
<1>1. g \o buf \in Seq(S)
  BY ConcatProperties
<1>2. g \o buf # <<>>
  BY ConcatEqualIffEmpty
<1>3. Kept(g \o buf, <<>>, h) = g \o buf
  BY <1>1, <1>2, KeptOne
<1>4. Kept(<<>>, <<>>, g) = g
  BY KeptOne
<1>5. (g \o buf) \o u = g \o (buf \o u)
  BY ConcatAssociative
<1> QED
  BY <1>3, <1>4, <1>5 DEF Pending

LEMMA OnBufferInStep ==
  ASSUME DecoderInv, damage' = {}, OnBuffer
  PROVE  InStep'
<1> DEFINE S == ByteTo(attached)
<1>1. Typed /\ Shape /\ attached \in Nat
  BY SourcesCounted DEF DecoderInv, TypedInv
<1>2. PICK buf \in Seq(S) :
           /\ buf # <<>>
           /\ unread' \in Seq(S) /\ unread = buf \o unread'
           /\ input' = input \o buf
           /\ IF Held = <<>> THEN CreateTranslator(buf) ELSE UNCHANGED <<translator, damage>>
           /\ rest = <<>> /\ ~exited
           /\ UNCHANGED <<attached, exited, partialSize>>
           /\ \/ BufferAlone(buf) \/ PartialGrows(buf)
              \/ \E n \in 1 .. Len(buf) : PartialEnds(buf, n)
  BY <1>1, OnBufferCases
<1> PICK u \in Seq(S) : u = unread' /\ unread = buf \o u
  BY <1>2
<1>3. damage = {} /\ InStep
  BY <1>2 DEF CreateTranslator, DecoderInv
<1>4. partial \in Seq(S) /\ glue \in Seq(S)
  BY <1>1 DEF Typed
<1>5. buf \o u \in Seq(S)
  BY ConcatProperties
<1> DEFINE s == Pending(<<>>, partial, glue, buf \o u)
<1>6. PICK order \in Orders \union {NoTranslator} :
        /\ s \in Seq(BytesOf(attached, order))
        /\ Kept(<<>>, partial, glue) # <<>> => translator = order
  BY <1>2, <1>3 DEF InStep
<1>7. WholeItems(s)
  BY <1>2, <1>3 DEF InStep
<1> HIDE DEF s
<1>8. translator' = order
  <2>1. CASE Held = <<>>
    <3>1. translator' = buf[1].item.order
      BY <1>2, <2>1 DEF CreateTranslator
    <3>2. partial = <<>> /\ glue = <<>>
      BY <1>4, <2>1, ConcatEqualIffEmpty DEF Held
    <3>3. s = buf \o u
      <4>1. Kept(<<>>, <<>>, <<>>) = <<>>
        BY EmptySeq, KeptOne
      <4>2. <<>> \o (buf \o u) = buf \o u
        BY <1>5, ConcatEmptySeq
      <4> QED
        BY <3>2, <4>1, <4>2 DEF s, Pending
    <3>4. 1 \in 1 .. Len(buf) /\ 1 \in 1 .. Len(s) /\ s[1] = buf[1]
      <4>1. Len(buf) \in Nat \ {0} /\ Len(u) \in Nat
        BY <1>2, EmptySeq
      <4>2. /\ Len(s) = Len(buf) + Len(u)
            /\ \A i \in 1 .. Len(buf) : s[i] = buf[i]
        BY <3>3, ConcatProperties
      <4> QED
        BY <4>1, <4>2
    <3>5. s[1] \in BytesOf(attached, order)
      BY <1>6, <3>4, ElementOfSeq
    <3> QED
      BY <3>1, <3>4, <3>5 DEF BytesOf
  <2>2. CASE Held # <<>>
    BY <1>2, <1>6, <2>2 DEF Held, Kept
  <2> QED
    BY <2>1, <2>2
<1>9. partial # <<>> => partialSize = partial[1].item.size
  BY <1>3 DEF InStep
<1>10. /\ Parsed(dispatched) /\ Helped(dispatched) /\ HelperIs(dispatched, helper, attached)
  BY <1>3 DEF InStep
<1>11. attached' = attached /\ ~exited' /\ partialSize' = partialSize /\ rest = <<>> /\ unread' = u
  BY <1>2
<1>12. CASE BufferAlone(buf)
  <2>1. /\ partial = <<>> /\ partial' = <<>> /\ rest' = glue \o buf
        /\ UNCHANGED <<helper, dispatched>>
    BY <1>12 DEF BufferAlone
  <2>2. Pending(rest', partial', glue', u) = s
    BY <1>2, <1>4, <2>1, BufferAloneInStep DEF s
  <2>3. \E o \in Orders \union {NoTranslator} :
          /\ Pending(rest', partial', glue', unread') \in Seq(BytesOf(attached', o))
          /\ Kept(rest', partial', glue') # <<>> => translator' = o
    BY <1>6, <1>8, <1>11, <2>2
  <2> QED
    BY <1>7, <1>10, <1>11, <2>1, <2>2, <2>3 DEF InStep
<1>13. CASE PartialGrows(buf)
  <2>1. /\ partial # <<>> /\ glue = <<>>
        /\ partial' = partial \o buf /\ rest' = <<>> /\ glue' = <<>>
        /\ UNCHANGED <<helper, dispatched>>
    BY <1>13 DEF PartialGrows
  <2>2. Pending(rest', partial', glue', u) = s
    <3>1. partial \o buf \in Seq(S)
      BY <1>4, ConcatProperties
    <3>2. Kept(<<>>, partial \o buf, <<>>) = partial \o buf /\ Kept(<<>>, partial, <<>>) = partial
      BY <1>4, <3>1, KeptOne
    <3>3. (partial \o buf) \o u = partial \o (buf \o u)
      BY <1>4, ConcatAssociative
    <3> QED
      BY <2>1, <3>2, <3>3 DEF s, Pending
  <2>3. partial'[1] = partial[1]
    <3>1. Len(partial) \in Nat \ {0}
      BY <1>4, <2>1, EmptySeq
    <3>2. \A i \in 1 .. Len(partial) : (partial \o buf)[i] = partial[i]
      BY <1>4, ConcatProperties
    <3> QED
      BY <2>1, <3>1, <3>2
  <2>4. \E o \in Orders \union {NoTranslator} :
          /\ Pending(rest', partial', glue', unread') \in Seq(BytesOf(attached', o))
          /\ Kept(rest', partial', glue') # <<>> => translator' = o
    BY <1>6, <1>8, <1>11, <2>2
  <2> QED
    BY <1>7, <1>9, <1>10, <1>11, <2>1, <2>2, <2>3, <2>4 DEF InStep
<1>14. ASSUME NEW n \in 1 .. Len(buf), PartialEnds(buf, n)
       PROVE  InStep'
  <2>1. /\ partial # <<>> /\ glue = <<>> /\ Len(partial) + n = partialSize
        /\ DispatchEvent(partial \o SubSeq(buf, 1, n))
        /\ partial' = <<>> /\ rest' = Drop(buf, n) /\ glue' = <<>>
    BY <1>14 DEF PartialEnds
  <2> PICK k \in Nat \ {0} : k = Len(partial)
    BY <1>4, <2>1, EmptySeq
  <2>2. s = partial \o (buf \o u)
    <3>1. Kept(<<>>, partial, <<>>) = partial
      BY <1>4, KeptOne
    <3> QED
      BY <2>1, <3>1 DEF s, Pending
  <2>3. /\ Len(buf \o u) = Len(buf) + Len(u) /\ n \in 0 .. Len(buf \o u) /\ n \in 0 .. Len(buf)
    <3>1. Len(buf \o u) = Len(buf) + Len(u) /\ Len(buf) \in Nat /\ Len(u) \in Nat
      BY ConcatProperties
    <3> QED
      BY <3>1
  <2>4. s # <<>> /\ s[1] = partial[1]
    <3>1. /\ s \in Seq(S) /\ Len(s) = k + Len(buf \o u)
          /\ \A i \in 1 .. k : s[i] = partial[i]
      BY <1>4, <1>5, <2>2, ConcatProperties
    <3>2. Len(buf \o u) \in Nat
      BY <1>5
    <3>3. Len(s) # 0 /\ 1 \in 1 .. k
      BY <3>1, <3>2
    <3> QED
      BY <3>1, <3>3, EmptySeq
  <2>5. /\ s[1].item \in Item /\ s[1].item.src = attached /\ s[1].item.order = order
        /\ SubSeq(s, 1, s[1].item.size) = Bytes(s[1].item)
        /\ Drop(s, s[1].item.size) \in Seq(BytesOf(attached, order))
        /\ WholeItems(Drop(s, s[1].item.size))
    BY <1>6, <1>7, <2>4, PendingFirst
  <2>6. s[1].item.size = k + n
    BY <1>9, <2>1, <2>4
  <2>7. SubSeq(s, 1, k + n) = partial \o SubSeq(buf, 1, n)
    <3>1. SubSeq(partial \o (buf \o u), 1, k + n) = partial \o SubSeq(buf \o u, 1, n)
      <4>1. Take(Joined(partial, buf \o u), Len(partial) + n) = Joined(partial, Take(buf \o u, n))
        BY <1>4, <1>5, <2>3, CutBehind, ZenonT(60)
      <4> QED
        BY <4>1 DEF Take, Joined
    <3>2. SubSeq(buf \o u, 1, n) = SubSeq(buf, 1, n)
      BY <2>3, DropOfConcat
    <3> QED
      BY <2>2, <3>1, <3>2
  <2>8. Drop(s, k + n) = Drop(buf, n) \o u
    <3>1. Drop(partial \o (buf \o u), k + n) = Drop(buf \o u, n)
      BY <1>4, <1>5, <2>3, DropBehind, ZenonT(60)
    <3>2. Drop(buf \o u, n) = Drop(buf, n) \o u
      BY <2>3, DropOfConcat
    <3> QED
      BY <2>2, <3>1, <3>2
  <2> PICK item \in Item : item = s[1].item
    BY <2>5
  <2>9. /\ Parsed(dispatched') /\ Helped(dispatched') /\ HelperIs(dispatched', helper', attached)
    <3>1. DispatchEvent(Bytes(item))
      BY <2>1, <2>5, <2>6, <2>7
    <3>2. translator = order
      <4>1. Kept(<<>>, partial, glue) = partial
        BY <1>4, <2>1, KeptOne
      <4> QED
        BY <1>6, <2>1, <4>1
    <3> QED
      BY <1>1, <1>10, <2>5, <3>1, <3>2, DispatchItem
  <2>10. Pending(rest', partial', glue', u) = Drop(s, k + n)
    <3>1. Drop(buf, n) \in Seq(S)
      BY <2>3, CutProperties
    <3>2. Kept(Drop(buf, n), <<>>, <<>>) = Drop(buf, n)
      BY <3>1, KeptOne
    <3> QED
      BY <2>1, <2>8, <3>2 DEF Pending
  <2>11. \E o \in Orders \union {NoTranslator} :
           /\ Pending(rest', partial', glue', unread') \in Seq(BytesOf(attached', o))
           /\ Kept(rest', partial', glue') # <<>> => translator' = o
    BY <1>8, <1>11, <2>5, <2>6, <2>10
  <2> QED
    BY <1>11, <2>1, <2>5, <2>6, <2>9, <2>10, <2>11 DEF InStep
<1> QED
  BY <1>2, <1>12, <1>13, <1>14


---------------------------------------------------------------------------
(* The theorems *)

\* Damage is not repaired: it ends with the decoder.
LEMMA DamageStays ==
  ASSUME DecoderInv, [Next]_vars, damage' = {}, ~Attach
  PROVE  damage = {}
<1>1. CASE UNCHANGED vars
  BY <1>1 DEF vars, history
<1>2. CASE OnBuffer
  BY <1>2 DEF OnBuffer, CreateTranslator
<1>3. CASE ProcessBuffer
  BY <1>3 DEF ProcessBuffer, DispatchFromBuffer, CreatePartialEvent, ZeroSize, NewGluedBuffer,
              history
<1> QED
  BY <1>1, <1>2, <1>3 DEF Next

LEMMA DecoderInvariant ==
  Spec => []DecoderInv
<1>1. Init => DecoderInv
  <2> SUFFICES ASSUME Init PROVE InStep
    BY TypedStarts DEF DecoderInv
  <2>1. Kept(<<>>, <<>>, <<>>) = <<>> /\ Pending(<<>>, <<>>, <<>>, <<>>) = <<>>
    <3>1. <<>> \o <<>> = <<>>
      BY EmptySeq, ConcatEmptySeq
    <3> QED
      BY <3>1 DEF Kept, Pending
  <2>2. <<>> \in Seq(BytesOf(attached, NoTranslator))
    BY EmptySeq
  <2>3. WholeItems(<<>>) /\ Parsed(<<>>) /\ Helped(<<>>) /\ HelperIs(<<>>, 0, 0)
    BY DEF WholeItems, Chained, Parsed, Helped, HelperIs
  <2>4. /\ rest = <<>> /\ partial = <<>> /\ glue = <<>> /\ unread = <<>> /\ ~exited
        /\ dispatched = <<>> /\ helper = 0 /\ attached = 0
    BY DEF Init
  <2>5. \E order \in Orders \union {NoTranslator} :
          /\ Pending(rest, partial, glue, unread) \in Seq(BytesOf(attached, order))
          /\ Kept(rest, partial, glue) # <<>> => translator = order
    <3>1. NoTranslator \in Orders \union {NoTranslator}
      OBVIOUS
    <3> QED
      BY <2>1, <2>2, <2>4, <3>1
  <2> QED
    BY <2>1, <2>3, <2>4, <2>5 DEF InStep
<1>2. ASSUME DecoderInv, [Next]_vars
      PROVE  DecoderInv'
  <2>1. TypedInv'
    <3>1. CASE UNCHANGED vars
      BY <1>2, <3>1 DEF vars, bufferVars, history, DecoderInv, TypedInv, Typed, Shape
    <3>2. CASE Next
      BY <1>2, <3>2, OnBufferTyped, DispatchFromBufferTyped, HoldTyped, AttachTyped
      DEF Next, ProcessBuffer, DecoderInv
    <3> QED
      BY <1>2, <3>1, <3>2
  <2>2. ASSUME damage' = {}
        PROVE  InStep'
    <3>1. CASE Attach
      BY <1>2, <2>2, <3>1, AttachInStep
    <3>2. CASE ~Attach
      <4>1. damage = {}
        BY <1>2, <2>2, <3>2, DamageStays
      <4>2. CASE UNCHANGED vars
        BY <1>2, <4>1, <4>2 DEF vars, bufferVars, history, DecoderInv, InStep
      <4>3. CASE OnBuffer
        BY <1>2, <2>2, <4>3, OnBufferInStep
      <4>4. CASE ProcessBuffer
        BY <1>2, <4>1, <4>4, DispatchFromBufferInStep, HoldInStep DEF ProcessBuffer
      <4> QED
        BY <1>2, <3>2, <4>2, <4>3, <4>4 DEF Next
    <3> QED
      BY <3>1, <3>2
  <2> QED
    BY <2>1, <2>2 DEF DecoderInv
<1> QED
  BY <1>1, <1>2, PTL DEF Spec

\* However a source is cut into buffers, what is dispatched is whole items of it and
\* the size of none is read as zero, unless a source was left in the middle of an item
\* or a byte order guessed wrong (processBuffer, createTranslator).
THEOREM DecoderDispatchesWholeItems ==
  Spec => []ItemsWhole
<1>1. DecoderInv => ItemsWhole
  <2> SUFFICES ASSUME DecoderInv, damage = {}, NEW d \in DOMAIN dispatched
               PROVE  /\ ~exited
                      /\ dispatched[d].bytes # <<>>
                      /\ dispatched[d].bytes = Bytes(dispatched[d].bytes[1].item)
    BY DEF ItemsWhole, DecoderInv, InStep
  <2>1. d \in 1 .. Len(dispatched)
    BY LenProperties DEF DecoderInv, TypedInv, Typed
  <2> QED
    BY <2>1 DEF DecoderInv, InStep, Parsed
<1> QED
  BY DecoderInvariant, <1>1, PTL

\* Between buffers the decoder holds no item it could dispatch: what waits is the
\* beginning of an item, or a header without a body (processBuffer).
THEOREM DecoderHoldsIncomplete ==
  Spec => []HeldIncomplete
<1>1. DecoderInv => HeldIncomplete
  <2> SUFFICES ASSUME DecoderInv, damage = {}, rest = <<>>, Held # <<>>
               PROVE  /\ StartsItem(Held, Len(Held))
                      /\ Len(Held) < Held[1].item.size \/ Len(Held) = HeaderSize
    BY DEF HeldIncomplete
  <2> DEFINE S == ByteTo(attached)
             s == Held \o unread
  <2>1. Shape /\ InStep /\ partial \in Seq(S) /\ glue \in Seq(S) /\ unread \in Seq(S)
    BY DEF DecoderInv, TypedInv, Typed
  <2>2. Held \in Seq(S)
    BY <2>1, ConcatProperties DEF Held
  <2>3. Pending(rest, partial, glue, unread) = s
    BY DEF Pending, Kept, Held
  <2>4. PICK order \in Orders \union {NoTranslator} : s \in Seq(BytesOf(attached, order))
    BY <2>1, <2>3 DEF InStep
  <2>5. WholeItems(s)
    BY <2>1, <2>3 DEF InStep
  <2> PICK k \in Nat \ {0} : k = Len(Held)
    BY <2>2, EmptySeq
  <2>6. /\ s \in Seq(S) /\ Len(s) = k + Len(unread) /\ Len(unread) \in Nat
        /\ \A i \in 1 .. k : s[i] = Held[i]
    BY <2>1, <2>2, ConcatProperties
  <2> HIDE DEF s
  <2>7. s # <<>> /\ s[1] = Held[1]
    <3>1. Len(s) # 0 /\ 1 \in 1 .. k
      BY <2>6
    <3> QED
      BY <2>6, <3>1, EmptySeq
  <2>8. /\ s[1].item \in Item /\ s[1].item.size \in 1 .. Len(s)
        /\ \A i \in 1 .. Len(s) : (i <= s[1].item.size) => s[i] = [item |-> s[1].item, at |-> i]
    BY <2>4, <2>5, <2>7, PendingFirst
  <2> PICK item \in Item : item = s[1].item
    BY <2>8
  <2>9. item.size \in Nat /\ item.size >= HeaderSize /\ HeaderSize \in Nat
    <3>1. item.size \in ItemSizes
      BY DEF Item
    <3>2. item.size >= HeaderSize
      BY <3>1
    <3>3. item.size \in Nat
      BY <3>1
    <3>4. HeaderSize \in Nat
      BY DEF HeaderAssumption
    <3> QED
      BY <3>2, <3>3, <3>4
  <2>10. k < item.size \/ k <= HeaderSize
    <3>1. CASE partial # <<>>
      <4>1. glue = <<>> /\ k < partialSize
        <5>1. glue = <<>> /\ Len(partial) < partialSize
          BY <2>1, <3>1 DEF Shape
        <5>2. Held = partial
          BY <2>1, <5>1, ConcatEmptySeq DEF Held
        <5> QED
          BY <5>1, <5>2
      <4>2. Held = partial
        BY <2>1, <4>1, ConcatEmptySeq DEF Held
      <4>3. partialSize = item.size
        BY <2>1, <2>7, <3>1, <4>2 DEF InStep
      <4> QED
        BY <4>1, <4>3
    <3>2. CASE partial = <<>>
      <4>1. Held = glue
        BY <2>1, <3>2, ConcatEmptySeq DEF Held
      <4> QED
        BY <2>1, <4>1 DEF Shape
    <3> QED
      BY <3>1, <3>2
  <2>11. k <= item.size /\ (k < item.size \/ k = HeaderSize)
    BY <2>9, <2>10
  <2>12. \A i \in 1 .. k : Held[i] = [item |-> Held[1].item, at |-> i]
    <3>1. \A i \in 1 .. k : i \in 1 .. Len(s) /\ i <= item.size
      BY <2>6, <2>9, <2>11
    <3> QED
      BY <2>6, <2>7, <2>8, <3>1
  <2>13. StartsItem(Held, k)
    BY <2>12 DEF StartsItem
  <2>14. k < Held[1].item.size \/ k = HeaderSize
    BY <2>7, <2>11
  <2> QED
    BY <2>13, <2>14
<1> QED
  BY DecoderInvariant, <1>1, PTL

\* An item is parsed with the format its own source declared, and with the default when
\* it declared none, whatever sources were attached before it (OnSourceAttach,
\* getFormatHelper).
THEOREM DecoderUsesOwnFormat ==
  Spec => []HelperOfSource
<1>1. DecoderInv => HelperOfSource
  <2> SUFFICES ASSUME DecoderInv, damage = {}, NEW d \in DOMAIN dispatched
               PROVE  LET src == dispatched[d].bytes[1].item.src
                      IN  dispatched[d].helper =
                            IF \E f \in 1 .. d : /\ dispatched[f].bytes[1].item.src = src
                                                 /\ dispatched[f].bytes[1].item.format
                            THEN src ELSE 0
    BY DEF HelperOfSource
  <2>1. d \in 1 .. Len(dispatched)
    BY LenProperties DEF DecoderInv, TypedInv, Typed
  <2>2. Helped(dispatched)
    BY DEF DecoderInv, InStep
  <2> QED
    BY <2>1, <2>2 DEF Helped, Declares
<1> QED
  BY DecoderInvariant, <1>1, PTL
===========================================================================
