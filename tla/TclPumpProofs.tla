--------------------------- MODULE TclPumpProofs ---------------------------
(***************************************************************************)
(* The Tcl pump implements the remote execution of commands, for any       *)
(* number of ranks, chunk size and sizes of commands and results.          *)
(*                                                                         *)
(* Both directions move a text in chunks: what has arrived is a prefix of  *)
(* it, and what is on its way are the chunks that follow, to where the     *)
(* sender is.  `Coming' says that, for the command and for the results.    *)
(***************************************************************************)
EXTENDS TclPump, SequenceTheorems, WellFoundedInduction, TLAPS

---------------------------------------------------------------------------
(* Least and greatest *)

\* A set of naturals has a least member.
LEMMA MinNat ==
  ASSUME NEW T, T \subseteq Nat, T # {}
  PROVE  \E n \in T : \A m \in T : n <= m
<1> DEFINE R == {ss \in Nat \X Nat : ss[1] < ss[2]}
<1>1. IsWellFoundedOn(R, Nat)
  BY NatLessThanWellFounded DEF OpToRel
<1> HIDE DEF R
<1>2. \E x \in T : \A y \in T : ~ (<<y, x>> \in R)
  BY <1>1, WFMin
<1>3. PICK x \in T : \A y \in T : ~ (<<y, x>> \in R)
  BY <1>2
<1>4. \A y \in T : x <= y
  <2> TAKE y \in T
  <2>1. <<y, x>> \in Nat \X Nat
    OBVIOUS
  <2>2. ~(y < x)
    BY <1>3, <2>1 DEF R
  <2> QED BY <2>2
<1> QED
  BY <1>4

\* The first so many of some numbers have a greatest one: there is no least number
\* of them for which it fails.
LEMMA MaxOf ==
  ASSUME NEW n \in Nat \ {0}, NEW L \in [1 .. n -> Nat]
  PROVE  \E r \in 1 .. n : \A q \in 1 .. n : L[q] <= L[r]
<1> DEFINE T == {m \in 1 .. n : \A r \in 1 .. m : \E q \in 1 .. m : ~(L[q] <= L[r])}
<1>1. T = {}
  <2> SUFFICES ASSUME T # {}
               PROVE  FALSE
    OBVIOUS
  <2>1. T \subseteq Nat
    OBVIOUS
  <2> HIDE DEF T
  <2>2. PICK m \in T : \A k \in T : m <= k
    BY <2>1, MinNat
  <2>3. m \in 1 .. n /\ m \in 1 .. m
    BY DEF T
  <2>4. PICK q \in 1 .. m : ~(L[q] <= L[m])
    BY <2>3 DEF T
  <2>5. m # 1 /\ m - 1 \in 1 .. n
    BY <2>3, <2>4
  <2>6. m - 1 \notin T
    BY <2>2, <2>3
  <2>7. PICK r \in 1 .. (m - 1) : \A p \in 1 .. (m - 1) : L[p] <= L[r]
    BY <2>5, <2>6 DEF T
  <2>8. r \in 1 .. m /\ L[r] \in Nat /\ L[m] \in Nat
    BY <2>3, <2>5
  <2>9. PICK p \in 1 .. m : ~(L[p] <= L[r])
    BY <2>8 DEF T
  <2>10. p = m
    BY <2>3, <2>7, <2>9
  <2>11. q \in 1 .. (m - 1) /\ L[q] \in Nat
    BY <2>3, <2>4, <2>8
  <2> QED
    BY <2>4, <2>7, <2>8, <2>9, <2>10, <2>11
<1>2. n \in 1 .. n
  OBVIOUS
<1> QED
  BY <1>1, <1>2

---------------------------------------------------------------------------
(* Chunks *)

USE SizesAssumption

CommandBytes == {"command"} \X Nat \X Nat
AnswerBytes == {"answer"} \X Nat \X Nat \X Nat
Bytes == CommandBytes \cup AnswerBytes \cup {Exit[1], Pad}
Texts == Seq(Bytes)
Chunks == [1 .. ChunkSize -> Bytes]

LEMMA MinimumProperties ==
  ASSUME NEW a \in Int, NEW b \in Int
  PROVE  /\ Minimum(a, b) \in Int
         /\ Minimum(a, b) <= a /\ Minimum(a, b) <= b
         /\ Minimum(a, b) = a \/ Minimum(a, b) = b
BY DEF Minimum

LEMMA ChunkType ==
  ASSUME NEW t \in Texts, NEW o \in Nat
  PROVE  Chunk(t, o) \in Chunks
<1>1. \A k \in 1 .. ChunkSize : (o + k <= Len(t)) => t[o + k] \in Bytes
  BY DEF Texts
<1>2. Pad \in Bytes
  BY DEF Bytes
<1> QED
  BY <1>1, <1>2 DEF Chunk, Chunks

\* What a receiver makes of a prefix and the chunk that follows it.
LEMMA ChunkAppended ==
  ASSUME NEW t \in Texts, NEW g \in 0 .. Len(t), NEW n \in Nat,
         n = Minimum(Len(t) - g, ChunkSize)
  PROVE  /\ g + n \in 0 .. Len(t)
         /\ SubSeq(t, 1, g) \o SubSeq(Chunk(t, g), 1, n) = SubSeq(t, 1, g + n)
<1>1. /\ Len(t) \in Nat /\ g + n <= Len(t) /\ n <= ChunkSize
  <2>1. Len(t) \in Nat
    BY DEF Texts
  <2> QED
    BY <2>1 DEF Minimum
<1> DEFINE c == Chunk(t, g)
<1>2. /\ \A i \in 1 .. Len(t) : t[i] \in Bytes
      /\ \A i \in 1 .. n : c[i] = t[g + i] /\ c[i] \in Bytes
  BY <1>1 DEF Texts, Chunk
<1> HIDE DEF c
<1>3. /\ SubSeq(t, 1, g) \in Texts /\ Len(SubSeq(t, 1, g)) = g
      /\ \A i \in 1 .. g : SubSeq(t, 1, g)[i] = t[i]
  <2>1. \A i \in 1 .. g : t[i] \in Bytes
    BY <1>1, <1>2
  <2> QED
    BY <2>1, <1>1, SubSeqProperties DEF Texts
<1>4. /\ SubSeq(c, 1, n) \in Texts /\ Len(SubSeq(c, 1, n)) = n
      /\ \A i \in 1 .. n : SubSeq(c, 1, n)[i] = t[g + i]
  BY <1>1, <1>2, SubSeqProperties DEF Texts
<1>5. /\ SubSeq(t, 1, g + n) \in Texts /\ Len(SubSeq(t, 1, g + n)) = g + n
      /\ \A i \in 1 .. g + n : SubSeq(t, 1, g + n)[i] = t[i]
  <2>1. \A i \in 1 .. g + n : t[i] \in Bytes
    BY <1>1, <1>2
  <2> QED
    BY <2>1, <1>1, SubSeqProperties DEF Texts
<1> DEFINE u == SubSeq(t, 1, g)
           v == SubSeq(c, 1, n)
           w == SubSeq(t, 1, g + n)
<1> HIDE DEF u, v, w
<1>6. /\ u \o v \in Texts /\ Len(u \o v) = g + n
      /\ \A i \in 1 .. g + n : (u \o v)[i] = IF i <= g THEN u[i] ELSE v[i - g]
  <2>1. u \in Seq(Bytes) /\ v \in Seq(Bytes) /\ Len(u) = g /\ Len(v) = n
    BY <1>3, <1>4 DEF Texts, u, v
  <2>2. /\ u \o v \in Seq(Bytes) /\ Len(u \o v) = Len(u) + Len(v)
        /\ \A i \in 1 .. Len(u) + Len(v) :
             (u \o v)[i] = IF i <= Len(u) THEN u[i] ELSE v[i - Len(u)]
    BY <2>1, ConcatProperties
  <2> QED
    BY <2>1, <2>2 DEF Texts
<1>7. \A i \in 1 .. g + n : (u \o v)[i] = w[i]
  <2> TAKE i \in 1 .. g + n
  <2>1. CASE i <= g
    BY <2>1, <1>1, <1>3, <1>5, <1>6 DEF u, w
  <2>2. CASE ~(i <= g)
    <3>1. i - g \in 1 .. n /\ g + (i - g) = i
      BY <2>2, <1>1
    <3> QED
      BY <2>2, <3>1, <1>4, <1>5, <1>6 DEF v, w
  <2> QED
    BY <2>1, <2>2
<1>8. u \o v = w
  BY <1>5, <1>6, <1>7, SeqEqual DEF Texts, w
<1> QED
  BY <1>1, <1>8 DEF u, v, w, c

---------------------------------------------------------------------------
(* Chunks on their way *)

\* Where the k-th chunk begins of those that follow the first `got' bytes
Offset(got, k) == got + (k - 1) * ChunkSize

\* ms are the messages with the bytes of t from got to done; only a first message
\* may be one without bytes.
Coming(ms, t, got, done) ==
  /\ \A k \in 1 .. Len(ms) : ms[k].chunk = Chunk(t, Offset(got, k))
  /\ \A k \in 2 .. Len(ms) : Offset(got, k) < Len(t)
  /\ done = Minimum(Len(t), Offset(got, Len(ms) + 1))

LEMMA Offsets ==
  ASSUME NEW got \in Nat
  PROVE  /\ Offset(got, 1) = got
         /\ \A k \in Nat \ {0} :
              /\ Offset(got, k) \in Nat /\ Offset(got, k) >= got
              /\ Offset(got, k + 1) = Offset(got, k) + ChunkSize
              /\ Offset(got + ChunkSize, k) = Offset(got, k + 1)
<1>1. \A j \in Nat : j * ChunkSize \in Nat /\ (j + 1) * ChunkSize = j * ChunkSize + ChunkSize
  OBVIOUS
<1>2. ASSUME NEW k \in Nat \ {0}
      PROVE  /\ Offset(got, k) \in Nat /\ Offset(got, k) >= got
             /\ Offset(got, k + 1) = Offset(got, k) + ChunkSize
             /\ Offset(got + ChunkSize, k) = Offset(got, k + 1)
  <2> DEFINE j == k - 1
             p == j * ChunkSize
  <2>1. j \in Nat /\ j + 1 = k /\ (k + 1) - 1 = j + 1
    OBVIOUS
  <2>2. p \in Nat /\ (j + 1) * ChunkSize = p + ChunkSize
    BY <2>1, <1>1
  <2>3. /\ Offset(got, k) = got + p
        /\ Offset(got + ChunkSize, k) = (got + ChunkSize) + p
    BY DEF Offset
  <2>4. Offset(got, k + 1) = got + (j + 1) * ChunkSize
    BY <2>1 DEF Offset
  <2> HIDE DEF p, j
  <2> QED
    BY <2>2, <2>3, <2>4
<1>3. Offset(got, 1) = got
  BY DEF Offset
<1> QED
  BY <1>2, <1>3

\* The sender has sent another chunk.
LEMMA ComingAppend ==
  ASSUME NEW S, NEW ms \in Seq(S), NEW m \in S, NEW t \in Texts,
         NEW got \in 0 .. Len(t), NEW done \in 0 .. Len(t),
         Coming(ms, t, got, done),
         done < Len(t) \/ ms = <<>>,
         m.chunk = Chunk(t, done)
  PROVE  Coming(Append(ms, m), t, got, done + Minimum(Len(t) - done, ChunkSize))
<1> DEFINE a == Append(ms, m)
<1>0. PICK n \in Nat : n = Len(ms)
  OBVIOUS
<1>1. /\ Len(a) = n + 1
      /\ \A k \in 1 .. n : a[k] = ms[k]
      /\ a[n + 1] = m
  BY <1>0, AppendProperties
<1>l. Len(t) \in Nat
  BY DEF Texts
<1>e. (ms = <<>>) => (n = 0)
  BY <1>0
<1> HIDE DEF a
<1>2. /\ \A k \in 1 .. n : ms[k].chunk = Chunk(t, Offset(got, k))
      /\ \A k \in 2 .. n : Offset(got, k) < Len(t)
      /\ done = Minimum(Len(t), Offset(got, n + 1))
  BY <1>0 DEF Coming
<1>3. /\ Offset(got, n + 1) \in Nat
      /\ Offset(got, n + 2) = Offset(got, n + 1) + ChunkSize
  <2>1. got \in Nat
    BY <1>l
  <2>2. PICK k \in Nat \ {0} : k = n + 1
    OBVIOUS
  <2>3. Offset(got, k) \in Nat /\ Offset(got, k + 1) = Offset(got, k) + ChunkSize
    BY <2>1, Offsets
  <2>4. k + 1 = n + 2
    BY <2>2
  <2> QED
    BY <2>2, <2>3, <2>4
<1>4. done = Offset(got, n + 1) /\ (n # 0 => Offset(got, n + 1) < Len(t))
  <2>1. CASE done < Len(t)
    BY <2>1, <1>l, <1>2, <1>3 DEF Minimum
  <2>2. CASE n = 0
    <3>1. got \in Nat /\ n + 1 = 1
      BY <2>2, <1>l
    <3>2. Offset(got, n + 1) = got
      BY <3>1, Offsets
    <3> QED
      BY <2>2, <3>2, <1>2, <1>l DEF Minimum
  <2> QED
    BY <2>1, <2>2, <1>e
<1>5. \A k \in 1 .. n + 1 : a[k].chunk = Chunk(t, Offset(got, k))
  <2> TAKE k \in 1 .. n + 1
  <2>1. CASE k = n + 1
    BY <2>1, <1>1, <1>4
  <2>2. CASE k # n + 1
    <3>1. k \in 1 .. n
      BY <2>2
    <3> QED
      BY <3>1, <1>1, <1>2
  <2> QED
    BY <2>1, <2>2
<1>6. \A k \in 2 .. n + 1 : Offset(got, k) < Len(t)
  <2> TAKE k \in 2 .. n + 1
  <2>1. CASE k = n + 1
    <3>1. n # 0
      BY <2>1
    <3> QED
      BY <2>1, <3>1, <1>4
  <2>2. CASE k # n + 1
    <3>1. k \in 2 .. n
      BY <2>2
    <3> QED
      BY <3>1, <1>2
  <2> QED
    BY <2>1, <2>2
<1>7. done + Minimum(Len(t) - done, ChunkSize) = Minimum(Len(t), Offset(got, n + 2))
  BY <1>l, <1>3, <1>4 DEF Minimum
<1>8. (n + 1) + 1 = n + 2
  OBVIOUS
<1> QED
  BY <1>1, <1>5, <1>6, <1>7, <1>8 DEF Coming, a

\* The receiver has taken a chunk.
LEMMA ComingTail ==
  ASSUME NEW S, NEW ms \in Seq(S), ms # <<>>, NEW t \in Texts,
         NEW got \in 0 .. Len(t), NEW done,
         Coming(ms, t, got, done)
  PROVE  /\ Head(ms).chunk = Chunk(t, got)
         /\ Coming(Tail(ms), t, got + Minimum(Len(t) - got, ChunkSize), done)
         /\ Tail(ms) # <<>> => got + Minimum(Len(t) - got, ChunkSize) < Len(t)
<1> DEFINE a == Tail(ms)
<1>0. PICK n \in Nat \ {0} : n = Len(ms)
  BY EmptySeq
<1>1. /\ Len(a) = n - 1 /\ Head(ms) = ms[1]
      /\ \A k \in 1 .. (n - 1) : a[k] = ms[k + 1]
  BY <1>0, HeadTailProperties
<1>e. a # <<>> => n > 1
  <2>1. a \in Seq(S)
    BY HeadTailProperties
  <2> HIDE DEF a
  <2>2. a # <<>> => Len(a) > 0
    BY <2>1
  <2> QED
    BY <2>2, <1>1
<1>l. Len(t) \in Nat
  BY DEF Texts
<1>g. got \in Nat
  BY <1>l
<1> HIDE DEF a
<1>2. /\ \A k \in 1 .. n : ms[k].chunk = Chunk(t, Offset(got, k))
      /\ \A k \in 2 .. n : Offset(got, k) < Len(t)
      /\ done = Minimum(Len(t), Offset(got, n + 1))
  BY <1>0 DEF Coming
<1> DEFINE new == got + Minimum(Len(t) - got, ChunkSize)
<1>3. Head(ms).chunk = Chunk(t, got)
  <2>1. ms[1].chunk = Chunk(t, Offset(got, 1))
    BY <1>2
  <2> QED
    BY <2>1, <1>g, <1>1, Offsets
<1>o. Offset(got, 2) = got + ChunkSize
  <2>1. 1 + 1 = 2 /\ 1 \in Nat \ {0}
    OBVIOUS
  <2> QED
    BY <2>1, <1>g, Offsets
<1>4. CASE n = 1
  <2>1. done = Minimum(Len(t), Offset(got, 2))
    BY <1>2, <1>4
  <2>2. new \in Nat /\ new <= Len(t) /\ done = new
    BY <2>1, <1>o, <1>g, <1>l DEF Minimum
  <2> HIDE DEF new
  <2>3. done = Minimum(Len(t), Offset(new, 1))
    BY <2>2, Offsets, <1>l DEF Minimum
  <2>4. Coming(a, t, new, done)
    <3>1. Len(a) = 0
      BY <1>1, <1>4
    <3> QED
      BY <2>3, <3>1 DEF Coming
  <2> QED
    BY <2>4, <1>e, <1>3, <1>4 DEF a, new
<1>5. CASE n > 1
  <2>1. Offset(got, 2) < Len(t)
    BY <1>2, <1>5
  <2>2. new = got + ChunkSize /\ new \in Nat /\ new < Len(t)
    BY <2>1, <1>o, <1>g, <1>l DEF Minimum
  <2> HIDE DEF new
  <2>3. \A k \in Nat \ {0} : Offset(new, k) = Offset(got, k + 1)
    BY <2>2, <1>g, Offsets
  <2>4. \A k \in 1 .. (n - 1) : a[k].chunk = Chunk(t, Offset(new, k))
    <3> TAKE k \in 1 .. (n - 1)
    <3>1. k + 1 \in 1 .. n /\ k \in Nat \ {0}
      OBVIOUS
    <3> QED
      BY <3>1, <2>3, <1>1, <1>2
  <2>5. \A k \in 2 .. (n - 1) : Offset(new, k) < Len(t)
    <3> TAKE k \in 2 .. (n - 1)
    <3>1. k + 1 \in 2 .. n /\ k \in Nat \ {0}
      OBVIOUS
    <3> QED
      BY <3>1, <2>3, <1>2
  <2>6. done = Minimum(Len(t), Offset(new, (n - 1) + 1))
    <3>1. (n - 1) + 1 = n
      OBVIOUS
    <3> QED
      BY <3>1, <2>3, <1>2
  <2>7. Coming(a, t, new, done)
    BY <2>4, <2>5, <2>6, <1>1 DEF Coming
  <2> QED
    BY <2>2, <2>7, <1>3 DEF a, new
<1> QED
  BY <1>4, <1>5

\* The sender is never behind the receiver, and when nothing is on its way they are
\* at the same place.
LEMMA ComingDone ==
  ASSUME NEW S, NEW ms \in Seq(S), NEW t \in Texts,
         NEW got \in 0 .. Len(t), NEW done, Coming(ms, t, got, done)
  PROVE  /\ done \in Nat /\ got <= done /\ done <= Len(t)
         /\ (ms = <<>>) => (done = got)
<1>1. PICK n \in Nat \ {0} : n = Len(ms) + 1
  OBVIOUS
<1>l. Len(t) \in Nat
  BY DEF Texts
<1>e. (ms = <<>>) => (n = 1)
  BY <1>1
<1>2. done = Minimum(Len(t), Offset(got, n))
  BY <1>1 DEF Coming
<1>3. /\ Offset(got, n) \in Nat /\ Offset(got, n) >= got
      /\ (n = 1) => (Offset(got, n) = got)
  <2>1. got \in Nat
    BY <1>l
  <2> QED
    BY <2>1, Offsets
<1> QED
  BY <1>e, <1>l, <1>2, <1>3 DEF Minimum

LEMMA NothingComing ==
  ASSUME NEW t \in Texts, NEW got \in 0 .. Len(t)
  PROVE  Coming(<<>>, t, got, got)
<1>1. Len(t) \in Nat /\ Len(<<>>) = 0
  BY DEF Texts
<1>2. Offset(got, 0 + 1) = got
  BY Offsets
<1> QED
  BY <1>1, <1>2 DEF Coming, Minimum

---------------------------------------------------------------------------
(* The inductive invariant *)

Status == {"ok", "error"}
Answers == [status : Status, text : Texts]
Locals == {s \in Seq(Answers) : Len(s) <= 1}
CommandMessages == [length : Nat, chunk : Chunks]
ResultMessages == [status : Status, size : Nat, chunk : Chunks]
Executions == [command : Texts, status : Status, text : Texts]
Sending == {p \in [status : Status, text : Texts, left : Nat] : p.left <= Len(p.text)}
Replies == [status : Status \cup {"none"}, remaining : Nat \cup {NoReply}, text : Texts]

\* The values of the variables
Typed ==
  /\ root \in [pc : {"idle", "sending", "gathering", "exiting", "exited"},
               number : 0 .. MaxCalls, text : Seq(CommandBytes), local : Locals]
  /\ sent \in 0 .. Len(root.text)
  /\ replies \in [Ranks -> Replies]
  /\ bcast \in [Ranks -> Seq(CommandMessages)]
  /\ event \in [Ranks -> Texts]
  /\ pump \in [Ranks -> BOOLEAN]
  /\ queue \in [Ranks -> Seq(Texts)]
  /\ main \in [Ranks -> {"running", "exited"}]
  /\ reply \in [Ranks -> Sending \cup {NoResult}]
  /\ results \in [Ranks -> Seq(ResultMessages)]
  /\ executed \in [Ranks -> Seq(Executions)]
  /\ result \in Answers

\* A rank puts the command t together: it has e, and ms are on their way of the
\* bytes the root has sent.
Assembling(t, done, ms, e) ==
  /\ e = SubSeq(t, 1, Len(e)) /\ Len(e) < Len(t)
  /\ Coming(ms, t, Len(e), done)
  /\ \A k \in 1 .. Len(ms) : ms[k].length = Len(t)

\* The answer a is on its way: the root has p of it, ms are its messages and `now'
\* what the rank is still sending.  A reply from which nothing is missing any more
\* is not confused with one of which nothing has come.
Sent(a, now) == IF now = NoResult THEN Len(a.text) ELSE Len(a.text) - now.left
Returning(a, p, ms, now) ==
  /\ p.text = SubSeq(a.text, 1, Len(p.text)) /\ Len(p.text) <= Len(a.text)
  /\ Coming(ms, a.text, Len(p.text), Sent(a, now))
  /\ \A k \in 1 .. Len(ms) : ms[k].status = a.status /\ ms[k].size = Len(a.text)
  /\ (p.remaining = NoReply) => p.text = <<>>
  /\ (p.remaining # NoReply) => /\ p.remaining = Len(a.text) - Len(p.text)
                                /\ p.status = a.status
  /\ (ms # <<>>) => p.remaining # 0
  /\ (now # NoResult) =>
       /\ now.status = a.status /\ now.text = a.text
       /\ (now.left = 0) => a.text = <<>> /\ ms = <<>> /\ p.remaining = NoReply
  /\ (now = NoResult /\ ms = <<>>) => p.remaining = 0

Fresh == [status |-> "none", remaining |-> NoReply, text |-> <<>>]
Running(r) == pump[r] /\ main[r] = "running"
Assembled(r) == bcast[r] = <<>> /\ event[r] = <<>>
Unanswered(r) == executed[r] = <<>> /\ reply[r] = NoResult /\ results[r] = <<>>
Receiving(r) ==
  /\ Assembling(root.text, sent, bcast[r], event[r])
  /\ queue[r] = <<>> /\ Unanswered(r)
Waiting(r) == Assembled(r) /\ queue[r] = <<root.text>> /\ Unanswered(r)
Answering(r) ==
  /\ Assembled(r) /\ queue[r] = <<>>
  /\ executed[r] # <<>> /\ executed[r] = <<executed[r][1]>>
  /\ executed[r][1].command = root.text
  /\ Returning(executed[r][1], replies[r], results[r], reply[r])
Quiet(r) ==
  /\ Assembled(r) /\ queue[r] = <<>> /\ reply[r] = NoResult /\ results[r] = <<>>

ExitChunk == [length |-> Len(Exit), chunk |-> Chunk(Exit, 0)]
Leaving(r) ==
  /\ event[r] = <<>> /\ reply[r] = NoResult /\ results[r] = <<>>
  /\ \/ queue[r] = <<>>
     \/ queue[r] = <<Exit>> /\ bcast[r] \in {<<>>, <<StopChunk>>}
  /\ bcast[r] \in {<<>>, <<ExitChunk>>, <<StopChunk>>, <<ExitChunk, StopChunk>>}
  /\ (root.pc = "exiting") => bcast[r] \in {<<>>, <<ExitChunk>>}

\* Where the root is with its command, and what then is each rank's
RootInv ==
  /\ InCall => root.text # <<>>
  /\ (root.pc = "sending") => sent < Len(root.text)
  /\ (root.pc = "gathering") => sent = Len(root.text)
RankInv(r) ==
  \/ root.pc = "idle" /\ Running(r) /\ Quiet(r)
  \/ root.pc = "sending" /\ Running(r) /\ Receiving(r)
  \/ /\ root.pc = "gathering" /\ Running(r)
     /\ (Receiving(r) \/ Waiting(r)) /\ replies[r] = Fresh
  \/ root.pc = "gathering" /\ Running(r) /\ Answering(r)
  \/ root.pc \in {"exiting", "exited"} /\ Leaving(r)

PumpInv == Typed /\ RootInv /\ \A r \in Ranks : RankInv(r)

---------------------------------------------------------------------------
(* What the steps do to a command and to an answer on their way *)

LEMMA TextLength ==
  ASSUME NEW t \in Texts
  PROVE  Len(t) \in Nat /\ (t # <<>> <=> Len(t) > 0)
BY EmptySeq DEF Texts

LEMMA Prefix ==
  ASSUME NEW t \in Texts, NEW n \in 0 .. Len(t)
  PROVE  /\ SubSeq(t, 1, n) \in Texts /\ Len(SubSeq(t, 1, n)) = n
         /\ (n = Len(t)) => SubSeq(t, 1, n) = t
         /\ (n = 0) => SubSeq(t, 1, n) = <<>>
<1>1. Len(t) \in Nat
  BY TextLength
<1>2. \A i \in 1 .. n : t[i] \in Bytes
  <2>1. \A i \in 1 .. Len(t) : t[i] \in Bytes
    BY DEF Texts
  <2> QED
    BY <1>1, <2>1
<1>3. SubSeq(t, 1, n) \in Texts /\ Len(SubSeq(t, 1, n)) = n
  BY <1>1, <1>2, SubSeqProperties DEF Texts
<1>4. (n = Len(t)) => SubSeq(t, 1, n) = t
  BY SubSeqFull DEF Texts
<1>5. (n = 0) => SubSeq(t, 1, n) = <<>>
  BY <1>3, TextLength
<1> QED
  BY <1>3, <1>4, <1>5

LEMMA AssemblingStart ==
  ASSUME NEW t \in Texts, t # <<>>
  PROVE  Assembling(t, 0, <<>>, <<>>)
<1>1. Len(t) \in Nat /\ Len(t) > 0 /\ Len(<<>>) = 0
  BY TextLength
<1>2. <<>> = SubSeq(t, 1, 0)
  BY <1>1, Prefix
<1>3. Coming(<<>>, t, 0, 0)
  BY <1>1, NothingComing
<1> QED
  BY <1>1, <1>2, <1>3 DEF Assembling

LEMMA AssemblingSend ==
  ASSUME NEW t \in Texts, NEW done \in Nat, done < Len(t),
         NEW ms \in Seq(CommandMessages), NEW e \in Texts,
         Assembling(t, done, ms, e)
  PROVE  Assembling(t, done + Minimum(Len(t) - done, ChunkSize),
                    Append(ms, [length |-> Len(t), chunk |-> Chunk(t, done)]), e)
<1> DEFINE m == [length |-> Len(t), chunk |-> Chunk(t, done)]
<1>1. Len(t) \in Nat /\ Len(e) \in Nat /\ Len(e) \in 0 .. Len(t) /\ done \in 0 .. Len(t)
  BY TextLength DEF Assembling
<1>2. m \in CommandMessages /\ m.chunk = Chunk(t, done) /\ m.length = Len(t)
  BY <1>1, ChunkType DEF CommandMessages
<1> HIDE DEF m
<1>3. Coming(Append(ms, m), t, Len(e), done + Minimum(Len(t) - done, ChunkSize))
  BY <1>1, <1>2, ComingAppend DEF Assembling
<1>4. \A k \in 1 .. Len(Append(ms, m)) : Append(ms, m)[k].length = Len(t)
  <2> PICK n \in Nat : n = Len(ms)
    OBVIOUS
  <2> DEFINE a == Append(ms, m)
  <2>1. Len(a) = n + 1 /\ (\A k \in 1 .. n : a[k] = ms[k]) /\ a[n + 1] = m
    BY <1>2, AppendProperties
  <2> HIDE DEF a
  <2>2. \A k \in 1 .. n : ms[k].length = Len(t)
    BY DEF Assembling
  <2>3. ASSUME NEW k \in 1 .. n + 1
        PROVE  a[k].length = Len(t)
    <3>1. CASE k = n + 1
      BY <3>1, <2>1, <1>2
    <3>2. CASE k # n + 1
      <4>1. k \in 1 .. n
        BY <3>2
      <4> QED
        BY <4>1, <2>1, <2>2
    <3> QED
      BY <3>1, <3>2
  <2> QED
    BY <2>1, <2>3 DEF a
<1> QED
  BY <1>3, <1>4 DEF Assembling, m

LEMMA AssemblingReceive ==
  ASSUME NEW t \in Texts, NEW done, NEW ms \in Seq(CommandMessages), ms # <<>>,
         NEW e \in Texts, Assembling(t, done, ms, e)
  PROVE  LET text == Appended(e, Head(ms))
         IN  /\ Head(ms).length = Len(t)
             /\ (Len(text) = Len(t)) => text = t /\ Tail(ms) = <<>> /\ done = Len(t)
             /\ (Len(text) # Len(t)) => Assembling(t, done, Tail(ms), text)
<1> DEFINE text == Appended(e, Head(ms))
           n == Minimum(Len(t) - Len(e), ChunkSize)
           got == Len(e) + n
<1>1. Len(t) \in Nat /\ Len(e) \in 0 .. Len(t) /\ e = SubSeq(t, 1, Len(e))
  BY TextLength DEF Assembling
<1>2. /\ Head(ms).length = Len(t) /\ Head(ms).chunk = Chunk(t, Len(e))
      /\ Coming(Tail(ms), t, got, done)
      /\ Tail(ms) # <<>> => got < Len(t)
      /\ Tail(ms) \in Seq(CommandMessages)
      /\ \A k \in 1 .. Len(Tail(ms)) : Tail(ms)[k].length = Len(t)
  <2>1. Head(ms) = ms[1] /\ 1 \in 1 .. Len(ms)
    BY EmptySeq
  <2>2. /\ Tail(ms) \in Seq(CommandMessages)
        /\ \A k \in 1 .. Len(Tail(ms)) : Tail(ms)[k] = ms[k + 1] /\ k + 1 \in 1 .. Len(ms)
    BY HeadTailProperties
  <2> QED
    BY <1>1, <2>1, <2>2, ComingTail DEF Assembling
<1>3. n \in Nat
  BY <1>1 DEF Minimum
<1>4. text = SubSeq(t, 1, got) /\ got \in 0 .. Len(t)
  <2>1. text = e \o SubSeq(Chunk(t, Len(e)), 1, n)
    BY <1>2 DEF Appended
  <2> HIDE DEF n, text
  <2>2. got \in 0 .. Len(t) /\ SubSeq(t, 1, Len(e)) \o SubSeq(Chunk(t, Len(e)), 1, n) = SubSeq(t, 1, got)
    BY <1>1, <1>3, ChunkAppended DEF n
  <2> QED
    BY <2>1, <2>2, <1>1
<1> HIDE DEF text, got, n
<1>5. Len(text) = got /\ (got = Len(t) => text = t)
  BY <1>4, Prefix
<1>6. CASE got = Len(t)
  <2>1. Tail(ms) = <<>>
    BY <1>1, <1>2, <1>6
  <2>2. done = got
    BY <1>2, <1>4, <2>1, ComingDone
  <2> QED
    BY <1>2, <1>5, <1>6, <2>1, <2>2 DEF text
<1>7. CASE got # Len(t)
  <2>1. Len(text) < Len(t)
    BY <1>1, <1>4, <1>5, <1>7
  <2>2. Assembling(t, done, Tail(ms), text)
    BY <1>2, <1>4, <1>5, <2>1 DEF Assembling
  <2> QED
    BY <1>2, <1>5, <1>7, <2>2 DEF text
<1> QED
  BY <1>6, <1>7

LEMMA ReturningStart ==
  ASSUME NEW a \in Executions
  PROVE  Returning(a, Fresh, <<>>, [status |-> a.status, text |-> a.text, left |-> Len(a.text)])
<1> DEFINE now == [status |-> a.status, text |-> a.text, left |-> Len(a.text)]
<1>1. a.text \in Texts /\ a.status \in Status /\ Len(a.text) \in Nat
  BY TextLength DEF Executions
<1>2. now # NoResult /\ now.left = Len(a.text) /\ now.status = a.status /\ now.text = a.text
  BY <1>1 DEF NoResult, NoReply
<1>3. Fresh.text = <<>> /\ Fresh.remaining = NoReply /\ Len(<<>>) = 0 /\ NoReply # 0
  BY DEF Fresh, NoReply
<1>4. Sent(a, now) = 0
  BY <1>1, <1>2 DEF Sent
<1>5. <<>> = SubSeq(a.text, 1, 0) /\ Coming(<<>>, a.text, 0, 0)
  BY <1>1, Prefix, NothingComing
<1>6. now.left = 0 => a.text = <<>>
  BY <1>1, <1>2, TextLength
<1> HIDE DEF now
<1>7. Returning(a, Fresh, <<>>, now)
  BY <1>1, <1>2, <1>3, <1>4, <1>5, <1>6 DEF Returning
<1> QED
  BY <1>7 DEF now

\* sendCommandResult sends another message.
LEMMA ReturningSend ==
  ASSUME NEW a \in Executions, NEW p \in Replies, NEW ms \in Seq(ResultMessages),
         NEW now \in Sending, Returning(a, p, ms, now)
  PROVE  LET left == now.left - Minimum(now.left, ChunkSize)
             m == [status |-> now.status, size |-> Len(now.text),
                   chunk |-> Chunk(now.text, Len(now.text) - now.left)]
             next == IF More(left) THEN [now EXCEPT !.left = left] ELSE NoResult
         IN  /\ m \in ResultMessages /\ next \in Sending \cup {NoResult}
             /\ Returning(a, p, Append(ms, m), next)
<1> DEFINE left == now.left - Minimum(now.left, ChunkSize)
           m == [status |-> now.status, size |-> Len(now.text),
                 chunk |-> Chunk(now.text, Len(now.text) - now.left)]
           next == IF More(left) THEN [now EXCEPT !.left = left] ELSE NoResult
           got == Len(p.text)
           done == Len(a.text) - now.left
<1>1. /\ a.text \in Texts /\ a.status \in Status /\ Len(a.text) \in Nat
      /\ p.text \in Texts /\ got \in 0 .. Len(a.text)
      /\ p.text = SubSeq(a.text, 1, got)
  BY TextLength DEF Executions, Replies, Returning
<1>2. now # NoResult
  BY DEF Sending, NoResult, NoReply, Status
<1>3. /\ now.status = a.status /\ now.text = a.text
      /\ now.left \in Nat /\ now.left <= Len(a.text) /\ done \in 0 .. Len(a.text)
      /\ (now.left = 0) => a.text = <<>> /\ ms = <<>> /\ p.remaining = NoReply
  <2>1. now.status = a.status /\ now.text = a.text
    BY <1>2 DEF Returning
  <2>2. now.left \in Nat /\ now.left <= Len(a.text)
    BY <2>1 DEF Sending
  <2> QED
    BY <1>1, <1>2, <2>1, <2>2 DEF Returning
<1>4. Coming(ms, a.text, got, done)
  BY <1>2 DEF Returning, Sent
<1>5. m \in ResultMessages /\ m.chunk = Chunk(a.text, done) /\ m.status = a.status /\ m.size = Len(a.text)
  BY <1>1, <1>3, ChunkType DEF ResultMessages
<1>6. left \in Nat /\ left <= now.left /\ Len(a.text) - left = done + Minimum(Len(a.text) - done, ChunkSize)
  BY <1>1, <1>3 DEF Minimum
<1>7. /\ next \in Sending \cup {NoResult}
      /\ (left > 0) => /\ next # NoResult /\ next.left = left
                       /\ next.status = a.status /\ next.text = a.text
      /\ (left = 0) => next = NoResult
  <2>1. CASE left > 0
    <3>1. next = [now EXCEPT !.left = left]
      BY <2>1 DEF More
    <3>2. [now EXCEPT !.left = left] \in Sending
      BY <1>3, <1>6, SMTT(30) DEF Sending
    <3>3. next.left = left /\ next.status = a.status /\ next.text = a.text
      BY <3>1, <1>3 DEF Sending
    <3>4. next # NoResult
      BY <3>1, <3>2 DEF Sending, NoResult, Status
    <3> QED
      BY <3>1, <3>2, <3>3, <3>4, <2>1
  <2>2. CASE left = 0
    BY <2>2 DEF More
  <2> QED
    BY <2>1, <2>2, <1>6
<1>8. Sent(a, next) = Len(a.text) - left
  BY <1>6, <1>7, <1>1 DEF Sent
<1> HIDE DEF m, left, next, done
<1>9. Coming(Append(ms, m), a.text, got, Len(a.text) - left)
  <2>1. done < Len(a.text) \/ ms = <<>>
    BY <1>1, <1>3 DEF done
  <2> QED
    BY <1>1, <1>3, <1>4, <1>5, <1>6, <2>1, ComingAppend
<1>10. \A k \in 1 .. Len(Append(ms, m)) :
         Append(ms, m)[k].status = a.status /\ Append(ms, m)[k].size = Len(a.text)
  <2> PICK n \in Nat : n = Len(ms)
    OBVIOUS
  <2> DEFINE b == Append(ms, m)
  <2>1. Len(b) = n + 1 /\ (\A k \in 1 .. n : b[k] = ms[k]) /\ b[n + 1] = m
    BY <1>5, AppendProperties
  <2> HIDE DEF b
  <2>2. \A k \in 1 .. n : ms[k].status = a.status /\ ms[k].size = Len(a.text)
    BY DEF Returning
  <2>3. ASSUME NEW k \in 1 .. n + 1
        PROVE  b[k].status = a.status /\ b[k].size = Len(a.text)
    <3>1. CASE k = n + 1
      BY <3>1, <2>1, <1>5
    <3>2. CASE k # n + 1
      <4>1. k \in 1 .. n
        BY <3>2
      <4> QED
        BY <4>1, <2>1, <2>2
    <3> QED
      BY <3>1, <3>2
  <2> QED
    BY <2>1, <2>3 DEF b
<1>11. p.remaining # 0 /\ Append(ms, m) # <<>>
  <2>1. Append(ms, m) # <<>>
    BY <1>5, AppendProperties
  <2>2. CASE p.remaining = NoReply
    BY <2>2 DEF NoReply
  <2>3. CASE p.remaining # NoReply
    <3>1. now.left # 0 /\ p.remaining = Len(a.text) - got
      BY <2>3, <1>3 DEF Returning
    <3>2. got <= done
      BY <1>1, <1>4, ComingDone
    <3> QED
      BY <3>1, <3>2, <2>1, <1>1, <1>3 DEF done
  <2> QED
    BY <2>1, <2>2, <2>3
<1>12. Returning(a, p, Append(ms, m), next)
  <2>1. (next # NoResult) => left > 0
    BY <1>6, <1>7
  <2>2. Coming(Append(ms, m), a.text, got, Sent(a, next))
    BY <1>8, <1>9
  <2>3. (p.remaining = NoReply) => p.text = <<>>
    BY DEF Returning
  <2>4. (p.remaining # NoReply) => p.remaining = Len(a.text) - got /\ p.status = a.status
    BY DEF Returning
  <2> QED
    BY <1>1, <1>7, <1>10, <1>11, <2>1, <2>2, <2>3, <2>4 DEF Returning
<1> QED
  BY <1>5, <1>7, <1>12 DEF m, next, left

\* The root takes a message (fillResponse).
LEMMA ReturningGather ==
  ASSUME NEW a \in Executions, NEW p \in Replies, NEW ms \in Seq(ResultMessages), ms # <<>>,
         NEW now \in Sending \cup {NoResult}, Returning(a, p, ms, now)
  PROVE  /\ Filled(p, Head(ms)) \in Replies
         /\ Returning(a, Filled(p, Head(ms)), Tail(ms), now)
<1>N. PICK N \in Nat : N = Len(a.text)
  BY TextLength DEF Executions
<1>g. PICK got \in Nat : got = Len(p.text)
  BY TextLength DEF Replies
<1> DEFINE n == Minimum(N - got, ChunkSize)
           q == Filled(p, Head(ms))
<1>1. /\ a.text \in Texts /\ a.status \in Status /\ p.text \in Texts
      /\ p.text = SubSeq(a.text, 1, got)
  BY <1>g DEF Executions, Replies, Returning
<1>2. got <= N /\ got \in 0 .. Len(a.text)
  BY <1>N, <1>g DEF Returning
<1>3. /\ Coming(ms, a.text, got, Sent(a, now))
      /\ \A k \in 1 .. Len(ms) : ms[k].status = a.status /\ ms[k].size = N
      /\ p.remaining # 0
      /\ (p.remaining = NoReply) => got = 0
      /\ (p.remaining # NoReply) => p.remaining = N - got
  <2>1. (p.text = <<>>) => got = 0
    BY <1>g, <1>1, TextLength
  <2> QED
    BY <1>N, <1>g, <2>1 DEF Returning
<1>4. /\ Head(ms).status = a.status /\ Head(ms).size = N
      /\ Head(ms).chunk = Chunk(a.text, got)
      /\ Coming(Tail(ms), a.text, got + n, Sent(a, now))
      /\ Tail(ms) # <<>> => got + n < N
      /\ Tail(ms) \in Seq(ResultMessages)
      /\ \A k \in 1 .. Len(Tail(ms)) :
           Tail(ms)[k].status = a.status /\ Tail(ms)[k].size = N
  <2>1. Head(ms) = ms[1] /\ 1 \in 1 .. Len(ms)
    BY EmptySeq
  <2>2. /\ Tail(ms) \in Seq(ResultMessages)
        /\ \A k \in 1 .. Len(Tail(ms)) : Tail(ms)[k] = ms[k + 1] /\ k + 1 \in 1 .. Len(ms)
    BY HeadTailProperties
  <2>3. /\ Head(ms).chunk = Chunk(a.text, got)
        /\ Coming(Tail(ms), a.text, got + n, Sent(a, now))
        /\ Tail(ms) # <<>> => got + n < N
    BY <1>N, <1>1, <1>2, <1>3, ComingTail
  <2> QED
    BY <1>3, <2>1, <2>2, <2>3
<1>5. n \in Nat /\ got + n <= N
  BY <1>2 DEF Minimum
<1>6. (IF p.remaining = NoReply THEN Head(ms).size ELSE p.remaining) = N - got
  <2>1. CASE p.remaining = NoReply
    BY <2>1, <1>3, <1>4
  <2>2. CASE p.remaining # NoReply
    BY <2>2, <1>3
  <2> QED
    BY <2>1, <2>2
<1>7. /\ q.status = a.status
      /\ q.remaining = (N - got) - n
      /\ q.text = p.text \o SubSeq(Head(ms).chunk, 1, n)
      /\ q = [status |-> q.status, remaining |-> q.remaining, text |-> q.text]
  BY <1>4, <1>6 DEF Filled
<1> HIDE DEF q
<1>8. /\ got + n \in 0 .. Len(a.text)
      /\ SubSeq(a.text, 1, got) \o SubSeq(Chunk(a.text, got), 1, n) = SubSeq(a.text, 1, got + n)
  BY <1>N, <1>1, <1>2, <1>5, ChunkAppended
<1> HIDE DEF n
<1>9. q.text = SubSeq(a.text, 1, got + n)
  BY <1>1, <1>4, <1>7, <1>8
<1>10. q.text \in Texts /\ Len(q.text) = got + n
  BY <1>1, <1>8, <1>9, Prefix
<1>11. q.remaining = N - (got + n) /\ q.remaining \in Nat
  BY <1>2, <1>5, <1>7, SMTT(30)
<1>12. q \in Replies
  BY <1>1, <1>7, <1>10, <1>11 DEF Replies
<1>13. (Tail(ms) # <<>>) => q.remaining # 0
  BY <1>4, <1>5, <1>11
<1>14. (now = NoResult /\ Tail(ms) = <<>>) => q.remaining = 0
  <2> SUFFICES ASSUME now = NoResult, Tail(ms) = <<>>
               PROVE  q.remaining = 0
    OBVIOUS
  <2>1. Sent(a, now) = N
    BY <1>N DEF Sent
  <2>2. Sent(a, now) = got + n
    BY <1>1, <1>4, <1>8, ComingDone
  <2> QED
    BY <1>5, <1>11, <2>1, <2>2
<1>15. now # NoResult => /\ now.status = a.status /\ now.text = a.text
                         /\ now.left # 0
  BY DEF Returning
<1>16. NoReply \notin Nat
  BY DEF NoReply
<1>17. /\ q.text = SubSeq(a.text, 1, Len(q.text)) /\ Len(q.text) <= Len(a.text)
       /\ Coming(Tail(ms), a.text, Len(q.text), Sent(a, now))
       /\ q.remaining = Len(a.text) - Len(q.text)
       /\ \A k \in 1 .. Len(Tail(ms)) :
            Tail(ms)[k].status = a.status /\ Tail(ms)[k].size = Len(a.text)
  <2>1. got + n <= N
    BY <1>5
  <2> QED
    BY <1>N, <1>4, <1>9, <1>10, <1>11, <2>1
<1>18. q.remaining # NoReply
  BY <1>11, <1>16
<1>19. Returning(a, q, Tail(ms), now)
  BY <1>7, <1>13, <1>14, <1>15, <1>17, <1>18 DEF Returning
<1> QED
  BY <1>12, <1>19 DEF q

\* A reply from which nothing is missing is the whole answer, and nothing more of it
\* comes.
LEMMA ReturningDone ==
  ASSUME NEW a \in Executions, NEW p \in Replies, NEW ms \in Seq(ResultMessages),
         NEW now \in Sending \cup {NoResult}, Returning(a, p, ms, now), p.remaining = 0
  PROVE  ms = <<>> /\ now = NoResult /\ p.status = a.status /\ p.text = a.text
<1>1. /\ a.text \in Texts /\ Len(a.text) \in Nat
      /\ Len(p.text) \in 0 .. Len(a.text) /\ p.text = SubSeq(a.text, 1, Len(p.text))
  BY TextLength DEF Executions, Replies, Returning
<1>2. p.remaining # NoReply
  BY DEF NoReply
<1>3. Len(p.text) = Len(a.text) /\ p.status = a.status /\ ms = <<>>
  <2>1. 0 = Len(a.text) - Len(p.text) /\ p.status = a.status /\ ms = <<>>
    BY <1>2 DEF Returning
  <2> QED
    BY <2>1, <1>1
<1>4. p.text = a.text
  BY <1>1, <1>3, Prefix
<1>5. Coming(ms, a.text, Len(a.text), Sent(a, now))
  BY <1>3 DEF Returning
<1>6. Sent(a, now) >= Len(a.text)
  BY <1>1, <1>5, ComingDone
<1>7. now = NoResult
  <2> SUFFICES ASSUME now # NoResult
               PROVE  FALSE
    OBVIOUS
  <2>1. now.left \in Nat /\ Sent(a, now) = Len(a.text) - now.left
    BY DEF Sending, Sent
  <2>2. now.left # 0
    BY <1>2 DEF Returning
  <2> QED
    BY <1>1, <1>6, <2>1, <2>2
<1> QED
  BY <1>3, <1>4, <1>7

---------------------------------------------------------------------------
(* The texts of commands and answers *)

\* No command the user enters is taken for the one that exits.
LEMMA CommandTexts ==
  ASSUME NEW t \in Seq(CommandBytes)
  PROVE  t \in Texts /\ (t # <<>> => t # Exit)
<1>1. CommandBytes \subseteq Bytes
  BY DEF Bytes
<1>2. t \in Texts
  BY <1>1, SeqMonotonic DEF Texts
<1>3. ASSUME t = Exit
      PROVE  FALSE
  <2>1. t[1] \in CommandBytes
    <3>1. Len(t) = 1
      BY <1>3 DEF Exit
    <3> QED
      BY <3>1, ElementOfSeq
  <2>2. t[1] = <<"exit", 1>>
    BY <1>3 DEF Exit
  <2> QED
    BY <2>1, <2>2 DEF CommandBytes
<1> QED
  BY <1>2, <1>3

LEMMA CommandTextType ==
  ASSUME NEW n \in Nat, NEW size \in Nat \ {0}
  PROVE  /\ CommandText(n, size) \in Seq(CommandBytes)
         /\ CommandText(n, size) # <<>> /\ Len(CommandText(n, size)) > 0
<1> DEFINE t == CommandText(n, size)
<1>1. t \in [1 .. size -> CommandBytes]
  BY DEF CommandText, CommandBytes
<1>2. t \in Seq(CommandBytes) /\ Len(t) = size
  BY <1>1
<1> QED
  BY <1>2, EmptySeq

LEMMA OutcomeType ==
  ASSUME NEW r \in Nat, NEW n \in Nat, NEW o \in Outcomes(r, n)
  PROVE  o \in Answers
<1>1. PICK s \in {"ok", "error"}, size \in ResultSizes :
        o = [status |-> s, text |-> AnswerText(r, n, size)]
  BY DEF Outcomes
<1>2. size \in Nat
  OBVIOUS
<1>3. AnswerText(r, n, size) \in [1 .. size -> Bytes]
  BY <1>2 DEF AnswerText, AnswerBytes, Bytes
<1>4. AnswerText(r, n, size) \in Texts
  BY <1>2, <1>3 DEF Texts
<1> QED
  BY <1>1, <1>4 DEF Answers, Status

LEMMA ExitMessages ==
  /\ Exit \in Texts /\ Len(Exit) = 1
  /\ ExitChunk \in CommandMessages /\ StopChunk \in CommandMessages
  /\ ExitChunk # StopChunk /\ ExitChunk.length = 1 /\ StopChunk.length = 0
  /\ Appended(<<>>, ExitChunk) = Exit
<1>1. Exit \in Texts /\ Len(Exit) = 1 /\ <<>> \in Texts /\ Len(<<>>) = 0
  BY DEF Exit, Texts, Bytes
<1>2. ExitChunk \in CommandMessages /\ StopChunk \in CommandMessages
  BY <1>1, ChunkType DEF ExitChunk, StopChunk, CommandMessages
<1>3. ExitChunk.length = 1 /\ StopChunk.length = 0
  BY <1>1 DEF ExitChunk, StopChunk
<1>4. Appended(<<>>, ExitChunk) = Exit
  <2>1. Minimum(1 - 0, ChunkSize) = 1
    BY DEF Minimum
  <2>2. Appended(<<>>, ExitChunk) = <<>> \o SubSeq(Chunk(Exit, 0), 1, 1)
    BY <1>1, <2>1 DEF Appended, ExitChunk
  <2>3. SubSeq(Exit, 1, 0) \o SubSeq(Chunk(Exit, 0), 1, 1) = SubSeq(Exit, 1, 1)
    BY <1>1, <2>1, ChunkAppended
  <2> QED
    BY <1>1, <2>2, <2>3, Prefix
<1> QED
  BY <1>1, <1>2, <1>3, <1>4

---------------------------------------------------------------------------
(* The types *)

LEMMA BroadcastTyped ==
  ASSUME Typed, NEW m \in CommandMessages, Broadcast(m)
  PROVE  bcast' \in [Ranks -> Seq(CommandMessages)]
<1>1. \A r \in Ranks : Append(bcast[r], m) \in Seq(CommandMessages)
  BY AppendProperties DEF Typed
<1> QED
  BY <1>1 DEF Broadcast

LEMMA CallTyped ==
  ASSUME Typed, Call
  PROVE  Typed'
<1>1. PICK size \in CommandSizes, local \in {<<>>} \cup {<<o>> : o \in Outcomes(0, root.number + 1)} :
        root' = [pc |-> "sending", number |-> root.number + 1,
                 text |-> CommandText(root.number + 1, size), local |-> local]
  BY DEF Call
<1>2. /\ root.number \in 0 .. MaxCalls /\ root.number + 1 \in 0 .. MaxCalls
      /\ root.number + 1 \in Nat
  BY DEF Typed, Call
<1>3. CommandText(root.number + 1, size) \in Seq(CommandBytes)
  BY <1>2, CommandTextType
<1>4. local \in Locals
  <2>1. CASE local = <<>>
    BY <2>1 DEF Locals
  <2>2. CASE local # <<>>
    <3>1. PICK o \in Outcomes(0, root.number + 1) : local = <<o>>
      BY <2>2
    <3>2. o \in Answers
      BY <1>2, <3>1, OutcomeType
    <3>3. <<o>> \in Seq(Answers) /\ Len(<<o>>) = 1
      BY <3>2
    <3> QED
      BY <3>1, <3>3 DEF Locals
  <2> QED
    BY <2>1, <2>2
<1>5. root' \in [pc : {"idle", "sending", "gathering", "exiting", "exited"},
                 number : 0 .. MaxCalls, text : Seq(CommandBytes), local : Locals]
  BY <1>1, <1>2, <1>3, <1>4
<1>6. sent' \in 0 .. Len(root'.text)
  <2>1. Len(root'.text) \in Nat
    BY <1>1, <1>3
  <2> QED
    BY <2>1 DEF Call
<1>7. executed' \in [Ranks -> Seq(Executions)]
  BY DEF Call
<1> QED
  BY <1>5, <1>6, <1>7 DEF Typed, Call

LEMMA SendChunkTyped ==
  ASSUME Typed, RootInv, SendChunk
  PROVE  Typed'
<1> DEFINE m == [length |-> Len(root.text), chunk |-> Chunk(root.text, sent)]
           n == Minimum(Len(root.text) - sent, ChunkSize)
<1>1. /\ root.text \in Seq(CommandBytes) /\ root.text \in Texts /\ Len(root.text) \in Nat
      /\ sent \in Nat /\ sent <= Len(root.text)
  BY CommandTexts DEF Typed
<1>2. m \in CommandMessages
  BY <1>1, ChunkType DEF CommandMessages
<1>3. bcast' \in [Ranks -> Seq(CommandMessages)]
  BY <1>2, BroadcastTyped DEF SendChunk
<1>4. sent + n \in 0 .. Len(root.text)
  BY <1>1 DEF Minimum
<1>5. sent' = sent + n
  BY DEF SendChunk
<1>6. /\ root' \in [pc : {"idle", "sending", "gathering", "exiting", "exited"},
                    number : 0 .. MaxCalls, text : Seq(CommandBytes), local : Locals]
      /\ root'.text = root.text
  BY DEF SendChunk, Typed
<1>7. replies' \in [Ranks -> Replies]
  <2>1. Fresh \in Replies
    BY EmptySeq DEF Fresh, Replies, Texts
  <2>2. replies' = replies \/ replies' = [r \in Ranks |-> Fresh]
    BY DEF SendChunk, Fresh
  <2> QED
    BY <2>1, <2>2 DEF Typed
<1> QED
  BY <1>3, <1>4, <1>5, <1>6, <1>7 DEF SendChunk, rankVars, Typed

LEMMA GatherTyped ==
  ASSUME Typed, Gather,
         \A r \in Ranks : results[r] # <<>> => Filled(replies[r], Head(results[r])) \in Replies
  PROVE  Typed'
<1>1. PICK r \in Ranks : /\ results[r] # <<>>
                         /\ replies' = [replies EXCEPT ![r] = Filled(@, Head(results[r]))]
                         /\ results' = [results EXCEPT ![r] = Tail(@)]
  BY DEF Gather
<1>2. replies' \in [Ranks -> Replies]
  BY <1>1 DEF Typed
<1>3. results' \in [Ranks -> Seq(ResultMessages)]
  <2>1. Tail(results[r]) \in Seq(ResultMessages)
    BY <1>1, HeadTailProperties DEF Typed
  <2> QED
    BY <1>1, <2>1 DEF Typed
<1> QED
  BY <1>2, <1>3 DEF Gather, rankVars, Typed

LEMMA ReturnTyped ==
  ASSUME Typed, Return, result' \in Answers
  PROVE  Typed'
BY DEF Typed, Return, rankVars

LEMMA ExitTyped ==
  ASSUME Typed, BroadcastExit \/ StopCommandPump
  PROVE  Typed'
<1>1. PICK m \in CommandMessages : Broadcast(m)
  BY ExitMessages DEF BroadcastExit, StopCommandPump, ExitChunk
<1>2. bcast' \in [Ranks -> Seq(CommandMessages)]
  BY <1>1, BroadcastTyped
<1>3. /\ root' \in [pc : {"idle", "sending", "gathering", "exiting", "exited"},
                    number : 0 .. MaxCalls, text : Seq(CommandBytes), local : Locals]
      /\ root'.text = root.text
  BY DEF BroadcastExit, StopCommandPump, Typed
<1> QED
  BY <1>2, <1>3 DEF BroadcastExit, StopCommandPump, rankVars, Typed

LEMMA ReceiveChunkTyped ==
  ASSUME Typed, NEW r \in Ranks, ReceiveChunk(r)
  PROVE  Typed'
<1> DEFINE m == Head(bcast[r])
           text == Appended(event[r], m)
<1>1. m \in CommandMessages /\ Tail(bcast[r]) \in Seq(CommandMessages)
  BY HeadTailProperties DEF Typed, ReceiveChunk
<1>2. bcast' \in [Ranks -> Seq(CommandMessages)]
  BY <1>1 DEF Typed, ReceiveChunk
<1>3. text \in Texts
  <2>1. event[r] \in Seq(Bytes) /\ Len(event[r]) \in Nat
    BY DEF Typed, Texts
  <2>2. m.length \in Nat /\ m.chunk \in Chunks
    BY <1>1 DEF CommandMessages
  <2> DEFINE n == Minimum(m.length - Len(event[r]), ChunkSize)
  <2>3. n \in Int /\ n <= ChunkSize
    BY <2>1, <2>2 DEF Minimum
  <2>4. \A i \in 1 .. n : m.chunk[i] \in Bytes
    BY <2>2, <2>3 DEF Chunks
  <2>5. SubSeq(m.chunk, 1, n) \in Seq(Bytes)
    BY <2>3, <2>4, SubSeqProperties
  <2> HIDE DEF n
  <2>6. event[r] \o SubSeq(m.chunk, 1, n) \in Seq(Bytes)
    BY <2>1, <2>5, ConcatProperties
  <2> QED
    BY <2>6 DEF Appended, Texts, n
<1> HIDE DEF m, text
<1>4. /\ pump' \in [Ranks -> BOOLEAN] /\ event' \in [Ranks -> Texts]
      /\ queue' \in [Ranks -> Seq(Texts)]
  <2>1. <<>> \in Texts
    BY DEF Texts
  <2>2. pump' = pump \/ pump' = [pump EXCEPT ![r] = FALSE]
    BY DEF ReceiveChunk
  <2>3. \/ event' = event
        \/ event' = [event EXCEPT ![r] = text]
        \/ event' = [event EXCEPT ![r] = <<>>]
    BY DEF ReceiveChunk, NewEvent, text, m
  <2>4. queue' = queue \/ queue' = [queue EXCEPT ![r] = Append(@, text)]
    BY DEF ReceiveChunk, text, m
  <2>5. Append(queue[r], text) \in Seq(Texts)
    BY <1>3, AppendProperties DEF Typed
  <2>6. pump' \in [Ranks -> BOOLEAN]
    BY <2>2 DEF Typed
  <2>7. event' \in [Ranks -> Texts]
    BY <2>1, <2>3, <1>3 DEF Typed
  <2>8. queue' \in [Ranks -> Seq(Texts)]
    BY <2>4, <2>5 DEF Typed
  <2> QED
    BY <2>6, <2>7, <2>8
<1> QED
  BY <1>2, <1>4 DEF ReceiveChunk, rootVars, Typed

LEMMA EvaluateTyped ==
  ASSUME Typed, NEW r \in Ranks, Evaluate(r)
  PROVE  Typed'
<1> DEFINE text == Head(queue[r])
<1>1. text \in Texts /\ Tail(queue[r]) \in Seq(Texts)
  BY HeadTailProperties DEF Typed, Evaluate
<1>2. queue' \in [Ranks -> Seq(Texts)] /\ main' \in [Ranks -> {"running", "exited"}]
  BY <1>1 DEF Typed, Evaluate
<1>3. reply' \in [Ranks -> Sending \cup {NoResult}] /\ executed' \in [Ranks -> Seq(Executions)]
  <2>1. CASE text = Exit
    BY <2>1 DEF Typed, Evaluate
  <2>2. CASE text # Exit
    <3>1. PICK o \in Outcomes(r, root.number) :
            /\ reply' = [reply EXCEPT ![r] =
                 [status |-> o.status, text |-> o.text, left |-> Len(o.text)]]
            /\ executed' = [executed EXCEPT ![r] =
                 Append(@, [command |-> text, status |-> o.status, text |-> o.text])]
      BY <2>2 DEF Evaluate
    <3>2. r \in Nat /\ root.number \in Nat
      BY DEF Ranks, Typed
    <3>3. o.status \in Status /\ o.text \in Texts
      <4>1. o \in Answers
        BY <3>2, OutcomeType
      <4> QED
        BY <4>1 DEF Answers
    <3>4. [status |-> o.status, text |-> o.text, left |-> Len(o.text)] \in Sending
      <4>1. Len(o.text) \in Nat
        BY <3>3, TextLength
      <4> QED
        BY <3>3, <4>1 DEF Sending
    <3>5. [command |-> text, status |-> o.status, text |-> o.text] \in Executions
      BY <1>1, <3>3 DEF Executions
    <3> HIDE DEF text
    <3> DEFINE x == [command |-> text, status |-> o.status, text |-> o.text]
    <3> HIDE DEF x
    <3>6. Append(executed[r], x) \in Seq(Executions)
      BY <3>5, AppendProperties DEF Typed, x
    <3>7. executed' = [executed EXCEPT ![r] = Append(@, x)]
      BY <3>1 DEF x
    <3> QED
      BY <3>1, <3>4, <3>6, <3>7 DEF Typed
  <2> QED
    BY <2>1, <2>2
<1> QED
  BY <1>2, <1>3 DEF Evaluate, rootVars, Typed

LEMMA SendResultTyped ==
  ASSUME Typed, NEW r \in Ranks, SendResult(r)
  PROVE  Typed'
<1> DEFINE p == reply[r]
           left == p.left - Minimum(p.left, ChunkSize)
           m == [status |-> p.status, size |-> Len(p.text),
                 chunk |-> Chunk(p.text, Len(p.text) - p.left)]
           next == IF More(left) THEN [p EXCEPT !.left = left] ELSE NoResult
<1>1. p \in Sending
  BY DEF Typed, SendResult
<1>2. /\ p.status \in Status /\ p.text \in Texts /\ p.left \in Nat
      /\ Len(p.text) \in Nat /\ p.left <= Len(p.text)
  BY <1>1, TextLength DEF Sending
<1>3. m \in ResultMessages
  <2>1. Len(p.text) - p.left \in Nat
    BY <1>2
  <2> QED
    BY <1>2, <2>1, ChunkType DEF ResultMessages
<1>4. next \in Sending \cup {NoResult}
  <2>1. left \in Nat /\ left <= Len(p.text)
    BY <1>2 DEF Minimum
  <2> HIDE DEF left
  <2>2. [p EXCEPT !.left = left] \in Sending
    BY <1>1, <2>1 DEF Sending
  <2> QED
    BY <2>2
<1>5. /\ results' = [results EXCEPT ![r] = Append(@, m)]
      /\ reply' = [reply EXCEPT ![r] = next]
  BY DEF SendResult
<1> HIDE DEF m, next
<1>6. Append(results[r], m) \in Seq(ResultMessages)
  BY <1>3, AppendProperties DEF Typed
<1>7. results' \in [Ranks -> Seq(ResultMessages)] /\ reply' \in [Ranks -> Sending \cup {NoResult}]
  BY <1>4, <1>5, <1>6 DEF Typed
<1> QED
  BY <1>7 DEF SendResult, rootVars, Typed

---------------------------------------------------------------------------
(* The command of the root, and what each rank has of it *)

LEMMA RankUnchanged ==
  ASSUME NEW q \in Ranks, RankInv(q),
         root' = root, sent' = sent, replies'[q] = replies[q], bcast'[q] = bcast[q],
         event'[q] = event[q], pump'[q] = pump[q], queue'[q] = queue[q],
         main'[q] = main[q], reply'[q] = reply[q], results'[q] = results[q],
         executed'[q] = executed[q]
  PROVE  RankInv(q)'
BY DEF RankInv, Running, Quiet, Assembled, Receiving, Unanswered, Waiting, Answering, Leaving

LEMMA CallStep ==
  ASSUME Typed, \A r \in Ranks : RankInv(r), Call
  PROVE  RootInv' /\ \A r \in Ranks : RankInv(r)'
<1>1. PICK size \in CommandSizes, local \in {<<>>} \cup {<<o>> : o \in Outcomes(0, root.number + 1)} :
        root' = [pc |-> "sending", number |-> root.number + 1,
                 text |-> CommandText(root.number + 1, size), local |-> local]
  BY DEF Call
<1>2. /\ root'.pc = "sending" /\ root'.text \in Texts /\ root'.text # <<>>
      /\ sent' = 0 /\ 0 < Len(root'.text)
  <2>1. root.number + 1 \in Nat /\ size \in Nat \ {0}
    BY DEF Typed
  <2> QED
    BY <1>1, <2>1, CommandTextType, CommandTexts DEF Call
<1>3. RootInv'
  BY <1>2 DEF RootInv
<1>4. ASSUME NEW r \in Ranks
      PROVE  RankInv(r)'
  <2>1. Running(r) /\ Quiet(r)
    BY DEF RankInv, Call
  <2>2. Assembling(root'.text, sent', bcast'[r], event'[r])
    BY <1>2, <2>1, AssemblingStart DEF Call, Quiet, Assembled
  <2>3. Receiving(r)' /\ Running(r)'
    BY <2>1, <2>2 DEF Receiving, Unanswered, Quiet, Running, Call
  <2> QED
    BY <1>2, <2>3 DEF RankInv
<1> QED
  BY <1>3, <1>4

LEMMA SendChunkStep ==
  ASSUME Typed, RootInv, \A r \in Ranks : RankInv(r), SendChunk
  PROVE  RootInv' /\ \A r \in Ranks : RankInv(r)'
<1> DEFINE m == [length |-> Len(root.text), chunk |-> Chunk(root.text, sent)]
           n == Minimum(Len(root.text) - sent, ChunkSize)
<1>1. /\ root.text \in Texts /\ Len(root.text) \in Nat /\ sent \in Nat /\ sent < Len(root.text)
      /\ root.pc = "sending"
  <2>1. root.text \in Texts
    BY CommandTexts DEF Typed
  <2> QED
    BY <2>1, TextLength DEF Typed, RootInv, SendChunk
<1>2. bcast' = [r \in Ranks |-> Append(bcast[r], m)] /\ sent' = sent + n
  BY DEF SendChunk, Broadcast
<1>3. sent + n \in Nat /\ sent + n <= Len(root.text)
  BY <1>1 DEF Minimum
<1>4. /\ (sent + n = Len(root.text)) => /\ root' = [root EXCEPT !.pc = "gathering"]
                                        /\ replies' = [r \in Ranks |-> Fresh]
      /\ (sent + n # Len(root.text)) => root' = root
  BY DEF SendChunk, Fresh
<1>5. /\ root'.text = root.text
      /\ root'.pc = IF sent + n = Len(root.text) THEN "gathering" ELSE "sending"
  BY <1>1, <1>4 DEF Typed
<1>6. RootInv'
  <2>1. sent' <= Len(root.text) /\ sent' \in Nat
    BY <1>2, <1>3
  <2>2. root.text # <<>>
    BY <1>1 DEF RootInv, InCall
  <2>3. (root'.pc = "sending" => sent' < Len(root.text)) /\ (root'.pc = "gathering" => sent' = Len(root.text))
    BY <1>1, <1>2, <1>5, <2>1
  <2> QED
    BY <1>5, <2>2, <2>3 DEF RootInv, InCall
<1>7. ASSUME NEW r \in Ranks
      PROVE  RankInv(r)'
  <2>1. Running(r) /\ Receiving(r)
    BY <1>1 DEF RankInv
  <2>2. bcast[r] \in Seq(CommandMessages) /\ event[r] \in Texts
    BY DEF Typed
  <2>3. Assembling(root.text, sent + n, Append(bcast[r], m), event[r])
    BY <1>1, <2>1, <2>2, AssemblingSend DEF Receiving
  <2> HIDE DEF m, n
  <2>4. Assembling(root'.text, sent', bcast'[r], event'[r])
    BY <1>2, <1>5, <2>3 DEF SendChunk, rankVars
  <2>5. Receiving(r)' /\ Running(r)'
    BY <2>1, <2>4 DEF Receiving, Unanswered, Running, SendChunk, rankVars
  <2>6. CASE sent + n = Len(root.text)
    BY <1>4, <1>5, <2>5, <2>6 DEF RankInv
  <2>7. CASE sent + n # Len(root.text)
    BY <1>5, <2>5, <2>7 DEF RankInv
  <2> QED
    BY <2>6, <2>7
<1> QED
  BY <1>6, <1>7

\* Only a rank that has answered has messages for the root.
LEMMA Gathered ==
  ASSUME Typed, NEW r \in Ranks, RankInv(r), root.pc = "gathering",
         results[r] # <<>> \/ replies[r].remaining = 0
  PROVE  Answering(r) /\ Running(r) /\ executed[r][1] \in Executions
<1>1. Answering(r) /\ Running(r)
  <2>1. CASE results[r] # <<>>
    BY <2>1 DEF RankInv, Receiving, Waiting, Unanswered
  <2>2. CASE replies[r].remaining = 0
    <3>1. replies[r] # Fresh
      BY <2>2 DEF Fresh, NoReply
    <3> QED
      BY <3>1 DEF RankInv
  <2> QED
    BY <2>1, <2>2
<1>2. executed[r][1] \in Executions
  <2>1. executed[r] \in Seq(Executions) /\ executed[r] # <<>>
    BY <1>1 DEF Typed, Answering
  <2> QED
    BY <2>1, EmptySeq
<1> QED
  BY <1>1, <1>2

LEMMA GatherStep ==
  ASSUME Typed, RootInv, \A r \in Ranks : RankInv(r), Gather
  PROVE  Typed' /\ RootInv' /\ \A r \in Ranks : RankInv(r)'
<1>1. ASSUME NEW r \in Ranks, results[r] # <<>>
      PROVE  /\ Answering(r) /\ Running(r)
             /\ Filled(replies[r], Head(results[r])) \in Replies
             /\ Returning(executed[r][1], Filled(replies[r], Head(results[r])),
                          Tail(results[r]), reply[r])
  <2>1. Answering(r) /\ Running(r) /\ executed[r][1] \in Executions
    BY <1>1, Gathered DEF Gather
  <2>2. /\ replies[r] \in Replies /\ results[r] \in Seq(ResultMessages)
        /\ reply[r] \in Sending \cup {NoResult}
    BY DEF Typed
  <2> QED
    BY <1>1, <2>1, <2>2, ReturningGather DEF Answering
<1>2. Typed'
  BY <1>1, GatherTyped
<1>3. PICK r \in Ranks : /\ results[r] # <<>>
                         /\ replies' = [replies EXCEPT ![r] = Filled(@, Head(results[r]))]
                         /\ results' = [results EXCEPT ![r] = Tail(@)]
  BY DEF Gather
<1>4. RootInv'
  BY DEF RootInv, Gather, InCall
<1>5. ASSUME NEW q \in Ranks
      PROVE  RankInv(q)'
  <2>1. CASE q = r
    <3>1. /\ replies'[r] = Filled(replies[r], Head(results[r]))
          /\ results'[r] = Tail(results[r])
      BY <1>3 DEF Typed
    <3>2. Answering(r)' /\ Running(r)'
      BY <1>1, <1>3, <3>1 DEF Answering, Assembled, Running, Gather, rankVars
    <3> QED
      BY <2>1, <3>2 DEF RankInv, Gather
  <2>2. CASE q # r
    <3>1. replies'[q] = replies[q] /\ results'[q] = results[q]
      BY <1>3, <2>2 DEF Typed
    <3> QED
      BY <3>1, RankUnchanged DEF Gather, rankVars
  <2> QED
    BY <2>1, <2>2
<1> QED
  BY <1>2, <1>4, <1>5

\* When all replies are in, they are the answers of the ranks.
LEMMA RepliesAreAnswers ==
  ASSUME Typed, RootInv, \A r \in Ranks : RankInv(r), Return, NEW r \in Ranks
  PROVE  /\ Running(r) /\ Quiet(r) /\ executed[r] # <<>>
         /\ executed[r][1] \in Executions
         /\ replies[r].status = executed[r][1].status
         /\ replies[r].text = executed[r][1].text
<1>1. replies[r].remaining = 0 /\ root.pc = "gathering"
  BY DEF Return, AllRepliesIn
<1>2. Answering(r) /\ Running(r) /\ executed[r][1] \in Executions
  BY <1>1, Gathered
<1>3. /\ replies[r] \in Replies /\ results[r] \in Seq(ResultMessages)
      /\ reply[r] \in Sending \cup {NoResult}
  BY DEF Typed
<1>4. /\ results[r] = <<>> /\ reply[r] = NoResult
      /\ replies[r].status = executed[r][1].status
      /\ replies[r].text = executed[r][1].text
  BY <1>1, <1>2, <1>3, ReturningDone DEF Answering
<1> QED
  BY <1>2, <1>4 DEF Answering, Quiet

\* getStatusFrom finds the reply of the lowest rank that failed, or a longest reply.
LEMMA StatusFromAnswers ==
  ASSUME Typed, RootInv, \A r \in Ranks : RankInv(r), Return
  PROVE  \E r \in Ranks :
           LET a == executed[r][1]
           IN  /\ StatusFrom = [status |-> a.status, text |-> a.text]
               /\ \/ /\ a.status # "ok"
                     /\ \A q \in Ranks : q < r => executed[q][1].status = "ok"
                  \/ \A q \in Ranks : /\ executed[q][1].status = "ok"
                                      /\ Len(executed[q][1].text) <= Len(a.text)
<1>1. \A r \in Ranks : /\ executed[r][1] \in Executions
                       /\ replies[r].status = executed[r][1].status
                       /\ replies[r].text = executed[r][1].text
                       /\ Len(replies[r].text) \in Nat
  <2> TAKE r \in Ranks
  <2>1. /\ executed[r][1] \in Executions
        /\ replies[r].status = executed[r][1].status
        /\ replies[r].text = executed[r][1].text
    BY RepliesAreAnswers
  <2> QED
    BY <2>1, TextLength DEF Executions
<1> DEFINE failed == {r \in Ranks : replies[r].status # "ok"}
           longest == {r \in Ranks : \A q \in Ranks :
                         Len(replies[q].text) <= Len(replies[r].text)}
           First(S) == CHOOSE r \in S : \A q \in S : r <= q
           rank == First(IF failed # {} THEN failed ELSE longest)
<1>2. StatusFrom = [status |-> replies[rank].status, text |-> replies[rank].text]
  BY DEF StatusFrom
<1>3. ASSUME NEW S, S \subseteq Ranks, S # {}
      PROVE  First(S) \in S /\ \A q \in S : First(S) <= q
  <2>1. S \subseteq Nat
    BY <1>3 DEF Ranks
  <2>2. \E r \in S : \A q \in S : r <= q
    BY <1>3, <2>1, MinNat
  <2> QED
    BY <2>2
<1>4. longest # {} /\ longest \subseteq Ranks /\ failed \subseteq Ranks
  <2> DEFINE L == [r \in 1 .. NumRanks |-> Len(replies[r].text)]
  <2>1. L \in [1 .. NumRanks -> Nat]
    BY <1>1 DEF Ranks
  <2>2. \A r \in Ranks : L[r] = Len(replies[r].text)
    BY DEF Ranks
  <2> HIDE DEF L
  <2>3. \E r \in 1 .. NumRanks : \A q \in 1 .. NumRanks : L[q] <= L[r]
    BY <2>1, MaxOf
  <2> QED
    BY <2>2, <2>3 DEF Ranks
<1>5. CASE failed # {}
  <2>1. rank \in failed /\ \A q \in failed : rank <= q
    BY <1>3, <1>4, <1>5
  <2> HIDE DEF rank
  <2>2. rank \in Ranks /\ replies[rank].status # "ok"
    BY <2>1
  <2>3. \A q \in Ranks : q < rank => replies[q].status = "ok"
    <3> TAKE q \in Ranks
    <3>1. q \in Nat /\ rank \in Nat
      BY <2>2 DEF Ranks
    <3> QED
      BY <2>1, <3>1
  <2> HIDE DEF failed, longest
  <2>4. /\ StatusFrom = [status |-> executed[rank][1].status, text |-> executed[rank][1].text]
        /\ executed[rank][1].status # "ok"
        /\ \A q \in Ranks : q < rank => executed[q][1].status = "ok"
    BY <1>1, <1>2, <2>2, <2>3
  <2> QED
    BY <2>2, <2>4
<1>6. CASE failed = {}
  <2>1. rank \in longest
    BY <1>3, <1>4, <1>6
  <2> HIDE DEF rank
  <2>2. rank \in Ranks /\ \A q \in Ranks : Len(replies[q].text) <= Len(replies[rank].text)
    BY <2>1
  <2>3. \A q \in Ranks : replies[q].status = "ok"
    BY <1>6
  <2> HIDE DEF failed, longest
  <2>4. /\ StatusFrom = [status |-> executed[rank][1].status, text |-> executed[rank][1].text]
        /\ \A q \in Ranks : /\ executed[q][1].status = "ok"
                            /\ Len(executed[q][1].text) <= Len(executed[rank][1].text)
    BY <1>1, <1>2, <2>2, <2>3
  <2> QED
    BY <2>2, <2>4
<1> QED
  BY <1>5, <1>6

\* What returns is the status and result the answers call for.
LEMMA ReturnsResult ==
  ASSUME Typed, RootInv, \A r \in Ranks : RankInv(r), Return
  PROVE  result' \in Answers /\ Remote!IsResult(result', root.local)
<1> DEFINE s == StatusFrom
           local == root.local
<1>1. PICK r \in Ranks :
        /\ s = [status |-> executed[r][1].status, text |-> executed[r][1].text]
        /\ \/ /\ executed[r][1].status # "ok"
              /\ \A q \in Ranks : q < r => executed[q][1].status = "ok"
           \/ \A q \in Ranks : /\ executed[q][1].status = "ok"
                               /\ Len(executed[q][1].text) <= Len(executed[r][1].text)
  BY StatusFromAnswers
<1>2. \A q \in Ranks : executed[q][1] \in Executions /\ Len(executed[q][1].text) \in Nat
  <2> TAKE q \in Ranks
  <2>1. executed[q][1] \in Executions
    BY RepliesAreAnswers
  <2> QED
    BY <2>1, TextLength DEF Executions
<1>3. /\ local \in Locals /\ local \in Seq(Answers)
      /\ (local # <<>>) => /\ local[1] \in Answers /\ local = <<local[1]>>
                           /\ Len(local[1].text) \in Nat
  <2>1. local \in Seq(Answers) /\ Len(local) <= 1 /\ local \in Locals
    BY DEF Typed, Locals
  <2> HIDE DEF local
  <2>2. (local # <<>>) => Len(local) = 1
    <3>1. PICK n \in Nat : n = Len(local)
      BY <2>1
    <3>2. n <= 1
      BY <2>1, <3>1
    <3>3. (local # <<>>) => n # 0
      BY <2>1, <3>1, EmptySeq
    <3> QED
      BY <3>1, <3>2, <3>3
  <2>3. (local # <<>>) => local[1] \in Answers /\ local = <<local[1]>>
    BY <2>1, <2>2
  <2>4. (local # <<>>) => Len(local[1].text) \in Nat
    BY <2>3, TextLength DEF Answers
  <2> QED
    BY <2>1, <2>3, <2>4
<1>4. result' = Merged(s, local)
  BY DEF Return
<1> HIDE DEF s, local
<1>5. s \in Answers /\ s.status = executed[r][1].status /\ s.text = executed[r][1].text
  BY <1>1, <1>2 DEF Answers, Executions
<1>6. Remote!Remote(s)
  BY <1>1, <1>5 DEF Remote!Remote, Remote!Failed
<1>7. (s.status = "ok") => \A q \in Ranks : /\ executed[q][1].status = "ok"
                                            /\ Len(executed[q][1].text) <= Len(s.text)
  BY <1>1, <1>5
<1>8. CASE s.status # "ok" \/ local = <<>>
  <2>1. result' = s
    BY <1>4, <1>8 DEF Merged
  <2>2. Remote!IsResult(s, local)
    BY <1>6, <1>8 DEF Remote!IsResult, Remote!Failed
  <2> QED
    BY <1>5, <2>1, <2>2 DEF local
<1>9. CASE /\ s.status = "ok" /\ local # <<>>
           /\ local[1].status # "ok" \/ Len(local[1].text) > Len(s.text)
  <2> DEFINE l == local[1]
  <2>1. result' = l /\ local = <<l>> /\ l \in Answers
    BY <1>3, <1>4, <1>9 DEF Merged
  <2>2. \A q \in Ranks : ~ Remote!Failed(executed[q][1])
    BY <1>7, <1>9 DEF Remote!Failed
  <2>3. Remote!Failed(l) \/ \A q \in Ranks : Len(executed[q][1].text) < Len(l.text)
    <3>1. CASE l.status # "ok"
      BY <3>1 DEF Remote!Failed
    <3>2. CASE Len(l.text) > Len(s.text)
      <4>1. Len(s.text) \in Nat /\ Len(l.text) \in Nat
        BY <1>3, <1>5, <1>9, <1>2
      <4> QED
        BY <3>2, <4>1, <1>2, <1>7, <1>9
    <3> QED
      BY <1>9, <3>1, <3>2
  <2> HIDE DEF l
  <2>4. Remote!IsResult(l, local)
    BY <2>1, <2>2, <2>3 DEF Remote!IsResult
  <2> QED
    BY <2>1, <2>4 DEF local
<1>10. CASE /\ s.status = "ok" /\ local # <<>>
            /\ ~(local[1].status # "ok" \/ Len(local[1].text) > Len(s.text))
  <2>1. result' = s
    BY <1>4, <1>10 DEF Merged
  <2>2. local[1].status = "ok" /\ Len(local[1].text) <= Len(s.text)
    <3>1. Len(s.text) \in Nat /\ Len(local[1].text) \in Nat
      BY <1>2, <1>3, <1>5, <1>10
    <3> QED
      BY <3>1, <1>10
  <2>3. Remote!IsResult(s, local)
    BY <1>6, <2>2 DEF Remote!IsResult, Remote!Failed
  <2> QED
    BY <1>5, <2>1, <2>3 DEF local
<1> QED
  BY <1>8, <1>9, <1>10

LEMMA ReturnStep ==
  ASSUME Typed, RootInv, \A r \in Ranks : RankInv(r), Return
  PROVE  Typed' /\ RootInv' /\ \A r \in Ranks : RankInv(r)'
<1>1. Typed'
  BY ReturnsResult, ReturnTyped
<1>2. root'.pc = "idle"
  BY DEF Return, Typed
<1>3. RootInv'
  BY <1>2 DEF RootInv, InCall
<1>4. ASSUME NEW r \in Ranks
      PROVE  RankInv(r)'
  <2>1. Running(r) /\ Quiet(r)
    BY RepliesAreAnswers
  <2>2. Running(r)' /\ Quiet(r)'
    BY <2>1 DEF Running, Quiet, Assembled, Return, rankVars
  <2> QED
    BY <1>2, <2>2 DEF RankInv
<1> QED
  BY <1>1, <1>3, <1>4

LEMMA ShortSequences ==
  ASSUME NEW x, NEW y
  PROVE  Append(<<>>, x) = <<x>> /\ Append(<<y>>, x) = <<y, x>>
<1> DEFINE S == {x, y}
<1>1. /\ x \in S /\ y \in S /\ <<>> \in Seq(S) /\ Len(<<>>) = 0
      /\ <<x>> \in Seq(S) /\ <<y>> \in Seq(S) /\ <<y, x>> \in Seq(S)
      /\ Len(<<x>>) = 1 /\ Len(<<y>>) = 1 /\ Len(<<y, x>>) = 2
      /\ <<x>>[1] = x /\ <<y>>[1] = y /\ <<y, x>>[1] = y /\ <<y, x>>[2] = x
  OBVIOUS
<1> DEFINE a == Append(<<>>, x)
           b == Append(<<y>>, x)
           c == <<x>>
           d == <<y, x>>
<1>2. a \in Seq(S) /\ Len(a) = 0 + 1 /\ a[0 + 1] = x
  BY <1>1, AppendProperties
<1>3. b \in Seq(S) /\ Len(b) = 1 + 1 /\ b[1] = y /\ b[1 + 1] = x
  <2>1. 1 \in 1 .. Len(<<y>>)
    BY <1>1
  <2> QED
    BY <1>1, <2>1, AppendProperties
<1>4. c \in Seq(S) /\ Len(c) = 1 /\ c[1] = x /\ d \in Seq(S) /\ Len(d) = 2 /\ d[1] = y /\ d[2] = x
  BY <1>1
<1> HIDE DEF a, b, c, d, S
<1>5. a = c
  BY <1>2, <1>4, SeqEqual
<1>6. b = d
  BY <1>3, <1>4, SeqEqual
<1> QED
  BY <1>5, <1>6 DEF a, b, c, d

LEMMA ExitStep ==
  ASSUME Typed, \A r \in Ranks : RankInv(r), BroadcastExit \/ StopCommandPump
  PROVE  RootInv' /\ \A r \in Ranks : RankInv(r)'
<1>1. root'.pc \in {"exiting", "exited"}
  BY DEF BroadcastExit, StopCommandPump, Typed
<1>2. RootInv'
  BY <1>1 DEF RootInv, InCall
<1>3. ASSUME NEW r \in Ranks
      PROVE  RankInv(r)'
  <2>1. CASE BroadcastExit
    <3>1. Quiet(r)
      BY <2>1 DEF RankInv, BroadcastExit
    <3>2. bcast'[r] = <<ExitChunk>>
      <4>1. bcast'[r] = Append(bcast[r], ExitChunk) /\ bcast[r] = <<>>
        BY <2>1, <3>1 DEF BroadcastExit, Broadcast, ExitChunk, Quiet, Assembled
      <4> QED
        BY <4>1, ShortSequences
    <3>3. Leaving(r)'
      BY <2>1, <3>1, <3>2 DEF Leaving, Quiet, Assembled, BroadcastExit, rankVars
    <3> QED
      BY <1>1, <3>3 DEF RankInv
  <2>2. CASE StopCommandPump
    <3>1. Leaving(r) /\ bcast[r] \in {<<>>, <<ExitChunk>>}
      BY <2>2 DEF RankInv, StopCommandPump, Leaving
    <3>2. bcast'[r] = Append(bcast[r], StopChunk) /\ root'.pc = "exited"
      BY <2>2 DEF StopCommandPump, Broadcast, Typed
    <3>3. CASE bcast[r] = <<>>
      <4>1. bcast'[r] = <<StopChunk>>
        BY <3>2, <3>3, ShortSequences
      <4>2. Leaving(r)'
        BY <2>2, <3>1, <3>2, <4>1 DEF Leaving, StopCommandPump, rankVars
      <4> QED
        BY <1>1, <4>2 DEF RankInv
    <3>4. CASE bcast[r] = <<ExitChunk>>
      <4>1. bcast'[r] = <<ExitChunk, StopChunk>>
        BY <3>2, <3>4, ShortSequences
      <4>2. queue[r] = <<>>
        BY <3>1, <3>4, ExitMessages DEF Leaving
      <4>3. Leaving(r)'
        BY <2>2, <3>1, <3>2, <4>1, <4>2 DEF Leaving, StopCommandPump, rankVars
      <4> QED
        BY <1>1, <4>3 DEF RankInv
    <3> QED
      BY <3>1, <3>3, <3>4
  <2> QED
    BY <2>1, <2>2
<1> QED
  BY <1>2, <1>3

LEMMA ReceiveChunkStep ==
  ASSUME Typed, RootInv, \A q \in Ranks : RankInv(q), NEW r \in Ranks, ReceiveChunk(r)
  PROVE  RootInv' /\ \A q \in Ranks : RankInv(q)'
<1> DEFINE m == Head(bcast[r])
           text == Appended(event[r], m)
           t == root.text
<1>1. RootInv'
  BY DEF RootInv, InCall, ReceiveChunk, rootVars
<1>2. /\ bcast[r] # <<>> /\ bcast[r] \in Seq(CommandMessages) /\ event[r] \in Texts
      /\ t \in Texts
  BY CommandTexts DEF Typed, ReceiveChunk
<1>3. /\ bcast'[r] = Tail(bcast[r])
      /\ (m.length # 0 /\ Len(text) = m.length) =>
           queue'[r] = Append(queue[r], text) /\ event'[r] = <<>> /\ pump'[r] = pump[r]
      /\ (m.length # 0 /\ Len(text) # m.length) =>
           queue'[r] = queue[r] /\ event'[r] = text /\ pump'[r] = pump[r]
      /\ (m.length = 0) => queue'[r] = queue[r] /\ event'[r] = event[r]
      /\ UNCHANGED <<root, sent, replies, main, reply, executed, results>>
  BY DEF ReceiveChunk, Typed, NewEvent, rootVars
<1> HIDE DEF m, text
<1>4. ASSUME root.pc \in {"sending", "gathering"}, Running(r), Receiving(r),
             root.pc = "gathering" => replies[r] = Fresh
      PROVE  RankInv(r)'
  <2>1. Assembling(t, sent, bcast[r], event[r])
    BY <1>4 DEF Receiving
  <2>2. /\ m.length = Len(t)
        /\ (Len(text) = Len(t)) => text = t /\ Tail(bcast[r]) = <<>> /\ sent = Len(t)
        /\ (Len(text) # Len(t)) => Assembling(t, sent, Tail(bcast[r]), text)
    BY <1>2, <2>1, AssemblingReceive DEF m, text
  <2>3. m.length # 0
    BY <1>2, <1>4, <2>2, TextLength DEF RootInv, InCall
  <2>4. CASE Len(text) = Len(t)
    <3>1. root.pc = "gathering"
      <4>1. sent = Len(t) /\ Len(t) \in Nat
        BY <1>2, <2>2, <2>4, TextLength
      <4> QED
        BY <1>4, <4>1 DEF RootInv
    <3>2. queue'[r] = <<t>> /\ event'[r] = <<>> /\ bcast'[r] = <<>> /\ pump'[r] = pump[r]
      <4>1. queue[r] = <<>>
        BY <1>4 DEF Receiving
      <4> QED
        BY <1>3, <2>2, <2>3, <2>4, <4>1, ShortSequences
    <3>3. Waiting(r)' /\ Running(r)' /\ replies'[r] = Fresh /\ root'.pc = "gathering"
      BY <1>3, <1>4, <3>1, <3>2 DEF Waiting, Assembled, Unanswered, Receiving, Running
    <3> QED
      BY <3>3 DEF RankInv
  <2>5. CASE Len(text) # Len(t)
    <3>1. Receiving(r)' /\ Running(r)'
      BY <1>3, <1>4, <2>2, <2>3, <2>5 DEF Receiving, Unanswered, Running
    <3> QED
      BY <1>3, <1>4, <3>1 DEF RankInv
  <2> QED
    BY <2>4, <2>5
<1>5. ASSUME root.pc \in {"exiting", "exited"}, Leaving(r)
      PROVE  RankInv(r)'
  <2>1. event[r] = <<>>
    BY <1>5 DEF Leaving
  <2>2. CASE bcast[r] \in {<<ExitChunk>>, <<ExitChunk, StopChunk>>}
    <3>1. m = ExitChunk /\ Tail(bcast[r]) \in {<<>>, <<StopChunk>>}
          /\ (root.pc = "exiting" => Tail(bcast[r]) = <<>>)
      <4>1. CASE bcast[r] = <<ExitChunk>>
        BY <4>1 DEF m
      <4>2. CASE bcast[r] = <<ExitChunk, StopChunk>>
        <5>1. root.pc # "exiting"
          <6>1. bcast[r] # <<>> /\ bcast[r] # <<ExitChunk>>
            BY <4>2
          <6> QED
            BY <1>5, <6>1 DEF Leaving
        <5>2. Tail(bcast[r]) = <<StopChunk>> /\ Head(bcast[r]) = ExitChunk
          BY <4>2
        <5> QED
          BY <5>1, <5>2 DEF m
      <4> QED
        BY <2>2, <4>1, <4>2
    <3>2. text = Exit /\ Len(text) = m.length /\ m.length # 0
      BY <2>1, <3>1, ExitMessages DEF text
    <3>3. queue[r] = <<>>
      <4>1. bcast[r] \notin {<<>>, <<StopChunk>>}
        <5>1. bcast[r][1] = ExitChunk
          BY <2>2
        <5> QED
          BY <1>2, <5>1, ExitMessages
      <4> QED
        BY <1>5, <4>1 DEF Leaving
    <3>4. queue'[r] = <<Exit>> /\ event'[r] = <<>> /\ bcast'[r] = Tail(bcast[r])
      BY <1>3, <3>2, <3>3, ShortSequences
    <3>5. Leaving(r)'
      BY <1>3, <1>5, <3>1, <3>4 DEF Leaving
    <3> QED
      BY <1>3, <1>5, <3>5 DEF RankInv
  <2>3. CASE bcast[r] = <<StopChunk>>
    <3>1. m = StopChunk /\ Tail(bcast[r]) = <<>>
      BY <2>3 DEF m
    <3>2. m.length = 0
      BY <3>1, ExitMessages
    <3>3. queue'[r] = queue[r] /\ event'[r] = event[r] /\ bcast'[r] = <<>>
      BY <1>3, <3>1, <3>2
    <3>4. Leaving(r)'
      BY <1>3, <1>5, <3>3 DEF Leaving
    <3> QED
      BY <1>3, <1>5, <3>4 DEF RankInv
  <2> QED
    BY <1>2, <1>5, <2>2, <2>3 DEF Leaving
<1>6. RankInv(r)'
  BY <1>2, <1>4, <1>5 DEF RankInv, Quiet, Waiting, Answering, Assembled
<1>7. ASSUME NEW q \in Ranks, q # r
      PROVE  RankInv(q)'
  <2>1. /\ bcast'[q] = bcast[q] /\ event'[q] = event[q] /\ pump'[q] = pump[q]
        /\ queue'[q] = queue[q]
    BY <1>7 DEF ReceiveChunk, Typed
  <2> QED
    BY <1>3, <2>1, RankUnchanged
<1> QED
  BY <1>1, <1>6, <1>7

\* The main thread of a rank executes the root's command, or the one that exits.
LEMMA Evaluated ==
  ASSUME Typed, RootInv, NEW r \in Ranks, RankInv(r), Evaluate(r)
  PROVE  \/ /\ root.pc = "gathering" /\ Running(r) /\ Waiting(r) /\ replies[r] = Fresh
            /\ Head(queue[r]) = root.text /\ root.text # Exit
         \/ /\ root.pc \in {"exiting", "exited"} /\ Leaving(r)
            /\ queue[r] = <<Exit>> /\ Head(queue[r]) = Exit
<1>1. queue[r] # <<>>
  BY DEF Evaluate
<1>2. CASE root.pc = "gathering" /\ Running(r) /\ Waiting(r) /\ replies[r] = Fresh
  <2>1. root.text # Exit
    BY <1>2, CommandTexts DEF Typed, RootInv, InCall
  <2> QED
    BY <1>2, <2>1 DEF Waiting
<1>3. CASE root.pc \in {"exiting", "exited"} /\ Leaving(r)
  <2>1. queue[r] = <<Exit>>
    BY <1>1, <1>3 DEF Leaving
  <2> QED
    BY <1>3, <2>1
<1> QED
  BY <1>1, <1>2, <1>3 DEF RankInv, Quiet, Receiving, Answering

LEMMA EvaluateStep ==
  ASSUME Typed, RootInv, \A q \in Ranks : RankInv(q), NEW r \in Ranks, Evaluate(r)
  PROVE  RootInv' /\ \A q \in Ranks : RankInv(q)'
<1>1. RootInv' /\ UNCHANGED <<root, sent, replies, bcast, event, pump, results>>
  BY DEF RootInv, InCall, Evaluate, rootVars
<1>2. CASE /\ root.pc = "gathering" /\ Running(r) /\ Waiting(r) /\ replies[r] = Fresh
           /\ Head(queue[r]) = root.text /\ root.text # Exit
  <2>1. PICK o \in Outcomes(r, root.number) :
          /\ reply' = [reply EXCEPT ![r] =
               [status |-> o.status, text |-> o.text, left |-> Len(o.text)]]
          /\ executed' = [executed EXCEPT ![r] =
               Append(@, [command |-> root.text, status |-> o.status, text |-> o.text])]
          /\ main' = main
    BY <1>2 DEF Evaluate
  <2> DEFINE a == [command |-> root.text, status |-> o.status, text |-> o.text]
             now == [status |-> o.status, text |-> o.text, left |-> Len(o.text)]
  <2>2. a \in Executions
    <3>1. r \in Nat /\ root.number \in Nat /\ root.text \in Texts
      BY CommandTexts DEF Ranks, Typed
    <3>2. o \in Answers
      BY <3>1, OutcomeType
    <3> QED
      BY <3>1, <3>2 DEF Answers, Executions
  <2>3. /\ a.command = root.text
        /\ now = [status |-> a.status, text |-> a.text, left |-> Len(a.text)]
    OBVIOUS
  <2>4. reply'[r] = now /\ executed'[r] = Append(executed[r], a)
    BY <2>1 DEF Typed
  <2> HIDE DEF a, now
  <2>5. executed'[r] = <<a>>
    BY <1>2, <2>4, ShortSequences DEF Waiting, Unanswered
  <2>6. queue'[r] = <<>>
    BY <1>2 DEF Evaluate, Typed, Waiting
  <2>7. Returning(a, replies[r], results[r], reply'[r])
    BY <1>2, <2>2, <2>3, <2>4, ReturningStart DEF Waiting, Unanswered
  <2>8. executed'[r] # <<>> /\ executed'[r][1] = a
    BY <2>5
  <2>9. Answering(r)' /\ Running(r)'
    BY <1>1, <1>2, <2>1, <2>3, <2>5, <2>6, <2>7, <2>8
       DEF Answering, Assembled, Waiting, Running
  <2>10. RankInv(r)'
    BY <1>1, <1>2, <2>9 DEF RankInv
  <2>11. ASSUME NEW q \in Ranks, q # r
         PROVE  RankInv(q)'
    <3>1. queue'[q] = queue[q] /\ main'[q] = main[q] /\ reply'[q] = reply[q]
          /\ executed'[q] = executed[q]
      BY <2>1, <2>11 DEF Evaluate, Typed
    <3> QED
      BY <1>1, <3>1, RankUnchanged
  <2> QED
    BY <1>1, <2>10, <2>11
<1>3. CASE /\ root.pc \in {"exiting", "exited"} /\ Leaving(r)
           /\ queue[r] = <<Exit>> /\ Head(queue[r]) = Exit
  <2>1. queue'[r] = <<>> /\ reply' = reply /\ executed' = executed
    BY <1>3 DEF Evaluate, Typed
  <2>2. Leaving(r)'
    BY <1>1, <1>3, <2>1 DEF Leaving
  <2>3. RankInv(r)'
    BY <1>1, <1>3, <2>2 DEF RankInv
  <2>4. ASSUME NEW q \in Ranks, q # r
        PROVE  RankInv(q)'
    <3>1. queue'[q] = queue[q] /\ main'[q] = main[q]
      BY <1>3, <2>4 DEF Evaluate, Typed
    <3> QED
      BY <1>1, <2>1, <3>1, RankUnchanged
  <2> QED
    BY <1>1, <2>3, <2>4
<1> QED
  BY <1>2, <1>3, Evaluated

LEMMA SendResultStep ==
  ASSUME Typed, RootInv, \A q \in Ranks : RankInv(q), NEW r \in Ranks, SendResult(r)
  PROVE  RootInv' /\ \A q \in Ranks : RankInv(q)'
<1>1. /\ RootInv'
      /\ UNCHANGED <<root, sent, replies, bcast, event, pump, queue, main, executed>>
  BY DEF RootInv, InCall, SendResult, rootVars
<1>2. root.pc = "gathering" /\ Running(r) /\ Answering(r)
  BY DEF SendResult, RankInv, Quiet, Receiving, Waiting, Unanswered, Leaving
<1>3. /\ replies[r] \in Replies /\ results[r] \in Seq(ResultMessages)
      /\ reply[r] \in Sending /\ executed[r][1] \in Executions
  <2>1. executed[r] \in Seq(Executions) /\ executed[r] # <<>>
    BY <1>2 DEF Typed, Answering
  <2> QED
    BY <2>1, EmptySeq DEF Typed, SendResult
<1>4. Returning(executed[r][1], replies[r], results'[r], reply'[r])
  <2> DEFINE now == reply[r]
             left == now.left - Minimum(now.left, ChunkSize)
             m == [status |-> now.status, size |-> Len(now.text),
                   chunk |-> Chunk(now.text, Len(now.text) - now.left)]
             next == IF More(left) THEN [now EXCEPT !.left = left] ELSE NoResult
  <2>1. results'[r] = Append(results[r], m) /\ reply'[r] = next
    BY DEF SendResult, Typed
  <2>2. Returning(executed[r][1], replies[r], Append(results[r], m), next)
    BY <1>2, <1>3, ReturningSend DEF Answering
  <2> HIDE DEF m, next
  <2> QED
    BY <2>1, <2>2
<1>5. RankInv(r)'
  <2>1. Answering(r)' /\ Running(r)'
    BY <1>1, <1>2, <1>4 DEF Answering, Assembled, Running
  <2> QED
    BY <1>1, <1>2, <2>1 DEF RankInv
<1>6. ASSUME NEW q \in Ranks, q # r
      PROVE  RankInv(q)'
  <2>1. results'[q] = results[q] /\ reply'[q] = reply[q]
    BY <1>6 DEF SendResult, Typed
  <2> QED
    BY <1>1, <2>1, RankUnchanged
<1> QED
  BY <1>1, <1>5, <1>6

---------------------------------------------------------------------------
(* The theorems *)

LEMMA InitInv == Init => PumpInv
<1> SUFFICES ASSUME Init
             PROVE  PumpInv
  OBVIOUS
<1>1. Typed
  <2>1. <<>> \in Texts /\ <<>> \in Seq(CommandBytes) /\ Len(<<>>) = 0
    BY DEF Texts
  <2>2. root \in [pc : {"idle", "sending", "gathering", "exiting", "exited"},
                  number : 0 .. MaxCalls, text : Seq(CommandBytes), local : Locals]
    BY <2>1 DEF Init, Locals
  <2>3. sent \in 0 .. Len(root.text)
    BY <2>1 DEF Init
  <2>4. replies \in [Ranks -> Replies] /\ result \in Answers
    BY <2>1 DEF Init, Replies, Answers, Status
  <2>5. /\ bcast \in [Ranks -> Seq(CommandMessages)] /\ event \in [Ranks -> Texts]
        /\ queue \in [Ranks -> Seq(Texts)] /\ results \in [Ranks -> Seq(ResultMessages)]
        /\ executed \in [Ranks -> Seq(Executions)]
    BY <2>1 DEF Init
  <2>6. /\ pump \in [Ranks -> BOOLEAN] /\ main \in [Ranks -> {"running", "exited"}]
        /\ reply \in [Ranks -> Sending \cup {NoResult}]
    BY DEF Init
  <2> QED
    BY <2>2, <2>3, <2>4, <2>5, <2>6 DEF Typed
<1>2. root.pc = "idle"
  BY DEF Init
<1>3. RootInv
  BY <1>2 DEF RootInv, InCall
<1>4. ASSUME NEW r \in Ranks
      PROVE  RankInv(r)
  <2>1. Running(r) /\ Quiet(r)
    BY DEF Init, Running, Quiet, Assembled
  <2> QED
    BY <1>2, <2>1 DEF RankInv
<1> QED
  BY <1>1, <1>3, <1>4 DEF PumpInv

LEMMA NextInv == PumpInv /\ [Next]_vars => PumpInv'
<1> SUFFICES ASSUME PumpInv, [Next]_vars
             PROVE  PumpInv'
  OBVIOUS
<1> USE DEF PumpInv
<1>1. CASE Call
  BY <1>1, CallTyped, CallStep
<1>2. CASE SendChunk
  BY <1>2, SendChunkTyped, SendChunkStep
<1>3. CASE Gather
  BY <1>3, GatherStep
<1>4. CASE Return
  BY <1>4, ReturnStep
<1>5. CASE BroadcastExit \/ StopCommandPump
  BY <1>5, ExitTyped, ExitStep
<1>6. CASE \E r \in Ranks : ReceiveChunk(r)
  BY <1>6, ReceiveChunkTyped, ReceiveChunkStep
<1>7. CASE \E r \in Ranks : Evaluate(r)
  BY <1>7, EvaluateTyped, EvaluateStep
<1>8. CASE \E r \in Ranks : SendResult(r)
  BY <1>8, SendResultTyped, SendResultStep
<1>9. CASE UNCHANGED vars
  <2>1. Typed' /\ RootInv'
    BY <1>9 DEF vars, rootVars, rankVars, Typed, RootInv, InCall
  <2>2. ASSUME NEW r \in Ranks
        PROVE  RankInv(r)'
    BY <1>9, RankUnchanged DEF vars, rootVars, rankVars
  <2> QED
    BY <2>1, <2>2
<1> QED
  BY <1>1, <1>2, <1>3, <1>4, <1>5, <1>6, <1>7, <1>8, <1>9 DEF Next, Main

\* What the proofs rest on: the type of the variables, and for each rank how much of
\* the command and of its answer has got where.
LEMMA PumpInvariant == Spec => []PumpInv
<1>1. Init => PumpInv
  BY InitInv
<1>2. PumpInv /\ [Next]_vars => PumpInv'
  BY NextInv
<1> QED
  BY <1>1, <1>2, PTL DEF Spec

\* The variables of the Tcl pump keep their types: no rank queues a second command
\* or puts more together than one (appendCommandChunk), and the root never expects
\* less than nothing of a rank (fillResponse).
THEOREM PumpTypesCorrect == Spec => []TypeOK
<1>1. PumpInv => TypeOK
  <2> SUFFICES ASSUME PumpInv
               PROVE  TypeOK
    OBVIOUS
  <2>1. ASSUME NEW r \in Ranks
        PROVE  /\ Len(event[r]) < Len(root.text) \/ event[r] = <<>>
               /\ Len(queue[r]) <= 1
    <3>1. Len(event[r]) < Len(root.text) \/ event[r] = <<>>
      BY DEF PumpInv, RankInv, Quiet, Receiving, Assembling, Waiting, Answering, Assembled, Leaving
    <3>2. queue[r] \in {<<>>, <<root.text>>, <<Exit>>}
      BY DEF PumpInv, RankInv, Quiet, Receiving, Waiting, Answering, Leaving
    <3>3. Len(<<>>) = 0 /\ Len(<<root.text>>) = 1 /\ Len(<<Exit>>) = 1
      OBVIOUS
    <3>4. Len(queue[r]) = 0 \/ Len(queue[r]) = 1
      BY <3>2, <3>3
    <3>5. Len(queue[r]) <= 1
      <4>1. 0 <= 1 /\ 1 <= 1
        OBVIOUS
      <4> QED
        BY <3>4, <4>1
    <3> QED
      BY <3>1, <3>5
  <2>2. ASSUME NEW r \in Ranks
        PROVE  /\ replies[r].remaining >= NoReply
               /\ pump[r] \in BOOLEAN /\ main[r] \in {"running", "exited"}
    <3>1. replies[r].remaining \in Nat \cup {-1}
      BY DEF PumpInv, Typed, Replies, NoReply
    <3>2. replies[r].remaining >= NoReply
      BY <3>1 DEF NoReply
    <3>3. pump[r] \in BOOLEAN /\ main[r] \in {"running", "exited"}
      BY DEF PumpInv, Typed
    <3> QED
      BY <3>2, <3>3
  <2>3. /\ root.pc \in {"idle", "sending", "gathering", "exiting", "exited"}
        /\ root.number \in 0 .. MaxCalls
        /\ sent \in 0 .. Len(root.text)
        /\ result.status \in {"ok", "error"}
    BY DEF PumpInv, Typed, Answers, Status
  <2> QED
    BY <2>1, <2>2, <2>3 DEF TypeOK
<1> QED
  BY <1>1, PumpInvariant, PTL

\* When a command has returned, and before the first, no chunk, queued command or
\* reply of it is left in any rank or on its way (constructMpiTclStatus returns when
\* no rank owes it anything).
THEOREM NothingIsLeft == Spec => []NothingLeft
<1>1. PumpInv => NothingLeft
  BY DEF PumpInv, RankInv, Quiet, Assembled, NothingLeft
<1> QED
  BY <1>1, PumpInvariant, PTL

\* One step of the pump is a step of the remote execution of commands, or none.
LEMMA StepImplements ==
  ASSUME PumpInv, [Next]_vars
  PROVE  [Remote!Next]_(Remote!vars)
<1> DEFINE Command == IF InCall THEN <<[text |-> root.text, local |-> root.local]>> ELSE <<>>
<1>0. ASSUME Command' = Command, executed' = executed, result' = result
      PROVE  UNCHANGED Remote!vars
  BY <1>0 DEF Remote!vars
<1>1. CASE Call
  <2>1. Command = <<>>
    BY <1>1 DEF Call, InCall
  <2>2. Command' # <<>>
    <3>1. root'.pc = "sending"
      BY <1>1 DEF Call
    <3> QED
      BY <3>1 DEF InCall
  <2>3. Remote!Call
    BY <1>1, <2>1, <2>2 DEF Remote!Call, Call
  <2> QED
    BY <2>3 DEF Remote!Next
<1>2. CASE SendChunk
  <2>1. /\ root.pc = "sending" /\ root'.pc \in {"sending", "gathering"}
        /\ root'.text = root.text /\ root'.local = root.local
    BY <1>2 DEF SendChunk, PumpInv, Typed
  <2>2. Command' = Command
    BY <2>1 DEF InCall
  <2> QED
    BY <1>0, <1>2, <2>2 DEF SendChunk, rankVars
<1>3. CASE Gather
  BY <1>0, <1>3 DEF Gather, rankVars, InCall
<1>4. CASE Return
  <2>1. Command = <<[text |-> root.text, local |-> root.local]>> /\ Command' = <<>>
    <3>1. root.pc = "gathering" /\ root'.pc = "idle"
      BY <1>4 DEF Return, PumpInv, Typed
    <3> QED
      BY <3>1 DEF InCall
  <2>2. \A r \in Ranks : executed[r] # <<>>
    BY <1>4, RepliesAreAnswers DEF PumpInv
  <2>3. Command # <<>> /\ Command[1].local = root.local
    BY <2>1
  <2>4. Remote!IsResult(result', root.local)
    BY <1>4, ReturnsResult DEF PumpInv
  <2>5. executed' = executed
    BY <1>4 DEF Return, rankVars
  <2> HIDE DEF Command
  <2>6. Remote!Return
    BY <2>1, <2>2, <2>3, <2>4, <2>5 DEF Remote!Return, Command
  <2> QED
    BY <2>6 DEF Remote!Next
<1>5. CASE BroadcastExit \/ StopCommandPump
  <2>1. ~InCall /\ ~InCall'
    <3>1. root'.pc \in {"exiting", "exited"}
      BY <1>5 DEF BroadcastExit, StopCommandPump, PumpInv, Typed
    <3> QED
      BY <1>5, <3>1 DEF InCall, BroadcastExit, StopCommandPump
  <2> QED
    BY <1>0, <1>5, <2>1 DEF BroadcastExit, StopCommandPump, rankVars
<1>6. CASE \E r \in Ranks : ReceiveChunk(r) \/ SendResult(r)
  BY <1>0, <1>6 DEF ReceiveChunk, SendResult, rootVars, InCall
<1>7. ASSUME NEW r \in Ranks, Evaluate(r)
      PROVE  [Remote!Next]_(Remote!vars)
  <2>1. root' = root /\ result' = result /\ Command' = Command
    BY <1>7 DEF Evaluate, rootVars, InCall
  <2>2. CASE /\ root.pc = "gathering" /\ Waiting(r)
             /\ Head(queue[r]) = root.text /\ root.text # Exit
    <3>1. PICK o \in Outcomes(r, root.number) :
            executed' = [executed EXCEPT ![r] =
              Append(@, [command |-> root.text, status |-> o.status, text |-> o.text])]
      BY <1>7, <2>2 DEF Evaluate
    <3> DEFINE a == [command |-> root.text, status |-> o.status, text |-> o.text]
    <3>2. a.command = root.text
      OBVIOUS
    <3>3. /\ executed'[r] = Append(executed[r], a)
          /\ \A q \in Ranks \ {r} : executed'[q] = executed[q]
      BY <3>1 DEF PumpInv, Typed
    <3> HIDE DEF a
    <3>4. executed[r] = <<>> /\ executed'[r] = <<a>>
      BY <2>2, <3>3, ShortSequences DEF Waiting, Unanswered
    <3>5. Len(executed'[r]) = 1 /\ executed'[r][1] = a
      BY <3>4
    <3>6. Command # <<>> /\ Command[1].text = root.text
      BY <2>2 DEF InCall
    <3> HIDE DEF Command
    <3>7. Remote!Execute(r)
      BY <2>1, <3>2, <3>3, <3>4, <3>5, <3>6 DEF Remote!Execute, Command
    <3> QED
      BY <3>7 DEF Remote!Next
  <2>3. CASE Head(queue[r]) = Exit
    <3>1. executed' = executed
      BY <1>7, <2>3 DEF Evaluate
    <3> QED
      BY <1>0, <2>1, <3>1
  <2> QED
    BY <1>7, <2>2, <2>3, Evaluated DEF PumpInv
<1>8. CASE UNCHANGED vars
  BY <1>0, <1>8 DEF vars, rootVars, rankVars, InCall
<1> QED
  BY <1>1, <1>2, <1>3, <1>4, <1>5, <1>6, <1>7, <1>8 DEF Next, Main

\* The pump implements the remote execution of commands (MPIExecCommand,
\* CMPITclCommand::operator()): each rank executes each command once and unaltered,
\* and it returns the result that the answers of all ranks to this command call for.
THEOREM CommandsExecuted == Spec => Calls
<1>1. Init => Remote!Init
  BY DEF Init, Remote!Init, InCall
<1>2. PumpInv /\ [Next]_vars => [Remote!Next]_(Remote!vars)
  BY StepImplements
<1> QED
  BY <1>1, <1>2, PumpInvariant, PTL DEF Spec, Calls, Remote!Spec
=============================================================================
