-------------------------- MODULE AnalyzerProofs --------------------------
(***************************************************************************)
(* Proofs about the pipeline manager and the analyzer, for any number of   *)
(* processors and pipelines and any size of the event list.  What a        *)
(* pipeline has is registered, and has been attached as often as it occurs *)
(* while the pipeline is current.  An event object is in the event list or *)
(* in the pool, and each event goes to the sinks once and in order.        *)
(***************************************************************************)
EXTENDS Analyzer, FlattenLemmas, FiniteSetTheorems, SequenceTheorems, TLAPS

---------------------------------------------------------------------------
(* Occurrences in a sequence *)

LEMMA CardinalityDisjoint ==
  ASSUME NEW A, NEW B, IsFiniteSet(A), IsFiniteSet(B), A \cap B = {}
  PROVE  Cardinality(A \cup B) = Cardinality(A) + Cardinality(B)
<1>1. Cardinality(A \cap B) = 0 /\ Cardinality(A) \in Nat /\ Cardinality(B) \in Nat
  BY FS_EmptySet, FS_CardinalityType
<1>2. Cardinality(A \cup B) = Cardinality(A) + Cardinality(B) - Cardinality(A \cap B)
  BY FS_Union
<1> QED
  BY <1>1, <1>2

LEMMA PositionsFinite ==
  ASSUME NEW S, NEW s \in Seq(S), NEW e
  PROVE  /\ IsFiniteSet(DOMAIN s) /\ IsFiniteSet({k \in DOMAIN s : s[k] = e})
         /\ Occurrences(e, s) \in Nat
<1>1. IsFiniteSet(DOMAIN s)
  BY FS_Interval
<1>2. IsFiniteSet({k \in DOMAIN s : s[k] = e})
  BY <1>1, FS_Subset
<1> QED
  BY <1>1, <1>2, FS_CardinalityType DEF Occurrences

\* What occurs in a sequence of two parts occurs in the one or in the other.
LEMMA OccurrencesConcat ==
  ASSUME NEW S, NEW s \in Seq(S), NEW t \in Seq(S), NEW e
  PROVE  Occurrences(e, s \o t) = Occurrences(e, s) + Occurrences(e, t)
<1> DEFINE A == {k \in DOMAIN s : s[k] = e}
           B == {k \in DOMAIN t : t[k] = e}
           C == {k \in Len(s) + 1 .. Len(s) + Len(t) : t[k - Len(s)] = e}
           f == [k \in B |-> k + Len(s)]
<1>1. IsFiniteSet(A) /\ IsFiniteSet(B)
  BY PositionsFinite
<1>2. f \in Bijection(B, C)
  <2>1. f \in [B -> C]
    OBVIOUS
  <2>2. \A j, k \in B : f[j] = f[k] => j = k
    OBVIOUS
  <2>3. \A c \in C : c - Len(s) \in B /\ f[c - Len(s)] = c
    OBVIOUS
  <2> QED
    BY <2>1, <2>2, <2>3 DEF Bijection, Injection, Surjection, IsInjective
<1>3. IsFiniteSet(C) /\ Cardinality(C) = Cardinality(B)
  BY <1>1, <1>2, FS_Bijection DEF ExistsBijection
<1>4. A \cap C = {} /\ {k \in DOMAIN (s \o t) : (s \o t)[k] = e} = A \cup C
  OBVIOUS
<1>5. Cardinality(A \cup C) = Cardinality(A) + Cardinality(C)
  BY <1>1, <1>3, <1>4, CardinalityDisjoint
<1> QED
  BY <1>3, <1>4, <1>5 DEF Occurrences

LEMMA OccurrencesOne ==
  ASSUME NEW e, NEW x
  PROVE  Occurrences(x, <<e>>) = IF x = e THEN 1 ELSE 0
<1>1. CASE x = e
  <2>1. {k \in DOMAIN <<e>> : <<e>>[k] = x} = {1}
    BY <1>1
  <2> QED
    BY <1>1, <2>1, FS_Singleton DEF Occurrences
<1>2. CASE x # e
  <2>1. {k \in DOMAIN <<e>> : <<e>>[k] = x} = {}
    BY <1>2
  <2> QED
    BY <1>2, <2>1, FS_EmptySet DEF Occurrences
<1> QED
  BY <1>1, <1>2

LEMMA TwoParts ==
  ASSUME NEW S, NEW s \in Seq(S), NEW n \in 0 .. Len(s)
  PROVE  /\ SubSeq(s, 1, n) \in Seq(S) /\ SubSeq(s, n + 1, Len(s)) \in Seq(S)
         /\ Len(SubSeq(s, 1, n)) = n /\ Len(SubSeq(s, n + 1, Len(s))) = Len(s) - n
         /\ s = SubSeq(s, 1, n) \o SubSeq(s, n + 1, Len(s))
<1> DEFINE a == SubSeq(s, 1, n)
           b == SubSeq(s, n + 1, Len(s))
<1>1. a \in Seq(S) /\ Len(a) = n /\ \A i \in 1 .. n : a[i] = s[i]
  OBVIOUS
<1>2. b \in Seq(S) /\ Len(b) = Len(s) - n /\ \A i \in 1 .. Len(s) - n : b[i] = s[n + i]
  OBVIOUS
<1> HIDE DEF a, b
<1>3. a \o b \in Seq(S) /\ Len(a \o b) = Len(s)
  BY <1>1, <1>2, SMTT(30)
<1>4. \A i \in 1 .. Len(s) : s[i] = (a \o b)[i]
  <2>1. \A i \in 1 .. Len(s) : (a \o b)[i] = IF i <= n THEN a[i] ELSE b[i - n]
    BY <1>1, <1>2, ConcatProperties
  <2>2. \A i \in 1 .. Len(s) : i > n => i - n \in 1 .. Len(s) - n /\ n + (i - n) = i
    BY <1>1
  <2> QED
    BY <1>1, <1>2, <2>1, <2>2
<1>5. s = a \o b
  BY <1>3, <1>4, SeqEqual
<1> QED
  BY <1>1, <1>2, <1>5 DEF a, b

LEMMA OccurrencesParts ==
  ASSUME NEW S, NEW s \in Seq(S), NEW n \in 0 .. Len(s), NEW x
  PROVE  Occurrences(x, s) =
           Occurrences(x, SubSeq(s, 1, n)) + Occurrences(x, SubSeq(s, n + 1, Len(s)))
<1> DEFINE a == SubSeq(s, 1, n)
           b == SubSeq(s, n + 1, Len(s))
<1>1. a \in Seq(S) /\ b \in Seq(S) /\ s = a \o b
  BY TwoParts
<1> HIDE DEF a, b
<1>2. Occurrences(x, s) = Occurrences(x, a) + Occurrences(x, b)
  BY <1>1, OccurrencesConcat
<1> QED
  BY <1>2 DEF a, b

\* insertEventProcessor
LEMMA Inserted ==
  ASSUME NEW S, NEW s \in Seq(S), NEW e \in S, NEW k \in 1 .. Len(s) + 1
  PROVE  /\ InsertAt(s, k, e) \in Seq(S) /\ Len(InsertAt(s, k, e)) = Len(s) + 1
         /\ \A x : Occurrences(x, InsertAt(s, k, e)) =
                     Occurrences(x, s) + IF x = e THEN 1 ELSE 0
<1> DEFINE t == SubSeq(s, 1, k - 1)
           u == SubSeq(s, k, Len(s))
<1>1. k - 1 \in 0 .. Len(s) /\ k - 1 + 1 = k
  OBVIOUS
<1>2. t \in Seq(S) /\ u \in Seq(S) /\ Len(t) = k - 1 /\ Len(u) = Len(s) - (k - 1)
  BY <1>1, TwoParts
<1>3. <<e>> \in Seq(S) /\ t \o <<e>> \in Seq(S) /\ Len(t \o <<e>>) = k
  BY <1>2
<1>4. InsertAt(s, k, e) = (t \o <<e>>) \o u
  BY DEF InsertAt
<1> HIDE DEF t, u
<1>5. (t \o <<e>>) \o u \in Seq(S) /\ Len((t \o <<e>>) \o u) = Len(s) + 1
  BY <1>2, <1>3
<1>6. ASSUME NEW x
      PROVE  Occurrences(x, InsertAt(s, k, e)) = Occurrences(x, s) + IF x = e THEN 1 ELSE 0
  <2>1. Occurrences(x, InsertAt(s, k, e)) =
          Occurrences(x, t) + Occurrences(x, <<e>>) + Occurrences(x, u)
    BY <1>2, <1>3, <1>4, OccurrencesConcat
  <2>2. Occurrences(x, s) = Occurrences(x, t) + Occurrences(x, u)
    BY <1>1, OccurrencesParts DEF t, u
  <2>3. Occurrences(x, t) \in Nat /\ Occurrences(x, u) \in Nat
    BY <1>2, PositionsFinite
  <2> QED
    BY <2>1, <2>2, <2>3, OccurrencesOne
<1> QED
  BY <1>4, <1>5, <1>6

\* removeEventProcessor
LEMMA Removed ==
  ASSUME NEW S, NEW s \in Seq(S), NEW k \in DOMAIN s
  PROVE  /\ RemoveAt(s, k) \in Seq(S) /\ Len(RemoveAt(s, k)) = Len(s) - 1
         /\ \A x : Occurrences(x, RemoveAt(s, k)) =
                     Occurrences(x, s) - IF x = s[k] THEN 1 ELSE 0
<1> DEFINE t == SubSeq(s, 1, k - 1)
           u == SubSeq(s, k + 1, Len(s))
           v == SubSeq(s, k, Len(s))
<1>1. /\ k \in 1 .. Len(s) /\ k - 1 \in 0 .. Len(s) /\ k \in 0 .. Len(s) /\ k - 1 + 1 = k
      /\ s[k] \in S
  OBVIOUS
<1>2. /\ t \in Seq(S) /\ u \in Seq(S) /\ v \in Seq(S) /\ <<s[k]>> \in Seq(S)
      /\ Len(t) = k - 1 /\ Len(u) = Len(s) - k /\ Len(v) = Len(s) - (k - 1)
  BY <1>1, TwoParts
<1>3. v = <<s[k]>> \o u
  <2> DEFINE w == <<s[k]>> \o u
  <2>1. w \in Seq(S) /\ Len(w) = Len(s) - (k - 1)
    BY <1>1, <1>2
  <2>2. /\ \A i \in 1 .. Len(s) - (k - 1) : v[i] = s[k + i - 1]
        /\ \A i \in 1 .. Len(s) - k : u[i] = s[k + i]
    BY <1>1
  <2> HIDE DEF u, v
  <2>3. \A i \in 1 .. Len(s) - (k - 1) : w[i] = IF i <= 1 THEN s[k] ELSE u[i - 1]
    BY <1>1, <1>2, ConcatProperties
  <2> HIDE DEF w
  <2>4. \A i \in 1 .. Len(s) - (k - 1) : v[i] = w[i]
    <3> SUFFICES ASSUME NEW i \in 1 .. Len(s) - (k - 1)
                 PROVE  v[i] = w[i]
      OBVIOUS
    <3>1. CASE i <= 1
      BY <1>1, <2>2, <2>3, <3>1
    <3>2. CASE i > 1
      <4>1. i - 1 \in 1 .. Len(s) - k /\ k + (i - 1) = k + i - 1
        BY <1>1, <3>2
      <4> QED
        BY <1>1, <2>2, <2>3, <3>2, <4>1
    <3> QED
      BY <1>1, <3>1, <3>2
  <2> QED
    BY <1>2, <2>1, <2>4, SeqEqual DEF w
<1>4. RemoveAt(s, k) = t \o u
  BY DEF RemoveAt
<1>5. t \o u \in Seq(S) /\ Len(t \o u) = Len(s) - 1
  <2> HIDE DEF t, u
  <2> QED
    BY <1>1, <1>2
<1>6. ASSUME NEW x
      PROVE  Occurrences(x, RemoveAt(s, k)) = Occurrences(x, s) - IF x = s[k] THEN 1 ELSE 0
  <2>1. Occurrences(x, s) = Occurrences(x, t) + Occurrences(x, v)
    BY <1>1, OccurrencesParts
  <2> HIDE DEF t, u, v
  <2>2. Occurrences(x, v) = Occurrences(x, <<s[k]>>) + Occurrences(x, u)
    BY <1>2, <1>3, OccurrencesConcat
  <2>3. Occurrences(x, t \o u) = Occurrences(x, t) + Occurrences(x, u)
    BY <1>2, OccurrencesConcat
  <2>4. Occurrences(x, t) \in Nat /\ Occurrences(x, u) \in Nat
    BY <1>2, PositionsFinite
  <2> QED
    BY <1>4, <2>1, <2>2, <2>3, <2>4, OccurrencesOne
<1> QED
  BY <1>4, <1>5, <1>6
---------------------------------------------------------------------------
(* The invariant *)

ManagerInv == ManagerTypeOK /\ AttachedIfCurrent /\ UsedRegistered

\* The analyzer starts with registered processors in its pipelines.
LEMMA AnalyzerStarts ==
  Init => ManagerInv
<1> SUFFICES ASSUME Init PROVE ManagerInv
  OBVIOUS
<1> USE PipelineAssumption, AnalyzerAssumption
<1>1. /\ First \in Processors /\ <<First>> \in Seq(Processors)
      /\ Len(<<First>>) <= MaxLength
  BY DEF First
<1>2. /\ Default \in DOMAIN pipelines /\ DOMAIN pipelines \subseteq PipelineNames
      /\ \A p \in DOMAIN pipelines : pipelines[p] = <<First>>
      /\ processors = Processors /\ current = Default /\ commands = 0
      /\ stray = [e \in Processors |-> 0]
      /\ attached = [e \in Processors |-> Occurrences(e, Current)]
  BY DEF Init
<1>3. \A e : Occurrences(e, Current) \in Nat
  BY <1>1, <1>2, PositionsFinite DEF Current
<1>4. ManagerTypeOK
  <2>1. attached \in [Processors -> Int]
    BY <1>2, <1>3
  <2>2. commands \in 0 .. MaxCommands
    BY <1>2
  <2>3. \A p \in DOMAIN pipelines :
          pipelines[p] \in Seq(Processors) /\ Len(pipelines[p]) <= MaxLength
    BY <1>1, <1>2
  <2> QED
    BY <1>1, <1>2, <2>1, <2>2, <2>3 DEF ManagerTypeOK
<1>5. AttachedIfCurrent
  BY <1>2, <1>3 DEF AttachedIfCurrent
<1>6. UsedRegistered
  BY <1>1, <1>2 DEF UsedRegistered, ToSet
<1> QED
  BY <1>4, <1>5, <1>6 DEF ManagerInv

LEMMA RegisterEventProcessorStep ==
  ASSUME ManagerInv, NEW e \in Processors, RegisterEventProcessor(e)
  PROVE  ManagerInv'
BY PipelineAssumption
DEF RegisterEventProcessor, Command, ManagerInv, ManagerTypeOK, AttachedIfCurrent,
    UsedRegistered, Current, Occurrences

\* rmevp asks every pipeline, and so leaves no pipeline with what is not registered.
LEMMA RmEvpStep ==
  ASSUME ManagerInv, NEW e \in Processors, RmEvp(e)
  PROVE  ManagerInv'
<1>1. \A p \in DOMAIN pipelines : ToSet(pipelines[p]) \subseteq processors \ {e}
  BY DEF RmEvp, Used, ManagerInv, UsedRegistered
<1> QED
  BY <1>1, PipelineAssumption
  DEF RmEvp, Command, ManagerInv, ManagerTypeOK, AttachedIfCurrent, UsedRegistered, Current,
      Occurrences

\* A pipeline that is added is not the current one, which exists.
LEMMA PipelineAdded ==
  ASSUME ManagerInv, NEW p \in PipelineNames, ~Exists(p),
         NEW s \in Seq(Processors), Len(s) <= MaxLength, ToSet(s) \subseteq processors,
         pipelines' = WithPipeline(p, s),
         commands' \in 0 .. MaxCommands,
         UNCHANGED <<processors, current, attached, stray>>
  PROVE  ManagerInv'
<1>1. /\ DOMAIN pipelines' = DOMAIN pipelines \cup {p} /\ pipelines'[p] = s
      /\ \A q \in DOMAIN pipelines : q # p /\ pipelines'[q] = pipelines[q]
  BY DEF WithPipeline, Exists
<1>2. current \in DOMAIN pipelines /\ Current' = Current
  BY <1>1 DEF ManagerInv, ManagerTypeOK, Current
<1>3. ManagerTypeOK'
  BY <1>1, <1>2 DEF ManagerInv, ManagerTypeOK
<1>4. AttachedIfCurrent'
  BY <1>2 DEF ManagerInv, AttachedIfCurrent, Occurrences
<1>5. UsedRegistered'
  BY <1>1 DEF ManagerInv, UsedRegistered
<1> QED
  BY <1>3, <1>4, <1>5 DEF ManagerInv

LEMMA CreatePipelineStep ==
  ASSUME ManagerInv, NEW p \in PipelineNames, CreatePipeline(p)
  PROVE  ManagerInv'
<1>1. <<>> \in Seq(Processors) /\ Len(<<>>) <= MaxLength /\ ToSet(<<>>) \subseteq processors
  BY PipelineAssumption DEF ToSet
<1>2. commands' \in 0 .. MaxCommands
  BY PipelineAssumption DEF CreatePipeline, Command, ManagerInv, ManagerTypeOK
<1> QED
  BY <1>1, <1>2, PipelineAdded DEF CreatePipeline

LEMMA ClonePipelineStep ==
  ASSUME ManagerInv, NEW from \in PipelineNames, NEW to \in PipelineNames,
         ClonePipeline(from, to)
  PROVE  ManagerInv'
<1>1. /\ pipelines[from] \in Seq(Processors) /\ Len(pipelines[from]) <= MaxLength
      /\ ToSet(pipelines[from]) \subseteq processors
  BY DEF ClonePipeline, Exists, ManagerInv, ManagerTypeOK, UsedRegistered
<1>2. commands' \in 0 .. MaxCommands
  BY PipelineAssumption DEF ClonePipeline, Command, ManagerInv, ManagerTypeOK
<1> QED
  BY <1>1, <1>2, PipelineAdded DEF ClonePipeline

\* A pipeline has registered processors: it is a sequence of them.
LEMMA PipelineRegistered ==
  ASSUME ManagerInv, NEW p \in DOMAIN pipelines
  PROVE  /\ pipelines[p] \in Seq(processors) /\ pipelines[p] \in Seq(Processors)
         /\ Len(pipelines[p]) <= MaxLength /\ processors \subseteq Processors
<1>1. pipelines[p] \in Seq(Processors) /\ ToSet(pipelines[p]) \subseteq processors
  BY DEF ManagerInv, ManagerTypeOK, UsedRegistered
<1>2. \A k \in 1 .. Len(pipelines[p]) : pipelines[p][k] \in processors
  BY <1>1 DEF ToSet
<1>3. pipelines[p] \in Seq(processors)
  BY <1>1, <1>2
<1> QED
  BY <1>1, <1>3 DEF ManagerInv, ManagerTypeOK

\* A pipeline changes, and OnAttach and OnDetach are called as its elements come and go.
LEMMA PipelineChanged ==
  ASSUME ManagerInv, NEW p \in DOMAIN pipelines,
         NEW s \in Seq(processors), Len(s) <= MaxLength,
         pipelines' = [pipelines EXCEPT ![p] = s],
         UNCHANGED <<processors, current>>,
         commands' \in 0 .. MaxCommands,
         stray' \in [Processors -> Nat], attached' \in [Processors -> Int],
         p = current => \A e \in Processors :
            /\ attached'[e] = attached[e] + Occurrences(e, s) - Occurrences(e, pipelines[p])
            /\ stray'[e] = stray[e],
         p # current => \A e \in Processors :
            attached'[e] + stray'[e] = attached[e] + stray[e]
  PROVE  ManagerInv'
<1>1. /\ DOMAIN pipelines' = DOMAIN pipelines /\ pipelines'[p] = s
      /\ \A q \in DOMAIN pipelines : q # p => pipelines'[q] = pipelines[q]
  OBVIOUS
<1>2. ToSet(s) \subseteq processors /\ s \in Seq(Processors)
  <2>1. processors \subseteq Processors
    BY PipelineRegistered
  <2>2. \A k \in 1 .. Len(s) : s[k] \in processors
    BY ElementOfSeq
  <2> QED
    BY <2>1, <2>2 DEF ToSet
<1>3. current \in DOMAIN pipelines
  BY DEF ManagerInv, ManagerTypeOK
<1>4. ManagerTypeOK'
  BY <1>1, <1>2, <1>3 DEF ManagerInv, ManagerTypeOK
<1>5. AttachedIfCurrent'
  <2> SUFFICES ASSUME NEW e \in Processors
               PROVE  attached'[e] + stray'[e] = Occurrences(e, Current')
    BY DEF AttachedIfCurrent, Occurrences, Current
  <2>1. /\ attached[e] + stray[e] = Occurrences(e, Current)
        /\ attached[e] \in Int /\ stray[e] \in Nat
    BY DEF ManagerInv, ManagerTypeOK, AttachedIfCurrent
  <2>2. CASE p = current
    <3>1. Current' = s /\ Current = pipelines[p]
      BY <1>1, <2>2 DEF Current
    <3>2. Occurrences(e, s) \in Nat /\ Occurrences(e, pipelines[p]) \in Nat
      BY PipelineRegistered, PositionsFinite
    <3> QED
      BY <2>1, <2>2, <3>1, <3>2
  <2>3. CASE p # current
    <3>1. Current' = Current
      BY <1>1, <1>3, <2>3 DEF Current
    <3> QED
      BY <2>1, <2>3, <3>1
  <2> QED
    BY <2>2, <2>3
<1>6. UsedRegistered'
  BY <1>1, <1>2 DEF ManagerInv, UsedRegistered
<1> QED
  BY <1>4, <1>5, <1>6 DEF ManagerInv

LEMMA InsertEventProcessorStep ==
  ASSUME ManagerInv, NEW p \in PipelineNames, NEW e \in Processors, NEW k \in 1 .. MaxLength,
         InsertEventProcessor(p, e, k)
  PROVE  ManagerInv'
<1> DEFINE s == InsertAt(pipelines[p], k, e)
<1>1. /\ p \in DOMAIN pipelines /\ e \in processors /\ k \in 1 .. Len(pipelines[p]) + 1
      /\ Len(pipelines[p]) < MaxLength
  BY DEF InsertEventProcessor, Exists
<1>2. pipelines[p] \in Seq(processors)
  BY <1>1, PipelineRegistered
<1>3. /\ s \in Seq(processors) /\ Len(s) = Len(pipelines[p]) + 1
      /\ \A x : Occurrences(x, s) = Occurrences(x, pipelines[p]) + IF x = e THEN 1 ELSE 0
  BY <1>1, <1>2, Inserted
<1>4. /\ pipelines' = [pipelines EXCEPT ![p] = s] /\ UNCHANGED <<processors, current, stray>>
      /\ attached' = IF p = current THEN [attached EXCEPT ![e] = @ + 1] ELSE attached
  BY DEF InsertEventProcessor, AttachIfCurrent
<1>5. /\ commands' \in 0 .. MaxCommands
      /\ attached \in [Processors -> Int] /\ stray \in [Processors -> Nat]
  BY PipelineAssumption DEF InsertEventProcessor, Command, ManagerInv, ManagerTypeOK
<1>6. \A x : Occurrences(x, pipelines[p]) \in Nat
  BY <1>2, PositionsFinite
<1> HIDE DEF s
<1>7. attached' \in [Processors -> Int]
  BY <1>4, <1>5
<1>8. p = current => \A x \in Processors :
        attached'[x] = attached[x] + Occurrences(x, s) - Occurrences(x, pipelines[p])
  BY <1>3, <1>4, <1>5, <1>6
<1>9. Len(s) <= MaxLength
  BY <1>1, <1>2, <1>3, PipelineAssumption
<1> QED
  BY <1>1, <1>3, <1>4, <1>5, <1>7, <1>8, <1>9, PipelineChanged

LEMMA RemoveEventProcessorStep ==
  ASSUME ManagerInv, NEW p \in PipelineNames, NEW e \in Processors,
         RemoveEventProcessor(p, e)
  PROVE  ManagerInv'
<1>1. PICK k \in DOMAIN pipelines[p] :
        pipelines[p][k] = e /\ pipelines' = [pipelines EXCEPT ![p] = RemoveAt(@, k)]
  BY DEF RemoveEventProcessor
<1> DEFINE s == RemoveAt(pipelines[p], k)
<1>2. p \in DOMAIN pipelines
  BY DEF RemoveEventProcessor, Exists
<1>3. pipelines[p] \in Seq(processors) /\ Len(pipelines[p]) <= MaxLength
  BY <1>2, PipelineRegistered
<1>4. /\ s \in Seq(processors) /\ Len(s) = Len(pipelines[p]) - 1
      /\ \A x : Occurrences(x, s) = Occurrences(x, pipelines[p]) - IF x = e THEN 1 ELSE 0
  BY <1>1, <1>3, Removed
<1>5. /\ UNCHANGED <<processors, current>>
      /\ attached' = [x \in Processors |-> attached[x] - Occurrences(x, <<e>>)]
      /\ stray' = IF p = current THEN stray
                  ELSE [x \in Processors |-> stray[x] + Occurrences(x, <<e>>)]
  BY DEF RemoveEventProcessor, DetachIfCurrent
<1>6. /\ commands' \in 0 .. MaxCommands
      /\ attached \in [Processors -> Int] /\ stray \in [Processors -> Nat]
  BY PipelineAssumption DEF RemoveEventProcessor, Command, ManagerInv, ManagerTypeOK
<1>7. \A x : Occurrences(x, pipelines[p]) \in Nat
  BY <1>3, PositionsFinite
<1> HIDE DEF s
<1>8. \A x \in Processors : stray'[x] = stray[x] + IF p # current /\ x = e THEN 1 ELSE 0
  BY <1>5, <1>6, OccurrencesOne
<1>9. \A x \in Processors : attached'[x] = attached[x] - IF x = e THEN 1 ELSE 0
  BY <1>5, OccurrencesOne
<1>10. attached' \in [Processors -> Int]
  <2>1. \A x \in Processors : attached'[x] \in Int
    BY <1>6, <1>9
  <2> QED
    BY <1>5, <2>1
<1>11. p = current => \A x \in Processors :
         attached'[x] = attached[x] + Occurrences(x, s) - Occurrences(x, pipelines[p])
  BY <1>4, <1>6, <1>7, <1>9
<1>12. /\ p = current => \A x \in Processors : stray'[x] = stray[x]
       /\ p # current =>
            \A x \in Processors : attached'[x] + stray'[x] = attached[x] + stray[x]
  BY <1>5, <1>6, <1>8, <1>9
<1>13. Len(s) <= MaxLength
  BY <1>3, <1>4, PipelineAssumption
<1>14. pipelines' = [pipelines EXCEPT ![p] = s]
  BY <1>1 DEF s
<1>15. stray' \in [Processors -> Nat]
  <2>1. \A x \in Processors : stray'[x] \in Nat
    BY <1>6, <1>8
  <2> QED
    BY <1>5, <1>6, <2>1
<1> QED
  BY <1>2, <1>4, <1>5, <1>6, <1>10, <1>11, <1>12, <1>13, <1>14, <1>15, PipelineChanged

LEMMA ClearPipelineStep ==
  ASSUME ManagerInv, NEW p \in PipelineNames, ClearPipeline(p)
  PROVE  ManagerInv'
<1> DEFINE whole == pipelines[p]
           n == Cardinality({k \in DOMAIN whole : ToSet(SubSeq(whole, 1, k)) \subseteq processors})
           removed == SubSeq(whole, 1, n)
           s == SubSeq(whole, n + 1, Len(whole))
<1>1. p \in DOMAIN pipelines /\ removed = Leading(whole)
  BY DEF ClearPipeline, Exists, Leading
<1>2. whole \in Seq(processors) /\ Len(whole) <= MaxLength /\ processors \subseteq Processors
  BY <1>1, PipelineRegistered
<1>3. n \in 0 .. Len(whole)
  <2>1. IsFiniteSet(DOMAIN whole) /\ Cardinality(DOMAIN whole) = Len(whole)
    BY <1>2, FS_Interval
  <2>2. n \in Nat /\ n <= Cardinality(DOMAIN whole)
    BY <2>1, FS_Subset, FS_CardinalityType
  <2> QED
    BY <1>2, <2>1, <2>2
<1> HIDE DEF n
<1>4. /\ removed \in Seq(processors) /\ s \in Seq(processors)
      /\ Len(removed) = n /\ Len(s) = Len(whole) - n
      /\ \A x : Occurrences(x, whole) = Occurrences(x, removed) + Occurrences(x, s)
  BY <1>2, <1>3, TwoParts, OccurrencesParts
<1>5. /\ pipelines' = [pipelines EXCEPT ![p] = s] /\ UNCHANGED <<processors, current>>
      /\ attached' = [x \in Processors |-> attached[x] - Occurrences(x, removed)]
      /\ stray' = IF p = current THEN stray
                  ELSE [x \in Processors |-> stray[x] + Occurrences(x, removed)]
  BY <1>1, <1>4 DEF ClearPipeline, DetachIfCurrent
<1>6. /\ commands' \in 0 .. MaxCommands
      /\ attached \in [Processors -> Int] /\ stray \in [Processors -> Nat]
  BY PipelineAssumption DEF ClearPipeline, Command, ManagerInv, ManagerTypeOK
<1> HIDE DEF removed, s, whole
<1>7. \A x : /\ Occurrences(x, whole) \in Nat /\ Occurrences(x, removed) \in Nat
            /\ Occurrences(x, s) \in Nat
  BY <1>2, <1>4, PositionsFinite
<1>8. \A x \in Processors : attached'[x] = attached[x] - Occurrences(x, removed)
  BY <1>5
<1>9. attached' \in [Processors -> Int]
  <2>1. \A x \in Processors : attached[x] - Occurrences(x, removed) \in Int
    BY <1>6, <1>7
  <2> QED
    BY <1>5, <2>1
<1>10. \A x \in Processors :
         attached'[x] = attached[x] + Occurrences(x, s) - Occurrences(x, whole)
  BY <1>4, <1>6, <1>7, <1>8
<1>11. \A x \in Processors :
         stray'[x] = stray[x] + IF p = current THEN 0 ELSE Occurrences(x, removed)
  BY <1>5, <1>6
<1>12. stray' \in [Processors -> Nat]
  <2>1. \A x \in Processors : stray[x] + Occurrences(x, removed) \in Nat
    BY <1>6, <1>7
  <2> QED
    BY <1>5, <1>6, <2>1
<1>13. /\ p = current => \A x \in Processors : stray'[x] = stray[x]
       /\ p # current =>
            \A x \in Processors : attached'[x] + stray'[x] = attached[x] + stray[x]
  BY <1>5, <1>6, <1>7, <1>8, <1>11
<1>14. Len(s) <= MaxLength
  BY <1>2, <1>3, <1>4, PipelineAssumption
<1>15. p = current => \A x \in Processors :
         attached'[x] = attached[x] + Occurrences(x, s) - Occurrences(x, pipelines[p])
  BY <1>10 DEF whole
<1> QED
  BY <1>1, <1>4, <1>5, <1>6, <1>9, <1>12, <1>13, <1>14, <1>15, PipelineChanged

LEMMA SetCurrentPipelineStep ==
  ASSUME ManagerInv, NEW p \in PipelineNames, SetCurrentPipeline(p)
  PROVE  ManagerInv'
<1>1. /\ p \in DOMAIN pipelines /\ current \in DOMAIN pipelines
      /\ Current' = pipelines[p] /\ UNCHANGED <<processors, pipelines, stray>>
      /\ attached' = [e \in Processors |->
                       attached[e] - Occurrences(e, Current) + Occurrences(e, pipelines[p])]
      /\ current' = p
  BY DEF SetCurrentPipeline, Exists, Switch, Current, ManagerInv, ManagerTypeOK
<1>2. /\ commands' \in 0 .. MaxCommands
      /\ attached \in [Processors -> Int] /\ stray \in [Processors -> Nat]
  BY PipelineAssumption DEF SetCurrentPipeline, Command, ManagerInv, ManagerTypeOK
<1>3. \A e : Occurrences(e, Current) \in Nat /\ Occurrences(e, pipelines[p]) \in Nat
  BY <1>1, PipelineRegistered, PositionsFinite DEF Current
<1>4. attached' \in [Processors -> Int]
  <2>1. \A e \in Processors :
          attached[e] - Occurrences(e, Current) + Occurrences(e, pipelines[p]) \in Int
    BY <1>2, <1>3
  <2> QED
    BY <1>1, <2>1
<1>5. ManagerTypeOK'
  BY <1>1, <1>2, <1>4 DEF ManagerInv, ManagerTypeOK
<1>6. AttachedIfCurrent'
  <2> SUFFICES ASSUME NEW e \in Processors
               PROVE  attached'[e] + stray[e] = Occurrences(e, Current')
    BY <1>1 DEF AttachedIfCurrent, Occurrences, Current
  <2>1. attached[e] + stray[e] = Occurrences(e, Current)
    BY DEF ManagerInv, AttachedIfCurrent
  <2>2. attached'[e] = attached[e] - Occurrences(e, Current) + Occurrences(e, pipelines[p])
    BY <1>1
  <2> QED
    BY <1>1, <1>2, <1>3, <2>1, <2>2
<1>7. UsedRegistered'
  BY <1>1 DEF ManagerInv, UsedRegistered
<1> QED
  BY <1>5, <1>6, <1>7 DEF ManagerInv

\* Processors that fail leave the current pipeline: what is left of each is what occurred
\* less the failures.
LEMMA OnInitializeStep ==
  ASSUME ManagerInv, NEW failed, OnInitialize(failed)
  PROVE  ManagerInv'
<1> DEFINE S == DOMAIN Current
<1>1. PICK gone \in SUBSET S :
        /\ FirstOfEach(gone, failed)
        /\ \E f \in [1 .. Cardinality(S \ gone) -> S \ gone] :
             /\ InOrder(f)
             /\ pipelines' = [pipelines EXCEPT ![current] = [k \in DOMAIN f |-> Current[f[k]]]]
  BY DEF OnInitialize
<1> DEFINE left == S \ gone
           m == Cardinality(left)
<1>2. PICK f \in [1 .. m -> left] :
        /\ InOrder(f)
        /\ pipelines' = [pipelines EXCEPT ![current] = [k \in DOMAIN f |-> Current[f[k]]]]
  BY <1>1
<1> DEFINE s == [k \in 1 .. m |-> Current[f[k]]]
           failures == [k \in failed |-> Current[k]]
<1>3. /\ current \in DOMAIN pipelines /\ Current \in Seq(processors)
      /\ Len(Current) <= MaxLength /\ processors \subseteq Processors
  BY PipelineRegistered DEF Current, ManagerInv, ManagerTypeOK
<1>4. /\ failed \subseteq S /\ UNCHANGED <<processors, current, stray>>
      /\ attached' = [x \in Processors |-> attached[x] - Occurrences(x, failures)]
  BY DEF OnInitialize, DetachIfCurrent
<1>5. IsFiniteSet(S) /\ Cardinality(S) = Len(Current) /\ S = 1 .. Len(Current)
  BY <1>3, FS_Interval
<1>6. IsFiniteSet(left) /\ m \in Nat /\ m <= Len(Current)
  BY <1>5, FS_Subset, FS_CardinalityType
<1> HIDE DEF S
<1>7. f \in Bijection(1 .. m, left)
  <2>1. f \in Injection(1 .. m, left)
    <3>1. \A k \in 1 .. m : f[k] \in 1 .. Len(Current)
      BY <1>2, <1>5
    <3>2. \A j, k \in 1 .. m : j < k => f[j] < f[k]
      BY <1>2 DEF InOrder
    <3> HIDE DEF m
    <3>3. \A j, k \in 1 .. m : f[j] = f[k] => j = k
      BY <1>6, <3>1, <3>2
    <3> QED
      BY <1>2, <3>3 DEF Injection, IsInjective
  <2>2. IsFiniteSet(1 .. m) /\ Cardinality(1 .. m) = m
    BY <1>6, FS_Interval
  <2>3. f \in Surjection(1 .. m, left)
    BY <1>6, <2>1, <2>2, FS_Injection
  <2> QED
    BY <2>1, <2>3 DEF Bijection
<1> HIDE DEF left, m
<1>8. s \in Seq(processors) /\ Len(s) = m
  <2>1. \A k \in 1 .. m : Current[f[k]] \in processors
    BY <1>2, <1>3, <1>5, ElementOfSeq DEF left
  <2> QED
    BY <1>6, <2>1
<1>9. pipelines' = [pipelines EXCEPT ![current] = s]
  BY <1>2
<1>10. ASSUME NEW x \in Processors
       PROVE  /\ Occurrences(x, failures) \in Nat
              /\ Occurrences(x, s) = Occurrences(x, Current) - Occurrences(x, failures)
  <2> DEFINE A == {k \in left : Current[k] = x}
             B == {k \in gone : Current[k] = x}
             C == {k \in 1 .. m : s[k] = x}
  <2>1. A \cup B = {k \in S : Current[k] = x} /\ A \cap B = {}
    BY DEF left
  <2>2. IsFiniteSet(A) /\ IsFiniteSet(B)
    BY <1>5, FS_Subset DEF left
  <2>3. Occurrences(x, Current) = Cardinality(A) + Cardinality(B)
    BY <2>1, <2>2, CardinalityDisjoint DEF Occurrences, S
  <2>4. Cardinality(B) = Occurrences(x, failures)
    <3>1. Cardinality(B) = Cardinality({k \in failed : Current[k] = x})
      BY <1>1 DEF FirstOfEach
    <3>2. {k \in failed : Current[k] = x} = {k \in DOMAIN failures : failures[k] = x}
      OBVIOUS
    <3>3. Cardinality({k \in failed : Current[k] = x}) =
            Cardinality({k \in DOMAIN failures : failures[k] = x})
      BY <3>2
    <3> HIDE DEF failures
    <3> QED
      BY <3>1, <3>3 DEF Occurrences
  <2>5. ExistsBijection(C, A)
    <3> DEFINE g == [k \in C |-> f[k]]
    <3>1. g \in [C -> A]
      BY <1>2
    <3>2. \A j, k \in C : g[j] = g[k] => j = k
      BY <1>7 DEF Bijection, Injection, IsInjective
    <3>3. \A a \in A : \E k \in C : g[k] = a
      BY <1>7 DEF Bijection, Surjection
    <3>4. g \in Bijection(C, A)
      BY <3>1, <3>2, <3>3 DEF Bijection, Injection, Surjection, IsInjective
    <3> QED
      BY <3>4 DEF ExistsBijection
  <2>6. Cardinality(C) = Cardinality(A)
    <3>1. IsFiniteSet(C)
      <4>1. IsFiniteSet(1 .. m)
        BY <1>6, FS_Interval
      <4> QED
        BY <4>1, FS_Subset
    <3> HIDE DEF A, C
    <3> QED
      BY <2>5, <3>1, FS_Bijection
  <2>7. Occurrences(x, s) = Cardinality(A)
    BY <2>6 DEF Occurrences
  <2>8. Cardinality(A) \in Nat /\ Cardinality(B) \in Nat
    BY <2>2, FS_CardinalityType
  <2> QED
    BY <2>3, <2>4, <2>7, <2>8
<1>11. /\ commands' \in 0 .. MaxCommands
       /\ attached \in [Processors -> Int] /\ stray \in [Processors -> Nat]
  BY PipelineAssumption DEF OnInitialize, Command, ManagerInv, ManagerTypeOK
<1> HIDE DEF s, failures
<1>12. attached' \in [Processors -> Int]
  <2>1. \A x \in Processors : attached[x] - Occurrences(x, failures) \in Int
    BY <1>10, <1>11
  <2> QED
    BY <1>4, <2>1
<1>13. \A x \in Processors :
         attached'[x] = attached[x] + Occurrences(x, s) - Occurrences(x, pipelines[current])
  <2>1. \A x : Occurrences(x, Current) \in Nat
    BY <1>3, PositionsFinite
  <2> QED
    BY <1>4, <1>10, <1>11, <2>1 DEF Current
<1>14. Len(s) <= MaxLength
  BY <1>3, <1>6, <1>8, PipelineAssumption
<1> QED
  BY <1>3, <1>4, <1>8, <1>9, <1>11, <1>12, <1>13, <1>14, PipelineChanged

---------------------------------------------------------------------------
(* The theorems about pipelines *)

LEMMA ManagerStep ==
  ManagerInv /\ [ManagerNext]_managerVars => ManagerInv'
<1> SUFFICES ASSUME ManagerInv, [ManagerNext]_managerVars
             PROVE  ManagerInv'
  OBVIOUS
<1>1. CASE UNCHANGED managerVars
  BY <1>1
  DEF managerVars, ManagerInv, ManagerTypeOK, AttachedIfCurrent, UsedRegistered, Current,
      Occurrences
<1>2. CASE ManagerNext
  BY <1>2, RegisterEventProcessorStep, RmEvpStep, CreatePipelineStep, ClearPipelineStep,
     SetCurrentPipelineStep, RemoveEventProcessorStep, InsertEventProcessorStep,
     ClonePipelineStep, OnInitializeStep
  DEF ManagerNext
<1> QED
  BY <1>1, <1>2

\* Only commands change what the manager has.
LEMMA AnalyzerManages ==
  [Next]_vars => [ManagerNext]_managerVars
<1> SUFFICES ASSUME Next PROVE [ManagerNext]_managerVars
  BY DEF vars, managerVars
<1>1. CASE Manage
  BY <1>1 DEF Manage
<1>2. CASE \E entities \in 1 .. MaxEntities, body \in Bodies : OnPhysics(entities, body)
  BY <1>2 DEF OnPhysics
<1>3. CASE PhysicsStep
  BY <1>3
  DEF PhysicsStep, AcceptEvent, RejectEvent, FormatError, EventThrows, OnEvent, Flush, EndPhysics
<1> QED
  BY <1>1, <1>2, <1>3 DEF Next

LEMMA ManagerInvariant ==
  Spec => []ManagerInv
<1>1. ManagerInv /\ [Next]_vars => ManagerInv'
  BY ManagerStep, AnalyzerManages
<1> QED
  BY AnalyzerStarts, <1>1, PTL DEF Spec

\* A pipeline never has a processor that was removed from the registered ones (rmevp,
\* pipelinesUsing), whatever the order of the commands and of the items between them.
THEOREM PipelinesUseRegistered ==
  Spec => []UsedRegistered
<1>1. ManagerInv => UsedRegistered
  BY DEF ManagerInv
<1> QED
  BY ManagerInvariant, <1>1, PTL

\* OnAttach has been called once more than OnDetach for each time that a processor occurs in
\* the current pipeline, less the calls of OnDetach for pipelines that were not current
\* (detachIfCurrent).
THEOREM AttachedWhileCurrent ==
  Spec => []AttachedIfCurrent
<1>1. ManagerInv => AttachedIfCurrent
  BY DEF ManagerInv
<1> QED
  BY ManagerInvariant, <1>1, PTL


---------------------------------------------------------------------------
(* Members of a sequence, each of which occurs once                        *)

LEMMA ToSetIs ==
  ASSUME NEW S, NEW s \in Seq(S)
  PROVE  /\ ToSet(s) \subseteq S /\ (s = <<>> => ToSet(s) = {})
         /\ \A k \in 1 .. Len(s) : s[k] \in ToSet(s)
         /\ \A x \in ToSet(s) : \E k \in 1 .. Len(s) : s[k] = x
<1>1. DOMAIN s = 1 .. Len(s)
  OBVIOUS
<1> QED
  BY <1>1 DEF ToSet

LEMMA InjectiveAppend ==
  ASSUME NEW S, NEW s \in Seq(S), NEW x \in S
  PROVE  /\ Append(s, x) \in Seq(S) /\ ToSet(Append(s, x)) = ToSet(s) \cup {x}
         /\ IsInjective(Append(s, x)) <=> IsInjective(s) /\ x \notin ToSet(s)
<1>n. PICK n \in Nat : n = Len(s)
  OBVIOUS
<1>t. PICK t \in Seq(S) : t = Append(s, x)
  BY AppendProperties
<1>1. Len(t) = n + 1 /\ t[n + 1] = x /\ \A k \in 1 .. n : t[k] = s[k]
  BY <1>n, <1>t, AppendProperties
<1>d. DOMAIN s = 1 .. n /\ DOMAIN t = 1 .. n + 1
  BY <1>1, <1>n
<1>2. /\ \A k \in 1 .. n + 1 : k = n + 1 \/ k \in 1 .. n
      /\ n + 1 \in 1 .. n + 1 /\ \A k \in 1 .. n : k \in 1 .. n + 1 /\ k # n + 1
  OBVIOUS
<1>3. ToSet(t) = ToSet(s) \cup {x}
  BY <1>1, <1>2, <1>d DEF ToSet
<1>4. ASSUME IsInjective(t)
      PROVE  IsInjective(s) /\ x \notin ToSet(s)
  BY <1>1, <1>2, <1>4, <1>d DEF IsInjective, ToSet
<1>5. ASSUME IsInjective(s), x \notin ToSet(s)
      PROVE  IsInjective(t)
  BY <1>1, <1>2, <1>5, <1>d DEF IsInjective, ToSet
<1> QED
  BY <1>3, <1>4, <1>5, <1>t

\* t is s, but for x in place of s[k].
Exchanged(t, s, k, x) ==
  /\ Len(t) = Len(s) /\ IsInjective(t)
  /\ ToSet(t) = (ToSet(s) \ {s[k]}) \cup {x}

LEMMA InjectiveReplace ==
  ASSUME NEW S, NEW s \in Seq(S), NEW x \in S, NEW k \in 1 .. Len(s), NEW t, t = ReplaceAt(s, k, x),
         IsInjective(s), x \notin ToSet(s)
  PROVE  t \in Seq(S) /\ Exchanged(t, s, k, x)
<1>n. PICK n \in Nat : n = Len(s)
  OBVIOUS
<1>r. t = [s EXCEPT ![k] = x]
  BY DEF ReplaceAt
<1>d. DOMAIN s = 1 .. n /\ DOMAIN t = 1 .. n /\ k \in 1 .. n
  BY <1>n, <1>r
<1>1. t[k] = x /\ \A j \in 1 .. n : j # k => t[j] = s[j]
  BY <1>d, <1>r
<1>2. t \in Seq(S) /\ Len(t) = n
  <2>1. \A j \in 1 .. n : s[j] \in S
    BY <1>n
  <2>2. t \in [1 .. n -> S]
    BY <1>1, <1>d, <1>r, <2>1
  <2> QED
    BY <1>d, <2>2
<1>3. ToSet(t) = (ToSet(s) \ {s[k]}) \cup {x}
  BY <1>1, <1>d DEF ToSet, IsInjective
<1>4. IsInjective(t)
  BY <1>1, <1>d DEF ToSet, IsInjective
<1> QED
  BY <1>1, <1>2, <1>3, <1>4, <1>n DEF Exchanged

LEMMA InjectiveConcat ==
  ASSUME NEW S, NEW s \in Seq(S), NEW t \in Seq(S)
  PROVE  /\ s \o t \in Seq(S) /\ ToSet(s \o t) = ToSet(s) \cup ToSet(t)
         /\ IsInjective(s \o t) <=> IsInjective(s) /\ IsInjective(t) /\ ToSet(s) \cap ToSet(t) = {}
<1>x. PICK x \in Seq(S) : x = s \o t
  BY ConcatProperties
<1>1. Parts(x, s, t)
  BY <1>x, ConcatAt, Zenon
<1>i. PICK i \in Nat : i = Len(s)
  OBVIOUS
<1>j. PICK j \in Nat : j = Len(t)
  OBVIOUS
<1>2. Len(x) = i + j /\ (\A k \in 1 .. i : x[k] = s[k]) /\ \A k \in 1 .. j : x[i + k] = t[k]
  BY <1>1, <1>i, <1>j DEF Parts
<1>d. DOMAIN x = 1 .. i + j /\ DOMAIN s = 1 .. i /\ DOMAIN t = 1 .. j
  BY <1>2, <1>i, <1>j
<1>3. \A k \in 1 .. i : k \in 1 .. i + j
  OBVIOUS
<1>4. \A k \in 1 .. j : i + k \in 1 .. i + j /\ i + k \notin 1 .. i
  OBVIOUS
<1>5. \A k \in 1 .. i + j : k \in 1 .. i \/ \E l \in 1 .. j : k = i + l
  <2> TAKE k \in 1 .. i + j
  <2>1. k \notin 1 .. i => k - i \in 1 .. j /\ k = i + (k - i)
    OBVIOUS
  <2> QED
    BY <2>1
<1>6. \A k, l \in 1 .. j : i + k = i + l => k = l
  OBVIOUS
<1>7. ToSet(x) = ToSet(s) \cup ToSet(t)
  <2>1. \A a \in 1 .. i + j : x[a] \in ToSet(s) \cup ToSet(t)
    <3> TAKE a \in 1 .. i + j
    <3>1. CASE a \in 1 .. i
      BY <1>2, <1>i, <3>1, ToSetIs
    <3>2. CASE \E l \in 1 .. j : a = i + l
      <4>1. PICK l \in 1 .. j : a = i + l
        BY <3>2
      <4> QED
        BY <1>2, <1>j, <4>1, ToSetIs
    <3> QED
      BY <1>5, <3>1, <3>2
  <2>2. \A a \in 1 .. i : s[a] \in ToSet(x)
    BY <1>2, <1>3, ToSetIs
  <2>3. \A a \in 1 .. j : t[a] \in ToSet(x)
    BY <1>2, <1>4, ToSetIs
  <2> QED
    BY <1>d, <2>1, <2>2, <2>3 DEF ToSet
<1>8. ASSUME IsInjective(x)
      PROVE  IsInjective(s) /\ IsInjective(t) /\ ToSet(s) \cap ToSet(t) = {}
  <2>0. \A a, b \in 1 .. i + j : x[a] = x[b] => a = b
    BY <1>8, <1>d DEF IsInjective
  <2>1. \A a, b \in 1 .. i : s[a] = s[b] => a = b
    BY <1>2, <1>3, <2>0
  <2>2. \A a, b \in 1 .. j : t[a] = t[b] => a = b
    BY <1>2, <1>4, <1>6, <2>0
  <2>3. \A a \in 1 .. i, b \in 1 .. j : s[a] # t[b]
    BY <1>2, <1>3, <1>4, <2>0
  <2> QED
    BY <1>d, <2>1, <2>2, <2>3 DEF IsInjective, ToSet
<1>9. ASSUME IsInjective(s), IsInjective(t), ToSet(s) \cap ToSet(t) = {}
      PROVE  IsInjective(x)
  <2>1. \A a, b \in 1 .. i : s[a] = s[b] => a = b
    BY <1>9, <1>d DEF IsInjective
  <2>2. \A a, b \in 1 .. j : t[a] = t[b] => a = b
    BY <1>9, <1>d DEF IsInjective
  <2>3. \A a \in 1 .. i, b \in 1 .. j : s[a] # t[b]
    BY <1>9, <1>d DEF ToSet
  <2> SUFFICES ASSUME NEW a \in 1 .. i + j, NEW b \in 1 .. i + j, x[a] = x[b]
               PROVE  a = b
    BY <1>d DEF IsInjective
  <2>4. CASE a \in 1 .. i /\ b \in 1 .. i
    BY <1>2, <2>1, <2>4
  <2>5. CASE a \in 1 .. i /\ \E l \in 1 .. j : b = i + l
    <3>1. PICK l \in 1 .. j : b = i + l
      BY <2>5
    <3>2. x[a] = s[a] /\ x[b] = t[l]
      BY <1>2, <2>5, <3>1
    <3> QED
      BY <2>3, <2>5, <3>2
  <2>6. CASE b \in 1 .. i /\ \E l \in 1 .. j : a = i + l
    <3>1. PICK l \in 1 .. j : a = i + l
      BY <2>6
    <3>2. x[b] = s[b] /\ x[a] = t[l]
      BY <1>2, <2>6, <3>1
    <3> QED
      BY <2>3, <2>6, <3>2
  <2>7. CASE (\E l \in 1 .. j : a = i + l) /\ \E l \in 1 .. j : b = i + l
    <3>1. PICK l \in 1 .. j : a = i + l
      BY <2>7
    <3>2. PICK m \in 1 .. j : b = i + m
      BY <2>7
    <3>3. x[a] = t[l] /\ x[b] = t[m]
      BY <1>2, <3>1, <3>2
    <3>4. l = m
      BY <2>2, <3>3
    <3> QED
      BY <3>1, <3>2, <3>4
  <2> QED
    BY <1>5, <2>4, <2>5, <2>6, <2>7
<1> QED
  BY <1>7, <1>8, <1>9, <1>x

LEMMA FrontAndLast ==
  ASSUME NEW S, NEW s \in Seq(S), s # <<>>
  PROVE  Front(s) \in Seq(S) /\ Last(s) \in S /\ s = Append(Front(s), Last(s)) /\ Len(Front(s)) = Len(s) - 1
<1>n. PICK n \in Nat : n = Len(s) /\ n >= 1
  BY EmptySeq
<1>1. SubSeq(s, 1, n - 1) \in Seq(S)
  BY <1>n, SubSeqProperties
<1>f. PICK f \in Seq(S) : f = SubSeq(s, 1, n - 1)
  BY <1>1
<1>2. Len(f) = n - 1 /\ \A k \in 1 .. n - 1 : f[k] = s[k]
  BY <1>f, <1>n, SubSeqProperties
<1>3. s[n] \in S
  BY <1>n
<1>t. PICK t \in Seq(S) : t = Append(f, s[n])
  BY <1>3, AppendProperties
<1>4. Len(t) = n /\ t[n] = s[n] /\ \A k \in 1 .. n - 1 : t[k] = f[k]
  <2>1. Len(t) = Len(f) + 1 /\ t[Len(f) + 1] = s[n] /\ \A k \in 1 .. Len(f) : t[k] = f[k]
    BY <1>3, <1>t, AppendProperties
  <2>2. n - 1 + 1 = n
    BY <1>n
  <2> QED
    BY <1>2, <2>1, <2>2
<1>5. \A k \in 1 .. n : k = n \/ k \in 1 .. n - 1
  BY <1>n
<1>6. \A k \in 1 .. n : s[k] = t[k]
  BY <1>2, <1>4, <1>5
<1>7. s = t
  BY <1>4, <1>6, <1>n, SeqEqual
<1> QED
  BY <1>2, <1>3, <1>7, <1>f, <1>n, <1>t DEF Front, Last


---------------------------------------------------------------------------
(* The slots of the event list that have an event come first.              *)

Filled(l, evs) ==
  /\ Len(evs) <= Len(l)
  /\ \A k \in 1 .. Len(l) : l[k] = IF k <= Len(evs) THEN evs[k] ELSE NoEvent

InSlot(e) == IF e = NoEvent THEN <<>> ELSE <<e>>
InSlots(l) == [k \in DOMAIN l |-> InSlot(l[k])]

LEMMA StoredAppend ==
  ASSUME NEW l \in Seq(Nat), NEW e \in Nat
  PROVE  /\ Stored(Append(l, e)) = Stored(l) \o InSlot(e)
         /\ Stored(l) \in Seq(Nat) /\ Stored(<<>>) = <<>>
<1>1. \A d \in Nat : InSlot(d) \in Seq(Nat)
  BY DEF InSlot
<1>2. \A s \in Seq(Nat) : /\ InSlots(s) \in Seq(Seq(Nat)) /\ Len(InSlots(s)) = Len(s)
                          /\ \A k \in 1 .. Len(s) : InSlots(s)[k] = InSlot(s[k])
  <2> TAKE s \in Seq(Nat)
  <2>1. DOMAIN s = 1 .. Len(s) /\ Len(s) \in Nat /\ \A k \in 1 .. Len(s) : s[k] \in Nat
    OBVIOUS
  <2> QED
    BY <1>1, <2>1 DEF InSlots
<1>3. \A s \in Seq(Nat) : Stored(s) = FlattenSeq(InSlots(s))
  BY DEF Stored, InSlots, InSlot
<1>n. PICK n \in Nat : n = Len(l)
  OBVIOUS
<1>t. PICK t \in Seq(Nat) : t = Append(l, e)
  BY AppendProperties
<1>4. Len(t) = n + 1 /\ t[n + 1] = e /\ \A k \in 1 .. n : t[k] = l[k]
  BY <1>n, <1>t, AppendProperties
<1>p. PICK p \in Seq(Seq(Nat)) : p = InSlots(l)
  BY <1>2
<1>x. PICK x \in Seq(Nat) : x = InSlot(e)
  BY <1>1
<1>q. PICK q \in Seq(Seq(Nat)) : q = Append(p, x)
  BY AppendProperties
<1>5. Len(q) = n + 1 /\ q[n + 1] = x /\ \A k \in 1 .. n : q[k] = p[k]
  <2>1. Len(p) = n
    BY <1>2, <1>n, <1>p
  <2> QED
    BY <1>q, <2>1, AppendProperties
<1>r. PICK r \in Seq(Seq(Nat)) : r = InSlots(t)
  BY <1>2
<1>6. Len(r) = n + 1 /\ \A k \in 1 .. n + 1 : r[k] = InSlot(t[k])
  BY <1>2, <1>4, <1>r
<1>7. \A k \in 1 .. n : p[k] = InSlot(l[k])
  BY <1>2, <1>n, <1>p
<1>8. \A k \in 1 .. n + 1 : k = n + 1 \/ k \in 1 .. n
  OBVIOUS
<1>9. \A k \in 1 .. n + 1 : r[k] = q[k]
  BY <1>4, <1>5, <1>6, <1>7, <1>8, <1>x
<1>10. r = q
  <2>1. Len(r) = Len(q) /\ \A k \in 1 .. Len(r) : r[k] = q[k]
    BY <1>5, <1>6, <1>9
  <2> QED
    BY <2>1, SeqEqual
<1>11. FlattenSeq(q) = FlattenSeq(p) \o x
  BY <1>q, FlattenAppend
<1>12. Stored(t) = Stored(l) \o x
  BY <1>3, <1>10, <1>11, <1>p, <1>r
<1>13. Stored(l) \in Seq(Nat)
  BY <1>3, <1>p, FlattenType
<1>14. Stored(<<>>) = <<>>
  BY DEF Stored, FlattenSeq
<1> QED
  BY <1>12, <1>13, <1>14, <1>t, <1>x

LEMMA StoredIs ==
  ASSUME NEW l \in Seq(Nat), NEW evs \in Seq(Nat \ {NoEvent}), Filled(l, evs)
  PROVE  Stored(l) = evs
<1> DEFINE P == {s \in Seq(Nat) : \A f \in Seq(Nat \ {NoEvent}) : Filled(s, f) => Stored(s) = f}
<1>1. <<>> \in P
  <2>1. <<>> \in Seq(Nat) /\ Len(<<>>) = 0
    BY EmptySeq
  <2>2. ASSUME NEW f \in Seq(Nat \ {NoEvent}), Filled(<<>>, f)
        PROVE  f = <<>>
    <3>1. Len(f) = 0
      BY <2>1, <2>2 DEF Filled
    <3> QED
      BY <3>1, EmptySeq
  <2> QED
    BY <2>1, <2>2, StoredAppend
<1>2. \A s \in Seq(Nat), e \in Nat : s \in P => Append(s, e) \in P
  <2> SUFFICES ASSUME NEW s \in Seq(Nat), NEW e \in Nat, s \in P,
                      NEW f \in Seq(Nat \ {NoEvent}), Filled(Append(s, e), f)
               PROVE  Stored(Append(s, e)) = f
    BY AppendProperties
  <2>n. PICK n \in Nat : n = Len(s)
    OBVIOUS
  <2>m. PICK m \in Nat : m = Len(f)
    OBVIOUS
  <2>t. PICK t \in Seq(Nat) : t = Append(s, e)
    BY AppendProperties
  <2>1. Len(t) = n + 1 /\ t[n + 1] = e /\ \A k \in 1 .. n : t[k] = s[k]
    BY <2>n, <2>t, AppendProperties
  <2>2. m <= n + 1 /\ \A k \in 1 .. n + 1 : t[k] = IF k <= m THEN f[k] ELSE NoEvent
    BY <2>1, <2>m, <2>t DEF Filled
  <2>3. n + 1 \in 1 .. n + 1 /\ \A k \in 1 .. n : k \in 1 .. n + 1
    OBVIOUS
  <2>4. e = IF n + 1 <= m THEN f[n + 1] ELSE NoEvent
    BY <2>1, <2>2, <2>3
  <2>5. \A k \in 1 .. m : f[k] \in Nat /\ f[k] # NoEvent
    BY <2>m
  <2>x. Stored(t) = Stored(s) \o InSlot(e)
    BY <2>t, StoredAppend
  <2>6. CASE m <= n
    <3>1. e = NoEvent /\ InSlot(e) = <<>>
      BY <2>4, <2>6 DEF InSlot
    <3>2. Filled(s, f)
      BY <2>1, <2>2, <2>3, <2>6, <2>m, <2>n DEF Filled
    <3>3. Stored(s) = f
      BY <3>2
    <3>4. f \o <<>> = f
      BY ConcatEmptySeq
    <3> QED
      BY <2>t, <2>x, <3>1, <3>3, <3>4
  <2>7. CASE m = n + 1
    <3>0. e = f[n + 1] /\ e # NoEvent /\ f # <<>>
      BY <2>3, <2>4, <2>5, <2>7, <2>m
    <3>g. PICK g \in Seq(Nat \ {NoEvent}) : g = Front(f)
      BY <3>0, FrontAndLast
    <3>1. Len(g) = n /\ f = Append(g, e)
      <4>1. Len(g) = m - 1 /\ f = Append(g, Last(f))
        BY <2>m, <3>0, <3>g, FrontAndLast
      <4>2. Last(f) = e
        BY <2>7, <2>m, <3>0 DEF Last
      <4> QED
        BY <2>7, <4>1, <4>2
    <3>2. \A k \in 1 .. n : f[k] = g[k]
      BY <3>0, <3>1, AppendProperties
    <3>3. Filled(s, g)
      BY <2>1, <2>2, <2>3, <2>7, <2>n, <3>1, <3>2 DEF Filled
    <3>4. Stored(s) = g
      BY <3>3
    <3>5. g \o <<e>> = Append(g, e)
      BY <3>0, AppendIsConcat
    <3>6. InSlot(e) = <<e>>
      BY <3>0 DEF InSlot
    <3> QED
      BY <2>t, <2>x, <3>1, <3>4, <3>5, <3>6
  <2> QED
    BY <2>2, <2>6, <2>7
<1>3. Seq(Nat) \subseteq P
  <2> HIDE DEF P
  <2> QED BY <1>1, <1>2, SeqInduction
<1> QED
  BY <1>3

\* The histogrammer stops at the first empty slot, and all events are in front of it.
LEMMA LeaderIs ==
  ASSUME NEW l \in Seq(Nat), NEW evs \in Seq(Nat \ {NoEvent}), Filled(l, evs)
  PROVE  Leader(l) = evs
<1>n. PICK n \in Nat : n = Len(l)
  OBVIOUS
<1>m. PICK m \in Nat : m = Len(evs) /\ m <= n
  BY <1>n DEF Filled
<1>1. \A k \in 1 .. n : l[k] = IF k <= m THEN evs[k] ELSE NoEvent
  BY <1>m, <1>n DEF Filled
<1>2. \A k \in 1 .. m : evs[k] # NoEvent
  BY <1>m
<1>3. ASSUME NEW k \in 1 .. n
      PROVE  NoEvent \notin ToSet(SubSeq(l, 1, k)) <=> k \in 1 .. m
  <2>1. SubSeq(l, 1, k) \in Seq(Nat)
    BY <1>n, SubSeqProperties
  <2>s. PICK s \in Seq(Nat) : s = SubSeq(l, 1, k)
    BY <2>1
  <2>2. Len(s) = k /\ \A j \in 1 .. k : s[j] = l[j]
    BY <1>n, <2>s, SubSeqProperties
  <2>3. ASSUME k \in 1 .. m
        PROVE  NoEvent \notin ToSet(s)
    <3>1. \A j \in 1 .. k : j \in 1 .. n /\ j \in 1 .. m /\ j <= m
      BY <2>3
    <3>2. \A j \in 1 .. k : s[j] # NoEvent
      BY <1>1, <1>2, <2>2, <3>1
    <3> QED
      BY <2>2, <3>2, ToSetIs
  <2>4. ASSUME k \notin 1 .. m
        PROVE  NoEvent \in ToSet(s)
    <3>1. ~(k <= m)
      BY <2>4
    <3>2. s[k] = NoEvent
      BY <1>1, <2>2, <3>1
    <3> QED
      BY <2>2, <3>2, ToSetIs, SMTT(30)
  <2> QED
    BY <2>3, <2>4, <2>s
<1>4. {k \in DOMAIN l : NoEvent \notin ToSet(SubSeq(l, 1, k))} = 1 .. m
  <2>1. DOMAIN l = 1 .. n /\ 1 .. m \subseteq 1 .. n
    BY <1>m, <1>n
  <2> QED
    BY <1>3, <2>1
<1>5. Cardinality(1 .. m) = m
  BY FS_Interval
<1>6. Leader(l) = SubSeq(l, 1, m)
  BY <1>4, <1>5 DEF Leader
<1>7. SubSeq(l, 1, m) \in Seq(Nat)
  BY <1>m, <1>n, SubSeqProperties
<1>s. PICK s \in Seq(Nat) : s = SubSeq(l, 1, m)
  BY <1>7
<1>8. Len(s) = m /\ \A j \in 1 .. m : s[j] = l[j]
  BY <1>m, <1>n, <1>s, SubSeqProperties
<1>9. \A j \in 1 .. m : s[j] = evs[j]
  <2>1. \A j \in 1 .. m : j \in 1 .. n /\ j <= m
    BY <1>m
  <2> QED
    BY <1>1, <1>8, <2>1
<1>10. s = evs
  <2>1. evs \in Seq(Nat)
    OBVIOUS
  <2> QED
    BY <1>8, <1>9, <1>m, <2>1, SeqEqual
<1> QED
  BY <1>6, <1>10, <1>s

LEMMA StoredOne ==
  ASSUME NEW e \in Nat
  PROVE  Stored(<<e>>) = IF e = NoEvent THEN <<>> ELSE <<e>>
<1>1. <<>> \in Seq(Nat) /\ Append(<<>>, e) = <<e>>
  BY EmptySeq
<1>2. Stored(<<e>>) = Stored(<<>>) \o InSlot(e) /\ Stored(<<>>) = <<>>
  BY <1>1, StoredAppend
<1>3. InSlot(e) \in Seq(Nat)
  BY DEF InSlot
<1>4. <<>> \o InSlot(e) = InSlot(e)
  BY <1>3, ConcatEmptySeq
<1> QED
  BY <1>2, <1>4 DEF InSlot


---------------------------------------------------------------------------
(* The invariant of the events.  E are the events in the list.             *)

Addresses == 1 .. MaxCalls

PhysicsOK(p) ==
  /\ p \in [pc : {"idle", "loop", "flush"}, entities : 0 .. MaxEntities, body : Bodies \cup {0},
            offset : Nat, number : 0 .. Threshold, size : Sizes \cup {0}]
  /\ p.number = Threshold <=> p.pc = "flush"
  /\ p.pc = "idle" => p.number = 0
  /\ p.body = 0 => p.number = 0

LiveOK(lv, n) == lv \subseteq Addresses /\ IsFiniteSet(lv) /\ Cardinality(lv) <= n

EventTypes ==
  /\ PhysicsOK(physics) /\ eventSize \in Sizes /\ partial \in BOOLEAN
  /\ fault \in {"none", "deleted", "null"} /\ cut \in BOOLEAN
  /\ calls \in 0 .. MaxCalls
  /\ list \in [Slots -> {NoEvent} \cup Addresses]
  /\ pool \in Seq(Addresses) /\ LiveOK(live, calls)
  /\ content \in [Addresses -> 0 .. MaxCalls]
  /\ accepted \in Seq(Nat) /\ ToSet(accepted) \subseteq 1 .. calls
  /\ histogrammed \in Seq(Nat) /\ ToSet(histogrammed) \subseteq 1 .. calls

\* What the events hold.
Values(E, c) == [k \in DOMAIN E |-> c[E[k]]]
Numbered(E, c, n) == \A k \in 1 .. Len(E) : c[E[k]] \in 1 .. n

\* The item's events are in the list, with those that an exception left there.
Listed(E, l, n) == Filled(l, E) /\ n <= Len(E)

Owned(E, p, lv, lk) ==
  /\ IsInjective(E) /\ IsInjective(p) /\ ToSet(E) \cap ToSet(p) = {}
  /\ ToSet(E) \cap lk = {} /\ ToSet(p) \cap lk = {}
  /\ lv = ToSet(E) \cup ToSet(p) \cup lk

\* C is what the events of the list hold.
Recorded(C, a, h, lo) ==
  /\ IsInjective(h) /\ IsInjective(C) /\ ToSet(h) \cap ToSet(C) = {}
  /\ ToSet(a) = ToSet(h) \cup ToSet(C) \cup lo
  /\ (ToSet(h) \cup ToSet(C)) \cap lo = {}
InTurn(C, a, h, lo, n) == a = h \o C /\ lo = {} /\ n = Len(C)

EventsAre(E) ==
  /\ Listed(E, list, physics.number) /\ Owned(E, pool, live, leaked)
  /\ Numbered(E, content, calls)
  /\ Recorded(Values(E, content), accepted, histogrammed, lost)
  /\ cut \/ InTurn(Values(E, content), accepted, histogrammed, lost, physics.number)

EventInv == EventTypes /\ (fault = "none" => \E E \in Seq(Addresses) : EventsAre(E))

LEMMA MaxCallsNat ==
  MaxCalls \in Nat
<1>1. MaxItems * MaxEntities \in Nat
  BY AnalyzerAssumption
<1> QED
  BY <1>1, AnalyzerAssumption DEF MaxCalls

LEMMA ListSeq ==
  ASSUME NEW l \in [Slots -> {NoEvent} \cup Addresses]
  PROVE  l \in Seq(Nat) /\ Len(l) = Threshold /\ DOMAIN l = Slots
<1>1. Threshold \in Nat /\ Slots = 1 .. Threshold
  BY AnalyzerAssumption DEF Slots
<1>2. \A k \in 1 .. Threshold : l[k] \in Nat
  BY <1>1, MaxCallsNat DEF Addresses, NoEvent
<1> QED
  BY <1>1, <1>2

LEMMA AddressesAre ==
  ASSUME NEW E \in Seq(Addresses)
  PROVE  E \in Seq(Nat \ {NoEvent}) /\ E \in Seq(Nat)
<1>1. Addresses \subseteq Nat \ {NoEvent}
  BY MaxCallsNat DEF Addresses, NoEvent
<1>2. \A S, T : S \subseteq T => Seq(S) \subseteq Seq(T)
  OBVIOUS
<1>3. E \in Seq(Nat \ {NoEvent})
  BY <1>1, <1>2, Zenon
<1> QED
  BY <1>2, <1>3

\* V is what the events E hold.
ValuesOf(V, E, c) ==
  V \in Seq(Nat) /\ Len(V) = Len(E) /\ \A k \in 1 .. Len(E) : V[k] = c[E[k]]

LEMMA ValuesAre ==
  ASSUME NEW E \in Seq(Addresses), NEW n \in Nat, NEW c, Numbered(E, c, n)
  PROVE  ValuesOf(Values(E, c), E, c) /\ ToSet(Values(E, c)) \subseteq 1 .. n
<1>n. PICK m \in Nat : m = Len(E)
  OBVIOUS
<1>1. DOMAIN E = 1 .. m
  BY <1>n
<1>v. PICK v : v = Values(E, c)
  OBVIOUS
<1>2. v = [k \in 1 .. m |-> c[E[k]]]
  BY <1>1, <1>v DEF Values
<1>3. \A k \in 1 .. m : v[k] = c[E[k]] /\ v[k] \in 1 .. n
  BY <1>2, <1>n DEF Numbered
<1>4. v \in Seq(Nat) /\ Len(v) = m
  BY <1>2, <1>3
<1>5. ToSet(v) \subseteq 1 .. n
  BY <1>3, <1>4, ToSetIs
<1> QED
  BY <1>3, <1>4, <1>5, <1>n, <1>v DEF ValuesOf

\* d is c but for what e holds.
Changed(d, c, e, x) == d[e] = x /\ \A f \in Addresses : f # e => d[f] = c[f]

\* Events that hold numbers up to n do so up to any x after it, and do not notice what
\* another holds.
LEMMA ValuesKept ==
  ASSUME NEW E \in Seq(Addresses), NEW n \in Nat, NEW c \in [Addresses -> 0 .. MaxCalls], Numbered(E, c, n),
         NEW e \in Addresses, e \notin ToSet(E), NEW x \in Nat, x > n, NEW d, Changed(d, c, e, x)
  PROVE  Values(E, d) = Values(E, c) /\ Numbered(E, d, x) /\ Numbered(E, c, x)
<1>1. \A k \in 1 .. Len(E) : E[k] \in Addresses /\ E[k] # e
  BY ToSetIs
<1>2. \A k \in 1 .. Len(E) : d[E[k]] = c[E[k]]
  BY <1>1 DEF Changed
<1>3. DOMAIN E = 1 .. Len(E)
  OBVIOUS
<1>4. Values(E, d) = Values(E, c)
  BY <1>2, <1>3 DEF Values
<1> QED
  BY <1>2, <1>4 DEF Numbered

---------------------------------------------------------------------------
(* What becomes of the events                                              *)

\* A slot of the list is filled: the one after the last event, or one that has an event.
LEMMA FilledAppend ==
  ASSUME NEW l \in [Slots -> {NoEvent} \cup Addresses], NEW E \in Seq(Addresses), Filled(l, E),
         NEW slot \in Slots, slot = Len(E) + 1, NEW e \in Addresses, NEW m, m = [l EXCEPT ![slot] = e]
  PROVE  l[slot] = NoEvent /\ Filled(m, Append(E, e))
<1>1. Threshold \in Nat /\ Slots = 1 .. Threshold
  BY AnalyzerAssumption DEF Slots
<1>n. PICK n \in Nat : n = Len(E)
  OBVIOUS
<1>2. Len(l) = Threshold /\ n <= Threshold /\ \A k \in 1 .. Threshold : l[k] = IF k <= n THEN E[k] ELSE NoEvent
  BY <1>n, ListSeq DEF Filled
<1>3. slot = n + 1 /\ slot \in 1 .. Threshold
  BY <1>1, <1>n
<1>4. Len(m) = Threshold /\ m[slot] = e /\ \A k \in 1 .. Threshold : k # slot => m[k] = l[k]
  <2>1. DOMAIN l = 1 .. Threshold
    BY <1>1
  <2> QED
    BY <1>1, <1>3, <2>1
<1>F. PICK F \in Seq(Addresses) : F = Append(E, e)
  BY AppendProperties
<1>5. Len(F) = n + 1 /\ F[n + 1] = e /\ \A k \in 1 .. n : F[k] = E[k]
  BY <1>F, <1>n, AppendProperties
<1>6. \A k \in 1 .. Threshold : m[k] = IF k <= n + 1 THEN F[k] ELSE NoEvent
  <2> TAKE k \in 1 .. Threshold
  <2>1. CASE k = n + 1
    BY <1>3, <1>4, <1>5, <2>1
  <2>2. CASE k <= n
    BY <1>2, <1>3, <1>4, <1>5, <2>2
  <2>3. CASE k > n + 1
    BY <1>2, <1>3, <1>4, <2>3
  <2> QED
    BY <2>1, <2>2, <2>3
<1> QED
  BY <1>2, <1>3, <1>4, <1>5, <1>6, <1>F DEF Filled

LEMMA FilledReplace ==
  ASSUME NEW l \in [Slots -> {NoEvent} \cup Addresses], NEW E \in Seq(Addresses), Filled(l, E),
         NEW slot \in Slots, slot <= Len(E), NEW e \in Addresses, NEW m, m = [l EXCEPT ![slot] = e]
  PROVE  l[slot] = E[slot] /\ Filled(m, ReplaceAt(E, slot, e))
<1>1. Threshold \in Nat /\ Slots = 1 .. Threshold
  BY AnalyzerAssumption DEF Slots
<1>n. PICK n \in Nat : n = Len(E)
  OBVIOUS
<1>2. Len(l) = Threshold /\ n <= Threshold /\ \A k \in 1 .. Threshold : l[k] = IF k <= n THEN E[k] ELSE NoEvent
  BY <1>n, ListSeq DEF Filled
<1>3. slot <= n /\ slot \in 1 .. Threshold
  BY <1>1, <1>n
<1>4. Len(m) = Threshold /\ m[slot] = e /\ \A k \in 1 .. Threshold : k # slot => m[k] = l[k]
  <2>1. DOMAIN l = 1 .. Threshold
    BY <1>1
  <2> QED
    BY <1>1, <1>3, <2>1
<1>F. PICK F : F = ReplaceAt(E, slot, e) /\ F = [E EXCEPT ![slot] = e]
  BY DEF ReplaceAt
<1>5. Len(F) = n /\ F[slot] = e /\ \A k \in 1 .. n : k # slot => F[k] = E[k]
  BY <1>3, <1>F, <1>n
<1>6. \A k \in 1 .. Threshold : m[k] = IF k <= n THEN F[k] ELSE NoEvent
  <2> TAKE k \in 1 .. Threshold
  <2>1. CASE k = slot
    BY <1>3, <1>4, <1>5, <2>1
  <2>2. CASE k <= n /\ k # slot
    BY <1>2, <1>4, <1>5, <2>2
  <2>3. CASE k > n
    BY <1>2, <1>3, <1>4, <2>3
  <2> QED
    BY <2>1, <2>2, <2>3
<1>7. l[slot] = E[slot]
  BY <1>2, <1>3
<1> QED
  BY <1>2, <1>4, <1>5, <1>6, <1>7, <1>F DEF Filled

\* e is not in the list and not lost; the pool is r without it.
MadeFrom(E, e, r, lv, lk) ==
  /\ e \in Addresses /\ r \in Seq(Addresses) /\ IsInjective(E) /\ IsInjective(r)
  /\ ToSet(E) \cap ToSet(r) = {} /\ ToSet(E) \cap lk = {} /\ ToSet(r) \cap lk = {}
  /\ e \notin ToSet(E) /\ e \notin ToSet(r) /\ e \notin lk
  /\ lv \cup {e} = ToSet(E) \cup ToSet(r) \cup lk \cup {e}
  /\ lv \ {e} = ToSet(E) \cup ToSet(r) \cup lk

\* CreateEvent gives an event that nobody has.
LEMMA CreatedIs ==
  ASSUME EventTypes, calls < MaxCalls, NEW E \in Seq(Addresses), Owned(E, pool, live, leaked)
  PROVE  /\ MadeFrom(E, Created, RestOfPool, live, leaked)
         /\ LiveOK(live \cup {Created}, calls + 1) /\ LiveOK(live \ {Created}, calls + 1)
<1>1. PICK n \in Nat : n = calls /\ n + 1 \in Addresses /\ 1 .. n + 1 \subseteq Addresses
  BY MaxCallsNat DEF EventTypes, Addresses
<1>2. live \subseteq Addresses /\ IsFiniteSet(live) /\ Cardinality(live) <= n /\ Cardinality(live) \in Nat
  BY <1>1, FS_CardinalityType DEF EventTypes, LiveOK
<1>3. Created \in Addresses /\ RestOfPool \in Seq(Addresses) /\ MadeFrom(E, Created, RestOfPool, live, leaked)
  <2>1. CASE pool = <<>>
    <3>c. PICK c \in Nat : c = Cardinality(live)
      BY <1>2
    <3>1. (1 .. c + 1) \ live # {}
      <4> SUFFICES ASSUME 1 .. c + 1 \subseteq live PROVE FALSE
        OBVIOUS
      <4>1. Cardinality(1 .. c + 1) = c + 1
        BY FS_Interval
      <4>2. Cardinality(1 .. c + 1) <= Cardinality(live)
        BY <1>2, FS_Subset
      <4> QED
        BY <3>c, <4>1, <4>2
    <3>2. FreeAddress \in (1 .. c + 1) \ live
      BY <3>1, <3>c DEF FreeAddress
    <3>3. \A k \in 1 .. c + 1 : k \in 1 .. n + 1
      BY <1>2, <3>c
    <3>4. Created = FreeAddress /\ RestOfPool = pool /\ FreeAddress \in Addresses /\ FreeAddress \notin live
      BY <1>1, <2>1, <3>2, <3>3 DEF Created, RestOfPool
    <3>5. pool \in Seq(Addresses)
      BY DEF EventTypes
    <3> QED
      BY <3>4, <3>5 DEF MadeFrom, Owned
  <2>2. CASE pool # <<>>
    <3>1. pool \in Seq(Addresses)
      BY DEF EventTypes
    <3>r. PICK r \in Seq(Addresses) : r = Front(pool)
      BY <2>2, <3>1, FrontAndLast
    <3>e. PICK e \in Addresses : e = Last(pool)
      BY <2>2, <3>1, FrontAndLast
    <3>2. pool = Append(r, e)
      BY <2>2, <3>1, <3>e, <3>r, FrontAndLast
    <3>3. ToSet(pool) = ToSet(r) \cup {e} /\ (IsInjective(pool) <=> IsInjective(r) /\ e \notin ToSet(r))
      BY <3>2, InjectiveAppend
    <3>4. Created = e /\ RestOfPool = r
      BY <2>2, <3>e, <3>r DEF Created, RestOfPool
    <3>5. MadeFrom(E, e, r, live, leaked)
      BY <3>3 DEF MadeFrom, Owned
    <3> QED
      BY <3>4, <3>5
  <2> QED
    BY <2>1, <2>2
<1>e. PICK e \in Addresses : e = Created
  BY <1>3
<1>4. LiveOK(live \cup {e}, calls + 1)
  <2>1. IsFiniteSet(live \cup {e}) /\ (Cardinality(live \cup {e}) = Cardinality(live) \/ Cardinality(live \cup {e}) = Cardinality(live) + 1)
    BY <1>2, FS_AddElement
  <2>2. Cardinality(live \cup {e}) <= calls + 1
    BY <1>1, <1>2, <2>1
  <2> QED
    BY <1>2, <2>1, <2>2 DEF LiveOK
<1>5. LiveOK(live \ {e}, calls + 1)
  <2>1. IsFiniteSet(live \ {e}) /\ (Cardinality(live \ {e}) = Cardinality(live) \/ Cardinality(live \ {e}) = Cardinality(live) - 1)
    BY <1>2, FS_RemoveElement
  <2>2. Cardinality(live \ {e}) <= calls + 1
    BY <1>1, <1>2, <2>1
  <2> QED
    BY <1>2, <2>1, <2>2 DEF LiveOK
<1> QED
  BY <1>3, <1>4, <1>5, <1>e


LEMMA OwnedAppend ==
  ASSUME NEW E \in Seq(Addresses), NEW e, NEW r, NEW lv, NEW lk, MadeFrom(E, e, r, lv, lk)
  PROVE  Append(E, e) \in Seq(Addresses) /\ Owned(Append(E, e), r, lv \cup {e}, lk)
<1>1. e \in Addresses
  BY DEF MadeFrom
<1>2. /\ Append(E, e) \in Seq(Addresses) /\ ToSet(Append(E, e)) = ToSet(E) \cup {e}
      /\ IsInjective(Append(E, e)) <=> IsInjective(E) /\ e \notin ToSet(E)
  BY <1>1, InjectiveAppend
<1> QED
  BY <1>2 DEF MadeFrom, Owned

LEMMA OwnedReplace ==
  ASSUME NEW E \in Seq(Addresses), NEW e, NEW r, NEW lv, NEW lk, MadeFrom(E, e, r, lv, lk),
         NEW k \in 1 .. Len(E), NEW F, F = ReplaceAt(E, k, e)
  PROVE  F \in Seq(Addresses) /\ Len(F) = Len(E) /\ Owned(F, r, lv \cup {e}, lk \cup {E[k]})
<1>1. e \in Addresses /\ IsInjective(E) /\ e \notin ToSet(E)
  BY DEF MadeFrom
<1>2. F \in Seq(Addresses) /\ Len(F) = Len(E) /\ IsInjective(F) /\ ToSet(F) = (ToSet(E) \ {E[k]}) \cup {e}
  <2>2. F \in Seq(Addresses)
    BY <1>1, InjectiveReplace, Zenon
  <2>3. Exchanged(F, E, k, e)
    BY <1>1, InjectiveReplace, Zenon
  <2> QED
    BY <2>2, <2>3 DEF Exchanged
<1>3. E[k] \in ToSet(E)
  BY ToSetIs
<1> QED
  BY <1>2, <1>3 DEF MadeFrom, Owned

\* The event returns to the pool, or it is deleted.
LEMMA OwnedReturned ==
  ASSUME NEW E \in Seq(Addresses), NEW e, NEW r, NEW lv, NEW lk, MadeFrom(E, e, r, lv, lk)
  PROVE  /\ Append(r, e) \in Seq(Addresses) /\ Owned(E, Append(r, e), lv \cup {e}, lk)
         /\ Owned(E, r, lv \ {e}, lk)
<1>1. e \in Addresses /\ r \in Seq(Addresses)
  BY DEF MadeFrom
<1>2. /\ Append(r, e) \in Seq(Addresses) /\ ToSet(Append(r, e)) = ToSet(r) \cup {e}
      /\ IsInjective(Append(r, e)) <=> IsInjective(r) /\ e \notin ToSet(r)
  BY <1>1, InjectiveAppend
<1> QED
  BY <1>2 DEF MadeFrom, Owned

LEMMA NoneInjective ==
  IsInjective(<<>>) /\ ToSet(<<>>) = {}
BY EmptySeq DEF IsInjective, ToSet

LEMMA OwnedCleared ==
  ASSUME NEW E \in Seq(Addresses), NEW p \in Seq(Addresses), NEW lv, NEW lk, Owned(E, p, lv, lk)
  PROVE  p \o E \in Seq(Addresses) /\ Owned(<<>>, p \o E, lv, lk)
<1>1. /\ p \o E \in Seq(Addresses) /\ ToSet(p \o E) = ToSet(p) \cup ToSet(E)
      /\ IsInjective(p \o E) <=> IsInjective(p) /\ IsInjective(E) /\ ToSet(p) \cap ToSet(E) = {}
  BY InjectiveConcat
<1> QED
  BY <1>1, NoneInjective DEF Owned

\* An accepted event is the last of the list.
LEMMA RecordedAppend ==
  ASSUME NEW C \in Seq(Nat), NEW a \in Seq(Nat), NEW h \in Seq(Nat), NEW lo, Recorded(C, a, h, lo),
         NEW n \in Nat, ToSet(a) \subseteq 1 .. n, NEW x \in Nat, x > n
  PROVE  Recorded(Append(C, x), Append(a, x), h, lo)
<1>1. x \notin 1 .. n
  OBVIOUS
<1>2. /\ ToSet(Append(C, x)) = ToSet(C) \cup {x}
      /\ IsInjective(Append(C, x)) <=> IsInjective(C) /\ x \notin ToSet(C)
  BY InjectiveAppend
<1>3. ToSet(Append(a, x)) = ToSet(a) \cup {x}
  BY InjectiveAppend
<1>4. x \notin ToSet(C) /\ x \notin ToSet(h) /\ x \notin lo
  BY <1>1 DEF Recorded
<1> QED
  BY <1>2, <1>3, <1>4 DEF Recorded

\* It takes the slot of an event that is lost.
LEMMA RecordedReplace ==
  ASSUME NEW C \in Seq(Nat), NEW a \in Seq(Nat), NEW h \in Seq(Nat), NEW lo, Recorded(C, a, h, lo),
         NEW n \in Nat, ToSet(a) \subseteq 1 .. n, NEW x \in Nat, x > n,
         NEW k \in 1 .. Len(C), NEW D, D = ReplaceAt(C, k, x)
  PROVE  Recorded(D, Append(a, x), h, lo \cup {C[k]})
<1>1. x \notin 1 .. n
  OBVIOUS
<1>2. ToSet(Append(a, x)) = ToSet(a) \cup {x}
  BY InjectiveAppend
<1>3. x \notin ToSet(C) /\ x \notin ToSet(h) /\ x \notin lo /\ IsInjective(C)
  BY <1>1 DEF Recorded
<1>5. Exchanged(D, C, k, x)
  BY <1>3, InjectiveReplace, Zenon
<1>6. ToSet(D) = (ToSet(C) \ {C[k]}) \cup {x} /\ IsInjective(D)
  BY <1>5 DEF Exchanged
<1>7. C[k] \in ToSet(C)
  BY ToSetIs
<1>c. PICK c : c = C[k]
  OBVIOUS
<1> QED
  BY <1>2, <1>3, <1>6, <1>7, <1>c DEF Recorded

\* The list is histogrammed, or it is forgotten.
LEMMA RecordedCleared ==
  ASSUME NEW C \in Seq(Nat), NEW a \in Seq(Nat), NEW h \in Seq(Nat), NEW lo, Recorded(C, a, h, lo)
  PROVE  /\ h \o C \in Seq(Nat) /\ ToSet(h \o C) = ToSet(h) \cup ToSet(C)
         /\ Recorded(<<>>, a, h \o C, lo) /\ Recorded(<<>>, a, h, lo \cup ToSet(C))
<1>1. /\ h \o C \in Seq(Nat) /\ ToSet(h \o C) = ToSet(h) \cup ToSet(C)
      /\ IsInjective(h \o C) <=> IsInjective(h) /\ IsInjective(C) /\ ToSet(h) \cap ToSet(C) = {}
  BY InjectiveConcat
<1> QED
  BY <1>1, NoneInjective DEF Recorded

LEMMA InTurnAppend ==
  ASSUME NEW C \in Seq(Nat), NEW a \in Seq(Nat), NEW h \in Seq(Nat), NEW lo, NEW n \in Nat, NEW x \in Nat,
         InTurn(C, a, h, lo, n)
  PROVE  InTurn(Append(C, x), Append(a, x), h, lo, n + 1)
<1>1. h \o Append(C, x) = Append(h \o C, x)
  <2>1. Append(C, x) = C \o <<x>> /\ <<x>> \in Seq(Nat) /\ h \o C \in Seq(Nat)
    BY AppendIsConcat, OneMember, ConcatProperties
  <2>2. (h \o C) \o <<x>> = h \o (C \o <<x>>)
    BY <2>1, ConcatThree, SMTT(30)
  <2>3. Append(h \o C, x) = (h \o C) \o <<x>>
    BY <2>1, AppendIsConcat
  <2> QED
    BY <2>1, <2>2, <2>3
<1>2. Len(Append(C, x)) = Len(C) + 1
  BY AppendProperties
<1> QED
  BY <1>1, <1>2 DEF InTurn

LEMMA InTurnCleared ==
  ASSUME NEW C \in Seq(Nat), NEW a \in Seq(Nat), NEW h \in Seq(Nat), NEW lo, NEW n \in Nat,
         InTurn(C, a, h, lo, n)
  PROVE  /\ InTurn(<<>>, a, h \o C, lo, 0) /\ (n = 0 => InTurn(<<>>, a, h, lo \cup ToSet(C), 0))
         /\ (n = 0 => InTurn(C, a, h, lo, 0) /\ C = <<>>)
<1>1. h \o C \in Seq(Nat) /\ Len(<<>>) = 0
  BY ConcatProperties, EmptySeq
<1>2. (h \o C) \o <<>> = h \o C /\ h \o <<>> = h
  BY <1>1, ConcatEmptySeq
<1>3. n = 0 => C = <<>>
  BY EmptySeq DEF InTurn
<1> QED
  BY <1>1, <1>2, <1>3, NoneInjective DEF InTurn


\* The events E hold V, calls up to n.
Holding(E, c, V, n) == Values(E, c) = V /\ Numbered(E, c, n)

\* What the events hold when e, which holds x, comes to the list.
LEMMA ValuesAppend ==
  ASSUME NEW E \in Seq(Addresses), NEW n \in Nat, NEW c \in [Addresses -> 0 .. MaxCalls], Numbered(E, c, n),
         NEW e \in Addresses, e \notin ToSet(E), NEW x \in Nat, x > n, NEW d, Changed(d, c, e, x)
  PROVE  Holding(Append(E, e), d, Append(Values(E, c), x), x)
<1>n. PICK m \in Nat : m = Len(E)
  OBVIOUS
<1>F. PICK F \in Seq(Addresses) : F = Append(E, e)
  BY AppendProperties
<1>1. Len(F) = m + 1 /\ F[m + 1] = e /\ \A k \in 1 .. m : F[k] = E[k]
  BY <1>F, <1>n, AppendProperties
<1>2. Values(E, d) = Values(E, c) /\ Numbered(E, d, x)
  BY ValuesKept
<1>3. d[e] = x /\ x \in 1 .. x
  BY DEF Changed
<1>4. \A k \in 1 .. m + 1 : k \in 1 .. m \/ k = m + 1
  OBVIOUS
<1>5. \A k \in 1 .. m : d[E[k]] \in 1 .. x
  BY <1>2, <1>n DEF Numbered
<1>6. Numbered(F, d, x)
  BY <1>1, <1>3, <1>4, <1>5 DEF Numbered
<1>7. ValuesOf(Values(E, d), E, d)
  BY <1>2, ValuesAre, Zenon
<1>C. PICK C \in Seq(Nat) : C = Values(E, c)
  BY <1>2, <1>7 DEF ValuesOf
<1>8. Len(C) = m /\ \A k \in 1 .. m : C[k] = d[E[k]]
  BY <1>2, <1>7, <1>C, <1>n DEF ValuesOf
<1>9. ValuesOf(Values(F, d), F, d)
  BY <1>6, ValuesAre, Zenon
<1>v. PICK v \in Seq(Nat) : v = Values(F, d)
  BY <1>9 DEF ValuesOf
<1>10. Len(v) = m + 1 /\ \A k \in 1 .. m + 1 : v[k] = d[F[k]]
  BY <1>1, <1>9, <1>v DEF ValuesOf
<1>w. PICK w \in Seq(Nat) : w = Append(C, x)
  BY AppendProperties, Zenon
<1>11. Len(w) = m + 1 /\ w[m + 1] = x /\ \A k \in 1 .. m : w[k] = C[k]
  <2>1. Len(C) = m
    BY <1>8
  <2> QED
    BY <1>w, <2>1, AppendProperties
<1>12. \A k \in 1 .. m + 1 : v[k] = w[k]
  <2> TAKE k \in 1 .. m + 1
  <2>1. CASE k \in 1 .. m
    <3>1. v[k] = d[F[k]] /\ F[k] = E[k]
      BY <1>1, <1>10, <2>1
    <3>2. w[k] = C[k] /\ C[k] = d[E[k]]
      BY <1>8, <1>11, <2>1
    <3> QED
      BY <3>1, <3>2
  <2>2. CASE k = m + 1
    BY <1>1, <1>3, <1>10, <1>11, <2>2
  <2> QED
    BY <1>4, <2>1, <2>2
<1>13. Len(v) = Len(w) /\ \A k \in 1 .. Len(v) : v[k] = w[k]
  BY <1>10, <1>11, <1>12
<1>14. v = w
  BY <1>13, SeqEqual
<1> QED
  BY <1>6, <1>14, <1>C, <1>F, <1>v, <1>w DEF Holding

LEMMA ValuesReplace ==
  ASSUME NEW E \in Seq(Addresses), NEW n \in Nat, NEW c \in [Addresses -> 0 .. MaxCalls], Numbered(E, c, n),
         NEW e \in Addresses, e \notin ToSet(E), NEW x \in Nat, x > n, NEW d, Changed(d, c, e, x),
         NEW k \in 1 .. Len(E), NEW F, F = ReplaceAt(E, k, e)
  PROVE  Holding(F, d, ReplaceAt(Values(E, c), k, x), x)
<1>n. PICK m \in Nat : m = Len(E)
  OBVIOUS
<1>f. F = [E EXCEPT ![k] = e]
  BY DEF ReplaceAt
<1>1. DOMAIN E = 1 .. m /\ DOMAIN F = 1 .. m /\ Len(F) = m /\ k \in 1 .. m
  BY <1>f, <1>n
<1>2. F[k] = e /\ \A j \in 1 .. m : j # k => F[j] = E[j]
  BY <1>1, <1>f
<1>3. d[e] = x /\ x \in 1 .. x /\ \A j \in 1 .. m : d[E[j]] = c[E[j]] /\ c[E[j]] \in 1 .. n
  <2>1. \A j \in 1 .. m : E[j] \in Addresses /\ E[j] # e
    BY <1>n, ToSetIs
  <2>2. \A j \in 1 .. m : c[E[j]] \in 1 .. n
    BY <1>n DEF Numbered
  <2>3. x \in 1 .. x
    OBVIOUS
  <2> QED
    BY <2>1, <2>2, <2>3 DEF Changed
<1>4. Values(F, d) = [j \in 1 .. m |-> d[F[j]]] /\ Values(E, c) = [j \in 1 .. m |-> c[E[j]]]
  BY <1>1 DEF Values
<1>5. \A j \in 1 .. m : d[F[j]] = IF j = k THEN x ELSE c[E[j]]
  BY <1>2, <1>3
<1>6. Values(F, d) = ReplaceAt(Values(E, c), k, x)
  <2>c. PICK C : C = Values(E, c)
    OBVIOUS
  <2>1. C = [j \in 1 .. m |-> c[E[j]]]
    BY <1>4, <2>c
  <2>2. [C EXCEPT ![k] = x] = [j \in 1 .. m |-> IF j = k THEN x ELSE c[E[j]]]
    BY <1>1, <2>1
  <2>3. [j \in 1 .. m |-> d[F[j]]] = [j \in 1 .. m |-> IF j = k THEN x ELSE c[E[j]]]
    BY <1>5
  <2>4. Values(F, d) = [j \in 1 .. m |-> IF j = k THEN x ELSE c[E[j]]]
    BY <1>4, <2>3, Zenon
  <2> QED
    BY <2>2, <2>4, <2>c DEF ReplaceAt
<1>7. \A j \in 1 .. m : d[F[j]] \in 1 .. x
  BY <1>3, <1>5
<1> QED
  BY <1>1, <1>6, <1>7 DEF Holding, Numbered

---------------------------------------------------------------------------
(* The loop of OnPhysics                                                   *)

LEMMA IdleOK ==
  PhysicsOK(Idle)
BY AnalyzerAssumption DEF PhysicsOK, Idle

\* An OnEvent call
LEMMA EventSizeOK ==
  ASSUME EventTypes, NEW size \in Sizes, NEW more \in BOOLEAN, OnEvent(size, more)
  PROVE  /\ size \in Sizes /\ size \in Nat /\ eventSize' \in Sizes /\ partial' \in BOOLEAN
         /\ calls' = calls + 1 /\ calls' \in 0 .. MaxCalls /\ calls < MaxCalls /\ calls \in Nat /\ calls' \in Nat
BY MaxCallsNat, AnalyzerAssumption DEF EventTypes, OnEvent, EntityNotDone

LEMMA LoopIs ==
  ASSUME EventTypes, NEW size, NEW more, OnEvent(size, more)
  PROVE  /\ physics.number \in Nat /\ physics.number < Threshold /\ physics.number + 1 \in Slots
         /\ physics.number + 1 \in 0 .. Threshold
         /\ physics.body # 0 /\ physics.pc = "loop" /\ physics.entities \in 1 .. MaxEntities
         /\ physics.offset \in Nat /\ physics.size \in Sizes \cup {0}
BY AnalyzerAssumption, SMTT(30) DEF EventTypes, OnEvent, PhysicsOK, Slots

LEMMA NextEventIs ==
  ASSUME EventTypes, NEW s, NEW more, OnEvent(s, more), NEW size \in Sizes \cup {0},
         NEW number \in 0 .. Threshold, NextEvent(number, size)
  PROVE  PhysicsOK(physics') /\ physics'.number = number
<1> PICK p : p = physics
  OBVIOUS
<1>1. PhysicsOK(p) /\ p.entities \in 1 .. MaxEntities /\ p.body # 0 /\ p.offset \in Nat
  BY LoopIs DEF EventTypes
<1>2. MaxEntities \in Nat /\ Threshold \in Nat \ {0} /\ size \in Nat
  BY AnalyzerAssumption
<1>3. p.offset + size \in Nat /\ p.entities - 1 \in 0 .. MaxEntities /\ p.entities \in 0 .. MaxEntities
  BY <1>1, <1>2
<1>4. PICK entities \in 0 .. MaxEntities :
        physics' = [p EXCEPT !.pc = IF number >= Threshold THEN "flush" ELSE "loop",
                             !.entities = entities, !.offset = @ + size, !.size = size, !.number = number]
  BY <1>3 DEF NextEvent
<1>5. number >= Threshold <=> number = Threshold
  BY <1>2
<1> QED
  BY <1>1, <1>3, <1>4, <1>5 DEF PhysicsOK

LEMMA SizeCheckedIs ==
  ASSUME EventTypes, NEW more, NEW size, OnEvent(size, more), size \in Sizes,
         NEW number \in 0 .. Threshold, SizeChecked(number, size), fault = "none"
  PROVE  /\ PhysicsOK(physics') /\ fault' \in {"none", "deleted", "null"}
         /\ fault' = "none" => physics'.number = number
<1>1. CASE size = 0 /\ ~partial'
  BY <1>1, IdleOK DEF SizeChecked
<1>2. CASE ~(size = 0 /\ ~partial')
  BY <1>2, NextEventIs DEF SizeChecked
<1> QED
  BY <1>1, <1>2


---------------------------------------------------------------------------
(* The steps of the analyzer keep the invariant                            *)

\* What the analyzer knows of its list
LEMMA ListIs ==
  ASSUME EventTypes, NEW E \in Seq(Addresses), EventsAre(E)
  PROVE  /\ Stored(list) = E /\ Leader(list) = E /\ Contents(E) = Values(E, content)
         /\ ValuesOf(Values(E, content), E, content) /\ ToSet(Values(E, content)) \subseteq 1 .. calls
<1>1. list \in Seq(Nat) /\ E \in Seq(Nat \ {NoEvent}) /\ Filled(list, E)
  BY ListSeq, AddressesAre DEF EventTypes, EventsAre, Listed
<1>2. Stored(list) = E
  BY <1>1, StoredIs, Zenon
<1>3. Leader(list) = E
  BY <1>1, LeaderIs, Zenon
<1>4. calls \in Nat /\ Numbered(E, content, calls)
  BY MaxCallsNat DEF EventTypes, EventsAre
<1>5. ValuesOf(Values(E, content), E, content)
  BY <1>4, ValuesAre, Zenon
<1>6. ToSet(Values(E, content)) \subseteq 1 .. calls
  BY <1>4, ValuesAre, Zenon
<1> QED
  BY <1>2, <1>3, <1>5, <1>6 DEF Contents, Values

\* The event is new to the list, and the call fills it.
LEMMA NewEvent ==
  ASSUME EventTypes, NEW E \in Seq(Addresses), EventsAre(E), NEW size \in Sizes, NEW more \in BOOLEAN,
         OnEvent(size, more)
  PROVE  /\ MadeFrom(E, Created, RestOfPool, live, leaked)
         /\ LiveOK(live \cup {Created}, calls') /\ LiveOK(live \ {Created}, calls')
         /\ Created \in Addresses /\ Created \notin ToSet(E) /\ RestOfPool \in Seq(Addresses)
<1>1. calls < MaxCalls /\ calls' = calls + 1 /\ Owned(E, pool, live, leaked)
  BY EventSizeOK DEF EventsAre
<1>2. MadeFrom(E, Created, RestOfPool, live, leaked)
  BY <1>1, CreatedIs, Zenon
<1>3. LiveOK(live \cup {Created}, calls + 1)
  BY <1>1, CreatedIs, Zenon
<1>4. LiveOK(live \ {Created}, calls + 1)
  BY <1>1, CreatedIs, Zenon
<1> QED
  BY <1>1, <1>2, <1>3, <1>4 DEF MadeFrom

\* What is typed after a call whatever becomes of the event.
CallTypes ==
  /\ eventSize \in Sizes /\ partial \in BOOLEAN /\ calls \in 0 .. MaxCalls
  /\ ToSet(histogrammed) \subseteq 1 .. calls

LEMMA CallTyped ==
  ASSUME EventTypes, NEW size \in Sizes, NEW more \in BOOLEAN, OnEvent(size, more),
         UNCHANGED histogrammed
  PROVE  CallTypes' /\ 1 .. calls \subseteq 1 .. calls'
<1>1. calls' = calls + 1 /\ calls \in Nat
  BY EventSizeOK
<1>2. 1 .. calls \subseteq 1 .. calls'
  BY <1>1
<1>3. ToSet(histogrammed) \subseteq 1 .. calls
  BY DEF EventTypes
<1> QED
  BY <1>2, <1>3, EventSizeOK DEF CallTypes

LEMMA AcceptStep ==
  ASSUME EventTypes, fault = "none", NEW E \in Seq(Addresses), EventsAre(E),
         NEW size \in Sizes, NEW more \in BOOLEAN, AcceptEvent(size, more)
  PROVE  EventInv'
<1>0. OnEvent(size, more)
  BY DEF AcceptEvent
<1>e. PICK e \in Addresses : e = Created /\ e \notin ToSet(E)
  BY <1>0, NewEvent
<1>r. PICK r \in Seq(Addresses) : r = RestOfPool
  BY <1>0, NewEvent
<1>m. MadeFrom(E, e, r, live, leaked) /\ LiveOK(live \cup {e}, calls')
  BY <1>0, <1>e, <1>r, NewEvent
<1>x. PICK x \in Nat : x = calls' /\ x > calls /\ x \in 0 .. MaxCalls /\ calls \in Nat
  BY <1>0, EventSizeOK
<1>s. PICK slot \in Slots : slot = physics.number + 1 /\ slot \in 0 .. Threshold /\ slot \in Nat
  BY <1>0, LoopIs DEF Slots
<1>1. /\ list' = [list EXCEPT ![slot] = e] /\ content' = [content EXCEPT ![e] = x]
      /\ pool' = r /\ live' = live \cup {e} /\ accepted' = Append(accepted, x)
      /\ SizeChecked(slot, size) /\ histogrammed' = histogrammed /\ cut' = cut
      /\ lost' = lost \cup ToSet(Contents(Stored(<<list[slot]>>)))
      /\ leaked' = leaked \cup ToSet(Stored(<<list[slot]>>))
  BY <1>e, <1>r, <1>s, <1>x DEF AcceptEvent
<1>2. PhysicsOK(physics') /\ fault' \in {"none", "deleted", "null"} /\ (fault' = "none" => physics'.number = slot)
  BY <1>0, <1>1, <1>s, SizeCheckedIs
<1>3. CallTypes' /\ 1 .. calls \subseteq 1 .. x
  BY <1>0, <1>1, <1>x, CallTyped
<1>4. list \in [Slots -> {NoEvent} \cup Addresses] /\ content \in [Addresses -> 0 .. MaxCalls]
  BY DEF EventTypes
<1>5. list' \in [Slots -> {NoEvent} \cup Addresses] /\ content' \in [Addresses -> 0 .. MaxCalls]
  BY <1>1, <1>4, <1>x
<1>6. accepted \in Seq(Nat) /\ ToSet(accepted) \subseteq 1 .. calls /\ histogrammed \in Seq(Nat)
  BY DEF EventTypes
<1>7. accepted' \in Seq(Nat) /\ ToSet(accepted') = ToSet(accepted) \cup {x}
  <2>1. Append(accepted, x) \in Seq(Nat)
    BY <1>6, InjectiveAppend, Zenon
  <2>2. ToSet(Append(accepted, x)) = ToSet(accepted) \cup {x}
    BY <1>6, InjectiveAppend
  <2> QED
    BY <1>1, <2>1, <2>2
<1>8. ToSet(accepted') \subseteq 1 .. x
  <2>1. x \in 1 .. x
    BY <1>x
  <2> QED
    BY <1>3, <1>6, <1>7, <2>1
<1>9. EventTypes'
  BY <1>1, <1>2, <1>3, <1>5, <1>6, <1>7, <1>8, <1>m, <1>x DEF EventTypes, CallTypes
<1>10. Changed(content', content, e, x)
  BY <1>1, <1>4 DEF Changed
<1>C. PICK C \in Seq(Nat) : C = Values(E, content)
  BY ListIs DEF ValuesOf
<1>11. /\ Filled(list, E) /\ Numbered(E, content, calls) /\ slot <= Len(E) + 1 /\ Len(C) = Len(E)
       /\ Recorded(C, accepted, histogrammed, lost)
       /\ cut \/ InTurn(C, accepted, histogrammed, lost, physics.number)
  <2>1. Len(C) = Len(E)
    BY <1>C, ListIs DEF ValuesOf
  <2>2. physics.number <= Len(E) /\ physics.number \in Nat
    BY <1>0, LoopIs DEF EventsAre, Listed
  <2>3. slot <= Len(E) + 1
    BY <1>s, <2>2
  <2> QED
    BY <1>C, <2>1, <2>3 DEF EventsAre, Listed
<1>12. ASSUME slot = Len(E) + 1, fault' = "none"
       PROVE  EventsAre(Append(E, e))'
  <2>F. PICK F \in Seq(Addresses) : F = Append(E, e)
    BY <1>m, OwnedAppend
  <2>1. list[slot] = NoEvent /\ Filled(list', F)
    BY <1>1, <1>4, <1>11, <1>12, <2>F, FilledAppend
  <2>2. Stored(<<list[slot]>>) = <<>>
    BY <2>1, StoredOne DEF NoEvent
  <2>3. Contents(<<>>) = <<>>
    BY DEF Contents
  <2>4. lost' = lost /\ leaked' = leaked
    BY <1>1, <2>2, <2>3, NoneInjective
  <2>5. Len(F) = slot
    BY <1>12, <2>F, AppendProperties
  <2>6. Owned(F, pool', live', leaked')
    BY <1>1, <1>m, <2>4, <2>F, OwnedAppend
  <2>D. PICK D : D = Append(C, x)
    OBVIOUS
  <2>7. Values(F, content') = D /\ Numbered(F, content', x)
    <3>1. Holding(Append(E, e), content', Append(Values(E, content), x), x)
      BY <1>4, <1>10, <1>11, <1>e, <1>x, ValuesAppend, Zenon
    <3> QED
      BY <1>C, <2>D, <2>F, <3>1 DEF Holding
  <2>9. Recorded(D, accepted', histogrammed', lost')
    BY <1>1, <1>6, <1>11, <1>x, <2>4, <2>D, RecordedAppend
  <2>10. cut \/ InTurn(D, accepted', histogrammed', lost', slot)
    <3>1. InTurn(C, accepted, histogrammed, lost, physics.number) =>
            InTurn(Append(C, x), Append(accepted, x), histogrammed, lost, physics.number + 1)
      BY <1>0, <1>6, LoopIs, InTurnAppend
    <3> QED
      BY <1>1, <1>11, <1>s, <2>4, <2>D, <3>1
  <2>11. Listed(F, list', physics'.number)
    BY <1>2, <1>12, <1>s, <2>1, <2>5 DEF Listed
  <2> QED
    BY <1>1, <1>2, <1>12, <1>x, <2>6, <2>7, <2>9, <2>10, <2>11, <2>F DEF EventsAre
<1>13. ASSUME slot <= Len(E), fault' = "none"
       PROVE  EventsAre(ReplaceAt(E, slot, e))' /\ ReplaceAt(E, slot, e) \in Seq(Addresses)
  <2>k. slot \in 1 .. Len(E) /\ slot \in 1 .. Len(C)
    BY <1>11, <1>13, <1>s DEF Slots
  <2>F. PICK F \in Seq(Addresses) : F = ReplaceAt(E, slot, e)
    BY <1>m, <2>k, OwnedReplace
  <2>1. list[slot] = E[slot] /\ Filled(list', F)
    BY <1>1, <1>4, <1>11, <1>13, <2>F, FilledReplace
  <2>o. PICK o \in Addresses : o = E[slot]
    BY <2>k
  <2>2. Stored(<<list[slot]>>) = <<o>>
    <3>1. o \in Nat /\ o # NoEvent
      BY MaxCallsNat DEF NoEvent, Addresses
    <3>2. Stored(<<o>>) = <<o>>
      BY <3>1, StoredOne
    <3> QED
      BY <2>1, <2>o, <3>2
  <2>3. ToSet(Contents(<<o>>)) = {content[o]} /\ ToSet(<<o>>) = {o}
    BY DEF Contents, ToSet
  <2>4. C[slot] = content[o]
    BY <1>C, <2>k, <2>o, ListIs DEF ValuesOf
  <2>5. lost' = lost \cup {C[slot]} /\ leaked' = leaked \cup {E[slot]}
    BY <1>1, <2>2, <2>3, <2>4, <2>o
  <2>6. Owned(F, pool', live', leaked') /\ Len(F) = Len(E)
    <3>1. Owned(F, r, live \cup {e}, leaked \cup {E[slot]})
      BY <1>m, <2>F, <2>k, OwnedReplace, Zenon
    <3>2. Len(F) = Len(E)
      BY <1>m, <2>F, <2>k, OwnedReplace, Zenon
    <3> QED
      BY <1>1, <2>5, <3>1, <3>2
  <2>D. PICK D : D = ReplaceAt(C, slot, x)
    OBVIOUS
  <2>7. Values(F, content') = D /\ Numbered(F, content', x)
    <3>1. Holding(F, content', ReplaceAt(Values(E, content), slot, x), x)
      BY <1>4, <1>10, <1>11, <1>e, <1>x, <2>F, <2>k, ValuesReplace, Zenon
    <3> QED
      BY <1>C, <2>D, <3>1 DEF Holding
  <2>9. Recorded(D, accepted', histogrammed', lost')
    <3>1. Recorded(D, Append(accepted, x), histogrammed, lost \cup {C[slot]})
      BY <1>6, <1>11, <1>x, <2>D, <2>k, RecordedReplace, Zenon
    <3> QED
      BY <1>1, <2>5, <3>1
  <2>10. cut
    BY <1>11, <1>13, <1>s, LoopIs DEF InTurn
  <2>11. Listed(F, list', physics'.number)
    BY <1>2, <1>13, <1>s, <2>1, <2>6 DEF Listed
  <2> QED
    BY <1>1, <1>2, <1>13, <1>x, <2>6, <2>7, <2>9, <2>10, <2>11, <2>F DEF EventsAre
<1>14. slot = Len(E) + 1 \/ slot <= Len(E)
  BY <1>11, <1>s
<1>15. Append(E, e) \in Seq(Addresses)
  BY AppendProperties
<1> QED
  BY <1>9, <1>12, <1>13, <1>14, <1>15 DEF EventInv


LEMMA RejectStep ==
  ASSUME EventTypes, fault = "none", NEW E \in Seq(Addresses), EventsAre(E),
         NEW size \in Sizes, NEW more \in BOOLEAN, RejectEvent(size, more)
  PROVE  EventInv'
<1>0. OnEvent(size, more) /\ UNCHANGED <<list, history>>
  BY DEF RejectEvent
<1>e. PICK e \in Addresses : e = Created /\ e \notin ToSet(E)
  BY <1>0, NewEvent
<1>r. PICK r \in Seq(Addresses) : r = RestOfPool
  BY <1>0, NewEvent
<1>m. MadeFrom(E, e, r, live, leaked) /\ LiveOK(live \cup {e}, calls')
  BY <1>0, <1>e, <1>r, NewEvent
<1>x. PICK x \in Nat : x = calls' /\ x > calls /\ x \in 0 .. MaxCalls /\ calls \in Nat
  BY <1>0, EventSizeOK
<1>s. PICK n \in 0 .. Threshold : n = physics.number
  BY <1>0, LoopIs, AnalyzerAssumption
<1>1. /\ content' = [content EXCEPT ![e] = x] /\ pool' = Append(r, e) /\ live' = live \cup {e}
      /\ SizeChecked(n, size)
  BY <1>e, <1>r, <1>s, <1>x DEF RejectEvent
<1>h. /\ list' = list /\ accepted' = accepted /\ histogrammed' = histogrammed /\ lost' = lost
      /\ leaked' = leaked /\ cut' = cut
  BY <1>0 DEF history
<1>2. PhysicsOK(physics') /\ fault' \in {"none", "deleted", "null"} /\ (fault' = "none" => physics'.number = n)
  BY <1>0, <1>1, SizeCheckedIs
<1>3. CallTypes' /\ 1 .. calls \subseteq 1 .. x
  BY <1>0, <1>h, <1>x, CallTyped
<1>4. content \in [Addresses -> 0 .. MaxCalls]
  BY DEF EventTypes
<1>5. content' \in [Addresses -> 0 .. MaxCalls]
  BY <1>1, <1>4, <1>x
<1>6. Append(r, e) \in Seq(Addresses) /\ Owned(E, Append(r, e), live \cup {e}, leaked)
  BY <1>m, OwnedReturned
<1>7. EventTypes'
  BY <1>1, <1>2, <1>3, <1>5, <1>6, <1>h, <1>m, <1>x DEF EventTypes, CallTypes
<1>8. Changed(content', content, e, x)
  BY <1>1, <1>4 DEF Changed
<1>9. Numbered(E, content, calls)
  BY DEF EventsAre
<1>10. Values(E, content') = Values(E, content)
  BY <1>4, <1>8, <1>9, <1>e, <1>x, ValuesKept
<1>11. Numbered(E, content', x)
  BY <1>4, <1>8, <1>9, <1>e, <1>x, ValuesKept, Zenon
<1>12. ASSUME fault' = "none"
       PROVE  EventsAre(E)'
  BY <1>1, <1>2, <1>6, <1>10, <1>11, <1>12, <1>h, <1>s, <1>x DEF EventsAre
<1> QED
  BY <1>7, <1>12 DEF EventInv

\* The event is deleted, and the list is as it was.
LEMMA EventDeleted ==
  ASSUME EventTypes, NEW E \in Seq(Addresses), EventsAre(E), NEW size \in Sizes, NEW more \in BOOLEAN,
         OnEvent(size, more), pool' = RestOfPool, live' = live \ {Created},
         UNCHANGED <<list, content, fault, accepted, histogrammed, lost, leaked>>,
         PhysicsOK(physics'), cut' \in BOOLEAN
  PROVE  /\ EventTypes' /\ Numbered(E, content', calls') /\ Owned(E, pool', live', leaked')
         /\ Filled(list', E) /\ Recorded(Values(E, content'), accepted', histogrammed', lost')
<1>1. /\ MadeFrom(E, Created, RestOfPool, live, leaked) /\ LiveOK(live', calls') /\ pool' \in Seq(Addresses)
  BY NewEvent
<1>2. CallTypes' /\ 1 .. calls \subseteq 1 .. calls'
  BY CallTyped
<1>3. EventTypes'
  BY <1>1, <1>2 DEF EventTypes, CallTypes
<1>4. Owned(E, RestOfPool, live \ {Created}, leaked)
  BY <1>1, OwnedReturned, Zenon
<1>5. Numbered(E, content, calls')
  BY <1>2 DEF EventsAre, Numbered
<1> QED
  BY <1>3, <1>4, <1>5 DEF EventsAre, Listed

LEMMA FormatErrorStep ==
  ASSUME EventTypes, fault = "none", NEW E \in Seq(Addresses), EventsAre(E),
         NEW size \in Sizes, NEW more \in BOOLEAN, FormatError(size, more)
  PROVE  EventInv'
<1>1. /\ OnEvent(size, more) /\ pool' = RestOfPool /\ live' = live \ {Created}
      /\ UNCHANGED <<list, content, fault, accepted, histogrammed, lost, leaked, cut>>
      /\ NextEvent(physics.number, physics.size)
  BY DEF FormatError, history
<1>2. physics.number \in 0 .. Threshold /\ physics.size \in Sizes \cup {0}
  BY <1>1, LoopIs, AnalyzerAssumption
<1>3. PhysicsOK(physics') /\ physics'.number = physics.number
  BY <1>1, <1>2, NextEventIs
<1>4. cut' \in BOOLEAN
  BY <1>1 DEF EventTypes
<1>5. /\ EventTypes' /\ Numbered(E, content', calls') /\ Owned(E, pool', live', leaked')
      /\ Filled(list', E) /\ Recorded(Values(E, content'), accepted', histogrammed', lost')
  BY <1>1, <1>3, <1>4, EventDeleted
<1>6. EventsAre(E)'
  BY <1>1, <1>3, <1>5 DEF EventsAre, Listed
<1> QED
  BY <1>5, <1>6 DEF EventInv

LEMMA EventThrowsStep ==
  ASSUME EventTypes, fault = "none", NEW E \in Seq(Addresses), EventsAre(E),
         NEW size \in Sizes, NEW more \in BOOLEAN, EventThrows(size, more)
  PROVE  EventInv'
<1>1. /\ OnEvent(size, more) /\ pool' = RestOfPool /\ live' = live \ {Created} /\ physics' = Idle
      /\ UNCHANGED <<list, content, fault, accepted, histogrammed, lost, leaked>>
      /\ cut' = (cut \/ Stored(list) # <<>>)
  BY DEF EventThrows
<1>2. PhysicsOK(physics') /\ physics'.number = 0
  BY <1>1, IdleOK DEF Idle
<1>3. cut' \in BOOLEAN
  BY <1>1 DEF EventTypes
<1>4. /\ EventTypes' /\ Numbered(E, content', calls') /\ Owned(E, pool', live', leaked')
      /\ Filled(list', E) /\ Recorded(Values(E, content'), accepted', histogrammed', lost')
  BY <1>1, <1>2, <1>3, EventDeleted
<1>5. Stored(list) = E /\ ValuesOf(Values(E, content), E, content)
  BY ListIs
<1>6. ~cut' => /\ E = <<>> /\ Len(Values(E, content)) = 0
               /\ InTurn(Values(E, content), accepted, histogrammed, lost, physics.number)
  BY <1>1, <1>5, EmptySeq DEF EventsAre, ValuesOf
<1>7. cut' \/ InTurn(Values(E, content'), accepted', histogrammed', lost', physics'.number)
  BY <1>1, <1>2, <1>6 DEF InTurn
<1>8. EventsAre(E)'
  BY <1>2, <1>4, <1>7 DEF EventsAre, Listed
<1> QED
  BY <1>4, <1>8 DEF EventInv

\* The list is empty, and its events are in the pool.
LEMMA ListCleared ==
  ASSUME EventTypes, NEW E \in Seq(Addresses), EventsAre(E), ClearEventList, UNCHANGED <<live, leaked>>
  PROVE  /\ list' \in [Slots -> {NoEvent} \cup Addresses] /\ pool' \in Seq(Addresses)
         /\ Filled(list', <<>>) /\ Owned(<<>>, pool', live', leaked')
<1>1. list' = [k \in Slots |-> NoEvent] /\ pool' = pool \o E
  BY ListIs DEF ClearEventList
<1>2. pool \in Seq(Addresses) /\ Owned(E, pool, live, leaked)
  BY DEF EventTypes, EventsAre
<1>3. pool \o E \in Seq(Addresses) /\ Owned(<<>>, pool \o E, live, leaked)
  BY <1>2, OwnedCleared
<1>4. list' \in [Slots -> {NoEvent} \cup Addresses]
  BY <1>1
<1>5. Len(list') = Threshold /\ Threshold \in Nat
  BY <1>4, ListSeq, AnalyzerAssumption
<1>6. Filled(list', <<>>)
  BY <1>1, <1>5, EmptySeq DEF Filled, Slots
<1> QED
  BY <1>1, <1>3, <1>4, <1>6

\* HistogramEvents when the item goes on or ends as `after', in which the list is empty.
LEMMA HistogramEventsStep ==
  ASSUME EventTypes, fault = "none", NEW E \in Seq(Addresses), EventsAre(E), NEW after, HistogramEvents(after),
         PhysicsOK(after), after.number = 0,
         UNCHANGED <<eventSize, partial, live, content, calls, accepted, lost, leaked, cut>>
  PROVE  EventInv'
<1>C. PICK C \in Seq(Nat) : C = Values(E, content) /\ ToSet(C) \subseteq 1 .. calls
  BY ListIs DEF ValuesOf
<1>1. Contents(Leader(list)) = C
  BY <1>C, ListIs
<1>2. /\ accepted \in Seq(Nat) /\ histogrammed \in Seq(Nat) /\ ToSet(histogrammed) \subseteq 1 .. calls
      /\ Recorded(C, accepted, histogrammed, lost)
      /\ cut \/ InTurn(C, accepted, histogrammed, lost, physics.number)
  BY <1>C DEF EventTypes, EventsAre
<1>h. PICK h \in Seq(Nat) : h = histogrammed \o C
  BY <1>2, RecordedCleared
<1>3. ToSet(h) \subseteq 1 .. calls /\ Recorded(<<>>, accepted, h, lost)
  <2>1. ToSet(histogrammed \o C) = ToSet(histogrammed) \cup ToSet(C)
    BY <1>2, RecordedCleared
  <2>2. Recorded(<<>>, accepted, histogrammed \o C, lost)
    BY <1>2, RecordedCleared, Zenon
  <2> QED
    BY <1>C, <1>2, <1>h, <2>1, <2>2
<1>4. CASE mpi /\ Stored(list) # list /\ fault' = "null" /\ physics' = Idle /\ UNCHANGED <<list, pool, histogrammed>>
  BY <1>4, IdleOK DEF EventInv, EventTypes
<1>5. CASE histogrammed' = h /\ fault' = "deleted" /\ physics' = Idle /\ UNCHANGED <<list, pool>>
  BY <1>3, <1>5, IdleOK DEF EventInv, EventTypes
<1>6. CASE histogrammed' = h /\ ClearEventList /\ physics' = after /\ UNCHANGED fault
  <2>1. /\ list' \in [Slots -> {NoEvent} \cup Addresses] /\ pool' \in Seq(Addresses)
        /\ Filled(list', <<>>) /\ Owned(<<>>, pool', live', leaked')
    BY <1>6, ListCleared
  <2>2. EventTypes'
    BY <1>3, <1>6, <2>1 DEF EventTypes
  <2>3. Values(<<>>, content') = <<>> /\ Numbered(<<>>, content', calls') /\ Len(<<>>) = 0 /\ <<>> \in Seq(Addresses)
    BY EmptySeq DEF Values, Numbered
  <2>4. Listed(<<>>, list', physics'.number)
    BY <1>6, <2>1, <2>3 DEF Listed
  <2>5. InTurn(C, accepted, histogrammed, lost, physics.number) => InTurn(<<>>, accepted, h, lost, 0)
    <3>1. physics.number \in Nat
      BY AnalyzerAssumption DEF EventTypes, PhysicsOK
    <3> QED
      BY <1>2, <1>h, <3>1, InTurnCleared
  <2>6. EventsAre(<<>>)'
    BY <1>2, <1>3, <1>6, <2>1, <2>3, <2>4, <2>5 DEF EventsAre
  <2> QED
    BY <2>2, <2>3, <2>6 DEF EventInv
<1> QED
  BY <1>1, <1>4, <1>5, <1>6, <1>h DEF HistogramEvents


LEMMA FlushStep ==
  ASSUME EventTypes, fault = "none", NEW E \in Seq(Addresses), EventsAre(E), Flush
  PROVE  EventInv'
<1> PICK p : p = physics
  OBVIOUS
<1> PICK after : after = [p EXCEPT !.pc = "loop", !.number = 0]
  OBVIOUS
<1>1. /\ HistogramEvents(after)
      /\ UNCHANGED <<eventSize, partial, live, content, calls, accepted, lost, leaked, cut>>
  BY DEF Flush, counts
<1>2. PhysicsOK(p) /\ Threshold # 0 /\ 0 \in 0 .. Threshold
  BY AnalyzerAssumption DEF EventTypes
<1>3. PhysicsOK(after) /\ after.number = 0
  BY <1>2 DEF PhysicsOK
<1> QED
  BY <1>1, <1>3, HistogramEventsStep

\* For an empty body what an exception left in the list is lost.
LEMMA NothingInItem ==
  ASSUME EventTypes, fault = "none", NEW E \in Seq(Addresses), EventsAre(E),
         NoBody, physics' = Idle, lost' = lost \cup ToSet(Contents(Stored(list))), ClearEventList,
         UNCHANGED <<eventSize, partial, live, content, calls, accepted, histogrammed, fault, leaked, cut>>
  PROVE  EventInv'
<1>C. PICK C \in Seq(Nat) : C = Values(E, content)
  BY ListIs DEF ValuesOf
<1>1. lost' = lost \cup ToSet(C)
  BY <1>C, ListIs
<1>2. /\ accepted \in Seq(Nat) /\ histogrammed \in Seq(Nat)
      /\ Recorded(C, accepted, histogrammed, lost)
      /\ cut \/ InTurn(C, accepted, histogrammed, lost, physics.number)
  BY <1>C DEF EventTypes, EventsAre
<1>3. Recorded(<<>>, accepted, histogrammed, lost')
  BY <1>1, <1>2, RecordedCleared
<1>4. /\ list' \in [Slots -> {NoEvent} \cup Addresses] /\ pool' \in Seq(Addresses)
      /\ Filled(list', <<>>) /\ Owned(<<>>, pool', live', leaked')
  BY ListCleared
<1>5. EventTypes'
  BY <1>4, IdleOK DEF EventTypes
<1>6. Values(<<>>, content') = <<>> /\ Numbered(<<>>, content', calls') /\ Len(<<>>) = 0 /\ <<>> \in Seq(Addresses)
  BY EmptySeq DEF Values, Numbered
<1>7. physics.number = 0 /\ physics'.number = 0
  BY DEF EventTypes, PhysicsOK, NoBody, Idle
<1>8. cut \/ InTurn(<<>>, accepted, histogrammed, lost', 0)
  BY <1>1, <1>2, <1>7, InTurnCleared
<1>9. EventsAre(<<>>)'
  BY <1>3, <1>4, <1>6, <1>7, <1>8 DEF EventsAre, Listed
<1> QED
  BY <1>5, <1>6, <1>9 DEF EventInv

\* An item without events in the list begins or ends.
LEMMA BetweenItems ==
  ASSUME EventTypes, NEW E \in Seq(Addresses), EventsAre(E),
         physics.number = 0, PhysicsOK(physics'), physics'.number = 0,
         UNCHANGED <<eventSize, partial, list, pool, live, content, calls, accepted, histogrammed, fault,
                     lost, leaked, cut>>
  PROVE  EventInv'
<1>1. EventTypes'
  BY DEF EventTypes
<1>2. EventsAre(E)'
  BY DEF EventsAre
<1> QED
  BY <1>1, <1>2 DEF EventInv

LEMMA EndPhysicsStep ==
  ASSUME EventTypes, fault = "none", NEW E \in Seq(Addresses), EventsAre(E), EndPhysics
  PROVE  EventInv'
<1>1. UNCHANGED <<eventSize, partial, live, content, calls, accepted, leaked, cut>>
  BY DEF EndPhysics, counts
<1>2. PhysicsOK(Idle) /\ Idle.number = 0
  BY IdleOK DEF Idle
<1>3. CASE HistogramEvents(Idle) /\ UNCHANGED lost
  BY <1>1, <1>2, <1>3, HistogramEventsStep
<1>4. CASE /\ NoBody /\ lost' = lost \cup ToSet(Contents(Stored(list)))
           /\ ClearEventList /\ physics' = Idle /\ UNCHANGED <<histogrammed, fault>>
  BY <1>1, <1>4, NothingInItem
<1>5. CASE /\ physics.number = 0 /\ physics' = Idle
           /\ UNCHANGED <<list, pool, histogrammed, fault, lost>>
  BY <1>1, <1>2, <1>5, BetweenItems
<1> QED
  BY <1>3, <1>4, <1>5 DEF EndPhysics

LEMMA OnPhysicsStep ==
  ASSUME EventTypes, fault = "none", NEW E \in Seq(Addresses), EventsAre(E),
         NEW entities \in 1 .. MaxEntities, NEW body \in Bodies, OnPhysics(entities, body)
  PROVE  EventInv'
<1>1. /\ physics.pc = "idle"
      /\ UNCHANGED <<eventSize, partial, list, pool, live, content, calls, accepted, histogrammed, fault,
                     lost, leaked, cut>>
  BY DEF OnPhysics, history
<1>2. PICK size \in Sizes :
        physics' = [pc |-> "loop", entities |-> entities, body |-> body, offset |-> 0, number |-> 0, size |-> size]
  BY DEF OnPhysics
<1>3. entities \in 0 .. MaxEntities /\ 0 \in 0 .. Threshold /\ Threshold # 0
  BY AnalyzerAssumption
<1>4. PhysicsOK(physics') /\ physics'.number = 0
  BY <1>2, <1>3 DEF PhysicsOK
<1>5. physics.number = 0
  BY <1>1 DEF EventTypes, PhysicsOK
<1> QED
  BY <1>1, <1>4, <1>5, BetweenItems

LEMMA EventsKeptWhole ==
  EventInv /\ UNCHANGED <<analyzerVars, counts, history>> => EventInv'
BY DEF EventInv, EventTypes, EventsAre, analyzerVars, counts, history

LEMMA EventStep ==
  EventInv /\ [Next]_vars => EventInv'
<1>1. CASE UNCHANGED vars
  BY <1>1, EventsKeptWhole DEF vars
<1>2. ASSUME EventInv, Next
      PROVE  EventInv'
  <2>0. fault = "none" /\ EventTypes
    BY <1>2 DEF Next, EventInv
  <2>E. PICK E \in Seq(Addresses) : EventsAre(E)
    BY <1>2, <2>0 DEF EventInv
  <2>1. ASSUME NEW entities \in 1 .. MaxEntities, NEW body \in Bodies, OnPhysics(entities, body)
        PROVE  EventInv'
    BY <2>0, <2>1, <2>E, OnPhysicsStep
  <2>2. ASSUME NEW size \in Sizes, NEW more \in BOOLEAN, AcceptEvent(size, more)
        PROVE  EventInv'
    BY <2>0, <2>2, <2>E, AcceptStep
  <2>3. ASSUME NEW size \in Sizes, NEW more \in BOOLEAN, RejectEvent(size, more)
        PROVE  EventInv'
    BY <2>0, <2>3, <2>E, RejectStep
  <2>4. ASSUME NEW size \in Sizes, NEW more \in BOOLEAN, FormatError(size, more)
        PROVE  EventInv'
    BY <2>0, <2>4, <2>E, FormatErrorStep
  <2>5. ASSUME NEW size \in Sizes, NEW more \in BOOLEAN, EventThrows(size, more)
        PROVE  EventInv'
    BY <2>0, <2>5, <2>E, EventThrowsStep
  <2>6. CASE Flush
    BY <2>0, <2>6, <2>E, FlushStep
  <2>7. CASE EndPhysics
    BY <2>0, <2>7, <2>E, EndPhysicsStep
  <2>8. CASE Manage
    BY <1>2, <2>8, EventsKeptWhole DEF Manage
  <2> QED
    BY <1>2, <2>1, <2>2, <2>3, <2>4, <2>5, <2>6, <2>7, <2>8 DEF Next, PhysicsStep
<1> QED
  BY <1>1, <1>2

LEMMA EventsStart ==
  Init => EventInv
<1> SUFFICES ASSUME Init PROVE EventInv
  OBVIOUS
<1>1. /\ physics = Idle /\ eventSize \in Sizes /\ partial = FALSE
      /\ list = [k \in Slots |-> NoEvent] /\ pool = <<>> /\ live = {}
      /\ content = [k \in Addresses |-> 0] /\ fault = "none" /\ calls = 0
      /\ accepted = <<>> /\ histogrammed = <<>> /\ lost = {} /\ leaked = {} /\ cut = FALSE
  BY DEF Init, Addresses
<1>2. <<>> \in Seq(Addresses) /\ <<>> \in Seq(Nat) /\ Len(<<>>) = 0 /\ <<>> \o <<>> = <<>>
  BY EmptySeq, ConcatEmptySeq
<1>3. list \in [Slots -> {NoEvent} \cup Addresses] /\ content \in [Addresses -> 0 .. MaxCalls] /\ 0 \in 0 .. MaxCalls
  BY <1>1, MaxCallsNat
<1>4. LiveOK(live, calls)
  BY <1>1, FS_EmptySet DEF LiveOK
<1>5. EventTypes
  BY <1>1, <1>2, <1>3, <1>4, IdleOK, NoneInjective DEF EventTypes
<1>6. Len(list) = Threshold /\ Threshold \in Nat
  BY <1>3, ListSeq, AnalyzerAssumption
<1>7. Filled(list, <<>>)
  BY <1>1, <1>2, <1>6 DEF Filled, Slots
<1>8. Values(<<>>, content) = <<>> /\ Numbered(<<>>, content, calls)
  BY <1>2 DEF Values, Numbered
<1>9. physics.number = 0
  BY <1>1 DEF Idle
<1>10. EventsAre(<<>>)
  BY <1>1, <1>2, <1>7, <1>8, <1>9, NoneInjective DEF EventsAre, Listed, Owned, Recorded, InTurn
<1> QED
  BY <1>2, <1>5, <1>10 DEF EventInv

LEMMA EventInvariant ==
  Spec => []EventInv
BY EventsStart, EventStep, PTL DEF Spec


\* The variables of the analyzer have their types, and there is a free slot in the list
\* while there are events to unpack: the list never overflows (OnPhysics).
THEOREM AnalyzerTypesCorrect ==
  Spec => []TypeOK
<1>1. ManagerInv /\ EventInv => TypeOK
  BY DEF ManagerInv, EventInv, EventTypes, PhysicsOK, LiveOK, Addresses, TypeOK
<1> QED
  BY ManagerInvariant, EventInvariant, <1>1, PTL

\* Until the program spoils its memory every event object that is allocated is once in the
\* event list or once in the pool, or an exception left it in a slot that another took: no
\* call of createEvent, returnEvent and ClearEventList deals an object twice or loses one.
THEOREM EventObjectsOwned ==
  Spec => []EventsOwned
<1>1. ASSUME EventInv
      PROVE  EventsOwned
  <2> SUFFICES ASSUME fault = "none"
               PROVE  /\ IsInjective(Held) /\ ToSet(Held) \cap leaked = {}
                      /\ live = ToSet(Held) \cup leaked
    BY DEF EventsOwned
  <2>E. PICK E \in Seq(Addresses) : EventsAre(E)
    BY <1>1 DEF EventInv
  <2>1. Stored(list) = E /\ pool \in Seq(Addresses) /\ Owned(E, pool, live, leaked)
    BY <1>1, <2>E, ListIs DEF EventInv, EventTypes, EventsAre
  <2>2. Held = E \o pool
    BY <2>1 DEF Held
  <2>3. /\ ToSet(E \o pool) = ToSet(E) \cup ToSet(pool)
        /\ IsInjective(E \o pool) <=> IsInjective(E) /\ IsInjective(pool) /\ ToSet(E) \cap ToSet(pool) = {}
    BY <2>1, InjectiveConcat
  <2> QED
    BY <2>1, <2>2, <2>3 DEF Owned
<1> QED
  BY EventInvariant, <1>1, PTL

LEMMA PrefixOfConcat ==
  ASSUME NEW S, NEW s \in Seq(S), NEW t \in Seq(S)
  PROVE  IsPrefix(s, s \o t)
<1>n. PICK n \in Nat : n = Len(s)
  OBVIOUS
<1>x. PICK x \in Seq(S) : x = s \o t
  BY ConcatProperties
<1>1. Parts(x, s, t)
  BY <1>x, ConcatAt, Zenon
<1>2. n <= Len(x) /\ \A k \in 1 .. n : x[k] = s[k]
  BY <1>1, <1>n DEF Parts
<1>3. SubSeq(s, 1, n) \in Seq(S) /\ SubSeq(x, 1, n) \in Seq(S)
  BY <1>2, <1>n, SubSeqProperties
<1>a. PICK a \in Seq(S) : a = SubSeq(s, 1, n)
  BY <1>3
<1>b. PICK b \in Seq(S) : b = SubSeq(x, 1, n)
  BY <1>3
<1>4. Len(a) = n /\ \A k \in 1 .. n : a[k] = s[k]
  BY <1>a, <1>n, SubSeqProperties
<1>5. Len(b) = n /\ \A k \in 1 .. n : b[k] = x[k]
  BY <1>2, <1>b, SubSeqProperties
<1>6. Len(a) = Len(b) /\ \A k \in 1 .. Len(a) : a[k] = b[k]
  BY <1>2, <1>4, <1>5
<1>7. a = b
  BY <1>6, SeqEqual
<1> QED
  BY <1>2, <1>7, <1>a, <1>b, <1>n, <1>x DEF IsPrefix

\* Until the program spoils its memory every event that the pipeline accepted goes to the
\* sinks once, waits in the list, or was lost by an exception; without exceptions the events
\* go in the order in which they were accepted, and an item leaves none behind.
THEOREM AcceptedHistogrammedOnce ==
  Spec => []HistogrammedOnce
<1>1. ASSUME EventInv
      PROVE  HistogrammedOnce
  <2>1. SUFFICES ASSUME fault = "none"
                 PROVE  /\ IsInjective(histogrammed \o Contents(Stored(list)))
                        /\ ToSet(accepted) = ToSet(histogrammed) \cup ToSet(Contents(Stored(list))) \cup lost
                        /\ (ToSet(histogrammed) \cup ToSet(Contents(Stored(list)))) \cap lost = {}
                        /\ ~cut => /\ IsPrefix(histogrammed, accepted) /\ lost = {}
                                   /\ physics.pc = "idle" => histogrammed = accepted
    BY DEF HistogrammedOnce
  <2>E. PICK E \in Seq(Addresses) : EventsAre(E)
    BY <1>1, <2>1 DEF EventInv
  <2>C. PICK C \in Seq(Nat) : C = Values(E, content) /\ C = Contents(Stored(list))
    BY <1>1, <2>E, ListIs DEF EventInv, ValuesOf
  <2>2. /\ histogrammed \in Seq(Nat) /\ accepted \in Seq(Nat)
        /\ physics.number \in Nat /\ (physics.pc = "idle" => physics.number = 0)
    BY <1>1, AnalyzerAssumption DEF EventInv, EventTypes, PhysicsOK
  <2>3. /\ Recorded(C, accepted, histogrammed, lost)
        /\ cut \/ InTurn(C, accepted, histogrammed, lost, physics.number)
    BY <2>C, <2>E DEF EventsAre
  <2>4. IsInjective(histogrammed \o C) <=>
          IsInjective(histogrammed) /\ IsInjective(C) /\ ToSet(histogrammed) \cap ToSet(C) = {}
    BY <2>2, InjectiveConcat
  <2>5. ASSUME ~cut
        PROVE  /\ IsPrefix(histogrammed, accepted) /\ lost = {}
               /\ physics.pc = "idle" => histogrammed = accepted
    <3>1. accepted = histogrammed \o C /\ lost = {}
      BY <2>3, <2>5 DEF InTurn
    <3>2. IsPrefix(histogrammed, accepted)
      BY <2>2, <3>1, PrefixOfConcat
    <3>3. physics.number = 0 => C = <<>>
      BY <2>3, <2>5, EmptySeq DEF InTurn
    <3>4. histogrammed \o <<>> = histogrammed
      BY <2>2, ConcatEmptySeq
    <3> QED
      BY <2>2, <3>1, <3>2, <3>3, <3>4
  <2> QED
    BY <2>3, <2>4, <2>5, <2>C DEF Recorded
<1> QED
  BY EventInvariant, <1>1, PTL
===========================================================================
